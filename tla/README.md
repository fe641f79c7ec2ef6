# A TLA+ model of mtm

mtm is a terminal multiplexer: one process that splits a terminal into *views*
(each a program on a pseudo terminal), arranges them in binary trees, and keeps
up to `PANE_MAX` such trees, the *panes*, of which one is on the screen. These
modules model its parts; TLC checks them on small instances and TLAPS proves the
central results about the core, the parser, the terminal, the layout and the line
editor for every size.

## Inventory

| Component | State | Operations | What is hard | What makes it correct | Modelled by |
|---|---|---|---|---|---|
| Multiplexer core: `mtm.c` 760-1660, 1865-2040, 2080-2260, 2831-2872, 3194-3344 | the NODE heap; `t_root`, `t_root_enable`, `t_focused`, `t_lastfocused` per pane; `t_root_index`; the request `t_root_change*`; `fds` | `split`, `deletenode`, `focus`, `swapnode`, `pushnode`, `fetchnode`, `unfetchnode`, `expandnode`, pane requests, `getinput`, the switch of `main` | programs exit at any moment; the `select` result is used after keys were handled; keys typed ahead of a pane change; `newview` fails half way | links agree, nothing dangles, a pane keeps its nodes, the focus is on the screen, mtm ends with its last view | `Multiplexer` |
| Escape sequence parser: `vtparser.c` | state, `args`/`narg`, `inter`, `oscbuf`/`nosc`, shift state | `vtwrite`, `handlechar` | a sequence cut anywhere by a read, CAN, SUB or ESC; counters at their limit | nothing of one sequence reaches the callback of the next; only a sequence with too many parameters is hurt by them | `VTParser` |
| Terminal emulation: `mtm.c` 194-757, 1315-1345, 1396-1415 | cursor, region, tab stops, modes, colours, two screens, scroll-back of a view | about 40 handlers, `reshape`, scrolling back | margins and origin mode in a pad with a scroll-back above; the pending line break; which of the two screens is meant; a view that loses rows | the cursor stays on the screen, no line is lost or moved that should not be, colours and screens come back | `Screen` on `Curses` |
| Colour pairs: `pair.c` | table of pairs | `mtm_alloc_pair` | a full table | one pair per (fg, bg) | `Screen` |
| Layout: `reshape`, `findnode`, `coordinate_findnode`, `window_label` | the rectangles of the nodes | recursive walks, split, delete, swap, full screen, resize | odd and even sizes, partial reshapes, hidden panes, aiming across a separator | children tile the parent; an arrow or a click finds the view that is there | `Layout` |
| Keyboard and mouse: `handlechar`, `mouse_event`, `config.h` | the prefix flag `cmd` | the ordered list of `DO` lines | | each command does what it should | the commands in `Multiplexer`, `Layout`, `Screen` |
| Line editor: `rawline.c`, `lineedit.c` | line, cursor, history and its copy, terminal line | keys, recall, completion, the calls of a program | both ends of the line, limits, history off, an entry edited and left | the line is what was typed, an entry is as it was left, the screen shows it | `RawLine` |
| Save and restore: `mtm.c` 1674-1830, 2260-2830, 2945-3190 | the session file; the tables of a TOML file | `session_save`, `parse_table_s`, `save_restore` | a split that fails; an expanded view | the file determines the trees; what comes up is what was written | `SessionFile`, `Restore` |
| Tree prototype: `tree/` | a tree with four child pointers | walks, `genTree` | the order of the splits | the splits build the tree | `TreePlan` |
| TOML reader: `toml.c` | tables, arrays, values | headers, arrays of tables, dotted keys, inline values, lookups | implicit tables, the last item of an array | nothing is defined twice but where the code means it, and everything is found where its line says | `TomlTable`, `Toml` |
| Status bar: `mtm.c` 2405-2640 | none | drawing | | output only | (labels' places in `Layout`) |
| `log.c`, `readlink.c`, `dir/`, `rawline/`, `mtm.c.old*` | | | | I/O, a standalone copy, earlier versions | |

How they interact: `main` calls `run`, which blocks in `select` on the pseudo
terminals and standard input, hands every waiting key to `handlechar` (which
changes the tree at once, or sets `t_root_change` to ask `main` for a pane
change), then lets `getinput` read the views of the current pane and feed the
bytes to `vtparser`, whose callbacks draw on the view's SCRN. When a request is
pending `run` returns and the switch of `main` changes the pane. Everything
runs in one thread; the concurrency is with the programs and the user.

## Modules

### The core

`Multiplexer.tla`. A node is an element of `Node`, the addresses
`calloc` may return; `t[n] = "FREE"` says that it is not allocated, and a freed
address may be allocated again. The fields of `NODE` are functions over `Node`
with the names of the source, the arrays over panes functions over `Pane`.

| Code | Model |
|---|---|
| `run`: `select` and the copy `sfds` | `Select`; the copy is the round's own, so `GetInput` ends it, and so does a `KeysDone` that leaves the loop |
| `run`: the loop over `wget_wch`/`handlechar` | `Key` (one command) and `KeysDone` |
| `run`: `getinput` | `GetInput`; a view whose program has exited reads EIO and is deleted |
| `main`: the switch | `Switch`: `NewPane` (CREATE, RESTORE), `EnterPane` (NEXT, PREV), `ExpandPane`, `RefocusPane` (FETCH), `StayOnPane` (SWAP, TOGGLE_LABEL) |
| `deletenode`, `root_delete`, `removechild`, `replacechild`, `freenode` | `deletenode`: `DeleteRoot`, `DeleteChild`/`Unlink` |
| `split`, `newview`, `newcontainer` | `split`: `SplitFails`, `SplitWith` |
| the other commands | operators with the names of the functions |
| a program that exits | `ProgramExit` (external) |

The control point `pc` says where the loop is. Recursive walks (`draw`,
`getinput`, `focus`, `get_root`) visit "the smallest set that holds the start
and is closed under the step", which the provers can use. A handler that
dereferences NULL or a freed node sets `status` to `"crashed"`, and nothing is
followed further. `t_root_change = "NONE"` stands for the flag being 0; the flag
and the type are otherwise always set together. A directional key or a click
focuses any view of the pane or none (`Layout` says which).

`TerminalSession.tla` is what the user is promised: panes are sets of terminals
with a focus; a terminal goes only because it had the focus and the user said
so, or because its own program exited; one at a time and from the current pane;
the session ends with its last terminal. `MCMultiplexer.tla` maps the model to
it (`ImplementsSession`): the terminals of a pane are the views of its tree.

### The terminal of a view

`VTParser.tla` models `vtparser.c`. One step is one round of the loop of
`vtwrite`: what `mbrtowc` returns (`OneByte`, `Complete`, `Invalid`,
`Incomplete`) and `handlechar` on the resulting character. The tables of
`MAKESTATE` are turned around: one action per table action (`docontrol`,
`collect`, `param`, `docsi`, ...), whose guard lists the states and ranges whose
first matching row has it; `ignore` lists the characters without a row, too.
`args` stands for `args[0 .. narg-1]`, `oscbuf` for its first `nosc` elements.
`mbrtowc` is modelled as glibc does it: after a failure in the middle of a
character that an earlier call began, the stored part stays. `param` does not
compare a semicolon's index with `MAXPARAM`, nor does the model: the 17th parameter
is written over `inter`, which is next in the struct (and where `docsi`'s handler
then finds it: `argv`), the ones after it over `oscbuf` and `ms`, which hold zeros
then (`Spare` words, 103 in the code). The next would overwrite the pane's pointer: it sets `overrun`, and
nothing is followed further.
`MCVTParser.tla` adds the text of the present sequence as a history variable and
says, from the grammar alone, which handler it calls with which arguments.

`Curses.tla` (external: how `src` uses it) has the windows: cursor, region, and
which rows hold text. `Screen.tla` has the handlers on them, each an operator
from the NODE `n` before to the NODE after, named as in the source; a step of the
module is one call of a handler, of `reshape`, of a scroll key or of the
cursor's correction before drawing. The primary screen is the bottom of a pad;
`Tos` is the row of the pad its top is on. Of `sgr` the colours are kept, with the
table of pairs and the pair of each window; `SgrArgument` folds the loop over the
arguments, with the local copies of the colours.

### The panes on the screen

`Layout.tla` has a pane's tree as a function on the paths of its nodes (sequences
of "c1" and "c2"; an empty slot, `NoPane`, has no node), which gives each node its type,
rectangle and name. `Subtree`, `Graft` and `Join` are what re-linking the pointers
of `replacechild`, `removechild`, `swapnode` and `newcontainer` does to such a
function, and `reshape` gives the nodes under a path their rectangles from the top
down, by a recursive function on paths. There is one action per command that changes
a rectangle, the focus or the size: main's pass of `reshape` over a requested
change is part of the command's step. Hidden panes keep the rectangles of the size
they were last shown in. `findnode`, `coordinate_findnode` and the order of
`window_label` are operators on the tree. Views are neither fetched nor expanded here.

### Saving and restoring

`TreePlan.tla` is the prototype of `tree/tree.c`; `SessionFile.tla` is
`session_save` with a reader that goes by the indentation alone (the repository
has none). `TomlTable.tla` is how `toml.c` turns lines into tables: every table,
array and value is an entry of one function, at the place that leads to it from
the root. `Restore.tla` composes the three: panes are grown and cut, the session
is saved, its user writes the TOML file of the form of `mtm_test.toml`, and
`mtm -r` reads it and splits. `Toml.tla` gives the reader every document of a few
lines and states what a document means from its lines alone.

### The line editor

`RawLine.tla` is `rawline.c`: one step is a call, or one round of the loop of
`raw_input`, a key with its redraw and its note in the history. `LineEditor.tla`
is what it promises: a column of lines, one being written and the remembered ones
above it; an edit changes one line, moving changes none, and of a history that is
given every line is kept, the last one first. `MCRawLine.tla` maps one
to the other (`ImplementsEditor`); its variable `astray` records that a refused
history key has moved the cursor without a redraw.

### The theorems

| Module | Proves about |
|---|---|
| `Loops.tla` | induction over the rounds of a loop, the values of recursive functions |
| `MultiplexerProofs.tla` | the core: types and heap; slots, focus and input of the panes; no crash, and that it implements `TerminalSession` |
| `TerminalSessionProofs.tla` | the abstract session |
| `VTParserProofs.tla` | the parser and the text of its sequences |
| `RawLineProofs.tla` | the line editor, and that it implements `LineEditor` |
| `ScreenProofs.tla` | the handlers of the terminal |
| `LayoutGeometry.tla` | paths, and the rectangles of a tree whose containers are shared out |
| `LayoutProofs.tla` | the layout of the panes after every operation |

## Runs

| Run | Shows | Bounds |
|---|---|---|
| `core` | The everyday commands with programs exiting at any moment: focus on the screen, slots and roots agreeing, `fds` exact, no crash, and the code implements `TerminalSession` | 5 addresses, 2 panes |
| `typeahead` | Failing forks and commands given after a requested pane change: trees stay trees, panes keep their nodes, nothing dangles | 5 addresses, 2 panes |
| `expand` | A view in two panes (EXPAND_NODE): both keep their focus | 4 addresses, `MaxRef` 2 |
| `fetch` | PUSH, FETCH, UNFETCH, SWAP and EXPAND, on one pane after another: the focus is on the screen when mtm waits | 5 addresses, 3 panes, `MaxRef` 2 |
| `live` | A closed view of the current pane is removed in the end | 3 addresses, no symmetry |
| `vtparser` | Handlers are called exactly for the sequences of the grammar, with the arguments of their own text; text is printed exactly outside sequences; `args` is overrun by its own sequence's semicolons only | 13 characters, sequences of 7 |
| `screen` | Regions, origin mode, inserting and deleting lines, the two screens, reset and reshape: the cursor stays on the screen and is reported where it is, lines stay, those that leave with the rows of a view are the lowest, the primary screen survives the alternate one | heights 0 to 3, a pad of 3 rows |
| `line` | Printing at the margin, tabs, saved cursor and colours: each character is put after the one before, lines fill to their last column, text has the colours asked for | one view of 2 x 3, 3 pairs |
| `layout` | Splits, deletions, swaps, full screen and resizes: rectangles are always those of a fresh layout and tile the screen; arrows and clicks find the view that is there, a label covers its own view | 4 views, 2 panes, 4 sizes |
| `restore` | The saved file and the TOML tables determine the panes; the planned splits build them; `mtm -r` builds the containers of the test file whose splits succeed, and crashes exactly when one fails that holds another | 6 views, 2 panes |
| `toml` | Every document: accepted if it keeps its definitions apart; accepted documents define nothing twice, arrays of tables that are continued and implicit tables that are taken over being told exactly; every scalar is found at its place | 4 lines, 2 keys, paths of 4 |
| `rawline` | Every key and call in any order: indices in bounds, the screen shows the line, and the editor implements `LineEditor` | lines of 2, a history of 2 that grows to 3 |

Why the bounds are enough. *Core*: five addresses hold a tree of three
views with its two containers, or one of two views beside a pane of one or two;
that is the least with a grandparent to re-link, a sibling that is itself a
container, an address used again and two panes with different trees. Two panes
give every case of the scans (none, one, all slots taken; wrap-around both
ways). `MaxRef` bounds the references of a view by 2: one per pane that can show
it. CREATE and RESTORE are asked for only while enough addresses are free
(`Room`), so that the bound on addresses is not mistaken for a failing `malloc`.
Addresses are only compared, so the safety runs use symmetry; the run with
liveness does not. *Parser*: one or two characters of every range of the tables,
the other outcomes of `mbrtowc` anywhere, room for a marker, two numbers and an
intermediate, one number beyond the cap (`ArgMax` 10), the argument beyond
`MAXPARAM` (3) that clears `inter`, before and after a mark, the one that changes nothing (`Spare` 1)
and the one too many, and a string beyond `MAXOSC` (2). *Screen*: three rows have a
margin above and below a region's inside; the pad is smaller than, equal to and
larger than the heights; height 0 is what `reshape` may ask for, and one more than a height is asked for in full screen; mode 1049 is left to the theorems (`Modes` of the two runs has 47 and 1048, the steps it takes, one run each; with 1049 a run does not end in reasonable time). *Layout*: four
views nest three deep; 12 x 13 and 11 x 13 fit them all and differ by the one line a
full screen view can keep, the smaller sizes take a split or none, and shrinking
leaves containers of fewer than three cells. *Restore*: six views are one
more than `save_restore` opens; their headers never reach `TPATH`, which `toml`
exceeds. *TOML*: two keys and headers of three steps give
every meeting of header, array, dotted key and value on a place and on its
prefixes, tables that stay implicit under a dotted key among them; `TPATH` 3 is exceeded. *Line editor*: two characters have a beginning, a
middle and an end; a history of two is full, cut and looked up beyond. One of three
pieces raises its capacity, and one that ends in equal pieces leaves no index; then
`GrownChars` 4 bounds the characters of the history and the line together, which lets
three entries be pushed out by a fourth.

Deadlock is checked in `layout`. It is not in the others: mtm stops on purpose (quit,
last view), the models stop at a crash, a document ends at `MaxLines`.

The runs state each property under the largest set of commands for which the
code keeps it. `FocusShown` holds without MOVE_OTHER, and not if a view shared by
two panes is then split; `NoCrash` holds without failing forks and SWAP_NODE (with MOVE_OTHER by the theorem
`NoCrashes`: `core` leaves it out, since `FocusShown` fails with it);
`FocusShownInSelect` holds with the fetch commands as long as nothing is split or
closed and no pane is gone back to. That takes two panes of two views to see go wrong
(7 addresses): a fetch onto a view fetched from another pane changes that pane's tree,
and its focus may be the view that leaves it.

## What the code does that one may not expect

Met while modelling; the models follow the code, and where one of these limits a
property its comment says so.

Core: deleting the only view of a pane leaves the node, never freed, in the focus
pointers of the slot, and MOVE_OTHER may go back to it (against README.rst:81).
Entering a pane overwrites the previous focus with the present one. A split that
fails leaves a root marked CHILD, whose deletion dereferences NULL. SWAP_NODE of a
lone view dereferences its NULL parent. The views of the panes off the screen are
never read. Commands typed ahead after the deletion of a lone root can write the
root of a slot that is no longer enabled. FETCH_NODE with the focus on a view that was
itself fetched puts the pushed view into the pane the focused one came from, where its
parent is (mtm.c:1990), not into the pane on the screen; when that other pane is then
entered, its focus can be a view that is not in its tree any more, which takes the keys
and is drawn at its old place. Fetching a view in its own place and swapping it before
the fetch is undone leaves the view in its tree twice.

Parser: after a read that ends inside a character whose rest never comes, every
one-byte character is taken for an invalid byte.

Screen: `sgr` works on copies of the colours taken before argument 0 resets them;
the alternate screen's colours start at 0 (black) instead of -1; a reset on the
alternate screen leaves the primary's modes and text; leaving mode 1049 restores
the cursor on the alternate screen, before the switch; the later arguments of a
sequence that sets several modes act on the screen an earlier one switched to, so
that `1049;3` reset on the alternate screen clears the primary; IL and DL on or below the
bottom margin scroll the whole region; motions other than CUP, CUB and CR leave
the line break pending; in insert mode a character printed while the break is pending
first pushes the one in the last column off (`print`, mtm.c:627-630; the model keeps
which rows hold text, not which columns, and no property is about it); DECSTBM with one argument reads a second one, 0; a view
that loses more than half its rows can leave the cursor in the scroll-back; in full
screen the rows to scroll by are counted with the height asked for, `LINES`, and not
with the one given, so that a view that loses rows there loses its top line too
(mtm.c:1401, 1409-1412).

Line editor: control-C frees the copy of the history and keeps the edited one; a
history taken with `raw_hist_get`, copied and given back is reversed, and one given
without a copy (`rawline/README.md:57-58`, against its lines 32-34) is read after it
was freed: the model stops there (`pc` "undefined"); the capacity is one more than
asked for, and `raw_hist_set` only ever raises it (`rawline.c:445-447`, where the
comment calls the length an upper limit); control-D at the end of a line deletes its last character; a
refused history key moves the cursor without a redraw; `raw->hist` is read when
the history is off.

Layout: in full screen a click finds the first view and all labels are drawn on
one cell; a label longer than its view is wide runs over the line and the view to the
right; the first row and column of a view cannot be clicked; containers of
fewer than three cells have overlapping children. `reshape` returns early for a view
that has the rectangle it is asked to take, before it looks at full screen
(mtm.c:1398): in full screen, where a view beside others is asked to take all the lines
and given one less, a terminal that shrinks by one line leaves such a view as it was,
over the status line, and its program is not told.

Restore: `mtm -r` logs the file and does four fixed splits; `parse_table_s`
dereferences NULL unless both children of the first ROOT are containers, and
`save_restore` does when its first or third split fails; an expanded view is not
written; nobody reads the saved session.

TOML: headers may extend inline tables and static arrays (against the comment at
toml.c:309): `b = [{},{a='s'}]` and then `[[b]]` is accepted, the header's table being
the third of the array. A table that a longer header made stays implicit when a dotted
key goes through it, and a header or an inline value may take it over.
`DefinedOnce` and `ReadsBack` count these documents in.

Status bar: `pane_led` loops to the number of panes, so that with an empty slot
before it the current pane is not marked; `fmt_*` buffers are printed
uninitialised unless the mode that fills them is on.

## Fairness

`FairSpec` is used by `live` only. `select` returns while a
readable descriptor is in its set; a signal may interrupt it, which `run` answers
with an empty set, but not every single call (SF of the `Select` that gives
something: with nothing to read mtm may wait for ever). Reading keys ends, because
`wget_wch` returns ERR when none is waiting (WF of `KeysDone`). `getinput` and
the switch do not block (WF): the descriptors are O_NONBLOCK. One assumption is
about the user: a round whose keys ask for a pane change skips `getinput`, so a
user who asks in *every* round starves it; SF of `KeysDone` without a request, in a
round in which `select` gave something, says that this does not go on for ever.
Nothing is assumed about programs or about which keys are typed.
The other modules have no liveness: their steps are calls that return.

## Proofs

`TypeCorrect`: `Spec => []TypeOK`, for all constants. `TypeOK` is inductive by
itself; the proof has one lemma per command and per case of the switch.

`HeapCorrect`: `Spec => [](TreeLinks /\ NoDangling /\ PaneOwnsNodes)` for every
number of addresses and panes, with typeahead, failing forks and exits, for the
commands other than FETCH_NODE, UNFETCH_NODE and EXPAND_NODE (assumption
`CoreCommands`), which put a node in two trees on purpose. The three parts are
not inductive alone: `Unlink` frees a container, and one must know that nothing
but its child and its parent pointed at it, that no focus pointer of another
pane holds it, and that a walk from a root stays in its pane. `HeapInv` adds
therefore: what an unallocated address holds, reference counts of 1, the fetch
fields unused (`NodesUnshared`), and a rank function that falls along every
child link (`Ranks`, `Ranked`), which says that the trees are well founded, so
that a node is not its own grandparent and the sibling that takes a freed
container's place is neither the container nor below itself. The
sets of `SubTree` and `FirstView` are reasoned about by exhibiting a closed set.
`TreesCorrect` and `PanesKeepNodes` state its parts by themselves.

`SlotsAgree`: `Typeahead = FALSE` implies
`Spec => []EnableAgrees`, for every set of commands. `split` and
`deletenode` write the root of the current slot, so the invariant needs
`CurrentShown`: while no request is pending, that slot has a root. It is given up
by `DeleteRoot` alone, which leaves the request NEXT behind (or ends mtm), and
without typeahead the switch serves it before any other key. With typeahead the
statement is false, as said above.

`FocusCorrect` and `InputCorrect`: `FocusShown` and
`InputFromShown`, for every number of addresses and panes, for the commands of
`CoreCommands` without MOVE_OTHER (which may go back to a view that was given up)
and `Typeahead = FALSE`. Both follow from `ShownInv` on top of `HeapInv` and
`SlotInv`. A tree is what is reached from its root along the child pointers, and
how that set changes is proved of child functions in general: `SplitWalk`,
`UnlinkWalk` and `RestoredWalk` say what a root reaches after a split, a deletion
and a restore. `OrphanIsRoot` then tells that the node without a parent in a tree
is the root its slot holds, so that the code, which updates the current slot only,
updates the right one.

`FocusRegained`: `FocusShownInSelect`, for every number of addresses and panes, with
forks that may fail, under `FetchCommands`: neither SPLIT, DELETE_NODE, MOVE_OTHER,
NEXT_PANE nor PREV_PANE, no program exits, nothing is typed ahead. The nodes are then in
several trees, or in one twice, and the links of no tree agree, so nothing of `HeapInv`
is of use; the proof needs only what a root reaches, `SlotInv`, and
`FetchInv`: unless a FETCH is pending the focus is on the screen, and what an EXPAND
will open is a view. `FirstViewReached` gives that the refocus of the switch stays in
the tree of the current root, whatever the tree looks like. `FetchCommands` is what the
property needs: each command it leaves out, and exits, breaks it.

`NoCrashes`: `NoCrash` for every number of addresses
and panes, of a session that is `Undisturbed`: the commands of `CoreCommands` (MOVE_OTHER
among them) without SWAP_NODE, every program starts, nothing is typed ahead. `NoCrash` is
not inductive: a step is safe because of what earlier steps left behind. MOVE_OTHER may put
the focus on a view that was given up, and later commands then split or delete a view of no
pane's tree; so the proof does not use `FocusShown`, and asks of the focus that it is a
view and allocated (`HeapInv`, `FocusSet`). `LiveInv` adds that a node
without a parent has the type ROOT (`RootTyped`: `deletenode` tells a lone root by
its type and follows the parent of every other view), that the first children of
every node end in a view (`FirstViews`: `focus` follows them), that the slot of the
current pane is empty only while a switch to an enabled pane is pending
(`NextPending`) and that a request is served before the next input (`LoopOK`).
`CommandRuns`, `InputRuns` and `SwitchRuns` show that from such a state a step takes
none of its crashing branches; the lemmas after them show that the steps that are
left keep `LiveInv`.

`SessionImplemented`: under `Everyday` (`Undisturbed` without MOVE_OTHER),
`Spec => ImplementsSession`, for every number of addresses and panes. The lemmas
about trees give what each pane shows after a split, a deletion, a creation and a
restore; with `ExitInv` (a freed address forgets that its program exited) each of these steps is one action of
`TerminalSession` on the mapped state (`SplitOpens`, `RootCloses`, `ChildCloses`,
`PaneOpens`, `PaneEnters`, `FocusMoves`, `ProgramExits`, `Quits`), and all other
steps are unseen. What is proved of `TerminalSession` (`SessionOnePlace`,
`SessionEnds`) therefore holds of every such session of mtm.

`TerminalSessionProofs`: `SessionTypes`, `SessionOnePlace` and `SessionEnds`,
for every set of terminals and number of panes (assumption `SessionConstants`);
what implements the session inherits them.

`ParserTypes` and `ParserBounds`: the types and `WritesBounded` of the parser, for
every input alphabet, `MAXPARAM`, `MAXOSC`, `Spare` and cap. `ValuesBounded` is inductive
(`DigitBounded`: a digit is added only below the cap); when `args` is overrun follows
from `OnText`. That its index stays in bounds is not a theorem: the code does not keep it.

`CallsFit` and `TextPrinted`: `CallFitsText` and `GroundOutside`, for the same
constants: each handler is called exactly for the sequences of the grammar, with
the marker, intermediate, numbers and string of its own text, and what is left of them after a
semicolon too many. The invariant `OnText`
says for every state of the parser what the text of the present sequence is then,
and that `args`, `inter` and `oscbuf` are what the grammar reads in it. The grammar's
operators are recursive functions of the text; `NumberAppend`, `NumbersAppend`,
`ShapeAppend` and `MarkedAppend` say how each grows by one character, which is what
a step of the parser must agree with.

Such lemmas rest on `Loops`. The library's induction theorems take an operator as
a parameter, which the provers cannot instantiate; `LoopInduction` states induction
over `0 .. k` for a *set*, from a least element outside it. `LoopStates` gives the
values a loop goes through as a function, and `LoopEnds` that what each round keeps
holds at the end.

`LineBounds`, `EntriesNoted` and `LineShown`: `InBounds`, `EntryIsLine` and
`ShownUnlessAstray` of the line editor, for every alphabet, completion table,
history and capacity. The inductive invariant is `LineInv`: the history changes its
length between inputs only (`FromSerialOf` says what `raw_hist_set` makes of it: every
piece, the last one first, in the raised capacity), and the copy that enter gives back in its place was made
when the input began and is as long, so that the index of the entry being edited is
always an index of both.

`EditorImplemented`: `MCSpec => ImplementsEditor`. One lemma per key and per call
gives the action of `LineEditor` it is on the mapped state (`KeyImplements`,
`CallImplements`): `NotedOf` says that the note of a round changes the entry at the
place and no other, so that the column is what it was but for the line.

`ScreenProofs`, for every height, width, scroll-back and number of pairs and all
argument lists. `NodeInv` is the invariant of a view: the windows have the size the
view asks for (`ScreenFits`), cursor, region and text are in them, the top of the
screen is not below the end of the region, and each window's pair shows the colours
asked for unless the table of pairs is full (`Painted`). One lemma per handler says
that it keeps more than the invariant: `Kept`, that the sizes and the other screen
are what they were, and that a cursor on the screen stays there. `ReshapeFits` does the same
for a change of size, where the contents move between pad and screen.

From it follow `CursorStays`, `ReportsReturn` (what the program is told is where
CUP takes it back to), `ColoursAreShown`, `LinesDoStay` (what IL, DL and RI must not
move), `TopLineDoesStay` (which line is on top after the loss of rows, whatever was asked for and given) and
`LinesFill` (where printing puts its characters at the margin). `PrimaryStays` and `AlternateIsBlank` are proved of programs that
set one mode in a sequence (`SingleModes`, true of the run); with several, what they
say is false, as said above.

`LayoutProofs`, for every set of views, number of panes and set of terminal sizes,
and trees of any depth. `LayoutInv` is `TypeOK` with two additions: every tree has
finitely many levels (`Bounded`, which the inductions along paths need), and the tree of
the pane shown is `Fresh`: each node has what its parent, as it is now, would ask for
it, rounded as `reshape` does (`Given`; in full screen, or kept by the early return).
`RectsFresh` compares a tree with a whole layout and says nothing of the step that
reshapes a part; `Fresh` is local, and `ReshapeFresh` shows that reshaping the part
under a node makes that part fresh and disturbs no other. So `ReplaceFresh` gives the
trees after a split, a deletion and a swap (`SplitFresh`, `DeleteFresh`, `SwapFresh`),
`ReshapeRootFresh` those of full screen, a resize and a pane that is shown again, whose
rectangles may be of another size (a hidden pane need not be fresh, and is not).
`GraftTree` and `JoinTree` show that re-linking leaves a tree.

`LayoutTypes` and `LayoutFresh` (`RectsFresh`; `FreshAnew` says that fresh trees are
determined by their shape) follow from that. For the others `FreshShared` turns a
fresh tree, where a container has three cells to divide, into one whose containers are
`Shared`: the first child ends at the line, the second starts after it.
`LayoutGeometry` proves of such trees, by the axis and so for rows and columns at
once, that a cell is on one side of each line (`ChildCells`, `NotBothEnclose`), and
from it that views and lines tile the screen (`TilesScreen`), that `findnode` descends
to the one view around a cell (`FindLeaf`), that two cells beyond an edge the view
found starts at the line there, even though that line may belong to a container far
above (`FoundAfter`, `FoundBefore`; `HighEdge` and `LowEdge` find that container), and
that a label falls on no other view's text over the width of its own (`LabelsApart`). This gives `ViewsPartition`,
`ArrowsLandBeside`, `ClicksHit` and `LabelsAreOwn`. `SplitsKeepTiling` assumes a tiled
pane instead: `TiledRoomy` shows that its containers have their three cells then,
since with fewer a view would lie over a line or past the edge, and `SplitRoomy` that
the size `newnode` tests leaves the new one its three, too.

Assumed: `ConstAssumption` (NULL is no address, there is a pane, the flags are
Booleans), `ParserAssumption` (the sizes are numbers, the input is ASCII),
`ScreenAssumption` (sizes and arguments are numbers, the pad has two rows at least,
a view can have a size), `SizesAssumption`, `SlotsAssumption` and `NULLAssumption` of
`Layout` (a terminal has a row above the status line and a column, there is a slot, and
NULL is no path and no name) and `RawLineAssumption` (completions, histories and the
line for control-D are texts), which TLC evaluates in the runs of their modules;
and, where a theorem names them, `CoreCommands`, `FetchCommands`, `Undisturbed`,
`Everyday`, `SessionConstants` and
`SingleModes`.

Only model-checked: the commands left out of `CoreCommands`
and `Undisturbed` (`FocusShown` in the run `expand`); the restore and TOML properties; and liveness
(`ClosedViewGoes`), which with ENABLED is out of the prover's reach.
`TreePlan`, `SessionFile`, `Restore`, `TomlTable` and `Toml` walk trees and lists of
any depth with RECURSIVE operators, about which the provers cannot reason. No module
that holds or is used by a theorem declares a RECURSIVE operator.

## Not modelled

- The command shell (`command_shell`) beyond its line editor: it parses a line and
  calls functions modelled as commands.
- The order of the `DO` lines and the prefix flag: they select a command and keep
  no other state. A key bound to two commands gives the first. Keys that are sent
  to the program only write to its descriptor.
- The status line's text, window titles, logs: output only.
- Of the terminal: character sets, attributes other than colours, the visibility
  of the cursor, replies other than the cursor's row, the columns of a row's text.
- Of the parser: which handlers are registered, and the bytes of a character.
- Of the line editor: `raw_free`, the terminal's raw mode, a read that fails.
- Of the TOML reader: the lexer, the conversion of scalars, `malloc` failing.
- `newview2`, `build_node_tree`, `dfs_parse_node`, `status_bar_new` and
  `window_status` are never called. `pair.c` with `USE_ALLOC_PAIR` is a call of
  curses. `rawline/` and `test_toml/toml.c` repeat files modelled here;
  `mtm.c.old*` are earlier versions of `mtm.c`.

## Plan

1. Proofs: `FocusShown` with EXPAND_NODE, whose view is in two trees; `SessionImplemented` with MOVE_OTHER,
   which needs a session that knows the views that were given up, and with failing forks, which leave
   a lone root typed CHILD; the trees of `TreePlan` and the recursion of `TomlTable` as
   functions on paths, as in `Layout`, where a proof is in reach.
2. `Screen` on the columns of a row: ICH, DCH and ECH against "the rest of the
   line moves", wide characters.
3. `Layout` and `Multiplexer` together: fetched and expanded views in two panes of
   different sizes, and a swap whose reshape is lost to a typed-ahead CREATE.
4. A `Keyboard` module, if the bindings are to be checked against the
   documentation.
