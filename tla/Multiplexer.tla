----------------------------- MODULE Multiplexer -----------------------------
(***************************************************************************)
(* The core of mtm: the tree of nodes of every pane, the commands a user   *)
(* gives with the command key, and the loop that reads keys, closes views  *)
(* whose program has exited and switches panes (mtm.c, newnode ... main).  *)
(*                                                                         *)
(* A node is a malloc'ed NODE.  A VIEW holds one program on one pseudo     *)
(* terminal; a container (HORIZONTAL or VERTICAL, which only the geometry  *)
(* tells apart) holds two children.  A pane is a slot of t_root.           *)
(* Positions, sizes, drawing and the text of the terminals are abstracted: *)
(* a directional or mouse move reaches any view of the pane, or none.      *)
(***************************************************************************)
EXTENDS Integers, FiniteSets

CONSTANTS
    Node,          \* addresses calloc may return; an address is reused once freed
    PaneMax,       \* PANE_MAX, the number of slots of t_root
    NULL,          \* the null pointer
    Commands,      \* the commands the user gives (a subset of AllCommands)
    Typeahead,     \* may keys be waiting behind one that asked for a pane change?
    SpawnMayFail,  \* may newview fail (forkpty fails, or the view would be too small)?
    ProgramsExit,  \* may a program exit on its own?
    MaxRef         \* bound on refcnt: EXPAND_NODE is not given beyond it

AllCommands ==
    {"MOVE", "MOVE_OTHER", "SPLIT", "DELETE_NODE", "SWAP_NODE", "PUSH_NODE",
     "FETCH_NODE", "UNFETCH_NODE", "EXPAND_NODE", "CREATE_PANE", "RESTORE_PANE",
     "NEXT_PANE", "PREV_PANE", "WINDOW_LABEL", "FULLSCREEN", "QUIT"}

ASSUME ConstAssumption ==
    /\ NULL \notin Node
    /\ PaneMax \in Nat \ {0}
    /\ MaxRef \in Nat \ {0}
    /\ {Typeahead, SpawnMayFail, ProgramsExit} \subseteq BOOLEAN
    /\ Commands \subseteq AllCommands

Pane == 0 .. (PaneMax - 1)
NodeOrNull == Node \cup {NULL}

(* Where a scan over the panes, up or down, stops. *)
IsLeast(i, S)    == i \in S /\ \A j \in S : i <= j
IsGreatest(i, S) == i \in S /\ \A j \in S : j <= i

VARIABLES
    t,            \* kind of each node; "FREE" when the address is not allocated
    type,         \* NodeType: "ROOT", "CHILD" or "EXPANDROOT"
    p, c1, c2,    \* parent and child pointers
    refcnt,
    root_index,   \* the pane that was current when the node was allocated
    isfetch, fetch_save_node, fetch_save_node_cp,
    push_node,
    t_root, t_root_enable, t_focused, t_lastfocused, t_root_index,
    t_root_change,  \* the request run() returns with: t_root_change_type, or "NONE"
                    \* while the flag t_root_change is 0
    t_expand_node,
    fds,          \* the views whose pseudo terminal is in the select() set
    sfds,         \* of this round of run(): those select() found readable because
                  \* their program has exited
    exited,       \* the views whose program has exited (its descriptor reads EIO)
    pc,           \* where run() and main() are: "select", "keys", "input" or "switch"
    status        \* "running", "exited" (quit) or "crashed" (an invalid dereference)

heapVars  == <<t, type, p, c1, c2, refcnt, root_index>>
fetchVars == <<isfetch, fetch_save_node, fetch_save_node_cp, push_node>>
slotVars  == <<t_root, t_root_enable>>
focusVars == <<t_focused, t_lastfocused>>
ioVars    == <<fds, exited>>
reqVars   == <<t_root_change, t_expand_node>>
vars == <<heapVars, fetchVars, slotVars, focusVars, ioVars, reqVars,
          t_root_index, sfds, pc, status>>

Requests == {"CREATE", "RESTORE", "NEXT", "PREV", "TOGGLE_LABEL", "EXPAND",
             "SWAP", "FETCH"}

(* A save slot is &(node->c1) or &(node->c2). *)
Slot == Node \X {"c1", "c2"}

TypeOK ==
    /\ t \in [Node -> {"FREE", "VIEW", "CONTAINER"}]
    /\ type \in [Node -> {"ROOT", "CHILD", "EXPANDROOT"}]
    /\ p \in [Node -> NodeOrNull]
    /\ c1 \in [Node -> NodeOrNull]
    /\ c2 \in [Node -> NodeOrNull]
    /\ refcnt \in [Node -> Int]
    /\ root_index \in [Node -> Pane]
    /\ isfetch \in [Node -> BOOLEAN]
    /\ fetch_save_node \in [Node -> NodeOrNull]
    /\ fetch_save_node_cp \in [Node -> Slot \cup {NULL}]
    /\ push_node \in NodeOrNull
    /\ t_root \in [Pane -> NodeOrNull]
    /\ t_root_enable \in [Pane -> {0, 1}]
    /\ t_focused \in [Pane -> NodeOrNull]
    /\ t_lastfocused \in [Pane -> NodeOrNull]
    /\ t_root_index \in Pane
    /\ t_root_change \in Requests \cup {"NONE"}
    /\ t_expand_node \in NodeOrNull
    /\ fds \subseteq Node /\ sfds \subseteq Node /\ exited \subseteq Node
    /\ pc \in {"select", "keys", "input", "switch"}
    /\ status \in {"running", "exited", "crashed"}

-----------------------------------------------------------------------------
(* Walking the tree.  The recursive walks of the code visit the smallest   *)
(* set of nodes that holds the start and is closed under their step.       *)

Allocated(n) == n # NULL /\ t[n] # "FREE"

(* n and everything below it: drawing, reshaping and input visit these. *)
SubTree(n) ==
    {x \in Node : \A S \in SUBSET Node :
        (n \in S /\ \A y \in S : {c1[y], c2[y]} \ {NULL} \subseteq S) => x \in S}

FirstChild(n) == IF c1[n] # NULL THEN c1[n] ELSE c2[n]

(* The view focus(n) descends to: one view, or none if a pointer on the    *)
(* way down is not a node any more.                                        *)
FirstView(n) ==
    {x \in Node : t[x] = "VIEW" /\ \A S \in SUBSET Node :
        (n \in S /\ \A y \in S : (t[y] = "CONTAINER" /\ FirstChild(y) # NULL)
                                     => FirstChild(y) \in S) => x \in S}

(* The pane's tree, its views, and what a move may land on. *)
Current == t_root[t_root_index]
Focused == t_focused[t_root_index]
PaneViews(i) == IF t_root[i] = NULL THEN {}
                ELSE {v \in SubTree(t_root[i]) : t[v] = "VIEW"}

-----------------------------------------------------------------------------
(* Undefined behaviour.  A handler that dereferences NULL, or a node that  *)
(* was freed and not allocated again, ends the model: mtm dies of SIGSEGV, *)
(* or goes on with memory it does not own, which is not followed further.  *)

storeVars == <<heapVars, fetchVars, slotVars, focusVars, ioVars, reqVars, t_root_index>>

Crash == status' = "crashed" /\ UNCHANGED storeVars

Request(kind) ==
    /\ t_root_change' = kind
    /\ UNCHANGED <<heapVars, fetchVars, slotVars, focusVars, ioVars,
                   t_expand_node, t_root_index, status>>

-----------------------------------------------------------------------------
(* deletenode *)

(* The root of a pane is deleted.  The slot is given up, but the node is   *)
(* not freed, its terminal is not closed and t_focused still holds it.     *)
(* Without another enabled pane mtm quits.                                 *)
DeleteRoot(n) ==
    LET given_up(i) == IsLeast(i, {j \in Pane : t_root[j] = n})
        root_empty == \A i \in Pane : t_root_enable[i] = 0 \/ given_up(i)
    IN  /\ t_root' = [i \in Pane |-> IF given_up(i) THEN NULL ELSE t_root[i]]
        /\ t_root_enable' = [i \in Pane |-> IF given_up(i) THEN 0 ELSE t_root_enable[i]]
        /\ status' = IF root_empty THEN "exited" ELSE status
        /\ t_root_change' = IF root_empty THEN t_root_change ELSE "NEXT"
        /\ IF type[n] = "EXPANDROOT"
             THEN /\ refcnt' = [refcnt EXCEPT ![n] = @ - 1]
                  /\ type' = IF root_empty THEN type ELSE [type EXCEPT ![n] = "CHILD"]
                  /\ UNCHANGED fds
             ELSE fds' = fds \ {n} /\ UNCHANGED <<type, refcnt>>
        /\ UNCHANGED <<t, p, c1, c2, root_index, fetchVars, focusVars, exited,
                       t_expand_node, t_root_index>>

(* freenode clears t_lastfocused of the current pane if it is the node freed. *)
ForgetNothing(x, freed) == x  \* mutation: it does not
Forget(x, freed) == IF x \in freed THEN NULL ELSE x

(* A view n below a container q goes: the focus goes to the first view of  *)
(* the sibling s if n had it (focus), s takes the place of q below g       *)
(* (replacechild), q is freed, and n too when its last reference goes      *)
(* (freenode, which closes its descriptor and takes it out of fds, but not *)
(* out of the copy sfds).                                                  *)
Unlink(n, q, s, g) ==
    LET freed == IF refcnt[n] <= 1 THEN {n, q} ELSE {q}
        drop(f, x) == [k \in Node |-> IF k \in freed THEN x ELSE f[k]]
    IN  /\ IF Focused = n
             THEN \E v \in FirstView(s) :
                    /\ t_focused' = [t_focused EXCEPT ![t_root_index] = v]
                    /\ t_lastfocused' = [t_lastfocused EXCEPT
                                ![t_root_index] = Forget(n, freed)]
             ELSE /\ t_lastfocused' = [t_lastfocused EXCEPT
                                ![t_root_index] = Forget(@, freed)]
                  /\ UNCHANGED t_focused
        /\ t' = drop(t, "FREE")
        /\ type' = drop(IF g = NULL THEN [type EXCEPT ![s] = "ROOT"] ELSE type, "CHILD")
        /\ t_root' = IF g = NULL THEN [t_root EXCEPT ![t_root_index] = s] ELSE t_root
        /\ p' = drop([p EXCEPT ![s] = g], NULL)
        /\ c1' = drop(IF g # NULL /\ c1[g] = q THEN [c1 EXCEPT ![g] = s] ELSE c1, NULL)
        /\ c2' = drop(IF g # NULL /\ c1[g] # q /\ c2[g] = q
                        THEN [c2 EXCEPT ![g] = s] ELSE c2, NULL)
        /\ refcnt' = drop([refcnt EXCEPT ![n] = @ - 1], 0)
        /\ root_index' = drop(root_index, 0)
        /\ isfetch' = drop(isfetch, FALSE)
        /\ fetch_save_node' = drop(fetch_save_node, NULL)
        /\ fetch_save_node_cp' = drop(fetch_save_node_cp, NULL)
        /\ fds' = fds \ {n}
        /\ exited' = exited \ freed
        /\ UNCHANGED <<push_node, t_root_enable, reqVars, t_root_index, status>>

SecondChild(n) == c2[p[n]]  \* mutation: removechild always keeps the second
Sibling(n) == IF c1[p[n]] = n THEN c2[p[n]] ELSE c1[p[n]]

DeleteChild(n) ==
    IF /\ Allocated(p[n])
       /\ Allocated(Sibling(n))
       /\ p[p[n]] = NULL \/ Allocated(p[p[n]])
       /\ Focused # n \/ FirstView(Sibling(n)) # {}
      THEN Unlink(n, p[n], Sibling(n), p[p[n]])
      ELSE Crash

IsFullRoot(n) == type[n] = "ROOT" /\ c1[n] # NULL /\ c2[n] # NULL  \* mutation: inverted
IsLoneRoot(n) == type[n] = "ROOT" /\ p[n] = NULL /\ c1[n] = NULL /\ c2[n] = NULL

deletenode_expanded(n) ==  \* mutation: an expanded root is deleted as a child is
    \/ isfetch[n] /\ UNCHANGED <<storeVars, status>>
    \/ ~isfetch[n] /\ IsLoneRoot(n) /\ DeleteRoot(n)
    \/ ~isfetch[n] /\ ~IsLoneRoot(n) /\ DeleteChild(n)
deletenode(n) ==
    \/ isfetch[n] /\ UNCHANGED <<storeVars, status>>
    \/ ~isfetch[n] /\ (IsLoneRoot(n) \/ type[n] = "EXPANDROOT") /\ DeleteRoot(n)
    \/ ~isfetch[n] /\ ~IsLoneRoot(n) /\ type[n] # "EXPANDROOT" /\ DeleteChild(n)

-----------------------------------------------------------------------------
(* split of the focused view n: a new view v beside it, under a new        *)
(* container c that takes the place of n.  n becomes a CHILD before the    *)
(* program is started, and stays one if that fails.                        *)

SplitFails(n) ==
    /\ SpawnMayFail
    /\ type' = [type EXCEPT ![n] = "CHILD"]
    /\ UNCHANGED <<t, p, c1, c2, refcnt, root_index, fetchVars, slotVars,
                   focusVars, ioVars, reqVars, t_root_index, status>>

SplitWith(n, v, c) ==
    LET g == p[n] IN
    /\ v # c /\ t[v] = "FREE" /\ t[c] = "FREE"
    /\ t' = [t EXCEPT ![v] = "VIEW", ![c] = "CONTAINER"]
    /\ type' = [type EXCEPT ![n] = "CHILD", ![v] = "CHILD",
                            ![c] = IF g = NULL THEN "ROOT" ELSE "CHILD"]
    /\ p' = [p EXCEPT ![n] = c, ![v] = c, ![c] = g]
    /\ c1' = IF g # NULL /\ c1[g] = n THEN [c1 EXCEPT ![c] = n, ![g] = c]
                                      ELSE [c1 EXCEPT ![c] = n]
    /\ c2' = IF g # NULL /\ c1[g] # n /\ c2[g] = n
               THEN [c2 EXCEPT ![c] = v, ![g] = c] ELSE [c2 EXCEPT ![c] = v]
    /\ t_root' = IF g = NULL THEN [t_root EXCEPT ![t_root_index] = c] ELSE t_root
    /\ refcnt' = [refcnt EXCEPT ![v] = 1, ![c] = 1]
    /\ root_index' = [root_index EXCEPT ![v] = t_root_index, ![c] = t_root_index]
    /\ t_focused' = [t_focused EXCEPT ![t_root_index] = v]
    /\ t_lastfocused' = [t_lastfocused EXCEPT ![t_root_index] = Focused]
    /\ fds' = fds \cup {v}
    /\ UNCHANGED <<fetchVars, t_root_enable, exited, reqVars, t_root_index, status>>

split(n) ==
    \/ isfetch[n] /\ UNCHANGED <<storeVars, status>>
    \/ ~isfetch[n] /\ SplitFails(n)
    \/ ~isfetch[n] /\ p[n] # NULL /\ ~Allocated(p[n]) /\ Crash
    \/ /\ ~isfetch[n] /\ (p[n] = NULL \/ Allocated(p[n]))
       /\ \E v, c \in Node : SplitWith(n, v, c)
-----------------------------------------------------------------------------
(* The other commands on the focused view n. *)

(* Every node a walk of pane i's tree visits is still allocated. *)
TreeIntact(i) == t_root[i] # NULL /\ \A x \in SubTree(t_root[i]) : Allocated(x)

focus_current(i, v) ==  \* mutation: before t_root_index is the new pane
    /\ t_lastfocused' = [t_lastfocused EXCEPT ![t_root_index] = t_focused[t_root_index]]
    /\ t_focused' = [t_focused EXCEPT ![t_root_index] = v]
focus(i, v) ==
    /\ t_lastfocused' = [t_lastfocused EXCEPT ![i] = t_focused[i]]
    /\ t_focused' = [t_focused EXCEPT ![i] = v]

FocusOnly(v) ==
    /\ focus(t_root_index, v)
    /\ UNCHANGED <<heapVars, fetchVars, slotVars, ioVars, reqVars, t_root_index, status>>

(* focus(findnode(...)) of the directional keys, and mouse_event. *)
MoveFocus ==
    IF TreeIntact(t_root_index)
      THEN \/ UNCHANGED <<storeVars, status>>
           \/ \E v \in PaneViews(t_root_index) : FocusOnly(v)
      ELSE Crash

MoveOther ==
    LET o == t_lastfocused[t_root_index] IN
    IF o = NULL THEN UNCHANGED <<storeVars, status>>
    ELSE IF ~Allocated(o) \/ FirstView(o) = {} THEN Crash
    ELSE \E v \in FirstView(o) : FocusOnly(v)

swapnode(n) ==
    LET q == p[n] IN
    IF ~Allocated(q) THEN Crash
    ELSE /\ c1' = IF n \in {c1[q], c2[q]} THEN [c1 EXCEPT ![q] = c2[q]] ELSE c1
         /\ c2' = IF n \in {c1[q], c2[q]} THEN [c2 EXCEPT ![q] = c1[q]] ELSE c2
         /\ t_root_change' = "SWAP"
         /\ UNCHANGED <<t, type, p, refcnt, root_index, fetchVars, slotVars, focusVars,
                        ioVars, t_expand_node, t_root_index, status>>

pushnode(n) ==
    /\ push_node' = n
    /\ UNCHANGED <<heapVars, isfetch, fetch_save_node, fetch_save_node_cp, slotVars,
                   focusVars, ioVars, reqVars, t_root_index, status>>

(* get_root climbs from n to the first node that is not a CHILD. *)
get_root_fails(n) ==
    \E x \in Node : /\ type[x] = "CHILD" /\ ~Allocated(p[x])
                    /\ \A S \in SUBSET Node :
                         (n \in S /\ \A y \in S : (type[y] = "CHILD" /\ p[y] # NULL)
                                                    => p[y] \in S) => x \in S

(* The pushed view takes the place of n in n's parent; n is remembered in  *)
(* the pushed view, with the address of the child pointer it stood in.     *)
fetchnode(n) ==
    LET q == p[n]
        side == IF c1[q] = n THEN "c1" ELSE "c2"
        found == n \in {c1[q], c2[q]}
    IN  IF get_root_fails(n) THEN Crash
        ELSE IF push_node = NULL THEN UNCHANGED <<storeVars, status>>
        ELSE IF type[n] # "CHILD" THEN Request("FETCH")
        ELSE IF ~Allocated(push_node) THEN Crash
        ELSE /\ fds' = fds \ {n}
             /\ isfetch' = [isfetch EXCEPT ![push_node] = TRUE]
             /\ fetch_save_node' = IF found THEN [fetch_save_node EXCEPT ![push_node] = n]
                                            ELSE fetch_save_node
             /\ fetch_save_node_cp' =
                  IF found THEN [fetch_save_node_cp EXCEPT ![push_node] = <<q, side>>]
                           ELSE fetch_save_node_cp
             /\ c1' = IF found /\ side = "c1" THEN [c1 EXCEPT ![q] = push_node] ELSE c1
             /\ c2' = IF found /\ side = "c2" THEN [c2 EXCEPT ![q] = push_node] ELSE c2
             /\ t_root_change' = "FETCH"
             /\ UNCHANGED <<t, type, p, refcnt, root_index, push_node, slotVars, focusVars,
                            exited, t_expand_node, t_root_index, status>>

unfetchnode(n) ==
    LET m == fetch_save_node[n]
        cp == fetch_save_node_cp[n]
    IN  IF type[n] # "CHILD"
          THEN /\ isfetch' = [isfetch EXCEPT ![n] = FALSE]
               /\ t_root_change' = "FETCH"
               /\ UNCHANGED <<heapVars, fetch_save_node, fetch_save_node_cp, push_node,
                              slotVars, focusVars, ioVars, t_expand_node, t_root_index,
                              status>>
        ELSE IF ~Allocated(m) \/ ~Allocated(cp[1]) THEN Crash
        ELSE /\ isfetch' = [isfetch EXCEPT ![n] = FALSE]
             /\ fds' = fds \cup {m}
             /\ c1' = IF cp[2] = "c1" THEN [c1 EXCEPT ![cp[1]] = m] ELSE c1
             /\ c2' = IF cp[2] = "c2" THEN [c2 EXCEPT ![cp[1]] = m] ELSE c2
             /\ t_root_change' = "FETCH"
             /\ UNCHANGED <<t, type, p, refcnt, root_index, fetch_save_node,
                            fetch_save_node_cp, push_node, slotVars, focusVars,
                            exited, t_expand_node, t_root_index, status>>

expandnode(n) ==
    /\ refcnt[n] < MaxRef
    /\ refcnt' = [refcnt EXCEPT ![n] = @ + 1]
    /\ t_root_change' = "EXPAND"
    /\ t_expand_node' = n
    /\ UNCHANGED <<t, type, p, c1, c2, root_index, fetchVars, slotVars, focusVars,
                   ioVars, t_root_index, status>>

(* toggle_window_label reshapes the pane at once, then asks for a redraw;  *)
(* FULLSCREEN, a resize of the terminal and REDRAW only walk the tree.     *)
WindowRedraw == IF TreeIntact(t_root_index) THEN Request("REDRAW") ELSE Crash  \* mutation
WindowLabel == IF TreeIntact(t_root_index) THEN Request("TOGGLE_LABEL") ELSE Crash
Reshape == IF TreeIntact(t_root_index) THEN UNCHANGED <<storeVars, status>> ELSE Crash

Quit == status' = "exited" /\ UNCHANGED storeVars

(* The bound on nodes: a pane is asked for while k addresses are free. *)
Room(k) == Cardinality({n \in Node : t[n] = "FREE"}) >= k

(* handlechar with the command prefix: one command on the focused view.    *)
(* wget_wch reads from the focused view's window first.                    *)
Command(n) ==
    \/ "MOVE"         \in Commands /\ MoveFocus
    \/ "MOVE_OTHER"   \in Commands /\ MoveOther
    \/ "SPLIT"        \in Commands /\ split(n)
    \/ "DELETE_NODE"  \in Commands /\ deletenode(n)
    \/ "SWAP_NODE"    \in Commands /\ swapnode(n)
    \/ "PUSH_NODE"    \in Commands /\ pushnode(n)
    \/ "FETCH_NODE"   \in Commands /\ fetchnode(n)
    \/ "UNFETCH_NODE" \in Commands /\ unfetchnode(n)
    \/ "EXPAND_NODE"  \in Commands /\ expandnode(n)
    \/ "CREATE_PANE"  \in Commands /\ Room(1) /\ Request("CREATE")
    \/ "RESTORE_PANE" \in Commands /\ Room(3) /\ Request("RESTORE")
    \/ "NEXT_PANE"    \in Commands /\ Request("NEXT")
    \/ "PREV_PANE"    \in Commands /\ Request("PREV")
    \/ "WINDOW_LABEL" \in Commands /\ WindowLabel
    \/ "FULLSCREEN"   \in Commands /\ Reshape
    \/ "QUIT"         \in Commands /\ Quit

-----------------------------------------------------------------------------
(* run() and main(): select, all pending keys, one pass over the panes'    *)
(* input, and the pane change that was asked for.                          *)

Running == status = "running"

(* A program exits on its own; its descriptor becomes readable. *)
ProgramExit(n) ==
    /\ ProgramsExit /\ Running /\ t[n] = "VIEW" /\ n \notin exited
    /\ exited' = exited \cup {n}
    /\ UNCHANGED <<heapVars, fetchVars, slotVars, focusVars, fds, sfds, reqVars,
                   t_root_index, pc, status>>

(* select() returns with the descriptors that are readable now, or is      *)
(* interrupted by a signal and gives none; the copy is used after the keys *)
(* were handled.                                                           *)
Select ==
    /\ Running /\ pc = "select"
    /\ sfds' \in {fds \cap exited, {}}
    /\ pc' = "keys"
    /\ UNCHANGED <<heapVars, fetchVars, slotVars, focusVars, fds, exited, reqVars,
                   t_root_index, status>>

(* One key sequence.  Without typeahead a command that asks for a pane     *)
(* change is the last one waiting.                                         *)
Key ==
    /\ Running /\ pc = "keys"
    /\ t_root_change = "NONE" \/ Typeahead
    /\ IF Allocated(Focused) THEN Command(Focused) ELSE Crash
    /\ UNCHANGED <<sfds, pc>>

(* wget_wch returns ERR: no key is waiting. *)
KeysOnly ==  \* mutation: back to select() without reading any terminal
    /\ Running /\ pc = "keys"
    /\ pc' = IF t_root_change = "NONE" THEN "select" ELSE "switch"
    /\ sfds' = {}
    /\ UNCHANGED <<storeVars, status>>
KeysDone ==
    /\ Running /\ pc = "keys"
    /\ pc' = IF t_root_change = "NONE" THEN "input" ELSE "switch"
    /\ sfds' = IF pc' = "input" THEN sfds ELSE {}
    /\ UNCHANGED <<storeVars, status>>

(* The views of the current pane getinput finds closed, and the order in   *)
(* which it visits them.  A descriptor closed by a command in this round   *)
(* is still in the copy, and a view opened since may have been given its   *)
(* number (here: its address): read then gives nothing (EWOULDBLOCK),      *)
(* unless the new program has exited as well.                              *)
Readable == PaneViews(t_root_index) \cap fds  \* mutation: select()'s argument, not its result
Closed == PaneViews(t_root_index) \cap sfds \cap exited
Before(v, w) == \E k \in SubTree(Current) : /\ t[k] = "CONTAINER"
                                            /\ v \in SubTree(c1[k])
                                            /\ w \in SubTree(c2[k])
FirstClosed(v) == v \in Closed /\ \A w \in Closed : Before(w, v) => Before(v, w)

(* getinput deletes the first closed view it meets and goes no further. *)
GetInput ==
    /\ Running /\ pc = "input"
    /\ IF ~TreeIntact(t_root_index) THEN Crash
       ELSE \/ Closed = {} /\ UNCHANGED <<storeVars, status>>
            \/ \E v \in Closed : FirstClosed(v) /\ deletenode(v)
    /\ pc' = IF t_root_change' = "NONE" THEN "select" ELSE "switch"
    /\ sfds' = {}

-----------------------------------------------------------------------------
(* The switch of main(), which ends where run() starts over.  A draw of    *)
(* the pane that is current then follows at once.                          *)

Enabled == {i \in Pane : t_root_enable[i] = 1}
FirstSlot(i) == IsLeast(i, Pane)  \* mutation: the enabled panes are not skipped
FreeSlot(i) == IsLeast(i, Pane \ Enabled)

(* A new view v becomes the root of slot i; it is a ROOT, or a CHILD when  *)
(* RESTORE then fails to split it.                                         *)
NewRoot(i, v, kind) ==
    /\ t[v] = "FREE"
    /\ t' = [t EXCEPT ![v] = "VIEW"]
    /\ type' = [type EXCEPT ![v] = kind]
    /\ refcnt' = [refcnt EXCEPT ![v] = 1]
    /\ root_index' = [root_index EXCEPT ![v] = i]
    /\ t_root' = [t_root EXCEPT ![i] = v]
    /\ focus(i, v)
    /\ fds' = fds \cup {v}
    /\ UNCHANGED <<p, c1, c2>>

(* RESTORE: the new root v is split at once and v is focused again. *)
RestoredRoot(i, v, w, c) ==
    /\ v # w /\ v # c /\ w # c /\ \A n \in {v, w, c} : t[n] = "FREE"
    /\ t' = [t EXCEPT ![v] = "VIEW", ![w] = "VIEW", ![c] = "CONTAINER"]
    /\ type' = [type EXCEPT ![v] = "CHILD", ![w] = "CHILD", ![c] = "ROOT"]
    /\ p' = [p EXCEPT ![v] = c, ![w] = c]
    /\ c1' = [c1 EXCEPT ![c] = v]
    /\ c2' = [c2 EXCEPT ![c] = w]
    /\ refcnt' = [refcnt EXCEPT ![v] = 1, ![w] = 1, ![c] = 1]
    /\ root_index' = [root_index EXCEPT ![v] = i, ![w] = i, ![c] = i]
    /\ t_root' = [t_root EXCEPT ![i] = c]
    /\ t_focused' = [t_focused EXCEPT ![i] = v]
    /\ t_lastfocused' = [t_lastfocused EXCEPT ![i] = w]
    /\ fds' = fds \cup {v, w}

(* run() starts over on the pane that was current: it draws its tree. *)
StayOnPane ==
    IF TreeIntact(t_root_index)
      THEN /\ t_root_change' = "NONE"
           /\ UNCHANGED <<heapVars, fetchVars, slotVars, focusVars, ioVars,
                          t_expand_node, t_root_index, status>>
      ELSE Crash

(* newview failed: the slot is left without a root, and the index restored. *)
NewPaneFails(i) ==
    IF TreeIntact(t_root_index)
      THEN /\ t_root' = [t_root EXCEPT ![i] = NULL]
           /\ t_root_change' = "NONE"
           /\ UNCHANGED <<heapVars, fetchVars, t_root_enable, focusVars, ioVars,
                          t_expand_node, t_root_index, status>>
      ELSE Crash

Planted(i) ==
    \/ t_root_change = "CREATE" /\ \E v \in Node : NewRoot(i, v, "ROOT")
    \/ t_root_change = "RESTORE" /\ SpawnMayFail /\ \E v \in Node : NewRoot(i, v, "CHILD")
    \/ t_root_change = "RESTORE" /\ \E v, w, c \in Node : RestoredRoot(i, v, w, c)

NewPaneHidden(i) ==  \* mutation: the slot is not marked as enabled
    /\ Planted(i) /\ t_root_index' = i /\ t_root_change' = "NONE"
    /\ UNCHANGED <<t_root_enable, fetchVars, exited, t_expand_node, status>>
NewPaneOpens(i) ==
    /\ Planted(i)
    /\ t_root_enable' = [t_root_enable EXCEPT ![i] = 1]
    /\ t_root_index' = i
    /\ t_root_change' = "NONE"
    /\ UNCHANGED <<fetchVars, exited, t_expand_node, status>>

NewPane ==
    \/ Enabled = Pane /\ StayOnPane
    \/ \E i \in Pane : FreeSlot(i) /\ SpawnMayFail /\ NewPaneFails(i)
    \/ \E i \in Pane : FreeSlot(i) /\ NewPaneOpens(i)

(* The scans of set_next_root_index and set_prev_root_index stop at pane i. *)
(* The second starts one word past t_root_enable: alignment padding, 0.    *)
Above == {i \in Enabled : i > t_root_index}
Below == {i \in Enabled : i < t_root_index}
NextPane(i) == \/ IsLeast(i, Above)
               \/ Above = {} /\ IsLeast(i, Below)
               \/ Above = {} /\ Below = {} /\ i = t_root_index
PrevPane(i) == \/ IsGreatest(i, Below)
               \/ Below = {} /\ IsGreatest(i, Above)
               \/ Above = {} /\ Below = {} /\ i = t_root_index

(* NEXT and PREV focus the view that was focused in the pane entered. *)
EnterPane(i) ==
    IF TreeIntact(i) /\ (t_focused[i] = NULL \/ Allocated(t_focused[i]))
      THEN /\ t_root_index' = i
           /\ t_root_change' = "NONE"
           /\ IF t_focused[i] = NULL THEN UNCHANGED focusVars ELSE focus(i, t_focused[i])
           /\ UNCHANGED <<heapVars, fetchVars, slotVars, ioVars, t_expand_node, status>>
      ELSE Crash

(* EXPAND shows the expanded view as a pane of its own as well. *)
ExpandPane ==
    \/ Enabled = Pane /\ StayOnPane
    \/ Enabled # Pane /\ ~Allocated(t_expand_node) /\ Crash
    \/ \E i \in Pane :
         /\ FreeSlot(i) /\ Allocated(t_expand_node)
         /\ t_root' = [t_root EXCEPT ![i] = t_expand_node]
         /\ t_root_enable' = [t_root_enable EXCEPT ![i] = 1]
         /\ type' = [type EXCEPT ![t_expand_node] = "EXPANDROOT"]
         /\ t_root_index' = i
         /\ t_root_change' = "NONE"
         /\ focus(i, t_expand_node)
         /\ UNCHANGED <<t, p, c1, c2, refcnt, root_index, fetchVars, ioVars,
                        t_expand_node, status>>

(* FETCH focuses the first view of the pane. *)
RedrawPane == StayOnPane  \* mutation: as after a swap, the focus is left alone
RefocusPane ==
    IF ~TreeIntact(t_root_index) \/ FirstView(Current) = {} THEN Crash
    ELSE /\ \E v \in FirstView(Current) : focus(t_root_index, v)
         /\ t_root_change' = "NONE"
         /\ UNCHANGED <<heapVars, fetchVars, slotVars, ioVars, t_expand_node,
                        t_root_index, status>>

Switch ==
    /\ Running /\ pc = "switch"
    /\ \/ t_root_change \in {"CREATE", "RESTORE"} /\ NewPane
       \/ t_root_change = "NEXT" /\ \E i \in Pane : NextPane(i) /\ EnterPane(i)
       \/ t_root_change = "PREV" /\ \E i \in Pane : PrevPane(i) /\ EnterPane(i)
       \/ t_root_change = "EXPAND" /\ ExpandPane
       \/ t_root_change = "FETCH" /\ RefocusPane
       \/ t_root_change \in {"TOGGLE_LABEL", "SWAP"} /\ StayOnPane
    /\ pc' = "select"
    /\ UNCHANGED sfds

-----------------------------------------------------------------------------
(* main() opens one view as the root of pane 0. *)
Init ==
    \E v \in Node :
    /\ t = [n \in Node |-> IF n = v THEN "VIEW" ELSE "FREE"]
    /\ type = [n \in Node |-> IF n = v THEN "ROOT" ELSE "CHILD"]
    /\ p = [n \in Node |-> NULL] /\ c1 = [n \in Node |-> NULL] /\ c2 = [n \in Node |-> NULL]
    /\ refcnt = [n \in Node |-> IF n = v THEN 1 ELSE 0]
    /\ root_index = [n \in Node |-> 0]
    /\ isfetch = [n \in Node |-> FALSE]
    /\ fetch_save_node = [n \in Node |-> NULL]
    /\ fetch_save_node_cp = [n \in Node |-> NULL]
    /\ push_node = NULL
    /\ t_root = [i \in Pane |-> IF i = 0 THEN v ELSE NULL]
    /\ t_root_enable = [i \in Pane |-> IF i = 0 THEN 1 ELSE 0]
    /\ t_focused = [i \in Pane |-> IF i = 0 THEN v ELSE NULL]
    /\ t_lastfocused = [i \in Pane |-> NULL]
    /\ t_root_index = 0
    /\ t_root_change = "NONE" /\ t_expand_node = NULL
    /\ fds = {v} /\ sfds = {} /\ exited = {}
    /\ pc = "select" /\ status = "running"

Loop == Select \/ KeysDone \/ GetInput \/ Switch

Next == Loop \/ Key \/ \E n \in Node : ProgramExit(n)

Spec == Init /\ [][Next]_vars

(* The loop runs on: select() returns while a closed descriptor is in the  *)
(* set and is not interrupted every single time, reading and switching do  *)
(* not block, and of the rounds in which select() gave something the user  *)
(* does not ask for a pane change in every single one.                     *)
Fairness == /\ SF_vars(Select /\ sfds' # {})
            /\ WF_vars(KeysDone)
            /\ SF_vars(KeysDone /\ t_root_change = "NONE" /\ sfds # {})
            /\ WF_vars(GetInput)
            /\ WF_vars(Switch)

FairSpec == Spec /\ Fairness

-----------------------------------------------------------------------------
(* Safety. *)

InTree(n) == \E i \in Pane : t_root[i] # NULL /\ n \in SubTree(t_root[i])

(* Links agree: a view has no children, a container has two different ones *)
(* that both point back at it, and a node's parent is a container that     *)
(* holds it.  newcontainer, replacechild, removechild and swapnode each    *)
(* write one side; draw, reshape, findnode and getinput walk the other.    *)
TreeLinks ==
    \A n \in Node :
        /\ t[n] = "VIEW" => c1[n] = NULL /\ c2[n] = NULL
        /\ t[n] = "CONTAINER" => /\ c1[n] \in Node /\ p[c1[n]] = n
                                 /\ c2[n] \in Node /\ p[c2[n]] = n
                                 /\ c1[n] # c2[n]
        /\ t[n] # "FREE" /\ p[n] # NULL => /\ t[p[n]] = "CONTAINER"
                                           /\ n \in {c1[p[n]], c2[p[n]]}

(* No pointer mtm may follow leads to memory that freenode released: the   *)
(* links of the trees, the roots, and both focus pointers of every pane,   *)
(* of which freenode clears only one, and only that of the current pane.   *)
NoDangling ==
    /\ \A n \in Node : t[n] # "FREE" =>
          \A m \in {p[n], c1[n], c2[n]} \ {NULL} : Allocated(m)
    /\ \A i \in Pane : t_root[i] # NULL => Allocated(t_root[i])
    /\ \A i \in Pane : \A m \in {t_focused[i], t_lastfocused[i]} \ {NULL} : t[m] = "VIEW"
    /\ \A n \in fds : t[n] = "VIEW"

(* A pane reaches only nodes that were allocated for it: no command on one *)
(* pane may hand its nodes to another, whose pointers would outlive them.  *)
PaneOwnsNodes ==
    /\ \A n \in Node : t[n] # "FREE" /\ p[n] # NULL => root_index[n] = root_index[p[n]]
    /\ \A i \in Pane : t_root[i] # NULL => p[t_root[i]] = NULL /\ root_index[t_root[i]] = i
    /\ \A i \in Pane : \A m \in {t_focused[i], t_lastfocused[i]} \ {NULL} : root_index[m] = i

(* The keyboard goes to a view on the screen: the focused view of a pane   *)
(* that has a tree is a view of that tree.                                 *)
FocusShown == \A i \in Pane : t_root[i] # NULL => t_focused[i] \in PaneViews(i)

(* The same, of the current pane, while mtm waits in select(): a fetch     *)
(* takes the focused view off the screen until the switch refocuses.  It   *)
(* is about a user who stays on a pane until a new one opens: a fetch onto *)
(* a view fetched from another pane changes the tree of that other pane.   *)
FocusShownInSelect ==
    pc = "select" /\ Running /\ Current # NULL => Focused \in PaneViews(t_root_index)

(* t_root_enable, which the pane commands read, and t_root, which the tree *)
(* commands read, name the same panes.                                     *)
EnableAgrees == \A i \in Pane : t_root_enable[i] = 1 <=> t_root[i] # NULL

(* select() waits for exactly the views some pane shows: none is deaf, and *)
(* none that was given up wakes it.                                        *)
InputFromShown == fds = {n \in Node : t[n] = "VIEW" /\ InTree(n)}

(* No command dereferences NULL or a freed node: deletenode and its parent *)
(* and sibling, focus and its way down, and MOVE_OTHER, which may go back  *)
(* to a view that deletenode gave up with its slot but did not free.       *)
NoCrash == status # "crashed"

(* Liveness: a view of the current pane whose program has exited is closed *)
(* unless the user leaves the pane or mtm ends.                            *)
ClosedViewGoes ==
    \A n \in Node : \A i \in Pane :
        (Running /\ n \in exited /\ i = t_root_index /\ n \in PaneViews(i))
            ~> (~Running \/ i # t_root_index \/ n \notin exited \/ n \notin PaneViews(i))
=============================================================================
