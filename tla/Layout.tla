------------------------------- MODULE Layout -------------------------------
(***************************************************************************)
(* Where the views of a pane are on the screen: the rectangles reshape     *)
(* hands down the tree of each pane, the split, delete, swap and full      *)
(* screen operations that change them, resizes of the terminal (also while *)
(* a pane is hidden), and the two ways of finding a view by a place on the *)
(* screen, the arrow commands and a click.                                 *)
(*                                                                         *)
(* The tree of a pane is a function on the paths of its nodes, the         *)
(* sequences of "c1" and "c2" that lead to them from the root: it gives    *)
(* each node its type, its rectangle y, x, h, w and, to a VIEW, its name.  *)
(* A HORIZONTAL or VERTICAL container has the nodes c1 and c2 under it.    *)
(* A key is served, with main's pass over the requested change, before the *)
(* next one is read: keys typed ahead are in Multiplexer, as are views     *)
(* shared by two panes and freed nodes.                                    *)
(***************************************************************************)
EXTENDS Integers, FiniteSets, Sequences

CONSTANTS
    View,       \* the names of views that can exist at the same time (bound)
    PANE_MAX,   \* number of slots
    Sizes,      \* the sizes <<LINES, COLS>> the terminal can take (bound)
    NULL        \* no node, and the name of a container

Child == {"c1", "c2"}
Path  == Seq(Child)

(* At least one row above the status line, and one column. *)
ASSUME SizesAssumption == \A s \in Sizes : s \in Nat \X Nat /\ s[1] > 1 /\ s[2] > 0
ASSUME SlotsAssumption == PANE_MAX \in Nat \ {0}
ASSUME NULLAssumption  == NULL \notin Path \cup View

VARIABLES
    t_root,         \* slot -> the tree of its pane, or NoPane
    t_focused,      \* slot -> the view the keyboard goes to
    t_isfullscreen, \* slot -> whether each view takes the whole screen
    t_root_index,   \* the slot shown
    size            \* <<LINES, COLS>>

vars == <<t_root, t_focused, t_isfullscreen, t_root_index, size>>

Slot  == 0 .. PANE_MAX - 1
NoPane == [p \in {} |-> NULL]  \* no node in the slot
LINES == size[1]
COLS  == size[2]
AtLeast(a, b) == IF a < b THEN b ELSE a

(***************************************************************************)
(* Paths and trees.  A node is under another when its path goes on from    *)
(* the other's; the tree is walked c1 before c2.                           *)
(***************************************************************************)
Parent(p)   == SubSeq(p, 1, Len(p) - 1)
Last(p)     == p[Len(p)]
Other(c)    == IF c = "c1" THEN "c2" ELSE "c1"
Under(p, q) == Len(p) <= Len(q) /\ \A i \in 1 .. Len(p) : q[i] = p[i]
Rest(p, q)  == SubSeq(q, Len(p) + 1, Len(q))
Before(p, q)  == \E i \in DOMAIN p \cap DOMAIN q :
                  p[i] = "c1" /\ q[i] = "c2" /\ \A j \in 1 .. i - 1 : p[j] = q[j]

IsView(node) == node.t = "VIEW"
Leaves(n)    == {p \in DOMAIN n : IsView(n[p])}
Named(n)     == {n[p].name : p \in Leaves(n)}

(* The tree under p, the tree with m in place of what is under p, and the  *)
(* tree of a node with m1 and m2 as its children.                          *)
Subtree(n, p)    == [r \in {Rest(p, q) : q \in {o \in DOMAIN n : Under(p, o)}} |-> n[p \o r]]
Graft(n, p, m) == [q \in {o \in DOMAIN n : ~Under(p, o)} \cup {p \o r : r \in DOMAIN m} |->
                      IF Under(p, q) THEN m[Rest(p, q)] ELSE n[q]]
Join(node, m1, m2) ==
    [q \in {<<>>} \cup {<<"c1">> \o r : r \in DOMAIN m1} \cup {<<"c2">> \o r : r \in DOMAIN m2} |->
        IF q = <<>> THEN node ELSE IF Head(q) = "c1" THEN m1[Tail(q)] ELSE m2[Tail(q)]]

Pane         == t_root[t_root_index]
Opened       == UNION {Named(t_root[i]) : i \in {j \in Slot : t_root[j] # NoPane}}
PathOf(n, v) == CHOOSE p \in Leaves(n) : n[p].name = v
FocusedPath  == PathOf(Pane, t_focused[t_root_index])
Focused      == Pane[FocusedPath]

(***************************************************************************)
(* reshape.  scr says how large the screen is and whether the pane shown   *)
(* is in full screen.                                                      *)
(***************************************************************************)
Screen == [full |-> t_isfullscreen[t_root_index], lines |-> LINES, cols |-> COLS]

Rect(node) == [y |-> node.y, x |-> node.x, h |-> node.h, w |-> node.w]
Place(node, r) == [node EXCEPT !.y = r.y, !.x = r.x, !.h = r.h, !.w = r.w]

(* What reshapechildren asks for the children of a container: c1, a        *)
(* separator of one cell, c2.                                              *)
FirstHalf(node, scr) ==
    IF scr.full THEN [y |-> 0, x |-> 0, h |-> scr.lines, w |-> scr.cols]
    ELSE IF node.t = "HORIZONTAL" THEN [Rect(node) EXCEPT !.w = node.w \div 2]
    ELSE [Rect(node) EXCEPT !.h = node.h \div 2]

SecondHalf_even(node, scr) ==  \* mutation: no correction for even sizes
    IF scr.full THEN FirstHalf(node, scr)
    ELSE IF node.t = "HORIZONTAL"
    THEN [Rect(node) EXCEPT !.x = node.x + node.w \div 2 + 1, !.w = node.w \div 2]
    ELSE [Rect(node) EXCEPT !.y = node.y + node.h \div 2 + 1, !.h = node.h \div 2]

SecondHalf(node, scr) ==
    LET i(size_) == IF size_ % 2 = 1 THEN 0 ELSE 1
    IN  IF scr.full THEN FirstHalf(node, scr)
        ELSE IF node.t = "HORIZONTAL"
        THEN [Rect(node) EXCEPT !.x = node.x + node.w \div 2 + 1, !.w = node.w \div 2 - i(node.w)]
        ELSE [Rect(node) EXCEPT !.y = node.y + node.h \div 2 + 1, !.h = node.h \div 2 - i(node.h)]

Half(node, c, scr) == IF c = "c1" THEN FirstHalf(node, scr) ELSE SecondHalf(node, scr)

(* One node asked to take the rectangle r.  A view that has it already is  *)
(* left alone, whatever full screen would make of it.                      *)
Reshaped(node, r, scr) ==
    IF IsView(node) /\ Rect(node) = r THEN node
    ELSE Place(node, [r EXCEPT !.h = IF scr.full THEN scr.lines - 1 ELSE AtLeast(r.h, 1),
                               !.w = IF scr.full THEN scr.cols ELSE AtLeast(r.w, 1)])

(* reshape of the node at p: the nodes under it get theirs from the parent *)
(* as it is after its own reshape.                                         *)
reshape(n, p, r, scr) ==
    LET now[q \in {o \in DOMAIN n : Under(p, o)}] ==
            Reshaped(n[q], IF q = p THEN r ELSE Half(now[Parent(q)], Last(q), scr), scr)
    IN  [q \in DOMAIN n |-> IF Under(p, q) THEN now[q] ELSE n[q]]

reshapechildren(n, p, scr) ==
    reshape(reshape(n, Append(p, "c1"), FirstHalf(n[p], scr), scr),
            Append(p, "c2"), SecondHalf(n[p], scr), scr)

ReshapeRoot(n, scr) ==
    reshape(n, <<>>, [y |-> 0, x |-> 0, h |-> scr.lines - 1, w |-> scr.cols], scr)

(* replacechild: the tree m takes the place at p, and its parent is        *)
(* reshaped; at the root, m is given the whole screen.                     *)
replacechild(n, p, m, scr) ==
    LET new == Graft(n, p, m)
    IN  IF p = <<>> THEN ReshapeRoot(new, scr)
        ELSE reshape(new, Parent(p), Rect(n[Parent(p)]), scr)

Sibling(p) == Append(Parent(p), Other(Last(p)))

removechild(n, p, scr) == replacechild(n, Parent(p), Subtree(n, Sibling(p)), scr)

(***************************************************************************)
(* findnode: the node around a cell, children before their parent, c1      *)
(* before c2.  A rectangle counts the separator after it as its own.       *)
(***************************************************************************)
IN__exclusive(node, y, x) ==  \* mutation: the line after it does not count
    y \in node.y .. node.y + node.h - 1 /\ x \in node.x .. node.x + node.w - 1

IN_(node, y, x) == y \in node.y .. node.y + node.h /\ x \in node.x .. node.x + node.w

(* The nodes findnode is called on, from the root on. *)
Walk(n, y, x) ==
    LET enters(p) == /\ IN_(n[p], y, x)
                     /\ (p # <<>> /\ Last(p) = "c2") => ~IN_(n[Sibling(p)], y, x)
    IN  {q \in DOMAIN n : \A p \in DOMAIN n : Under(p, q) => enters(p)}

findnode(n, y, x) ==
    LET walk == Walk(n, y, x)
    IN  IF walk = {} THEN NULL ELSE CHOOSE q \in walk : \A p \in walk : Under(p, q)

ABOVE(node) == <<node.y - 2, node.x + node.w \div 2>>
BELOW(node) == <<node.y + node.h + 2, node.x + node.w \div 2>>
LEFT(node)  == <<node.y + node.h \div 2, node.x - 2>>
RIGHT(node) == <<node.y + node.h \div 2, node.x + node.w + 2>>

Places(node) == [MOVE_UP |-> ABOVE(node), MOVE_DOWN |-> BELOW(node),
                 MOVE_LEFT |-> LEFT(node), MOVE_RIGHT |-> RIGHT(node)]

(* focus of the node at p: the first view under it; the focus v stays when *)
(* there is no node.                                                       *)
FirstView(n, p) == CHOOSE q \in Leaves(n) :
                      Under(p, q) /\ \A i \in Len(p) + 1 .. Len(q) : q[i] = "c1"
focus(n, p, v)  == IF p = NULL THEN v ELSE n[FirstView(n, p)].name

MoveTo(cmd) == LET at == Places(Focused)[cmd]
               IN  focus(Pane, findnode(Pane, at[1], at[2]), t_focused[t_root_index])

(* coordinate_findnode: the first view with the cell strictly inside: its *)
(* first row and its first column are not.                                *)
is_coordinate_swapped(y, x, h, w, mx, my) ==  \* mutation: height and width
    mx > x /\ mx < x + h /\ my > y /\ my < y + w

is_coordinate(y, x, h, w, mx, my) == mx > x /\ mx < x + w /\ my > y /\ my < y + h

coordinate_findnode(n, mx, my) ==
    LET hit == {p \in Leaves(n) : is_coordinate(n[p].y, n[p].x, n[p].h, n[p].w, mx, my)}
    IN  IF hit = {} THEN NULL ELSE CHOOSE p \in hit : \A q \in hit \ {p} : Before(p, q)

ClickedView(mx, my) == focus(Pane, coordinate_findnode(Pane, mx, my), t_focused[t_root_index])

(* window_label draws a label for every node, a container's before its     *)
(* children's, one after the other (LabelledBefore): at the left of the    *)
(* node's first row, or, for a node that does not start on the first row   *)
(* of the screen, of the line above it (draw_label counts from 1, and      *)
(* takes 0 for 1).  LabelCell is its first cell; the text ("<name>  -push")*)
(* runs on to the right.                                                   *)
LabelCell(node) == [y |-> AtLeast(node.y, 1) - 1,
                    x |-> AtLeast(IF node.x = 0 THEN node.x ELSE node.x + 1, 1) - 1]

LabelledBefore_after(p, q) ==  \* mutation: children first
    (Under(q, p) /\ p # q) \/ Before(p, q)

LabelledBefore(p, q) == (Under(p, q) /\ p # q) \/ Before(p, q)

(***************************************************************************)
(* Steps                                                                   *)
(***************************************************************************)
NewView(v, h, w) ==
    [p \in {<<>>} |-> [t |-> "VIEW", name |-> v, y |-> 0, x |-> 0, h |-> h, w |-> w]]

(* newnode gives no node of fewer than two rows or columns. *)
newnode_fails_never(h, w) ==  \* mutation: any size
    FALSE
newnode_fails(h, w) == h < 2 \/ w < 2

SetPane(n, v) == /\ t_root' = [t_root EXCEPT ![t_root_index] = n]
                 /\ t_focused' = [t_focused EXCEPT ![t_root_index] = v]

SplitRows(node, t) == IF Screen.full THEN LINES - 1
                      ELSE IF t = "VERTICAL" THEN (node.h - 1) \div 2 ELSE node.h
SplitCols(node, t) == IF Screen.full THEN COLS
                      ELSE IF t = "HORIZONTAL" THEN node.w \div 2 ELSE node.w

(* split: the focused view gets a container c in its place, with itself    *)
(* and a new view v.  c reshapes them, then c's parent does; v has the     *)
(* focus.                                                                  *)
Split(t) ==
    LET p    == FocusedPath
        node == Focused
        nh   == SplitRows(node, t)
        nw   == SplitCols(node, t)
    IN  \E v \in View \ Opened :
            /\ ~newnode_fails(nh, nw) /\ ~newnode_fails(node.h, node.w)
            /\ LET c == Join([node EXCEPT !.t = t, !.name = NULL],
                             Subtree(Pane, p), NewView(v, nh, nw))
               IN  SetPane(replacechild(Pane, p, reshapechildren(c, <<>>, Screen), Screen), v)
            /\ UNCHANGED <<t_isfullscreen, t_root_index, size>>

(* The slot set_next_root_index leaves t_root_index at, of those in use. *)
NextSlot(used) ==
    LET above == {i \in used : i > t_root_index}
        below == {i \in used : i < t_root_index}
        least(S) == CHOOSE i \in S : \A j \in S : i <= j
    IN  IF above # {} THEN least(above) ELSE IF below # {} THEN least(below) ELSE t_root_index

(* main's pass of NEXT over the panes of root: the pane shown next is      *)
(* reshaped to the screen, under its own full screen flag.                 *)
ShowNext_stale(root) ==  \* mutation: no reshape
    /\ t_root_index' = NextSlot({j \in Slot : root[j] # NoPane})
    /\ t_root' = root

ShowNext(root) ==
    LET i   == NextSlot({j \in Slot : root[j] # NoPane})
        scr == [Screen EXCEPT !.full = t_isfullscreen[i]]
    IN  /\ t_root_index' = i
        /\ t_root' = [root EXCEPT ![i] = ReshapeRoot(root[i], scr)]

NextPane ==
    /\ ShowNext(t_root)
    /\ UNCHANGED <<t_focused, t_isfullscreen, size>>

(* deletenode of the view at p, which has a parent: on DELETE_NODE, or     *)
(* when its program ends.  The focus goes to the first view beside it.     *)
DeleteView(p) ==
    LET v == t_focused[t_root_index]
    IN  /\ p # <<>>
        /\ SetPane(removechild(Pane, p, Screen),
                   IF Pane[p].name = v THEN focus(Pane, Sibling(p), v) ELSE v)
        /\ UNCHANGED <<t_isfullscreen, t_root_index, size>>

(* deletenode of the only view of a pane, another pane being open. *)
DeletePane ==
    /\ IsView(Pane[<<>>])
    /\ \E i \in Slot \ {t_root_index} : t_root[i] # NoPane
    /\ ShowNext([t_root EXCEPT ![t_root_index] = NoPane])
    /\ UNCHANGED <<t_focused, t_isfullscreen, size>>

(* main's pass of CREATE: a new view in the first free slot. *)
CreatePane ==
    \E i \in Slot, v \in View \ Opened :
        /\ t_root[i] = NoPane /\ \A j \in Slot : j < i => t_root[j] # NoPane
        /\ ~newnode_fails(LINES - 1, COLS)
        /\ t_root_index' = i
        /\ t_root' = [t_root EXCEPT ![i] = NewView(v, LINES - 1, COLS)]
        /\ t_focused' = [t_focused EXCEPT ![i] = v]
        /\ t_isfullscreen' = [t_isfullscreen EXCEPT ![i] = FALSE]
        /\ UNCHANGED size

(* swapnode of the focused view with its sibling, then main's pass of SWAP *)
(* over the whole pane.                                                    *)
swapnode ==
    LET a       == Parent(FocusedPath)
        swapped == Graft(Pane, a, Join(Pane[a], Subtree(Pane, Append(a, "c2")),
                                                Subtree(Pane, Append(a, "c1"))))
    IN  /\ FocusedPath # <<>>
        /\ t_root' = [t_root EXCEPT ![t_root_index] =
                         reshape(swapped, <<>>, Rect(Pane[<<>>]), Screen)]
        /\ UNCHANGED <<t_focused, t_isfullscreen, t_root_index, size>>

togglefullscreen ==
    LET full == ~t_isfullscreen[t_root_index]
    IN  /\ t_isfullscreen' = [t_isfullscreen EXCEPT ![t_root_index] = full]
        /\ t_root' = [t_root EXCEPT ![t_root_index] = ReshapeRoot(Pane, [Screen EXCEPT !.full = full])]
        /\ UNCHANGED <<t_focused, t_root_index, size>>

(* The terminal is resized: KEY_RESIZE reshapes the pane shown, no other. *)
Resize ==
    \E s \in Sizes \ {size} :
        /\ size' = s
        /\ t_root' = [t_root EXCEPT ![t_root_index] =
                         ReshapeRoot(Pane, [Screen EXCEPT !.lines = s[1], !.cols = s[2]])]
        /\ UNCHANGED <<t_focused, t_isfullscreen, t_root_index>>

SetFocus(v) == /\ t_focused' = [t_focused EXCEPT ![t_root_index] = v]
               /\ UNCHANGED <<t_root, t_isfullscreen, t_root_index, size>>

Move == \E cmd \in DOMAIN Places(Focused) : SetFocus(MoveTo(cmd))

Click == \E v \in {ClickedView(mx, my) : my \in 0 .. LINES - 1, mx \in 0 .. COLS - 1} : SetFocus(v)

(* main opens the first view, or gives up when the terminal is too small. *)
Init ==
    /\ size \in Sizes /\ ~newnode_fails(LINES - 1, COLS)
    /\ \E v \in View : /\ t_root = [i \in Slot |-> IF i = 0 THEN NewView(v, LINES - 1, COLS) ELSE NoPane]
                       /\ t_focused = [i \in Slot |-> v]
    /\ t_isfullscreen = [i \in Slot |-> FALSE]
    /\ t_root_index = 0

Next ==
    \/ Split("HORIZONTAL") \/ Split("VERTICAL")
    \/ \E p \in Leaves(Pane) : DeleteView(p)
    \/ DeletePane \/ CreatePane \/ NextPane
    \/ swapnode \/ togglefullscreen \/ Resize
    \/ Move \/ Click

Spec == Init /\ [][Next]_vars

(***************************************************************************)
(* Properties                                                              *)
(***************************************************************************)
Node == [t : {"VIEW", "HORIZONTAL", "VERTICAL"}, name : View \cup {NULL},
         y : Nat, x : Nat, h : Nat \ {0}, w : Nat \ {0}]

(* The paths of a tree are those of its containers' children; no two of    *)
(* its views have the same name.                                           *)
Tree(n) ==
    /\ n \in [DOMAIN n -> Node] /\ <<>> \in DOMAIN n /\ DOMAIN n \subseteq Path
    /\ \A p \in DOMAIN n :
          /\ ~IsView(n[p]) => \A c \in Child : Append(p, c) \in DOMAIN n
          /\ p # <<>> => Parent(p) \in DOMAIN n \ Leaves(n)
    /\ \A p, q \in Leaves(n) : n[p].name = n[q].name => p = q

(* Every node has a size, the views are told apart by their names in the   *)
(* whole program, and the focus is on a view of the pane shown (newnode,   *)
(* MAX in reshape, focus).                                                 *)
TypeOK ==
    /\ size \in Sizes
    /\ t_focused \in [Slot -> View] /\ t_isfullscreen \in [Slot -> BOOLEAN]
    /\ t_root_index \in Slot /\ DOMAIN t_root = Slot /\ Tree(Pane) /\ t_focused[t_root_index] \in Named(Pane)
    /\ \A i \in Slot : t_root[i] # NoPane =>
          Tree(t_root[i]) /\ Named(t_root[i]) \subseteq View /\ t_focused[i] \in Named(t_root[i])
    /\ \A i, j \in Slot : i # j /\ t_root[i] # NoPane /\ t_root[j] # NoPane =>
          Named(t_root[i]) \cap Named(t_root[j]) = {}

Full     == t_isfullscreen[t_root_index]
Blank(n) == [p \in DOMAIN n |-> [n[p] EXCEPT !.y = 0, !.x = 0, !.h = 0, !.w = 0]]

(* The rectangles of the pane shown are those its tree gets when it is     *)
(* laid out anew on the screen as it is, however it came to be: by splits, *)
(* deletions and swaps that reshape only a part of it, in and out of full  *)
(* screen, and after resizes that happened while it was hidden (the calls  *)
(* of reshape at mtm.c:1110-1126, 1560-1566, 2138, 3275-3345).  In full    *)
(* screen every node has the whole screen above the status line, but a     *)
(* view beside others that had that of a screen one line taller keeps it   *)
(* (the early return at mtm.c:1398).                                       *)
RectsFresh ==
    /\ TypeOK
    /\ ~Full => Pane = ReshapeRoot(Blank(Pane), Screen)
    /\ Full => \A p \in DOMAIN Pane :
          \/ Rect(Pane[p]) = [y |-> 0, x |-> 0, h |-> LINES - 1, w |-> COLS]
          \/ p # <<>> /\ IsView(Pane[p]) /\ Rect(Pane[p]) = [y |-> 0, x |-> 0, h |-> LINES, w |-> COLS]

(* The line drawchildren puts between the children of a container. *)
Separator(node) ==
    IF node.t = "HORIZONTAL" THEN [Rect(node) EXCEPT !.x = node.x + node.w \div 2, !.w = 1]
    ELSE [Rect(node) EXCEPT !.y = node.y + node.h \div 2, !.h = 1]

Drawn(node)     == IF IsView(node) THEN Rect(node) ELSE Separator(node)
Shows(r, my, mx) == my \in r.y .. r.y + r.h - 1 /\ mx \in r.x .. r.x + r.w - 1

(* Each cell of the screen above the status line belongs to one view or to *)
(* one line between views, and these show no other cell.                   *)
Tiled(n) ==
    /\ \A p \in DOMAIN n :
          LET r == Drawn(n[p])
          IN  r.y >= 0 /\ r.y + r.h <= LINES - 1 /\ r.x >= 0 /\ r.x + r.w <= COLS
    /\ \A my \in 0 .. LINES - 2, mx \in 0 .. COLS - 1 :
          /\ \E p \in DOMAIN n : Shows(Drawn(n[p]), my, mx)
          /\ \A p, q \in DOMAIN n : Shows(Drawn(n[p]), my, mx) /\ Shows(Drawn(n[q]), my, mx) => p = q

Divided(node) == IF node.t = "HORIZONTAL" THEN node.w ELSE node.h
Roomy(n)      == \A p \in DOMAIN n \ Leaves(n) : Divided(n[p]) > 2

(* Out of full screen, the views and the lines between them share out the  *)
(* screen without a gap or an overlap, as long as each container has three *)
(* cells to divide (reshapechildren with its correction i for even sizes,  *)
(* and drawchildren, which computes the place of the line again).          *)
Partition == ~Full /\ Roomy(Pane) => Tiled(Pane)

(* The node has nothing beside it in the direction of cmd. *)
AtEdge(node, cmd) == CASE cmd = "MOVE_UP"    -> node.y = 0
                       [] cmd = "MOVE_DOWN"  -> node.y + node.h = LINES - 1
                       [] cmd = "MOVE_LEFT"  -> node.x = 0
                       [] cmd = "MOVE_RIGHT" -> node.x + node.w = COLS

(* m is across the line on that side of node, where node's middle is. *)
Beside(node, m, cmd) ==
    LET midx == node.x + node.w \div 2
        midy == node.y + node.h \div 2
    IN  CASE cmd = "MOVE_UP"    -> m.y + m.h + 1 = node.y /\ midx \in m.x .. m.x + m.w
          [] cmd = "MOVE_DOWN"  -> node.y + node.h + 1 = m.y /\ midx \in m.x .. m.x + m.w
          [] cmd = "MOVE_LEFT"  -> m.x + m.w + 1 = node.x /\ midy \in m.y .. m.y + m.h
          [] cmd = "MOVE_RIGHT" -> node.x + node.w + 1 = m.x /\ midy \in m.y .. m.y + m.h

(* An arrow command goes to the view across the line from the middle of    *)
(* the focused view, whatever containers lie between the two, and goes     *)
(* nowhere at the edge of the screen or in full screen (ABOVE, BELOW, LEFT *)
(* and RIGHT aim two cells away, findnode counts the line as part of c1).  *)
MoveLandsBeside ==
    \A cmd \in DOMAIN Places(Focused) :
        LET to == Pane[PathOf(Pane, MoveTo(cmd))]
        IN  IF Full THEN to = Focused
            ELSE Roomy(Pane) => IF AtEdge(Focused, cmd) THEN to = Focused ELSE Beside(Focused, to, cmd)

(* Out of full screen a click gives the focus to the view that shows the   *)
(* clicked cell, or leaves it, and every view of two rows and columns can  *)
(* be reached with a click (coordinate_findnode takes the first view of    *)
(* the tree that holds the cell).                                          *)
ClickHits ==
    ~Full /\ Roomy(Pane) =>
        /\ \A my \in 0 .. LINES - 1, mx \in 0 .. COLS - 1 :
              LET to == coordinate_findnode(Pane, mx, my)
              IN  to # NULL => IsView(Pane[to]) /\ Shows(Pane[to], my, mx)
        /\ \A p \in Leaves(Pane) : Pane[p].h > 1 /\ Pane[p].w > 1 =>
              coordinate_findnode(Pane, Pane[p].x + Pane[p].w - 1, Pane[p].y + Pane[p].h - 1) = p

(* With labels on, what a view's label covers over the width of the view   *)
(* is left to it: a label drawn later on that row starts further right     *)
(* (those of containers at the same corner and of views to the left, which *)
(* may be long enough to run into it, are drawn over), and these cells are *)
(* the view's own or a line's, never the text of another view              *)
(* (window_label, draw_label).  A text longer than the view is wide does   *)
(* run over the line and the next view.  In full screen all labels are     *)
(* drawn on one cell and the last one stays, whatever view is shown.       *)
LabelsOwn ==
    ~Full /\ Roomy(Pane) => \A p \in Leaves(Pane) :
        LET at == LabelCell(Pane[p])
            last == at.x + Pane[p].w - 1
        IN  /\ \A q \in DOMAIN Pane \ {p} :
                  LabelCell(Pane[q]).y = at.y /\ LabelCell(Pane[q]).x <= last => LabelledBefore(q, p)
            /\ \A q \in Leaves(Pane) \ {p}, x \in at.x .. last : ~Shows(Pane[q], at.y, x)

(* A split never draws two views over each other: out of full screen it    *)
(* takes a tiled pane to a tiled pane, because newnode refuses a view that *)
(* would be too small (split computes nh and nw apart from the rectangles  *)
(* that reshapechildren hands out afterwards).  A split is the step that   *)
(* brings a view into the pane shown.                                      *)
SplitKeepsTiling ==
    [][ ( /\ t_root_index' = t_root_index
          /\ Named(Pane)' \ Named(Pane) # {}
          /\ ~Full /\ Tiled(Pane) ) => Tiled(Pane)' ]_vars

=============================================================================
