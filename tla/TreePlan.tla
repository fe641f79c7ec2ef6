------------------------------ MODULE TreePlan ------------------------------
(***************************************************************************)
(* The tree prototype (tree/tree.c): a pane's tree as a tree of nodes with *)
(* four child pointers, the walks over it, and genTree, which lists the    *)
(* splits that build the pane again, one for each container.               *)
(*                                                                         *)
(* A pane's tree is a nested record: a VIEW with its working directory     *)
(* cwd, or a container with c1 and c2.  A prototype node is a record whose *)
(* absent children are NULL.  The indentation and wording of what the      *)
(* walks print are left out, the order and the level are kept.             *)
(***************************************************************************)
EXTENDS Integers, Sequences

CONSTANT NULL  \* the absent child, and the cwd of a container

IsView(n) == n.t = "VIEW"

(***************************************************************************)
(* makeNode, setChildNode, and main's way of building a tree: both nodes   *)
(* of a container first, then their place under it.                        *)
(***************************************************************************)
makeNode(direct, cwd) == [direct |-> direct, cwd |-> cwd, pLeftNode |-> NULL, pRightNode |-> NULL,
                          pUpNode |-> NULL, pDownNode |-> NULL]

setChildNode(p, c1, c2) ==
    IF p.direct = "HORIZONTAL" THEN [p EXCEPT !.pLeftNode = c1, !.pRightNode = c2]
    ELSE IF p.direct = "VERTICAL" THEN [p EXCEPT !.pUpNode = c1, !.pDownNode = c2]
    ELSE p

RECURSIVE Prototype(_)
Prototype(n) == IF IsView(n) THEN makeNode("VIEW", n.cwd)
                ELSE setChildNode(makeNode(n.t, NULL), Prototype(n.c1), Prototype(n.c2))

(* The children in the order of every walk, with the step that leads there. *)
ChildSteps(n) == SelectSeq(<<"pLeftNode", "pRightNode", "pUpNode", "pDownNode">>,
                           LAMBDA step : n[step] # NULL)

(***************************************************************************)
(* walk_node, count_node, count_depth, find_node and freeNode              *)
(***************************************************************************)
RECURSIVE walk_node(_, _), count_node(_, _, _), count_depth(_, _), find_node(_, _), freeNode(_, _)

(* What printTree prints: each node with its level, a node before its children. *)
walk_node(n, lv) ==
    LET steps == ChildSteps(n)
        RECURSIVE Under(_)
        Under(i) == IF i > Len(steps) THEN <<>> ELSE walk_node(n[steps[i]], lv + 1) \o Under(i + 1)
    IN  <<[node |-> n, lv |-> lv]>> \o Under(1)

(* c and the number of nodes of kind d under n; NONE counts every node. *)
count_node(n, c, d) ==
    LET steps == ChildSteps(n)
        RECURSIVE Counted(_)
        Counted(i) == IF i = 0 THEN IF d = "NONE" \/ n.direct = d THEN c + 1 ELSE c
                      ELSE count_node(n[steps[i]], Counted(i - 1), d)
    IN  Counted(Len(steps))

count_depth(n, c) ==
    LET under == {count_depth(n[ChildSteps(n)[i]], c + 1) : i \in DOMAIN ChildSteps(n)} \cup {c + 1}
    IN  CHOOSE m \in under : \A k \in under : k <= m

find_1st_child(n) == CASE n.direct = "HORIZONTAL" -> n.pLeftNode
                       [] n.direct = "VERTICAL"   -> n.pUpNode
                       [] OTHER -> NULL

find_2nd_child(n) == CASE n.direct = "HORIZONTAL" -> n.pRightNode
                       [] n.direct = "VERTICAL"   -> n.pDownNode
                       [] OTHER -> NULL

(* The first node of kind d. *)
find_node(n, d) ==
    LET steps == ChildSteps(n)
        RECURSIVE Among(_)
        Among(i) == IF i > Len(steps) THEN NULL
                    ELSE LET r == find_node(n[steps[i]], d) IN IF r # NULL THEN r ELSE Among(i + 1)
    IN  IF n.direct = d THEN n ELSE Among(1)

(* The paths of the nodes in the order freeNode frees them. *)
freeNode(n, path) ==
    LET steps == ChildSteps(n)
        RECURSIVE Under(_)
        Under(i) == IF i > Len(steps) THEN <<>>
                    ELSE freeNode(n[steps[i]], Append(path, steps[i])) \o Under(i + 1)
    IN  Under(1) \o <<path>>

(***************************************************************************)
(* gen_node: for each container, a container before those under it, the    *)
(* split that opens its second child: its direction, the container's place *)
(* (printed as its id), and the working directory of the first view there. *)
(***************************************************************************)
SplitNode_1st(n) ==  \* mutation: the first child
    LET c == find_1st_child(n) IN IF c.cwd = NULL THEN find_node(c, "VIEW") ELSE c
SplitNode(n) == LET c == find_2nd_child(n) IN IF c.cwd = NULL THEN find_node(c, "VIEW") ELSE c

RECURSIVE gen_node(_, _)
gen_node(n, path) ==
    LET steps == ChildSteps(n)
        step(i) == IF steps[i] \in {"pLeftNode", "pUpNode"} THEN "c1" ELSE "c2"
        RECURSIVE Under(_)
        Under(i) == IF i > Len(steps) THEN <<>>
                    ELSE gen_node(n[steps[i]], Append(path, step(i))) \o Under(i + 1)
    IN  IF n.direct \in {"HORIZONTAL", "VERTICAL"}
        THEN <<[direct |-> n.direct, path |-> path, cwd |-> SplitNode(n).cwd]>> \o Under(1)
        ELSE <<>>

genTree(root) == gen_node(root, <<>>)

(***************************************************************************)
(* What the listed splits mean for a pane that starts as the first view:   *)
(* mtm's split puts a container in the place of a view, with that view and *)
(* a new one (the calls in the comment at the end of tree.c's main).       *)
(***************************************************************************)
RECURSIVE SplitAt(_, _, _, _)
SplitAt(n, path, t, cwd) ==
    IF path = <<>> THEN [t |-> t, c1 |-> n, c2 |-> [t |-> "VIEW", cwd |-> cwd]]
    ELSE [n EXCEPT ![Head(path)] = SplitAt(@, Tail(path), t, cwd)]

(* Whether the pane has a node at path. *)
RECURSIVE Has(_, _)
Has(n, path) == path = <<>> \/ (~IsView(n) /\ Has(n[Head(path)], Tail(path)))

RECURSIVE Replay(_, _)
Replay(n, plan) ==
    IF plan = <<>> THEN n
    ELSE Replay(SplitAt(n, Head(plan).path, Head(plan).direct, Head(plan).cwd), Tail(plan))

=============================================================================
