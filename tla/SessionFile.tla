---------------------------- MODULE SessionFile ----------------------------
(***************************************************************************)
(* The file session_save writes: for each slot in use a line root:n, then  *)
(* the nodes of its pane, indented by their level, a node before its       *)
(* children and c1 before c2; a view is followed by its cwd and exe lines. *)
(*                                                                         *)
(* A line is a record of what it says; its indentation is its level lv.    *)
(* A node whose type is EXPANDROOT is not written, in any pane.            *)
(***************************************************************************)
EXTENDS TreePlan

CONSTANT NoPane  \* the empty slot

(* The line also names the node's type; a failed split leaves CHILD in a   *)
(* ROOT, so a reader has nothing but the level to go by.                   *)
NodeLine(n, lv) == [says |-> "node", t |-> n.t, lv |-> lv]

(* A view has a child process and so a pid; a container has none. *)
ViewLines(n, lv) == IF IsView(n) THEN <<[says |-> "cwd", cwd |-> n.cwd, lv |-> lv],
                                        [says |-> "exe", lv |-> lv]>> ELSE <<>>

(* node_save of n at level lv; the views in expanded are EXPANDROOT.       *)
RECURSIVE node_save(_, _, _)
node_save_level(n, expanded, lv) ==  \* mutation: the children are not indented
    IF IsView(n) /\ n.cwd \in expanded THEN <<>>
    ELSE <<NodeLine(n, 1)>> \o ViewLines(n, 1)
         \o (IF IsView(n) THEN <<>> ELSE node_save(n.c1, expanded, lv) \o node_save(n.c2, expanded, lv))

node_save(n, expanded, lv) ==
    IF IsView(n) /\ n.cwd \in expanded THEN <<>>
    ELSE <<NodeLine(n, lv + 1)>> \o ViewLines(n, lv + 1)
         \o (IF IsView(n) THEN <<>>
             ELSE node_save(n.c1, expanded, lv + 1) \o node_save(n.c2, expanded, lv + 1))

RECURSIVE SlotsFrom(_, _, _, _)
SlotsFrom(root, expanded, i, max) ==
    IF i = max THEN <<>>
    ELSE (IF root[i] = NoPane THEN <<>>
          ELSE <<[says |-> "root", index |-> i, lv |-> 0]>> \o node_save(root[i], expanded, 0))
         \o SlotsFrom(root, expanded, i + 1, max)

session_save(root, expanded, max) == SlotsFrom(root, expanded, 0, max)

(***************************************************************************)
(* Reading the file back by its indentation alone: the tree a reader of    *)
(* the file sees.  No code of the repository reads it.                     *)
(***************************************************************************)
RECURSIVE ReadNode(_, _)
ReadNode(lines, i) ==  \* <<the tree at line i, the line after it>>, or <<NULL, i>>
    IF i > Len(lines) \/ lines[i].says # "node" THEN <<NULL, i>>
    ELSE IF lines[i].t = "VIEW"
    THEN IF i + 2 <= Len(lines) /\ lines[i + 1].says = "cwd"
         THEN <<[t |-> "VIEW", cwd |-> lines[i + 1].cwd], i + 3>> ELSE <<NULL, i>>
    ELSE LET under(j) == j <= Len(lines) /\ lines[j].says = "node" /\ lines[j].lv = lines[i].lv + 1
             r1 == IF under(i + 1) THEN ReadNode(lines, i + 1) ELSE <<NULL, i>>
             r2 == IF under(r1[2]) THEN ReadNode(lines, r1[2]) ELSE <<NULL, i>>
         IN  IF r1[1] = NULL \/ r2[1] = NULL THEN <<NULL, i>>
             ELSE <<[t |-> lines[i].t, c1 |-> r1[1], c2 |-> r2[1]], r2[2]>>

RootLines(lines) == {i \in DOMAIN lines : lines[i].says = "root"}

ReadBack(lines) == [s \in {lines[i].index : i \in RootLines(lines)} |->
                       ReadNode(lines, 1 + CHOOSE i \in RootLines(lines) : lines[i].index = s)[1]]

=============================================================================
