------------------------------- MODULE Restore -------------------------------
(***************************************************************************)
(* The life of a session: panes are built by splits, deletions, expansions *)
(* and the RESTORE command, session_save writes them to a file, and mtm -r *)
(* starts with the pane described by a file that was made from it.         *)
(*                                                                         *)
(* main with -r reads ./mtm_test.toml with the parser of TomlTable,        *)
(* parse_table_s logs its first ROOT, and save_restore opens a view and    *)
(* splits it four times: whatever the file holds, the splits are the ones  *)
(* written in save_restore.  A split fails when there is no room or no     *)
(* process, and changes nothing; a split of a node that an earlier failure *)
(* left out is a call with NULL.                                           *)
(*                                                                         *)
(* A view is named by its working directory, no two being the same; the    *)
(* focus, the slot shown, pushed and fetched views are in Multiplexer, the *)
(* rectangles in Layout.                                                   *)
(***************************************************************************)
EXTENDS SessionFile, TomlTable, FiniteSets, SequencesExt

CONSTANTS
    View,      \* the views that can exist at the same time (bound)
    PANE_MAX   \* number of slots

ASSUME RestoreAssumption == PANE_MAX \in Nat \ {0}

VARIABLES
    t_root,    \* slot -> the tree of its pane, or NoPane
    expanded,  \* the views shown in a pane of their own as well (EXPANDROOT)
    restore_tab, \* with -r: the tables of the file, until they have been logged
    pc,        \* "parse", "open" or "split" with -r, then "run"; or "exited" or "crashed"
    splits,    \* the splits save_restore has tried
    failed     \* those that failed, while slot 0 is the pane save_restore builds or
               \*   has built, untouched since; otherwise NULL

vars == <<t_root, expanded, restore_tab, pc, splits, failed>>

Slot  == 0 .. PANE_MAX - 1
InUse == {i \in Slot : t_root[i] # NoPane}

RECURSIVE Names(_), Paths(_)
Names(n) == IF IsView(n) THEN {n.cwd} ELSE Names(n.c1) \cup Names(n.c2)
Paths(n) == {<<>>} \cup IF IsView(n) THEN {}
            ELSE {<<"c1">> \o q : q \in Paths(n.c1)} \cup {<<"c2">> \o q : q \in Paths(n.c2)}

RECURSIVE NodeAt(_, _)
NodeAt(n, path) == IF path = <<>> THEN n ELSE NodeAt(n[Head(path)], Tail(path))

Opened == UNION {Names(t_root[i]) : i \in InUse}
Fresh  == View \ Opened

NewView(v) == [t |-> "VIEW", cwd |-> v]

(***************************************************************************)
(* What the user does to the panes                                         *)
(***************************************************************************)
Change(i, n) == /\ t_root' = [t_root EXCEPT ![i] = n]
                /\ failed' = IF i = 0 THEN NULL ELSE failed

(* split of a view; one that is shown in two panes is left to Multiplexer. *)
Split ==
    \E i \in InUse, t \in {"HORIZONTAL", "VERTICAL"}, v \in Fresh :
        \E path \in Paths(t_root[i]) :
            /\ IsView(NodeAt(t_root[i], path)) /\ NodeAt(t_root[i], path).cwd \notin expanded
            /\ Change(i, SplitAt(t_root[i], path, t, v))
            /\ UNCHANGED <<expanded, restore_tab, pc, splits>>

(* removechild: the other child takes the place of the container. *)
RECURSIVE Put(_, _, _)
Put(n, path, m) == IF path = <<>> THEN m ELSE [n EXCEPT ![Head(path)] = Put(@, Tail(path), m)]

Delete ==
    \E i \in InUse : \E path \in Paths(t_root[i]) : \E gone \in {"c1", "c2"} :
        LET c == NodeAt(t_root[i], path)
        IN  /\ ~IsView(c) /\ IsView(c[gone]) /\ c[gone].cwd \notin expanded
            /\ Change(i, Put(t_root[i], path, IF gone = "c1" THEN c.c2 ELSE c.c1))
            /\ UNCHANGED <<expanded, restore_tab, pc, splits>>

(* deletenode of the only view of a pane, while there are others.          *)
DeletePane ==
    \E i \in InUse :
        /\ IsView(t_root[i]) /\ t_root[i].cwd \notin expanded
        /\ Cardinality(InUse) > 1
        /\ Change(i, NoPane)
        /\ UNCHANGED <<expanded, restore_tab, pc, splits>>

(* EXPAND: a view becomes the root of a free slot too, as EXPANDROOT. *)
Expand ==
    \E i \in InUse, s \in Slot \ InUse : \E v \in Names(t_root[i]) \ expanded :
        /\ \A s2 \in Slot : s2 < s => s2 \in InUse
        /\ Change(s, NewView(v))
        /\ expanded' = expanded \cup {v}
        /\ UNCHANGED <<restore_tab, pc, splits>>

(* deletenode of the EXPANDROOT: its slot is free, the view is a CHILD again. *)
Unexpand ==
    \E i \in InUse :
        /\ IsView(t_root[i]) /\ t_root[i].cwd \in expanded
        /\ \E j \in InUse \ {i} : t_root[i].cwd \in Names(t_root[j])
        /\ Change(i, NoPane)
        /\ expanded' = expanded \ {t_root[i].cwd}
        /\ UNCHANGED <<restore_tab, pc, splits>>

(* RESTORE_PANE: a new pane, split by save_restore_next unless that fails. *)
save_restore_next ==
    \E s \in Slot \ InUse, v \in Fresh :
        /\ \A s2 \in Slot : s2 < s => s2 \in InUse
        /\ \/ Change(s, NewView(v))
           \/ \E w \in Fresh \ {v} : Change(s, SplitAt(NewView(v), <<>>, "VERTICAL", w))
        /\ UNCHANGED <<expanded, restore_tab, pc, splits>>

(***************************************************************************)
(* mtm -r                                                                  *)
(***************************************************************************)
(* The file the user writes from the saved one, in the form of             *)
(* mtm_test.toml: a [[...CHILD]] table for each node, with its direction.  *)
Assign(k, s) == [line |-> "keyval", path |-> <<k>>, val |-> [is |-> "scalar", type |-> "s", text |-> s]]

RECURSIVE TomlLines(_, _), TomlFile(_)
TomlLines(n, path) ==
    <<[line |-> "array", path |-> path], Assign("direct", n.t)>>
    \o IF IsView(n) THEN <<Assign("cwd", n.cwd)>>
       ELSE TomlLines(n.c1, Append(path, "CHILD")) \o TomlLines(n.c2, Append(path, "CHILD"))
TomlFile(trees) == IF trees = <<>> THEN <<>> ELSE TomlLines(Head(trees), <<"ROOT">>) \o TomlFile(Tail(trees))

(* The panes that can be read from the saved file, in the order of slots.  *)
Saved ==
    LET file  == ReadBack(session_save(t_root, expanded, PANE_MAX))
        slots == SetToSortSeq({i \in DOMAIN file : file[i] # NULL}, <)
    IN  [k \in DOMAIN slots |-> file[slots[k]]]

(* The program ends, the user writes the file and starts mtm -r.           *)
Restart ==
    /\ pc' = "parse"
    /\ restore_tab' = toml_parse(TomlFile(Saved)).tab
    /\ t_root' = [s \in Slot |-> NoPane]
    /\ expanded' = {} /\ splits' = 0 /\ failed' = NULL

(* parse_node of the test program: the nodes under a table, a node before  *)
(* those under it.                                                         *)
RECURSIVE parse_node(_, _)
parse_node(tab, place) ==
    LET direct == tab[Under(place, "direct")].text
        RECURSIVE Nodes(_)
        Nodes(i) == IF i > toml_array_nelem(tab, place, "CHILD") THEN <<>>
                    ELSE parse_node(tab, toml_table_at(place, "CHILD", i)) \o Nodes(i + 1)
    IN  <<[t |-> direct, cwd |-> IF direct = "VIEW" THEN tab[Under(place, "cwd")].text ELSE NULL]>>
        \o Nodes(1)

(* sarch_node: the first view under a table, by its first children.        *)
RECURSIVE sarch_node(_, _)
sarch_node_last(tab, place) ==  \* mutation: the last child
    IF toml_string_is(tab, place, "direct", "VIEW") THEN place
    ELSE IF toml_array_nelem(tab, place, "CHILD") = 0 THEN NULL
    ELSE sarch_node(tab, toml_table_at(place, "CHILD", toml_array_nelem(tab, place, "CHILD")))
sarch_node(tab, place) ==
    IF toml_string_is(tab, place, "direct", "VIEW") THEN place
    ELSE IF toml_array_nelem(tab, place, "CHILD") = 0 THEN NULL
    ELSE sarch_node(tab, toml_table_at(place, "CHILD", 1))

(* parse_table_s takes the first ROOT, two children of it and two of each  *)
(* of those for granted: toml_table_at of a missing array, or              *)
(* toml_string_in of a missing table, dereferences NULL.                   *)
parse_table_s ==
    /\ pc = "parse"
    /\ LET root == toml_table_at(<<>>, "ROOT", 1)
           two(place) == toml_array_nelem(restore_tab, place, "CHILD") >= 2
       IN  pc' = IF /\ restore_tab # <<>> /\ toml_array_nelem(restore_tab, <<>>, "ROOT") >= 1 /\ two(root)
                    /\ \A i \in 1 .. 2 : two(toml_table_at(root, "CHILD", i))
                 THEN "open" ELSE "crashed"
    /\ restore_tab' = NULL
    /\ UNCHANGED <<t_root, expanded, splits, failed>>

(* The calls of split in save_restore. *)
RestoreSplits_down ==  \* mutation: the last split below instead of above
     <<[path |-> <<>>, t |-> "HORIZONTAL"], [path |-> <<"c1">>, t |-> "VERTICAL"],
      [path |-> <<"c2">>, t |-> "VERTICAL"], [path |-> <<"c2", "c2">>, t |-> "HORIZONTAL"]>>
RestoreSplits == <<[path |-> <<>>, t |-> "HORIZONTAL"], [path |-> <<"c1">>, t |-> "VERTICAL"],
                   [path |-> <<"c2">>, t |-> "VERTICAL"], [path |-> <<"c2", "c1">>, t |-> "HORIZONTAL"]>>

OpenRoot ==
    /\ pc = "open"
    /\ \/ \E v \in Fresh : t_root' = [t_root EXCEPT ![0] = NewView(v)] /\ pc' = "split"
       \/ t_root' = t_root /\ pc' = "exited"
    /\ failed' = IF pc' = "split" THEN {} ELSE failed
    /\ UNCHANGED <<expanded, restore_tab, splits>>

(* The next split; split(NULL) reads n->isfetch. *)
save_restore ==
    /\ pc = "split"
    /\ splits' = splits + 1
    /\ LET s == RestoreSplits[splits']
       IN  IF ~Has(t_root[0], s.path) THEN pc' = "crashed" /\ UNCHANGED <<t_root, failed>>
           ELSE /\ pc' = IF splits' = Len(RestoreSplits) THEN "run" ELSE "split"
                /\ \/ t_root' = t_root /\ failed' = failed \cup {splits'}
                   \/ \E v \in Fresh : t_root' = [t_root EXCEPT ![0] = SplitAt(@, s.path, s.t, v)]
                                     /\ failed' = failed
    /\ UNCHANGED <<expanded, restore_tab>>

Init ==
    /\ expanded = {}
    /\ failed = NULL
    /\ restore_tab = NULL
    /\ pc = "run" /\ splits = 0
    /\ \E v \in View : t_root = [i \in Slot |-> IF i = 0 THEN NewView(v) ELSE NoPane]

Next ==
    \/ pc = "run" /\ (Split \/ Delete \/ DeletePane \/ Expand \/ Unexpand \/ save_restore_next \/ Restart)
    \/ parse_table_s \/ OpenRoot \/ save_restore

Spec == Init /\ [][Next]_vars

(***************************************************************************)
(* Properties                                                              *)
(***************************************************************************)
RECURSIVE IsTree(_)
IsTree(n) == IF IsView(n) THEN n.cwd \in View
             ELSE /\ n.t \in {"HORIZONTAL", "VERTICAL"} /\ IsTree(n.c1) /\ IsTree(n.c2)
                  /\ Names(n.c1) \cap Names(n.c2) = {}

(* Panes are trees in which no view occurs twice, and an expanded view is  *)
(* open (split, removechild, the EXPAND request).                          *)
TypeOK ==
    /\ \A i \in InUse : IsTree(t_root[i])
    /\ pc = "parse" <=> restore_tab # NULL
    /\ expanded \subseteq Opened
    /\ failed = NULL \/ failed \subseteq 1 .. splits
    /\ pc \in {"parse", "open", "split", "run", "exited", "crashed"}
    /\ splits \in 0 .. Len(RestoreSplits)

(* The indentation of the saved file alone gives back every pane, in its   *)
(* slot, except the panes one of whose views is expanded: an EXPANDROOT is *)
(* not written, so neither its own pane nor the tree it came from can be   *)
(* read back (node_save, session_save).                                    *)
FileReadsBack ==
    pc = "run" =>
        ReadBack(session_save(t_root, expanded, PANE_MAX)) =
            [i \in InUse |-> IF Names(t_root[i]) \cap expanded # {} THEN NULL ELSE t_root[i]]

(* The walks over a prototype agree: count_node counts what walk_node      *)
(* prints, count_depth its deepest level, there is a split for each view   *)
(* but one, and freeNode frees each node once and after the nodes that are *)
(* reached through it.                                                     *)
WalksAgree ==
    \A i \in InUse :
        LET root  == Prototype(t_root[i])
            shown == walk_node(root, 0)
            freed == freeNode(root, <<>>)
            below(p, q) == Len(p) > Len(q) /\ SubSeq(p, 1, Len(q)) = q
        IN  /\ count_node(root, 0, "NONE") = Len(shown)
            /\ count_depth(root, 0) = 1 + CHOOSE d \in {shown[k].lv : k \in DOMAIN shown} :
                                             \A k \in DOMAIN shown : shown[k].lv <= d
            /\ count_node(root, 0, "VIEW") = Len(genTree(root)) + 1
            /\ Len(freed) = Len(shown)
            /\ \A k, l \in DOMAIN freed : /\ freed[k] = freed[l] => k = l
                                          /\ below(freed[k], freed[l]) => k < l

(* The splits genTree lists for the prototype of a pane, done one after    *)
(* the other from its first view, build that pane, with every view in its  *)
(* directory, whatever the nesting (gen_node, find_2nd_child, find_node),  *)
(* and the walks it relies on agree.                                       *)
PlanRebuilds ==
    /\ TypeOK /\ WalksAgree
    /\ \A i \in InUse :
        LET root == Prototype(t_root[i])
        IN  Replay([t |-> "VIEW", cwd |-> find_node(root, "VIEW").cwd], genTree(root)) = t_root[i]

(* The tables toml_parse builds from the file are the panes: the test      *)
(* program lists the nodes of each, in order, and the view parse_table_s   *)
(* finds under a child of the ROOT is the one the split that opens this    *)
(* child must start (walk_tabpath, parse_node, sarch_node; find_node goes  *)
(* by the pointers of the prototype).  Six views nest too little for the   *)
(* limit on a header's path (PathFits) to be met here.                     *)
TablesAreTrees ==
    pc = "run" =>
        LET saved == Saved
            tab   == toml_parse(TomlFile(saved)).tab
        IN  \A i \in DOMAIN saved :
              LET place == toml_table_at(<<>>, "ROOT", i)
                  root  == Prototype(saved[i])
                  shown == walk_node(root, 0)
                  first(k) == tab[Under(sarch_node(tab, toml_table_at(place, "CHILD", k)), "cwd")].text
              IN  /\ parse_node(tab, place) =
                         [k \in DOMAIN shown |-> [t |-> shown[k].node.direct, cwd |-> shown[k].node.cwd]]
                  /\ ~IsView(saved[i]) =>
                         /\ first(1) = find_node(find_1st_child(root), "VIEW").cwd
                         /\ first(2) = SplitNode(root).cwd

(* The shape of the first ROOT of the mtm_test.toml of the repository. *)
TestFile == LET view == [t |-> "VIEW"]
                node(t, a, b) == [t |-> t, c1 |-> a, c2 |-> b]
            IN  node("HORIZONTAL", node("VERTICAL", view, view),
                     node("VERTICAL", node("HORIZONTAL", view, view), view))

(* The containers of a tree, each before those below it. *)
RECURSIVE Containers(_, _)
Containers(n, path) ==
    IF IsView(n) THEN <<>>
    ELSE <<[path |-> path, t |-> n.t]>> \o Containers(n.c1, Append(path, "c1"))
                                       \o Containers(n.c2, Append(path, "c2"))

(* The pane of mtm -r has exactly those containers of mtm_test.toml, in    *)
(* their places and directions, for which a split was tried and did not    *)
(* fail: with room and processes for all four it is the pane of the file.  *)
(* mtm comes up unless a container of the file failed that has another     *)
(* below it, and then crashes on this one (save_restore).                  *)
RestoresFile ==
    failed # NULL =>
        LET file  == Containers(TestFile, <<>>)
            tried == 1 .. splits
            lost  == {k \in tried : \E j \in failed : IsStrictPrefix(file[j].path, file[k].path)}
        IN  /\ ToSet(Containers(t_root[0], <<>>)) = {file[k] : k \in tried \ (failed \cup lost)}
            /\ pc = "crashed" <=> lost # {}
            /\ pc = "run" => splits = Len(file)

=============================================================================
