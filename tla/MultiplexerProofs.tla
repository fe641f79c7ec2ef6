-------------------------- MODULE MultiplexerProofs --------------------------
(***************************************************************************)
(* Proofs about Multiplexer for every number of nodes and panes, every set *)
(* of commands, with or without typeahead, failing forks and programs that *)
(* exit.                                                                   *)
(***************************************************************************)
EXTENDS MCMultiplexer, TLAPS

(***************************************************************************)
(* Type correctness; and, when the user gives no expand or fetch command,  *)
(* that no pointer is left dangling.                                       *)
(***************************************************************************)
(* TypeOK without the position in the loop and the round's copy of the      *)
(* descriptors: what a handler preserves.                                   *)
StoreOK ==
    /\ t \in [Node -> {"FREE", "VIEW", "CONTAINER"}]
    /\ type \in [Node -> {"ROOT", "CHILD", "EXPANDROOT"}]
    /\ p \in [Node -> NodeOrNull]
    /\ c1 \in [Node -> NodeOrNull]
    /\ c2 \in [Node -> NodeOrNull]
    /\ refcnt \in [Node -> Int]
    /\ root_index \in [Node -> Pane]
    /\ isfetch \in [Node -> BOOLEAN]
    /\ fetch_save_node \in [Node -> NodeOrNull]
    /\ fetch_save_node_cp \in [Node -> Slot \cup {NULL}]
    /\ push_node \in NodeOrNull
    /\ t_root \in [Pane -> NodeOrNull]
    /\ t_root_enable \in [Pane -> {0, 1}]
    /\ t_focused \in [Pane -> NodeOrNull]
    /\ t_lastfocused \in [Pane -> NodeOrNull]
    /\ t_root_index \in Pane
    /\ t_root_change \in Requests \cup {"NONE"}
    /\ t_expand_node \in NodeOrNull
    /\ fds \subseteq Node /\ exited \subseteq Node
    /\ status \in {"running", "exited", "crashed"}

LEMMA StoreIsType ==
    TypeOK <=> /\ StoreOK /\ sfds \subseteq Node
               /\ pc \in {"select", "keys", "input", "switch"}
BY DEF TypeOK, StoreOK

LEMMA StoreUnchanged ==
    ASSUME StoreOK, UNCHANGED storeVars,
           status' \in {"running", "exited", "crashed"}
    PROVE  StoreOK'
BY DEF StoreOK, storeVars, heapVars, fetchVars, slotVars, focusVars, ioVars, reqVars

LEMMA ZeroPane == 0 \in Pane
BY ConstAssumption DEF Pane

(* The nodes a walk reaches are addresses. *)
LEMMA WalkInNode ==
    /\ \A n : FirstView(n) \subseteq Node
    /\ \A n : SubTree(n) \subseteq Node
    /\ \A i : PaneViews(i) \subseteq Node
BY DEF FirstView, SubTree, PaneViews

LEMMA CrashStore == ASSUME StoreOK, Crash PROVE StoreOK'
BY StoreUnchanged DEF Crash

LEMMA RequestStore ==
    ASSUME StoreOK, NEW kind \in Requests, Request(kind)
    PROVE  StoreOK'
BY DEF StoreOK, Request, heapVars, fetchVars, slotVars, focusVars, ioVars

-----------------------------------------------------------------------------
LEMMA DeleteRootStore ==
    ASSUME StoreOK, NEW n \in Node, DeleteRoot(n)
    PROVE  StoreOK'
<1> DEFINE given_up(i) == IsLeast(i, {j \in Pane : t_root[j] = n})
<1>1. t_root' \in [Pane -> NodeOrNull] /\ t_root_enable' \in [Pane -> {0, 1}]
  BY DEF StoreOK, DeleteRoot, NodeOrNull
<1>2. type' \in [Node -> {"ROOT", "CHILD", "EXPANDROOT"}]
  BY DEF StoreOK, DeleteRoot
<1>3. refcnt' \in [Node -> Int] /\ fds' \subseteq Node
  BY DEF StoreOK, DeleteRoot
<1>4. /\ status' \in {"running", "exited", "crashed"}
      /\ t_root_change' \in Requests \cup {"NONE"}
  BY DEF StoreOK, DeleteRoot, Requests
<1> QED
  BY <1>1, <1>2, <1>3, <1>4 DEF StoreOK, DeleteRoot, fetchVars, focusVars

LEMMA UnlinkStore ==
    ASSUME StoreOK, NEW n \in Node, NEW q \in Node, NEW s \in Node,
           NEW g \in NodeOrNull, Unlink(n, q, s, g)
    PROVE  StoreOK'
<1>1. /\ t_focused' \in [Pane -> NodeOrNull]
      /\ t_lastfocused' \in [Pane -> NodeOrNull]
  BY WalkInNode DEF StoreOK, Unlink, Forget, NodeOrNull
<1>2. t' \in [Node -> {"FREE", "VIEW", "CONTAINER"}]
  BY DEF StoreOK, Unlink
<1>3. type' \in [Node -> {"ROOT", "CHILD", "EXPANDROOT"}]
  BY DEF StoreOK, Unlink
<1>4. p' \in [Node -> NodeOrNull]
  BY DEF StoreOK, Unlink, NodeOrNull
<1>5. c1' \in [Node -> NodeOrNull] /\ c2' \in [Node -> NodeOrNull]
  BY DEF StoreOK, Unlink, NodeOrNull
<1>6. t_root' \in [Pane -> NodeOrNull]
  BY DEF StoreOK, Unlink, NodeOrNull
<1>7. refcnt' \in [Node -> Int] /\ root_index' \in [Node -> Pane]
  BY ZeroPane DEF StoreOK, Unlink
<1>8. /\ isfetch' \in [Node -> BOOLEAN]
      /\ fetch_save_node' \in [Node -> NodeOrNull]
      /\ fetch_save_node_cp' \in [Node -> Slot \cup {NULL}]
  BY DEF StoreOK, Unlink, NodeOrNull
<1>9. fds' \subseteq Node /\ exited' \subseteq Node
  BY DEF StoreOK, Unlink
<1>10. UNCHANGED <<push_node, t_root_enable, reqVars, t_root_index, status>>
  BY DEF Unlink
<1> QED
  BY <1>1, <1>2, <1>3, <1>4, <1>5, <1>6, <1>7, <1>8, <1>9, <1>10
     DEF StoreOK, reqVars

LEMMA DeleteChildStore ==
    ASSUME StoreOK, NEW n \in Node, DeleteChild(n)
    PROVE  StoreOK'
<1>1. CASE Crash
  BY <1>1, CrashStore
<1>2. CASE Unlink(n, p[n], Sibling(n), p[p[n]]) /\ Allocated(p[n]) /\ Allocated(Sibling(n))
  <2>1. p[n] \in Node /\ Sibling(n) \in Node /\ p[p[n]] \in NodeOrNull
    BY <1>2 DEF StoreOK, Allocated, Sibling, NodeOrNull
  <2> QED BY <1>2, <2>1, UnlinkStore
<1> QED BY <1>1, <1>2 DEF DeleteChild

LEMMA DeleteStore ==
    ASSUME StoreOK, NEW n \in Node, deletenode(n)
    PROVE  StoreOK'
<1>1. CASE UNCHANGED <<storeVars, status>>
  BY <1>1, StoreUnchanged DEF StoreOK
<1>2. CASE DeleteRoot(n)
  BY <1>2, DeleteRootStore
<1>3. CASE DeleteChild(n)
  BY <1>3, DeleteChildStore
<1> QED BY <1>1, <1>2, <1>3 DEF deletenode

LEMMA SplitStore ==
    ASSUME StoreOK, NEW n \in Node, split(n)
    PROVE  StoreOK'
<1>1. CASE UNCHANGED <<storeVars, status>>
  BY <1>1, StoreUnchanged DEF StoreOK
<1>2. CASE SplitFails(n)
  BY <1>2 DEF StoreOK, SplitFails, fetchVars, slotVars, focusVars, ioVars, reqVars
<1>3. CASE Crash
  BY <1>3, CrashStore
<1>4. ASSUME NEW v \in Node, NEW c \in Node, SplitWith(n, v, c)
      PROVE  StoreOK'
  <2>1. t' \in [Node -> {"FREE", "VIEW", "CONTAINER"}]
    BY <1>4 DEF StoreOK, SplitWith
  <2>2. type' \in [Node -> {"ROOT", "CHILD", "EXPANDROOT"}]
    BY <1>4 DEF StoreOK, SplitWith
  <2>3. p' \in [Node -> NodeOrNull]
    BY <1>4 DEF StoreOK, SplitWith, NodeOrNull
  <2>4. c1' \in [Node -> NodeOrNull] /\ c2' \in [Node -> NodeOrNull]
    BY <1>4 DEF StoreOK, SplitWith, NodeOrNull
  <2>5. /\ t_root' \in [Pane -> NodeOrNull]
        /\ t_focused' \in [Pane -> NodeOrNull]
        /\ t_lastfocused' \in [Pane -> NodeOrNull]
    BY <1>4 DEF StoreOK, SplitWith, NodeOrNull, Focused
  <2>6. refcnt' \in [Node -> Int] /\ root_index' \in [Node -> Pane] /\ fds' \subseteq Node
    BY <1>4 DEF StoreOK, SplitWith
  <2> QED
    BY <1>4, <2>1, <2>2, <2>3, <2>4, <2>5, <2>6
       DEF StoreOK, SplitWith, fetchVars, reqVars
<1> QED BY <1>1, <1>2, <1>3, <1>4 DEF split

LEMMA FocusStore ==
    ASSUME StoreOK, NEW v \in Node, FocusOnly(v)
    PROVE  StoreOK'
BY DEF StoreOK, FocusOnly, focus, heapVars, fetchVars, slotVars, ioVars, reqVars, NodeOrNull

LEMMA MoveStore ==
    ASSUME StoreOK, MoveFocus \/ MoveOther
    PROVE  StoreOK'
<1>1. CASE UNCHANGED <<storeVars, status>>
  BY <1>1, StoreUnchanged DEF StoreOK
<1>2. CASE Crash
  BY <1>2, CrashStore
<1>3. CASE \E v \in Node : FocusOnly(v)
  BY <1>3, FocusStore
<1> QED BY <1>1, <1>2, <1>3, WalkInNode DEF MoveFocus, MoveOther

LEMMA SwapStore ==
    ASSUME StoreOK, NEW n \in Node, swapnode(n)
    PROVE  StoreOK'
<1>1. CASE Crash
  BY <1>1, CrashStore
<1>2. CASE Allocated(p[n]) /\ ~Crash
  <2>1. p[n] \in Node
    BY <1>2 DEF StoreOK, Allocated, NodeOrNull
  <2> QED
    BY <1>2, <2>1 DEF StoreOK, swapnode, fetchVars, slotVars, focusVars, ioVars, Requests
<1> QED BY <1>1, <1>2 DEF swapnode

LEMMA PushStore ==
    ASSUME StoreOK, NEW n \in Node, pushnode(n)
    PROVE  StoreOK'
BY DEF StoreOK, pushnode, heapVars, slotVars, focusVars, ioVars, reqVars, NodeOrNull

LEMMA FetchStore ==
    ASSUME StoreOK, NEW n \in Node, fetchnode(n)
    PROVE  StoreOK'
<1>1. CASE Crash
  BY <1>1, CrashStore
<1>2. CASE UNCHANGED <<storeVars, status>>
  BY <1>2, StoreUnchanged DEF StoreOK
<1>3. CASE Request("FETCH")
  BY <1>3, RequestStore DEF Requests
<1>4. CASE ~get_root_fails(n) /\ push_node # NULL /\ type[n] = "CHILD" /\ Allocated(push_node)
  <2>1. push_node \in Node
    BY <1>4 DEF StoreOK, NodeOrNull
  <2>2. fds' \subseteq Node /\ isfetch' \in [Node -> BOOLEAN]
    BY <1>4, <2>1 DEF StoreOK, fetchnode
  <2>3. fetch_save_node' \in [Node -> NodeOrNull]
    BY <1>4, <2>1 DEF StoreOK, fetchnode, NodeOrNull
  <2>4. fetch_save_node_cp' \in [Node -> Slot \cup {NULL}]
    <3>1. n \in {c1[p[n]], c2[p[n]]} /\ p[n] \in Node
             => <<p[n], IF c1[p[n]] = n THEN "c1" ELSE "c2">> \in Slot
      BY DEF Slot
    <3>2. p[n] \in Node
      \* get_root_fails(n) holds of a CHILD without an allocated parent
      <4>1. SUFFICES ASSUME ~Allocated(p[n]) PROVE FALSE
        BY DEF StoreOK, Allocated, NodeOrNull
      <4> QED BY <1>4, <4>1 DEF get_root_fails
    <3> QED BY <1>4, <2>1, <3>1, <3>2 DEF StoreOK, fetchnode
  <2>5. c1' \in [Node -> NodeOrNull] /\ c2' \in [Node -> NodeOrNull]
    BY <1>4, <2>1 DEF StoreOK, fetchnode, NodeOrNull
  <2>6. /\ t_root_change' \in Requests \cup {"NONE"}
        /\ UNCHANGED <<t, type, p, refcnt, root_index, push_node, slotVars, focusVars,
                       exited, t_expand_node, t_root_index, status>>
    BY <1>4 DEF fetchnode, Requests
  <2> QED
    BY <2>2, <2>3, <2>4, <2>5, <2>6 DEF StoreOK, slotVars, focusVars
<1> QED BY <1>1, <1>2, <1>3, <1>4 DEF fetchnode

LEMMA UnfetchStore ==
    ASSUME StoreOK, NEW n \in Node, unfetchnode(n)
    PROVE  StoreOK'
<1>1. CASE Crash
  BY <1>1, CrashStore
<1>2. CASE type[n] # "CHILD"
  BY <1>2 DEF StoreOK, unfetchnode, heapVars, slotVars, focusVars, ioVars, Requests
<1>3. CASE type[n] = "CHILD" /\ Allocated(fetch_save_node[n]) /\ ~Crash
  <2>1. fetch_save_node[n] \in Node
    BY <1>3 DEF StoreOK, Allocated, NodeOrNull
  <2>2. c1' \in [Node -> NodeOrNull] /\ c2' \in [Node -> NodeOrNull]
    BY <1>3, <2>1 DEF StoreOK, unfetchnode, NodeOrNull
  <2> QED
    BY <1>3, <2>1, <2>2 DEF StoreOK, unfetchnode, slotVars, focusVars, Requests
<1> QED BY <1>1, <1>2, <1>3 DEF unfetchnode

LEMMA ExpandStore ==
    ASSUME StoreOK, NEW n \in Node, expandnode(n)
    PROVE  StoreOK'
BY DEF StoreOK, expandnode, fetchVars, slotVars, focusVars, ioVars, NodeOrNull, Requests

LEMMA CommandStore ==
    ASSUME StoreOK, NEW n \in Node, Command(n)
    PROVE  StoreOK'
<1>1. CASE MoveFocus \/ MoveOther           BY <1>1, MoveStore
<1>2. CASE split(n)                         BY <1>2, SplitStore
<1>3. CASE deletenode(n)                    BY <1>3, DeleteStore
<1>4. CASE swapnode(n)                      BY <1>4, SwapStore
<1>5. CASE pushnode(n)                      BY <1>5, PushStore
<1>6. CASE fetchnode(n)                     BY <1>6, FetchStore
<1>7. CASE unfetchnode(n)                   BY <1>7, UnfetchStore
<1>8. CASE expandnode(n)                    BY <1>8, ExpandStore
<1>9. CASE \E kind \in Requests : Request(kind)
  BY <1>9, RequestStore
<1>10. CASE Crash                           BY <1>10, CrashStore
<1>11. CASE UNCHANGED storeVars /\ status' \in {"exited", status}
  BY <1>11, StoreUnchanged DEF StoreOK
<1> QED
  BY <1>1, <1>2, <1>3, <1>4, <1>5, <1>6, <1>7, <1>8, <1>9, <1>10, <1>11
     DEF Command, WindowLabel, Reshape, Quit, Requests

-----------------------------------------------------------------------------
LEMMA StayStore == ASSUME StoreOK, StayOnPane PROVE StoreOK'
<1>1. CASE Crash
  BY <1>1, CrashStore
<1>2. CASE ~Crash
  BY <1>2 DEF StoreOK, StayOnPane, heapVars, fetchVars, slotVars, focusVars, ioVars
<1> QED BY <1>1, <1>2

LEMMA NewPaneStore == ASSUME StoreOK, NewPane PROVE StoreOK'
<1>1. CASE StayOnPane
  BY <1>1, StayStore
<1>2. ASSUME NEW i \in Pane, NewPaneFails(i) PROVE StoreOK'
  <2>1. CASE Crash
    BY <2>1, CrashStore
  <2>2. CASE ~Crash
    BY <1>2, <2>2 DEF StoreOK, NewPaneFails, heapVars, fetchVars, focusVars, ioVars, NodeOrNull
  <2> QED BY <2>1, <2>2
<1>3. ASSUME NEW i \in Pane, NewPaneOpens(i) PROVE StoreOK'
  <2>1. UNCHANGED <<fetchVars, exited, t_expand_node, status>>
    BY <1>3 DEF NewPaneOpens, Planted
  <2>2. /\ t_root_enable' \in [Pane -> {0, 1}] /\ t_root_index' \in Pane
        /\ t_root_change' \in Requests \cup {"NONE"}
    BY <1>3 DEF StoreOK, NewPaneOpens
  <2>3. ASSUME NEW v \in Node, NEW kind \in {"ROOT", "CHILD"}, NewRoot(i, v, kind)
        PROVE  StoreOK'
    BY <2>1, <2>2, <2>3 DEF StoreOK, NewRoot, focus, fetchVars, NodeOrNull
  <2>4. ASSUME NEW v \in Node, NEW w \in Node, NEW c \in Node, RestoredRoot(i, v, w, c)
        PROVE  StoreOK'
    <3>1. /\ t' \in [Node -> {"FREE", "VIEW", "CONTAINER"}]
          /\ type' \in [Node -> {"ROOT", "CHILD", "EXPANDROOT"}]
          /\ refcnt' \in [Node -> Int] /\ root_index' \in [Node -> Pane]
      BY <2>4 DEF StoreOK, RestoredRoot
    <3>2. /\ p' \in [Node -> NodeOrNull]
          /\ c1' \in [Node -> NodeOrNull] /\ c2' \in [Node -> NodeOrNull]
      BY <2>4 DEF StoreOK, RestoredRoot, NodeOrNull
    <3>3. /\ t_root' \in [Pane -> NodeOrNull]
          /\ t_focused' \in [Pane -> NodeOrNull]
          /\ t_lastfocused' \in [Pane -> NodeOrNull]
          /\ fds' \subseteq Node
      BY <2>4 DEF StoreOK, RestoredRoot, NodeOrNull
    <3> QED
      BY <2>1, <2>2, <3>1, <3>2, <3>3 DEF StoreOK, fetchVars
  <2> QED BY <1>3, <2>3, <2>4 DEF NewPaneOpens, Planted
<1> QED BY <1>1, <1>2, <1>3 DEF NewPane

LEMMA EnterStore ==
    ASSUME StoreOK, NEW i \in Pane, EnterPane(i)
    PROVE  StoreOK'
<1>1. CASE Crash
  BY <1>1, CrashStore
<1>2. CASE ~Crash
  BY <1>2 DEF StoreOK, EnterPane, focus, heapVars, fetchVars, slotVars, focusVars, ioVars
<1> QED BY <1>1, <1>2

LEMMA ExpandPaneStore == ASSUME StoreOK, ExpandPane PROVE StoreOK'
<1>1. CASE StayOnPane
  BY <1>1, StayStore
<1>2. CASE Crash
  BY <1>2, CrashStore
<1>3. CASE ~StayOnPane /\ ~Crash
  BY <1>3 DEF StoreOK, ExpandPane, focus, Allocated, fetchVars, ioVars, NodeOrNull
<1> QED BY <1>1, <1>2, <1>3

LEMMA RefocusStore == ASSUME StoreOK, RefocusPane PROVE StoreOK'
<1>1. CASE Crash
  BY <1>1, CrashStore
<1>2. CASE ~Crash
  BY <1>2, WalkInNode
     DEF StoreOK, RefocusPane, focus, heapVars, fetchVars, slotVars, ioVars, NodeOrNull
<1> QED BY <1>1, <1>2

LEMMA SwitchStore == ASSUME StoreOK, Switch PROVE StoreOK'
BY NewPaneStore, EnterStore, ExpandPaneStore, RefocusStore, StayStore DEF Switch

LEMMA InputStore == ASSUME StoreOK, GetInput PROVE StoreOK'
<1>1. CASE UNCHANGED <<storeVars, status>>
  BY <1>1, StoreUnchanged DEF StoreOK
<1>2. CASE Crash
  BY <1>2, CrashStore
<1>3. CASE \E v \in Node : deletenode(v)
  BY <1>3, DeleteStore
<1> QED
  <2>1. Closed \subseteq Node
    BY WalkInNode DEF Closed
  <2> QED BY <1>1, <1>2, <1>3, <2>1 DEF GetInput

LEMMA KeyStore == ASSUME StoreOK, Key PROVE StoreOK'
<1>1. CASE Crash
  BY <1>1, CrashStore
<1>2. CASE Allocated(Focused) /\ Command(Focused)
  <2>1. Focused \in Node
    BY <1>2 DEF StoreOK, Allocated, Focused, NodeOrNull
  <2> QED BY <1>2, <2>1, CommandStore
<1> QED BY <1>1, <1>2 DEF Key

-----------------------------------------------------------------------------
(* Every variable keeps its type, whatever commands the user gives: in     *)
(* particular the current pane stays a slot of t_root and every pointer    *)
(* an address or NULL (all of mtm.c from newnode to main).                 *)
THEOREM TypeCorrect == Spec => []TypeOK
<1>1. Init => TypeOK
  <2>1. ASSUME Init PROVE StoreOK
    BY <2>1, ZeroPane, ConstAssumption DEF Init, StoreOK, NodeOrNull
  <2> QED BY <2>1, StoreIsType DEF Init
<1>2. TypeOK /\ [Next]_vars => TypeOK'
  <2> SUFFICES ASSUME TypeOK, [Next]_vars PROVE TypeOK'
    OBVIOUS
  <2>0. StoreOK /\ sfds \subseteq Node /\ pc \in {"select", "keys", "input", "switch"}
    BY StoreIsType
  <2>1. CASE Select
    BY <2>1 DEF Select, TypeOK, heapVars, fetchVars, slotVars, focusVars, reqVars
  <2>2. CASE KeysDone
    BY <2>2 DEF KeysDone, TypeOK, storeVars, heapVars, fetchVars, slotVars, focusVars,
                ioVars, reqVars
  <2>3. CASE GetInput
    BY <2>0, <2>3, InputStore DEF GetInput, TypeOK, StoreOK
  <2>4. CASE Switch
    BY <2>0, <2>4, SwitchStore DEF Switch, TypeOK, StoreOK
  <2>5. CASE Key
    BY <2>0, <2>5, KeyStore DEF Key, TypeOK, StoreOK
  <2>6. ASSUME NEW n \in Node, ProgramExit(n) PROVE TypeOK'
    BY <2>6 DEF ProgramExit, TypeOK, heapVars, fetchVars, slotVars, focusVars, reqVars
  <2>7. CASE UNCHANGED vars
    BY <2>7 DEF vars, TypeOK, heapVars, fetchVars, slotVars, focusVars, ioVars, reqVars
  <2> QED BY <2>1, <2>2, <2>3, <2>4, <2>5, <2>6, <2>7 DEF Next, Loop
<1> QED BY <1>1, <1>2, PTL DEF Spec

-----------------------------------------------------------------------------
(* Memory safety of the commands that neither expand nor fetch a view.     *)

CoreCommands ==
    Commands \cap {"PUSH_NODE", "FETCH_NODE", "UNFETCH_NODE", "EXPAND_NODE"} = {}

(* Without expand commands a node has one reference, so freenode frees it  *)
(* at once; and an address that is not allocated holds no pointers         *)
(* (newnode's calloc).                                                     *)
NodesUnshared ==
    /\ \A n \in Node : t[n] # "FREE" => refcnt[n] = 1 /\ type[n] # "EXPANDROOT"
    /\ \A n \in Node : t[n] = "FREE" => p[n] = NULL /\ c1[n] = NULL /\ c2[n] = NULL
    /\ t_root_change # "EXPAND"

(* Trees have no cycles: nodes can be ranked so that a parent comes before *)
(* its children.                                                           *)
Ranks(rank) ==
    \A n \in Node : t[n] # "FREE" /\ p[n] # NULL => rank[p[n]] < rank[n]
Ranked == \E rank \in [Node -> Int] : Ranks(rank)

(* TreeLinks alone does not exclude a cycle of containers that no root     *)
(* reaches, where the way down from a sibling would meet the node being    *)
(* freed; NoDangling alone does not say that a pane's pointers lead into   *)
(* its own tree, and freenode clears those of the current pane only.       *)
HeapInv == TreeLinks /\ NoDangling /\ PaneOwnsNodes /\ NodesUnshared /\ Ranked

(* The view focus() descends to lies in the same pane's tree, at or below  *)
(* the start.                                                              *)
LEMMA FirstViewBelow ==
    ASSUME StoreOK, TreeLinks, NoDangling, PaneOwnsNodes,
           NEW rank \in [Node -> Int], Ranks(rank),
           NEW s \in Node, Allocated(s), NEW v \in FirstView(s)
    PROVE  /\ v \in Node /\ t[v] = "VIEW" /\ root_index[v] = root_index[s]
           /\ v = s \/ (p[v] \in Node /\ rank[p[v]] >= rank[s])
<1> DEFINE below == {x \in Node :
              /\ Allocated(x) /\ root_index[x] = root_index[s] /\ rank[x] >= rank[s]
              /\ x = s \/ (p[x] \in Node /\ rank[p[x]] >= rank[s])}
<1>1. s \in below /\ below \in SUBSET Node
  OBVIOUS
<1>2. ASSUME NEW y \in below, t[y] = "CONTAINER", FirstChild(y) # NULL
      PROVE  FirstChild(y) \in below
  <2>1. FirstChild(y) \in Node /\ p[FirstChild(y)] = y /\ Allocated(FirstChild(y))
    BY <1>2 DEF FirstChild, TreeLinks, NoDangling, Allocated
  <2>2. rank[y] < rank[FirstChild(y)] /\ root_index[FirstChild(y)] = root_index[y]
    BY <2>1, ConstAssumption DEF Ranks, PaneOwnsNodes, Allocated
  <2>3. rank[y] \in Int /\ rank[s] \in Int /\ rank[FirstChild(y)] \in Int
    BY <2>1
  <2> QED BY <1>2, <2>1, <2>2, <2>3
<1>3. v \in below
  BY <1>1, <1>2 DEF FirstView
<1> QED BY <1>3 DEF FirstView

(* Every view of a pane's tree was allocated for that pane. *)
LEMMA PaneViewsOwned ==
    ASSUME StoreOK, TreeLinks, NoDangling, PaneOwnsNodes,
           NEW i \in Pane, NEW v \in PaneViews(i)
    PROVE  v \in Node /\ t[v] = "VIEW" /\ root_index[v] = i
<1> DEFINE own == {x \in Node : Allocated(x) /\ root_index[x] = i}
<1>1. t_root[i] \in own /\ own \in SUBSET Node
  BY DEF PaneViews, StoreOK, NodeOrNull, NoDangling, PaneOwnsNodes
<1>2. ASSUME NEW y \in own PROVE {c1[y], c2[y]} \ {NULL} \subseteq own
  BY ConstAssumption DEF TreeLinks, NoDangling, PaneOwnsNodes, StoreOK, Allocated, NodeOrNull
<1>3. v \in own /\ t[v] = "VIEW"
  BY <1>1, <1>2 DEF PaneViews, SubTree
<1> QED BY <1>3

(* A pointer a pane's focus may hold: none, or a view allocated for it. *)
OwnView(i, v) == v = NULL \/ (v \in Node /\ t[v] = "VIEW" /\ root_index[v] = i)

LEMMA FocusOwned ==
    ASSUME StoreOK, NoDangling, PaneOwnsNodes, NEW i \in Pane
    PROVE  OwnView(i, t_focused[i]) /\ OwnView(i, t_lastfocused[i])
BY DEF OwnView, NoDangling, PaneOwnsNodes, StoreOK, NodeOrNull

(* Steps that leave the tree alone: they move a focus within its pane, give *)
(* up roots and descriptors, and ask for anything but an expansion.         *)
LEMMA HeapFrame ==
    ASSUME StoreOK, HeapInv,
           UNCHANGED <<t, p, c1, c2, refcnt, root_index>>,
           \A n \in Node : type'[n] = type[n] \/ type'[n] # "EXPANDROOT",
           \A i \in Pane : t_root'[i] \in {t_root[i], NULL},
           \A i \in Pane : OwnView(i, t_focused'[i]) /\ OwnView(i, t_lastfocused'[i]),
           fds' \subseteq fds,
           t_root_change' # "EXPAND"
    PROVE  HeapInv'
<1>1. TreeLinks'
  BY DEF HeapInv, TreeLinks
<1>2. NoDangling'
  BY DEF HeapInv, NoDangling, Allocated, OwnView
<1>3. PaneOwnsNodes'
  BY DEF HeapInv, PaneOwnsNodes, OwnView
<1>4. NodesUnshared'
  BY DEF HeapInv, NodesUnshared
<1>5. Ranked'
  BY DEF HeapInv, Ranked, Ranks
<1> QED BY <1>1, <1>2, <1>3, <1>4, <1>5 DEF HeapInv

LEMMA HeapUnchanged ==
    ASSUME StoreOK, HeapInv,
           UNCHANGED <<heapVars, slotVars, focusVars, fds>>,
           t_root_change' # "EXPAND"
    PROVE  HeapInv'
<1>1. \A i \in Pane : OwnView(i, t_focused'[i]) /\ OwnView(i, t_lastfocused'[i])
  BY FocusOwned DEF HeapInv, focusVars
<1> QED
  BY <1>1, HeapFrame DEF heapVars, slotVars

LEMMA CrashHeap == ASSUME StoreOK, HeapInv, Crash PROVE HeapInv'
BY HeapUnchanged DEF Crash, storeVars, ioVars, reqVars, HeapInv, NodesUnshared

LEMMA IdleHeap ==
    ASSUME StoreOK, HeapInv, UNCHANGED storeVars
    PROVE  HeapInv'
BY HeapUnchanged DEF storeVars, ioVars, reqVars, HeapInv, NodesUnshared

LEMMA RequestHeap ==
    ASSUME StoreOK, HeapInv, NEW kind, kind # "EXPAND", Request(kind)
    PROVE  HeapInv'
BY HeapUnchanged DEF Request, ioVars

LEMMA DeleteRootHeap ==
    ASSUME StoreOK, HeapInv, NEW n \in Node, t[n] = "VIEW", DeleteRoot(n)
    PROVE  HeapInv'
<1>1. type[n] # "EXPANDROOT" /\ t_root_change # "EXPAND"
  BY DEF HeapInv, NodesUnshared
<1>2. UNCHANGED <<t, p, c1, c2, type, refcnt, root_index, focusVars>>
  BY <1>1 DEF DeleteRoot
<1>3. \A i \in Pane : t_root'[i] \in {t_root[i], NULL}
  BY DEF DeleteRoot
<1>4. fds' \subseteq fds /\ t_root_change' # "EXPAND"
  BY <1>1 DEF DeleteRoot
<1>5. \A i \in Pane : OwnView(i, t_focused'[i]) /\ OwnView(i, t_lastfocused'[i])
  BY <1>2, FocusOwned DEF HeapInv, focusVars
<1> QED BY <1>2, <1>3, <1>4, <1>5, HeapFrame

LEMMA SplitFailsHeap ==
    ASSUME StoreOK, HeapInv, NEW n \in Node, SplitFails(n)
    PROVE  HeapInv'
<1>1. UNCHANGED <<t, p, c1, c2, refcnt, root_index, slotVars, focusVars, ioVars, reqVars>>
  BY DEF SplitFails
<1>2. \A m \in Node : type'[m] = type[m] \/ type'[m] # "EXPANDROOT"
  BY DEF SplitFails, StoreOK
<1>3. \A i \in Pane : OwnView(i, t_focused'[i]) /\ OwnView(i, t_lastfocused'[i])
  BY <1>1, FocusOwned DEF HeapInv, focusVars
<1>4. t_root' = t_root /\ fds' = fds /\ t_root_change' # "EXPAND"
  BY <1>1 DEF slotVars, ioVars, reqVars, HeapInv, NodesUnshared
<1> QED BY <1>1, <1>2, <1>3, <1>4, HeapFrame

(* focus(i, v) of a view of pane i, on a tree that does not change. *)
LEMMA FocusHeap ==
    ASSUME StoreOK, HeapInv, NEW i \in Pane, NEW v \in Node,
           t[v] = "VIEW", root_index[v] = i, focus(i, v),
           UNCHANGED <<heapVars, slotVars, fds>>, t_root_change' # "EXPAND"
    PROVE  HeapInv'
<1>1. \A j \in Pane : OwnView(j, t_focused'[j]) /\ OwnView(j, t_lastfocused'[j])
  <2> SUFFICES ASSUME NEW j \in Pane
               PROVE  OwnView(j, t_focused'[j]) /\ OwnView(j, t_lastfocused'[j])
    OBVIOUS
  <2>1. OwnView(j, t_focused[j]) /\ OwnView(j, t_lastfocused[j])
    BY FocusOwned DEF HeapInv
  <2>2. OwnView(i, v)
    BY DEF OwnView
  <2> QED BY <2>1, <2>2 DEF focus, StoreOK
<1> QED BY <1>1, HeapFrame DEF heapVars, slotVars

LEMMA MoveHeap ==
    ASSUME StoreOK, HeapInv, MoveFocus \/ MoveOther
    PROVE  HeapInv'
<1>1. CASE Crash
  BY <1>1, CrashHeap
<1>2. CASE UNCHANGED storeVars
  BY <1>2, IdleHeap
<1>3. ASSUME NEW v \in Node, t[v] = "VIEW", root_index[v] = t_root_index, FocusOnly(v)
      PROVE  HeapInv'
  <2>1. t_root_index \in Pane /\ t_root_change' # "EXPAND"
    BY <1>3 DEF StoreOK, FocusOnly, reqVars, HeapInv, NodesUnshared
  <2> QED BY <1>3, <2>1, FocusHeap DEF FocusOnly, ioVars
<1>4. t_root_index \in Pane
  BY DEF StoreOK
<1>5. CASE MoveFocus
  BY <1>1, <1>2, <1>3, <1>4, <1>5, PaneViewsOwned DEF MoveFocus, HeapInv
<1>6. CASE MoveOther
  <2> DEFINE o == t_lastfocused[t_root_index]
  <2>1. CASE o # NULL /\ \E v \in FirstView(o) : FocusOnly(v)
    <3>1. o \in Node /\ Allocated(o) /\ root_index[o] = t_root_index
      BY <1>4, <2>1, FocusOwned DEF OwnView, HeapInv, Allocated
    <3>2. PICK rank \in [Node -> Int] : Ranks(rank)
      BY DEF HeapInv, Ranked
    <3>3. \A v \in FirstView(o) :
             v \in Node /\ t[v] = "VIEW" /\ root_index[v] = t_root_index
      BY <3>1, <3>2, FirstViewBelow DEF HeapInv
    <3> QED BY <2>1, <3>3, <1>3
  <2> QED BY <1>1, <1>2, <1>6, <2>1 DEF MoveOther
<1> QED BY <1>5, <1>6

(* deletenode of a view below a container.  The sibling s moves up; every   *)
(* pointer to the view and to the container is gone: those of the tree      *)
(* because each node has one parent, those of the panes because only the    *)
(* current pane holds nodes of this tree.                                   *)
LEMMA UnlinkHeap ==
    ASSUME StoreOK, HeapInv, NEW n \in Node, t[n] = "VIEW",
           root_index[n] = t_root_index, Allocated(p[n]), Allocated(Sibling(n)),
           Unlink(n, p[n], Sibling(n), p[p[n]])
    PROVE  HeapInv'
<1> DEFINE q == p[n]
           s == Sibling(n)
           g == p[q]
<1>1. PICK rank \in [Node -> Int] : Ranks(rank)
  BY DEF HeapInv, Ranked
<1>2. /\ q \in Node /\ s \in Node /\ g \in NodeOrNull /\ t_root_index \in Pane
      /\ NULL \notin Node
  BY ConstAssumption DEF StoreOK, Allocated, Sibling, NodeOrNull
<1>3. /\ t[q] = "CONTAINER" /\ {c1[q], c2[q]} = {n, s} /\ s # n /\ p[s] = q
      /\ t[s] # "FREE" /\ root_index[q] = t_root_index /\ root_index[s] = t_root_index
  BY <1>2 DEF HeapInv, TreeLinks, PaneOwnsNodes, Sibling, Allocated
<1>4. /\ rank[q] < rank[s] /\ rank[q] < rank[n] /\ (g # NULL => rank[g] < rank[q])
      /\ rank[q] \in Int /\ rank[s] \in Int /\ rank[n] \in Int
      /\ (g # NULL => rank[g] \in Int)
  BY <1>1, <1>2, <1>3 DEF Ranks, NodeOrNull
<1>5. /\ s # q /\ g # q /\ g # n /\ g # s
      /\ g # NULL => /\ g \in Node /\ t[g] = "CONTAINER" /\ q \in {c1[g], c2[g]}
                     /\ root_index[g] = t_root_index
  BY <1>2, <1>3, <1>4 DEF HeapInv, TreeLinks, PaneOwnsNodes, NodeOrNull
<1>6. refcnt[n] = 1
  BY DEF HeapInv, NodesUnshared
<1>7. /\ \A x \in Node : t'[x] = IF x \in {n, q} THEN "FREE" ELSE t[x]
      /\ \A x \in Node : p'[x] = IF x \in {n, q} THEN NULL ELSE IF x = s THEN g ELSE p[x]
      /\ \A x \in Node : c1'[x] = IF x \in {n, q} THEN NULL
                                  ELSE IF x = g /\ c1[g] = q THEN s ELSE c1[x]
      /\ \A x \in Node : c2'[x] = IF x \in {n, q} THEN NULL
                                  ELSE IF x = g /\ c1[g] # q /\ c2[g] = q THEN s ELSE c2[x]
  BY <1>2, <1>5, <1>6 DEF Unlink, StoreOK
<1>8. /\ \A x \in Node : refcnt'[x] = IF x \in {n, q} THEN 0 ELSE refcnt[x]
      /\ \A x \in Node : root_index'[x] = IF x \in {n, q} THEN 0 ELSE root_index[x]
      /\ \A x \in Node : x \notin {n, q} => type'[x] \in {type[x], "ROOT"}
      /\ \A i \in Pane : t_root'[i] = IF g = NULL /\ i = t_root_index THEN s ELSE t_root[i]
      /\ fds' = fds \ {n} /\ t_root_change' = t_root_change
  BY <1>2, <1>5, <1>6 DEF Unlink, StoreOK, reqVars
<1>9. \A x \in Node : t[x] = "CONTAINER" /\ x # q =>
          /\ c1[x] \notin {n, s} /\ c2[x] \notin {n, s}
          /\ x # g => c1[x] # q /\ c2[x] # q
  BY <1>2, <1>3 DEF HeapInv, TreeLinks
<1>10. \A x \in Node : t[x] # "FREE" /\ x \notin {n, q, s} => p[x] \notin {n, q}
  BY <1>2, <1>3 DEF HeapInv, TreeLinks
<1>11. TreeLinks'
  <2> SUFFICES ASSUME NEW x \in Node PROVE
        /\ t'[x] = "VIEW" => c1'[x] = NULL /\ c2'[x] = NULL
        /\ t'[x] = "CONTAINER" => /\ c1'[x] \in Node /\ p'[c1'[x]] = x
                                  /\ c2'[x] \in Node /\ p'[c2'[x]] = x
                                  /\ c1'[x] # c2'[x]
        /\ t'[x] # "FREE" /\ p'[x] # NULL => /\ t'[p'[x]] = "CONTAINER"
                                             /\ x \in {c1'[p'[x]], c2'[p'[x]]}
    BY DEF TreeLinks
  <2>1. t'[x] = "VIEW" => c1'[x] = NULL /\ c2'[x] = NULL
    BY <1>2, <1>5, <1>7 DEF HeapInv, TreeLinks
  <2>2. t'[x] = "CONTAINER" => /\ c1'[x] \in Node /\ p'[c1'[x]] = x
                               /\ c2'[x] \in Node /\ p'[c2'[x]] = x
                               /\ c1'[x] # c2'[x]
    BY <1>2, <1>3, <1>5, <1>7, <1>9 DEF HeapInv, TreeLinks
  <2>3. ASSUME t'[x] # "FREE", p'[x] # NULL
        PROVE  t'[p'[x]] = "CONTAINER" /\ x \in {c1'[p'[x]], c2'[p'[x]]}
    <3>1. CASE x = s
      BY <3>1, <2>3, <1>2, <1>3, <1>5, <1>7
    <3>2. CASE x # s
      <4>1. x \notin {n, q} /\ t[x] # "FREE" /\ p'[x] = p[x] /\ p[x] \in Node
        BY <3>2, <2>3, <1>2, <1>7 DEF StoreOK, NodeOrNull
      <4>2. t[p[x]] = "CONTAINER" /\ x \in {c1[p[x]], c2[p[x]]}
        BY <4>1, <2>3 DEF HeapInv, TreeLinks
      <4> QED BY <4>1, <4>2, <3>2, <1>7, <1>10
    <3> QED BY <3>1, <3>2
  <2> QED BY <2>1, <2>2, <2>3
<1>12. \A i \in Pane : OwnView(i, t_focused[i])' /\ OwnView(i, t_lastfocused[i])'
  <2> SUFFICES ASSUME NEW i \in Pane
               PROVE  OwnView(i, t_focused[i])' /\ OwnView(i, t_lastfocused[i])'
    OBVIOUS
  <2>1. OwnView(i, t_focused[i]) /\ OwnView(i, t_lastfocused[i])
    BY FocusOwned DEF HeapInv
  <2>2. \A v : OwnView(i, v) /\ (v # n \/ i # t_root_index) => OwnView(i, v)'
    BY <1>2, <1>3, <1>7, <1>8 DEF OwnView
  <2>3. CASE i # t_root_index
    <3>1. t_focused'[i] = t_focused[i] /\ t_lastfocused'[i] = t_lastfocused[i]
      BY <2>3, <1>2 DEF Unlink, StoreOK
    <3> QED BY <2>1, <2>2, <2>3, <3>1 DEF OwnView
  <2>4. CASE i = t_root_index /\ Focused = n
    <3>1. PICK v \in FirstView(s) :
              /\ t_focused' = [t_focused EXCEPT ![t_root_index] = v]
              /\ t_lastfocused' = [t_lastfocused EXCEPT ![t_root_index] = NULL]
      BY <1>6, <2>4 DEF Unlink, Forget
    <3>2. /\ v \in Node /\ t[v] = "VIEW" /\ root_index[v] = root_index[s]
          /\ v = s \/ (p[v] \in Node /\ rank[p[v]] >= rank[s])
      BY <1>1, <1>2, <1>3, <3>1, FirstViewBelow DEF HeapInv, Allocated
    <3>3. v # n
      BY <3>2, <1>3, <1>4
    <3>4. OwnView(i, v)'
      BY <2>2, <2>4, <3>2, <3>3, <1>3 DEF OwnView
    <3>5. t_focused'[i] = v /\ t_lastfocused'[i] = NULL
      BY <2>4, <3>1 DEF StoreOK
    <3> QED BY <3>4, <3>5 DEF OwnView
  <2>5. CASE i = t_root_index /\ Focused # n
    <3>1. /\ t_focused'[i] = t_focused[i] /\ t_focused[i] # n
          /\ t_lastfocused'[i] = IF t_lastfocused[i] \in {n, q} THEN NULL ELSE t_lastfocused[i]
      BY <2>5, <1>6 DEF Unlink, Forget, StoreOK, Focused
    <3> QED BY <2>1, <2>2, <3>1 DEF OwnView
  <2> QED BY <2>3, <2>4, <2>5
<1>13. NoDangling'
  <2>1. \A x \in Node : t'[x] # "FREE" =>
           \A m \in {p'[x], c1'[x], c2'[x]} \ {NULL} : m \in Node /\ t'[m] # "FREE"
    <3> SUFFICES ASSUME NEW x \in Node, t'[x] # "FREE" PROVE
            /\ p'[x] # NULL => p'[x] \in Node /\ t'[p'[x]] # "FREE"
            /\ c1'[x] # NULL => c1'[x] \in Node /\ t'[c1'[x]] # "FREE"
            /\ c2'[x] # NULL => c2'[x] \in Node /\ t'[c2'[x]] # "FREE"
      OBVIOUS
    <3>1. p'[x] # NULL => p'[x] \in Node /\ t'[p'[x]] # "FREE"
      BY <1>2, <1>5, <1>7, <1>10 DEF HeapInv, NoDangling, Allocated, StoreOK, NodeOrNull
    <3>2. x \notin {n, q} /\ t[x] \in {"VIEW", "CONTAINER"}
      BY <1>7 DEF StoreOK
    <3>3. /\ c1'[x] # NULL => c1'[x] \in Node /\ t'[c1'[x]] # "FREE"
          /\ c2'[x] # NULL => c2'[x] \in Node /\ t'[c2'[x]] # "FREE"
      <4>1. CASE t[x] = "VIEW"
        BY <4>1, <3>2, <1>5, <1>7 DEF HeapInv, TreeLinks
      <4>2. CASE t[x] = "CONTAINER"
        BY <4>2, <3>2, <1>2, <1>3, <1>5, <1>7, <1>9
           DEF HeapInv, TreeLinks, NoDangling, Allocated
      <4> QED BY <3>2, <4>1, <4>2
    <3> QED BY <3>1, <3>3
  <2>2. \A i \in Pane : t_root'[i] # NULL => t_root'[i] \in Node /\ t'[t_root'[i]] # "FREE"
    <3> SUFFICES ASSUME NEW i \in Pane, t_root'[i] # NULL
                 PROVE  t_root'[i] \in Node /\ t'[t_root'[i]] # "FREE"
      OBVIOUS
    <3>1. CASE g = NULL /\ i = t_root_index
      BY <3>1, <1>2, <1>3, <1>5, <1>7, <1>8
    <3>2. CASE ~(g = NULL /\ i = t_root_index)
      <4>1. /\ t_root'[i] = t_root[i] /\ t_root[i] \in Node /\ t[t_root[i]] # "FREE"
            /\ p[t_root[i]] = NULL /\ root_index[t_root[i]] = i
        BY <3>2, <1>8 DEF HeapInv, NoDangling, PaneOwnsNodes, Allocated, StoreOK, NodeOrNull
      <4> QED BY <3>2, <4>1, <1>2, <1>3, <1>7
    <3> QED BY <3>1, <3>2
  <2>3. \A x \in fds' : t'[x] = "VIEW"
    BY <1>2, <1>3, <1>7, <1>8 DEF HeapInv, NoDangling, StoreOK
  <2> QED BY <2>1, <2>2, <2>3, <1>12 DEF NoDangling, Allocated, OwnView
<1>14. PaneOwnsNodes'
  <2>1. \A x \in Node : t'[x] # "FREE" /\ p'[x] # NULL => root_index'[x] = root_index'[p'[x]]
    BY <1>2, <1>3, <1>5, <1>7, <1>8, <1>10 DEF HeapInv, PaneOwnsNodes, StoreOK, NodeOrNull
  <2>2. \A i \in Pane : t_root'[i] # NULL => p'[t_root'[i]] = NULL /\ root_index'[t_root'[i]] = i
    <3> SUFFICES ASSUME NEW i \in Pane, t_root'[i] # NULL
                 PROVE  p'[t_root'[i]] = NULL /\ root_index'[t_root'[i]] = i
      OBVIOUS
    <3>1. CASE g = NULL /\ i = t_root_index
      BY <3>1, <1>2, <1>3, <1>5, <1>7, <1>8
    <3>2. CASE ~(g = NULL /\ i = t_root_index)
      <4>1. /\ t_root'[i] = t_root[i] /\ t_root[i] \in Node /\ t[t_root[i]] # "FREE"
            /\ p[t_root[i]] = NULL /\ root_index[t_root[i]] = i
        BY <3>2, <1>8 DEF HeapInv, NoDangling, PaneOwnsNodes, Allocated, StoreOK, NodeOrNull
      <4> QED BY <3>2, <4>1, <1>2, <1>3, <1>7, <1>8
    <3> QED BY <3>1, <3>2
  <2> QED BY <2>1, <2>2, <1>12 DEF PaneOwnsNodes, OwnView
<1>15. NodesUnshared'
  <2>1. \A x \in Node : t'[x] # "FREE" => refcnt'[x] = 1 /\ type'[x] # "EXPANDROOT"
    BY <1>7, <1>8 DEF HeapInv, NodesUnshared
  <2>2. \A x \in Node : t'[x] = "FREE" => p'[x] = NULL /\ c1'[x] = NULL /\ c2'[x] = NULL
    BY <1>2, <1>3, <1>5, <1>7 DEF HeapInv, NodesUnshared
  <2> QED BY <2>1, <2>2, <1>8 DEF NodesUnshared, HeapInv
<1>16. Ranked'
  <2>1. \A x \in Node : t'[x] # "FREE" /\ p'[x] # NULL => rank[p'[x]] < rank[x]
    BY <1>1, <1>2, <1>3, <1>4, <1>5, <1>7 DEF Ranks
  <2> QED BY <1>1, <2>1 DEF Ranked, Ranks
<1> QED BY <1>11, <1>13, <1>14, <1>15, <1>16 DEF HeapInv

LEMMA DeleteHeap ==
    ASSUME StoreOK, HeapInv, NEW n \in Node, t[n] = "VIEW",
           root_index[n] = t_root_index, deletenode(n)
    PROVE  HeapInv'
<1>1. CASE UNCHANGED storeVars
  BY <1>1, IdleHeap
<1>2. CASE DeleteRoot(n)
  BY <1>2, DeleteRootHeap
<1>3. CASE Crash
  BY <1>3, CrashHeap
<1>4. CASE /\ Allocated(p[n]) /\ Allocated(Sibling(n))
           /\ Unlink(n, p[n], Sibling(n), p[p[n]])
  BY <1>4, UnlinkHeap
<1> QED BY <1>1, <1>2, <1>3, <1>4 DEF deletenode, DeleteChild

(* split: the container takes the place of the view below its parent, or   *)
(* as the root of the current pane.  Doubling the ranks makes room for it. *)
LEMMA SplitWithHeap ==
    ASSUME StoreOK, HeapInv, NEW n \in Node, t[n] = "VIEW",
           root_index[n] = t_root_index,
           NEW v \in Node, NEW c \in Node, SplitWith(n, v, c)
    PROVE  HeapInv'
<1> DEFINE g == p[n]
<1>1. PICK rank \in [Node -> Int] : Ranks(rank)
  BY DEF HeapInv, Ranked
<1>2. /\ v # c /\ v # n /\ c # n /\ t[v] = "FREE" /\ t[c] = "FREE"
      /\ t_root_index \in Pane /\ NULL \notin Node
  BY ConstAssumption DEF SplitWith, StoreOK
<1>3. /\ \A x \in {v, c} : p[x] = NULL /\ c1[x] = NULL /\ c2[x] = NULL
      /\ \A x \in Node : /\ p[x] \notin {v, c}
                         /\ c1[x] \notin {v, c} /\ c2[x] \notin {v, c}
  BY <1>2 DEF HeapInv, NodesUnshared, NoDangling, Allocated
<1>4. /\ g # NULL => /\ g \in Node /\ t[g] = "CONTAINER" /\ n \in {c1[g], c2[g]}
                     /\ root_index[g] = t_root_index /\ c1[g] # c2[g]
                     /\ rank[g] < rank[n] /\ rank[g] \in Int
      /\ g \notin {n, v, c} /\ rank[n] \in Int
  BY <1>1, <1>2, <1>3 DEF HeapInv, TreeLinks, PaneOwnsNodes, Ranks, StoreOK, NodeOrNull
<1>5. /\ \A x \in Node : t'[x] = IF x = v THEN "VIEW" ELSE IF x = c THEN "CONTAINER" ELSE t[x]
      /\ \A x \in Node : p'[x] = IF x \in {n, v} THEN c ELSE IF x = c THEN g ELSE p[x]
      /\ \A x \in Node : c1'[x] = IF x = c THEN n
                                  ELSE IF x = g /\ c1[g] = n THEN c ELSE c1[x]
      /\ \A x \in Node : c2'[x] = IF x = c THEN v
                                  ELSE IF x = g /\ c1[g] # n /\ c2[g] = n THEN c ELSE c2[x]
  BY <1>2, <1>4 DEF SplitWith, StoreOK
<1>6. /\ \A x \in Node : refcnt'[x] = IF x \in {v, c} THEN 1 ELSE refcnt[x]
      /\ \A x \in Node : root_index'[x] = IF x \in {v, c} THEN t_root_index ELSE root_index[x]
      /\ \A x \in Node : type'[x] \in {type[x], "ROOT", "CHILD"}
      /\ \A x \in {v, c} : type'[x] \in {"ROOT", "CHILD"}
      /\ \A i \in Pane : t_root'[i] = IF g = NULL /\ i = t_root_index THEN c ELSE t_root[i]
      /\ fds' = fds \cup {v} /\ t_root_change' = t_root_change
  BY <1>2 DEF SplitWith, StoreOK, reqVars
<1>7. \A x \in Node : t[x] = "CONTAINER" /\ x # g =>
         c1[x] # n /\ c2[x] # n
  BY DEF HeapInv, TreeLinks
<1>8. TreeLinks'
  <2> SUFFICES ASSUME NEW x \in Node PROVE
        /\ t'[x] = "VIEW" => c1'[x] = NULL /\ c2'[x] = NULL
        /\ t'[x] = "CONTAINER" => /\ c1'[x] \in Node /\ p'[c1'[x]] = x
                                  /\ c2'[x] \in Node /\ p'[c2'[x]] = x
                                  /\ c1'[x] # c2'[x]
        /\ t'[x] # "FREE" /\ p'[x] # NULL => /\ t'[p'[x]] = "CONTAINER"
                                             /\ x \in {c1'[p'[x]], c2'[p'[x]]}
    BY DEF TreeLinks
  <2>1. t'[x] = "VIEW" => c1'[x] = NULL /\ c2'[x] = NULL
    BY <1>2, <1>3, <1>4, <1>5 DEF HeapInv, TreeLinks
  <2>2. t'[x] = "CONTAINER" => /\ c1'[x] \in Node /\ p'[c1'[x]] = x
                               /\ c2'[x] \in Node /\ p'[c2'[x]] = x
                               /\ c1'[x] # c2'[x]
    BY <1>2, <1>3, <1>4, <1>5, <1>7 DEF HeapInv, TreeLinks
  <2>3. t'[x] # "FREE" /\ p'[x] # NULL => /\ t'[p'[x]] = "CONTAINER"
                                          /\ x \in {c1'[p'[x]], c2'[p'[x]]}
    <3>1. CASE x \in {n, v}
      BY <3>1, <1>2, <1>5
    <3>2. CASE x = c
      BY <3>2, <1>2, <1>4, <1>5
    <3>3. CASE x \notin {n, v, c}
      <4>1. SUFFICES ASSUME t[x] # "FREE", p[x] # NULL
                     PROVE  t'[p[x]] = "CONTAINER" /\ x \in {c1'[p[x]], c2'[p[x]]}
        BY <3>3, <1>5
      <4>2. p[x] \in Node /\ t[p[x]] = "CONTAINER" /\ x \in {c1[p[x]], c2[p[x]]}
        BY <4>1 DEF HeapInv, TreeLinks, StoreOK, NodeOrNull
      <4> QED BY <4>2, <3>3, <1>2, <1>3, <1>5
    <3> QED BY <3>1, <3>2, <3>3
  <2> QED BY <2>1, <2>2, <2>3
<1>9. \A i \in Pane : OwnView(i, t_focused[i])' /\ OwnView(i, t_lastfocused[i])'
  <2> SUFFICES ASSUME NEW i \in Pane
               PROVE  OwnView(i, t_focused[i])' /\ OwnView(i, t_lastfocused[i])'
    OBVIOUS
  <2>1. OwnView(i, t_focused[i]) /\ OwnView(i, t_lastfocused[i])
    BY FocusOwned DEF HeapInv
  <2>2. \A x : OwnView(i, x) => OwnView(i, x)'
    BY <1>2, <1>5, <1>6 DEF OwnView
  <2>3. /\ t_focused'[i] = IF i = t_root_index THEN v ELSE t_focused[i]
        /\ t_lastfocused'[i] = IF i = t_root_index THEN t_focused[i] ELSE t_lastfocused[i]
    BY <1>2 DEF SplitWith, StoreOK, Focused
  <2>4. i = t_root_index => OwnView(i, v)'
    BY <1>2, <1>5, <1>6 DEF OwnView
  <2> QED BY <2>1, <2>2, <2>3, <2>4 DEF OwnView
<1>10. NoDangling'
  <2>1. \A x \in Node : t'[x] # "FREE" =>
           \A m \in {p'[x], c1'[x], c2'[x]} \ {NULL} : m \in Node /\ t'[m] # "FREE"
    BY <1>2, <1>3, <1>4, <1>5 DEF HeapInv, NoDangling, Allocated, StoreOK, NodeOrNull
  <2>2. \A i \in Pane : t_root'[i] # NULL => t_root'[i] \in Node /\ t'[t_root'[i]] # "FREE"
    BY <1>2, <1>5, <1>6 DEF HeapInv, NoDangling, Allocated, StoreOK, NodeOrNull
  <2>3. \A x \in fds' : t'[x] = "VIEW"
    BY <1>2, <1>5, <1>6 DEF HeapInv, NoDangling, StoreOK
  <2> QED BY <2>1, <2>2, <2>3, <1>2, <1>9 DEF NoDangling, Allocated, OwnView
<1>11. PaneOwnsNodes'
  <2>1. \A x \in Node : t'[x] # "FREE" /\ p'[x] # NULL => root_index'[x] = root_index'[p'[x]]
    BY <1>2, <1>3, <1>4, <1>5, <1>6 DEF HeapInv, PaneOwnsNodes, StoreOK, NodeOrNull
  <2>2. \A i \in Pane : t_root'[i] # NULL => p'[t_root'[i]] = NULL /\ root_index'[t_root'[i]] = i
    <3> SUFFICES ASSUME NEW i \in Pane, t_root'[i] # NULL
                 PROVE  p'[t_root'[i]] = NULL /\ root_index'[t_root'[i]] = i
      OBVIOUS
    <3>1. CASE g = NULL /\ i = t_root_index
      BY <3>1, <1>2, <1>4, <1>5, <1>6
    <3>2. CASE ~(g = NULL /\ i = t_root_index)
      <4>1. /\ t_root'[i] = t_root[i] /\ t_root[i] \in Node /\ t[t_root[i]] # "FREE"
            /\ p[t_root[i]] = NULL /\ root_index[t_root[i]] = i
        BY <3>2, <1>6 DEF HeapInv, NoDangling, PaneOwnsNodes, Allocated, StoreOK, NodeOrNull
      <4> QED BY <3>2, <4>1, <1>2, <1>5, <1>6
    <3> QED BY <3>1, <3>2
  <2> QED BY <2>1, <2>2, <1>9 DEF PaneOwnsNodes, OwnView
<1>12. NodesUnshared'
  <2>1. \A x \in Node : t'[x] # "FREE" => refcnt'[x] = 1 /\ type'[x] # "EXPANDROOT"
    BY <1>5, <1>6 DEF HeapInv, NodesUnshared
  <2>2. \A x \in Node : t'[x] = "FREE" => p'[x] = NULL /\ c1'[x] = NULL /\ c2'[x] = NULL
    BY <1>2, <1>4, <1>5 DEF HeapInv, NodesUnshared
  <2> QED BY <2>1, <2>2, <1>6 DEF NodesUnshared, HeapInv
<1>13. Ranked'
  <2> DEFINE rank2 == [x \in Node |-> IF x = c THEN 2 * rank[n] - 1
                                      ELSE IF x = v THEN 2 * rank[n] ELSE 2 * rank[x]]
  <2>1. rank2 \in [Node -> Int]
    BY <1>4
  <2>2. ASSUME NEW x \in Node, t'[x] # "FREE", p'[x] # NULL
        PROVE  rank2[p'[x]] < rank2[x]
    <3>1. CASE x \in {n, v}
      BY <3>1, <1>2, <1>4, <1>5
    <3>2. CASE x = c
      BY <3>2, <2>2, <1>2, <1>4, <1>5
    <3>3. CASE x \notin {n, v, c}
      <4>1. t[x] # "FREE" /\ p'[x] = p[x] /\ p[x] # NULL
        BY <3>3, <2>2, <1>5
      <4>2. p[x] \in Node /\ p[x] \notin {v, c} /\ rank[p[x]] < rank[x]
        BY <4>1, <1>1, <1>3 DEF Ranks, StoreOK, NodeOrNull
      <4>3. rank[p[x]] \in Int /\ rank[x] \in Int
        BY <4>2
      <4> QED BY <4>1, <4>2, <4>3, <3>3
    <3> QED BY <3>1, <3>2, <3>3
  <2> QED BY <2>1, <2>2 DEF Ranked, Ranks
<1> QED BY <1>8, <1>10, <1>11, <1>12, <1>13 DEF HeapInv

LEMMA SplitHeap ==
    ASSUME StoreOK, HeapInv, NEW n \in Node, t[n] = "VIEW",
           root_index[n] = t_root_index, split(n)
    PROVE  HeapInv'
BY IdleHeap, CrashHeap, SplitFailsHeap, SplitWithHeap DEF split

(* swapnode exchanges the two children of one container. *)
LEMMA SwapHeap ==
    ASSUME StoreOK, HeapInv, NEW n \in Node, swapnode(n)
    PROVE  HeapInv'
<1>1. CASE Crash
  BY <1>1, CrashHeap
<1>2. CASE Allocated(p[n]) /\ ~Crash
  <2> DEFINE q == p[n]
  <2>1. q \in Node
    BY <1>2 DEF StoreOK, Allocated, NodeOrNull
  <2>2. /\ UNCHANGED <<t, type, p, refcnt, root_index, slotVars, focusVars, ioVars>>
        /\ t_root_change' # "EXPAND"
    BY <1>2 DEF swapnode
  <2>3. \A x \in Node : \/ c1'[x] = c1[x] /\ c2'[x] = c2[x]
                        \/ c1'[x] = c2[x] /\ c2'[x] = c1[x]
    BY <1>2, <2>1 DEF swapnode, StoreOK
  <2>4. TreeLinks'
    BY <2>2, <2>3 DEF HeapInv, TreeLinks, StoreOK, NodeOrNull
  <2>5. NoDangling'
    BY <2>2, <2>3 DEF HeapInv, NoDangling, Allocated, slotVars, focusVars, ioVars
  <2>6. PaneOwnsNodes'
    BY <2>2 DEF HeapInv, PaneOwnsNodes, slotVars, focusVars
  <2>7. NodesUnshared'
    BY <2>2, <2>3 DEF HeapInv, NodesUnshared
  <2>8. Ranked'
    BY <2>2 DEF HeapInv, Ranked, Ranks
  <2> QED BY <2>4, <2>5, <2>6, <2>7, <2>8 DEF HeapInv
<1> QED BY <1>1, <1>2 DEF swapnode

LEMMA CommandHeap ==
    ASSUME StoreOK, HeapInv, CoreCommands, NEW n \in Node, n = Focused, Command(n)
    PROVE  HeapInv'
<1>1. t[n] = "VIEW" /\ root_index[n] = t_root_index
  <2>1. t_root_index \in Pane /\ n # NULL
    BY ConstAssumption DEF StoreOK
  <2> QED BY <2>1, FocusOwned DEF OwnView, Focused, HeapInv
<1>2. CASE MoveFocus \/ MoveOther           BY <1>2, MoveHeap
<1>3. CASE split(n)                         BY <1>1, <1>3, SplitHeap
<1>4. CASE deletenode(n)                    BY <1>1, <1>4, DeleteHeap
<1>5. CASE swapnode(n)                      BY <1>5, SwapHeap
<1>6. CASE \E kind : kind # "EXPAND" /\ Request(kind)
  BY <1>6, RequestHeap
<1>7. CASE Crash                            BY <1>7, CrashHeap
<1>8. CASE UNCHANGED storeVars              BY <1>8, IdleHeap
<1> QED
  BY <1>2, <1>3, <1>4, <1>5, <1>6, <1>7, <1>8
     DEF Command, CoreCommands, WindowLabel, Reshape, Quit

-----------------------------------------------------------------------------
(* A fresh view as the root of pane i. *)
LEMMA NewRootHeap ==
    ASSUME StoreOK, HeapInv, NEW i \in Pane, NEW v \in Node,
           NEW kind \in {"ROOT", "CHILD"}, NewRoot(i, v, kind), t_root_change' = "NONE"
    PROVE  HeapInv'
<1>1. /\ t[v] = "FREE" /\ p[v] = NULL /\ c1[v] = NULL /\ c2[v] = NULL
      /\ \A x \in Node : p[x] # v /\ c1[x] # v /\ c2[x] # v
      /\ NULL \notin Node
  BY ConstAssumption DEF NewRoot, HeapInv, NodesUnshared, NoDangling, Allocated
<1>2. /\ \A x \in Node : t'[x] = IF x = v THEN "VIEW" ELSE t[x]
      /\ \A x \in Node : refcnt'[x] = IF x = v THEN 1 ELSE refcnt[x]
      /\ \A x \in Node : type'[x] = IF x = v THEN kind ELSE type[x]
      /\ \A x \in Node : root_index'[x] = IF x = v THEN i ELSE root_index[x]
      /\ UNCHANGED <<p, c1, c2>> /\ fds' = fds \cup {v}
      /\ \A j \in Pane : t_root'[j] = IF j = i THEN v ELSE t_root[j]
      /\ \A j \in Pane : t_focused'[j] = IF j = i THEN v ELSE t_focused[j]
      /\ \A j \in Pane : t_lastfocused'[j] = IF j = i THEN t_focused[i] ELSE t_lastfocused[j]
  BY DEF NewRoot, focus, StoreOK
<1>3. TreeLinks'
  BY <1>1, <1>2 DEF HeapInv, TreeLinks, StoreOK, NodeOrNull
<1>4. \A j \in Pane : OwnView(j, t_focused[j])' /\ OwnView(j, t_lastfocused[j])'
  BY <1>1, <1>2, FocusOwned DEF HeapInv, OwnView
<1>5. NoDangling'
  BY <1>1, <1>2, <1>4, SMTT(30) DEF HeapInv, NoDangling, Allocated, OwnView, StoreOK, NodeOrNull
<1>6. PaneOwnsNodes'
  BY <1>1, <1>2, <1>4, SMTT(30)
     DEF HeapInv, PaneOwnsNodes, NoDangling, Allocated, OwnView, StoreOK, NodeOrNull
<1>7. NodesUnshared'
  BY <1>1, <1>2 DEF HeapInv, NodesUnshared
<1>8. Ranked'
  BY <1>1, <1>2 DEF HeapInv, Ranked, Ranks
<1> QED BY <1>3, <1>5, <1>6, <1>7, <1>8 DEF HeapInv

(* RESTORE builds a tree of three fresh nodes in pane i. *)
LEMMA RestoredRootHeap ==
    ASSUME StoreOK, HeapInv, NEW i \in Pane, NEW v \in Node, NEW w \in Node,
           NEW c \in Node, RestoredRoot(i, v, w, c), t_root_change' = "NONE"
    PROVE  HeapInv'
<1>1. PICK rank \in [Node -> Int] : Ranks(rank)
  BY DEF HeapInv, Ranked
<1>2. v # w /\ v # c /\ w # c
  BY DEF RestoredRoot
<1>3. /\ \A x \in {v, w, c} : /\ t[x] = "FREE" /\ p[x] = NULL
                              /\ c1[x] = NULL /\ c2[x] = NULL
      /\ \A x \in Node : /\ p[x] \notin {v, w, c}
                         /\ c1[x] \notin {v, w, c} /\ c2[x] \notin {v, w, c}
      /\ NULL \notin Node
  BY ConstAssumption DEF RestoredRoot, HeapInv, NodesUnshared, NoDangling, Allocated
<1>4. /\ \A x \in Node : t'[x] = IF x \in {v, w} THEN "VIEW"
                                 ELSE IF x = c THEN "CONTAINER" ELSE t[x]
      /\ \A x \in Node : p'[x] = IF x \in {v, w} THEN c ELSE p[x]
      /\ \A x \in Node : c1'[x] = IF x = c THEN v ELSE c1[x]
      /\ \A x \in Node : c2'[x] = IF x = c THEN w ELSE c2[x]
  BY <1>2 DEF RestoredRoot, StoreOK
<1>5. /\ \A x \in Node : refcnt'[x] = IF x \in {v, w, c} THEN 1 ELSE refcnt[x]
      /\ \A x \in Node : type'[x] = type[x] \/ type'[x] \in {"ROOT", "CHILD"}
      /\ \A x \in {v, w, c} : type'[x] \in {"ROOT", "CHILD"}
      /\ \A x \in Node : root_index'[x] = IF x \in {v, w, c} THEN i ELSE root_index[x]
      /\ fds' = fds \cup {v, w}
      /\ \A j \in Pane : t_root'[j] = IF j = i THEN c ELSE t_root[j]
      /\ \A j \in Pane : t_focused'[j] = IF j = i THEN v ELSE t_focused[j]
      /\ \A j \in Pane : t_lastfocused'[j] = IF j = i THEN w ELSE t_lastfocused[j]
  BY <1>2 DEF RestoredRoot, StoreOK
<1>6. TreeLinks'
  BY <1>2, <1>3, <1>4 DEF HeapInv, TreeLinks, StoreOK, NodeOrNull
<1>7. \A j \in Pane : OwnView(j, t_focused[j])' /\ OwnView(j, t_lastfocused[j])'
  BY <1>2, <1>3, <1>4, <1>5, FocusOwned DEF HeapInv, OwnView
<1>8. NoDangling'
  <2>1. \A x \in Node : t'[x] # "FREE" =>
           \A m \in {p'[x], c1'[x], c2'[x]} \ {NULL} : m \in Node /\ t'[m] # "FREE"
    BY <1>2, <1>3, <1>4 DEF HeapInv, NoDangling, Allocated, StoreOK, NodeOrNull
  <2>2. \A j \in Pane : t_root'[j] # NULL => t_root'[j] \in Node /\ t'[t_root'[j]] # "FREE"
    BY <1>2, <1>3, <1>4, <1>5 DEF HeapInv, NoDangling, Allocated, StoreOK, NodeOrNull
  <2>3. \A x \in fds' : t'[x] = "VIEW"
    BY <1>2, <1>3, <1>4, <1>5 DEF HeapInv, NoDangling, StoreOK
  <2> QED BY <2>1, <2>2, <2>3, <1>3, <1>7 DEF NoDangling, Allocated, OwnView
<1>9. PaneOwnsNodes'
  <2>1. \A x \in Node : t'[x] # "FREE" /\ p'[x] # NULL => root_index'[x] = root_index'[p'[x]]
    BY <1>3, <1>4, <1>5 DEF HeapInv, PaneOwnsNodes, StoreOK, NodeOrNull
  <2>2. \A j \in Pane : t_root'[j] # NULL => p'[t_root'[j]] = NULL /\ root_index'[t_root'[j]] = j
    BY <1>2, <1>3, <1>4, <1>5
       DEF HeapInv, PaneOwnsNodes, NoDangling, Allocated, StoreOK, NodeOrNull
  <2> QED BY <2>1, <2>2, <1>7 DEF PaneOwnsNodes, OwnView
<1>10. NodesUnshared'
  BY <1>3, <1>4, <1>5 DEF HeapInv, NodesUnshared
<1>11. Ranked'
  <2> DEFINE rank2 == [x \in Node |-> IF x = c THEN 0 ELSE IF x \in {v, w} THEN 1 ELSE rank[x]]
  <2>1. rank2 \in [Node -> Int] /\ Ranks(rank2)'
    BY <1>1, <1>2, <1>3, <1>4 DEF Ranks, StoreOK, NodeOrNull
  <2> QED BY <2>1 DEF Ranked
<1> QED BY <1>6, <1>8, <1>9, <1>10, <1>11 DEF HeapInv

LEMMA StayHeap == ASSUME StoreOK, HeapInv, StayOnPane PROVE HeapInv'
<1>1. CASE Crash
  BY <1>1, CrashHeap
<1>2. CASE ~Crash
  BY <1>2, HeapUnchanged DEF StayOnPane, ioVars
<1> QED BY <1>1, <1>2

LEMMA NewPaneHeap == ASSUME StoreOK, HeapInv, NewPane PROVE HeapInv'
<1>1. CASE StayOnPane
  BY <1>1, StayHeap
<1>2. ASSUME NEW i \in Pane, NewPaneFails(i) PROVE HeapInv'
  <2>1. CASE Crash
    BY <2>1, CrashHeap
  <2>2. CASE ~Crash
    <3>1. /\ UNCHANGED <<t, p, c1, c2, type, refcnt, root_index, focusVars, fds>>
          /\ t_root_change' # "EXPAND"
          /\ \A j \in Pane : t_root'[j] \in {t_root[j], NULL}
      BY <1>2, <2>2 DEF NewPaneFails, heapVars, ioVars, StoreOK
    <3>2. \A j \in Pane : OwnView(j, t_focused'[j]) /\ OwnView(j, t_lastfocused'[j])
      BY <3>1, FocusOwned DEF HeapInv, focusVars
    <3> QED BY <3>1, <3>2, HeapFrame
  <2> QED BY <2>1, <2>2
<1>3. ASSUME NEW i \in Pane, NewPaneOpens(i) PROVE HeapInv'
  BY <1>3, NewRootHeap, RestoredRootHeap DEF NewPaneOpens, Planted
<1> QED BY <1>1, <1>2, <1>3 DEF NewPane

LEMMA EnterHeap ==
    ASSUME StoreOK, HeapInv, NEW i \in Pane, EnterPane(i)
    PROVE  HeapInv'
<1>1. CASE Crash
  BY <1>1, CrashHeap
<1>2. CASE ~Crash
  <2>1. /\ UNCHANGED <<heapVars, slotVars, fds>> /\ t_root_change' # "EXPAND"
        /\ \/ t_focused[i] = NULL /\ UNCHANGED focusVars
           \/ t_focused[i] # NULL /\ focus(i, t_focused[i])
    BY <1>2 DEF EnterPane, ioVars
  <2>2. OwnView(i, t_focused[i])
    BY FocusOwned DEF HeapInv
  <2> QED BY <2>1, <2>2, HeapUnchanged, FocusHeap DEF OwnView
<1> QED BY <1>1, <1>2

LEMMA RefocusHeap == ASSUME StoreOK, HeapInv, RefocusPane PROVE HeapInv'
<1>1. CASE Crash
  BY <1>1, CrashHeap
<1>2. CASE ~Crash /\ TreeIntact(t_root_index)
  <2>1. PICK v \in FirstView(Current) : focus(t_root_index, v)
    BY <1>2 DEF RefocusPane
  <2>2. /\ UNCHANGED <<heapVars, slotVars, fds>> /\ t_root_change' # "EXPAND"
        /\ t_root_index \in Pane
    BY <1>2 DEF RefocusPane, ioVars, StoreOK
  <2>3. Current \in Node /\ Allocated(Current) /\ root_index[Current] = t_root_index
    BY <1>2, <2>2 DEF TreeIntact, Current, HeapInv, NoDangling, PaneOwnsNodes, StoreOK,
                      NodeOrNull
  <2>4. PICK rank \in [Node -> Int] : Ranks(rank)
    BY DEF HeapInv, Ranked
  <2>5. v \in Node /\ t[v] = "VIEW" /\ root_index[v] = t_root_index
    BY <2>1, <2>3, <2>4, FirstViewBelow DEF HeapInv
  <2> QED BY <2>1, <2>2, <2>5, FocusHeap
<1> QED BY <1>1, <1>2 DEF RefocusPane

LEMMA SwitchHeap == ASSUME StoreOK, HeapInv, Switch PROVE HeapInv'
<1>1. t_root_change # "EXPAND"
  BY DEF HeapInv, NodesUnshared
<1> QED BY <1>1, NewPaneHeap, EnterHeap, RefocusHeap, StayHeap DEF Switch

(* getinput deletes a view of the current pane, so its container and its   *)
(* sibling belong to that pane too.                                        *)
LEMMA InputHeap == ASSUME StoreOK, HeapInv, GetInput PROVE HeapInv'
<1>1. CASE UNCHANGED storeVars
  BY <1>1, IdleHeap
<1>2. CASE Crash
  BY <1>2, CrashHeap
<1>3. ASSUME NEW v \in Closed, deletenode(v) PROVE HeapInv'
  <2>1. t_root_index \in Pane
    BY DEF StoreOK
  <2>2. v \in Node /\ t[v] = "VIEW" /\ root_index[v] = t_root_index
    BY <2>1, PaneViewsOwned DEF Closed, HeapInv
  <2> QED BY <1>3, <2>2, DeleteHeap
<1> QED BY <1>1, <1>2, <1>3 DEF GetInput

LEMMA KeyHeap == ASSUME StoreOK, HeapInv, CoreCommands, Key PROVE HeapInv'
<1>1. CASE Crash
  BY <1>1, CrashHeap
<1>2. CASE Allocated(Focused) /\ Command(Focused)
  <2>1. Focused \in Node
    BY <1>2 DEF StoreOK, Allocated, Focused, NodeOrNull
  <2> QED BY <1>2, <2>1, CommandHeap
<1> QED BY <1>1, <1>2 DEF Key

-----------------------------------------------------------------------------
(* The inductive invariant behind HeapCorrect. *)
LEMMA HeapAlways == ASSUME CoreCommands PROVE Spec => [](TypeOK /\ HeapInv)
<1>1. Init => HeapInv
  <2> SUFFICES ASSUME Init PROVE HeapInv
    OBVIOUS
  <2>1. PICK v \in Node :
      /\ t = [n \in Node |-> IF n = v THEN "VIEW" ELSE "FREE"]
      /\ type = [n \in Node |-> IF n = v THEN "ROOT" ELSE "CHILD"]
      /\ p = [n \in Node |-> NULL] /\ c1 = [n \in Node |-> NULL] /\ c2 = [n \in Node |-> NULL]
      /\ refcnt = [n \in Node |-> IF n = v THEN 1 ELSE 0]
      /\ root_index = [n \in Node |-> 0]
      /\ t_root = [i \in Pane |-> IF i = 0 THEN v ELSE NULL]
      /\ t_focused = [i \in Pane |-> IF i = 0 THEN v ELSE NULL]
      /\ t_lastfocused = [i \in Pane |-> NULL]
      /\ t_root_change = "NONE" /\ fds = {v}
    BY DEF Init
  <2>2. TreeLinks /\ NoDangling /\ PaneOwnsNodes /\ NodesUnshared
    BY <2>1, ConstAssumption DEF TreeLinks, NoDangling, PaneOwnsNodes, NodesUnshared, Allocated
  <2>3. [n \in Node |-> 0] \in [Node -> Int] /\ Ranks([n \in Node |-> 0])
    BY <2>1 DEF Ranks
  <2> QED BY <2>2, <2>3 DEF HeapInv, Ranked
<1>2. TypeOK /\ HeapInv /\ [Next]_vars => HeapInv'
  <2> SUFFICES ASSUME TypeOK, HeapInv, [Next]_vars PROVE HeapInv'
    OBVIOUS
  <2>0. StoreOK
    BY StoreIsType
  <2>1. CASE Select
    BY <2>0, <2>1, HeapUnchanged DEF Select, reqVars, HeapInv, NodesUnshared
  <2>2. CASE KeysDone
    BY <2>0, <2>2, IdleHeap DEF KeysDone
  <2>3. CASE GetInput
    BY <2>0, <2>3, InputHeap
  <2>4. CASE Switch
    BY <2>0, <2>4, SwitchHeap
  <2>5. CASE Key
    BY <2>0, <2>5, KeyHeap
  <2>6. ASSUME NEW n \in Node, ProgramExit(n) PROVE HeapInv'
    BY <2>0, <2>6, HeapUnchanged DEF ProgramExit, reqVars, HeapInv, NodesUnshared
  <2>7. CASE UNCHANGED vars
    BY <2>0, <2>7, IdleHeap DEF vars, storeVars
  <2> QED BY <2>1, <2>2, <2>3, <2>4, <2>5, <2>6, <2>7 DEF Next, Loop
<1> QED BY <1>1, <1>2, TypeCorrect, PTL DEF Spec

(* With any mix of moves, splits, deletions, swaps and pane commands, typed *)
(* ahead or not, with forks that fail and programs that exit at any time,   *)
(* the trees stay trees, each pane keeps to the nodes allocated for it, and *)
(* no pointer mtm may follow is left to freed memory (mtm.c, newnode ...    *)
(* main, without pushnode, fetchnode, unfetchnode and expandnode).          *)
THEOREM HeapCorrect ==
    ASSUME CoreCommands
    PROVE  Spec => [](TreeLinks /\ NoDangling /\ PaneOwnsNodes)
<1>1. HeapInv => TreeLinks /\ NoDangling /\ PaneOwnsNodes
  BY DEF HeapInv
<1> QED BY <1>1, HeapAlways, PTL

(* Of the same commands: parents and children agree in every reachable      *)
(* state, so that draw, reshape, findnode and getinput, which walk down,    *)
(* and deletenode and swapnode, which climb, see the same trees.            *)
THEOREM TreesCorrect == ASSUME CoreCommands PROVE Spec => []TreeLinks
BY HeapCorrect, PTL

(* Of the same commands: no pane ever holds, or keeps a focus pointer to, a *)
(* node that was allocated for another pane (root_index in newnode).        *)
THEOREM PanesKeepNodes == ASSUME CoreCommands PROVE Spec => []PaneOwnsNodes
BY HeapCorrect, PTL

(***************************************************************************)
(* What the keyboard and select() are given: as long as no key is typed    *)
(* ahead of a pane change, the slots in use are those with a tree; and     *)
(* without the commands that expand, fetch or go back to the other view,   *)
(* the focus of every pane with a tree is a view of that tree, and         *)
(* select() waits for exactly the views some pane shows.                   *)
(***************************************************************************)
(* While no request is pending, the current pane has a tree. *)
CurrentShown == Running /\ t_root_change = "NONE" => Current # NULL

(* EnableAgrees is not inductive alone: split and deletenode would write   *)
(* the root of a pane that was just given up.                              *)
SlotInv == EnableAgrees /\ CurrentShown

LEMMA SlotsKept ==
    ASSUME SlotInv, UNCHANGED <<slotVars, t_root_index>>,
           Current # NULL \/ ~Running' \/ t_root_change' # "NONE"
    PROVE  SlotInv'
BY DEF SlotInv, EnableAgrees, CurrentShown, slotVars, Current

LEMMA CrashSlots == ASSUME SlotInv, Crash PROVE SlotInv'
BY SlotsKept DEF Crash, storeVars, Running

(* The root of the current pane is replaced by another node. *)
LEMMA RootReplaced ==
    ASSUME StoreOK, SlotInv, Current # NULL, NEW x \in Node,
           t_root' = [t_root EXCEPT ![t_root_index] = x],
           UNCHANGED <<t_root_enable, t_root_index>>
    PROVE  SlotInv'
BY ConstAssumption DEF StoreOK, SlotInv, EnableAgrees, CurrentShown, Current

LEMMA DeleteRootSlots ==
    ASSUME StoreOK, SlotInv, NEW n \in Node, DeleteRoot(n)
    PROVE  SlotInv'
<1>1. EnableAgrees'
  BY DEF DeleteRoot, StoreOK, SlotInv, EnableAgrees
<1>2. t_root_change' # "NONE" \/ ~Running'
  BY DEF DeleteRoot, Running
<1> QED BY <1>1, <1>2 DEF SlotInv, CurrentShown

LEMMA DeleteSlots ==
    ASSUME StoreOK, SlotInv, Current # NULL, NEW n \in Node, deletenode(n)
    PROVE  SlotInv'
<1>1. CASE UNCHANGED storeVars
  BY <1>1, SlotsKept DEF storeVars
<1>2. CASE DeleteRoot(n)
  BY <1>2, DeleteRootSlots
<1>3. CASE DeleteChild(n)
  <2>1. CASE Crash
    BY <2>1, CrashSlots
  <2>2. CASE Allocated(p[n]) /\ Allocated(Sibling(n)) /\ Unlink(n, p[n], Sibling(n), p[p[n]])
    <3>1. Sibling(n) \in Node
      BY <1>3, <2>2 DEF StoreOK, Sibling, Allocated, NodeOrNull
    <3>2. UNCHANGED <<t_root_enable, t_root_index>>
      BY <2>2 DEF Unlink
    <3>3. CASE p[p[n]] = NULL
      BY <2>2, <3>1, <3>2, <3>3, RootReplaced DEF Unlink
    <3>4. CASE p[p[n]] # NULL
      BY <2>2, <3>2, <3>4, SlotsKept DEF Unlink, slotVars
    <3> QED BY <3>3, <3>4
  <2> QED BY <1>3, <2>1, <2>2 DEF DeleteChild
<1> QED BY <1>1, <1>2, <1>3 DEF deletenode

LEMMA SplitSlots ==
    ASSUME StoreOK, SlotInv, Current # NULL, NEW n \in Node, split(n)
    PROVE  SlotInv'
<1>1. CASE UNCHANGED storeVars
  BY <1>1, SlotsKept DEF storeVars
<1>2. CASE SplitFails(n)
  BY <1>2, SlotsKept DEF SplitFails
<1>3. CASE Crash
  BY <1>3, CrashSlots
<1>4. ASSUME NEW v \in Node, NEW c \in Node, SplitWith(n, v, c) PROVE SlotInv'
  <2>1. UNCHANGED <<t_root_enable, t_root_index>>
    BY <1>4 DEF SplitWith
  <2>2. CASE p[n] = NULL
    BY <1>4, <2>1, <2>2, RootReplaced DEF SplitWith
  <2>3. CASE p[n] # NULL
    BY <1>4, <2>1, <2>3, SlotsKept DEF SplitWith, slotVars
  <2> QED BY <2>2, <2>3
<1> QED BY <1>1, <1>2, <1>3, <1>4 DEF split

LEMMA CommandSlots ==
    ASSUME StoreOK, SlotInv, Current # NULL, NEW n \in Node, Command(n)
    PROVE  SlotInv'
<1>1. CASE UNCHANGED <<slotVars, t_root_index>>
  BY <1>1, SlotsKept
<1>2. CASE split(n) \/ deletenode(n)
  BY <1>2, SplitSlots, DeleteSlots
<1>3. UNCHANGED storeVars => UNCHANGED <<slotVars, t_root_index>>
  BY DEF storeVars
<1>4. CASE MoveFocus \/ MoveOther
  BY <1>1, <1>3, <1>4 DEF MoveFocus, MoveOther, FocusOnly, Crash
<1>5. CASE swapnode(n) \/ pushnode(n) \/ fetchnode(n) \/ unfetchnode(n) \/ expandnode(n)
  <2>1. UNCHANGED <<slotVars, t_root_index>>
    BY <1>3, <1>5 DEF swapnode, pushnode, fetchnode, unfetchnode, expandnode, Request, Crash
  <2> QED BY <1>1, <2>1
<1>6. CASE WindowLabel \/ Reshape \/ Quit \/ \E kind \in Requests : Request(kind)
  BY <1>1, <1>3, <1>6 DEF WindowLabel, Reshape, Quit, Request, Crash
<1>7. {"CREATE", "RESTORE", "NEXT", "PREV"} \subseteq Requests
  BY DEF Requests
<1> QED BY <1>2, <1>4, <1>5, <1>6, <1>7 DEF Command

LEMMA StaySlots == ASSUME SlotInv, StayOnPane PROVE SlotInv'
<1>1. CASE Crash
  BY <1>1, CrashSlots
<1>2. CASE TreeIntact(t_root_index)
  BY <1>2, SlotsKept DEF StayOnPane, TreeIntact, Current
<1> QED BY <1>1, <1>2 DEF StayOnPane

LEMMA NewPaneSlots == ASSUME StoreOK, SlotInv, NewPane PROVE SlotInv'
<1>1. CASE StayOnPane
  BY <1>1, StaySlots
<1>2. ASSUME NEW i \in Pane, FreeSlot(i), NewPaneFails(i) PROVE SlotInv'
  <2>1. CASE Crash
    BY <2>1, CrashSlots
  <2>2. CASE TreeIntact(t_root_index)
    <3>1. t_root[i] = NULL
      BY <1>2 DEF FreeSlot, Enabled, IsLeast, SlotInv, EnableAgrees
    <3>2. t_root' = t_root
      BY <1>2, <2>2, <3>1 DEF NewPaneFails, StoreOK
    <3> QED BY <1>2, <2>2, <3>2, SlotsKept DEF NewPaneFails, TreeIntact, Current, slotVars
  <2> QED BY <1>2, <2>1, <2>2 DEF NewPaneFails
<1>3. ASSUME NEW i \in Pane, NewPaneOpens(i) PROVE SlotInv'
  <2>1. PICK x \in Node : t_root' = [t_root EXCEPT ![i] = x]
    BY <1>3 DEF NewPaneOpens, Planted, NewRoot, RestoredRoot
  <2>2. EnableAgrees'
    BY <1>3, <2>1, ConstAssumption DEF NewPaneOpens, StoreOK, SlotInv, EnableAgrees
  <2>3. CurrentShown'
    BY <1>3, <2>1, ConstAssumption DEF NewPaneOpens, StoreOK, CurrentShown, Current
  <2> QED BY <2>2, <2>3 DEF SlotInv
<1> QED BY <1>1, <1>2, <1>3 DEF NewPane

LEMMA EnterSlots ==
    ASSUME StoreOK, SlotInv, NEW i \in Pane, EnterPane(i)
    PROVE  SlotInv'
<1>1. CASE Crash
  BY <1>1, CrashSlots
<1>2. CASE TreeIntact(i) /\ t_root_index' = i /\ UNCHANGED slotVars
  BY <1>2 DEF TreeIntact, SlotInv, EnableAgrees, CurrentShown, Current, slotVars
<1> QED BY <1>1, <1>2 DEF EnterPane

LEMMA ExpandPaneSlots == ASSUME StoreOK, SlotInv, ExpandPane PROVE SlotInv'
<1>1. CASE StayOnPane
  BY <1>1, StaySlots
<1>2. CASE Crash
  BY <1>2, CrashSlots
<1>3. ASSUME NEW i \in Pane, Allocated(t_expand_node), t_root_index' = i,
             t_root' = [t_root EXCEPT ![i] = t_expand_node],
             t_root_enable' = [t_root_enable EXCEPT ![i] = 1]
      PROVE  SlotInv'
  BY <1>3 DEF StoreOK, Allocated, SlotInv, EnableAgrees, CurrentShown, Current
<1> QED BY <1>1, <1>2, <1>3 DEF ExpandPane

LEMMA SwitchSlots == ASSUME StoreOK, SlotInv, Switch PROVE SlotInv'
<1>1. CASE RefocusPane
  <2>1. CASE Crash
    BY <2>1, CrashSlots
  <2>2. CASE TreeIntact(t_root_index) /\ UNCHANGED <<slotVars, t_root_index>>
    BY <2>2, SlotsKept DEF TreeIntact, Current
  <2> QED BY <1>1, <2>1, <2>2 DEF RefocusPane
<1> QED BY <1>1, NewPaneSlots, EnterSlots, ExpandPaneSlots, StaySlots DEF Switch

(* The inductive invariant behind SlotsAgree. *)
LEMMA SlotsAlways ==
    ASSUME Typeahead = FALSE
    PROVE  Spec => []SlotInv
<1>1. Init => SlotInv
  BY ZeroPane, ConstAssumption DEF Init, SlotInv, EnableAgrees, CurrentShown, Current
<1>2. TypeOK /\ SlotInv /\ [Next]_vars => SlotInv'
  <2> SUFFICES ASSUME TypeOK, SlotInv, [Next]_vars PROVE SlotInv'
    OBVIOUS
  <2>0. StoreOK
    BY StoreIsType
  <2>1. CASE Select \/ (\E n \in Node : ProgramExit(n)) \/ UNCHANGED vars
    BY <2>1 DEF Select, ProgramExit, vars, reqVars, slotVars, SlotInv, EnableAgrees,
                CurrentShown, Current, Running
  <2>2. CASE KeysDone
    BY <2>2 DEF KeysDone, storeVars, reqVars, slotVars, SlotInv, EnableAgrees,
                CurrentShown, Current, Running
  <2>3. CASE GetInput
    <3>1. CASE Crash
      BY <3>1, CrashSlots
    <3>2. CASE TreeIntact(t_root_index) /\ (UNCHANGED storeVars \/ \E v \in Closed : deletenode(v))
      <4>1. Current # NULL /\ Closed \subseteq Node
        BY <3>2, <2>0 DEF TreeIntact, Current, Closed, StoreOK
      <4>2. CASE UNCHANGED storeVars
        BY <4>1, <4>2, SlotsKept DEF storeVars
      <4>3. CASE \E v \in Closed : deletenode(v)
        BY <2>0, <4>1, <4>3, DeleteSlots
      <4> QED BY <3>2, <4>2, <4>3
    <3> QED BY <2>3, <3>1, <3>2 DEF GetInput
  <2>4. CASE Switch
    BY <2>0, <2>4, SwitchSlots
  <2>5. CASE Key
    <3>1. CASE Crash
      BY <3>1, CrashSlots
    <3>2. CASE Allocated(Focused) /\ Command(Focused)
      <4>1. Focused \in Node
        BY <2>0, <3>2 DEF StoreOK, Allocated, Focused, NodeOrNull
      <4>2. Current # NULL
        BY <2>5 DEF Key, SlotInv, CurrentShown
      <4> QED BY <2>0, <3>2, <4>1, <4>2, CommandSlots
    <3> QED BY <2>5, <3>1, <3>2 DEF Key
  <2> QED BY <2>1, <2>2, <2>3, <2>4, <2>5 DEF Next, Loop
<1> QED BY <1>1, <1>2, TypeCorrect, PTL DEF Spec

(* A slot counts as in use exactly if it has a tree, whatever is created,   *)
(* deleted, expanded or fetched, unless keys are typed ahead of a pane      *)
(* change (root_delete, set_create_root_index, the switch of main).         *)
THEOREM SlotsAgree ==
    ASSUME Typeahead = FALSE
    PROVE  Spec => []EnableAgrees
<1>1. SlotInv => EnableAgrees
  BY DEF SlotInv
<1> QED BY <1>1, SlotsAlways, PTL

-----------------------------------------------------------------------------
(* Walks along the child pointers, as facts about sets: K gives the children *)
(* of each node.                                                             *)

Walk(K, r) ==
    {x \in Node : \A S \in SUBSET Node : (r \in S /\ \A y \in S : K[y] \subseteq S) => x \in S}

LEMMA WalkLeast ==
    ASSUME NEW K, NEW r, NEW S \in SUBSET Node, r \in S, \A y \in S : K[y] \subseteq S
    PROVE  Walk(K, r) \subseteq S
BY DEF Walk

LEMMA WalkClosed ==
    ASSUME NEW K \in [Node -> SUBSET Node], NEW r \in Node
    PROVE  /\ Walk(K, r) \in SUBSET Node
           /\ r \in Walk(K, r)
           /\ \A y \in Walk(K, r) : K[y] \subseteq Walk(K, r)
BY DEF Walk

(* What is reached is the start or a child of something reached. *)
LEMMA WalkUp ==
    ASSUME NEW K \in [Node -> SUBSET Node], NEW r \in Node,
           NEW x \in Walk(K, r), x # r
    PROVE  \E y \in Walk(K, r) : x \in K[y]
<1> SUFFICES ASSUME \A y \in Walk(K, r) : x \notin K[y] PROVE FALSE
  OBVIOUS
<1> DEFINE S == Walk(K, r) \ {x}
<1>1. S \in SUBSET Node /\ r \in S /\ \A y \in S : K[y] \subseteq S
  BY WalkClosed
<1> QED BY <1>1, WalkLeast

LEMMA WalkLeaf ==
    ASSUME NEW K \in [Node -> SUBSET Node], NEW r \in Node, K[r] = {}
    PROVE  Walk(K, r) = {r}
<1>1. {r} \in SUBSET Node /\ r \in {r} /\ \A y \in {r} : K[y] \subseteq {r}
  OBVIOUS
<1>2. Walk(K, r) \subseteq {r}
  BY <1>1, WalkLeast
<1> QED BY <1>2, WalkClosed

(* split: the container c takes the place of n, above n and the new v. *)
KidsSplit(K, K2, n, v, c) ==
    /\ K \in [Node -> SUBSET Node] /\ K2 \in [Node -> SUBSET Node]
    /\ n \in Node /\ v \in Node /\ c \in Node /\ v # c /\ n \notin {v, c}
    /\ K[v] = {} /\ K[c] = {} /\ \A y \in Node : v \notin K[y] /\ c \notin K[y]
    /\ K2[v] = {} /\ K2[c] = {n, v}
    /\ \A y \in Node \ {v, c} :
          K2[y] = IF n \in K[y] THEN (K[y] \ {n}) \cup {c} ELSE K[y]

LEMMA SplitWalk ==
    ASSUME NEW K, NEW K2, NEW n, NEW v, NEW c, KidsSplit(K, K2, n, v, c),
           NEW r \in Node \ {v, c}
    PROVE  Walk(K2, IF r = n THEN c ELSE r)
               = IF n \in Walk(K, r) THEN Walk(K, r) \cup {v, c} ELSE Walk(K, r)
<1> USE DEF KidsSplit
<1> DEFINE r2 == IF r = n THEN c ELSE r
           W  == Walk(K, r)
           W2 == Walk(K2, r2)
           T  == IF n \in W THEN W \cup {v, c} ELSE W
<1>1. /\ W \in SUBSET Node /\ r \in W /\ \A y \in W : K[y] \subseteq W
      /\ W2 \in SUBSET Node /\ r2 \in W2 /\ \A y \in W2 : K2[y] \subseteq W2
  BY WalkClosed
<1>2. v \notin W /\ c \notin W
  BY <1>1, WalkUp
<1> HIDE DEF W, W2
<1>3. c \in W2 => n \in W2 /\ v \in W2
  BY <1>1
<1>4. r \in W2
  BY <1>1, <1>3
<1>5. \A y \in W2 : K[y] \subseteq W2
  BY <1>1, <1>3
<1>6. W \subseteq W2
  BY <1>1, <1>4, <1>5, WalkLeast DEF W
<1>7. n \in W => c \in W2
  <2>1. CASE r = n
    BY <1>1, <2>1
  <2>2. ASSUME r # n, n \in W PROVE c \in W2
    <3>1. PICK y \in W : n \in K[y]
      BY <2>2, WalkUp DEF W
    <3>2. y \in Node \ {v, c} /\ y \in W2
      BY <1>1, <1>2, <1>6, <3>1
    <3> QED BY <1>1, <3>1, <3>2
  <2> QED BY <2>1, <2>2
<1>8. T \in SUBSET Node /\ r2 \in T /\ \A y \in T : K2[y] \subseteq T
  BY <1>1, <1>2
<1>9. W2 \subseteq T
  <2> HIDE DEF T
  <2> QED BY <1>8, WalkLeast DEF W2
<1>10. W2 = T
  BY <1>3, <1>6, <1>7, <1>9, ZenonT(30)
<1> QED BY <1>10 DEF W, W2

(* deletenode: the sibling s takes the place of q, and q and n are gone. *)
KidsUnlinked(K, K2, n, q, s) ==
    /\ K \in [Node -> SUBSET Node] /\ K2 \in [Node -> SUBSET Node]
    /\ n \in Node /\ q \in Node /\ s \in Node /\ n # q /\ s # q /\ s # n
    /\ K[n] = {} /\ K[q] = {n, s} /\ \A y \in Node \ {q} : n \notin K[y]
    /\ \A y \in Node \ {n, q} :
          K2[y] = IF q \in K[y] THEN (K[y] \ {q}) \cup {s} ELSE K[y]

LEMMA UnlinkWalk ==
    ASSUME NEW K, NEW K2, NEW n, NEW q, NEW s, KidsUnlinked(K, K2, n, q, s),
           NEW r \in Node \ {n}
    PROVE  Walk(K2, IF r = q THEN s ELSE r) = Walk(K, r) \ {n, q}
<1> USE DEF KidsUnlinked
<1> DEFINE r2 == IF r = q THEN s ELSE r
           W  == Walk(K, r)
           W2 == Walk(K2, r2)
           S  == W \ {n, q}
           T  == W2 \cup (IF s \in W2 THEN {n, q} ELSE {})
<1>1. /\ W \in SUBSET Node /\ r \in W /\ \A y \in W : K[y] \subseteq W
      /\ W2 \in SUBSET Node /\ r2 \in W2 /\ \A y \in W2 : K2[y] \subseteq W2
  BY WalkClosed
<1> HIDE DEF W, W2
<1>2. S \in SUBSET Node /\ r2 \in S /\ \A y \in S : K2[y] \subseteq S
  BY <1>1
<1>3. W2 \subseteq S
  <2> HIDE DEF S
  <2> QED BY <1>2, WalkLeast DEF W2
<1>4. T \in SUBSET Node /\ r \in T
  BY <1>1
<1>5. ASSUME NEW y \in T PROVE K[y] \subseteq T
  <2>1. CASE y \in W2
    BY <2>1, <1>1, <1>3
  <2>2. CASE y \notin W2
    BY <2>2
  <2> QED BY <2>1, <2>2
<1>6. W \subseteq T
  <2> HIDE DEF T
  <2> QED BY <1>4, <1>5, WalkLeast DEF W
<1>7. W2 = S
  BY <1>3, <1>6
<1> QED BY <1>7 DEF W, W2

(* RESTORE: a tree of three new nodes beside the others. *)
KidsSown(K, K2, v, w, c) ==
    /\ K \in [Node -> SUBSET Node] /\ K2 \in [Node -> SUBSET Node]
    /\ v \in Node /\ w \in Node /\ c \in Node /\ c # v /\ c # w
    /\ K[v] = {} /\ K[w] = {} /\ K2[c] = {v, w}
    /\ \A y \in Node : c \notin K[y]
    /\ \A y \in Node \ {c} : K2[y] = K[y]

LEMMA RestoredWalk ==
    ASSUME NEW K, NEW K2, NEW v, NEW w, NEW c, KidsSown(K, K2, v, w, c)
    PROVE  /\ Walk(K2, c) = {v, w, c}
           /\ \A r \in Node \ {c} : Walk(K2, r) = Walk(K, r)
<1> USE DEF KidsSown
<1>1. Walk(K2, c) = {v, w, c}
  <2> DEFINE T == {v, w, c}
  <2>0. T \in SUBSET Node /\ c \in T /\ \A y \in T : K2[y] \subseteq T
    OBVIOUS
  <2>1. Walk(K2, c) \subseteq T
    <3> HIDE DEF T
    <3> QED BY <2>0, WalkLeast
  <2>2. c \in Walk(K2, c) /\ K2[c] \subseteq Walk(K2, c)
    BY WalkClosed
  <2> QED BY <2>1, <2>2
<1>2. ASSUME NEW r \in Node \ {c} PROVE Walk(K2, r) = Walk(K, r)
  <2> DEFINE W  == Walk(K, r)
             W2 == Walk(K2, r)
  <2>1. /\ W \in SUBSET Node /\ r \in W /\ \A y \in W : K[y] \subseteq W
        /\ W2 \in SUBSET Node /\ r \in W2 /\ \A y \in W2 : K2[y] \subseteq W2
    BY WalkClosed
  <2>2. c \notin W
    BY <2>1, WalkUp
  <2> HIDE DEF W, W2
  <2>3. \A y \in W : K2[y] \subseteq W
    BY <2>1, <2>2
  <2>4. W2 \subseteq W
    BY <2>1, <2>3, WalkLeast DEF W2
  <2>5. \A y \in W2 : K[y] \subseteq W2
    BY <2>1, <2>2, <2>4
  <2>6. W \subseteq W2
    BY <2>1, <2>5, WalkLeast DEF W
  <2> QED BY <2>4, <2>6 DEF W, W2
<1> QED BY <1>1, <1>2

-----------------------------------------------------------------------------
(* The trees of the panes as such walks. *)

Kids == [y \in Node |-> {c1[y], c2[y]} \ {NULL}]

(* The node a pane's tree is reached from, and its views, of a store that  *)
(* holds roots, kids and kinds.                                            *)
ViewsFrom(roots, kids, kind, i) ==
    IF roots[i] = NULL THEN {} ELSE {v \in Walk(kids, roots[i]) : kind[v] = "VIEW"}

LEMMA KidsType == StoreOK => Kids \in [Node -> SUBSET Node]
BY DEF StoreOK, Kids, NodeOrNull

LEMMA KidsTypeAfter == StoreOK' => Kids' \in [Node -> SUBSET Node]
BY DEF StoreOK, Kids, NodeOrNull

LEMMA PaneWalks == \A i \in Pane : PaneViews(i) = ViewsFrom(t_root, Kids, t, i)
BY DEF PaneViews, SubTree, Walk, Kids, ViewsFrom

LEMMA PaneWalksAfter == \A i \in Pane : PaneViews(i)' = ViewsFrom(t_root', Kids', t', i)
BY DEF PaneViews, SubTree, Walk, Kids, ViewsFrom

(* InputFromShown, a view at a time. *)
InputShown == \A n \in Node : n \in fds <=> \E i \in Pane : n \in PaneViews(i)

LEMMA InputIsShown == fds \subseteq Node => (InputFromShown <=> InputShown)
BY DEF InputFromShown, InputShown, InTree, PaneViews

ShownInv == FocusShown /\ InputShown

(* A child's parent is the container it is reached from. *)
LEMMA KidsParent ==
    ASSUME StoreOK, HeapInv, NEW y \in Node, NEW x \in Kids[y]
    PROVE  x \in Node /\ p[x] = y /\ t[y] = "CONTAINER" /\ t[x] # "FREE"
BY DEF StoreOK, HeapInv, TreeLinks, NodesUnshared, NoDangling, Allocated, Kids, NodeOrNull

(* Every node of a pane's tree was allocated for that pane. *)
LEMMA TreeOwned ==
    ASSUME StoreOK, HeapInv, NEW i \in Pane, t_root[i] # NULL,
           NEW x \in Walk(Kids, t_root[i])
    PROVE  x \in Node /\ t[x] # "FREE" /\ root_index[x] = i
<1> DEFINE own == {y \in Node : t[y] # "FREE" /\ root_index[y] = i}
<1>1. t_root[i] \in own /\ own \in SUBSET Node
  BY DEF StoreOK, NodeOrNull, HeapInv, NoDangling, PaneOwnsNodes, Allocated
<1>2. ASSUME NEW y \in own, NEW z \in Kids[y] PROVE z \in own
  BY <1>2, KidsParent, ConstAssumption DEF HeapInv, PaneOwnsNodes
<1>3. Walk(Kids, t_root[i]) \subseteq own
  BY <1>1, <1>2, WalkLeast
<1> QED BY <1>3

(* What a pane's tree reaches below its root, it reaches through the parent. *)
LEMMA ParentReached ==
    ASSUME StoreOK, HeapInv, NEW r \in Node, NEW x \in Walk(Kids, r), x # r
    PROVE  p[x] \in Walk(Kids, r) /\ x \in Kids[p[x]] /\ t[p[x]] = "CONTAINER"
<1>1. PICK y \in Walk(Kids, r) : x \in Kids[y]
  BY KidsType, WalkUp
<1>2. y \in Node
  BY DEF Walk
<1> QED BY <1>1, <1>2, KidsParent

(* So the only orphan of a tree is its root. *)
LEMMA OrphanIsRoot ==
    ASSUME StoreOK, HeapInv, NEW r \in Node, NEW x \in Walk(Kids, r), p[x] = NULL
    PROVE  x = r
<1>1. x # r => p[x] \in Node
  BY ParentReached DEF Walk
<1> QED BY <1>1, ConstAssumption

(* focus() descends within the tree it starts in. *)
LEMMA FirstViewReached ==
    ASSUME StoreOK, NEW r \in Node, NEW s \in Walk(Kids, r), NEW v \in FirstView(s)
    PROVE  v \in Walk(Kids, r) /\ t[v] = "VIEW"
<1> DEFINE W == Walk(Kids, r)
<1>1. W \in SUBSET Node /\ \A y \in W : Kids[y] \subseteq W
  BY KidsType, WalkClosed
<1> HIDE DEF W
<1>2. ASSUME NEW y \in W, FirstChild(y) # NULL PROVE FirstChild(y) \in W
  <2>1. FirstChild(y) \in Kids[y]
    BY <1>1, <1>2 DEF FirstChild, Kids
  <2> QED BY <1>1, <2>1
<1>3. s \in W
  BY DEF W
<1> QED BY <1>1, <1>2, <1>3 DEF FirstView, W

-----------------------------------------------------------------------------
(* Steps that change no tree: the focus moves within its pane. *)
LEMMA ShownFrame ==
    ASSUME ShownInv, Kids' = Kids, t' = t, t_root' = t_root, fds' = fds,
           \A i \in Pane : t_root[i] # NULL =>
               t_focused'[i] = t_focused[i] \/ t_focused'[i] \in PaneViews(i)
    PROVE  ShownInv'
<1>1. \A i \in Pane : PaneViews(i)' = PaneViews(i)
  BY PaneWalks, PaneWalksAfter
<1>2. FocusShown'
  BY <1>1 DEF ShownInv, FocusShown
<1>3. InputShown'
  BY <1>1 DEF ShownInv, InputShown
<1> QED BY <1>2, <1>3 DEF ShownInv

LEMMA ShownUnchanged ==
    ASSUME ShownInv, UNCHANGED <<heapVars, slotVars, focusVars, fds>>
    PROVE  ShownInv'
<1>1. Kids' = Kids
  BY DEF Kids, heapVars
<1> QED BY <1>1, ShownFrame DEF heapVars, slotVars, focusVars

LEMMA CrashShown == ASSUME ShownInv, Crash PROVE ShownInv'
BY ShownUnchanged DEF Crash, storeVars, ioVars

LEMMA FocusViewShown ==
    ASSUME StoreOK, ShownInv, NEW i \in Pane, NEW v \in PaneViews(i), focus(i, v),
           UNCHANGED <<heapVars, slotVars, fds>>
    PROVE  ShownInv'
<1>1. Kids' = Kids
  BY DEF Kids, heapVars
<1>2. \A j \in Pane : t_focused'[j] = t_focused[j] \/ t_focused'[j] \in PaneViews(j)
  BY DEF focus, StoreOK
<1> QED BY <1>1, <1>2, ShownFrame DEF heapVars, slotVars

-----------------------------------------------------------------------------
(* Steps that change a tree. *)

ShownStore == StoreOK /\ HeapInv /\ SlotInv /\ ShownInv

(* A view of the current pane that is its own tree's root is given up: the  *)
(* pane has no other view.                                                  *)
LEMMA DeleteRootShown ==
    ASSUME ShownStore, NEW n \in PaneViews(t_root_index), IsLoneRoot(n), DeleteRoot(n)
    PROVE  /\ ShownInv' /\ PaneViews(t_root_index) = {n}
           /\ \A i \in Pane : /\ t_root'[i] = IF i = t_root_index THEN NULL ELSE t_root[i]
                             /\ PaneViews(i)' = IF i = t_root_index THEN {} ELSE PaneViews(i)
<1> DEFINE j == t_root_index
<1>1. j \in Pane /\ t_root[j] \in Node /\ n \in Walk(Kids, t_root[j]) /\ t[n] = "VIEW"
  BY PaneWalks DEF ShownStore, StoreOK, ViewsFrom, NodeOrNull
<1>2. t_root[j] = n
  BY <1>1, OrphanIsRoot DEF ShownStore, IsLoneRoot
<1>3. Kids[n] = {}
  BY <1>1, <1>2 DEF Kids, IsLoneRoot
<1>4. PaneViews(j) = {n}
  BY <1>1, <1>2, <1>3, KidsType, WalkLeaf, PaneWalks, ConstAssumption DEF ShownStore, ViewsFrom
<1>5. \A i \in Pane : t_root[i] = n => i = j
  BY <1>1, <1>2, ConstAssumption DEF ShownStore, HeapInv, PaneOwnsNodes
<1>6. type[n] # "EXPANDROOT"
  BY DEF IsLoneRoot
<1>7. /\ UNCHANGED <<t, c1, c2, t_focused>> /\ fds' = fds \ {n}
      /\ \A i \in Pane : t_root'[i] = IF i = j THEN NULL ELSE t_root[i]
  <2>1. UNCHANGED <<t, c1, c2, t_focused>> /\ fds' = fds \ {n}
    BY <1>6 DEF DeleteRoot, focusVars
  <2>2. \A i \in Pane : IsLeast(i, {k \in Pane : t_root[k] = n}) <=> i = j
    BY <1>1, <1>2, <1>5, ConstAssumption DEF IsLeast, Pane
  <2>3. t_root' = [i \in Pane |-> IF IsLeast(i, {k \in Pane : t_root[k] = n})
                                  THEN NULL ELSE t_root[i]]
    BY DEF DeleteRoot
  <2> QED BY <2>1, <2>2, <2>3
<1>8. Kids' = Kids
  BY <1>7 DEF Kids
<1>9. \A i \in Pane : PaneViews(i)' = IF i = j THEN {} ELSE PaneViews(i)
  BY <1>7, <1>8, PaneWalks, PaneWalksAfter DEF ViewsFrom
<1>10. \A i \in Pane \ {j} : n \notin PaneViews(i)
  BY <1>1, <1>4, PaneViewsOwned DEF ShownStore, HeapInv
<1>11. FocusShown'
  BY <1>7, <1>9 DEF ShownStore, ShownInv, FocusShown
<1>12. InputShown'
  BY <1>1, <1>4, <1>7, <1>9, <1>10 DEF ShownStore, ShownInv, InputShown
<1> QED BY <1>4, <1>7, <1>9, <1>11, <1>12 DEF ShownInv

(* A view n of the current pane below a container: its sibling moves up, and *)
(* every pane shows what it showed, without n.                              *)
LEMMA UnlinkShown ==
    ASSUME ShownStore, StoreOK', NEW n \in PaneViews(t_root_index),
           Allocated(p[n]), Allocated(Sibling(n)),
           Unlink(n, p[n], Sibling(n), p[p[n]])
    PROVE  /\ ShownInv'
           /\ \A i \in Pane : /\ t_root'[i] = NULL <=> t_root[i] = NULL
                             /\ PaneViews(i)' = PaneViews(i) \ {n}
<1> DEFINE q == p[n]
           s == Sibling(n)
           g == p[q]
           j == t_root_index
<1>1. PICK rank \in [Node -> Int] : Ranks(rank)
  BY DEF ShownStore, HeapInv, Ranked
<1>2. /\ n \in Node /\ t[n] = "VIEW" /\ root_index[n] = j /\ j \in Pane
      /\ t_root[j] \in Node /\ n \in Walk(Kids, t_root[j])
  BY PaneViewsOwned, PaneWalks DEF ShownStore, HeapInv, StoreOK, ViewsFrom, NodeOrNull
<1>3. /\ q \in Node /\ s \in Node /\ g \in NodeOrNull /\ NULL \notin Node
  BY <1>2, ConstAssumption DEF ShownStore, StoreOK, Allocated, Sibling, NodeOrNull
<1>4. /\ t[q] = "CONTAINER" /\ {c1[q], c2[q]} = {n, s} /\ s # n /\ p[s] = q /\ n # q
      /\ root_index[q] = j
  BY <1>2, <1>3 DEF ShownStore, HeapInv, TreeLinks, PaneOwnsNodes, Sibling, Allocated
<1>5. /\ rank[q] \in Int /\ rank[s] \in Int /\ rank[n] \in Int
      /\ rank[q] < rank[s] /\ rank[q] < rank[n]
      /\ g # NULL => rank[g] \in Int /\ rank[g] < rank[q]
  BY <1>1, <1>2, <1>3, <1>4 DEF Ranks, NodeOrNull, Allocated
<1>6. s # q /\ g \notin {n, q, s}
  BY <1>3, <1>5, <1>2
<1>7. /\ \A x \in Node : t'[x] = IF x \in {n, q} THEN "FREE" ELSE t[x]
      /\ \A x \in Node : c1'[x] = IF x \in {n, q} THEN NULL
                                  ELSE IF x = g /\ c1[g] = q THEN s ELSE c1[x]
      /\ \A x \in Node : c2'[x] = IF x \in {n, q} THEN NULL
                                  ELSE IF x = g /\ c1[g] # q /\ c2[g] = q THEN s ELSE c2[x]
      /\ \A i \in Pane : t_root'[i] = IF g = NULL /\ i = j THEN s ELSE t_root[i]
      /\ fds' = fds \ {n}
  <2>1. refcnt[n] = 1
    BY <1>2 DEF ShownStore, HeapInv, NodesUnshared
  <2>2. StoreOK
    BY DEF ShownStore
  <2> QED BY <1>2, <1>3, <1>6, <2>1, <2>2 DEF Unlink, StoreOK
<1>8. /\ Kids \in [Node -> SUBSET Node] /\ Kids' \in [Node -> SUBSET Node]
      /\ Kids[n] = {} /\ Kids[q] = {n, s}
  BY <1>2, <1>3, <1>4, KidsType, KidsTypeAfter, SMTT(30) DEF ShownStore, HeapInv, TreeLinks, Kids
<1>9. \A y \in Node \ {q} : n \notin Kids[y]
  BY KidsParent DEF ShownStore
<1>10. \A y \in Node \ {n, q} :
          Kids'[y] = IF q \in Kids[y] THEN (Kids[y] \ {q}) \cup {s} ELSE Kids[y]
  <2> SUFFICES ASSUME NEW y \in Node \ {n, q}
               PROVE  Kids'[y] = IF q \in Kids[y] THEN (Kids[y] \ {q}) \cup {s} ELSE Kids[y]
    OBVIOUS
  <2>1. Kids[y] = {c1[y], c2[y]} \ {NULL} /\ Kids'[y] = {c1'[y], c2'[y]} \ {NULL}
    BY DEF Kids
  <2>2. CASE q \in Kids[y]
    <3>1. y = g /\ t[y] = "CONTAINER" /\ c1[y] # c2[y]
      BY <2>2, KidsParent DEF ShownStore, HeapInv, TreeLinks
    <3> QED BY <2>1, <2>2, <3>1, <1>3, <1>7
  <2>3. CASE q \notin Kids[y]
    BY <2>1, <2>3, <1>3, <1>7
  <2> QED BY <2>2, <2>3
<1>11. ASSUME NEW i \in Pane, t_root[i] # NULL
       PROVE  /\ t_root[i] \in Node \ {n} /\ t_root'[i] \in Node
              /\ t_root'[i] = IF t_root[i] = q THEN s ELSE t_root[i]
  <2>1. t_root[i] \in Node /\ p[t_root[i]] = NULL /\ root_index[t_root[i]] = i
    BY <1>11 DEF ShownStore, StoreOK, HeapInv, PaneOwnsNodes, NodeOrNull
  <2>2. t_root[i] = q => g = NULL /\ i = j
    BY <2>1, <1>4
  <2>3. ASSUME g = NULL PROVE t_root[j] = q
    <3>1. q \in Walk(Kids, t_root[j])
      BY <1>2, <1>3, <2>1, ParentReached DEF ShownStore, HeapInv, PaneOwnsNodes
    <3> QED BY <1>2, <2>3, <3>1, OrphanIsRoot DEF ShownStore
  <2> QED BY <1>3, <1>7, <2>1, <2>2, <2>3
<1>12. ASSUME NEW i \in Pane, t_root[i] # NULL
       PROVE  Walk(Kids', t_root'[i]) = Walk(Kids, t_root[i]) \ {n, q}
  <2>1. KidsUnlinked(Kids, Kids', n, q, s)
    BY <1>2, <1>3, <1>4, <1>6, <1>8, <1>9, <1>10 DEF KidsUnlinked
  <2>2. t_root[i] \in Node \ {n} /\ t_root'[i] = IF t_root[i] = q THEN s ELSE t_root[i]
    BY <1>11, <1>12
  <2> QED BY <2>1, <2>2, UnlinkWalk
<1>13. \A i \in Pane : PaneViews(i)' = PaneViews(i) \ {n}
  <2> SUFFICES ASSUME NEW i \in Pane PROVE PaneViews(i)' = PaneViews(i) \ {n}
    OBVIOUS
  <2>1. CASE t_root[i] = NULL
    BY <2>1, <1>2, <1>3, <1>7, PaneWalks, PaneWalksAfter DEF ViewsFrom
  <2>2. CASE t_root[i] # NULL
    <3>1. t_root'[i] # NULL
      BY <2>2, <1>3, <1>11
    <3>2. PaneViews(i) = {v \in Walk(Kids, t_root[i]) : t[v] = "VIEW"}
      BY <2>2, PaneWalks DEF ViewsFrom
    <3>3. PaneViews(i)' = {v \in Walk(Kids, t_root[i]) \ {n, q} : t'[v] = "VIEW"}
      BY <2>2, <3>1, <1>12, PaneWalksAfter DEF ViewsFrom
    <3>4. Walk(Kids, t_root[i]) \subseteq Node
      BY DEF Walk
    <3> QED BY <3>2, <3>3, <3>4, <1>4, <1>7
  <2> QED BY <2>1, <2>2
<1>14. InputShown'
  BY <1>2, <1>7, <1>13 DEF ShownStore, ShownInv, InputShown
<1>15. FocusShown'
  <2> SUFFICES ASSUME NEW i \in Pane, t_root'[i] # NULL
               PROVE  t_focused'[i] \in PaneViews(i)'
    BY DEF FocusShown
  <2>1. t_root[i] # NULL /\ t_focused[i] \in PaneViews(i)
    BY <1>2, <1>3, <1>7 DEF ShownStore, ShownInv, FocusShown
  <2>2. CASE i # j
    <3>1. t_focused'[i] = t_focused[i]
      BY <2>2, <1>2 DEF Unlink, ShownStore, StoreOK
    <3>2. t_focused[i] # n
      BY <2>1, <2>2, <1>2, PaneViewsOwned DEF ShownStore, HeapInv
    <3> QED BY <2>1, <3>1, <3>2, <1>13
  <2>3. CASE i = j /\ Focused # n
    <3>1. t_focused'[i] = t_focused[i] /\ t_focused[i] # n
      BY <2>3 DEF Unlink, Focused
    <3> QED BY <2>1, <3>1, <1>13
  <2>4. CASE i = j /\ Focused = n
    <3>1. PICK v \in FirstView(s) : t_focused' = [t_focused EXCEPT ![j] = v]
      BY <2>4 DEF Unlink
    <3>2. v = s \/ (p[v] \in Node /\ rank[p[v]] >= rank[s])
      BY <1>1, <1>3, <3>1, FirstViewBelow DEF ShownStore, HeapInv
    <3>3. v # n
      BY <3>2, <1>4, <1>5
    <3>4. s \in Walk(Kids, t_root[j])
      <4>1. n # t_root[j]
        BY <1>2, <1>11, <2>1, <2>4
      <4>2. q \in Walk(Kids, t_root[j])
        BY <4>1, <1>2, ParentReached DEF ShownStore
      <4> QED BY <4>2, <1>2, <1>8, WalkClosed
    <3>5. v \in PaneViews(j)
      BY <1>2, <1>3, <3>1, <3>4, FirstViewReached, PaneWalks DEF ShownStore, ViewsFrom
    <3>6. t_focused'[i] = v
      BY <2>4, <3>1, <1>2 DEF ShownStore, StoreOK
    <3> QED BY <2>4, <3>3, <3>5, <3>6, <1>13
  <2> QED BY <2>2, <2>3, <2>4
<1>16. \A i \in Pane : t_root'[i] = NULL <=> t_root[i] = NULL
  BY <1>2, <1>3, <1>7
<1> QED BY <1>13, <1>14, <1>15, <1>16 DEF ShownInv

(* The container c takes the place of n, and the pane shows v as well. *)
LEMMA SplitWithShown ==
    ASSUME ShownStore, StoreOK', NEW n \in PaneViews(t_root_index),
           NEW v \in Node, NEW c \in Node, SplitWith(n, v, c)
    PROVE  /\ ShownInv'
           /\ \A i \in Pane :
                /\ t_root'[i] = NULL <=> t_root[i] = NULL
                /\ PaneViews(i)' = IF i = t_root_index THEN PaneViews(i) \cup {v}
                                                      ELSE PaneViews(i)
<1> DEFINE g == p[n]
           j == t_root_index
<1>1. /\ n \in Node /\ t[n] = "VIEW" /\ root_index[n] = j /\ j \in Pane
      /\ t_root[j] \in Node /\ n \in Walk(Kids, t_root[j]) /\ g \in NodeOrNull
      /\ NULL \notin Node
  BY PaneViewsOwned, PaneWalks, ConstAssumption
     DEF ShownStore, HeapInv, StoreOK, ViewsFrom, NodeOrNull
<1>2. /\ v # c /\ t[v] = "FREE" /\ t[c] = "FREE" /\ n \notin {v, c}
      /\ p[v] = NULL /\ c1[v] = NULL /\ c2[v] = NULL
      /\ p[c] = NULL /\ c1[c] = NULL /\ c2[c] = NULL
  BY <1>1 DEF SplitWith, ShownStore, HeapInv, NodesUnshared
<1>3. g \notin {v, c, n} /\ (g # NULL => g \in Node /\ t[g] = "CONTAINER")
  BY <1>1, <1>2 DEF ShownStore, HeapInv, TreeLinks, NodeOrNull
<1>4. /\ \A x \in Node : t'[x] = IF x = v THEN "VIEW" ELSE IF x = c THEN "CONTAINER" ELSE t[x]
      /\ \A x \in Node : c1'[x] = IF x = c THEN n
                                  ELSE IF x = g /\ c1[g] = n THEN c ELSE c1[x]
      /\ \A x \in Node : c2'[x] = IF x = c THEN v
                                  ELSE IF x = g /\ c1[g] # n /\ c2[g] = n THEN c ELSE c2[x]
      /\ \A i \in Pane : t_root'[i] = IF g = NULL /\ i = j THEN c ELSE t_root[i]
      /\ \A i \in Pane : t_focused'[i] = IF i = j THEN v ELSE t_focused[i]
      /\ fds' = fds \cup {v}
  <2>1. StoreOK
    BY DEF ShownStore
  <2> QED BY <1>1, <1>2, <1>3, <2>1 DEF SplitWith, StoreOK
<1>5. KidsSplit(Kids, Kids', n, v, c)
  <2>1. /\ Kids \in [Node -> SUBSET Node] /\ Kids' \in [Node -> SUBSET Node]
        /\ Kids[v] = {} /\ Kids[c] = {} /\ Kids'[v] = {} /\ Kids'[c] = {n, v}
    BY <1>1, <1>2, <1>3, <1>4, KidsType, KidsTypeAfter DEF ShownStore, Kids
  <2>2. \A y \in Node : v \notin Kids[y] /\ c \notin Kids[y]
    BY <1>2, KidsParent DEF ShownStore
  <2>3. ASSUME NEW y \in Node \ {v, c}
        PROVE  Kids'[y] = IF n \in Kids[y] THEN (Kids[y] \ {n}) \cup {c} ELSE Kids[y]
    <3>1. Kids[y] = {c1[y], c2[y]} \ {NULL} /\ Kids'[y] = {c1'[y], c2'[y]} \ {NULL}
      BY DEF Kids
    <3>2. CASE n \in Kids[y]
      <4>1. y = g /\ t[y] = "CONTAINER" /\ c1[y] # c2[y]
        BY <3>2, KidsParent DEF ShownStore, HeapInv, TreeLinks
      <4> QED BY <3>1, <3>2, <4>1, <1>1, <1>4
    <3>3. CASE n \notin Kids[y]
      BY <3>1, <3>3, <1>1, <1>4
    <3> QED BY <3>2, <3>3
  <2> QED BY <2>1, <2>2, <2>3, <1>1, <1>2 DEF KidsSplit
<1>6. ASSUME NEW i \in Pane, t_root[i] # NULL
      PROVE  /\ t_root[i] \in Node \ {v, c} /\ t_root'[i] \in Node
             /\ t_root'[i] = IF t_root[i] = n THEN c ELSE t_root[i]
  <2>1. /\ t_root[i] \in Node /\ t[t_root[i]] # "FREE"
        /\ p[t_root[i]] = NULL /\ root_index[t_root[i]] = i
    BY <1>6 DEF ShownStore, StoreOK, HeapInv, NoDangling, PaneOwnsNodes, Allocated, NodeOrNull
  <2>2. t_root[i] = n => g = NULL /\ i = j
    BY <2>1, <1>1
  <2>3. g = NULL => t_root[j] = n
    BY <1>1, OrphanIsRoot DEF ShownStore
  <2> QED BY <1>2, <1>4, <2>1, <2>2, <2>3
<1>7. ASSUME NEW i \in Pane, t_root[i] # NULL
      PROVE  Walk(Kids', t_root'[i])
                 = IF i = j THEN Walk(Kids, t_root[i]) \cup {v, c} ELSE Walk(Kids, t_root[i])
  <2>1. n \in Walk(Kids, t_root[i]) <=> i = j
    BY <1>1, <1>7, TreeOwned DEF ShownStore
  <2> QED BY <1>5, <1>6, <1>7, <2>1, SplitWalk
<1>8. \A i \in Pane : PaneViews(i)' = IF i = j THEN PaneViews(i) \cup {v} ELSE PaneViews(i)
  <2> SUFFICES ASSUME NEW i \in Pane
               PROVE  PaneViews(i)' = IF i = j THEN PaneViews(i) \cup {v} ELSE PaneViews(i)
    OBVIOUS
  <2>1. CASE t_root[i] = NULL
    BY <2>1, <1>1, <1>4, PaneWalks, PaneWalksAfter DEF ViewsFrom
  <2>2. CASE t_root[i] # NULL
    <3>1. t_root'[i] # NULL
      BY <2>2, <1>1, <1>6
    <3>2. PaneViews(i) = {x \in Walk(Kids, t_root[i]) : t[x] = "VIEW"}
      BY <2>2, PaneWalks DEF ViewsFrom
    <3>3. PaneViews(i)' = {x \in Walk(Kids', t_root'[i]) : t'[x] = "VIEW"}
      BY <3>1, PaneWalksAfter DEF ViewsFrom
    <3>4. \A x \in Walk(Kids, t_root[i]) : x \in Node /\ x \notin {v, c}
      BY <2>2, <1>2, TreeOwned DEF ShownStore
    <3> DEFINE W == Walk(Kids, t_root[i])
    <3>5. \A x \in W : t'[x] = t[x]
      BY <3>4, <1>4
    <3>6. t'[v] = "VIEW" /\ t'[c] = "CONTAINER"
      BY <1>2, <1>4
    <3>7. Walk(Kids', t_root'[i]) = IF i = j THEN W \cup {v, c} ELSE W
      BY <2>2, <1>7
    <3> HIDE DEF W
    <3>8. {x \in W \cup {v, c} : t'[x] = "VIEW"} = {x \in W : t[x] = "VIEW"} \cup {v}
      BY <3>5, <3>6
    <3>9. {x \in W : t'[x] = "VIEW"} = {x \in W : t[x] = "VIEW"}
      BY <3>5
    <3> QED BY <3>2, <3>3, <3>7, <3>8, <3>9 DEF W
  <2> QED BY <2>1, <2>2
<1>9. FocusShown'
  BY <1>1, <1>4, <1>8 DEF ShownStore, ShownInv, FocusShown
<1>10. InputShown'
  BY <1>1, <1>4, <1>8 DEF ShownStore, ShownInv, InputShown
<1>11. \A i \in Pane : t_root'[i] = NULL <=> t_root[i] = NULL
  BY <1>1, <1>4
<1> QED BY <1>8, <1>9, <1>10, <1>11 DEF ShownInv

LEMMA DeleteShown ==
    ASSUME ShownStore, StoreOK', NEW n \in PaneViews(t_root_index), deletenode(n)
    PROVE  ShownInv'
<1>1. n \in Node /\ t[n] = "VIEW" /\ t_root_index \in Pane
  BY PaneViewsOwned DEF ShownStore, StoreOK, HeapInv
<1>2. type[n] # "EXPANDROOT"
  BY <1>1 DEF ShownStore, HeapInv, NodesUnshared
<1>3. CASE UNCHANGED <<storeVars, status>>
  BY <1>3, ShownUnchanged DEF ShownStore, storeVars, ioVars
<1>4. CASE IsLoneRoot(n) /\ DeleteRoot(n)
  BY <1>4, DeleteRootShown
<1>5. CASE DeleteChild(n)
  BY <1>5, UnlinkShown, CrashShown DEF DeleteChild, ShownStore
<1> QED BY <1>2, <1>3, <1>4, <1>5 DEF deletenode

LEMMA SplitShown ==
    ASSUME ShownStore, StoreOK', NEW n \in PaneViews(t_root_index), split(n)
    PROVE  ShownInv'
<1>1. CASE UNCHANGED <<storeVars, status>>
  BY <1>1, ShownUnchanged DEF ShownStore, storeVars, ioVars
<1>2. CASE SplitFails(n)
  <2>1. Kids' = Kids
    BY <1>2 DEF Kids, SplitFails
  <2> QED BY <1>2, <2>1, ShownFrame DEF ShownStore, SplitFails, slotVars, focusVars, ioVars
<1>3. CASE Crash
  BY <1>3, CrashShown DEF ShownStore
<1> QED BY <1>1, <1>2, <1>3, SplitWithShown DEF split

LEMMA SwapShown ==
    ASSUME ShownStore, NEW n \in Node, swapnode(n)
    PROVE  ShownInv'
<1>1. CASE Crash
  BY <1>1, CrashShown DEF ShownStore
<1>2. CASE Allocated(p[n]) /\ ~Crash
  <2>1. p[n] \in Node
    BY <1>2 DEF ShownStore, StoreOK, Allocated, NodeOrNull
  <2>2. \A x \in Node : {c1'[x], c2'[x]} = {c1[x], c2[x]}
    BY <1>2, <2>1 DEF swapnode, ShownStore, StoreOK
  <2>3. Kids' = Kids
    BY <2>2 DEF Kids
  <2>4. t' = t /\ t_root' = t_root /\ fds' = fds /\ t_focused' = t_focused
    BY <1>2 DEF swapnode, slotVars, focusVars, ioVars
  <2> QED BY <2>3, <2>4, ShownFrame DEF ShownStore
<1> QED BY <1>1, <1>2 DEF swapnode

LEMMA CommandShown ==
    ASSUME ShownStore, StoreOK', CoreCommands, "MOVE_OTHER" \notin Commands,
           NEW n \in PaneViews(t_root_index), Command(n)
    PROVE  ShownInv'
<1>0. n \in Node /\ t_root_index \in Pane /\ ShownInv /\ StoreOK
  BY WalkInNode DEF ShownStore, StoreOK
<1>1. CASE Crash
  BY <1>0, <1>1, CrashShown
<1>2. CASE UNCHANGED storeVars
  BY <1>0, <1>2, ShownUnchanged DEF storeVars, ioVars
<1>3. CASE \E kind : Request(kind)
  BY <1>0, <1>3, ShownUnchanged DEF Request, ioVars
<1>4. CASE MoveFocus
  <2>1. ASSUME NEW v \in PaneViews(t_root_index), FocusOnly(v) PROVE ShownInv'
    BY <1>0, <2>1, FocusViewShown DEF FocusOnly, ioVars
  <2> QED BY <1>1, <1>2, <1>4, <2>1 DEF MoveFocus
<1>5. CASE split(n)                         BY <1>5, SplitShown
<1>6. CASE deletenode(n)                    BY <1>6, DeleteShown
<1>7. CASE swapnode(n)                      BY <1>0, <1>7, SwapShown
<1> QED
  BY <1>1, <1>2, <1>3, <1>4, <1>5, <1>6, <1>7
     DEF Command, CoreCommands, WindowLabel, Reshape, Quit

-----------------------------------------------------------------------------
(* The pane changes. *)

(* A pane whose slot was free shows exactly its new views; the others show  *)
(* what they showed.                                                        *)
LEMMA OpenedShown ==
    ASSUME ShownStore, NEW i \in Pane, NEW new \in SUBSET Node, t_root[i] = NULL,
           PaneViews(i)' = new, t_focused'[i] \in new,
           \A j \in Pane \ {i} : PaneViews(j)' = PaneViews(j) /\ t_root'[j] = t_root[j]
                                 /\ t_focused'[j] = t_focused[j],
           fds' = fds \cup new
    PROVE  ShownInv'
<1>1. PaneViews(i) = {}
  BY DEF PaneViews
<1>2. FocusShown'
  BY DEF ShownStore, ShownInv, FocusShown
<1>3. InputShown'
  BY <1>1 DEF ShownStore, ShownInv, InputShown
<1> QED BY <1>2, <1>3 DEF ShownInv

LEMMA NewRootShown ==
    ASSUME ShownStore, NEW i \in Pane, t_root[i] = NULL, NEW v \in Node,
           NEW kind, NewRoot(i, v, kind)
    PROVE  /\ ShownInv'
           /\ \A j \in Pane : PaneViews(j)' = IF j = i THEN {v} ELSE PaneViews(j)
<1>1. /\ t[v] = "FREE" /\ UNCHANGED <<c1, c2>> /\ fds' = fds \cup {v}
      /\ \A x \in Node : t'[x] = IF x = v THEN "VIEW" ELSE t[x]
      /\ \A j \in Pane : t_root'[j] = IF j = i THEN v ELSE t_root[j]
      /\ \A j \in Pane : t_focused'[j] = IF j = i THEN v ELSE t_focused[j]
  BY DEF NewRoot, focus, ShownStore, StoreOK
<1>2. Kids' = Kids /\ Kids[v] = {} /\ NULL \notin Node
  BY <1>1, ConstAssumption DEF Kids, ShownStore, HeapInv, NodesUnshared
<1>3. Walk(Kids, v) = {v}
  BY <1>2, KidsType, WalkLeaf DEF ShownStore
<1>4. PaneViews(i)' = {v}
  <2>1. PaneViews(i)' = {x \in Walk(Kids, v) : t'[x] = "VIEW"}
    BY <1>1, <1>2, PaneWalksAfter DEF ViewsFrom
  <2> QED BY <2>1, <1>1, <1>3
<1>5. ASSUME NEW j \in Pane \ {i} PROVE PaneViews(j)' = PaneViews(j)
  <2>1. CASE t_root[j] = NULL
    BY <2>1, <1>1, PaneWalks, PaneWalksAfter DEF ViewsFrom
  <2>2. CASE t_root[j] # NULL
    <3>1. \A x \in Walk(Kids, t_root[j]) : x \in Node /\ x # v
      BY <2>2, <1>1, TreeOwned DEF ShownStore
    <3>2. PaneViews(j) = {x \in Walk(Kids, t_root[j]) : t[x] = "VIEW"}
      BY <2>2, PaneWalks DEF ViewsFrom
    <3>3. PaneViews(j)' = {x \in Walk(Kids, t_root[j]) : t'[x] = "VIEW"}
      BY <2>2, <1>1, <1>2, PaneWalksAfter DEF ViewsFrom
    <3> QED BY <3>1, <3>2, <3>3, <1>1
  <2> QED BY <2>1, <2>2
<1> QED BY <1>1, <1>4, <1>5, OpenedShown

LEMMA RestoredRootShown ==
    ASSUME ShownStore, StoreOK', NEW i \in Pane, t_root[i] = NULL,
           NEW v \in Node, NEW w \in Node, NEW c \in Node, RestoredRoot(i, v, w, c)
    PROVE  /\ ShownInv'
           /\ \A j \in Pane : PaneViews(j)' = IF j = i THEN {v, w} ELSE PaneViews(j)
<1>0. v # w /\ v # c /\ w # c
  BY DEF RestoredRoot
<1>1. /\ \A x \in {v, w, c} : t[x] = "FREE" /\ c1[x] = NULL /\ c2[x] = NULL
      /\ \A x \in Node : t'[x] = IF x \in {v, w} THEN "VIEW"
                                 ELSE IF x = c THEN "CONTAINER" ELSE t[x]
      /\ \A x \in Node : c1'[x] = IF x = c THEN v ELSE c1[x]
      /\ \A x \in Node : c2'[x] = IF x = c THEN w ELSE c2[x]
      /\ \A j \in Pane : t_root'[j] = IF j = i THEN c ELSE t_root[j]
      /\ \A j \in Pane : t_focused'[j] = IF j = i THEN v ELSE t_focused[j]
      /\ fds' = fds \cup {v, w} /\ NULL \notin Node
  BY <1>0, ConstAssumption DEF RestoredRoot, ShownStore, StoreOK, HeapInv, NodesUnshared
<1>2. KidsSown(Kids, Kids', v, w, c)
  <2>1. /\ Kids \in [Node -> SUBSET Node] /\ Kids' \in [Node -> SUBSET Node]
        /\ Kids[v] = {} /\ Kids[w] = {} /\ Kids'[c] = {v, w}
        /\ \A y \in Node \ {c} : Kids'[y] = Kids[y]
    BY <1>1, KidsType, KidsTypeAfter DEF ShownStore, Kids
  <2>2. \A y \in Node : c \notin Kids[y]
    BY <1>1, KidsParent DEF ShownStore
  <2> QED BY <1>0, <2>1, <2>2 DEF KidsSown
<1>3. PaneViews(i)' = {v, w}
  <2>1. PaneViews(i)' = {x \in Walk(Kids', c) : t'[x] = "VIEW"}
    BY <1>1, PaneWalksAfter DEF ViewsFrom
  <2>2. Walk(Kids', c) = {v, w, c}
    BY <1>2, RestoredWalk
  <2> QED BY <2>1, <2>2, <1>0, <1>1
<1>4. ASSUME NEW j \in Pane \ {i} PROVE PaneViews(j)' = PaneViews(j)
  <2>1. CASE t_root[j] = NULL
    BY <2>1, <1>1, PaneWalks, PaneWalksAfter DEF ViewsFrom
  <2>2. CASE t_root[j] # NULL
    <3>1. \A x \in Walk(Kids, t_root[j]) : x \in Node /\ x \notin {v, w, c}
      BY <2>2, <1>1, TreeOwned DEF ShownStore
    <3>2. t_root[j] \in Node \ {c}
      BY <2>2, <1>1 DEF ShownStore, StoreOK, HeapInv, NoDangling, Allocated, NodeOrNull
    <3>3. PaneViews(j) = {x \in Walk(Kids, t_root[j]) : t[x] = "VIEW"}
      BY <2>2, PaneWalks DEF ViewsFrom
    <3>4. PaneViews(j)' = {x \in Walk(Kids', t_root[j]) : t'[x] = "VIEW"}
      BY <2>2, <1>1, PaneWalksAfter DEF ViewsFrom
    <3>5. Walk(Kids', t_root[j]) = Walk(Kids, t_root[j])
      BY <3>2, <1>2, RestoredWalk
    <3> QED BY <3>1, <3>3, <3>4, <3>5, <1>1
  <2> QED BY <2>1, <2>2
<1> QED BY <1>1, <1>3, <1>4, OpenedShown

LEMMA StayShown == ASSUME ShownInv, StayOnPane PROVE ShownInv'
BY CrashShown, ShownUnchanged DEF StayOnPane, ioVars

LEMMA NewPaneShown == ASSUME ShownStore, StoreOK', NewPane PROVE ShownInv'
<1>1. ShownInv
  BY DEF ShownStore
<1>2. CASE StayOnPane
  BY <1>1, <1>2, StayShown
<1>3. \A i \in Pane : FreeSlot(i) => t_root[i] = NULL
  BY DEF FreeSlot, Enabled, IsLeast, ShownStore, SlotInv, EnableAgrees
<1>4. ASSUME NEW i \in Pane, FreeSlot(i), NewPaneFails(i) PROVE ShownInv'
  <2>1. CASE Crash
    BY <1>1, <2>1, CrashShown
  <2>2. CASE TreeIntact(t_root_index)
    <3>1. t_root' = t_root
      BY <1>3, <1>4, <2>2 DEF NewPaneFails, ShownStore, StoreOK
    <3>2. Kids' = Kids
      BY <1>4, <2>2 DEF NewPaneFails, heapVars, Kids
    <3> QED BY <1>1, <1>4, <2>2, <3>1, <3>2, ShownFrame
            DEF NewPaneFails, heapVars, focusVars, ioVars
  <2> QED BY <1>4, <2>1, <2>2 DEF NewPaneFails
<1>5. ASSUME NEW i \in Pane, FreeSlot(i), NewPaneOpens(i) PROVE ShownInv'
  BY <1>3, <1>5, NewRootShown, RestoredRootShown DEF NewPaneOpens, Planted
<1> QED BY <1>2, <1>4, <1>5 DEF NewPane

LEMMA EnterShown ==
    ASSUME ShownStore, NEW i \in Pane, EnterPane(i)
    PROVE  ShownInv'
<1>1. CASE Crash
  BY <1>1, CrashShown DEF ShownStore
<1>2. CASE TreeIntact(i) /\ ~Crash
  <2>1. t_focused[i] \in PaneViews(i)
    BY <1>2 DEF TreeIntact, ShownStore, ShownInv, FocusShown
  <2>2. t_focused[i] # NULL
    BY <2>1, WalkInNode, ConstAssumption
  <2>3. focus(i, t_focused[i]) /\ UNCHANGED <<heapVars, slotVars, fds>>
    BY <1>2, <2>2 DEF EnterPane, ioVars
  <2> QED BY <2>1, <2>3, FocusViewShown DEF ShownStore
<1> QED BY <1>1, <1>2 DEF EnterPane

LEMMA RefocusShown == ASSUME ShownStore, RefocusPane PROVE ShownInv'
<1>1. CASE Crash
  BY <1>1, CrashShown DEF ShownStore
<1>2. CASE TreeIntact(t_root_index) /\ ~Crash
  <2>1. t_root_index \in Pane /\ Current \in Node
    BY <1>2 DEF TreeIntact, Current, ShownStore, StoreOK, NodeOrNull
  <2>2. PICK v \in FirstView(Current) : focus(t_root_index, v)
    BY <1>2 DEF RefocusPane
  <2>3. Current \in Walk(Kids, Current)
    BY <2>1, KidsType, WalkClosed DEF ShownStore
  <2>4. v \in PaneViews(t_root_index)
    BY <2>1, <2>2, <2>3, FirstViewReached, PaneWalks, ConstAssumption
       DEF ShownStore, ViewsFrom, Current
  <2>5. UNCHANGED <<heapVars, slotVars, fds>>
    BY <1>2 DEF RefocusPane, ioVars
  <2> QED BY <2>1, <2>2, <2>4, <2>5, FocusViewShown DEF ShownStore
<1> QED BY <1>1, <1>2 DEF RefocusPane

LEMMA SwitchShown == ASSUME ShownStore, StoreOK', Switch PROVE ShownInv'
<1>1. t_root_change # "EXPAND" /\ ShownInv
  BY DEF ShownStore, HeapInv, NodesUnshared
<1> QED BY <1>1, NewPaneShown, EnterShown, RefocusShown, StayShown DEF Switch

-----------------------------------------------------------------------------
LEMMA InputStepShown == ASSUME ShownStore, StoreOK', GetInput PROVE ShownInv'
<1>1. CASE UNCHANGED storeVars
  BY <1>1, ShownUnchanged DEF ShownStore, storeVars, ioVars
<1>2. CASE Crash
  BY <1>2, CrashShown DEF ShownStore
<1>3. ASSUME NEW v \in Closed, deletenode(v) PROVE ShownInv'
  BY <1>3, DeleteShown DEF Closed
<1> QED BY <1>1, <1>2, <1>3 DEF GetInput

(* A key is read only while the current pane has a tree, so the command is  *)
(* given on a view that is shown.                                           *)
LEMMA KeyShown ==
    ASSUME ShownStore, StoreOK', CoreCommands, "MOVE_OTHER" \notin Commands,
           Typeahead = FALSE, Key
    PROVE  ShownInv'
<1>1. CASE Crash
  BY <1>1, CrashShown DEF ShownStore
<1>2. CASE Command(Focused)
  <2>1. Current # NULL /\ t_root_index \in Pane
    BY DEF Key, ShownStore, SlotInv, CurrentShown, StoreOK
  <2>2. Focused \in PaneViews(t_root_index)
    BY <2>1 DEF ShownStore, ShownInv, FocusShown, Focused, Current
  <2> QED BY <1>2, <2>2, CommandShown
<1> QED BY <1>1, <1>2 DEF Key

(* The inductive invariant behind the two theorems below. *)
LEMMA ShownAlways ==
    ASSUME CoreCommands, "MOVE_OTHER" \notin Commands, Typeahead = FALSE
    PROVE  Spec => [](TypeOK /\ ShownInv)
<1>1. Init => ShownInv
  <2> SUFFICES ASSUME Init PROVE ShownInv
    OBVIOUS
  <2>1. PICK v \in Node :
      /\ t = [n \in Node |-> IF n = v THEN "VIEW" ELSE "FREE"]
      /\ c1 = [n \in Node |-> NULL] /\ c2 = [n \in Node |-> NULL]
      /\ t_root = [i \in Pane |-> IF i = 0 THEN v ELSE NULL]
      /\ t_focused = [i \in Pane |-> IF i = 0 THEN v ELSE NULL]
      /\ fds = {v}
    BY DEF Init
  <2>2. Kids \in [Node -> SUBSET Node] /\ Kids[v] = {}
    BY <2>1 DEF Kids
  <2>3. Walk(Kids, v) = {v}
    BY <2>2, WalkLeaf
  <2>4. \A i \in Pane : PaneViews(i) = IF i = 0 THEN {v} ELSE {}
    BY <2>1, <2>3, PaneWalks, ConstAssumption DEF ViewsFrom
  <2>5. FocusShown
    BY <2>1, <2>4 DEF FocusShown
  <2>6. InputShown
    BY <2>1, <2>4, ZeroPane DEF InputShown
  <2> QED BY <2>5, <2>6 DEF ShownInv
<1>2. /\ TypeOK /\ HeapInv /\ SlotInv /\ TypeOK' /\ ShownInv /\ [Next]_vars
      => ShownInv'
  <2> SUFFICES ASSUME TypeOK, HeapInv, SlotInv, TypeOK', ShownInv, [Next]_vars
               PROVE  ShownInv'
    OBVIOUS
  <2>0. ShownStore /\ StoreOK'
    BY StoreIsType DEF ShownStore, TypeOK, StoreOK
  <2>1. CASE Select \/ (\E n \in Node : ProgramExit(n)) \/ KeysDone \/ UNCHANGED vars
    BY <2>1, ShownUnchanged DEF Select, ProgramExit, KeysDone, vars, storeVars, ioVars
  <2>2. CASE GetInput
    BY <2>0, <2>2, InputStepShown
  <2>3. CASE Switch
    BY <2>0, <2>3, SwitchShown
  <2>4. CASE Key
    BY <2>0, <2>4, KeyShown
  <2> QED BY <2>1, <2>2, <2>3, <2>4 DEF Next, Loop
<1> QED BY <1>1, <1>2, TypeCorrect, HeapAlways, SlotsAlways, PTL DEF Spec

(* Whatever is split, deleted, swapped, created, restored or entered, with  *)
(* forks that fail and programs that exit at any time, the keyboard goes to *)
(* a view on the screen of its pane (focus, deletenode, split, the switch   *)
(* of main), without the expand and fetch commands and MOVE_OTHER, and with *)
(* no key typed ahead of a pane change.                                     *)
THEOREM FocusCorrect ==
    ASSUME CoreCommands, "MOVE_OTHER" \notin Commands, Typeahead = FALSE
    PROVE  Spec => []FocusShown
<1>1. ShownInv => FocusShown
  BY DEF ShownInv
<1> QED BY <1>1, ShownAlways, PTL

(* Of the same commands: select() waits for exactly the views some pane     *)
(* shows, so no view is deaf, and none that was given up wakes the loop     *)
(* (newview, freenode, root_delete; the descriptor set of run).             *)
THEOREM InputCorrect ==
    ASSUME CoreCommands, "MOVE_OTHER" \notin Commands, Typeahead = FALSE
    PROVE  Spec => []InputFromShown
<1>1. TypeOK /\ ShownInv => InputFromShown
  BY InputIsShown DEF TypeOK, ShownInv
<1> QED BY <1>1, ShownAlways, PTL

(***************************************************************************)
(* The fetch commands: for a user who stays on a pane until a new one is    *)
(* opened, mtm waits in select() with the focus on a view that is shown.    *)
(***************************************************************************)
(* The other commands do leave the focus off the screen.  The parent of a   *)
(* fetched view is in the pane it came from: a split happens there, and so  *)
(* does a fetch onto it, behind the back of a pane that NEXT and PREV (or   *)
(* the deletion of a last view) go back to.  The other view may be the one  *)
(* a fetch replaced; and a swap between a fetch and its undoing leaves a    *)
(* view in two places, of which closing it clears one.                      *)
FetchCommands ==
    /\ Commands \cap {"SPLIT", "DELETE_NODE", "MOVE_OTHER", "NEXT_PANE", "PREV_PANE"} = {}
    /\ Typeahead = FALSE /\ ProgramsExit = FALSE

OnScreen == Focused \in PaneViews(t_root_index)

(* Only a pending FETCH, which the switch answers with a new focus, leaves  *)
(* the focus off the screen; and what EXPAND opens as a pane is a view.     *)
RefocusPending == Running /\ Current # NULL /\ t_root_change # "FETCH" => OnScreen
ExpandsView == t_root_change = "EXPAND" => t_expand_node \in Node /\ t[t_expand_node] = "VIEW"

FetchInv ==
    /\ RefocusPending
    /\ ExpandsView
    /\ Running /\ pc \in {"select", "input"} => t_root_change = "NONE"
    /\ t_root_change \notin {"NEXT", "PREV"}
    /\ exited = {}

(* What a handler keeps of it, wherever the loop stands. *)
HandlerInv ==
    RefocusPending /\ ExpandsView /\ t_root_change \notin {"NEXT", "PREV"} /\ exited = {}

LEMMA OnScreenFrame ==
    ASSUME StoreOK, OnScreen, Kids' = Kids, t' = t, t_root' = t_root,
           t_root_index' = t_root_index, t_focused' = t_focused
    PROVE  OnScreen'
<1>1. t_root_index \in Pane
  BY DEF StoreOK
<1>2. PaneViews(t_root_index) = ViewsFrom(t_root, Kids, t, t_root_index)
  BY <1>1, PaneWalks
<1>3. PaneViews(t_root_index)' = ViewsFrom(t_root', Kids', t', t_root_index')
  BY <1>1, PaneWalksAfter
<1> QED BY <1>2, <1>3 DEF OnScreen, Focused

LEMMA ScreenKept ==
    ASSUME StoreOK, HandlerInv, Kids' = Kids, t' = t, t_root' = t_root,
           t_root_index' = t_root_index, t_focused' = t_focused, exited' = exited,
           Running /\ t_root_change = "FETCH" => t_root_change' = "FETCH" \/ ~Running',
           Running \/ ~Running',
           t_root_change' \notin {"NEXT", "PREV"}, ExpandsView'
    PROVE  HandlerInv'
<1>1. RefocusPending'
  BY OnScreenFrame DEF HandlerInv, RefocusPending, Current
<1> QED BY <1>1 DEF HandlerInv

LEMMA CrashScreen == ASSUME StoreOK, HandlerInv, Crash PROVE HandlerInv'
BY DEF HandlerInv, Crash, storeVars, heapVars, reqVars, ioVars, RefocusPending, ExpandsView,
       Running

LEMMA IdleScreen ==
    ASSUME StoreOK, HandlerInv, UNCHANGED <<storeVars, status>>
    PROVE  HandlerInv'
<1>1. Kids' = Kids
  BY DEF Kids, storeVars, heapVars
<1>2. UNCHANGED <<t, t_root, t_root_index, t_focused, exited, t_root_change, t_expand_node,
                  status>>
  BY DEF storeVars, heapVars, slotVars, focusVars, ioVars, reqVars
<1> QED BY <1>1, <1>2, ScreenKept DEF HandlerInv, ExpandsView, Running

(* The focus moves to a view of the current pane. *)
LEMMA ViewFocused ==
    ASSUME StoreOK, HandlerInv, NEW v \in PaneViews(t_root_index), focus(t_root_index, v),
           UNCHANGED <<heapVars, slotVars, t_root_index, exited, t_expand_node>>,
           t_root_change' \in {t_root_change, "NONE"}
    PROVE  HandlerInv'
<1>1. Kids' = Kids /\ t_root_index \in Pane
  BY DEF Kids, heapVars, StoreOK
<1>2. PaneViews(t_root_index)' = PaneViews(t_root_index)
  BY <1>1, PaneWalks, PaneWalksAfter DEF heapVars, slotVars
<1>3. OnScreen'
  BY <1>1, <1>2 DEF OnScreen, Focused, focus, StoreOK
<1> QED BY <1>3 DEF HandlerInv, RefocusPending, ExpandsView, heapVars

LEMMA RequestScreen ==
    ASSUME StoreOK, HandlerInv, t_root_change = "NONE",
           NEW kind \in {"CREATE", "RESTORE", "TOGGLE_LABEL", "FETCH"}, Request(kind)
    PROVE  HandlerInv'
<1>1. Kids' = Kids
  BY DEF Kids, Request, heapVars
<1>2. UNCHANGED <<t, t_root, t_root_index, t_focused, exited, status>>
      /\ t_root_change' = kind
  BY DEF Request, heapVars, slotVars, focusVars, ioVars
<1> QED BY <1>1, <1>2, ScreenKept DEF ExpandsView, Running

LEMMA SwapScreen ==
    ASSUME StoreOK, HandlerInv, t_root_change = "NONE", NEW n \in Node, swapnode(n)
    PROVE  HandlerInv'
<1>1. CASE Crash
  BY <1>1, CrashScreen
<1>2. CASE Allocated(p[n]) /\ ~Crash
  <2>1. p[n] \in Node
    BY <1>2 DEF StoreOK, Allocated, NodeOrNull
  <2>2. \A x \in Node : {c1'[x], c2'[x]} = {c1[x], c2[x]}
    BY <1>2, <2>1 DEF swapnode, StoreOK
  <2>3. Kids' = Kids
    BY <2>2 DEF Kids
  <2>4. UNCHANGED <<t, t_root, t_root_index, t_focused, exited, status>>
        /\ t_root_change' = "SWAP"
    BY <1>2 DEF swapnode, slotVars, focusVars, ioVars
  <2> QED BY <2>3, <2>4, ScreenKept DEF ExpandsView, Running
<1> QED BY <1>1, <1>2 DEF swapnode

LEMMA ExpandScreen ==
    ASSUME StoreOK, HandlerInv, t_root_change = "NONE",
           NEW n \in PaneViews(t_root_index), expandnode(n)
    PROVE  HandlerInv'
<1>1. Kids' = Kids
  BY DEF Kids, expandnode
<1>2. UNCHANGED <<t, t_root, t_root_index, t_focused, exited, status>>
      /\ t_root_change' = "EXPAND" /\ t_expand_node' = n
  BY DEF expandnode, slotVars, focusVars, ioVars
<1>3. n \in Node /\ t[n] = "VIEW"
  BY WalkInNode DEF PaneViews
<1> QED BY <1>1, <1>2, <1>3, ScreenKept DEF ExpandsView, Running

(* A fetch and its undoing put another view where the focus is, and ask for *)
(* the refocus.                                                             *)
LEMMA FetchScreen ==
    ASSUME StoreOK, HandlerInv, NEW n \in Node, fetchnode(n) \/ unfetchnode(n)
    PROVE  HandlerInv'
<1>1. CASE Crash
  BY <1>1, CrashScreen
<1>2. CASE UNCHANGED <<storeVars, status>>
  BY <1>2, IdleScreen
<1>3. CASE t_root_change' = "FETCH" /\ exited' = exited
  BY <1>3 DEF HandlerInv, RefocusPending, ExpandsView
<1> QED BY <1>1, <1>2, <1>3 DEF fetchnode, unfetchnode, Request, ioVars

LEMMA CommandScreen ==
    ASSUME StoreOK, HandlerInv, FetchCommands, t_root_change = "NONE",
           NEW n \in PaneViews(t_root_index), Command(n)
    PROVE  HandlerInv'
<1>0. n \in Node
  BY WalkInNode
<1>1. CASE Crash
  BY <1>1, CrashScreen
<1>2. CASE UNCHANGED <<storeVars, status>>
  BY <1>2, IdleScreen
<1>3. CASE \E kind \in {"CREATE", "RESTORE", "TOGGLE_LABEL", "FETCH"} : Request(kind)
  BY <1>3, RequestScreen
<1>4. CASE MoveFocus
  <2>1. ASSUME NEW v \in PaneViews(t_root_index), FocusOnly(v) PROVE HandlerInv'
    BY <2>1, ViewFocused DEF FocusOnly, ioVars, reqVars
  <2> QED BY <1>1, <1>2, <1>4, <2>1 DEF MoveFocus
<1>5. CASE swapnode(n)
  BY <1>0, <1>5, SwapScreen
<1>6. CASE pushnode(n)
  <2>1. Kids' = Kids
    BY <1>6 DEF Kids, pushnode, heapVars
  <2>2. UNCHANGED <<t, t_root, t_root_index, t_focused, exited, t_root_change,
                    t_expand_node, status>>
    BY <1>6 DEF pushnode, heapVars, slotVars, focusVars, ioVars, reqVars
  <2> QED BY <2>1, <2>2, ScreenKept DEF HandlerInv, ExpandsView, Running
<1>7. CASE fetchnode(n) \/ unfetchnode(n)
  BY <1>0, <1>7, FetchScreen
<1>8. CASE expandnode(n)
  BY <1>8, ExpandScreen
<1>9. CASE Quit
  BY <1>9 DEF Quit, HandlerInv, storeVars, heapVars, reqVars, ioVars, RefocusPending,
              ExpandsView, Running
<1> QED
  BY <1>1, <1>2, <1>3, <1>4, <1>5, <1>6, <1>7, <1>8, <1>9
     DEF Command, FetchCommands, WindowLabel, Reshape

-----------------------------------------------------------------------------
(* The switches. *)

(* A pane opens with the focus on its root or on a child of its root. *)
LEMMA OpenedOnScreen ==
    ASSUME StoreOK', NEW i \in Pane, t_root_index' = i, NEW r \in Node, t_root'[i] = r,
           NEW v \in Node, t_focused'[i] = v, t'[v] = "VIEW", v = r \/ v \in Kids'[r]
    PROVE  OnScreen'
<1>1. r \in Walk(Kids', r) /\ Kids'[r] \subseteq Walk(Kids', r)
  BY KidsTypeAfter, WalkClosed
<1>2. v \in ViewsFrom(t_root', Kids', t', i)
  BY <1>1, ConstAssumption DEF ViewsFrom
<1>3. PaneViews(i)' = ViewsFrom(t_root', Kids', t', i)
  BY PaneWalksAfter
<1> QED BY <1>2, <1>3 DEF OnScreen, Focused

LEMMA StayScreen ==
    ASSUME StoreOK, HandlerInv, t_root_change # "FETCH", StayOnPane
    PROVE  HandlerInv' /\ (Running' => t_root_change' = "NONE")
<1>1. CASE Crash
  BY <1>1, CrashScreen DEF Crash, Running
<1>2. CASE TreeIntact(t_root_index) /\ ~Crash
  <2>1. Kids' = Kids
    BY <1>2 DEF Kids, StayOnPane, heapVars
  <2>2. UNCHANGED <<t, t_root, t_root_index, t_focused, exited, status>>
        /\ t_root_change' = "NONE"
    BY <1>2 DEF StayOnPane, heapVars, slotVars, focusVars, ioVars
  <2> QED BY <2>1, <2>2, ScreenKept DEF ExpandsView, Running
<1> QED BY <1>1, <1>2 DEF StayOnPane

LEMMA NewPaneScreen ==
    ASSUME StoreOK, StoreOK', SlotInv, HandlerInv, t_root_change # "FETCH", NewPane
    PROVE  HandlerInv' /\ (Running' => t_root_change' = "NONE")
<1>1. CASE StayOnPane
  BY <1>1, StayScreen
<1>2. ASSUME NEW i \in Pane, FreeSlot(i), NewPaneFails(i)
      PROVE  HandlerInv' /\ (Running' => t_root_change' = "NONE")
  <2>1. CASE Crash
    BY <2>1, CrashScreen DEF Crash, Running
  <2>2. CASE TreeIntact(t_root_index) /\ ~Crash
    <3>1. t_root[i] = NULL
      BY <1>2 DEF FreeSlot, Enabled, IsLeast, SlotInv, EnableAgrees
    <3>2. t_root' = t_root
      BY <1>2, <2>2, <3>1 DEF NewPaneFails, StoreOK
    <3>3. Kids' = Kids
      BY <1>2, <2>2 DEF NewPaneFails, heapVars, Kids
    <3>4. UNCHANGED <<t, t_root_index, t_focused, exited, status>> /\ t_root_change' = "NONE"
      BY <1>2, <2>2 DEF NewPaneFails, heapVars, focusVars, ioVars
    <3> QED BY <3>2, <3>3, <3>4, ScreenKept DEF ExpandsView, Running
  <2> QED BY <1>2, <2>1, <2>2 DEF NewPaneFails
<1>3. ASSUME NEW i \in Pane, NewPaneOpens(i)
      PROVE  HandlerInv' /\ (Running' => t_root_change' = "NONE")
  <2>1. t_root_index' = i /\ t_root_change' = "NONE" /\ exited' = exited
    BY <1>3 DEF NewPaneOpens
  <2>2. ASSUME NEW v \in Node, NEW kind, NewRoot(i, v, kind) PROVE OnScreen'
    <3>1. t_root'[i] = v /\ t_focused'[i] = v /\ t'[v] = "VIEW"
      BY <2>2 DEF NewRoot, focus, StoreOK
    <3> QED BY <2>1, <3>1, OpenedOnScreen
  <2>3. ASSUME NEW v \in Node, NEW w \in Node, NEW c \in Node, RestoredRoot(i, v, w, c)
        PROVE  OnScreen'
    <3>1. t_root'[i] = c /\ t_focused'[i] = v /\ t'[v] = "VIEW" /\ c1'[c] = v
      BY <2>3 DEF RestoredRoot, StoreOK
    <3>2. v \in Kids'[c]
      BY <3>1, ConstAssumption DEF Kids
    <3> QED BY <2>1, <3>1, <3>2, OpenedOnScreen
  <2>4. OnScreen'
    BY <1>3, <2>2, <2>3 DEF NewPaneOpens, Planted
  <2> QED BY <2>1, <2>4 DEF HandlerInv, RefocusPending, ExpandsView
<1> QED BY <1>1, <1>2, <1>3 DEF NewPane

LEMMA ExpandPaneScreen ==
    ASSUME StoreOK, StoreOK', HandlerInv, t_root_change = "EXPAND", ExpandPane
    PROVE  HandlerInv' /\ (Running' => t_root_change' = "NONE")
<1>1. CASE StayOnPane
  BY <1>1, StayScreen
<1>2. CASE Crash
  BY <1>2, CrashScreen DEF Crash, Running
<1>3. ASSUME NEW i \in Pane, t_root_index' = i, t_root_change' = "NONE",
             t_root' = [t_root EXCEPT ![i] = t_expand_node], focus(i, t_expand_node),
             t' = t, UNCHANGED ioVars
      PROVE  HandlerInv' /\ (Running' => t_root_change' = "NONE")
  <2>1. t_expand_node \in Node /\ t[t_expand_node] = "VIEW"
    BY DEF HandlerInv, ExpandsView
  <2>2. t_root'[i] = t_expand_node /\ t_focused'[i] = t_expand_node
    BY <1>3 DEF focus, StoreOK
  <2>3. OnScreen'
    BY <1>3, <2>1, <2>2, OpenedOnScreen
  <2> QED BY <1>3, <2>3 DEF HandlerInv, RefocusPending, ExpandsView, ioVars
<1> QED BY <1>1, <1>2, <1>3 DEF ExpandPane

LEMMA RefocusScreen ==
    ASSUME StoreOK, HandlerInv, RefocusPane
    PROVE  HandlerInv' /\ (Running' => t_root_change' = "NONE")
<1>1. CASE Crash
  BY <1>1, CrashScreen DEF Crash, Running
<1>2. CASE TreeIntact(t_root_index) /\ ~Crash
  <2>1. t_root_index \in Pane /\ Current \in Node
    BY <1>2 DEF TreeIntact, Current, StoreOK, NodeOrNull
  <2>2. PICK v \in FirstView(Current) : focus(t_root_index, v)
    BY <1>2 DEF RefocusPane
  <2>3. Current \in Walk(Kids, Current)
    BY <2>1, KidsType, WalkClosed
  <2>4. v \in PaneViews(t_root_index)
    BY <2>1, <2>2, <2>3, FirstViewReached, PaneWalks, ConstAssumption DEF ViewsFrom, Current
  <2>5. UNCHANGED <<heapVars, slotVars, t_root_index, exited, t_expand_node>>
        /\ t_root_change' = "NONE"
    BY <1>2 DEF RefocusPane, ioVars
  <2> QED BY <2>2, <2>4, <2>5, ViewFocused
<1> QED BY <1>1, <1>2 DEF RefocusPane

LEMMA FetchAlways == ASSUME FetchCommands PROVE Spec => []FetchInv
<1>1. Init => FetchInv
  <2> SUFFICES ASSUME Init PROVE FetchInv
    OBVIOUS
  <2>1. PICK v \in Node :
      /\ t = [n \in Node |-> IF n = v THEN "VIEW" ELSE "FREE"]
      /\ t_root = [i \in Pane |-> IF i = 0 THEN v ELSE NULL]
      /\ t_focused = [i \in Pane |-> IF i = 0 THEN v ELSE NULL]
      /\ t_root_index = 0 /\ t_root_change = "NONE" /\ exited = {}
    BY DEF Init
  <2>2. v \in SubTree(v)
    BY DEF SubTree
  <2>3. OnScreen
    BY <2>1, <2>2, ZeroPane, ConstAssumption DEF OnScreen, Focused, PaneViews
  <2> QED BY <2>1, <2>3 DEF FetchInv, RefocusPending, ExpandsView
<1>2. TypeOK /\ TypeOK' /\ SlotInv /\ FetchInv /\ [Next]_vars => FetchInv'
  <2> SUFFICES ASSUME TypeOK, TypeOK', SlotInv, FetchInv, [Next]_vars PROVE FetchInv'
    OBVIOUS
  <2>0. StoreOK /\ StoreOK' /\ HandlerInv
    BY StoreIsType DEF FetchInv, HandlerInv, TypeOK, StoreOK
  <2>1. CASE UNCHANGED vars \/ Select \/ KeysDone
    <3>1. HandlerInv'
      <4>1. Kids' = Kids
        BY <2>1 DEF Kids, vars, heapVars, Select, KeysDone, storeVars
      <4>2. UNCHANGED <<t, t_root, t_root_index, t_focused, exited, t_root_change,
                        t_expand_node, status>>
        BY <2>1 DEF vars, heapVars, slotVars, focusVars, ioVars, reqVars, Select, KeysDone,
                    storeVars
      <4> QED BY <2>0, <4>1, <4>2, ScreenKept DEF HandlerInv, ExpandsView, Running
    <3>2. Running' /\ pc' \in {"select", "input"} => t_root_change' = "NONE"
      BY <2>1 DEF vars, reqVars, Select, KeysDone, storeVars, FetchInv, Running
    <3> QED BY <3>1, <3>2 DEF HandlerInv, FetchInv
  <2>2. CASE \E n \in Node : ProgramExit(n)
    BY <2>2, ConstAssumption DEF ProgramExit, FetchCommands
  <2>3. CASE GetInput
    <3>1. Closed = {}
      BY DEF Closed, FetchInv
    <3>2. Crash \/ UNCHANGED <<storeVars, status>>
      BY <2>3, <3>1 DEF GetInput
    <3>3. HandlerInv'
      BY <2>0, <3>2, CrashScreen, IdleScreen
    <3> QED BY <2>3, <3>3 DEF GetInput, HandlerInv, FetchInv
  <2>4. CASE Switch
    <3>1. HandlerInv' /\ (Running' => t_root_change' = "NONE")
      <4>1. t_root_change \notin {"NEXT", "PREV"}
        BY <2>0 DEF HandlerInv
      <4> QED BY <2>0, <2>4, <4>1, NewPaneScreen, ExpandPaneScreen, RefocusScreen, StayScreen
              DEF Switch
    <3> QED BY <3>1 DEF HandlerInv, FetchInv
  <2>5. CASE Key
    <3>1. Running /\ t_root_change = "NONE" /\ pc = "keys" /\ pc' = "keys"
      BY <2>5 DEF Key, FetchCommands
    <3>2. CASE Crash
      BY <2>0, <3>1, <3>2, CrashScreen DEF Crash, storeVars, ioVars, HandlerInv, FetchInv
    <3>3. CASE Command(Focused)
      <4>1. Focused \in PaneViews(t_root_index)
        BY <3>1 DEF SlotInv, CurrentShown, FetchInv, RefocusPending, OnScreen
      <4>2. HandlerInv'
        BY <2>0, <3>1, <3>3, <4>1, CommandScreen
      <4> QED BY <3>1, <4>2 DEF HandlerInv, FetchInv
    <3> QED BY <2>5, <3>2, <3>3 DEF Key
  <2> QED BY <2>1, <2>2, <2>3, <2>4, <2>5 DEF Next, Loop
<1>3. Typeahead = FALSE
  BY DEF FetchCommands
<1> QED BY <1>1, <1>2, <1>3, TypeCorrect, SlotsAlways, PTL DEF Spec

(* However views are pushed, fetched, given back, expanded and swapped, and *)
(* panes created and restored, with forks that fail: mtm waits in select()  *)
(* with the focus on a view of the current pane (fetchnode takes the        *)
(* focused view out of its tree; main refocuses on FETCH).                  *)
THEOREM FocusRegained ==
    ASSUME FetchCommands
    PROVE  Spec => []FocusShownInSelect
<1>1. FetchInv => FocusShownInSelect
  BY DEF FetchInv, RefocusPending, OnScreen, FocusShownInSelect
<1> QED BY <1>1, FetchAlways, PTL

(***************************************************************************)
(* A session of everyday commands: mtm never follows NULL or a freed node, *)
(* and the code implements the session a user sees - every step of mtm is  *)
(* a step of TerminalSession or leaves the session as it is.               *)
(***************************************************************************)
(* What the proof that nothing crashes assumes: no view is expanded,        *)
(* fetched or swapped, every program starts, and no key is typed ahead of a *)
(* pane change.                                                             *)
Undisturbed ==
    /\ CoreCommands /\ "SWAP_NODE" \notin Commands
    /\ Typeahead = FALSE /\ SpawnMayFail = FALSE

(* A session, besides, in which the user does not go back to the view that  *)
(* had the focus before, which may have been given up.                      *)
Everyday == Undisturbed /\ "MOVE_OTHER" \notin Commands

(* A node without a parent knows it: deletenode tells a lone root by its    *)
(* type, and goes to the parent of any other view.                          *)
RootTyped == \A n \in Node : t[n] # "FREE" /\ p[n] = NULL => type[n] = "ROOT"

(* focus() finds a view below every node.                                   *)
FirstViews == \A n \in Node : t[n] # "FREE" => FirstView(n) # {}

(* The slot of the current pane is empty only on the way to another pane.   *)
NextPending == Running /\ Current = NULL => t_root_change = "NEXT" /\ Enabled # {}

(* A request is pending only between the key that made it and the switch.   *)
LoopOK == pc \in {"select", "input"} => t_root_change = "NONE"

(* A pane with a tree has a focus: a view, though not always of that tree.  *)
FocusSet == \A i \in Pane : t_root[i] # NULL => t_focused[i] # NULL

LiveInv == RootTyped /\ FirstViews /\ NextPending /\ LoopOK /\ NoCrash /\ FocusSet

(* What is known of the store besides. *)
HeapStore == StoreOK /\ HeapInv /\ SlotInv

LEMMA IntactTree ==
    ASSUME HeapStore, NEW i \in Pane, t_root[i] # NULL
    PROVE  TreeIntact(i)
<1>1. SubTree(t_root[i]) = Walk(Kids, t_root[i])
  BY DEF SubTree, Walk, Kids
<1> QED BY <1>1, TreeOwned, ConstAssumption DEF HeapStore, TreeIntact, Allocated

-----------------------------------------------------------------------------
(* What the steps do when they do not crash. *)

Idle == UNCHANGED <<storeVars, status>>

Deletes(n) ==
    \/ IsLoneRoot(n) /\ DeleteRoot(n)
    \/ Allocated(p[n]) /\ Allocated(Sibling(n)) /\ Unlink(n, p[n], Sibling(n), p[p[n]])

Commanded(n) ==
    \/ Idle
    \/ \E v \in PaneViews(t_root_index) : FocusOnly(v)
    \/ "MOVE_OTHER" \in Commands /\ \E v \in Node : t[v] = "VIEW" /\ FocusOnly(v)
    \/ \E v, c \in Node : SplitWith(n, v, c)
    \/ Deletes(n)
    \/ \E kind \in Requests : Request(kind)
    \/ Quit

Stayed ==
    /\ Current # NULL /\ t_root_change' = "NONE"
    /\ UNCHANGED <<heapVars, fetchVars, slotVars, focusVars, ioVars,
                   t_expand_node, t_root_index, status>>

Entered(i) ==
    /\ t_root[i] # NULL
    /\ t_root_index' = i /\ t_root_change' = "NONE"
    /\ focus(i, t_focused[i])
    /\ UNCHANGED <<heapVars, slotVars, ioVars, status>>

Refocused ==
    /\ Current # NULL /\ t_root_change' = "NONE"
    /\ \E v \in FirstView(Current) : focus(t_root_index, v)
    /\ UNCHANGED <<heapVars, slotVars, ioVars, t_root_index, status>>

Opened(i) ==
    /\ t_root[i] = NULL
    /\ \/ \E v \in Node : NewRoot(i, v, "ROOT")
       \/ \E v, w, c \in Node : RestoredRoot(i, v, w, c)
    /\ t_root_enable' = [t_root_enable EXCEPT ![i] = 1]
    /\ t_root_index' = i /\ t_root_change' = "NONE"
    /\ UNCHANGED <<exited, status>>

Switched ==
    Stayed \/ Refocused \/ \E i \in Pane : Entered(i) \/ Opened(i)

LEMMA DeletesRun ==
    ASSUME HeapStore, LiveInv, NEW n \in Node, t[n] = "VIEW", deletenode(n)
    PROVE  Idle \/ Deletes(n)
<1>1. n \in Node /\ t[n] = "VIEW"
  OBVIOUS
<1>2. c1[n] = NULL /\ c2[n] = NULL /\ type[n] # "EXPANDROOT"
  BY <1>1 DEF HeapStore, HeapInv, TreeLinks, NodesUnshared
<1>3. CASE isfetch[n]
  BY <1>2, <1>3 DEF deletenode, Idle
<1>4. CASE ~isfetch[n] /\ IsLoneRoot(n)
  BY <1>2, <1>4 DEF deletenode, Deletes
<1>5. CASE ~isfetch[n] /\ ~IsLoneRoot(n)
  <2>1. p[n] # NULL
    BY <1>1, <1>2, <1>5 DEF LiveInv, RootTyped, IsLoneRoot
  <2>2. p[n] \in Node /\ t[p[n]] = "CONTAINER" /\ Sibling(n) \in Node
        /\ t[Sibling(n)] # "FREE" /\ (p[p[n]] = NULL \/ t[p[p[n]]] # "FREE")
    BY <1>1, <2>1, ConstAssumption
       DEF HeapStore, StoreOK, HeapInv, TreeLinks, NoDangling, Sibling, Allocated, NodeOrNull
  <2>3. /\ Allocated(p[n]) /\ Allocated(Sibling(n)) /\ FirstView(Sibling(n)) # {}
        /\ p[p[n]] = NULL \/ Allocated(p[p[n]])
    BY <2>2, ConstAssumption DEF Allocated, LiveInv, FirstViews
  <2> QED BY <1>2, <1>5, <2>3 DEF deletenode, DeleteChild, Deletes
<1> QED BY <1>3, <1>4, <1>5

LEMMA CommandRuns ==
    ASSUME HeapStore, LiveInv, Undisturbed, Current # NULL,
           NEW n \in Node, t[n] = "VIEW", Command(n)
    PROVE  Commanded(n)
<1>1. t_root_index \in Pane
  BY DEF HeapStore, StoreOK
<1>2. TreeIntact(t_root_index)
  BY <1>1, IntactTree DEF Current
<1>3. CASE MoveFocus
  BY <1>2, <1>3 DEF MoveFocus, Commanded, Idle
<1>4. CASE split(n)
  <2>1. p[n] = NULL \/ Allocated(p[n])
    BY DEF HeapStore, HeapInv, NoDangling
  <2> QED BY <1>4, <2>1 DEF split, SplitFails, Undisturbed, Commanded, Idle
<1>5. CASE deletenode(n)
  BY <1>5, DeletesRun DEF Commanded
<1>6. CASE WindowLabel \/ Reshape \/ Quit
  BY <1>2, <1>6 DEF WindowLabel, Reshape, Commanded, Idle, Requests
<1>7. CASE \E kind \in {"CREATE", "RESTORE", "NEXT", "PREV"} : Request(kind)
  BY <1>7 DEF Commanded, Requests
<1>8. CASE "MOVE_OTHER" \in Commands /\ MoveOther
  <2> DEFINE o == t_lastfocused[t_root_index]
  <2>1. CASE o = NULL
    BY <1>8, <2>1 DEF MoveOther, Commanded, Idle
  <2>2. CASE o # NULL
    <3>1. o \in Node /\ t[o] = "VIEW"
      BY <1>1, <2>2, FocusOwned DEF HeapStore, HeapInv, OwnView
    <3>2. Allocated(o) /\ FirstView(o) # {}
      BY <2>2, <3>1 DEF Allocated, LiveInv, FirstViews
    <3>3. \E v \in Node : t[v] = "VIEW" /\ FocusOnly(v)
      BY <1>8, <2>2, <3>2 DEF MoveOther, FirstView
    <3> QED BY <1>8, <3>3 DEF Commanded
  <2> QED BY <2>1, <2>2
<1> QED
  BY <1>3, <1>4, <1>5, <1>6, <1>7, <1>8 DEF Command, Undisturbed, CoreCommands

LEMMA KeyRuns ==
    ASSUME HeapStore, LiveInv, Undisturbed, Key
    PROVE  Current # NULL /\ Focused \in Node /\ t[Focused] = "VIEW" /\ Commanded(Focused)
<1>1. t_root_index \in Pane /\ Current # NULL
  BY DEF Key, Undisturbed, HeapStore, StoreOK, SlotInv, CurrentShown
<1>2. Focused \in Node /\ t[Focused] = "VIEW"
  BY <1>1, FocusOwned DEF Focused, Current, LiveInv, FocusSet, HeapStore, HeapInv, OwnView
<1>3. Allocated(Focused)
  BY <1>2, ConstAssumption DEF Allocated
<1> QED BY <1>1, <1>2, <1>3, CommandRuns DEF Key

LEMMA InputRuns ==
    ASSUME HeapStore, LiveInv, GetInput
    PROVE  Idle \/ \E v \in Closed : Deletes(v)
<1>1. Current # NULL /\ t_root_index \in Pane
  BY DEF GetInput, LiveInv, LoopOK, HeapStore, StoreOK, SlotInv, CurrentShown
<1>2. TreeIntact(t_root_index)
  BY <1>1, IntactTree DEF Current
<1>3. \A v \in Closed : v \in Node /\ t[v] = "VIEW"
  BY <1>1, PaneViewsOwned DEF Closed, HeapStore, HeapInv
<1> QED BY <1>2, <1>3, DeletesRun DEF GetInput, Idle

LEMMA EnterRuns ==
    ASSUME HeapStore, LiveInv, NEW i \in Pane, t_root[i] # NULL, EnterPane(i)
    PROVE  Entered(i)
<1>1. t_focused[i] # NULL /\ Allocated(t_focused[i])
  BY FocusOwned DEF LiveInv, FocusSet, HeapStore, HeapInv, OwnView, Allocated
<1> QED BY <1>1, IntactTree DEF EnterPane, Entered

LEMMA SwitchRuns ==
    ASSUME HeapStore, LiveInv, Undisturbed, Switch
    PROVE  Switched
<1>1. /\ Running /\ t_root_index \in Pane /\ t_root_change # "EXPAND"
      /\ t_root_change # "NEXT" => TreeIntact(t_root_index) /\ Current # NULL
      /\ \A i \in Pane : i \in Enabled <=> t_root[i] # NULL
  BY IntactTree DEF Switch, LiveInv, NextPending, Current, Enabled,
       HeapStore, StoreOK, HeapInv, NodesUnshared, SlotInv, EnableAgrees
<1>2. ASSUME t_root_change # "NEXT", StayOnPane PROVE Stayed
  BY <1>1, <1>2 DEF StayOnPane, Stayed
<1>3. ASSUME t_root_change \in {"CREATE", "RESTORE"}, NewPane PROVE Switched
  <2>1. ASSUME NEW i \in Pane, FreeSlot(i), NewPaneOpens(i) PROVE Opened(i)
    BY <1>1, <2>1 DEF FreeSlot, IsLeast, NewPaneOpens, Planted, Opened, Undisturbed
  <2> QED BY <1>2, <1>3, <2>1 DEF NewPane, Undisturbed, Switched
<1>4. ASSUME NEW i \in Pane, NextPane(i) \/ PrevPane(i) PROVE i \in Enabled
  <2>1. Enabled # {}
    BY <1>1 DEF LiveInv, NextPending, Current
  <2>2. Above = {} /\ Below = {} => t_root_index \in Enabled
    BY <1>1, <2>1, ConstAssumption DEF Above, Below, Enabled, Pane
  <2> QED BY <1>4, <2>2 DEF NextPane, PrevPane, IsLeast, IsGreatest, Above, Below
<1>5. ASSUME NEW i \in Pane, NextPane(i) \/ PrevPane(i), EnterPane(i) PROVE Entered(i)
  BY <1>1, <1>4, <1>5, EnterRuns
<1>6. ASSUME t_root_change = "FETCH", RefocusPane PROVE Refocused
  <2>1. FirstView(Current) # {}
    BY <1>1, <1>6 DEF Current, HeapStore, StoreOK, HeapInv, NoDangling, Allocated, NodeOrNull,
                      LiveInv, FirstViews
  <2> QED BY <1>1, <1>6, <2>1 DEF RefocusPane, Refocused
<1> QED BY <1>1, <1>2, <1>3, <1>5, <1>6 DEF Switch, Switched

-----------------------------------------------------------------------------
(* The way down. *)

(* focus() goes from a container to its first child. *)
FirstKid == [y \in Node |-> IF t[y] = "CONTAINER" THEN {c1[y]} ELSE {}]

LEMMA FirstKidType ==
    ASSUME StoreOK, TreeLinks
    PROVE  FirstKid \in [Node -> SUBSET Node]
BY DEF FirstKid, TreeLinks

LEMMA FirstKidTypeAfter ==
    ASSUME StoreOK', TreeLinks'
    PROVE  FirstKid' \in [Node -> SUBSET Node]
BY DEF FirstKid, TreeLinks

LEMMA FirstViewWalk ==
    ASSUME TreeLinks, NULL \notin Node
    PROVE  \A n : FirstView(n) = {x \in Walk(FirstKid, n) : t[x] = "VIEW"}
<1>1. ASSUME NEW S \in SUBSET Node, NEW y \in S
      PROVE  ((t[y] = "CONTAINER" /\ FirstChild(y) # NULL) => FirstChild(y) \in S)
                 <=> FirstKid[y] \subseteq S
  BY DEF FirstKid, FirstChild, TreeLinks
<1> QED BY <1>1 DEF FirstView, Walk

LEMMA FirstViewWalkAfter ==
    ASSUME TreeLinks', NULL \notin Node
    PROVE  \A n : FirstView(n)' = {x \in Walk(FirstKid', n) : t'[x] = "VIEW"}
<1>1. ASSUME NEW S \in SUBSET Node, NEW y \in S
      PROVE  ((t'[y] = "CONTAINER" /\ FirstChild(y)' # NULL) => FirstChild(y)' \in S)
                 <=> FirstKid'[y] \subseteq S
  BY DEF FirstKid, FirstChild, TreeLinks
<1> QED BY <1>1 DEF FirstView, Walk

(* With a walk along more children more is reached. *)
LEMMA WalkMore ==
    ASSUME NEW K \in [Node -> SUBSET Node], NEW K2 \in [Node -> SUBSET Node],
           NEW r \in Node, \A y \in Node : K[y] \subseteq K2[y]
    PROVE  Walk(K, r) \subseteq Walk(K2, r)
<1> DEFINE W2 == Walk(K2, r)
<1>1. W2 \in SUBSET Node /\ r \in W2 /\ \A y \in W2 : K2[y] \subseteq W2
  BY WalkClosed
<1> HIDE DEF W2
<1>2. \A y \in W2 : K[y] \subseteq W2
  BY <1>1
<1>3. Walk(K, r) \subseteq W2
  BY <1>1, <1>2, WalkLeast
<1> QED BY <1>3 DEF W2

(* Nodes are added, and only new nodes get other first children: every old  *)
(* node still has its first view.                                           *)
LEMMA FirstViewsGrow ==
    ASSUME StoreOK, StoreOK', TreeLinks, TreeLinks', FirstViews,
           \A x \in Node : t[x] = "VIEW" => t'[x] = "VIEW",
           \A x \in Node : t[x] = "FREE" /\ t'[x] # "FREE" => FirstView(x)' # {},
           \A x \in Node : t[x] # "FREE" => Walk(FirstKid, x) \subseteq Walk(FirstKid', x)
    PROVE  FirstViews'
<1> SUFFICES ASSUME NEW x \in Node, t'[x] # "FREE" PROVE FirstView(x)' # {}
  BY DEF FirstViews
<1>1. CASE t[x] = "FREE"
  BY <1>1
<1>2. CASE t[x] # "FREE"
  <2>1. PICK v \in Walk(FirstKid, x) : t[v] = "VIEW"
    BY <1>2, FirstViewWalk, ConstAssumption DEF FirstViews
  <2>2. v \in Walk(FirstKid', x) /\ t'[v] = "VIEW"
    BY <1>2, <2>1 DEF Walk
  <2> QED BY <2>2, FirstViewWalkAfter, ConstAssumption
<1> QED BY <1>1, <1>2

LEMMA FirstViewsFrame ==
    ASSUME FirstViews, UNCHANGED <<t, c1, c2>>
    PROVE  FirstViews'
<1>1. \A n : FirstView(n)' = FirstView(n)
  BY DEF FirstView, FirstChild
<1> QED BY <1>1 DEF FirstViews

LEMMA SplitFirstViews ==
    ASSUME HeapStore, FirstViews, StoreOK', HeapInv',
           NEW n \in Node, t[n] = "VIEW",
           NEW v \in Node, NEW c \in Node, SplitWith(n, v, c)
    PROVE  FirstViews'
<1> DEFINE g == p[n]
           F  == FirstKid
           F2 == FirstKid'
<1>1. /\ StoreOK /\ TreeLinks /\ TreeLinks' /\ n \in Node /\ t[n] = "VIEW"
      /\ g \in NodeOrNull /\ NULL \notin Node
  BY ConstAssumption DEF HeapStore, HeapInv, StoreOK, NodeOrNull
<1>2. v # c /\ t[v] = "FREE" /\ t[c] = "FREE" /\ n \notin {v, c} /\ g \notin {v, c, n}
  BY <1>1 DEF SplitWith, TreeLinks, NodeOrNull
<1>3. /\ \A x \in Node : t'[x] = IF x = v THEN "VIEW" ELSE IF x = c THEN "CONTAINER" ELSE t[x]
      /\ \A x \in Node : c1'[x] = IF x = c THEN n
                                  ELSE IF x = g /\ c1[g] = n THEN c ELSE c1[x]
  BY <1>1, <1>2 DEF SplitWith, StoreOK
<1>4. F \in [Node -> SUBSET Node] /\ F2 \in [Node -> SUBSET Node]
  BY <1>1, FirstKidType, FirstKidTypeAfter
<1>5. /\ F[v] = {} /\ F[c] = {} /\ F2[c] = {n}
      /\ \A y \in Node \ {v, c} : F2[y] = IF y = g /\ F[y] = {n} THEN {c} ELSE F[y]
  BY <1>1, <1>2, <1>3 DEF FirstKid
<1>6. \A x \in Node : t[x] = "VIEW" => t'[x] = "VIEW"
  BY <1>2, <1>3
<1>7. ASSUME NEW x \in Node PROVE Walk(F, x) \subseteq Walk(F2, x)
  <2> DEFINE W2 == Walk(F2, x)
  <2>1. W2 \in SUBSET Node /\ x \in W2 /\ \A y \in W2 : F2[y] \subseteq W2
    BY <1>4, WalkClosed
  <2> HIDE DEF W2, F, F2
  <2>2. \A y \in W2 : F[y] \subseteq W2
    BY <1>5, <2>1
  <2>3. Walk(F, x) \subseteq W2
    BY <2>1, <2>2, WalkLeast
  <2> QED BY <2>3 DEF W2
<1>8. FirstView(v)' # {}
  <2>1. v \in Walk(F2, v) /\ t'[v] = "VIEW"
    BY <1>3, <1>4, WalkClosed
  <2> QED BY <1>1, <2>1, FirstViewWalkAfter
<1>9. FirstView(c)' # {}
  <2>1. n \in Walk(F2, c) /\ t'[n] = "VIEW"
    BY <1>1, <1>3, <1>2, <1>4, <1>5, WalkClosed
  <2> QED BY <1>1, <2>1, FirstViewWalkAfter
<1> QED BY <1>1, <1>3, <1>6, <1>7, <1>8, <1>9, FirstViewsGrow

(* deletenode: what went down through the container goes down through the   *)
(* sibling instead.                                                         *)
LEMMA UnlinkFirstViews ==
    ASSUME HeapStore, FirstViews, StoreOK', HeapInv',
           NEW n \in Node, t[n] = "VIEW", NEW q, NEW s, NEW g,
           q = p[n], s = Sibling(n), g = p[q],
           Allocated(q), Allocated(s), Unlink(n, q, s, g)
    PROVE  FirstViews'
<1> DEFINE F  == FirstKid
           F2 == FirstKid'
<1>1. PICK rank \in [Node -> Int] : Ranks(rank)
  BY DEF HeapStore, HeapInv, Ranked
<1>2. /\ StoreOK /\ TreeLinks /\ TreeLinks' /\ n \in Node /\ t[n] = "VIEW"
      /\ q \in Node /\ s \in Node /\ g \in NodeOrNull /\ NULL \notin Node
  BY ConstAssumption DEF HeapStore, HeapInv, StoreOK, Allocated, Sibling, NodeOrNull
<1>3. /\ t[q] = "CONTAINER" /\ {c1[q], c2[q]} = {n, s} /\ s # n /\ p[s] = q /\ n # q
      /\ t[s] # "FREE"
  BY <1>2 DEF TreeLinks, Sibling, Allocated
<1>4. /\ rank[q] \in Int /\ rank[s] \in Int /\ rank[q] < rank[s]
      /\ g # NULL => rank[g] \in Int /\ rank[g] < rank[q]
  BY <1>1, <1>2, <1>3 DEF Ranks, NodeOrNull, Allocated
<1>5. s # q /\ g \notin {n, q, s}
  <2>1. g # NULL => g \in Node /\ t[g] = "CONTAINER"
    BY <1>2, <1>3 DEF TreeLinks, NodeOrNull
  <2>2. CASE g = NULL
    BY <2>2, <1>2, <1>4
  <2>3. CASE g # NULL
    BY <2>1, <2>3, <1>2, <1>4
  <2> QED BY <2>2, <2>3
<1>6. /\ \A x \in Node : t'[x] = IF x \in {n, q} THEN "FREE" ELSE t[x]
      /\ \A x \in Node : c1'[x] = IF x \in {n, q} THEN NULL
                                  ELSE IF x = g /\ c1[g] = q THEN s ELSE c1[x]
  <2>1. refcnt[n] = 1
    BY <1>2 DEF HeapStore, HeapInv, NodesUnshared
  <2> QED BY <1>2, <1>5, <2>1 DEF Unlink, StoreOK
<1>7. F \in [Node -> SUBSET Node] /\ F2 \in [Node -> SUBSET Node]
  BY <1>2, FirstKidType, FirstKidTypeAfter
<1>8. /\ \A y \in Node \ {n, q} : F2[y] = IF q \in F[y] THEN {s} ELSE F[y]
      /\ F[n] = {} /\ F2[n] = {} /\ F2[q] = {}
      /\ \A y \in Node : n \in F[y] => y = q
  <2>1. ASSUME NEW y \in Node \ {n, q} PROVE F2[y] = IF q \in F[y] THEN {s} ELSE F[y]
    <3>1. CASE q \in F[y]
      <4>1. t[y] = "CONTAINER" /\ c1[y] = q /\ y = g
        BY <3>1, <1>2 DEF FirstKid, TreeLinks
      <4>2. t'[y] = "CONTAINER" /\ c1'[y] = s
        BY <4>1, <1>6
      <4>3. F2[y] = {c1'[y]}
        BY <4>2 DEF FirstKid
      <4> QED BY <3>1, <4>2, <4>3
    <3>2. CASE q \notin F[y]
      BY <3>2, <1>6 DEF FirstKid
    <3> QED BY <3>1, <3>2
  <2>2. F[n] = {} /\ F2[n] = {} /\ F2[q] = {}
    BY <1>2, <1>6 DEF FirstKid
  <2>3. \A y \in Node : n \in F[y] => y = q
    BY <1>2 DEF FirstKid, TreeLinks
  <2> QED BY <2>1, <2>2, <2>3
<1>9. \A x \in Node : t[x] = "VIEW" /\ x # n => t'[x] = "VIEW"
  BY <1>3, <1>6
<1>10. \A y \in Node : \A z \in F[y] : z \in Node /\ p[z] = y /\ t[z] # "FREE" /\ t[y] = "CONTAINER"
  BY <1>2, ConstAssumption DEF FirstKid, TreeLinks, HeapStore, HeapInv, NoDangling, Allocated
\* A start above which the container is not met goes down as before.
<1>11. ASSUME NEW x \in Node \ {n, q}, t[x] # "FREE", q \notin Walk(F, x)
       PROVE  FirstView(x)' # {}
  <2> DEFINE W  == Walk(F, x)
             W2 == Walk(F2, x)
             S  == W \cap W2
  <2>1. /\ W \in SUBSET Node /\ x \in W /\ \A y \in W : F[y] \subseteq W
        /\ W2 \in SUBSET Node /\ x \in W2 /\ \A y \in W2 : F2[y] \subseteq W2
    BY <1>7, WalkClosed
  <2>2. n \notin W
    <3>1. n \in W => \E y \in W : n \in F[y]
      BY <1>7, <1>2, WalkUp
    <3> QED BY <3>1, <2>1, <1>8, <1>11
  <2>3. PICK v \in W : t[v] = "VIEW"
    BY <1>2, <1>11, FirstViewWalk DEF FirstViews
  <2>4. q \notin W
    BY <1>11
  <2> HIDE DEF W, W2, F, F2
  <2>5. S \in SUBSET Node /\ x \in S /\ \A y \in S : F[y] \subseteq S
    BY <2>1, <2>2, <2>4, <1>8
  <2>6. W \subseteq S
    <3> HIDE DEF S
    <3> QED BY <2>5, WalkLeast DEF W
  <2>7. v \in W2 /\ t'[v] = "VIEW"
    BY <2>1, <2>2, <2>3, <2>6, <1>9
  <2> QED BY <2>7, <1>2, FirstViewWalkAfter DEF W2, F2
\* The container is not below the sibling.
<1>12. q \notin Walk(F, s)
  <2> DEFINE S == {y \in Node : rank[y] >= rank[s]}
  <2>1. ASSUME NEW y \in S, NEW z \in F[y] PROVE z \in S
    <3>1. y \in Node /\ z \in Node /\ rank[y] < rank[z]
      BY <2>1, <1>1, <1>10, <1>2 DEF Ranks
    <3>2. rank[y] \in Int /\ rank[z] \in Int /\ rank[s] \in Int
      BY <3>1, <1>4
    <3> QED BY <2>1, <3>1, <3>2
  <2>2. S \in SUBSET Node /\ s \in S /\ \A y \in S : F[y] \subseteq S
    BY <1>2, <1>4, <2>1
  <2>3. q \notin S
    BY <1>4
  <2> HIDE DEF S, F
  <2>4. Walk(F, s) \subseteq S
    BY <2>2, WalkLeast
  <2> QED BY <2>3, <2>4
<1>13. FirstView(s)' # {}
  BY <1>2, <1>3, <1>5, <1>11, <1>12
\* A start above the container reaches the sibling now.
<1>14. ASSUME NEW x \in Node \ {n, q}, t[x] # "FREE", q \in Walk(F, x)
       PROVE  FirstView(x)' # {}
  <2> DEFINE W  == Walk(F, x)
             W2 == Walk(F2, x)
             S  == W \cap W2
  <2>1. /\ W \in SUBSET Node /\ x \in W /\ \A y \in W : F[y] \subseteq W
        /\ W2 \in SUBSET Node /\ x \in W2 /\ \A y \in W2 : F2[y] \subseteq W2
    BY <1>7, WalkClosed
  <2>2. q \notin W2
    <3>1. q \in W2 => \E y \in W2 : q \in F2[y]
      BY <1>7, <1>2, WalkUp
    <3>2. ASSUME NEW y \in Node PROVE q \notin F2[y]
      BY <1>5, <1>8, <1>2
    <3> QED BY <3>1, <3>2, <2>1
  <2>3. q \in W
    BY <1>14
  <2> HIDE DEF W, W2
  <2>4. s \in W2
    <3> SUFFICES ASSUME s \notin W2 PROVE FALSE
      OBVIOUS
    <3>1. \A y \in S : F[y] \subseteq S
      <4> HIDE DEF F, F2
      <4> QED BY <2>1, <2>2, <1>8
    <3>2. S \in SUBSET Node /\ x \in S
      BY <2>1
    <3>3. W \subseteq S
      <4> HIDE DEF S
      <4> QED BY <3>1, <3>2, WalkLeast DEF W
    <3> QED BY <2>2, <2>3, <3>3
  <2>5. Walk(F2, s) \subseteq W2
    <3> HIDE DEF F2
    <3> QED BY <2>1, <2>4, WalkLeast
  <2>6. PICK v \in Walk(F2, s) : t'[v] = "VIEW"
    BY <1>13, <1>2, FirstViewWalkAfter
  <2>7. v \in W2
    BY <2>5, <2>6
  <2> QED BY <2>6, <2>7, <1>2, FirstViewWalkAfter DEF W2
<1> QED
  <2>1. \A x \in Node : t'[x] # "FREE" => x \notin {n, q} /\ t[x] # "FREE"
    BY <1>6
  <2> QED BY <2>1, <1>11, <1>14 DEF FirstViews

LEMMA NewRootFirstViews ==
    ASSUME HeapStore, FirstViews, StoreOK', HeapInv',
           NEW i \in Pane, NEW v \in Node, NEW kind, NewRoot(i, v, kind)
    PROVE  FirstViews'
<1>1. StoreOK /\ TreeLinks /\ TreeLinks' /\ NULL \notin Node
  BY ConstAssumption DEF HeapStore, HeapInv
<1>2. /\ t[v] = "FREE" /\ c1' = c1
      /\ \A x \in Node : t'[x] = IF x = v THEN "VIEW" ELSE t[x]
  BY <1>1 DEF NewRoot, StoreOK
<1>3. FirstKid' = FirstKid
  BY <1>2 DEF FirstKid
<1>4. FirstView(v)' # {}
  <2>1. v \in Walk(FirstKid', v) /\ t'[v] = "VIEW"
    BY <1>1, <1>2, FirstKidTypeAfter, WalkClosed
  <2> QED BY <1>1, <2>1, FirstViewWalkAfter
<1> QED BY <1>1, <1>2, <1>3, <1>4, FirstViewsGrow

LEMMA RestoredFirstViews ==
    ASSUME HeapStore, FirstViews, StoreOK', HeapInv',
           NEW i \in Pane, NEW v \in Node, NEW w \in Node, NEW c \in Node,
           RestoredRoot(i, v, w, c)
    PROVE  FirstViews'
<1>1. StoreOK /\ TreeLinks /\ TreeLinks' /\ NULL \notin Node
  BY ConstAssumption DEF HeapStore, HeapInv
<1>2. /\ v # w /\ v # c /\ w # c /\ \A x \in {v, w, c} : t[x] = "FREE"
      /\ \A x \in Node : t'[x] = IF x \in {v, w} THEN "VIEW"
                                 ELSE IF x = c THEN "CONTAINER" ELSE t[x]
      /\ \A x \in Node : c1'[x] = IF x = c THEN v ELSE c1[x]
  BY <1>1 DEF RestoredRoot, StoreOK
<1>3. /\ FirstKid \in [Node -> SUBSET Node] /\ FirstKid' \in [Node -> SUBSET Node]
      /\ \A y \in Node : FirstKid[y] \subseteq FirstKid'[y]
      /\ FirstKid'[c] = {v}
  BY <1>1, <1>2, FirstKidType, FirstKidTypeAfter DEF FirstKid
<1>4. \A x \in Node : Walk(FirstKid, x) \subseteq Walk(FirstKid', x)
  BY <1>3, WalkMore
<1>5. \A x \in {v, w} : FirstView(x)' # {}
  <2>1. \A x \in {v, w} : x \in Walk(FirstKid', x) /\ t'[x] = "VIEW"
    BY <1>2, <1>3, WalkClosed
  <2> QED BY <1>1, <2>1, FirstViewWalkAfter
<1>6. FirstView(c)' # {}
  <2>1. v \in Walk(FirstKid', c) /\ t'[v] = "VIEW"
    BY <1>2, <1>3, WalkClosed
  <2> QED BY <1>1, <2>1, FirstViewWalkAfter
<1>7. /\ \A x \in Node : t[x] = "VIEW" => t'[x] = "VIEW"
      /\ \A x \in Node : t[x] = "FREE" /\ t'[x] # "FREE" => x \in {v, w, c}
  BY <1>2
<1> QED BY <1>1, <1>4, <1>5, <1>6, <1>7, FirstViewsGrow

-----------------------------------------------------------------------------
(* Every step keeps what the next one needs. *)

HeapStep == HeapStore /\ LiveInv /\ StoreOK' /\ HeapInv'

LEMMA DeletesLive ==
    ASSUME HeapStep, Running, Current # NULL,
           NEW n \in Node, t[n] = "VIEW", Deletes(n)
    PROVE  /\ RootTyped' /\ FirstViews' /\ NextPending' /\ NoCrash' /\ FocusSet'
<1>1. /\ t_root_index \in Pane /\ NULL \notin Node
      /\ StoreOK /\ HeapInv /\ RootTyped /\ FirstViews /\ FocusSet
      /\ \A i \in Pane : i \in Enabled <=> t_root[i] # NULL
  BY ConstAssumption
     DEF HeapStep, HeapStore, StoreOK, HeapInv, LiveInv, SlotInv, EnableAgrees, Enabled
<1>2. CASE IsLoneRoot(n) /\ DeleteRoot(n)
  <2>1. UNCHANGED <<t, type, p, c1, c2, t_root_index>>
    BY <1>2 DEF IsLoneRoot, DeleteRoot
  <2>2. RootTyped' /\ FirstViews'
    BY <1>1, <2>1, FirstViewsFrame DEF RootTyped
  <2>3. NoCrash'
    BY <1>2 DEF DeleteRoot, HeapStep, LiveInv, NoCrash
  <2>4. ASSUME Running' PROVE t_root_change' = "NEXT" /\ Enabled' # {}
    <3> DEFINE given_up(i) == IsLeast(i, {j \in Pane : t_root[j] = n})
    <3>1. /\ t_root_change' = "NEXT"
          /\ ~ \A i \in Pane : t_root_enable[i] = 0 \/ given_up(i)
      BY <1>2, <2>4 DEF DeleteRoot, Running
    <3>2. t_root_enable' = [i \in Pane |-> IF given_up(i) THEN 0 ELSE t_root_enable[i]]
      BY <1>2 DEF DeleteRoot
    <3> HIDE DEF given_up
    <3>3. PICK i \in Pane : t_root_enable[i] # 0 /\ ~given_up(i)
      BY <3>1
    <3>4. t_root_enable'[i] = 1
      BY <1>1, <3>2, <3>3 DEF StoreOK
    <3> QED BY <3>1, <3>4 DEF Enabled
  <2>5. FocusSet'
    BY <1>1, <1>2 DEF DeleteRoot, focusVars, FocusSet, StoreOK
  <2> QED BY <2>2, <2>3, <2>4, <2>5 DEF NextPending
<1>3. ASSUME Allocated(p[n]), Allocated(Sibling(n)),
             Unlink(n, p[n], Sibling(n), p[p[n]])
      PROVE  /\ RootTyped' /\ FirstViews' /\ NextPending' /\ NoCrash' /\ FocusSet'
  <2>1. PICK q \in Node, s \in Node, g \in NodeOrNull :
           q = p[n] /\ s = Sibling(n) /\ g = p[q]
    BY <1>1, <1>3 DEF StoreOK, Allocated, Sibling, NodeOrNull
  <2>2. Unlink(n, q, s, g) /\ Allocated(q) /\ Allocated(s)
    BY <1>3, <2>1
  <2>3. FirstViews'
    BY <1>1, <2>1, <2>2, UnlinkFirstViews DEF HeapStep
  <2>4. refcnt[n] = 1
    BY <1>1 DEF HeapInv, NodesUnshared
  <2>5. /\ \A x \in Node : t'[x] = IF x \in {n, q} THEN "FREE" ELSE t[x]
        /\ \A x \in Node \ {n, q} : p'[x] = IF x = s THEN g ELSE p[x]
        /\ \A x \in Node \ {n, q} :
              type'[x] = IF x = s /\ g = NULL THEN "ROOT" ELSE type[x]
        /\ status' = status /\ t_root_index' = t_root_index
        /\ t_root'[t_root_index] # NULL
    BY <1>1, <2>1, <2>2, <2>4, ConstAssumption DEF Unlink, StoreOK, HeapStep, Current
  <2>6. RootTyped'
    BY <1>1, <2>5 DEF RootTyped
  <2>7. NextPending' /\ NoCrash'
    BY <2>5 DEF NextPending, Current, NoCrash, HeapStep, LiveInv
  <2>8. FocusSet'
    <3>1. \A i \in Pane : /\ t_focused'[i] = t_focused[i] \/ t_focused'[i] \in Node
                          /\ i # t_root_index => t_root'[i] = t_root[i]
      BY <1>1, <2>2 DEF Unlink, StoreOK, FirstView
    <3>2. t_root[t_root_index] # NULL
      BY DEF Current
    <3> QED BY <1>1, <3>1, <3>2 DEF FocusSet
  <2> QED BY <2>3, <2>6, <2>7, <2>8
<1> QED BY <1>2, <1>3 DEF Deletes

LEMMA SplitLive ==
    ASSUME HeapStep, Current # NULL, NEW n \in Node, t[n] = "VIEW",
           NEW v \in Node, NEW c \in Node, SplitWith(n, v, c)
    PROVE  /\ RootTyped' /\ FirstViews' /\ NextPending' /\ NoCrash' /\ FocusSet'
<1>1. /\ t_root_index \in Pane
      /\ StoreOK /\ RootTyped /\ FirstViews /\ FocusSet /\ NULL \notin Node
  BY ConstAssumption DEF HeapStep, HeapStore, StoreOK, HeapInv, LiveInv
<1>2. FirstViews'
  BY <1>1, SplitFirstViews DEF HeapStep
<1>3. RootTyped'
  <2>1. v # c /\ n \notin {v, c}
    BY <1>1 DEF SplitWith
  <2>2. /\ \A x \in Node : x \notin {v, c} => t'[x] = t[x]
        /\ \A x \in Node : x \notin {n, v, c} => type'[x] = type[x] /\ p'[x] = p[x]
        /\ p'[n] = c /\ p'[v] = c /\ p'[c] = p[n]
        /\ p[n] = NULL => type'[c] = "ROOT"
    BY <1>1, <2>1 DEF SplitWith, StoreOK
  <2> QED BY <1>1, <2>1, <2>2 DEF RootTyped
<1>4. NextPending' /\ NoCrash'
  BY <1>1 DEF SplitWith, StoreOK, Current, NextPending, NoCrash, HeapStep, LiveInv
<1>5. FocusSet'
  BY <1>1 DEF SplitWith, StoreOK, FocusSet
<1> QED BY <1>2, <1>3, <1>4, <1>5

(* Steps that leave the trees and the current pane alone. *)
LEMMA LiveFrame ==
    ASSUME LiveInv, UNCHANGED <<heapVars, slotVars, t_root_index>>,
           status' \in {status, "exited"}, status' = "running" => Current # NULL,
           \A i \in Pane : t_focused'[i] = t_focused[i] \/ t_focused'[i] # NULL
    PROVE  /\ RootTyped' /\ FirstViews' /\ NextPending' /\ NoCrash' /\ FocusSet'
<1>1. UNCHANGED <<t, type, p, c1, c2, t_root, t_root_index>>
  BY DEF heapVars, slotVars
<1>2. FirstViews'
  BY <1>1, FirstViewsFrame DEF LiveInv
<1>3. RootTyped'
  BY <1>1 DEF LiveInv, RootTyped
<1>4. NextPending' /\ NoCrash'
  BY <1>1 DEF LiveInv, NextPending, NoCrash, Running, Current
<1>5. FocusSet'
  BY <1>1 DEF LiveInv, FocusSet
<1> QED BY <1>2, <1>3, <1>4, <1>5

LEMMA CommandedLive ==
    ASSUME HeapStep, Running, Current # NULL,
           NEW n \in Node, t[n] = "VIEW", Commanded(n)
    PROVE  /\ RootTyped' /\ FirstViews' /\ NextPending' /\ NoCrash' /\ FocusSet'
<1>1. LiveInv /\ StoreOK /\ t_root_index \in Pane /\ NULL \notin Node
  BY ConstAssumption DEF HeapStep, HeapStore, StoreOK
<1>2. CASE Idle \/ (\E kind \in Requests : Request(kind)) \/ Quit
  BY <1>1, <1>2, LiveFrame DEF Idle, Request, Quit, storeVars, focusVars, Running
<1>3. ASSUME NEW v \in Node, FocusOnly(v)
      PROVE  /\ RootTyped' /\ FirstViews' /\ NextPending' /\ NoCrash' /\ FocusSet'
  <2>1. \A i \in Pane : t_focused'[i] = t_focused[i] \/ t_focused'[i] # NULL
    BY <1>1, <1>3 DEF FocusOnly, focus, StoreOK
  <2> QED BY <1>1, <1>3, <2>1, LiveFrame DEF FocusOnly, Running
<1>4. PaneViews(t_root_index) \subseteq Node
  BY WalkInNode
<1> QED BY <1>2, <1>3, <1>4, SplitLive, DeletesLive DEF Commanded

LEMMA SwitchedLive ==
    ASSUME HeapStep, Running, Switched
    PROVE  /\ RootTyped' /\ FirstViews' /\ NextPending' /\ NoCrash' /\ FocusSet'
           /\ t_root_change' = "NONE"
<1>1. LiveInv /\ StoreOK /\ t_root_change' = "NONE" /\ NULL \notin Node
  BY ConstAssumption DEF HeapStep, HeapStore, Switched, Stayed, Refocused, Entered, Opened
<1>2. CASE Stayed \/ Refocused
  <2>1. \A i \in Pane : t_focused'[i] = t_focused[i] \/ t_focused'[i] # NULL
    BY <1>1, <1>2 DEF Stayed, Refocused, focusVars, focus, FirstView, StoreOK
  <2> QED BY <1>1, <1>2, <2>1, LiveFrame DEF Stayed, Refocused
<1>3. ASSUME NEW i \in Pane, Entered(i)
      PROVE  /\ RootTyped' /\ FirstViews' /\ NextPending' /\ NoCrash' /\ FocusSet'
  <2>1. UNCHANGED <<t, type, p, c1, c2, t_root, status>> /\ t_root_index' = i
    BY <1>3 DEF Entered, heapVars, slotVars
  <2>2. RootTyped' /\ FirstViews'
    BY <1>1, <2>1, FirstViewsFrame DEF LiveInv, RootTyped
  <2>3. NextPending' /\ NoCrash'
    BY <1>1, <1>3, <2>1 DEF LiveInv, NextPending, NoCrash, Entered, Current
  <2>4. FocusSet'
    BY <1>1, <1>3, <2>1 DEF LiveInv, FocusSet, Entered, focus, StoreOK
  <2> QED BY <2>2, <2>3, <2>4
<1>4. ASSUME NEW i \in Pane, Opened(i)
      PROVE  /\ RootTyped' /\ FirstViews' /\ NextPending' /\ NoCrash' /\ FocusSet'
  <2>1. CASE \E v \in Node : NewRoot(i, v, "ROOT")
    <3>1. PICK v \in Node : NewRoot(i, v, "ROOT")
      BY <2>1
    <3>2. FirstViews'
      BY <3>1, <1>1, NewRootFirstViews DEF HeapStep, LiveInv
    <3>3. RootTyped'
      BY <3>1, <1>1 DEF NewRoot, StoreOK, LiveInv, RootTyped
    <3>4. t_root'[i] = v
      BY <3>1, <1>1 DEF NewRoot, StoreOK
    <3>5. FocusSet'
      BY <3>1, <1>1 DEF NewRoot, focus, StoreOK, LiveInv, FocusSet
    <3> QED BY <1>1, <1>4, <3>2, <3>3, <3>4, <3>5
            DEF Opened, NextPending, NoCrash, Current, LiveInv
  <2>2. CASE \E v, w, c \in Node : RestoredRoot(i, v, w, c)
    <3>1. PICK v \in Node, w \in Node, c \in Node : RestoredRoot(i, v, w, c)
      BY <2>2
    <3>2. FirstViews'
      BY <3>1, <1>1, RestoredFirstViews DEF HeapStep, LiveInv
    <3>3. RootTyped'
      <4>1. v # w /\ v # c /\ w # c
        BY <3>1 DEF RestoredRoot
      <4>2. /\ \A x \in Node \ {v, w, c} : /\ t'[x] = t[x] /\ p'[x] = p[x]
                                           /\ type'[x] = type[x]
            /\ p'[v] = c /\ p'[w] = c /\ type'[c] = "ROOT"
        BY <3>1, <4>1, <1>1 DEF RestoredRoot, StoreOK
      <4> QED BY <4>2, <1>1 DEF LiveInv, RootTyped
    <3>4. t_root'[i] = c
      BY <3>1, <1>1 DEF RestoredRoot, StoreOK
    <3>5. FocusSet'
      BY <3>1, <1>1 DEF RestoredRoot, StoreOK, LiveInv, FocusSet
    <3> QED BY <1>1, <1>4, <3>2, <3>3, <3>4, <3>5
            DEF Opened, NextPending, NoCrash, Current, LiveInv
  <2> QED BY <1>4, <2>1, <2>2 DEF Opened
<1> QED BY <1>1, <1>2, <1>3, <1>4 DEF Switched

(* The inductive invariant behind NoCrashes. *)
LEMMA LiveAlways == ASSUME Undisturbed PROVE Spec => [](HeapStore /\ LiveInv)
<1>1. Init => LiveInv
  <2> SUFFICES ASSUME Init PROVE LiveInv
    OBVIOUS
  <2>1. PICK v \in Node :
      /\ t = [n \in Node |-> IF n = v THEN "VIEW" ELSE "FREE"]
      /\ type = [n \in Node |-> IF n = v THEN "ROOT" ELSE "CHILD"]
      /\ t_root = [i \in Pane |-> IF i = 0 THEN v ELSE NULL]
      /\ t_focused = [i \in Pane |-> IF i = 0 THEN v ELSE NULL]
      /\ t_root_index = 0 /\ t_root_change = "NONE" /\ status = "running"
    BY DEF Init
  <2>2. \A n : n \in Node /\ t[n] # "FREE" => n = v /\ v \in FirstView(v)
    BY <2>1 DEF FirstView
  <2>3. RootTyped /\ FirstViews
    BY <2>1, <2>2 DEF RootTyped, FirstViews
  <2>4. NextPending /\ LoopOK /\ NoCrash /\ FocusSet
    BY <2>1, ZeroPane, ConstAssumption DEF NextPending, LoopOK, NoCrash, Current, FocusSet
  <2> QED BY <2>3, <2>4 DEF LiveInv
<1>2. TypeOK /\ HeapInv /\ SlotInv /\ TypeOK' /\ HeapInv' /\ LiveInv
         /\ [Next]_vars => LiveInv'
  <2> SUFFICES ASSUME TypeOK, HeapInv, SlotInv, TypeOK', HeapInv',
                      LiveInv, [Next]_vars
               PROVE  LiveInv'
    OBVIOUS
  <2>0. HeapStep /\ HeapStore
    BY StoreIsType DEF HeapStep, HeapStore, TypeOK, StoreOK
  <2>1. CASE Select \/ (\E n \in Node : ProgramExit(n)) \/ KeysDone \/ UNCHANGED vars
    <3>1. /\ UNCHANGED <<heapVars, slotVars, focusVars, t_root_index, t_root_change, status>>
          /\ pc' \in {"select", "input"} => t_root_change = "NONE"
      BY <2>1 DEF Select, ProgramExit, KeysDone, vars, storeVars, reqVars, LiveInv, LoopOK
    <3>2. RootTyped' /\ FirstViews'
      BY <3>1, FirstViewsFrame DEF heapVars, LiveInv, RootTyped
    <3> QED BY <3>1, <3>2 DEF slotVars, focusVars, LiveInv, NextPending, LoopOK, NoCrash,
                              FocusSet, Running, Current, Enabled
  <2>2. CASE GetInput
    <3>1. Running /\ Current # NULL /\ t_root_index \in Pane
      BY <2>2 DEF GetInput, LiveInv, LoopOK, SlotInv, CurrentShown, TypeOK
    <3>2. CASE Idle
      BY <2>2, <3>1, <3>2, LiveFrame DEF GetInput, Idle, storeVars, focusVars, LiveInv, LoopOK
    <3>3. ASSUME NEW v \in Closed, Deletes(v) PROVE LiveInv'
      <4>1. v \in Node /\ t[v] = "VIEW"
        BY <2>0, <3>1, PaneViewsOwned DEF Closed, HeapStore, HeapInv
      <4> QED BY <2>0, <2>2, <3>1, <3>3, <4>1, DeletesLive DEF GetInput, LiveInv, LoopOK
    <3> QED BY <2>0, <2>2, <3>2, <3>3, InputRuns
  <2>3. CASE Switch
    BY <2>0, <2>3, SwitchRuns, SwitchedLive DEF Switch, LiveInv, LoopOK
  <2>4. CASE Key
    <3>1. RootTyped' /\ FirstViews' /\ NextPending' /\ NoCrash' /\ FocusSet'
      BY <2>0, <2>4, KeyRuns, CommandedLive DEF Key
    <3> QED BY <2>4, <3>1 DEF Key, LiveInv, LoopOK
  <2> QED BY <2>1, <2>2, <2>3, <2>4 DEF Next, Loop
<1>3. TypeOK /\ HeapInv /\ SlotInv => HeapStore
  BY StoreIsType DEF HeapStore
<1>4. CoreCommands /\ Typeahead = FALSE
  BY DEF Undisturbed
<1> QED BY <1>1, <1>2, <1>3, <1>4, HeapAlways, SlotsAlways, PTL DEF Spec

(* Whatever the user splits, deletes, creates, restores, enters or goes     *)
(* back to, be it a view that was given up, and with programs that exit at  *)
(* any time, mtm never dereferences NULL or a freed node (deletenode and    *)
(* its parent and sibling, focus and its way down, the walks that draw,     *)
(* reshape and read a tree, the pane entered by a switch).                  *)
THEOREM NoCrashes == ASSUME Undisturbed PROVE Spec => []NoCrash
<1>1. LiveInv => NoCrash
  BY DEF LiveInv
<1> QED BY <1>1, LiveAlways, PTL

-----------------------------------------------------------------------------
(* The refinement. *)
(* What a step of the session starts from. *)
StepStore == ShownStore /\ LiveInv /\ StoreOK' /\ HeapInv'

LEMMA ShownIsHeap == ShownStore => HeapStore
BY DEF ShownStore, HeapStore

(* A freed address forgets that its program exited. *)
ExitInv == \A n \in exited : t[n] = "VIEW"

LEMMA DoneShown ==
    ASSUME ExitInv
    PROVE  {n \in exited : InTree(n)} = {n \in exited : \E i \in Pane : n \in PaneViews(i)}
BY DEF ExitInv, InTree, PaneViews

LEMMA DoneShownAfter ==
    ASSUME ExitInv'
    PROVE  {n \in exited : InTree(n)}' = {n \in exited' : \E i \in Pane : n \in PaneViews(i)'}
BY DEF ExitInv, InTree, PaneViews

(* split: the new view is in no pane and its program runs. *)
LEMMA SplitOpens ==
    ASSUME StepStore, ExitInv, Running, NEW n \in PaneViews(t_root_index),
           NEW v \in Node, NEW c \in Node, SplitWith(n, v, c)
    PROVE  ExitInv' /\ Session!Open(v)
<1>1. /\ t_root_index \in Pane /\ t[v] = "FREE" /\ n \in Node /\ t[n] = "VIEW"
      /\ UNCHANGED <<exited, t_root_index, status>>
      /\ \A x \in Node : t[x] = "VIEW" => t'[x] = "VIEW"
      /\ \A i \in Pane : t_focused'[i] = IF i = t_root_index THEN v ELSE t_focused[i]
  BY PaneViewsOwned DEF StepStore, ShownStore, StoreOK, HeapInv, SplitWith
<1>2. \A i \in Pane : /\ t_root'[i] = NULL <=> t_root[i] = NULL
                      /\ PaneViews(i)' = IF i = t_root_index THEN PaneViews(i) \cup {v}
                                                             ELSE PaneViews(i)
  BY SplitWithShown DEF StepStore
<1>3. ExitInv' /\ v \notin exited
  BY <1>1 DEF ExitInv, StepStore, ShownStore, StoreOK
<1>4. \A i \in Pane : v \notin PaneViews(i)
  BY <1>1, PaneViewsOwned DEF StepStore, ShownStore, HeapInv
<1>5. t_root[t_root_index] # NULL
  BY DEF PaneViews
<1>6. {x \in exited : InTree(x)}' = {x \in exited : InTree(x)}
  BY <1>1, <1>2, <1>3, DoneShown, DoneShownAfter
<1> QED
  BY <1>1, <1>2, <1>3, <1>4, <1>5, <1>6
     DEF Session!Open, Session!Running, Session!Unused, Session!Pane, Pane, Running

(* deletenode of the root of the current pane: its only view goes, and mtm  *)
(* with it if no other pane has a tree.                                     *)
LEMMA RootCloses ==
    ASSUME StepStore, ExitInv, Running, NEW n \in PaneViews(t_root_index),
           n = Focused \/ n \in exited, IsLoneRoot(n), DeleteRoot(n)
    PROVE  ExitInv' /\ Session!Close(n)
<1>1. /\ t_root_index \in Pane /\ n \in Node /\ t[n] = "VIEW" /\ EnableAgrees
      /\ UNCHANGED <<t, t_focused, exited, t_root_index>>
  BY PaneViewsOwned
     DEF StepStore, ShownStore, StoreOK, HeapInv, SlotInv, DeleteRoot, IsLoneRoot, focusVars
<1>2. /\ PaneViews(t_root_index) = {n} /\ ShownInv'
      /\ \A i \in Pane : /\ t_root'[i] = IF i = t_root_index THEN NULL ELSE t_root[i]
                         /\ PaneViews(i)' = IF i = t_root_index THEN {} ELSE PaneViews(i)
  BY DeleteRootShown DEF StepStore
<1>3. t_root[t_root_index] # NULL
  BY DEF PaneViews
<1>4. status' = IF \A i \in Pane : PaneViews(i)' = {} THEN "exited" ELSE "running"
  <2> DEFINE given_up(i) == IsLeast(i, {j \in Pane : t_root[j] = n})
  <2>1. /\ t_root' = [i \in Pane |-> IF given_up(i) THEN NULL ELSE t_root[i]]
        /\ status' = IF \A i \in Pane : t_root_enable[i] = 0 \/ given_up(i)
                       THEN "exited" ELSE status
    BY DEF DeleteRoot
  <2> HIDE DEF given_up
  <2>2. \A i \in Pane : (t_root_enable[i] = 0 \/ given_up(i)) <=> t_root'[i] = NULL
    <3>1. \A i \in Pane : given_up(i) => t_root[i] = n
      BY DEF given_up, IsLeast
    <3>2. \A i \in Pane : t_root_enable[i] \in {0, 1}
      BY DEF StepStore, ShownStore, StoreOK
    <3> QED BY <1>1, <2>1, <3>1, <3>2 DEF EnableAgrees
  <2>3. \A i \in Pane : t_root'[i] = NULL <=> PaneViews(i)' = {}
    BY <1>2 DEF ShownInv, FocusShown, PaneViews
  <2> QED BY <2>1, <2>2, <2>3 DEF Running
<1>5. ExitInv'
  BY <1>1 DEF ExitInv
<1>6. \A i \in Pane \ {t_root_index} : n \notin PaneViews(i)
  BY <1>1, <1>2, PaneViewsOwned DEF StepStore, ShownStore, HeapInv
<1>7. {x \in exited : InTree(x)}' = {x \in exited : InTree(x)} \ {n}
  BY <1>1, <1>2, <1>5, <1>6, DoneShown, DoneShownAfter
<1>8. n \in exited => n \in {x \in exited : InTree(x)}
  BY <1>1, DoneShown
<1> QED
  BY <1>1, <1>2, <1>3, <1>4, <1>5, <1>7, <1>8
     DEF Session!Close, Session!Running, Session!AllGone, Session!Pane, Pane, Running, Focused

(* deletenode of any other view: the pane keeps the rest, and the focus     *)
(* stays where it was unless it was on the view that goes.                  *)
LEMMA ChildCloses ==
    ASSUME StepStore, ExitInv, Running, NEW n \in PaneViews(t_root_index),
           n = Focused \/ n \in exited, Allocated(p[n]), Allocated(Sibling(n)),
           Unlink(n, p[n], Sibling(n), p[p[n]])
    PROVE  ExitInv' /\ Session!Close(n)
<1>1. /\ t_root_index \in Pane /\ n \in Node /\ t[n] = "VIEW" /\ t[p[n]] = "CONTAINER"
      /\ UNCHANGED <<t_root_index, status>>
  BY PaneViewsOwned, ConstAssumption
     DEF StepStore, ShownStore, StoreOK, HeapInv, TreeLinks, Allocated, Unlink
<1>2. /\ ShownInv'
      /\ \A i \in Pane : /\ t_root'[i] = NULL <=> t_root[i] = NULL
                         /\ PaneViews(i)' = PaneViews(i) \ {n}
  BY UnlinkShown DEF StepStore
<1>3. t_root[t_root_index] # NULL
  BY DEF PaneViews
<1>4. \A i \in Pane \ {t_root_index} : n \notin PaneViews(i)
  BY <1>1, PaneViewsOwned DEF StepStore, ShownStore, HeapInv
<1>5. /\ \A x \in Node \ {n, p[n]} : t'[x] = t[x]
      /\ exited' = exited \ {n, p[n]}
  <2>1. refcnt[n] = 1
    BY <1>1 DEF StepStore, ShownStore, HeapInv, NodesUnshared
  <2> QED BY <2>1 DEF Unlink
<1>6. ExitInv' /\ exited' = exited \ {n}
  <2>1. exited \subseteq Node
    BY DEF StepStore, ShownStore, StoreOK
  <2> QED BY <1>1, <1>5, <2>1 DEF ExitInv
<1>7. /\ \A i \in Pane \ {t_root_index} : t_focused'[i] = t_focused[i]
      /\ Focused # n => t_focused' = t_focused
  BY <1>1 DEF Unlink, StepStore, ShownStore, StoreOK
<1>8. t_focused'[t_root_index] \in PaneViews(t_root_index) \ {n}
  BY <1>1, <1>2, <1>3 DEF ShownInv, FocusShown
<1>9. {x \in exited : InTree(x)}' = {x \in exited : InTree(x)} \ {n}
  BY <1>2, <1>6, DoneShown, DoneShownAfter
<1>10. n \in exited => n \in {x \in exited : InTree(x)}
  BY <1>1, DoneShown
<1> DEFINE f == [i \in Pane |-> IF t_root[i] = NULL THEN NULL ELSE t_focused[i]]
           w == t_focused'[t_root_index]
<1>11. f' = [f EXCEPT ![t_root_index] = w]
  BY <1>1, <1>2, <1>3, <1>7
<1>12. [i \in Pane |-> PaneViews(i)]'
           = [[i \in Pane |-> PaneViews(i)] EXCEPT ![t_root_index] = PaneViews(t_root_index) \ {n}]
  <2>1. \A i \in Pane \ {t_root_index} : PaneViews(i)' = PaneViews(i)
    BY <1>2, <1>4
  <2>2. PaneViews(t_root_index)' = PaneViews(t_root_index) \ {n}
    BY <1>1, <1>2
  <2> QED BY <1>1, <2>1, <2>2
<1>13. n # Focused => w = f[t_root_index]
  BY <1>1, <1>3, <1>7 DEF Focused
<1>14. f[t_root_index] = Focused
  BY <1>1, <1>3 DEF Focused
<1> QED
  BY <1>1, <1>3, <1>6, <1>8, <1>9, <1>10, <1>11, <1>12, <1>13, <1>14, <1>2
     DEF Session!Close, Session!Running, Session!AllGone, Session!Pane, Pane, Running

LEMMA DeletesCloses ==
    ASSUME StepStore, ExitInv, Running, NEW n \in PaneViews(t_root_index),
           n = Focused \/ n \in exited, Deletes(n)
    PROVE  ExitInv' /\ Session!Close(n)
BY RootCloses, ChildCloses DEF Deletes

-----------------------------------------------------------------------------
(* Steps that change no tree. *)

LEMMA SameViews ==
    ASSUME UNCHANGED <<heapVars, slotVars>>
    PROVE  /\ \A i \in Pane : PaneViews(i)' = PaneViews(i) /\ t_root'[i] = t_root[i]
           /\ exited' = exited /\ ExitInv =>
                  ExitInv' /\ {x \in exited : InTree(x)}' = {x \in exited : InTree(x)}
<1>1. Kids' = Kids /\ t' = t /\ t_root' = t_root
  BY DEF Kids, heapVars, slotVars
<1>2. \A i \in Pane : PaneViews(i)' = PaneViews(i)
  BY <1>1, PaneWalks, PaneWalksAfter
<1>3. ASSUME exited' = exited, ExitInv
      PROVE  ExitInv' /\ {x \in exited : InTree(x)}' = {x \in exited : InTree(x)}
  <2>1. ExitInv'
    BY <1>1, <1>3 DEF ExitInv
  <2> QED BY <1>2, <1>3, <2>1, DoneShown, DoneShownAfter
<1> QED BY <1>1, <1>2, <1>3

(* Keys without a command, requests, select and the loop are not seen. *)
LEMMA Unseen ==
    ASSUME ExitInv,
           UNCHANGED <<heapVars, slotVars, t_focused, exited, t_root_index, status>>
    PROVE  ExitInv' /\ UNCHANGED Session!vars
<1>1. /\ \A i \in Pane : PaneViews(i)' = PaneViews(i) /\ t_root'[i] = t_root[i]
      /\ ExitInv' /\ {x \in exited : InTree(x)}' = {x \in exited : InTree(x)}
  BY SameViews
<1> QED BY <1>1 DEF Session!vars

LEMMA FocusMoves ==
    ASSUME ShownStore, ExitInv, Running, NEW v \in PaneViews(t_root_index),
           focus(t_root_index, v),
           UNCHANGED <<heapVars, slotVars, ioVars, t_root_index, status>>
    PROVE  ExitInv' /\ Session!Move(v)
<1>1. /\ \A i \in Pane : PaneViews(i)' = PaneViews(i) /\ t_root'[i] = t_root[i]
      /\ ExitInv' /\ {x \in exited : InTree(x)}' = {x \in exited : InTree(x)}
  BY SameViews DEF ioVars, ExitInv
<1>2. /\ t_root_index \in Pane /\ t_root[t_root_index] # NULL
      /\ \A i \in Pane : t_focused'[i] = IF i = t_root_index THEN v ELSE t_focused[i]
  BY DEF ShownStore, StoreOK, focus, PaneViews
<1> QED
  BY <1>1, <1>2 DEF Session!Move, Session!Running, Session!Pane, Pane, Running

LEMMA PaneEnters ==
    ASSUME ShownStore, ExitInv, Running, NEW i \in Pane, Entered(i)
    PROVE  ExitInv' /\ Session!Enter(i)
<1>1. /\ \A j \in Pane : PaneViews(j)' = PaneViews(j) /\ t_root'[j] = t_root[j]
      /\ ExitInv' /\ {x \in exited : InTree(x)}' = {x \in exited : InTree(x)}
  BY SameViews DEF ioVars, ExitInv, Entered
<1>2. /\ t_focused' = t_focused /\ t_root_index' = i /\ status' = status
      /\ PaneViews(i) # {}
  BY DEF ShownStore, StoreOK, ShownInv, FocusShown, Entered, focus
<1> QED BY <1>1, <1>2 DEF Session!Enter, Session!Running, Session!Pane, Pane, Running

(* A pane of new views S is opened. *)
LEMMA NewViewsOpen ==
    ASSUME ShownStore, ExitInv, Running, NEW i \in Pane, t_root[i] = NULL,
           NEW v \in Node, NEW w \in Node, t[v] = "FREE", t[w] = "FREE",
           \A x \in Node : t[x] = "VIEW" => t'[x] = "VIEW",
           \A j \in Pane : /\ PaneViews(j)' = IF j = i THEN {v, w} ELSE PaneViews(j)
                           /\ t_root'[j] # NULL <=> j = i \/ t_root[j] # NULL
                           /\ t_focused'[j] = IF j = i THEN v ELSE t_focused[j],
           t_root_index' = i, UNCHANGED <<exited, status>>
    PROVE  ExitInv' /\ Session!OpenPane(i, {v, w})
<1>1. ExitInv' /\ v \notin exited /\ w \notin exited
  BY DEF ExitInv, ShownStore, StoreOK
<1>2. PaneViews(i) = {}
  BY DEF PaneViews
<1>3. \A j \in Pane : v \notin PaneViews(j) /\ w \notin PaneViews(j)
  BY PaneViewsOwned DEF ShownStore, HeapInv
<1>4. {x \in exited : InTree(x)}' = {x \in exited : InTree(x)}
  BY <1>1, <1>2, DoneShown, DoneShownAfter
<1> DEFINE f == [j \in Pane |-> IF t_root[j] = NULL THEN NULL ELSE t_focused[j]]
           s == [j \in Pane |-> PaneViews(j)]
<1>5. f' = [f EXCEPT ![i] = v]
  OBVIOUS
<1>6. s' = [s EXCEPT ![i] = {v, w}] /\ s[i] = {}
  BY <1>2
<1>7. \A x \in {v, w}, j \in Pane : x \notin s[j]
  BY <1>3
<1> QED
  BY <1>1, <1>4, <1>5, <1>6, <1>7
     DEF Session!OpenPane, Session!Running, Session!Unused, Session!Pane, Pane, Running

LEMMA PaneOpens ==
    ASSUME StepStore, ExitInv, Running, NEW i \in Pane, Opened(i)
    PROVE  ExitInv' /\ \E v, w \in Node : Session!OpenPane(i, {v, w})
<1>1. t_root[i] = NULL /\ t_root_index' = i /\ UNCHANGED <<exited, status>>
  BY DEF Opened
<1>2. ASSUME NEW v \in Node, NewRoot(i, v, "ROOT")
      PROVE  ExitInv' /\ Session!OpenPane(i, {v, v})
  <2>1. /\ t[v] = "FREE" /\ NULL \notin Node
        /\ \A x \in Node : t[x] = "VIEW" => t'[x] = "VIEW"
        /\ \A j \in Pane : t_root'[j] = IF j = i THEN v ELSE t_root[j]
        /\ \A j \in Pane : t_focused'[j] = IF j = i THEN v ELSE t_focused[j]
    BY <1>2, ConstAssumption DEF NewRoot, focus, StepStore, ShownStore, StoreOK
  <2>2. \A j \in Pane : PaneViews(j)' = IF j = i THEN {v, v} ELSE PaneViews(j)
    BY <1>1, <1>2, NewRootShown DEF StepStore
  <2> QED BY <1>1, <2>1, <2>2, NewViewsOpen DEF StepStore
<1>3. ASSUME NEW v \in Node, NEW w \in Node, NEW c \in Node, RestoredRoot(i, v, w, c)
      PROVE  ExitInv' /\ Session!OpenPane(i, {v, w})
  <2>1. /\ t[v] = "FREE" /\ t[w] = "FREE" /\ NULL \notin Node
        /\ \A x \in Node : t[x] = "VIEW" => t'[x] = "VIEW"
        /\ \A j \in Pane : t_root'[j] = IF j = i THEN c ELSE t_root[j]
        /\ \A j \in Pane : t_focused'[j] = IF j = i THEN v ELSE t_focused[j]
    BY <1>3, ConstAssumption DEF RestoredRoot, StepStore, ShownStore, StoreOK
  <2>2. \A j \in Pane : PaneViews(j)' = IF j = i THEN {v, w} ELSE PaneViews(j)
    BY <1>1, <1>3, RestoredRootShown DEF StepStore
  <2> QED BY <1>1, <2>1, <2>2, NewViewsOpen DEF StepStore
<1> QED BY <1>2, <1>3 DEF Opened

LEMMA ProgramExits ==
    ASSUME ExitInv, NEW n \in Node, ProgramExit(n)
    PROVE  ExitInv' /\ [Session!Exit(n)]_(Session!vars)
<1>1. /\ \A i \in Pane : PaneViews(i)' = PaneViews(i) /\ t_root'[i] = t_root[i]
      /\ t[n] = "VIEW" /\ t' = t /\ exited' = exited \cup {n}
      /\ Running /\ UNCHANGED <<t_focused, t_root_index, status>>
  BY SameViews DEF ProgramExit, heapVars, focusVars
<1>2. ExitInv'
  BY <1>1 DEF ExitInv
<1>3. {x \in exited : InTree(x)}'
          = {x \in exited : InTree(x)} \cup {x \in {n} : \E i \in Pane : x \in PaneViews(i)}
  BY <1>1, <1>2, DoneShown, DoneShownAfter
<1>4. CASE \E i \in Pane : n \in PaneViews(i)
  <2>1. {x \in exited : InTree(x)}' = {x \in exited : InTree(x)} \cup {n}
    BY <1>3, <1>4
  <2> QED BY <1>1, <1>2, <1>4, <2>1
          DEF Session!Exit, Session!Running, Session!Unused, Session!Pane, Pane, Running
<1>5. CASE ~ \E i \in Pane : n \in PaneViews(i)
  <2>1. {x \in exited : InTree(x)}' = {x \in exited : InTree(x)}
    BY <1>3, <1>5
  <2> QED BY <1>1, <1>2, <2>1 DEF Session!vars
<1> QED BY <1>4, <1>5

LEMMA Quits ==
    ASSUME ExitInv, Running, Quit
    PROVE  ExitInv' /\ Session!Quit
<1>1. /\ \A i \in Pane : PaneViews(i)' = PaneViews(i) /\ t_root'[i] = t_root[i]
      /\ ExitInv' /\ {x \in exited : InTree(x)}' = {x \in exited : InTree(x)}
  BY SameViews DEF ioVars, ExitInv, Quit, storeVars
<1>2. status' = "exited" /\ t_focused' = t_focused /\ t_root_index' = t_root_index
  BY DEF Quit, storeVars, focusVars
<1> QED BY <1>1, <1>2 DEF Session!Quit, Session!Running, Running

-----------------------------------------------------------------------------
(* A step of mtm as the session sees it. *)
SessionStep == ExitInv' /\ [Session!Next]_(Session!vars)

LEMMA SessionActions ==
    ASSUME ExitInv',
           \/ \E v \in Node : Session!Open(v) \/ Session!Move(v) \/ Session!Close(v)
           \/ \E v \in Node : [Session!Exit(v)]_(Session!vars)
           \/ \E i \in Pane, v, w \in Node : Session!OpenPane(i, {v, w})
           \/ \E i \in Pane : Session!Enter(i)
           \/ Session!Quit
           \/ UNCHANGED Session!vars
    PROVE  SessionStep
BY DEF SessionStep, Session!Next, Session!Pane, Pane

LEMMA IdleStep == ASSUME ExitInv, Idle PROVE SessionStep
BY Unseen, SessionActions DEF Idle, storeVars, focusVars, ioVars, ExitInv

LEMMA KeyStep ==
    ASSUME StepStore, ExitInv, Everyday, Key
    PROVE  SessionStep
<1>1. Running /\ Focused \in PaneViews(t_root_index) /\ Commanded(Focused)
  <2>1. Current # NULL /\ Commanded(Focused) /\ t_root_index \in Pane
    BY KeyRuns, ShownIsHeap DEF StepStore, Everyday, ShownStore, StoreOK
  <2>2. Focused \in PaneViews(t_root_index)
    BY <2>1 DEF StepStore, ShownStore, ShownInv, FocusShown, Current, Focused
  <2> QED BY <2>1, <2>2 DEF Key
<1>2. CASE Idle
  BY <1>2, IdleStep
<1>3. ASSUME NEW v \in PaneViews(t_root_index), FocusOnly(v) PROVE SessionStep
  <2>1. v \in Node
    BY WalkInNode
  <2> QED BY <1>1, <1>3, <2>1, FocusMoves, SessionActions DEF FocusOnly, StepStore
<1>4. ASSUME NEW v \in Node, NEW c \in Node, SplitWith(Focused, v, c) PROVE SessionStep
  BY <1>1, <1>4, SplitOpens, SessionActions
<1>5. CASE Deletes(Focused)
  <2>1. Focused \in Node
    BY <1>1, WalkInNode
  <2> QED BY <1>1, <1>5, <2>1, DeletesCloses, SessionActions
<1>6. ASSUME NEW kind \in Requests, Request(kind) PROVE SessionStep
  BY <1>6, Unseen, SessionActions DEF Request, focusVars, ioVars, ExitInv
<1>7. CASE Quit
  BY <1>1, <1>7, Quits, SessionActions
<1> QED BY <1>1, <1>2, <1>3, <1>4, <1>5, <1>6, <1>7 DEF Commanded, Everyday

(* A view getinput closes was readable because its program had exited. *)
LEMMA InputStep ==
    ASSUME StepStore, ExitInv, GetInput
    PROVE  SessionStep
<1>1. ASSUME NEW v \in Closed, Deletes(v) PROVE SessionStep
  <2>1. v \in PaneViews(t_root_index) /\ v \in exited /\ v \in Node
    BY WalkInNode DEF Closed
  <2> QED BY <1>1, <2>1, DeletesCloses, SessionActions DEF GetInput
<1> QED BY <1>1, InputRuns, ShownIsHeap, IdleStep DEF StepStore

LEMMA SwitchStep ==
    ASSUME StepStore, ExitInv, Everyday, Switch
    PROVE  SessionStep
<1>1. Running /\ Switched
  BY SwitchRuns, ShownIsHeap DEF Switch, StepStore, Everyday
<1>2. CASE Stayed
  BY <1>2, Unseen, SessionActions DEF Stayed, focusVars, ioVars, ExitInv
<1>3. CASE Refocused
  <2>1. PICK v \in FirstView(Current) : focus(t_root_index, v)
    BY <1>3 DEF Refocused
  <2>2. t_root_index \in Pane /\ Current \in Node
    BY <1>3 DEF Refocused, StepStore, ShownStore, StoreOK, Current, NodeOrNull
  <2>3. Current \in Walk(Kids, Current)
    BY <2>2, KidsType, WalkClosed DEF StepStore, ShownStore
  <2>4. v \in PaneViews(t_root_index) /\ v \in Node
    BY <2>1, <2>2, <2>3, FirstViewReached, PaneWalks, WalkInNode, ConstAssumption
       DEF StepStore, ShownStore, ViewsFrom, Current
  <2> QED BY <1>1, <1>3, <2>1, <2>4, FocusMoves, SessionActions DEF Refocused, StepStore
<1>4. ASSUME NEW i \in Pane, Entered(i) PROVE SessionStep
  BY <1>1, <1>4, PaneEnters, SessionActions DEF StepStore
<1>5. ASSUME NEW i \in Pane, Opened(i) PROVE SessionStep
  BY <1>1, <1>5, PaneOpens, SessionActions
<1> QED BY <1>1, <1>2, <1>3, <1>4, <1>5 DEF Switched

LEMMA EveryStep ==
    ASSUME StepStore, ExitInv, Everyday, [Next]_vars
    PROVE  SessionStep
<1>1. CASE Select \/ KeysDone \/ UNCHANGED vars
  <2>1. UNCHANGED <<heapVars, slotVars, t_focused, exited, t_root_index, status>>
    BY <1>1 DEF Select, KeysDone, vars, storeVars, focusVars, ioVars
  <2> QED BY <2>1, Unseen, SessionActions
<1>2. ASSUME NEW n \in Node, ProgramExit(n) PROVE SessionStep
  BY <1>2, ProgramExits, SessionActions
<1> QED BY <1>1, <1>2, KeyStep, InputStep, SwitchStep DEF Next, Loop

(* Of a session that satisfies Everyday, the code implements                *)
(* TerminalSession: whatever the tree, the descriptors and the order of the *)
(* loop, terminals open beside the focus, close only when the user or their *)
(* program ended them, and touch no pane but the current one (run, main,    *)
(* handlechar, split, deletenode, getinput).                                *)
THEOREM SessionImplemented == ASSUME Everyday PROVE Spec => ImplementsSession
<1>1. Init => ExitInv /\ Session!Init
  <2> SUFFICES ASSUME Init PROVE ExitInv /\ Session!Init
    OBVIOUS
  <2>1. PICK v \in Node :
      /\ t = [n \in Node |-> IF n = v THEN "VIEW" ELSE "FREE"]
      /\ c1 = [n \in Node |-> NULL] /\ c2 = [n \in Node |-> NULL]
      /\ t_root = [i \in Pane |-> IF i = 0 THEN v ELSE NULL]
      /\ t_focused = [i \in Pane |-> IF i = 0 THEN v ELSE NULL]
      /\ exited = {} /\ t_root_index = 0 /\ status = "running"
    BY DEF Init
  <2>2. Kids \in [Node -> SUBSET Node] /\ Kids[v] = {}
    BY <2>1 DEF Kids
  <2>3. Walk(Kids, v) = {v}
    BY <2>2, WalkLeaf
  <2>4. \A i \in Pane : PaneViews(i) = IF i = 0 THEN {v} ELSE {}
    BY <2>1, <2>3, PaneWalks, ConstAssumption DEF ViewsFrom
  <2> QED BY <2>1, <2>4 DEF ExitInv, Session!Init, Session!Pane, Pane
<1>2. ShownStore /\ LiveInv /\ ShownStore' /\ ExitInv /\ [Next]_vars
         => ExitInv' /\ [Session!Next]_(Session!vars)
  BY EveryStep DEF StepStore, ShownStore, SessionStep
<1>3. HeapStore /\ ShownInv => ShownStore
  BY DEF HeapStore, ShownStore
<1>4. Undisturbed /\ CoreCommands /\ "MOVE_OTHER" \notin Commands /\ Typeahead = FALSE
  BY DEF Everyday, Undisturbed
<1> QED
  BY <1>1, <1>2, <1>3, <1>4, LiveAlways, ShownAlways, PTL DEF Spec, ImplementsSession,
     Session!Spec

=============================================================================
