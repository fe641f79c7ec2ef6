------------------------ MODULE TerminalSessionProofs ------------------------
(***************************************************************************)
(* Proofs about the session a user sees, for every number of terminals and *)
(* panes.  What Multiplexer implements of it inherits these properties.    *)
(***************************************************************************)
EXTENDS TerminalSession, TLAPS

(* Every variable keeps its type; in particular the pane on the screen is  *)
(* one of the PaneMax panes.                                               *)
THEOREM SessionTypes == ASSUME SessionConstants PROVE Spec => []TypeOK
<1>1. Init => TypeOK
  BY DEF SessionConstants, Init, TypeOK, Pane
<1>2. TypeOK /\ [Next]_vars => TypeOK'
  <2> SUFFICES ASSUME TypeOK, [Next]_vars PROVE TypeOK'
    OBVIOUS
  <2>1. ASSUME NEW v \in View, Open(v) PROVE TypeOK'
    BY <2>1 DEF TypeOK, Open
  <2>2. ASSUME NEW v \in View, Move(v) PROVE TypeOK'
    BY <2>2 DEF TypeOK, Move
  <2>3. ASSUME NEW v \in View, Close(v) PROVE TypeOK'
    BY <2>3 DEF TypeOK, Close
  <2>4. ASSUME NEW v \in View, Exit(v) PROVE TypeOK'
    BY <2>4 DEF TypeOK, Exit
  <2>5. ASSUME NEW i \in Pane, NEW v \in View, NEW w \in View, OpenPane(i, {v, w})
        PROVE  TypeOK'
    BY <2>5 DEF TypeOK, OpenPane
  <2>6. ASSUME NEW i \in Pane, Enter(i) PROVE TypeOK'
    BY <2>6 DEF TypeOK, Enter
  <2>7. CASE Quit
    BY <2>7 DEF TypeOK, Quit
  <2>8. CASE UNCHANGED vars
    BY <2>8 DEF TypeOK, vars
  <2> QED BY <2>1, <2>2, <2>3, <2>4, <2>5, <2>6, <2>7, <2>8 DEF Next
<1> QED BY <1>1, <1>2, PTL DEF Spec

(* No terminal is ever in two panes, so closing one never takes a terminal *)
(* from a pane that is not on the screen; and the keyboard of a pane goes  *)
(* to a terminal of that pane (README.rst, "exactly one virtual terminal   *)
(* is focused").                                                           *)
THEOREM SessionOnePlace == ASSUME SessionConstants PROVE Spec => []OnePlace
<1>1. Init => OnePlace
  BY DEF Init, OnePlace, Pane
<1>2. TypeOK /\ OnePlace /\ [Next]_vars => OnePlace'
  <2> SUFFICES ASSUME TypeOK, OnePlace, [Next]_vars PROVE OnePlace'
    OBVIOUS
  <2>1. ASSUME NEW v \in View, Open(v) PROVE OnePlace'
    BY <2>1 DEF TypeOK, OnePlace, Open, Unused
  <2>2. ASSUME NEW v \in View, Move(v) PROVE OnePlace'
    BY <2>2 DEF TypeOK, OnePlace, Move
  <2>3. ASSUME NEW v \in View, Close(v) PROVE OnePlace'
    <3> DEFINE left == shown[current] \ {v}
    <3>1. /\ shown' = [shown EXCEPT ![current] = left] /\ current \in Pane
          /\ shown \in [Pane -> SUBSET View] /\ focused \in [Pane -> View \cup {NULL}]
      BY <2>3 DEF TypeOK, Close
    <3>2. PICK w \in IF left = {} THEN {NULL}
                    ELSE IF v = focused[current] THEN left ELSE {focused[current]} :
             focused' = [focused EXCEPT ![current] = w]
      BY <2>3 DEF Close
    <3>3. v \in shown[current]
      BY <2>3 DEF Close
    <3> QED BY <3>1, <3>2, <3>3 DEF OnePlace
  <2>4. ASSUME NEW v \in View, Exit(v) PROVE OnePlace'
    BY <2>4 DEF OnePlace, Exit
  <2>5. ASSUME NEW i \in Pane, NEW v \in View, NEW w \in View, OpenPane(i, {v, w})
        PROVE  OnePlace'
    BY <2>5 DEF TypeOK, OnePlace, OpenPane, Unused
  <2>6. ASSUME NEW i \in Pane, Enter(i) PROVE OnePlace'
    BY <2>6 DEF OnePlace, Enter
  <2>7. CASE Quit
    BY <2>7 DEF OnePlace, Quit
  <2>8. CASE UNCHANGED vars
    BY <2>8 DEF OnePlace, vars
  <2> QED BY <2>1, <2>2, <2>3, <2>4, <2>5, <2>6, <2>7, <2>8 DEF Next
<1> QED BY <1>1, <1>2, SessionTypes, PTL DEF Spec

(* mtm ends with its last terminal: while it runs, some pane has one, so    *)
(* there is always a pane to show (README.rst, "mtm will exit once all      *)
(* virtual terminals are closed").                                          *)
THEOREM SessionEnds == ASSUME SessionConstants PROVE Spec => []NothingLeftEnds
<1>1. Init => NothingLeftEnds
  BY DEF SessionConstants, Init, NothingLeftEnds, Pane
<1>2. TypeOK /\ NothingLeftEnds /\ [Next]_vars => NothingLeftEnds'
  <2> SUFFICES ASSUME TypeOK, NothingLeftEnds, [Next]_vars PROVE NothingLeftEnds'
    OBVIOUS
  <2>1. ASSUME NEW v \in View, Open(v) PROVE NothingLeftEnds'
    BY <2>1 DEF TypeOK, NothingLeftEnds, Open, Running
  <2>2. ASSUME NEW v \in View, Move(v) PROVE NothingLeftEnds'
    BY <2>2 DEF NothingLeftEnds, Move, Running
  <2>3. ASSUME NEW v \in View, Close(v) PROVE NothingLeftEnds'
    BY <2>3 DEF NothingLeftEnds, Close, AllGone, Running
  <2>4. ASSUME NEW v \in View, Exit(v) PROVE NothingLeftEnds'
    BY <2>4 DEF NothingLeftEnds, Exit, Running
  <2>5. ASSUME NEW i \in Pane, NEW v \in View, NEW w \in View, OpenPane(i, {v, w})
        PROVE  NothingLeftEnds'
    BY <2>5 DEF TypeOK, NothingLeftEnds, OpenPane, Running
  <2>6. ASSUME NEW i \in Pane, Enter(i) PROVE NothingLeftEnds'
    BY <2>6 DEF NothingLeftEnds, Enter, Running
  <2>7. CASE Quit
    BY <2>7 DEF NothingLeftEnds, Quit, Running
  <2>8. CASE UNCHANGED vars
    BY <2>8 DEF NothingLeftEnds, vars, Running
  <2> QED BY <2>1, <2>2, <2>3, <2>4, <2>5, <2>6, <2>7, <2>8 DEF Next
<1> QED BY <1>1, <1>2, SessionTypes, PTL DEF Spec
=============================================================================
