--------------------------- MODULE TerminalSession ---------------------------
(***************************************************************************)
(* What mtm promises its user, without trees, pointers, descriptors or the *)
(* order of its loop: a session is a row of panes, each a set of virtual   *)
(* terminals of which one has the focus.  Terminals are opened and closed  *)
(* one at a time, a terminal is only closed because the user asked for it  *)
(* while it had the focus or because its own program has exited, nothing   *)
(* happens to a pane that is not the current one, and the session ends     *)
(* with its last terminal (README.rst, "Usage"; mtm.1).                    *)
(***************************************************************************)
EXTENDS Integers, FiniteSets

CONSTANTS View,    \* the virtual terminals
          PaneMax, \* the number of panes
          NULL

(* What the theorems assume of the constants. *)
SessionConstants == PaneMax \in Nat \ {0} /\ NULL \notin View

Pane == 0 .. (PaneMax - 1)

VARIABLES shown,    \* the terminals of each pane
          focused,  \* the terminal with the focus in each pane that has any
          done,     \* the shown terminals whose program has exited
          current,  \* the pane on the screen
          status    \* "running" or "exited"

vars == <<shown, focused, done, current, status>>

Running == status = "running"
Unused(v) == \A i \in Pane : v \notin shown[i]

Init == \E v \in View :
    /\ shown = [i \in Pane |-> IF i = 0 THEN {v} ELSE {}]
    /\ focused = [i \in Pane |-> IF i = 0 THEN v ELSE NULL]
    /\ done = {} /\ current = 0 /\ status = "running"

(* A new terminal beside the focused one takes the focus. *)
Open(v) ==
    /\ Running
    /\ UNCHANGED <<current, status>>
    /\ focused' = [focused EXCEPT ![current] = v]
    /\ shown[current] # {} /\ Unused(v)
    /\ shown' = [shown EXCEPT ![current] = @ \cup {v}]
    /\ UNCHANGED done

Move(v) ==
    /\ Running
    /\ UNCHANGED <<current, status>>
    /\ focused' = [focused EXCEPT ![current] = v]
    /\ v \in shown[current]
    /\ UNCHANGED <<shown, done>>

(* Nothing is left to show. *)
AllGone(s) == \A i \in Pane : s[i] = {}

(* A terminal of the current pane goes.  If it had the focus, some other   *)
(* terminal of the pane gets it; with the last one of all mtm ends.        *)
Close(v) ==
    LET left == shown[current] \ {v} IN
    /\ Running /\ UNCHANGED current
    /\ v \in shown[current]
    /\ v = focused[current] \/ v \in done
    /\ shown' = [shown EXCEPT ![current] = left]
    /\ \E w \in IF left = {} THEN {NULL}
                ELSE IF v = focused[current] THEN left ELSE {focused[current]} :
         focused' = [focused EXCEPT ![current] = w]
    /\ done' = done \ {v}
    /\ status' = IF AllGone(shown') THEN "exited" ELSE "running"

(* A free pane is filled and shown; all others keep their terminals. *)
OpenPane(i, S) ==
    /\ Running
    /\ current' = i
    /\ \E v \in S : focused' = [focused EXCEPT ![i] = v]
    /\ UNCHANGED status
    /\ shown[i] = {} /\ \A v \in S : Unused(v)
    /\ shown' = [shown EXCEPT ![i] = S]
    /\ UNCHANGED done

(* Another pane comes to the screen with the focus where it was. *)
Enter(i) ==
    /\ Running
    /\ current' = i
    /\ UNCHANGED <<focused, status>>
    /\ shown[i] # {}
    /\ UNCHANGED <<shown, done>>

Exit(v) ==
    /\ Running
    /\ UNCHANGED <<focused, current, status>>
    /\ ~Unused(v)
    /\ done' = done \cup {v}
    /\ UNCHANGED shown

Quit == Running /\ status' = "exited" /\ UNCHANGED <<shown, focused, done, current>>

Next ==
    \/ \E v \in View : Open(v) \/ Move(v) \/ Close(v) \/ Exit(v)
    \/ \E i \in Pane, v, w \in View : OpenPane(i, {v, w})
    \/ \E i \in Pane : Enter(i)
    \/ Quit

Spec == Init /\ [][Next]_vars

-----------------------------------------------------------------------------
TypeOK ==
    /\ shown \in [Pane -> SUBSET View]
    /\ focused \in [Pane -> View \cup {NULL}]
    /\ done \subseteq View
    /\ current \in Pane
    /\ status \in {"running", "exited"}

(* No terminal is in two panes, and the focus of a pane is in the pane. *)
OnePlace ==
    /\ \A i, j \in Pane : i # j => shown[i] \cap shown[j] = {}
    /\ \A i \in Pane : focused[i] \in shown[i] \/ (shown[i] = {} /\ focused[i] = NULL)

(* The session lives exactly as long as some terminal does, unless the     *)
(* user ended it.                                                          *)
NothingLeftEnds == Running => \E i \in Pane : shown[i] # {}
=============================================================================
