---------------------------- MODULE MCMultiplexer ----------------------------
(* Multiplexer on a few addresses and panes, and its refinement mapping to  *)
(* the session a user sees.                                                 *)
EXTENDS Multiplexer, TLC

(* Addresses are only compared, so any renaming of them gives the same      *)
(* behaviours.                                                              *)
NodeSymmetry == Permutations(Node)

(* The pane's terminals are the views of its tree; a pane without a tree    *)
(* has no focus, whatever stale pointer t_focused still holds.              *)
Session == INSTANCE TerminalSession WITH
    View <- Node,
    shown <- [i \in Pane |-> PaneViews(i)],
    focused <- [i \in Pane |-> IF t_root[i] = NULL THEN NULL ELSE t_focused[i]],
    done <- {n \in exited : InTree(n)},
    current <- t_root_index,
    status <- status

(* The code implements the session: every step of the tree, the loop and    *)
(* the switch is a step of the session or invisible in it.                  *)
ImplementsSession == Session!Spec
=============================================================================
