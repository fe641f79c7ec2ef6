------------------------------ MODULE MCRestore ------------------------------
(***************************************************************************)
(* Restore with six views, one more than save_restore opens, in two slots. *)
(***************************************************************************)
EXTENDS Restore, TLC

CONSTANTS v1, v2, v3, v4, v5, v6

MCViews == {v1, v2, v3, v4, v5, v6}

(* The views are interchangeable. *)
MCSymmetry == Permutations(MCViews)

=============================================================================
