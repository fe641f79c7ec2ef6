------------------------------ MODULE MCLayout ------------------------------
(***************************************************************************)
(* Layout on small terminals: two that differ by one line, on which four   *)
(* views can stand beside or above each other, one with room for a single  *)
(* split, and one on which a second view does not fit.                     *)
(***************************************************************************)
EXTENDS Layout, TLC

CONSTANTS v1, v2, v3, v4

MCViews == {v1, v2, v3, v4}
MCSizes == {<<12, 13>>, <<11, 13>>, <<5, 6>>, <<2, 1>>}

(* The views are interchangeable. *)
MCSymmetry == Permutations(MCViews)
=============================================================================
