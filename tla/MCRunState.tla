----------------------------- MODULE MCRunState -----------------------------
(***************************************************************************)
(* Two or three calls at a time on one run.                                *)
(***************************************************************************)
EXTENDS RunState, TLC

CONSTANTS c1, c2, c3

MCCallers == {c1, c2, c3}

Symmetry == Permutations(MCCallers)
=============================================================================
