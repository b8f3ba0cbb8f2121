----------------------------- MODULE MCRunLogs -----------------------------
(***************************************************************************)
(* RunLogs with two builds that differ in their names only.                *)
(***************************************************************************)
EXTENDS RunLogs, TLC

BuildSymmetry == Permutations(Builds)
=============================================================================
