---------------------------- MODULE MCRunService ----------------------------
(* RunService on small instances.                                          *)
EXTENDS RunService, TLC

RunSymmetry == Permutations(Runs)
=============================================================================
