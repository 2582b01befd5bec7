----------------------------- MODULE MCGovernor -----------------------------
(* Governor and its refinement of CallBudget on a small instance.           *)
EXTENDS GovernorRefinement
=============================================================================
