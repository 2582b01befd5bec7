------------------------- MODULE GovernorRefinement -------------------------
(***************************************************************************)
(* Governor, statement by statement, implements CallBudget: a slot is      *)
(* drawn when try_consume commits, and settled when the outcome is         *)
(* committed, was never reported, or died with its run.                    *)
(***************************************************************************)
EXTENDS Governor

Budget == INSTANCE CallBudget WITH
    used    <- callsUsed,
    streak  <- failures,
    tripped <- {r \in Runs : circuitOpen[r]},
    inCall  <- {r \in Runs : pc[r] \in Calling}

\* Every step of the SQL transactions is one atomic step of the promised
\* budget, or none: readers of the tables cannot tell the difference.
ImplementsCallBudget == Budget!Spec
=============================================================================
