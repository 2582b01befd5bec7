-------------------------- MODULE ReviewRefinement --------------------------
(***************************************************************************)
(* As long as no two requests name the same group at once, the unprotected *)
(* read-decide-write of Review implements the atomic ReviewLedger.         *)
(***************************************************************************)
EXTENDS Review

Ledger == INSTANCE ReviewLedger WITH
    status <- [g \in Groups |-> rows[g].status],
    trail  <- events

\* Every committed review is a decision on a group that was open when it
\* committed, not merely when it was read.
ImplementsReviewLedger == Ledger!Spec
=============================================================================
