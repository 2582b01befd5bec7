------------------------------ MODULE MCReview ------------------------------
(* Review on small instances.                                              *)
EXTENDS ReviewRefinement, TLC

Symmetric == Permutations(Groups) \cup Permutations(Reviewers)
                \cup Permutations(Requests) \cup Permutations(Audits)
=============================================================================
