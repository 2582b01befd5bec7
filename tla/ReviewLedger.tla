---------------------------- MODULE ReviewLedger ----------------------------
(***************************************************************************)
(* What the review endpoint promises: a ledger in which each decision is   *)
(* taken, in one step, about a group that is open at that moment; approval *)
(* and rejection close it for good, escalation only leaves its trace.      *)
(***************************************************************************)
EXTENDS Sequences

CONSTANTS Groups, Reviewers, Requests

VARIABLES
    status,    \* group -> "absent" or its MatchGroup status
    trail      \* the decisions, in order, each with its request

vars == <<status, trail>>

Verdict(action) ==
    CASE action = "APPROVED"  -> "VERIFIED"
      [] action = "REJECTED"  -> "REJECTED"
      [] action = "ESCALATED" -> "PENDING_REVIEW"

Init ==
    /\ status = [g \in Groups |-> "absent"]
    /\ trail = <<>>

Publish ==
    /\ \A g \in Groups : status[g] = "absent"
    /\ status' \in [Groups -> {"absent", "VERIFIED", "PENDING_REVIEW", "REJECTED"}]
    /\ UNCHANGED trail

Decide(q, g, reviewer, action) ==
    /\ status[g] = "PENDING_REVIEW"
    /\ status' = [status EXCEPT ![g] = Verdict(action)]
    /\ trail' = Append(trail, [event_id |-> q, group |-> g, reviewer |-> reviewer,
                               action |-> action])

Next ==
    \/ Publish
    \/ \E q \in Requests, g \in Groups, reviewer \in Reviewers,
          action \in {"APPROVED", "REJECTED", "ESCALATED"} :
             Decide(q, g, reviewer, action)

Spec == Init /\ [][Next]_vars
=============================================================================
