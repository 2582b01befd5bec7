----------------------------- MODULE CallBudget -----------------------------
(***************************************************************************)
(* What the governor promises its callers, with no database in sight: a    *)
(* pool of call slots per day that is never overdrawn, and per run a       *)
(* breaker that trips on Threshold failures in a row or on one rate limit, *)
(* and then grants the run nothing more.                                   *)
(***************************************************************************)
EXTENDS Naturals

CONSTANTS Runs, Days, Ceiling, Threshold

VARIABLES
    used,      \* day -> slots drawn
    streak,    \* run -> failures since its last success
    tripped,   \* runs whose breaker is open
    inCall     \* runs that drew a slot and have not settled it

vars == <<used, streak, tripped, inCall>>

Init ==
    /\ used = [d \in Days |-> 0]
    /\ streak = [r \in Runs |-> 0]
    /\ tripped = {}
    /\ inCall = {}

\* One slot of one day, in one step.
Grant(r) ==
    /\ r \notin inCall \cup tripped
    /\ \E d \in Days :
          /\ used[d] < Ceiling
          /\ used' = [used EXCEPT ![d] = @ + 1]
    /\ inCall' = inCall \cup {r}
    /\ UNCHANGED <<streak, tripped>>

Settle(r) ==
    /\ r \in inCall
    /\ inCall' = inCall \ {r}
    /\ UNCHANGED used

Succeed(r) ==
    /\ Settle(r)
    /\ streak' = [streak EXCEPT ![r] = 0]
    /\ UNCHANGED tripped

\* The threshold always trips the breaker; a rate limit trips it earlier.
Fail(r) ==
    /\ Settle(r)
    /\ streak' = [streak EXCEPT ![r] = @ + 1]
    /\ \/ tripped' = tripped \cup {r}
       \/ streak'[r] < Threshold /\ UNCHANGED tripped

\* The outcome never reaches the governor: the slot stays spent.
Lose(r) ==
    /\ Settle(r)
    /\ UNCHANGED <<streak, tripped>>

Next == \E r \in Runs : Grant(r) \/ Succeed(r) \/ Fail(r) \/ Lose(r)

Spec == Init /\ [][Next]_vars
=============================================================================
