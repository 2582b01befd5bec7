----------------------------- MODULE RunService -----------------------------
(***************************************************************************)
(* The life of a reconciliation run as the API sees it: POST /reconcile    *)
(* (service.execute_reconciliation) runs the pipeline, whose Stage 6 loop  *)
(* draws Groq calls from the budget all runs share, then asks the governor *)
(* for its status, derives the run's own status from it and saves          *)
(* everything at once; GET /report reads it back, with the governor's      *)
(* figures of that later moment.                                           *)
(*                                                                         *)
(* The governor's methods are atomic here: Governor, which has their       *)
(* statements, implements CallBudget, which has them in one step each.     *)
(***************************************************************************)
EXTENDS Naturals

CONSTANTS
    Runs,         \* run_ids, one per POST /reconcile
    LastDay,      \* bound: the calendar days 1..LastDay
    MaxSeekers,   \* bound: records a run takes to Stage 6 with candidates
    Ceiling,      \* Settings.groq_daily_call_ceiling
    Threshold     \* Settings.groq_circuit_breaker_max_consecutive_failures

ASSUME RunServiceAssumption ==
    /\ LastDay \in Nat \ {0}
    /\ MaxSeekers \in Nat
    /\ Ceiling \in Nat
    /\ Threshold \in Nat \ {0}

VARIABLES
    today,        \* the UTC calendar day
    callsUsed,    \* daily_call_budget: day -> calls_used
    streak,       \* circuit_breaker_state: run -> consecutive_failures
    tripped,      \* circuit_breaker_state: the runs with circuit_open
    pc,           \* run -> where its POST /reconcile is
    startedAt,    \* run -> the day of started_at
    seekers,      \* run -> seekers Stage 6 has still to try
    exceptions,   \* run -> some ReconciliationException was raised
    callEvents,   \* run -> its Stage 6 DecisionEvents of attempted calls
    snapshot,     \* run -> what governor.status answered
    runRow,       \* table runs, with the events saved under it
    report,       \* run -> the figures of its last GET /report
    declined      \* history: the runs the governor refused a call

governor == <<callsUsed, streak, tripped>>
vars == <<today, callsUsed, streak, tripped, pc, startedAt, seekers, exceptions,
          callEvents, snapshot, runRow, report, declined>>

Days == 1..LastDay
Reply == {"match", "no_match", "transient", "rate_limited", "unexpected"}
Failure == {"transient", "rate_limited"}
Place == {"new", "stage6", "calling", "ended", "saved", "lost"}
Status == {"COMPLETE", "COMPLETED_WITH_EXCEPTIONS", "DEGRADED"}
Snapshot == [allowed : BOOLEAN, calls : Nat]
\* A stored run: its status, and how many call events its trail holds.
RunRow == [status : Status, call_events : Nat]
Report == [day : Days, groq_calls_made : Nat, reconstructed_call_events : Nat]
None == [absent |-> TRUE]

Init ==
    /\ today = 1
    /\ callsUsed = [d \in Days |-> 0]
    /\ streak = [r \in Runs |-> 0]
    /\ tripped = {}
    /\ pc = [r \in Runs |-> "new"]
    /\ startedAt = [r \in Runs |-> 1]
    /\ seekers = [r \in Runs |-> 0]
    /\ exceptions = [r \in Runs |-> FALSE]
    /\ callEvents = [r \in Runs |-> 0]
    /\ snapshot = [r \in Runs |-> [allowed |-> TRUE, calls |-> 0]]
    /\ runRow = [r \in Runs |-> None]
    /\ report = [r \in Runs |-> None]
    /\ declined = {}

Allowed(r) == r \notin tripped /\ callsUsed[today] < Ceiling

-----------------------------------------------------------------------------
(* POST /reconcile *)

\* Stages 1-5 and the first verification: what they leave to Stage 6, and
\* whether they, or a seeker without candidates, raised an exception.
Reconcile(r) ==
    /\ pc[r] = "new"
    /\ pc' = [pc EXCEPT ![r] = "stage6"]
    /\ startedAt' = [startedAt EXCEPT ![r] = today]
    /\ \E n \in 0..MaxSeekers : seekers' = [seekers EXCEPT ![r] = n]
    /\ \E raised \in BOOLEAN : exceptions' = [exceptions EXCEPT ![r] = raised]
    /\ UNCHANGED <<today, governor, callEvents, snapshot, runRow, report, declined>>

\* One seeker has had its turn; GATEWAY records it was offered, or matched
\* with, lose theirs.
TurnTaken(r) == \E n \in 0..(seekers[r] - 1) : seekers' = [seekers EXCEPT ![r] = n]

TryConsumeDeclined(r) ==
    /\ pc[r] = "stage6"
    /\ seekers[r] > 0
    /\ ~Allowed(r)
    /\ TurnTaken(r)
    /\ exceptions' = [exceptions EXCEPT ![r] = TRUE]
    /\ declined' = declined \cup {r}
    /\ UNCHANGED <<today, governor, pc, startedAt, callEvents, snapshot, runRow,
                   report>>

\* Mutant: the day's row is written from the run's own count of calls.
TryConsumeOwnCount(r) ==
    /\ pc[r] = "stage6"
    /\ seekers[r] > 0
    /\ Allowed(r)
    /\ callsUsed' = [callsUsed EXCEPT ![today] = callEvents[r] + 1]
    /\ pc' = [pc EXCEPT ![r] = "calling"]
    /\ UNCHANGED <<today, streak, tripped, startedAt, seekers, exceptions,
                   callEvents, snapshot, runRow, report, declined>>

TryConsumeAllowed(r) ==
    /\ pc[r] = "stage6"
    /\ seekers[r] > 0
    /\ Allowed(r)
    /\ callsUsed' = [callsUsed EXCEPT ![today] = @ + 1]
    /\ pc' = [pc EXCEPT ![r] = "calling"]
    /\ UNCHANGED <<today, streak, tripped, startedAt, seekers, exceptions,
                   callEvents, snapshot, runRow, report, declined>>

\* Mutant: a success takes one failure back instead of ending the streak.
BookDecrementing(r, reply) ==
    \/ /\ reply \in {"match", "no_match"}
       /\ streak' = [streak EXCEPT ![r] = @ - 1]
       /\ UNCHANGED tripped
    \/ /\ reply \in Failure
       /\ streak' = [streak EXCEPT ![r] = @ + 1]
       /\ tripped' = tripped \cup
             {x \in {r} : reply = "rate_limited" \/ streak[r] + 1 >= Threshold}
    \/ /\ reply = "unexpected"
       /\ UNCHANGED <<streak, tripped>>

\* record_success, record_failure, or neither for an unexpected error.
Book(r, reply) ==
    \/ /\ reply \in {"match", "no_match"}
       /\ streak' = [streak EXCEPT ![r] = 0]
       /\ UNCHANGED tripped
    \/ /\ reply \in Failure
       /\ streak' = [streak EXCEPT ![r] = @ + 1]
       /\ tripped' = tripped \cup
             {x \in {r} : reply = "rate_limited" \/ streak[r] + 1 >= Threshold}
    \/ /\ reply = "unexpected"
       /\ UNCHANGED <<streak, tripped>>

\* The call ends and is booked; anything but a match raises an exception.
GroqAnswers(r) ==
    \E reply \in Reply :
        /\ pc[r] = "calling"
        /\ pc' = [pc EXCEPT ![r] = "stage6"]
        /\ Book(r, reply)
        /\ TurnTaken(r)
        /\ exceptions' = [exceptions EXCEPT ![r] = @ \/ reply # "match"]
        /\ callEvents' = [callEvents EXCEPT ![r] = @ + 1]
        /\ UNCHANGED <<today, callsUsed, startedAt, snapshot, runRow, report, declined>>

\* governor.status, when the pipeline is through: day and rows of now.
TakeStatus(r) ==
    /\ pc[r] = "stage6"
    /\ seekers[r] = 0
    /\ pc' = [pc EXCEPT ![r] = "ended"]
    /\ snapshot' = [snapshot EXCEPT ![r] = [allowed |-> Allowed(r), calls |-> callsUsed[today]]]
    /\ UNCHANGED <<today, governor, startedAt, seekers, exceptions, callEvents,
                   runRow, report, declined>>

\* Mutant: exceptions are looked at first.
StatusExceptionsFirst(r) ==
    CASE exceptions[r]         -> "COMPLETED_WITH_EXCEPTIONS"
      [] ~snapshot[r].allowed  -> "DEGRADED"
      [] OTHER                 -> "COMPLETE"

\* Mutant: any exception counts as degradation.
StatusOfAnyException(r) ==
    IF ~snapshot[r].allowed \/ exceptions[r] THEN "DEGRADED" ELSE "COMPLETE"

\* _determine_status
DetermineStatus(r) ==
    IF ~snapshot[r].allowed THEN "DEGRADED"
    ELSE IF exceptions[r] THEN "COMPLETED_WITH_EXCEPTIONS"
    ELSE "COMPLETE"

SaveRun(r) ==
    /\ pc[r] = "ended"
    /\ pc' = [pc EXCEPT ![r] = "saved"]
    /\ runRow' = [runRow EXCEPT ![r] =
           [status |-> DetermineStatus(r), call_events |-> callEvents[r]]]
    /\ UNCHANGED <<today, governor, startedAt, seekers, exceptions, callEvents,
                   snapshot, report, declined>>

\* The worker dies, or a governor method or save_run raises: nothing is saved.
LoseRun(r) ==
    /\ pc[r] \notin {"new", "saved", "lost"}
    /\ pc' = [pc EXCEPT ![r] = "lost"]
    /\ UNCHANGED <<today, governor, startedAt, seekers, exceptions, callEvents,
                   snapshot, runRow, report, declined>>

-----------------------------------------------------------------------------
(* GET /report/{run_id}: build_report asks the governor again. *)

GetReport(r) ==
    /\ runRow[r] # None
    /\ report' = [report EXCEPT ![r] =
           [day |-> today, groq_calls_made |-> callsUsed[today],
            reconstructed_call_events |-> runRow[r].call_events]]
    /\ UNCHANGED <<today, governor, pc, startedAt, seekers, exceptions, callEvents,
                   snapshot, runRow, declined>>

Midnight ==
    /\ today < LastDay
    /\ today' = today + 1
    /\ UNCHANGED <<governor, pc, startedAt, seekers, exceptions, callEvents,
                   snapshot, runRow, report, declined>>

Next ==
    \/ Midnight
    \/ \E r \in Runs :
          \/ Reconcile(r) \/ TryConsumeDeclined(r) \/ TryConsumeAllowed(r)
          \/ GroqAnswers(r) \/ TakeStatus(r) \/ SaveRun(r) \/ LoseRun(r)
          \/ GetReport(r)

Spec == Init /\ [][Next]_vars
-----------------------------------------------------------------------------

TypeOK ==
    /\ today \in Days
    /\ callsUsed \in [Days -> Nat]
    /\ streak \in [Runs -> Nat]
    /\ tripped \subseteq Runs
    /\ pc \in [Runs -> Place]
    /\ startedAt \in [Runs -> Days]
    /\ seekers \in [Runs -> Nat]
    /\ exceptions \in [Runs -> BOOLEAN]
    /\ callEvents \in [Runs -> Nat]
    /\ snapshot \in [Runs -> Snapshot]
    /\ runRow \in [Runs -> RunRow \cup {None}]
    /\ report \in [Runs -> Report \cup {None}]
    /\ declined \subseteq Runs

\* A run that the governor refused a call is never stored as a clean COMPLETE,
\* whatever the clock and the other runs do before it is saved; and one whose
\* breaker tripped is stored as DEGRADED.
StatusAdmitsTrouble ==
    \A r \in Runs : runRow[r] # None =>
        /\ r \in declined => runRow[r].status # "COMPLETE"
        /\ r \in tripped => runRow[r].status = "DEGRADED"

\* Conversely a run is stored as DEGRADED only if its breaker tripped or some
\* day's budget really ran out.
DegradedHasCause ==
    \A r \in Runs : runRow[r] # None /\ runRow[r].status = "DEGRADED" =>
        r \in tripped \/ \E d \in Days : callsUsed[d] >= Ceiling

\* On the day the run started, the ledger's figure in its report is at least
\* the number of calls the run's own trail shows.
SameDayReportIsUpperBound ==
    \A r \in Runs : report[r] # None /\ report[r].day = startedAt[r] =>
        report[r].groq_calls_made >= report[r].reconstructed_call_events

\* "A run whose Groq budget was exhausted or whose circuit breaker tripped is
\* reported DEGRADED": a run that was refused a call is stored as DEGRADED.
RefusedRunIsDegraded ==
    \A r \in Runs : runRow[r] # None /\ r \in declined => runRow[r].status = "DEGRADED"

\* "groq_calls_made is the authoritative count" of the run's calls.
ReportCountsTheRunsCalls ==
    \A r \in Runs : report[r] # None =>
        report[r].groq_calls_made = report[r].reconstructed_call_events

\* The service draws on the budget as CallBudget allows, lost runs included.
Budget == INSTANCE CallBudget WITH
    used   <- callsUsed,
    inCall <- {r \in Runs : pc[r] = "calling"}

ImplementsCallBudget == Budget!Spec
=============================================================================
