------------------------------ MODULE Governor ------------------------------
(***************************************************************************)
(* The Groq call-budget governor, llm/governor.py, at the grain of its     *)
(* SQL statements, driven by the runs that share its database.             *)
(*                                                                         *)
(* Each method opens a connection of its own.  BEGIN IMMEDIATE takes       *)
(* SQLite's single write lock (`writer'); until COMMIT the run works on    *)
(* what it read (`slot'); a run that dies inside a transaction loses the   *)
(* lock and everything it had not committed.  The callers are the Stage 6  *)
(* loops of concurrent runs: at most one governor method per run is in     *)
(* progress, and a granted slot is followed by one Groq call and by        *)
(* record_success, record_failure or, for an error that is not a           *)
(* RecommenderError, by neither.                                           *)
(***************************************************************************)
EXTENDS Naturals, Sequences, FiniteSets

CONSTANTS
    Runs,       \* run_ids in progress
    NoRun,      \* "nobody holds the write lock"
    LastDay,    \* bound: the calendar days 1..LastDay
    MaxAsks,    \* bound: seekers for which a run asks for a slot
    Ceiling,    \* Settings.groq_daily_call_ceiling
    Threshold   \* Settings.groq_circuit_breaker_max_consecutive_failures

ASSUME GovernorAssumption ==
    /\ IsFiniteSet(Runs)
    /\ NoRun \notin Runs
    /\ LastDay \in Nat \ {0}
    /\ MaxAsks \in Nat
    /\ Ceiling \in Nat
    /\ Threshold \in Nat \ {0}

VARIABLES
    today,         \* the UTC calendar day the clock shows
    callsUsed,     \* daily_call_budget: day -> calls_used
    failures,      \* circuit_breaker_state: run -> consecutive_failures
    circuitOpen,   \* circuit_breaker_state: run -> circuit_open
    writer,        \* the run whose BEGIN IMMEDIATE succeeded, or NoRun
    pc,            \* run -> where it is
    slot,          \* run -> the day and calls_used its try_consume read
    asks,          \* run -> slots asked for so far
    reply,         \* run -> what its last Groq call came back with
    outcomes,      \* history: run -> the replies received, in order
    granted,       \* history: day -> slots granted against that day
    groqCalls      \* history: day -> requests sent to Groq on that day

tables == <<callsUsed, failures, circuitOpen>>
history == <<outcomes, granted, groqCalls>>
vars == <<today, callsUsed, failures, circuitOpen, writer, pc, slot, asks,
          reply, outcomes, granted, groqCalls>>

Days == 1..LastDay

\* What get_llm_recommendation can end in: a usable answer, a
\* RecommenderError that waits for the threshold, HTTP 429, or an error that
\* is not a RecommenderError (client construction).
Failure == {"transient", "rate_limited"}
Reply == {"success", "unexpected"} \cup Failure

Stopped == {"done", "dead"}
Locked == {"breaker", "budget", "commit", "recording"}
Calling == {"granted", "calling", "returned", "recording"}
Place == {"idle"} \cup Locked \cup Calling \cup Stopped

NoSlot == [day |-> 1, used |-> 0]

Init ==
    /\ today = 1
    /\ callsUsed = [d \in Days |-> 0]
    /\ failures = [r \in Runs |-> 0]
    /\ circuitOpen = [r \in Runs |-> FALSE]
    /\ writer = NoRun
    /\ pc = [r \in Runs |-> "idle"]
    /\ slot = [r \in Runs |-> NoSlot]
    /\ asks = [r \in Runs |-> 0]
    /\ reply = [r \in Runs |-> "success"]
    /\ outcomes = [r \in Runs |-> <<>>]
    /\ granted = [d \in Days |-> 0]
    /\ groqCalls = [d \in Days |-> 0]

Go(r, from, to) ==
    /\ pc[r] = from
    /\ pc' = [pc EXCEPT ![r] = to]

\* Mutant: a plain BEGIN, which lets any number of connections in.
BeginDeferred(r) == writer' = r

\* BEGIN IMMEDIATE: only one connection at a time gets past it.
Begin(r) ==
    /\ writer = NoRun
    /\ writer' = r

Release(r) == writer' = NoRun

-----------------------------------------------------------------------------
(* try_consume *)

BeginTryConsume(r) ==
    /\ asks[r] < MaxAsks
    /\ Go(r, "idle", "breaker")
    /\ Begin(r)
    /\ asks' = [asks EXCEPT ![r] = @ + 1]
    /\ UNCHANGED <<today, tables, slot, reply, history>>

\* Mutant: returning the decision without ending the transaction.
DeclineOpenCircuitKeepsLock(r) ==
    /\ circuitOpen[r]
    /\ Go(r, "breaker", "idle")
    /\ UNCHANGED <<today, tables, writer, slot, asks, reply, history>>

\* An open breaker ends the method: commit with nothing written.
DeclineOpenCircuit(r) ==
    /\ circuitOpen[r]
    /\ Go(r, "breaker", "idle")
    /\ Release(r)
    /\ UNCHANGED <<today, tables, slot, asks, reply, history>>

\* Mutant: the budget is consulted whatever the breaker says.
PassAnyBreaker(r) ==
    /\ Go(r, "breaker", "budget")
    /\ UNCHANGED <<today, tables, writer, slot, asks, reply, history>>

PassBreaker(r) ==
    /\ ~circuitOpen[r]
    /\ Go(r, "breaker", "budget")
    /\ UNCHANGED <<today, tables, writer, slot, asks, reply, history>>

\* Mutant: as above, at the other early return.
DeclineAtCeilingKeepsLock(r) ==
    /\ callsUsed[today] >= Ceiling
    /\ Go(r, "budget", "idle")
    /\ UNCHANGED <<today, tables, writer, slot, asks, reply, history>>

\* _today() and the SELECT of that day's row; a missing row counts as 0.
DeclineAtCeiling(r) ==
    /\ callsUsed[today] >= Ceiling
    /\ Go(r, "budget", "idle")
    /\ Release(r)
    /\ UNCHANGED <<today, tables, slot, asks, reply, history>>

\* Mutant: the ceiling itself still passes.
ReadBudgetAtCeiling(r) ==
    /\ callsUsed[today] <= Ceiling
    /\ Go(r, "budget", "commit")
    /\ slot' = [slot EXCEPT ![r] = [day |-> today, used |-> callsUsed[today]]]
    /\ UNCHANGED <<today, tables, writer, asks, reply, history>>

ReadBudget(r) ==
    /\ callsUsed[today] < Ceiling
    /\ Go(r, "budget", "commit")
    /\ slot' = [slot EXCEPT ![r] = [day |-> today, used |-> callsUsed[today]]]
    /\ UNCHANGED <<today, tables, writer, asks, reply, history>>

CommitSlot(r) ==
    /\ Go(r, "commit", "granted")
    /\ callsUsed' = [callsUsed EXCEPT ![slot[r].day] = slot[r].used + 1]
    /\ granted' = [granted EXCEPT ![slot[r].day] = @ + 1]
    /\ Release(r)
    /\ UNCHANGED <<today, failures, circuitOpen, slot, asks, reply, outcomes,
                   groqCalls>>

-----------------------------------------------------------------------------
(* The Groq call (one request, no retries) and its bookkeeping *)

CallGroq(r) ==
    /\ Go(r, "granted", "calling")
    /\ groqCalls' = [groqCalls EXCEPT ![today] = @ + 1]
    /\ UNCHANGED <<today, tables, writer, slot, asks, reply, outcomes, granted>>

\* Mutant: the client repeats a request that failed, on the same slot.
GroqRetries(r) ==
    \E answer \in Reply :
        /\ Go(r, "calling", IF answer = "transient" THEN "granted" ELSE "returned")
        /\ reply' = [reply EXCEPT ![r] = answer]
        /\ outcomes' = [outcomes EXCEPT ![r] = Append(@, answer)]
        /\ UNCHANGED <<today, tables, writer, slot, asks, granted, groqCalls>>

\* An unexpected error is reported to neither record_success nor
\* record_failure.
GroqReturns(r) ==
    \E answer \in Reply :
        /\ Go(r, "calling", IF answer = "unexpected" THEN "idle" ELSE "returned")
        /\ reply' = [reply EXCEPT ![r] = answer]
        /\ outcomes' = [outcomes EXCEPT ![r] = Append(@, answer)]
        /\ UNCHANGED <<today, tables, writer, slot, asks, granted, groqCalls>>

BeginRecord(r) ==
    /\ Go(r, "returned", "recording")
    /\ Begin(r)
    /\ UNCHANGED <<today, tables, slot, asks, reply, history>>

\* Mutant: a success takes one failure back instead of ending the streak.
RecordSuccessDecrements(r) ==
    /\ reply[r] = "success"
    /\ Go(r, "recording", "idle")
    /\ failures' = [failures EXCEPT ![r] = @ - 1]
    /\ Release(r)
    /\ UNCHANGED <<today, callsUsed, circuitOpen, slot, asks, reply, history>>

\* One upsert: consecutive_failures := 0, circuit_open left as it is.
RecordSuccess(r) ==
    /\ reply[r] = "success"
    /\ Go(r, "recording", "idle")
    /\ failures' = [failures EXCEPT ![r] = 0]
    /\ Release(r)
    /\ UNCHANGED <<today, callsUsed, circuitOpen, slot, asks, reply, history>>

\* Mutant: a 429 is counted like any other failure.
RecordFailureOfAnyKind(r) ==
    /\ reply[r] \in Failure
    /\ Go(r, "recording", "idle")
    /\ failures' = [failures EXCEPT ![r] = @ + 1]
    /\ circuitOpen' = [circuitOpen EXCEPT ![r] = @ \/ failures[r] + 1 >= Threshold]
    /\ Release(r)
    /\ UNCHANGED <<today, callsUsed, slot, asks, reply, history>>

\* Mutant: the count read is compared, not the count written.
RecordFailureLate(r) ==
    /\ reply[r] \in Failure
    /\ Go(r, "recording", "idle")
    /\ failures' = [failures EXCEPT ![r] = @ + 1]
    /\ circuitOpen' = [circuitOpen EXCEPT
           ![r] = @ \/ failures[r] >= Threshold \/ reply[r] = "rate_limited"]
    /\ Release(r)
    /\ UNCHANGED <<today, callsUsed, slot, asks, reply, history>>

\* Read, count and upsert in one step: no other run writes row r.
RecordFailure(r) ==
    /\ reply[r] \in Failure
    /\ Go(r, "recording", "idle")
    /\ failures' = [failures EXCEPT ![r] = @ + 1]
    /\ circuitOpen' = [circuitOpen EXCEPT
           ![r] = @ \/ failures[r] + 1 >= Threshold \/ reply[r] = "rate_limited"]
    /\ Release(r)
    /\ UNCHANGED <<today, callsUsed, slot, asks, reply, history>>

-----------------------------------------------------------------------------

Finish(r) ==
    /\ Go(r, "idle", "done")
    /\ UNCHANGED <<today, tables, writer, slot, asks, reply, history>>

\* The process is killed, or a method raises (the 30 s busy timeout expired):
\* the connection is closed and SQLite rolls its transaction back.
Die(r) ==
    /\ pc[r] \notin Stopped
    /\ pc' = [pc EXCEPT ![r] = "dead"]
    /\ writer' = IF writer = r THEN NoRun ELSE writer
    /\ UNCHANGED <<today, tables, slot, asks, reply, history>>

Midnight ==
    /\ today < LastDay
    /\ today' = today + 1
    /\ UNCHANGED <<tables, writer, pc, slot, asks, reply, history>>

\* The steps of a run that is neither killed nor timed out.
Step(r) ==
    \/ BeginTryConsume(r) \/ DeclineOpenCircuit(r) \/ PassBreaker(r)
    \/ DeclineAtCeiling(r) \/ ReadBudget(r) \/ CommitSlot(r)
    \/ CallGroq(r) \/ GroqReturns(r)
    \/ BeginRecord(r) \/ RecordSuccess(r) \/ RecordFailure(r)
    \/ Finish(r)

Next ==
    \/ Midnight
    \/ \E r \in Runs : Step(r) \/ Die(r)

Spec == Init /\ [][Next]_vars

\* A run's thread is scheduled, and the Groq client's timeout ends every call.
FairSpec == Spec /\ \A r \in Runs : WF_vars(Step(r))
-----------------------------------------------------------------------------

TypeOK ==
    /\ today \in Days
    /\ callsUsed \in [Days -> Nat]
    /\ failures \in [Runs -> Nat]
    /\ circuitOpen \in [Runs -> BOOLEAN]
    /\ writer \in Runs \cup {NoRun}
    /\ pc \in [Runs -> Place]
    /\ slot \in [Runs -> [day : Days, used : Nat]]
    /\ asks \in [Runs -> Nat]
    /\ reply \in [Runs -> Reply]
    /\ outcomes \in [Runs -> Seq(Reply)]
    /\ granted \in [Days -> Nat]
    /\ groqCalls \in [Days -> Nat]

\* The hard daily cap: however the transactions of concurrent runs
\* interleave, die or straddle midnight, no day's row goes past the ceiling.
CeilingHolds == \A d \in Days : callsUsed[d] <= Ceiling

\* "Concurrent requests can't double-count or under-count": a day's row is
\* the number of slots granted against that day, no update is ever lost.
CountIsExact == callsUsed = granted

\* A slot is charged to the day try_consume read, and the request may leave
\* after midnight: a day sees at most one such request of each run beyond
\* the calls charged to it.
SpillOverMidnightBounded ==
    \A d \in Days : groqCalls[d] <= callsUsed[d] + Cardinality(Runs)

\* The failures since the last success; an unexpected error is neither.
FailureStreak(answers) ==
    Cardinality({i \in DOMAIN answers :
                    /\ answers[i] \in Failure
                    /\ \A j \in i..Len(answers) : answers[j] # "success"})

\* Some prefix of the answers ends in a 429 or reaches the threshold.
Trips(answers) ==
    \E n \in DOMAIN answers :
        \/ answers[n] = "rate_limited"
        \/ FailureStreak(SubSeq(answers, 1, n)) >= Threshold

\* Once a reply is booked, the breaker's row says what the run's own history
\* says: the streak of failures since the last success, and open exactly when
\* some prefix reached the threshold or a 429 was seen.  Other runs' replies
\* never count.
BreakerReflectsOutcomes ==
    \A r \in Runs : pc[r] \notin {"returned", "recording", "dead"} =>
        /\ failures[r] = FailureStreak(outcomes[r])
        /\ circuitOpen[r] <=> Trips(outcomes[r])

\* A run whose breaker is open is not in a call, nor about to make one.
OpenBreakerMakesNoCall ==
    \A r \in Runs : circuitOpen[r] => pc[r] \notin Calling \cup {"budget", "commit"}

\* A transaction never keeps the write lock: whoever holds it lets it go.
LockIsReleased == \A r \in Runs : writer = r ~> writer # r

\* Every run's Stage 6 loop ends, whatever the other runs and Groq do.
EveryRunEnds == \A r \in Runs : <>(pc[r] \in Stopped)
=============================================================================
