-------------------------- MODULE RunServiceProofs --------------------------
(***************************************************************************)
(* Proofs about RunService for any runs, days, ceiling and threshold: what *)
(* a stored status admits and needs, what a report's figures bound, and    *)
(* that the runs draw on the budget as CallBudget allows.                  *)
(***************************************************************************)
EXTENDS RunService, TLAPS

\* A stored run is over, and its row is what it was when it ended.
StoredInv ==
    \A r \in Runs : runRow[r] # None =>
        /\ pc[r] = "saved"
        /\ runRow[r].status = DetermineStatus(r)
        /\ runRow[r].call_events = callEvents[r]

\* A refusal leaves an exception, and governor.status sees an open breaker
\* whenever it is asked.
TroubleInv ==
    \A r \in Runs :
        /\ r \in declined => exceptions[r] /\ pc[r] # "new"
        /\ pc[r] \in {"ended", "saved"} =>
               /\ r \in tripped => ~snapshot[r].allowed
               /\ ~snapshot[r].allowed =>
                      r \in tripped \/ \E d \in Days : callsUsed[d] >= Ceiling

\* On the day it started, a run's calls are among those of the day.
CountInv ==
    \A r \in Runs :
        /\ startedAt[r] <= today
        /\ pc[r] = "new" => callEvents[r] = 0
        /\ startedAt[r] = today =>
               callEvents[r] + (IF pc[r] = "calling" THEN 1 ELSE 0) <= callsUsed[today]
        /\ report[r] # None => runRow[r] # None

USE RunServiceAssumption DEF governor
-----------------------------------------------------------------------------
(* Types *)

LEMMA StatusTyped == \A r : DetermineStatus(r) \in Status
  BY DEF DetermineStatus, Status

LEMMA TypeStep == TypeOK /\ [Next]_vars => TypeOK'
  <1> SUFFICES ASSUME TypeOK, [Next]_vars PROVE TypeOK'
    OBVIOUS
  <1>1. CASE Midnight
    BY <1>1 DEF Midnight, TypeOK, Days
  <1>2. CASE UNCHANGED vars
    BY <1>2 DEF vars, TypeOK
  <1>3. ASSUME NEW r \in Runs, Reconcile(r) PROVE TypeOK'
    BY <1>3 DEF Reconcile, TypeOK, Place
  <1>4. ASSUME NEW r \in Runs, TryConsumeDeclined(r) PROVE TypeOK'
    BY <1>4 DEF TryConsumeDeclined, TurnTaken, TypeOK
  <1>5. ASSUME NEW r \in Runs, TryConsumeAllowed(r) PROVE TypeOK'
    BY <1>5 DEF TryConsumeAllowed, TypeOK, Place
  <1>6. ASSUME NEW r \in Runs, GroqAnswers(r) PROVE TypeOK'
    <2>1. PICK reply \in Reply : /\ Book(r, reply)
                                 /\ exceptions' = [exceptions EXCEPT ![r] = @ \/ reply # "match"]
      BY <1>6 DEF GroqAnswers
    <2>2. streak' \in [Runs -> Nat] /\ tripped' \subseteq Runs
      BY <2>1 DEF Book, TypeOK
    <2>3. exceptions' \in [Runs -> BOOLEAN]
      BY <2>1 DEF TypeOK
    <2>4. /\ pc' \in [Runs -> Place] /\ seekers' \in [Runs -> Nat]
          /\ callEvents' \in [Runs -> Nat]
      BY <1>6 DEF GroqAnswers, TurnTaken, TypeOK, Place
    <2> QED
      BY <1>6, <2>2, <2>3, <2>4 DEF GroqAnswers, TypeOK
  <1>7. ASSUME NEW r \in Runs, TakeStatus(r) PROVE TypeOK'
    <2>1. [allowed |-> Allowed(r), calls |-> callsUsed[today]] \in Snapshot
      BY DEF Snapshot, TypeOK, Allowed
    <2> QED
      BY <1>7, <2>1 DEF TakeStatus, TypeOK, Place
  <1>8. ASSUME NEW r \in Runs, SaveRun(r) PROVE TypeOK'
    <2>1. [status |-> DetermineStatus(r), call_events |-> callEvents[r]] \in RunRow
      BY StatusTyped DEF RunRow, TypeOK
    <2> QED
      BY <1>8, <2>1 DEF SaveRun, TypeOK, Place
  <1>9. ASSUME NEW r \in Runs, LoseRun(r) PROVE TypeOK'
    BY <1>9 DEF LoseRun, TypeOK, Place
  <1>10. ASSUME NEW r \in Runs, GetReport(r) PROVE TypeOK'
    <2>1. runRow[r] \in RunRow
      BY <1>10 DEF GetReport, TypeOK
    <2>2. [day |-> today, groq_calls_made |-> callsUsed[today],
           reconstructed_call_events |-> runRow[r].call_events] \in Report
      BY <2>1 DEF RunRow, Report, TypeOK
    <2> QED
      BY <1>10, <2>2 DEF GetReport, TypeOK
  <1> QED
    BY <1>1, <1>2, <1>3, <1>4, <1>5, <1>6, <1>7, <1>8, <1>9, <1>10 DEF Next

\* The tables and the requests keep their types.
THEOREM RunServiceTypeOK == Spec => []TypeOK
  <1>1. Init => TypeOK
    BY DEF Init, TypeOK, Days, Place, Snapshot
  <1> QED
    BY <1>1, TypeStep, PTL DEF Spec

-----------------------------------------------------------------------------
(* Stored rows *)

LEMMA StoredStep == TypeOK /\ StoredInv /\ [Next]_vars => StoredInv'
  <1> SUFFICES ASSUME TypeOK, StoredInv, [Next]_vars, NEW q \in Runs, runRow'[q] # None
               PROVE  /\ pc'[q] = "saved"
                      /\ runRow'[q].status = DetermineStatus(q)'
                      /\ runRow'[q].call_events = callEvents'[q]
    BY DEF StoredInv
  <1>1. CASE /\ runRow'[q] = runRow[q] /\ pc'[q] = pc[q]
             /\ snapshot'[q] = snapshot[q] /\ exceptions'[q] = exceptions[q]
             /\ callEvents'[q] = callEvents[q]
    BY <1>1 DEF StoredInv, DetermineStatus
  <1>2. CASE Midnight \/ UNCHANGED vars
    BY <1>1, <1>2 DEF Midnight, vars
  <1>3. ASSUME NEW r \in Runs, pc[r] # "saved", runRow' = runRow
        PROVE  r # q
    BY <1>3 DEF StoredInv
  <1>4. ASSUME NEW r \in Runs, Reconcile(r) PROVE r # q
    BY <1>3, <1>4 DEF Reconcile
  <1>5. ASSUME NEW r \in Runs, TryConsumeDeclined(r) PROVE r # q
    BY <1>3, <1>5 DEF TryConsumeDeclined
  <1>6. ASSUME NEW r \in Runs, TryConsumeAllowed(r) PROVE r # q
    BY <1>3, <1>6 DEF TryConsumeAllowed
  <1>7. ASSUME NEW r \in Runs, GroqAnswers(r) PROVE r # q
    BY <1>3, <1>7 DEF GroqAnswers
  <1>8. ASSUME NEW r \in Runs, TakeStatus(r) PROVE r # q
    BY <1>3, <1>8 DEF TakeStatus
  <1>9. ASSUME NEW r \in Runs, LoseRun(r) PROVE r # q
    BY <1>3, <1>9 DEF LoseRun
  <1>10. ASSUME NEW r \in Runs, SaveRun(r), r = q
         PROVE  /\ pc'[q] = "saved"
                /\ runRow'[q].status = DetermineStatus(q)'
                /\ runRow'[q].call_events = callEvents'[q]
    BY <1>10 DEF SaveRun, TypeOK, DetermineStatus
  <1>11. ASSUME NEW r \in Runs, r # q,
                Reconcile(r) \/ TryConsumeDeclined(r) \/ TryConsumeAllowed(r)
                    \/ GroqAnswers(r) \/ TakeStatus(r) \/ SaveRun(r) \/ LoseRun(r)
         PROVE  /\ runRow'[q] = runRow[q] /\ pc'[q] = pc[q]
                /\ snapshot'[q] = snapshot[q] /\ exceptions'[q] = exceptions[q]
                /\ callEvents'[q] = callEvents[q]
    BY <1>11 DEF Reconcile, TryConsumeDeclined, TryConsumeAllowed, GroqAnswers,
                 TakeStatus, SaveRun, LoseRun, TypeOK
  <1>12. ASSUME NEW r \in Runs, GetReport(r)
         PROVE  /\ runRow'[q] = runRow[q] /\ pc'[q] = pc[q]
                /\ snapshot'[q] = snapshot[q] /\ exceptions'[q] = exceptions[q]
                /\ callEvents'[q] = callEvents[q]
    BY <1>12 DEF GetReport
  <1> QED
    BY <1>1, <1>2, <1>4, <1>5, <1>6, <1>7, <1>8, <1>9, <1>10, <1>11, <1>12 DEF Next

-----------------------------------------------------------------------------
(* Statuses *)

\* Only a booked reply opens a breaker, and a counter only goes up.
LEMMA BreakerOpensInCall ==
    ASSUME TypeOK, [Next]_vars
    PROVE  /\ \A q \in Runs : q \in tripped' => q \in tripped \/ pc[q] = "calling"
           /\ tripped \subseteq tripped'
           /\ \A d \in Days : callsUsed'[d] >= callsUsed[d]
  <1>1. CASE Midnight \/ UNCHANGED vars
    BY <1>1 DEF Midnight, vars, TypeOK
  <1>2. ASSUME NEW r \in Runs,
               Reconcile(r) \/ TryConsumeDeclined(r) \/ TakeStatus(r) \/ SaveRun(r)
                   \/ LoseRun(r) \/ GetReport(r)
        PROVE  UNCHANGED <<tripped, callsUsed>>
    BY <1>2 DEF Reconcile, TryConsumeDeclined, TakeStatus, SaveRun, LoseRun, GetReport
  <1>3. ASSUME NEW r \in Runs, TryConsumeAllowed(r)
        PROVE  /\ tripped' = tripped
               /\ \A d \in Days : callsUsed'[d] >= callsUsed[d]
    BY <1>3 DEF TryConsumeAllowed, TypeOK
  <1>4. ASSUME NEW r \in Runs, GroqAnswers(r)
        PROVE  /\ callsUsed' = callsUsed /\ pc[r] = "calling"
               /\ tripped \subseteq tripped' /\ tripped' \subseteq tripped \cup {r}
    <2>1. PICK reply \in Reply : Book(r, reply)
      BY <1>4 DEF GroqAnswers
    <2>2. tripped \subseteq tripped' /\ tripped' \subseteq tripped \cup {r}
      BY <2>1 DEF Book
    <2> QED
      BY <1>4, <2>2 DEF GroqAnswers
  <1> QED
    BY <1>1, <1>2, <1>3, <1>4 DEF Next, TypeOK

LEMMA SpentStaysSpent ==
    ASSUME TypeOK, [Next]_vars, \E d \in Days : callsUsed[d] >= Ceiling
    PROVE  \E d \in Days : callsUsed'[d] >= Ceiling
  <1>1. PICK d \in Days : callsUsed[d] >= Ceiling
    OBVIOUS
  <1>2. callsUsed'[d] >= callsUsed[d] /\ callsUsed[d] \in Nat /\ callsUsed'[d] \in Nat
    BY BreakerOpensInCall, TypeStep DEF TypeOK
  <1> QED
    BY <1>1, <1>2

LEMMA TroubleStep == TypeOK /\ TroubleInv /\ [Next]_vars => TroubleInv'
  <1> DEFINE Kept(q) == /\ q \in declined' => exceptions'[q] /\ pc'[q] # "new"
                        /\ pc'[q] \in {"ended", "saved"} =>
                               /\ q \in tripped' => ~snapshot'[q].allowed
                               /\ ~snapshot'[q].allowed =>
                                      \/ q \in tripped'
                                      \/ \E d \in Days : callsUsed'[d] >= Ceiling
  <1> SUFFICES ASSUME TypeOK, TroubleInv, [Next]_vars, NEW q \in Runs PROVE Kept(q)
    BY DEF TroubleInv
  <1>1. ASSUME q \in declined' => q \in declined,
               exceptions[q] => exceptions'[q],
               pc[q] # "new" => pc'[q] # "new",
               pc'[q] \in {"ended", "saved"} =>
                   pc[q] \in {"ended", "saved"} /\ snapshot'[q] = snapshot[q]
        PROVE  Kept(q)
    <2>1. q \in declined' => exceptions'[q] /\ pc'[q] # "new"
      BY <1>1 DEF TroubleInv
    <2>2. ASSUME pc'[q] \in {"ended", "saved"}
          PROVE  /\ q \in tripped' => ~snapshot'[q].allowed
                 /\ ~snapshot'[q].allowed =>
                        \/ q \in tripped'
                        \/ \E d \in Days : callsUsed'[d] >= Ceiling
      <3>1. pc[q] # "calling" /\ snapshot'[q] = snapshot[q]
        BY <1>1, <2>2
      <3>2. q \in tripped' <=> q \in tripped
        BY <3>1, BreakerOpensInCall
      <3> QED
        BY <1>1, <2>2, <3>1, <3>2, SpentStaysSpent DEF TroubleInv
    <2> QED
      BY <2>1, <2>2
  <1>2. CASE Midnight \/ UNCHANGED vars
    BY <1>1, <1>2 DEF Midnight, vars
  <1>3. ASSUME NEW r \in Runs, Reconcile(r) PROVE Kept(q)
    <2>1. CASE r = q
      BY <1>3, <2>1 DEF Reconcile, TroubleInv, TypeOK
    <2> QED
      BY <1>1, <1>3, <2>1 DEF Reconcile, TypeOK
  <1>4. ASSUME NEW r \in Runs, TryConsumeDeclined(r) PROVE Kept(q)
    <2>1. CASE r = q
      BY <1>4, <2>1 DEF TryConsumeDeclined, TypeOK
    <2> QED
      BY <1>1, <1>4, <2>1 DEF TryConsumeDeclined, TypeOK
  <1>5. ASSUME NEW r \in Runs, TryConsumeAllowed(r) PROVE Kept(q)
    BY <1>1, <1>5 DEF TryConsumeAllowed, TypeOK
  <1>6. ASSUME NEW r \in Runs, GroqAnswers(r) PROVE Kept(q)
    <2>1. PICK reply \in Reply : exceptions' = [exceptions EXCEPT ![r] = @ \/ reply # "match"]
      BY <1>6 DEF GroqAnswers
    <2>2. exceptions[q] => exceptions'[q]
      BY <2>1 DEF TypeOK
    <2> QED
      BY <1>1, <1>6, <2>2 DEF GroqAnswers, TypeOK
  <1>7. ASSUME NEW r \in Runs, TakeStatus(r) PROVE Kept(q)
    <2>1. CASE r = q
      <3>1. /\ snapshot'[q].allowed = (q \notin tripped /\ callsUsed[today] < Ceiling)
            /\ UNCHANGED <<tripped, callsUsed, declined, exceptions>>
            /\ pc'[q] = "ended"
        BY <1>7, <2>1 DEF TakeStatus, Allowed, TypeOK
      <3>2. today \in Days /\ callsUsed[today] \in Nat
        BY DEF TypeOK
      <3>3. ~(callsUsed[today] < Ceiling) => callsUsed[today] >= Ceiling
        BY <3>2
      <3> QED
        BY <3>1, <3>2, <3>3 DEF TroubleInv
    <2> QED
      BY <1>1, <1>7, <2>1 DEF TakeStatus, TypeOK
  <1>8. ASSUME NEW r \in Runs, SaveRun(r) PROVE Kept(q)
    BY <1>1, <1>8 DEF SaveRun, TypeOK
  <1>9. ASSUME NEW r \in Runs, LoseRun(r) PROVE Kept(q)
    BY <1>1, <1>9 DEF LoseRun, TypeOK
  <1>10. ASSUME NEW r \in Runs, GetReport(r) PROVE Kept(q)
    BY <1>1, <1>10 DEF GetReport
  <1> QED
    BY <1>2, <1>3, <1>4, <1>5, <1>6, <1>7, <1>8, <1>9, <1>10 DEF Next

LEMMA StatusSuffices ==
    StoredInv /\ TroubleInv => StatusAdmitsTrouble /\ DegradedHasCause
  BY DEF StoredInv, TroubleInv, StatusAdmitsTrouble, DegradedHasCause, DetermineStatus

LEMMA StatusAlways == Spec => [](StoredInv /\ TroubleInv)
  <1>1. Init => StoredInv /\ TroubleInv
    BY DEF Init, StoredInv, TroubleInv
  <1> QED
    BY <1>1, RunServiceTypeOK, StoredStep, TroubleStep, PTL DEF Spec

\* However the clock and the other runs interfere between a refusal and the
\* save, a refused run is not stored as COMPLETE, a tripped one is DEGRADED.
THEOREM StatusIsHonest == Spec => []StatusAdmitsTrouble
  <1> QED
    BY StatusAlways, StatusSuffices, PTL

\* No run is stored as DEGRADED without an open breaker or a spent budget.
THEOREM DegradedIsEarned == Spec => []DegradedHasCause
  <1> QED
    BY StatusAlways, StatusSuffices, PTL

-----------------------------------------------------------------------------
(* The figures of a report *)

LEMMA CountStep == TypeOK /\ StoredInv /\ CountInv /\ [Next]_vars => CountInv'
  <1> DEFINE Counted(q) ==
          /\ startedAt'[q] <= today'
          /\ pc'[q] = "new" => callEvents'[q] = 0
          /\ startedAt'[q] = today' =>
                 callEvents'[q] + (IF pc'[q] = "calling" THEN 1 ELSE 0) <= callsUsed'[today']
          /\ report'[q] # None => runRow'[q] # None
  <1> SUFFICES ASSUME TypeOK, StoredInv, CountInv, [Next]_vars, NEW q \in Runs
               PROVE  Counted(q)
    BY DEF CountInv
  <1>1. /\ today \in Nat /\ today \in Days /\ callsUsed[today] \in Nat
        /\ callsUsed'[today] \in Nat /\ callsUsed'[today] >= callsUsed[today]
        /\ callEvents[q] \in Nat /\ startedAt[q] \in Nat
    <2>1. today \in Days /\ startedAt[q] \in Days /\ Days \subseteq Nat
      BY DEF TypeOK, Days
    <2>2. callsUsed \in [Days -> Nat] /\ callEvents[q] \in Nat
      BY DEF TypeOK
    <2>3. callsUsed' \in [Days -> Nat]
      BY TypeStep DEF TypeOK
    <2>4. callsUsed'[today] >= callsUsed[today]
      BY <2>1, BreakerOpensInCall
    <2> QED
      BY <2>1, <2>2, <2>3, <2>4
  <1>2. /\ startedAt[q] <= today
        /\ pc[q] = "new" => callEvents[q] = 0
        /\ startedAt[q] = today =>
               callEvents[q] + (IF pc[q] = "calling" THEN 1 ELSE 0) <= callsUsed[today]
        /\ report[q] # None => runRow[q] # None
    BY DEF CountInv
  <1>3. ASSUME today' = today, startedAt'[q] = startedAt[q],
               callEvents'[q] = callEvents[q], report'[q] = report[q],
               runRow'[q] = runRow[q] \/ runRow'[q] # None,
               pc'[q] = pc[q] \/ pc'[q] \notin {"new", "calling"}
        PROVE  Counted(q)
    BY <1>1, <1>2, <1>3
  <1>4. CASE Midnight
    <2>1. /\ today' = today + 1 /\ startedAt'[q] = startedAt[q] /\ pc'[q] = pc[q]
          /\ callEvents'[q] = callEvents[q] /\ report'[q] = report[q]
          /\ runRow'[q] = runRow[q]
      BY <1>4 DEF Midnight
    <2>2. startedAt'[q] <= today' /\ startedAt'[q] # today'
      BY <1>1, <1>2, <2>1
    <2> QED
      BY <1>2, <2>1, <2>2
  <1>5. CASE UNCHANGED vars
    BY <1>3, <1>5 DEF vars
  <1>6. ASSUME NEW r \in Runs, Reconcile(r) PROVE Counted(q)
    <2>1. CASE r = q
      BY <1>1, <1>2, <1>6, <2>1 DEF Reconcile, TypeOK
    <2> QED
      BY <1>3, <1>6, <2>1 DEF Reconcile, TypeOK
  <1>7. ASSUME NEW r \in Runs, TryConsumeDeclined(r) PROVE Counted(q)
    BY <1>3, <1>7 DEF TryConsumeDeclined
  <1>8. ASSUME NEW r \in Runs, TryConsumeAllowed(r) PROVE Counted(q)
    <2>1. callsUsed'[today] = callsUsed[today] + 1
      BY <1>1, <1>8 DEF TryConsumeAllowed, TypeOK
    <2>2. CASE r = q
      BY <1>1, <1>2, <1>8, <2>1, <2>2 DEF TryConsumeAllowed, TypeOK
    <2> QED
      BY <1>3, <1>8, <2>2 DEF TryConsumeAllowed, TypeOK
  <1>9. ASSUME NEW r \in Runs, GroqAnswers(r) PROVE Counted(q)
    <2>1. /\ pc' = [pc EXCEPT ![r] = "stage6"] /\ pc[r] = "calling"
          /\ callEvents' = [callEvents EXCEPT ![r] = @ + 1]
          /\ UNCHANGED <<today, callsUsed, startedAt, runRow, report>>
      BY <1>9 DEF GroqAnswers
    <2>2. CASE r = q
      <3>1. callEvents'[q] = callEvents[q] + 1 /\ pc'[q] = "stage6"
        BY <2>1, <2>2 DEF TypeOK
      <3> QED
        BY <1>1, <1>2, <2>1, <2>2, <3>1
    <2>3. CASE r # q
      BY <1>3, <2>1, <2>3 DEF TypeOK
    <2> QED
      BY <2>2, <2>3
  <1>10. ASSUME NEW r \in Runs, TakeStatus(r) PROVE Counted(q)
    BY <1>3, <1>10 DEF TakeStatus, TypeOK
  <1>11. ASSUME NEW r \in Runs, SaveRun(r) PROVE Counted(q)
    <2>1. CASE r = q
      <3>1. runRow[q] = None /\ report[q] = None
        BY <1>2, <1>11, <2>1 DEF SaveRun, StoredInv
      <3> QED
        BY <1>1, <1>2, <1>11, <2>1, <3>1 DEF SaveRun, TypeOK
    <2> QED
      BY <1>3, <1>11, <2>1 DEF SaveRun, TypeOK
  <1>12. ASSUME NEW r \in Runs, LoseRun(r) PROVE Counted(q)
    BY <1>3, <1>12 DEF LoseRun, TypeOK
  <1>13. ASSUME NEW r \in Runs, GetReport(r) PROVE Counted(q)
    BY <1>1, <1>2, <1>13 DEF GetReport, TypeOK
  <1> QED
    BY <1>4, <1>5, <1>6, <1>7, <1>8, <1>9, <1>10, <1>11, <1>12, <1>13 DEF Next

LEMMA ReportStep ==
    TypeOK /\ StoredInv /\ CountInv /\ SameDayReportIsUpperBound /\ [Next]_vars
        => SameDayReportIsUpperBound'
  <1> SUFFICES ASSUME TypeOK, StoredInv, CountInv, SameDayReportIsUpperBound,
                      [Next]_vars, NEW q \in Runs,
                      report'[q] # None, report'[q].day = startedAt'[q]
               PROVE  report'[q].groq_calls_made >= report'[q].reconstructed_call_events
    BY DEF SameDayReportIsUpperBound
  <1>1. CASE report'[q] = report[q] /\ startedAt'[q] = startedAt[q]
    BY <1>1 DEF SameDayReportIsUpperBound
  <1>2. CASE Midnight \/ UNCHANGED vars
    BY <1>1, <1>2 DEF Midnight, vars
  <1>3. ASSUME NEW r \in Runs, Reconcile(r) PROVE report'[q] = report[q] /\ startedAt'[q] = startedAt[q]
    <2>1. report[r] = None
      BY <1>3 DEF Reconcile, CountInv, StoredInv
    <2> QED
      BY <1>3, <2>1 DEF Reconcile, TypeOK
  <1>4. ASSUME NEW r \in Runs,
               TryConsumeDeclined(r) \/ TryConsumeAllowed(r) \/ GroqAnswers(r)
                   \/ TakeStatus(r) \/ SaveRun(r) \/ LoseRun(r)
        PROVE  report'[q] = report[q] /\ startedAt'[q] = startedAt[q]
    BY <1>4 DEF TryConsumeDeclined, TryConsumeAllowed, GroqAnswers, TakeStatus, SaveRun, LoseRun
  <1>5. ASSUME NEW r \in Runs, GetReport(r)
        PROVE  report'[q].groq_calls_made >= report'[q].reconstructed_call_events
    <2>1. CASE r # q
      BY <1>1, <1>5, <2>1 DEF GetReport, TypeOK
    <2>2. CASE r = q
      <3>1. /\ report'[q].groq_calls_made = callsUsed[today]
            /\ report'[q].reconstructed_call_events = runRow[q].call_events
            /\ report'[q].day = today /\ startedAt'[q] = startedAt[q]
            /\ runRow[q] # None
        BY <1>5, <2>2 DEF GetReport, TypeOK
      <3>2. runRow[q].call_events = callEvents[q] /\ pc[q] = "saved"
        BY <3>1 DEF StoredInv
      <3>3. callEvents[q] + 0 <= callsUsed[today]
        BY <3>1, <3>2 DEF CountInv
      <3> QED
        BY <3>1, <3>2, <3>3 DEF TypeOK
    <2> QED
      BY <2>1, <2>2
  <1> QED
    BY <1>1, <1>2, <1>3, <1>4, <1>5 DEF Next

\* What a report of the day of the run is worth: its ledger figure covers
\* every call of the run's trail.
THEOREM SameDayReport == Spec => []SameDayReportIsUpperBound
  <1>1. Init => StoredInv /\ CountInv /\ SameDayReportIsUpperBound
    BY DEF Init, StoredInv, CountInv, SameDayReportIsUpperBound, Days
  <1> QED
    BY <1>1, RunServiceTypeOK, StoredStep, CountStep, ReportStep, PTL DEF Spec

-----------------------------------------------------------------------------
(* The budget *)

LEMMA BudgetInit == Init => Budget!Init
  BY DEF Init, Budget!Init

LEMMA BudgetStep == TypeOK /\ [Next]_vars => [Budget!Next]_(Budget!vars)
  <1> DEFINE inCall == {r \in Runs : pc[r] = "calling"}
             Quiet == UNCHANGED <<callsUsed, streak, tripped>> /\ inCall' = inCall
  <1> SUFFICES ASSUME TypeOK, [Next]_vars PROVE [Budget!Next]_(Budget!vars)
    OBVIOUS
  <1>1. Quiet => UNCHANGED Budget!vars
    BY DEF Budget!vars
  <1>2. CASE Midnight \/ UNCHANGED vars
    BY <1>1, <1>2 DEF Midnight, vars
  <1>3. ASSUME NEW r \in Runs,
               Reconcile(r) \/ TryConsumeDeclined(r) \/ TakeStatus(r)
                   \/ SaveRun(r) \/ GetReport(r)
        PROVE  Quiet
    BY <1>3 DEF Reconcile, TryConsumeDeclined, TakeStatus, SaveRun, GetReport, TypeOK
  <1>4. ASSUME NEW r \in Runs, TryConsumeAllowed(r) PROVE Budget!Grant(r)
    <2>1. inCall' = inCall \cup {r} /\ r \notin inCall
      BY <1>4 DEF TryConsumeAllowed, TypeOK
    <2>2. /\ r \notin tripped /\ today \in Days /\ callsUsed[today] < Ceiling
          /\ callsUsed' = [callsUsed EXCEPT ![today] = @ + 1]
          /\ UNCHANGED <<streak, tripped>>
      BY <1>4 DEF TryConsumeAllowed, Allowed, TypeOK
    <2> QED
      BY <2>1, <2>2 DEF Budget!Grant
  <1>5. ASSUME NEW r \in Runs, GroqAnswers(r)
        PROVE  Budget!Succeed(r) \/ Budget!Fail(r) \/ Budget!Lose(r)
    <2>1. PICK reply \in Reply : Book(r, reply)
      BY <1>5 DEF GroqAnswers
    <2>2. Budget!Settle(r)
      BY <1>5 DEF GroqAnswers, TypeOK, Budget!Settle
    <2>3. CASE reply \in {"match", "no_match"}
      BY <2>1, <2>2, <2>3 DEF Book, Failure, Budget!Succeed
    <2>4. CASE reply = "unexpected"
      BY <2>1, <2>2, <2>4 DEF Book, Failure, Budget!Lose
    <2>5. CASE reply \in Failure
      <3>1. /\ streak' = [streak EXCEPT ![r] = @ + 1]
            /\ tripped' = tripped \cup
                  {x \in {r} : reply = "rate_limited" \/ streak[r] + 1 >= Threshold}
        BY <2>1, <2>5 DEF Book, Failure
      <3>2. streak'[r] = streak[r] + 1 /\ streak[r] \in Nat
        BY <3>1 DEF TypeOK
      <3>3. tripped' = tripped \cup {r} \/ (streak'[r] < Threshold /\ tripped' = tripped)
        BY <3>1, <3>2
      <3> QED
        BY <2>2, <3>1, <3>3 DEF Budget!Fail
    <2> QED
      BY <2>3, <2>4, <2>5 DEF Reply, Failure
  <1>6. ASSUME NEW r \in Runs, LoseRun(r)
        PROVE  Quiet \/ Budget!Lose(r)
    <2>1. inCall' = inCall \ {r} /\ UNCHANGED <<callsUsed, streak, tripped>>
      BY <1>6 DEF LoseRun, TypeOK
    <2> QED
      BY <2>1 DEF Budget!Lose, Budget!Settle
  <1> QED
    BY <1>1, <1>2, <1>3, <1>4, <1>5, <1>6 DEF Next, Budget!Next

\* Runs, their deaths included, draw on the day's calls only as the atomic
\* budget allows.
THEOREM ServiceImplementsBudget == Spec => ImplementsCallBudget
  <1> QED
    BY BudgetInit, BudgetStep, RunServiceTypeOK, PTL
       DEF Spec, ImplementsCallBudget, Budget!Spec
=============================================================================
