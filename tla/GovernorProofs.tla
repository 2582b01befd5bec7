--------------------------- MODULE GovernorProofs ---------------------------
(***************************************************************************)
(* Proofs about Governor for any runs, days, ceiling and threshold: type   *)
(* correctness, mutual exclusion of the transactions, the daily cap, exact *)
(* counting, and the refinement of CallBudget.                             *)
(***************************************************************************)
EXTENDS GovernorRefinement, FiniteSetTheorems, SequenceTheorems, TLAPS

\* A run inside a transaction holds the write lock.
LockInv == \A r \in Runs : pc[r] \in Locked => writer = r

\* Between its SELECT and its COMMIT, what try_consume read is still true.
SlotInv ==
    \A r \in Runs : pc[r] = "commit" =>
        /\ slot[r].used = callsUsed[slot[r].day]
        /\ slot[r].used < Ceiling

IInv ==
    /\ TypeOK
    /\ LockInv
    /\ SlotInv
    /\ OpenBreakerMakesNoCall
    /\ CeilingHolds
    /\ CountIsExact

USE DEF tables, history, Go, Begin, Release

-----------------------------------------------------------------------------

LEMMA TypeInit == Init => TypeOK
  BY GovernorAssumption DEF Init, TypeOK, NoSlot, Days, Place, Reply

\* The places a run can be at, the replies it can get, and the days that
\* exist, listed for the typing steps.
LEMMA Places ==
    /\ {"idle", "breaker", "budget", "commit", "granted", "calling", "returned",
        "recording", "done", "dead"} \subseteq Place
    /\ Failure \subseteq Reply
    /\ 1 \in Days
  BY GovernorAssumption DEF Place, Locked, Calling, Stopped, Reply, Days

LEMMA TypeStep == TypeOK /\ [Next]_vars => TypeOK'
  <1> SUFFICES ASSUME TypeOK, [Next]_vars PROVE TypeOK'
    OBVIOUS
  <1> USE Places DEF TypeOK
  <1>1. CASE Midnight
    <2>1. today' \in Days
      BY <1>1, GovernorAssumption DEF Midnight, Days
    <2>2. QED
      BY <1>1, <2>1 DEF Midnight
  <1>2. ASSUME NEW r \in Runs, BeginTryConsume(r) PROVE TypeOK'
    <2>1. pc' \in [Runs -> Place]
      BY <1>2 DEF BeginTryConsume
    <2>2. asks' \in [Runs -> Nat]
      BY <1>2 DEF BeginTryConsume
    <2>3. QED
      BY <1>2, <2>1, <2>2 DEF BeginTryConsume
  <1>3. ASSUME NEW r \in Runs, DeclineOpenCircuit(r) PROVE TypeOK'
    BY <1>3 DEF DeclineOpenCircuit
  <1>4. ASSUME NEW r \in Runs, PassBreaker(r) PROVE TypeOK'
    BY <1>4 DEF PassBreaker
  <1>5. ASSUME NEW r \in Runs, DeclineAtCeiling(r) PROVE TypeOK'
    BY <1>5 DEF DeclineAtCeiling
  <1>6. ASSUME NEW r \in Runs, ReadBudget(r) PROVE TypeOK'
    BY <1>6 DEF ReadBudget
  <1>7. ASSUME NEW r \in Runs, CommitSlot(r) PROVE TypeOK'
    <2>1. pc' \in [Runs -> Place]
      BY <1>7 DEF CommitSlot
    <2>2. callsUsed' \in [Days -> Nat]
      BY <1>7 DEF CommitSlot
    <2>3. granted' \in [Days -> Nat]
      BY <1>7 DEF CommitSlot
    <2>4. QED
      BY <1>7, <2>1, <2>2, <2>3 DEF CommitSlot
  <1>8. ASSUME NEW r \in Runs, CallGroq(r) PROVE TypeOK'
    <2>1. pc' \in [Runs -> Place]
      BY <1>8 DEF CallGroq
    <2>2. groqCalls' \in [Days -> Nat]
      <3>1. groqCalls \in [Days -> Nat] /\ today \in Days
        OBVIOUS
      <3>2. groqCalls' = [groqCalls EXCEPT ![today] = groqCalls[today] + 1]
        BY <1>8 DEF CallGroq
      <3>3. QED
        BY ONLY <3>1, <3>2
    <2>3. QED
      BY <1>8, <2>1, <2>2 DEF CallGroq
  <1>9. ASSUME NEW r \in Runs, GroqReturns(r) PROVE TypeOK'
    <2>1. pc' \in [Runs -> Place]
      BY <1>9 DEF GroqReturns
    <2>2. reply' \in [Runs -> Reply]
      BY <1>9 DEF GroqReturns
    <2>3. outcomes' \in [Runs -> Seq(Reply)]
      BY <1>9 DEF GroqReturns
    <2>4. QED
      BY <1>9, <2>1, <2>2, <2>3 DEF GroqReturns
  <1>10. ASSUME NEW r \in Runs, BeginRecord(r) PROVE TypeOK'
    BY <1>10 DEF BeginRecord
  <1>11. ASSUME NEW r \in Runs, RecordSuccess(r) PROVE TypeOK'
    BY <1>11 DEF RecordSuccess
  <1>12. ASSUME NEW r \in Runs, RecordFailure(r) PROVE TypeOK'
    <2>1. pc' \in [Runs -> Place]
      BY <1>12 DEF RecordFailure
    <2>2. failures' \in [Runs -> Nat]
      BY <1>12 DEF RecordFailure
    <2>3. circuitOpen' \in [Runs -> BOOLEAN]
      BY <1>12 DEF RecordFailure
    <2>4. QED
      BY <1>12, <2>1, <2>2, <2>3 DEF RecordFailure
  <1>13. ASSUME NEW r \in Runs, Finish(r) PROVE TypeOK'
    BY <1>13 DEF Finish
  <1>14. ASSUME NEW r \in Runs, Die(r) PROVE TypeOK'
    BY <1>14 DEF Die
  <1>15. CASE UNCHANGED vars
    BY <1>15 DEF vars
  <1>16. QED
    BY <1>1, <1>2, <1>3, <1>4, <1>5, <1>6, <1>7, <1>8, <1>9, <1>10, <1>11,
       <1>12, <1>13, <1>14, <1>15 DEF Next, Step

\* Type correctness of the governor's tables and of the transactions' locals.
THEOREM GovernorTypeOK == Spec => []TypeOK
  <1>1. QED
    BY TypeInit, TypeStep, PTL DEF Spec

-----------------------------------------------------------------------------

LEMMA IInvInit == Init => IInv
  <1> SUFFICES ASSUME Init PROVE IInv
    OBVIOUS
  <1>1. TypeOK
    BY TypeInit
  <1>2. LockInv /\ SlotInv /\ OpenBreakerMakesNoCall
    BY DEF Init, LockInv, SlotInv, OpenBreakerMakesNoCall, Locked
  <1>3. CeilingHolds /\ CountIsExact
    BY GovernorAssumption DEF Init, CeilingHolds, CountIsExact
  <1>4. QED
    BY <1>1, <1>2, <1>3 DEF IInv

LEMMA LockStep == TypeOK /\ LockInv /\ [Next]_vars => LockInv'
  <1> SUFFICES ASSUME TypeOK, LockInv, [Next]_vars PROVE LockInv'
    OBVIOUS
  <1> USE GovernorAssumption DEF TypeOK, LockInv, Locked
  <1>1. CASE Midnight
    BY <1>1 DEF Midnight
  <1>2. ASSUME NEW r \in Runs, BeginTryConsume(r) \/ BeginRecord(r) PROVE LockInv'
    <2>1. CASE BeginTryConsume(r)
      BY <2>1 DEF BeginTryConsume
    <2>2. CASE BeginRecord(r)
      BY <2>2 DEF BeginRecord
    <2> QED
      BY <1>2, <2>1, <2>2
  <1>3. ASSUME NEW r \in Runs,
               DeclineOpenCircuit(r) \/ DeclineAtCeiling(r) \/ CommitSlot(r)
        PROVE LockInv'
    BY <1>3 DEF DeclineOpenCircuit, DeclineAtCeiling, CommitSlot
  <1>4. ASSUME NEW r \in Runs, RecordSuccess(r) \/ RecordFailure(r) PROVE LockInv'
    BY <1>4 DEF RecordSuccess, RecordFailure
  <1>5. ASSUME NEW r \in Runs, PassBreaker(r) \/ ReadBudget(r) PROVE LockInv'
    BY <1>5 DEF PassBreaker, ReadBudget
  <1>6. ASSUME NEW r \in Runs, CallGroq(r) \/ GroqReturns(r) \/ Finish(r)
        PROVE LockInv'
    BY <1>6 DEF CallGroq, GroqReturns, Finish
  <1>7. ASSUME NEW r \in Runs, Die(r) PROVE LockInv'
    BY <1>7 DEF Die
  <1>8. CASE UNCHANGED vars
    BY <1>8 DEF vars
  <1>9. QED
    BY <1>1, <1>2, <1>3, <1>4, <1>5, <1>6, <1>7, <1>8 DEF Next, Step

LEMMA SlotStep == TypeOK /\ LockInv /\ SlotInv /\ [Next]_vars => SlotInv'
  <1> SUFFICES ASSUME TypeOK, LockInv, SlotInv, [Next]_vars,
                      NEW q \in Runs, pc'[q] = "commit"
               PROVE  /\ slot'[q].used = callsUsed'[slot'[q].day]
                      /\ slot'[q].used < Ceiling
    BY DEF SlotInv
  <1> USE DEF TypeOK, SlotInv
  <1>1. CASE Midnight
    BY <1>1 DEF Midnight
  <1>2. ASSUME NEW r \in Runs, ReadBudget(r)
        PROVE  slot'[q].used = callsUsed'[slot'[q].day] /\ slot'[q].used < Ceiling
    BY <1>2 DEF ReadBudget
  \* Any other run at its COMMIT would hold the lock too.
  <1>3. ASSUME NEW r \in Runs, CommitSlot(r)
        PROVE  slot'[q].used = callsUsed'[slot'[q].day] /\ slot'[q].used < Ceiling
    <2>1. writer = r
      BY <1>3 DEF CommitSlot, LockInv, Locked
    <2>2. q # r /\ pc[q] = "commit"
      BY <1>3 DEF CommitSlot
    <2>3. writer = q
      BY <2>2 DEF LockInv, Locked
    <2>4. QED
      BY <2>1, <2>2, <2>3
  <1>4. ASSUME NEW r \in Runs, Step(r), ~ReadBudget(r), ~CommitSlot(r)
        PROVE  slot'[q].used = callsUsed'[slot'[q].day] /\ slot'[q].used < Ceiling
    BY <1>4 DEF Step, BeginTryConsume, DeclineOpenCircuit, PassBreaker,
                DeclineAtCeiling, CallGroq, GroqReturns, BeginRecord,
                RecordSuccess, RecordFailure, Finish
  <1>5. ASSUME NEW r \in Runs, Die(r)
        PROVE  slot'[q].used = callsUsed'[slot'[q].day] /\ slot'[q].used < Ceiling
    BY <1>5 DEF Die
  <1>6. CASE UNCHANGED vars
    BY <1>6 DEF vars
  <1>7. QED
    BY <1>1, <1>2, <1>3, <1>4, <1>5, <1>6 DEF Next

LEMMA BreakerStep ==
    TypeOK /\ OpenBreakerMakesNoCall /\ [Next]_vars => OpenBreakerMakesNoCall'
  <1> SUFFICES ASSUME TypeOK, OpenBreakerMakesNoCall, [Next]_vars,
                      NEW q \in Runs, circuitOpen'[q]
               PROVE  pc'[q] \notin Calling \cup {"budget", "commit"}
    BY DEF OpenBreakerMakesNoCall
  <1> USE DEF TypeOK, OpenBreakerMakesNoCall, Calling
  <1>1. CASE Midnight
    BY <1>1 DEF Midnight
  <1>2. ASSUME NEW r \in Runs, RecordFailure(r)
        PROVE  pc'[q] \notin Calling \cup {"budget", "commit"}
    BY <1>2 DEF RecordFailure
  <1>3. ASSUME NEW r \in Runs, Step(r), ~RecordFailure(r)
        PROVE  pc'[q] \notin Calling \cup {"budget", "commit"}
    <2>1. circuitOpen[q]
      BY <1>3 DEF Step, BeginTryConsume, DeclineOpenCircuit, PassBreaker,
                  DeclineAtCeiling, ReadBudget, CommitSlot, CallGroq,
                  GroqReturns, BeginRecord, RecordSuccess, Finish
    <2>2. pc[q] \notin Calling \cup {"budget", "commit"}
      BY <2>1
    <2>3. CASE q = r
      BY <1>3, <2>1, <2>2, <2>3
         DEF Step, BeginTryConsume, DeclineOpenCircuit, PassBreaker,
             DeclineAtCeiling, ReadBudget, CommitSlot, CallGroq,
             GroqReturns, BeginRecord, RecordSuccess, Finish
    <2>4. CASE q # r
      <3>1. pc'[q] = pc[q]
        BY <1>3, <2>4
           DEF Step, BeginTryConsume, DeclineOpenCircuit, PassBreaker,
               DeclineAtCeiling, ReadBudget, CommitSlot, CallGroq,
               GroqReturns, BeginRecord, RecordSuccess, Finish
      <3>2. QED
        BY <2>2, <3>1
    <2>5. QED
      BY <2>3, <2>4
  <1>4. ASSUME NEW r \in Runs, Die(r)
        PROVE  pc'[q] \notin Calling \cup {"budget", "commit"}
    BY <1>4 DEF Die
  <1>5. CASE UNCHANGED vars
    BY <1>5 DEF vars
  <1>6. QED
    BY <1>1, <1>2, <1>3, <1>4, <1>5 DEF Next

\* callsUsed changes only when a slot is committed, by one.
LEMMA TableStep ==
    ASSUME TypeOK, SlotInv, [Next]_vars
    PROVE  \/ UNCHANGED <<callsUsed, granted>>
           \/ \E r \in Runs :
                 /\ CommitSlot(r)
                 /\ callsUsed[slot[r].day] < Ceiling
                 /\ callsUsed' = [callsUsed EXCEPT ![slot[r].day] = @ + 1]
                 /\ granted' = [granted EXCEPT ![slot[r].day] = @ + 1]
  <1>1. ASSUME NEW r \in Runs, CommitSlot(r)
        PROVE  /\ callsUsed[slot[r].day] < Ceiling
               /\ callsUsed' = [callsUsed EXCEPT ![slot[r].day] = @ + 1]
               /\ granted' = [granted EXCEPT ![slot[r].day] = @ + 1]
    BY <1>1 DEF CommitSlot, SlotInv
  <1>2. ASSUME NEW r \in Runs, Step(r), ~CommitSlot(r)
        PROVE  UNCHANGED <<callsUsed, granted>>
    BY <1>2 DEF Step, BeginTryConsume, DeclineOpenCircuit, PassBreaker,
                DeclineAtCeiling, ReadBudget, CallGroq, GroqReturns,
                BeginRecord, RecordSuccess, RecordFailure, Finish
  <1>3. QED
    BY <1>1, <1>2 DEF Next, Midnight, Die, vars

LEMMA CeilingStep == TypeOK /\ SlotInv /\ CeilingHolds /\ [Next]_vars => CeilingHolds'
  <1> SUFFICES ASSUME TypeOK, SlotInv, CeilingHolds, [Next]_vars,
                      NEW d \in Days
               PROVE  callsUsed'[d] <= Ceiling
    BY DEF CeilingHolds
  <1>1. CASE UNCHANGED callsUsed
    BY <1>1 DEF CeilingHolds
  <1>2. ASSUME NEW r \in Runs, callsUsed[slot[r].day] < Ceiling,
               callsUsed' = [callsUsed EXCEPT ![slot[r].day] = @ + 1]
        PROVE  callsUsed'[d] <= Ceiling
    BY <1>2, GovernorAssumption DEF CeilingHolds, TypeOK
  <1>3. QED
    BY <1>1, <1>2, TableStep

LEMMA CountStep == TypeOK /\ SlotInv /\ CountIsExact /\ [Next]_vars => CountIsExact'
  BY TableStep DEF CountIsExact

LEMMA IInvStep == IInv /\ [Next]_vars => IInv'
  BY TypeStep, LockStep, SlotStep, BreakerStep, CeilingStep, CountStep DEF IInv

\* The strengthened invariant: the write lock excludes, and what a
\* transaction read stays true until it commits.
THEOREM GovernorInductive == Spec => []IInv
  <1>1. QED
    BY IInvInit, IInvStep, PTL DEF Spec

\* The daily cap holds for any number of concurrent runs and any ceiling.
THEOREM DailyCeiling == Spec => []CeilingHolds
  <1>1. IInv => CeilingHolds
    BY DEF IInv
  <1>2. QED
    BY <1>1, GovernorInductive, PTL

\* No concurrent increment of a day's row is lost or counted twice.
THEOREM ExactCount == Spec => []CountIsExact
  <1>1. IInv => CountIsExact
    BY DEF IInv
  <1>2. QED
    BY <1>1, GovernorInductive, PTL

\* Once a run's breaker is open the run makes no further Groq call.
THEOREM BreakerStopsCalls == Spec => []OpenBreakerMakesNoCall
  <1>1. IInv => OpenBreakerMakesNoCall
    BY DEF IInv
  <1>2. QED
    BY <1>1, GovernorInductive, PTL

-----------------------------------------------------------------------------
(* Calls that leave after midnight *)

\* The runs that hold a slot they have not used, or have read one of a past day.
Pending ==
    {r \in Runs : pc[r] = "granted" \/ (pc[r] = "commit" /\ slot[r].day < today)}

\* The calls made today and those still to be made are covered by today's row
\* and by one slot of an earlier day for each run.
SpillInv ==
    /\ \A r \in Runs : slot[r].day <= today
    /\ \A d \in Days : d > today => groqCalls[d] = 0
    /\ groqCalls[today] + Cardinality(Pending) <= callsUsed[today] + Cardinality(Runs)
    /\ SpillOverMidnightBounded

LEMMA PendingFinite ==
    /\ IsFiniteSet(Runs) /\ Cardinality(Runs) \in Nat
    /\ \A S \in SUBSET Runs : /\ IsFiniteSet(S) /\ Cardinality(S) \in Nat
                             /\ Cardinality(S) <= Cardinality(Runs)
  <1>1. IsFiniteSet(Runs)
    BY GovernorAssumption
  <1>2. QED
    BY <1>1, FS_CardinalityType, FS_Subset

LEMMA DaysAreNat == Days \subseteq Nat
  BY DEF Days

LEMMA CounterTypes ==
    ASSUME TypeOK
    PROVE  /\ today \in Days
           /\ \A d \in Days : groqCalls[d] \in Nat /\ callsUsed[d] \in Nat
           /\ \A r \in Runs : slot[r].day \in Days
  BY DEF TypeOK

LEMMA SpillInit == Init => SpillInv
  <1> SUFFICES ASSUME Init PROVE SpillInv
    OBVIOUS
  <1>1. Pending = {} /\ today = 1 /\ 1 \in Days
    BY GovernorAssumption DEF Init, Pending, Days
  <1>2. Cardinality(Pending) = 0 /\ Cardinality(Runs) \in Nat
    BY <1>1, FS_EmptySet, PendingFinite
  <1>3. QED
    BY <1>1, <1>2 DEF Init, SpillInv, SpillOverMidnightBounded, NoSlot

\* Steps that make no call: the pending slots may only shrink, unless today's
\* row pays for the new one.
LEMMA SpillQuiet ==
    ASSUME TypeOK, TypeOK', SpillInv, UNCHANGED <<today, groqCalls>>,
           \A d \in Days : callsUsed[d] <= callsUsed'[d],
           \A r \in Runs : slot'[r].day <= today,
           \/ Pending' \subseteq Pending
           \/ /\ callsUsed'[today] = callsUsed[today] + 1
              /\ \E r \in Runs : Pending' \subseteq Pending \cup {r}
    PROVE  SpillInv'
  <1> DEFINE n == Cardinality(Pending)
             m == Cardinality(Pending')
  <1>1. /\ Pending \subseteq Runs /\ Pending' \subseteq Runs
        /\ IsFiniteSet(Pending) /\ n \in Nat /\ m \in Nat
    BY PendingFinite DEF Pending
  <1>2. m <= n \/ (m <= n + 1 /\ callsUsed'[today] = callsUsed[today] + 1)
    <2>1. CASE Pending' \subseteq Pending
      BY <1>1, <2>1, FS_Subset
    <2>2. ASSUME NEW r \in Runs, Pending' \subseteq Pending \cup {r}
          PROVE  m <= n + 1
      <3>1. /\ IsFiniteSet(Pending \cup {r})
            /\ Cardinality(Pending \cup {r}) = n \/ Cardinality(Pending \cup {r}) = n + 1
        BY <1>1, FS_AddElement
      <3>2. Pending' \in SUBSET (Pending \cup {r})
        BY <2>2
      <3>3. m <= Cardinality(Pending \cup {r})
        BY <3>1, <3>2, FS_Subset
      <3> HIDE DEF n, m
      <3>4. QED
        BY <1>1, <3>1, <3>3
    <2>3. QED
      BY <2>1, <2>2
  <1>3. /\ today \in Days /\ today' = today /\ groqCalls' = groqCalls
        /\ \A d \in Days : groqCalls[d] \in Nat /\ callsUsed[d] \in Nat /\ callsUsed'[d] \in Nat
        /\ Cardinality(Runs) \in Nat
    BY PendingFinite, CounterTypes DEF TypeOK
  <1> HIDE DEF n, m
  <1>4. groqCalls'[today'] + m <= callsUsed'[today'] + Cardinality(Runs)
    <2>1. groqCalls[today] + n <= callsUsed[today] + Cardinality(Runs)
      BY DEF SpillInv, n
    <2>2. callsUsed[today] <= callsUsed'[today]
      BY <1>3
    <2>3. QED
      BY <1>1, <1>2, <1>3, <2>1, <2>2
  <1>5. SpillOverMidnightBounded'
    <2>1. \A d \in Days : groqCalls[d] <= callsUsed[d] + Cardinality(Runs)
      BY DEF SpillInv, SpillOverMidnightBounded
    <2>2. QED
      BY <1>3, <2>1 DEF SpillOverMidnightBounded
  <1>6. QED
    BY <1>3, <1>4, <1>5 DEF SpillInv, m

LEMMA SpillCall ==
    ASSUME TypeOK, TypeOK', SpillInv, NEW r \in Runs, CallGroq(r)
    PROVE  SpillInv'
  <1> DEFINE n == Cardinality(Pending)
             m == Cardinality(Pending')
  <1>1. /\ Pending \subseteq Runs /\ Pending' \subseteq Runs
        /\ IsFiniteSet(Pending) /\ n \in Nat /\ m \in Nat
    BY PendingFinite DEF Pending
  <1>2. /\ UNCHANGED <<today, callsUsed, slot>> /\ today \in Days
        /\ groqCalls'[today] = groqCalls[today] + 1
        /\ \A d \in Days \ {today} : groqCalls'[d] = groqCalls[d]
        /\ r \in Pending /\ Pending' = Pending \ {r}
    BY DEF CallGroq, Pending, TypeOK
  <1>3. m = n - 1
    BY <1>1, <1>2, FS_RemoveElement
  <1>4. /\ \A d \in Days : groqCalls[d] \in Nat /\ groqCalls'[d] \in Nat /\ callsUsed[d] \in Nat
        /\ Cardinality(Runs) \in Nat /\ Days \subseteq Nat
    BY PendingFinite, DaysAreNat DEF TypeOK
  <1> HIDE DEF n, m
  <1>5. groqCalls[today] + n <= callsUsed[today] + Cardinality(Runs)
    BY DEF SpillInv, n
  <1>6. groqCalls'[today'] + m <= callsUsed'[today'] + Cardinality(Runs)
    BY <1>1, <1>2, <1>3, <1>4, <1>5
  <1>7. SpillOverMidnightBounded'
    <2>1. ASSUME NEW d \in Days
          PROVE  groqCalls'[d] <= callsUsed'[d] + Cardinality(Runs)
      <3>1. CASE d = today
        <4>1. /\ groqCalls'[d] \in Nat /\ callsUsed'[d] \in Nat
              /\ groqCalls'[d] + m <= callsUsed'[d] + Cardinality(Runs)
          BY <1>2, <1>4, <1>6, <3>1
        <4>2. QED
          BY <1>1, <1>4, <4>1
      <3>2. CASE d # today
        BY <1>2, <3>2 DEF SpillInv, SpillOverMidnightBounded
      <3>3. QED
        BY <3>1, <3>2
    <2>2. QED
      BY <2>1 DEF SpillOverMidnightBounded
  <1>8. \A d \in Days : d > today' => groqCalls'[d] = 0
    BY <1>2, <1>4 DEF SpillInv
  <1>9. QED
    BY <1>2, <1>6, <1>7, <1>8 DEF SpillInv, m

\* A new day starts with no call, and each run carries one slot over at most.
LEMMA SpillMidnight ==
    ASSUME TypeOK, TypeOK', SpillInv, Midnight
    PROVE  SpillInv'
  <1>1. /\ today' = today + 1 /\ UNCHANGED <<callsUsed, groqCalls, slot>>
        /\ Days \subseteq Nat /\ today \in Days /\ today' \in Days
    BY DaysAreNat DEF Midnight, TypeOK
  <1>2. groqCalls[today'] = 0
    BY <1>1 DEF SpillInv
  <1>3. /\ Cardinality(Pending') \in Nat /\ Cardinality(Runs) \in Nat
        /\ Cardinality(Pending') <= Cardinality(Runs)
    BY PendingFinite DEF Pending
  <1>4. groqCalls'[today'] + Cardinality(Pending') <= callsUsed'[today'] + Cardinality(Runs)
    <2>1. callsUsed'[today'] \in Nat /\ groqCalls'[today'] = 0
      BY <1>1, <1>2, CounterTypes
    <2>2. QED
      BY <1>3, <2>1
  <1>5. \A q \in Runs : slot'[q].day <= today'
    <2>1. \A q \in Runs : slot[q].day \in Nat /\ slot[q].day <= today
      BY <1>1, CounterTypes DEF SpillInv
    <2>2. QED
      BY <1>1, <2>1
  <1>6. \A d \in Days : d > today' => groqCalls'[d] = 0
    BY <1>1 DEF SpillInv
  <1>7. SpillOverMidnightBounded'
    BY <1>1 DEF SpillInv, SpillOverMidnightBounded
  <1>8. QED
    BY <1>4, <1>5, <1>6, <1>7 DEF SpillInv

LEMMA SpillStep == IInv /\ SpillInv /\ [Next]_vars => SpillInv'
  <1> SUFFICES ASSUME IInv, SpillInv, [Next]_vars PROVE SpillInv'
    OBVIOUS
  <1>1. TypeOK /\ TypeOK'
    BY TypeStep DEF IInv
  <1>2. ASSUME NEW r \in Runs, CommitSlot(r) PROVE SpillInv'
    <2>1. /\ UNCHANGED <<today, groqCalls, slot>>
          /\ callsUsed' = [callsUsed EXCEPT ![slot[r].day] = @ + 1]
          /\ pc[r] = "commit" /\ \A q \in Runs \ {r} : pc'[q] = pc[q]
      BY <1>1, <1>2 DEF CommitSlot, IInv, SlotInv, TypeOK
    <2>2. slot[r].day \in Days /\ slot[r].day <= today /\ Days \subseteq Nat
      BY <1>1, DaysAreNat, CounterTypes DEF SpillInv
    <2>3. /\ callsUsed'[slot[r].day] = callsUsed[slot[r].day] + 1
          /\ \A d \in Days \ {slot[r].day} : callsUsed'[d] = callsUsed[d]
      BY <1>1, <2>1, <2>2 DEF TypeOK
    <2>4. ASSUME NEW d \in Days PROVE callsUsed[d] <= callsUsed'[d]
      <3>1. callsUsed[d] \in Nat
        BY <1>1, CounterTypes
      <3>2. callsUsed'[d] = callsUsed[d] + 1 \/ callsUsed'[d] = callsUsed[d]
        BY <2>3
      <3>3. QED
        BY <3>1, <3>2
    <2>5. CASE slot[r].day < today
      <3>1. Pending' \subseteq Pending
        BY <2>1, <2>5 DEF Pending
      <3>2. QED
        BY <1>1, <2>1, <2>4, <3>1, SpillQuiet DEF SpillInv
    <2>6. CASE slot[r].day = today
      <3>1. Pending' \subseteq Pending \cup {r}
        BY <2>1 DEF Pending
      <3>2. callsUsed'[today] = callsUsed[today] + 1
        BY <2>3, <2>6
      <3>3. QED
        BY <1>1, <2>1, <2>4, <3>1, <3>2, SpillQuiet DEF SpillInv
    <2>7. slot[r].day < today \/ slot[r].day = today
      <3>1. slot[r].day \in Nat /\ today \in Nat
        BY <1>1, CounterTypes, DaysAreNat
      <3>2. QED
        BY <2>2, <3>1
    <2>8. QED
      BY <2>5, <2>6, <2>7
  <1>3. ASSUME NEW r \in Runs, CallGroq(r) PROVE SpillInv'
    BY <1>1, <1>3, SpillCall
  <1>4. CASE Midnight
    BY <1>1, <1>4, SpillMidnight
  <1>5. ASSUME UNCHANGED <<today, callsUsed, groqCalls>>,
               \A r \in Runs : slot'[r].day <= today,
               Pending' \subseteq Pending
        PROVE  SpillInv'
    <2>1. \A d \in Days : callsUsed[d] <= callsUsed'[d]
      BY <1>1, <1>5, CounterTypes
    <2>2. QED
      BY <1>1, <1>5, <2>1, SpillQuiet
  <1>6. ASSUME NEW r \in Runs, ReadBudget(r) PROVE SpillInv'
    <2>1. /\ UNCHANGED <<today, callsUsed, groqCalls>> /\ today \in Nat
          /\ slot'[r].day = today /\ pc'[r] = "commit"
          /\ \A q \in Runs \ {r} : pc'[q] = pc[q] /\ slot'[q] = slot[q]
      BY <1>1, <1>6, DaysAreNat DEF ReadBudget, TypeOK
    <2>2. Pending' \subseteq Pending
      BY <2>1 DEF Pending
    <2>3. \A q \in Runs : slot'[q].day <= today
      BY <2>1 DEF SpillInv
    <2>4. QED
      BY <1>5, <2>1, <2>2, <2>3
  <1>7. ASSUME NEW r \in Runs, Step(r), ~CommitSlot(r), ~CallGroq(r), ~ReadBudget(r)
        PROVE  SpillInv'
    <2>1. /\ UNCHANGED <<today, callsUsed, groqCalls, slot>>
          /\ pc'[r] \notin {"granted", "commit"}
          /\ \A q \in Runs \ {r} : pc'[q] = pc[q]
      BY <1>1, <1>7 DEF Step, BeginTryConsume, DeclineOpenCircuit, PassBreaker,
                  DeclineAtCeiling, GroqReturns, BeginRecord, RecordSuccess,
                  RecordFailure, Finish, TypeOK
    <2>2. Pending' \subseteq Pending
      BY <2>1 DEF Pending
    <2>3. QED
      BY <1>5, <2>1, <2>2 DEF SpillInv
  <1>8. ASSUME NEW r \in Runs, Die(r) PROVE SpillInv'
    <2>1. /\ UNCHANGED <<today, callsUsed, groqCalls, slot>> /\ pc'[r] = "dead"
          /\ \A q \in Runs \ {r} : pc'[q] = pc[q]
      BY <1>1, <1>8 DEF Die, TypeOK
    <2>2. Pending' \subseteq Pending
      BY <2>1 DEF Pending
    <2>3. QED
      BY <1>5, <2>1, <2>2 DEF SpillInv
  <1>9. CASE UNCHANGED vars
    <2>1. Pending' = Pending
      BY <1>9 DEF vars, Pending
    <2>2. QED
      BY <1>5, <1>9, <2>1 DEF vars, SpillInv
  <1>10. QED
    BY <1>2, <1>3, <1>4, <1>6, <1>7, <1>8, <1>9 DEF Next

\* Requests that leave after the midnight that follows their slot never exceed
\* one per run and day, for any number of runs, days and slots.
THEOREM SpillOverBounded == Spec => []SpillOverMidnightBounded
  <1>1. SpillInv => SpillOverMidnightBounded
    BY DEF SpillInv
  <1>2. QED
    BY <1>1, SpillInit, SpillStep, GovernorInductive, PTL DEF Spec

-----------------------------------------------------------------------------
(* The breaker and the replies *)

\* What FailureStreak counts.
StreakSet(s) ==
    {i \in DOMAIN s : /\ s[i] \in Failure
                      /\ \A j \in i..Len(s) : s[j] # "success"}

LEMMA StreakType ==
    ASSUME NEW s \in Seq(Reply)
    PROVE  /\ IsFiniteSet(StreakSet(s)) /\ FailureStreak(s) \in Nat
           /\ FailureStreak(s) = Cardinality(StreakSet(s))
  <1>1. Len(s) \in Nat /\ StreakSet(s) \in SUBSET (1..Len(s))
    BY DEF StreakSet
  <1>2. IsFiniteSet(1..Len(s))
    BY <1>1, FS_Interval
  <1>3. IsFiniteSet(StreakSet(s))
    BY <1>1, <1>2, FS_Subset
  <1>4. FailureStreak(s) = Cardinality(StreakSet(s))
    BY DEF FailureStreak, StreakSet
  <1>5. QED
    BY <1>3, <1>4, FS_CardinalityType

LEMMA Appended ==
    ASSUME NEW s \in Seq(Reply), NEW a \in Reply
    PROVE  LET t == Append(s, a)
           IN  /\ t \in Seq(Reply) /\ Len(s) \in Nat /\ Len(t) = Len(s) + 1
               /\ DOMAIN s = 1..Len(s) /\ DOMAIN t = 1..(Len(s) + 1)
               /\ \A i \in 1..Len(s) : t[i] = s[i]
               /\ t[Len(s) + 1] = a
  BY AppendProperties

\* A reply extends the streak, ends it, or is not counted.
LEMMA StreakAppend ==
    ASSUME NEW s \in Seq(Reply), NEW a \in Reply
    PROVE  /\ a \in Failure => FailureStreak(Append(s, a)) = FailureStreak(s) + 1
           /\ a = "success" => FailureStreak(Append(s, a)) = 0
           /\ a = "unexpected" => FailureStreak(Append(s, a)) = FailureStreak(s)
  <1> DEFINE t == Append(s, a)
             n == Len(s)
  <1>1. /\ t \in Seq(Reply) /\ n \in Nat /\ Len(t) = n + 1
        /\ DOMAIN s = 1..n /\ DOMAIN t = 1..(n + 1)
        /\ \A i \in 1..n : t[i] = s[i]
        /\ t[n + 1] = a
    BY Appended
  <1>2. /\ FailureStreak(t) = Cardinality(StreakSet(t))
        /\ FailureStreak(s) = Cardinality(StreakSet(s)) /\ IsFiniteSet(StreakSet(s))
    BY <1>1, StreakType
  <1> HIDE DEF t, n
  <1>3. CASE a = "success"
    <2>1. StreakSet(t) = {}
      BY <1>1, <1>3 DEF StreakSet
    <2>2. QED
      BY <1>2, <1>3, <2>1, FS_EmptySet DEF t, Failure
  <1>4. ASSUME a # "success"
        PROVE  StreakSet(t) = IF a \in Failure THEN StreakSet(s) \cup {n + 1}
                                               ELSE StreakSet(s)
    <2>1. ASSUME NEW i \in 1..n
          PROVE  (\A j \in i..(n + 1) : t[j] # "success")
                     <=> (\A j \in i..n : s[j] # "success")
      BY <1>1, <1>4
    <2>2. \A i \in 1..n : i \in StreakSet(t) <=> i \in StreakSet(s)
      BY <1>1, <2>1 DEF StreakSet, n
    <2>3. n + 1 \in StreakSet(t) <=> a \in Failure
      BY <1>1, <1>4 DEF StreakSet
    <2>4. StreakSet(s) \subseteq 1..n /\ StreakSet(t) \subseteq 1..n \cup {n + 1}
      BY <1>1 DEF StreakSet
    <2>5. n + 1 \notin StreakSet(s)
      BY <1>1, <2>4
    <2>6. CASE a \in Failure
      <3>1. StreakSet(t) = StreakSet(s) \cup {n + 1}
        BY <2>2, <2>3, <2>4, <2>6
      <3>2. QED
        BY <2>6, <3>1
    <2>7. CASE a \notin Failure
      <3>1. StreakSet(t) = StreakSet(s)
        BY <2>2, <2>3, <2>4, <2>5, <2>7
      <3>2. QED
        BY <2>7, <3>1
    <2>8. QED
      BY <2>6, <2>7
  <1>5. n + 1 \notin StreakSet(s)
    BY <1>1 DEF StreakSet
  <1>6. CASE a \in Failure
    <2>1. a # "success" /\ a # "unexpected"
      BY <1>6 DEF Failure
    <2>2. QED
      BY <1>2, <1>4, <1>5, <1>6, <2>1, FS_AddElement DEF t
  <1>7. CASE a = "unexpected"
    <2>1. a \notin Failure /\ a # "success"
      BY <1>7 DEF Failure
    <2>2. QED
      BY <1>2, <1>4, <1>7, <2>1 DEF t
  <1>8. QED
    BY <1>3, <1>6, <1>7 DEF Reply

\* A breaker that has tripped stays so, and a reply trips it by itself or not.
LEMMA TripsAppend ==
    ASSUME NEW s \in Seq(Reply), NEW a \in Reply
    PROVE  Trips(Append(s, a)) <=>
               \/ Trips(s)
               \/ a = "rate_limited"
               \/ FailureStreak(Append(s, a)) >= Threshold
  <1> DEFINE t == Append(s, a)
             n == Len(s)
  <1>1. /\ t \in Seq(Reply) /\ n \in Nat /\ Len(t) = n + 1
        /\ DOMAIN s = 1..n /\ DOMAIN t = 1..(n + 1)
        /\ \A i \in 1..n : t[i] = s[i]
        /\ t[n + 1] = a
    BY Appended
  <1>2. SubSeq(t, 1, n + 1) = t
    BY <1>1, SubSeqFull
  <1>3. ASSUME NEW m \in 1..n PROVE SubSeq(t, 1, m) = SubSeq(s, 1, m)
    <2>1. /\ SubSeq(t, 1, m) \in Seq(Reply) /\ SubSeq(s, 1, m) \in Seq(Reply)
          /\ Len(SubSeq(t, 1, m)) = m /\ Len(SubSeq(s, 1, m)) = m
          /\ \A i \in 1..m : SubSeq(t, 1, m)[i] = t[i] /\ SubSeq(s, 1, m)[i] = s[i]
      <3>1. \A i \in 1..m : s[i] \in Reply /\ t[i] \in Reply
        BY <1>1
      <3>2. QED
        BY <1>1, <3>1, SubSeqProperties
    <2>2. \A i \in 1..m : SubSeq(t, 1, m)[i] = SubSeq(s, 1, m)[i]
      BY <1>1, <2>1
    <2>3. QED
      BY <2>1, <2>2, SeqEqual
  <1> HIDE DEF t, n
  <1>4. Trips(t) <=> \E m \in 1..n \cup {n + 1} :
                         \/ t[m] = "rate_limited"
                         \/ FailureStreak(SubSeq(t, 1, m)) >= Threshold
    <2>1. DOMAIN t = 1..n \cup {n + 1}
      BY <1>1
    <2>2. QED
      BY <2>1 DEF Trips
  <1>5. Trips(s) <=> \E m \in 1..n : \/ s[m] = "rate_limited"
                                     \/ FailureStreak(SubSeq(s, 1, m)) >= Threshold
    BY <1>1 DEF Trips
  <1>6. QED
    BY <1>1, <1>2, <1>3, <1>4, <1>5 DEF t

LEMMA TripsQuietly ==
    ASSUME NEW s \in Seq(Reply)
    PROVE  /\ Trips(Append(s, "success")) <=> Trips(s)
           /\ Trips(Append(s, "unexpected")) <=> Trips(s)
  <1>1. "success" \in Reply /\ "unexpected" \in Reply /\ Threshold \in Nat \ {0}
    BY GovernorAssumption DEF Reply
  <1>2. FailureStreak(Append(s, "success")) = 0
    BY <1>1, StreakAppend
  <1>3. Trips(Append(s, "success")) <=> Trips(s)
    BY <1>1, <1>2, TripsAppend
  <1>4. ASSUME FailureStreak(s) >= Threshold PROVE Trips(s)
    <2>1. s # <<>>
      <3>1. StreakSet(<<>>) = {} /\ <<>> \in Seq(Reply)
        BY DEF StreakSet
      <3>2. FailureStreak(<<>>) = 0
        BY <3>1, FS_EmptySet, StreakType
      <3>3. QED
        BY <1>1, <1>4, <3>2
    <2>2. Len(s) \in DOMAIN s
      BY <2>1
    <2>3. SubSeq(s, 1, Len(s)) = s
      BY SubSeqFull
    <2>4. QED
      BY <1>4, <2>2, <2>3 DEF Trips
  <1>5. FailureStreak(Append(s, "unexpected")) = FailureStreak(s)
    BY <1>1, StreakAppend
  <1>6. Trips(Append(s, "unexpected")) <=> Trips(s)
    BY <1>1, <1>4, <1>5, TripsAppend
  <1>7. QED
    BY <1>3, <1>6

\* The breaker's row of r says what the replies s call for.
Reflects(r, s) ==
    /\ failures[r] = FailureStreak(s)
    /\ circuitOpen[r] <=> Trips(s)

\* While a reply waits to be booked, the row reflects the replies before it.
BreakerInv ==
    \A r \in Runs :
        /\ pc[r] \in {"returned", "recording"} =>
               \E s \in Seq(Reply) : /\ outcomes[r] = Append(s, reply[r])
                                     /\ reply[r] # "unexpected"
                                     /\ Reflects(r, s)
        /\ pc[r] \notin {"returned", "recording", "dead"} => Reflects(r, outcomes[r])

LEMMA BreakerInit == Init => BreakerInv
  <1> SUFFICES ASSUME Init, NEW r \in Runs PROVE Reflects(r, <<>>)
    BY DEF Init, BreakerInv
  <1>1. StreakSet(<<>>) = {} /\ <<>> \in Seq(Reply)
    BY DEF StreakSet
  <1>2. FailureStreak(<<>>) = 0
    BY <1>1, StreakType, FS_EmptySet
  <1>3. ~Trips(<<>>)
    BY DEF Trips
  <1>4. QED
    BY <1>2, <1>3 DEF Init, Reflects

\* A run whose row and replies stay as they are, on its side of the call.
LEMMA BreakerSame ==
    ASSUME BreakerInv, NEW r \in Runs,
           failures'[r] = failures[r], circuitOpen'[r] = circuitOpen[r],
           reply'[r] = reply[r], outcomes'[r] = outcomes[r],
           \/ pc'[r] = pc[r]
           \/ pc'[r] = "dead"
           \/ pc[r] = "returned" /\ pc'[r] = "recording"
           \/ pc[r] \notin {"returned", "recording", "dead"} /\ pc'[r] \notin {"returned", "recording", "dead"}
    PROVE  /\ pc'[r] \in {"returned", "recording"} =>
               \E s \in Seq(Reply) : /\ outcomes'[r] = Append(s, reply'[r])
                                     /\ reply'[r] # "unexpected"
                                     /\ Reflects(r, s)'
           /\ pc'[r] \notin {"returned", "recording", "dead"} => Reflects(r, outcomes[r])'
  BY DEF BreakerInv, Reflects

LEMMA BreakerReturns ==
    ASSUME TypeOK, BreakerInv, NEW r \in Runs, GroqReturns(r)
    PROVE  /\ pc'[r] \in {"returned", "recording"} =>
               \E s \in Seq(Reply) : /\ outcomes'[r] = Append(s, reply'[r])
                                     /\ reply'[r] # "unexpected"
                                     /\ Reflects(r, s)'
           /\ pc'[r] \notin {"returned", "recording", "dead"} => Reflects(r, outcomes[r])'
  <1>1. PICK a \in Reply :
            /\ pc[r] = "calling"
            /\ pc' = [pc EXCEPT ![r] = IF a = "unexpected" THEN "idle" ELSE "returned"]
            /\ reply' = [reply EXCEPT ![r] = a]
            /\ outcomes' = [outcomes EXCEPT ![r] = Append(outcomes[r], a)]
            /\ UNCHANGED <<failures, circuitOpen>>
    BY DEF GroqReturns
  <1> PICK s : s = outcomes[r]
    OBVIOUS
  <1>2. /\ s \in Seq(Reply) /\ reply'[r] = a /\ outcomes'[r] = Append(s, a)
        /\ pc'[r] = IF a = "unexpected" THEN "idle" ELSE "returned"
    BY <1>1 DEF TypeOK
  <1>3. Reflects(r, s) /\ Reflects(r, s)'
    BY <1>1 DEF BreakerInv, Reflects
  <1>4. CASE a = "unexpected"
    <2>1. FailureStreak(Append(s, a)) = FailureStreak(s) /\ (Trips(Append(s, a)) <=> Trips(s))
      BY <1>2, <1>4, StreakAppend, TripsQuietly
    <2>2. QED
      BY <1>1, <1>2, <1>3, <1>4, <2>1 DEF Reflects
  <1>5. CASE a # "unexpected"
    BY <1>1, <1>2, <1>3, <1>5 DEF Reflects
  <1>6. QED
    BY <1>4, <1>5

LEMMA BreakerRecords ==
    ASSUME TypeOK, BreakerInv, NEW r \in Runs, RecordSuccess(r) \/ RecordFailure(r)
    PROVE  pc'[r] = "idle" /\ Reflects(r, outcomes[r])'
  <1>1. /\ pc[r] = "recording" /\ pc'[r] = "idle" /\ outcomes' = outcomes
        /\ \/ /\ reply[r] = "success" /\ failures'[r] = 0
              /\ circuitOpen'[r] = circuitOpen[r]
           \/ /\ reply[r] \in Failure /\ failures'[r] = failures[r] + 1
              /\ circuitOpen'[r] = (\/ circuitOpen[r] \/ failures[r] + 1 >= Threshold
                                    \/ reply[r] = "rate_limited")
    BY DEF RecordSuccess, RecordFailure, TypeOK
  <1>2. PICK s \in Seq(Reply) : outcomes[r] = Append(s, reply[r]) /\ Reflects(r, s)
    BY <1>1 DEF BreakerInv
  <1>3. reply[r] \in Reply
    BY DEF TypeOK
  <1>4. CASE reply[r] = "success"
    <2>1. failures'[r] = 0 /\ circuitOpen'[r] = circuitOpen[r]
      BY <1>1, <1>4 DEF Failure
    <2>2. FailureStreak(Append(s, "success")) = 0 /\ (Trips(Append(s, "success")) <=> Trips(s))
      BY <1>3, <1>4, StreakAppend, TripsQuietly
    <2>3. QED
      BY <1>1, <1>2, <1>4, <2>1, <2>2 DEF Reflects
  <1>5. CASE reply[r] \in Failure
    <2>1. /\ failures'[r] = failures[r] + 1
          /\ circuitOpen'[r] <=> \/ circuitOpen[r] \/ failures[r] + 1 >= Threshold
                                 \/ reply[r] = "rate_limited"
      BY <1>1, <1>5 DEF Failure
    <2>2. FailureStreak(outcomes[r]) = failures[r] + 1
      BY <1>2, <1>3, <1>5, StreakAppend DEF Reflects
    <2>3. Trips(outcomes[r]) <=> \/ Trips(s) \/ reply[r] = "rate_limited"
                                 \/ FailureStreak(outcomes[r]) >= Threshold
      BY <1>2, <1>3, TripsAppend
    <2>4. QED
      BY <1>1, <1>2, <2>1, <2>2, <2>3 DEF Reflects
  <1>6. QED
    BY <1>1, <1>4, <1>5

\* What a step leaves of one run's breaker and replies.
LEMMA BreakerLocal ==
    ASSUME TypeOK, [Next]_vars, NEW q \in Runs
    PROVE  \/ /\ failures'[q] = failures[q] /\ circuitOpen'[q] = circuitOpen[q]
              /\ reply'[q] = reply[q] /\ outcomes'[q] = outcomes[q]
              /\ \/ pc'[q] = pc[q]
                 \/ pc'[q] = "dead"
                 \/ pc[q] = "returned" /\ pc'[q] = "recording"
                 \/ /\ pc[q] \notin {"returned", "recording", "dead"}
                    /\ pc'[q] \notin {"returned", "recording", "dead"}
           \/ GroqReturns(q)
           \/ RecordSuccess(q) \/ RecordFailure(q)
  <1> DEFINE Same == /\ failures'[q] = failures[q] /\ circuitOpen'[q] = circuitOpen[q]
                     /\ reply'[q] = reply[q] /\ outcomes'[q] = outcomes[q]
             Moved == \/ pc'[q] = pc[q]
                      \/ pc'[q] = "dead"
                      \/ pc[q] = "returned" /\ pc'[q] = "recording"
                      \/ /\ pc[q] \notin {"returned", "recording", "dead"}
                         /\ pc'[q] \notin {"returned", "recording", "dead"}
  <1>1. ASSUME NEW r \in Runs,
               \/ BeginTryConsume(r) \/ DeclineOpenCircuit(r) \/ PassBreaker(r)
               \/ DeclineAtCeiling(r) \/ ReadBudget(r) \/ CommitSlot(r)
               \/ CallGroq(r) \/ BeginRecord(r) \/ Finish(r)
        PROVE  Same /\ Moved
    <2>1. Same
      BY <1>1 DEF BeginTryConsume, DeclineOpenCircuit, PassBreaker, DeclineAtCeiling,
                  ReadBudget, CommitSlot, CallGroq, BeginRecord, Finish
    <2>2. \/ r # q /\ pc'[q] = pc[q]
          \/ r = q /\ Moved
      BY <1>1 DEF BeginTryConsume, DeclineOpenCircuit, PassBreaker, DeclineAtCeiling,
                  ReadBudget, CommitSlot, CallGroq, BeginRecord, Finish, TypeOK
    <2>3. QED
      BY <2>1, <2>2
  <1>2. ASSUME NEW r \in Runs, r # q, GroqReturns(r) \/ RecordSuccess(r) \/ RecordFailure(r)
        PROVE  Same /\ Moved
    BY <1>2 DEF GroqReturns, RecordSuccess, RecordFailure, TypeOK
  <1>3. ASSUME NEW r \in Runs, Die(r) PROVE Same /\ Moved
    BY <1>3 DEF Die, TypeOK
  <1>4. CASE Midnight \/ UNCHANGED vars
    BY <1>4 DEF Midnight, vars
  <1>5. ASSUME NEW r \in Runs, Step(r)
        PROVE  (Same /\ Moved) \/ GroqReturns(q) \/ RecordSuccess(q) \/ RecordFailure(q)
    <2>1. CASE GroqReturns(r) \/ RecordSuccess(r) \/ RecordFailure(r)
      <3>1. CASE r = q
        BY <2>1, <3>1
      <3>2. CASE r # q
        BY <1>2, <2>1, <3>2
      <3>3. QED
        BY <3>1, <3>2
    <2>2. CASE ~(GroqReturns(r) \/ RecordSuccess(r) \/ RecordFailure(r))
      BY <1>1, <1>5, <2>2 DEF Step
    <2>3. QED
      BY <2>1, <2>2
  <1>6. (Same /\ Moved) \/ GroqReturns(q) \/ RecordSuccess(q) \/ RecordFailure(q)
    <2>1. CASE Next
      BY <1>3, <1>4, <1>5, <2>1 DEF Next
    <2>2. CASE UNCHANGED vars
      BY <1>4, <2>2
    <2>3. QED
      BY <2>1, <2>2
  <1>7. QED
    BY <1>6 DEF Same, Moved

LEMMA BreakerInvStep == TypeOK /\ BreakerInv /\ [Next]_vars => BreakerInv'
  <1> SUFFICES ASSUME TypeOK, BreakerInv, [Next]_vars, NEW q \in Runs
               PROVE  /\ pc'[q] \in {"returned", "recording"} =>
                          \E s \in Seq(Reply) : /\ outcomes'[q] = Append(s, reply'[q])
                                                /\ reply'[q] # "unexpected"
                                                /\ Reflects(q, s)'
                      /\ pc'[q] \notin {"returned", "recording", "dead"} =>
                             Reflects(q, outcomes[q])'
    BY DEF BreakerInv
  <1>1. CASE GroqReturns(q)
    BY <1>1, BreakerReturns
  <1>2. CASE RecordSuccess(q) \/ RecordFailure(q)
    BY <1>2, BreakerRecords
  <1>3. CASE ~GroqReturns(q) /\ ~RecordSuccess(q) /\ ~RecordFailure(q)
    BY <1>3, BreakerLocal, BreakerSame
  <1>4. QED
    BY <1>1, <1>2, <1>3

\* The breaker's row is a function of the run's own replies, however many runs
\* write to the table and however long the history is.
THEOREM BreakerIsTheHistory == Spec => []BreakerReflectsOutcomes
  <1>1. BreakerInv => BreakerReflectsOutcomes
    BY DEF BreakerInv, BreakerReflectsOutcomes, Reflects
  <1>2. QED
    BY <1>1, BreakerInit, BreakerInvStep, GovernorTypeOK, PTL DEF Spec

-----------------------------------------------------------------------------
(* Refinement of CallBudget *)

InCall == {r \in Runs : pc[r] \in Calling}
Tripped == {r \in Runs : circuitOpen[r]}

LEMMA BudgetInit == Init => Budget!Init
  BY DEF Init, Budget!Init, Calling

\* Steps that stay on one side of the slot are invisible to CallBudget.
LEMMA BudgetStutter ==
    ASSUME TypeOK,
           UNCHANGED <<callsUsed, failures, circuitOpen>>,
           \A q \in Runs : pc'[q] \in Calling <=> pc[q] \in Calling
    PROVE  UNCHANGED Budget!vars
  BY DEF Budget!vars

\* Leaving Calling while no table changes loses the outcome.
LEMMA BudgetLose ==
    ASSUME TypeOK, NEW r \in Runs,
           UNCHANGED <<callsUsed, failures, circuitOpen>>,
           pc[r] \in Calling, pc'[r] \notin Calling,
           \A q \in Runs \ {r} : pc'[q] = pc[q]
    PROVE  Budget!Lose(r)
  BY DEF Budget!Lose, Budget!Settle

LEMMA BudgetGrant ==
    ASSUME IInv, NEW r \in Runs, CommitSlot(r)
    PROVE  Budget!Grant(r)
  <1> USE DEF IInv, TypeOK
  <1>1. r \notin InCall \cup Tripped
    BY DEF CommitSlot, OpenBreakerMakesNoCall, InCall, Tripped, Calling
  <1>2. /\ slot[r].day \in Days
        /\ callsUsed[slot[r].day] < Ceiling
        /\ callsUsed' = [callsUsed EXCEPT ![slot[r].day] = @ + 1]
    BY DEF CommitSlot, SlotInv
  <1>3. {q \in Runs : pc'[q] \in Calling} = InCall \cup {r}
    BY DEF CommitSlot, InCall, Calling
  <1>4. UNCHANGED <<failures, circuitOpen>>
    BY DEF CommitSlot
  <1>5. QED
    BY <1>1, <1>2, <1>3, <1>4 DEF Budget!Grant, InCall, Tripped

LEMMA BudgetSettle ==
    ASSUME TypeOK, NEW r \in Runs, RecordSuccess(r) \/ RecordFailure(r)
    PROVE  Budget!Succeed(r) \/ Budget!Fail(r)
  <1> USE DEF TypeOK
  <1>1. Budget!Settle(r)
    BY DEF RecordSuccess, RecordFailure, Budget!Settle, Calling
  <1>2. CASE RecordSuccess(r)
    BY <1>1, <1>2 DEF RecordSuccess, Budget!Succeed
  <1>3. CASE RecordFailure(r)
    <2>1. failures' = [failures EXCEPT ![r] = @ + 1]
      BY <1>3 DEF RecordFailure
    <2>2. failures[r] + 1 < Threshold \/ failures[r] + 1 >= Threshold
      BY GovernorAssumption
    <2>3. \/ circuitOpen'[r]
          \/ failures[r] + 1 < Threshold /\ circuitOpen'[r] = circuitOpen[r]
      BY <1>3, <2>2 DEF RecordFailure
    <2>4. \A q \in Runs \ {r} : circuitOpen'[q] = circuitOpen[q]
      BY <1>3 DEF RecordFailure
    <2>5. \/ {q \in Runs : circuitOpen'[q]} = Tripped \cup {r}
          \/ /\ failures'[r] < Threshold
             /\ {q \in Runs : circuitOpen'[q]} = Tripped
      BY <2>1, <2>3, <2>4 DEF Tripped
    <2>6. QED
      BY <1>1, <2>1, <2>5 DEF Budget!Fail, Tripped
  <1>4. QED
    BY <1>2, <1>3

LEMMA BudgetStep == IInv /\ [Next]_vars => [Budget!Next]_(Budget!vars)
  <1> SUFFICES ASSUME IInv, [Next]_vars PROVE [Budget!Next]_(Budget!vars)
    OBVIOUS
  <1>1. TypeOK
    BY DEF IInv
  <1>2. CASE Midnight
    <2>1. UNCHANGED <<callsUsed, failures, circuitOpen, pc>>
      BY <1>2 DEF Midnight
    <2>2. QED
      BY <1>1, <2>1, BudgetStutter
  <1>3. ASSUME NEW r \in Runs, CommitSlot(r) PROVE Budget!Next
    BY <1>3, BudgetGrant DEF Budget!Next
  <1>4. ASSUME NEW r \in Runs, RecordSuccess(r) \/ RecordFailure(r) PROVE Budget!Next
    BY <1>1, <1>4, BudgetSettle DEF Budget!Next
  <1>5. ASSUME NEW r \in Runs,
               \/ BeginTryConsume(r) \/ DeclineOpenCircuit(r) \/ PassBreaker(r)
               \/ DeclineAtCeiling(r) \/ ReadBudget(r) \/ CallGroq(r)
               \/ BeginRecord(r) \/ Finish(r)
        PROVE  UNCHANGED Budget!vars
    <2>1. UNCHANGED <<callsUsed, failures, circuitOpen>>
      BY <1>5 DEF BeginTryConsume, DeclineOpenCircuit, PassBreaker,
                  DeclineAtCeiling, ReadBudget, CallGroq, BeginRecord, Finish
    <2>2. \A q \in Runs : pc'[q] \in Calling <=> pc[q] \in Calling
      BY <1>1, <1>5 DEF TypeOK, Calling, BeginTryConsume, DeclineOpenCircuit,
         PassBreaker, DeclineAtCeiling, ReadBudget, CallGroq, BeginRecord, Finish
    <2>3. QED
      BY <1>1, <2>1, <2>2, BudgetStutter
  <1>6. ASSUME NEW r \in Runs, GroqReturns(r) \/ Die(r)
        PROVE  [Budget!Next]_(Budget!vars)
    <2>1. /\ UNCHANGED <<callsUsed, failures, circuitOpen>>
          /\ \A q \in Runs \ {r} : pc'[q] = pc[q]
      BY <1>1, <1>6 DEF TypeOK, GroqReturns, Die
    <2>2. pc'[r] \in Calling => pc[r] \in Calling
      BY <1>1, <1>6 DEF TypeOK, GroqReturns, Die, Calling
    <2>3. CASE pc[r] \in Calling /\ pc'[r] \notin Calling
      BY <1>1, <2>1, <2>3, BudgetLose DEF Budget!Next
    <2>4. CASE pc[r] \in Calling <=> pc'[r] \in Calling
      BY <1>1, <2>1, <2>4, BudgetStutter
    <2>5. QED
      BY <2>2, <2>3, <2>4
  <1>7. CASE UNCHANGED vars
    BY <1>1, <1>7, BudgetStutter DEF vars
  <1>8. QED
    BY <1>2, <1>3, <1>4, <1>5, <1>6, <1>7 DEF Next, Step

\* The SQL transactions, with crashes and days rolling over, implement the
\* atomic call budget for any number of runs.
THEOREM GovernorImplementsBudget == Spec => ImplementsCallBudget
  <1>1. QED
    BY BudgetInit, BudgetStep, GovernorInductive, PTL
       DEF Spec, ImplementsCallBudget, Budget!Spec

=============================================================================
