---------------------------- MODULE ReviewProofs ----------------------------
(***************************************************************************)
(* Proofs about Review for any groups, reviewers and number of concurrent  *)
(* requests: the audit trail explains every row and the verifier's own     *)
(* verdicts stand, however requests race; and, when no two requests name   *)
(* the same group at once, a closed group stays closed and the endpoint    *)
(* implements the atomic ReviewLedger.                                     *)
(***************************************************************************)
EXTENDS ReviewRefinement, TLAPS

\* A review decides the same whether it is applied to the row x or to y.
SameFate(x, y) ==
    \A w \in Reviewers, act \in Action : Reviewed(x, w, act) = Reviewed(y, w, act)

\* Before save_run there is nothing to review.
UnpublishedInv ==
    ~published => /\ \A g \in Groups : rows[g] = NoRow /\ birth[g] = NoRow
                  /\ \A q \in Requests : ~InProgress(q)

\* An open row, and any copy of one however stale, can differ from the row the
\* pipeline wrote only in the fields every review overwrites.
OpenRowInv ==
    \A g \in Groups : rows[g].status = "PENDING_REVIEW" =>
        /\ birth[g].status = "PENDING_REVIEW"
        /\ SameFate(rows[g], birth[g])

CopyInv ==
    \A q \in Requests : pc[q] = "read" =>
        /\ birth[asked[q].group].status = "PENDING_REVIEW"
        /\ SameFate(copy[q], birth[asked[q].group])
        /\ copy[q] \in Row

AskedInv == \A q \in Requests : InProgress(q) => asked[q] \in Event

\* Nothing is published twice: what save_run wrote is there from then on.
IInv ==
    /\ TypeOK
    /\ UnpublishedInv
    /\ AskedInv
    /\ OpenRowInv
    /\ CopyInv
    /\ TrailExplainsRow
    /\ SystemVerdictsStand
    /\ (~published => events = <<>>)

USE DEF locals, Answer
-----------------------------------------------------------------------------
(* About rows *)

LEMMA PipelineRowIsRow == PipelineRow \subseteq Row
  BY DEF PipelineRow, Row, Unreviewed, NoOne, Action

LEMMA NoRowIsNoRow == \A row \in Row : row # NoRow /\ row.status # "absent"
  BY DEF Row, NoRow

LEMMA ReviewedIsRow ==
    ASSUME NEW row \in Row, NEW w \in Reviewers, NEW act \in Action
    PROVE  Reviewed(row, w, act) \in Row
  BY DEF Reviewed, Row, Action

\* Escalating first changes nothing for the review that follows.
LEMMA EscalatedSameFate ==
    ASSUME NEW row \in Row, NEW w \in Reviewers, NEW act \in Action,
           row.status = "PENDING_REVIEW",
           Reviewed(row, w, act).status = "PENDING_REVIEW"
    PROVE  SameFate(Reviewed(row, w, act), row)
  <1>1. act = "ESCALATED"
    BY DEF Reviewed, Action, Row
  <1>2. ASSUME NEW v \in Reviewers, NEW b \in Action
        PROVE  Reviewed(Reviewed(row, w, act), v, b) = Reviewed(row, v, b)
    BY <1>1, <1>2 DEF Reviewed, Action, Row
  <1>3. QED
    BY <1>2 DEF SameFate

-----------------------------------------------------------------------------
(* Type correctness *)

LEMMA TypeInit == Init => TypeOK
  <1> SUFFICES ASSUME Init PROVE TypeOK
    OBVIOUS
  <1>1. <<>> \in Seq(Event)
    OBVIOUS
  <1>2. rows \in [Groups -> Row \cup {NoRow}] /\ birth \in [Groups -> PipelineRow \cup {NoRow}]
    BY DEF Init
  <1>3. audit \in [Audits -> AuditState]
    BY <1>1, <1>2 DEF Init, AuditState
  <1>4. QED
    BY <1>1, <1>2, <1>3 DEF Init, TypeOK

LEMMA TypeStep == TypeOK /\ AskedInv /\ CopyInv /\ [Next]_vars => TypeOK'
  <1> SUFFICES ASSUME TypeOK, AskedInv, CopyInv, [Next]_vars PROVE TypeOK'
    OBVIOUS
  <1> USE DEF TypeOK
  <1>1. CASE SaveRun
    BY <1>1, PipelineRowIsRow DEF SaveRun
  <1>2. ASSUME NEW q \in Requests, NEW d \in Event, FindRun(q, d) PROVE TypeOK'
    BY <1>2 DEF FindRun
  <1>3. ASSUME NEW q \in Requests,
               RunNotFound(q) \/ GroupNotFound(q) \/ GroupNotPending(q)
                 \/ Respond(q) \/ Abort(q)
        PROVE  TypeOK'
    BY <1>3 DEF RunNotFound, GroupNotFound, GroupNotPending, Respond, Abort
  <1>4. ASSUME NEW q \in Requests, ReadPending(q) PROVE TypeOK'
    <2>1. asked[q] \in Event
      BY <1>4 DEF ReadPending, AskedInv, InProgress
    <2>2. rows[asked[q].group] \in Row \cup {NoRow}
      BY <2>1 DEF Event
    <2>3. QED
      BY <1>4, <2>2 DEF ReadPending
  <1>5. ASSUME NEW q \in Requests, ApplyReview(q) PROVE TypeOK'
    <2>1. asked[q] \in Event /\ copy[q] \in Row
      BY <1>5 DEF ApplyReview, AskedInv, CopyInv, InProgress
    <2>2. Reviewed(copy[q], asked[q].reviewer, asked[q].action) \in Row
      BY <2>1, ReviewedIsRow DEF Event
    <2>3. rows' \in [Groups -> Row \cup {NoRow}]
      BY <1>5, <2>2 DEF ApplyReview
    <2>4. events' \in Seq(Event)
      BY <1>5, <2>1 DEF ApplyReview
    <2>5. QED
      BY <1>5, <2>3, <2>4 DEF ApplyReview
  <1>6. ASSUME NEW a \in Audits, AuditRead(a) PROVE TypeOK'
    <2>1. \E body \in AuditState : audit' = [audit EXCEPT ![a] = body]
      <3>1. audit[a] \in AuditState
        OBVIOUS
      <3>2. /\ [audit[a] EXCEPT !.pc = "events", !.events = events] \in AuditState
            /\ [audit[a] EXCEPT !.pc = "done", !.rows = rows] \in AuditState
        BY <3>1 DEF AuditState
      <3>3. QED
        BY <1>6, <3>2 DEF AuditRead
    <2>2. audit' \in [Audits -> AuditState]
      BY <2>1
    <2>3. QED
      BY <1>6, <2>2 DEF AuditRead
  <1>7. CASE UNCHANGED vars
    BY <1>7 DEF vars
  <1>8. QED
    BY <1>1, <1>2, <1>3, <1>4, <1>5, <1>6, <1>7 DEF Next

-----------------------------------------------------------------------------
(* The invariant *)

\* Steps that touch neither a row nor the trail, nor put a request in progress.
Quiet ==
    /\ UNCHANGED <<rows, events, published, birth, asked>>
    /\ \A q \in Requests :
          pc'[q] \in {"found", "read"} => pc'[q] = pc[q] /\ copy'[q] = copy[q]

LEMMA IInvInit == Init => IInv
  <1> SUFFICES ASSUME Init PROVE IInv
    OBVIOUS
  <1>1. TypeOK
    BY TypeInit
  <1>2. UnpublishedInv /\ AskedInv /\ CopyInv
    BY DEF Init, UnpublishedInv, AskedInv, CopyInv, InProgress
  <1>3. OpenRowInv
    BY DEF Init, OpenRowInv, NoRow
  <1>4. TrailExplainsRow /\ SystemVerdictsStand
    BY DEF Init, TrailExplainsRow, Explains, IsLastOf, SystemVerdictsStand
  <1>5. QED
    BY <1>1, <1>2, <1>3, <1>4 DEF IInv, Init

LEMMA QuietStep == IInv /\ Quiet /\ TypeOK' => IInv'
  BY DEF IInv, Quiet, UnpublishedInv, AskedInv, OpenRowInv, CopyInv,
         TrailExplainsRow, Explains, IsLastOf, SystemVerdictsStand, InProgress, SameFate

LEMMA SaveRunStep == IInv /\ SaveRun /\ TypeOK' => IInv'
  <1> SUFFICES ASSUME IInv, SaveRun, TypeOK' PROVE IInv'
    OBVIOUS
  <1>1. /\ published' /\ rows' = birth' /\ events' = <<>>
        /\ UNCHANGED <<pc, asked, copy>>
        /\ \A q \in Requests : ~InProgress(q)
    BY DEF SaveRun, IInv, UnpublishedInv
  <1>2. UnpublishedInv' /\ AskedInv' /\ CopyInv'
    BY <1>1 DEF UnpublishedInv, AskedInv, CopyInv, InProgress
  <1>3. OpenRowInv'
    BY <1>1 DEF OpenRowInv, SameFate
  <1>4. TrailExplainsRow' /\ SystemVerdictsStand'
    BY <1>1 DEF TrailExplainsRow, Explains, IsLastOf, SystemVerdictsStand
  <1>5. QED
    BY <1>1, <1>2, <1>3, <1>4 DEF IInv

LEMMA FindRunStep ==
    ASSUME IInv, TypeOK', NEW q \in Requests, NEW d \in Event, FindRun(q, d)
    PROVE  IInv'
  <1>1. /\ UNCHANGED <<rows, events, published, birth, copy>>
        /\ published
        /\ \A p \in Requests \ {q} : pc'[p] = pc[p] /\ asked'[p] = asked[p]
        /\ pc'[q] = "found" /\ asked'[q] = d
    BY DEF FindRun, IInv, TypeOK
  <1>2. UnpublishedInv' /\ OpenRowInv'
    BY <1>1 DEF IInv, UnpublishedInv, OpenRowInv, SameFate
  <1>3. AskedInv' /\ CopyInv'
    BY <1>1 DEF IInv, AskedInv, CopyInv, InProgress, SameFate
  <1>4. TrailExplainsRow' /\ SystemVerdictsStand'
    BY <1>1 DEF IInv, TrailExplainsRow, Explains, IsLastOf, SystemVerdictsStand
  <1>5. QED
    BY <1>1, <1>2, <1>3, <1>4 DEF IInv

LEMMA ReadPendingStep ==
    ASSUME IInv, TypeOK', NEW q \in Requests, ReadPending(q)
    PROVE  IInv'
  <1> DEFINE g == asked[q].group
  <1>1. /\ UNCHANGED <<rows, events, published, birth, asked>>
        /\ \A p \in Requests \ {q} : pc'[p] = pc[p] /\ copy'[p] = copy[p]
        /\ pc[q] = "found" /\ pc'[q] = "read" /\ copy'[q] = rows[g]
        /\ rows[g].status = "PENDING_REVIEW"
    BY DEF ReadPending, IInv, TypeOK
  <1>2. g \in Groups
    BY <1>1 DEF IInv, AskedInv, InProgress, Event
  <1>3. UnpublishedInv' /\ OpenRowInv' /\ AskedInv'
    BY <1>1 DEF IInv, UnpublishedInv, OpenRowInv, AskedInv, InProgress, SameFate
  <1>4. rows[g] \in Row
    BY <1>1, <1>2 DEF IInv, TypeOK, NoRow
  <1>5. CopyInv'
    BY <1>1, <1>2, <1>4 DEF IInv, OpenRowInv, CopyInv, SameFate
  <1>6. TrailExplainsRow' /\ SystemVerdictsStand'
    BY <1>1 DEF IInv, TrailExplainsRow, Explains, IsLastOf, SystemVerdictsStand
  <1>7. QED
    BY <1>1, <1>3, <1>5, <1>6 DEF IInv

\* The heart of the proof: a write computed from a stale copy is still the
\* write the pipeline's row calls for, and the event committed with it is the
\* group's last.
LEMMA ApplyReviewStep ==
    ASSUME IInv, TypeOK', NEW q \in Requests, ApplyReview(q)
    PROVE  IInv'
  <1> DEFINE d == asked[q]
             new == Reviewed(copy[q], d.reviewer, d.action)
  <1>1. /\ UNCHANGED <<published, birth, asked>>
        /\ rows' = [rows EXCEPT ![d.group] = new]
        /\ events' = Append(events, d)
        /\ pc[q] = "read" /\ pc'[q] = "committed"
        /\ \A p \in Requests \ {q} : pc'[p] = pc[p] /\ copy'[p] = copy[p]
    BY DEF ApplyReview, IInv, TypeOK
  <1>2. /\ d \in Event /\ d.group \in Groups
        /\ d.reviewer \in Reviewers /\ d.action \in Action
    BY <1>1 DEF IInv, AskedInv, InProgress, Event
  <1>3. /\ birth[d.group].status = "PENDING_REVIEW"
        /\ SameFate(copy[q], birth[d.group])
        /\ birth[d.group] \in Row
    BY <1>1, <1>2, PipelineRowIsRow DEF IInv, CopyInv, TypeOK, NoRow
  <1>4. new = Reviewed(birth[d.group], d.reviewer, d.action)
    BY <1>2, <1>3 DEF SameFate
  <1>5. /\ rows \in [Groups -> Row \cup {NoRow}] /\ events \in Seq(Event)
        /\ rows'[d.group] = new
        /\ \A g \in Groups \ {d.group} : rows'[g] = rows[g]
    BY <1>1, <1>2 DEF IInv, TypeOK
  <1>6. published
    BY <1>1 DEF IInv, UnpublishedInv, InProgress
  <1>7. UnpublishedInv' /\ AskedInv' /\ CopyInv'
    BY <1>1, <1>6 DEF IInv, UnpublishedInv, AskedInv, CopyInv, InProgress, SameFate
  <1>8. OpenRowInv'
    <2>1. ASSUME NEW g \in Groups, rows'[g].status = "PENDING_REVIEW"
          PROVE  birth[g].status = "PENDING_REVIEW" /\ SameFate(rows'[g], birth[g])
      <3>1. CASE g = d.group
        <4>1. SameFate(new, birth[d.group])
          BY <1>2, <1>3, <1>4, <1>5, <2>1, <3>1, EscalatedSameFate
        <4>2. QED
          BY <1>3, <1>5, <3>1, <4>1
      <3>2. CASE g # d.group
        BY <1>5, <2>1, <3>2 DEF IInv, OpenRowInv
      <3>3. QED
        BY <3>1, <3>2
    <2>2. QED
      BY <1>1, <2>1 DEF OpenRowInv, SameFate
  <1>9. /\ DOMAIN events' = 1..(Len(events) + 1)
        /\ DOMAIN events = 1..Len(events) /\ Len(events) \in Nat
        /\ events'[Len(events) + 1] = d
        /\ \A i \in DOMAIN events : events'[i] = events[i]
    BY <1>1, <1>2, <1>5
  <1>10. TrailExplainsRow'
    <2>1. ASSUME NEW g \in Groups
          PROVE  /\ (\A i \in DOMAIN events' : events'[i].group # g) => rows'[g] = birth[g]
                 /\ \A i \in DOMAIN events' : IsLastOf(i, events', g) =>
                      rows'[g] = Reviewed(birth[g], events'[i].reviewer, events'[i].action)
      <3>1. CASE g = d.group
        <4>1. events'[Len(events) + 1].group = g
          BY <1>9, <3>1
        <4>2. ASSUME NEW i \in DOMAIN events', IsLastOf(i, events', g)
              PROVE  i = Len(events) + 1
          BY <1>9, <4>1, <4>2 DEF IsLastOf
        <4>3. \A i \in DOMAIN events' : IsLastOf(i, events', g) =>
                 rows'[g] = Reviewed(birth[g], events'[i].reviewer, events'[i].action)
          BY <1>4, <1>5, <1>9, <3>1, <4>2
        <4>4. \E i \in DOMAIN events' : events'[i].group = g
          BY <1>9, <4>1
        <4>5. QED
          BY <4>3, <4>4
      <3>2. CASE g # d.group
        <4>1. Explains(events, g, rows[g])
          BY DEF IInv, TrailExplainsRow
        <4>2. ASSUME NEW i \in DOMAIN events', IsLastOf(i, events', g)
              PROVE  i \in DOMAIN events /\ IsLastOf(i, events, g)
          BY <1>9, <3>2, <4>2 DEF IsLastOf
        <4>3. (\A i \in DOMAIN events' : events'[i].group # g)
                 => \A i \in DOMAIN events : events[i].group # g
          BY <1>9
        <4>4. \A i \in DOMAIN events' : IsLastOf(i, events', g) =>
                 rows'[g] = Reviewed(birth[g], events'[i].reviewer, events'[i].action)
          BY <1>5, <1>9, <3>2, <4>1, <4>2 DEF Explains
        <4>5. (\A i \in DOMAIN events' : events'[i].group # g) => rows'[g] = birth[g]
          BY <1>5, <3>2, <4>1, <4>3 DEF Explains
        <4>6. QED
          BY <4>4, <4>5
      <3>3. QED
        BY <3>1, <3>2
    <2>2. QED
      BY <1>1, <2>1 DEF TrailExplainsRow, Explains, IsLastOf
  <1>11. SystemVerdictsStand'
    BY <1>1, <1>2, <1>3, <1>5, <1>9 DEF IInv, SystemVerdictsStand
  <1>12. QED
    BY <1>1, <1>6, <1>7, <1>8, <1>10, <1>11 DEF IInv

LEMMA IInvStep == IInv /\ [Next]_vars => IInv'
  <1> SUFFICES ASSUME IInv, [Next]_vars PROVE IInv'
    OBVIOUS
  <1>1. TypeOK'
    BY TypeStep DEF IInv
  <1>2. ASSUME NEW q \in Requests,
               RunNotFound(q) \/ GroupNotFound(q) \/ GroupNotPending(q)
                 \/ Respond(q) \/ Abort(q)
        PROVE  Quiet
    BY <1>2 DEF Quiet, IInv, TypeOK, RunNotFound, GroupNotFound, GroupNotPending, Respond, Abort
  <1>3. ASSUME NEW a \in Audits, AuditRead(a) PROVE Quiet
    BY <1>3 DEF AuditRead, Quiet
  <1>4. CASE UNCHANGED vars
    BY <1>1, <1>4, QuietStep DEF vars, Quiet
  <1>5. QED
    BY <1>1, <1>2, <1>3, <1>4, QuietStep, SaveRunStep, FindRunStep,
       ReadPendingStep, ApplyReviewStep DEF Next

\* The strengthened invariant: a copy, however stale, decides what the row the
\* pipeline wrote would decide.
THEOREM ReviewInductive == Spec => []IInv
  <1>1. QED
    BY IInvInit, IInvStep, PTL DEF Spec

\* Type correctness of the stored rows, the trail and the requests' locals.
THEOREM ReviewTypeOK == Spec => []TypeOK
  <1>1. IInv => TypeOK
    BY DEF IInv
  <1>2. QED
    BY <1>1, ReviewInductive, PTL

\* Whatever races, every row is the pipeline's row with the last recorded
\* decision applied.
THEOREM TrailExplains == Spec => []TrailExplainsRow
  <1>1. IInv => TrailExplainsRow
    BY DEF IInv
  <1>2. QED
    BY <1>1, ReviewInductive, PTL

\* Whatever races, no review touches a group the verifier itself closed.
THEOREM SystemVerdicts == Spec => []SystemVerdictsStand
  <1>1. IInv => SystemVerdictsStand
    BY DEF IInv
  <1>2. QED
    BY <1>1, ReviewInductive, PTL

-----------------------------------------------------------------------------
(* What reviewers and auditors are told *)

\* A request's entry is in the trail exactly from its commit on, and no answer
\* but an error can come between a request's look-up and its commit.
AckInv ==
    /\ \A q \in Requests : InProgress(q) \/ pc[q] = "committed" => asked[q].event_id = q
    /\ \A q \in Requests : pc[q] # "done" => response[q] = "none"
    /\ \A q \in Requests : pc[q] \in {"new", "found", "read"} => EntriesOf(q) = {}
    /\ \A q \in Requests : pc[q] = "committed" \/ response[q] = "200" =>
          \E i \in EntriesOf(q) : events[i] = asked[q]
    /\ AnswersMatchTrail

LEMMA AckInit == Init => AckInv
  <1> SUFFICES ASSUME Init PROVE AckInv
    OBVIOUS
  <1>1. \A q \in Requests : pc[q] = "new" /\ response[q] = "none"
    BY DEF Init
  <1>2. DOMAIN events = {}
    BY DEF Init
  <1>3. QED
    BY <1>1, <1>2 DEF AckInv, AnswersMatchTrail, EntriesOf, InProgress

\* A step of one request that leaves the trail alone.
LEMMA AckQuiet ==
    ASSUME IInv, AckInv, NEW q \in Requests, pc[q] # "done",
           UNCHANGED events,
           \A p \in Requests \ {q} : /\ pc'[p] = pc[p] /\ asked'[p] = asked[p]
                                     /\ response'[p] = response[p],
           pc[q] # "new" => asked'[q] = asked[q],
           \/ /\ pc'[q] = "found" /\ pc[q] = "new" /\ asked'[q].event_id = q
              /\ response'[q] = "none"
           \/ pc'[q] = "read" /\ pc[q] = "found" /\ response'[q] = "none"
           \/ pc'[q] = "done" /\ response'[q] = "500"
           \/ /\ pc'[q] = "done" /\ pc[q] \in {"new", "found"}
              /\ response'[q] \in {"404", "409"}
           \/ pc'[q] = "done" /\ pc[q] = "committed" /\ response'[q] = "200"
    PROVE  AckInv'
  <1>1. \A p \in Requests : EntriesOf(p)' = EntriesOf(p)
    BY DEF EntriesOf
  <1>2. \A p \in Requests : \A i, j \in EntriesOf(p) : i = j
    BY DEF AckInv, AnswersMatchTrail
  <1>3. ASSUME NEW p \in Requests
        PROVE  /\ InProgress(p)' \/ pc'[p] = "committed" => asked'[p].event_id = p
               /\ pc'[p] # "done" => response'[p] = "none"
               /\ pc'[p] \in {"new", "found", "read"} => EntriesOf(p) = {}
               /\ pc'[p] = "committed" \/ response'[p] = "200" =>
                     \E i \in EntriesOf(p) : events[i] = asked'[p]
               /\ response'[p] \in {"404", "409"} => EntriesOf(p) = {}
    <2>1. CASE p # q
      BY <1>3, <2>1 DEF AckInv, AnswersMatchTrail, InProgress
    <2>2. CASE p = q
      BY <1>3, <2>2 DEF AckInv, AnswersMatchTrail, InProgress
    <2>3. QED
      BY <2>1, <2>2
  <1>4. AnswersMatchTrail'
    BY <1>1, <1>2, <1>3 DEF AnswersMatchTrail
  <1>5. QED
    BY <1>1, <1>3, <1>4 DEF AckInv

LEMMA AckApply ==
    ASSUME IInv, AckInv, NEW q \in Requests, ApplyReview(q)
    PROVE  AckInv'
  <1>1. /\ UNCHANGED <<asked, response>> /\ events' = Append(events, asked[q])
        /\ pc[q] = "read" /\ pc'[q] = "committed"
        /\ \A p \in Requests \ {q} : pc'[p] = pc[p]
    BY DEF ApplyReview, IInv, TypeOK
  <1>2. asked[q] \in Event /\ asked[q].event_id = q /\ events \in Seq(Event)
    BY <1>1 DEF IInv, TypeOK, AskedInv, AckInv, InProgress
  <1>3. /\ DOMAIN events' = 1..(Len(events) + 1)
        /\ DOMAIN events = 1..Len(events) /\ Len(events) \in Nat
        /\ events'[Len(events) + 1] = asked[q]
        /\ \A i \in DOMAIN events : events'[i] = events[i]
    BY <1>1, <1>2
  <1>4. DOMAIN events' = DOMAIN events \cup {Len(events) + 1}
    BY <1>3
  <1>5. \A p \in Requests \ {q} : EntriesOf(p)' = EntriesOf(p)
    BY <1>2, <1>3, <1>4 DEF EntriesOf
  <1>6. EntriesOf(q) = {}
    BY <1>1 DEF AckInv
  <1>7. EntriesOf(q)' = {Len(events) + 1}
    BY <1>2, <1>3, <1>4, <1>6 DEF EntriesOf
  <1>8. response[q] = "none"
    BY <1>1 DEF AckInv
  <1>9. ASSUME NEW p \in Requests \ {q}
        PROVE  \A i \in EntriesOf(p) : events'[i] = events[i]
    BY <1>3 DEF EntriesOf
  <1>10. ASSUME NEW p \in Requests
         PROVE  /\ InProgress(p)' \/ pc'[p] = "committed" => asked'[p].event_id = p
                /\ pc'[p] # "done" => response'[p] = "none"
                /\ pc'[p] \in {"new", "found", "read"} => EntriesOf(p)' = {}
                /\ pc'[p] = "committed" \/ response'[p] = "200" =>
                      \E i \in EntriesOf(p)' : events'[i] = asked'[p]
                /\ \A i, j \in EntriesOf(p)' : i = j
                /\ response'[p] \in {"404", "409"} => EntriesOf(p)' = {}
    <2>1. CASE p = q
      BY <1>1, <1>2, <1>3, <1>7, <1>8, <2>1 DEF InProgress
    <2>2. CASE p # q
      <3>1. /\ EntriesOf(p)' = EntriesOf(p) /\ pc'[p] = pc[p]
            /\ asked'[p] = asked[p] /\ response'[p] = response[p]
        BY <1>1, <1>5, <2>2
      <3>2. \A i \in EntriesOf(p) : events'[i] = events[i]
        BY <1>9, <2>2
      <3>3. QED
        BY <3>1, <3>2 DEF AckInv, AnswersMatchTrail, InProgress
    <2>3. QED
      BY <2>1, <2>2
  <1>11. AnswersMatchTrail'
    BY <1>10 DEF AnswersMatchTrail
  <1>12. QED
    BY <1>10, <1>11 DEF AckInv

LEMMA AckStep == IInv /\ AckInv /\ [Next]_vars => AckInv'
  <1> SUFFICES ASSUME IInv, AckInv, [Next]_vars PROVE AckInv'
    OBVIOUS
  <1>1. ASSUME UNCHANGED <<events, pc, asked, response>> PROVE AckInv'
    BY <1>1 DEF AckInv, AnswersMatchTrail, EntriesOf, InProgress
  <1>2. CASE SaveRun \/ (\E a \in Audits : AuditRead(a)) \/ UNCHANGED vars
    BY <1>1, <1>2 DEF SaveRun, AuditRead, vars
  <1>3. ASSUME NEW q \in Requests, NEW d \in Event, FindRun(q, d) PROVE AckInv'
    <2>1. response[q] = "none"
      BY <1>3 DEF FindRun, AckInv
    <2>2. QED
      BY <1>3, <2>1, AckQuiet DEF FindRun, IInv, TypeOK
  <1>4. ASSUME NEW q \in Requests, RunNotFound(q) PROVE AckInv'
    BY <1>4, AckQuiet DEF RunNotFound, IInv, TypeOK
  <1>5. ASSUME NEW q \in Requests, GroupNotFound(q) \/ GroupNotPending(q)
        PROVE  AckInv'
    BY <1>5, AckQuiet DEF GroupNotFound, GroupNotPending, IInv, TypeOK
  <1>6. ASSUME NEW q \in Requests, ReadPending(q) PROVE AckInv'
    <2>1. response[q] = "none"
      BY <1>6 DEF ReadPending, AckInv
    <2>2. QED
      BY <1>6, <2>1, AckQuiet DEF ReadPending, IInv, TypeOK
  <1>7. ASSUME NEW q \in Requests, Respond(q) \/ Abort(q) PROVE AckInv'
    BY <1>7, AckQuiet DEF Respond, Abort, IInv, TypeOK
  <1>8. ASSUME NEW q \in Requests, ApplyReview(q) PROVE AckInv'
    BY <1>8, AckApply
  <1>9. QED
    BY <1>2, <1>3, <1>4, <1>5, <1>6, <1>7, <1>8 DEF Next

\* However requests race, die, lose their answers or are refused: 200 means one
\* entry with what was asked, a refusal means none, a failure at most one.
THEOREM AnswersAreTrue == Spec => []AnswersMatchTrail
  <1>1. AckInv => AnswersMatchTrail
    BY DEF AckInv
  <1>2. QED
    BY <1>1, AckInit, AckStep, ReviewInductive, PTL DEF Spec

\* Every decision in a trail shows in these rows.
Shown(trail, table) ==
    \A i \in DOMAIN trail : table[trail[i].group].review_action # NoOne

\* A decision once shown stays shown, so what an audit read first is still
\* there when it reads the rows.
AuditInv ==
    /\ Shown(events, rows)
    /\ ~published => \A a \in Audits : audit[a].pc = "new"
    /\ \A a \in Audits : audit[a].pc = "events" => Shown(audit[a].events, rows)
    /\ AuditedDecisionsAreApplied

LEMMA AuditInit == Init => AuditInv
  <1> SUFFICES ASSUME Init PROVE AuditInv
    OBVIOUS
  <1>1. DOMAIN events = {} /\ \A a \in Audits : audit[a].pc = "new"
    BY DEF Init
  <1>2. QED
    BY <1>1 DEF AuditInv, Shown, AuditedDecisionsAreApplied

LEMMA ReviewedShows ==
    ASSUME NEW row \in Row, NEW w \in Reviewers, NEW act \in Action
    PROVE  Reviewed(row, w, act).review_action # NoOne
  BY DEF Reviewed, Row, Action, NoOne

LEMMA AuditStep == IInv /\ AuditInv /\ [Next]_vars => AuditInv'
  <1> SUFFICES ASSUME IInv, AuditInv, [Next]_vars PROVE AuditInv'
    OBVIOUS
  <1>1. CASE SaveRun
    <2>1. /\ DOMAIN events' = {} /\ published' /\ UNCHANGED audit
          /\ \A a \in Audits : audit[a].pc = "new"
      BY <1>1 DEF SaveRun, IInv, AuditInv
    <2>2. QED
      BY <2>1 DEF AuditInv, Shown, AuditedDecisionsAreApplied
  <1>2. ASSUME UNCHANGED <<rows, events, published, audit>> PROVE AuditInv'
    BY <1>2 DEF AuditInv, Shown, AuditedDecisionsAreApplied
  <1>3. ASSUME NEW q \in Requests, ApplyReview(q) PROVE AuditInv'
    <2> DEFINE d == asked[q]
    <2>1. /\ d \in Event /\ copy[q] \in Row
          /\ d.group \in Groups /\ d.reviewer \in Reviewers /\ d.action \in Action
      BY <1>3 DEF ApplyReview, IInv, AskedInv, CopyInv, InProgress, Event
    <2>2. /\ UNCHANGED <<published, audit>> /\ events' = Append(events, d)
          /\ rows'[d.group].review_action # NoOne
          /\ \A g \in Groups : g # d.group => rows'[g] = rows[g]
      BY <1>3, <2>1, ReviewedShows DEF ApplyReview, IInv, TypeOK
    <2>3. ASSUME NEW trail \in Seq(Event), Shown(trail, rows)
          PROVE  Shown(trail, rows')
      <3>1. \A i \in DOMAIN trail : trail[i] \in Event
        OBVIOUS
      <3>2. \A i \in DOMAIN trail : trail[i].group \in Groups
        BY <3>1 DEF Event
      <3>3. QED
        BY <2>2, <2>3, <3>2 DEF Shown
    <2>4. Shown(events', rows')
      <3>1. Shown(events, rows')
        BY <2>3 DEF AuditInv, IInv, TypeOK
      <3>2. /\ DOMAIN events' = 1..(Len(events) + 1)
            /\ DOMAIN events = 1..Len(events) /\ Len(events) \in Nat
            /\ events'[Len(events) + 1] = d
            /\ \A i \in DOMAIN events : events'[i] = events[i]
        BY <2>1, <2>2 DEF IInv, TypeOK
      <3>3. QED
        BY <2>2, <3>1, <3>2 DEF Shown
    <2>5. \A a \in Audits : audit[a].events \in Seq(Event)
      BY DEF IInv, TypeOK, AuditState
    <2>6. \A a \in Audits : audit[a].pc = "events" => Shown(audit[a].events, rows')
      BY <2>3, <2>5 DEF AuditInv
    <2>7. QED
      BY <2>2, <2>4, <2>6 DEF AuditInv, AuditedDecisionsAreApplied, Shown
  <1>4. ASSUME NEW a \in Audits, AuditRead(a) PROVE AuditInv'
    <2>1. /\ UNCHANGED <<rows, events, published>> /\ published
          /\ \A b \in Audits \ {a} : audit'[b] = audit[b]
          /\ \/ audit'[a].pc = "events" /\ audit'[a].events = events
             \/ /\ audit[a].pc = "events" /\ audit'[a].pc = "done"
                /\ audit'[a].events = audit[a].events /\ audit'[a].rows = rows
      BY <1>4 DEF AuditRead, IInv, TypeOK, AuditState
    <2>2. QED
      BY <2>1 DEF AuditInv, AuditedDecisionsAreApplied, Shown
  <1>5. ASSUME NEW q \in Requests, NEW d \in Event, FindRun(q, d) PROVE AuditInv'
    BY <1>2, <1>5 DEF FindRun
  <1>6. ASSUME NEW q \in Requests,
               RunNotFound(q) \/ GroupNotFound(q) \/ GroupNotPending(q)
                 \/ ReadPending(q) \/ Respond(q) \/ Abort(q)
        PROVE  AuditInv'
    BY <1>2, <1>6 DEF RunNotFound, GroupNotFound, GroupNotPending, ReadPending, Respond, Abort
  <1>7. CASE UNCHANGED vars
    BY <1>2, <1>7 DEF vars
  <1>8. QED
    BY <1>1, <1>3, <1>4, <1>5, <1>6, <1>7 DEF Next

\* The body of GET /audit, torn as it may be, shows every decision of its trail
\* in its rows.
THEOREM AuditsShowDecisions == Spec => []AuditedDecisionsAreApplied
  <1>1. AuditInv => AuditedDecisionsAreApplied
    BY DEF AuditInv
  <1>2. QED
    BY <1>1, AuditInit, AuditStep, ReviewInductive, PTL DEF Spec

-----------------------------------------------------------------------------
(* One request at a time per group *)

\* Requests in progress name distinct groups, so the copy a request decided on
\* is still the row when it writes.
FreshInv ==
    /\ \A p, q \in Requests :
          p # q /\ InProgress(p) /\ InProgress(q) => asked[p].group # asked[q].group
    /\ \A q \in Requests : pc[q] = "read" =>
          /\ copy[q] = rows[asked[q].group]
          /\ copy[q].status = "PENDING_REVIEW"

\* Freshness is inductive when no two requests may name the same group.
LEMMA FreshStep ==
    ASSUME Serialized, IInv, FreshInv, [Next]_vars
    PROVE  FreshInv'
  <1> USE DEF FreshInv, InProgress
  <1>1. CASE SaveRun
    <2>1. UNCHANGED <<pc, asked, copy>> /\ \A q \in Requests : ~InProgress(q)
      BY <1>1 DEF SaveRun, IInv, UnpublishedInv
    <2>2. QED
      BY <2>1
  <1>2. ASSUME NEW q \in Requests, NEW d \in Event, FindRun(q, d) PROVE FreshInv'
    <2>1. /\ UNCHANGED <<rows, copy>>
          /\ \A p \in Requests \ {q} : pc'[p] = pc[p] /\ asked'[p] = asked[p]
          /\ pc'[q] = "found" /\ asked'[q] = d
      BY <1>2 DEF FindRun, IInv, TypeOK
    <2>2. \A p \in Requests \ {q} : InProgress(p) => asked[p].group # d.group
      BY <1>2 DEF FindRun
    <2>3. QED
      BY <2>1, <2>2
  <1>3. ASSUME NEW q \in Requests, ReadPending(q) PROVE FreshInv'
    <2>1. /\ UNCHANGED <<rows, asked>>
          /\ \A p \in Requests \ {q} : pc'[p] = pc[p] /\ copy'[p] = copy[p]
          /\ pc[q] = "found" /\ pc'[q] = "read" /\ copy'[q] = rows[asked[q].group]
          /\ rows[asked[q].group].status = "PENDING_REVIEW"
      BY <1>3 DEF ReadPending, IInv, TypeOK
    <2>2. QED
      BY <2>1
  <1>4. ASSUME NEW q \in Requests, ApplyReview(q) PROVE FreshInv'
    <2>1. /\ UNCHANGED asked
          /\ \A g \in Groups : g # asked[q].group => rows'[g] = rows[g]
          /\ pc[q] = "read" /\ pc'[q] = "committed"
          /\ \A p \in Requests \ {q} : pc'[p] = pc[p] /\ copy'[p] = copy[p]
      BY <1>4 DEF ApplyReview, IInv, TypeOK
    <2>2. \A p \in Requests : pc[p] = "read" => asked[p].group \in Groups
      BY DEF IInv, AskedInv, Event
    <2>3. QED
      BY <2>1, <2>2
  <1>5. ASSUME NEW q \in Requests,
               RunNotFound(q) \/ GroupNotFound(q) \/ GroupNotPending(q)
                 \/ Respond(q) \/ Abort(q)
        PROVE Quiet
    BY <1>5 DEF Quiet, IInv, TypeOK, RunNotFound, GroupNotFound, GroupNotPending, Respond, Abort
  <1>6. ASSUME NEW a \in Audits, AuditRead(a) PROVE Quiet
    BY <1>6 DEF AuditRead, Quiet
  <1>7. CASE UNCHANGED vars
    BY <1>7 DEF vars, Quiet
  <1>8. Quiet => FreshInv'
    BY DEF Quiet
  <1>9. QED
    BY <1>1, <1>2, <1>3, <1>4, <1>5, <1>6, <1>7, <1>8 DEF Next

LEMMA FreshInductive ==
    ASSUME Serialized PROVE Spec => [](IInv /\ FreshInv)
  <1>1. Init => FreshInv
    BY DEF Init, FreshInv, InProgress
  <1>2. IInv /\ FreshInv /\ [Next]_vars => FreshInv'
    BY FreshStep
  <1>3. QED
    BY <1>1, <1>2, ReviewInductive, PTL DEF Spec

\* What a step does to rows and trail: publish, decide one open group, nothing.
LEMMA RowStep ==
    ASSUME IInv, FreshInv, [Next]_vars
    PROVE  \/ /\ \A g \in Groups : rows[g] = NoRow
              /\ rows' \in [Groups -> PipelineRow \cup {NoRow}]
              /\ UNCHANGED events
           \/ \E d \in Event :
                 /\ rows[d.group].status = "PENDING_REVIEW"
                 /\ rows' = [rows EXCEPT ![d.group] =
                                Reviewed(rows[d.group], d.reviewer, d.action)]
                 /\ events' = Append(events, d)
           \/ UNCHANGED <<rows, events>>
  <1>1. CASE SaveRun
    BY <1>1 DEF SaveRun, IInv, UnpublishedInv
  <1>2. ASSUME NEW q \in Requests, ApplyReview(q)
        PROVE  \E d \in Event :
                 /\ rows[d.group].status = "PENDING_REVIEW"
                 /\ rows' = [rows EXCEPT ![d.group] =
                                Reviewed(rows[d.group], d.reviewer, d.action)]
                 /\ events' = Append(events, d)
    <2>1. asked[q] \in Event
      BY <1>2 DEF ApplyReview, IInv, AskedInv, InProgress
    <2>2. copy[q] = rows[asked[q].group] /\ copy[q].status = "PENDING_REVIEW"
      BY <1>2 DEF ApplyReview, FreshInv
    <2>3. QED
      BY <1>2, <2>1, <2>2 DEF ApplyReview
  <1>3. ASSUME NEW q \in Requests, NEW d \in Event, FindRun(q, d)
        PROVE  UNCHANGED <<rows, events>>
    BY <1>3 DEF FindRun
  <1>4. ASSUME NEW q \in Requests,
               RunNotFound(q) \/ GroupNotFound(q) \/ GroupNotPending(q)
                 \/ ReadPending(q) \/ Respond(q) \/ Abort(q)
        PROVE  UNCHANGED <<rows, events>>
    BY <1>4 DEF RunNotFound, GroupNotFound, GroupNotPending, ReadPending, Respond, Abort
  <1>5. ASSUME NEW a \in Audits, AuditRead(a) PROVE UNCHANGED <<rows, events>>
    BY <1>5 DEF AuditRead
  <1>6. CASE UNCHANGED vars
    BY <1>6 DEF vars
  <1>7. QED
    BY <1>1, <1>2, <1>3, <1>4, <1>5, <1>6 DEF Next

\* What the endpoint's docstring promises, under the one condition it needs:
\* a group that a review or the verifier closed is never written again.
THEOREM ClosedForGood == ASSUME Serialized PROVE Spec => ClosedStaysClosed
  <1>1. ASSUME IInv, FreshInv, [Next]_vars, NEW g \in Groups, rows[g].status \in Closed
        PROVE  rows'[g] = rows[g]
    <2>1. rows[g].status # "absent" /\ rows[g].status # "PENDING_REVIEW"
      BY <1>1 DEF Closed
    <2>2. rows \in [Groups -> Row \cup {NoRow}]
      BY <1>1 DEF IInv, TypeOK
    <2>3. QED
      BY <1>1, <2>1, <2>2, RowStep DEF NoRow, Event
  <1>2. IInv /\ FreshInv /\ [Next]_vars =>
           [\A g \in Groups : rows[g].status \in Closed => rows'[g] = rows[g]]_vars
    BY <1>1
  <1>3. QED
    BY <1>2, FreshInductive, PTL DEF Spec, ClosedStaysClosed

LEMMA LedgerInit == Init => Ledger!Init
  BY DEF Init, Ledger!Init, NoRow

LEMMA LedgerStep == IInv /\ FreshInv /\ [Next]_vars => [Ledger!Next]_(Ledger!vars)
  <1> SUFFICES ASSUME IInv, FreshInv, [Next]_vars
               PROVE  Ledger!Next \/ UNCHANGED Ledger!vars
    OBVIOUS
  <1> DEFINE status == [g \in Groups |-> rows[g].status]
  <1>1. rows \in [Groups -> Row \cup {NoRow}]
    BY DEF IInv, TypeOK
  <1>2. ASSUME \A g \in Groups : rows[g] = NoRow,
               rows' \in [Groups -> PipelineRow \cup {NoRow}],
               UNCHANGED events
        PROVE  Ledger!Publish
    <2>1. \A g \in Groups : rows'[g].status \in
             {"absent", "VERIFIED", "PENDING_REVIEW", "REJECTED"}
      BY <1>2, PipelineRowIsRow DEF Row, NoRow
    <2>2. QED
      BY <1>2, <2>1 DEF Ledger!Publish, NoRow
  <1>3. ASSUME NEW d \in Event,
               rows[d.group].status = "PENDING_REVIEW",
               rows' = [rows EXCEPT ![d.group] =
                           Reviewed(rows[d.group], d.reviewer, d.action)],
               events' = Append(events, d)
        PROVE  Ledger!Decide(d.event_id, d.group, d.reviewer, d.action)
    <2>1. /\ d.group \in Groups /\ d.reviewer \in Reviewers /\ d.action \in Action
          /\ d = [event_id |-> d.event_id, group |-> d.group, reviewer |-> d.reviewer,
                  action |-> d.action]
      BY DEF Event
    <2>2. rows[d.group] \in Row
      BY <1>1, <1>3, <2>1 DEF NoRow
    <2>3. Reviewed(rows[d.group], d.reviewer, d.action).status = Ledger!Verdict(d.action)
      BY <1>3, <2>1, <2>2 DEF Reviewed, Row, Action, Ledger!Verdict
    <2>4. status' = [status EXCEPT ![d.group] = Ledger!Verdict(d.action)]
      BY <1>1, <1>3, <2>1, <2>3
    <2>5. QED
      BY <1>3, <2>1, <2>4 DEF Ledger!Decide
  <1>4. ASSUME UNCHANGED <<rows, events>> PROVE UNCHANGED Ledger!vars
    BY <1>4 DEF Ledger!vars
  <1>5. ASSUME NEW d \in Event, Ledger!Decide(d.event_id, d.group, d.reviewer, d.action)
        PROVE  Ledger!Next
    BY <1>5 DEF Ledger!Next, Event, Action
  <1>6. QED
    BY <1>2, <1>3, <1>4, <1>5, RowStep DEF Ledger!Next

\* The unprotected read-decide-write refines the atomic ledger whenever no
\* group is named by two requests at once, however many requests there are.
THEOREM ReviewImplementsLedger == ASSUME Serialized PROVE Spec => ImplementsReviewLedger
  <1>1. QED
    BY LedgerInit, LedgerStep, FreshInductive, PTL
       DEF Spec, ImplementsReviewLedger, Ledger!Spec

=============================================================================
