------------------------------- MODULE Review -------------------------------
(***************************************************************************)
(* The human review loop of the API on one run's stored groups: the PATCH  *)
(* endpoint (app.review_match_group, service.review_group), the rows it    *)
(* reads and writes through api/storage.py, the save_run that publishes    *)
(* them, and GET /audit, which reads them.                                 *)
(*                                                                         *)
(* Requests run on FastAPI's threadpool.  A request looks the run up,      *)
(* reads the group's row, decides on that copy, and apply_review writes    *)
(* the whole copy back with the audit event in one transaction: each of    *)
(* these uses a connection of its own, so other requests come in between.  *)
(* The answer is a step of its own after the commit, and may be lost.      *)
(***************************************************************************)
EXTENDS Naturals, Sequences

CONSTANTS
    Groups,       \* group_ids a request can name
    Reviewers,
    Requests,     \* PATCH requests, each on a worker thread of its own
    Audits,       \* GET /audit requests
    Serialized    \* TRUE: no group is named by two requests, each between
                  \* its look-up and its commit, at once

ASSUME SerializedAssumption == Serialized \in BOOLEAN

VARIABLES
    rows,       \* match_groups: group -> row
    events,     \* decision_events added by reviews, in commit order
    published,  \* the run row exists: save_run has committed
    pc,         \* request -> where it is
    asked,      \* request -> the decision it asks for
    copy,       \* request -> the row review_group read, until it returns
    response,   \* request -> HTTP status, or "none" while in progress
    audit,      \* audit -> its locals and the body it returns
    birth       \* history: group -> the row as save_run wrote it

locals == <<pc, asked, copy, response>>
vars == <<rows, events, published, pc, asked, copy, response, audit, birth>>

Action == {"APPROVED", "REJECTED", "ESCALATED"}
NoOne == "none"
Closed == {"VERIFIED", "REJECTED"}

\* A stored MatchGroup: the fields a review can change.
Row == [status : {"VERIFIED", "PENDING_REVIEW", "REJECTED"},
        verified_by : {"NOT_YET_VERIFIED", "VERIFIER", "HUMAN_REVIEWER"},
        verification_result : {"PASSED", "FAILED", "FAILED_MARGIN", "NOT_YET_RUN"},
        reviewed_by : Reviewers \cup {NoOne},
        review_action : Action \cup {NoOne}]

NoRow == [status |-> "absent"]

Unreviewed(status, by, outcome) ==
    [status |-> status, verified_by |-> by, verification_result |-> outcome,
     reviewed_by |-> NoOne, review_action |-> NoOne]

\* What the pipeline leaves behind: verified, routed to review on margin (a
\* residual over tolerance is alike), proposed by Stage 6, or rejected.
PipelineRow == {Unreviewed("VERIFIED", "VERIFIER", "PASSED"),
                Unreviewed("PENDING_REVIEW", "VERIFIER", "FAILED_MARGIN"),
                Unreviewed("PENDING_REVIEW", "NOT_YET_VERIFIED", "NOT_YET_RUN"),
                Unreviewed("REJECTED", "VERIFIER", "FAILED")}

\* A reviewer's decision: what a request asks for, and the DecisionEvent that
\* records it, its event_id the uuid drawn for that request alone.
Event == [event_id : Requests, group : Groups, reviewer : Reviewers, action : Action]
NoEvent == [group |-> "none"]

\* Mutant: escalation gives the group a status of its own.
ReviewedWithNewStatus(row, reviewer, action) ==
    LET signed == [row EXCEPT !.reviewed_by = reviewer, !.review_action = action]
    IN  CASE action = "APPROVED"  -> [signed EXCEPT !.status = "VERIFIED",
                                          !.verified_by = "HUMAN_REVIEWER",
                                          !.verification_result = "PASSED"]
          [] action = "REJECTED"  -> [signed EXCEPT !.status = "REJECTED"]
          [] action = "ESCALATED" -> [signed EXCEPT !.status = "ESCALATED"]

\* group.model_copy(update=...): everything not listed is the copy's.
Reviewed(row, reviewer, action) ==
    LET signed == [row EXCEPT !.reviewed_by = reviewer, !.review_action = action]
    IN  CASE action = "APPROVED"  -> [signed EXCEPT !.status = "VERIFIED",
                                          !.verified_by = "HUMAN_REVIEWER",
                                          !.verification_result = "PASSED"]
          [] action = "REJECTED"  -> [signed EXCEPT !.status = "REJECTED"]
          [] action = "ESCALATED" -> signed

Init ==
    /\ rows = [g \in Groups |-> NoRow]
    /\ birth = rows
    /\ events = <<>>
    /\ published = FALSE
    /\ pc = [q \in Requests |-> "new"]
    /\ asked = [q \in Requests |-> NoEvent]
    /\ copy = [q \in Requests |-> NoRow]
    /\ response = [q \in Requests |-> "none"]
    /\ audit = [a \in Audits |-> [pc |-> "new", events |-> <<>>, rows |-> rows]]

-----------------------------------------------------------------------------
(* POST /reconcile: save_run writes the run and all its rows, or nothing. *)

SaveRun ==
    /\ ~published
    /\ published' = TRUE
    /\ rows' \in [Groups -> PipelineRow \cup {NoRow}]
    /\ birth' = rows'
    /\ UNCHANGED <<events, locals, audit>>

-----------------------------------------------------------------------------
(* PATCH /report/{run_id}/groups/{group_id}/review *)

InProgress(q) == pc[q] \in {"found", "read"}

Answer(q, code) ==
    /\ pc' = [pc EXCEPT ![q] = "done"]
    /\ response' = [response EXCEPT ![q] = code]

\* run_exists
FindRun(q, decision) ==
    /\ pc[q] = "new"
    /\ published
    /\ decision.event_id = q
    /\ Serialized =>
          \A p \in Requests : InProgress(p) => asked[p].group # decision.group
    /\ pc' = [pc EXCEPT ![q] = "found"]
    /\ asked' = [asked EXCEPT ![q] = decision]
    /\ UNCHANGED <<rows, events, published, copy, response, audit, birth>>

RunNotFound(q) ==
    /\ pc[q] = "new"
    /\ ~published
    /\ Answer(q, "404")
    /\ UNCHANGED <<rows, events, published, asked, copy, audit, birth>>

\* get_match_group and the two early exits of review_group
GroupNotFound(q) ==
    /\ pc[q] = "found"
    /\ rows[asked[q].group] = NoRow
    /\ Answer(q, "404")
    /\ UNCHANGED <<rows, events, published, asked, copy, audit, birth>>

GroupNotPending(q) ==
    /\ pc[q] = "found"
    /\ rows[asked[q].group].status \in Closed
    /\ Answer(q, "409")
    /\ UNCHANGED <<rows, events, published, asked, copy, audit, birth>>

\* Mutant: only a rejected group is closed to review.
ReadUnlessRejected(q) ==
    /\ pc[q] = "found"
    /\ rows[asked[q].group].status \in {"PENDING_REVIEW", "VERIFIED"}
    /\ pc' = [pc EXCEPT ![q] = "read"]
    /\ copy' = [copy EXCEPT ![q] = rows[asked[q].group]]
    /\ UNCHANGED <<rows, events, published, asked, response, audit, birth>>

\* Mutant: only a verified group is closed to review.
ReadUnlessVerified(q) ==
    /\ pc[q] = "found"
    /\ rows[asked[q].group].status \in {"PENDING_REVIEW", "REJECTED"}
    /\ pc' = [pc EXCEPT ![q] = "read"]
    /\ copy' = [copy EXCEPT ![q] = rows[asked[q].group]]
    /\ UNCHANGED <<rows, events, published, asked, response, audit, birth>>

ReadPending(q) ==
    /\ pc[q] = "found"
    /\ rows[asked[q].group].status = "PENDING_REVIEW"
    /\ pc' = [pc EXCEPT ![q] = "read"]
    /\ copy' = [copy EXCEPT ![q] = rows[asked[q].group]]
    /\ UNCHANGED <<rows, events, published, asked, response, audit, birth>>

\* Mutant: only the columns the decision changes are updated.
ApplyChangedColumns(q) ==
    /\ pc[q] = "read"
    /\ rows' = [rows EXCEPT ![asked[q].group] =
                   Reviewed(@, asked[q].reviewer, asked[q].action)]
    /\ events' = Append(events, asked[q])
    /\ pc' = [pc EXCEPT ![q] = "committed"]
    /\ copy' = [copy EXCEPT ![q] = NoRow]
    /\ UNCHANGED <<published, asked, response, audit, birth>>

\* Mutant: an event only for a decision that closes the group.
ApplyRecordingClosures(q) ==
    /\ pc[q] = "read"
    /\ rows' = [rows EXCEPT ![asked[q].group] =
                   Reviewed(copy[q], asked[q].reviewer, asked[q].action)]
    /\ events' = IF asked[q].action = "ESCALATED" THEN events
                 ELSE Append(events, asked[q])
    /\ pc' = [pc EXCEPT ![q] = "committed"]
    /\ copy' = [copy EXCEPT ![q] = NoRow]
    /\ UNCHANGED <<published, asked, response, audit, birth>>

\* apply_review: an unconditional UPDATE of the row and an INSERT of the event
\* in one transaction.
ApplyReview(q) ==
    /\ pc[q] = "read"
    /\ rows' = [rows EXCEPT ![asked[q].group] =
                   Reviewed(copy[q], asked[q].reviewer, asked[q].action)]
    /\ events' = Append(events, asked[q])
    /\ pc' = [pc EXCEPT ![q] = "committed"]
    /\ copy' = [copy EXCEPT ![q] = NoRow]
    /\ UNCHANGED <<published, asked, response, audit, birth>>

\* review_group has returned: the endpoint builds its ReviewResponse.
Respond(q) ==
    /\ pc[q] = "committed"
    /\ Answer(q, "200")
    /\ UNCHANGED <<rows, events, published, asked, copy, audit, birth>>

\* The worker dies, the database stays locked for 30 s, or the answer fails:
\* what was not committed is not written, what was stays.
Abort(q) ==
    /\ pc[q] # "done"
    /\ Answer(q, "500")
    /\ copy' = [copy EXCEPT ![q] = NoRow]
    /\ UNCHANGED <<rows, events, published, asked, audit, birth>>

-----------------------------------------------------------------------------
(* GET /audit/{run_id}: the events first, then the groups. *)

\* Mutant: the groups first, then the events.
AuditReadGroupsFirst(a) ==
    /\ published
    /\ \/ /\ audit[a].pc = "new"
          /\ audit' = [audit EXCEPT ![a].pc = "events", ![a].rows = rows]
       \/ /\ audit[a].pc = "events"
          /\ audit' = [audit EXCEPT ![a].pc = "done", ![a].events = events]
    /\ UNCHANGED <<rows, events, published, locals, birth>>

AuditRead(a) ==
    /\ published
    /\ \/ /\ audit[a].pc = "new"
          /\ audit' = [audit EXCEPT ![a].pc = "events", ![a].events = events]
       \/ /\ audit[a].pc = "events"
          /\ audit' = [audit EXCEPT ![a].pc = "done", ![a].rows = rows]
    /\ UNCHANGED <<rows, events, published, locals, birth>>

-----------------------------------------------------------------------------

Next ==
    \/ SaveRun
    \/ \E q \in Requests :
          \/ \E decision \in Event : FindRun(q, decision)
          \/ RunNotFound(q)
          \/ GroupNotFound(q) \/ GroupNotPending(q) \/ ReadPending(q)
          \/ ApplyReview(q) \/ Respond(q) \/ Abort(q)
    \/ \E a \in Audits : AuditRead(a)

Spec == Init /\ [][Next]_vars
-----------------------------------------------------------------------------

AuditState ==
    [pc : {"new", "events", "done"}, events : Seq(Event),
     rows : [Groups -> Row \cup {NoRow}]]

TypeOK ==
    /\ rows \in [Groups -> Row \cup {NoRow}]
    /\ birth \in [Groups -> PipelineRow \cup {NoRow}]
    /\ events \in Seq(Event)
    /\ published \in BOOLEAN
    /\ pc \in [Requests -> {"new", "found", "read", "committed", "done"}]
    /\ asked \in [Requests -> Event \cup {NoEvent}]
    /\ copy \in [Requests -> Row \cup {NoRow}]
    /\ response \in [Requests -> {"none", "200", "404", "409", "500"}]
    /\ audit \in [Audits -> AuditState]

\* The last event of a sequence that names group g.
IsLastOf(i, trail, g) ==
    /\ i \in DOMAIN trail
    /\ trail[i].group = g
    /\ \A j \in DOMAIN trail : j > i => trail[j].group # g

\* The row a trail of reviews explains, given the row the pipeline wrote.
Explains(trail, g, row) ==
    /\ (\A i \in DOMAIN trail : trail[i].group # g) => row = birth[g]
    /\ \A i \in DOMAIN trail : IsLastOf(i, trail, g) =>
          row = Reviewed(birth[g], trail[i].reviewer, trail[i].action)

\* Row and audit trail always tell the same story: a group's row is the
\* pipeline's row with exactly the last recorded decision applied to it,
\* never a mixture of two reviewers' writes and never a decision with no event.
TrailExplainsRow == \A g \in Groups : Explains(events, g, rows[g])

\* A verdict of the automated verifier is never overturned by a review, not
\* even by requests that raced each other.
SystemVerdictsStand ==
    \A g \in Groups : birth[g].status # "PENDING_REVIEW" =>
        /\ rows[g] = birth[g]
        /\ \A i \in DOMAIN events : events[i].group # g

\* The entries of the trail that request q left.
EntriesOf(q) == {i \in DOMAIN events : events[i].event_id = q}

\* What an answer tells a reviewer about the trail, through races, deaths and
\* lost answers: a request answered 200 left one entry, with what it asked; one
\* refused with 404 or 409 left none; one that failed may have left its entry,
\* as the commit comes before the answer, but never two.
AnswersMatchTrail ==
    \A q \in Requests :
        /\ \A i, j \in EntriesOf(q) : i = j
        /\ response[q] = "200" => \E i \in EntriesOf(q) : events[i] = asked[q]
        /\ response[q] \in {"404", "409"} => EntriesOf(q) = {}

\* get_audit reads the events before the groups, so its groups are never
\* behind its events: every decision in the body has been applied in the body.
AuditedDecisionsAreApplied ==
    \A a \in Audits : audit[a].pc = "done" =>
        \A i \in DOMAIN audit[a].events :
            audit[a].rows[audit[a].events[i].group].review_action # NoOne

\* "The full DecisionEvent trail ... plus the rows those events refer to":
\* the trail of a body explains the rows of the same body.
AuditIsConsistent ==
    \A a \in Audits : audit[a].pc = "done" =>
        \A g \in Groups : Explains(audit[a].events, g, audit[a].rows[g])

\* "Re-reviewing a closed group is never allowed silently."
ClosedStaysClosed ==
    [][\A g \in Groups : rows[g].status \in Closed => rows'[g] = rows[g]]_vars
=============================================================================
