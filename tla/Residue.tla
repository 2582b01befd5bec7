------------------------------- MODULE Residue -------------------------------
(***************************************************************************)
(* Where every record of one run ends: pipeline.run_pipeline from the      *)
(* groups Stages 1-5 propose through the first verification, Stage 6       *)
(* (stage6_llm.run_stage6_llm), the second verification and the final      *)
(* catch-all pass.  One run is sequential and shares nothing but the       *)
(* governor, whose answers are free here; RunService has the runs.         *)
(*                                                                         *)
(* Stages 1-5 are any set of disjoint groups of two records or more, with  *)
(* what one search of Stages 3-4 declined.  Amounts, scores and dates only *)
(* show as the verifier's result and as the choice of the near-miss        *)
(* candidates; texts, only as the record_ids that occur in them.           *)
(***************************************************************************)
EXTENDS Naturals, FiniteSets

CONSTANTS
    Records,      \* the records, numbered in the order of their record_ids
    inside,       \* record -> the records whose record_id occurs in its own
    Wording,      \* the records whose record_id may occur in the wording of
                  \* an exception, beside the ids it names
    source,       \* record -> NormalizedRecord.source
    entity_type,  \* record -> NormalizedRecord.entity_type
    currency,     \* record -> NormalizedRecord.currency
    Currency,     \* the currencies
    MaxCandidates,   \* Settings.stage6_max_candidates
    MaxProposals     \* bound: groups proposed by Stages 1-5

Source == {"LEDGER", "GATEWAY", "BANK"}
EntityType == {"PAYMENT", "GATEWAY_SETTLEMENT", "BANK_CREDIT", "REFUND",
               "CHARGEBACK", "REVERSAL", "ADJUSTMENT", "FEE", "TAX", "LEDGER_ENTRY"}

ASSUME ResidueAssumption ==
    /\ Records \subseteq Nat
    /\ IsFiniteSet(Records)
    /\ inside \in [Records -> SUBSET Records]
    /\ \A r \in Records : r \in inside[r]
    /\ Wording \subseteq Records
    /\ source \in [Records -> Source]
    /\ entity_type \in [Records -> EntityType]
    /\ currency \in [Records -> Currency]
    /\ MaxCandidates \in Nat
    /\ MaxProposals \in Nat

VARIABLES
    phase,             \* where run_pipeline is
    proposed,          \* the groups this verification pass has yet to visit
    groups,            \* match_groups of the passes' results
    matched,           \* matched_record_ids
    exceptions,        \* exceptions
    llm_configured,    \* a Groq client or key is there
    toSeek,            \* the Stage 6 seekers whose turn is to come
    newly_matched,     \* run_stage6_llm's newly_matched
    offered_to_ledger  \* run_stage6_llm's offered_to_ledger

stage6 == <<toSeek, newly_matched, offered_to_ledger>>
vars == <<phase, proposed, groups, matched, exceptions, llm_configured, stage6>>

Phase == {"verification", "stage6", "verification6", "done"}

\* A MatchGroup with its members, in the fields the pipeline decides on.
MatchGroup == [members : SUBSET Records,
               proposed_by : {"STAGES1_5", "STAGE6_LLM"},
               status : {"PENDING_REVIEW", "VERIFIED", "REJECTED"},
               commit_policy : {"AUTO_COMMIT", "HUMAN_REVIEW_REQUIRED"},
               verified_by : {"NOT_YET_VERIFIED", "VERIFIER"}]

\* A ReconciliationException: the stage that raised it, the records it is
\* about (group_id_or_record_id, target_record_ids, released_record_ids) and
\* those its evidence names beside them.
Exception == [stage : {"AGGREGATION", "VERIFICATION", "STAGE6_LLM", "CATCHALL"},
              about : SUBSET Records,
              aside : SUBSET Records]

Live(gs) == {g \in gs : g.status # "REJECTED"}
Claimed(gs) == UNION {g.members : g \in Live(gs)}
Disjoint(gs) == \A g, h \in gs : g # h => g.members \cap h.members = {}
Named(e) == e.about \cup e.aside
NamedIn(es) == UNION {Named(e) : e \in es}

ProposedByStages1To5(members) ==
    [members |-> members, proposed_by |-> "STAGES1_5", status |-> "PENDING_REVIEW",
     commit_policy |-> "AUTO_COMMIT", verified_by |-> "NOT_YET_VERIFIED"]

\* What Stages 1-5 may propose: groups of several records, be they of one
\* source (a settlement and its fee share a reference), no record in two.
Proposals ==
    {P \in {{{r \in Records : group[r] = n} : n \in 1..MaxProposals} \ {{}} :
                group \in [Records -> 0..MaxProposals]} :
        \A members \in P : Cardinality(members) >= 2}

\* The targets Stages 3 and 4 search for, and the source of the items they
\* combine: settlements for a bank credit, bank credits for a settlement.
ItemSource(r) ==
    CASE source[r] = "BANK" /\ entity_type[r] = "BANK_CREDIT" -> {"GATEWAY"}
      [] source[r] = "GATEWAY" /\ entity_type[r] = "GATEWAY_SETTLEMENT" -> {"BANK"}
      [] OTHER -> {}

\* Targets of one search declined for its limits, or because they contest
\* items: each exception of that search names all of these.
DeclinedTogether(targets, items) ==
    /\ \A r \in targets : ItemSource(r) # {} /\ \A i \in items : source[i] \in ItemSource(r)
    /\ \A r, s \in targets : source[r] = source[s]
    /\ items = {} \/ \E r, s \in targets : r # s

Declines ==
    {{[stage |-> "AGGREGATION", about |-> {r}, aside |-> window[2]] : r \in window[1]} :
        window \in {w \in (SUBSET Records) \X (SUBSET Records) :
                        DeclinedTogether(w[1], w[2])}}

Init ==
    /\ phase = "verification"
    /\ \E P \in Proposals :
           /\ proposed = {ProposedByStages1To5(S) : S \in P}
           /\ matched = UNION P
    /\ groups = {}
    /\ exceptions \in Declines
    /\ llm_configured \in BOOLEAN
    /\ toSeek = {}
    /\ newly_matched = {}
    /\ offered_to_ledger = {}

-----------------------------------------------------------------------------
(* run_verification, one iteration of its loop for each proposed group *)

VerifierResult == {"PASSED", "FAILED_MARGIN", "RESIDUAL_EXCEEDS_TOLERANCE",
                   "FAILED_CONSERVATION", "FAILED_CURRENCY",
                   "FAILED_UNIQUENESS", "NOT_YET_RUN"}

\* verify_match_group answers NOT_YET_RUN for Stage 6's groups, and only them.
Answers(g) == IF g.proposed_by = "STAGE6_LLM" THEN {"NOT_YET_RUN"}
                                             ELSE VerifierResult \ {"NOT_YET_RUN"}

\* model_copy(update=...): the group the pass returns in the place of g.
Resolved(g, status, verified_by, commit_policy) ==
    [members |-> g.members, proposed_by |-> g.proposed_by, status |-> status,
     commit_policy |-> commit_policy, verified_by |-> verified_by]

Resolve(g, status, verified_by, commit_policy) ==
    /\ proposed' = proposed \ {g}
    /\ groups' = groups \cup {Resolved(g, status, verified_by, commit_policy)}

Passed(g, result) ==
    /\ result = "PASSED"
    /\ Resolve(g, "VERIFIED", "VERIFIER", g.commit_policy)
    /\ UNCHANGED <<matched, exceptions>>

Ambiguous(g, result) ==
    /\ result \in {"FAILED_MARGIN", "RESIDUAL_EXCEEDS_TOLERANCE"}
    /\ Resolve(g, "PENDING_REVIEW", "VERIFIER", "HUMAN_REVIEW_REQUIRED")
    /\ UNCHANGED <<matched, exceptions>>

\* Mutant: no branch of its own for Stage 6, so NOT_YET_RUN means rejected.
RecommendedNever(g, result) == FALSE

\* Results that leave a Stage 6 proposal to a human.
Recommended(g, result) ==
    /\ result \notin {"PASSED", "FAILED_MARGIN", "RESIDUAL_EXCEEDS_TOLERANCE"}
    /\ g.proposed_by = "STAGE6_LLM"

LeftToHuman(g, result) ==
    /\ Recommended(g, result)
    /\ Resolve(g, "PENDING_REVIEW", "NOT_YET_VERIFIED", "HUMAN_REVIEW_REQUIRED")
    /\ UNCHANGED <<matched, exceptions>>

\* Mutant: a rejected group gets a commit policy of its own.
RejectedWithoutPolicy(g, result) ==
    /\ result \in {"FAILED_CONSERVATION", "FAILED_CURRENCY", "FAILED_UNIQUENESS",
                   "NOT_YET_RUN"}
    /\ ~Recommended(g, result)
    /\ Resolve(g, "REJECTED", "VERIFIER", "NOT_APPLICABLE")
    /\ matched' = matched \ g.members
    /\ exceptions' = exceptions \cup
           {[stage |-> "VERIFICATION", about |-> g.members, aside |-> {}]}

Rejected(g, result) ==
    /\ result \in {"FAILED_CONSERVATION", "FAILED_CURRENCY", "FAILED_UNIQUENESS",
                   "NOT_YET_RUN"}
    /\ ~Recommended(g, result)
    /\ Resolve(g, "REJECTED", "VERIFIER", g.commit_policy)
    /\ matched' = matched \ g.members
    /\ exceptions' = exceptions \cup
           {[stage |-> "VERIFICATION", about |-> g.members, aside |-> {}]}

Verify(g) ==
    /\ phase \in {"verification", "verification6"}
    /\ \E result \in Answers(g) :
           \/ Passed(g, result)
           \/ Ambiguous(g, result)
           \/ LeftToHuman(g, result)
           \/ Rejected(g, result)
    /\ UNCHANGED <<phase, llm_configured, stage6>>

-----------------------------------------------------------------------------
(* run_stage6_llm *)

\* LEDGER_TO_GATEWAY_ENTITY and GATEWAY_TO_BANK_ENTITY; {} where they have no
\* entry.
TargetEntity(r) ==
    CASE source[r] = "LEDGER" /\ entity_type[r] = "PAYMENT" -> {"GATEWAY_SETTLEMENT"}
      [] source[r] = "LEDGER" /\ entity_type[r] \in {"REFUND", "CHARGEBACK", "REVERSAL"}
             -> {entity_type[r]}
      [] source[r] = "GATEWAY" /\ entity_type[r] = "GATEWAY_SETTLEMENT" -> {"BANK_CREDIT"}
      [] source[r] = "GATEWAY" /\ entity_type[r] \in {"REFUND", "CHARGEBACK"}
             -> {entity_type[r]}
      [] OTHER -> {}

TargetSource(r) == IF source[r] = "LEDGER" THEN "GATEWAY" ELSE "BANK"
Unmatched == Records \ matched

\* Mutant: the pool is every record Stages 1-5 left, claimed since or not.
CandidatePoolWithClaimed(r) ==
    {c \in Unmatched :
        /\ source[c] = TargetSource(r)
        /\ entity_type[c] \in TargetEntity(r)
        /\ currency[c] = currency[r]}

CandidatePool(r) ==
    {c \in Unmatched \ newly_matched :
        /\ source[c] = TargetSource(r)
        /\ entity_type[c] \in TargetEntity(r)
        /\ currency[c] = currency[r]}

\* Stages 1-5 are verified: their residue goes to Stage 6.
StartStage6 ==
    /\ phase = "verification"
    /\ proposed = {}
    /\ phase' = "stage6"
    /\ toSeek' = {r \in Unmatched : TargetEntity(r) # {}}
    /\ UNCHANGED <<proposed, groups, matched, exceptions, llm_configured,
                   newly_matched, offered_to_ledger>>

\* Mutant: seekers take their turns in the order of their record_ids alone.
NextSeekerById(r) == r \in toSeek /\ \A s \in toSeek : r <= s

\* Every LEDGER seeker before any GATEWAY one, each in order of record_id.
NextSeeker(r) ==
    /\ r \in toSeek
    /\ \A s \in toSeek : \/ source[r] = "LEDGER" /\ source[s] # "LEDGER"
                         \/ source[r] = source[s] /\ r <= s

\* The turns run_stage6_llm's loops skip.
PassedOver(r) ==
    r \in newly_matched \/ (source[r] = "GATEWAY" /\ r \in offered_to_ledger)

TurnOf(r) ==
    /\ phase = "stage6"
    /\ NextSeeker(r)
    /\ toSeek' = toSeek \ {r}
    /\ UNCHANGED <<phase, groups, matched, llm_configured>>

PassOver(r) ==
    /\ TurnOf(r)
    /\ PassedOver(r)
    /\ UNCHANGED <<proposed, exceptions, newly_matched, offered_to_ledger>>

\* The best MaxCandidates of the pool, by a score of amounts, dates and names.
Offer(r, offered) ==
    /\ TurnOf(r)
    /\ ~PassedOver(r)
    /\ offered \subseteq CandidatePool(r)
    /\ \/ offered = CandidatePool(r) /\ Cardinality(offered) <= MaxCandidates
       \/ Cardinality(offered) = MaxCandidates
    /\ offered_to_ledger' =
           IF source[r] = "LEDGER" THEN offered_to_ledger \cup offered
                                   ELSE offered_to_ledger

\* A turn that ends without a group ends with an exception on the seeker.
Except(r, aside) ==
    /\ exceptions' = exceptions \cup
           {[stage |-> "STAGE6_LLM", about |-> {r}, aside |-> aside]}
    /\ UNCHANGED <<proposed, newly_matched>>

NoCandidates(r) == Offer(r, {}) /\ Except(r, {})

NotConfigured(r, offered) ==
    Offer(r, offered) /\ offered # {} /\ ~llm_configured /\ Except(r, {})

\* The governor's budget is spent or its breaker open.
GovernorDeclines(r, offered) ==
    Offer(r, offered) /\ offered # {} /\ llm_configured /\ Except(r, {})

\* The message of the error may quote candidates that were offered.
CallFails(r, offered) ==
    /\ Offer(r, offered) /\ offered # {} /\ llm_configured
    /\ \E quoted \in SUBSET offered : Except(r, quoted)

\* Mutant: a declined recommendation leaves only its DecisionEvent.
NoMatchSilently(r, offered) ==
    /\ Offer(r, offered) /\ offered # {} /\ llm_configured
    /\ UNCHANGED <<proposed, newly_matched, exceptions>>

NoMatch(r, offered) ==
    Offer(r, offered) /\ offered # {} /\ llm_configured /\ Except(r, offered)

Recommends(r, offered) ==
    /\ Offer(r, offered) /\ llm_configured
    /\ \E best \in offered :
           /\ proposed' = proposed \cup
                  {[members |-> {r, best}, proposed_by |-> "STAGE6_LLM",
                    status |-> "PENDING_REVIEW",
                    commit_policy |-> "HUMAN_REVIEW_REQUIRED",
                    verified_by |-> "NOT_YET_VERIFIED"]}
           /\ newly_matched' = newly_matched \cup {r, best}
    /\ UNCHANGED exceptions

RunSeeker(r) ==
    \/ PassOver(r)
    \/ NoCandidates(r)
    \/ \E offered \in SUBSET CandidatePool(r) :
           \/ NotConfigured(r, offered)
           \/ GovernorDeclines(r, offered)
           \/ CallFails(r, offered)
           \/ NoMatch(r, offered)
           \/ Recommends(r, offered)

\* Stage 6 is over: its groups go through the verifier in their turn.
StartVerification6 ==
    /\ phase = "stage6"
    /\ toSeek = {}
    /\ phase' = "verification6"
    /\ matched' = matched \cup newly_matched
    /\ UNCHANGED <<proposed, groups, exceptions, llm_configured, stage6>>

-----------------------------------------------------------------------------
(* run_final_catchall *)

\* Mutant: decision events are searched too, with the candidates they list.
HandledOrOffered(es, worded) ==
    (UNION {inside[r] : r \in NamedIn(es)}) \cup worded \cup offered_to_ledger

\* The records whose id occurs, as a substring, in one of the exceptions es:
\* in an id it names or in its wording.
Handled(es, worded) == (UNION {inside[r] : r \in NamedIn(es)}) \cup worded

RunFinalCatchall ==
    /\ phase = "verification6"
    /\ proposed = {}
    /\ phase' = "done"
    /\ \E worded \in SUBSET Wording :
          /\ exceptions = {} => worded = {}
          /\ exceptions' = exceptions \cup
                 {[stage |-> "CATCHALL", about |-> {r}, aside |-> {}] :
                     r \in Unmatched \ Handled(exceptions, worded)}
    /\ UNCHANGED <<proposed, groups, matched, llm_configured, stage6>>

Next ==
    \/ \E g \in proposed : Verify(g)
    \/ StartStage6
    \/ \E r \in toSeek : RunSeeker(r)
    \/ StartVerification6
    \/ RunFinalCatchall

Spec == Init /\ [][Next]_vars

-----------------------------------------------------------------------------
(* Properties *)

\* The records of live proposals; Stage 6 keeps its own until it returns.
Taken == IF phase = "stage6" THEN matched \cup newly_matched ELSE matched

\* The tables have their types.
TypeOK ==
    /\ phase \in Phase
    /\ proposed \subseteq MatchGroup
    /\ groups \subseteq MatchGroup
    /\ matched \subseteq Records
    /\ exceptions \subseteq Exception
    /\ llm_configured \in BOOLEAN
    /\ toSeek \subseteq Records
    /\ newly_matched \subseteq Records
    /\ offered_to_ledger \subseteq Records

\* A record is matched exactly when one group that was not rejected has it,
\* and never two: the sets run_pipeline hands from stage to stage agree with
\* the groups it returns, whatever the verifier rejects and Stage 6 claims.
OneLiveGroupPerRecord ==
    /\ Taken = Claimed(proposed \cup groups)
    /\ Disjoint(Live(groups) \cup proposed)

\* The exceptions raised before the catch-all, which it searches.
Earlier == {e \in exceptions : e.stage # "CATCHALL"}

\* A group had the record, or Stage 6 owed it a turn as a seeker.
Attempted(r) ==
    \/ \E g \in groups : r \in g.members
    \/ TargetEntity(r) # {} /\ ~(source[r] = "GATEWAY" /\ r \in offered_to_ledger)

\* The record's id chances to occur in another one or in some wording.
Confusable(r) ==
    \/ \E s \in NamedIn(Earlier) : r \in inside[s]
    \/ Earlier # {} /\ r \in Wording

\* ARCHITECTURE.md section 14, "every unresolved record has a reason code,
\* evidence, and recommended action", as far as the substring test carries it.
\* Whatever was rejected, released, declined or failed before, the catch-all is
\* left only with records no group ever had and Stage 6 owed no turn, and it
\* reports each of those, or drops it for an id that occurs elsewhere.
CatchallIsLastResort ==
    phase = "done" =>
        \A r \in Unmatched \ NamedIn(Earlier) :
            /\ ~Attempted(r)
            /\ Confusable(r) \/ \E e \in exceptions \ Earlier : r \in e.about

\* ARCHITECTURE.md section 2: a Stage 6 proposal is never committed or
\* rejected by the pipeline; it and its records wait for a human.
LlmGroupsAwaitReview ==
    phase = "done" =>
        \A g \in groups : g.proposed_by = "STAGE6_LLM" =>
            /\ g.status = "PENDING_REVIEW"
            /\ g.commit_policy = "HUMAN_REVIEW_REQUIRED"
            /\ g.verified_by = "NOT_YET_VERIFIED"
            /\ g.members \subseteq matched

\* What the two passes over the seekers are for (_eligible_seekers_by_source):
\* no exception Stage 6 raised about a record outlives a later match of that
\* record in the same pass.
NoStaleStage6Exception ==
    \A e \in exceptions :
        e.stage = "STAGE6_LLM" => e.about \cap Taken = {}

\* stage6_llm's docstring, "every path that does NOT produce a MatchGroup
\* ... produces a ReconciliationException instead": once the seekers had
\* their turns, an unmatched record that may seek was the subject of an
\* exception of Stage 6 or was offered to a LEDGER seeker.
EverySeekerAnswered ==
    phase = "verification6" =>
        \A r \in Unmatched :
            TargetEntity(r) # {} =>
                \/ r \in offered_to_ledger /\ source[r] = "GATEWAY"
                \/ \E e \in exceptions : e.stage = "STAGE6_LLM" /\ r \in e.about

\* pipeline.py's comment on the catch-all, "an Exception is always genuinely
\* about its subject ... never a side mention": every unresolved record of a
\* finished run is the subject of an exception.
UnresolvedHasOwnException ==
    phase = "done" =>
        \A r \in Unmatched : \E e \in exceptions : r \in e.about
=============================================================================
