------------------------------- MODULE Stages -------------------------------
(***************************************************************************)
(* The matching stages in the order run_pipeline calls them: Stage 1       *)
(* (stage1_exact.py), the two passes of Stage 2 (stage2_constrained.py),   *)
(* Stages 3 and 4, and the two passes of Stage 5 (stage5_fuzzy.py).        *)
(*                                                                         *)
(* Stages 2 and 5 are greedy: each record seeks its counterpart in turn,   *)
(* among the records nobody has claimed yet, and takes the best one if it  *)
(* clears a threshold and a margin.  Stages 3 and 4 are what Grouping lets *)
(* them do, which Aggregation is shown to keep to.  Scores are in          *)
(* thousandths, as computed; only the similarity of two texts is given.    *)
(***************************************************************************)
EXTENDS Verifier

CONSTANTS
    Inputs,                 \* the sets of records a run may start from
    CounterpartySimilarity, \* fuzz.ratio of two normalized counterparties
    IdentifierSimilarity    \* fuzz.ratio of two normalized references

\* A run starts from finitely many typed records; fuzz.ratio is a share.
WellFormed(recs) ==
    /\ IsFiniteSet(DOMAIN recs)
    /\ \A r \in DOMAIN recs : recs[r].amount \in Int /\ recs[r].day \in Int
    /\ \A r, s \in DOMAIN recs :
          /\ CounterpartySimilarity[recs[r].counterparty][recs[s].counterparty] \in 0..1000
          /\ IdentifierSimilarity[recs[r].reference][recs[s].reference] \in 0..1000

ASSUME StagesAssumption == \A recs \in Inputs : WellFormed(recs)

VARIABLES
    records,  \* the run's records, by record_id
    groups,   \* the match groups with their members
    matched,  \* matched_record_ids
    pass,     \* the stage that runs, or the pass of it
    seekers   \* its seekers whose turn is to come

vars == <<records, groups, matched, pass, seekers>>

\* The order of run_pipeline.
Following == [STAGE1 |-> "STAGE2_A", STAGE2_A |-> "STAGE2_B", STAGE2_B |-> "STAGES3_4",
              STAGES3_4 |-> "STAGE5_A", STAGE5_A |-> "STAGE5_B", STAGE5_B |-> "DONE"]
PassA == {"STAGE2_A", "STAGE5_A"}
Stage5 == {"STAGE5_A", "STAGE5_B"}

Rows(rs) == {records[r] : r \in rs}
HasBank(rs) == \E r \in rs : records[r].source = "BANK"
DisjointMembers(gs) == \A g, h \in gs : g # h => g.members \cap h.members = {}
Verdict(g) == VerifyMatchGroup(g.proposed_by, Rows(g.members), g.score_margin)

-----------------------------------------------------------------------------
(* Stage 1: records that share a normalized reference, refunds,            *)
(* chargebacks and reversals apart from the payment they are about.        *)

Family(m) ==
    IF m.entity_type \in {"REFUND", "CHARGEBACK", "REVERSAL"} THEN m.entity_type ELSE "principal"

\* Mutant: the reference alone makes a cluster.
SameReference(r, s) == records[r].reference = records[s].reference

SameCluster(r, s) ==
    /\ records[r].reference = records[s].reference
    /\ Family(records[r]) = Family(records[s])
Clusters == {{s \in DOMAIN records : SameCluster(r, s)} : r \in DOMAIN records}

QualifiesForStage1(c) ==
    /\ Cardinality(c) >= 2
    /\ SlotsUnique(Rows(c))
    /\ OneCurrency(Rows(c))
    /\ WithinDatePolicy(Rows(c))

Group(members, proposed_by, commit_policy, score_margin) ==
    [members |-> members, proposed_by |-> proposed_by,
     commit_policy |-> commit_policy, score_margin |-> score_margin]

ExactGroups ==
    {Group(c, "STAGE1_EXACT", "AUTO_COMMIT_STAGE1", 0) :
        c \in {d \in Clusters : QualifiesForStage1(d)}}

ProposeExact ==
    /\ pass = "STAGE1"
    /\ \E g \in ExactGroups \ groups :
          /\ groups' = groups \cup {g}
          /\ matched' = matched \cup g.members
    /\ UNCHANGED <<records, pass, seekers>>

-----------------------------------------------------------------------------
(* Seekers and the score of a candidate                                    *)

\* LEDGER_TO_GATEWAY_ENTITY and GATEWAY_TO_BANK_ENTITY; a reversal has no
\* bank leg.
TargetEntity(m) ==
    CASE m.source = "LEDGER" /\ m.entity_type = "PAYMENT" -> "GATEWAY_SETTLEMENT"
      [] m.source = "GATEWAY" /\ m.entity_type = "GATEWAY_SETTLEMENT" -> "BANK_CREDIT"
      [] m.entity_type \in {"REFUND", "CHARGEBACK"} -> m.entity_type
      [] m.source = "LEDGER" /\ m.entity_type = "REVERSAL" -> "REVERSAL"
      [] OTHER -> "NONE"

\* The records each pass goes through.  Stage 2 offers a bank leg to every
\* gateway record, grouped or not; Stage 5 looks at unmatched records only.
SeekersOf(p, claimed) ==
    LET of(source) == {r \in DOMAIN records : records[r].source = source
                                              /\ TargetEntity(records[r]) # "NONE"}
    IN CASE p \in PassA -> of("LEDGER") \ claimed
         [] p = "STAGE2_B" -> of("GATEWAY")
         [] p = "STAGE5_B" -> of("GATEWAY") \ claimed
         [] OTHER -> {}

\* Mutant: claimed candidates stay in the pool.
CandidatePoolWithClaimed(r) ==
    {c \in DOMAIN records :
        /\ records[c].source = IF pass \in PassA THEN "GATEWAY" ELSE "BANK"
        /\ records[c].entity_type = TargetEntity(records[r])}

CandidatePool(r) ==
    {c \in DOMAIN records \ matched :
        /\ records[c].source = IF pass \in PassA THEN "GATEWAY" ELSE "BANK"
        /\ records[c].entity_type = TargetEntity(records[r])}

\* A ledger payment is gross and its settlement net: between 2 % more and 5 %
\* less, at best in the middle.  Everything else agrees but for a tolerance.
ExpectsDeduction(r) == TargetEntity(records[r]) = "GATEWAY_SETTLEMENT"
Deduction(a, b) == 1000 * (a - b)
NetTolerance(a) == Max({200, a \div 200})

AmountOk(r, c) ==
    LET a == Abs(records[r].amount)
        b == Abs(records[c].amount)
    IN IF ExpectsDeduction(r)
       THEN a # 0 /\ -20 * a <= Deduction(a, b) /\ Deduction(a, b) <= 50 * a
       ELSE Abs(a - b) <= NetTolerance(a)
AmountScore(r, c) ==
    LET a == Abs(records[r].amount)
        b == Abs(records[c].amount)
    IN IF ExpectsDeduction(r)
       THEN 1000 - (150 * Abs(Deduction(a, b) - 15 * a)) \div (35 * a)
       ELSE 1000 - (150 * Abs(a - b)) \div NetTolerance(a)

DateWindow == CASE pass = "STAGE2_A" -> 7
                [] pass = "STAGE2_B" -> 5
                [] pass = "STAGE5_A" -> 10
                [] OTHER -> 7
DateGap(r, c) == Abs(records[r].day - records[c].day)
DateScore(r, c) ==
    IF DateGap(r, c) <= 2 THEN 1000
    ELSE 1000 - (1000 * (DateGap(r, c) - 2)) \div (DateWindow - 2)

Counterparty(r, c) == CounterpartySimilarity[records[r].counterparty][records[c].counterparty]
Identifier(r, c) == IdentifierSimilarity[records[r].reference][records[c].reference]

\* Stage 5 asks for a similar identifier and counterparty on top.
Scored(r) ==
    {c \in CandidatePool(r) :
        /\ records[r].currency = records[c].currency
        /\ AmountOk(r, c)
        /\ DateGap(r, c) <= DateWindow
        /\ pass \in Stage5 => Identifier(r, c) >= 720 /\ Counterparty(r, c) >= 600}

Composite(r, c) ==
    IF pass \in Stage5
    THEN (30 * Identifier(r, c) + 30 * AmountScore(r, c)
          + 15 * DateScore(r, c) + 25 * Counterparty(r, c)) \div 100
    ELSE (55 * AmountScore(r, c) + 30 * DateScore(r, c) + 15 * Counterparty(r, c)) \div 100

Threshold == IF pass \in Stage5 THEN 780 ELSE 700
MinMargin == IF pass \in Stage5 THEN 100 ELSE 80

\* The lead of a candidate over the best of the others, 0 for want of one.
ScoreMargin(r, c) ==
    Composite(r, c)
        - Max({0} \cup {Composite(r, d) : d \in Scored(r) \ {c}})

\* Mutant: a good score is enough, however close the next one comes.
ConfidentByScore(r, c) == c \in Scored(r) /\ Composite(r, c) >= Threshold

Confident(r, c) ==
    /\ c \in Scored(r)
    /\ Composite(r, c) >= Threshold
    /\ ScoreMargin(r, c) >= MinMargin

-----------------------------------------------------------------------------
(* The turn of a seeker in Stages 2 and 5                                  *)

Takes(r) == seekers' = seekers \ {r} /\ UNCHANGED <<records, pass>>

ProposedBy == IF pass \in Stage5 THEN "STAGE5_FUZZY" ELSE "STAGE2_CONSTRAINED"

ProposePair(r) ==
    /\ pass = "STAGE2_B" => r \notin matched
    /\ \E c \in DOMAIN records :
          /\ Confident(r, c)
          /\ groups' = groups \cup {Group({r, c}, ProposedBy, "AUTO_COMMIT_STAGE2_5_THRESHOLD",
                                          ScoreMargin(r, c))}
          /\ matched' = matched \cup {r, c}
    /\ Takes(r)

\* Mutant: a group keeps its stage and its policy when its bank leg arrives.
AttachBankLegQuietly(r) ==
    /\ pass = "STAGE2_B"
    /\ \E g \in groups : \E c \in DOMAIN records :
          /\ r \in g.members
          /\ ~HasBank(g.members)
          /\ Confident(r, c)
          /\ groups' = (groups \ {g}) \cup {[g EXCEPT !.members = @ \cup {c}]}
          /\ matched' = matched \cup {c}
    /\ Takes(r)

\* Mutant: a group that has its bank leg is offered another.
AttachAnyBankLeg(r) ==
    /\ pass = "STAGE2_B"
    /\ \E g \in groups : \E c \in DOMAIN records :
          /\ r \in g.members
          /\ Confident(r, c)
          /\ groups' = (groups \ {g}) \cup
                 {Group(g.members \cup {c}, "STAGE2_CONSTRAINED",
                        "AUTO_COMMIT_STAGE2_5_THRESHOLD", ScoreMargin(r, c))}
          /\ matched' = matched \cup {c}
    /\ Takes(r)

\* The whole group is from now on a proposal of Stage 2.
AttachBankLeg(r) ==
    /\ pass = "STAGE2_B"
    /\ \E g \in groups : \E c \in DOMAIN records :
          /\ r \in g.members
          /\ ~HasBank(g.members)
          /\ Confident(r, c)
          /\ groups' = (groups \ {g}) \cup
                 {Group(g.members \cup {c}, "STAGE2_CONSTRAINED",
                        "AUTO_COMMIT_STAGE2_5_THRESHOLD", ScoreMargin(r, c))}
          /\ matched' = matched \cup {c}
    /\ Takes(r)

HasItsBankLeg(r) ==
    /\ pass = "STAGE2_B"
    /\ \E g \in groups : r \in g.members /\ HasBank(g.members)
    /\ Takes(r)
    /\ UNCHANGED <<groups, matched>>

DeclinesAll(r) ==
    /\ ~\E c \in DOMAIN records : Confident(r, c)
    /\ Takes(r)
    /\ UNCHANGED <<groups, matched>>

Seek ==
    \E r \in seekers :
        /\ \A s \in seekers : r <= s
        /\ \/ ProposePair(r)
           \/ AttachBankLeg(r)
           \/ HasItsBankLeg(r)
           \/ DeclinesAll(r)

-----------------------------------------------------------------------------
(* Stages 3 and 4: any bank credits joined with open groups and lone       *)
(* gateway records.  STAGE3_AGGREGATE stands for both of them, and their   *)
(* margin, which nothing here asks for, is left at its maximum.            *)

Merged(parts, loose) == (UNION {g.members : g \in parts}) \cup loose

Aggregate ==
    /\ pass = "STAGES3_4"
    /\ \E parts \in SUBSET {g \in groups : ~HasBank(g.members)} :
       \E loose \in SUBSET {r \in DOMAIN records \ matched :
                               \/ records[r].source = "GATEWAY"
                               \/ records[r].entity_type = "BANK_CREDIT"} :
          /\ HasBank(loose)
          /\ \E r \in Merged(parts, loose) : records[r].source = "GATEWAY"
          /\ OneCurrency(Rows(Merged(parts, loose)))
          /\ groups' = (groups \ parts) \cup
                 {Group(Merged(parts, loose), "STAGE3_AGGREGATE",
                        "AUTO_COMMIT_STAGE2_5_THRESHOLD", 1000)}
          /\ matched' = matched \cup loose
    /\ UNCHANGED <<records, pass, seekers>>

-----------------------------------------------------------------------------

NextStage ==
    /\ pass # "DONE"
    /\ seekers = {}
    /\ pass = "STAGE1" => ExactGroups \subseteq groups
    /\ pass' = Following[pass]
    /\ seekers' = SeekersOf(pass', matched)
    /\ UNCHANGED <<records, groups, matched>>

Init ==
    /\ records \in Inputs
    /\ groups = {}
    /\ matched = {}
    /\ pass = "STAGE1"
    /\ seekers = {}

Next == ProposeExact \/ Seek \/ Aggregate \/ NextStage

Spec == Init /\ [][Next]_vars

-----------------------------------------------------------------------------
(* Properties                                                              *)

MatchGroup == [members : SUBSET DOMAIN records,
               proposed_by : {"STAGE1_EXACT", "STAGE2_CONSTRAINED", "STAGE3_AGGREGATE",
                              "STAGE5_FUZZY"},
               commit_policy : {"AUTO_COMMIT_STAGE1", "AUTO_COMMIT_STAGE2_5_THRESHOLD"},
               score_margin : 0..1000]

\* Every variable keeps its type, and a scored group has a margin the
\* verifier accepts.
TypeOK ==
    /\ \A g \in groups : /\ g \in MatchGroup
                         /\ g.proposed_by # "STAGE1_EXACT" => g.score_margin >= MinScoreMargin
    /\ matched \subseteq DOMAIN records
    /\ pass \in DOMAIN Following \cup {"DONE"}
    /\ seekers \subseteq DOMAIN records

\* Over four passes of greedy claims no record is claimed twice, and the
\* matched records are those in a group.
OneGroupPerRecord ==
    /\ DisjointMembers(groups)
    /\ matched = UNION {g.members : g \in groups}

\* A group that may still commit on Stage 1's policy, which asks for no score,
\* is one cluster of Stage 1 as it was found: what a later stage added to a
\* group moved it to the scored policy.
Stage1PolicyMeansIdentifier ==
    \A g \in groups :
        g.commit_policy = "AUTO_COMMIT_STAGE1" \/ g.proposed_by = "STAGE1_EXACT" =>
            g \in ExactGroups

\* A group of Stages 1, 2 and 5 is about one event: one currency, no refund
\* beside the payment it undoes, and at most one record of a kind per source,
\* whoever attached what to it.  One of Stage 2 that waits for its bank leg is
\* a ledger record and its counterpart, as Stages 3 and 4 take for granted.
IsPair(rs) ==
    \E l, w \in rs : /\ rs = {l, w}
                     /\ records[l].source = "LEDGER" /\ records[w].source = "GATEWAY"
                     /\ records[w].entity_type = TargetEntity(records[l])
OneEventPerGroup ==
    \A g \in groups : g.proposed_by # "STAGE3_AGGREGATE" =>
        /\ OneCurrency(Rows(g.members))
        /\ SlotsUnique(Rows(g.members))
        /\ \A m, n \in Rows(g.members) : Family(m) = Family(n)
        /\ g.proposed_by = "STAGE2_CONSTRAINED" => HasBank(g.members) \/ IsPair(g.members)

\* Stage 1's ceiling on the gap between the ledger's amount and the gateway's
\* holds for whatever became of a group of Stage 1 that passes the verifier.
ResidualCeilingHolds ==
    \A g \in groups :
        Verdict(g) = "PASSED" /\ (\E h \in ExactGroups : h.members \subseteq g.members) =>
            ResidualWithinTolerance(Rows(g.members))

\* The stages implement Grouping: they only join open groups and free records,
\* and a group that has its bank leg is never touched again.
Abstract == INSTANCE Grouping WITH
    blocks <- {g.members : g \in groups},
    free <- DOMAIN records \ matched,
    bank <- {r \in DOMAIN records : records[r].source = "BANK"}
ImplementsGrouping == Abstract!Spec

=============================================================================
