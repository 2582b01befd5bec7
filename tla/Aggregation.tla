----------------------------- MODULE Aggregation -----------------------------
(***************************************************************************)
(* Stage 3 (stage3_aggregate.py) in its two directions and Stage 4         *)
(* (stage4_adjustment.py), over the search they share                      *)
(* (aggregation_common.run_aggregation_search) and the resolution of the   *)
(* conflicts Stage 3 finds (conflict_resolver.py).                         *)
(*                                                                         *)
(* A pass searches its targets in turn, each in a window of its own and    *)
(* all against one deadline; it compares what the targets want; then it    *)
(* concludes each target in turn.  The clock is the only thing that is not *)
(* a function of the input: the deadline may pass before any target that   *)
(* has a combination to try.                                               *)
(***************************************************************************)
EXTENDS Verifier

CONSTANTS
    Inputs,         \* the records and prior groups a run may start from
    MaxCandidates,  \* AggregationSearchLimits.max_candidates_per_window
    MaxGroupSize    \* AggregationSearchLimits.max_group_size

VARIABLES
    records,     \* records_by_id
    groups,      \* all_groups with all_members
    matched,     \* matched_ids
    exceptions,  \* exceptions
    pass,        \* the search that runs: Stage 3's two directions, Stage 4
    items,       \* its items
    waiting,     \* its targets still to be searched
    expired,     \* its deadline was seen to have passed
    window,      \* WindowResult.outcomes
    pending      \* the outcomes the stage has yet to conclude

search == <<pass, items, waiting, expired, window>>
vars == <<records, groups, matched, exceptions, search, pending>>

Stages == {"STAGE3_A", "STAGE3_B", "STAGE4"}

\* STAGE3_THRESHOLD, STAGE3_MIN_MARGIN and their equals of Stage 4, in
\* thousandths; MAX_SETTLEMENT_BANK_LAG_DAYS.
Threshold == 850
MinMargin == 50
MaxLag == 10

BankBound == {"GATEWAY_SETTLEMENT", "REFUND", "CHARGEBACK"}
Nettable == BankBound \cup {"FEE", "TAX", "ADJUSTMENT"}

ProposedBy == {"STAGE1_EXACT", "STAGE2_CONSTRAINED", "STAGE3_AGGREGATE", "STAGE4_ADJUSTMENT"}

Rows(rs) == {records[r] : r \in rs}
HasBank(rs) == \E r \in rs : records[r].source = "BANK"
DisjointMembers(gs) == \A g, h \in gs : g # h => g.members \cap h.members = {}
Verdict(g) == VerifyMatchGroup(g.proposed_by, Rows(g.members), g.score_margin)

\* What Stages 1 and 2 hand on.  A group without its bank leg has one record
\* per slot and counts with its gateway amount; Stage 2's are a ledger record
\* and its counterpart.
Counterparts ==
    {<<"PAYMENT", "GATEWAY_SETTLEMENT">>, <<"REFUND", "REFUND">>,
     <<"CHARGEBACK", "CHARGEBACK">>, <<"REVERSAL", "REVERSAL">>}
IsPair(rows) ==
    \E l, w \in rows : /\ rows = {l, w}
                       /\ l.source = "LEDGER" /\ w.source = "GATEWAY"
                       /\ <<l.entity_type, w.entity_type>> \in Counterparts
IsOpenGroup(g, rows) ==
    /\ SlotsUnique(rows)
    /\ g.matched_amount = Matched(rows)
    /\ g.proposed_by = "STAGE2_CONSTRAINED" => IsPair(rows)
Handed(recs) == [members : SUBSET DOMAIN recs, matched_amount : Nat,
                 proposed_by : {"STAGE1_EXACT", "STAGE2_CONSTRAINED"}, score_margin : 0..1000]

WellFormed(input) ==
    /\ IsFiniteSet(DOMAIN input.records)
    /\ \A r \in DOMAIN input.records :
          /\ r \in Int
          /\ input.records[r].id = r
          /\ input.records[r].source \in Source
          /\ input.records[r].amount \in Int
          /\ input.records[r].day \in Int
    /\ IsFiniteSet(input.groups)
    /\ DisjointMembers(input.groups)
    /\ \A g \in input.groups :
          LET rows == {input.records[r] : r \in g.members}
          IN /\ g \in Handed(input.records)
             /\ g.members # {}
             /\ (\A m \in rows : m.source # "BANK") => IsOpenGroup(g, rows)

ASSUME AggregationAssumption ==
    /\ MaxCandidates \in Nat
    /\ MaxGroupSize \in Nat
    /\ \A input \in Inputs : WellFormed(input)

-----------------------------------------------------------------------------
(* The two sides of a search                                               *)

GatewayOf(r, types) ==
    records[r].source = "GATEWAY" /\ records[r].entity_type \in types

\* A group without its bank leg counts with the gateway's net amount.
GroupUnits(types) ==
    {[records |-> g.members, amount |-> Abs(g.matched_amount)] :
        g \in {h \in groups : /\ ~HasBank(h.members)
                              /\ \E r \in h.members : GatewayOf(r, types)
                              /\ OneCurrency(Rows(h.members))}}

\* Mutant: the duplicate decoys stay in the pool.
DecoysKept == {}

\* Of the records that share a reference and a slot only the first is kept.
Twins(r, s) ==
    /\ records[r].reference = records[s].reference
    /\ records[r].source = records[s].source
    /\ records[r].entity_type = records[s].entity_type
Decoys == {r \in DOMAIN records : \E s \in DOMAIN records : s < r /\ Twins(r, s)}

SettlementUnits ==
    GroupUnits(BankBound) \cup
    {[records |-> {r}, amount |-> Abs(records[r].amount)] :
        r \in {s \in (DOMAIN records \ matched) \ Decoys : GatewayOf(s, BankBound)}}

NetUnits ==
    GroupUnits(Nettable) \cup
    {[records |-> {r}, amount |-> records[r].amount] :
        r \in {s \in DOMAIN records \ matched : GatewayOf(s, Nettable)}}

BankCredits ==
    {[records |-> {r}, amount |-> Abs(records[r].amount)] :
        r \in {s \in DOMAIN records \ matched :
                  records[s].source = "BANK" /\ records[s].entity_type = "BANK_CREDIT"}}

ItemsOf(p) == CASE p = "STAGE3_A" -> SettlementUnits
                [] p = "STAGE3_B" -> BankCredits
                [] p = "STAGE4" -> NetUnits
TargetsOf(p) == IF p = "STAGE3_B" THEN SettlementUnits ELSE BankCredits

-----------------------------------------------------------------------------
(* The search in one target's window                                       *)

Currency(unit) == First(Rows(unit.records)).currency
Day(unit) == Max({records[r].day : r \in unit.records})

\* Mutant: amounts of any currency are added up.
EligibleAnyCurrency(item, target) ==
    (IF pass = "STAGE3_B" THEN Day(item) - Day(target) ELSE Day(target) - Day(item)) \in 0..MaxLag

Eligible(item, target) ==
    /\ Currency(item) = Currency(target)
    /\ (IF pass = "STAGE3_B" THEN Day(item) - Day(target) ELSE Day(target) - Day(item))
          \in 0..MaxLag

Pool(target) == {i \in items : Eligible(i, target)}
Combos(pool) == UNION {kSubset(k, pool) : k \in 1..MaxGroupSize}
Gap(target, combo) == Abs(target.amount - TotalAmount(combo))
Candidates(target) ==
    {c \in Combos(Pool(target)) : Gap(target, c) <= ToleranceFor(target.amount)}

Score(target, combo) == 1000 - (500 * Gap(target, combo)) \div ToleranceFor(target.amount)

\* The order of units and records: groups come first, then by lowest id.
IsGroup(unit) == Cardinality(unit.records) > 1
Before(u, v) ==
    IF IsGroup(u) = IsGroup(v)
    THEN \E r \in u.records : \A s \in v.records : r < s
    ELSE IsGroup(u)

\* The order of item_ids tuples, which breaks ties between combinations.
LowerIds(c, d) ==
    LET lead == CHOOSE i \in SymDiff(c, d) : \A j \in SymDiff(c, d) \ {i} : Before(i, j)
        later(s) == \E j \in s : Before(lead, j)
    IN IF lead \in c THEN later(d) ELSE ~later(c)

Ranked(target, c, d) ==
    \/ Gap(target, c) < Gap(target, d)
    \/ Gap(target, c) = Gap(target, d) /\ LowerIds(c, d)

\* Mutant: any combination within tolerance is taken for the best.
BestOfAny(target, c, cs) == c \in cs

BestOf(target, c, cs) == c \in cs /\ \A d \in cs \ {c} : Ranked(target, c, d)

\* The second-best score, or 0 for want of a second.
RunnerUp(target, c, cs) ==
    IF cs = {c} THEN 0 ELSE Max({Score(target, d) : d \in cs \ {c}})

-----------------------------------------------------------------------------
(* Searching the targets of a pass (the first loop of                      *)
(* run_aggregation_search).                                                *)

\* A TargetOutcome before the comparison; without a candidate best is empty.
Outcome(target, limit, best, score, runner_up) ==
    [target |-> target, limit |-> limit, best |-> best,
     score |-> score, runner_up |-> runner_up]

InTurn(unit, units) == unit \in units /\ \A u \in units \ {unit} : Before(unit, u)

Searched(outcome) ==
    /\ waiting' = waiting \ {outcome.target}
    /\ window' = window \cup {outcome}
    /\ pending' = pending \cup {outcome}
    /\ UNCHANGED <<records, groups, matched, exceptions, pass, items>>

TooLarge(target) ==
    /\ Cardinality(Pool(target)) > MaxCandidates
    /\ Searched(Outcome(target, "CANDIDATE_POOL_TOO_LARGE", {}, 0, 0))
    /\ UNCHANGED expired

FindsBest(target) ==
    /\ Cardinality(Pool(target)) <= MaxCandidates
    /\ ~expired
    /\ \E c \in Candidates(target) :
          /\ BestOf(target, c, Candidates(target))
          /\ Searched(Outcome(target, "NONE", c, Score(target, c),
                              RunnerUp(target, c, Candidates(target))))
    /\ UNCHANGED expired

FindsNothing(target) ==
    /\ Cardinality(Pool(target)) <= MaxCandidates
    /\ expired => Pool(target) = {}
    /\ Candidates(target) = {}
    /\ Searched(Outcome(target, "NONE", {}, 0, 0))
    /\ UNCHANGED expired

\* Mutant: what was found before the deadline is used as if it were all.
TimesOutKeepingFound(target) ==
    /\ Cardinality(Pool(target)) \in 1..MaxCandidates
    /\ \E found \in SUBSET Candidates(target) : \E c \in found :
          /\ BestOf(target, c, found)
          /\ Searched(Outcome(target, "NONE", c, Score(target, c),
                              RunnerUp(target, c, found)))
    /\ expired' = TRUE

\* The deadline is looked at before each combination; what was found is lost.
TimesOut(target) ==
    /\ Cardinality(Pool(target)) \in 1..MaxCandidates
    /\ Searched(Outcome(target, "WINDOW_TIMEOUT", {}, 0, 0))
    /\ expired' = TRUE

Search ==
    \E target \in waiting :
        /\ InTurn(target, waiting)
        /\ \/ TooLarge(target)
           \/ FindsBest(target)
           \/ FindsNothing(target)
           \/ TimesOut(target)

-----------------------------------------------------------------------------
(* Comparing what the targets want (its second loop, _wire_conflicts and   *)
(* resolve_conflict).                                                      *)

\* Mutant: two targets are compared by their combinations, not by the items.
ShareCombination(o, p) == o.best # {} /\ o.best = p.best

Share(o, p) == o.best \cap p.best # {}
Contested(o) == \E p \in window \ {o} : Share(o, p)

\* The targets that share items, directly or through others.
Cluster(o) ==
    LET closed(S) == \A p \in S : \A q \in window : Share(p, q) => q \in S
    IN {p \in window : \A S \in SUBSET window : o \in S /\ closed(S) => p \in S}

\* A cluster of single items all want the same one: the optimal assignment
\* gives it to the highest score, or to the first target among equals.
Reduces(o) == \A p \in Cluster(o) : Cardinality(p.best) = 1
Winner(cluster) ==
    CHOOSE p \in cluster : \A q \in cluster \ {p} :
        \/ p.score > q.score
        \/ p.score = q.score /\ Before(p.target, q.target)
Wins(o) == o = Winner(Cluster(o))

ClearsBar(o) == o.score >= Threshold /\ o.score - o.runner_up >= MinMargin

Accepted(o) == o.best # {} /\ ~Contested(o) /\ ClearsBar(o)
Promoted(o) ==
    /\ pass # "STAGE4"
    /\ Contested(o)
    /\ Reduces(o)
    /\ Wins(o)
    /\ ClearsBar(o)
Emits(o) == Accepted(o) \/ Promoted(o)

-----------------------------------------------------------------------------
(* Concluding each target (the loops of run_stage3_aggregate and           *)
(* run_stage4_adjustment).                                                 *)

Parts(o) == {u.records : u \in o.best \cup {o.target}}

MergedGroup(o) ==
    LET members == UNION Parts(o)
        bank == {m \in Rows(members) : m.source = "BANK"}
    IN [members |-> members,
        matched_amount |-> SumFunction([m \in bank |-> Abs(m.amount)]),
        proposed_by |-> IF pass = "STAGE4" THEN "STAGE4_ADJUSTMENT" ELSE "STAGE3_AGGREGATE",
        score_margin |-> o.score - o.runner_up]

Concluded(o) ==
    /\ pending' = pending \ {o}
    /\ UNCHANGED <<records, search>>

\* The groups it takes in are gone, their members re-pointed to the new one.
EmitGroup(o) ==
    /\ Emits(o)
    /\ groups' = {g \in groups : g.members \notin Parts(o)} \cup {MergedGroup(o)}
    /\ matched' = matched \cup UNION Parts(o)
    /\ Concluded(o)
    /\ UNCHANGED exceptions

DeclineWith(o, reason, aside) ==
    /\ exceptions' = exceptions \cup
           {[stage |-> pass, reason |-> reason, about |-> o.target.records, aside |-> aside]}
    /\ Concluded(o)
    /\ UNCHANGED <<groups, matched>>

\* Mutant: only a conflict of bundles is reported.
DeclineOverlapOfBundles(o) ==
    /\ Contested(o)
    /\ ~Promoted(o)
    /\ IF Reduces(o)
       THEN Concluded(o) /\ UNCHANGED <<groups, matched, exceptions>>
       ELSE DeclineWith(o, "AMBIGUOUS_OVERLAP", {})

\* Its evidence names the contested items of the whole window.
DeclineOverlap(o) ==
    /\ Contested(o)
    /\ ~Promoted(o)
    /\ DeclineWith(o, "AMBIGUOUS_OVERLAP",
          UNION {i.records : i \in {j \in items : \E p, q \in window :
                                        p # q /\ j \in p.best \cap q.best}})

DeclineUnsearched(o) == o.limit # "NONE" /\ DeclineWith(o, o.limit, {})

\* NO_AGGREGATION_FOUND, BELOW_THRESHOLD, INSUFFICIENT_MARGIN: an event only.
DeclineWeak(o) ==
    /\ o.limit = "NONE"
    /\ ~Contested(o)
    /\ ~Accepted(o)
    /\ Concluded(o)
    /\ UNCHANGED <<groups, matched, exceptions>>

Conclude ==
    /\ waiting = {}
    /\ \E o \in pending :
          /\ \A p \in pending \ {o} : Before(o.target, p.target)
          /\ \/ EmitGroup(o)
             \/ DeclineOverlap(o)
             \/ DeclineUnsearched(o)
             \/ DeclineWeak(o)

-----------------------------------------------------------------------------
(* One pass after the other, each with a deadline of its own.  Direction B *)
(* takes the units and credits A left: those that still are unmatched, or  *)
(* a group without a bank leg.                                             *)

NextPass(p) == CASE p = "STAGE3_A" -> "STAGE3_B"
                 [] p = "STAGE3_B" -> "STAGE4"
                 [] OTHER -> "DONE"

StartPass ==
    /\ pass # "DONE"
    /\ waiting = {}
    /\ pending = {}
    /\ pass' = NextPass(pass)
    /\ items' = IF pass' = "DONE" THEN {} ELSE ItemsOf(pass')
    /\ waiting' = IF pass' = "DONE" THEN {} ELSE TargetsOf(pass')
    /\ expired' = FALSE
    /\ window' = {}
    /\ UNCHANGED <<records, groups, matched, exceptions, pending>>

Init ==
    /\ \E input \in Inputs :
          /\ records = input.records
          /\ groups = input.groups
    /\ matched = UNION {g.members : g \in groups}
    /\ exceptions = {}
    /\ pass = "STAGE3_A"
    /\ items = ItemsOf("STAGE3_A")
    /\ waiting = TargetsOf("STAGE3_A")
    /\ expired = FALSE
    /\ window = {}
    /\ pending = {}

Next == Search \/ Conclude \/ StartPass

Spec == Init /\ [][Next]_vars

-----------------------------------------------------------------------------
(* Properties                                                              *)

Unit == [records : SUBSET DOMAIN records, amount : Int]
MatchGroup == [members : SUBSET DOMAIN records, matched_amount : Nat,
               proposed_by : ProposedBy, score_margin : 0..1000]
Outcomes == [target : Unit, limit : {"NONE", "CANDIDATE_POOL_TOO_LARGE", "WINDOW_TIMEOUT"},
             best : SUBSET items, score : 0..1000, runner_up : 0..1000]

\* Every variable keeps its type.  A combination that was found scores at least
\* 500 and no runner-up beats it; and a group a search made has the margin that
\* gets it past the verifier's floor, while one handed in carries none.
TypeOK ==
    /\ \A g \in groups : /\ g \in MatchGroup
                         /\ g.proposed_by \in {"STAGE3_AGGREGATE", "STAGE4_ADJUSTMENT"} =>
                               g.score_margin >= MinMargin
    /\ matched \subseteq DOMAIN records
    /\ pass \in Stages \cup {"DONE"}
    /\ \A u \in items \cup waiting : u \in Unit
    /\ expired \in BOOLEAN
    /\ \A o \in window : /\ o \in Outcomes /\ o.runner_up <= o.score
                         /\ o.best # {} => o.score >= 500
    /\ pending \subseteq window
    /\ \A e \in exceptions : /\ e.stage \in Stages
                             /\ e.about \cup e.aside \subseteq DOMAIN records

\* A record is in at most one group, and the matched records are those in a
\* group, over three passes that merge groups, take lone records and share
\* what they want.
OneGroupPerRecord ==
    /\ DisjointMembers(groups)
    /\ matched = UNION {g.members : g \in groups}

\* "Decline, never silently resolve": a group made of a search's answer beat
\* every other combination of its target's window by the minimum margin,
\* whenever the deadline passed and whatever the other targets got.
AcceptedBeatsEveryRival ==
    [][\A o \in pending \ pending' : Emits(o) =>
          \A c \in Candidates(o.target) \ {o.best} :
              Score(o.target, c) + MinMargin <= o.score]_vars

\* A target with a confident answer, or with a window that was given up, ends
\* in a group with its bank leg or in an exception: only a weak answer leaves
\* no trace but an event.
Banked(rs) == \E g \in groups : rs \subseteq g.members /\ HasBank(g.members)
NothingStrongIsDropped ==
    \A o \in window \ pending :
        o.limit # "NONE" \/ (o.best # {} /\ ClearsBar(o)) =>
            \/ Banked(o.target.records)
            \/ \E e \in exceptions : e.stage = pass /\ e.about = o.target.records

\* The searches and the verifier compute conservation each in its own way, over
\* other sums and, where a settlement is the target, another tolerance.  They
\* agree on a Stage 3 group of settlements whose charges, if any, ride beside a
\* ledger amount, and on a Stage 4 group that took in no other group: unless
\* a sign contradicts its role, what the search emits the verifier passes.
NoContradiction(g) == ~\E m \in Rows(g.members) : Contradicts(m)
Settlements(g) ==
    \A m \in Rows(g.members) :
        /\ m.source = "LEDGER" => LedgerGross(m)
        /\ m.source = "GATEWAY" =>
              \/ m.entity_type = "GATEWAY_SETTLEMENT"
              \/ Role(m) \in BreakoutRoles /\ \E n \in Rows(g.members) : LedgerGross(n)
SearchAndVerifierAgree ==
    [][\A g \in groups' \ groups :
          /\ NoContradiction(g)
          /\ g.proposed_by = "STAGE3_AGGREGATE" => Settlements(g)
          /\ g.proposed_by = "STAGE4_ADJUSTMENT" => groups \subseteq groups'
          => Verdict(g) = "PASSED"]_vars

\* No group on scored evidence passes the verifier before the bank's side of
\* the money is there, but one that is a pure outflow, or whose settlement is
\* no more than the tolerance's floor of one rupee.
VerifiedMeansBanked ==
    \A g \in groups :
        g.proposed_by # "STAGE1_EXACT" /\ Verdict(g) = "PASSED" =>
            \/ HasBank(g.members)
            \/ PureOutflow(Rows(g.members))
            \/ \A m \in Rows(g.members) : m.source = "GATEWAY" => m.amount <= 100

\* Of the gateway records that share a reference and a slot Stage 3 takes up
\* the first or none, in either direction and whatever became of the first.
\* What came with a prior group stays with it.
NoDecoyTakenUp ==
    [][\A g \in groups' \ groups : g.proposed_by = "STAGE3_AGGREGATE" =>
          \A r \in g.members \ matched : records[r].source = "GATEWAY" =>
              ~\E s \in DOMAIN records : s < r /\ Twins(r, s)]_vars

\* What a search declined as ambiguous or unsearchable stays for a human: a
\* bank credit with such an exception is in no group.
DeclinedStaysOpen ==
    \A e \in exceptions : \A r \in e.about :
        records[r].source = "BANK" => r \notin matched

\* The stages implement Grouping: they only join open groups and free records,
\* and a group that has its bank leg is never touched again.
Abstract == INSTANCE Grouping WITH
    blocks <- {g.members : g \in groups},
    free <- DOMAIN records \ matched,
    bank <- {r \in DOMAIN records : records[r].source = "BANK"}
ImplementsGrouping == Abstract!Spec

=============================================================================
