--------------------------- MODULE AggregationSums ---------------------------
(***************************************************************************)
(* Proofs about the sums, scores and margins of Aggregation, for any       *)
(* ledger: what the searches accept is in range, beats every rival and     *)
(* balances for the verifier too, and what the verifier passes on scored   *)
(* evidence has its bank leg.  The window of a pass keeps what was found   *)
(* in it (FoundInv); a unit counts with what its rows are worth            *)
(* (AmountsInv).                                                           *)
(***************************************************************************)
EXTENDS AggregationProofs, AggregationRefinement, SumLemmas

-----------------------------------------------------------------------------
(* Total amounts of rows and units                                         *)

WholeAmounts(S) == IsFiniteSet(S) /\ \A x \in S : x.amount \in Int

LEMMA TotalEmpty == TotalAmount({}) = 0
  <1> DEFINE f == [m \in {} |-> m.amount]
  <1>1. f \in [{} -> Int]
    OBVIOUS
  <1>2. SumFunction(f) = 0
    <2> HIDE DEF f
    <2> QED
      BY <1>1, SumEmpty
  <1> QED
    BY <1>2 DEF TotalAmount

LEMMA TotalInt ==
    ASSUME NEW S, WholeAmounts(S)
    PROVE  TotalAmount(S) \in Int
  <1> DEFINE f == [m \in S |-> m.amount]
  <1>1. IsFiniteSet(S) /\ f \in [S -> Int]
    BY DEF WholeAmounts
  <1>2. SumFunction(f) \in Int
    <2> HIDE DEF f
    <2> QED
      BY <1>1, SumInt
  <1> QED
    BY <1>2 DEF TotalAmount

LEMMA TotalOne ==
    ASSUME NEW x, x.amount \in Int
    PROVE  TotalAmount({x}) = x.amount
  <1> DEFINE f == [m \in {x} |-> m.amount]
  <1>1. f \in [{x} -> Int] /\ f[x] = x.amount
    OBVIOUS
  <1>2. SumFunction(f) = f[x]
    <2> HIDE DEF f
    <2> QED
      BY <1>1, SumSingleton
  <1> QED
    BY <1>1, <1>2 DEF TotalAmount

LEMMA TotalUnion ==
    ASSUME NEW S, WholeAmounts(S), NEW T, WholeAmounts(T), S \cap T = {}
    PROVE  TotalAmount(S \cup T) = TotalAmount(S) + TotalAmount(T)
  <1> DEFINE U == S \cup T
             f == [m \in U |-> m.amount]
             p == [m \in S |-> m.amount]
             q == [m \in T |-> m.amount]
  <1>1. IsFiniteSet(S) /\ IsFiniteSet(T) /\ f \in [U -> Int]
    BY DEF WholeAmounts
  <1>2. p = [x \in S |-> f[x]] /\ q = [x \in T |-> f[x]]
    OBVIOUS
  <1>3. SumFunction(f) = SumFunction(p) + SumFunction(q)
    <2>1. U = S \cup T
      OBVIOUS
    <2> HIDE DEF f, p, q, U
    <2> QED
      BY <1>1, <1>2, <2>1, SumUnion
  <1> QED
    BY <1>3 DEF TotalAmount

\* Units worth their parts add up to what the parts together are worth.
Worth(U, part) ==
    \A u \in U : WholeAmounts(part[u]) /\ TotalAmount(part[u]) = u.amount
PartsApart(U, part) == \A u, v \in U : u # v => part[u] \cap part[v] = {}
AllParts(s, part) == UNION {part[u] : u \in s}

LEMMA TotalOfParts ==
    ASSUME NEW U, WholeAmounts(U), NEW part, Worth(U, part), PartsApart(U, part)
    PROVE  WholeAmounts(AllParts(U, part)) /\ TotalAmount(AllParts(U, part)) = TotalAmount(U)
  <1> DEFINE Good(s) == /\ WholeAmounts(AllParts(s, part))
                        /\ TotalAmount(AllParts(s, part)) = TotalAmount(s)
             Wrong == {s \in SUBSET U : ~Good(s)}
  <1> SUFFICES ASSUME Wrong # {} PROVE FALSE
    OBVIOUS
  <1>1. PICK s \in Wrong : \A t \in Wrong : t \subseteq s => t = s
    <2>1. Wrong \in SUBSET (SUBSET U) /\ IsFiniteSet(U)
      BY DEF WholeAmounts
    <2> HIDE DEF Wrong
    <2> QED
      BY <2>1, SmallestSet DEF HasSmallest
  <1>2. s # {}
    <2> SUFFICES Good({})
      BY <1>1
    <2>1. AllParts({}, part) = {}
      BY DEF AllParts
    <2> QED
      BY <2>1, FS_EmptySet DEF WholeAmounts
  <1>3. PICK u \in s : TRUE
    BY <1>2
  <1> DEFINE t == s \ {u}
  <1>4. t \in SUBSET U /\ t \notin Wrong
    BY <1>1, <1>3
  <1>5. Good(t)
    BY <1>4
  <1>6. AllParts(s, part) = part[u] \cup AllParts(t, part)
    BY <1>3 DEF AllParts
  <1>7. part[u] \cap AllParts(t, part) = {} /\ WholeAmounts(part[u])
    BY <1>1, <1>3 DEF AllParts, PartsApart, Worth
  <1>8. WholeAmounts(t) /\ WholeAmounts({u}) /\ s = {u} \cup t /\ {u} \cap t = {}
    <2>1. IsFiniteSet(t) /\ IsFiniteSet({u})
      BY <1>4, FS_Subset, FS_Singleton DEF WholeAmounts
    <2> QED
      BY <1>1, <1>3, <2>1 DEF WholeAmounts
  <1> HIDE DEF t, Wrong
  <1>9. WholeAmounts(AllParts(s, part))
    <2>1. IsFiniteSet(part[u] \cup AllParts(t, part))
      BY <1>5, <1>7, FS_Union DEF WholeAmounts
    <2> QED
      BY <1>5, <1>6, <1>7, <2>1 DEF WholeAmounts
  <1>10. TotalAmount(AllParts(s, part)) = TotalAmount(part[u]) + TotalAmount(AllParts(t, part))
    BY <1>5, <1>6, <1>7, TotalUnion
  <1>11. TotalAmount(s) = TotalAmount({u}) + TotalAmount(t)
    BY <1>8, TotalUnion
  <1>12. TotalAmount({u}) = u.amount /\ TotalAmount(part[u]) = u.amount
    <2>1. u \in U /\ u.amount \in Int
      BY <1>1, <1>3, <1>8 DEF Wrong, WholeAmounts
    <2> QED
      BY <2>1, TotalOne DEF Worth
  <1>13. Good(s)
    BY <1>5, <1>9, <1>10, <1>11, <1>12
  <1> QED
    BY <1>1, <1>13 DEF Wrong

-----------------------------------------------------------------------------
(* Tolerances, scores, first rows                                          *)

LEMMA ToleranceIs ==
    ASSUME NEW a \in Int
    PROVE  /\ ToleranceFor(a) \in Int
           /\ ToleranceFor(a) >= 100
           /\ ToleranceFor(a) >= Abs(a) \div 1000
           /\ ToleranceFor(a) = 100 \/ ToleranceFor(a) = Abs(a) \div 1000
  <1> DEFINE b == Abs(a) \div 1000
             floor == 100
  <1>1. b \in Int /\ floor \in Int
    BY DEF Abs
  <1>2. ToleranceFor(a) = Max({floor, b})
    BY DEF ToleranceFor
  <1> HIDE DEF b, floor
  <1>3. /\ Max({floor, b}) \in Int
        /\ Max({floor, b}) >= floor /\ Max({floor, b}) >= b
        /\ Max({floor, b}) = floor \/ Max({floor, b}) = b
    BY <1>1, MaxOfTwo
  <1> QED
    BY <1>2, <1>3 DEF b, floor

LEMMA FirstIsIn ==
    ASSUME NEW rows, IsFiniteSet(rows), rows # {}, \A m \in rows : m.id \in Int
    PROVE  First(rows) \in rows
  <1> DEFINE S == {-m.id : m \in rows}
  <1>1. S \subseteq Int /\ S # {}
    OBVIOUS
  <1>2. IsFiniteSet(S)
    <2> DEFINE f == [m \in rows |-> -m.id]
    <2>1. f \in [rows -> S] /\ \A n \in S : \E m \in rows : f[m] = n
      OBVIOUS
    <2> HIDE DEF f, S
    <2> QED
      BY <2>1, ImageIsFinite
  <1>3. Max(S) \in S /\ \A n \in S : n <= Max(S)
    <2> HIDE DEF S
    <2> QED
      BY <1>1, <1>2, MaxIsGreatest
  <1>4. PICK m \in rows : Max(S) = -m.id
    BY <1>3
  <1>5. \A n \in rows : m.id <= n.id
    <2> TAKE n \in rows
    <2>1. -n.id <= -m.id
      BY <1>3, <1>4
    <2> QED
      BY <2>1
  <1> QED
    BY <1>5 DEF First

LEMMA FirstOfOne == ASSUME NEW m, m.id \in Int PROVE First({m}) = m
  BY DEF First

-----------------------------------------------------------------------------
(* The records, the groups and what the units of a pass are worth          *)

RecordsInv ==
    /\ IsFiniteSet(DOMAIN records)
    /\ \A r \in DOMAIN records : /\ r \in Int /\ records[r].id = r
                                 /\ records[r].source \in Source
                                 /\ records[r].amount \in Int /\ records[r].day \in Int

AheadEnough(g) ==
    g.proposed_by \in {"STAGE3_AGGREGATE", "STAGE4_ADJUSTMENT"} => g.score_margin >= MinMargin

\* The groups still open are Stage 1's and Stage 2's as they were handed on.
HandedInv ==
    /\ IsFiniteSet(groups)
    /\ \A g \in groups :
          /\ g \in MatchGroup /\ AheadEnough(g)
          /\ \/ HasBank(g.members)
             \/ /\ IsOpenGroup(g, Rows(g.members))
                /\ g.proposed_by \in {"STAGE1_EXACT", "STAGE2_CONSTRAINED"}

Types(p) == IF p = "STAGE4" THEN Nettable ELSE BankBound

Credit(u) ==
    \E r \in DOMAIN records :
        /\ u = [records |-> {r}, amount |-> Abs(records[r].amount)]
        /\ records[r].source = "BANK" /\ records[r].entity_type = "BANK_CREDIT"
Lone(u) ==
    \E r \in DOMAIN records :
        /\ u = [records |-> {r}, amount |-> IF pass = "STAGE4" THEN records[r].amount
                                           ELSE Abs(records[r].amount)]
        /\ GatewayOf(r, Types(pass))
Grouped(u) ==
    /\ u = [records |-> u.records, amount |-> Matched(Rows(u.records))]
    /\ u.records # {} /\ u.records \subseteq DOMAIN records \cap matched
    /\ ~HasBank(u.records)
    /\ OneCurrency(Rows(u.records)) /\ SlotsUnique(Rows(u.records))
    /\ \E r \in u.records : GatewayOf(r, Types(pass))

\* One side of a pass are credits, the other settlements, charges and groups.
AmountsInv ==
    /\ IsFiniteSet(items)
    /\ IF pass = "STAGE3_B"
       THEN (\A u \in items : Credit(u)) /\ (\A u \in Targets : Lone(u) \/ Grouped(u))
       ELSE (\A u \in Targets : Credit(u)) /\ (\A u \in items : Lone(u) \/ Grouped(u))

LEMMA RowsAre ==
    ASSUME RecordsInv, NEW rs \in SUBSET DOMAIN records
    PROVE  /\ IsFiniteSet(Rows(rs))
           /\ \A m \in Rows(rs) : /\ m.id \in rs /\ records[m.id] = m
                                  /\ m.id \in Int /\ m.amount \in Int
           /\ rs # {} => Rows(rs) # {}
  <1>1. IsFiniteSet(Rows(rs))
    <2> DEFINE f == [r \in rs |-> records[r]]
    <2>1. f \in [rs -> Rows(rs)] /\ \A m \in Rows(rs) : \E r \in rs : f[r] = m
      BY DEF Rows
    <2>2. IsFiniteSet(rs)
      BY FS_Subset DEF RecordsInv
    <2> HIDE DEF f
    <2> QED
      BY <2>1, <2>2, ImageIsFinite
  <1> QED
    BY <1>1 DEF Rows, RecordsInv

LEMMA FirstRow ==
    ASSUME RecordsInv, NEW rows, rows \subseteq Rows(DOMAIN records), rows # {}
    PROVE  /\ First(rows) \in rows /\ First(rows).amount \in Int
           /\ WholeAmounts(rows)
  <1>1. IsFiniteSet(Rows(DOMAIN records))
        /\ \A m \in Rows(DOMAIN records) : m.id \in Int /\ m.amount \in Int
    BY RowsAre
  <1>2. IsFiniteSet(rows)
    BY <1>1, FS_Subset
  <1>3. First(rows) \in rows
    BY <1>1, <1>2, FirstIsIn
  <1> QED
    BY <1>1, <1>2, <1>3 DEF WholeAmounts

LEMMA MatchedIsNat ==
    ASSUME RecordsInv, NEW rows, rows \subseteq Rows(DOMAIN records)
    PROVE  Matched(rows) \in Nat
  <1> DEFINE gross == {m \in rows : m.source = "GATEWAY"
                                    /\ m.entity_type \in GrossGatewayEntityTypes}
  <1>1. gross # {} => First(gross).amount \in Int
    <2>1. gross \subseteq Rows(DOMAIN records)
      OBVIOUS
    <2> HIDE DEF gross
    <2> QED
      BY <2>1, FirstRow
  <1>2. Matched(rows) = IF gross = {} THEN 0 ELSE Abs(First(gross).amount)
    BY DEF Matched
  <1> HIDE DEF gross
  <1> QED
    BY <1>1, <1>2 DEF Abs

LEMMA UnitsAreTyped ==
    ASSUME RecordsInv, NEW u, Credit(u) \/ Lone(u) \/ Grouped(u)
    PROVE  u \in Unit /\ u.amount \in Int
  <1>1. CASE Credit(u) \/ Lone(u)
    BY <1>1 DEF Credit, Lone, Unit, RecordsInv, Abs
  <1>2. CASE Grouped(u)
    <2>1. Rows(u.records) \subseteq Rows(DOMAIN records)
      BY <1>2 DEF Grouped, Rows
    <2>2. Matched(Rows(u.records)) \in Int
      BY <2>1, MatchedIsNat
    <2> QED
      BY <1>2, <2>2 DEF Grouped, Unit
  <1> QED
    BY <1>1, <1>2

-----------------------------------------------------------------------------
(* A pass starts with units worth their rows.                              *)

LEMMA GroupUnitsWorth ==
    ASSUME RecordsInv, HandedInv, GroupsInv, OneGroupPerRecord, NEW types, types = Types(pass)
    PROVE  IsFiniteSet(GroupUnits(types)) /\ \A u \in GroupUnits(types) : Grouped(u)
  <1> DEFINE H == {h \in groups : /\ ~HasBank(h.members)
                                  /\ \E r \in h.members : GatewayOf(r, types)
                                  /\ OneCurrency(Rows(h.members))}
             f == [h \in H |-> [records |-> h.members, amount |-> Abs(h.matched_amount)]]
  <1>1. f \in [H -> GroupUnits(types)] /\ \A u \in GroupUnits(types) : \E h \in H : f[h] = u
    BY DEF GroupUnits
  <1>2. IsFiniteSet(H)
    BY FS_Subset DEF HandedInv
  <1>3. IsFiniteSet(GroupUnits(types))
    <2> HIDE DEF f, H
    <2> QED
      BY <1>1, <1>2, ImageIsFinite
  <1>4. ASSUME NEW u \in GroupUnits(types) PROVE Grouped(u)
    <2>1. PICK h \in H : u = [records |-> h.members, amount |-> Abs(h.matched_amount)]
      BY <1>1
    <2>2. /\ SlotsUnique(Rows(h.members)) /\ h.matched_amount = Matched(Rows(h.members))
          /\ h.matched_amount \in Nat
      BY DEF HandedInv, IsOpenGroup, MatchGroup
    <2>3. Abs(h.matched_amount) = Matched(Rows(h.members))
      BY <2>2 DEF Abs
    <2>4. h.members # {} /\ h.members \subseteq DOMAIN records \cap matched
      BY DEF GroupsInv, OneGroupPerRecord
    <2> QED
      BY <2>1, <2>2, <2>3, <2>4 DEF Grouped
  <1> QED
    BY <1>3, <1>4

LEMMA SettlementUnitsWorth ==
    ASSUME RecordsInv, HandedInv, GroupsInv, OneGroupPerRecord, pass # "STAGE4"
    PROVE  IsFiniteSet(SettlementUnits) /\ \A u \in SettlementUnits : Lone(u) \/ Grouped(u)
  <1> DEFINE R == {s \in (DOMAIN records \ matched) \ Decoys : GatewayOf(s, BankBound)}
             lone == {[records |-> {r}, amount |-> Abs(records[r].amount)] : r \in R}
             f == [r \in R |-> [records |-> {r}, amount |-> Abs(records[r].amount)]]
  <1>1. f \in [R -> lone] /\ \A u \in lone : \E r \in R : f[r] = u
    OBVIOUS
  <1>2. IsFiniteSet(R)
    BY FS_Subset DEF RecordsInv
  <1>3. \A u \in lone : Lone(u)
    BY DEF Lone, Types
  <1>4. SettlementUnits = GroupUnits(BankBound) \cup lone
    BY DEF SettlementUnits
  <1>5. IsFiniteSet(GroupUnits(BankBound)) /\ \A u \in GroupUnits(BankBound) : Grouped(u)
    BY GroupUnitsWorth DEF Types
  <1> HIDE DEF f, R, lone
  <1>6. IsFiniteSet(lone)
    BY <1>1, <1>2, ImageIsFinite
  <1>7. IsFiniteSet(SettlementUnits)
    BY <1>4, <1>5, <1>6, FS_Union
  <1> QED
    BY <1>3, <1>4, <1>5, <1>7

LEMMA NetUnitsWorth ==
    ASSUME RecordsInv, HandedInv, GroupsInv, OneGroupPerRecord, pass = "STAGE4"
    PROVE  IsFiniteSet(NetUnits) /\ \A u \in NetUnits : Lone(u) \/ Grouped(u)
  <1> DEFINE R == {s \in DOMAIN records \ matched : GatewayOf(s, Nettable)}
             lone == {[records |-> {r}, amount |-> records[r].amount] : r \in R}
             f == [r \in R |-> [records |-> {r}, amount |-> records[r].amount]]
  <1>1. f \in [R -> lone] /\ \A u \in lone : \E r \in R : f[r] = u
    OBVIOUS
  <1>2. IsFiniteSet(R)
    BY FS_Subset DEF RecordsInv
  <1>3. \A u \in lone : Lone(u)
    BY DEF Lone, Types
  <1>4. NetUnits = GroupUnits(Nettable) \cup lone
    BY DEF NetUnits
  <1>5. IsFiniteSet(GroupUnits(Nettable)) /\ \A u \in GroupUnits(Nettable) : Grouped(u)
    BY GroupUnitsWorth DEF Types
  <1> HIDE DEF f, R, lone
  <1>6. IsFiniteSet(lone)
    BY <1>1, <1>2, ImageIsFinite
  <1>7. IsFiniteSet(NetUnits)
    BY <1>4, <1>5, <1>6, FS_Union
  <1> QED
    BY <1>3, <1>4, <1>5, <1>7

LEMMA BankCreditsWorth ==
    ASSUME RecordsInv
    PROVE  IsFiniteSet(BankCredits) /\ \A u \in BankCredits : Credit(u)
  <1> DEFINE R == {s \in DOMAIN records \ matched :
                       records[s].source = "BANK" /\ records[s].entity_type = "BANK_CREDIT"}
             f == [r \in R |-> [records |-> {r}, amount |-> Abs(records[r].amount)]]
  <1>1. f \in [R -> BankCredits] /\ \A u \in BankCredits : \E r \in R : f[r] = u
    BY DEF BankCredits
  <1>2. IsFiniteSet(R)
    BY FS_Subset DEF RecordsInv
  <1>3. IsFiniteSet(BankCredits)
    <2> HIDE DEF f, R
    <2> QED
      BY <1>1, <1>2, ImageIsFinite
  <1> QED
    BY <1>3 DEF BankCredits, Credit

LEMMA FreshAmounts ==
    ASSUME RecordsInv, HandedInv, GroupsInv, OneGroupPerRecord, Fresh(pass)
    PROVE  AmountsInv
  <1>1. Targets = waiting
    BY DEF Fresh, Targets
  <1>2. CASE pass = "STAGE3_A"
    BY <1>1, <1>2, SettlementUnitsWorth, BankCreditsWorth
       DEF AmountsInv, Fresh, ItemsOf, TargetsOf
  <1>3. CASE pass = "STAGE3_B"
    BY <1>1, <1>3, SettlementUnitsWorth, BankCreditsWorth
       DEF AmountsInv, Fresh, ItemsOf, TargetsOf
  <1>4. CASE pass = "STAGE4"
    BY <1>1, <1>4, NetUnitsWorth, BankCreditsWorth DEF AmountsInv, Fresh, ItemsOf, TargetsOf
  <1> QED
    BY <1>2, <1>3, <1>4 DEF Fresh, Stages

LEMMA AmountsStay ==
    ASSUME AmountsInv, UNCHANGED <<records, pass, items>>, Targets' = Targets,
           matched \subseteq matched'
    PROVE  AmountsInv'
  <1>1. \A rs : Rows(rs)' = Rows(rs)
    BY DEF Rows
  <1>2. \A u : Credit(u) => Credit(u)'
    BY DEF Credit
  <1>3. \A u : Lone(u) => Lone(u)'
    BY DEF Lone, GatewayOf, Types
  <1>4. \A u : Grouped(u) => Grouped(u)'
    BY <1>1 DEF Grouped, GatewayOf, Types, HasBank
  <1> QED
    BY <1>2, <1>3, <1>4 DEF AmountsInv

-----------------------------------------------------------------------------
(* What is found in a window stays found.                                  *)

Found(o) ==
    /\ o.limit = "NONE"
    /\ o.best \in Candidates(o.target)
    /\ BestOf(o.target, o.best, Candidates(o.target))
    /\ o.score = Score(o.target, o.best)
    /\ o.runner_up = RunnerUp(o.target, o.best, Candidates(o.target))
FoundNothing(o) ==
    /\ o.limit \in {"NONE", "CANDIDATE_POOL_TOO_LARGE", "WINDOW_TIMEOUT"}
    /\ o.best = {} /\ o.score = 0 /\ o.runner_up = 0
FoundInv ==
    \A o \in window : /\ o = Outcome(o.target, o.limit, o.best, o.score, o.runner_up)
                      /\ Found(o) \/ FoundNothing(o)

LEMMA FoundStays ==
    ASSUME UNCHANGED <<records, pass, items>>
    PROVE  \A o : Found(o) <=> Found(o)'
  <1>1. \A t : Pool(t)' = Pool(t)
    BY DEF Pool, Eligible, Currency, Day, Rows
  <1>2. \A t : Candidates(t)' = Candidates(t)
    BY <1>1 DEF Candidates
  <1> SUFFICES ASSUME NEW o PROVE Found(o) <=> Found(o)'
    OBVIOUS
  <1> DEFINE cs == Candidates(o.target)
  <1>3. cs' = cs
    BY <1>2
  <1>4. BestOf(o.target, o.best, cs)' <=> BestOf(o.target, o.best, cs)
    <2> HIDE DEF cs
    <2> QED
      BY <1>3 DEF BestOf, Ranked, LowerIds, Before, IsGroup, Gap
  <1>5. RunnerUp(o.target, o.best, cs)' = RunnerUp(o.target, o.best, cs)
    <2> HIDE DEF cs
    <2> QED
      BY <1>3 DEF RunnerUp, Score, Gap
  <1> QED
    BY <1>3, <1>4, <1>5 DEF Found, Score, Gap

LEMMA SearchFindsOrNot ==
    ASSUME NEW target \in waiting,
           TooLarge(target) \/ FindsBest(target) \/ FindsNothing(target) \/ TimesOut(target)
    PROVE  \E o : /\ o.target = target
                  /\ o = Outcome(o.target, o.limit, o.best, o.score, o.runner_up)
                  /\ Found(o) \/ FoundNothing(o)
                  /\ Searched(o)
                  /\ expired' \in {expired, TRUE}
  <1>1. CASE FindsBest(target)
    <2>1. PICK c \in Candidates(target) :
              /\ BestOf(target, c, Candidates(target))
              /\ Searched(Outcome(target, "NONE", c, Score(target, c),
                                  RunnerUp(target, c, Candidates(target))))
      BY <1>1 DEF FindsBest
    <2>2. PICK o : o = Outcome(target, "NONE", c, Score(target, c),
                               RunnerUp(target, c, Candidates(target)))
      OBVIOUS
    <2>3. /\ o.target = target /\ o.limit = "NONE" /\ o.best = c
          /\ o.score = Score(target, c) /\ o.runner_up = RunnerUp(target, c, Candidates(target))
      BY <2>2 DEF Outcome
    <2>4. Found(o) /\ o = Outcome(o.target, o.limit, o.best, o.score, o.runner_up)
      BY <2>1, <2>2, <2>3 DEF Found
    <2> QED
      BY <1>1, <2>1, <2>2, <2>3, <2>4 DEF FindsBest
  <1>2. CASE TooLarge(target) \/ FindsNothing(target) \/ TimesOut(target)
    <2>1. PICK limit \in {"NONE", "CANDIDATE_POOL_TOO_LARGE", "WINDOW_TIMEOUT"} :
              Searched(Outcome(target, limit, {}, 0, 0)) /\ expired' \in {expired, TRUE}
      BY <1>2 DEF TooLarge, FindsNothing, TimesOut
    <2>2. PICK o : o = Outcome(target, limit, {}, 0, 0)
      OBVIOUS
    <2>3. /\ o.target = target /\ o.limit = limit /\ o.best = {}
          /\ o.score = 0 /\ o.runner_up = 0
      BY <2>2 DEF Outcome
    <2> QED
      BY <2>1, <2>2, <2>3 DEF FoundNothing
  <1> QED
    BY <1>1, <1>2

-----------------------------------------------------------------------------
(* Scores                                                                  *)

LEMMA CandidatesAre ==
    ASSUME RecordsInv, AmountsInv, NEW t \in Targets
    PROVE  /\ t.amount \in Int
           /\ IsFiniteSet(Candidates(t))
           /\ \A c \in Candidates(t) : /\ WholeAmounts(c)
                                       /\ Gap(t, c) \in Nat
                                       /\ Gap(t, c) <= ToleranceFor(t.amount)
  <1>1. \A u \in items \cup Targets : u.amount \in Int
    BY UnitsAreTyped DEF AmountsInv
  <1>2. \A c \in Candidates(t) : c \in SUBSET items
    BY CandidatesAreItems
  <1>3. IsFiniteSet(Candidates(t))
    <2>1. IsFiniteSet(SUBSET items)
      BY FS_SUBSET DEF AmountsInv
    <2> QED
      BY <1>2, <2>1, FS_Subset
  <1>4. ASSUME NEW c \in Candidates(t)
        PROVE  WholeAmounts(c) /\ Gap(t, c) \in Nat /\ Gap(t, c) <= ToleranceFor(t.amount)
    <2>1. WholeAmounts(c)
      BY <1>1, <1>2, FS_Subset DEF AmountsInv, WholeAmounts
    <2>2. TotalAmount(c) \in Int /\ t.amount \in Int
      BY <1>1, <2>1, TotalInt
    <2> QED
      BY <2>1, <2>2 DEF Candidates, Gap, Abs
  <1> QED
    BY <1>1, <1>3, <1>4

LEMMA ScoreInRange ==
    ASSUME RecordsInv, AmountsInv, NEW t \in Targets, NEW c \in Candidates(t)
    PROVE  Score(t, c) \in 500..1000
  <1> DEFINE gap == Gap(t, c)
             tol == ToleranceFor(t.amount)
             q == (500 * gap) \div tol
  <1>1. gap \in Nat /\ gap <= tol /\ tol \in Int /\ tol > 0
    BY CandidatesAre, ToleranceIs
  <1>2. q \in 0..500
    <2> HIDE DEF gap, tol
    <2>1. 0 <= gap /\ gap \in Int
      BY <1>1
    <2> QED
      BY <1>1, <2>1, PartOf
  <1>3. Score(t, c) = 1000 - q
    BY DEF Score
  <1> HIDE DEF q
  <1> QED
    BY <1>2, <1>3

LEMMA CloserScoresHigher ==
    ASSUME RecordsInv, AmountsInv, NEW t \in Targets,
           NEW c \in Candidates(t), NEW d \in Candidates(t), Gap(t, c) <= Gap(t, d)
    PROVE  Score(t, d) <= Score(t, c)
  <1> DEFINE a == 500 * Gap(t, c)
             b == 500 * Gap(t, d)
             tol == ToleranceFor(t.amount)
             p == a \div tol
             q == b \div tol
  <1>1. a \in Int /\ b \in Int /\ a <= b /\ tol \in Int /\ tol > 0
    BY CandidatesAre, ToleranceIs
  <1>2. /\ p \in Int /\ p * tol <= a /\ a < p * tol + tol
        /\ q \in Int /\ q * tol <= b /\ b < q * tol + tol
    <2> HIDE DEF a, b, tol
    <2> QED
      BY <1>1, Quotient
  <1>3. p <= q
    <2> HIDE DEF a, b, tol, p, q
    <2> SUFFICES ASSUME q + 1 <= p PROVE FALSE
      BY <1>2
    <2>1. (q + 1) * tol <= p * tol
      BY <1>1, <1>2
    <2>2. (q + 1) * tol = q * tol + tol
      BY <1>1, <1>2
    <2> QED
      BY <1>1, <1>2, <2>1, <2>2
  <1>4. Score(t, c) = 1000 - p /\ Score(t, d) = 1000 - q
    BY DEF Score
  <1> HIDE DEF p, q
  <1> QED
    BY <1>2, <1>3, <1>4

\* The runner-up of what was found is the best of its rivals.
LEMMA RunnerUpIsBest ==
    ASSUME RecordsInv, AmountsInv, NEW o, o.target \in Targets, Found(o)
    PROVE  /\ o.score \in 500..1000
           /\ o.runner_up \in 0..1000
           /\ o.runner_up <= o.score
           /\ \A c \in Candidates(o.target) \ {o.best} : Score(o.target, c) <= o.runner_up
  <1> DEFINE t == o.target
             rivals == Candidates(t) \ {o.best}
             scores == {Score(t, d) : d \in rivals}
  <1>1. o.best \in Candidates(t) /\ o.score = Score(t, o.best)
    BY DEF Found
  <1>2. o.score \in 500..1000
    BY <1>1, ScoreInRange
  <1>3. CASE Candidates(t) = {o.best}
    BY <1>2, <1>3 DEF Found, RunnerUp
  <1>4. CASE Candidates(t) # {o.best}
    <2>1. o.runner_up = Max(scores)
      BY <1>4 DEF Found, RunnerUp
    <2>2. scores \subseteq 500..1000
      BY ScoreInRange
    <2>3. scores # {}
      BY <1>1, <1>4
    <2>4. IsFiniteSet(scores)
      <3> DEFINE f == [d \in rivals |-> Score(t, d)]
      <3>1. f \in [rivals -> scores] /\ \A n \in scores : \E d \in rivals : f[d] = n
        OBVIOUS
      <3>2. IsFiniteSet(rivals)
        BY CandidatesAre, FS_Subset
      <3> HIDE DEF f, rivals, scores
      <3> QED
        BY <3>1, <3>2, ImageIsFinite
    <2>5. Max(scores) \in scores /\ \A n \in scores : n <= Max(scores)
      <3>1. scores \subseteq Int
        BY <2>2
      <3> HIDE DEF scores
      <3> QED
        BY <2>3, <2>4, <3>1, MaxIsGreatest
    <2>6. \A d \in rivals : Score(t, d) <= o.score
      <3> SUFFICES ASSUME NEW d \in rivals PROVE Score(t, d) <= o.score
        OBVIOUS
      <3>1. Gap(t, o.best) <= Gap(t, d)
        <4>1. Ranked(t, o.best, d)
          BY DEF Found, BestOf
        <4>2. Gap(t, o.best) \in Nat /\ Gap(t, d) \in Nat
          BY <1>1, CandidatesAre
        <4> QED
          BY <4>1, <4>2 DEF Ranked
      <3> QED
        BY <1>1, <3>1, CloserScoresHigher
    <2>7. o.runner_up \in scores /\ \A n \in scores : n <= o.runner_up
      BY <2>1, <2>5
    <2>8. o.runner_up \in 500..1000 /\ o.runner_up <= o.score
      <3>1. PICK d \in rivals : o.runner_up = Score(t, d)
        BY <2>7
      <3>2. o.runner_up <= o.score
        BY <2>6, <3>1
      <3>3. o.runner_up \in 500..1000
        BY <3>1, ScoreInRange
      <3> QED
        BY <3>2, <3>3
    <2>9. \A c \in rivals : Score(t, c) <= o.runner_up
      BY <2>7
    <2> QED
      BY <1>2, <2>8, <2>9
  <1> QED
    BY <1>3, <1>4

-----------------------------------------------------------------------------
(* The invariant                                                           *)

TracesInv ==
    /\ expired \in BOOLEAN
    /\ \A e \in exceptions : e.stage \in Stages /\ e.about \cup e.aside \subseteq DOMAIN records

SumsInv ==
    /\ RecordsInv
    /\ HandedInv
    /\ AmountsInv
    /\ FoundInv
    /\ TracesInv

AllInv == AggregationInv /\ NothingDroppedInv /\ SumsInv

LEMMA InitSums == Init => SumsInv
  <1> SUFFICES ASSUME Init PROVE SumsInv
    OBVIOUS
  <1>1. PICK input \in Inputs : records = input.records /\ groups = input.groups
    BY DEF Init
  <1>2. WellFormed(input)
    BY AggregationAssumption
  <1>3. RecordsInv
    BY <1>1, <1>2 DEF WellFormed, RecordsInv
  <1>4. HandedInv
    <2>1. ASSUME NEW g \in groups
          PROVE  /\ g \in Handed(records)
                 /\ ~HasBank(g.members) => IsOpenGroup(g, Rows(g.members))
      <3>1. g \in Handed(records)
        BY <1>1, <1>2 DEF WellFormed
      <3>2. (\A m \in Rows(g.members) : m.source # "BANK") => IsOpenGroup(g, Rows(g.members))
        BY <1>1, <1>2 DEF WellFormed, Rows
      <3> QED
        BY <3>1, <3>2 DEF HasBank, Rows
    <2>2. IsFiniteSet(groups)
      BY <1>1, <1>2 DEF WellFormed
    <2> QED
      BY <2>1, <2>2 DEF HandedInv, AheadEnough, Handed, MatchGroup, ProposedBy
  <1>5. AggregationInv /\ Fresh(pass)
    BY InitInv DEF Init, Fresh, Stages
  <1>6. AmountsInv
    BY <1>3, <1>4, <1>5, FreshAmounts DEF AggregationInv
  <1> QED
    BY <1>3, <1>4, <1>6 DEF SumsInv, FoundInv, TracesInv, Init

LEMMA HandedStays ==
    ASSUME HandedInv, UNCHANGED <<records, groups>>
    PROVE  HandedInv'
  <1>1. \A g : /\ HasBank(g.members)' <=> HasBank(g.members)
               /\ Rows(g.members)' = Rows(g.members)
               /\ g \in MatchGroup' <=> g \in MatchGroup
    BY DEF HasBank, Rows, MatchGroup
  <1> QED
    BY <1>1 DEF HandedInv, AheadEnough

LEMMA SearchKeepsSums ==
    ASSUME AllInv, Search
    PROVE  SumsInv'
  <1>1. PICK target \in waiting :
            TooLarge(target) \/ FindsBest(target) \/ FindsNothing(target) \/ TimesOut(target)
    BY DEF Search
  <1>2. PICK o : /\ o.target = target
                 /\ o = Outcome(o.target, o.limit, o.best, o.score, o.runner_up)
                 /\ Found(o) \/ FoundNothing(o)
                 /\ Searched(o)
                 /\ expired' \in {expired, TRUE}
    BY <1>1, SearchFindsOrNot
  <1>3. /\ UNCHANGED <<records, groups, matched, exceptions, pass, items>>
        /\ window' = window \cup {o}
        /\ waiting' = waiting \ {target}
    BY <1>2 DEF Searched
  <1>4. Targets' = Targets
    BY <1>2, <1>3 DEF Targets
  <1>5. AmountsInv'
    BY <1>3, <1>4, AmountsStay DEF AllInv, SumsInv
  <1>6. FoundInv'
    <2>1. \A p : /\ Found(p) => Found(p)'
                 /\ FoundNothing(p) => FoundNothing(p)'
      BY <1>3, FoundStays DEF FoundNothing
    <2> QED
      BY <1>2, <1>3, <2>1 DEF AllInv, SumsInv, FoundInv, Outcome
  <1>7. RecordsInv'
    BY <1>3 DEF AllInv, SumsInv, RecordsInv
  <1>8. HandedInv'
    BY <1>3, HandedStays DEF AllInv, SumsInv
  <1>9. TracesInv'
    BY <1>2, <1>3 DEF AllInv, SumsInv, TracesInv
  <1> QED
    BY <1>5, <1>6, <1>7, <1>8, <1>9 DEF SumsInv

\* The group an answer makes is typed, with its margin, and has its bank leg.
LEMMA EmittedIsTyped ==
    ASSUME AllInv, NEW o \in pending, Emits(o), EmitGroup(o)
    PROVE  /\ MergedGroup(o) \in MatchGroup
           /\ MergedGroup(o).score_margin >= MinMargin
           /\ HasBank(MergedGroup(o).members)
  <1> DEFINE g == MergedGroup(o)
             bank == {m \in Rows(UNION Parts(o)) : m.source = "BANK"}
             f == [m \in bank |-> Abs(m.amount)]
  <1>1. g = [members |-> UNION Parts(o), matched_amount |-> SumFunction(f),
             proposed_by |-> IF pass = "STAGE4" THEN "STAGE4_ADJUSTMENT" ELSE "STAGE3_AGGREGATE",
             score_margin |-> o.score - o.runner_up]
    BY DEF MergedGroup
  <1>2. o \in window /\ o.target \in Targets /\ o.best # {} /\ pass # "DONE"
    BY EmitsSomething DEF AllInv, AggregationInv, WindowInv, NothingDroppedInv, Targets
  <1>3. UNION Parts(o) \in SUBSET DOMAIN records
    <2>1. GroupsInv' /\ g \in groups' /\ records' = records
      BY EmitKeepsPartition DEF AllInv, EmitGroup, Concluded
    <2> QED
      BY <1>1, <2>1 DEF GroupsInv
  <1>4. SumFunction(f) \in Nat
    <2>1. IsFiniteSet(bank) /\ f \in [bank -> Nat]
      <3>1. /\ IsFiniteSet(Rows(UNION Parts(o)))
            /\ \A m \in Rows(UNION Parts(o)) : m.amount \in Int
        BY <1>3, RowsAre DEF AllInv, SumsInv
      <3>2. IsFiniteSet(bank)
        BY <3>1, FS_Subset
      <3>3. \A m \in bank : Abs(m.amount) \in Nat
        <4>1. \A n \in Int : Abs(n) \in Nat
          BY DEF Abs
        <4> QED
          BY <3>1, <4>1
      <3> HIDE DEF bank
      <3> QED
        BY <3>2, <3>3
    <2> HIDE DEF f, bank
    <2> QED
      BY <2>1, SumNat
  <1>5. o.score - o.runner_up \in 0..1000 /\ o.score - o.runner_up >= MinMargin
    <2>1. Found(o)
      BY <1>2 DEF AllInv, SumsInv, FoundInv, FoundNothing
    <2>2. o.score \in 500..1000 /\ o.runner_up \in 0..1000 /\ o.runner_up <= o.score
      BY <1>2, <2>1, RunnerUpIsBest DEF AllInv, SumsInv
    <2> DEFINE s == o.score
               r == o.runner_up
    <2>3. s \in 500..1000 /\ r \in 0..1000 /\ r <= s
      BY <2>2
    <2> HIDE DEF s, r
    <2>4. s - r \in 0..1000
      BY <2>3
    <2>5. ClearsBar(o)
      BY DEF Emits, Accepted, Promoted
    <2> QED
      BY <2>4, <2>5 DEF ClearsBar, s, r
  <1>6. HasBank(UNION Parts(o))
    BY <1>2, LooseHasBank, PartsAre DEF AllInv, HasBank
  <1> DEFINE members == UNION Parts(o)
             amount == SumFunction(f)
             stage == IF pass = "STAGE4" THEN "STAGE4_ADJUSTMENT" ELSE "STAGE3_AGGREGATE"
             margin == o.score - o.runner_up
  <1>7. stage \in ProposedBy
    BY DEF ProposedBy
  <1>8. /\ members \in SUBSET DOMAIN records /\ amount \in Nat /\ margin \in 0..1000
        /\ margin >= MinMargin
        /\ g = [members |-> members, matched_amount |-> amount, proposed_by |-> stage,
                score_margin |-> margin]
        /\ HasBank(members)
    BY <1>1, <1>3, <1>4, <1>5, <1>6
  <1> HIDE DEF g, members, amount, stage, margin
  <1>9. g \in MatchGroup /\ g.members = members /\ g.score_margin = margin
    BY <1>7, <1>8 DEF MatchGroup
  <1> QED
    BY <1>8, <1>9 DEF g

LEMMA ConcludeKeepsSums ==
    ASSUME AllInv, waiting = {}, NEW o \in pending,
           EmitGroup(o) \/ DeclineOverlap(o) \/ DeclineUnsearched(o) \/ DeclineWeak(o)
    PROVE  SumsInv'
  <1>1. /\ UNCHANGED <<records, pass, items, waiting, expired, window>>
        /\ matched \subseteq matched'
    BY DEF EmitGroup, DeclineOverlap, DeclineUnsearched, DeclineWeak, DeclineWith,
           Concluded, search
  <1>2. Targets' = Targets
    BY <1>1 DEF Targets
  <1>3. RecordsInv' /\ AmountsInv'
    BY <1>1, <1>2, AmountsStay DEF AllInv, SumsInv, RecordsInv
  <1>4. FoundInv'
    BY <1>1, FoundStays DEF AllInv, SumsInv, FoundInv, FoundNothing
  <1>5. HandedInv'
    <2>1. CASE groups' = groups
      BY <1>1, <2>1, HandedStays DEF AllInv, SumsInv
    <2>2. CASE EmitGroup(o)
      <3>1. groups' \subseteq groups \cup {MergedGroup(o)} /\ Emits(o)
        BY <2>2 DEF EmitGroup
      <3>2. IsFiniteSet(groups')
        <4>1. IsFiniteSet(groups \cup {MergedGroup(o)})
          BY FS_AddElement DEF AllInv, SumsInv, HandedInv
        <4> QED
          BY <3>1, <4>1, FS_Subset
      <3>3. /\ MergedGroup(o) \in MatchGroup /\ AheadEnough(MergedGroup(o))
            /\ HasBank(MergedGroup(o).members)
        BY <2>2, <3>1, EmittedIsTyped DEF AheadEnough
      <3> HIDE DEF EmitGroup
      <3>4. \A g \in groups' :
                /\ g \in MatchGroup /\ AheadEnough(g)
                /\ \/ HasBank(g.members)
                   \/ /\ IsOpenGroup(g, Rows(g.members))
                      /\ g.proposed_by \in {"STAGE1_EXACT", "STAGE2_CONSTRAINED"}
        BY <3>1, <3>3 DEF AllInv, SumsInv, HandedInv
      <3>5. \A g : /\ HasBank(g.members)' <=> HasBank(g.members)
                   /\ Rows(g.members)' = Rows(g.members)
                   /\ g \in MatchGroup' <=> g \in MatchGroup
        BY <1>1 DEF HasBank, Rows, MatchGroup
      <3> QED
        BY <3>2, <3>4, <3>5 DEF HandedInv, AheadEnough
    <2> QED
      BY <2>1, <2>2 DEF DeclineOverlap, DeclineUnsearched, DeclineWeak, DeclineWith
  <1>6. TracesInv'
    <2>1. CASE exceptions' = exceptions
      BY <1>1, <2>1 DEF AllInv, SumsInv, TracesInv
    <2>2. ASSUME NEW reason, NEW aside, aside \subseteq DOMAIN records,
                 DeclineWith(o, reason, aside)
          PROVE  TracesInv'
      <3>1. pass \in Stages /\ o.target.records \subseteq DOMAIN records
        BY DEF AllInv, AggregationInv, WindowInv, NothingDroppedInv, UnitsInv, Targets
      <3> QED
        BY <1>1, <2>2, <3>1 DEF DeclineWith, AllInv, SumsInv, TracesInv
    <2>3. UNION {i.records : i \in {j \in items : \E p, q \in window :
                                       p # q /\ j \in p.best \cap q.best}} \subseteq DOMAIN records
      BY DEF AllInv, AggregationInv, UnitsInv
    <2> QED
      BY <2>1, <2>2, <2>3 DEF EmitGroup, DeclineOverlap, DeclineUnsearched, DeclineWeak
  <1> QED
    BY <1>3, <1>4, <1>5, <1>6 DEF SumsInv

LEMMA FreshAmountsNext ==
    RecordsInv' /\ HandedInv' /\ GroupsInv' /\ OneGroupPerRecord' /\ Fresh(pass)' => AmountsInv'
  <1>1. RecordsInv /\ HandedInv /\ GroupsInv /\ OneGroupPerRecord /\ Fresh(pass) => AmountsInv
    BY FreshAmounts
  <1> QED
    BY <1>1, PTL

LEMMA StartPassKeepsSums ==
    ASSUME AllInv, StartPass
    PROVE  SumsInv'
  <1>1. UNCHANGED <<records, groups, matched, exceptions>> /\ expired' = FALSE /\ window' = {}
    BY DEF StartPass
  <1>2. RecordsInv' /\ HandedInv' /\ FoundInv' /\ TracesInv'
    BY <1>1, HandedStays DEF AllInv, SumsInv, RecordsInv, FoundInv, TracesInv
  <1>3. CASE pass' = "DONE"
    <2>1. items' = {} /\ Targets' = {}
      BY <1>3 DEF StartPass, Targets
    <2>2. AmountsInv'
      BY <1>3, <2>1, FS_EmptySet DEF AmountsInv
    <2> QED
      BY <1>2, <2>2 DEF SumsInv
  <1>4. CASE pass' # "DONE"
    <2>1. pass' \in Stages
      BY <1>4 DEF StartPass, NextPass, Stages
    <2>2. /\ items' = ItemsOf(pass') /\ waiting' = TargetsOf(pass')
          /\ window' = {} /\ pending' = {}
      BY <1>4 DEF StartPass
    <2>3. ItemsOf(pass') = ItemsOf(pass)' /\ TargetsOf(pass') = TargetsOf(pass)'
      BY <1>1 DEF ItemsOf, TargetsOf, SettlementUnits, NetUnits, BankCredits, GroupUnits,
                  GatewayOf, Decoys, Twins, HasBank, Rows
    <2>4. Fresh(pass)'
      BY <2>1, <2>2, <2>3 DEF Fresh
    <2>5. GroupsInv' /\ OneGroupPerRecord'
      BY <1>1 DEF AllInv, AggregationInv, GroupsInv, OneGroupPerRecord
    <2>6. AmountsInv'
      BY <1>2, <2>4, <2>5, FreshAmountsNext
    <2> QED
      BY <1>2, <2>6 DEF SumsInv
  <1> QED
    BY <1>3, <1>4

LEMMA NextAll == AllInv /\ [Next]_vars => AllInv'
  <1> SUFFICES ASSUME AllInv, [Next]_vars PROVE AllInv'
    OBVIOUS
  <1>1. AggregationInv' /\ NothingDroppedInv'
    BY NextInv, NothingDroppedStep DEF AllInv
  <1>2. CASE Search
    BY <1>1, <1>2, SearchKeepsSums DEF AllInv
  <1>3. CASE Conclude
    BY <1>1, <1>3, ConcludeKeepsSums DEF AllInv, Conclude
  <1>4. CASE StartPass
    BY <1>1, <1>4, StartPassKeepsSums DEF AllInv
  <1>5. CASE UNCHANGED vars
    <2>1. /\ UNCHANGED <<records, groups, matched, exceptions, pass, items, expired, window>>
          /\ Targets' = Targets
      BY <1>5 DEF vars, search, Targets
    <2>2. RecordsInv' /\ HandedInv' /\ TracesInv' /\ AmountsInv'
      BY <2>1, AmountsStay, HandedStays DEF AllInv, SumsInv, RecordsInv, TracesInv
    <2>3. FoundInv'
      BY <2>1, FoundStays DEF AllInv, SumsInv, FoundInv, FoundNothing
    <2> QED
      BY <1>1, <2>2, <2>3 DEF AllInv, SumsInv
  <1> QED
    BY <1>2, <1>3, <1>4, <1>5 DEF Next

LEMMA InitAll == Init => AllInv
  BY InitInv, InitSums DEF AllInv, NothingDroppedInv, Concluding, Init

\* Every variable of Stages 3 and 4 keeps its type for any ledger: scores and
\* margins stay within 0..1000, a combination found scores at least 500 and no
\* runner-up beats it, and a group a search made is the minimum margin ahead.
THEOREM AggregationTypeOK == Spec => []TypeOK
  <1>1. AllInv => TypeOK
    <2> SUFFICES ASSUME AllInv PROVE TypeOK
      OBVIOUS
    <2>1. \A u \in items \cup Targets : u \in Unit
      BY UnitsAreTyped DEF AllInv, SumsInv, AmountsInv
    <2>2. ASSUME NEW o \in window
          PROVE  o \in Outcomes /\ o.runner_up <= o.score /\ (o.best # {} => o.score >= 500)
      <3>1. o.target \in Targets /\ o.best \in SUBSET items
        BY DEF Targets, AllInv, AggregationInv, WindowInv
      <3>2. o = Outcome(o.target, o.limit, o.best, o.score, o.runner_up)
            /\ (Found(o) \/ FoundNothing(o))
        BY DEF AllInv, SumsInv, FoundInv
      <3>3. CASE Found(o)
        <4>1. o.score \in 500..1000 /\ o.runner_up \in 0..1000 /\ o.runner_up <= o.score
          BY <3>1, <3>3, RunnerUpIsBest DEF AllInv, SumsInv
        <4>2. o.score \in 0..1000 /\ o.score >= 500 /\ o.limit = "NONE"
          <5> DEFINE s == o.score
          <5>1. s \in 500..1000
            BY <4>1
          <5> HIDE DEF s
          <5>2. s \in 0..1000 /\ s >= 500
            BY <5>1
          <5>3. o.limit = "NONE"
            BY <3>3, Zenon DEF Found
          <5> QED
            BY <5>2, <5>3 DEF s
        <4> QED
          BY <2>1, <3>1, <3>2, <4>1, <4>2 DEF Outcome, Outcomes
      <3>4. CASE FoundNothing(o)
        <4>1. o.score \in 0..1000 /\ o.runner_up \in 0..1000 /\ o.runner_up <= o.score
          BY <3>4 DEF FoundNothing
        <4> QED
          BY <2>1, <3>1, <3>2, <3>4, <4>1 DEF Outcome, Outcomes, FoundNothing
      <3> QED
        BY <3>2, <3>3, <3>4
    <2>3. \A g \in groups :
              /\ g \in MatchGroup
              /\ g.proposed_by \in {"STAGE3_AGGREGATE", "STAGE4_ADJUSTMENT"} =>
                    g.score_margin >= MinMargin
      BY DEF AllInv, SumsInv, HandedInv, AheadEnough
    <2>4. matched \subseteq DOMAIN records
      BY DEF AllInv, AggregationInv, OneGroupPerRecord, GroupsInv
    <2> QED
      BY <2>1, <2>2, <2>3, <2>4
         DEF TypeOK, Targets, AllInv, AggregationInv, WindowInv, SumsInv, TracesInv
  <1> QED
    BY <1>1, InitAll, NextAll, PTL DEF Spec

-----------------------------------------------------------------------------
(* AcceptedBeatsEveryRival                                                 *)

BeatsRivals ==
    \A o \in pending \ pending' : Emits(o) =>
        \A c \in Candidates(o.target) \ {o.best} : Score(o.target, c) + MinMargin <= o.score

\* What becomes a group had every rival of its window at least the minimum
\* margin behind it, for any number of candidates and amounts.
THEOREM NoRivalIsClose == Spec => AcceptedBeatsEveryRival
  <1>1. AllInv => BeatsRivals
    <2> SUFFICES ASSUME AllInv, NEW o \in pending, Emits(o),
                        NEW c \in Candidates(o.target) \ {o.best}
                 PROVE  Score(o.target, c) + MinMargin <= o.score
      BY DEF BeatsRivals
    <2>1. o \in window /\ o.target \in Targets /\ o.best # {}
      BY EmitsSomething DEF Targets, AllInv, AggregationInv, WindowInv
    <2>2. Found(o)
      BY <2>1 DEF AllInv, SumsInv, FoundInv, FoundNothing
    <2>3. /\ o.score \in 500..1000 /\ o.runner_up \in 0..1000
          /\ Score(o.target, c) <= o.runner_up /\ Score(o.target, c) \in 500..1000
      BY <2>1, <2>2, RunnerUpIsBest, ScoreInRange DEF AllInv, SumsInv
    <2>4. o.score - o.runner_up >= 50
      BY DEF Emits, Accepted, Promoted, ClearsBar, MinMargin
    <2> DEFINE a == Score(o.target, c)
               b == o.runner_up
               d == o.score
    <2>5. a \in 500..1000 /\ b \in 0..1000 /\ d \in 500..1000 /\ a <= b
      BY <2>3
    <2>6. d - b >= 50
      BY <2>4
    <2> HIDE DEF a, b, d
    <2>7. a + 50 <= d
      BY <2>5, <2>6
    <2> QED
      BY <2>7 DEF a, d, MinMargin
  <1>2. AllInv /\ [Next]_vars => [BeatsRivals]_vars
    BY <1>1
  <1> QED
    BY <1>2, InitAll, NextAll, PTL DEF Spec, AcceptedBeatsEveryRival, BeatsRivals

-----------------------------------------------------------------------------
(* VerifiedMeansBanked                                                     *)

LEMMA SmallWithinTolerance ==
    ASSUME NEW a \in Int, a > 0, a <= ToleranceFor(a)
    PROVE  a <= 100
  <1>1. ToleranceFor(a) = 100 \/ ToleranceFor(a) = Abs(a) \div 1000
    BY ToleranceIs
  <1>2. Abs(a) = a
    BY DEF Abs
  <1>3. (a \div 1000) * 1000 <= a /\ a \div 1000 \in Int
    BY Quotient
  <1> DEFINE t == ToleranceFor(a)
             q == a \div 1000
  <1>4. t = 100 \/ t = q
    BY <1>1, <1>2
  <1>5. a <= t /\ q * 1000 <= a /\ q \in Int
    BY <1>3
  <1> HIDE DEF t, q
  <1> QED
    BY <1>4, <1>5

\* A settlement beside its ledger amount stands for itself in the equation.
LEMMA PairAlone ==
    ASSUME NEW l, NEW w, w.id \in Int, w.amount \in Int,
           l.source = "LEDGER", w.source = "GATEWAY",
           l.entity_type = "PAYMENT", w.entity_type = "GATEWAY_SETTLEMENT",
           Conserves({l, w}), ~Contradicts(w)
    PROVE  w.amount <= 100
  <1> DEFINE rows == {l, w}
  <1>1. Role(l) = "GROSS" /\ Role(w) = "GROSS" /\ l # w
    BY DEF Role
  <1>2. ~PureOutflow(rows)
    BY <1>1 DEF PureOutflow, OutflowRoles
  <1>3. LedgerGross(l) /\ ~LedgerGross(w)
    BY <1>1 DEF LedgerGross
  <1>4. Effective(rows) = {w}
    BY <1>1, <1>3 DEF Effective, BreakoutRoles
  <1>5. Against(rows) = {w}
    <2>1. {m \in rows : Role(m) = "CREDIT"} = {}
      BY <1>1
    <2>2. {m \in Effective(rows) : Role(m) = "GROSS"} = {w}
      BY <1>1, <1>4
    <2>3. First({w}) = w
      BY FirstOfOne
    <2> QED
      BY <2>1, <2>2, <2>3 DEF Against
  <1>6. Abs(TotalAmount({}) - TotalAmount({w})) <= ToleranceFor(TotalAmount({w}))
    <2>1. Effective(rows) \ Against(rows) = {}
      BY <1>4, <1>5
    <2> QED
      BY <1>2, <1>5, <2>1 DEF Conserves
  <1>7. TotalAmount({w}) = w.amount /\ TotalAmount({}) = 0
    BY TotalOne, TotalEmpty
  <1>8. w.amount > 0
    BY <1>1 DEF Contradicts
  <1>9. Abs(0 - w.amount) = w.amount
    BY <1>8 DEF Abs
  <1> QED
    BY <1>6, <1>7, <1>8, <1>9, SmallWithinTolerance

\* A scored group that passes the verifier has its bank leg, whatever the
\* amounts, tolerances and margins, but for a pure outflow and for a
\* settlement within the tolerance's floor.
THEOREM VerifiedIsBanked == Spec => []VerifiedMeansBanked
  <1>1. AllInv => VerifiedMeansBanked
    <2> SUFFICES ASSUME AllInv, NEW g \in groups, g.proposed_by # "STAGE1_EXACT",
                        Verdict(g) = "PASSED", ~HasBank(g.members),
                        ~PureOutflow(Rows(g.members))
                 PROVE  \A m \in Rows(g.members) : m.source = "GATEWAY" => m.amount <= 100
      BY DEF VerifiedMeansBanked
    <2> DEFINE rows == Rows(g.members)
    <2>1. g.proposed_by = "STAGE2_CONSTRAINED" /\ IsPair(rows)
      BY DEF AllInv, SumsInv, HandedInv, IsOpenGroup
    <2>2. PICK l \in rows, w \in rows :
              /\ rows = {l, w}
              /\ l.source = "LEDGER" /\ w.source = "GATEWAY"
              /\ <<l.entity_type, w.entity_type>> \in Counterparts
      BY <2>1 DEF IsPair
    <2>3. w.id \in Int /\ w.amount \in Int
      BY RowsAre DEF AllInv, AggregationInv, GroupsInv, SumsInv
    <2>4. Conserves(rows) /\ ~Contradicts(w)
      BY <2>1 DEF Verdict, VerifyMatchGroup, VerifyStage2To5
    <2>5. CASE l.entity_type = "PAYMENT" /\ w.entity_type = "GATEWAY_SETTLEMENT"
      BY <2>2, <2>3, <2>4, <2>5, PairAlone
    <2>6. CASE l.entity_type = w.entity_type
               /\ w.entity_type \in {"REFUND", "CHARGEBACK", "REVERSAL"}
      <3>1. Role(l) = w.entity_type /\ Role(w) = w.entity_type
        BY <2>6 DEF Role
      <3>2. PureOutflow(rows)
        BY <2>2, <2>6, <3>1 DEF PureOutflow, OutflowRoles
      <3> QED
        BY <3>2
    <2> QED
      BY <2>2, <2>5, <2>6 DEF Counterparts
  <1> QED
    BY <1>1, InitAll, NextAll, PTL DEF Spec

-----------------------------------------------------------------------------
(* The units a group is made of                                            *)

\* An outcome about to become a group, in the terms of the searches.
Answer(o) ==
    /\ o \in pending
    /\ EmitGroup(o)
    /\ pass \in Stages

CreditsOf(o) == IF pass = "STAGE3_B" THEN o.best ELSE {o.target}
OthersOf(o) == IF pass = "STAGE3_B" THEN {o.target} ELSE o.best
RowsOf(units) == [u \in units |-> Rows(u.records)]

LEMMA AnswerIs ==
    ASSUME AllInv, NEW o, Answer(o)
    PROVE  /\ o.target \in Targets /\ o.best \subseteq items /\ o.best # {}
           /\ Found(o)
           /\ o.score >= 850 /\ o.score - o.runner_up >= 50
           /\ Given(o) = CreditsOf(o) \cup OthersOf(o)
           /\ Given(o) \subseteq items \cup Targets
           /\ \A u \in CreditsOf(o) : Credit(u)
           /\ \A u \in OthersOf(o) : Lone(u) \/ Grouped(u)
           /\ CreditsOf(o) # {}
           /\ WholeAmounts(CreditsOf(o)) /\ WholeAmounts(OthersOf(o))
           /\ MergedGroup(o).members = UNION {u.records : u \in Given(o)}
  <1>1. o \in window /\ o.target \in Targets /\ o.best \subseteq items /\ o.best # {}
        /\ ClearsBar(o)
    BY EmitsSomething DEF Answer, EmitGroup, Emits, Accepted, Promoted, Targets,
                          AllInv, AggregationInv, WindowInv
  <1>2. Found(o)
    BY <1>1 DEF AllInv, SumsInv, FoundInv, FoundNothing
  <1>3. Given(o) = CreditsOf(o) \cup OthersOf(o) /\ Given(o) \subseteq items \cup Targets
    BY <1>1 DEF Given, CreditsOf, OthersOf
  <1>4. /\ \A u \in CreditsOf(o) : Credit(u)
        /\ \A u \in OthersOf(o) : Lone(u) \/ Grouped(u)
    BY <1>1 DEF CreditsOf, OthersOf, AllInv, SumsInv, AmountsInv
  <1>5. IsFiniteSet(o.best) /\ IsFiniteSet({o.target})
    BY <1>1, FS_Subset, FS_Singleton DEF AllInv, SumsInv, AmountsInv
  <1>6. \A u \in CreditsOf(o) \cup OthersOf(o) : u.amount \in Int
    BY <1>4, UnitsAreTyped DEF AllInv, SumsInv
  <1>7. WholeAmounts(CreditsOf(o)) /\ WholeAmounts(OthersOf(o))
    BY <1>5, <1>6 DEF WholeAmounts, CreditsOf, OthersOf
  <1>8. MergedGroup(o).members = UNION {u.records : u \in Given(o)}
    BY DEF MergedGroup, Parts, Given
  <1> QED
    BY <1>1, <1>2, <1>3, <1>4, <1>7, <1>8 DEF ClearsBar, Threshold, MinMargin, CreditsOf

\* The rows of a merged group are the rows of its units, which share none.
LEMMA RowsOfUnits ==
    ASSUME AllInv, NEW units, units \subseteq items \cup Targets
    PROVE  /\ Rows(UNION {u.records : u \in units}) = AllParts(units, RowsOf(units))
           /\ \A u, v \in units : u # v => Rows(u.records) \cap Rows(v.records) = {}
           /\ \A u \in units : WholeAmounts(Rows(u.records))
  <1>1. \A u \in units : u.records \in SUBSET DOMAIN records
    BY DEF AllInv, AggregationInv, UnitsInv
  <1>2. \A u \in units : WholeAmounts(Rows(u.records))
                         /\ \A m \in Rows(u.records) : m.id \in u.records
    BY <1>1, RowsAre DEF AllInv, SumsInv, WholeAmounts
  <1>3. \A u, v \in units : u # v => u.records \cap v.records = {}
    BY DEF AllInv, AggregationInv, UnitsInv, Overlap
  <1>4. \A u, v \in units : u # v => Rows(u.records) \cap Rows(v.records) = {}
    BY <1>2, <1>3
  <1>5. Rows(UNION {u.records : u \in units}) = AllParts(units, RowsOf(units))
    BY DEF Rows, AllParts, RowsOf
  <1> QED
    BY <1>2, <1>4, <1>5

LEMMA UnitRow ==
    ASSUME AllInv, NEW u, Credit(u) \/ Lone(u), u \in items \cup Targets
    PROVE  \E r \in DOMAIN records : /\ u.records = {r} /\ Rows(u.records) = {records[r]}
                                     /\ records[r].amount \in Int
                                     /\ records[r].source \in Source
                                     /\ Credit(u) => /\ u.amount = Abs(records[r].amount)
                                                     /\ records[r].source = "BANK"
                                                     /\ records[r].entity_type = "BANK_CREDIT"
  <1>1. CASE Credit(u)
    <2>1. PICK r \in DOMAIN records :
              /\ u = [records |-> {r}, amount |-> Abs(records[r].amount)]
              /\ records[r].source = "BANK" /\ records[r].entity_type = "BANK_CREDIT"
      BY <1>1 DEF Credit
    <2> QED
      BY <2>1 DEF Rows, AllInv, SumsInv, RecordsInv
  <1>2. CASE Lone(u) /\ ~Credit(u)
    BY <1>2 DEF Lone, Rows, AllInv, SumsInv, RecordsInv
  <1> QED
    BY <1>1, <1>2

\* All units of an answer have the target's currency.
LEMMA OneCurrencyOfAnswer ==
    ASSUME AllInv, NEW o, Answer(o)
    PROVE  OneCurrency(Rows(MergedGroup(o).members))
  <1>1. \A u \in Given(o) : Currency(u) = Currency(o.target)
    <2>1. \A c \in Candidates(o.target) : c \subseteq Pool(o.target)
      BY DEF Candidates, Combos, kSubset
    <2>2. o.best \subseteq Pool(o.target)
      BY <2>1, AnswerIs DEF Found
    <2> QED
      BY <2>2 DEF Pool, Eligible, Given
  <1>2. ASSUME NEW u \in Given(o), NEW m \in Rows(u.records)
        PROVE  m.currency = Currency(u)
    <2>1. u \in items \cup Targets /\ (Credit(u) \/ Lone(u) \/ Grouped(u))
      BY AnswerIs
    <2>2. OneCurrency(Rows(u.records))
      <3>1. CASE Credit(u) \/ Lone(u)
        BY <2>1, <3>1, UnitRow DEF OneCurrency
      <3>2. CASE Grouped(u)
        BY <3>2 DEF Grouped
      <3> QED
        BY <2>1, <3>1, <3>2
    <2>3. First(Rows(u.records)) \in Rows(u.records)
      <3>1. Rows(u.records) \subseteq Rows(DOMAIN records)
        BY <2>1 DEF Rows, AllInv, AggregationInv, UnitsInv
      <3> QED
        BY <3>1, FirstRow DEF AllInv, SumsInv
    <2> QED
      BY <2>2, <2>3 DEF Currency, OneCurrency
  <1>3. \A m \in Rows(MergedGroup(o).members) : \E u \in Given(o) : m \in Rows(u.records)
    <2>1. MergedGroup(o).members = UNION {u.records : u \in Given(o)}
      BY AnswerIs
    <2> QED
      BY <2>1 DEF Rows
  <1> QED
    BY <1>1, <1>2, <1>3 DEF OneCurrency

-----------------------------------------------------------------------------
(* The amount searched for and the amount verified                         *)

\* Where a settlement is the target its own tolerance was asked for, and the
\* credits' may be smaller: the threshold makes up for it.
LEMMA CloseEnough ==
    ASSUME NEW a \in Int, NEW b \in Int,
           (500 * Abs(a - b)) \div ToleranceFor(a) <= 150
    PROVE  Abs(a - b) <= ToleranceFor(b)
  <1> DEFINE gap == Abs(a - b)
             t == ToleranceFor(a)
             s == ToleranceFor(b)
             x == Abs(a)
             y == Abs(b)
             p == x \div 1000
             z == y \div 1000
             q == (500 * gap) \div t
  <1>1. gap \in Int /\ gap >= 0 /\ x \in Int /\ y \in Int /\ x <= y + gap
    BY DEF Abs
  <1>2. t \in Int /\ t >= 100 /\ (t = 100 \/ t = p)
    BY ToleranceIs
  <1>3. s \in Int /\ s >= 100 /\ s >= z
    BY ToleranceIs
  <1>4. 500 * gap < 151 * t
    <2>1. 500 * gap < q * t + t /\ q \in Int /\ q <= 150
      <3>1. q <= 150
        OBVIOUS
      <3> HIDE DEF gap, t
      <3>2. 500 * gap < q * t + t /\ q \in Int
        BY <1>1, <1>2, Quotient
      <3> QED
        BY <3>1, <3>2
    <2> HIDE DEF gap, t, q
    <2>2. q * t <= 150 * t
      BY <1>2, <2>1
    <2> QED
      BY <1>1, <1>2, <2>1, <2>2
  <1>5. p * 1000 <= x /\ p \in Int /\ y < z * 1000 + 1000 /\ z \in Int
    <2> HIDE DEF x, y
    <2> QED
      BY <1>1, Quotient
  <1> HIDE DEF gap, t, s, x, y, p, z, q
  <1>6. ASSUME t = 100 PROVE gap <= s
    BY <1>1, <1>3, <1>4, <1>6
  <1>7. ASSUME t = p PROVE gap <= s
    <2> SUFFICES ASSUME s < gap PROVE FALSE
      BY <1>1, <1>3
    <2>1. z + 1 <= gap
      BY <1>1, <1>3, <1>5
    <2>2. p * 1000 < 1000 * gap + gap
      BY <1>1, <1>5, <2>1
    <2> QED
      BY <1>1, <1>2, <1>4, <1>7, <2>2
  <1>8. gap <= s
    BY <1>2, <1>6, <1>7
  <1> QED
    BY <1>8 DEF gap, s

LEMMA AnswerBalances ==
    ASSUME AllInv, NEW o, Answer(o)
    PROVE  Abs(TotalAmount(OthersOf(o)) - TotalAmount(CreditsOf(o)))
               <= ToleranceFor(TotalAmount(CreditsOf(o)))
  <1> DEFINE t == o.target.amount
             sum == TotalAmount(o.best)
  <1>1. o.target.amount \in Int /\ WholeAmounts(o.best) /\ o.best \in Candidates(o.target)
        /\ o.target \in Targets /\ o.score >= 850 /\ o.score = Score(o.target, o.best)
    BY AnswerIs, CandidatesAre DEF Found, AllInv, SumsInv
  <1>2. t \in Int /\ sum \in Int /\ TotalAmount({o.target}) = t
    BY <1>1, TotalInt, TotalOne
  <1>3. Gap(o.target, o.best) = Abs(t - sum)
    BY DEF Gap
  <1>4. Abs(t - sum) = Abs(sum - t)
    <2> HIDE DEF t, sum
    <2> QED
      BY <1>2 DEF Abs
  <1>5. CASE pass # "STAGE3_B"
    <2>1. Abs(t - sum) <= ToleranceFor(t)
      BY <1>1, <1>3 DEF Candidates
    <2> QED
      BY <1>2, <1>4, <1>5, <2>1 DEF CreditsOf, OthersOf
  <1>6. CASE pass = "STAGE3_B"
    <2> DEFINE q == (500 * Abs(t - sum)) \div ToleranceFor(t)
    <2>1. Score(o.target, o.best) = 1000 - q
      BY <1>3 DEF Score
    <2>2. q \in Int
      <3>1. ToleranceFor(t) \in Int /\ ToleranceFor(t) > 0 /\ 500 * Abs(t - sum) \in Int
        <4>1. Abs(t - sum) \in Int
          <5> HIDE DEF t, sum
          <5> QED
            BY <1>2 DEF Abs
        <4> QED
          BY <1>2, <4>1, ToleranceIs
      <3> HIDE DEF t, sum
      <3> QED
        BY <3>1, Quotient
    <2>3. q <= 150
      <3>1. 1000 - q >= 850
        BY <1>1, <2>1
      <3> HIDE DEF q
      <3> QED
        BY <2>2, <3>1
    <2>4. Abs(t - sum) <= ToleranceFor(sum)
      <3> HIDE DEF t, sum
      <3> QED
        BY <1>2, <2>3, CloseEnough
    <2> QED
      BY <1>2, <1>6, <2>4 DEF CreditsOf, OthersOf
  <1> QED
    BY <1>5, <1>6

-----------------------------------------------------------------------------
(* What the verifier counts                                                *)

CreditRows(rows) == {m \in rows : Role(m) = "CREDIT"}

LEMMA BalancedPasses ==
    ASSUME NEW rows, NEW margin, margin >= MinScoreMargin, margin \in Int,
           CreditRows(rows) # {}, OneCurrency(rows), ~\E m \in rows : Contradicts(m),
           Abs(TotalAmount(Effective(rows)) - TotalAmount(CreditRows(rows)))
               <= ToleranceFor(TotalAmount(CreditRows(rows)))
    PROVE  VerifyStage2To5(rows, margin) = "PASSED"
  <1>1. Against(rows) = CreditRows(rows)
    BY DEF Against, CreditRows
  <1>2. Effective(rows) \ Against(rows) = Effective(rows)
    BY <1>1 DEF Effective, CreditRows
  <1>3. ~PureOutflow(rows)
    BY DEF PureOutflow, CreditRows, OutflowRoles
  <1>4. Conserves(rows) /\ Computable(rows)
    BY <1>1, <1>2, <1>3 DEF Conserves, Computable
  <1>5. ~(margin < MinScoreMargin)
    BY VerifierAssumption
  <1> QED
    BY <1>4, <1>5 DEF VerifyStage2To5

\* The credits' rows are worth what the search took them for.
LEMMA CreditsCount ==
    ASSUME AllInv, NEW o, Answer(o), NoContradiction(MergedGroup(o)),
           \A u \in OthersOf(o) : \A m \in Rows(u.records) : Role(m) # "CREDIT"
    PROVE  LET rows == Rows(MergedGroup(o).members)
           IN /\ CreditRows(rows) # {}
              /\ TotalAmount(CreditRows(rows)) = TotalAmount(CreditsOf(o))
  <1> DEFINE rows == Rows(MergedGroup(o).members)
             C == CreditsOf(o)
             part == RowsOf(C)
  <1>1. /\ Given(o) = C \cup OthersOf(o) /\ Given(o) \subseteq items \cup Targets
        /\ \A u \in C : Credit(u)
        /\ C # {} /\ WholeAmounts(C)
        /\ MergedGroup(o).members = UNION {u.records : u \in Given(o)}
    BY AnswerIs
  <1>2. \A m : m \in rows <=> \E u \in Given(o) : m \in Rows(u.records)
    BY <1>1 DEF Rows
  <1>3. ASSUME NEW u \in C
        PROVE  \E m \in rows : /\ Rows(u.records) = {m} /\ Role(m) = "CREDIT"
                               /\ m.amount \in Int /\ u.amount = m.amount
    <2>1. PICK r \in DOMAIN records :
              /\ Rows(u.records) = {records[r]} /\ records[r].amount \in Int
              /\ u.amount = Abs(records[r].amount)
              /\ records[r].entity_type = "BANK_CREDIT"
      BY <1>1, UnitRow
    <2>2. Role(records[r]) = "CREDIT" /\ records[r] \in rows
      BY <1>1, <1>2, <2>1 DEF Role
    <2>3. ~(records[r].amount <= 0)
      BY <2>2 DEF NoContradiction, Contradicts
    <2>4. Abs(records[r].amount) = records[r].amount
      BY <2>1, <2>3 DEF Abs
    <2> QED
      BY <2>1, <2>2, <2>4
  <1>4. CreditRows(rows) = AllParts(C, part)
    <2>1. \A m : m \in AllParts(C, part) <=> \E u \in C : m \in Rows(u.records)
      BY DEF AllParts, RowsOf
    <2>2. \A m : m \in CreditRows(rows) => \E u \in C : m \in Rows(u.records)
      BY <1>1, <1>2 DEF CreditRows
    <2>3. \A u \in C : \A m \in Rows(u.records) : m \in CreditRows(rows)
      BY <1>3 DEF CreditRows
    <2> QED
      BY <2>1, <2>2, <2>3
  <1>5. Worth(C, part)
    <2>1. ASSUME NEW u \in C PROVE WholeAmounts(part[u]) /\ TotalAmount(part[u]) = u.amount
      <3>1. PICK m \in rows : Rows(u.records) = {m} /\ m.amount \in Int /\ u.amount = m.amount
        BY <1>3
      <3> QED
        BY <3>1, TotalOne, FS_Singleton DEF WholeAmounts, RowsOf
    <2> QED
      BY <2>1 DEF Worth
  <1>6. PartsApart(C, part)
    BY <1>1, RowsOfUnits DEF PartsApart, RowsOf
  <1>7. TotalAmount(AllParts(C, part)) = TotalAmount(C)
    <2> HIDE DEF C, part
    <2> QED
      BY <1>1, <1>5, <1>6, TotalOfParts
  <1>8. CreditRows(rows) # {}
    BY <1>1, <1>3 DEF CreditRows
  <1> QED
    BY <1>4, <1>7, <1>8

\* So are the others' rows, if each unit is worth a part of its rows and the
\* verifier counts those parts.
LEMMA OthersCount ==
    ASSUME AllInv, NEW o, Answer(o), NEW part, Worth(OthersOf(o), part),
           \A u \in OthersOf(o) : part[u] \subseteq Rows(u.records)
    PROVE  TotalAmount(AllParts(OthersOf(o), part)) = TotalAmount(OthersOf(o))
  <1>1. OthersOf(o) \subseteq items \cup Targets /\ WholeAmounts(OthersOf(o))
    BY AnswerIs
  <1>2. PartsApart(OthersOf(o), part)
    BY <1>1, RowsOfUnits DEF PartsApart
  <1> QED
    BY <1>1, <1>2, TotalOfParts

LEMMA AnswerPasses ==
    ASSUME AllInv, MinScoreMargin <= MinMargin, NEW o, Answer(o),
           NoContradiction(MergedGroup(o)),
           \A u \in OthersOf(o) : \A m \in Rows(u.records) : Role(m) # "CREDIT",
           TotalAmount(Effective(Rows(MergedGroup(o).members))) = TotalAmount(OthersOf(o))
    PROVE  Verdict(MergedGroup(o)) = "PASSED"
  <1> DEFINE g == MergedGroup(o)
             rows == Rows(g.members)
  <1>1. /\ CreditRows(rows) # {}
        /\ TotalAmount(CreditRows(rows)) = TotalAmount(CreditsOf(o))
    BY CreditsCount
  <1>2. OneCurrency(rows)
    BY OneCurrencyOfAnswer
  <1>3. g.proposed_by \in {"STAGE3_AGGREGATE", "STAGE4_ADJUSTMENT"}
        /\ g.score_margin = o.score - o.runner_up
    BY DEF MergedGroup
  <1>4. g.score_margin >= MinScoreMargin /\ g.score_margin \in Int
    <2>1. o.score - o.runner_up >= 50
      BY AnswerIs
    <2>2. g.score_margin \in Int
      <3>1. g \in MatchGroup
        BY EmittedIsTyped DEF Answer, EmitGroup
      <3> HIDE DEF g
      <3> QED
        BY <3>1 DEF MatchGroup
    <2> QED
      BY <1>3, <2>1, <2>2, VerifierAssumption DEF MinMargin
  <1>5. VerifyStage2To5(rows, g.score_margin) = "PASSED"
    <2>1. Abs(TotalAmount(Effective(rows)) - TotalAmount(CreditRows(rows)))
              <= ToleranceFor(TotalAmount(CreditRows(rows)))
      BY <1>1, AnswerBalances
    <2>2. ~\E m \in rows : Contradicts(m)
      BY DEF NoContradiction
    <2> HIDE DEF rows, g
    <2> QED
      BY <1>1, <1>2, <1>4, <2>1, <2>2, BalancedPasses
  <1> QED
    BY <1>3, <1>5 DEF Verdict, VerifyMatchGroup

-----------------------------------------------------------------------------
(* Stage 3                                                                 *)

IsSettlement(m) == m.source = "GATEWAY" /\ m.entity_type = "GATEWAY_SETTLEMENT"
SettlementRows(rows) == {m \in rows : IsSettlement(m)}

\* With all else a charge beside a ledger amount, the verifier counts the
\* settlements alone.
LEMMA EffectiveIsSettlements ==
    ASSUME AllInv, NEW o, Answer(o), Settlements(MergedGroup(o))
    PROVE  LET rows == Rows(MergedGroup(o).members)
           IN /\ Effective(rows) = SettlementRows(rows)
              /\ \A u \in OthersOf(o) : \A m \in Rows(u.records) :
                     m \in rows /\ m.source # "BANK" /\ Role(m) # "CREDIT"
  <1> DEFINE g == MergedGroup(o)
             rows == Rows(g.members)
  <1>1. /\ Given(o) = CreditsOf(o) \cup OthersOf(o) /\ Given(o) \subseteq items \cup Targets
        /\ \A u \in CreditsOf(o) : Credit(u)
        /\ \A u \in OthersOf(o) : Lone(u) \/ Grouped(u)
        /\ g.members = UNION {u.records : u \in Given(o)}
    BY AnswerIs
  <1>2. \A m : m \in rows <=> \E u \in Given(o) : m \in Rows(u.records)
    BY <1>1 DEF Rows
  <1>3. \A u \in CreditsOf(o) : \A m \in Rows(u.records) :
            m.source = "BANK" /\ m.entity_type = "BANK_CREDIT"
    BY <1>1, UnitRow
  <1>4. \A u \in OthersOf(o) : \A m \in Rows(u.records) : m.source \in {"LEDGER", "GATEWAY"}
    <2> SUFFICES ASSUME NEW u \in OthersOf(o), NEW m \in Rows(u.records)
                 PROVE  m.source \in {"LEDGER", "GATEWAY"}
      OBVIOUS
    <2>1. CASE Lone(u)
      BY <2>1 DEF Lone, Rows, GatewayOf
    <2>2. CASE Grouped(u)
      <3>1. PICK r \in u.records : m = records[r]
        BY DEF Rows
      <3>2. records[r].source # "BANK" /\ records[r].source \in Source
        BY <2>2 DEF Grouped, HasBank, AllInv, SumsInv, RecordsInv
      <3> QED
        BY <3>1, <3>2 DEF Source
    <2> QED
      BY <1>1, <2>1, <2>2
  <1>5. \A m \in rows :
            \/ m.source = "BANK" /\ Role(m) = "CREDIT"
            \/ m.source = "LEDGER" /\ Role(m) = "GROSS"
            \/ IsSettlement(m) /\ Role(m) = "GROSS"
            \/ /\ m.source = "GATEWAY" /\ ~IsSettlement(m)
               /\ Role(m) \in BreakoutRoles /\ \E n \in rows : LedgerGross(n)
    <2> SUFFICES ASSUME NEW m \in rows
                 PROVE  \/ m.source = "BANK" /\ Role(m) = "CREDIT"
                        \/ m.source = "LEDGER" /\ Role(m) = "GROSS"
                        \/ IsSettlement(m) /\ Role(m) = "GROSS"
                        \/ /\ m.source = "GATEWAY" /\ ~IsSettlement(m)
                           /\ Role(m) \in BreakoutRoles /\ \E n \in rows : LedgerGross(n)
      OBVIOUS
    <2>1. CASE m.source = "BANK"
      <3>1. m.entity_type = "BANK_CREDIT"
        BY <1>1, <1>2, <1>3, <1>4, <2>1
      <3> QED
        BY <2>1, <3>1 DEF Role
    <2>2. CASE m.source = "LEDGER"
      BY <2>2 DEF Settlements, LedgerGross
    <2>3. CASE m.source = "GATEWAY"
      <3>1. CASE m.entity_type = "GATEWAY_SETTLEMENT"
        BY <2>3, <3>1 DEF Role, IsSettlement
      <3>2. CASE m.entity_type # "GATEWAY_SETTLEMENT"
        BY <2>3, <3>2 DEF Settlements, IsSettlement
      <3> QED
        BY <3>1, <3>2
    <2> QED
      BY <1>1, <1>2, <1>3, <1>4, <2>1, <2>2, <2>3
  <1> HIDE DEF g, rows
  <1>6. Effective(rows) = SettlementRows(rows)
    <2>1. CASE \E m \in rows : Role(m) # "CREDIT" /\ LedgerGross(m)
      <3>1. Effective(rows) = {m \in {n \in rows : Role(n) # "CREDIT"} :
                                   ~LedgerGross(m)
                                   /\ ~(m.source = "GATEWAY" /\ Role(m) \in BreakoutRoles)}
        BY <2>1 DEF Effective
      <3>2. \A m \in rows : m \in Effective(rows) <=> IsSettlement(m)
        BY <1>5, <3>1 DEF LedgerGross, BreakoutRoles, IsSettlement
      <3> QED
        BY <3>1, <3>2 DEF SettlementRows
    <2>2. CASE ~\E m \in rows : Role(m) # "CREDIT" /\ LedgerGross(m)
      <3>1. Effective(rows) = {m \in rows : Role(m) # "CREDIT"}
        BY <2>2 DEF Effective
      <3>2. \A m \in rows : ~LedgerGross(m)
        BY <2>2 DEF LedgerGross
      <3>3. \A m \in rows : m \in Effective(rows) <=> IsSettlement(m)
        BY <1>5, <3>1, <3>2 DEF LedgerGross, IsSettlement
      <3> QED
        BY <3>1, <3>3 DEF SettlementRows
    <2> QED
      BY <2>1, <2>2
  <1>7. \A u \in OthersOf(o) : \A m \in Rows(u.records) :
            m \in rows /\ m.source # "BANK" /\ Role(m) # "CREDIT"
    BY <1>1, <1>2, <1>4, <1>5 DEF BreakoutRoles
  <1> QED
    BY <1>6, <1>7 DEF rows, g

\* A unit of settlements is worth its one settlement.
LEMMA UnitWorthSettlement ==
    ASSUME AllInv, NEW u \in items \cup Targets, Lone(u) \/ Grouped(u), pass # "STAGE4",
           \A m \in Rows(u.records) : /\ ~Contradicts(m)
                                      /\ m.source = "GATEWAY" =>
                                            IsSettlement(m) \/ Role(m) \in BreakoutRoles
    PROVE  /\ WholeAmounts(SettlementRows(Rows(u.records)))
           /\ TotalAmount(SettlementRows(Rows(u.records))) = u.amount
  <1> DEFINE rows == Rows(u.records)
  <1>1. u.records \in SUBSET DOMAIN records
    BY DEF AllInv, AggregationInv, UnitsInv
  <1>2. \A m \in rows : m.id \in Int /\ m.amount \in Int
    BY <1>1, RowsAre DEF AllInv, SumsInv
  <1>3. PICK w \in rows : w.source = "GATEWAY" /\ w.entity_type \in BankBound
    <2>1. \E r \in u.records : GatewayOf(r, BankBound)
      BY DEF Lone, Grouped, Types
    <2> QED
      BY <2>1 DEF Rows, GatewayOf
  <1>4. \A m \in rows : m.source = "GATEWAY" /\ m.entity_type \in GrossGatewayEntityTypes
                            => IsSettlement(m)
    BY DEF GrossGatewayEntityTypes, Role, BreakoutRoles
  <1>5. IsSettlement(w) /\ Role(w) = "GROSS"
    BY <1>3, <1>4 DEF BankBound, GrossGatewayEntityTypes, Role, IsSettlement
  <1>6. w.amount \in Int /\ w.amount > 0
    BY <1>2, <1>3, <1>5 DEF Contradicts
  <1>7. SettlementRows(rows) = {w} /\ u.amount = Abs(w.amount)
    <2>1. CASE Lone(u)
      <3>1. PICK r \in DOMAIN records : u.records = {r} /\ u.amount = Abs(records[r].amount)
        BY <2>1 DEF Lone
      <3>2. rows = {records[r]} /\ w = records[r]
        BY <1>3, <3>1 DEF Rows
      <3> QED
        BY <1>5, <3>1, <3>2 DEF SettlementRows
    <2>2. CASE Grouped(u)
      <3>1. SlotsUnique(rows) /\ u.amount = Matched(rows)
        BY <2>2 DEF Grouped
      <3>2. \A m \in rows : IsSettlement(m) => m = w
        BY <1>3, <1>5, <3>1 DEF SlotsUnique, IsSettlement
      <3>3. {m \in rows : m.source = "GATEWAY" /\ m.entity_type \in GrossGatewayEntityTypes}
                = {w}
        BY <1>3, <1>4, <1>5, <3>2 DEF GrossGatewayEntityTypes, IsSettlement
      <3>4. First({w}) = w
        BY <1>2, <1>3, FirstOfOne
      <3>5. Matched(rows) = Abs(w.amount)
        <4> HIDE DEF rows
        <4> QED
          BY <3>3, <3>4 DEF Matched
      <3> QED
        BY <1>3, <1>5, <3>1, <3>2, <3>5 DEF SettlementRows
    <2> QED
      BY <2>1, <2>2
  <1>8. Abs(w.amount) = w.amount
    BY <1>6 DEF Abs
  <1>9. TotalAmount({w}) = w.amount /\ IsFiniteSet({w})
    BY <1>6, TotalOne, FS_Singleton
  <1> QED
    BY <1>6, <1>7, <1>8, <1>9 DEF WholeAmounts

LEMMA Stage3Agrees ==
    ASSUME AllInv, MinScoreMargin <= MinMargin, NEW o, Answer(o), pass # "STAGE4",
           NoContradiction(MergedGroup(o)), Settlements(MergedGroup(o))
    PROVE  Verdict(MergedGroup(o)) = "PASSED"
  <1> DEFINE rows == Rows(MergedGroup(o).members)
             part == [u \in OthersOf(o) |-> SettlementRows(Rows(u.records))]
  <1>1. /\ Effective(rows) = SettlementRows(rows)
        /\ \A u \in OthersOf(o) : \A m \in Rows(u.records) :
               m \in rows /\ m.source # "BANK" /\ Role(m) # "CREDIT"
    BY EffectiveIsSettlements
  <1>2. /\ Given(o) = CreditsOf(o) \cup OthersOf(o) /\ Given(o) \subseteq items \cup Targets
        /\ \A u \in CreditsOf(o) : Credit(u)
        /\ \A u \in OthersOf(o) : Lone(u) \/ Grouped(u)
        /\ MergedGroup(o).members = UNION {u.records : u \in Given(o)}
    BY AnswerIs
  <1>3. Worth(OthersOf(o), part)
    <2> SUFFICES ASSUME NEW u \in OthersOf(o)
                 PROVE  /\ WholeAmounts(SettlementRows(Rows(u.records)))
                        /\ TotalAmount(SettlementRows(Rows(u.records))) = u.amount
      BY DEF Worth
    <2>1. \A m \in Rows(u.records) : /\ ~Contradicts(m)
                                     /\ m.source = "GATEWAY" =>
                                            IsSettlement(m) \/ Role(m) \in BreakoutRoles
      BY <1>1 DEF NoContradiction, Settlements, IsSettlement
    <2> QED
      BY <1>2, <2>1, UnitWorthSettlement
  <1>4. TotalAmount(AllParts(OthersOf(o), part)) = TotalAmount(OthersOf(o))
    <2>1. \A u \in OthersOf(o) : part[u] \subseteq Rows(u.records)
      BY DEF SettlementRows
    <2> HIDE DEF part
    <2> QED
      BY <1>3, <2>1, OthersCount
  <1>5. SettlementRows(rows) = AllParts(OthersOf(o), part)
    <2>1. \A m : m \in AllParts(OthersOf(o), part) <=>
                     \E u \in OthersOf(o) : m \in Rows(u.records) /\ IsSettlement(m)
      BY DEF AllParts, SettlementRows
    <2>2. \A m : m \in rows <=> \E u \in Given(o) : m \in Rows(u.records)
      BY <1>2 DEF Rows
    <2>3. \A u \in CreditsOf(o) : \A m \in Rows(u.records) : ~IsSettlement(m)
      BY <1>2, UnitRow DEF IsSettlement
    <2>4. \A m : m \in SettlementRows(rows) <=> m \in rows /\ IsSettlement(m)
      BY DEF SettlementRows
    <2> HIDE DEF rows, part
    <2> QED
      BY <1>2, <2>1, <2>2, <2>3, <2>4
  <1> QED
    BY <1>1, <1>4, <1>5, AnswerPasses

-----------------------------------------------------------------------------
(* Stage 4                                                                 *)

\* An answer that takes in no group is made of lone gateway records.
LEMMA OthersAreLone ==
    ASSUME AllInv, NEW o, Answer(o), groups \subseteq groups', NEW u \in OthersOf(o)
    PROVE  Lone(u)
  <1> SUFFICES ASSUME Grouped(u) PROVE FALSE
    BY AnswerIs
  <1>1. u \in Given(o) /\ o \in pending /\ Emits(o)
    BY AnswerIs DEF Answer, EmitGroup
  <1>2. PICK g \in groups : g.members = u.records /\ ~HasBank(g.members)
    BY <1>1, GivenIsAvailable DEF Available, Grouped, AllInv
  <1>3. g.members \in Parts(o)
    BY <1>1, <1>2 DEF Parts, Given
  <1>4. g = MergedGroup(o)
    BY <1>2, <1>3 DEF Answer, EmitGroup
  <1>5. HasBank(MergedGroup(o).members)
    BY <1>1, EmittedIsTyped DEF Answer
  <1> QED
    BY <1>2, <1>4, <1>5

LEMMA Stage4Agrees ==
    ASSUME AllInv, MinScoreMargin <= MinMargin, NEW o, Answer(o), pass = "STAGE4",
           NoContradiction(MergedGroup(o)), groups \subseteq groups'
    PROVE  Verdict(MergedGroup(o)) = "PASSED"
  <1> DEFINE rows == Rows(MergedGroup(o).members)
             O == OthersOf(o)
             part == RowsOf(O)
  <1>1. /\ Given(o) = CreditsOf(o) \cup O /\ Given(o) \subseteq items \cup Targets
        /\ \A u \in CreditsOf(o) : Credit(u)
        /\ MergedGroup(o).members = UNION {u.records : u \in Given(o)}
    BY AnswerIs
  <1>2. ASSUME NEW u \in O
        PROVE  \E m : /\ Rows(u.records) = {m} /\ u.amount = m.amount /\ m.amount \in Int
                      /\ m.source = "GATEWAY" /\ m.entity_type \in Nettable
    <2>1. PICK r \in DOMAIN records :
              u = [records |-> {r}, amount |-> records[r].amount] /\ GatewayOf(r, Nettable)
      BY OthersAreLone DEF Lone, Types
    <2>2. Rows(u.records) = {records[r]} /\ records[r].amount \in Int
      BY <2>1 DEF Rows, AllInv, SumsInv, RecordsInv
    <2> QED
      BY <2>1, <2>2 DEF GatewayOf
  <1>3. \A u \in O : \A m \in Rows(u.records) : m.source = "GATEWAY" /\ Role(m) # "CREDIT"
    <2>1. \A m : m.entity_type \in Nettable => Role(m) # "CREDIT"
      BY DEF Nettable, BankBound, Role
    <2> QED
      BY <1>2, <2>1
  <1>4. \A u \in CreditsOf(o) : \A m \in Rows(u.records) : m.source = "BANK" /\ Role(m) = "CREDIT"
    <2>1. \A u \in CreditsOf(o) : \A m \in Rows(u.records) :
              m.source = "BANK" /\ m.entity_type = "BANK_CREDIT"
      BY <1>1, UnitRow
    <2> QED
      BY <2>1 DEF Role
  <1>5. \A m : m \in rows <=> \E u \in Given(o) : m \in Rows(u.records)
    BY <1>1 DEF Rows
  <1>6. Worth(O, part)
    <2>1. ASSUME NEW u \in O PROVE WholeAmounts(part[u]) /\ TotalAmount(part[u]) = u.amount
      <3>1. PICK m : Rows(u.records) = {m} /\ u.amount = m.amount /\ m.amount \in Int
        BY <1>2
      <3> QED
        BY <3>1, TotalOne, FS_Singleton DEF WholeAmounts, RowsOf
    <2> QED
      BY <2>1 DEF Worth
  <1>7. Effective(rows) = AllParts(O, part)
    <2>1. \A m : m \in AllParts(O, part) <=> \E u \in O : m \in Rows(u.records)
      BY DEF AllParts, RowsOf
    <2> HIDE DEF rows, O, part
    <2>2. ~\E m \in rows : LedgerGross(m)
      BY <1>1, <1>3, <1>4, <1>5 DEF LedgerGross
    <2>3. Effective(rows) = {m \in rows : Role(m) # "CREDIT"}
      BY <2>2 DEF Effective
    <2> QED
      BY <1>1, <1>3, <1>4, <1>5, <2>1, <2>3
  <1>8. TotalAmount(AllParts(O, part)) = TotalAmount(O)
    <2>1. \A u \in O : part[u] \subseteq Rows(u.records)
      BY DEF RowsOf
    <2> HIDE DEF part
    <2> QED
      BY <1>6, <2>1, OthersCount
  <1> QED
    BY <1>3, <1>7, <1>8, AnswerPasses

-----------------------------------------------------------------------------
(* SearchAndVerifierAgree                                                  *)

Agree ==
    \A g \in groups' \ groups :
        /\ NoContradiction(g)
        /\ g.proposed_by = "STAGE3_AGGREGATE" => Settlements(g)
        /\ g.proposed_by = "STAGE4_ADJUSTMENT" => groups \subseteq groups'
        => Verdict(g) = "PASSED"

LEMMA StepAgrees ==
    ASSUME MinScoreMargin <= MinMargin, AllInv, [Next]_vars
    PROVE  Agree
  <1>1. ASSUME NEW o \in pending, EmitGroup(o) PROVE Agree
    <2>1. Answer(o)
      BY <1>1 DEF Answer, AllInv, AggregationInv, WindowInv, NothingDroppedInv
    <2>2. \A g \in groups' \ groups : g = MergedGroup(o)
      BY <1>1 DEF EmitGroup
    <2>3. MergedGroup(o).proposed_by =
              IF pass = "STAGE4" THEN "STAGE4_ADJUSTMENT" ELSE "STAGE3_AGGREGATE"
      BY DEF MergedGroup
    <2> QED
      BY <2>1, <2>2, <2>3, Stage3Agrees, Stage4Agrees DEF Agree
  <1>2. CASE groups' = groups
    BY <1>2 DEF Agree
  <1>3. \A o : Searched(o) => groups' = groups
    BY DEF Searched
  <1>4. \A o : DeclineOverlap(o) \/ DeclineUnsearched(o) \/ DeclineWeak(o) => groups' = groups
    BY DEF DeclineOverlap, DeclineUnsearched, DeclineWeak, DeclineWith
  <1>5. StartPass \/ UNCHANGED vars => groups' = groups
    BY DEF StartPass, vars
  <1> QED
    BY <1>1, <1>2, <1>3, <1>4, <1>5, SearchFinds DEF Next, Search, Conclude

\* What Stage 3 and Stage 4 emit on settlements and lone records the verifier
\* passes, for any amounts, sizes and deadlines, as long as it asks for no
\* more of a margin than the searches do.
THEOREM SearchesConserve ==
    ASSUME MinScoreMargin <= MinMargin
    PROVE  Spec => SearchAndVerifierAgree
  <1>1. AllInv /\ [Next]_vars => [Agree]_vars
    BY StepAgrees
  <1> QED
    BY <1>1, InitAll, NextAll, PTL DEF Spec, SearchAndVerifierAgree, Agree

-----------------------------------------------------------------------------
(* ImplementsAggregate                                                     *)

\* What Stages sees of a group tells it from every other.
LEMMA SeenApart ==
    ASSUME AllInv, NEW gs, gs \subseteq groups
    PROVE  Seen \ {SeenByStages(g) : g \in gs} = {SeenByStages(g) : g \in groups \ gs}
  <1>1. \A g : SeenByStages(g).members = g.members
    BY DEF SeenByStages
  <1>2. \A g, h \in groups : SeenByStages(g) = SeenByStages(h) => g = h
    <2> SUFFICES ASSUME NEW g \in groups, NEW h \in groups, SeenByStages(g) = SeenByStages(h)
                 PROVE  g = h
      OBVIOUS
    <2>1. g.members = h.members
      BY <1>1
    <2> QED
      BY <2>1 DEF AllInv, AggregationInv, OneGroupPerRecord, DisjointMembers, GroupsInv
  <1> QED
    BY <1>2 DEF Seen

\* Of what an answer takes in, the unclaimed records are gateway records and
\* bank credits.
LEMMA LooseIsSearchable ==
    ASSUME AllInv, NEW o, Answer(o)
    PROVE  /\ \A r \in Loose(o) : records[r].source = "GATEWAY"
                                  \/ records[r].entity_type = "BANK_CREDIT"
           /\ \E r \in MergedGroup(o).members : records[r].source = "GATEWAY"
  <1>1. /\ Given(o) = CreditsOf(o) \cup OthersOf(o)
        /\ \A u \in CreditsOf(o) : Credit(u)
        /\ \A u \in OthersOf(o) : Lone(u) \/ Grouped(u)
        /\ o.best # {}
        /\ MergedGroup(o).members = UNION {u.records : u \in Given(o)}
    BY AnswerIs
  <1>2. ASSUME NEW r \in Loose(o)
        PROVE  records[r].source = "GATEWAY" \/ records[r].entity_type = "BANK_CREDIT"
    <2>1. PICK u \in Given(o) : r \in u.records /\ u.records \cap matched = {}
      BY DEF Loose
    <2>2. CASE Credit(u)
      BY <2>1, <2>2 DEF Credit
    <2>3. CASE Lone(u)
      BY <2>1, <2>3 DEF Lone, GatewayOf
    <2>4. ~Grouped(u)
      BY <2>1 DEF Grouped
    <2> QED
      BY <1>1, <2>2, <2>3, <2>4
  <1>3. PICK u \in OthersOf(o) : TRUE
    BY <1>1 DEF OthersOf
  <1>4. \E r \in u.records : records[r].source = "GATEWAY"
    BY <1>1 DEF Lone, Grouped, GatewayOf
  <1> QED
    BY <1>1, <1>2, <1>4

LEMMA AnswerIsAggregate ==
    ASSUME AllInv, NEW o, Answer(o)
    PROVE  Pipeline!Aggregate
  <1> DEFINE new == MergedGroup(o)
             parts == {SeenByStages(g) : g \in Taken(o)}
             loose == Loose(o)
  <1>1. /\ o \in pending /\ Emits(o) /\ pass # "DONE"
        /\ groups' = (groups \ Taken(o)) \cup {new}
        /\ matched' = matched \cup UNION Parts(o)
        /\ records' = records
    BY DEF Answer, EmitGroup, Concluded, Taken, Stages
  <1>2. /\ new.members = (UNION {g.members : g \in Taken(o)}) \cup loose
        /\ \A g \in Taken(o) : ~HasBank(g.members)
        /\ loose \subseteq DOMAIN records \ matched
        /\ matched' = matched \cup loose
    BY <1>1, PartsAre DEF AllInv, MergedGroup
  <1>3. parts \subseteq {h \in Seen : ~Pipeline!HasBank(h.members)}
    BY <1>2 DEF Seen, SeenByStages, Taken, Pipeline!HasBank, HasBank
  <1>4. new.members = Pipeline!Merged(parts, loose)
    <2>1. \A g : SeenByStages(g).members = g.members
      BY DEF SeenByStages
    <2>2. \A h \in parts : \E g \in Taken(o) : h.members = g.members
      BY <2>1
    <2>3. \A g \in Taken(o) : SeenByStages(g) \in parts
      OBVIOUS
    <2> HIDE DEF parts
    <2>4. UNION {h.members : h \in parts} = UNION {g.members : g \in Taken(o)}
      BY <2>1, <2>2, <2>3
    <2> HIDE DEF new, loose
    <2> QED
      BY <1>2, <2>4 DEF Pipeline!Merged
  <1>5. Seen' = (Seen \ parts) \cup {SeenByStages(new)}
    <2>1. Seen' = {SeenByStages(g) : g \in groups'}
      BY DEF Seen, SeenByStages
    <2>2. Seen \ parts = {SeenByStages(g) : g \in groups \ Taken(o)}
      BY SeenApart DEF Taken
    <2> HIDE DEF new, parts
    <2> QED
      BY <1>1, <2>1, <2>2
  <1>6. SeenByStages(new) = Pipeline!Group(new.members, "STAGE3_AGGREGATE",
                                           "AUTO_COMMIT_STAGE2_5_THRESHOLD", 1000)
    BY DEF SeenByStages, MergedGroup, Pipeline!Group
  <1>7. Pipeline!OneCurrency(Pipeline!Rows(new.members))
    <2>1. OneCurrency(Rows(new.members))
      BY OneCurrencyOfAnswer
    <2> QED
      BY <2>1 DEF OneCurrency, Rows, Pipeline!OneCurrency, Pipeline!Rows
  <1>8. Pipeline!HasBank(loose)
    BY <1>1, LooseHasBank DEF AllInv, HasBank, Pipeline!HasBank
  <1>9. /\ loose \subseteq {r \in DOMAIN records \ matched :
                             records[r].source = "GATEWAY" \/ records[r].entity_type = "BANK_CREDIT"}
        /\ \E r \in new.members : records[r].source = "GATEWAY"
    BY <1>2, LooseIsSearchable
  <1> DEFINE all == Pipeline!Merged(parts, loose)
             open == {h \in Seen : ~Pipeline!HasBank(h.members)}
             free == {r \in DOMAIN records \ matched :
                        records[r].source = "GATEWAY" \/ records[r].entity_type = "BANK_CREDIT"}
  <1> HIDE DEF new, parts, loose
  <1>10. /\ \E r \in all : records[r].source = "GATEWAY"
         /\ Pipeline!OneCurrency(Pipeline!Rows(all))
         /\ Seen' = (Seen \ parts) \cup
                      {Pipeline!Group(all, "STAGE3_AGGREGATE", "AUTO_COMMIT_STAGE2_5_THRESHOLD", 1000)}
    BY <1>4, <1>5, <1>6, <1>7, <1>9
  <1>11. parts \in SUBSET open /\ loose \in SUBSET free
    BY <1>3, <1>9
  <1>12. \E ps \in SUBSET open : \E ls \in SUBSET free :
            /\ Pipeline!HasBank(ls)
            /\ \E r \in Pipeline!Merged(ps, ls) : records[r].source = "GATEWAY"
            /\ Pipeline!OneCurrency(Pipeline!Rows(Pipeline!Merged(ps, ls)))
            /\ Seen' = (Seen \ ps) \cup
                         {Pipeline!Group(Pipeline!Merged(ps, ls), "STAGE3_AGGREGATE",
                                         "AUTO_COMMIT_STAGE2_5_THRESHOLD", 1000)}
            /\ matched' = matched \cup ls
    <2> HIDE DEF open, free
    <2> USE <1>11
    <2> WITNESS parts \in SUBSET open
    <2> WITNESS loose \in SUBSET free
    <2> QED
      BY <1>2, <1>8, <1>10
  <1> QED
    BY <1>1, <1>12 DEF Pipeline!Aggregate

StagesStep == [Pipeline!Aggregate]_<<records, Seen, matched>>

LEMMA StepIsAggregate ==
    ASSUME AllInv, [Next]_vars
    PROVE  StagesStep
  <1>1. ASSUME NEW o \in pending, EmitGroup(o) PROVE StagesStep
    <2>1. Answer(o)
      BY <1>1 DEF Answer, AllInv, AggregationInv, WindowInv, NothingDroppedInv
    <2> QED
      BY <2>1, AnswerIsAggregate DEF StagesStep
  <1>2. CASE UNCHANGED <<records, groups, matched>>
    BY <1>2 DEF StagesStep, Seen, SeenByStages
  <1>3. \A o : Searched(o) => UNCHANGED <<records, groups, matched>>
    BY DEF Searched
  <1>4. \A o : DeclineOverlap(o) \/ DeclineUnsearched(o) \/ DeclineWeak(o)
                  => UNCHANGED <<records, groups, matched>>
    BY DEF DeclineOverlap, DeclineUnsearched, DeclineWeak, DeclineWith, Concluded
  <1>5. StartPass \/ UNCHANGED vars => UNCHANGED <<records, groups, matched>>
    BY DEF StartPass, vars
  <1> QED
    BY <1>1, <1>2, <1>3, <1>4, <1>5, SearchFinds DEF Next, Search, Conclude

\* What Stages leaves open about Stages 3 and 4 is wide enough: for any ledger
\* every group their searches make is one that Aggregate may make.
THEOREM SearchesImplementAggregate == Spec => ImplementsAggregate
  <1>1. AllInv /\ [Next]_vars => StagesStep
    BY StepIsAggregate
  <1> QED
    BY <1>1, InitAll, NextAll, PTL DEF Spec, ImplementsAggregate, StagesStep
=============================================================================
