-------------------------- MODULE AggregationProofs --------------------------
(***************************************************************************)
(* Proofs about Aggregation for any records, prior groups and search       *)
(* limits: Stages 3 and 4 never claim a record twice, drop no confident    *)
(* answer and no window given up, take up no decoy, and implement          *)
(* Grouping.  Everything rests on one fact: what two targets of a pass are *)
(* given has no item in common (EmitsApart), so that a target's items are  *)
(* still there when its turn comes.                                        *)
(***************************************************************************)
EXTENDS Aggregation, TLAPS

Overlap(u, v) == u.records \cap v.records # {}

\* A unit that can still be given: unclaimed records, or an open group.
Available(u) ==
    \/ u.records \cap matched = {}
    \/ /\ \E g \in groups : g.members = u.records
       /\ ~HasBank(u.records)

Targets == waiting \cup {o.target : o \in window}
Given(o) == o.best \cup {o.target}
Concluding == window \ pending
IsUsed(u) == \E o \in Concluding : Emits(o) /\ u \in Given(o)

GroupsInv == \A g \in groups : g.members # {} /\ g.members \subseteq DOMAIN records

\* No two units of a pass share a record, whichever side they are on.
UnitsInv ==
    /\ \A u \in items \cup Targets : u.records # {} /\ u.records \subseteq DOMAIN records
    /\ \A u, v \in items : u # v => ~Overlap(u, v)
    /\ \A u, v \in Targets : u # v => ~Overlap(u, v)
    /\ \A u \in items, v \in Targets : ~Overlap(u, v)

\* The bank's side of a pass, and decoys only as members of prior groups.
SidesInv ==
    /\ pass = "STAGE3_B" => \A u \in items : HasBank(u.records)
    /\ pass # "STAGE3_B" => \A u \in Targets : HasBank(u.records)
    /\ pass # "STAGE4" => \A u \in items \cup Targets : \A r \in u.records \cap Decoys :
                              records[r].source = "GATEWAY" => r \in matched

WindowInv ==
    /\ pass \in Stages \cup {"DONE"}
    /\ \A o \in window : o.best \subseteq items /\ o.target \notin waiting
    /\ \A o, p \in window : o.target = p.target => o = p
    /\ pending \subseteq window
    /\ waiting # {} => pending = window

AvailableInv == \A u \in items \cup Targets : Available(u) \/ IsUsed(u)

AggregationInv ==
    /\ OneGroupPerRecord
    /\ GroupsInv
    /\ UnitsInv
    /\ SidesInv
    /\ WindowInv
    /\ AvailableInv

-----------------------------------------------------------------------------
(* What two targets are given has no item in common.                       *)

LEMMA SharersInOneCluster ==
    ASSUME NEW o \in window, NEW p \in window, Share(o, p)
    PROVE  Cluster(o) = Cluster(p)
  <1>1. Share(p, o)
    BY DEF Share
  <1> DEFINE closed(S) == \A q \in S : \A s \in window : Share(q, s) => s \in S
  <1>2. \A S \in SUBSET window : closed(S) => (o \in S <=> p \in S)
    BY <1>1
  <1> QED
    BY <1>2 DEF Cluster

LEMMA EmitsApart ==
    ASSUME NEW o \in window, NEW p \in window, o # p, Emits(o), Emits(p)
    PROVE  o.best \cap p.best = {}
  <1> SUFFICES ASSUME Share(o, p) PROVE FALSE
    BY DEF Share
  <1>1. Contested(o) /\ Contested(p)
    BY DEF Contested, Share
  <1>2. Wins(o) /\ Wins(p)
    BY <1>1 DEF Emits, Accepted, Promoted
  <1>3. Cluster(o) = Cluster(p)
    BY SharersInOneCluster
  <1> QED
    BY <1>2, <1>3 DEF Wins

LEMMA EmitsSomething == \A o \in window : Emits(o) => o.best # {}
  BY DEF Emits, Accepted, Promoted, Contested, Share

\* While targets are concluded what they are given stays the same.
LEMMA EmitsStays ==
    ASSUME pass' = pass, window' = window
    PROVE  \A o : Emits(o)' <=> Emits(o)
  <1>1. \A o : Cluster(o)' = Cluster(o)
    BY DEF Cluster, Share
  <1>2. \A o : /\ Contested(o)' <=> Contested(o)
               /\ Wins(o)' <=> Wins(o)
               /\ Reduces(o)' <=> Reduces(o)
    BY <1>1 DEF Contested, Share, Wins, Winner, Before, IsGroup, Reduces
  <1> QED
    BY <1>2 DEF Emits, Accepted, Promoted, ClearsBar, Threshold, MinMargin

LEMMA GivenInPlay == WindowInv => \A o \in window : Given(o) \subseteq items \cup Targets
  BY DEF WindowInv, Given, Targets

\* In its turn a target finds all it is given still available.
LEMMA GivenIsAvailable ==
    ASSUME AggregationInv, NEW o \in pending, Emits(o), NEW u \in Given(o)
    PROVE  Available(u)
  <1>1. o \in window /\ u \in items \cup Targets
    BY GivenInPlay DEF AggregationInv, WindowInv
  <1> SUFFICES ASSUME IsUsed(u) PROVE FALSE
    BY <1>1 DEF AggregationInv, AvailableInv
  <1>2. PICK p \in Concluding : Emits(p) /\ u \in Given(p)
    BY DEF IsUsed
  <1>3. p \in window /\ p # o
    BY <1>2 DEF Concluding
  <1>4. o.best \cap p.best = {}
    BY <1>1, <1>2, <1>3, EmitsApart
  <1>5. o.target # p.target
    BY <1>1, <1>3 DEF AggregationInv, WindowInv
  <1>6. ~(u \in items /\ u \in Targets)
    BY DEF AggregationInv, UnitsInv, Overlap
  <1>7. /\ o.best \subseteq items /\ p.best \subseteq items
        /\ o.target \in Targets /\ p.target \in Targets
    BY <1>1, <1>3 DEF AggregationInv, WindowInv, Targets
  <1> QED
    BY <1>2, <1>4, <1>5, <1>6, <1>7 DEF Given

-----------------------------------------------------------------------------
(* Emitting a group joins open groups and unclaimed records.               *)

Taken(o) == {g \in groups : g.members \in Parts(o)}
Loose(o) == UNION {u.records : u \in {v \in Given(o) : v.records \cap matched = {}}}

LEMMA PartsAre ==
    ASSUME AggregationInv, NEW o \in pending, Emits(o)
    PROVE  /\ UNION Parts(o) = (UNION {g.members : g \in Taken(o)}) \cup Loose(o)
           /\ \A g \in Taken(o) : ~HasBank(g.members)
           /\ Loose(o) \subseteq DOMAIN records \ matched
           /\ matched \cup UNION Parts(o) = matched \cup Loose(o)
  <1>1. \A u \in Given(o) : Available(u)
    BY GivenIsAvailable
  <1>2. \A u \in Given(o) : u.records # {} /\ u.records \subseteq DOMAIN records
    BY GivenInPlay DEF AggregationInv, UnitsInv, WindowInv
  <1>3. Parts(o) = {u.records : u \in Given(o)}
    BY DEF Parts, Given
  <1>4. \A g \in groups : g.members \subseteq matched /\ g.members # {}
    BY DEF AggregationInv, OneGroupPerRecord, GroupsInv
  <1>5. \A g \in Taken(o) : \E u \in Given(o) : g.members = u.records
    BY <1>3 DEF Taken
  <1>6. \A g \in Taken(o) : ~HasBank(g.members)
    <2> SUFFICES ASSUME NEW g \in Taken(o) PROVE ~HasBank(g.members)
      OBVIOUS
    <2>1. PICK u \in Given(o) : g.members = u.records
      BY <1>5
    <2>2. u.records \cap matched # {}
      BY <1>4, <2>1 DEF Taken
    <2> QED
      BY <1>1, <2>1, <2>2 DEF Available
  <1>7. \A u \in Given(o) : u.records \subseteq Loose(o)
                            \/ \E g \in Taken(o) : g.members = u.records
    BY <1>1, <1>3 DEF Available, Loose, Taken
  <1>8. UNION Parts(o) = (UNION {g.members : g \in Taken(o)}) \cup Loose(o)
    <2>1. UNION Parts(o) \subseteq (UNION {g.members : g \in Taken(o)}) \cup Loose(o)
      BY <1>3, <1>7
    <2>2. Loose(o) \subseteq UNION Parts(o)
      BY <1>3 DEF Loose
    <2>3. UNION {g.members : g \in Taken(o)} \subseteq UNION Parts(o)
      BY DEF Taken
    <2> QED
      BY <2>1, <2>2, <2>3
  <1>9. Loose(o) \subseteq DOMAIN records \ matched
    BY <1>2 DEF Loose
  <1> QED
    BY <1>4, <1>6, <1>8, <1>9 DEF Taken

\* The bank credit among what a target is given is unclaimed.
LEMMA LooseHasBank ==
    ASSUME AggregationInv, NEW o \in pending, Emits(o), pass # "DONE"
    PROVE  HasBank(Loose(o))
  <1>1. o \in window /\ o.best # {} /\ o.best \subseteq items /\ o.target \in Targets
    BY EmitsSomething DEF AggregationInv, WindowInv, Targets
  <1>2. PICK u \in Given(o) : HasBank(u.records)
    BY <1>1 DEF Given, AggregationInv, SidesInv
  <1>3. u.records \cap matched = {}
    BY <1>2, GivenIsAvailable DEF Available
  <1> QED
    BY <1>2, <1>3 DEF Loose, HasBank

LEMMA EmitKeepsPartition ==
    ASSUME AggregationInv, NEW o \in pending, EmitGroup(o)
    PROVE  OneGroupPerRecord' /\ GroupsInv'
  <1> DEFINE new == MergedGroup(o)
  <1>1. /\ groups' = (groups \ Taken(o)) \cup {new}
        /\ matched' = matched \cup UNION Parts(o)
        /\ records' = records
        /\ Emits(o)
    BY DEF EmitGroup, Concluded, Taken
  <1>2. new.members = UNION Parts(o)
    BY DEF MergedGroup
  <1>3. \A g \in groups \ Taken(o) : g.members \cap new.members = {}
    <2> SUFFICES ASSUME NEW g \in groups \ Taken(o), NEW r \in g.members \cap new.members
                 PROVE  FALSE
      OBVIOUS
    <2>1. r \in matched
      BY DEF AggregationInv, OneGroupPerRecord
    <2>2. PICK h \in Taken(o) : r \in h.members
      BY <1>1, <1>2, <2>1, PartsAre
    <2> QED
      BY <2>2 DEF Taken, AggregationInv, OneGroupPerRecord, DisjointMembers
  <1>4. DisjointMembers(groups')
    BY <1>1, <1>3 DEF AggregationInv, OneGroupPerRecord, DisjointMembers
  <1>5. matched' = UNION {g.members : g \in groups'}
    <2>1. \A g \in groups' : g.members \subseteq matched'
      BY <1>1, <1>2 DEF AggregationInv, OneGroupPerRecord
    <2>2. \A r \in matched' : \E g \in groups' : r \in g.members
      <3> SUFFICES ASSUME NEW r \in matched', r \notin new.members
                   PROVE  \E g \in groups' : r \in g.members
        BY <1>1
      <3>1. PICK g \in groups : r \in g.members
        BY <1>1, <1>2 DEF AggregationInv, OneGroupPerRecord
      <3>2. g \notin Taken(o)
        BY <1>1, <1>2, <3>1, PartsAre
      <3> QED
        BY <1>1, <3>1, <3>2
    <2> QED
      BY <2>1, <2>2
  <1>6. new.members # {} /\ new.members \subseteq DOMAIN records
    <2>1. o.target \in Given(o) /\ o \in window
      BY DEF Given, AggregationInv, WindowInv
    <2>2. \A u \in Given(o) : u.records # {} /\ u.records \subseteq DOMAIN records
      BY <2>1, GivenInPlay DEF AggregationInv, UnitsInv
    <2> QED
      BY <1>2, <2>1, <2>2 DEF Parts, Given
  <1> QED
    BY <1>1, <1>4, <1>5, <1>6 DEF AggregationInv, OneGroupPerRecord, GroupsInv

\* What others are to be given is not touched.
LEMMA EmitLeavesOthers ==
    ASSUME AggregationInv, NEW o \in pending, EmitGroup(o),
           NEW u \in items \cup Targets, u \notin Given(o), Available(u)
    PROVE  Available(u)'
  <1>1. /\ groups' = (groups \ Taken(o)) \cup {MergedGroup(o)}
        /\ matched' = matched \cup UNION Parts(o)
        /\ records' = records
    BY DEF EmitGroup, Concluded, Taken
  <1>2. Parts(o) = {v.records : v \in Given(o)}
    BY DEF Parts, Given
  <1>3. \A v \in Given(o) : u.records \cap v.records = {}
    BY GivenInPlay DEF AggregationInv, UnitsInv, WindowInv, Overlap
  <1>4. u.records # {}
    BY DEF AggregationInv, UnitsInv
  <1>5. CASE u.records \cap matched = {}
    BY <1>1, <1>2, <1>3, <1>5 DEF Available
  <1>6. CASE ~HasBank(u.records) /\ \E g \in groups : g.members = u.records
    <2>1. PICK g \in groups : g.members = u.records
      BY <1>6
    <2>2. g \notin Taken(o)
      BY <1>2, <1>3, <1>4, <2>1 DEF Taken
    <2>3. ~HasBank(u.records)'
      BY <1>1, <1>6 DEF HasBank
    <2> QED
      BY <1>1, <2>1, <2>2, <2>3 DEF Available
  <1> QED
    BY <1>5, <1>6 DEF Available

-----------------------------------------------------------------------------
(* The units of a pass                                                     *)

Apart(units) == \A u, v \in units : u # v => ~Overlap(u, v)
FitUnits(units) ==
    /\ \A u \in units : u.records # {} /\ u.records \subseteq DOMAIN records /\ Available(u)
    /\ Apart(units)

LEMMA GroupUnitsFit ==
    ASSUME OneGroupPerRecord, GroupsInv, NEW types, NEW units, NEW lone,
           \A u \in lone : \E r \in DOMAIN records \ matched :
               u.records = {r} /\ records[r].source = "GATEWAY",
           \A u, v \in lone : u.records = v.records => u = v,
           units = GroupUnits(types) \cup lone
    PROVE  /\ FitUnits(units)
           /\ \A u \in units : ~HasBank(u.records)
  <1>1. \A u \in GroupUnits(types) : \E g \in groups : /\ u = [records |-> g.members,
                                                              amount |-> Abs(g.matched_amount)]
                                                      /\ ~HasBank(g.members)
    BY DEF GroupUnits
  <1>2. \A u \in GroupUnits(types) : /\ u.records # {}
                                     /\ u.records \subseteq DOMAIN records
                                     /\ u.records \subseteq matched
                                     /\ ~HasBank(u.records)
                                     /\ Available(u)
    BY <1>1 DEF GroupsInv, OneGroupPerRecord, Available
  <1>3. Apart(GroupUnits(types))
    BY <1>1 DEF Apart, Overlap, OneGroupPerRecord, DisjointMembers
  <1>4. \A u \in lone : /\ u.records # {}
                        /\ u.records \subseteq DOMAIN records
                        /\ u.records \cap matched = {}
                        /\ ~HasBank(u.records)
    BY DEF HasBank
  <1>5. Apart(lone)
    <2> SUFFICES ASSUME NEW u \in lone, NEW v \in lone, Overlap(u, v) PROVE u = v
      BY DEF Apart
    <2>1. PICK r, s : u.records = {r} /\ v.records = {s}
      OBVIOUS
    <2>2. r = s
      BY <2>1 DEF Overlap
    <2> QED
      BY <2>1, <2>2
  <1>6. Apart(units)
    BY <1>2, <1>3, <1>4, <1>5 DEF Apart, Overlap
  <1> QED
    BY <1>2, <1>4, <1>6 DEF FitUnits, Available

LEMMA SettlementUnitsFit ==
    ASSUME OneGroupPerRecord, GroupsInv
    PROVE  /\ FitUnits(SettlementUnits)
           /\ \A u \in SettlementUnits : ~HasBank(u.records)
           /\ \A u \in SettlementUnits : \A r \in u.records \cap Decoys : r \in matched
  <1> DEFINE lone == {[records |-> {r}, amount |-> Abs(records[r].amount)] :
                 r \in {s \in (DOMAIN records \ matched) \ Decoys : GatewayOf(s, BankBound)}}
  <1>1. SettlementUnits = GroupUnits(BankBound) \cup lone
    BY DEF SettlementUnits
  <1>2. \A u \in lone : \E r \in (DOMAIN records \ matched) \ Decoys :
            u = [records |-> {r}, amount |-> Abs(records[r].amount)]
            /\ records[r].source = "GATEWAY"
    BY DEF GatewayOf
  <1>3. \A u, v \in lone : u.records = v.records => u = v
    BY <1>2
  <1>4. \A u \in lone : \E r \in DOMAIN records \ matched :
            u.records = {r} /\ records[r].source = "GATEWAY"
    BY <1>2
  <1>5. \A u \in GroupUnits(BankBound) : u.records \subseteq matched
    BY DEF GroupUnits, OneGroupPerRecord
  <1>6. \A u \in lone : u.records \cap Decoys = {}
    BY <1>2
  <1> HIDE DEF lone
  <1> QED
    BY <1>1, <1>3, <1>4, <1>5, <1>6, GroupUnitsFit

LEMMA NetUnitsFit ==
    ASSUME OneGroupPerRecord, GroupsInv
    PROVE  /\ FitUnits(NetUnits)
           /\ \A u \in NetUnits : ~HasBank(u.records)
  <1> DEFINE lone == {[records |-> {r}, amount |-> records[r].amount] :
                 r \in {s \in DOMAIN records \ matched : GatewayOf(s, Nettable)}}
  <1>1. NetUnits = GroupUnits(Nettable) \cup lone
    BY DEF NetUnits
  <1>2. \A u \in lone : \E r \in DOMAIN records \ matched :
            u = [records |-> {r}, amount |-> records[r].amount]
            /\ records[r].source = "GATEWAY"
    BY DEF GatewayOf
  <1>3. \A u, v \in lone : u.records = v.records => u = v
    BY <1>2
  <1>4. \A u \in lone : \E r \in DOMAIN records \ matched :
            u.records = {r} /\ records[r].source = "GATEWAY"
    BY <1>2
  <1> HIDE DEF lone
  <1> QED
    BY <1>1, <1>3, <1>4, GroupUnitsFit

LEMMA BankCreditsFit ==
    /\ FitUnits(BankCredits)
    /\ \A u \in BankCredits : HasBank(u.records) /\ u.records \cap matched = {}
    /\ \A u \in BankCredits : \A r \in u.records : records[r].source = "BANK"
  <1>1. \A u \in BankCredits : \E r \in DOMAIN records \ matched :
            u = [records |-> {r}, amount |-> Abs(records[r].amount)]
            /\ records[r].source = "BANK"
    BY DEF BankCredits
  <1> QED
    BY <1>1 DEF FitUnits, Apart, Overlap, Available, HasBank

\* A credit and a unit of the gateway's side share no record.
LEMMA SidesApart ==
    ASSUME NEW u, NEW v, ~HasBank(u.records), \A r \in v.records : records[r].source = "BANK"
    PROVE  ~Overlap(u, v) /\ ~Overlap(v, u)
  BY DEF Overlap, HasBank

\* The state a pass starts in.
Fresh(p) ==
    /\ p \in Stages
    /\ items = ItemsOf(p) /\ waiting = TargetsOf(p)
    /\ pass = p /\ window = {} /\ pending = {}

LEMMA FreshInv ==
    ASSUME OneGroupPerRecord, GroupsInv, NEW p, Fresh(p)
    PROVE  AggregationInv
  <1>1. Targets = waiting
    BY DEF Targets, Fresh
  <1>2. FitUnits(items) /\ FitUnits(waiting)
    BY SettlementUnitsFit, NetUnitsFit, BankCreditsFit DEF Fresh, Stages, ItemsOf, TargetsOf
  <1>3. \A u \in items, v \in waiting : ~Overlap(u, v)
    BY SettlementUnitsFit, NetUnitsFit, BankCreditsFit, SidesApart
       DEF Fresh, Stages, ItemsOf, TargetsOf
  <1>4. UnitsInv
    BY <1>1, <1>2, <1>3 DEF UnitsInv, FitUnits, Apart
  <1>5. SidesInv
    BY <1>1, SettlementUnitsFit, BankCreditsFit DEF SidesInv, Fresh, Stages, ItemsOf, TargetsOf
  <1>6. WindowInv
    BY DEF WindowInv, Fresh
  <1>7. AvailableInv
    BY <1>1, <1>2 DEF AvailableInv, FitUnits
  <1> QED
    BY <1>4, <1>5, <1>6, <1>7 DEF AggregationInv

-----------------------------------------------------------------------------
(* The steps of a pass keep the invariant.                                 *)

LEMMA InitInv == Init => AggregationInv
  <1> SUFFICES ASSUME Init PROVE AggregationInv
    OBVIOUS
  <1>1. PICK input \in Inputs : records = input.records /\ groups = input.groups
    BY DEF Init
  <1>2. OneGroupPerRecord /\ GroupsInv
    <2>1. WellFormed(input)
      BY AggregationAssumption
    <2>2. \A g \in groups : g.members # {} /\ g \in Handed(records)
      BY <1>1, <2>1 DEF WellFormed
    <2>3. GroupsInv
      BY <2>2 DEF GroupsInv, Handed
    <2>4. DisjointMembers(groups)
      BY <1>1, <2>1 DEF WellFormed
    <2> QED
      BY <2>3, <2>4 DEF Init, OneGroupPerRecord
  <1>3. Fresh("STAGE3_A")
    BY DEF Init, Fresh, Stages
  <1> QED
    BY <1>2, <1>3, FreshInv

LEMMA CandidatesAreItems ==
    \A target : \A c \in Candidates(target) : c \subseteq items
  BY DEF Candidates, Combos, kSubset, Pool

LEMMA SearchFinds ==
    ASSUME NEW target \in waiting,
           TooLarge(target) \/ FindsBest(target) \/ FindsNothing(target) \/ TimesOut(target)
    PROVE  \E o : o.target = target /\ o.best \subseteq items /\ Searched(o)
  BY CandidatesAreItems DEF TooLarge, FindsBest, FindsNothing, TimesOut, Outcome

LEMMA SearchKeepsInv ==
    ASSUME AggregationInv, Search
    PROVE  AggregationInv'
  <1>1. PICK target \in waiting : \E o : /\ o.target = target
                                        /\ o.best \subseteq items
                                        /\ Searched(o)
    BY SearchFinds DEF Search
  <1>2. PICK o : o.target = target /\ o.best \subseteq items /\ Searched(o)
    BY <1>1
  <1>3. /\ UNCHANGED <<records, groups, matched, pass, items>>
        /\ waiting' = waiting \ {target}
        /\ window' = window \cup {o}
        /\ pending' = window'
    BY <1>2 DEF Searched, AggregationInv, WindowInv
  <1>4. Targets' = Targets
    BY <1>2, <1>3 DEF Targets
  <1>5. OneGroupPerRecord' /\ GroupsInv'
    BY <1>3 DEF AggregationInv, OneGroupPerRecord, GroupsInv
  <1>6. UnitsInv'
    BY <1>3, <1>4 DEF AggregationInv, UnitsInv
  <1>7. SidesInv'
    BY <1>3, <1>4 DEF AggregationInv, SidesInv, HasBank, Decoys, Twins
  <1>8. WindowInv'
    BY <1>2, <1>3 DEF AggregationInv, WindowInv
  <1>9. AvailableInv'
    <2>1. \A u \in items \cup Targets : Available(u)
      BY DEF AggregationInv, AvailableInv, IsUsed, Concluding, WindowInv
    <2>2. \A u \in items \cup Targets : Available(u)'
      BY <1>3, <2>1 DEF Available, HasBank
    <2> QED
      BY <1>3, <1>4, <2>2 DEF AvailableInv
  <1> QED
    BY <1>5, <1>6, <1>7, <1>8, <1>9 DEF AggregationInv

\* What a concluded outcome leaves of the invariant's parts about the search.
LEMMA ConcludedKeeps ==
    ASSUME AggregationInv, waiting = {}, NEW o \in pending, Concluded(o),
           matched \subseteq matched'
    PROVE  UnitsInv' /\ SidesInv' /\ WindowInv' /\ Targets' = Targets
  <1>1. /\ UNCHANGED <<records, pass, items, waiting, window>>
        /\ pending' = pending \ {o}
    BY DEF Concluded, search
  <1>2. Targets' = Targets
    BY <1>1 DEF Targets
  <1>3. UnitsInv'
    BY <1>1, <1>2 DEF AggregationInv, UnitsInv
  <1>4. SidesInv'
    BY <1>1, <1>2 DEF AggregationInv, SidesInv, HasBank, Decoys, Twins
  <1>5. WindowInv'
    BY <1>1 DEF AggregationInv, WindowInv
  <1> QED
    BY <1>2, <1>3, <1>4, <1>5

LEMMA UsedStays ==
    ASSUME AggregationInv, NEW o \in pending, Concluded(o), NEW u
    PROVE  /\ IsUsed(u) => IsUsed(u)'
           /\ Emits(o) /\ u \in Given(o) => IsUsed(u)'
  <1>1. UNCHANGED <<pass, window>> /\ Concluding' = Concluding \cup {o}
    BY DEF Concluded, search, Concluding, AggregationInv, WindowInv
  <1>2. \A p : Emits(p)' <=> Emits(p)
    BY <1>1, EmitsStays
  <1> QED
    BY <1>1, <1>2 DEF IsUsed, Given

LEMMA ConcludeKeepsInv ==
    ASSUME AggregationInv, waiting = {}, NEW o \in pending,
           EmitGroup(o) \/ DeclineOverlap(o) \/ DeclineUnsearched(o) \/ DeclineWeak(o)
    PROVE  AggregationInv'
  <1>1. CASE EmitGroup(o)
    <2>1. Concluded(o) /\ Emits(o) /\ matched \subseteq matched' /\ items' = items
      BY <1>1 DEF EmitGroup, Concluded, search
    <2>2. Targets' = Targets
      BY <2>1, ConcludedKeeps
    <2>3. \A u \in items \cup Targets : Available(u)' \/ IsUsed(u)'
      BY <1>1, <2>1, EmitLeavesOthers, UsedStays DEF AggregationInv, AvailableInv
    <2>4. AvailableInv'
      BY <2>1, <2>2, <2>3 DEF AvailableInv
    <2> QED
      BY <1>1, <2>1, <2>4, EmitKeepsPartition, ConcludedKeeps DEF AggregationInv
  <1>2. CASE DeclineOverlap(o) \/ DeclineUnsearched(o) \/ DeclineWeak(o)
    <2>1. Concluded(o) /\ UNCHANGED <<groups, matched>>
      BY <1>2 DEF DeclineOverlap, DeclineUnsearched, DeclineWeak, DeclineWith
    <2>2. items' = items /\ records' = records
      BY <2>1 DEF Concluded, search
    <2>3. Targets' = Targets
      BY <2>1, ConcludedKeeps
    <2>4. \A u : Available(u) => Available(u)'
      BY <2>1, <2>2 DEF Available, HasBank
    <2>5. AvailableInv'
      BY <2>1, <2>2, <2>3, <2>4, UsedStays DEF AggregationInv, AvailableInv
    <2>6. OneGroupPerRecord' /\ GroupsInv'
      BY <2>1, <2>2 DEF AggregationInv, OneGroupPerRecord, GroupsInv
    <2> QED
      BY <2>1, <2>5, <2>6, ConcludedKeeps DEF AggregationInv
  <1> QED
    BY <1>1, <1>2

LEMMA FreshInvNext ==
    OneGroupPerRecord' /\ GroupsInv' /\ Fresh(pass)' => AggregationInv'
  <1>1. OneGroupPerRecord /\ GroupsInv /\ Fresh(pass) => AggregationInv
    BY FreshInv
  <1> QED
    BY <1>1, PTL

LEMMA StartPassKeepsInv ==
    ASSUME AggregationInv, StartPass
    PROVE  AggregationInv'
  <1>1. UNCHANGED <<records, groups, matched>>
    BY DEF StartPass
  <1>2. OneGroupPerRecord' /\ GroupsInv'
    BY <1>1 DEF AggregationInv, OneGroupPerRecord, GroupsInv
  <1>3. CASE pass' = "DONE"
    <2>1. /\ items' = {} /\ waiting' = {} /\ window' = {} /\ pending' = {}
          /\ Targets' = {}
      BY <1>3 DEF StartPass, Targets
    <2> QED
      BY <1>2, <1>3, <2>1 DEF AggregationInv, UnitsInv, SidesInv, WindowInv, AvailableInv
  <1>4. CASE pass' # "DONE"
    <2>1. pass' \in Stages
      BY <1>4 DEF StartPass, NextPass, Stages
    <2>2. /\ items' = ItemsOf(pass') /\ waiting' = TargetsOf(pass')
          /\ window' = {} /\ pending' = {}
      BY <1>4 DEF StartPass
    <2>3. ItemsOf(pass') = ItemsOf(pass)' /\ TargetsOf(pass') = TargetsOf(pass)'
      BY <1>1 DEF ItemsOf, TargetsOf, SettlementUnits, NetUnits, BankCredits, GroupUnits,
                  GatewayOf, Decoys, Twins, HasBank, Rows
    <2>4. Fresh(pass)'
      BY <2>1, <2>2, <2>3 DEF Fresh
    <2> QED
      BY <1>2, <2>4, FreshInvNext
  <1> QED
    BY <1>3, <1>4

LEMMA NextInv == AggregationInv /\ [Next]_vars => AggregationInv'
  <1> SUFFICES ASSUME AggregationInv, [Next]_vars PROVE AggregationInv'
    OBVIOUS
  <1>1. CASE Search
    BY <1>1, SearchKeepsInv
  <1>2. CASE Conclude
    BY <1>2, ConcludeKeepsInv DEF Conclude
  <1>3. CASE StartPass
    BY <1>3, StartPassKeepsInv
  <1>4. CASE UNCHANGED vars
    <2>1. /\ UNCHANGED <<records, groups, matched, pass, items, waiting, window, pending>>
          /\ Targets' = Targets /\ Concluding' = Concluding
      BY <1>4 DEF vars, search, Targets, Concluding
    <2>2. \A u : (Available(u)' <=> Available(u)) /\ (IsUsed(u)' <=> IsUsed(u))
      BY <2>1, EmitsStays DEF Available, HasBank, IsUsed, Given
    <2>3. AvailableInv'
      BY <2>1, <2>2 DEF AggregationInv, AvailableInv
    <2>4. OneGroupPerRecord' /\ GroupsInv' /\ UnitsInv' /\ WindowInv'
      BY <2>1 DEF AggregationInv, OneGroupPerRecord, GroupsInv, UnitsInv, WindowInv
    <2>5. SidesInv'
      BY <2>1 DEF AggregationInv, SidesInv, HasBank, Decoys, Twins
    <2> QED
      BY <2>3, <2>4, <2>5 DEF AggregationInv
  <1> QED
    BY <1>1, <1>2, <1>3, <1>4 DEF Next

\* Whatever Stages 3 and 4 search, time out on and merge, no record is claimed
\* twice and matched_ids are the members of the groups.
THEOREM OneGroup == Spec => []OneGroupPerRecord
  <1>1. AggregationInv => OneGroupPerRecord
    BY DEF AggregationInv
  <1> QED
    BY <1>1, InitInv, NextInv, PTL DEF Spec

-----------------------------------------------------------------------------
(* NothingStrongIsDropped                                                  *)

Strong(o) == o.limit # "NONE" \/ (o.best # {} /\ ClearsBar(o))
Reported(o) ==
    \/ Banked(o.target.records)
    \/ \E e \in exceptions : e.stage = pass /\ e.about = o.target.records

\* A banked group is in no one's way: what is taken in has no bank leg.
LEMMA BankedStays ==
    ASSUME AggregationInv, NEW o \in pending, EmitGroup(o), NEW rs, Banked(rs)
    PROVE  Banked(rs)'
  <1>1. PICK g \in groups : rs \subseteq g.members /\ HasBank(g.members)
    BY DEF Banked
  <1>2. /\ groups' = (groups \ Taken(o)) \cup {MergedGroup(o)}
        /\ records' = records
        /\ Emits(o)
    BY DEF EmitGroup, Concluded, Taken
  <1>3. g \notin Taken(o)
    BY <1>1, <1>2, PartsAre
  <1> QED
    BY <1>1, <1>2, <1>3 DEF Banked, HasBank

LEMMA EmittedIsBanked ==
    ASSUME AggregationInv, NEW o \in pending, EmitGroup(o), pass # "DONE"
    PROVE  Banked(o.target.records)'
  <1>1. Emits(o) /\ MergedGroup(o) \in groups' /\ records' = records
    BY DEF EmitGroup, Concluded
  <1>2. MergedGroup(o).members = UNION Parts(o)
    BY DEF MergedGroup
  <1>3. o.target.records \subseteq UNION Parts(o)
    BY DEF Parts
  <1>4. HasBank(UNION Parts(o))
    BY <1>1, LooseHasBank, PartsAre DEF HasBank
  <1> QED
    BY <1>1, <1>2, <1>3, <1>4 DEF Banked, HasBank

LEMMA DeclineReports ==
    ASSUME NEW o, NEW reason, NEW aside, DeclineWith(o, reason, aside)
    PROVE  Reported(o)'
  <1> DEFINE e == [stage |-> pass, reason |-> reason, about |-> o.target.records, aside |-> aside]
  <1>1. e \in exceptions' /\ e.stage = pass /\ e.about = o.target.records
    BY DEF DeclineWith
  <1>2. pass' = pass
    BY DEF DeclineWith, Concluded, search
  <1> HIDE DEF e
  <1> QED
    BY <1>1, <1>2 DEF Reported

LEMMA DeclinedIsReported ==
    ASSUME NEW o \in pending, Strong(o),
           DeclineOverlap(o) \/ DeclineUnsearched(o) \/ DeclineWeak(o)
    PROVE  Reported(o)'
  <1>1. CASE DeclineOverlap(o)
    BY <1>1, DeclineReports DEF DeclineOverlap
  <1>2. CASE DeclineUnsearched(o)
    BY <1>2, DeclineReports DEF DeclineUnsearched
  <1>3. CASE DeclineWeak(o)
    BY <1>3 DEF DeclineWeak, Strong, Accepted
  <1> QED
    BY <1>1, <1>2, <1>3

NothingDroppedInv ==
    /\ pass = "DONE" => window = {} /\ waiting = {}
    /\ \A o \in Concluding : Strong(o) => Reported(o)

LEMMA NothingDroppedStep ==
    AggregationInv /\ NothingDroppedInv /\ [Next]_vars => NothingDroppedInv'
  <1> SUFFICES ASSUME AggregationInv, NothingDroppedInv, [Next]_vars
               PROVE  NothingDroppedInv'
    OBVIOUS
  <1>1. \A o : Strong(o)' <=> Strong(o)
    BY DEF Strong, ClearsBar, Threshold, MinMargin
  <1>2. CASE Search
    <2>1. Concluding' = {} /\ pass' # "DONE"
      <3>1. PICK o : Searched(o)
        BY <1>2, SearchFinds DEF Search
      <3>2. waiting # {} /\ pending = window
        BY <1>2 DEF Search, AggregationInv, WindowInv
      <3> QED
        BY <3>1, <3>2 DEF Searched, Concluding, NothingDroppedInv
    <2> QED
      BY <2>1 DEF NothingDroppedInv
  <1>3. ASSUME NEW o \in pending, waiting = {},
               EmitGroup(o) \/ DeclineOverlap(o) \/ DeclineUnsearched(o) \/ DeclineWeak(o)
        PROVE  NothingDroppedInv'
    <2>1. /\ Concluding' = Concluding \cup {o} /\ UNCHANGED <<records, pass, window>>
          /\ o \in window
      BY <1>3 DEF EmitGroup, DeclineOverlap, DeclineUnsearched, DeclineWeak, DeclineWith,
                  Concluded, search, Concluding, AggregationInv, WindowInv
    <2>2. pass # "DONE"
      BY <2>1 DEF NothingDroppedInv
    <2>3. \A p \in Concluding : Reported(p) => Reported(p)'
      <3>1. CASE EmitGroup(o)
        BY <2>1, <3>1, BankedStays DEF EmitGroup, Reported
      <3>2. CASE DeclineOverlap(o) \/ DeclineUnsearched(o) \/ DeclineWeak(o)
        <4>1. groups' = groups /\ exceptions \subseteq exceptions'
          BY <3>2 DEF DeclineOverlap, DeclineUnsearched, DeclineWeak, DeclineWith
        <4> QED
          BY <2>1, <4>1 DEF Reported, Banked, HasBank
      <3> QED
        BY <1>3, <3>1, <3>2
    <2>4. Strong(o) => Reported(o)'
      BY <1>3, <2>2, EmittedIsBanked, DeclinedIsReported DEF Reported
    <2> QED
      BY <1>1, <2>1, <2>2, <2>3, <2>4 DEF NothingDroppedInv
  <1>4. CASE StartPass
    BY <1>4 DEF StartPass, NothingDroppedInv, Concluding
  <1>5. CASE UNCHANGED vars
    BY <1>1, <1>5 DEF vars, search, NothingDroppedInv, Concluding, Reported, Banked, HasBank
  <1> QED
    BY <1>2, <1>3, <1>4, <1>5 DEF Next, Conclude

\* A confident answer and a window given up leave a banked group or an
\* exception about their target, whatever else the pass decided.
THEOREM NothingDropped == Spec => []NothingStrongIsDropped
  <1>1. Init => NothingDroppedInv
    BY DEF Init, NothingDroppedInv, Concluding
  <1>2. NothingDroppedInv => NothingStrongIsDropped
    BY DEF NothingDroppedInv, NothingStrongIsDropped, Strong, Reported, Concluding
  <1> QED
    BY <1>1, <1>2, InitInv, NextInv, NothingDroppedStep, PTL DEF Spec

-----------------------------------------------------------------------------
(* NoDecoyTakenUp                                                          *)

TakesUpNoDecoy ==
    \A g \in groups' \ groups : g.proposed_by = "STAGE3_AGGREGATE" =>
        \A r \in g.members \ matched : records[r].source = "GATEWAY" =>
            ~\E s \in DOMAIN records : s < r /\ Twins(r, s)

LEMMA EmitTakesUpNoDecoy ==
    ASSUME AggregationInv, NEW o \in pending, EmitGroup(o)
    PROVE  TakesUpNoDecoy
  <1> SUFFICES ASSUME NEW g \in groups' \ groups, g.proposed_by = "STAGE3_AGGREGATE",
                      NEW r \in g.members \ matched, records[r].source = "GATEWAY"
               PROVE  ~\E s \in DOMAIN records : s < r /\ Twins(r, s)
    BY DEF TakesUpNoDecoy
  <1>1. g = MergedGroup(o)
    BY DEF EmitGroup
  <1>2. pass # "STAGE4" /\ r \in UNION Parts(o)
    BY <1>1 DEF MergedGroup
  <1>3. PICK u \in Given(o) : r \in u.records
    BY <1>2 DEF Parts, Given
  <1>4. u \in items \cup Targets
    BY GivenInPlay DEF AggregationInv, WindowInv
  <1>5. r \in DOMAIN records /\ r \notin Decoys
    BY <1>2, <1>3, <1>4 DEF AggregationInv, SidesInv, UnitsInv
  <1> QED
    BY <1>5 DEF Decoys

LEMMA StepTakesUpNoDecoy == AggregationInv /\ [Next]_vars => TakesUpNoDecoy
  <1> SUFFICES ASSUME AggregationInv, [Next]_vars PROVE TakesUpNoDecoy
    OBVIOUS
  <1>1. CASE \E o \in pending : EmitGroup(o)
    BY <1>1, EmitTakesUpNoDecoy
  <1>2. CASE groups' = groups
    BY <1>2 DEF TakesUpNoDecoy
  <1>3. \A o : Searched(o) => groups' = groups
    BY DEF Searched
  <1>4. \A o : DeclineOverlap(o) \/ DeclineUnsearched(o) \/ DeclineWeak(o) => groups' = groups
    BY DEF DeclineOverlap, DeclineUnsearched, DeclineWeak, DeclineWith
  <1>5. StartPass \/ UNCHANGED vars => groups' = groups
    BY DEF StartPass, vars
  <1> QED
    BY <1>1, <1>2, <1>3, <1>4, <1>5, SearchFinds DEF Next, Search, Conclude

\* In both directions Stage 3 takes up no lone gateway record that repeats the
\* reference and slot of an earlier one.
THEOREM DecoysStayOut == Spec => NoDecoyTakenUp
  <1>1. AggregationInv /\ [Next]_vars => [TakesUpNoDecoy]_vars
    BY StepTakesUpNoDecoy
  <1> QED
    BY <1>1, InitInv, NextInv, PTL DEF Spec, NoDecoyTakenUp, TakesUpNoDecoy

-----------------------------------------------------------------------------
(* ImplementsGrouping                                                      *)

LEMMA EmitIsAbstract ==
    ASSUME AggregationInv, NEW o \in pending, EmitGroup(o), pass # "DONE"
    PROVE  Abstract!Next
  <1> DEFINE blocks(gs) == {g.members : g \in gs}
  <1>1. PICK taken, parts, loose, new : /\ taken = Taken(o) /\ parts = blocks(taken)
                                        /\ loose = Loose(o) /\ new = MergedGroup(o)
    OBVIOUS
  <1>2. /\ groups' = (groups \ taken) \cup {new}
        /\ matched' = matched \cup loose
        /\ records' = records
        /\ Emits(o)
    BY <1>1, PartsAre DEF EmitGroup, Concluded, Taken
  <1>3. parts \in SUBSET Abstract!Open
    BY <1>1, <1>2, PartsAre DEF Taken, Abstract!Open, HasBank, AggregationInv, GroupsInv
  <1>4. blocks(groups \ taken) = blocks(groups) \ parts
    BY <1>1 DEF Taken
  <1>5. blocks(groups') = blocks(groups \ taken) \cup {new.members}
    BY <1>2
  <1>6. new.members = (UNION parts) \cup loose
    BY <1>1, <1>2, PartsAre DEF MergedGroup
  <1>7. (DOMAIN records \ matched)' = (DOMAIN records \ matched) \ loose
    BY <1>2
  <1>8. {r \in DOMAIN records : records[r].source = "BANK"}'
            = {r \in DOMAIN records : records[r].source = "BANK"}
    BY <1>2
  <1>9. Abstract!Join(parts, loose)
    BY <1>4, <1>5, <1>6, <1>7, <1>8 DEF Abstract!Join
  <1>10. loose \in SUBSET (DOMAIN records \ matched) /\ loose # {}
    BY <1>1, <1>2, PartsAre, LooseHasBank DEF HasBank
  <1> QED
    BY <1>3, <1>9, <1>10 DEF Abstract!Next

Quiet == UNCHANGED <<{g.members : g \in groups}, DOMAIN records \ matched,
                     {r \in DOMAIN records : records[r].source = "BANK"}>>

LEMMA GroupingStep ==
    AggregationInv /\ NothingDroppedInv /\ [Next]_vars => Abstract!Next \/ Quiet
  <1> SUFFICES ASSUME AggregationInv, NothingDroppedInv, [Next]_vars
               PROVE  Abstract!Next \/ Quiet
    OBVIOUS
  <1>1. ASSUME NEW o \in pending, EmitGroup(o)
        PROVE  Abstract!Next
    BY <1>1, EmitIsAbstract DEF NothingDroppedInv, AggregationInv, WindowInv
  <1>2. CASE UNCHANGED <<records, groups, matched>>
    BY <1>2 DEF Quiet
  <1>3. \A o : Searched(o) => UNCHANGED <<records, groups, matched>>
    BY DEF Searched
  <1>4. \A o : DeclineOverlap(o) \/ DeclineUnsearched(o) \/ DeclineWeak(o)
                  => UNCHANGED <<records, groups, matched>>
    BY DEF DeclineOverlap, DeclineUnsearched, DeclineWeak, DeclineWith, Concluded
  <1>5. StartPass \/ UNCHANGED vars => UNCHANGED <<records, groups, matched>>
    BY DEF StartPass, vars
  <1> QED
    BY <1>1, <1>2, <1>3, <1>4, <1>5, SearchFinds DEF Next, Search, Conclude

\* Every group Stages 3 and 4 make joins open groups with unclaimed records,
\* its bank credit among them; groups with their bank leg stay as they are.
THEOREM AggregationImplementsGrouping == Spec => ImplementsGrouping
  <1>1. Init => Abstract!Init
    <2> SUFFICES ASSUME Init PROVE Abstract!Init
      OBVIOUS
    <2>1. OneGroupPerRecord
      BY InitInv DEF AggregationInv
    <2> QED
      BY <2>1 DEF OneGroupPerRecord, DisjointMembers, Abstract!Init
  <1>2. Init => NothingDroppedInv
    BY DEF Init, NothingDroppedInv, Concluding
  <1> QED
    BY <1>1, <1>2, InitInv, NextInv, NothingDroppedStep, GroupingStep, PTL
       DEF Spec, ImplementsGrouping, Abstract!Spec, Quiet
=============================================================================
