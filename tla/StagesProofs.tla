---------------------------- MODULE StagesProofs ----------------------------
(***************************************************************************)
(* Proofs about Stages for any records, similarities and margins: the      *)
(* groups of all stages partition the matched records, Stage 1's policy    *)
(* stays with Stage 1's clusters, a group of Stages 1, 2 and 5 is about    *)
(* one event, and the stages implement Grouping.                           *)
(***************************************************************************)
EXTENDS Stages, SumLemmas

\* A group has members, all of them records of the run; while Stage 1 runs
\* its groups are clusters.
GroupsInv ==
    /\ \A g \in groups : g.members # {} /\ g.members \subseteq DOMAIN records
    /\ pass = "STAGE1" => groups \subseteq ExactGroups

SeekerSource == CASE pass \in PassA -> "LEDGER"
                  [] pass \in {"STAGE2_B", "STAGE5_B"} -> "GATEWAY"
                  [] OTHER -> "NONE"

\* A seeker has a counterpart to look for and comes from the source of its
\* pass; but for Stage 2's second pass it is unmatched until its turn.
SeekersInv ==
    /\ pass \in DOMAIN Following \cup {"DONE"}
    /\ pass \in {"STAGE1", "STAGES3_4", "DONE"} => seekers = {}
    /\ \A r \in seekers : /\ r \in DOMAIN records
                          /\ records[r].source = SeekerSource
                          /\ TargetEntity(records[r]) # "NONE"
    /\ pass # "STAGE2_B" => seekers \cap matched = {}

StagesInv == OneGroupPerRecord /\ GroupsInv /\ SeekersInv

-----------------------------------------------------------------------------
(* Stage 1                                                                 *)

\* Clusters are classes of records: none is empty, and two that share a record
\* are one.
LEMMA ClustersApart ==
    /\ \A c \in Clusters : c # {} /\ c \subseteq DOMAIN records
    /\ \A c, d \in Clusters : c # d => c \cap d = {}
  BY DEF Clusters, SameCluster

LEMMA ExactGroupsTyped ==
    \A g \in ExactGroups : /\ g.members \in Clusters
                           /\ QualifiesForStage1(g.members)
                           /\ g = Group(g.members, "STAGE1_EXACT", "AUTO_COMMIT_STAGE1", 0)
  BY DEF ExactGroups, Group

LEMMA ExactGroupsApart ==
    /\ \A g \in ExactGroups : g.members # {} /\ g.members \subseteq DOMAIN records
    /\ \A g, h \in ExactGroups : g # h => g.members \cap h.members = {}
  BY ExactGroupsTyped, ClustersApart

-----------------------------------------------------------------------------
(* Every step that changes the groups joins open ones with free records.   *)

Joins(parts, loose, g) ==
    /\ parts \subseteq groups
    /\ \A h \in parts : ~HasBank(h.members)
    /\ loose # {} /\ loose \subseteq DOMAIN records \ matched
    /\ g.members = Merged(parts, loose)
    /\ groups' = (groups \ parts) \cup {g}
    /\ matched' = matched \cup loose
    /\ records' = records

LEMMA JoinKeepsPartition ==
    ASSUME OneGroupPerRecord, GroupsInv,
           NEW parts, NEW loose, NEW g, Joins(parts, loose, g)
    PROVE  /\ OneGroupPerRecord'
           /\ \A h \in groups' : h.members # {} /\ h.members \subseteq (DOMAIN records)'
  <1> USE DEF Joins, Merged
  <1>1. \A h \in groups \ parts : h.members \cap g.members = {}
    <2> SUFFICES ASSUME NEW h \in groups \ parts, NEW r \in h.members \cap g.members
                 PROVE  FALSE
      OBVIOUS
    <2>1. r \notin loose
      BY DEF OneGroupPerRecord
    <2>2. PICK k \in parts : r \in k.members
      BY <2>1
    <2> QED
      BY <2>2 DEF OneGroupPerRecord, DisjointMembers
  <1>2. DisjointMembers(groups')
    BY <1>1 DEF OneGroupPerRecord, DisjointMembers
  <1>3. matched' = UNION {h.members : h \in groups'}
    <2>1. \A r \in matched' : \E h \in groups' : r \in h.members
      BY DEF OneGroupPerRecord
    <2>2. \A h \in groups' : h.members \subseteq matched'
      BY DEF OneGroupPerRecord
    <2> QED
      BY <2>1, <2>2
  <1>4. g.members # {} /\ g.members \subseteq DOMAIN records
    BY DEF GroupsInv
  <1> QED
    BY <1>2, <1>3, <1>4 DEF OneGroupPerRecord, GroupsInv

LEMMA CandidatesAreFree ==
    ASSUME NEW r, NEW c, Confident(r, c)
    PROVE  /\ c \in DOMAIN records \ matched
           /\ records[c].source = IF pass \in PassA THEN "GATEWAY" ELSE "BANK"
           /\ records[c].entity_type = TargetEntity(records[r])
           /\ records[c].currency = records[r].currency
  BY DEF Confident, Scored, CandidatePool

LEMMA ProposeExactJoins ==
    ASSUME StagesInv, ProposeExact
    PROVE  \E g \in ExactGroups : Joins({}, g.members, g)
  <1>1. PICK g \in ExactGroups \ groups :
            groups' = groups \cup {g} /\ matched' = matched \cup g.members
    BY DEF ProposeExact
  <1>2. \A h \in groups : h.members \cap g.members = {}
    BY ExactGroupsApart DEF ProposeExact, StagesInv, GroupsInv
  <1>3. g.members \cap matched = {}
    BY <1>2 DEF StagesInv, OneGroupPerRecord
  <1> QED
    BY <1>1, <1>3, ExactGroupsApart DEF ProposeExact, Joins, Merged

LEMMA ProposePairJoins ==
    ASSUME StagesInv, NEW r \in seekers, ProposePair(r)
    PROVE  \E c \in DOMAIN records :
               /\ Confident(r, c)
               /\ Joins({}, {r, c}, Group({r, c}, ProposedBy, "AUTO_COMMIT_STAGE2_5_THRESHOLD",
                                          ScoreMargin(r, c)))
  <1>1. PICK c \in DOMAIN records :
            /\ Confident(r, c)
            /\ groups' = groups \cup {Group({r, c}, ProposedBy, "AUTO_COMMIT_STAGE2_5_THRESHOLD",
                                            ScoreMargin(r, c))}
            /\ matched' = matched \cup {r, c}
    BY DEF ProposePair
  <1>2. {r, c} \subseteq DOMAIN records \ matched
    BY <1>1, CandidatesAreFree DEF ProposePair, StagesInv, SeekersInv
  <1> QED
    BY <1>1, <1>2 DEF ProposePair, Takes, Joins, Merged, Group

LEMMA AttachBankLegJoins ==
    ASSUME StagesInv, NEW r \in seekers, AttachBankLeg(r)
    PROVE  \E g \in groups, c \in DOMAIN records :
               /\ r \in g.members /\ ~HasBank(g.members) /\ Confident(r, c)
               /\ Joins({g}, {c}, Group(g.members \cup {c}, "STAGE2_CONSTRAINED",
                                        "AUTO_COMMIT_STAGE2_5_THRESHOLD", ScoreMargin(r, c)))
  <1>1. PICK g \in groups, c \in DOMAIN records :
            /\ r \in g.members /\ ~HasBank(g.members) /\ Confident(r, c)
            /\ groups' = (groups \ {g}) \cup
                   {Group(g.members \cup {c}, "STAGE2_CONSTRAINED",
                          "AUTO_COMMIT_STAGE2_5_THRESHOLD", ScoreMargin(r, c))}
            /\ matched' = matched \cup {c}
    BY DEF AttachBankLeg
  <1> QED
    BY <1>1, CandidatesAreFree DEF AttachBankLeg, Takes, Joins, Merged, Group

LEMMA AggregateJoins ==
    ASSUME StagesInv, Aggregate
    PROVE  \E parts \in SUBSET groups, loose \in SUBSET DOMAIN records :
               /\ HasBank(loose)
               /\ Joins(parts, loose, Group(Merged(parts, loose), "STAGE3_AGGREGATE",
                                            "AUTO_COMMIT_STAGE2_5_THRESHOLD", 1000))
  <1>1. PICK parts \in SUBSET {g \in groups : ~HasBank(g.members)},
             loose \in SUBSET {r \in DOMAIN records \ matched :
                                   \/ records[r].source = "GATEWAY"
                                   \/ records[r].entity_type = "BANK_CREDIT"} :
            /\ HasBank(loose)
            /\ groups' = (groups \ parts) \cup
                   {Group(Merged(parts, loose),
                          "STAGE3_AGGREGATE", "AUTO_COMMIT_STAGE2_5_THRESHOLD", 1000)}
            /\ matched' = matched \cup loose
    BY DEF Aggregate
  <1>2. loose # {}
    BY <1>1 DEF HasBank
  <1> QED
    BY <1>1, <1>2 DEF Aggregate, Joins, Group

-----------------------------------------------------------------------------
(* OneGroupPerRecord                                                       *)

LEMMA InitInv == Init => StagesInv
  BY DEF Init, StagesInv, OneGroupPerRecord, DisjointMembers, GroupsInv, SeekersInv, Following

LEMMA SeekersFollow ==
    ASSUME SeekersInv, NextStage
    PROVE  SeekersInv'
  <1>1. pass' \in DOMAIN Following \cup {"DONE"} /\ pass' # "STAGE1"
    BY DEF NextStage, SeekersInv, Following
  <1>2. \A r \in seekers' : /\ r \in DOMAIN records
                            /\ records[r].source = SeekerSource'
                            /\ TargetEntity(records[r]) # "NONE"
    BY <1>1 DEF NextStage, SeekersOf, SeekerSource, PassA, Following
  <1>3. pass' # "STAGE2_B" => seekers' \cap matched = {}
    BY <1>1 DEF NextStage, SeekersOf, PassA, Following
  <1>4. pass' \in {"STAGES3_4", "DONE"} => seekers' = {}
    BY DEF NextStage, SeekersOf, PassA
  <1> QED
    BY <1>1, <1>2, <1>3, <1>4 DEF NextStage, SeekersInv

\* A turn takes its seeker and no other out of the unmatched ones.
LEMMA TurnKeepsSeekers ==
    ASSUME SeekersInv, NEW r \in seekers, Takes(r), NEW s, NEW c,
           matched' = matched \cup s, s \subseteq {r, c},
           s # {} => Confident(r, c)
    PROVE  SeekersInv'
  <1>1. c \in s => c \notin seekers
    BY CandidatesAreFree DEF SeekersInv, SeekerSource, PassA, Following
  <1>2. seekers' = seekers \ {r} /\ pass' = pass /\ records' = records
    BY DEF Takes
  <1>3. SeekerSource' = SeekerSource
    BY <1>2 DEF SeekerSource
  <1> QED
    BY <1>1, <1>2, <1>3 DEF SeekersInv

LEMMA SeekKeepsInv ==
    ASSUME StagesInv, NEW r \in seekers,
           ProposePair(r) \/ AttachBankLeg(r) \/ HasItsBankLeg(r) \/ DeclinesAll(r)
    PROVE  StagesInv'
  <1>1. pass' # "STAGE1"
    BY DEF ProposePair, AttachBankLeg, HasItsBankLeg, DeclinesAll, Takes, StagesInv, SeekersInv
  <1>2. CASE ProposePair(r)
    <2>1. PICK c \in DOMAIN records :
              /\ Confident(r, c)
              /\ Joins({}, {r, c}, Group({r, c}, ProposedBy, "AUTO_COMMIT_STAGE2_5_THRESHOLD",
                                         ScoreMargin(r, c)))
      BY <1>2, ProposePairJoins
    <2>2. SeekersInv'
      <3>1. Takes(r) /\ matched' = matched \cup {r, c}
        BY <1>2, <2>1 DEF ProposePair, Joins
      <3> QED
        BY <2>1, <3>1, TurnKeepsSeekers DEF StagesInv
    <2> QED
      BY <1>1, <2>1, <2>2, JoinKeepsPartition DEF StagesInv, GroupsInv
  <1>3. CASE AttachBankLeg(r)
    <2>1. PICK g \in groups, c \in DOMAIN records :
              /\ Confident(r, c)
              /\ Joins({g}, {c}, Group(g.members \cup {c}, "STAGE2_CONSTRAINED",
                                       "AUTO_COMMIT_STAGE2_5_THRESHOLD", ScoreMargin(r, c)))
      BY <1>3, AttachBankLegJoins
    <2>2. SeekersInv'
      <3>1. Takes(r) /\ matched' = matched \cup {c}
        BY <1>3, <2>1 DEF AttachBankLeg, Joins
      <3> QED
        BY <2>1, <3>1, TurnKeepsSeekers DEF StagesInv
    <2> QED
      BY <1>1, <2>1, <2>2, JoinKeepsPartition DEF StagesInv, GroupsInv
  <1>4. CASE HasItsBankLeg(r) \/ DeclinesAll(r)
    <2>1. Takes(r) /\ UNCHANGED <<groups, matched, records, pass>>
      BY <1>4 DEF HasItsBankLeg, DeclinesAll, Takes
    <2>2. seekers' = seekers \ {r}
      BY <2>1 DEF Takes
    <2>3. SeekersInv'
      BY <2>1, <2>2 DEF StagesInv, SeekersInv, SeekerSource
    <2> QED
      BY <1>1, <2>1, <2>3 DEF StagesInv, OneGroupPerRecord, GroupsInv
  <1> QED
    BY <1>2, <1>3, <1>4

LEMMA NextInv == StagesInv /\ [Next]_vars => StagesInv'
  <1> SUFFICES ASSUME StagesInv, [Next]_vars PROVE StagesInv'
    OBVIOUS
  <1>1. CASE ProposeExact
    <2>1. PICK g \in ExactGroups : Joins({}, g.members, g)
      BY <1>1, ProposeExactJoins
    <2>2. UNCHANGED <<records, pass, seekers>> /\ pass = "STAGE1"
      BY <1>1 DEF ProposeExact
    <2>3. SeekersInv'
      BY <2>2 DEF StagesInv, SeekersInv
    <2>4. ExactGroups' = ExactGroups
      BY <2>2 DEF ExactGroups, Clusters, SameCluster, QualifiesForStage1, Rows
    <2>5. groups' \subseteq ExactGroups'
      BY <2>1, <2>2, <2>4 DEF Joins, StagesInv, GroupsInv
    <2> QED
      BY <2>1, <2>3, <2>5, JoinKeepsPartition DEF StagesInv, GroupsInv
  <1>2. CASE Seek
    BY <1>2, SeekKeepsInv DEF Seek
  <1>3. CASE Aggregate
    <2>1. PICK parts \in SUBSET groups, loose \in SUBSET DOMAIN records :
              Joins(parts, loose, Group(Merged(parts, loose), "STAGE3_AGGREGATE",
                                        "AUTO_COMMIT_STAGE2_5_THRESHOLD", 1000))
      BY <1>3, AggregateJoins
    <2>2. pass' = "STAGES3_4" /\ seekers' = {}
      BY <1>3 DEF Aggregate, StagesInv, SeekersInv
    <2>3. SeekersInv'
      BY <2>2 DEF SeekersInv, Following
    <2> QED
      BY <2>1, <2>2, <2>3, JoinKeepsPartition DEF StagesInv, GroupsInv
  <1>4. CASE NextStage
    <2>1. pass' # "STAGE1" /\ UNCHANGED <<records, groups, matched>>
      BY <1>4 DEF NextStage, StagesInv, SeekersInv, Following
    <2> QED
      BY <1>4, <2>1, SeekersFollow DEF StagesInv, OneGroupPerRecord, GroupsInv
  <1>5. CASE UNCHANGED vars
    <2>1. ExactGroups' = ExactGroups /\ SeekerSource' = SeekerSource
      BY <1>5 DEF vars, ExactGroups, Clusters, SameCluster, QualifiesForStage1, Rows,
                  SeekerSource
    <2> QED
      BY <1>5, <2>1 DEF vars, StagesInv, OneGroupPerRecord, GroupsInv, SeekersInv
  <1> QED
    BY <1>1, <1>2, <1>3, <1>4, <1>5 DEF Next

\* Over all stages and passes of pipeline.py no record is claimed twice, and
\* matched_record_ids are the members of the groups.
THEOREM OneGroup == Spec => []OneGroupPerRecord
  <1>1. StagesInv => OneGroupPerRecord
    BY DEF StagesInv
  <1> QED
    BY <1>1, InitInv, NextInv, PTL DEF Spec

-----------------------------------------------------------------------------
(* Stage1PolicyMeansIdentifier                                             *)

LEMMA ClustersStay ==
    ASSUME records' = records
    PROVE  ExactGroups' = ExactGroups
  BY DEF ExactGroups, Clusters, SameCluster, QualifiesForStage1, Rows

\* A new group on another policy than Stage 1's disturbs nothing.
LEMMA JoinKeepsPolicy ==
    ASSUME Stage1PolicyMeansIdentifier, NEW parts, NEW loose, NEW g, Joins(parts, loose, g),
           \/ g \in ExactGroups
           \/ g.commit_policy # "AUTO_COMMIT_STAGE1" /\ g.proposed_by # "STAGE1_EXACT"
    PROVE  Stage1PolicyMeansIdentifier'
  BY ClustersStay DEF Joins, Stage1PolicyMeansIdentifier

LEMMA PolicyStep ==
    StagesInv /\ Stage1PolicyMeansIdentifier /\ [Next]_vars => Stage1PolicyMeansIdentifier'
  <1> SUFFICES ASSUME StagesInv, Stage1PolicyMeansIdentifier, [Next]_vars
               PROVE  Stage1PolicyMeansIdentifier'
    OBVIOUS
  <1>1. CASE ProposeExact
    BY <1>1, ProposeExactJoins, JoinKeepsPolicy
  <1>2. ASSUME NEW r \in seekers, ProposePair(r)
        PROVE  Stage1PolicyMeansIdentifier'
    <2>1. PICK c \in DOMAIN records :
              Joins({}, {r, c}, Group({r, c}, ProposedBy, "AUTO_COMMIT_STAGE2_5_THRESHOLD",
                                      ScoreMargin(r, c)))
      BY <1>2, ProposePairJoins
    <2> QED
      BY <2>1, JoinKeepsPolicy DEF Group, ProposedBy
  <1>3. ASSUME NEW r \in seekers, AttachBankLeg(r)
        PROVE  Stage1PolicyMeansIdentifier'
    <2>1. PICK g \in groups, c \in DOMAIN records :
              Joins({g}, {c}, Group(g.members \cup {c}, "STAGE2_CONSTRAINED",
                                    "AUTO_COMMIT_STAGE2_5_THRESHOLD", ScoreMargin(r, c)))
      BY <1>3, AttachBankLegJoins
    <2> QED
      BY <2>1, JoinKeepsPolicy DEF Group
  <1>4. CASE Aggregate
    <2>1. PICK parts \in SUBSET groups, loose \in SUBSET DOMAIN records :
              Joins(parts, loose, Group(Merged(parts, loose), "STAGE3_AGGREGATE",
                                        "AUTO_COMMIT_STAGE2_5_THRESHOLD", 1000))
      BY <1>4, AggregateJoins
    <2> QED
      BY <2>1, JoinKeepsPolicy DEF Group
  <1>5. CASE UNCHANGED <<records, groups>>
    BY <1>5, ClustersStay DEF Stage1PolicyMeansIdentifier
  <1>6. \A r : HasItsBankLeg(r) \/ DeclinesAll(r) => UNCHANGED <<records, groups>>
    BY DEF HasItsBankLeg, DeclinesAll, Takes
  <1>7. NextStage \/ UNCHANGED vars => UNCHANGED <<records, groups>>
    BY DEF NextStage, vars
  <1> QED
    BY <1>1, <1>2, <1>3, <1>4, <1>5, <1>6, <1>7 DEF Next, Seek

\* A group that may commit without a score is a cluster of Stage 1 as it was
\* found, whatever the bank-leg pass of Stage 2 did to the others.
THEOREM PolicyMeansIdentifier == Spec => []Stage1PolicyMeansIdentifier
  <1>1. Init => Stage1PolicyMeansIdentifier
    BY DEF Init, Stage1PolicyMeansIdentifier
  <1> QED
    BY <1>1, InitInv, NextInv, PolicyStep, PTL DEF Spec

-----------------------------------------------------------------------------
(* OneEventPerGroup                                                        *)

OneEvent(rows) ==
    /\ OneCurrency(rows)
    /\ SlotsUnique(rows)
    /\ \A m, n \in rows : Family(m) = Family(n)

LEMMA ClusterIsOneEvent == \A g \in ExactGroups : OneEvent(Rows(g.members))
  <1> SUFFICES ASSUME NEW g \in ExactGroups PROVE OneEvent(Rows(g.members))
    OBVIOUS
  <1>1. \A m, n \in Rows(g.members) : Family(m) = Family(n)
    BY ExactGroupsTyped DEF Clusters, SameCluster, Rows
  <1> QED
    BY <1>1, ExactGroupsTyped DEF OneEvent, QualifiesForStage1

\* A record and the counterpart it is given are of one family.
LEMMA CounterpartOfFamily ==
    ASSUME StagesInv, NEW r \in seekers, NEW c, Confident(r, c)
    PROVE  /\ Family(records[c]) = Family(records[r])
           /\ records[c].currency = records[r].currency
           /\ records[c].source # records[r].source
           /\ pass = "STAGE2_B" => records[c].source = "BANK"
  <1>1. TargetEntity(records[r]) # "NONE"
        /\ records[c].entity_type = TargetEntity(records[r])
    BY CandidatesAreFree DEF StagesInv, SeekersInv
  <1>2. Family(records[c]) = Family(records[r])
    BY <1>1 DEF Family, TargetEntity
  <1>3. records[c].source # records[r].source
    BY CandidatesAreFree DEF StagesInv, SeekersInv, SeekerSource, PassA, Following
  <1> QED
    BY <1>2, <1>3, CandidatesAreFree DEF PassA

\* A group of Stages 3 and 4 is never one of Stage 2's again: it has its bank
\* leg.
EventInv ==
    \A g \in groups : IF g.proposed_by = "STAGE3_AGGREGATE"
                      THEN HasBank(g.members)
                      ELSE OneEvent(Rows(g.members))

LEMMA JoinKeepsEvents ==
    ASSUME EventInv, NEW parts, NEW loose, NEW g, Joins(parts, loose, g),
           IF g.proposed_by = "STAGE3_AGGREGATE"
           THEN HasBank(g.members)
           ELSE OneEvent(Rows(g.members))
    PROVE  EventInv'
  <1>1. records' = records /\ groups' = (groups \ parts) \cup {g}
    BY DEF Joins
  <1>2. \A h \in groups' : IF h.proposed_by = "STAGE3_AGGREGATE"
                            THEN HasBank(h.members)
                            ELSE OneEvent(Rows(h.members))
    BY <1>1 DEF EventInv
  <1> QED
    BY <1>1, <1>2 DEF EventInv, HasBank, Rows

LEMMA EventStep == StagesInv /\ EventInv /\ [Next]_vars => EventInv'
  <1> SUFFICES ASSUME StagesInv, EventInv, [Next]_vars PROVE EventInv'
    OBVIOUS
  <1>1. CASE ProposeExact
    <2>1. PICK g \in ExactGroups : Joins({}, g.members, g)
      BY <1>1, ProposeExactJoins
    <2>2. g.proposed_by = "STAGE1_EXACT"
      BY ExactGroupsTyped DEF Group
    <2> QED
      BY <2>1, <2>2, JoinKeepsEvents, ClusterIsOneEvent
  <1>2. ASSUME NEW r \in seekers, ProposePair(r)
        PROVE  EventInv'
    <2>1. PICK c \in DOMAIN records :
              /\ Confident(r, c)
              /\ Joins({}, {r, c}, Group({r, c}, ProposedBy, "AUTO_COMMIT_STAGE2_5_THRESHOLD",
                                         ScoreMargin(r, c)))
      BY <1>2, ProposePairJoins
    <2>2. OneEvent(Rows({r, c}))
      BY <2>1, CounterpartOfFamily DEF OneEvent, OneCurrency, SlotsUnique, Rows
    <2> QED
      BY <2>1, <2>2, JoinKeepsEvents DEF Group, ProposedBy
  <1>3. ASSUME NEW r \in seekers, AttachBankLeg(r)
        PROVE  EventInv'
    <2>1. PICK g \in groups, c \in DOMAIN records :
              /\ r \in g.members /\ ~HasBank(g.members) /\ Confident(r, c)
              /\ Joins({g}, {c}, Group(g.members \cup {c}, "STAGE2_CONSTRAINED",
                                       "AUTO_COMMIT_STAGE2_5_THRESHOLD", ScoreMargin(r, c)))
      BY <1>3, AttachBankLegJoins
    <2>2. pass = "STAGE2_B"
      BY <1>3 DEF AttachBankLeg
    <2>3. OneEvent(Rows(g.members))
      BY <2>1 DEF EventInv
    <2>4. OneEvent(Rows(g.members \cup {c}))
      BY <2>1, <2>2, <2>3, CounterpartOfFamily
         DEF OneEvent, OneCurrency, SlotsUnique, Rows, HasBank
    <2> QED
      BY <2>1, <2>4, JoinKeepsEvents DEF Group
  <1>4. CASE Aggregate
    <2>1. PICK parts \in SUBSET groups, loose \in SUBSET DOMAIN records :
              /\ HasBank(loose)
              /\ Joins(parts, loose, Group(Merged(parts, loose), "STAGE3_AGGREGATE",
                                           "AUTO_COMMIT_STAGE2_5_THRESHOLD", 1000))
      BY <1>4, AggregateJoins
    <2>2. HasBank(Merged(parts, loose))
      BY <2>1 DEF HasBank, Merged
    <2> QED
      BY <2>1, <2>2, JoinKeepsEvents DEF Group
  <1>5. CASE UNCHANGED <<records, groups>>
    BY <1>5 DEF EventInv, HasBank, Rows
  <1>6. \A r : HasItsBankLeg(r) \/ DeclinesAll(r) => UNCHANGED <<records, groups>>
    BY DEF HasItsBankLeg, DeclinesAll, Takes
  <1>7. NextStage \/ UNCHANGED vars => UNCHANGED <<records, groups>>
    BY DEF NextStage, vars
  <1> QED
    BY <1>1, <1>2, <1>3, <1>4, <1>5, <1>6, <1>7 DEF Next, Seek

\* What Stage 2 leaves without a bank leg is a pair of its first pass.
Paired(g) == g.proposed_by = "STAGE2_CONSTRAINED" => HasBank(g.members) \/ IsPair(g.members)
PairInv == \A g \in groups : Paired(g)

LEMMA PairIsOfPassA ==
    ASSUME StagesInv, NEW r \in seekers, NEW c, Confident(r, c)
    PROVE  HasBank({r, c}) \/ IsPair({r, c})
  <1>1. /\ records[c].source = IF pass \in PassA THEN "GATEWAY" ELSE "BANK"
        /\ records[c].entity_type = TargetEntity(records[r])
    BY CandidatesAreFree
  <1>2. CASE pass \in PassA
    <2>1. records[r].source = SeekerSource
      BY DEF StagesInv, SeekersInv
    <2>2. SeekerSource = "LEDGER"
      BY <1>2 DEF SeekerSource, PassA
    <2> QED
      BY <1>1, <1>2, <2>1, <2>2 DEF IsPair
  <1>3. CASE pass \notin PassA
    BY <1>1, <1>3 DEF HasBank
  <1> QED
    BY <1>2, <1>3

LEMMA JoinKeepsPairs ==
    ASSUME PairInv, NEW parts, NEW loose, NEW g, Joins(parts, loose, g), Paired(g)
    PROVE  PairInv'
  <1>1. records' = records /\ groups' = (groups \ parts) \cup {g}
    BY DEF Joins
  <1>2. \A h \in groups' : Paired(h)
    BY <1>1 DEF PairInv
  <1>3. \A h : Paired(h)' <=> Paired(h)
    BY <1>1 DEF Paired, HasBank, IsPair, TargetEntity
  <1> QED
    BY <1>2, <1>3 DEF PairInv

LEMMA PairStep == StagesInv /\ PairInv /\ [Next]_vars => PairInv'
  <1> SUFFICES ASSUME StagesInv, PairInv, [Next]_vars PROVE PairInv'
    OBVIOUS
  <1>1. CASE ProposeExact
    <2>1. PICK g \in ExactGroups : Joins({}, g.members, g)
      BY <1>1, ProposeExactJoins
    <2>2. Paired(g)
      BY ExactGroupsTyped DEF Paired, Group
    <2> QED
      BY <2>1, <2>2, JoinKeepsPairs
  <1>2. ASSUME NEW r \in seekers, ProposePair(r)
        PROVE  PairInv'
    <2>1. PICK c \in DOMAIN records :
              /\ Confident(r, c)
              /\ Joins({}, {r, c}, Group({r, c}, ProposedBy, "AUTO_COMMIT_STAGE2_5_THRESHOLD",
                                         ScoreMargin(r, c)))
      BY <1>2, ProposePairJoins
    <2>2. HasBank({r, c}) \/ IsPair({r, c})
      BY <2>1, PairIsOfPassA
    <2> QED
      BY <2>1, <2>2, JoinKeepsPairs DEF Group, Paired
  <1>3. ASSUME NEW r \in seekers, AttachBankLeg(r)
        PROVE  PairInv'
    <2>1. PICK g \in groups, c \in DOMAIN records :
              /\ Confident(r, c)
              /\ Joins({g}, {c}, Group(g.members \cup {c}, "STAGE2_CONSTRAINED",
                                       "AUTO_COMMIT_STAGE2_5_THRESHOLD", ScoreMargin(r, c)))
      BY <1>3, AttachBankLegJoins
    <2>2. pass = "STAGE2_B"
      BY <1>3 DEF AttachBankLeg
    <2>3. HasBank(g.members \cup {c})
      BY <2>1, <2>2, CounterpartOfFamily DEF HasBank
    <2> QED
      BY <2>1, <2>3, JoinKeepsPairs DEF Group, Paired
  <1>4. CASE Aggregate
    <2>1. PICK parts \in SUBSET groups, loose \in SUBSET DOMAIN records :
              Joins(parts, loose, Group(Merged(parts, loose), "STAGE3_AGGREGATE",
                                        "AUTO_COMMIT_STAGE2_5_THRESHOLD", 1000))
      BY <1>4, AggregateJoins
    <2> QED
      BY <2>1, JoinKeepsPairs DEF Group, Paired
  <1>5. CASE UNCHANGED <<records, groups>>
    <2>1. \A h : Paired(h)' <=> Paired(h)
      BY <1>5 DEF Paired, HasBank, IsPair, TargetEntity
    <2> QED
      BY <1>5, <2>1 DEF PairInv
  <1>6. \A r : HasItsBankLeg(r) \/ DeclinesAll(r) => UNCHANGED <<records, groups>>
    BY DEF HasItsBankLeg, DeclinesAll, Takes
  <1>7. NextStage \/ UNCHANGED vars => UNCHANGED <<records, groups>>
    BY DEF NextStage, vars
  <1> QED
    BY <1>1, <1>2, <1>3, <1>4, <1>5, <1>6, <1>7 DEF Next, Seek

\* No group of Stages 1, 2 and 5 mixes currencies, a refund with its payment,
\* or two records of one kind from one source, whoever attached the last leg;
\* and Stages 3 and 4 find of Stage 2 what they take for granted.
THEOREM OneEventEach == Spec => []OneEventPerGroup
  <1>1. Init => EventInv /\ PairInv
    BY DEF Init, EventInv, PairInv
  <1>2. EventInv /\ PairInv => OneEventPerGroup
    BY DEF EventInv, PairInv, Paired, OneEventPerGroup, OneEvent
  <1> QED
    BY <1>1, <1>2, InitInv, NextInv, EventStep, PairStep, PTL DEF Spec

-----------------------------------------------------------------------------
(* ImplementsGrouping                                                      *)

LEMMA JoinIsAbstract ==
    ASSUME OneGroupPerRecord, GroupsInv,
           NEW parts, NEW loose, NEW g, Joins(parts, loose, g)
    PROVE  Abstract!Next
  <1> DEFINE blocks(gs) == {h.members : h \in gs}
  <1>1. blocks(parts) \in SUBSET Abstract!Open
    BY DEF Joins, Abstract!Open, HasBank, GroupsInv
  <1>2. blocks(groups \ parts) = blocks(groups) \ blocks(parts)
    BY DEF Joins, OneGroupPerRecord, DisjointMembers, GroupsInv
  <1>3. blocks(groups') = blocks(groups \ parts) \cup {g.members}
    BY DEF Joins
  <1>4. g.members = (UNION blocks(parts)) \cup loose
    BY DEF Joins, Merged
  <1>5. (DOMAIN records \ matched)' = (DOMAIN records \ matched) \ loose
    BY DEF Joins
  <1>6. {r \in DOMAIN records : records[r].source = "BANK"}'
            = {r \in DOMAIN records : records[r].source = "BANK"}
    BY DEF Joins
  <1>7. Abstract!Join(blocks(parts), loose)
    BY <1>2, <1>3, <1>4, <1>5, <1>6 DEF Abstract!Join
  <1>8. loose \in SUBSET (DOMAIN records \ matched) /\ loose # {}
    BY DEF Joins
  <1> QED
    BY <1>1, <1>7, <1>8 DEF Abstract!Next

Quiet == UNCHANGED <<{g.members : g \in groups}, DOMAIN records \ matched,
                     {r \in DOMAIN records : records[r].source = "BANK"}>>

LEMMA GroupingStep == StagesInv /\ [Next]_vars => Abstract!Next \/ Quiet
  <1> SUFFICES ASSUME StagesInv, [Next]_vars PROVE Abstract!Next \/ Quiet
    OBVIOUS
  <1> USE DEF StagesInv
  <1>1. CASE ProposeExact
    BY <1>1, ProposeExactJoins, JoinIsAbstract
  <1>2. ASSUME NEW r \in seekers, ProposePair(r)
        PROVE  Abstract!Next
    BY <1>2, ProposePairJoins, JoinIsAbstract
  <1>3. ASSUME NEW r \in seekers, AttachBankLeg(r)
        PROVE  Abstract!Next
    BY <1>3, AttachBankLegJoins, JoinIsAbstract
  <1>4. CASE Aggregate
    BY <1>4, AggregateJoins, JoinIsAbstract
  <1>5. CASE UNCHANGED <<records, groups, matched>>
    BY <1>5 DEF Quiet
  <1>6. \A r : HasItsBankLeg(r) \/ DeclinesAll(r) => UNCHANGED <<records, groups, matched>>
    BY DEF HasItsBankLeg, DeclinesAll, Takes
  <1>7. NextStage \/ UNCHANGED vars => UNCHANGED <<records, groups, matched>>
    BY DEF NextStage, vars
  <1> QED
    BY <1>1, <1>2, <1>3, <1>4, <1>5, <1>6, <1>7 DEF Next, Seek

\* The stages only ever join open groups and unclaimed records: nothing claimed
\* is given back, and a group with its bank leg stays as it is.
THEOREM StagesImplementGrouping == Spec => ImplementsGrouping
  <1>1. Init => Abstract!Init
    BY DEF Init, Abstract!Init
  <1> QED
    BY <1>1, InitInv, NextInv, GroupingStep, PTL
       DEF Spec, ImplementsGrouping, Abstract!Spec, Quiet

-----------------------------------------------------------------------------
(* Scores and margins                                                      *)

LEMMA RecordsAre ==
    ASSUME WellFormed(records)
    PROVE  /\ IsFiniteSet(DOMAIN records)
           /\ \A r \in DOMAIN records : records[r].amount \in Int /\ records[r].day \in Int
           /\ \A r, c \in DOMAIN records :
                  Identifier(r, c) \in 0..1000 /\ Counterparty(r, c) \in 0..1000
  <1>1. /\ IsFiniteSet(DOMAIN records)
        /\ \A r \in DOMAIN records : records[r].amount \in Int /\ records[r].day \in Int
    BY Zenon DEF WellFormed
  <1>2. ASSUME NEW r \in DOMAIN records, NEW c \in DOMAIN records
        PROVE  Identifier(r, c) \in 0..1000 /\ Counterparty(r, c) \in 0..1000
    <2> DEFINE Share == 0..1000
    <2>1. \A q, d \in DOMAIN records :
              /\ CounterpartySimilarity[records[q].counterparty][records[d].counterparty] \in Share
              /\ IdentifierSimilarity[records[q].reference][records[d].reference] \in Share
      BY Zenon DEF WellFormed
    <2> HIDE DEF Share
    <2>2. Identifier(r, c) \in Share /\ Counterparty(r, c) \in Share
      BY <2>1, Zenon DEF Identifier, Counterparty
    <2> QED
      BY <2>2 DEF Share
  <1> QED
    BY <1>1, <1>2, Zenon

LEMMA AmountScoreInRange ==
    ASSUME WellFormed(records), NEW r \in DOMAIN records, NEW c \in DOMAIN records, AmountOk(r, c)
    PROVE  AmountScore(r, c) \in 850..1000
  <1> DEFINE a == Abs(records[r].amount)
             b == Abs(records[c].amount)
             off == Abs(Deduction(a, b) - 15 * a)
             tol == NetTolerance(a)
             gap == Abs(a - b)
  <1>1. a \in Nat /\ b \in Nat
    BY RecordsAre DEF Abs
  <1>2. CASE ExpectsDeduction(r)
    <2>1. a # 0 /\ -20 * a <= Deduction(a, b) /\ Deduction(a, b) <= 50 * a
      BY <1>2 DEF AmountOk
    <2>2. AmountScore(r, c) = 1000 - (150 * off) \div (35 * a)
      BY <1>2 DEF AmountScore
    <2>3. off \in Int /\ 0 <= off /\ off <= 35 * a /\ 35 * a \in Int /\ 0 < 35 * a
      <3> HIDE DEF a, b
      <3> QED
        BY <1>1, <2>1 DEF Deduction, Abs
    <2>4. (150 * off) \div (35 * a) \in 0..150
      <3> DEFINE whole == 35 * a
      <3> HIDE DEF off, a, whole
      <3>1. off \in Int /\ 0 <= off /\ off <= whole /\ whole \in Int /\ 0 < whole
        BY <2>3 DEF whole
      <3>2. (150 * off) \div whole \in 0..150
        BY <3>1, PartOf
      <3> QED
        BY <3>2 DEF whole
    <2> DEFINE q == (150 * off) \div (35 * a)
    <2> HIDE DEF q
    <2>5. 1000 - q \in 850..1000
      BY <2>4 DEF q
    <2> QED
      BY <2>2, <2>5 DEF q
  <1>3. CASE ~ExpectsDeduction(r)
    <2>1. gap <= tol
      BY <1>3 DEF AmountOk
    <2>2. AmountScore(r, c) = 1000 - (150 * gap) \div tol
      BY <1>3 DEF AmountScore
    <2>3. gap \in Int /\ 0 <= gap
      <3> HIDE DEF a, b
      <3> QED
        BY <1>1 DEF Abs
    <2>4. tol \in Int /\ 0 < tol
      <3> DEFINE n == a \div 200
                 floor == 200
      <3>1. n \in Int /\ floor \in Int
        BY <1>1
      <3>2. tol = Max({floor, n})
        BY DEF NetTolerance
      <3> HIDE DEF n, tol, floor
      <3>3. Max({floor, n}) \in Int /\ Max({floor, n}) >= floor
        BY <3>1, MaxOfTwo
      <3> QED
        BY <3>2, <3>3 DEF floor
    <2> DEFINE q == (150 * gap) \div tol
    <2>5. q \in 0..150
      <3> HIDE DEF gap, tol
      <3> QED
        BY <2>1, <2>3, <2>4, PartOf
    <2> HIDE DEF q
    <2>6. 1000 - q \in 850..1000
      BY <2>5
    <2> QED
      BY <2>2, <2>6 DEF q
  <1> QED
    BY <1>2, <1>3

LEMMA DateScoreInRange ==
    ASSUME WellFormed(records), NEW r \in DOMAIN records, NEW c \in DOMAIN records,
           DateGap(r, c) <= DateWindow
    PROVE  DateScore(r, c) \in 0..1000
  <1> DEFINE gap == DateGap(r, c)
             w == DateWindow
             q == (1000 * (gap - 2)) \div (w - 2)
  <1>1. gap \in Nat
    BY RecordsAre DEF DateGap, Abs
  <1>2. w \in {5, 7, 10}
    BY DEF DateWindow
  <1>3. CASE gap <= 2
    BY <1>3 DEF DateScore
  <1>4. CASE ~(gap <= 2)
    <2>1. DateScore(r, c) = 1000 - q
      BY <1>4 DEF DateScore
    <2>2. q \in 0..1000
      <3> DEFINE x == gap - 2
                 y == w - 2
      <3>1. x \in Int /\ 0 <= x /\ x <= y /\ y \in Int /\ 0 < y
        <4> HIDE DEF gap, w
        <4>1. gap <= w
          BY DEF gap, w
        <4> QED
          BY <1>1, <1>2, <1>4, <4>1
      <3>2. q = (1000 * x) \div y
        OBVIOUS
      <3> HIDE DEF x, y, q
      <3> QED
        BY <3>1, <3>2, PartOf
    <2> HIDE DEF q
    <2>3. 1000 - q \in 0..1000
      BY <2>2
    <2> QED
      BY <2>1, <2>3
  <1> QED
    BY <1>3, <1>4

LEMMA CompositeInRange ==
    ASSUME WellFormed(records), NEW r \in DOMAIN records, NEW c \in Scored(r)
    PROVE  Composite(r, c) \in 0..1000
  <1>1. /\ c \in DOMAIN records /\ AmountOk(r, c) /\ DateGap(r, c) <= DateWindow
    BY DEF Scored, CandidatePool
  <1> DEFINE a == AmountScore(r, c)
             d == DateScore(r, c)
             i == Identifier(r, c)
             p == Counterparty(r, c)
  <1>2. a \in 0..1000
    <2>1. a \in 850..1000
      BY <1>1, AmountScoreInRange
    <2> HIDE DEF a
    <2> QED
      BY <2>1
  <1>3. d \in 0..1000
    BY <1>1, DateScoreInRange
  <1>4. i \in 0..1000 /\ p \in 0..1000
    BY <1>1, RecordsAre
  <1>5. Composite(r, c) = IF pass \in Stage5
                          THEN (30 * i + 30 * a + 15 * d + 25 * p) \div 100
                          ELSE (55 * a + 30 * d + 15 * p) \div 100
    BY DEF Composite
  <1> HIDE DEF a, d, i, p
  <1>6. (30 * i + 30 * a + 15 * d + 25 * p) \div 100 \in 0..1000
    BY <1>2, <1>3, <1>4
  <1>7. (55 * a + 30 * d + 15 * p) \div 100 \in 0..1000
    BY <1>2, <1>3, <1>4
  <1> QED
    BY <1>5, <1>6, <1>7

\* A confident lead is a lead, and at least 0.08.
LEMMA MarginInRange ==
    ASSUME WellFormed(records), NEW r \in DOMAIN records, NEW c, Confident(r, c)
    PROVE  ScoreMargin(r, c) \in 80..1000
  <1> DEFINE rivals == Scored(r) \ {c}
             scores == {Composite(r, d) : d \in rivals}
             S == {0} \cup scores
             f == [d \in rivals |-> Composite(r, d)]
             lead == ScoreMargin(r, c)
             score == Composite(r, c)
  <1>1. f \in [rivals -> scores] /\ \A n \in scores : \E d \in rivals : f[d] = n
    OBVIOUS
  <1>2. IsFiniteSet(rivals)
    <2>1. rivals \subseteq DOMAIN records /\ IsFiniteSet(DOMAIN records)
      BY RecordsAre DEF Scored, CandidatePool
    <2> HIDE DEF rivals
    <2> QED
      BY <2>1, FS_Subset
  <1>3. scores \subseteq 0..1000
    BY CompositeInRange
  <1>4. score \in 0..1000 /\ lead >= MinMargin /\ lead = score - Max(S)
    BY CompositeInRange DEF Confident, ScoreMargin
  <1> HIDE DEF f, rivals, scores, lead, score
  <1>5. IsFiniteSet(S)
    <2>1. IsFiniteSet(scores)
      BY <1>1, <1>2, ImageIsFinite
    <2> QED
      BY <2>1, FS_Singleton, FS_Union
  <1>6. S \subseteq 0..1000 /\ 0 \in S
    BY <1>3
  <1> HIDE DEF S
  <1>7. Max(S) \in S /\ 0 <= Max(S)
    <2>1. S \subseteq Int /\ S # {}
      BY <1>6
    <2> QED
      BY <1>5, <1>6, <2>1, MaxIsGreatest
  <1>8. MinMargin >= 80 /\ MinMargin \in Int
    BY DEF MinMargin
  <1>9. lead \in 80..1000
    <2> DEFINE m == Max(S)
               bar == MinMargin
    <2>1. m \in 0..1000
      BY <1>6, <1>7
    <2>3. lead = score - m
      BY <1>4
    <2>2. bar >= 80 /\ bar \in Int /\ lead >= bar /\ score \in 0..1000
      BY <1>4, <1>8
    <2> HIDE DEF m, bar
    <2> QED
      BY <2>1, <2>2, <2>3
  <1> QED
    BY <1>9 DEF lead

-----------------------------------------------------------------------------
(* TypeOK                                                                  *)

\* Each group has its type, and a scored one a margin the verifier accepts.
Typed(g) ==
    /\ g \in MatchGroup
    /\ g.proposed_by # "STAGE1_EXACT" => g.score_margin >= MinScoreMargin
TypedInv == WellFormed(records) /\ \A g \in groups : Typed(g)

LEMMA RecordsStay ==
    ASSUME records' = records
    PROVE  /\ WellFormed(records)' <=> WellFormed(records)
           /\ \A g : Typed(g)' <=> Typed(g)
  <1>1. WellFormed(records)' <=> WellFormed(records)
    BY DEF WellFormed
  <1>2. MatchGroup' = MatchGroup
    BY DEF MatchGroup
  <1> QED
    BY <1>1, <1>2, Zenon DEF Typed

LEMMA JoinKeepsTypes ==
    ASSUME StagesInv, TypedInv, NEW parts, NEW loose, NEW members, NEW stage, NEW policy, NEW margin,
           Joins(parts, loose, Group(members, stage, policy, margin)),
           stage \in {"STAGE1_EXACT", "STAGE2_CONSTRAINED", "STAGE3_AGGREGATE", "STAGE5_FUZZY"},
           policy \in {"AUTO_COMMIT_STAGE1", "AUTO_COMMIT_STAGE2_5_THRESHOLD"},
           margin \in 0..1000,
           stage # "STAGE1_EXACT" => margin >= MinScoreMargin
    PROVE  TypedInv'
  <1> DEFINE g == Group(members, stage, policy, margin)
  <1>1. records' = records /\ groups' = (groups \ parts) \cup {g}
    BY DEF Joins
  <1>2. members \subseteq DOMAIN records
    <2>1. g.members = members
      BY DEF Group
    <2> HIDE DEF g
    <2>2. \A h \in groups' : h.members \subseteq (DOMAIN records)'
      BY JoinKeepsPartition DEF StagesInv
    <2>3. g.members \subseteq (DOMAIN records)'
      BY <1>1, <2>2
    <2> QED
      BY <1>1, <2>1, <2>3
  <1>3. Typed(g)
    BY <1>2 DEF Typed, Group, MatchGroup
  <1> HIDE DEF g
  <1>4. \A h \in groups' : Typed(h)
    BY <1>1, <1>3 DEF TypedInv
  <1>5. WellFormed(records)' /\ \A h : Typed(h)' <=> Typed(h)
    BY <1>1, RecordsStay DEF TypedInv
  <1> QED
    BY <1>4, <1>5 DEF TypedInv

LEMMA TypedStep ==
    ASSUME MinScoreMargin <= 80
    PROVE  StagesInv /\ TypedInv /\ [Next]_vars => TypedInv'
  <1> SUFFICES ASSUME StagesInv, TypedInv, [Next]_vars PROVE TypedInv'
    OBVIOUS
  <1>1. CASE ProposeExact
    <2>1. PICK g \in ExactGroups : Joins({}, g.members, g)
      BY <1>1, ProposeExactJoins
    <2>2. g = Group(g.members, "STAGE1_EXACT", "AUTO_COMMIT_STAGE1", 0)
      BY ExactGroupsTyped
    <2>3. Joins({}, g.members, Group(g.members, "STAGE1_EXACT", "AUTO_COMMIT_STAGE1", 0))
      BY <2>1, <2>2
    <2> QED
      BY <2>3, JoinKeepsTypes
  <1>2. ASSUME NEW r \in seekers, NEW c, Confident(r, c)
        PROVE  ScoreMargin(r, c) \in 0..1000 /\ ScoreMargin(r, c) >= MinScoreMargin
    <2>1. ScoreMargin(r, c) \in 80..1000
      BY <1>2, MarginInRange DEF StagesInv, SeekersInv, TypedInv
    <2> QED
      BY <2>1, VerifierAssumption
  <1>3. ASSUME NEW r \in seekers, ProposePair(r)
        PROVE  TypedInv'
    <2>1. PICK c \in DOMAIN records :
              /\ Confident(r, c)
              /\ Joins({}, {r, c}, Group({r, c}, ProposedBy, "AUTO_COMMIT_STAGE2_5_THRESHOLD",
                                         ScoreMargin(r, c)))
      BY <1>3, ProposePairJoins
    <2>2. ProposedBy \in {"STAGE2_CONSTRAINED", "STAGE5_FUZZY"}
      BY DEF ProposedBy
    <2> QED
      BY <1>2, <2>1, <2>2, JoinKeepsTypes
  <1>4. ASSUME NEW r \in seekers, AttachBankLeg(r)
        PROVE  TypedInv'
    <2>1. PICK g \in groups, c \in DOMAIN records :
              /\ Confident(r, c)
              /\ Joins({g}, {c}, Group(g.members \cup {c}, "STAGE2_CONSTRAINED",
                                       "AUTO_COMMIT_STAGE2_5_THRESHOLD", ScoreMargin(r, c)))
      BY <1>4, AttachBankLegJoins
    <2> QED
      BY <1>2, <2>1, JoinKeepsTypes
  <1>5. CASE Aggregate
    <2>1. PICK parts \in SUBSET groups, loose \in SUBSET DOMAIN records :
              Joins(parts, loose, Group(Merged(parts, loose), "STAGE3_AGGREGATE",
                                        "AUTO_COMMIT_STAGE2_5_THRESHOLD", 1000))
      BY <1>5, AggregateJoins
    <2>2. 1000 \in 0..1000 /\ 1000 >= MinScoreMargin
      BY VerifierAssumption
    <2> QED
      BY <2>1, <2>2, JoinKeepsTypes
  <1>6. CASE UNCHANGED <<records, groups>>
    BY <1>6, RecordsStay DEF TypedInv
  <1>7. \A r : HasItsBankLeg(r) \/ DeclinesAll(r) => UNCHANGED <<records, groups>>
    BY DEF HasItsBankLeg, DeclinesAll, Takes
  <1>8. NextStage \/ UNCHANGED vars => UNCHANGED <<records, groups>>
    BY DEF NextStage, vars
  <1> QED
    BY <1>1, <1>3, <1>4, <1>5, <1>6, <1>7, <1>8 DEF Next, Seek

\* Every variable keeps its type over all stages, for any records and
\* similarities: the scores of Stages 2 and 5 stay within 0..1000, and what
\* they are confident of has a margin the verifier accepts, as long as it asks
\* for no more than Stage 2 does.
THEOREM StagesTypeOK ==
    ASSUME MinScoreMargin <= 80
    PROVE  Spec => []TypeOK
  <1>1. Init => TypedInv
    BY StagesAssumption DEF Init, TypedInv
  <1>2. StagesInv /\ TypedInv => TypeOK
    BY DEF StagesInv, TypedInv, Typed, TypeOK, SeekersInv, OneGroupPerRecord, GroupsInv
  <1>3. StagesInv /\ TypedInv /\ [Next]_vars => TypedInv'
    BY TypedStep
  <1> QED
    BY <1>1, <1>2, <1>3, InitInv, NextInv, PTL DEF Spec
=============================================================================
