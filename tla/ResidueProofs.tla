---------------------------- MODULE ResidueProofs ----------------------------
(***************************************************************************)
(* Proofs about Residue for any records, sources, entity types, currencies *)
(* and ids and any limit: no record is in two live groups, Stage 6's       *)
(* proposals wait for a human, no exception of Stage 6 is made stale by a  *)
(* later match, every seeker is answered, and the catch-all is left with   *)
(* the records nothing had to answer.                                      *)
(***************************************************************************)
EXTENDS Residue, TLAPS

\* The matched records are those of the live groups, and no group, visited by
\* the verifier or not, shares a record with another.
Separation ==
    /\ \A g \in proposed : g.status = "PENDING_REVIEW"
    /\ \A g \in proposed, h \in Live(groups) : g.members \cap h.members = {}
    /\ Disjoint(proposed)
    /\ Disjoint(Live(groups))
    /\ Taken = Claimed(proposed \cup groups)

\* Seekers are unmatched, and nothing is newly matched before Stage 6.
ResidueInv ==
    /\ phase = "verification" => newly_matched = {}
    /\ phase = "stage6" => toSeek \cap matched = {}

SeparationInv == TypeOK /\ Separation /\ ResidueInv

-----------------------------------------------------------------------------
(* Types *)

LEMMA ProposalTyped ==
    \A members \in SUBSET Records : ProposedByStages1To5(members) \in MatchGroup
  BY DEF ProposedByStages1To5, MatchGroup

LEMMA ProposalsTyped == \A P \in Proposals : P \subseteq SUBSET Records
  BY DEF Proposals

LEMMA DeclinesTyped == \A E \in Declines : E \subseteq Exception
  BY DEF Declines, Exception

LEMMA InitTypeOK == Init => TypeOK
  <1> SUFFICES ASSUME Init PROVE TypeOK
    OBVIOUS
  <1>1. PICK P \in Proposals : /\ proposed = {ProposedByStages1To5(S) : S \in P}
                               /\ matched = UNION P
    BY DEF Init
  <1>2. proposed \subseteq MatchGroup /\ matched \subseteq Records
    BY <1>1, ProposalTyped, ProposalsTyped
  <1> QED
    BY <1>2, DeclinesTyped DEF Init, TypeOK, Phase

\* A turn that raises an exception and claims nothing keeps the types.
LEMMA ExceptTyped ==
    ASSUME TypeOK, NEW r \in Records, NEW aside \in SUBSET Records, Except(r, aside)
    PROVE  /\ exceptions' \subseteq Exception
           /\ proposed' = proposed /\ newly_matched' = newly_matched
  BY DEF Except, TypeOK, Exception

LEMMA PoolTyped == \A r \in Records : CandidatePool(r) \subseteq Records
  BY DEF CandidatePool, Unmatched

\* The turns of a seeker, by what they leave behind.
LEMMA TurnOutcome ==
    ASSUME TypeOK, NEW r \in toSeek, RunSeeker(r)
    PROVE  /\ TurnOf(r)
           /\ \/ /\ PassedOver(r)
                 /\ UNCHANGED <<proposed, exceptions, newly_matched, offered_to_ledger>>
              \/ /\ ~PassedOver(r)
                 /\ \E offered \in SUBSET CandidatePool(r) :
                        /\ Offer(r, offered)
                        /\ \/ \E aside \in SUBSET offered : Except(r, aside)
                           \/ Recommends(r, offered)
  <1>1. CASE PassOver(r)
    BY <1>1 DEF PassOver
  <1>2. CASE NoCandidates(r)
    <2>1. Offer(r, {}) /\ Except(r, {}) /\ TurnOf(r) /\ ~PassedOver(r)
      BY <1>2 DEF NoCandidates, Offer
    <2> QED
      BY <2>1
  <1>3. ASSUME NEW offered \in SUBSET CandidatePool(r),
               NotConfigured(r, offered) \/ GovernorDeclines(r, offered)
                   \/ CallFails(r, offered) \/ NoMatch(r, offered)
        PROVE  Offer(r, offered) /\ \E aside \in SUBSET offered : Except(r, aside)
    BY <1>3 DEF NotConfigured, GovernorDeclines, CallFails, NoMatch
  <1>4. ASSUME NEW offered \in SUBSET CandidatePool(r), Recommends(r, offered)
        PROVE  Offer(r, offered)
    BY <1>4 DEF Recommends
  <1>5. ASSUME NEW offered, Offer(r, offered)
        PROVE  TurnOf(r) /\ ~PassedOver(r)
    BY <1>5 DEF Offer
  <1> QED
    BY <1>1, <1>2, <1>3, <1>4, <1>5 DEF RunSeeker

LEMMA VerifyTyped ==
    ASSUME TypeOK, NEW g \in proposed, Verify(g)
    PROVE  TypeOK'
  <1>1. PICK result \in Answers(g) :
            Passed(g, result) \/ Ambiguous(g, result) \/ LeftToHuman(g, result)
                \/ Rejected(g, result)
    BY DEF Verify
  <1>2. g \in MatchGroup /\ g.members \subseteq Records
    BY DEF TypeOK, MatchGroup
  <1>3. /\ proposed' \subseteq proposed
        /\ \E h \in MatchGroup : groups' = groups \cup {h}
    BY <1>1, <1>2 DEF Passed, Ambiguous, LeftToHuman, Rejected, Resolve, Resolved,
                      MatchGroup
  <1>4. proposed' \subseteq MatchGroup /\ groups' \subseteq MatchGroup
    BY <1>3 DEF TypeOK
  <1>5. matched' \subseteq Records /\ exceptions' \subseteq Exception
    BY <1>1, <1>2 DEF Passed, Ambiguous, LeftToHuman, Rejected, TypeOK, Exception
  <1> QED
    BY <1>4, <1>5 DEF Verify, TypeOK, stage6

LEMMA RunSeekerTyped ==
    ASSUME TypeOK, NEW r \in toSeek, RunSeeker(r)
    PROVE  TypeOK'
  <1>1. r \in Records /\ CandidatePool(r) \subseteq Records
    BY PoolTyped DEF TypeOK
  <1>2. /\ phase' = phase /\ groups' = groups /\ matched' = matched
        /\ llm_configured' = llm_configured /\ toSeek' \subseteq toSeek
    BY TurnOutcome DEF TurnOf
  <1>3. CASE UNCHANGED <<proposed, exceptions, newly_matched, offered_to_ledger>>
    BY <1>2, <1>3 DEF TypeOK
  <1>4. ASSUME NEW offered \in SUBSET CandidatePool(r), Offer(r, offered)
        PROVE  offered_to_ledger' \subseteq Records
    BY <1>1, <1>4 DEF Offer, TypeOK
  <1>5. ASSUME NEW offered \in SUBSET CandidatePool(r), Offer(r, offered),
               NEW aside \in SUBSET offered, Except(r, aside)
        PROVE  TypeOK'
    <2>1. aside \in SUBSET Records
      BY <1>1
    <2> QED
      BY <1>1, <1>2, <1>4, <1>5, <2>1, ExceptTyped DEF TypeOK
  <1>6. ASSUME NEW offered \in SUBSET CandidatePool(r), Recommends(r, offered)
        PROVE  TypeOK'
    <2>1. Offer(r, offered)
      BY <1>6 DEF Recommends
    <2>2. \A best \in offered : {r, best} \subseteq Records
      BY <1>1
    <2>3. newly_matched' \subseteq Records /\ exceptions' = exceptions
      BY <1>6, <2>2 DEF Recommends, TypeOK
    <2>4. proposed' \subseteq MatchGroup
      BY <1>6, <2>2 DEF Recommends, TypeOK, MatchGroup
    <2> QED
      BY <1>2, <1>4, <2>1, <2>3, <2>4 DEF TypeOK
  <1> QED
    BY <1>3, <1>5, <1>6, TurnOutcome

LEMMA NextTyped == TypeOK /\ [Next]_vars => TypeOK'
  <1> SUFFICES ASSUME TypeOK, [Next]_vars PROVE TypeOK'
    OBVIOUS
  <1>1. CASE StartStage6
    BY <1>1 DEF StartStage6, TypeOK, Phase, Unmatched
  <1>2. CASE StartVerification6
    BY <1>2 DEF StartVerification6, TypeOK, Phase, stage6
  <1>3. CASE RunFinalCatchall
    <2>1. exceptions' \subseteq Exception
      BY <1>3 DEF RunFinalCatchall, TypeOK, Exception, Unmatched
    <2> QED
      BY <1>3, <2>1 DEF RunFinalCatchall, TypeOK, Phase, stage6
  <1>4. CASE UNCHANGED vars
    BY <1>4 DEF vars, stage6, TypeOK
  <1> QED
    BY <1>1, <1>2, <1>3, <1>4, VerifyTyped, RunSeekerTyped DEF Next

\* The groups, sets and exceptions of a run keep their types.
THEOREM ResidueTypeOK == Spec => []TypeOK
  <1> QED
    BY InitTypeOK, NextTyped, PTL DEF Spec

-----------------------------------------------------------------------------
(* One live group per record *)

\* Both sets of records that matter, as membership.
LEMMA ClaimedBy ==
    \A gs, r : r \in Claimed(gs) <=> \E g \in gs : g.status # "REJECTED" /\ r \in g.members
  BY DEF Claimed, Live

LEMMA InitSeparation == Init => Separation /\ ResidueInv
  <1> SUFFICES ASSUME Init PROVE Separation /\ ResidueInv
    OBVIOUS
  <1>1. PICK P \in Proposals : /\ proposed = {ProposedByStages1To5(S) : S \in P}
                               /\ matched = UNION P
    BY DEF Init
  <1>2. \A S, T \in P : S # T => S \cap T = {}
    <2>1. PICK group \in [Records -> 0..MaxProposals] :
              P = {{r \in Records : group[r] = n} : n \in 1..MaxProposals} \ {{}}
      BY <1>1 DEF Proposals
    <2>2. \A S \in P : \E n \in 1..MaxProposals : S = {r \in Records : group[r] = n}
      BY <2>1
    <2>3. ASSUME NEW S \in P, NEW T \in P, NEW x \in S \cap T
          PROVE  S = T
      <3>1. PICK m \in 1..MaxProposals : S = {r \in Records : group[r] = m}
        BY <2>2
      <3>2. PICK n \in 1..MaxProposals : T = {r \in Records : group[r] = n}
        BY <2>2
      <3>3. group[x] = m /\ group[x] = n
        BY <3>1, <3>2
      <3> QED
        BY <3>1, <3>2, <3>3
    <2> QED
      BY <2>3
  <1>3. \A S : /\ ProposedByStages1To5(S).members = S
               /\ ProposedByStages1To5(S).status = "PENDING_REVIEW"
    BY DEF ProposedByStages1To5
  <1>4. groups = {} /\ Live(groups) = {} /\ newly_matched = {}
        /\ phase = "verification" /\ toSeek = {}
    BY DEF Init, Live
  <1>5. Disjoint(proposed) /\ Disjoint(Live(groups))
    BY <1>1, <1>2, <1>3, <1>4 DEF Disjoint
  <1>6. Taken = Claimed(proposed \cup groups)
    <2>1. \A r : r \in Claimed(proposed \cup groups) <=> \E S \in P : r \in S
      BY <1>1, <1>3, <1>4, ClaimedBy
    <2> QED
      BY <1>1, <1>4, <2>1 DEF Taken
  <1> QED
    BY <1>1, <1>3, <1>4, <1>5, <1>6 DEF Separation, ResidueInv

\* What one iteration of run_verification does to the groups.
LEMMA VerifyOutcome ==
    ASSUME NEW g \in proposed, Verify(g)
    PROVE  /\ phase \in {"verification", "verification6"} /\ phase' = phase
           /\ UNCHANGED stage6
           /\ proposed' = proposed \ {g}
           /\ \E h : /\ groups' = groups \cup {h}
                     /\ h.members = g.members /\ h.proposed_by = g.proposed_by
                     /\ \/ h.status # "REJECTED" /\ matched' = matched
                           /\ exceptions' = exceptions
                        \/ /\ h.status = "REJECTED" /\ g.proposed_by # "STAGE6_LLM"
                           /\ matched' = matched \ g.members
                           /\ exceptions' = exceptions \cup
                                 {[stage |-> "VERIFICATION", about |-> g.members,
                                   aside |-> {}]}
                     /\ g.proposed_by = "STAGE6_LLM" =>
                            /\ h.status = "PENDING_REVIEW"
                            /\ h.commit_policy = "HUMAN_REVIEW_REQUIRED"
                            /\ h.verified_by = "NOT_YET_VERIFIED"
  <1>1. PICK result \in Answers(g) :
            Passed(g, result) \/ Ambiguous(g, result) \/ LeftToHuman(g, result)
                \/ Rejected(g, result)
    BY DEF Verify
  <1>2. g.proposed_by = "STAGE6_LLM" => result = "NOT_YET_RUN"
    BY DEF Answers
  <1>3. phase \in {"verification", "verification6"} /\ phase' = phase
        /\ UNCHANGED stage6
    BY DEF Verify
  <1>4. \A status, verified_by, policy :
            LET h == Resolved(g, status, verified_by, policy)
            IN  /\ h.members = g.members /\ h.proposed_by = g.proposed_by
                /\ h.status = status /\ h.verified_by = verified_by
                /\ h.commit_policy = policy
    BY DEF Resolved
  <1>5. CASE Passed(g, result)
    <2> DEFINE h == Resolved(g, "VERIFIED", "VERIFIER", g.commit_policy)
    <2>1. /\ proposed' = proposed \ {g} /\ groups' = groups \cup {h}
          /\ matched' = matched /\ exceptions' = exceptions
          /\ g.proposed_by # "STAGE6_LLM"
      BY <1>2, <1>5 DEF Passed, Resolve
    <2>2. h.members = g.members /\ h.proposed_by = g.proposed_by /\ h.status = "VERIFIED"
      BY <1>4
    <2> HIDE DEF h
    <2> QED
      BY <1>3, <2>1, <2>2
  <1>6. CASE Ambiguous(g, result)
    <2> DEFINE h == Resolved(g, "PENDING_REVIEW", "VERIFIER", "HUMAN_REVIEW_REQUIRED")
    <2>1. /\ proposed' = proposed \ {g} /\ groups' = groups \cup {h}
          /\ matched' = matched /\ exceptions' = exceptions
          /\ g.proposed_by # "STAGE6_LLM"
      BY <1>2, <1>6 DEF Ambiguous, Resolve
    <2>2. h.members = g.members /\ h.proposed_by = g.proposed_by
          /\ h.status = "PENDING_REVIEW"
      BY <1>4
    <2> HIDE DEF h
    <2> QED
      BY <1>3, <2>1, <2>2
  <1>7. CASE LeftToHuman(g, result)
    <2> DEFINE h == Resolved(g, "PENDING_REVIEW", "NOT_YET_VERIFIED",
                             "HUMAN_REVIEW_REQUIRED")
    <2>1. /\ proposed' = proposed \ {g} /\ groups' = groups \cup {h}
          /\ matched' = matched /\ exceptions' = exceptions
      BY <1>7 DEF LeftToHuman, Resolve
    <2>2. /\ h.members = g.members /\ h.proposed_by = g.proposed_by
          /\ h.status = "PENDING_REVIEW" /\ h.verified_by = "NOT_YET_VERIFIED"
          /\ h.commit_policy = "HUMAN_REVIEW_REQUIRED"
      BY <1>4
    <2> HIDE DEF h
    <2> QED
      BY <1>3, <2>1, <2>2
  <1>8. CASE Rejected(g, result)
    <2> DEFINE h == Resolved(g, "REJECTED", "VERIFIER", g.commit_policy)
    <2>1. g.proposed_by # "STAGE6_LLM"
      BY <1>2, <1>8 DEF Rejected, Recommended
    <2>2. /\ proposed' = proposed \ {g} /\ groups' = groups \cup {h}
          /\ matched' = matched \ g.members
          /\ exceptions' = exceptions \cup
                 {[stage |-> "VERIFICATION", about |-> g.members, aside |-> {}]}
      BY <1>8 DEF Rejected, Resolve
    <2>3. h.members = g.members /\ h.proposed_by = g.proposed_by /\ h.status = "REJECTED"
      BY <1>4
    <2> HIDE DEF h
    <2> QED
      BY <1>3, <2>1, <2>2, <2>3
  <1> QED
    BY <1>1, <1>5, <1>6, <1>7, <1>8

LEMMA VerifySeparation ==
    ASSUME SeparationInv, NEW g \in proposed, Verify(g)
    PROVE  Separation' /\ ResidueInv'
  <1>1. /\ phase \in {"verification", "verification6"} /\ phase' = phase
        /\ newly_matched' = newly_matched
        /\ proposed' = proposed \ {g}
    BY VerifyOutcome DEF stage6
  <1>2. PICK h : /\ groups' = groups \cup {h}
                 /\ h.members = g.members
                 /\ \/ h.status # "REJECTED" /\ matched' = matched
                    \/ h.status = "REJECTED" /\ matched' = matched \ g.members
    BY VerifyOutcome
  <1>3. Live(groups') = IF h.status = "REJECTED" THEN Live(groups)
                                                 ELSE Live(groups) \cup {h}
    BY <1>2 DEF Live
  <1>4. g.status = "PENDING_REVIEW"
    BY DEF SeparationInv, Separation
  <1>5. /\ \A k \in proposed \ {g} : k.members \cap g.members = {}
        /\ \A k \in Live(groups) : g.members \cap k.members = {}
    BY DEF SeparationInv, Separation, Disjoint
  <1>6. \A k \in proposed' : k.status = "PENDING_REVIEW"
    BY <1>1 DEF SeparationInv, Separation
  <1>7. \A k \in proposed', l \in Live(groups') : k.members \cap l.members = {}
    BY <1>1, <1>2, <1>3, <1>5 DEF SeparationInv, Separation
  <1>8. Disjoint(proposed')
    BY <1>1 DEF SeparationInv, Separation, Disjoint
  <1>9. Disjoint(Live(groups'))
    BY <1>2, <1>3, <1>5 DEF SeparationInv, Separation, Disjoint
  <1>10. Taken = matched /\ Taken' = matched'
    BY <1>1 DEF Taken
  <1>11. \A r : r \in matched' <=> r \in Claimed(proposed' \cup groups')
    <2> SUFFICES ASSUME NEW r
                 PROVE  r \in matched' <=> r \in Claimed(proposed' \cup groups')
      OBVIOUS
    <2>1. r \in matched <=> \E k \in proposed \cup groups :
                                k.status # "REJECTED" /\ r \in k.members
      BY <1>10, ClaimedBy DEF SeparationInv, Separation
    <2>2. r \in Claimed(proposed' \cup groups') <=>
              \E k \in (proposed \ {g}) \cup groups \cup {h} :
                  k.status # "REJECTED" /\ r \in k.members
      BY <1>1, <1>2, ClaimedBy
    <2>3. CASE h.status # "REJECTED" /\ matched' = matched
      BY <1>2, <1>4, <2>1, <2>2, <2>3
    <2>4. CASE h.status = "REJECTED" /\ matched' = matched \ g.members
      <3>1. \A k \in (proposed \ {g}) \cup groups :
                k.status # "REJECTED" /\ r \in k.members => r \notin g.members
        BY <1>5 DEF Live
      <3> QED
        BY <1>4, <2>1, <2>2, <2>4, <3>1
    <2> QED
      BY <1>2, <2>3, <2>4
  <1>12. (Taken = Claimed(proposed \cup groups))'
    BY <1>10, <1>11, ClaimedBy DEF Claimed
  <1>13. ResidueInv'
    BY <1>1 DEF ResidueInv, SeparationInv
  <1> QED
    BY <1>6, <1>7, <1>8, <1>9, <1>12, <1>13 DEF Separation

LEMMA RecommendSeparation ==
    ASSUME SeparationInv, NEW r \in toSeek, NEW offered \in SUBSET CandidatePool(r),
           Recommends(r, offered)
    PROVE  Separation' /\ ResidueInv'
  <1>1. PICK best, g :
            /\ best \in offered
            /\ proposed' = proposed \cup {g}
            /\ g.members = {r, best} /\ g.status = "PENDING_REVIEW"
            /\ newly_matched' = newly_matched \cup {r, best}
    BY DEF Recommends
  <1>2. /\ phase = "stage6" /\ phase' = phase /\ groups' = groups
        /\ matched' = matched /\ toSeek' = toSeek \ {r}
        /\ r \notin newly_matched
    BY DEF Recommends, Offer, TurnOf, PassedOver
  <1>3. r \notin Taken /\ best \notin Taken
    BY <1>1, <1>2 DEF Taken, SeparationInv, ResidueInv, CandidatePool, Unmatched
  <1>4. \A k \in proposed \cup Live(groups) : k.members \cap g.members = {}
    <2>1. \A k \in proposed \cup Live(groups) : \A x : x \in k.members => x \in Taken
      BY ClaimedBy DEF SeparationInv, Separation, Live
    <2> QED
      BY <1>1, <1>3, <2>1
  <1>5. \A k \in proposed' : k.status = "PENDING_REVIEW"
    BY <1>1 DEF SeparationInv, Separation
  <1>6. \A k \in proposed', l \in Live(groups') : k.members \cap l.members = {}
    BY <1>1, <1>2, <1>4 DEF SeparationInv, Separation
  <1>7. Disjoint(proposed') /\ Disjoint(Live(groups'))
    BY <1>1, <1>2, <1>4 DEF SeparationInv, Separation, Disjoint
  <1>8. Taken' = Taken \cup {r, best}
    BY <1>1, <1>2 DEF Taken
  <1>9. \A x : x \in Taken' <=> x \in Claimed(proposed' \cup groups')
    BY <1>1, <1>2, <1>8, ClaimedBy DEF SeparationInv, Separation
  <1>10. (Taken = Claimed(proposed \cup groups))'
    BY <1>9 DEF Claimed
  <1>11. ResidueInv'
    BY <1>2 DEF ResidueInv, SeparationInv
  <1> QED
    BY <1>5, <1>6, <1>7, <1>10, <1>11 DEF Separation

\* A step that leaves the groups and the sets of matched records alone.
LEMMA QuietSeparation ==
    ASSUME SeparationInv, UNCHANGED <<proposed, groups>>, Taken' = Taken, ResidueInv'
    PROVE  Separation' /\ ResidueInv'
  <1>1. Claimed(proposed \cup groups)' = Claimed(proposed \cup groups)
    BY DEF Claimed, Live
  <1> QED
    BY <1>1 DEF SeparationInv, Separation, Disjoint, Live

LEMMA NextSeparation == SeparationInv /\ [Next]_vars => SeparationInv'
  <1> SUFFICES ASSUME SeparationInv, [Next]_vars PROVE Separation' /\ ResidueInv'
    BY NextTyped DEF SeparationInv
  <1>1. ASSUME NEW g \in proposed, Verify(g) PROVE Separation' /\ ResidueInv'
    BY <1>1, VerifySeparation
  <1>2. CASE StartStage6
    <2>1. Taken' = Taken
      BY <1>2 DEF StartStage6, Taken, SeparationInv, ResidueInv
    <2>2. ResidueInv'
      BY <1>2 DEF StartStage6, ResidueInv, Unmatched
    <2> QED
      BY <1>2, <2>1, <2>2, QuietSeparation DEF StartStage6
  <1>3. ASSUME NEW r \in toSeek, RunSeeker(r) PROVE Separation' /\ ResidueInv'
    <2>1. /\ TurnOf(r)
          /\ \/ UNCHANGED <<proposed, newly_matched>>
             \/ \E offered \in SUBSET CandidatePool(r) : Recommends(r, offered)
      BY <1>3, TurnOutcome DEF Except, SeparationInv
    <2>2. CASE UNCHANGED <<proposed, newly_matched>>
      <3>1. Taken' = Taken /\ ResidueInv' /\ UNCHANGED <<proposed, groups>>
        BY <2>1, <2>2 DEF TurnOf, Taken, ResidueInv, SeparationInv
      <3> QED
        BY <3>1, QuietSeparation
    <2> QED
      BY <2>1, <2>2, RecommendSeparation
  <1>4. CASE StartVerification6
    <2>1. Taken' = Taken /\ ResidueInv' /\ UNCHANGED <<proposed, groups>>
      BY <1>4 DEF StartVerification6, Taken, ResidueInv
    <2> QED
      BY <2>1, QuietSeparation
  <1>5. CASE RunFinalCatchall
    <2>1. Taken' = Taken /\ ResidueInv' /\ UNCHANGED <<proposed, groups>>
      BY <1>5 DEF RunFinalCatchall, Taken, ResidueInv
    <2> QED
      BY <2>1, QuietSeparation
  <1>6. CASE UNCHANGED vars
    <2>1. Taken' = Taken /\ ResidueInv' /\ UNCHANGED <<proposed, groups>>
      BY <1>6 DEF vars, stage6, Taken, ResidueInv, SeparationInv
    <2> QED
      BY <2>1, QuietSeparation
  <1> QED
    BY <1>1, <1>2, <1>3, <1>4, <1>5, <1>6 DEF Next

LEMMA SeparationAlways == Spec => []SeparationInv
  <1>1. Init => SeparationInv
    BY InitTypeOK, InitSeparation DEF SeparationInv
  <1> QED
    BY <1>1, NextSeparation, PTL DEF Spec

LEMMA SeparationSuffices == SeparationInv => OneLiveGroupPerRecord
  BY DEF SeparationInv, Separation, OneLiveGroupPerRecord, Disjoint

\* Whatever the verifier rejects and Stage 6 claims, the matched records are
\* exactly those of the groups that stand, each in one of them.
THEOREM OneGroup == Spec => []OneLiveGroupPerRecord
  <1> QED
    BY SeparationAlways, SeparationSuffices, PTL

-----------------------------------------------------------------------------
(* Stage 6's proposals *)

AwaitsReview(g) ==
    /\ g.status = "PENDING_REVIEW"
    /\ g.commit_policy = "HUMAN_REVIEW_REQUIRED"
    /\ g.verified_by = "NOT_YET_VERIFIED"

LlmInv == \A g \in proposed \cup groups : g.proposed_by = "STAGE6_LLM" => AwaitsReview(g)

LEMMA InitLlm == Init => LlmInv
  BY DEF Init, LlmInv, ProposedByStages1To5

LEMMA NextLlm == TypeOK /\ LlmInv /\ [Next]_vars => LlmInv'
  <1> SUFFICES ASSUME TypeOK, LlmInv, [Next]_vars PROVE LlmInv'
    OBVIOUS
  <1>1. ASSUME NEW g \in proposed, Verify(g) PROVE LlmInv'
    <2>1. /\ proposed' = proposed \ {g}
          /\ \E h : /\ groups' = groups \cup {h}
                    /\ h.proposed_by = g.proposed_by
                    /\ g.proposed_by = "STAGE6_LLM" => AwaitsReview(h)
      BY <1>1, VerifyOutcome DEF AwaitsReview
    <2> QED
      BY <2>1 DEF LlmInv
  <1>2. CASE StartStage6 \/ StartVerification6 \/ RunFinalCatchall \/ UNCHANGED vars
    BY <1>2 DEF StartStage6, StartVerification6, RunFinalCatchall, vars, LlmInv
  <1>3. ASSUME NEW r \in toSeek, RunSeeker(r) PROVE LlmInv'
    <2>1. groups' = groups
      BY <1>3, TurnOutcome DEF TurnOf
    <2>2. \/ proposed' = proposed
          \/ \E g : proposed' = proposed \cup {g} /\ AwaitsReview(g)
      <3>1. CASE UNCHANGED proposed
        BY <3>1
      <3>2. ASSUME NEW offered, Recommends(r, offered)
            PROVE  \E g : proposed' = proposed \cup {g} /\ AwaitsReview(g)
        <4>1. PICK best \in offered : proposed' = proposed \cup
                  {[members |-> {r, best}, proposed_by |-> "STAGE6_LLM",
                    status |-> "PENDING_REVIEW",
                    commit_policy |-> "HUMAN_REVIEW_REQUIRED",
                    verified_by |-> "NOT_YET_VERIFIED"]}
          BY <3>2 DEF Recommends
        <4> DEFINE g == [members |-> {r, best}, proposed_by |-> "STAGE6_LLM",
                         status |-> "PENDING_REVIEW",
                         commit_policy |-> "HUMAN_REVIEW_REQUIRED",
                         verified_by |-> "NOT_YET_VERIFIED"]
        <4>2. AwaitsReview(g)
          BY DEF AwaitsReview
        <4> HIDE DEF g
        <4> QED
          BY <4>1, <4>2 DEF g
      <3> QED
        BY <1>3, <3>1, <3>2, TurnOutcome DEF Except
    <2> QED
      BY <2>1, <2>2 DEF LlmInv
  <1> QED
    BY <1>1, <1>2, <1>3 DEF Next

LEMMA LlmSuffices == SeparationInv /\ LlmInv => LlmGroupsAwaitReview
  <1> SUFFICES ASSUME SeparationInv, LlmInv, phase = "done", NEW g \in groups,
                      g.proposed_by = "STAGE6_LLM"
               PROVE  AwaitsReview(g) /\ g.members \subseteq matched
    BY DEF LlmGroupsAwaitReview, AwaitsReview
  <1>1. AwaitsReview(g)
    BY DEF LlmInv
  <1>2. \A r \in g.members : r \in Claimed(proposed \cup groups)
    BY <1>1, ClaimedBy DEF AwaitsReview
  <1> QED
    BY <1>1, <1>2 DEF SeparationInv, Separation, Taken

\* The pipeline neither commits nor rejects what the LLM recommended.
THEOREM LlmNeverCommits == Spec => []LlmGroupsAwaitReview
  <1> QED
    BY InitLlm, NextLlm, SeparationAlways, LlmSuffices, ResidueTypeOK, PTL DEF Spec

-----------------------------------------------------------------------------
(* Exceptions of Stage 6 stay true *)

OfStage6 == {e \in exceptions : e.stage = "STAGE6_LLM"}

\* LEDGER seekers come first, so an exception is never about a record that a
\* later seeker may still be offered.
StaleInv ==
    /\ NoStaleStage6Exception
    /\ phase = "verification" => OfStage6 = {}
    /\ \A r \in toSeek : source[r] # "BANK"
    /\ \A e \in OfStage6 : e.about \cap toSeek = {}
    /\ \A e \in OfStage6 : \A r \in e.about : source[r] # "BANK"
    /\ (\E s \in toSeek : source[s] = "LEDGER") =>
           \A e \in OfStage6 : \A r \in e.about : source[r] = "LEDGER"

LEMMA BankNeverSeeks == \A r \in Records : TargetEntity(r) # {} => source[r] # "BANK"
  BY DEF TargetEntity

LEMMA InitStale == Init => StaleInv
  <1> SUFFICES ASSUME Init PROVE StaleInv
    OBVIOUS
  <1>1. OfStage6 = {} /\ toSeek = {}
    BY DEF Init, Declines, OfStage6
  <1> QED
    BY <1>1 DEF StaleInv, NoStaleStage6Exception, OfStage6

\* A step that raises no exception of Stage 6, seeks no more and claims no more.
LEMMA QuietStale ==
    ASSUME StaleInv, OfStage6' = OfStage6, toSeek' = toSeek \/ toSeek' = {},
           phase' # "verification" \/ phase' = phase, Taken' \subseteq Taken
    PROVE  StaleInv'
  BY DEF StaleInv, NoStaleStage6Exception, OfStage6

LEMMA SeekerStale ==
    ASSUME SeparationInv, StaleInv, NEW r \in toSeek, RunSeeker(r)
    PROVE  StaleInv'
  <1>1. /\ phase = "stage6" /\ phase' = "stage6" /\ matched' = matched
        /\ toSeek' = toSeek \ {r}
        /\ \A s \in toSeek : source[s] = "LEDGER" => source[r] = "LEDGER"
    BY TurnOutcome DEF TurnOf, NextSeeker, SeparationInv
  <1>2. CASE UNCHANGED <<exceptions, newly_matched>>
    <2>1. OfStage6' = OfStage6 /\ Taken' = Taken
      BY <1>1, <1>2 DEF OfStage6, Taken
    <2> QED
      BY <1>1, <2>1 DEF StaleInv, NoStaleStage6Exception, OfStage6
  <1>3. ASSUME ~PassedOver(r), NEW aside, Except(r, aside)
        PROVE  StaleInv'
    <2> DEFINE e == [stage |-> "STAGE6_LLM", about |-> {r}, aside |-> aside]
    <2>1. e.about = {r} /\ e.stage = "STAGE6_LLM"
      OBVIOUS
    <2>2. exceptions' = exceptions \cup {e} /\ newly_matched' = newly_matched
      BY <1>3 DEF Except
    <2> HIDE DEF e
    <2>3. OfStage6' = OfStage6 \cup {e} /\ Taken' = Taken
      BY <1>1, <2>1, <2>2 DEF OfStage6, Taken
    <2>4. r \notin Taken
      BY <1>1, <1>3 DEF Taken, PassedOver, SeparationInv, ResidueInv
    <2>5. NoStaleStage6Exception'
      BY <2>1, <2>2, <2>3, <2>4 DEF StaleInv, NoStaleStage6Exception
    <2>6. \A x \in OfStage6' : x.about \cap toSeek' = {}
      BY <1>1, <2>1, <2>3 DEF StaleInv
    <2>7. \A x \in OfStage6' : \A s \in x.about : source[s] # "BANK"
      BY <2>1, <2>3 DEF StaleInv
    <2>8. (\E s \in toSeek' : source[s] = "LEDGER") =>
              \A x \in OfStage6' : \A s \in x.about : source[s] = "LEDGER"
      BY <1>1, <2>1, <2>3 DEF StaleInv
    <2> QED
      BY <1>1, <2>5, <2>6, <2>7, <2>8 DEF StaleInv
  <1>4. ASSUME NEW offered \in SUBSET CandidatePool(r), Recommends(r, offered)
        PROVE  StaleInv'
    <2>1. PICK best \in offered : newly_matched' = newly_matched \cup {r, best}
      BY <1>4 DEF Recommends
    <2>2. OfStage6' = OfStage6 /\ exceptions' = exceptions
          /\ Taken' = Taken \cup {r, best}
      BY <1>1, <1>4, <2>1 DEF Recommends, OfStage6, Taken
    <2>3. source[best] = TargetSource(r)
      BY <2>1 DEF CandidatePool
    <2>4. \A e \in OfStage6 : best \notin e.about
      <3>1. CASE source[r] = "LEDGER"
        BY <2>3, <3>1 DEF StaleInv, TargetSource
      <3>2. CASE source[r] # "LEDGER"
        BY <2>3, <3>2 DEF StaleInv, TargetSource
      <3> QED
        BY <3>1, <3>2
    <2>5. NoStaleStage6Exception'
      BY <2>2, <2>4 DEF StaleInv, NoStaleStage6Exception, OfStage6
    <2> QED
      BY <1>1, <2>2, <2>5 DEF StaleInv
  <1> QED
    BY <1>2, <1>3, <1>4, TurnOutcome DEF SeparationInv

LEMMA NextStale == SeparationInv /\ StaleInv /\ [Next]_vars => StaleInv'
  <1> SUFFICES ASSUME SeparationInv, StaleInv, [Next]_vars PROVE StaleInv'
    OBVIOUS
  <1>1. ASSUME NEW g \in proposed, Verify(g) PROVE StaleInv'
    <2>1. /\ phase' = phase /\ phase # "stage6" /\ toSeek' = toSeek
          /\ matched' \subseteq matched
          /\ OfStage6' = OfStage6
      BY <1>1, VerifyOutcome DEF stage6, OfStage6
    <2> QED
      BY <2>1, QuietStale DEF Taken
  <1>2. CASE StartStage6
    <2>1. OfStage6 = {} /\ OfStage6' = {}
      BY <1>2 DEF StartStage6, StaleInv, OfStage6
    <2>2. \A r \in toSeek' : source[r] # "BANK"
      BY <1>2, BankNeverSeeks DEF StartStage6, Unmatched
    <2> QED
      BY <1>2, <2>1, <2>2 DEF StartStage6, StaleInv, NoStaleStage6Exception, OfStage6
  <1>3. ASSUME NEW r \in toSeek, RunSeeker(r) PROVE StaleInv'
    BY <1>3, SeekerStale
  <1>4. CASE StartVerification6
    BY <1>4, QuietStale DEF StartVerification6, stage6, Taken, OfStage6
  <1>5. CASE RunFinalCatchall
    BY <1>5, QuietStale DEF RunFinalCatchall, stage6, Taken, OfStage6
  <1>6. CASE UNCHANGED vars
    BY <1>6, QuietStale DEF vars, stage6, Taken, OfStage6
  <1> QED
    BY <1>1, <1>2, <1>3, <1>4, <1>5, <1>6 DEF Next

LEMMA StaleSuffices == StaleInv => NoStaleStage6Exception
  BY DEF StaleInv

\* The order of the seekers is enough for Stage 6 never to except a record it
\* matches later, for any records and whatever the LLM answers.
THEOREM NothingStale == Spec => []NoStaleStage6Exception
  <1> QED
    BY InitStale, NextStale, SeparationAlways, StaleSuffices, PTL DEF Spec

-----------------------------------------------------------------------------
(* Every seeker is answered *)

Answered(r) ==
    \/ r \in offered_to_ledger /\ source[r] = "GATEWAY"
    \/ \E e \in exceptions : e.stage = "STAGE6_LLM" /\ r \in e.about

\* A record that may seek has its turn to come, is matched by Stage 6, or has
\* been answered; and the second verification, which only sees Stage 6's
\* groups, gives no record back.
AnswerInv ==
    /\ phase = "stage6" =>
           \A r \in Unmatched : TargetEntity(r) # {} =>
               r \in toSeek \/ r \in newly_matched \/ Answered(r)
    /\ phase = "stage6" => \A g \in proposed : g.proposed_by = "STAGE6_LLM"
    /\ phase = "verification6" => \A g \in proposed : g.proposed_by = "STAGE6_LLM"
    /\ EverySeekerAnswered

LEMMA InitAnswer == Init => AnswerInv
  BY DEF Init, AnswerInv, EverySeekerAnswered

\* One turn answers its seeker, unless the seeker is or becomes matched.
LEMMA SeekerAnswer ==
    ASSUME SeparationInv, AnswerInv, NEW r \in toSeek, RunSeeker(r)
    PROVE  AnswerInv'
  <1>1. /\ phase = "stage6" /\ phase' = "stage6" /\ matched' = matched
        /\ toSeek' = toSeek \ {r}
    BY TurnOutcome DEF TurnOf, SeparationInv
  <1>2. /\ newly_matched \subseteq newly_matched'
        /\ exceptions \subseteq exceptions'
        /\ offered_to_ledger \subseteq offered_to_ledger'
        /\ r \in newly_matched' \/ Answered(r)'
        /\ \A g \in proposed' : g \in proposed \/ g.proposed_by = "STAGE6_LLM"
    <2>1. CASE PassedOver(r) /\ UNCHANGED <<proposed, exceptions, newly_matched,
                                            offered_to_ledger>>
      BY <2>1 DEF PassedOver, Answered
    <2>2. ASSUME NEW offered, Offer(r, offered)
          PROVE  offered_to_ledger \subseteq offered_to_ledger'
      BY <2>2 DEF Offer
    <2>3. ASSUME NEW aside, Except(r, aside)
          PROVE  /\ UNCHANGED <<proposed, newly_matched>>
                 /\ exceptions \subseteq exceptions' /\ Answered(r)'
      <3> DEFINE e == [stage |-> "STAGE6_LLM", about |-> {r}, aside |-> aside]
      <3>1. e.stage = "STAGE6_LLM" /\ r \in e.about
        OBVIOUS
      <3>2. UNCHANGED <<proposed, newly_matched>> /\ exceptions' = exceptions \cup {e}
        BY <2>3 DEF Except
      <3> HIDE DEF e
      <3> QED
        BY <3>1, <3>2 DEF Answered
    <2>4. ASSUME NEW offered, Recommends(r, offered)
          PROVE  /\ newly_matched \subseteq newly_matched' /\ r \in newly_matched'
                 /\ exceptions' = exceptions
                 /\ \A g \in proposed' : g \in proposed \/ g.proposed_by = "STAGE6_LLM"
      BY <2>4 DEF Recommends
    <2> QED
      BY <2>1, <2>2, <2>3, <2>4, TurnOutcome DEF SeparationInv
  <1>3. \A s \in Records : Answered(s) => Answered(s)'
    BY <1>2 DEF Answered
  <1>4. Unmatched' = Unmatched /\ Unmatched \subseteq Records
    BY <1>1 DEF Unmatched
  <1> QED
    BY <1>1, <1>2, <1>3, <1>4 DEF AnswerInv, EverySeekerAnswered

LEMMA NextAnswer == SeparationInv /\ AnswerInv /\ [Next]_vars => AnswerInv'
  <1> SUFFICES ASSUME SeparationInv, AnswerInv, [Next]_vars PROVE AnswerInv'
    OBVIOUS
  <1>1. ASSUME NEW g \in proposed, Verify(g) PROVE AnswerInv'
    <2>1. /\ phase \in {"verification", "verification6"} /\ phase' = phase
          /\ UNCHANGED stage6 /\ proposed' \subseteq proposed
          /\ exceptions \subseteq exceptions'
          /\ g.proposed_by = "STAGE6_LLM" => matched' = matched
      BY <1>1, VerifyOutcome
    <2> QED
      BY <2>1 DEF AnswerInv, EverySeekerAnswered, Unmatched, stage6
  <1>2. CASE StartStage6
    BY <1>2 DEF StartStage6, AnswerInv, EverySeekerAnswered, Unmatched
  <1>3. ASSUME NEW r \in toSeek, RunSeeker(r) PROVE AnswerInv'
    BY <1>3, SeekerAnswer
  <1>4. CASE StartVerification6
    BY <1>4 DEF StartVerification6, stage6, AnswerInv, Answered, EverySeekerAnswered,
                Unmatched
  <1>5. CASE RunFinalCatchall
    BY <1>5 DEF RunFinalCatchall, AnswerInv, EverySeekerAnswered
  <1>6. CASE UNCHANGED vars
    BY <1>6 DEF vars, stage6, AnswerInv, Answered, EverySeekerAnswered, Unmatched
  <1> QED
    BY <1>1, <1>2, <1>3, <1>4, <1>5, <1>6 DEF Next

\* Stage 6 leaves no seeker it did not match without an exception of its own
\* or an offer to a LEDGER seeker.
THEOREM SeekersAnswered == Spec => []EverySeekerAnswered
  <1>1. AnswerInv => EverySeekerAnswered
    BY DEF AnswerInv
  <1> QED
    BY <1>1, InitAnswer, NextAnswer, SeparationAlways, PTL DEF Spec

-----------------------------------------------------------------------------
(* What is left for the catch-all *)

\* A rejected group's records are named from its rejection on, and only the
\* catch-all raises its own exceptions.
ReleasedInv ==
    /\ \A g \in groups : g.status = "REJECTED" => g.members \subseteq NamedIn(Earlier)
    /\ phase # "done" => Earlier = exceptions
    /\ CatchallIsLastResort

LEMMA NamedBy ==
    \A es, r : r \in NamedIn(es) <=> \E e \in es : r \in e.about \/ r \in e.aside
  BY DEF NamedIn, Named

LEMMA InitReleased == Init => ReleasedInv
  BY DEF Init, ReleasedInv, CatchallIsLastResort, Declines, Earlier

\* A step before the catch-all that adds exceptions and rejects no group.
LEMMA KeepReleased ==
    ASSUME ReleasedInv, phase # "done", phase' # "done",
           groups' = groups, exceptions \subseteq exceptions',
           \A e \in exceptions' \ exceptions : e.stage # "CATCHALL"
    PROVE  ReleasedInv'
  <1>1. Earlier = exceptions /\ Earlier' = exceptions'
    BY DEF ReleasedInv, Earlier
  <1>2. NamedIn(Earlier) \subseteq NamedIn(Earlier')
    BY <1>1, NamedBy
  <1>3. (NamedIn(Earlier))' = NamedIn(Earlier')
    BY DEF NamedIn
  <1> QED
    BY <1>1, <1>2, <1>3 DEF ReleasedInv, CatchallIsLastResort

LEMMA VerifyReleased ==
    ASSUME ReleasedInv, NEW g \in proposed, Verify(g)
    PROVE  ReleasedInv'
  <1>1. phase # "done" /\ phase' # "done"
    BY VerifyOutcome
  <1> DEFINE e == [stage |-> "VERIFICATION", about |-> g.members, aside |-> {}]
  <1>2. e.stage # "CATCHALL" /\ e.about = g.members
    OBVIOUS
  <1>3. PICK h : /\ groups' = groups \cup {h} /\ h.members = g.members
                 /\ \/ h.status # "REJECTED" /\ exceptions' = exceptions
                    \/ h.status = "REJECTED" /\ exceptions' = exceptions \cup {e}
    BY VerifyOutcome
  <1> HIDE DEF e
  <1>4. Earlier = exceptions /\ Earlier' = exceptions'
    BY <1>1, <1>2, <1>3 DEF ReleasedInv, Earlier
  <1>5. (NamedIn(Earlier))' = NamedIn(Earlier')
    BY DEF NamedIn
  <1>6. NamedIn(Earlier) \subseteq NamedIn(Earlier')
    BY <1>3, <1>4, NamedBy
  <1>7. h.status = "REJECTED" => h.members \subseteq NamedIn(Earlier')
    BY <1>2, <1>3, <1>4, NamedBy
  <1>8. \A k \in groups' : k.status = "REJECTED" => k.members \subseteq NamedIn(Earlier')
    BY <1>3, <1>6, <1>7 DEF ReleasedInv
  <1> QED
    BY <1>1, <1>4, <1>5, <1>8 DEF ReleasedInv, CatchallIsLastResort

\* An unmatched record no exception names is in no group, and Stage 6 answered
\* it unless it owed it nothing: only then is the catch-all's turn.
LEMMA CatchallReleased ==
    ASSUME SeparationInv, AnswerInv, ReleasedInv, RunFinalCatchall
    PROVE  ReleasedInv'
  <1>1. /\ phase = "verification6" /\ phase' = "done"
        /\ UNCHANGED <<proposed, groups, matched, toSeek, newly_matched, offered_to_ledger>>
    BY DEF RunFinalCatchall, stage6
  <1>2. PICK worded \in SUBSET Wording :
            /\ exceptions = {} => worded = {}
            /\ exceptions' = exceptions \cup
                  {[stage |-> "CATCHALL", about |-> {r}, aside |-> {}] :
                      r \in Unmatched \ Handled(exceptions, worded)}
    BY DEF RunFinalCatchall
  <1>3. Earlier = exceptions
    BY <1>1 DEF ReleasedInv
  <1>4. Earlier' = exceptions
    BY <1>2, <1>3 DEF Earlier
  <1>5. (NamedIn(Earlier))' = NamedIn(exceptions)
    BY <1>4 DEF NamedIn
  <1>6. Unmatched' = Unmatched /\ Unmatched = Records \ matched
    BY <1>1 DEF Unmatched
  <1>7. \A g \in groups' : g.status = "REJECTED" => g.members \subseteq (NamedIn(Earlier))'
    BY <1>1, <1>3, <1>5 DEF ReleasedInv
  <1>8. ASSUME NEW r \in Unmatched, r \notin NamedIn(exceptions)
        PROVE  ~Attempted(r)'
    <2>1. ASSUME NEW g \in groups, r \in g.members PROVE FALSE
      <3>1. g.status = "REJECTED"
        BY <1>1, <1>6, <2>1, ClaimedBy DEF SeparationInv, Separation, Taken
      <3> QED
        BY <1>3, <1>8, <2>1, <3>1 DEF ReleasedInv
    <2>2. TargetEntity(r) # {} => r \in offered_to_ledger /\ source[r] = "GATEWAY"
      BY <1>1, <1>8, NamedBy DEF AnswerInv, EverySeekerAnswered
    <2> QED
      BY <1>1, <2>1, <2>2 DEF Attempted
  <1>9. ASSUME NEW r \in Unmatched, r \notin NamedIn(exceptions)
        PROVE  (Confusable(r) \/ \E e \in exceptions \ Earlier : r \in e.about)'
    <2>1. CASE r \in Handled(exceptions, worded)
      <3>1. \/ \E s \in NamedIn(exceptions) : r \in inside[s]
            \/ exceptions # {} /\ r \in Wording
        <4>1. r \in worded \/ \E s \in NamedIn(exceptions) : r \in inside[s]
          BY <2>1 DEF Handled
        <4>2. ASSUME r \in worded PROVE exceptions # {} /\ r \in Wording
          <5>1. worded # {} /\ r \in Wording
            BY <4>2
          <5>2. exceptions = {} => worded = {}
            BY <1>2
          <5> QED
            BY <5>1, <5>2
        <4> QED
          BY <4>1, <4>2
      <3> QED
        BY <1>4, <1>5, <3>1 DEF Confusable
    <2>2. CASE r \notin Handled(exceptions, worded)
      <3> DEFINE e == [stage |-> "CATCHALL", about |-> {r}, aside |-> {}]
      <3>1. e \in exceptions' /\ e.stage = "CATCHALL" /\ r \in e.about
        BY <1>2, <1>9, <2>2
      <3> HIDE DEF e
      <3>2. e \notin Earlier'
        BY <3>1 DEF Earlier
      <3> QED
        BY <3>1, <3>2
    <2> QED
      BY <2>1, <2>2
  <1>10. CatchallIsLastResort'
    BY <1>5, <1>6, <1>8, <1>9 DEF CatchallIsLastResort
  <1> QED
    BY <1>1, <1>7, <1>10 DEF ReleasedInv

LEMMA NextReleased ==
    SeparationInv /\ AnswerInv /\ ReleasedInv /\ [Next]_vars => ReleasedInv'
  <1> SUFFICES ASSUME SeparationInv, AnswerInv, ReleasedInv, [Next]_vars
               PROVE  ReleasedInv'
    OBVIOUS
  <1>1. ASSUME NEW g \in proposed, Verify(g) PROVE ReleasedInv'
    BY <1>1, VerifyReleased
  <1>2. CASE StartStage6
    BY <1>2, KeepReleased DEF StartStage6
  <1>3. ASSUME NEW r \in toSeek, RunSeeker(r) PROVE ReleasedInv'
    <2>1. phase = "stage6" /\ phase' = "stage6" /\ groups' = groups
      BY <1>3, TurnOutcome DEF TurnOf, SeparationInv
    <2>2. \/ exceptions' = exceptions
          \/ \E aside : exceptions' = exceptions \cup
                {[stage |-> "STAGE6_LLM", about |-> {r}, aside |-> aside]}
      BY <1>3, TurnOutcome DEF Except, Recommends, SeparationInv
    <2>3. /\ exceptions \subseteq exceptions'
          /\ \A e \in exceptions' \ exceptions : e.stage # "CATCHALL"
      BY <2>2
    <2> QED
      BY <2>1, <2>3, KeepReleased
  <1>4. CASE StartVerification6
    BY <1>4, KeepReleased DEF StartVerification6
  <1>5. CASE RunFinalCatchall
    BY <1>5, CatchallReleased
  <1>6. CASE UNCHANGED vars
    BY <1>6 DEF vars, stage6, ReleasedInv, CatchallIsLastResort, Attempted, Confusable,
                Earlier, NamedIn, Unmatched
  <1> QED
    BY <1>1, <1>2, <1>3, <1>4, <1>5, <1>6 DEF Next

\* What the catch-all has to report was in no group and was owed no turn, and
\* a record it drops has an id that occurs in another or in some wording.
THEOREM LastResort == Spec => []CatchallIsLastResort
  <1>1. ReleasedInv => CatchallIsLastResort
    BY DEF ReleasedInv
  <1> QED
    BY <1>1, InitReleased, NextReleased, InitAnswer, NextAnswer, SeparationAlways, PTL
       DEF Spec
=============================================================================
