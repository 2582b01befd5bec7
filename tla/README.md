# Reconciliation agent: TLA+ models, model checking and proofs

This directory is the formal side of `src/recon_agent`: TLA+ modules translated
from the Python source, TLC configurations that check them on small instances, and
TLAPS proofs of the properties that matter most. Paths below are relative to
`src/recon_agent/` of the repository.

## 1. The system

A batch of bank, gateway and ledger records is matched by stages of decreasing
certainty; a verifier judges every proposed group; what is left goes, one record
at a time, to an LLM through a call-budget governor; whatever is still unexplained
becomes an exception for a human, who can also review the groups the verifier
would not decide. The API runs all this per request and stores it in SQLite.

| Component | Source | State it keeps | Operations | Talks to |
|---|---|---|---|---|
| Call-budget governor | `llm/governor.py` | SQLite: `daily_call_budget` (day -> calls), `circuit_breaker_state` (run -> failures, open) | `try_consume`, `record_success`, `record_failure`, `status` | shared by every run, process and the harness |
| Stage 6 LLM loop | `matching/stage6_llm.py` | `newly_matched`, `offered_to_ledger`, its events and exceptions | one turn per LEDGER, then GATEWAY seeker | governor, recommender |
| Recommender | `llm/recommender.py` | none | one Groq request, parse, validate | Groq |
| Pipeline | `matching/pipeline.py` | proposed groups, `matched_record_ids`, exceptions | stages 1-5, verification, Stage 6, verification, catch-all | all stages, verifier |
| Stages 1-5 | `matching/stage1_exact.py` ... `stage5_fuzzy.py` | the pool of unmatched records | propose or extend groups | each the output of the one before |
| Aggregation search, conflict resolver | `matching/aggregation_common.py`, `conflict_resolver.py` | candidate subsets per target, a shared deadline | search, decline, assign | stages 3 and 4 |
| Verifier | `verification/verifier.py` | none | `verify_match_group` | pipeline |
| Run service | `api/service.py`, `api/app.py` | none between requests | `execute_reconciliation`, `build_report`, `review_group` | pipeline, governor, store |
| Run store | `api/storage.py` | SQLite: runs, groups, members, events, exceptions | `save_run`, `apply_review`, reads | API requests |
| Harness, dashboard, generator, scripts | `evaluation/`, `dashboard/`, `testdata/`, `scripts/` | files | metrics, display, test data | the API or the pipeline |

What is hard in it, and tested little:

* **Concurrency.** FastAPI runs requests on a thread pool. Runs share the
  governor's database; review, audit and report requests share the store. Every
  method opens its own connection, so any two statements of different requests
  that are not in one `BEGIN IMMEDIATE` transaction interleave freely.
* **Time.** Budgets are per UTC day and the day is read at several places of one run.
* **Failure.** A run that dies has spent calls and stored nothing; an LLM error may
  or may not be one the breaker is told of; SQLite raises after 30 s of waiting.
* **Ordering.** Rows and events of one report or audit come from different reads;
  a record claimed, released, offered and matched by different passes must still
  end up accounted for exactly once.

`PROJECT.json` lists each hazard at the line where it bites, with the properties
that would catch it.

### What makes each component correct

* **Governor.** No day's row passes the ceiling and none loses an update, however
  transactions of runs interleave, die or straddle midnight; an open breaker
  stops its run and only its run, and opens exactly when the run's own outcomes
  say so; the write lock is always given back.
* **Review and store.** Row and audit trail tell the same story; a verdict of the
  verifier is never overturned; a closed group stays closed; a 200 means recorded.
* **Run service.** A run is not stored as clean after trouble, nor as degraded
  without cause; the report's call figure can be trusted.
* **Stage 6, pipeline.** Each record ends in at most one live group; one that is
  in none is accounted for in an exception; a proposal of the LLM always waits
  for a human; no exception contradicts a later match.
* **Stages 1, 2 and 5.** A record is claimed once; a group is about one event; only
  what an identifier clustered may commit without a score.
* **Stages 3 and 4, resolver.** Accepted combinations are disjoint; ambiguity is
  declined and not guessed; cutting a search short never turns into an answer; a
  confident answer is never lost; a decoy of a duplicated reference is not taken up.
* **Verifier.** It agrees with the searches about what balances, and passes nothing
  on scored evidence that the bank has not paid.

## 2. Plan

The order is by what concurrency and failure can spoil, then by how much of the
pipeline depends on it.

| Order | Modules | Composes | State |
|---|---|---|---|
| 1 | `Governor`, `CallBudget`, `GovernorRefinement`, `GovernorProofs` | `Governor` implements `CallBudget` | done |
| 2 | `Review`, `ReviewLedger`, `ReviewRefinement`, `ReviewProofs` | `Review` implements `ReviewLedger` when requests for a group are serialized | done |
| 3 | `RunService`, `RunServiceProofs` | runs over `CallBudget`, which it implements too | done |
| 4 | `Residue`, `ResidueProofs` | verification, Stage 6, verification, catch-all | done |
| 5 | `Verifier` | arithmetic shared by the next two | done |
| 6 | `Grouping`, `Aggregation`, `AggregationProofs` | Stages 3 and 4 with resolver and verifier; implements `Grouping` | done |
| 7 | `Stages`, `StagesProofs` | Stages 1, 2 and 5 around any `Grouping` step; implements `Grouping` | done |
| 8 | `SumLemmas`, `AggregationSums` | what depends on sums, scores and margins | done |
| 9 | `AggregationRefinement` | the searches of `Aggregation` in the place of `Aggregate` in `Stages` | done |

How the modules fit together: `Governor` and `RunService` implement the same
`CallBudget`. `Aggregation` and `Stages` both implement `Grouping`. `Stages` lets its
stages 3 and 4 make any group that its action `Aggregate` allows, and
`AggregationRefinement` states that the searches of `Aggregation` make no other,
which closes the circle: what holds of `Stages` holds with the searches in
it. `Stages` hands disjoint groups to the verifier, and `Residue` starts from
any such groups and lets the verifier answer anything it can. `Review` starts from
any rows such a run can leave.

## 3. The modules

Each component has its module, with mutated forms of some definitions beside the
originals (introduced by "Mutant:" and used by nothing: each shows what bug a
property would catch), an `MC` module with symmetry sets or small ledgers, and
a `Proofs` module. `PROJECT.json` "map" gives the source lines of every definition.

### Governor (`llm/governor.py`)

One behaviour is the life of the database that the runs `Runs` share. A method is
several actions, split where other connections can act: `BeginTryConsume` is
`BEGIN IMMEDIATE` and takes `writer`, SQLite's write lock; `DeclineOpenCircuit`
or `PassBreaker` is the breaker check; `DeclineAtCeiling` or `ReadBudget` reads
`_today()` and that day's row into `slot`; `CommitSlot` writes `slot + 1` and
commits. `CallGroq` and `GroqReturns` are the one request a slot pays for;
`BeginRecord` with `RecordSuccess` or `RecordFailure` is its bookkeeping, and an
error that is no `RecommenderError` skips it. `Die` is a killed process or a method
that raised: SQLite rolls back and frees the lock. `Midnight` moves the clock
between any two steps. `callsUsed`, `failures` and `circuitOpen` are the tables;
`outcomes`, `granted` and `groqCalls` are history, read by the properties only.

`CallBudget` is the promise: per day a pool of slots, never overdrawn, and per run
a breaker. `GovernorRefinement` maps `Governor` to it: a `CommitSlot` is a
`Grant`, a `RecordSuccess` or `RecordFailure` settles the call, an unexpected
error or a death in a call is `Lose`, and every other step is a stutter.

### Review (`api/app.py`, `api/service.py`, `api/storage.py`)

One stored run, the PATCH requests on its groups and the GET /audit requests.
`SaveRun` publishes run and groups in one transaction. A PATCH is `FindRun` (or
`RunNotFound`), then `ReadPending` (or `GroupNotFound`, `GroupNotPending`), which
copies the row, then `ApplyReview`, which writes the whole copy back, with its
event, and commits. `Respond` is the 200 that follows, a step of its own. Each of
the first three uses a connection of its own, so any request comes in between.
`Abort` is a worker that dies, waits 30 s for SQLite or fails to answer, at any
point: before the commit nothing is written, after it the decision stands though
its reviewer was never told. An event carries the id of its request, as the code
draws a uuid for each. `AuditRead` reads the events, then the groups. `birth` is
history: the rows as `save_run` wrote them.

`Serialized` chooses between the code, FALSE, and the same code under a client
that never has two requests for one group in flight, TRUE. `ReviewLedger` is what
the endpoint's docstring promises: decisions taken in one step on open groups.
`ReviewRefinement` shows `Review` implements it, but only under `Serialized`.

### RunService (`api/service.py`, with Stage 6's use of the governor)

`Reconcile` stands for Stages 1-5 and draws the number of seekers left to Stage 6.
`TryConsumeDeclined`, `TryConsumeAllowed` and `GroqAnswers` are one seeker's turn,
each governor method in one step, as `CallBudget` has it; `TakeStatus` is the
`governor.status` after the pipeline, `SaveRun` the derived status and the stored
row, `GetReport` the later `build_report`, which asks the governor again.
`LoseRun` is a request that dies: its calls stay spent and nothing is stored.

### Residue (`matching/pipeline.py`, `matching/stage6_llm.py`)

One run, in its phases: `Verify(g)` is an iteration of `run_verification`, with
one disjunct per branch; `StartStage6` computes the residue; `RunSeeker(r)` is a
seeker's turn in `run_stage6_llm`, with its skips, its candidates, and one
disjunct for every way it ends; `StartVerification6` hands Stage 6's groups to a
second `run_verification`; `RunFinalCatchall` raises what is missing. Stages 1-5
are any set of disjoint groups of two records or more, plus the exceptions of one
aggregation search. The verifier is any result it can give. An exception keeps
the records it is about apart from those its evidence only mentions, because the
catch-all treats both alike. What it searches for is the id of a record as a
substring of an exception's text (`pipeline.py:440`), so `Handled` is every
record whose id occurs in an id the exceptions name (`inside`, a constant:
record to the records whose ids are part of its own) or in their wording (any part
of `Wording`).

### Verifier (`verification/verifier.py`, `matching/common.py`)

No state: `VerifyMatchGroup` is `verify_match_group`, with its checks in their
order, and `Conserves` is `recompute_group_conservation` on rows with signed paise.
`Effective` is what counts beside the bank once a ledger amount is present,
`Against` what the rest is netted against, and `TotalAmount` the sum over a set of
rows (`SumFunction` of the community modules). Margins are thousandths and the residual
fraction ten thousandths, compared by integer division as the code truncates.
`Aggregation` and `Stages` both use it.

### Aggregation (`matching/stage3_aggregate.py`, `stage4_adjustment.py`, `aggregation_common.py`, `conflict_resolver.py`)

The three passes `STAGE3_A`, `STAGE3_B` and `STAGE4`, each started by `StartPass`
with its items and targets. A unit is a lone record or a group without its bank
leg. `Search` is one iteration of the first loop of `run_aggregation_search`:
`TooLarge`, `FindsBest`, `FindsNothing` or `TimesOut`. The deadline is the one
thing the input does not decide: it may pass before any target that has something
to try, and from then on (`expired`) every such target times out. `window` is
`WindowResult.outcomes`; `Contested`, `Cluster`, `Reduces` and `Wins` are the
wiring of conflicts and the resolver's assignment, which for the clusters Stage 3
gives it has one edge per target. `Conclude` takes the outcomes in order:
`EmitGroup` merges the groups and records of a target and its combination,
`DeclineOverlap`, `DeclineUnsearched` and `DeclineWeak` are its other ends. Scores
are computed from the amounts. `WellFormed` is what a run is handed: finitely many
typed records and the disjoint groups of Stages 1 and 2, of which one without its
bank leg has a record per slot and counts with its gateway amount (`_amounts`), and
one of Stage 2 is a ledger record and its counterpart. Units are ordered by their
lowest record: the code orders groups by a generated id that no test may rely on.

### Grouping

The promise of every stage before verification: groups are disjoint, grow only by
joining whole open groups and free records, are final once the bank leg is in, and
give nothing back.

### Stages (`matching/pipeline.py`, `stage1_exact.py`, `stage2_constrained.py`, `stage5_fuzzy.py`)

The passes in the order of `run_pipeline`. `ProposeExact` is one cluster of Stage 1.
`Seek` is one turn of the greedy loops of Stages 2 and 5, for the lowest seeker:
`ProposePair`, `AttachBankLeg`, `HasItsBankLeg` or `DeclinesAll`, by what
`Confident` says of the candidates nobody has claimed. Scores are computed, in
thousandths, from amounts, days, identifiers and counterparties; the similarity of
two texts (rapidfuzz) is a constant, and references are already normalized.
`Aggregate` is Stages 3 and 4: any open groups and any free gateway records and bank
credits, in one currency, with both sides in it.

### AggregationRefinement

`SeenByStages` is what `Stages` tells apart of a group of `Aggregation`: its members,
its commit policy by the stage that proposed it, one name for Stages 3 and 4. With it,
`ImplementsAggregate` says that a step of `Aggregation` is an `Aggregate` of `Stages`
or changes nothing `Stages` sees. It rests on the searches' own guards: the
currency check of each window, the targets and items a pass starts from, and the
fact that no unit is used twice.

### SumLemmas

Finite sums and maxima, for the proofs: a sum is an integer, splits over disjoint
sets and grouped parts, and a maximum is reached.

## 4. The runs

Passing runs. Only `governor_safety` assumes fairness, and symmetry is used only
in runs that check nothing but safety.

| Run | Question | Instance |
|---|---|---|
| `governor_safety` | do the transactions of concurrent runs keep the budget exact and capped and the breaker true to its run, implement `CallBudget`, always give the lock back, and let each Stage 6 loop end? | 2 runs, 2 days, 2 slots asked for per run, ceiling 3, threshold 2, under `FairSpec` |
| `review_races` | what survives unprotected concurrent reviews and audits, deaths and lost answers? | 2 groups, 2 reviewers, 3 requests, 1 audit |
| `review_serial` | with one request per group at a time, is every review atomic and every closed group closed for good? | 2 groups, 1 reviewer, 3 requests |
| `service_safety` | is the stored status honest, and the report's figure a bound, across runs and midnight? | 2 runs, 2 days, 3 seekers, ceiling 3, threshold 2 |
| `residue_safety` | is every record of a run in one live group or accounted for, and does Stage 6 keep to its contract? | 6 records: 1 payment, 3 settlements, 2 bank credits, one of them in another currency; one id is part of another and one may occur in wordings; up to 2 proposals, 2 candidates per seeker |
| `aggregation_safety` | do Stages 3 and 4 claim once, decline rather than guess, lose no confident answer, agree with the verifier, and make only groups that `Stages` allows for, wherever the deadline falls? | 480 ledgers of 5 to 7 records with at most one prior group, windows of at most 3 candidates, combinations of at most 2 |
| `stages_safety` | do the greedy stages claim once, keep a group to one event, and move what they touch to the scored policy, whatever Stages 3 and 4 do between them? | 2160 ledgers of 6 records: 2 payments, 2 settlements or a refund, 2 bank legs |

Runs that must find a violation: the code does not do what its own text says.

| Run | The text | What the run shows |
|---|---|---|
| `review_reopened` | `api/app.py:175`: a closed group is never re-reviewed silently | two requests read the open row, both are answered 200, and the second overwrites the first one's verdict: `apply_review` has no guard on the status |
| `service_degraded` | `api/service.py:93`: a run whose budget was exhausted is DEGRADED | the run is refused calls, midnight passes, and `governor.status` answers for the new day: it is stored as COMPLETED_WITH_EXCEPTIONS |
| `residue_own` | `matching/pipeline.py:369`: an exception is about its subject, never a side mention | a record Stage 6 offered and that was not chosen is covered by the exception of the seeker it was offered to, and gets none of its own |
| `aggregation_declined` | `ARCHITECTURE.md:241`: the records of an abandoned window fall through to an exception and are never left half resolved | a bank credit declined in one pass stays in the pool of the next, which may match it (`stage3_aggregate.py:811`): its exception is still open when its group is already emitted |
| `stages_residual` | `verification/verifier.py:315`: the bounded residual check is the ceiling on what a group may leave unexplained | a bank leg attached in Stage 2 (`stage2_constrained.py:459`) moves a Stage 1 group to the branch that has no residual check, so a residual over the ceiling passes |

What still holds in the presence of those races is checked too: however reviews
race, the row is the pipeline's row with exactly the last recorded decision
applied (`TrailExplainsRow`), no verdict of the verifier is touched
(`SystemVerdictsStand`), an audit body never shows a decision it has not applied
(`AuditedDecisionsAreApplied`); a refused run is at least never COMPLETE
(`StatusAdmitsTrouble`); a reviewer answered 200 finds the decision in the trail
exactly once and one refused finds none (`AnswersMatchTrail`); and the catch-all is
left only with records that no group ever had and Stage 6 owed no turn, each of
which it reports unless the record's id occurs elsewhere (`CatchallIsLastResort`).

Two smaller disagreements are stated as definitions that no run checks. The body of
GET /audit may be torn, because events and groups are read over separate
connections (`api/app.py:153` and `:160`; `AuditIsConsistent` in `Review`). The
call figure of a report is that of the day's row, which other runs share
(`api/service.py:183`, while `evaluation/harness.py:757` calls it authoritative;
`ReportCountsTheRunsCalls` in `RunService`).

### Bounds

* **Two runs** are enough for every lost update, lock conflict and shared-budget
  effect, which are between two transactions. Their four requests for a slot
  exceed the ceiling of three, which neither reaches alone; two are enough to
  trip a breaker by threshold or by 429, or to be kept from it by a success. Longer
  histories of one run are left to the proofs, which need no bound.
* **Two days** have one midnight, which may fall between any two steps. A second one
  would need a run of more than 24 hours.
* **Three requests on two groups** let two reviews race and a third come after,
  for the same group or another; two audits can each be torn in their own way.
* **Six records** let a seeker have more candidates than `stage6_max_candidates`
  (three settlements for one payment), several seekers compete for one candidate
  (three settlements for a bank credit), a candidate be a seeker in its own turn, a
  rejected group release records into Stage 6, and a currency exclude a record.
* Exceptions come from **one** aggregation search, so that the initial states stay
  enumerable; Stages 1-5 of the real run can add more, which only adds exceptions.
* **The ledgers of `Aggregation`** have a window over the limit of three candidates,
  single records and pairs that balance to the paisa, within the tolerance or not at all,
  ties, a decoy with its twin's reference and slot, a charge that rides along, a refund,
  a credit in another currency or too late, and a prior group that commits or is
  scored, has a fee with or without the payment beside it, settles one rupee, or is a
  refund on both sides. A pair is the smallest combination that can overlap another without
  containing it, which is what makes conflicts; the deadline may fall before
  any target.
* **The ledgers of `Stages`** have references that agree, that differ by a misprint
  and that have nothing in common, amounts that leave a residual within or over the
  ceiling, two bank legs that compete for one group, two payments that compete for
  one settlement, a refund, another currency, and records no stage takes.

### Fairness, and runs that stop

Only `governor_safety` assumes fairness: weak fairness of `Step(r)` for each run.
The thread of a run is scheduled by the operating system, the Groq client's
timeout ends every call, and a wait for the write lock ends because its holder
neither waits for anything nor computes for long. Weak fairness is enough, though
the lock is taken again and again: a run asks for finitely many slots (`MaxAsks`,
a batch's seekers), so the others eventually leave the lock free. Nothing is fair about
`Die` and `Midnight`, nor about which answer Groq gives. `LockIsReleased` holds
for a run that dies because SQLite rolls back.

The other modules claim no liveness. Every cfg says `CHECK_DEADLOCK FALSE`
because requests and runs end: when all are answered there is no step left.

## 5. What is proved

The proofs are about every number of runs, days, requests, groups, reviewers,
audits and records, every ledger, ceiling and threshold, from the `ASSUME`s in
the modules: constants are naturals, days and threshold are positive, runs are
finitely many and `NoRun` is none of them, `Residue`'s records are finitely many
with their sources, types and currencies, the similarities `Stages` is given are
shares, and the prior groups `Aggregation` starts from are as Stages 1 and 2
make them: non-empty, disjoint, with one record per slot until the bank leg is
in, which is what `Stages` is proved to hand on (`OneEventEach`); the amount a group
counts with is no part of `Stages`.

* **`GovernorProofs`.** `GovernorTypeOK`, `DailyCeiling`, `ExactCount`,
  `BreakerStopsCalls`, `GovernorImplementsBudget`, `SpillOverBounded`,
  `BreakerIsTheHistory`. The ceiling is not inductive: it needs to know what a run
  inside a transaction remembers. `LockInv` says that a
  run at a locked place holds the lock, so at most one does; `SlotInv` that
  between SELECT and COMMIT the value read is still in the table and below the
  ceiling, which no other run can change without the lock. The refinement uses
  both: a `CommitSlot` is a `Grant` because `slot + 1` is the table's value plus
  one. `SpillInv` bounds the calls made on a day and those still to be made by the
  day's row and one slot of an earlier day for each run. `BreakerInv` says that the breaker's row
  reflects the replies before the one still waiting to be booked.
* **`ReviewProofs`.** `ReviewTypeOK`, `TrailExplains`, `SystemVerdicts`,
  `AnswersAreTrue`, `AuditsShowDecisions` for the code as it is, and
  `ClosedForGood`, `ReviewImplementsLedger` assuming `Serialized`.
  What makes the unguarded overwrite harmless to the first three is `SameFate`: an
  open row, and any copy of one however stale, differs from the row the pipeline
  wrote only in the fields that every review overwrites (`OpenRowInv`, `CopyInv`).
  `FreshInv`, that a copy still equals its row, needs `Serialized`, and the
  refinement needs `FreshInv`. `AckInv` says of each place of a request which
  entries of the trail are its own: none before the commit, exactly one from then
  to the 200, none for a refusal, at most one for a failure. `AuditInv` relates
  an audit's events to what the rows already showed when they were read.
* **`RunServiceProofs`.** `RunServiceTypeOK`, `StatusIsHonest`, `DegradedIsEarned`,
  `SameDayReport`, `ServiceImplementsBudget`. `StoredInv` ties a stored row to the
  locals it was derived from; `TroubleInv` that a refusal left an exception and that
  the status snapshot saw every open breaker; `CountInv` that on the day it started
  a run's calls are among those of the day.
* **`ResidueProofs`.** `ResidueTypeOK`, `OneGroup`, `LastResort`, `LlmNeverCommits`,
  `NothingStale`, `SeekersAnswered`. `Separation` strengthens
  `OneLiveGroupPerRecord` by keeping what is still to be verified apart from what
  has been, and open; `LlmInv` follows a
  Stage 6 group through both passes; `StaleInv` is the argument for the two
  phases of the seeker loop: while a LEDGER seeker is left every exception of Stage
  6 is about a LEDGER record, which nothing can be matched to any more, and
  BANK records never seek. `AnswerInv` follows a seeker from its turn to
  the group or the exception that answers it. `ReleasedInv` says that every member
  of a rejected group is named by an exception raised before the catch-all; with
  `AnswerInv` and the separation of live groups, a record nothing names is one
  nothing attempted.
* **`AggregationProofs`.** `OneGroup`, `NothingDropped`, `DecoysStayOut`,
  `AggregationImplementsGrouping`. `AggregationInv` adds to `OneGroupPerRecord` what
  the groups and the two sides of a pass are made of (`GroupsInv`, `UnitsInv`,
  `SidesInv`), that the window holds one outcome per target (`WindowInv`), and that
  no unit of the pass has been touched but by being used whole (`AvailableInv`). The key lemma is
  `EmitsApart`: the groups and records an accepted outcome merges are open, free
  and its own. (`ImplementsGrouping` of `Aggregation` is proved and no longer
  run: `ImplementsAggregate` says more.)
* **`SumLemmas`.** A sum over a set is a fold, and the library's principles of
  induction take an operator the provers cannot instantiate. Each induction here is
  turned into a search for a smallest counterexample among the subsets of a finite
  set (`SmallestSet`), which needs only that strict inclusion is well-founded. So
  what the models sum can be reasoned about for ledgers of any size.
* **`AggregationSums`.** `AggregationTypeOK`, `NoRivalIsClose`, `VerifiedIsBanked`,
  `SearchesConserve`, `SearchesImplementAggregate`. `AggregationTypeOK` bounds scores
  and margins by 0..1000, says that a combination that was found scores at least 500
  with no runner-up above it, and that a group a search made has a margin of at
  least `MinMargin`, 50. `AllInv` adds to `AggregationInv`
  that the open groups are still as they were handed on (`HandedInv`), that a unit
  counts with what its rows are worth to the side it is on (`AmountsInv`), and that
  what was found in a window is still the best of the pool and its runner-up still
  the best of its rivals (`FoundInv`), though other outcomes are concluded and the
  deadline passes in the meantime.
  * `NoRivalIsClose` is about every combination the pool has; the code compares two.
  * `SearchesConserve` is where two computations meet. The search compares the sum of
    units with a target and asks for the target's tolerance; the verifier sums rows,
    leaves out what a ledger amount already contains, and asks for the tolerance of
    the credits, which is smaller when the target is a settlement. `CloseEnough` is
    why this never matters: an answer that reaches the threshold of 850 thousandths
    misses the target by less than a third of its tolerance, which is within the smaller
    one. The theorem assumes `MinScoreMargin <= MinMargin`: 50 thousandths is
    the setting's default, and a verifier set to ask for more of a margin than the
    searches would reject by design. It also keeps to the groups the property names;
    `Settlements` and the premise on Stage 4 are where the two sums really
    differ, as TLC shows when they are left out.
  * `SearchesImplementAggregate` is the refinement described under
    `AggregationRefinement`: `OneCurrencyOfAnswer` and `LooseIsSearchable` carry
    each guard of `Aggregate` over from the search.
* **`StagesProofs`.** `OneGroup`, `PolicyMeansIdentifier`, `OneEventEach`,
  `StagesImplementGrouping`, `StagesTypeOK`. `StagesInv` is `OneGroupPerRecord` with
  what the groups are made of and with seekers that are records of the pass's own source
  (`GroupsInv`, `SeekersInv`); `EventInv` adds what each stage's groups are about and
  `PairInv` that a group of Stage 2 without a bank leg is a pair of its first pass: the
  two together are what `Aggregation` assumes of the groups it is handed.
  `StagesTypeOK` assumes `MinScoreMargin <= 80`, the smallest margin the scored
  stages ask for, and shows by `CompositeInRange` that weights, windows and
  similarities never lead out of 0..1000. By `SearchesImplementAggregate` what is said
  here of members, policies and events holds with Stages 3 and 4 as they are searched;
  the margins of their groups are the subject of `AggregationTypeOK`.

Only model-checked: liveness (`LockIsReleased`, `EveryRunEnds`), which the prover
cannot do. Every other property of a passing run is a theorem.

## 6. What is not modelled

* **Groq, prompts, JSON extraction** (`llm/recommender.py`, `llm/prompts.py`): text
  processing and an external service; their outcomes drive `Governor`,
  `RunService` and `Residue`.
* **The near-miss score of Stage 6**: a choice; only which records may be offered
  and how many matters to the properties.
* **Similarity of texts and `normalize_reference`** (rapidfuzz and string work):
  constants of `Stages`. Scores are thousandths where the code has floats, so two
  scores closer than that are one score here, and a margin of exactly 0.05 passes
  where the code's subtraction may fall just under it (`aggregation_common.py:280`,
  `stage3_aggregate.py:460`). `NetTolerance` of `Stages` is in whole paise where
  `stage2_constrained.py:164` has 0.5 % as a float. Only amounts and scores on the
  very boundary are decided otherwise.
* **Ids of one width**: the comment at `pipeline.py:379` rules out that one
  `record_id` is part of another because the ids of a dataset share one width, which
  no code enforces: `record_id` is any string (`models/normalized_record.py:28`). The
  model does not assume it. Where it fails, an unmatched record can end with no
  exception at all, named in none but as a part of another's id;
  `CatchallIsLastResort` allows that, and says it happens in no other way.
* **The wording of the catch-all's exception**, "was never attempted by any matching
  stage": true of groups and of turns as a seeker, as the property says, but a record
  that Stage 6 offered to a payment whose call was declined was a candidate.
* **Order of groups by their generated id**: `Aggregation` orders by lowest record.
* **Missing records in the verifier**: `verify_match_group` guards against ids that
  are not in the batch, which the pipeline never gives it.
* **Members, exceptions and other columns of the store**: written once by `save_run`
  and never changed, so no interleaving can tear them.
* **Metrics of the harness, the dashboard, test data, scripts**: arithmetic over
  finished data, display, and offline generation.

Some hazards in `PROJECT.json` have no property, because the code promises nothing
there: the greedy loops depend on the order of records; a Stage 1 unit whose
amount nets to zero ties with every combination that leaves it out; Stage 2
takes amounts within 0.5 % and the verifier within 0.1 %, so what it proposes may be
refused later; and a Stage 1 group of a gateway and a bank record is
not compared by amount. That a settlement of at most one rupee passes with no bank
leg is the tolerance's floor, and `VerifiedMeansBanked` names it.
