# A verification development of the NiakVIO Brain

This directory holds TLA+ models of NiakVIO-Brain-LLM, the configurations that check them with TLC, and
proofs that the TLA+ proof system (TLAPS) checks. Paths below are relative to `src/`; `lib/` stands for
`src/src/niakvio_brain_llm/`. `PROJECT.json` maps every definition to the lines it models.

1. [The system](#1-the-system)
2. [The modules](#2-the-modules)
3. [The runs](#3-the-runs)
4. [What is proved](#4-what-is-proved)
5. [Where the code and its words disagree](#5-where-the-code-and-its-words-disagree)
6. [What is not modelled](#6-what-is-not-modelled)
7. [Plan](#7-plan)

## 1. The system

NiakVIO is a catalogue of provider scripts that break when the sites behind them change. The Brain reads a
NiakVIO checkout, decides for each broken provider what kind of failure it is, asks a language model for a
small mutation where a deterministic rule does not suffice, validates it, and publishes the candidates on a
branch. NiakVIO executes them in a sandbox and writes the verdicts into its repository, where the next
checkout finds them. Nothing in the Brain runs for long or alone: the state that lasts is in files and git
branches that several processes replace, and most of the logic is about budgets, retries and memory.

| component | state it keeps | operations | hard behaviour |
|---|---|---|---|
| Hosted cost ledger (`lib/api_cost.py`) | a JSON file: spent, pending, two counters | `reserve`, `settle`, both under `flock` | many worker processes, kills at any point, a write that is not atomic, answers without usage |
| Backends (`lib/backend.py`) | none but a deadline per call | hosted call (reserve, send, settle), local call (prefill, call, schema fallback) | an exception at each step; one deadline over several requests |
| Guidance workflow (`.github/workflows/niakvio-private-guidance.yml`) with `select_niakvio_guidance_page.py` and `merge_niakvio_guidance_page.py` | the branch `niakvio-guidance`: a state file and three row files | select a page, plan for hours, two guards, merge, replace under a lease, dispatch the next page | runs of different concurrency groups interleave; main moves meanwhile; cancellation; values computed long before they are published |
| Repair-family wave (`lib/repair_family.py`, `select_niakvio_repair_family_wave.py`) | diagnostics on the branch, NiakVIO's memory | choose one witness per family, order the page, fan out a validated family | computed twice from different inputs; families cut by pages |
| Force portfolio (`scripts/plan_batch_from_checkout.py`) | a request whose observations are rebuilt, reservations, deadlines | up to four candidates over up to four scopes, transport retries, corrections, carried feedback | one budget shared by nested loops; observations lost at a boundary |
| Provider pool (same script) | the rows of the batch | `plan_one` per provider on threads | one exception ends the batch |
| Advisor experiments (`lib/advisor_experiments.py`) | reservations of a batch, failed fingerprints | next profile, block, retry | a profile that never executes is never exhausted |
| FORCE memory and publisher (`publish_niakvio_force_mutations.py`, `lib/planner.py`, `lib/niakvio_adapter.py`) | NiakVIO's append-oriented ledger of verdicts | three readers decide which mutation is blocked | the readers' rules differ |
| Routing (`lib/routing.py`, `policy.py`, `priors.py`, `orchestrator.py`, `niakvio_adapter.py`) | none | name the failure, grant scopes, dispatch | decided five times, from evidence that retries drop |
| Planner and compilers (`lib/planner.py`) | none | resolve an edit to one anchor, trim and widen it, deterministic candidates | repetitions, overlaps, position arithmetic |
| Prompting, contexts (`lib/prompting.py`, `provider_context.py`, `live_evidence.py`, `source_units.py`) | none | bound and filter evidence to a token budget | what is dropped first |
| Session (`lib/session.py`), learning (`lib/learning*.py`) | signatures and outcomes | propose, record, classify | calls in an order the class does not expect |
| Memories and retrieval | files, read only | score | none that lasts |

How they meet: the workflow calls the wave, the page selection and `plan_batch`, which calls the orchestrator,
the planner and a backend for each provider of a page; the publisher turns rows into the branch's row files;
the merge and the state file go to the branch; the branch's diagnostics return to the wave of the next run, and
NiakVIO's verdicts return through the next checkout.

What makes each part correct, in a sentence:

- **Ledger.** The money spent and promised never exceeds the ceiling, and everything the provider may have
  billed is accounted for, whatever dies.
- **Publication.** The branch always describes one Brain revision and one source; it never moves back; a cycle
  that was started is completed; a provider recorded as processed has its rows.
- **Portfolio.** Candidates differ, refused mutations do not return, one deadline bounds all calls, and a
  rejection is not lost on its way to the next candidate.
- **Wave.** Every family is tried in each cycle, validated families fan out, and a timeout that steers a wave is
  a current one.
- **Memory and publisher.** Nothing that was executed and rejected is published again, and nothing that the planner
  offered is dropped on the way.
- **Routing.** A retry, which sees less evidence, is never granted more; a standing challenge stops every mutation; a
  paid repair call can succeed; evidence that a preflight gave is not owed again.
- **Advice.** The rotation never repeats itself, each hypothesis is published, and failures end at the model.
- **Anchors.** What the mutation changes is the occurrence that the model and the causal focus designate.

## 2. The modules

| module | models | theorems |
|---|---|---|
| `AtomicBudget` | the abstract promise of the ledger: two amounts, two atomic operations | |
| `BudgetLedger` | `api_cost.py` and the hosted call of `backend.py` | `BudgetLedgerProofs` |
| `GuidancePublication` | the workflow, page selection, merge | `GuidancePublicationProofs` |
| `FamilyWave` | both waves, page order, planning of a page, diagnostics | `FamilyWaveProofs` |
| `ForcePortfolio` | the repair branch of `plan_one` and `_run_force_scope` | `ForcePortfolioProofs` |
| `ForceMemory` | the ledger of verdicts with its three readers, the provider pool, the mutation publisher | `ForceMemoryProofs` |
| `CausalRouting` | adapter, preflight, prior, policy, routing, orchestrator, the planner's checks, retries | `CausalRoutingProofs` |
| `AdvisorCycle` | the rotation of experiments, hypotheses of a batch, publisher, executions | `AdvisorCycleProofs` |
| `AnchorResolution` | source windows, edits, occurrence, trimming, widening, replacement | `AnchorResolutionProofs` |
| `MC...` | constants for TLC | |

Operators marked `\* mutant` are variants with a plausible mistake; each stands before the definition it would
replace. They are used nowhere in the specifications: they document what each property is able to notice.

### BudgetLedger

| state | code |
|---|---|
| `ledger` | the JSON object of the file: `spent_usd`, `pending_usd`, `requests_reserved`, `requests_accounted` |
| `torn` | the file does not parse (a longer old text remains behind a shorter new one) |
| `lock`, `snapshot` | `flock` and the object read under it by `_locked` |
| `pc`, `reservation`, `charge`, `calls` | the position and local variables of `complete` in each worker |
| `billed`, `overrun` | history: what the provider billed, up to its reservation; how far settled usage exceeded it |

A transaction is two steps, `Enter` (lock, read, validate) and `Commit` or `Rollback`, so that the lock has
something to protect. `Crash` may happen anywhere, inside the write too: the file is then old, new, or torn.
Amounts are integers, the prices and token counts being small ones; the code's arithmetic is `Decimal`, exact as
well. What happens between two calls of a worker is its caller's affair.

### GuidancePublication

`queue[g]`, `pc[g]`, `job[g]` are the pending and the running workflow run of concurrency group `g`, which is
the pinned Brain of a continuation, or the unpinned group of trigger pushes and dispatches. `Select`, `Gate`,
`Merge`, `Push`, `Continue` are the steps between two fetches; between them hours may pass, in which any other
group moves. `seen[g]` is the remote branch as last fetched, `moved[g]` says that it was replaced since, which
is what `--force-with-lease` compares. A fetch may fail silently (`|| true`). `Kill` is a timeout, a failing step
or a cancellation; a run that GitHub was told to cancel (`doomed`) may still make steps before it dies.

A page is any set of remaining providers of the right size: the order depends on the family wave, which is the
business of `FamilyWave`. A row is the Brain and source that produced it.

### ForcePortfolio

`StartCandidate`, `StartScope`, one of `Select`, `Abstain`, `Reject`, `TransportError`, and `Close` are the loops
of `plan_one` and `_run_force_scope`; a call of the orchestrator is one step that takes a duration. The request
holds the sources of its observations (`evidence`), the reserved mutations and the carried feedback. The scoped
copy of a call is `scoped`: corrections filter its observations, as `_validation_feedback` does.

Time is counted in units of five seconds, the least timeout granted to a model call; every limit of the code is
a multiple of it, and only the shares of later candidates, which are quotients, are rounded down. `Durations` are those an
answered call may take; 0 stands for the deterministic compilers and a replayed family. The optional arguments
for long calls on a CPU are left at their defaults, as in the workflow.

### FamilyWave

`SelectPage` computes the first wave over the cohort with the published timeouts (`marks`) and puts its members
first. `PlanPage` computes the second one over the page, without timeouts, and plans its result; `Bypass` is the
deterministic path, which plans all. `Publish` merges the diagnostics: the page's rows are replaced, others
survive only under the same Brain and source (`fresh`). `Verdict` is NiakVIO's: it changes `ledger`, which
becomes the `checkout` only with a newer revision (`NewCycle`). The constant `Checkout` is what one checkout of NiakVIO
says of each provider: census flags, a row of the static audit, its failure and the observations with their hints of
stage and DOM. From it the operators compute what the code computes: `Eligible`, `TargetPriority` and `PlanRank` the order
of the planning targets, `Mechanism` and `FamilyOf` the descriptor of a repair family (the markup classes and facts are
abstract values, the prefix of a class is a tuple), `EvidenceScore` the weight of a sibling, `CohortWave` the wave. They
change only with a new chain. A dispatch may ask for another page size, so `PageSizes` is a set.

### ForceMemory

A batch checks out the `ledger` of verdicts and the `version` of the bytes around each mutation, plans its providers
on `--workers` threads (`StartProvider`, `FinishProvider`, `Raise`), sorts the rows (`Write`) and publishes them.
Meanwhile NiakVIO executes what is on the `branch` and appends verdicts (`Execute`), and the bytes change (`Drift`).
Three operators are the three readers: `Newest` and `Observed` the adapter's digest, `PlannerBlocks` the planner's guard
on that digest, `PublisherBlocks` the publisher's own reading. `progress` and `rows` are the futures and the list they
are collected in; `planned` remembers, for the properties, what each provider returned. `options` are the
batch's workers and its stop at the first executable row, which only the loop of a single worker looks at. A row of a portfolio is any
mutation that passes the guard: how the model comes to it is `ForcePortfolio`'s.

### CausalRouting

`site` is what a checkout says of a provider, abstracted to what some decision reads: 22 fields. The lanes of the sharded
census are among them, and `FanoutGap` is what the adapter makes of their rows: a page that announced more than it
returned, or a player that was not explored. `FromCheckout` is
`request_from_checkout`, `BuildWithPreflight` the preflight that may demote a positive status. `Prior`, `Policy` and
`Route` are operators, as they are functions in the code; `Orchestrate` applies them to the `scoped` copy of a call
and `Mutate` applies the first two once more to the planner's copy (`Effective`). `Correct` and `NextCandidate` drop
observations, as `_validation_feedback` and `_carry_force_portfolio_feedback` do. 
The result of a retrieval is a choice at each search: `found` is the strategy of the first usable experience of the
class, out of those the store holds (`site.history`), or `"nothing"`, because the ranking depends on the whole
request and keeps six rows. An experience may bear any strategy, so that it may name a replay (`NoMutationStrategies`)
or a discovery (`discover-api`), on which policy and routing branch; where the taxonomy has no strategy of its own,
the experience decides. `retrieved` remembers what the orchestrator found: the planner searches the store again, and
finds the same for the same copy (`FoundFor`). A model's answer must also repeat the strategy of a prior of high
confidence; an answer can always do so, and the guard is left out.

### AdvisorCycle

One provider with the rotation of its strategy: the base experiment, those aimed at the tokens of its failure, and
24 generic variants, computed as `advisor_experiments.py` does. A fingerprint is the experiment. `ForceRows` and
`ModelAnswers` are what the batch reads besides: rows of the FORCE memory, which name no experiment, and hypotheses of
the model, which may name roles that do not exist (`UnknownRoles`) and numbers out of range. `Checkout`, `Rotate`,
`CallModel`, `Retry` and `Publish` are a batch; `Fail`, `NotExecuted` and `Accept` are NiakVIO's executions, which go on
during later batches. `base` is the checked-out ledger, `history` the list that reservations are appended to.

### AnchorResolution

A text is a sequence of letters, an edit names a unit (offset and length) or a window and a snippet. `Locate`, `Trim`,
`Widen` and `Apply` are the stages of `_resolve_structured_anchor` and its caller; `Scan` is the loop over `str.find`,
and so counts as `str.count` does. `AnswerUnit` allows every piece of a window and, with a declaration, every piece of
the source: the tokeniser of `_force_edit_units` allows fewer. `Refuse` stands for the rejections that look at JavaScript
(removed helpers and bindings, syntax), which may strike any edit.

## 3. The runs

| run | question | bounds |
|---|---|---|
| `budget_ledger` | ceiling, coverage of billed usage, live reservations, counters, refinement of `AtomicBudget` | two workers with ceilings 8 and 6, two calls each, requests of cost 3 and 4, usage below, at and above the reservation |
| `guidance_safety` | one Brain and source on the branch, monotonic, rows for what is recorded | three revisions of which two diverge, two sources, three external events, one fault |
| `guidance_liveness` | cycles complete, chains end | three revisions in a row, two cohorts, two sources, three events, no faults |
| `force_portfolio` | distinctness, negative memory, deadline, no candidate starves, feedback | four candidates, two scopes, the workflow's 600 s and 240 s, answers at once or after 60 s |
| `force_causal_layer` | (violated) retries keep the causal layer | two candidates, one scope |
| `family_wave` | families covered, validated ones fan out, marks current, witnesses first | five providers of two families: three siblings with equal evidence, one not eligible with a sibling whose debt is static only; pages of one and three, one verdict |
| `family_blocked` | (violated) an unblocked sibling goes first | pages of three |
| `force_memory` | readers agree in the direction that matters, nothing rejected returns, nothing offered is dropped, rows as in a sequential batch | two providers, one with a bloc and a data mutation, one with a patch; portfolios of two, one or two workers, two verdicts, one drift, two batches |
| `causal_routing` | authority only shrinks, challenges stop mutations, repair calls can succeed, a preflight outlives retries | three families of checkouts (challenges, evidence, retrieval), four calls |
| `advisor_cycle` | every slot counts, the hand-over is earned, failures reach the model | six strategies, ledgers from empty to exhausted, two hypotheses a batch, one unobserved execution |
| `anchor_resolution` | the selected occurrence is the causal one, and it is what changes | sources of five and six letters, finds of one to six, two windows |
| `anchor_overlap` | (violated) the anchor is globally unique | the same |

Why these bounds are enough to see something. *Ledger*: two workers are the least that interleave, different
ceilings make one refuse what the other admits, two calls let a worker restart over a reservation that its
predecessor left pending or over a torn file. *Publication*: three events give two groups and a move of main, so
that an old run overtakes a new one; with pages of one over two providers a cycle needs a continuation;
two diverging revisions are the least for a forced push. *Portfolio*: four candidates is the clamp of the code;
two scopes, one with three corrections and one with one, cover the branches of the loops; six answers of a minute use
up what is not reserved for later candidates, ten the budget. *Wave*: a family of three has a witness, a deferred sibling and a second
one; a pair of which one is not eligible is the least where the waves disagree; page sizes one and three cut both
families in every way. *Memory*: two verdicts are the least for one to supersede another, one drift puts them in different
contexts, and the second batch reads what the first one caused. *Routing*: each family varies the fields that one
part of the decision reads, with the others plain; the experiences of a class are none, one that changes nothing, one
that forbids a mutation beside one without a strategy, and one that asks for a discovery beside another, with a fresh
URL and without; four calls are a first call, a correction, a scope and a candidate.
*Advice*: the rotations are the code's own, at full length; the ledgers put the batch at their beginning, their middle and
their end. *Anchors*: MaxChars is 5, so that a source of five letters is one window and one of six is cut; each limit of
the code is exceeded by some edit; over two letters every find of one or two letters repeats in most sources. A tie
between windows would need three of them, and no caller in the code asks for more than two.

The largest runs are `force_portfolio` (2.3 million states), `causal_routing` (1.7 million), `guidance_safety` and
`anchor_resolution` (some 700,000 each) and `advisor_cycle` (430,000, with liveness); each ends within two minutes on two cores.

**Fairness.** Two runs assume some. `guidance_liveness`: weak fairness on the steps of the run of each group
(`FairSpec`). GitHub starts a pending run when its group is free and a runner executes the steps in order; nothing
is assumed of pushes, dispatches and moves of main. Kills and failed fetches are faults without fairness and are
excluded in this run, because a killed run has no retry in the workflow: the cycle then waits for the next
external event, and the property would say nothing about the code.

`advisor_cycle`: weak fairness on the checkout and the loop of a batch, which the schedule of the workflow and the
script give; strong fairness on a publication whose other providers are valid, because a page is not lost for ever to
a neighbour; strong fairness on *some* observed execution while something is published, because that is what the
guidance is published for. Which experiment is executed, and whether it succeeds, is left open. The batches that call the
model end a behaviour, as all later ones would call it too.

**Deadlock.** `budget_ledger`, the guidance runs, `force_memory`, `causal_routing`, `advisor_cycle` and the anchor runs set
`CHECK_DEADLOCK FALSE`: calls and external events are bounded, an edit or a request is answered once, and then the
system really stops. `ForcePortfolio` stutters in `Done`; `FamilyWave` never stops. Both are checked for deadlock.

## 4. What is proved

All theorems hold for every value of the constants that satisfies the assumptions in the modules.

**Ledger** (`BudgetLedgerProofs`): `TypeCorrect`, `CeilingHolds`, `BilledCovered`, `PendingCovers`, `CountersHold`,
`ImplementsAtomicBudget`. The ceiling is not inductive: a worker decides on the snapshot it read, so the proof needs
that the snapshot of the lock's holder is the ledger. `IInv` is `TypeOK`, *a worker inside a transaction holds the
lock* (`LockInv`), *its snapshot is the ledger* (`SnapshotInv`) and the ceiling. Refinement then takes one step: each
commit is an operation of `AtomicBudget`, everything else leaves the two amounts alone. The three sums over the
workers need `AmountInv`: what has been billed, together with what the calls under way may still be billed
(`Unbilled`), is at most what is spent and pending, pending covers the reservations of these calls, and they are at
most `reserved - accounted`. Each step changes the term of one worker only. The facts about sums that this takes
(`SumRemoves`, `SumAdds`, `SumAgrees`) are proved from the definition of `MapThenSumSet`: the order in which a fold
takes the members does not matter, by well-founded induction on the cardinality. Assumed: every maximum is at most
`Ceiling`; rates and amounts are natural numbers.

**Publication** (`GuidancePublicationProofs`): `TypeCorrect`, `OneHeader`, `CompletedKeepsRows`, `Monotonic`,
`SourceStays`. The guards and the lease concern the last fetch, the state file the first one. `Kept(b, brain, source,
S)` says that `b` has a later Brain, or still this Brain with this source and the rows of `S`; the lemma
`KeptByReplacement` shows that a replacement the second guard admits preserves it. `IInv` states it of what each run
has fetched (`SeenInv`) and of the providers it carries over (`CarriedInv`), says that a lease that holds is a lease
on what the guard saw (`LeaseInv`, `GuardInv`), and adds the two properties of the branch. At the push, a run that
carries providers cannot replace an older Brain, since its own was published before; so the rows it does not bring are
there. Assumed: ancestry is a partial order (`AncestryAssumption`). The invariant was first checked by TLC on the
constants of `guidance_safety`.

**Portfolio** (`ForcePortfolioProofs`): `TypeCorrect`, `CandidatesDistinct`, `NegativeMemoryHolds`, `BudgetHolds`,
`RejectionsCarried`, `NoCandidateStarved`. What keeps candidates apart is that each one is reserved in the request (`CoverInv`) and that the
copy a call is made with has the same reservations (`ScopedInv`), through corrections and slot boundaries. The list
keeps four entries: it never overflows because it has at most as many entries as candidates have ended (`LengthInv`),
which is where the clamp to four candidates is needed. The negative memory needs `MemoryInv`: its source is kept at
each boundary. The deadline is `TimeInv`: a candidate's deadline is within the budget and a call's timeout within the
candidate's. `RejectionsCarried` needs `RejectionInv`: while a scope is being corrected its rejection is in `reason`
alone, and the lemma `ScopeEnds` shows that each way out of a scope, the deadline's included, passes it on.
`NoCandidateStarved` adds durations up against deadlines. As long as nothing is planned each candidate may take 180 s, so
that n further slots need as much each and the last one a single unit of five seconds; once something is planned the rest is
shared evenly, and a unit each is enough (`Needed`). `SlotInv` says that this is still there, at the start of a candidate from
now on and during one from its deadline on. The hypothesis, `Budget >= 36 * (MaxHypotheses - 1) + 1`, is 545 s for four
candidates; the workflow passes 600 s, which the failures that a model repairs keep. Some classes are cut to 150 or 300 s
(`plan_batch_from_checkout.py:866-871`), where it does not hold for four candidates and three slow ones leave nothing to
the last.

**Wave** (`FamilyWaveProofs`): `TypeCorrect`, `MarksCurrent`, `FanOut`, `EveryFamilyServed`, `WitnessFirst`. The first
three share an invariant, `TypeOK`, `MarksAreCurrent` and `ValidatedFansOut` together; the lemma `PublishStep` covers
both ways to plan a page, from the one fact that whatever is planned is part of the page and contains its eligible
members of validated families. `EveryFamilyServed` and `WitnessFirst` rest on one more fact: over any set of
candidates and any timeouts, a family that is met has exactly one witness (`WitnessExists`, `WitnessUnique`). The keys
of the wave are four numbers compared in turn of which the last, the rank, is injective, so that a family has a least
member. That the rank is injective and in range is itself proved, from the
order in which the targets are sorted (`PlanRankIsOrder`). Assumed: names and target ranks tell the providers apart
(`CohortAssumption`).

**Memory** (`ForceMemoryProofs`): `TypeCorrect`, `RefusesLess`, `NothingReservedIsDropped`, `NothingRejectedReturns`,
`RowsAreSequential`. `RefusesLess` needs no invariant: the digest holds rows of the ledger only, and the adapter reads the execution flag
at least as strictly as the publisher (`PlannerIsLaxer`). The converse is false, and the lemma
`ReadersDifferBySupersession` says how far: what the publisher refuses and the planner does not has a later verdict of
its key, which exists because the order of the positions is well-founded (`LastOfKey`). `BatchInv` then carries the
guard's decision from the moment a provider ends to the publication: every executable row is unblocked at the checkout
of its batch, which no verdict changes. `RowsAreSequential` needs to know where the rows of each finished provider stand:
`ArrivalInv` says that they are together, in their order, and that nothing else was collected; that providers start in
their order; and that those of a single worker end in it, so that what an early stop leaves out is an end of the list.
At the write, the portfolios one after another are then a rearrangement of the rows that respects position and arrival
(`PortfoliosInOrder`, from `FlattenSeqFacts` about the recursive `FlattenSeq` of the community modules), the sort gives
another one, and there is only one (`SortUnique`, at the first place where two would differ). `ArrivalInv` was first
checked by TLC on the constants of `force_memory`. Assumed: a batch selects no provider twice (`BatchAssumption`).

**Routing** (`CausalRoutingProofs`): `TypeCorrect`, `AuthorityNeverGrows`, `ChallengeStopsMutation`, `PlannerAgrees`,
`LiveOutlivesObservation`. The invariant says that a request, and the copy of a call, is the initial one with
observations and scopes removed, the challenge kept (`RequestNarrows`, `CopyNarrows`), and that a repair call has a
grant of the policy (`RepairIsGranted`). `PlannerAgrees` follows: the scopes granted are the one scope of the copy, so
that the planner is given the copy itself and finds the same experience. `LiveOutlivesObservation` says what may
withhold the repair of a demoted provider and what may not: an experience whose strategy forbids a mutation, or asks
for a discovery when no fresh URL is left in the copy, but never the evidence whose observation a correction dropped.
The heart is the lemma that prior and policy of a narrowed request grant no
more than those of the whole one (`NarrowedIsGranted`). It holds because a copy keeps census and targeted evidence:
the replay that it may lose can only lift a challenge, so that without it a challenge may stand again, never the
reverse (`PriorOfNarrowed`). Assumed of the checkouts: their type only.

**Advice** (`AdvisorCycleProofs`): `AdviceTyped`, `RotationPublished`, `ModelIsLast`. Three pieces of code exclude
experiments: the rotation by the history of the batch, the hand-over by executed failures, the publisher by the ledger of
the checkout, after it has brought each experiment into a normal form. They agree for two reasons. What the rotation
advises is `Normal` already: the six defaults, the targeted ones and the 24 variants of each are shown to be in the
executor's bounds, with known roles that do not repeat (a rotation of such a list is one again), so that the publisher
leaves them as they are. And `BatchInv` holds while a batch plans: the history blocks what its checkout blocks and what
the batch has planned, and nothing else. `ModelIsLast` follows from what a blocked experiment then means. Assumed
(`InputsAssumption`): ledgers, FORCE rows and model answers have the types that the readers coerce them to, and a row of
the FORCE memory names no experiment, as its writers never do.

**Anchors** (`AnchorResolutionProofs`): `ReplacesSelected`, `UniqueUnlessOverlapping`, `SelectsCausal`. The first half is
about texts: slices that meet join, a match is a match letter by letter, so that a match of `p \o f \o s` is one of each
piece, and replacing it by `p \o r \o s` is replacing `f` by `r` in it (`SpliceWithin`). An edit is the ends it leaves
unchanged around what `Minimized` keeps (`MinimizedFacts`), and an occurrence with the text around it is an occurrence
(`Widened`). `EditInv` follows, first checked by TLC on the constants of `anchor_resolution`: at every moment the
replacement of the anchor at the target equals the replacement of the edit at the occurrence selected (`TargetKept`); it
needs that the anchor does occur at the target, that the edit occurs at the start (`StartKept`) and that windows are pieces
of the source (`TextType`). The scan, and the windows, are recursive functions: that their equations have solutions is
proved first (`ScanExists`, `RecursionExists`), then what a solution holds (`ScanFacts`): matches only, and all of them when
they do not overlap. So an anchor that counts as unique and does not overlap itself is found at the target alone
(`UniqueUnlessOverlapping`): the disagreement of section 5 is exactly the overlap. `SelectsCausal` then takes the best
candidate: whatever is not it has a candidate nearer, hence is farther than it, because ranks are totally ordered
(`BestIsNearer`), and a nearer rank is a closer occurrence (`NearerIsCloser`). Assumed: texts are sequences over one set of
letters and focuses natural numbers (`TextsAssumption`), limits positive and in their order (`LimitsAssumption`).

**Only model-checked.** The temporal properties of the next paragraph. Every invariant and action property of a passing
run is stated by a theorem.

**Out of the prover's reach.** Liveness under fairness (`CycleCompletes`, `ChainsEnd`, `FailuresReachModel`) and
ENABLED; the library's induction theorems, which take an operator as a parameter (the sums are done by hand, from
well-foundedness, as is induction along a recursive function); what a recursive operator computes.

## 5. Where the code and its words disagree

Each of these has a run that TLC must refute; the trace is the argument.

1. `force_causal_layer`: corrections and later candidates drop `waf-client-differential-current`, the evidence that a
   full replay was clean. The provider is then routed as a harness case, and they abstain without a model call.
2. `family_blocked`: the second wave does not know the timeouts, and plans the witness that timed out while it defers
   the sibling that the first wave preferred.
3. `anchor_overlap`: uniqueness is `str.count`, which leaves out overlapping matches. In `i++;go();i++;go();i++;` both
   pieces `i++;go();i++;` are edit units; an edit of the second changes the first. `EditLandsWhereSelected` shows that
   nothing else can go wrong between the selection and the replacement, and the theorem `UniqueUnlessOverlapping` that
   an anchor without overlaps cannot.

Smaller ones, found in the same way and not kept as runs:

- The state file is computed at selection and published hours later, while the rows are merged with a fresh fetch. Two
  runs of different groups for the same pair of revisions lose one page from `completedProviders`, which is planned again.
- An abstention counts as "planned", so that the generous share of the first synthesis ends before anything executable
  exists.
- The memory guard ignores `provider_js` and `provider_data`, reservations too: candidates of one portfolio may be equal
  in these scopes, and the publisher drops the second. `DistinctCandidates` and `PlannedIsPublished` are about the others.
- The planning applies eligibility and a second wave to a page, so that a provider is processed without a portfolio,
  where the workflow says that every provider of the page gets one.
- The readers of the FORCE memory share a semantics in one direction only: a later verdict on the same bytes supersedes a
  rejection for the planner and not for the publisher, so that a candidate may be paid for and dropped.
- A healthy provider with a positive status is skipped, but not one whose class is healthy and whose status is not: it
  is diagnosed by the model.
- `int(row.get("focus_offset") or ...)` (`planner.py:388`) takes a focus at the first character of a window for none.
- A bloc may be corrected three times where `docs/ARCHITECTURE.md` (line 80) says at most two; among siblings, evidence
  outranks failures, while the docstring of `repair_family.py` speaks of not hammering the same witness.

And one stall that no text excludes: when a run is cancelled between its push and its dispatch, and the
run that superseded it is refused because main moved again, an incomplete cycle waits for the next external event.

## 6. What is not modelled

- *Content*: prompts, regular expressions, fingerprints, JSON shapes. A mutation is a value, a fingerprint
  its identity, a rejection a code. Only `AnchorResolution` looks into a text, because offsets are its subject.
- *Deterministic compilers* of `planner.py`: they recognise JavaScript with regular expressions and build one candidate
  each, without state. What becomes of their candidates is in `ForcePortfolio` and `ForceMemory`.
- *Local backend*: one HTTP exchange with a deadline and a fallback; `ForcePortfolio` has the durations.
- *Prompt budget, provider context, live evidence*: bounded copies of evidence; what the decisions read of them is the
  `site` of `CausalRouting`.
- *The verdicts*: NiakVIO's sandbox is external; it writes what `Verdict`, `Execute`, `Fail` and their like say.
- *Offline scripts*: audits, importers, benchmarks, training. One pass over files each, with no state between runs.
- *Retrieval and memories*: read only while the program runs; a search is a nondeterministic choice, the same for the
  same query.
- *Session, learning records*: not yet, see below. `PROJECT.json` lists every component with its status, and every
  hazard with the properties that cover it or the reason that none does.

## 7. Plan

Done, in the order of how much a mistake costs and how little a test can see of it: the ledger, the publication workflow,
the portfolio, the wave, the memory and its publisher, the routing, the advice, the anchors, and the proofs of section 4.

Next, in this order:

1. Composition: `ForcePortfolio` takes its evidence as an abstract set; with `CausalRouting` in its place, the layer of
   each candidate would be computed instead of chosen.
2. `BrainSession` and the local backend: propose and record of an external caller, deadline, prefill and fallback.
3. The order of the edit units and the prompt budget: which evidence is dropped first.
