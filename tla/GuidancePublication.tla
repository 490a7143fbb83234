------------------------- MODULE GuidancePublication -------------------------
(***************************************************************************)
(* The private-guidance workflow                                           *)
(* (.github/workflows/niakvio-private-guidance.yml) with the scripts that  *)
(* select a page of its cohort and merge it into the niakvio-guidance      *)
(* branch.                                                                 *)
(*                                                                         *)
(* A workflow run reads the branch, selects the next page of its cohort,   *)
(* plans it for up to three hours, passes two guards, each on a fresh      *)
(* fetch, and replaces the branch under a lease.  A run that published an  *)
(* incomplete cycle dispatches the next one, pinned to the same Brain.     *)
(* Runs of one concurrency group are serialised, runs of different groups  *)
(* are not, so that what a run computed at selection may be old when it is *)
(* published.                                                              *)
(*                                                                         *)
(* Of the branch's four files the state file is modelled field by field;   *)
(* of the three row files only what a merge decides: under which Brain and *)
(* source the rows of a provider were produced.                            *)
(***************************************************************************)
EXTENDS Integers, Sequences, FiniteSets, Functions, FiniteSetsExt

CONSTANTS
    Brains,       \* Brain revisions
    Ancestors,    \* Ancestors[b]: b and every revision it descends from
    Inert,        \* <<old, new>>: old..new touches only trigger, memory, docs
    MainMoves,    \* <<from, to>>: moves of main, fast-forward or forced
    TriggerMoves, \* those among them that change the trigger file
    Sources,      \* NiakVIO source revisions
    Providers,    \* provider ids
    Cohorts,      \* requested cohorts: sequences of providers
    PageSize,     \* the clamped page size, 1..12
    FirstMain,    \* the Brain revision on main at the start
    Unpinned,     \* the group of runs with no brain_sha input ("current")
    None,         \* no Brain, no source, no request, no row
    ManualPins,   \* Brain revisions an operator's dispatch may pin
    MaxTriggers,  \* bound: pushes, dispatches and other moves of main
    MaxFaults     \* bound: killed runs and failed fetches

Groups == Brains \cup {Unpinned}

ASSUME AncestryAssumption ==
    /\ Ancestors \in [Brains -> SUBSET Brains]
    /\ \A b \in Brains : b \in Ancestors[b]
    /\ \A a, b \in Brains : a \in Ancestors[b] => Ancestors[a] \subseteq Ancestors[b]
    /\ \A a, b \in Brains : a \in Ancestors[b] /\ b \in Ancestors[a] => a = b
ASSUME CohortAssumption ==
    Cohorts \subseteq Seq(Providers) \ {<<>>} /\ PageSize \in 1..12
ASSUME NameAssumption ==
    /\ FirstMain \in Brains
    /\ ManualPins \subseteq Brains
    /\ Unpinned \notin Brains
    /\ None \notin Brains \cup Sources \cup Cohorts \cup [brain : Brains, source : Sources]
ASSUME BoundAssumption == MaxTriggers \in Nat /\ MaxFaults \in Nat

VARIABLES
    main,      \* the head of main
    branch,    \* the niakvio-guidance branch
    queue,     \* queue[g]: the pending run of group g, or None
    pc,        \* pc[g]: where the running run of group g is
    job,       \* job[g]: its Brain, source and cohort
    doomed,    \* doomed[g]: GitHub has been told to cancel it
    seen,      \* seen[g]: the branch as it last fetched it
    moved,     \* moved[g]: the branch was replaced after that fetch
    page,      \* page[g]: the providers of its page
    next,      \* next[g]: the state file it will publish
    triggers,  \* how many external events happened
    faults     \* how many faults happened

runVars == <<pc, job, doomed, seen, moved, page, next>>
vars == <<main, branch, queue, pc, job, doomed, seen, moved, page, next,
          triggers, faults>>

Requests == [brain : Brains, source : Sources, cohort : Cohorts]

Stamp(brain, source) == [brain |-> brain, source |-> source]

\* The branch before anything was published; a missing state file reads so.
Absent ==
    [brain |-> None, source |-> None, cohort |-> None,
     cycle |-> 0, completed |-> {}, rows |-> [p \in Providers |-> None]]

NoState == [cycle |-> 0, completed |-> {}]

Init ==
    /\ main = FirstMain
    /\ branch = Absent
    /\ queue = [g \in Groups |-> None]
    /\ pc = [g \in Groups |-> "idle"]
    /\ job = [g \in Groups |-> None]
    /\ doomed = [g \in Groups |-> FALSE]
    /\ seen = [g \in Groups |-> Absent]
    /\ moved = [g \in Groups |-> FALSE]
    /\ page = [g \in Groups |-> {}]
    /\ next = [g \in Groups |-> NoState]
    /\ triggers = 0
    /\ faults = 0

IsAncestor(a, b) == a \in Ancestors[b]

\* complete: no provider of the requested cohort remains.
Complete(cohort, completed) == Range(cohort) \subseteq completed

-----------------------------------------------------------------------------
(* Events from outside the workflow.                                       *)

Request(brain, source, cohort) ==
    [brain |-> brain, source |-> source, cohort |-> cohort]

\* GitHub keeps one pending run per group: a newer one replaces it.
Enqueue(g, request) == queue' = [queue EXCEPT ![g] = request]

External == triggers < MaxTriggers /\ triggers' = triggers + 1

\* A push that changes the trigger file starts an unpinned run of the pushed
\* revision and cancels the unpinned run in progress.
PushTrigger ==
    /\ External
    /\ \E b \in Brains, s \in Sources, c \in Cohorts :
          /\ <<main, b>> \in TriggerMoves
          /\ main' = b
          /\ Enqueue(Unpinned, Request(b, s, c))
    /\ doomed' = [doomed EXCEPT ![Unpinned] = pc[Unpinned] # "idle"]
    /\ UNCHANGED <<branch, pc, job, seen, moved, page, next, faults>>

\* Any other push to main.
PushOther ==
    /\ External
    /\ \E b \in Brains : <<main, b>> \in MainMoves /\ main' = b
    /\ UNCHANGED <<branch, queue, runVars, faults>>

\* A manual dispatch runs the head of main, or the Brain it pins.
Dispatch ==
    /\ External
    /\ \E s \in Sources, c \in Cohorts :
          \/ Enqueue(Unpinned, Request(main, s, c))
          \/ \E b \in ManualPins : Enqueue(b, Request(b, s, c))
    /\ UNCHANGED <<main, branch, runVars, faults>>

-----------------------------------------------------------------------------
(* The steps of a run.                                                     *)

EndRun(g) ==
    /\ pc' = [pc EXCEPT ![g] = "idle"]
    /\ job' = [job EXCEPT ![g] = None]
    /\ doomed' = [doomed EXCEPT ![g] = FALSE]
    /\ seen' = [seen EXCEPT ![g] = Absent]
    /\ moved' = [moved EXCEPT ![g] = FALSE]
    /\ page' = [page EXCEPT ![g] = {}]
    /\ next' = [next EXCEPT ![g] = NoState]

\* git fetch ... || true: a failed fetch leaves what was fetched before.
Fetch(g) ==
    \/ /\ seen' = [seen EXCEPT ![g] = branch]
       /\ moved' = [moved EXCEPT ![g] = FALSE]
       /\ UNCHANGED faults
    \/ /\ faults < MaxFaults
       /\ faults' = faults + 1
       /\ UNCHANGED <<seen, moved>>

Start(g) ==
    /\ pc[g] = "idle"
    /\ queue[g] # None
    /\ pc' = [pc EXCEPT ![g] = "selecting"]
    /\ job' = [job EXCEPT ![g] = queue[g]]
    /\ seen' = [seen EXCEPT ![g] = branch]
    /\ moved' = [moved EXCEPT ![g] = FALSE]
    /\ queue' = [queue EXCEPT ![g] = None]
    /\ UNCHANGED <<main, branch, doomed, page, next, triggers, faults>>

\* The previous state counts only for the same Brain, source and cohort.
CompatibleState(previous, request) ==
    /\ previous.brain = request.brain
    /\ previous.source = request.source
    /\ previous.cohort = request.cohort

\* A complete compatible state starts the next cycle from nothing.
CarriedNever(previous, request) == {}                                  \* mutant
Carried(previous, request) ==
    IF /\ CompatibleState(previous, request)
       /\ ~Complete(request.cohort, previous.completed)
    THEN previous.completed \cap Range(request.cohort)
    ELSE {}

NextCycle(previous, request) ==
    IF ~CompatibleState(previous, request) THEN 1
    ELSE IF Complete(request.cohort, previous.completed)
         THEN previous.cycle + 1 ELSE previous.cycle

\* The page holds the first PageSize remaining providers, the representatives
\* of the family wave before the others; any of them may be such.
Pages(cohort, completed) ==
    LET remaining == Range(cohort) \ completed
        Smaller(a, b) == IF a < b THEN a ELSE b
    IN  {s \in SUBSET remaining :
            Cardinality(s) = Smaller(PageSize, Cardinality(remaining))}

Select(g) ==
    /\ pc[g] = "selecting"
    /\ Fetch(g)
    /\ LET previous == seen'[g]
           carried == Carried(previous, job[g])
       IN  \E selected \in Pages(job[g].cohort, carried) :
              /\ page' = [page EXCEPT ![g] = selected]
              /\ next' = [next EXCEPT ![g] =
                    [cycle |-> NextCycle(previous, job[g]),
                     completed |-> carried \cup selected]]
    /\ pc' = [pc EXCEPT ![g] = "planned"]
    /\ UNCHANGED <<main, branch, queue, job, doomed, triggers>>

\* The published cycle of this very Brain and source still wants pages.
SameIncompleteCycle(published, request) ==
    /\ published.brain = request.brain
    /\ published.source = request.source
    /\ ~Complete(published.cohort, published.completed)

NotStaleUnpinned(published, request) ==                                \* mutant
    \/ request.brain = main
    \/ IsAncestor(request.brain, main) /\ <<request.brain, main>> \in Inert
NotStale(published, request) ==
    \/ request.brain = main
    \/ /\ IsAncestor(request.brain, main)
       /\ \/ SameIncompleteCycle(published, request)
          \/ <<request.brain, main>> \in Inert

\* The first guard: main may have moved while the page was planned.
Gate(g) ==
    /\ pc[g] = "planned"
    /\ Fetch(g)
    /\ NotStale(seen'[g], job[g])
    /\ pc' = [pc EXCEPT ![g] = "merging"]
    /\ UNCHANGED <<main, branch, queue, job, doomed, page, next, triggers>>

GateRefuses(g) ==
    /\ pc[g] = "planned"
    /\ ~NotStale(branch, job[g])
    /\ EndRun(g)
    /\ UNCHANGED <<main, branch, queue, triggers, faults>>

\* The second guard: never replace a newer or a diverging Brain, nor another
\* source of the same Brain.
MayReplaceUnderLease(published, request) == TRUE                       \* mutant
MayReplaceAnySource(published, request) ==                             \* mutant
    published.brain = None \/ IsAncestor(published.brain, request.brain)
MayReplaceNotNewer(published, request) ==                              \* mutant
    \/ published.brain = None
    \/ published.brain = request.brain /\ published.source = request.source
    \/ /\ published.brain \notin {None, request.brain}
       /\ ~IsAncestor(request.brain, published.brain)
MayReplace(published, request) ==
    \/ published.brain = None
    \/ published.brain = request.brain /\ published.source = request.source
    \/ published.brain # request.brain /\ IsAncestor(published.brain, request.brain)

Merge(g) ==
    /\ pc[g] = "merging"
    /\ Fetch(g)
    /\ MayReplace(seen'[g], job[g])
    /\ pc' = [pc EXCEPT ![g] = "pushing"]
    /\ UNCHANGED <<main, branch, queue, job, doomed, page, next, triggers>>

MergeRefuses(g) ==
    /\ pc[g] = "merging"
    /\ ~MayReplace(branch, job[g])
    /\ EndRun(g)
    /\ UNCHANGED <<main, branch, queue, triggers, faults>>

\* Rows of the page are the candidate's; other rows survive only under the
\* same Brain and source.
MergedRowsOfAnyHeader(previous, request, refreshed) ==                 \* mutant
    [p \in Providers |->
        IF p \in refreshed THEN Stamp(request.brain, request.source)
        ELSE previous.rows[p]]
MergedRows(previous, request, refreshed) ==
    [p \in Providers |->
        IF p \in refreshed THEN Stamp(request.brain, request.source)
        ELSE IF /\ previous.brain = request.brain
                /\ previous.source = request.source
             THEN previous.rows[p]
             ELSE None]

NewBranch(g) ==
    [brain |-> job[g].brain, source |-> job[g].source,
     cohort |-> job[g].cohort,
     cycle |-> next[g].cycle, completed |-> next[g].completed,
     rows |-> MergedRows(seen[g], job[g], page[g])]

\* --force-with-lease, or a plain push of an orphan commit when no branch was
\* seen: either way the branch must be the one fetched last.
LeaseHolds(g) == ~moved[g]

Push(g) ==
    /\ pc[g] = "pushing"
    /\ LeaseHolds(g)
    /\ branch' = NewBranch(g)
    /\ moved' = [h \in Groups |-> pc[h] # "idle"]
    /\ pc' = [pc EXCEPT ![g] = "published"]
    /\ UNCHANGED <<main, queue, job, doomed, seen, page, next, triggers,
                   faults>>

PushRejected(g) ==
    /\ pc[g] = "pushing"
    /\ ~LeaseHolds(g)
    /\ EndRun(g)
    /\ UNCHANGED <<main, branch, queue, triggers, faults>>

\* The next run is pinned to the Brain, source and cohort of this one.
ContinuationOfRemaining(g) ==                                          \* mutant
    [job[g] EXCEPT !.cohort =
        SelectSeq(@, LAMBDA p : p \notin next[g].completed)]
Continuation(g) == job[g]

\* A published incomplete page dispatches the next one.
Continue(g) ==
    /\ pc[g] = "published"
    /\ IF Complete(job[g].cohort, next[g].completed)
       THEN UNCHANGED queue
       ELSE Enqueue(job[g].brain, Continuation(g))
    /\ EndRun(g)
    /\ UNCHANGED <<main, branch, triggers, faults>>

\* The run is cancelled by a newer push, or dies (timeout, failing step).
Kill(g) ==
    /\ pc[g] # "idle"
    /\ IF doomed[g] THEN UNCHANGED faults
       ELSE faults < MaxFaults /\ faults' = faults + 1
    /\ EndRun(g)
    /\ UNCHANGED <<main, branch, queue, triggers>>

Step(g) ==
    \/ Start(g) \/ Select(g)
    \/ Gate(g) \/ GateRefuses(g)
    \/ Merge(g) \/ MergeRefuses(g)
    \/ Push(g) \/ PushRejected(g)
    \/ Continue(g)

Next ==
    \/ PushTrigger \/ PushOther \/ Dispatch
    \/ \E g \in Groups : Step(g) \/ Kill(g)

Spec == Init /\ [][Next]_vars

\* A runner executes the steps of its run to the end, and GitHub starts a
\* pending run once its group is free.
FairSpec == Spec /\ \A g \in Groups : WF_vars(Step(g))

-----------------------------------------------------------------------------
(* Properties.                                                             *)

PCs == {"idle", "selecting", "planned", "merging", "pushing", "published"}

Stamps == [brain : Brains, source : Sources]

Branches ==
    [brain : Brains \cup {None}, source : Sources \cup {None},
     cohort : Cohorts \cup {None}, cycle : Nat,
     completed : SUBSET Providers,
     rows : [Providers -> Stamps \cup {None}]]

\* Every run, queued run, fetched branch and published state is well formed.
TypeOK ==
    /\ main \in Brains
    /\ branch \in Branches
    /\ queue \in [Groups -> Requests \cup {None}]
    /\ pc \in [Groups -> PCs]
    /\ job \in [Groups -> Requests \cup {None}]
    /\ doomed \in [Groups -> BOOLEAN]
    /\ seen \in [Groups -> Branches]
    /\ moved \in [Groups -> BOOLEAN]
    /\ page \in [Groups -> SUBSET Providers]
    /\ next \in [Groups -> [cycle : Nat, completed : SUBSET Providers]]
    /\ triggers \in Nat
    /\ faults \in Nat

Published == branch.brain # None
CycleComplete == Published /\ Complete(branch.cohort, branch.completed)
Header == Stamp(branch.brain, branch.source)

\* A provider counts as completed only while the branch still holds the rows
\* of a page that processed it under the published Brain and source, although
\* the state file was computed hours before the rows it is published with.
CompletedHasRows == \A p \in branch.completed : branch.rows[p] = Header

\* No row of another Brain or source survives beside the published header.
RowsUnderHeader == \A p \in Providers : branch.rows[p] \in {None, Header}

\* Publication is monotonic in Brain history: the branch never moves to an
\* ancestor of the published Brain nor to a diverging one, however late a run
\* publishes and however recently it fetched.
BrainMonotonic ==
    [][Published => IsAncestor(branch.brain, branch'.brain)]_branch

\* While a Brain stays published, so does the source it was published for.
SourcePinned ==
    [][Published /\ branch'.brain = branch.brain
          => branch'.source = branch.source]_branch

\* Every published incomplete cycle is eventually followed by a complete one.
CycleCompletes == (Published /\ ~CycleComplete) ~> CycleComplete

\* Continuation chains end: no set of runs keeps restarting cycles for ever.
ChainsEnd == <>[](\A g \in Groups : pc[g] = "idle" /\ queue[g] = None)
=============================================================================
