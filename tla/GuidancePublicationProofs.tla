----------------------- MODULE GuidancePublicationProofs -----------------------
(***************************************************************************)
(* Proofs about GuidancePublication.                                       *)
(*                                                                         *)
(* What a run selects and what it replaces are two readings of the branch, *)
(* hours apart.  The guards look at the second one only, so the proof has  *)
(* to say what became of the first: Kept(b, brain, source, S) says that b  *)
(* has either a newer Brain, or still this one with this source and the    *)
(* rows of S.  A push that the guard admits keeps it (lemma                *)
(* KeptByReplacement).  SeenInv and CarriedInv state it of what each run has      *)
(* fetched and of the providers it carries over; LeaseInv and GuardInv tie *)
(* the second reading to the branch that is replaced.                      *)
(***************************************************************************)
EXTENDS GuidancePublication, TLAPS

Kept(b, brain, source, S) ==
    \A p \in S :
        /\ b.brain # None
        /\ brain \in Ancestors[b.brain]
        /\ b.brain = brain =>
              b.source = source /\ b.rows[p] = Stamp(brain, source)

JobInv == \A g \in Groups : pc[g] # "idle" => job[g] \in Requests

\* A run whose fetch is not outdated has the branch as it is.
LeaseInv == \A g \in Groups : pc[g] # "idle" /\ ~moved[g] => seen[g] = branch

\* A run about to push has passed the guard on what it fetched last.
GuardInv == \A g \in Groups : pc[g] = "pushing" => MayReplace(seen[g], job[g])

EmptyInv == ~Published => branch.completed = {}

SeenInv ==
    \A g \in Groups :
        pc[g] # "idle" =>
            Kept(branch, seen[g].brain, seen[g].source, seen[g].completed)

CarriedInv ==
    \A g \in Groups :
        pc[g] \in {"planned", "merging", "pushing"} =>
            Kept(branch, job[g].brain, job[g].source, next[g].completed \ page[g])

TypeInv == TypeOK /\ JobInv

FetchInv == LeaseInv /\ GuardInv

BranchInv == EmptyInv /\ RowsUnderHeader /\ CompletedHasRows

IInv == TypeInv /\ FetchInv /\ BranchInv /\ SeenInv /\ CarriedInv

-----------------------------------------------------------------------------
(* Types.                                                                  *)

\* A selected state is well formed: the carried providers and the page belong
\* to the requested cohort.
LEMMA SelectTypes ==
    ASSUME NEW previous \in Branches, NEW request \in Requests,
           NEW selected \in Pages(request.cohort, Carried(previous, request))
    PROVE  /\ selected \subseteq Providers
           /\ Carried(previous, request) \subseteq Providers
           /\ NextCycle(previous, request) \in Nat
  <1>1. Range(request.cohort) \subseteq Providers
    BY CohortAssumption DEF Requests, Range
  <1>2. selected \subseteq Range(request.cohort)
    BY DEF Pages
  <1>3. Carried(previous, request) \subseteq Range(request.cohort)
    BY DEF Carried
  <1>4. NextCycle(previous, request) \in Nat
    BY DEF NextCycle, Branches
  <1> QED
    BY <1>1, <1>2, <1>3, <1>4

\* What a push puts on the branch is a well formed branch.
LEMMA NewBranchType ==
    ASSUME TypeInv, NEW g \in Groups, pc[g] # "idle"
    PROVE  NewBranch(g) \in Branches
  <1>1. job[g] \in Requests /\ seen[g] \in Branches
    BY DEF TypeInv, JobInv, TypeOK
  <1>2. next[g] \in [cycle : Nat, completed : SUBSET Providers]
    BY DEF TypeInv, TypeOK
  <1>3. Stamp(job[g].brain, job[g].source) \in Stamps
    BY <1>1 DEF Stamp, Stamps, Requests
  <1>4. MergedRows(seen[g], job[g], page[g]) \in [Providers -> Stamps \cup {None}]
    BY <1>1, <1>3 DEF MergedRows, Branches
  <1> QED
    BY <1>1, <1>2, <1>4 DEF NewBranch, Branches, Requests

\* Ending a run keeps the types, whatever else stays as it is.
LEMMA EndRunTypes ==
    ASSUME TypeInv, NEW g \in Groups, EndRun(g)
    PROVE  /\ pc' \in [Groups -> PCs]
           /\ job' \in [Groups -> Requests \cup {None}]
           /\ doomed' \in [Groups -> BOOLEAN]
           /\ seen' \in [Groups -> Branches]
           /\ moved' \in [Groups -> BOOLEAN]
           /\ page' \in [Groups -> SUBSET Providers]
           /\ next' \in [Groups -> [cycle : Nat, completed : SUBSET Providers]]
           /\ JobInv'
  <1>1. Absent \in Branches
    BY DEF Absent, Branches
  <1>2. NoState \in [cycle : Nat, completed : SUBSET Providers]
    BY DEF NoState
  <1>3. "idle" \in PCs
    BY DEF PCs
  <1>4. JobInv'
    BY DEF TypeInv, TypeOK, JobInv, EndRun
  <1> QED
    BY <1>1, <1>2, <1>3, <1>4 DEF TypeInv, TypeOK, EndRun

\* A fetch, failed or not, leaves a well formed branch in seen.
LEMMA FetchTypes ==
    ASSUME TypeInv, NEW g \in Groups, Fetch(g)
    PROVE  /\ seen' \in [Groups -> Branches]
           /\ moved' \in [Groups -> BOOLEAN]
           /\ faults' \in Nat
  <1>1. CASE seen' = [seen EXCEPT ![g] = branch]
             /\ moved' = [moved EXCEPT ![g] = FALSE] /\ UNCHANGED faults
    BY <1>1 DEF TypeInv, TypeOK
  <1>2. CASE faults' = faults + 1 /\ UNCHANGED <<seen, moved>>
    BY <1>2 DEF TypeInv, TypeOK
  <1> QED
    BY <1>1, <1>2 DEF Fetch

LEMMA TypeInit == Init => TypeInv
  <1> SUFFICES ASSUME Init PROVE TypeInv
    OBVIOUS
  <1>1. Absent \in Branches
    BY DEF Absent, Branches
  <1>2. NoState \in [cycle : Nat, completed : SUBSET Providers]
    BY DEF NoState
  <1>3. JobInv
    BY DEF Init, JobInv
  <1> QED
    BY <1>1, <1>2, <1>3, NameAssumption DEF Init, TypeInv, TypeOK, PCs

LEMMA TypeStep == TypeInv /\ [Next]_vars => TypeInv'
  <1> SUFFICES ASSUME TypeInv, [Next]_vars PROVE TypeInv'
    OBVIOUS
  <1>1. CASE PushTrigger
    <2>1. \A b \in Brains, s \in Sources, c \in Cohorts :
              Request(b, s, c) \in Requests
      BY DEF Request, Requests
    <2>2. queue' \in [Groups -> Requests \cup {None}] /\ main' \in Brains
      <3>1. PICK b \in Brains, s \in Sources, c \in Cohorts :
                main' = b /\ Enqueue(Unpinned, Request(b, s, c))
        BY <1>1, Zenon DEF PushTrigger
      <3>2. Request(b, s, c) \in Requests
        BY <2>1
      <3>3. queue \in [Groups -> Requests \cup {None}]
        BY DEF TypeInv, TypeOK
      <3> QED
        BY <3>1, <3>2, <3>3 DEF Enqueue
    <2>3. doomed' \in [Groups -> BOOLEAN]
      <3> DEFINE running == pc[Unpinned] # "idle"
      <3>1. doomed' = [doomed EXCEPT ![Unpinned] = running]
        BY <1>1 DEF PushTrigger
      <3>2. running \in BOOLEAN
        OBVIOUS
      <3>3. doomed \in [Groups -> BOOLEAN]
        BY DEF TypeInv, TypeOK
      <3> HIDE DEF running
      <3> QED
        BY <3>1, <3>2, <3>3
    <2> QED
      BY <1>1, <2>2, <2>3 DEF PushTrigger, External, TypeInv, TypeOK, JobInv
  <1>2. CASE PushOther
    BY <1>2 DEF PushOther, External, runVars, TypeInv, TypeOK, JobInv
  <1>3. CASE Dispatch
    <2>1. \A b \in Brains, s \in Sources, c \in Cohorts :
              Request(b, s, c) \in Requests
      BY DEF Request, Requests
    <2>2. main \in Brains /\ ManualPins \subseteq Brains
      BY NameAssumption DEF TypeInv, TypeOK
    <2>3. queue' \in [Groups -> Requests \cup {None}]
      BY <1>3, <2>1, <2>2 DEF Dispatch, Enqueue, TypeInv, TypeOK
    <2> QED
      BY <1>3, <2>3 DEF Dispatch, External, runVars, TypeInv, TypeOK, JobInv
  <1>4. ASSUME NEW g \in Groups, Start(g) PROVE TypeInv'
    <2>1. queue[g] \in Requests
      BY <1>4 DEF Start, TypeInv, TypeOK
    <2>2. JobInv'
      BY <1>4, <2>1 DEF Start, TypeInv, TypeOK, JobInv
    <2> QED
      BY <1>4, <2>1, <2>2 DEF Start, TypeInv, TypeOK, PCs
  <1>5. ASSUME NEW g \in Groups, Select(g) PROVE TypeInv'
    <2>1. seen' \in [Groups -> Branches] /\ moved' \in [Groups -> BOOLEAN] /\ faults' \in Nat
      BY <1>5, FetchTypes DEF Select
    <2>2. job[g] \in Requests
      BY <1>5 DEF Select, TypeInv, JobInv
    <2>3. PICK selected \in Pages(job[g].cohort, Carried(seen'[g], job[g])) :
              /\ page' = [page EXCEPT ![g] = selected]
              /\ next' = [next EXCEPT ![g] =
                    [cycle |-> NextCycle(seen'[g], job[g]),
                     completed |-> Carried(seen'[g], job[g]) \cup selected]]
      BY <1>5 DEF Select
    <2>4. /\ selected \subseteq Providers
          /\ Carried(seen'[g], job[g]) \subseteq Providers
          /\ NextCycle(seen'[g], job[g]) \in Nat
      BY <2>1, <2>2, <2>3, SelectTypes
    <2>5. /\ page' \in [Groups -> SUBSET Providers]
          /\ next' \in [Groups -> [cycle : Nat, completed : SUBSET Providers]]
      BY <2>3, <2>4 DEF TypeInv, TypeOK
    <2>6. JobInv'
      BY <1>5, <2>2 DEF Select, TypeInv, TypeOK, JobInv
    <2> QED
      BY <1>5, <2>1, <2>5, <2>6 DEF Select, TypeInv, TypeOK, PCs
  <1>6. ASSUME NEW g \in Groups, Gate(g) \/ Merge(g) PROVE TypeInv'
    <2>1. seen' \in [Groups -> Branches] /\ moved' \in [Groups -> BOOLEAN] /\ faults' \in Nat
      BY <1>6, FetchTypes DEF Gate, Merge
    <2>2. JobInv'
      BY <1>6 DEF Gate, Merge, TypeInv, TypeOK, JobInv
    <2> QED
      BY <1>6, <2>1, <2>2 DEF Gate, Merge, TypeInv, TypeOK, PCs
  <1>7. ASSUME NEW g \in Groups,
               GateRefuses(g) \/ MergeRefuses(g) \/ PushRejected(g)
        PROVE  TypeInv'
    <2>1. EndRun(g)
      BY <1>7 DEF GateRefuses, MergeRefuses, PushRejected
    <2> QED
      BY <1>7, <2>1, EndRunTypes
      DEF GateRefuses, MergeRefuses, PushRejected, TypeInv, TypeOK
  <1>8. ASSUME NEW g \in Groups, Push(g) PROVE TypeInv'
    <2>1. branch' \in Branches
      BY <1>8, NewBranchType DEF Push
    <2>2. JobInv'
      BY <1>8 DEF Push, TypeInv, TypeOK, JobInv
    <2>3. moved' \in [Groups -> BOOLEAN]
      BY <1>8 DEF Push
    <2> QED
      BY <1>8, <2>1, <2>2, <2>3 DEF Push, TypeInv, TypeOK, PCs
  <1>9. ASSUME NEW g \in Groups, Continue(g) PROVE TypeInv'
    <2>1. EndRun(g)
      BY <1>9 DEF Continue
    <2>2. job[g] \in Requests /\ job[g].brain \in Groups
      BY <1>9 DEF Continue, TypeInv, JobInv, Requests, Groups
    <2>3. queue' \in [Groups -> Requests \cup {None}]
      BY <1>9, <2>2 DEF Continue, Continuation, Enqueue, TypeInv, TypeOK
    <2> QED
      BY <1>9, <2>1, <2>3, EndRunTypes DEF Continue, TypeInv, TypeOK
  <1>10. ASSUME NEW g \in Groups, Kill(g) PROVE TypeInv'
    <2>1. EndRun(g)
      BY <1>10 DEF Kill
    <2>2. faults' \in Nat
      BY <1>10 DEF Kill, TypeInv, TypeOK
    <2> QED
      BY <1>10, <2>1, <2>2, EndRunTypes DEF Kill, TypeInv, TypeOK
  <1>11. CASE UNCHANGED vars
    BY <1>11 DEF vars, TypeInv, TypeOK, JobInv
  <1> QED
    BY <1>1, <1>2, <1>3, <1>4, <1>5, <1>6, <1>7, <1>8, <1>9, <1>10, <1>11
    DEF Next, Step

-----------------------------------------------------------------------------
(* Replacing the branch.                                                   *)

\* A replacement the guard admits keeps what the branch has kept so far: it
\* has the same Brain and source and drops no row, or it has a later Brain.
LEMMA KeptByReplacement ==
    ASSUME NEW old \in Branches, NEW new \in Branches, NEW request \in Requests,
           NEW refreshed, NEW brain, NEW source, NEW S \in SUBSET Providers,
           MayReplace(old, request),
           new.brain = request.brain, new.source = request.source,
           new.rows = MergedRows(old, request, refreshed),
           Kept(old, brain, source, S)
    PROVE  Kept(new, brain, source, S)
  <1> SUFFICES ASSUME NEW p \in S
               PROVE  /\ new.brain # None
                      /\ brain \in Ancestors[new.brain]
                      /\ new.brain = brain =>
                            new.source = source /\ new.rows[p] = Stamp(brain, source)
    BY DEF Kept
  <1>1. /\ old.brain # None
        /\ brain \in Ancestors[old.brain]
        /\ old.brain = brain =>
              old.source = source /\ old.rows[p] = Stamp(brain, source)
    BY DEF Kept
  <1>2. old.brain \in Brains /\ request.brain \in Brains
    BY <1>1 DEF Branches, Requests
  <1>3. request.brain # None
    BY <1>2, NameAssumption
  <1>4. CASE old.brain = request.brain /\ old.source = request.source
    <2>1. new.rows[p] = IF p \in refreshed THEN Stamp(request.brain, request.source)
                        ELSE old.rows[p]
      BY <1>4 DEF MergedRows
    <2> QED
      BY <1>1, <1>3, <1>4, <2>1
  <1>5. CASE old.brain # request.brain /\ old.brain \in Ancestors[request.brain]
    <2>1. brain \in Ancestors[request.brain]
      BY <1>1, <1>2, <1>5, AncestryAssumption
    <2>2. request.brain # brain
      BY <1>1, <1>2, <1>5, AncestryAssumption
    <2> QED
      BY <1>3, <2>1, <2>2
  <1> QED
    BY <1>1, <1>4, <1>5 DEF MayReplace, IsAncestor

\* What a push does, in terms of the branch it replaces: its lease and its
\* guard are about that very branch.
LEMMA PushReplaces ==
    ASSUME TypeInv, FetchInv, NEW g \in Groups, Push(g)
    PROVE  /\ branch \in Branches /\ branch' \in Branches
           /\ job[g] \in Requests
           /\ MayReplace(branch, job[g])
           /\ branch'.brain = job[g].brain
           /\ branch'.source = job[g].source
           /\ branch'.completed = next[g].completed
           /\ branch'.rows = MergedRows(branch, job[g], page[g])
  <1>1. pc[g] = "pushing" /\ ~moved[g] /\ branch' = NewBranch(g)
    BY DEF Push, LeaseHolds
  <1>2. branch \in Branches /\ job[g] \in Requests
    BY <1>1 DEF TypeInv, TypeOK, JobInv
  <1>3. branch' \in Branches
    BY <1>1, NewBranchType
  <1>4. seen[g] = branch
    BY <1>1 DEF FetchInv, LeaseInv
  <1>5. MayReplace(branch, job[g])
    BY <1>1, <1>4 DEF FetchInv, GuardInv
  <1> QED
    BY <1>1, <1>2, <1>3, <1>4, <1>5 DEF NewBranch

\* The branch keeps what it says of itself.
LEMMA BranchKeepsItself ==
    ASSUME TypeInv, BranchInv
    PROVE  Kept(branch, branch.brain, branch.source, branch.completed)
  <1> SUFFICES ASSUME NEW p \in branch.completed
               PROVE  /\ branch.brain # None
                      /\ branch.brain \in Ancestors[branch.brain]
                      /\ branch.rows[p] = Stamp(branch.brain, branch.source)
    BY DEF Kept
  <1>1. branch.brain # None
    BY DEF BranchInv, EmptyInv, Published
  <1>2. branch.brain \in Brains
    BY <1>1 DEF TypeInv, TypeOK, Branches
  <1>3. branch.rows[p] = Stamp(branch.brain, branch.source)
    BY DEF BranchInv, CompletedHasRows, Header
  <1> QED
    BY <1>1, <1>2, <1>3, AncestryAssumption

LEMMA PushStep == ASSUME IInv, NEW g \in Groups, Push(g) PROVE IInv'
  <1>1. TypeInv /\ FetchInv /\ BranchInv /\ SeenInv /\ CarriedInv
    BY DEF IInv
  <1>2. TypeInv'
    BY <1>1, TypeStep DEF Next, Step
  <1>3. /\ branch \in Branches /\ branch' \in Branches
        /\ job[g] \in Requests
        /\ MayReplace(branch, job[g])
        /\ branch'.brain = job[g].brain
        /\ branch'.source = job[g].source
        /\ branch'.completed = next[g].completed
        /\ branch'.rows = MergedRows(branch, job[g], page[g])
    BY <1>1, PushReplaces
  <1>4. /\ pc[g] = "pushing" /\ pc' = [pc EXCEPT ![g] = "published"]
        /\ moved' = [h \in Groups |-> pc[h] # "idle"]
        /\ UNCHANGED <<job, seen, page, next>>
    BY DEF Push
  <1>5. pc \in [Groups -> PCs] /\ seen \in [Groups -> Branches]
        /\ next \in [Groups -> [cycle : Nat, completed : SUBSET Providers]]
    BY <1>1 DEF TypeInv, TypeOK
  <1>6. FetchInv'
    <2>1. LeaseInv'
      BY <1>4, <1>5 DEF LeaseInv
    <2>2. GuardInv'
      BY <1>1, <1>4, <1>5 DEF FetchInv, GuardInv
    <2> QED
      BY <2>1, <2>2 DEF FetchInv
  <1>7. ASSUME NEW brain, NEW source, NEW S \in SUBSET Providers,
               Kept(branch, brain, source, S)
        PROVE  Kept(branch', brain, source, S)
    BY <1>3, <1>7, KeptByReplacement
  <1>8. SeenInv'
    <2> SUFFICES ASSUME NEW h \in Groups, pc'[h] # "idle"
                 PROVE  Kept(branch', seen[h].brain, seen[h].source, seen[h].completed)
      BY <1>4 DEF SeenInv
    <2>1. pc[h] # "idle"
      BY <1>4, <1>5
    <2>2. seen[h].completed \in SUBSET Providers
      BY <1>5 DEF Branches
    <2> QED
      BY <1>1, <1>7, <2>1, <2>2 DEF SeenInv
  <1>9. CarriedInv'
    <2> SUFFICES ASSUME NEW h \in Groups, pc'[h] \in {"planned", "merging", "pushing"}
                 PROVE  Kept(branch', job[h].brain, job[h].source,
                             next[h].completed \ page[h])
      BY <1>4 DEF CarriedInv
    <2>1. pc[h] \in {"planned", "merging", "pushing"}
      BY <1>4, <1>5
    <2>2. (next[h].completed \ page[h]) \in SUBSET Providers
      BY <1>5
    <2> QED
      BY <1>1, <1>7, <2>1, <2>2 DEF CarriedInv
  <1>10. BranchInv'
    <2>1. Published'
      BY <1>3, NameAssumption DEF Published, Requests
    <2>2. RowsUnderHeader'
      BY <1>1, <1>3 DEF BranchInv, RowsUnderHeader, Header, MergedRows
    <2>3. ASSUME NEW p \in next[g].completed
          PROVE  branch'.rows[p] = Stamp(job[g].brain, job[g].source)
      <3>1. p \in Providers
        BY <1>5
      <3>2. CASE p \in page[g]
        BY <1>3, <3>1, <3>2 DEF MergedRows
      <3>3. CASE p \notin page[g]
        <4>1. Kept(branch', job[g].brain, job[g].source, next[g].completed \ page[g])
          <5>1. Kept(branch, job[g].brain, job[g].source, next[g].completed \ page[g])
            BY <1>1, <1>4 DEF CarriedInv
          <5>2. (next[g].completed \ page[g]) \in SUBSET Providers
            BY <1>5
          <5> QED
            BY <1>7, <5>1, <5>2
        <4> QED
          BY <1>3, <3>3, <4>1 DEF Kept
      <3> QED
        BY <3>2, <3>3
    <2>4. CompletedHasRows'
      BY <1>3, <2>3 DEF CompletedHasRows, Header
    <2> QED
      BY <2>1, <2>2, <2>4 DEF BranchInv, EmptyInv
  <1> QED
    BY <1>2, <1>6, <1>8, <1>9, <1>10 DEF IInv

-----------------------------------------------------------------------------
(* The steps that leave the branch alone.                                  *)

\* A fetch that fails leaves the old reading, which the branch still keeps.
LEMMA FetchKeeps ==
    ASSUME IInv, NEW g \in Groups, pc[g] # "idle", Fetch(g)
    PROVE  \A h \in Groups : pc[h] # "idle" =>
              /\ Kept(branch, seen'[h].brain, seen'[h].source, seen'[h].completed)
              /\ ~moved'[h] => seen'[h] = branch
              /\ h # g => seen'[h] = seen[h]
  <1>1. seen \in [Groups -> Branches] /\ moved \in [Groups -> BOOLEAN]
    BY DEF IInv, TypeInv, TypeOK
  <1>2. Kept(branch, branch.brain, branch.source, branch.completed)
    BY BranchKeepsItself DEF IInv
  <1>3. \A h \in Groups : pc[h] # "idle" =>
            /\ Kept(branch, seen[h].brain, seen[h].source, seen[h].completed)
            /\ ~moved[h] => seen[h] = branch
    BY DEF IInv, SeenInv, FetchInv, LeaseInv
  <1>4. CASE seen' = [seen EXCEPT ![g] = branch] /\ moved' = [moved EXCEPT ![g] = FALSE]
    BY <1>1, <1>2, <1>3, <1>4
  <1>5. CASE UNCHANGED <<seen, moved>>
    BY <1>3, <1>5
  <1> QED
    BY <1>4, <1>5 DEF Fetch

LEMMA SelectStep == ASSUME IInv, NEW g \in Groups, Select(g) PROVE IInv'
  <1>1. TypeInv'
    BY TypeStep DEF IInv, Next, Step
  <1>2. /\ pc[g] = "selecting" /\ pc' = [pc EXCEPT ![g] = "planned"]
        /\ UNCHANGED <<branch, job>> /\ Fetch(g)
    BY DEF Select
  <1>3. PICK selected \in Pages(job[g].cohort, Carried(seen'[g], job[g])) :
            /\ page' = [page EXCEPT ![g] = selected]
            /\ next' = [next EXCEPT ![g] =
                  [cycle |-> NextCycle(seen'[g], job[g]),
                   completed |-> Carried(seen'[g], job[g]) \cup selected]]
    BY DEF Select
  <1>4. /\ pc \in [Groups -> PCs]
        /\ page \in [Groups -> SUBSET Providers]
        /\ next \in [Groups -> [cycle : Nat, completed : SUBSET Providers]]
    BY DEF IInv, TypeInv, TypeOK
  <1>5. \A h \in Groups : pc[h] # "idle" =>
            /\ Kept(branch, seen'[h].brain, seen'[h].source, seen'[h].completed)
            /\ ~moved'[h] => seen'[h] = branch
            /\ h # g => seen'[h] = seen[h]
    BY <1>2, FetchKeeps
  <1>6. \A h \in Groups : pc'[h] # "idle" <=> pc[h] # "idle"
    BY <1>2, <1>4
  <1>7. SeenInv' /\ LeaseInv'
    BY <1>2, <1>5, <1>6 DEF SeenInv, LeaseInv
  <1>8. GuardInv'
    BY <1>2, <1>4, <1>5 DEF IInv, FetchInv, GuardInv
  <1>9. BranchInv'
    BY <1>2 DEF IInv, BranchInv, EmptyInv, Published, RowsUnderHeader,
                CompletedHasRows, Header
  <1>10. Kept(branch, job[g].brain, job[g].source, next'[g].completed \ page'[g])
    <2>1. next'[g].completed \ page'[g] \subseteq Carried(seen'[g], job[g])
      BY <1>3, <1>4
    <2>2. CASE Carried(seen'[g], job[g]) = {}
      BY <2>1, <2>2 DEF Kept
    <2>3. CASE Carried(seen'[g], job[g]) # {}
      <3>1. /\ seen'[g].brain = job[g].brain /\ seen'[g].source = job[g].source
            /\ Carried(seen'[g], job[g]) \subseteq seen'[g].completed
        BY <2>3 DEF Carried, CompatibleState
      <3>2. Kept(branch, seen'[g].brain, seen'[g].source, seen'[g].completed)
        BY <1>2, <1>5
      <3> QED
        BY <2>1, <3>1, <3>2 DEF Kept
    <2> QED
      BY <2>2, <2>3
  <1>11. CarriedInv'
    <2> SUFFICES ASSUME NEW h \in Groups, pc'[h] \in {"planned", "merging", "pushing"}
                 PROVE  Kept(branch, job[h].brain, job[h].source,
                             next'[h].completed \ page'[h])
      BY <1>2 DEF CarriedInv
    <2>1. CASE h = g
      BY <1>10, <2>1
    <2>2. CASE h # g
      BY <1>2, <1>3, <1>4, <2>2 DEF IInv, CarriedInv
    <2> QED
      BY <2>1, <2>2
  <1> QED
    BY <1>1, <1>7, <1>8, <1>9, <1>11 DEF IInv, FetchInv

LEMMA GuardStep == ASSUME IInv, NEW g \in Groups, Gate(g) \/ Merge(g) PROVE IInv'
  <1>1. TypeInv'
    BY TypeStep DEF IInv, Next, Step
  <1>2. /\ pc[g] \in {"planned", "merging"}
        /\ UNCHANGED <<branch, job, page, next>> /\ Fetch(g)
        /\ \/ pc' = [pc EXCEPT ![g] = "merging"]
           \/ pc' = [pc EXCEPT ![g] = "pushing"] /\ MayReplace(seen'[g], job[g])
    BY DEF Gate, Merge
  <1>3. pc \in [Groups -> PCs]
    BY DEF IInv, TypeInv, TypeOK
  <1>4. \A h \in Groups : pc[h] # "idle" =>
            /\ Kept(branch, seen'[h].brain, seen'[h].source, seen'[h].completed)
            /\ ~moved'[h] => seen'[h] = branch
            /\ h # g => seen'[h] = seen[h]
    BY <1>2, FetchKeeps
  <1>5. \A h \in Groups : pc'[h] # "idle" <=> pc[h] # "idle"
    BY <1>2, <1>3
  <1>6. SeenInv' /\ LeaseInv'
    BY <1>2, <1>4, <1>5 DEF SeenInv, LeaseInv
  <1>7. GuardInv'
    <2> SUFFICES ASSUME NEW h \in Groups, pc'[h] = "pushing"
                 PROVE  MayReplace(seen'[h], job[h])
      BY <1>2 DEF GuardInv
    <2>1. CASE h = g
      BY <1>2, <1>3, <2>1
    <2>2. CASE h # g
      BY <1>2, <1>3, <1>4, <2>2 DEF IInv, FetchInv, GuardInv
    <2> QED
      BY <2>1, <2>2
  <1>8. BranchInv'
    BY <1>2 DEF IInv, BranchInv, EmptyInv, Published, RowsUnderHeader,
                CompletedHasRows, Header
  <1>9. CarriedInv'
    BY <1>2, <1>3 DEF IInv, CarriedInv
  <1> QED
    BY <1>1, <1>6, <1>7, <1>8, <1>9 DEF IInv, FetchInv

LEMMA StartStep == ASSUME IInv, NEW g \in Groups, Start(g) PROVE IInv'
  <1>1. TypeInv'
    BY TypeStep DEF IInv, Next, Step
  <1>2. /\ pc[g] = "idle" /\ pc' = [pc EXCEPT ![g] = "selecting"]
        /\ job' = [job EXCEPT ![g] = queue[g]]
        /\ seen' = [seen EXCEPT ![g] = branch]
        /\ moved' = [moved EXCEPT ![g] = FALSE]
        /\ UNCHANGED <<branch, page, next>>
    BY DEF Start
  <1>3. /\ pc \in [Groups -> PCs] /\ seen \in [Groups -> Branches]
        /\ moved \in [Groups -> BOOLEAN] /\ job \in [Groups -> Requests \cup {None}]
    BY DEF IInv, TypeInv, TypeOK
  <1>4. Kept(branch, branch.brain, branch.source, branch.completed)
    BY BranchKeepsItself DEF IInv
  <1>5. SeenInv'
    BY <1>2, <1>3, <1>4 DEF IInv, SeenInv
  <1>6. LeaseInv' /\ GuardInv'
    BY <1>2, <1>3 DEF IInv, FetchInv, LeaseInv, GuardInv
  <1>7. BranchInv'
    BY <1>2 DEF IInv, BranchInv, EmptyInv, Published, RowsUnderHeader,
                CompletedHasRows, Header
  <1>8. CarriedInv'
    BY <1>2, <1>3 DEF IInv, CarriedInv
  <1> QED
    BY <1>1, <1>5, <1>6, <1>7, <1>8 DEF IInv, FetchInv

\* A run that ends without a push says nothing of the branch any more.
LEMMA EndStep ==
    ASSUME IInv, TypeInv', NEW g \in Groups, EndRun(g), UNCHANGED branch
    PROVE  IInv'
  <1>1. /\ pc' = [pc EXCEPT ![g] = "idle"]
        /\ \A h \in Groups : h # g =>
              /\ job'[h] = job[h] /\ seen'[h] = seen[h] /\ moved'[h] = moved[h]
              /\ page'[h] = page[h] /\ next'[h] = next[h]
    BY DEF EndRun, IInv, TypeInv, TypeOK
  <1>2. \A h \in Groups : pc'[h] # "idle" => h # g /\ pc'[h] = pc[h]
    BY <1>1 DEF IInv, TypeInv, TypeOK
  <1>3. SeenInv'
    BY <1>1, <1>2 DEF IInv, SeenInv
  <1>4. LeaseInv' /\ GuardInv'
    BY <1>1, <1>2 DEF IInv, FetchInv, LeaseInv, GuardInv
  <1>5. CarriedInv'
    BY <1>1, <1>2 DEF IInv, CarriedInv
  <1>6. BranchInv'
    BY DEF IInv, BranchInv, EmptyInv, Published, RowsUnderHeader,
           CompletedHasRows, Header
  <1> QED
    BY <1>3, <1>4, <1>5, <1>6 DEF IInv, FetchInv

LEMMA OutsideStep ==
    ASSUME IInv, TypeInv', UNCHANGED <<branch, pc, job, seen, moved, page, next>>
    PROVE  IInv'
  <1>1. SeenInv' /\ CarriedInv'
    BY DEF IInv, SeenInv, CarriedInv
  <1>2. FetchInv'
    BY DEF IInv, FetchInv, LeaseInv, GuardInv
  <1>3. BranchInv'
    BY DEF IInv, BranchInv, EmptyInv, Published, RowsUnderHeader,
           CompletedHasRows, Header
  <1> QED
    BY <1>1, <1>2, <1>3 DEF IInv

-----------------------------------------------------------------------------

LEMMA InitIInv == Init => IInv
  <1> SUFFICES ASSUME Init PROVE IInv
    OBVIOUS
  <1>1. TypeInv
    BY TypeInit
  <1>2. FetchInv /\ SeenInv /\ CarriedInv
    BY DEF Init, FetchInv, LeaseInv, GuardInv, SeenInv, CarriedInv
  <1>3. BranchInv
    BY DEF Init, BranchInv, EmptyInv, Published, RowsUnderHeader,
           CompletedHasRows, Absent
  <1> QED
    BY <1>1, <1>2, <1>3 DEF IInv

LEMMA NextIInv == IInv /\ [Next]_vars => IInv'
  <1> SUFFICES ASSUME IInv, [Next]_vars PROVE IInv'
    OBVIOUS
  <1>1. TypeInv'
    BY TypeStep DEF IInv
  <1>2. CASE PushTrigger \/ PushOther \/ Dispatch \/ UNCHANGED vars
    BY <1>1, <1>2, OutsideStep DEF PushTrigger, PushOther, Dispatch, runVars, vars
  <1>3. ASSUME NEW g \in Groups,
               \/ GateRefuses(g) \/ MergeRefuses(g) \/ PushRejected(g)
               \/ Continue(g) \/ Kill(g)
        PROVE  IInv'
    BY <1>1, <1>3, EndStep
    DEF GateRefuses, MergeRefuses, PushRejected, Continue, Kill
  <1>4. ASSUME NEW g \in Groups, Step(g) PROVE IInv'
    BY <1>3, <1>4, StartStep, SelectStep, GuardStep, PushStep DEF Step
  <1> QED
    BY <1>2, <1>3, <1>4 DEF Next

LEMMA Invariance == Spec => []IInv
  <1>1. Init => IInv
    BY InitIInv
  <1>2. IInv /\ [Next]_vars => IInv'
    BY NextIInv
  <1> QED
    BY <1>1, <1>2, PTL DEF Spec

-----------------------------------------------------------------------------
(* Theorems.                                                               *)

\* Every run, queued run, fetched branch and published state is well formed,
\* for any revisions, cohorts, pages, triggers and faults.
THEOREM TypeCorrect == Spec => []TypeOK
  <1>1. IInv => TypeOK
    BY DEF IInv, TypeInv
  <1> QED
    BY <1>1, Invariance, PTL

\* The branch is of one Brain and one source: whatever runs interleave, no row
\* of another survives beside the published header.
THEOREM OneHeader == Spec => []RowsUnderHeader
  <1>1. IInv => RowsUnderHeader
    BY DEF IInv, BranchInv
  <1> QED
    BY <1>1, Invariance, PTL

\* A provider recorded as completed has its rows, although the record is from
\* the selection and the rows are merged hours later.
THEOREM CompletedKeepsRows == Spec => []CompletedHasRows
  <1>1. IInv => CompletedHasRows
    BY DEF IInv, BranchInv
  <1> QED
    BY <1>1, Invariance, PTL

\* What changes the branch is a push that replaces what its guard has seen.
LEMMA OnlyPushes ==
    ASSUME IInv, [Next]_vars, branch' # branch
    PROVE  \E g \in Groups :
              /\ job[g] \in Requests /\ branch \in Branches
              /\ MayReplace(branch, job[g])
              /\ branch'.brain = job[g].brain /\ branch'.source = job[g].source
  <1>1. PICK g \in Groups : Push(g)
    BY DEF Next, Step, PushTrigger, PushOther, Dispatch, Start, Select, Gate,
           GateRefuses, Merge, MergeRefuses, PushRejected, Continue, Kill, vars
  <1> QED
    BY <1>1, PushReplaces DEF IInv

\* Publication is monotonic: the published Brain is replaced by itself or a
\* descendant, however late a run publishes.
THEOREM Monotonic == Spec => BrainMonotonic
  <1>1. IInv /\ [Next]_vars =>
          [Published => IsAncestor(branch.brain, branch'.brain)]_branch
    <2> SUFFICES ASSUME IInv, [Next]_vars, branch' # branch, Published
                 PROVE  IsAncestor(branch.brain, branch'.brain)
      OBVIOUS
    <2>1. PICK g \in Groups :
              /\ job[g] \in Requests /\ MayReplace(branch, job[g])
              /\ branch'.brain = job[g].brain
      BY OnlyPushes
    <2> QED
      BY <2>1, AncestryAssumption DEF MayReplace, IsAncestor, Published, Requests
  <1> QED
    BY <1>1, Invariance, PTL DEF Spec, BrainMonotonic

\* While a Brain stays published, so does its source.
THEOREM SourceStays == Spec => SourcePinned
  <1>1. IInv /\ [Next]_vars =>
          [Published /\ branch'.brain = branch.brain
              => branch'.source = branch.source]_branch
    <2> SUFFICES ASSUME IInv, [Next]_vars, branch' # branch, Published,
                        branch'.brain = branch.brain
                 PROVE  branch'.source = branch.source
      OBVIOUS
    <2>1. PICK g \in Groups :
              /\ MayReplace(branch, job[g])
              /\ branch'.brain = job[g].brain /\ branch'.source = job[g].source
      BY OnlyPushes
    <2> QED
      BY <2>1 DEF MayReplace, Published
  <1> QED
    BY <1>1, Invariance, PTL DEF Spec, SourcePinned
=============================================================================
