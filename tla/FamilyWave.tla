------------------------------ MODULE FamilyWave ------------------------------
(***************************************************************************)
(* Which provider of a repair family spends the model's time.              *)
(*                                                                         *)
(* The wave is computed twice.  scripts/select_niakvio_repair_family_wave  *)
(* computes it over the whole cohort, with the FORCE diagnostics that the  *)
(* guidance branch holds, to put one witness of each family on the next    *)
(* page first; scripts/plan_batch_from_checkout computes it again over the *)
(* providers of the page, without diagnostics, and plans its result only.  *)
(* Every provider of the page counts as processed either way.              *)
(*                                                                         *)
(* One chain of runs at a time (GuidancePublication has the concurrent     *)
(* ones): pages of a cycle on one NiakVIO checkout, while NiakVIO executes *)
(* published mutations and records its verdicts in a newer revision.       *)
(***************************************************************************)
EXTENDS Integers, FiniteSets, Functions, Sequences

CONSTANTS
    Providers,   \* the requested cohort
    TargetRank,  \* their order in the target list
    Checkout,    \* what the NiakVIO checkout says of each provider
    Compilable,  \* providers with a deterministic executable candidate
    PageSizes,   \* page sizes a dispatch may ask for
    MaxBlocks,   \* bound: timed out scopes in one diagnostics row
    MaxVerdicts  \* bound: verdicts of NiakVIO's sandbox

\* A structure hint: class names, as sequences of their parts, and facts about
\* the nodes of a class.
HintType ==
    [classes : SUBSET Seq(STRING),
     facts   : SUBSET [count : Nat, selfHref : Nat, nested : Nat, tags : Nat]]

\* Of each observation what is read: stages (numbered in alphabetical order),
\* the first structure hints and the status codes of the first network rows.
ObservationType ==
    [current : BOOLEAN, hints : SUBSET HintType, stages : SUBSET Nat, codes : SUBSET Nat]

CheckoutType ==
    [name : Nat,               \* alphabetical position
     eligible : BOOLEAN,       \* repairEligible of the census row
     candidate : BOOLEAN, chain : BOOLEAN, route : BOOLEAN, broken : BOOLEAN,
     audit : {"absent", "none", "review", "high"},   \* runtime variant coverage
     failure : STRING,         \* failure class of the request
     observations : SUBSET ObservationType]

ASSUME CohortAssumption ==
    /\ IsFiniteSet(Providers)
    /\ Compilable \subseteq Providers
    /\ TargetRank \in [Providers -> Nat] /\ IsInjective(TargetRank)
    /\ Checkout \in [Providers -> CheckoutType]
    /\ \A p, q \in Providers : Checkout[p].name = Checkout[q].name => p = q
    /\ \A p \in Providers : IsFiniteSet(UNION {o.stages : o \in Checkout[p].observations})
ASSUME BoundAssumption ==
    PageSizes \subseteq 1..12 /\ MaxBlocks \in Nat /\ MaxVerdicts \in Nat

VARIABLES
    pc,         \* "select" or "plan"
    completed,  \* providers processed in this cycle
    page,       \* the page being planned
    checkout,   \* the FORCE memory of the NiakVIO revision under repair
    ledger,     \* the same memory at the head of NiakVIO
    fresh,      \* the branch was published for this revision
    marks,      \* timed out scopes in each provider's diagnostics row
    mutations,  \* providers with a mutation on the branch
    turn,       \* what became of each provider's last page (history)
    excused,    \* providers seen with a mark in this cycle (history)
    verdicts    \* how many verdicts NiakVIO recorded

vars == <<pc, completed, page, checkout, ledger, fresh, marks, mutations,
          turn, excused, verdicts>>

\* consecutiveFailures per provider, and the validated replayable families.
NoMemory == [burden |-> [p \in Providers |-> 0], validated |-> {}]

NoBlocks == [p \in Providers |-> 0]

Init ==
    /\ pc = "select"
    /\ completed = {}
    /\ page = {}
    /\ checkout = NoMemory
    /\ ledger = NoMemory
    /\ fresh = FALSE
    /\ marks = NoBlocks
    /\ mutations = {}
    /\ turn = [p \in Providers |-> "none"]
    /\ excused = {}
    /\ verdicts = 0

-----------------------------------------------------------------------------
(* The census, and the order in which plan_batch takes its rows.           *)

Before(s, t) ==
    \E i \in DOMAIN s : s[i] < t[i] /\ \A j \in 1..(i - 1) : s[j] = t[j]

\* load_census: the audit of the registered runtimes joins the rows.
CoverageDebt(p) == Checkout[p].audit = "high"

\* The providers of a page are named, so that static debt counts as well.
Eligible == {p \in Providers : Checkout[p].eligible \/ CoverageDebt(p)}

\* The cheapest work first, then the name.
TargetPriority(p) ==
    LET row == Checkout[p]
        Rank == IF row.candidate THEN 10
                ELSE IF row.chain THEN 20
                ELSE IF CoverageDebt(p) THEN 25
                ELSE IF row.route THEN 30
                ELSE IF row.broken THEN 40
                ELSE IF row.eligible THEN 50 ELSE 90
    IN  <<Rank, row.name>>

PlanRank ==
    [p \in Providers |->
        Cardinality({q \in Providers : Before(TargetPriority(q), TargetPriority(p))})]

-----------------------------------------------------------------------------
(* The repair family of a provider.                                        *)

\* A class name that continues another one; nodes of a class that hold links;
\* and such nodes of several kinds, not all of them links themselves.
ClassPrefix(hint) ==
    \E token, other \in hint.classes :
        Len(token) < Len(other) /\ SubSeq(other, 1, Len(token)) = token
NestedAnchor(hint) == \E f \in hint.facts : f.count >= 2 /\ f.nested > 0
NestedContainer(hint) ==
    \E f \in hint.facts :
        f.count >= 2 /\ f.nested > 0 /\ f.tags >= 2 /\ f.selfHref < f.count

\* Only the current probes of the provider count.
Observed(p) == {o \in Checkout[p].observations : o.current}

Signals ==
    [p \in Providers |->
        LET Hints == UNION {o.hints : o \in Observed(p)}
            Codes == UNION {o.codes : o \in Observed(p)}
            If(condition, signal) == IF condition THEN {signal} ELSE {}
        IN  If(\E h \in Hints : ClassPrefix(h), "ClassPrefix")
              \cup If(\E h \in Hints : NestedAnchor(h), "NestedAnchor")
              \cup If(\E h \in Hints : NestedContainer(h), "NestedContainer")
              \cup If(\E c \in Codes : c \in 200..299, "Http2xx")
              \cup If(\E c \in Codes : c \in {401, 403, 429}, "Challenge")
              \cup If(\E c \in Codes : c >= 500, "Http5xx")]

Stages == [p \in Providers |-> UNION {o.stages : o \in Observed(p)}]

\* The mechanism that would repair the provider: the structure of its pages
\* says more than its failure class, a few classes name one, and otherwise the
\* first stage does.  Format and status are no part of it.
Mechanism(p) ==
    LET failure == Checkout[p].failure
        First == CHOOSE s \in Stages[p] : \A t \in Stages[p] : s <= t
    IN  IF Signals[p] \cap {"ClassPrefix", "NestedAnchor", "NestedContainer"} # {}
            THEN <<"dom-selector-container", 0>>
        ELSE IF failure = "variant-coverage-gap" THEN <<"variant-coverage", 0>>
        ELSE IF failure \in {"chain-terminal-gap", "media-extraction-gap"}
            THEN <<"terminal-extraction", 0>>
        ELSE IF failure \in {"route-proven-gap", "candidate-replay-gap"}
            THEN <<"route-parser", 0>>
        ELSE IF failure \in {"provider-transport-gap", "transport-environment-gap"}
            THEN <<"provider-transport", 0>>
        ELSE IF Stages[p] # {} THEN <<"stage", First>>
        ELSE <<"failure", 0>>

FamilyOf == [p \in Providers |-> <<Checkout[p].failure, Mechanism(p)>>]
Families == {FamilyOf[p] : p \in Providers}

-----------------------------------------------------------------------------
(* The wave.                                                               *)

\* Reusable causal evidence: weighted signals, and at most three stages.
EvidenceScore(p) ==
    LET worth(signal, weight) == IF signal \in Signals[p] THEN weight ELSE 0
        stages == Cardinality(Stages[p])
    IN  worth("ClassPrefix", 8) + worth("NestedContainer", 6) + worth("NestedAnchor", 4)
          + worth("Http2xx", 3) + worth("Challenge", 1) + worth("Http5xx", 1)
          + (IF stages < 3 THEN stages ELSE 3)

\* The members that may represent a family: those whose last synthesis did
\* not time out, or all when it did for each.
Candidates(members, blocks) ==
    LET unblocked == {p \in members : blocks[p] = 0}
    IN  IF unblocked = {} THEN members ELSE unblocked

\* Fewer timeouts (they differ only when every member has some), then more
\* evidence, then fewer failures, then the earlier row.
WitnessKey(p, rank, blocks) ==
    <<blocks[p], -EvidenceScore(p), checkout.burden[p], rank[p]>>

IsWitness(p, members, rank, blocks) ==
    /\ p \in Candidates(members, blocks)
    /\ \A q \in Candidates(members, blocks) \ {p} :
          Before(WitnessKey(p, rank, blocks), WitnessKey(q, rank, blocks))

Siblings(p, rows) == {q \in rows : FamilyOf[q] = FamilyOf[p]}

\* One witness of each family, or all of a validated one.
WaveOfWitnesses(rows, rank, blocks) ==                                 \* mutant
    {p \in rows : IsWitness(p, Siblings(p, rows), rank, blocks)}
Wave(rows, rank, blocks) ==
    {p \in rows :
        \/ FamilyOf[p] \in checkout.validated
        \/ IsWitness(p, Siblings(p, rows), rank, blocks)}

\* select_wave: over the whole cohort, with the timeouts of the branch.
CohortWave == Wave(Providers, TargetRank, marks)

-----------------------------------------------------------------------------
(* A run.                                                                  *)

RemainingOfCohort == Providers                                         \* mutant
Remaining == Providers \ completed

\* The remaining providers of the wave come before the other remaining ones.
AheadByTarget(p, q, wave) == TargetRank[p] < TargetRank[q]             \* mutant
Ahead(p, q, wave) ==
    IF (p \in wave) <=> (q \in wave) THEN TargetRank[p] < TargetRank[q]
    ELSE p \in wave

PageLength(size) == IF Cardinality(Remaining) < size
                    THEN Cardinality(Remaining) ELSE size

SelectPage ==
    /\ pc = "select"
    /\ Remaining # {}
    /\ \E size \in PageSizes, first \in SUBSET Remaining :
          /\ Cardinality(first) = PageLength(size)
          /\ \A p \in first, q \in Remaining \ first : Ahead(p, q, CohortWave)
          /\ page' = first
    /\ excused' = excused \cup {p \in Providers : marks[p] > 0}
    /\ pc' = "plan"
    /\ UNCHANGED <<completed, checkout, ledger, fresh, marks, mutations, turn,
                   verdicts>>

\* What plan_batch plans of the page: eligibility again, and a second wave
\* that is given no timeouts.
PlannedOfFirstWave ==                                                  \* mutant
    page \cap Eligible \cap CohortWave
Planned ==
    LET rows == page \cap Eligible
    IN  IF Cardinality(rows) > 1 THEN Wave(rows, PlanRank, NoBlocks) ELSE rows

\* The portfolio of a planned provider: whether it has an executable mutation
\* and how many scopes of its last row timed out.
Outcomes == [mutation : BOOLEAN, blocks : 0..MaxBlocks]

\* The diagnostics after the merge: the rows of the page are replaced, the
\* others survive under the same Brain and source only.
MergedMarksSticky(outcome) ==                                          \* mutant
    [p \in Providers |->
        IF p \in DOMAIN outcome THEN outcome[p].blocks
        ELSE IF fresh THEN marks[p] ELSE 0]
MergedMarks(outcome) ==
    [p \in Providers |->
        IF p \in DOMAIN outcome THEN outcome[p].blocks
        ELSE IF p \in page \/ ~fresh THEN 0 ELSE marks[p]]

MergedMutations(outcome) ==
    (IF fresh THEN mutations \ page ELSE {})
        \cup {p \in DOMAIN outcome : outcome[p].mutation}

\* The page is published with the outcome of what was planned.
Publish(outcome) ==
    /\ marks' = MergedMarks(outcome)
    /\ mutations' = MergedMutations(outcome)
    /\ turn' = [p \in Providers |->
          IF p \notin page THEN turn[p]
          ELSE IF p \notin DOMAIN outcome THEN "deferred"
          ELSE IF outcome[p].blocks > 0 THEN "blocked" ELSE "planned"]
    /\ completed' = completed \cup page
    /\ fresh' = TRUE
    /\ page' = {}
    /\ pc' = "select"
    /\ UNCHANGED <<checkout, ledger, excused, verdicts>>

\* A deterministic candidate for each provider of the page bypasses the model.
Bypass ==
    /\ pc = "plan"
    /\ page \subseteq Compilable
    /\ Publish([p \in page |-> [mutation |-> TRUE, blocks |-> 0]])

PlanPage ==
    /\ pc = "plan"
    /\ ~(page \subseteq Compilable)
    /\ \E outcome \in [Planned -> Outcomes] : Publish(outcome)

\* The run dies or a guard refuses it: the page is selected again.
LosePage ==
    /\ pc = "plan"
    /\ pc' = "select"
    /\ page' = {}
    /\ UNCHANGED <<completed, checkout, ledger, fresh, marks, mutations, turn,
                   excused, verdicts>>

\* A complete cycle starts again, on the same revision or on a newer one.
NewCycle ==
    /\ pc = "select"
    /\ Remaining = {}
    /\ completed' = {}
    /\ excused' = {}
    /\ \/ UNCHANGED <<checkout, fresh>>
       \/ /\ ledger # checkout
          /\ checkout' = ledger
          /\ fresh' = FALSE
    /\ UNCHANGED <<pc, page, ledger, marks, mutations, turn, verdicts>>

\* NiakVIO executes a published mutation and records the verdict.
Verdict ==
    /\ verdicts < MaxVerdicts
    /\ verdicts' = verdicts + 1
    /\ \E p \in mutations :
          \/ ledger' = [ledger EXCEPT !.burden[p] = @ + 1]
          \/ ledger' = [ledger EXCEPT !.burden[p] = 0,
                                      !.validated = @ \cup {FamilyOf[p]}]
    /\ UNCHANGED <<pc, completed, page, checkout, fresh, marks, mutations,
                   turn, excused>>

Next == SelectPage \/ Bypass \/ PlanPage \/ LosePage \/ NewCycle \/ Verdict

Spec == Init /\ [][Next]_vars

-----------------------------------------------------------------------------
(* Properties.                                                             *)

Memories ==
    [burden : [Providers -> Nat], validated : SUBSET Families]

\* The state of the chain is well formed, and pages hold no provider twice in
\* a cycle.
TypeOK ==
    /\ pc \in {"select", "plan"}
    /\ completed \subseteq Providers
    /\ page \subseteq Providers \ completed
    /\ (page # {}) <=> (pc = "plan")
    /\ checkout \in Memories /\ ledger \in Memories
    /\ fresh \in BOOLEAN
    /\ marks \in [Providers -> 0..MaxBlocks]
    /\ mutations \subseteq Providers
    /\ turn \in [Providers -> {"none", "deferred", "planned", "blocked"}]
    /\ excused \subseteq Providers
    /\ verdicts \in 0..MaxVerdicts

\* The providers of this cycle that had a portfolio.
Served == {p \in completed : turn[p] \in {"planned", "blocked"}}

\* However pages cut a family, and although the two waves disagree on its
\* witness, no cycle ends with a family that had no portfolio at all.
FamilyCovered ==
    Remaining = {} =>
        \A f \in {FamilyOf[p] : p \in Eligible} :
            \E p \in Served : FamilyOf[p] = f

\* Validated families fan out: none of their eligible providers is processed
\* without a portfolio.
ValidatedFansOut ==
    \A p \in completed \cap Eligible :
        FamilyOf[p] \in checkout.validated => p \in Served

\* A timeout that steers the next wave is that of the provider's last page: a
\* later page that deferred or served it without timeout cleared the mark.
MarksAreCurrent == \A p \in Providers : marks[p] > 0 => turn[p] = "blocked"

\* One witness of each family comes first: an unvalidated family is given a
\* second turn while another had none only if one of its members was seen
\* with a timeout in this cycle.
WitnessesFirst ==
    LET Taken(f) == {p \in completed \cup page : FamilyOf[p] = f}
    IN  \A f \in Families \ checkout.validated, g \in Families :
            Cardinality(Taken(f)) > 1 /\ Taken(g) = {}
                => \E p \in excused : FamilyOf[p] = f

\* A provider known to have timed out is not planned while an eligible sibling
\* on the same page, without a timeout, is deferred.
UnblockedWitnessFirst ==
    [][\A p, q \in page :
          /\ completed' # completed
          /\ FamilyOf[p] = FamilyOf[q] /\ q \in Eligible
          /\ marks[p] > 0 /\ marks[q] = 0
          /\ turn'[p] \in {"planned", "blocked"}
          => turn'[q] # "deferred"]_vars
=============================================================================
