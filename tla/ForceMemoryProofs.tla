--------------------------- MODULE ForceMemoryProofs ---------------------------
(***************************************************************************)
(* Proofs about the ledger of verdicts and its readers, for any providers, *)
(* mutations, verdicts and drifts.                                         *)
(***************************************************************************)
EXTENDS ForceMemory, FiniteSetTheorems, SequenceTheorems, WellFoundedInduction, TLAPS

\* Induction, for a set of natural numbers closed under successors.
LEMMA SetInduction ==
    ASSUME NEW P \in SUBSET Nat, 0 \in P, \A n \in P : n + 1 \in P
    PROVE  P = Nat
<1> SUFFICES ASSUME Nat \ P # {} PROVE FALSE
  OBVIOUS
<1> DEFINE R == OpToRel(<, Nat)
<1>1. PICK n \in Nat \ P : \A y \in Nat \ P : ~(<<y, n>> \in R)
  BY WFMin, NatLessThanWellFounded
<1>2. \A y \in Nat \ P : ~(y < n)
  BY <1>1 DEF OpToRel
<1> HIDE DEF R
<1>3. n \in Nat /\ n \notin P /\ n # 0
  BY <1>1
<1>4. n - 1 \in Nat /\ n - 1 < n /\ (n - 1) + 1 = n
  BY <1>3
<1> QED
  BY <1>2, <1>3, <1>4

\* What the planner's guard refuses, the publisher refuses: the digest of the
\* adapter contains rows of the ledger only, and its reading of the execution
\* flag is at least as strict as the publisher's.
LEMMA PlannerIsLaxer ==
    ASSUME NEW m, NEW at, PlannerBlocks(m, at)
    PROVE  PublisherBlocks(m, at)
<1>1. PICK row \in Newest(at.ledger) :
          /\ row.mutation = m
          /\ row.verdict.failing
          /\ Observed(row)
          /\ Scope[m] = "bloc" \/ row.context = at.version[m]
  BY DEF PlannerBlocks
<1>2. PICK i \in 1..Len(at.ledger) : row = at.ledger[i]
  BY DEF Newest
<1>3. Negative(row)
  BY <1>1 DEF Observed, Negative
<1> QED
  BY <1>1, <1>2, <1>3 DEF PublisherBlocks

\* The planner's guard never withholds a mutation that the publisher would let
\* pass (planner.py and publish_niakvio_force_mutations.py).
THEOREM RefusesLess == Spec => []PlannerRefusesLess
<1>1. PlannerRefusesLess
  BY PlannerIsLaxer DEF PlannerRefusesLess
<1> QED
  BY <1>1, PTL

-----------------------------------------------------------------------------
\* Every row of a ledger is followed by a newest one of its key.
LEMMA LastOfKey ==
    ASSUME NEW log \in Seq(LedgerRows), NEW i \in 1..Len(log)
    PROVE  \E k \in 1..Len(log) :
              /\ SameKey(log[i], log[k]) /\ i <= k
              /\ \A j \in (k + 1)..Len(log) : ~SameKey(log[j], log[k])
<1> DEFINE T == {n \in Nat : \E k \in 1..Len(log) :
                    n = Len(log) - k /\ i <= k /\ SameKey(log[i], log[k])}
           R == OpToRel(<, Nat)
<1>1. T \subseteq Nat /\ T # {}
  <2>1. Len(log) - i \in Nat /\ SameKey(log[i], log[i]) /\ i <= i
    BY DEF SameKey
  <2> QED
    BY <2>1
<1>2. PICK n \in T : \A y \in T : ~(<<y, n>> \in R)
  BY <1>1, WFMin, NatLessThanWellFounded
<1>3. \A y \in T : ~(y < n)
  BY <1>2, <1>1 DEF OpToRel
<1>4. PICK k \in 1..Len(log) : n = Len(log) - k /\ i <= k /\ SameKey(log[i], log[k])
  BY <1>2 DEF T
<1>5. ASSUME NEW j \in (k + 1)..Len(log), SameKey(log[j], log[k])
      PROVE  FALSE
  <2>1. SameKey(log[i], log[j])
    BY <1>4, <1>5 DEF SameKey
  <2>2. Len(log) - j \in T
    BY <1>4, <2>1
  <2>3. Len(log) - j < n
    BY <1>4
  <2> HIDE DEF T
  <2> QED
    BY <2>2, <2>3, <1>3
<1> QED
  BY <1>4, <1>5

\* For a scope the guard knows, the publisher refuses more than the planner
\* only what a later verdict superseded.
LEMMA ReadersDifferBySupersession ==
    ASSUME NEW m, NEW at, at.ledger \in Seq(LedgerRows),
           Guarded(m), PublisherBlocks(m, at), ~Superseded(m, at)
    PROVE  PlannerBlocks(m, at)
<1> DEFINE log == at.ledger
<1>1. PICK i \in 1..Len(log) :
          /\ log[i].mutation = m /\ Negative(log[i])
          /\ Scope[m] = "bloc" \/ log[i].context = at.version[m]
  BY DEF PublisherBlocks
<1>2. PICK k \in 1..Len(log) :
          /\ SameKey(log[i], log[k]) /\ i <= k
          /\ \A j \in (k + 1)..Len(log) : ~SameKey(log[j], log[k])
  BY LastOfKey
<1>3. Negative(log[k])
  <2>1. CASE i = k
    BY <2>1, <1>1
  <2>2. CASE i < k
    BY <2>2, <1>1, <1>2 DEF Superseded
  <2> QED
    BY <2>1, <2>2, <1>2
<1>4. log[k] \in LedgerRows
  OBVIOUS
<1>5. Observed(log[k]) /\ log[k].verdict.failing
  BY <1>3, <1>4 DEF Observed, Negative, LedgerRows, Verdicts
<1>6. log[k] \in Newest(log)
  BY <1>2 DEF Newest
<1> QED
  BY <1>1, <1>2, <1>5, <1>6 DEF PlannerBlocks, SameKey

-----------------------------------------------------------------------------
\* What a batch holds while it runs; the batch of an idle system holds nothing.
BatchInv ==
    /\ TypeOK
    /\ pc = "idle" => rows = <<>> /\ \A p \in Providers : progress[p] = "waiting"
    /\ \A i \in 1..Len(rows) :
          Executable(rows[i]) => ~PlannerBlocks(rows[i].mutation, checkout)

LEMMA ProvidersFinite == IsFiniteSet(Providers)
<1>1. 1..Len(Selected) \in SUBSET Int /\ IsFiniteSet(1..Len(Selected))
  BY FS_Interval
<1>2. [i \in 1..Len(Selected) |-> Selected[i]] \in Surjection(1..Len(Selected), Providers)
  BY DEF Providers, Surjection
<1> QED
  BY <1>1, <1>2, FS_Surjection

\* The rows of a portfolio are rows of a page, and the guard let each pass.
LEMMA RowsOfPortfolio ==
    ASSUME NEW p \in Providers, NEW s \in Portfolios(p)
    PROVE  /\ RowsOf(p, s) \in Seq(PageRows)
           /\ \A i \in 1..Len(RowsOf(p, s)) :
                 Executable(RowsOf(p, s)[i])
                   => ~PlannerBlocks(RowsOf(p, s)[i].mutation, checkout)
<1>1. s \in Seq(Mutations) /\ \A i \in 1..Len(s) : ~PlannerBlocks(s[i], checkout)
  <2> DEFINE open == {m \in Mutations : Owner[m] = p /\ ~PlannerBlocks(m, checkout)}
  <2>1. PICK n \in 0..Portfolio : s \in [1..n -> open]
    BY DEF Portfolios, BoundedSeq, SeqOf
  <2> QED
    BY <2>1
<1>2. CASE s = <<>>
  BY <1>2 DEF RowsOf, PageRows, Executable
<1>3. CASE s # <<>>
  <2>1. RowsOf(p, s) = [i \in 1..Len(s) |-> [provider |-> p, mutation |-> s[i]]]
    BY <1>3 DEF RowsOf
  <2>2. RowsOf(p, s) \in [1..Len(s) -> PageRows] /\ Len(s) \in Nat
    BY <1>1, <2>1 DEF PageRows
  <2>3. RowsOf(p, s) \in Seq(PageRows) /\ Len(RowsOf(p, s)) = Len(s)
    BY <2>2
  <2> QED
    BY <1>1, <2>1, <2>3
<1> QED
  BY <1>2, <1>3

\* The state after a batch has ended is that of an idle system.
LEMMA EndOfBatch ==
    ASSUME BatchInv, EndBatch, UNCHANGED <<ledger, version, batches>>,
           branch' \in SUBSET [mutation : Mutations, context : Contexts]
    PROVE  BatchInv'
<1>1. Planning' = {}
  BY DEF EndBatch, Planning
<1>2. Cardinality(Planning)' <= options.workers'
  BY <1>1, FS_EmptySet DEF EndBatch
<1>3. checkout' \in [ledger : Seq(LedgerRows), version : [Mutations -> Contexts]]
  BY DEF EndBatch, NoCheckout, Contexts
<1> QED
  BY <1>2, <1>3 DEF BatchInv, TypeOK, EndBatch

\* One more, or one less, in a finite set.
LEMMA OneMore ==
    ASSUME NEW S, NEW x, IsFiniteSet(S)
    PROVE  /\ Cardinality(S) \in Nat /\ Cardinality(S \cup {x}) \in Nat
           /\ Cardinality(S \cup {x}) <= Cardinality(S) + 1
<1>1. Cardinality(S) \in Nat
  BY FS_CardinalityType
<1>2. Cardinality(S \cup {x}) = IF x \in S THEN Cardinality(S) ELSE Cardinality(S) + 1
  BY FS_AddElement
<1> QED
  BY <1>1, <1>2

LEMMA OneLess ==
    ASSUME NEW S, NEW x, IsFiniteSet(S)
    PROVE  /\ Cardinality(S) \in Nat /\ Cardinality(S \ {x}) \in Nat
           /\ Cardinality(S \ {x}) <= Cardinality(S)
<1>1. S \ {x} \in SUBSET S
  OBVIOUS
<1>2. IsFiniteSet(S \ {x}) /\ Cardinality(S \ {x}) <= Cardinality(S)
  BY <1>1, FS_Subset
<1> QED
  BY <1>2, FS_CardinalityType

LEMMA WorkersAreNumbers == ASSUME BatchInv PROVE options.workers \in Int
<1>1. \A w \in WorkerCounts \cup {1} : w \in Int
  BY BoundAssumption
<1>2. options.workers \in WorkerCounts \cup {1}
  BY DEF BatchInv, TypeOK
<1> QED
  BY <1>1, <1>2

LEMMA BatchInvInit == Init => BatchInv
<1> SUFFICES ASSUME Init PROVE BatchInv
  OBVIOUS
<1>1. Planning = {}
  BY DEF Init, Planning
<1>2. Cardinality(Planning) <= options.workers
  BY <1>1, BoundAssumption, FS_EmptySet DEF Init
<1>3. checkout \in [ledger : Seq(LedgerRows), version : [Mutations -> Contexts]]
  BY DEF Init, NoCheckout, Contexts
<1> QED
  BY <1>2, <1>3, BoundAssumption DEF Init, BatchInv, TypeOK, Contexts

LEMMA CheckoutStep ==
    ASSUME BatchInv, NEW w \in WorkerCounts, NEW stop \in BOOLEAN,
           Checkout(w, stop)
    PROVE  BatchInv'
<1>1. Planning' = {}
  BY DEF Checkout, Planning, BatchInv
<1>2. Cardinality(Planning)' <= options.workers'
  BY <1>1, BoundAssumption, FS_EmptySet DEF Checkout
<1>3. checkout' \in [ledger : Seq(LedgerRows), version : [Mutations -> Contexts]]
  BY DEF Checkout, BatchInv, TypeOK
<1> QED
  BY <1>2, <1>3, BoundAssumption DEF Checkout, BatchInv, TypeOK

LEMMA StartStep ==
    ASSUME BatchInv, NEW i \in 1..Len(Selected), StartProvider(i)
    PROVE  BatchInv'
<1> DEFINE p == Selected[i]
<1>1. p \in Providers /\ progress' \in [Providers -> {"waiting", "planning", "done"}]
  BY DEF StartProvider, BatchInv, TypeOK, Providers
<1>2. Planning' = Planning \cup {p} /\ IsFiniteSet(Planning)
  <2>1. IsFiniteSet(Planning)
    BY ProvidersFinite, FS_Subset DEF Planning
  <2> QED
    BY <2>1, <1>1 DEF StartProvider, Planning, BatchInv, TypeOK
<1>3. Cardinality(Planning)' <= options.workers'
  <2>1. options.workers \in Int
    BY WorkersAreNumbers
  <2>2. /\ Cardinality(Planning) \in Nat /\ Cardinality(Planning \cup {p}) \in Nat
        /\ Cardinality(Planning \cup {p}) <= Cardinality(Planning) + 1
    BY <1>2, OneMore
  <2>4. Cardinality(Planning)' = Cardinality(Planning \cup {p})
    BY <1>2
  <2> HIDE DEF p
  <2> QED
    BY <2>1, <2>2, <2>4 DEF StartProvider, Free
<1> QED
  BY <1>1, <1>3 DEF StartProvider, BatchInv, TypeOK, PlannerBlocks

LEMMA FinishStep ==
    ASSUME BatchInv, NEW p \in Providers, NEW s \in Portfolios(p),
           FinishProvider(p, s)
    PROVE  BatchInv'
<1>1. progress' \in [Providers -> {"waiting", "planning", "done"}]
  BY DEF FinishProvider, BatchInv, TypeOK
<1>2. Planning' = Planning \ {p} /\ IsFiniteSet(Planning)
  <2>1. IsFiniteSet(Planning)
    BY ProvidersFinite, FS_Subset DEF Planning
  <2> QED
    BY <2>1 DEF FinishProvider, Planning, BatchInv, TypeOK
<1>3. Cardinality(Planning)' <= options.workers'
  <2>1. options.workers \in Int
    BY WorkersAreNumbers
  <2>2. /\ Cardinality(Planning) \in Nat /\ Cardinality(Planning \ {p}) \in Nat
        /\ Cardinality(Planning \ {p}) <= Cardinality(Planning)
    BY <1>2, OneLess
  <2>3. Cardinality(Planning)' = Cardinality(Planning \ {p})
    BY <1>2
  <2> QED
    BY <2>1, <2>2, <2>3 DEF FinishProvider, BatchInv, TypeOK
<1> DEFINE r == RowsOf(p, s)
<1>4. r \in Seq(PageRows) /\ rows \in Seq(PageRows) /\ rows' = rows \o r
  BY RowsOfPortfolio DEF FinishProvider, BatchInv, TypeOK
<1>5. ASSUME NEW k \in 1..Len(rows'), Executable(rows'[k])
      PROVE  ~PlannerBlocks(rows'[k].mutation, checkout)
  <2> HIDE DEF r
  <2>1. CASE k \in 1..Len(rows)
    <3>1. rows'[k] = rows[k]
      BY <1>4, <2>1
    <3> QED
      BY <3>1, <2>1, <1>5 DEF BatchInv
  <2>2. CASE k \notin 1..Len(rows)
    <3>1. k - Len(rows) \in 1..Len(r) /\ rows'[k] = r[k - Len(rows)]
      BY <1>4, <2>2
    <3> QED
      BY <3>1, <1>5, RowsOfPortfolio DEF r
  <2> QED
    BY <2>1, <2>2
<1>6. rows' \in Seq(PageRows) /\ planned' \in [Providers -> Seq(PageRows)]
  BY <1>4 DEF FinishProvider, BatchInv, TypeOK
<1> HIDE DEF r
<1> QED
  BY <1>1, <1>3, <1>5, <1>6 DEF FinishProvider, BatchInv, TypeOK, PlannerBlocks, Executable

LEMMA WriteStep == ASSUME BatchInv, Write PROVE BatchInv'
<1>1. PICK from \in Bijection(1..Len(rows), 1..Len(rows)) :
          rows' = [i \in 1..Len(rows) |-> rows[from[i]]]
  BY DEF Write
<1>2. rows \in Seq(PageRows) /\ from \in [1..Len(rows) -> 1..Len(rows)]
  BY DEF BatchInv, TypeOK, Bijection, Injection, Surjection
<1>3. rows' \in Seq(PageRows) /\ Len(rows') = Len(rows)
  BY <1>1, <1>2
<1>4. \A i \in 1..Len(rows') :
          Executable(rows'[i]) => ~PlannerBlocks(rows'[i].mutation, checkout)
  BY <1>1, <1>2, <1>3 DEF BatchInv
<1>5. Planning' = Planning
  BY DEF Write, Planning
<1> QED
  BY <1>3, <1>4, <1>5 DEF Write, BatchInv, TypeOK, PlannerBlocks, Executable

LEMMA ExecuteStep ==
    ASSUME BatchInv, NEW c \in branch, NEW v \in Verdicts, Execute(c, v)
    PROVE  BatchInv'
<1>1. [mutation |-> c.mutation, context |-> c.context, verdict |-> v] \in LedgerRows
  BY DEF BatchInv, TypeOK, LedgerRows
<1>2. ledger' \in Seq(LedgerRows)
  BY <1>1 DEF Execute, BatchInv, TypeOK
<1>3. Planning' = Planning
  BY DEF Execute, Planning
<1> QED
  BY <1>2, <1>3 DEF Execute, BatchInv, TypeOK, PlannerBlocks, Executable

LEMMA DriftStep ==
    ASSUME BatchInv, NEW m \in Mutations, Drift(m)
    PROVE  BatchInv'
<1>1. version' \in [Mutations -> Contexts]
  BY DEF Drift, BatchInv, TypeOK, Contexts
<1>2. Planning' = Planning
  BY DEF Drift, Planning
<1> QED
  BY <1>1, <1>2 DEF Drift, BatchInv, TypeOK, PlannerBlocks, Executable

LEMMA SanitizedType ==
    ASSUME BatchInv
    PROVE  Sanitized \in SUBSET [mutation : Mutations, context : Contexts]
<1>1. /\ checkout.version \in [Mutations -> Contexts]
      /\ rows \in Seq(PageRows)
  BY DEF BatchInv, TypeOK
<1>2. ASSUME NEW i \in 1..Len(rows), Survives(rows[i])
      PROVE  rows[i].mutation \in Mutations
  <2>1. rows[i] \in PageRows
    BY <1>1
  <2>2. rows[i].mutation \in Mutations \cup {NoMutation}
    BY <2>1 DEF PageRows
  <2> QED
    BY <2>2, <1>2 DEF Survives, Executable
<1> QED
  BY <1>1, <1>2 DEF Sanitized

LEMMA BatchInvStep == BatchInv /\ [Next]_vars => BatchInv'
<1> SUFFICES ASSUME BatchInv, [Next]_vars PROVE BatchInv'
  OBVIOUS
<1>1. CASE \E w \in WorkerCounts, stop \in BOOLEAN : Checkout(w, stop)
  BY <1>1, CheckoutStep
<1>2. CASE \E i \in 1..Len(Selected) : StartProvider(i)
  BY <1>2, StartStep
<1>3. CASE \E p \in Providers : \E s \in Portfolios(p) : FinishProvider(p, s)
  BY <1>3, FinishStep
<1>4. CASE \E p \in Providers : Raise(p)
  <2>1. branch' = branch
    BY <1>4 DEF Raise
  <2> QED
    BY <1>4, <2>1, EndOfBatch DEF Raise, BatchInv, TypeOK
<1>5. CASE Write
  BY <1>5, WriteStep
<1>6. CASE Publish
  BY <1>6, SanitizedType, EndOfBatch DEF Publish
<1>7. CASE SanitizeRaises
  <2>1. branch' = branch
    BY <1>7 DEF SanitizeRaises
  <2> QED
    BY <1>7, <2>1, EndOfBatch DEF SanitizeRaises, BatchInv, TypeOK
<1>8. CASE \E c \in branch, v \in Verdicts : Execute(c, v)
  BY <1>8, ExecuteStep
<1>9. CASE \E m \in Mutations : Drift(m)
  BY <1>9, DriftStep
<1>10. CASE UNCHANGED vars
  BY <1>10 DEF vars, BatchInv, TypeOK, Planning, PlannerBlocks, Executable
<1> QED
  BY <1>1, <1>2, <1>3, <1>4, <1>5, <1>6, <1>7, <1>8, <1>9, <1>10 DEF Next

\* The state of the ledger, of a batch and of the branch is well typed, and no
\* batch plans more providers at once than it has workers.
THEOREM TypeCorrect == Spec => []TypeOK
<1>1. BatchInv => TypeOK
  BY DEF BatchInv
<1> QED
  BY <1>1, BatchInvInit, BatchInvStep, PTL DEF Spec

-----------------------------------------------------------------------------
\* Only a publication changes the branch.
LEMMA BranchChange ==
    ASSUME [Next]_vars, branch' # branch
    PROVE  Publish
  BY DEF Next, vars, Checkout, StartProvider, FinishProvider, Raise, Write,
         SanitizeRaises, Execute, Drift

LEMMA NoKnownRejectionStep ==
    ASSUME BatchInv, [Next]_vars, NEW c \in branch' \ branch,
           NEW i \in 1..Len(checkout.ledger),
           checkout.ledger[i].mutation = c.mutation,
           checkout.ledger[i].verdict.outcome = "rejected",
           checkout.ledger[i].verdict.executed \in {"yes", "absent"}
    PROVE  Scope[c.mutation] # "bloc" /\ checkout.ledger[i].context # c.context
<1>1. Publish
  BY BranchChange
<1>2. PICK k \in 1..Len(rows) :
          /\ Survives(rows[k])
          /\ c = [mutation |-> rows[k].mutation,
                  context |-> checkout.version[rows[k].mutation]]
  BY <1>1 DEF Publish, Sanitized
<1>3. checkout.ledger[i] \in LedgerRows
  BY DEF BatchInv, TypeOK
<1>4. Negative(checkout.ledger[i])
  BY <1>3 DEF Negative, Unproven, LedgerRows, Verdicts
<1> QED
  BY <1>2, <1>4 DEF Survives, PublisherBlocks

\* What was executed and rejected before the checkout of a batch is not
\* published by that batch: a bloc never, anything else not on the same bytes.
THEOREM NothingRejectedReturns == Spec => NoKnownRejectionPublished
<1>1. BatchInv /\ [Next]_vars =>
          [\A c \in branch' \ branch : \A i \in 1..Len(checkout.ledger) :
              LET row == checkout.ledger[i]
              IN  row.mutation = c.mutation /\ row.verdict.outcome = "rejected"
                    /\ row.verdict.executed \in {"yes", "absent"}
                    => Scope[c.mutation] # "bloc" /\ row.context # c.context]_vars
  BY NoKnownRejectionStep
<1> QED
  BY <1>1, BatchInvInit, BatchInvStep, PTL DEF Spec, NoKnownRejectionPublished

\* What the planner's guard let into a portfolio reaches the branch, unless
\* its scope is outside the guard or its rejection was superseded.
THEOREM NothingReservedIsDropped == Spec => PlannedIsPublished
<1>1. ASSUME BatchInv, [Next]_vars, branch' # branch, NEW i \in 1..Len(rows),
             Executable(rows[i]), Guarded(rows[i].mutation),
             ~Superseded(rows[i].mutation, checkout)
      PROVE  \E c \in branch' : c.mutation = rows[i].mutation
  <2>1. Publish
    BY <1>1, BranchChange
  <2>2. ~PlannerBlocks(rows[i].mutation, checkout)
    BY <1>1 DEF BatchInv
  <2>3. checkout.ledger \in Seq(LedgerRows)
    BY <1>1 DEF BatchInv, TypeOK
  <2>4. Survives(rows[i])
    BY <2>2, <2>3, <1>1, ReadersDifferBySupersession DEF Survives
  <2>5. [mutation |-> rows[i].mutation,
         context |-> checkout.version[rows[i].mutation]] \in Sanitized
    BY <2>4, <1>1 DEF Sanitized
  <2> QED
    BY <2>1, <2>5 DEF Publish
<1>2. BatchInv /\ [Next]_vars =>
          [pc = "written" /\ pc' = "idle" /\ branch' # branch =>
              \A i \in 1..Len(rows) :
                  LET m == rows[i].mutation
                  IN  Executable(rows[i]) /\ Guarded(m) /\ ~Superseded(m, checkout)
                        => \E c \in branch' : c.mutation = m]_vars
  BY <1>1
<1> QED
  BY <1>2, BatchInvInit, BatchInvStep, PTL DEF Spec, PlannedIsPublished

-----------------------------------------------------------------------------
(* What FlattenSeq makes of a sequence of lists: part i stands from b[i] on. *)
Flattened(F, parts, n, b) ==
    /\ b \in [1..n -> Nat]
    /\ \A i, j \in 1..n : i < j => b[i] + Len(parts[i]) <= b[j]
    /\ \A i \in 1..n :
          /\ b[i] + Len(parts[i]) <= Len(F)
          /\ \A k \in 1..Len(parts[i]) : F[b[i] + k] = parts[i][k]
    /\ \A m \in 1..Len(F) : \E i \in 1..n : m - b[i] \in 1..Len(parts[i])

\* One more part at the end.
LEMMA FlattenedAppend ==
    ASSUME NEW R, NEW n \in Nat, NEW parts, NEW F \in Seq(R), NEW b,
           \A i \in 1..(n + 1) : parts[i] \in Seq(R),
           Flattened(F, parts, n, b)
    PROVE  /\ F \o parts[n + 1] \in Seq(R)
           /\ Flattened(F \o parts[n + 1], parts, n + 1,
                        [i \in 1..(n + 1) |-> IF i \in 1..n THEN b[i] ELSE Len(F)])
<1> DEFINE part == parts[n + 1]
           G == F \o part
           c == [i \in 1..(n + 1) |-> IF i \in 1..n THEN b[i] ELSE Len(F)]
<1>0. /\ part \in Seq(R) /\ n + 1 \in 1..(n + 1) /\ n + 1 \notin 1..n
      /\ \A i \in 1..(n + 1) : i \in 1..n \/ i = n + 1
      /\ \A i \in 1..n : i \in 1..(n + 1)
  OBVIOUS
<1>1. /\ G \in Seq(R) /\ Len(G) = Len(F) + Len(part)
      /\ \A m \in 1..Len(F) : G[m] = F[m]
      /\ \A k \in 1..Len(part) : G[Len(F) + k] = part[k]
  BY <1>0
<1>2. /\ \A i \in 1..n : c[i] = b[i]
      /\ c[n + 1] = Len(F) /\ c \in [1..(n + 1) -> Nat]
  BY <1>0 DEF Flattened
<1>l. /\ Len(F) \in Nat /\ Len(part) \in Nat /\ \A i \in 1..n : b[i] \in Nat
      /\ \A i \in 1..n : Len(parts[i]) \in Nat
  BY <1>0 DEF Flattened
<1> HIDE DEF G, c
<1>3. ASSUME NEW i \in 1..(n + 1), NEW j \in 1..(n + 1), i < j
      PROVE  c[i] + Len(parts[i]) <= c[j]
  <2>1. i \in 1..n
    BY <1>3
  <2>2. CASE j \in 1..n
    BY <1>2, <1>3, <2>1, <2>2 DEF Flattened
  <2>3. CASE j = n + 1
    BY <1>2, <2>1, <2>3 DEF Flattened
  <2> QED
    BY <1>0, <2>2, <2>3
<1>4. ASSUME NEW i \in 1..(n + 1)
      PROVE  /\ c[i] + Len(parts[i]) <= Len(G)
             /\ \A k \in 1..Len(parts[i]) : G[c[i] + k] = parts[i][k]
  <2>1. CASE i \in 1..n
    <3>1. c[i] = b[i] /\ b[i] + Len(parts[i]) <= Len(F)
      BY <1>2, <2>1 DEF Flattened
    <3>2. ASSUME NEW k \in 1..Len(parts[i]) PROVE G[b[i] + k] = parts[i][k]
      <4>1. b[i] + k \in 1..Len(F)
        BY <1>l, <2>1, <3>1
      <4>2. F[b[i] + k] = parts[i][k]
        BY <2>1 DEF Flattened
      <4> QED
        BY <1>1, <4>1, <4>2
    <3>3. b[i] + Len(parts[i]) <= Len(G)
      BY <1>1, <1>l, <2>1, <3>1
    <3> QED
      BY <3>1, <3>2, <3>3
  <2>2. CASE i = n + 1
    <3>1. c[i] = Len(F) /\ parts[i] = part
      BY <1>2, <2>2
    <3> HIDE DEF part
    <3>2. c[i] + Len(part) <= Len(G) /\ \A k \in 1..Len(part) : G[c[i] + k] = part[k]
      BY <1>1, <1>l, <3>1
    <3> QED
      BY <3>1, <3>2
  <2> QED
    BY <1>0, <2>1, <2>2
<1>5. ASSUME NEW m \in 1..Len(G)
      PROVE  \E i \in 1..(n + 1) : m - c[i] \in 1..Len(parts[i])
  <2>1. CASE m \in 1..Len(F)
    <3>1. PICK i \in 1..n : m - b[i] \in 1..Len(parts[i])
      BY <2>1 DEF Flattened
    <3> QED
      BY <1>0, <1>2, <3>1
  <2>2. CASE m \notin 1..Len(F)
    <3>1. m - Len(F) \in 1..Len(part)
      BY <1>1, <1>l, <2>2
    <3> QED
      BY <1>0, <1>2, <3>1
  <2> QED
    BY <2>1, <2>2
<1>6. Flattened(G, parts, n + 1, c)
  BY <1>2, <1>3, <1>4, <1>5 DEF Flattened
<1> QED
  BY <1>1, <1>6 DEF G, c

\* The function in FlattenSeq, up to the first n parts.
FlattenStep(f, parts, i) == IF i = 1 THEN parts[i] ELSE f[i - 1] \o parts[i]
IsFlatten(f, parts, n) == f = [i \in 1..n |-> FlattenStep(f, parts, i)]

LEMMA FlattenExists ==
    ASSUME NEW parts, NEW n \in Nat
    PROVE  \E f : IsFlatten(f, parts, n)
<1> DEFINE P == {m \in Nat : \E f : IsFlatten(f, parts, m)}
<1>1. 0 \in P
  <2> DEFINE f == [i \in 1..0 |-> parts[i]]
  <2>1. IsFlatten(f, parts, 0)
    BY DEF IsFlatten
  <2> HIDE DEF f
  <2> QED
    BY <2>1
<1>2. ASSUME NEW m \in P PROVE m + 1 \in P
  <2>0. m \in Nat
    OBVIOUS
  <2>1. PICK f : IsFlatten(f, parts, m)
    OBVIOUS
  <2> DEFINE g == [i \in 1..(m + 1) |-> IF i \in 1..m THEN f[i] ELSE FlattenStep(f, parts, i)]
  <2>2. ASSUME NEW i \in 1..(m + 1) PROVE g[i] = FlattenStep(g, parts, i)
    <3>1. g[i] = FlattenStep(f, parts, i)
      BY <2>1 DEF IsFlatten
    <3>2. i # 1 => i - 1 \in 1..m /\ i - 1 \in 1..(m + 1)
      BY <2>0
    <3>3. i # 1 => g[i - 1] = f[i - 1]
      BY <3>2
    <3> QED
      BY <3>1, <3>3 DEF FlattenStep
  <2>3. IsFlatten(g, parts, m + 1)
    <3>1. DOMAIN g = 1..(m + 1) /\ g = [i \in 1..(m + 1) |-> g[i]]
      OBVIOUS
    <3> HIDE DEF g
    <3> QED
      BY <3>1, <2>2 DEF IsFlatten
  <2> HIDE DEF g
  <2> QED
    BY <2>0, <2>3
<1>3. P = Nat
  <2> HIDE DEF P
  <2>1. P \in SUBSET Nat
    BY DEF P
  <2> QED
    BY <1>1, <1>2, <2>1, SetInduction
<1> QED
  BY <1>3

LEMMA FlattenSeqFacts ==
    ASSUME NEW R, NEW n \in Nat, NEW parts \in [1..n -> Seq(R)]
    PROVE  FlattenSeq(parts) \in Seq(R) /\ \E b : Flattened(FlattenSeq(parts), parts, n, b)
<1>0. Len(parts) = n
  OBVIOUS
<1>1. CASE n = 0
  <2>1. FlattenSeq(parts) = <<>>
    BY <1>0, <1>1 DEF FlattenSeq
  <2>2. Flattened(<<>>, parts, 0, [i \in 1..0 |-> 0])
    BY DEF Flattened
  <2> QED
    BY <1>1, <2>1, <2>2
<1>2. CASE n # 0
  <2> DEFINE f == CHOOSE g : IsFlatten(g, parts, n)
             upto(m) == IF m = 0 THEN <<>> ELSE f[m]
             P == {m \in Nat : m <= n =>
                     upto(m) \in Seq(R) /\ \E b : Flattened(upto(m), parts, m, b)}
  <2>1. FlattenSeq(parts) = f[n]
    BY <1>0, <1>2 DEF FlattenSeq, IsFlatten, FlattenStep
  <2>2. IsFlatten(f, parts, n)
    BY FlattenExists
  <2> HIDE DEF f
  <2>3. 0 \in P
    <3>1. Flattened(<<>>, parts, 0, [i \in 1..0 |-> 0])
      BY DEF Flattened
    <3> QED
      BY <3>1
  <2>4. ASSUME NEW m \in P, m + 1 <= n
        PROVE  /\ upto(m + 1) \in Seq(R)
               /\ \E b : Flattened(upto(m + 1), parts, m + 1, b)
    <3>0. m \in Nat /\ m <= n
      BY <2>4
    <3>1. PICK b : upto(m) \in Seq(R) /\ Flattened(upto(m), parts, m, b)
      BY <3>0
    <3>2. upto(m + 1) = upto(m) \o parts[m + 1]
      <4>1. m + 1 \in 1..n /\ m + 1 # 0
        BY <3>0, <2>4
      <4>2. upto(m + 1) = FlattenStep(f, parts, m + 1)
        BY <2>2, <4>1 DEF IsFlatten
      <4>3. CASE m = 0
        BY <4>1, <4>2, <4>3, ConcatEmptySeq DEF FlattenStep
      <4>4. CASE m # 0
        <5>1. m + 1 # 1 /\ (m + 1) - 1 = m
          BY <3>0, <4>4
        <5> QED
          BY <4>2, <4>4, <5>1 DEF FlattenStep
      <4> QED
        BY <4>3, <4>4
    <3>3. \A i \in 1..(m + 1) : parts[i] \in Seq(R)
      BY <3>0, <2>4
    <3> DEFINE F == upto(m)
    <3>4. F \in Seq(R) /\ Flattened(F, parts, m, b)
      BY <3>1
    <3>5. upto(m + 1) = F \o parts[m + 1]
      BY <3>2
    <3> HIDE DEF upto, F
    <3>6. /\ F \o parts[m + 1] \in Seq(R)
          /\ \E c : Flattened(F \o parts[m + 1], parts, m + 1, c)
      BY <3>0, <3>3, <3>4, FlattenedAppend
    <3> QED
      BY <3>5, <3>6
  <2>5. P = Nat
    <3>1. P \in SUBSET Nat
      OBVIOUS
    <3>2. ASSUME NEW m \in P PROVE m + 1 \in P
      <4>1. m + 1 \in Nat
        OBVIOUS
      <4> HIDE DEF upto
      <4> QED
        BY <2>4, <4>1
    <3> HIDE DEF P
    <3> QED
      BY <2>3, <3>1, <3>2, SetInduction
  <2>6. n \in P
    <3> HIDE DEF P
    <3> QED
      BY <2>5
  <2>7. upto(n) \in Seq(R) /\ \E b : Flattened(upto(n), parts, n, b)
    <3>1. n <= n
      OBVIOUS
    <3> HIDE DEF upto
    <3> QED
      BY <2>6, <3>1
  <2> QED
    BY <1>2, <2>1, <2>7
<1> QED
  BY <1>1, <1>2

-----------------------------------------------------------------------------
(* The order in which rows are written is the only one that a stable sort by *)
(* position can give.                                                        *)
Asymmetric(Lt, N) == \A r, s \in 1..N : ~(<<r, s>> \in Lt /\ <<s, r>> \in Lt)
Sorts(f, Lt, N) ==
    /\ f \in [1..N -> 1..N]
    /\ \A r \in 1..N : \E i \in 1..N : f[i] = r
    /\ \A i, j \in 1..N : i < j => <<f[i], f[j]>> \in Lt

LEMMA SortUnique ==
    ASSUME NEW N \in Nat, NEW Lt, Asymmetric(Lt, N),
           NEW f, Sorts(f, Lt, N), NEW g, Sorts(g, Lt, N)
    PROVE  f = g
<1>0. /\ \A r, s \in 1..N : ~(<<r, s>> \in Lt /\ <<s, r>> \in Lt)
      /\ f \in [1..N -> 1..N] /\ g \in [1..N -> 1..N]
      /\ \A r \in 1..N : \E i \in 1..N : f[i] = r
      /\ \A r \in 1..N : \E i \in 1..N : g[i] = r
      /\ \A i, j \in 1..N : i < j => <<f[i], f[j]>> \in Lt /\ <<g[i], g[j]>> \in Lt
  BY DEF Asymmetric, Sorts
<1> DEFINE Wrong == {i \in 1..N : f[i] # g[i]}
           R == OpToRel(<, Nat)
<1> SUFFICES ASSUME Wrong # {} PROVE FALSE
  BY <1>0
<1>1. PICK i \in Wrong : \A j \in Wrong : ~(<<j, i>> \in R)
  <2>1. Wrong \subseteq Nat
    OBVIOUS
  <2> QED
    BY <2>1, WFMin, NatLessThanWellFounded
<1>2. \A j \in 1..N : j < i => f[j] = g[j]
  <2>1. Wrong \subseteq Nat
    OBVIOUS
  <2>2. \A j \in Wrong : ~(j < i)
    BY <1>1, <2>1 DEF OpToRel
  <2> QED
    BY <2>2
<1> HIDE DEF R
<1>3. i \in 1..N /\ f[i] # g[i]
  BY <1>0, <1>1
<1>4. PICK j \in 1..N : g[j] = f[i]
  BY <1>0, <1>3
<1>5. PICK k \in 1..N : f[k] = g[i]
  BY <1>0, <1>3
<1>6. i < j
  <2>1. j # i
    BY <1>3, <1>4
  <2>2. CASE j < i
    <3>1. f[j] = f[i] /\ <<f[j], f[i]>> \in Lt
      BY <1>0, <1>2, <1>3, <1>4, <2>2
    <3> QED
      BY <1>0, <1>3, <3>1
  <2> QED
    BY <1>3, <2>1, <2>2
<1>7. i < k
  <2>1. k # i
    BY <1>3, <1>5
  <2>2. CASE k < i
    <3>1. g[k] = g[i] /\ <<g[k], g[i]>> \in Lt
      BY <1>0, <1>2, <1>3, <1>5, <2>2
    <3> QED
      BY <1>0, <1>3, <3>1
  <2> QED
    BY <1>3, <2>1, <2>2
<1>8. <<g[i], f[i]>> \in Lt /\ <<f[i], g[i]>> \in Lt
  BY <1>0, <1>3, <1>4, <1>5, <1>6, <1>7
<1> QED
  BY <1>0, <1>3, <1>8

Done == {p \in Providers : progress[p] = "done"}

\* Where the rows of each finished provider stand: its portfolio from off[p]
\* on, and nothing else is there.
Arrived(off) ==
    /\ \A p \in Done :
          /\ off[p] + Len(planned[p]) <= Len(rows)
          /\ \A k \in 1..Len(planned[p]) :
                rows[off[p] + k] = planned[p][k] /\ planned[p][k].provider = p
    /\ \A i \in 1..Len(rows) :
          /\ rows[i].provider \in Done
          /\ i - off[rows[i].provider] \in 1..Len(planned[rows[i].provider])

PrefixOfSelected(S) ==
    \A i \in 1..Len(Selected) : \A j \in 1..(i - 1) :
        Selected[i] \in S => Selected[j] \in S

\* Providers start in their order; those of a single worker also end in it.
ArrivalInv ==
    /\ options.stop => options.workers = 1
    /\ pc = "planning" =>
          /\ PrefixOfSelected(Done \cup Planning)
          /\ options.stop => PrefixOfSelected(Done)
          /\ \E off \in [Providers -> Nat] : Arrived(off)

LEMMA PositionOf ==
    ASSUME NEW i \in 1..Len(Selected)
    PROVE  Selected[i] \in Providers /\ Position(Selected[i]) = i
BY DEF Position, Providers

LEMMA ProviderSelected ==
    ASSUME NEW p \in Providers
    PROVE  Position(p) \in 1..Len(Selected) /\ Selected[Position(p)] = p
BY DEF Position, Providers

\* A prefix of a sequence ends somewhere.
LEMMA PrefixEnds ==
    ASSUME NEW S, PrefixOfSelected(S)
    PROVE  \E n \in 0..Len(Selected) :
              \A i \in 1..Len(Selected) : Selected[i] \in S <=> i <= n
<1>0. Len(Selected) \in Nat
  OBVIOUS
<1> DEFINE T == {i \in 1..Len(Selected) : Selected[i] \notin S}
           R == OpToRel(<, Nat)
<1>1. CASE T = {}
  <2>1. /\ Len(Selected) \in 0..Len(Selected)
        /\ \A i \in 1..Len(Selected) : Selected[i] \in S /\ i <= Len(Selected)
    BY <1>0, <1>1
  <2> QED
    BY <2>1
<1>2. CASE T # {}
  <2>1. PICK n \in T : \A j \in T : ~(<<j, n>> \in R)
    <3>1. T \subseteq Nat
      OBVIOUS
    <3> QED
      BY <1>2, <3>1, WFMin, NatLessThanWellFounded
  <2>2. \A j \in 1..Len(Selected) : j < n => Selected[j] \in S
    <3>1. T \subseteq Nat
      OBVIOUS
    <3>2. \A j \in T : ~(j < n)
      BY <2>1, <3>1 DEF OpToRel
    <3> QED
      BY <3>2
  <2> HIDE DEF R
  <2>3. \A j \in 1..Len(Selected) : Selected[j] \in S => j < n
    <3> SUFFICES ASSUME NEW j \in 1..Len(Selected), Selected[j] \in S, ~(j < n)
                 PROVE  FALSE
      OBVIOUS
    <3>1. n \in 1..Len(Selected) /\ Selected[n] \notin S
      BY <2>1
    <3>2. j # n
      BY <3>1
    <3>3. n \in 1..(j - 1)
      BY <3>1, <3>2
    <3> QED
      BY <3>1, <3>3 DEF PrefixOfSelected
  <2>4. n - 1 \in 0..Len(Selected)
        /\ \A i \in 1..Len(Selected) : Selected[i] \in S <=> i <= n - 1
    BY <2>1, <2>2, <2>3
  <2> QED
    BY <2>4
<1> QED
  BY <1>1, <1>2

LEMMA ArrivalCheckout ==
    ASSUME BatchInv, NEW w, NEW stop, Checkout(w, stop)
    PROVE  ArrivalInv'
<1>1. Done' = {} /\ Planning' = {} /\ rows' = <<>>
  BY DEF Checkout, BatchInv, Done, Planning
<1>2. options'.stop => options'.workers = 1
  BY DEF Checkout
<1>3. Arrived([q \in Providers |-> 0])'
  BY <1>1 DEF Arrived
<1>4. [q \in Providers |-> 0] \in [Providers -> Nat]
  OBVIOUS
<1>5. PrefixOfSelected(Done \cup Planning)' /\ PrefixOfSelected(Done)'
  BY <1>1 DEF PrefixOfSelected
<1> QED
  BY <1>2, <1>3, <1>4, <1>5 DEF ArrivalInv

LEMMA ArrivalStart ==
    ASSUME BatchInv, ArrivalInv, NEW i \in 1..Len(Selected), StartProvider(i)
    PROVE  ArrivalInv'
<1> DEFINE p == Selected[i]
<1>1. /\ p \in Providers /\ progress[p] = "waiting" /\ pc = "planning"
      /\ progress' = [progress EXCEPT ![p] = "planning"]
      /\ progress \in [Providers -> {"waiting", "planning", "done"}]
  BY PositionOf DEF StartProvider, BatchInv, TypeOK
<1>2. Done' = Done /\ Planning' = Planning \cup {p}
  BY <1>1 DEF Done, Planning
<1>3. ASSUME NEW k \in 1..Len(Selected), NEW j \in 1..(k - 1),
             Selected[k] \in Done \cup Planning \cup {p}
      PROVE  Selected[j] \in Done \cup Planning \cup {p}
  <2>1. CASE Selected[k] \in Done \cup Planning
    BY <1>1, <1>3, <2>1 DEF ArrivalInv, PrefixOfSelected
  <2>2. CASE Selected[k] = p
    <3>1. k = i
      BY <2>2, BatchAssumption
    <3>2. j \in 1..Len(Selected) /\ progress[Selected[j]] # "waiting"
      BY <1>3, <3>1 DEF StartProvider
    <3> QED
      BY <1>1, <3>2, PositionOf DEF Done, Planning
  <2> QED
    BY <1>3, <2>1, <2>2
<1>4. PrefixOfSelected(Done \cup Planning)'
  BY <1>2, <1>3 DEF PrefixOfSelected
<1>5. \A off : Arrived(off)' <=> Arrived(off)
  BY <1>2 DEF StartProvider, Arrived
<1>6. options' = options /\ pc' = pc
  BY DEF StartProvider
<1>7. PrefixOfSelected(Done)' <=> PrefixOfSelected(Done)
  BY <1>2 DEF PrefixOfSelected
<1> QED
  BY <1>1, <1>4, <1>5, <1>6, <1>7 DEF ArrivalInv

\* The portfolio of one more provider arrives at the end of the rows.
LEMMA PortfolioArrives ==
    ASSUME BatchInv, NEW p \in Providers, NEW s \in Portfolios(p), FinishProvider(p, s),
           NEW off \in [Providers -> Nat], Arrived(off)
    PROVE  \E to \in [Providers -> Nat] : Arrived(to)'
<1> DEFINE r == RowsOf(p, s)
<1>0. PICK to \in [Providers -> Nat] : to = [off EXCEPT ![p] = Len(rows)]
  <2>1. Len(rows) \in Nat
    BY DEF BatchInv, TypeOK
  <2> QED
    BY <2>1
<1>1. /\ progress[p] = "planning" /\ progress' = [progress EXCEPT ![p] = "done"]
      /\ rows' = rows \o r /\ planned' = [planned EXCEPT ![p] = r]
      /\ progress \in [Providers -> {"waiting", "planning", "done"}]
      /\ planned \in [Providers -> Seq(PageRows)] /\ rows \in Seq(PageRows)
  BY DEF FinishProvider, BatchInv, TypeOK
<1>2. Done' = Done \cup {p} /\ p \notin Done
  BY <1>1 DEF Done
<1>3. r \in Seq(PageRows) /\ \A k \in 1..Len(r) : r[k].provider = p
  <2>1. r \in Seq(PageRows)
    BY RowsOfPortfolio
  <2>2. CASE s = <<>>
    <3>1. r = <<[provider |-> p, mutation |-> NoMutation]>>
      BY <2>2 DEF RowsOf
    <3> HIDE DEF r
    <3>2. Len(r) = 1 /\ r[1].provider = p
      BY <3>1
    <3>3. \A k \in 1..Len(r) : k = 1
      BY <3>2
    <3> QED
      BY <2>1, <3>2, <3>3
  <2>3. CASE s # <<>>
    <3>1. \E n \in 0..Portfolio : DOMAIN s = 1..n
      BY DEF Portfolios, BoundedSeq, SeqOf
    <3>2. r = [i \in 1..Len(s) |-> [provider |-> p, mutation |-> s[i]]]
      BY <2>3 DEF RowsOf
    <3>3. DOMAIN r = 1..Len(r)
      BY <2>1
    <3> HIDE DEF r
    <3>4. \A k \in DOMAIN r : r[k].provider = p
      BY <3>2
    <3> QED
      BY <2>1, <3>3, <3>4
  <2> QED
    BY <2>1, <2>2, <2>3
<1> HIDE DEF r
<1>4. /\ Len(rows') = Len(rows) + Len(r) /\ Len(rows) \in Nat /\ Len(r) \in Nat
      /\ \A i \in 1..Len(rows) : rows'[i] = rows[i]
      /\ \A k \in 1..Len(r) : rows'[Len(rows) + k] = r[k]
  BY <1>1, <1>3
<1>5. /\ to[p] = Len(rows) /\ planned'[p] = r
      /\ \A q \in Done : q \in Providers /\ to[q] = off[q] /\ planned'[q] = planned[q]
  BY <1>0, <1>1, <1>2 DEF Done
<1>6. ASSUME NEW q \in Done'
      PROVE  /\ to[q] + Len(planned'[q]) <= Len(rows')
             /\ \A k \in 1..Len(planned'[q]) :
                   rows'[to[q] + k] = planned'[q][k] /\ planned'[q][k].provider = q
  <2>1. CASE q = p
    <3>1. to[q] = Len(rows) /\ planned'[q] = r
      BY <1>5, <2>1
    <3>2. \A k \in 1..Len(r) : rows'[to[q] + k] = r[k] /\ r[k].provider = q
      BY <1>3, <1>4, <2>1, <3>1
    <3> QED
      BY <1>4, <3>1, <3>2
  <2>2. CASE q \in Done
    <3>1. /\ off[q] \in Nat /\ Len(planned[q]) \in Nat
          /\ off[q] + Len(planned[q]) <= Len(rows)
          /\ \A k \in 1..Len(planned[q]) :
                rows[off[q] + k] = planned[q][k] /\ planned[q][k].provider = q
      BY <1>1, <1>5, <2>2 DEF Arrived
    <3>2. \A k \in 1..Len(planned[q]) : off[q] + k \in 1..Len(rows)
      BY <1>4, <3>1
    <3>3. \A k \in 1..Len(planned[q]) : rows'[off[q] + k] = planned[q][k]
      BY <1>4, <3>1, <3>2
    <3>4. to[q] = off[q] /\ planned'[q] = planned[q]
      BY <1>5, <2>2
    <3>5. off[q] + Len(planned[q]) <= Len(rows')
      BY <1>4, <3>1
    <3> QED
      BY <3>1, <3>3, <3>4, <3>5
  <2> QED
    BY <1>2, <2>1, <2>2
<1>7. ASSUME NEW i \in 1..Len(rows')
      PROVE  /\ rows'[i].provider \in Done'
             /\ i - to[rows'[i].provider] \in 1..Len(planned'[rows'[i].provider])
  <2>1. CASE i \in 1..Len(rows)
    <3>1. rows'[i] = rows[i]
      BY <1>4, <2>1
    <3>2. /\ rows[i].provider \in Done
          /\ i - off[rows[i].provider] \in 1..Len(planned[rows[i].provider])
      BY <2>1 DEF Arrived
    <3> QED
      BY <1>2, <1>5, <3>1, <3>2
  <2>2. CASE i \notin 1..Len(rows)
    <3>1. i - Len(rows) \in 1..Len(r)
      BY <1>4, <2>2
    <3>2. rows'[i] = r[i - Len(rows)]
      <4>1. PICK k \in 1..Len(r) : k = i - Len(rows)
        BY <3>1
      <4>2. Len(rows) + k = i
        BY <1>4, <4>1
      <4> QED
        BY <1>4, <4>1, <4>2
    <3>3. rows'[i].provider = p
      BY <1>3, <3>1, <3>2
    <3> QED
      BY <1>2, <1>5, <3>1, <3>3
  <2> QED
    BY <2>1, <2>2
<1> QED
  BY <1>6, <1>7 DEF Arrived

LEMMA ArrivalFinish ==
    ASSUME BatchInv, ArrivalInv, NEW p \in Providers, NEW s \in Portfolios(p),
           FinishProvider(p, s)
    PROVE  ArrivalInv'
<1>1. /\ pc = "planning" /\ progress[p] = "planning" /\ pc' = pc /\ options' = options
      /\ progress' = [progress EXCEPT ![p] = "done"]
      /\ progress \in [Providers -> {"waiting", "planning", "done"}]
  BY DEF FinishProvider, BatchInv, TypeOK
<1>2. Done' = Done \cup {p} /\ Planning' = Planning \ {p} /\ p \in Planning
  BY <1>1 DEF Done, Planning
<1>3. (Done \cup Planning)' = Done \cup Planning
  BY <1>2
<1>4. PrefixOfSelected(Done \cup Planning)'
  BY <1>1, <1>3 DEF ArrivalInv, PrefixOfSelected
<1>5. ASSUME options.stop PROVE PrefixOfSelected(Done)'
  <2>1. IsFiniteSet(Planning) /\ Cardinality(Planning) <= 1
    <3>1. IsFiniteSet(Planning)
      BY ProvidersFinite, FS_Subset DEF Planning
    <3> QED
      BY <3>1, <1>5 DEF ArrivalInv, BatchInv, TypeOK
  <2>2. Planning = {p}
    <3>1. {p} \in SUBSET Planning /\ Cardinality({p}) = 1 /\ Cardinality(Planning) \in Nat
      BY <1>2, <2>1, FS_Singleton, FS_CardinalityType
    <3>2. {p} # Planning => Cardinality({p}) < Cardinality(Planning)
      BY <2>1, <3>1, FS_Subset
    <3> QED
      BY <2>1, <3>1, <3>2
  <2>3. Done' = Done \cup Planning
    BY <1>2, <2>2
  <2> QED
    BY <1>1, <2>3 DEF ArrivalInv, PrefixOfSelected
<1>6. \E off \in [Providers -> Nat] : Arrived(off)'
  <2>1. PICK off \in [Providers -> Nat] : Arrived(off)
    BY <1>1 DEF ArrivalInv
  <2> QED
    BY <2>1, PortfolioArrives
<1> QED
  BY <1>1, <1>4, <1>5, <1>6 DEF ArrivalInv

\* The order of the sort: by position, and within a provider by arrival.
Precedes(r, t) ==
    \/ Position(rows[r].provider) < Position(rows[t].provider)
    \/ Position(rows[r].provider) = Position(rows[t].provider) /\ r < t
RowOrder == {x \in (1..Len(rows)) \X (1..Len(rows)) : Precedes(x[1], x[2])}

Places(to, F) ==
    /\ to \in [1..Len(F) -> 1..Len(rows)]
    /\ \A m \in 1..Len(F) : rows[to[m]] = F[m]
    /\ \A r \in 1..Len(rows) : \E m \in 1..Len(F) : to[m] = r
    /\ \A m, k \in 1..Len(F) : m < k => <<to[m], to[k]>> \in RowOrder

DoneUpTo(n) == \A i \in 1..Len(Selected) : Selected[i] \in Done <=> i <= n
PortfoliosOf(parts, n) == \A i \in 1..n : parts[i] = planned[Selected[i]]

\* The portfolios of a prefix of the providers, one after another, are the
\* rows of the batch in that order: to[m] is where the m-th one stood.
LEMMA PortfoliosInOrder ==
    ASSUME BatchInv, NEW off \in [Providers -> Nat], Arrived(off),
           NEW n \in Nat, n <= Len(Selected), DoneUpTo(n),
           NEW parts \in [1..n -> Seq(PageRows)], PortfoliosOf(parts, n),
           NEW F \in Seq(PageRows), NEW b, Flattened(F, parts, n, b)
    PROVE  \E to : Places(to, F)
<1>0. /\ Len(rows) \in Nat /\ Len(F) \in Nat /\ n \in Nat /\ Len(Selected) \in Nat
      /\ \A i \in 1..n : i \in 1..Len(Selected)
  BY BatchAssumption DEF BatchInv, TypeOK
<1>1. ASSUME NEW i \in 1..n
      PROVE  /\ Selected[i] \in Providers /\ Selected[i] \in Done
             /\ Position(Selected[i]) = i
             /\ Len(parts[i]) \in Nat /\ b[i] \in Nat /\ off[Selected[i]] \in Nat
             /\ off[Selected[i]] + Len(parts[i]) <= Len(rows)
             /\ \A k \in 1..Len(parts[i]) :
                   /\ rows[off[Selected[i]] + k] = parts[i][k]
                   /\ parts[i][k].provider = Selected[i]
  <2>1. Selected[i] \in Providers /\ Position(Selected[i]) = i /\ Selected[i] \in Done
    BY <1>0, PositionOf DEF DoneUpTo
  <2>2. parts[i] = planned[Selected[i]] /\ Len(parts[i]) \in Nat
    BY DEF PortfoliosOf
  <2>3. b[i] \in Nat /\ off[Selected[i]] \in Nat
    BY <2>1 DEF Flattened
  <2> QED
    <3>1. off[Selected[i]] + Len(planned[Selected[i]]) <= Len(rows)
      BY <2>1 DEF Arrived
    <3>2. \A k \in 1..Len(planned[Selected[i]]) :
             /\ rows[off[Selected[i]] + k] = planned[Selected[i]][k]
             /\ planned[Selected[i]][k].provider = Selected[i]
      BY <2>1 DEF Arrived
    <3> QED
      BY <2>1, <2>2, <2>3, <3>1, <3>2
<1>2. PICK part \in [1..Len(F) -> 1..n] :
          \A m \in 1..Len(F) : m - b[part[m]] \in 1..Len(parts[part[m]])
  <2> DEFINE f == [m \in 1..Len(F) |-> CHOOSE i \in 1..n : m - b[i] \in 1..Len(parts[i])]
  <2>1. \A m \in 1..Len(F) : f[m] \in 1..n /\ m - b[f[m]] \in 1..Len(parts[f[m]])
    BY DEF Flattened
  <2> QED
    BY <2>1
<1> DEFINE at(m) == off[Selected[part[m]]] + (m - b[part[m]])
           to == [m \in 1..Len(F) |-> at(m)]
<1>3. ASSUME NEW m \in 1..Len(F)
      PROVE  /\ at(m) \in 1..Len(rows)
             /\ rows[at(m)] = F[m]
             /\ rows[at(m)].provider = Selected[part[m]]
             /\ Position(rows[at(m)].provider) = part[m]
  <2>1. PICK i \in 1..n : i = part[m]
    OBVIOUS
  <2>2. PICK k \in 1..Len(parts[i]) : k = m - b[i]
    BY <1>2, <2>1
  <2>3. k \in Nat /\ k >= 1 /\ k <= Len(parts[i]) /\ b[i] \in Nat /\ off[Selected[i]] \in Nat
    BY <1>1, <2>2
  <2>4. at(m) = off[Selected[i]] + k
    BY <2>1, <2>2
  <2>5. at(m) \in 1..Len(rows)
    BY <1>0, <1>1, <2>3, <2>4
  <2>6. m = b[i] + k
    BY <1>0, <2>2, <2>3
  <2>7. F[m] = parts[i][k]
    BY <2>6 DEF Flattened
  <2> QED
    BY <1>0, <1>1, <2>1, <2>4, <2>5, <2>7
<1>4. ASSUME NEW m \in 1..Len(F), NEW i \in 1..n, m - b[i] \in 1..Len(parts[i])
      PROVE  part[m] = i
  <2>1. PICK j \in 1..n : j = part[m] /\ m - b[j] \in 1..Len(parts[j])
    BY <1>2
  <2>2. /\ b[i] \in Nat /\ b[j] \in Nat /\ Len(parts[i]) \in Nat /\ Len(parts[j]) \in Nat
    BY <1>1
  <2>3. /\ i < j => b[i] + Len(parts[i]) <= b[j]
        /\ j < i => b[j] + Len(parts[j]) <= b[i]
    BY DEF Flattened
  <2>4. /\ m - b[i] >= 1 /\ m - b[i] <= Len(parts[i])
        /\ m - b[j] >= 1 /\ m - b[j] <= Len(parts[j])
    BY <1>4, <2>1, <2>2
  <2>5. m \in Int /\ i \in Int /\ j \in Int
    OBVIOUS
  <2>6. \A x, l, y \in Int : ~(x + l <= y /\ m - x <= l /\ m - y >= 1)
    BY <2>5
  <2>7. ~(i < j)
    BY <2>2, <2>3, <2>4, <2>6
  <2>8. ~(j < i)
    BY <2>2, <2>3, <2>4, <2>6
  <2> QED
    BY <2>1, <2>5, <2>7, <2>8
<1>5. ASSUME NEW m \in 1..Len(F), NEW k \in 1..Len(F), m < k
      PROVE  Precedes(at(m), at(k))
  <2>1. PICK i \in 1..n : i = part[m] /\ m - b[i] \in 1..Len(parts[i])
    BY <1>2
  <2>2. PICK j \in 1..n : j = part[k] /\ k - b[j] \in 1..Len(parts[j])
    BY <1>2
  <2>3. /\ b[i] \in Nat /\ b[j] \in Nat /\ Len(parts[i]) \in Nat /\ Len(parts[j]) \in Nat
        /\ off[Selected[i]] \in Nat
    BY <1>1
  <2>4. ~(j < i)
    <3>1. j < i => b[j] + Len(parts[j]) <= b[i]
      BY DEF Flattened
    <3>2. m - b[i] >= 1 /\ k - b[j] <= Len(parts[j]) /\ m \in Int /\ k \in Int
      BY <2>1, <2>2, <2>3
    <3> QED
      BY <1>5, <2>3, <3>1, <3>2
  <2>5. Position(rows[at(m)].provider) = i /\ Position(rows[at(k)].provider) = j
    BY <1>3, <2>1, <2>2
  <2>6. i = j => at(m) < at(k)
    <3>1. at(m) = off[Selected[i]] + (m - b[i]) /\ at(k) = off[Selected[j]] + (k - b[j])
      BY <2>1, <2>2
    <3>2. m \in Int /\ k \in Int
      OBVIOUS
    <3> HIDE DEF at
    <3> QED
      BY <1>5, <2>3, <3>1, <3>2
  <2>7. i \in Int /\ j \in Int
    OBVIOUS
  <2> HIDE DEF at
  <2> QED
    BY <2>4, <2>5, <2>6, <2>7 DEF Precedes
<1>6. ASSUME NEW r \in 1..Len(rows)
      PROVE  \E m \in 1..Len(F) : at(m) = r
  <2>1. PICK p \in Done : p = rows[r].provider /\ r - off[p] \in 1..Len(planned[p])
    BY DEF Arrived
  <2>2. PICK i \in 1..n : Selected[i] = p
    <3>1. p \in Providers
      BY DEF Done
    <3>2. Position(p) \in 1..Len(Selected) /\ Selected[Position(p)] = p
      BY <3>1, ProviderSelected
    <3>3. Position(p) <= n
      BY <3>2 DEF DoneUpTo
    <3> QED
      BY <1>0, <3>2, <3>3
  <2>3. PICK k \in 1..Len(parts[i]) : k = r - off[p]
    BY <2>1, <2>2 DEF PortfoliosOf
  <2>4. /\ k \in Nat /\ k >= 1 /\ k <= Len(parts[i]) /\ b[i] \in Nat
        /\ off[p] \in Nat /\ Len(parts[i]) \in Nat
    BY <1>1, <2>2, <2>3
  <2>0. b[i] + Len(parts[i]) <= Len(F)
    BY DEF Flattened
  <2>a. b[i] + k \in 1..Len(F)
    BY <1>0, <2>4, <2>0
  <2>5. PICK m \in 1..Len(F) : m = b[i] + k
    BY <2>a
  <2>6. m - b[i] = k
    BY <1>0, <2>4, <2>5
  <2>7. part[m] = i
    BY <1>4, <2>6
  <2>8. at(m) = off[p] + k
    BY <2>2, <2>6, <2>7
  <2>9. off[p] + k = r
    BY <1>0, <2>3, <2>4
  <2> QED
    BY <2>8, <2>9
<1> HIDE DEF at
<1>7. to \in [1..Len(F) -> 1..Len(rows)] /\ \A m \in 1..Len(F) : to[m] = at(m)
  BY <1>3
<1> HIDE DEF to
<1>8. \A m, k \in 1..Len(F) : m < k => <<to[m], to[k]>> \in RowOrder
  <2> SUFFICES ASSUME NEW m \in 1..Len(F), NEW k \in 1..Len(F), m < k
               PROVE  <<to[m], to[k]>> \in RowOrder
    OBVIOUS
  <2>1. to[m] \in 1..Len(rows) /\ to[k] \in 1..Len(rows)
    BY <1>7
  <2>2. Precedes(to[m], to[k])
    BY <1>5, <1>7
  <2> QED
    BY <2>1, <2>2 DEF RowOrder
<1>9. \A m \in 1..Len(F) : rows[to[m]] = F[m]
  BY <1>3, <1>7
<1>10. \A r \in 1..Len(rows) : \E m \in 1..Len(F) : to[m] = r
  BY <1>6, <1>7
<1> QED
  BY <1>7, <1>8, <1>9, <1>10 DEF Places

LEMMA WriteIsSequential ==
    ASSUME BatchInv, ArrivalInv, Write
    PROVE  WrittenIsSequential'
<1> DEFINE N == Len(rows)
<1>1. PICK off \in [Providers -> Nat] : Arrived(off)
  BY DEF ArrivalInv, Write
<1>2. PICK n \in 0..Len(Selected) :
          /\ DoneUpTo(n)
          /\ n < Len(Selected) => options.stop
  <2>1. CASE Stopped
    <3>1. options.stop /\ PrefixOfSelected(Done)
      BY <2>1 DEF ArrivalInv, Write, Stopped
    <3> QED
      BY <3>1, PrefixEnds DEF DoneUpTo
  <2>2. CASE \A p \in Providers : progress[p] = "done"
    <3>1. /\ \A i \in 1..Len(Selected) : Selected[i] \in Done /\ i <= Len(Selected)
          /\ Len(Selected) \in 0..Len(Selected)
      BY <2>2, PositionOf DEF Done
    <3> QED
      BY <3>1 DEF DoneUpTo
  <2> QED
    BY <2>1, <2>2 DEF Write
<1> DEFINE parts == [i \in 1..n |-> planned[Selected[i]]]
<1>3. n \in Nat /\ parts \in [1..n -> Seq(PageRows)]
  <2>1. \A i \in 1..n : i \in 1..Len(Selected)
    OBVIOUS
  <2> QED
    BY <2>1, PositionOf DEF BatchInv, TypeOK
<1>4. PortfoliosOf(parts, n)
  BY DEF PortfoliosOf
<1> HIDE DEF parts
<1>5. PICK F \in Seq(PageRows) : F = FlattenSeq(parts) /\ \E b : Flattened(F, parts, n, b)
  BY <1>3, FlattenSeqFacts
<1>p. PICK to : Places(to, F)
  <2>1. PICK b : Flattened(F, parts, n, b)
    BY <1>5
  <2>2. n \in Nat /\ n <= Len(Selected) /\ DoneUpTo(n)
    BY <1>2
  <2> HIDE DEF N
  <2> QED
    BY <1>1, <1>3, <1>4, <2>1, <2>2, PortfoliosInOrder
<1>6. /\ to \in [1..Len(F) -> 1..N]
      /\ \A m \in 1..Len(F) : rows[to[m]] = F[m]
      /\ \A r \in 1..N : \E m \in 1..Len(F) : to[m] = r
      /\ \A m, k \in 1..Len(F) : m < k => <<to[m], to[k]>> \in RowOrder
  BY <1>p DEF Places
<1>7. N \in Nat /\ Len(F) \in Nat /\ rows \in Seq(PageRows)
  BY DEF BatchInv, TypeOK
<1>8. ASSUME NEW r \in 1..N, NEW t \in 1..N
      PROVE  ~(<<r, t>> \in RowOrder /\ <<t, r>> \in RowOrder)
  <2>1. /\ Position(rows[r].provider) \in Int /\ Position(rows[t].provider) \in Int
    BY <1>1, ProviderSelected DEF Arrived, Done
  <2> QED
    BY <2>1 DEF RowOrder, Precedes
<1>9. Len(F) = N
  <2>1. \A m, k \in 1..Len(F) : to[m] = to[k] => m = k
    <3> SUFFICES ASSUME NEW m \in 1..Len(F), NEW k \in 1..Len(F), to[m] = to[k], m # k
                 PROVE  FALSE
      OBVIOUS
    <3>1. m < k \/ k < m
      OBVIOUS
    <3>2. <<to[m], to[k]>> \in RowOrder \/ <<to[k], to[m]>> \in RowOrder
      BY <1>6, <3>1
    <3>3. to[m] \in 1..N /\ to[k] \in 1..N
      BY <1>6
    <3> HIDE DEF N
    <3> QED
      BY <1>8, <3>2, <3>3
  <2>2. to \in Bijection(1..Len(F), 1..N)
    BY <1>6, <2>1 DEF Bijection, Injection, Surjection, IsInjective
  <2>3. IsFiniteSet(1..Len(F)) /\ Cardinality(1..Len(F)) = Len(F) /\ Cardinality(1..N) = N
    <3>1. \A m \in Nat : IsFiniteSet(1..m) /\ Cardinality(1..m) = m
      <4> SUFFICES ASSUME NEW m \in Nat PROVE IsFiniteSet(1..m) /\ Cardinality(1..m) = m
        OBVIOUS
      <4>1. IsFiniteSet(1..m) /\ Cardinality(1..m) = IF 1 > m THEN 0 ELSE m - 1 + 1
        BY FS_Interval
      <4> QED
        BY <4>1
    <3> QED
      BY <1>7, <3>1
  <2>4. IsFiniteSet(1..N) /\ Cardinality(1..Len(F)) = Cardinality(1..N)
    BY <2>2, <2>3, FS_Bijection DEF ExistsBijection
  <2> QED
    BY <2>3, <2>4
<1>10. PICK from \in Bijection(1..N, 1..N) :
          InOrder(from) /\ rows' = [i \in 1..N |-> rows[from[i]]]
  BY DEF Write
<1>11. /\ from \in [1..N -> 1..N]
       /\ \A r \in 1..N : \E i \in 1..N : from[i] = r
  BY <1>10 DEF Bijection, Injection, Surjection
<1>12. \A i, j \in 1..N : i < j => <<from[i], from[j]>> \in RowOrder
  BY <1>10, <1>11 DEF InOrder, RowOrder, Precedes
<1>13. from = to
  <2> HIDE DEF N
  <2>1. Sorts(to, RowOrder, N)
    BY <1>6, <1>9 DEF Sorts
  <2>2. Sorts(from, RowOrder, N)
    BY <1>11, <1>12 DEF Sorts
  <2>3. Asymmetric(RowOrder, N)
    BY <1>8 DEF Asymmetric
  <2> QED
    BY <1>7, <2>1, <2>2, <2>3, SortUnique
<1>14. rows' = F
  <2>1. rows' = [i \in 1..N |-> F[i]]
    BY <1>6, <1>9, <1>10, <1>13
  <2>2. F = [i \in 1..Len(F) |-> F[i]]
    OBVIOUS
  <2> QED
    BY <1>9, <2>1, <2>2
<1>15. planned' = planned /\ options' = options
  BY DEF Write
<1>16. rows' = FlattenSeq([i \in 1..n |-> planned'[Selected[i]]])
  BY <1>5, <1>14, <1>15 DEF parts
<1> QED
  BY <1>2, <1>15, <1>16 DEF WrittenIsSequential

\* Whatever order the workers of a batch end in, its rows are written as a
\* sequential batch writes them (plan_batch_from_checkout.py): the portfolios
\* of all providers, or of a prefix when the batch stopped early.
THEOREM RowsAreSequential == Spec => []WrittenIsSequential
<1>1. Init => ArrivalInv /\ WrittenIsSequential
  BY DEF Init, ArrivalInv, WrittenIsSequential
<1>2. BatchInv /\ ArrivalInv /\ WrittenIsSequential /\ [Next]_vars
         => ArrivalInv' /\ WrittenIsSequential'
  <2> SUFFICES ASSUME BatchInv, ArrivalInv, WrittenIsSequential, [Next]_vars
               PROVE  ArrivalInv' /\ WrittenIsSequential'
    OBVIOUS
  <2>1. CASE \E w \in WorkerCounts, stop \in BOOLEAN : Checkout(w, stop)
    <3>1. pc' = "planning"
      BY <2>1 DEF Checkout
    <3> QED
      BY <2>1, <3>1, ArrivalCheckout DEF WrittenIsSequential
  <2>2. CASE \E i \in 1..Len(Selected) : StartProvider(i)
    <3>1. pc' = "planning"
      BY <2>2 DEF StartProvider
    <3> QED
      BY <2>2, <3>1, ArrivalStart DEF WrittenIsSequential
  <2>3. CASE \E p \in Providers : \E s \in Portfolios(p) : FinishProvider(p, s)
    <3>1. pc' = "planning"
      BY <2>3 DEF FinishProvider
    <3> QED
      BY <2>3, <3>1, ArrivalFinish DEF WrittenIsSequential
  <2>4. CASE EndBatch
    BY <2>4 DEF EndBatch, ArrivalInv, WrittenIsSequential
  <2>5. CASE Write
    <3>1. ArrivalInv'
      BY <2>5 DEF Write, ArrivalInv
    <3> QED
      BY <2>5, <3>1, WriteIsSequential
  <2>6. CASE UNCHANGED <<options, pc, progress, rows, planned>>
    <3>1. Done' = Done /\ Planning' = Planning
      BY <2>6 DEF Done, Planning
    <3>2. \A off : Arrived(off)' <=> Arrived(off)
      BY <2>6, <3>1 DEF Arrived
    <3>3. /\ PrefixOfSelected(Done)' <=> PrefixOfSelected(Done)
          /\ PrefixOfSelected(Done \cup Planning)' <=> PrefixOfSelected(Done \cup Planning)
      BY <3>1 DEF PrefixOfSelected
    <3>4. ArrivalInv'
      BY <2>6, <3>2, <3>3 DEF ArrivalInv
    <3> QED
      BY <2>6, <3>4 DEF WrittenIsSequential
  <2> QED
    BY <2>1, <2>2, <2>3, <2>4, <2>5, <2>6
       DEF Next, vars, Raise, Publish, SanitizeRaises, Execute, Drift
<1> QED
  BY <1>1, <1>2, BatchInvInit, BatchInvStep, PTL DEF Spec
=============================================================================
