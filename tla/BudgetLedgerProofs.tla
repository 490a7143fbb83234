------------------------- MODULE BudgetLedgerProofs -------------------------
(***************************************************************************)
(* The ceiling of the budget ledger, and the ledger as an implementation   *)
(* of AtomicBudget, for every set of workers, every price and every        *)
(* interleaving and crash.  The inductive invariant adds to TypeOK what    *)
(* flock gives: the worker inside a transaction holds the lock, and what   *)
(* it read is still what the file holds.                                   *)
(***************************************************************************)
EXTENDS BudgetLedger, FiniteSetTheorems, WellFoundedInduction, TLAPS

-----------------------------------------------------------------------------
(* Sums over finite sets, as FiniteSetsExt!MapThenSumSet computes them: a    *)
(* fold in the order of CHOOSE.  The fold exists (its recursive equation has *)
(* a solution), and its value is independent of the order and of the set it  *)
(* is computed within: it changes by f[x] when x enters or leaves the set.   *)
(* Induction is on the cardinality.                                          *)

Sum(f, S) == MapThenSumSet(LAMBDA x : f[x], S)

Pick(s) == CHOOSE x \in s : TRUE

Folded(g, f, s) == IF s = {} THEN 0 ELSE f[Pick(s)] + g[s \ {Pick(s)}]

\* g is the function MapThenSumSet builds for the set S.
IsFold(g, f, S) == g = [s \in SUBSET S |-> Folded(g, f, s)]

-----------------------------------------------------------------------------

\* Induction, for a set of natural numbers closed under successors.
LEMMA SetInduction ==
    ASSUME NEW P \in SUBSET Nat, 0 \in P, \A n \in P : n + 1 \in P
    PROVE  P = Nat
<1> SUFFICES ASSUME Nat \ P # {} PROVE FALSE
  OBVIOUS
<1> DEFINE R == OpToRel(<, Nat)
<1>1. PICK n \in Nat \ P : \A y \in Nat \ P : ~(<<y, n>> \in R)
  BY WFMin, NatLessThanWellFounded
<1>2. \A y \in Nat \ P : ~(y < n)
  BY <1>1 DEF OpToRel
<1> HIDE DEF R
<1>3. n \in Nat /\ n \notin P /\ n # 0 /\ n - 1 \in Nat
  <2>1. n \in Nat /\ n \notin P
    BY <1>1
  <2>2. n # 0
    BY <2>1
  <2> QED
    BY <2>1, <2>2
<1>4. n - 1 \in P
  BY <1>2, <1>3
<1>5. (n - 1) + 1 \in P
  BY <1>4
<1>6. (n - 1) + 1 = n
  BY <1>3
<1> QED
  BY <1>3, <1>5, <1>6

\* What the element a fold starts with leaves is smaller.
LEMMA PickRemoves ==
    ASSUME NEW s, IsFiniteSet(s), s # {}
    PROVE  /\ Pick(s) \in s
           /\ IsFiniteSet(s \ {Pick(s)})
           /\ Cardinality(s) \in Nat
           /\ Cardinality(s \ {Pick(s)}) = Cardinality(s) - 1
<1>1. Pick(s) \in s
  BY DEF Pick
<1> QED
  BY <1>1, FS_RemoveElement, FS_CardinalityType

\* A function that satisfies the equation of the fold on the sets of at most
\* n elements can be corrected on those of n + 1.
LEMMA FoldExists ==
    ASSUME NEW f, NEW S, IsFiniteSet(S)
    PROVE  \E g : IsFold(g, f, S)
<1> DEFINE Upto(g, n) ==
             /\ g = [s \in SUBSET S |-> g[s]]
             /\ \A s \in SUBSET S : Cardinality(s) <= n => g[s] = Folded(g, f, s)
           P == {n \in Nat : \E g : Upto(g, n)}
<1>0. \A s \in SUBSET S : IsFiniteSet(s) /\ Cardinality(s) \in Nat
  BY FS_Subset, FS_CardinalityType
<1>1. 0 \in P
  <2> DEFINE g == [s \in SUBSET S |-> 0]
  <2>1. ASSUME NEW s \in SUBSET S, Cardinality(s) <= 0 PROVE g[s] = Folded(g, f, s)
    <3>1. s = {}
      BY <1>0, <2>1, FS_EmptySet
    <3> QED
      BY <3>1 DEF Folded
  <2>2. Upto(g, 0)
    BY <2>1
  <2> HIDE DEF Upto, g
  <2> QED
    BY <2>2
<1>2. ASSUME NEW n \in P PROVE n + 1 \in P
  <2>1. PICK g : Upto(g, n)
    OBVIOUS
  <2> DEFINE h == [s \in SUBSET S |-> IF Cardinality(s) <= n THEN g[s] ELSE Folded(g, f, s)]
  <2>2. ASSUME NEW s \in SUBSET S, Cardinality(s) <= n + 1 PROVE h[s] = Folded(h, f, s)
    <3>1. h[s] = Folded(g, f, s)
      BY <2>1
    <3>2. CASE s = {}
      BY <3>1, <3>2 DEF Folded
    <3>3. CASE s # {}
      <4>1. /\ s \ {Pick(s)} \in SUBSET S
            /\ Cardinality(s \ {Pick(s)}) <= n
        BY <1>0, <2>2, <3>3, PickRemoves
      <4>2. h[s \ {Pick(s)}] = g[s \ {Pick(s)}]
        BY <4>1
      <4> QED
        BY <3>1, <4>2 DEF Folded
    <3> QED
      BY <3>2, <3>3
  <2>3. Upto(h, n + 1)
    BY <2>2
  <2> HIDE DEF Upto, h
  <2> QED
    BY <2>3
<1>3. P = Nat
  <2> HIDE DEF P
  <2>1. P \in SUBSET Nat
    BY DEF P
  <2> QED
    BY <1>1, <1>2, <2>1, SetInduction
<1>4. Cardinality(S) \in Nat
  BY FS_CardinalityType
<1>5. PICK g : Upto(g, Cardinality(S))
  BY <1>3, <1>4
<1>6. \A s \in SUBSET S : Cardinality(s) <= Cardinality(S)
  BY FS_Subset
<1>7. IsFold(g, f, S)
  BY <1>5, <1>6 DEF IsFold
<1> QED
  BY <1>7

LEMMA SumIsFold ==
    ASSUME NEW f, NEW S, IsFiniteSet(S)
    PROVE  \E g : IsFold(g, f, S) /\ Sum(f, S) = g[S]
<1>1. Sum(f, S) = (CHOOSE g : IsFold(g, f, S))[S]
  BY DEF Sum, MapThenSumSet, MapThenFoldSet, IsFold, Folded, Pick
<1> QED
  BY <1>1, FoldExists

-----------------------------------------------------------------------------
\* Two folds agree on the sets they share, as far as their values do.
LEMMA FoldsAgree ==
    ASSUME NEW S, NEW T, NEW e, NEW f, NEW g, NEW h, IsFiniteSet(S),
           IsFold(g, e, S), IsFold(h, f, T),
           NEW s \in SUBSET S, s \in SUBSET T, \A x \in s : e[x] = f[x]
    PROVE  g[s] = h[s]
<1> DEFINE P == {n \in Nat : \A t \in SUBSET s : Cardinality(t) = n => g[t] = h[t]}
<1>0. \A t \in SUBSET s : IsFiniteSet(t) /\ Cardinality(t) \in Nat
  BY FS_Subset, FS_CardinalityType
<1>1. \A t \in SUBSET s : g[t] = Folded(g, e, t) /\ h[t] = Folded(h, f, t)
  BY DEF IsFold
<1>2. 0 \in P
  <2>1. ASSUME NEW t \in SUBSET s, Cardinality(t) = 0 PROVE g[t] = h[t]
    <3>1. t = {}
      BY <1>0, <2>1, FS_EmptySet
    <3> QED
      BY <1>1, <3>1 DEF Folded
  <2> QED
    BY <2>1
<1>3. ASSUME NEW n \in P PROVE n + 1 \in P
  <2>1. ASSUME NEW t \in SUBSET s, Cardinality(t) = n + 1 PROVE g[t] = h[t]
    <3>0. n \in Nat
      OBVIOUS
    <3>1. t # {}
      <4>1. Cardinality(t) # 0
        BY <2>1, <3>0
      <4> QED
        BY <4>1, FS_EmptySet
    <3>2. /\ Pick(t) \in t
          /\ t \ {Pick(t)} \in SUBSET s
          /\ Cardinality(t \ {Pick(t)}) = n
      BY <1>0, <2>1, <3>1, PickRemoves
    <3>3. g[t \ {Pick(t)}] = h[t \ {Pick(t)}] /\ e[Pick(t)] = f[Pick(t)]
      BY <3>2
    <3> QED
      BY <1>1, <3>1, <3>3 DEF Folded
  <2> QED
    BY <2>1
<1>4. P = Nat
  <2> HIDE DEF P
  <2>1. P \in SUBSET Nat
    BY DEF P
  <2> QED
    BY <1>2, <1>3, <2>1, SetInduction
<1>5. s \in SUBSET s /\ Cardinality(s) \in P
  BY <1>0, <1>4
<1> QED
  BY <1>5

\* The order of a fold does not matter: any element may be taken out first.
LEMMA FoldRemoves ==
    ASSUME NEW S, NEW f \in [S -> Nat], NEW g, IsFiniteSet(S), IsFold(g, f, S)
    PROVE  /\ g[S] \in Nat
           /\ \A x \in S : g[S] = f[x] + g[S \ {x}]
<1> DEFINE Removes(t) == g[t] \in Nat /\ \A x \in t : g[t] = f[x] + g[t \ {x}]
           P == {n \in Nat : \A t \in SUBSET S : Cardinality(t) <= n => Removes(t)}
<1>0. \A t \in SUBSET S : IsFiniteSet(t) /\ Cardinality(t) \in Nat
  BY FS_Subset, FS_CardinalityType
<1>1. \A t \in SUBSET S : g[t] = Folded(g, f, t)
  BY DEF IsFold
<1>2. 0 \in P
  <2>1. ASSUME NEW t \in SUBSET S, Cardinality(t) <= 0 PROVE Removes(t)
    <3>1. t = {}
      BY <1>0, <2>1, FS_EmptySet
    <3> QED
      BY <1>1, <3>1 DEF Folded
  <2> HIDE DEF Removes
  <2> QED
    BY <2>1
<1>3. ASSUME NEW n \in P PROVE n + 1 \in P
  <2>1. ASSUME NEW t \in SUBSET S, Cardinality(t) = n + 1 PROVE Removes(t)
    <3> DEFINE c == Pick(t)
    <3>0. n \in Nat
      OBVIOUS
    <3>1. t # {}
      <4>1. Cardinality(t) # 0
        BY <2>1, <3>0
      <4> QED
        BY <4>1, FS_EmptySet
    <3>2. c \in t /\ t \ {c} \in SUBSET S /\ Cardinality(t \ {c}) = n
      BY <1>0, <2>1, <3>1, PickRemoves
    <3>3. g[t] = f[c] + g[t \ {c}] /\ f[c] \in Nat
      BY <1>1, <3>1, <3>2 DEF Folded
    <3>4. Removes(t \ {c})
      <4>1. Cardinality(t \ {c}) <= n
        BY <3>0, <3>2
      <4> HIDE DEF Removes, c
      <4> QED
        BY <3>2, <4>1
    <3> HIDE DEF c
    <3>5. g[t] \in Nat
      BY <3>3, <3>4
    <3>6. ASSUME NEW x \in t, x # c PROVE g[t] = f[x] + g[t \ {x}]
      <4>1. x \in t \ {c} /\ c \in t \ {x} /\ t \ {x} \in SUBSET S
        BY <3>2, <3>6
      <4>2. Cardinality(t \ {x}) <= n
        BY <1>0, <2>1, FS_RemoveElement
      <4>3. Removes(t \ {x})
        BY <4>1, <4>2
      <4>4. (t \ {c}) \ {x} = (t \ {x}) \ {c}
        OBVIOUS
      <4>5. /\ g[t \ {c}] = f[x] + g[(t \ {c}) \ {x}]
            /\ g[t \ {x}] = f[c] + g[(t \ {c}) \ {x}]
        BY <3>4, <4>1, <4>3, <4>4
      <4>6. (t \ {c}) \ {x} \in SUBSET S /\ Cardinality((t \ {c}) \ {x}) <= n
        <5>1. (t \ {c}) \ {x} \in SUBSET (t \ {c}) /\ (t \ {c}) \ {x} \in SUBSET S
          BY <3>2
        <5>2. /\ Cardinality((t \ {c}) \ {x}) <= Cardinality(t \ {c})
              /\ Cardinality((t \ {c}) \ {x}) \in Nat
          BY <1>0, <3>2, <5>1, FS_Subset
        <5> QED
          BY <3>0, <3>2, <5>1, <5>2
      <4>7. g[(t \ {c}) \ {x}] \in Nat /\ f[x] \in Nat
        BY <4>6
      <4> HIDE DEF P, Removes
      <4> QED
        BY <3>3, <4>5, <4>7
    <3> QED
      BY <3>3, <3>5, <3>6
  <2>2. ASSUME NEW t \in SUBSET S, Cardinality(t) <= n + 1 PROVE Removes(t)
    <3>1. Cardinality(t) <= n \/ Cardinality(t) = n + 1
      BY <1>0, <2>2
    <3> HIDE DEF Removes
    <3> QED
      BY <2>1, <3>1
  <2> HIDE DEF Removes
  <2> QED
    BY <2>2
<1>4. P = Nat
  <2> HIDE DEF P
  <2>1. P \in SUBSET Nat
    BY DEF P
  <2> QED
    BY <1>2, <1>3, <2>1, SetInduction
<1>5. S \in SUBSET S /\ Cardinality(S) \in P
  BY <1>0, <1>4
<1> QED
  BY <1>5

-----------------------------------------------------------------------------
LEMMA SumEmpty == ASSUME NEW f PROVE Sum(f, {}) = 0
<1>1. PICK g : IsFold(g, f, {}) /\ Sum(f, {}) = g[{}]
  BY SumIsFold, FS_EmptySet
<1>2. {} \in SUBSET {}
  OBVIOUS
<1> QED
  BY <1>1, <1>2 DEF IsFold, Folded

LEMMA SumAgrees ==
    ASSUME NEW S, IsFiniteSet(S), NEW e, NEW f, \A x \in S : e[x] = f[x]
    PROVE  Sum(e, S) = Sum(f, S)
<1>1. PICK g : IsFold(g, e, S) /\ Sum(e, S) = g[S]
  BY SumIsFold
<1>2. PICK h : IsFold(h, f, S) /\ Sum(f, S) = h[S]
  BY SumIsFold
<1>3. S \in SUBSET S
  OBVIOUS
<1>4. g[S] = h[S]
  BY <1>1, <1>2, <1>3, FoldsAgree
<1> QED
  BY <1>1, <1>2, <1>4

\* A sum of natural numbers loses f[x] when x leaves the set.
LEMMA SumRemoves ==
    ASSUME NEW S, IsFiniteSet(S), NEW f, \A y \in S : f[y] \in Nat
    PROVE  /\ Sum(f, S) \in Nat
           /\ \A x \in S : Sum(f, S) = f[x] + Sum(f, S \ {x})
<1> DEFINE e == [y \in S |-> f[y]]
<1>1. e \in [S -> Nat] /\ \A y \in S : e[y] = f[y]
  OBVIOUS
<1> HIDE DEF e
<1>2. PICK g : IsFold(g, e, S) /\ Sum(e, S) = g[S]
  BY SumIsFold
<1>3. Sum(e, S) = Sum(f, S)
  BY <1>1, SumAgrees
<1>4. g[S] \in Nat /\ \A x \in S : g[S] = e[x] + g[S \ {x}]
  BY <1>1, <1>2, FoldRemoves
<1>5. ASSUME NEW x \in S PROVE Sum(f, S \ {x}) = g[S \ {x}]
  <2>1. IsFiniteSet(S \ {x})
    BY FS_RemoveElement
  <2>2. PICK h : IsFold(h, f, S \ {x}) /\ Sum(f, S \ {x}) = h[S \ {x}]
    BY <2>1, SumIsFold
  <2>3. S \ {x} \in SUBSET S /\ S \ {x} \in SUBSET (S \ {x})
    OBVIOUS
  <2>4. g[S \ {x}] = h[S \ {x}]
    BY <1>1, <1>2, <2>2, <2>3, FoldsAgree
  <2> QED
    BY <2>2, <2>4
<1> QED
  BY <1>1, <1>2, <1>3, <1>4, <1>5

\* It gains f[x] when x enters the set.
LEMMA SumAdds ==
    ASSUME NEW S, IsFiniteSet(S), NEW x, x \notin S, NEW f,
           \A y \in S \cup {x} : f[y] \in Nat
    PROVE  Sum(f, S \cup {x}) = f[x] + Sum(f, S)
<1>1. IsFiniteSet(S \cup {x}) /\ (S \cup {x}) \ {x} = S
  BY FS_AddElement
<1> QED
  BY <1>1, SumRemoves

-----------------------------------------------------------------------------
InTransaction(w) == pc[w] \in {"reserve", "settle"}

LockInv == \A w \in Workers : InTransaction(w) => lock = w

SnapshotInv == \A w \in Workers : InTransaction(w) => snapshot[w] = ledger

IInv == TypeOK /\ LockInv /\ SnapshotInv /\ WithinCeiling

\* A price of natural token counts is a natural number.
LEMMA CostNat ==
    ASSUME NEW input \in Nat, NEW output \in Nat
    PROVE  Cost(input, output) \in Nat
  BY RateAssumption DEF Cost

\* What reserve computes for a request is a natural number.
LEMMA ReservationNat ==
    ASSUME NEW request \in Requests
    PROVE  ReservationFor(request) \in Nat
  <1>1. request.bytes + Overhead \in Nat /\ request.limit \in Nat
    BY RateAssumption, CallAssumption
  <1> QED
    BY <1>1, CostNat DEF ReservationFor

\* What the provider bills for usage it reports is a natural number.
LEMMA UsageNat ==
    ASSUME NEW amount \in {0} \cup {Cost(u.input, u.output) : u \in Usages}
    PROVE  amount \in Nat
  BY CallAssumption, CostNat

\* The object reserve writes is well typed and under the ceiling, because the
\* amounts it checked are the ones in the file.
LEMMA ReservedKeepsCeiling ==
    ASSUME IInv, NEW w \in Workers, pc[w] = "reserve", ~Exhausted(w)
    PROVE  /\ Reserved(w) \in Ledger
           /\ Reserved(w).spent + Reserved(w).pending <= Ceiling + overrun
  <1>1. /\ snapshot[w] \in Ledger /\ reservation[w] \in Nat /\ overrun \in Nat
        /\ Maximum[w] \in Nat /\ Ceiling \in Nat /\ Maximum[w] <= Ceiling
    BY MaximumAssumption DEF IInv, TypeOK
  <1>2. snapshot[w].spent + snapshot[w].pending + reservation[w] <= Maximum[w]
    BY <1>1 DEF Exhausted, Ledger
  <1>3. /\ Reserved(w) \in Ledger
        /\ Reserved(w).spent = snapshot[w].spent
        /\ Reserved(w).pending = snapshot[w].pending + reservation[w]
    BY <1>1 DEF Reserved, Ledger
  <1>4. snapshot[w].spent \in Nat /\ snapshot[w].pending \in Nat
    BY <1>1 DEF Ledger
  <1> QED
    BY <1>1, <1>2, <1>3, <1>4

\* The object settle writes is well typed and exceeds the ceiling by no more
\* than the excess of the charge it settles adds.
LEMMA SettledKeepsCeiling ==
    ASSUME IInv, NEW w \in Workers, pc[w] = "settle", ~Mismatch(w)
    PROVE  /\ Settled(w) \in Ledger
           /\ Excess(w) \in Nat
           /\ Settled(w).spent + Settled(w).pending
                 <= Ceiling + (overrun + Excess(w))
  <1>1. /\ snapshot[w] \in Ledger /\ snapshot[w] = ledger
        /\ reservation[w] \in Nat /\ charge[w] \in Nat /\ overrun \in Nat
        /\ Ceiling \in Nat
    BY MaximumAssumption DEF IInv, TypeOK, SnapshotInv, InTransaction
  <1>2. /\ reservation[w] <= snapshot[w].pending
        /\ snapshot[w].spent + snapshot[w].pending <= Ceiling + overrun
    BY <1>1 DEF Mismatch, Ledger, IInv, WithinCeiling
  <1>3. /\ Settled(w) \in Ledger
        /\ Settled(w).spent = snapshot[w].spent + charge[w]
        /\ Settled(w).pending = snapshot[w].pending - reservation[w]
    BY <1>1, <1>2 DEF Settled, Ledger
  <1>4. Excess(w) \in Nat /\ charge[w] <= reservation[w] + Excess(w)
    BY <1>1 DEF Excess
  <1> QED
    BY <1>1, <1>2, <1>3, <1>4 DEF Ledger

LEMMA InitIInv == Init => IInv
  <1> SUFFICES ASSUME Init PROVE IInv
    OBVIOUS
  <1>1. Fresh \in Ledger /\ Fresh.spent = 0 /\ Fresh.pending = 0
    BY DEF Fresh, Ledger
  <1>2. TypeOK
    BY <1>1 DEF Init, TypeOK, PCs
  <1>3. LockInv /\ SnapshotInv
    BY DEF Init, LockInv, SnapshotInv, InTransaction
  <1>4. WithinCeiling
    BY <1>1, MaximumAssumption DEF Init, WithinCeiling
  <1> QED
    BY <1>2, <1>3, <1>4 DEF IInv

LEMMA NextIInv == IInv /\ [Next]_vars => IInv'
  <1> SUFFICES ASSUME IInv, [Next]_vars PROVE IInv'
    OBVIOUS
  <1> USE DEF IInv, TypeOK, LockInv, SnapshotInv, WithinCeiling, InTransaction,
              Ledger, PCs, ledgerVars, historyVars
  <1>1. ASSUME NEW w \in Workers, BeginReserve(w) PROVE IInv'
    <2>1. PICK request \in Requests :
             reservation' = [reservation EXCEPT ![w] = ReservationFor(request)]
      BY <1>1 DEF BeginReserve
    <2> QED
      BY <1>1, <2>1, ReservationNat, NoWorkerAssumption
         DEF BeginReserve, Enter, LockFree
  <1>2. ASSUME NEW w \in Workers, Reserve(w) PROVE IInv'
    <2>1. /\ Reserved(w) \in Ledger
          /\ Reserved(w).spent + Reserved(w).pending <= Ceiling + overrun
      BY <1>2, ReservedKeepsCeiling DEF Reserve
    <2>2. lock = w /\ lock' = NoWorker /\ ledger' = Reserved(w)
      BY <1>2 DEF Reserve, Commit
    <2>3. TypeOK'
      BY <1>2, <2>1, <2>2 DEF Reserve, Commit
    <2>4. LockInv' /\ SnapshotInv'
      BY <1>2, <2>2 DEF Reserve, Commit
    <2>5. WithinCeiling'
      BY <1>2, <2>1, <2>2 DEF Reserve
    <2> QED
      BY <2>3, <2>4, <2>5
  <1>3. ASSUME NEW w \in Workers, RefuseReserve(w) PROVE IInv'
    BY <1>3 DEF RefuseReserve, Rollback, EndCall
  <1>4. ASSUME NEW w \in Workers, ReserveUnreadable(w) PROVE IInv'
    BY <1>4 DEF ReserveUnreadable
  <1>5. ASSUME NEW w \in Workers, Send(w) PROVE IInv'
    <2>1. PICK amount \in {0} \cup {Cost(u.input, u.output) : u \in Usages} :
             /\ charge' = [charge EXCEPT ![w] = amount]
             /\ billed' = billed + IF amount > reservation[w]
                                   THEN reservation[w] ELSE amount
      BY <1>5 DEF Send
    <2>2. amount \in Nat
      BY UsageNat
    <2> QED
      BY <1>5, <2>1, <2>2 DEF Send
  <1>6. ASSUME NEW w \in Workers, RequestFails(w) PROVE IInv'
    BY <1>6 DEF RequestFails, EndCall
  <1>7. ASSUME NEW w \in Workers, Answer(w) PROVE IInv'
    BY <1>7 DEF Answer
  <1>8. ASSUME NEW w \in Workers, AnswerUnverifiable(w) PROVE IInv'
    BY <1>8 DEF AnswerUnverifiable, EndCall
  <1>9. ASSUME NEW w \in Workers, BeginSettle(w) PROVE IInv'
    BY <1>9, NoWorkerAssumption DEF BeginSettle, Enter, LockFree
  <1>10. ASSUME NEW w \in Workers, Settle(w) PROVE IInv'
    <2>1. lock = w /\ lock' = NoWorker
      BY <1>10 DEF Settle, Commit, Rollback
    <2>2. LockInv' /\ SnapshotInv'
      BY <1>10, <2>1 DEF Settle, Commit, Rollback, EndCall
    <2>3. CASE Mismatch(w)
      BY <1>10, <2>2, <2>3 DEF Settle, Rollback, EndCall
    <2>4. CASE ~Mismatch(w)
      <3>1. ledger' = Settled(w) /\ overrun' = overrun + Excess(w)
        BY <1>10, <2>4 DEF Settle, Commit
      <3>2. TypeOK' /\ WithinCeiling'
        BY <1>10, <2>4, <3>1, SettledKeepsCeiling, NoWorkerAssumption
           DEF Settle, Commit, EndCall
      <3> QED
        BY <2>2, <3>2
    <2> QED
      BY <2>3, <2>4
  <1>11. ASSUME NEW w \in Workers, SettleUnreadable(w) PROVE IInv'
    BY <1>11 DEF SettleUnreadable, EndCall
  <1>12. ASSUME NEW w \in Workers, Crash(w) PROVE IInv'
    <2>1. \A v \in Workers \ {w} : InTransaction(v) => ledger' = ledger
      BY <1>12 DEF Crash, Writing
    <2>2. LockInv' /\ SnapshotInv'
      BY <1>12, <2>1 DEF Crash, EndCall
    <2>3. CASE UNCHANGED <<ledger, overrun>>
      BY <1>12, <2>2, <2>3 DEF Crash, EndCall
    <2>4. CASE Writing(w) /\ pc[w] = "reserve" /\ ledger' = Reserved(w)
               /\ UNCHANGED <<torn, overrun>>
      <3>1. TypeOK' /\ WithinCeiling'
        BY <1>12, <2>4, ReservedKeepsCeiling DEF Crash, EndCall, Writing
      <3> QED
        BY <2>2, <3>1
    <2>5. CASE Writing(w) /\ pc[w] = "settle" /\ ledger' = Settled(w)
               /\ overrun' = overrun + Excess(w) /\ UNCHANGED torn
      <3>1. TypeOK' /\ WithinCeiling'
        BY <1>12, <2>5, SettledKeepsCeiling DEF Crash, EndCall, Writing
      <3> QED
        BY <2>2, <3>1
    <2> QED
      BY <1>12, <2>3, <2>4, <2>5 DEF Crash
  <1>13. CASE UNCHANGED vars
    BY <1>13 DEF vars
  <1> QED
    BY <1>1, <1>2, <1>3, <1>4, <1>5, <1>6, <1>7, <1>8, <1>9, <1>10, <1>11,
       <1>12, <1>13 DEF Next

\* Every reachable state of the ledger and of its workers is well typed.
THEOREM TypeCorrect == Spec => []TypeOK
  <1>1. IInv => TypeOK
    BY DEF IInv
  <1> QED
    BY InitIInv, NextIInv, <1>1, PTL DEF Spec

\* The ceiling holds in every reachable state: reserve's check is made on
\* amounts no other worker can change before it writes.
THEOREM CeilingHolds == Spec => []WithinCeiling
  <1>1. IInv => WithinCeiling
    BY DEF IInv
  <1> QED
    BY InitIInv, NextIInv, <1>1, PTL DEF Spec

\* Workers, lock, crashes and torn writes together implement the two atomic
\* operations of AtomicBudget.
THEOREM ImplementsAtomicBudget == Spec => AtomicSpec
  <1>1. Init => Budget!Init
    BY DEF Init, Budget!Init, Fresh
  <1>2. IInv /\ [Next]_vars => [Budget!Next]_Budget!vars
    <2> SUFFICES ASSUME IInv, [Next]_vars, ~(UNCHANGED Budget!vars)
                 PROVE Budget!Next
      OBVIOUS
    <2> USE DEF IInv, TypeOK, LockInv, SnapshotInv, InTransaction, Ledger,
                ledgerVars, historyVars
    <2>1. ledger' # ledger
      BY DEF Budget!vars
    <2>2. PICK w \in Workers : Reserve(w) \/ Settle(w) \/ Crash(w)
      BY <2>1 DEF Next, vars, BeginReserve, RefuseReserve, ReserveUnreadable,
                  Send, RequestFails, Answer, AnswerUnverifiable, BeginSettle,
                  SettleUnreadable, Enter, Rollback
    <2>3. \/ pc[w] = "reserve" /\ ~Exhausted(w) /\ ledger' = Reserved(w)
          \/ pc[w] = "settle" /\ ~Mismatch(w) /\ ledger' = Settled(w)
      BY <2>1, <2>2 DEF Reserve, Settle, Crash, Commit, Rollback, Writing
    <2>4. snapshot[w] = ledger /\ ledger \in Ledger
          /\ reservation[w] \in Nat /\ charge[w] \in Nat
      BY <2>3
    <2>5. CASE pc[w] = "reserve" /\ ~Exhausted(w) /\ ledger' = Reserved(w)
      <3>1. /\ ledger'.spent = ledger.spent
            /\ ledger'.pending = ledger.pending + reservation[w]
        BY <2>4, <2>5 DEF Reserved
      <3>2. ledger.spent + ledger.pending + reservation[w] <= Ceiling
        BY <2>4, <2>5, MaximumAssumption DEF Exhausted
      <3> QED
        BY <2>4, <3>1, <3>2 DEF Budget!Next, Budget!Reserve
    <2>6. CASE pc[w] = "settle" /\ ~Mismatch(w) /\ ledger' = Settled(w)
      <3>1. /\ ledger'.spent = ledger.spent + charge[w]
            /\ ledger'.pending = ledger.pending - reservation[w]
        BY <2>4, <2>6 DEF Settled
      <3>2. reservation[w] <= ledger.pending
        BY <2>4, <2>6 DEF Mismatch
      <3> QED
        BY <2>4, <3>1, <3>2 DEF Budget!Next, Budget!Settle
    <2> QED
      BY <2>3, <2>5, <2>6
  <1> QED
    BY InitIInv, NextIInv, <1>1, <1>2, PTL DEF Spec, AtomicSpec, Budget!Spec

-----------------------------------------------------------------------------
(* What all workers hold together.  A call that holds a reservation still    *)
(* has in pending what it may be charged: all of it before the request       *)
(* leaves, and afterwards the part that was not billed.                      *)

Unbilled ==
    [w \in Workers |->
        IF pc[w] = "reserved" THEN reservation[w]
        ELSE IF charge[w] > reservation[w] THEN 0 ELSE reservation[w] - charge[w]]

AmountInv ==
    /\ IsFiniteSet(Holding)
    /\ Cardinality(Holding) <= ledger.reserved - ledger.accounted
    /\ Sum(reservation, Holding) <= ledger.pending
    /\ billed + Sum(Unbilled, Holding) <= ledger.spent + ledger.pending

LEMMA HoldingAmounts ==
    ASSUME IInv, AmountInv
    PROVE  /\ Holding \subseteq Workers
           /\ Cardinality(Holding) \in Nat
           /\ \A w \in Workers : reservation[w] \in Nat /\ Unbilled[w] \in Nat
           /\ Sum(reservation, Holding) \in Nat
           /\ Sum(Unbilled, Holding) \in Nat
           /\ ledger.spent \in Nat /\ ledger.pending \in Nat
           /\ ledger.reserved \in Nat /\ ledger.accounted \in Nat
           /\ billed \in Nat
<1>1. Holding \subseteq Workers /\ IsFiniteSet(Holding)
  BY DEF Holding, AmountInv
<1>2. \A w \in Workers : reservation[w] \in Nat /\ charge[w] \in Nat
  BY DEF IInv, TypeOK
<1>3. \A w \in Workers : Unbilled[w] \in Nat
  BY <1>2 DEF Unbilled
<1> QED
  BY <1>1, <1>2, <1>3, SumRemoves, FS_CardinalityType DEF IInv, TypeOK, Ledger

\* What holds of a worker that w's step does not touch.
SameBut(w) ==
    \A v \in Workers \ {w} :
        pc'[v] = pc[v] /\ reservation'[v] = reservation[v] /\ charge'[v] = charge[v]

\* The sums of a set that w is not in are those before the step.
LEMMA OthersSums ==
    ASSUME NEW w, SameBut(w), NEW S \in SUBSET (Workers \ {w}), IsFiniteSet(S)
    PROVE  /\ Sum(reservation', S) = Sum(reservation, S)
           /\ Sum(Unbilled', S) = Sum(Unbilled, S)
<1>1. \A v \in S : reservation'[v] = reservation[v]
  BY DEF SameBut
<1>2. \A v \in S : Unbilled'[v] = Unbilled[v]
  BY DEF SameBut, Unbilled
<1> QED
  BY <1>1, <1>2, SumAgrees

LEMMA AmountsStay ==
    ASSUME IInv, AmountInv, Holding' = Holding,
           \A v \in Holding : reservation'[v] = reservation[v] /\ Unbilled'[v] = Unbilled[v],
           billed' = billed,
           \/ ledger' = ledger
           \/ \E w \in Workers : pc[w] = "reserve" /\ ledger' = Reserved(w)
    PROVE  AmountInv'
<1>1. /\ Sum(reservation', Holding') = Sum(reservation, Holding)
      /\ Sum(Unbilled', Holding') = Sum(Unbilled, Holding)
  BY SumAgrees DEF AmountInv
<1>2. CASE ledger' = ledger
  BY <1>1, <1>2 DEF AmountInv
<1>3. ASSUME NEW w \in Workers, pc[w] = "reserve", ledger' = Reserved(w) PROVE AmountInv'
  <2>1. snapshot[w] = ledger /\ reservation[w] \in Nat
    BY <1>3 DEF IInv, TypeOK, SnapshotInv, InTransaction
  <2>2. /\ ledger'.spent = ledger.spent
        /\ ledger'.pending = ledger.pending + reservation[w]
        /\ ledger'.reserved = ledger.reserved + 1
        /\ ledger'.accounted = ledger.accounted
    BY <1>3, <2>1 DEF Reserved
  <2> QED
    BY <1>1, <2>1, <2>2, HoldingAmounts DEF AmountInv
<1> QED
  BY <1>2, <1>3

\* reserve has written: the call holds a reservation that pending contains.
LEMMA CallJoins ==
    ASSUME IInv, AmountInv, NEW w \in Workers, SameBut(w), pc[w] = "reserve",
           Holding' = Holding \cup {w}, pc'[w] = "reserved",
           reservation' = reservation, billed' = billed, ledger' = Reserved(w)
    PROVE  AmountInv'
<1>1. w \notin Holding /\ IsFiniteSet(Holding)
  BY DEF Holding, AmountInv
<1>2. snapshot[w] = ledger /\ reservation[w] \in Nat
  BY DEF IInv, TypeOK, SnapshotInv, InTransaction
<1>3. /\ ledger'.spent = ledger.spent
      /\ ledger'.pending = ledger.pending + reservation[w]
      /\ ledger'.reserved = ledger.reserved + 1
      /\ ledger'.accounted = ledger.accounted
  BY <1>2 DEF Reserved
<1>4. IsFiniteSet(Holding') /\ Cardinality(Holding') = Cardinality(Holding) + 1
  BY <1>1, FS_AddElement
<1>5. Unbilled'[w] = reservation[w]
  BY DEF Unbilled
<1>6. /\ \A v \in Holding \cup {w} : reservation'[v] \in Nat /\ Unbilled'[v] \in Nat
      /\ Holding \in SUBSET (Workers \ {w})
  BY <1>1, <1>2, <1>5, HoldingAmounts DEF SameBut, Unbilled
<1>7. /\ Sum(reservation', Holding') = reservation[w] + Sum(reservation', Holding)
      /\ Sum(Unbilled', Holding') = reservation[w] + Sum(Unbilled', Holding)
  BY <1>1, <1>5, <1>6, SumAdds
<1>8. /\ Sum(reservation', Holding) = Sum(reservation, Holding)
      /\ Sum(Unbilled', Holding) = Sum(Unbilled, Holding)
  BY <1>1, <1>6, OthersSums
<1> QED
  BY <1>2, <1>3, <1>4, <1>7, <1>8, HoldingAmounts DEF AmountInv

\* A call ends, with or without its settlement written.
LEMMA CallLeaves ==
    ASSUME IInv, AmountInv, NEW w \in Holding, SameBut(w),
           Holding' = Holding \ {w}, billed' = billed,
           \/ ledger' = ledger
           \/ pc[w] = "settle" /\ ledger' = Settled(w)
    PROVE  AmountInv'
<1>1. IsFiniteSet(Holding) /\ w \in Workers
  BY DEF Holding, AmountInv
<1>2. IsFiniteSet(Holding') /\ Cardinality(Holding') = Cardinality(Holding) - 1
  BY <1>1, FS_RemoveElement
<1>3. /\ Sum(reservation, Holding) = reservation[w] + Sum(reservation, Holding \ {w})
      /\ Sum(Unbilled, Holding) = Unbilled[w] + Sum(Unbilled, Holding \ {w})
      /\ Sum(reservation, Holding \ {w}) \in Nat /\ Sum(Unbilled, Holding \ {w}) \in Nat
  BY <1>1, <1>2, HoldingAmounts, SumRemoves
<1>4. /\ Sum(reservation', Holding') = Sum(reservation, Holding \ {w})
      /\ Sum(Unbilled', Holding') = Sum(Unbilled, Holding \ {w})
  BY <1>1, <1>2, HoldingAmounts, OthersSums
<1>5. reservation[w] \in Nat /\ charge[w] \in Nat /\ Unbilled[w] \in Nat
  BY <1>1, HoldingAmounts DEF IInv, TypeOK
<1>6. CASE ledger' = ledger
  BY <1>2, <1>3, <1>4, <1>5, <1>6, HoldingAmounts DEF AmountInv
<1>7. CASE pc[w] = "settle" /\ ledger' = Settled(w)
  <2>1. snapshot[w] = ledger
    BY <1>1, <1>7 DEF IInv, SnapshotInv, InTransaction
  <2>2. /\ ledger'.spent = ledger.spent + charge[w]
        /\ ledger'.pending = ledger.pending - reservation[w]
        /\ ledger'.reserved = ledger.reserved
        /\ ledger'.accounted = ledger.accounted + 1
    BY <1>7, <2>1 DEF Settled
  <2>3. reservation[w] <= charge[w] + Unbilled[w]
    BY <1>1, <1>5, <1>7 DEF Unbilled
  <2> QED
    BY <1>2, <1>3, <1>4, <1>5, <2>2, <2>3, HoldingAmounts DEF AmountInv
<1> QED
  BY <1>6, <1>7

\* The request leaves: what is billed is no longer unbilled.
LEMMA CallSends ==
    ASSUME IInv, AmountInv, NEW w \in Workers, Send(w)
    PROVE  AmountInv'
<1>1. PICK amount \in Nat :
        /\ charge' = [charge EXCEPT ![w] = amount]
        /\ billed' = billed + IF amount > reservation[w] THEN reservation[w] ELSE amount
  BY UsageNat DEF Send
<1>2. /\ pc[w] = "reserved" /\ pc' = [pc EXCEPT ![w] = "sent"]
      /\ reservation' = reservation /\ ledger' = ledger
  BY DEF Send, ledgerVars
<1>3. SameBut(w) /\ pc'[w] = "sent" /\ charge'[w] = amount
  BY <1>1, <1>2 DEF SameBut, IInv, TypeOK
<1>4. Holding' = Holding /\ w \in Holding
  BY <1>2, <1>3 DEF Holding, IInv, TypeOK
<1>5. IsFiniteSet(Holding) /\ IsFiniteSet(Holding \ {w}) /\ Holding \ {w} \in SUBSET (Workers \ {w})
  BY FS_RemoveElement DEF AmountInv, Holding
<1>6. /\ reservation[w] \in Nat /\ Unbilled[w] = reservation[w]
      /\ Unbilled'[w] = IF amount > reservation[w] THEN 0 ELSE reservation[w] - amount
  BY <1>1, <1>2, <1>3 DEF Unbilled, IInv, TypeOK
<1>7. \A v \in Holding : Unbilled[v] \in Nat /\ Unbilled'[v] \in Nat
  BY <1>3, <1>6, HoldingAmounts DEF SameBut, Unbilled
<1>8. /\ Sum(Unbilled, Holding) = Unbilled[w] + Sum(Unbilled, Holding \ {w})
      /\ Sum(Unbilled', Holding) = Unbilled'[w] + Sum(Unbilled', Holding \ {w})
      /\ Sum(Unbilled', Holding \ {w}) = Sum(Unbilled, Holding \ {w})
      /\ Sum(Unbilled, Holding \ {w}) \in Nat
  BY <1>3, <1>4, <1>5, <1>7, SumRemoves, OthersSums
<1>9. billed' + Sum(Unbilled', Holding) = billed + Sum(Unbilled, Holding)
  BY <1>1, <1>6, <1>8, HoldingAmounts
<1> QED
  BY <1>2, <1>4, <1>9 DEF AmountInv

LEMMA AmountStep == IInv /\ IInv' /\ AmountInv /\ [Next]_vars => AmountInv'
<1> SUFFICES ASSUME IInv, IInv', AmountInv, [Next]_vars PROVE AmountInv'
  OBVIOUS
<1>0. /\ pc \in [Workers -> PCs] /\ reservation \in [Workers -> Nat]
      /\ charge \in [Workers -> Nat]
  BY DEF IInv, TypeOK
\* An ended call: nothing of the others changes.
<1>1. ASSUME NEW w \in Workers, EndCall(w)
      PROVE  SameBut(w) /\ Holding' = Holding \ {w}
  <2>1. pc'[w] = "idle" /\ SameBut(w)
    BY <1>0, <1>1 DEF EndCall, SameBut
  <2> QED
    BY <2>1 DEF SameBut, Holding
<1>2. ASSUME NEW w \in Workers, EndCall(w), billed' = billed,
             \/ ledger' = ledger
             \/ pc[w] = "reserve" /\ ledger' = Reserved(w)
             \/ pc[w] = "settle" /\ ledger' = Settled(w)
      PROVE  AmountInv'
  <2>1. CASE w \in Holding
    <3>1. pc[w] # "reserve"
      BY <2>1 DEF Holding
    <3> QED
      BY <1>1, <1>2, <2>1, <3>1, CallLeaves
  <2>2. CASE w \notin Holding
    <3>1. Holding' = Holding /\ pc[w] # "settle"
      BY <1>1, <1>2, <2>2 DEF Holding
    <3>2. \A v \in Holding : reservation'[v] = reservation[v] /\ Unbilled'[v] = Unbilled[v]
      BY <1>1, <1>2, <2>2 DEF SameBut, Holding, Unbilled
    <3> QED
      BY <1>2, <3>1, <3>2, AmountsStay
  <2> QED
    BY <2>1, <2>2
\* A step within a call that changes neither amounts nor what it holds.
<1>3. ASSUME NEW w \in Workers, UNCHANGED <<ledger, reservation, charge, billed>>,
             NEW step \in PCs, pc' = [pc EXCEPT ![w] = step],
             pc[w] \in {"sent", "answered"}, step \in {"answered", "settle"}
      PROVE  AmountInv'
  <2>1. Holding' = Holding
    BY <1>0, <1>3 DEF Holding
  <2>2. \A v \in Workers : Unbilled'[v] = Unbilled[v]
    BY <1>0, <1>3 DEF Unbilled
  <2> QED
    BY <1>3, <2>1, <2>2, AmountsStay DEF Holding
<1>4. ASSUME NEW w \in Workers, BeginReserve(w) PROVE AmountInv'
  <2>1. /\ pc[w] = "idle" /\ pc' = [pc EXCEPT ![w] = "reserve"]
        /\ charge' = charge /\ billed' = billed /\ ledger' = ledger
    BY <1>4 DEF BeginReserve, Enter, historyVars
  <2>2. \A v \in Workers \ {w} : reservation'[v] = reservation[v] /\ pc'[v] = pc[v]
    BY <1>0, <1>4, <2>1 DEF BeginReserve
  <2>3. Holding' = Holding /\ w \notin Holding
    BY <1>0, <2>1, <2>2 DEF Holding
  <2>4. \A v \in Holding : reservation'[v] = reservation[v] /\ Unbilled'[v] = Unbilled[v]
    BY <2>1, <2>2, <2>3 DEF Holding, Unbilled
  <2> QED
    BY <2>1, <2>3, <2>4, AmountsStay
<1>5. ASSUME NEW w \in Workers, Reserve(w) PROVE AmountInv'
  <2>1. /\ pc[w] = "reserve" /\ pc' = [pc EXCEPT ![w] = "reserved"]
        /\ ledger' = Reserved(w) /\ UNCHANGED <<reservation, charge, billed>>
    BY <1>5 DEF Reserve, Commit, historyVars
  <2>2. SameBut(w) /\ pc'[w] = "reserved"
    BY <1>0, <2>1 DEF SameBut
  <2>3. Holding' = Holding \cup {w}
    BY <2>2 DEF SameBut, Holding
  <2> QED
    BY <2>1, <2>2, <2>3, CallJoins
<1>6. ASSUME NEW w \in Workers, RefuseReserve(w) PROVE AmountInv'
  BY <1>2, <1>6 DEF RefuseReserve, Rollback, historyVars
<1>7. ASSUME NEW w \in Workers, RequestFails(w) \/ AnswerUnverifiable(w) \/ SettleUnreadable(w)
      PROVE  AmountInv'
  BY <1>2, <1>7 DEF RequestFails, AnswerUnverifiable, SettleUnreadable, ledgerVars, historyVars
<1>8. ASSUME NEW w \in Workers, Answer(w) PROVE AmountInv'
  BY <1>3, <1>8 DEF Answer, ledgerVars, historyVars, PCs
<1>9. ASSUME NEW w \in Workers, BeginSettle(w) PROVE AmountInv'
  BY <1>3, <1>9 DEF BeginSettle, Enter, historyVars, PCs
<1>10. ASSUME NEW w \in Workers, Settle(w) PROVE AmountInv'
  BY <1>2, <1>10 DEF Settle, Commit, Rollback
<1>11. ASSUME NEW w \in Workers, Crash(w) PROVE AmountInv'
  <2>1. /\ EndCall(w) /\ billed' = billed
        /\ \/ ledger' = ledger
           \/ pc[w] = "reserve" /\ ledger' = Reserved(w)
           \/ pc[w] = "settle" /\ ledger' = Settled(w)
    BY <1>11 DEF Crash
  <2> QED
    BY <1>2, <2>1
<1>12. ASSUME NEW w \in Workers, ReserveUnreadable(w) \/ UNCHANGED vars PROVE AmountInv'
  BY <1>12 DEF ReserveUnreadable, ledgerVars, historyVars, vars, AmountInv, Holding, Unbilled
<1>13. CASE UNCHANGED vars
  BY <1>13 DEF vars, AmountInv, Holding, Unbilled
<1> QED
  BY <1>4, <1>5, <1>6, <1>7, <1>8, <1>9, <1>10, <1>11, <1>12, <1>13, CallSends DEF Next

LEMMA AmountInit == Init => AmountInv
<1> SUFFICES ASSUME Init PROVE AmountInv
  OBVIOUS
<1>1. Holding = {} /\ ledger = Fresh /\ billed = 0
  BY DEF Init, Holding
<1>2. Sum(reservation, Holding) = 0 /\ Sum(Unbilled, Holding) = 0
  BY <1>1, SumEmpty
<1>3. IsFiniteSet(Holding) /\ Cardinality(Holding) = 0
  BY <1>1, FS_EmptySet
<1> QED
  BY <1>1, <1>2, <1>3 DEF AmountInv, Fresh

\* Crashes, timeouts and unverifiable answers included, the ledger accounts
\* for everything billed within its reservation.
THEOREM BilledCovered == Spec => []BilledIsCovered
<1>1. IInv /\ AmountInv => BilledIsCovered
  BY HoldingAmounts DEF AmountInv, BilledIsCovered
<1> QED
  BY InitIInv, NextIInv, AmountInit, AmountStep, <1>1, PTL DEF Spec

\* No settle of any worker raises a reservation mismatch.
THEOREM PendingCovers == Spec => []PendingCoversCalls
<1>1. AmountInv => PendingCoversCalls
  BY DEF AmountInv, PendingCoversCalls, Sum
<1> QED
  BY InitIInv, NextIInv, AmountInit, AmountStep, <1>1, PTL DEF Spec

\* No call is counted as accounted before it settles.
THEOREM CountersHold == Spec => []CountersAgree
<1>1. AmountInv => CountersAgree
  BY DEF AmountInv, CountersAgree
<1> QED
  BY InitIInv, NextIInv, AmountInit, AmountStep, <1>1, PTL DEF Spec
=============================================================================
