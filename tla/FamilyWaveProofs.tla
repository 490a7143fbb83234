--------------------------- MODULE FamilyWaveProofs ---------------------------
(* What holds of the family wave for every cohort, family, evidence and page *)
(* size.  The properties are inductive together: the marks and turns of a     *)
(* provider change in one step only, the publication of its page.            *)
EXTENDS FamilyWave, FiniteSetTheorems, WellFoundedInduction, TLAPS

\* Of the family of each processed eligible provider one member was served.
FamiliesServed ==
    \A p \in completed \cap Eligible : \E q \in Served : FamilyOf[q] = FamilyOf[p]

IInv == TypeOK /\ MarksAreCurrent /\ ValidatedFansOut /\ FamiliesServed

\* A wave selects among the rows it is given.
LEMMA WaveWithin ==
    ASSUME NEW rows, NEW rank, NEW blocks
    PROVE  /\ Wave(rows, rank, blocks) \subseteq rows
           /\ \A p \in rows : FamilyOf[p] \in checkout.validated
                 => p \in Wave(rows, rank, blocks)
  BY DEF Wave

-----------------------------------------------------------------------------
(* A family has a witness: the order of the keys is lexicographic on three  *)
(* numbers, and ends with an injective rank.                                *)
LEMMA LeastValue ==
    ASSUME NEW S, S # {}, NEW f \in [S -> Nat]
    PROVE  \E p \in S : \A q \in S : f[p] <= f[q]
<1> DEFINE T == {f[p] : p \in S}
           R == OpToRel(<, Nat)
<1>1. T \subseteq Nat /\ T # {}
  OBVIOUS
<1>2. PICK n \in T : \A y \in T : ~(<<y, n>> \in R)
  BY <1>1, WFMin, NatLessThanWellFounded
<1>3. \A y \in T : ~(y < n)
  BY <1>2, <1>1 DEF OpToRel
<1>4. PICK p \in S : n = f[p]
  BY <1>2
<1>5. ASSUME NEW q \in S PROVE f[p] <= f[q]
  <2>1. f[q] \in T /\ f[q] \in Nat /\ f[p] \in Nat
    OBVIOUS
  <2>2. ~(f[q] < n)
    BY <2>1, <1>3
  <2> QED
    BY <2>1, <2>2, <1>4
<1> QED
  BY <1>5

\* What the evidence of a checkout comes to.
LEMMA CohortFacts ==
    /\ Eligible \subseteq Providers
    /\ FamilyOf \in [Providers -> Families]
    /\ \A f \in Families : \E p \in Providers : FamilyOf[p] = f
    /\ \A p \in Providers : Cardinality(Stages[p]) \in Nat
<1>1. ASSUME NEW p \in Providers PROVE Cardinality(Stages[p]) \in Nat
  <2>1. Stages[p] \subseteq UNION {o.stages : o \in Checkout[p].observations}
    BY DEF Stages, Observed
  <2> QED
    BY <2>1, FS_Subset, FS_CardinalityType, CohortAssumption
<1>2. FamilyOf \in [Providers -> Families]
  <2> DEFINE F(p) == <<Checkout[p].failure, Mechanism(p)>>
  <2>1. FamilyOf = [p \in Providers |-> F(p)]
    BY DEF FamilyOf
  <2> HIDE DEF F
  <2> QED
    BY <2>1 DEF Families
<1> QED
  BY <1>1, <1>2 DEF Eligible, Families

\* plan_batch orders the rows of a page by an injective rank: two priorities
\* differ at least in the name, and all that comes before the lesser one comes
\* before the greater one.
LEMMA PlanRankIsOrder == PlanRank \in [Providers -> Nat] /\ IsInjective(PlanRank)
<1> DEFINE Preds(p) == {q \in Providers : Before(TargetPriority(q), TargetPriority(p))}
<1>1. ASSUME NEW p \in Providers
      PROVE  TargetPriority(p) \in Nat \X Nat /\ TargetPriority(p)[2] = Checkout[p].name
  BY CohortAssumption DEF TargetPriority, CheckoutType
<1>2. ASSUME NEW s \in Nat \X Nat, NEW t \in Nat \X Nat
      PROVE  Before(s, t) <=> s[1] < t[1] \/ (s[1] = t[1] /\ s[2] < t[2])
  <2>1. DOMAIN s = 1..2 /\ s[1] \in Nat /\ s[2] \in Nat /\ t[1] \in Nat /\ t[2] \in Nat
    OBVIOUS
  <2> HIDE DEF Before
  <2>2. ASSUME s[1] < t[1] PROVE Before(s, t)
    <3>1. 1 \in DOMAIN s /\ \A j \in 1..(1 - 1) : s[j] = t[j]
      BY <2>1
    <3> QED
      BY <2>2, <3>1 DEF Before
  <2>3. ASSUME s[1] = t[1], s[2] < t[2] PROVE Before(s, t)
    <3>1. 2 \in DOMAIN s /\ \A j \in 1..(2 - 1) : s[j] = t[j]
      BY <2>1, <2>3
    <3> QED
      BY <2>3, <3>1 DEF Before
  <2>4. ASSUME Before(s, t) PROVE s[1] < t[1] \/ (s[1] = t[1] /\ s[2] < t[2])
    <3>1. PICK i \in 1..2 : s[i] < t[i] /\ \A j \in 1..(i - 1) : s[j] = t[j]
      BY <2>4, <2>1 DEF Before
    <3>2. i = 1 \/ i = 2
      BY <3>1
    <3>3. i = 2 => 1 \in 1..(i - 1)
      OBVIOUS
    <3> QED
      BY <3>1, <3>2, <3>3
  <2> QED
    BY <2>2, <2>3, <2>4
<1>3. ASSUME NEW p \in Providers PROVE IsFiniteSet(Preds(p)) /\ Cardinality(Preds(p)) \in Nat
  BY FS_Subset, FS_CardinalityType, CohortAssumption
<1>4. ASSUME NEW p \in Providers, NEW q \in Providers,
             Before(TargetPriority(p), TargetPriority(q))
      PROVE  Cardinality(Preds(p)) < Cardinality(Preds(q))
  <2> DEFINE P(r) == TargetPriority(r)
  <2>1. \A r \in Providers : P(r) \in Nat \X Nat
    BY <1>1
  <2>2. \A r, u \in Providers :
           Before(P(r), P(u)) <=> P(r)[1] < P(u)[1] \/ (P(r)[1] = P(u)[1] /\ P(r)[2] < P(u)[2])
    BY <1>2, <2>1
  <2>b. Before(P(p), P(q))
    BY <1>4
  <2>s. Preds(p) = {r \in Providers : Before(P(r), P(p))}
        /\ Preds(q) = {r \in Providers : Before(P(r), P(q))}
    OBVIOUS
  <2> HIDE DEF P, Preds
  <2>3. Preds(p) \subseteq Preds(q) /\ p \in Preds(q) /\ p \notin Preds(p)
    BY <2>1, <2>2, <2>b, <2>s
  <2>4. Preds(p) \in SUBSET Preds(q) /\ Preds(p) # Preds(q)
    BY <2>3
  <2> QED
    BY <2>4, <1>3, FS_Subset
<1>5. PlanRank \in [Providers -> Nat]
  BY <1>3 DEF PlanRank
<1>6. ASSUME NEW p \in Providers, NEW q \in Providers, PlanRank[p] = PlanRank[q]
      PROVE  p = q
  <2>1. SUFFICES ASSUME p # q PROVE FALSE
    OBVIOUS
  <2>2. TargetPriority(p)[2] # TargetPriority(q)[2]
    BY <1>1, <2>1, CohortAssumption
  <2>3. Before(TargetPriority(p), TargetPriority(q)) \/ Before(TargetPriority(q), TargetPriority(p))
    <3> DEFINE s == TargetPriority(p)
               t == TargetPriority(q)
    <3>1. s \in Nat \X Nat /\ t \in Nat \X Nat /\ s[2] # t[2]
      BY <1>1, <2>2
    <3> HIDE DEF s, t
    <3>2. Before(s, t) \/ Before(t, s)
      BY <3>1, <1>2
    <3> QED
      BY <3>2 DEF s, t
  <2>4. PlanRank[p] = Cardinality(Preds(p)) /\ PlanRank[q] = Cardinality(Preds(q))
    BY DEF PlanRank
  <2>5. /\ Cardinality(Preds(p)) < Cardinality(Preds(q))
           \/ Cardinality(Preds(q)) < Cardinality(Preds(p))
        /\ Cardinality(Preds(p)) \in Nat /\ Cardinality(Preds(q)) \in Nat
    <3>1. Cardinality(Preds(p)) \in Nat /\ Cardinality(Preds(q)) \in Nat
      BY <1>3
    <3>2. CASE Before(TargetPriority(p), TargetPriority(q))
      BY <3>1, <3>2, <1>4
    <3>3. CASE Before(TargetPriority(q), TargetPriority(p))
      BY <3>1, <3>3, <1>4
    <3> QED
      BY <2>3, <3>1, <3>2, <3>3
  <2>6. PlanRank[p] \in Nat /\ PlanRank[q] \in Nat
        /\ (PlanRank[p] < PlanRank[q] \/ PlanRank[q] < PlanRank[p])
    BY <2>4, <2>5
  <2> QED
    BY <1>6, <2>6
<1> QED
  BY <1>5, <1>6 DEF IsInjective

LEMMA ScoreType == ASSUME NEW p \in Providers PROVE EvidenceScore(p) \in 0..26
<1>1. Cardinality(Stages[p]) \in Nat
  BY CohortFacts
<1> QED
  BY <1>1 DEF EvidenceScore

LEMMA WitnessExists ==
    ASSUME NEW members \in SUBSET Providers, members # {}, checkout \in Memories,
           NEW rank \in [Providers -> Nat], IsInjective(rank),
           NEW blocks \in [Providers -> Nat]
    PROVE  \E p \in members : IsWitness(p, members, rank, blocks)
<1> DEFINE burden(p) == checkout.burden[p]
           C == Candidates(members, blocks)
<1>0. C \subseteq members /\ C # {}
  BY DEF Candidates
<1>1. \A p \in C : /\ EvidenceScore(p) \in 0..26 /\ burden(p) \in Nat
                   /\ rank[p] \in Nat /\ blocks[p] \in Nat
  BY <1>0, ScoreType DEF Memories
<1> HIDE DEF C
<1>2. PICK d \in C : \A q \in C : blocks[d] <= blocks[q]
  <2> DEFINE f == [p \in C |-> blocks[p]]
  <2>1. f \in [C -> Nat]
    BY <1>1
  <2>2. PICK d \in C : \A q \in C : f[d] <= f[q]
    <3> HIDE DEF f
    <3> QED
      BY <2>1, <1>0, LeastValue
  <2> QED
    BY <2>2
<1> DEFINE Z == {p \in C : blocks[p] = blocks[d]}
<1>3. PICK a \in Z : \A q \in Z : EvidenceScore(q) <= EvidenceScore(a)
  <2> DEFINE f == [p \in Z |-> 26 - EvidenceScore(p)]
  <2>1. f \in [Z -> Nat] /\ Z # {}
    BY <1>1
  <2>2. PICK a \in Z : \A q \in Z : f[a] <= f[q]
    <3> HIDE DEF f
    <3> QED
      BY <2>1, LeastValue
  <2>3. ASSUME NEW q \in Z PROVE EvidenceScore(q) <= EvidenceScore(a)
    <3>1. 26 - EvidenceScore(a) <= 26 - EvidenceScore(q)
      BY <2>2
    <3> QED
      BY <3>1, <1>1
  <2> QED
    BY <2>3
<1> DEFINE A == {p \in Z : EvidenceScore(p) = EvidenceScore(a)}
<1>4. PICK b \in A : \A q \in A : burden(b) <= burden(q)
  <2> DEFINE f == [p \in A |-> burden(p)]
  <2>1. f \in [A -> Nat] /\ A # {}
    BY <1>1
  <2>2. PICK b \in A : \A q \in A : f[b] <= f[q]
    <3> HIDE DEF f
    <3> QED
      BY <2>1, LeastValue
  <2> QED
    BY <2>2
<1> DEFINE B == {p \in A : burden(p) = burden(b)}
<1>5. PICK c \in B : \A q \in B : rank[c] <= rank[q]
  <2> DEFINE f == [p \in B |-> rank[p]]
  <2>1. f \in [B -> Nat] /\ B # {}
    BY <1>1
  <2>2. PICK c \in B : \A q \in B : f[c] <= f[q]
    <3> HIDE DEF f
    <3> QED
      BY <2>1, LeastValue
  <2> QED
    BY <2>2
<1>6. ASSUME NEW q \in C \ {c}
      PROVE  Before(WitnessKey(c, rank, blocks), WitnessKey(q, rank, blocks))
  <2>0. /\ blocks[c] = blocks[d] /\ blocks[c] <= blocks[q]
        /\ EvidenceScore(c) = EvidenceScore(a) /\ burden(c) = burden(b)
        /\ EvidenceScore(q) \in Int /\ EvidenceScore(c) \in Int
        /\ burden(q) \in Nat /\ burden(c) \in Nat /\ rank[q] \in Nat /\ rank[c] \in Nat
        /\ blocks[q] \in Nat /\ blocks[c] \in Nat
    BY <1>1, <1>2
  <2> DEFINE s == WitnessKey(c, rank, blocks)
             t == WitnessKey(q, rank, blocks)
  <2>s. s = <<blocks[c], -EvidenceScore(c), burden(c), rank[c]>>
    BY DEF WitnessKey
  <2>t. t = <<blocks[q], -EvidenceScore(q), burden(q), rank[q]>>
    BY DEF WitnessKey
  <2> SUFFICES Before(s, t)
    OBVIOUS
  <2> HIDE DEF s, t
  <2>d. DOMAIN s = 1..4
    BY <2>s
  <2>1. CASE blocks[c] < blocks[q]
    <3>1. s[1] < t[1]
      BY <2>1, <2>s, <2>t
    <3>2. 1 \in DOMAIN s /\ \A j \in 1..(1 - 1) : s[j] = t[j]
      BY <2>d
    <3> QED
      BY <3>1, <3>2 DEF Before
  <2>2. CASE blocks[c] = blocks[q] /\ EvidenceScore(q) < EvidenceScore(c)
    <3>1. s[2] < t[2] /\ s[1] = t[1]
      BY <2>0, <2>2, <2>s, <2>t
    <3>2. 2 \in DOMAIN s /\ \A j \in 1..(2 - 1) : s[j] = t[j]
      BY <2>d, <3>1
    <3> QED
      BY <3>1, <3>2 DEF Before
  <2>3. CASE /\ blocks[c] = blocks[q] /\ EvidenceScore(q) = EvidenceScore(c)
             /\ burden(c) < burden(q)
    <3>1. s[3] < t[3] /\ s[1] = t[1] /\ s[2] = t[2]
      BY <2>3, <2>s, <2>t
    <3>2. 3 \in DOMAIN s /\ \A j \in 1..(3 - 1) : s[j] = t[j]
      BY <2>d, <3>1
    <3> QED
      BY <3>1, <3>2 DEF Before
  <2>4. CASE /\ blocks[c] = blocks[q] /\ EvidenceScore(q) = EvidenceScore(c)
             /\ burden(c) = burden(q)
    <3>1. q \in B
      BY <2>4, <2>0
    <3>2. rank[c] <= rank[q] /\ rank[c] # rank[q]
      BY <1>0, <1>5, <3>1 DEF IsInjective
    <3>3. s[4] < t[4] /\ s[1] = t[1] /\ s[2] = t[2] /\ s[3] = t[3]
      BY <3>2, <2>0, <2>4, <2>s, <2>t
    <3>4. 4 \in DOMAIN s /\ \A j \in 1..(4 - 1) : s[j] = t[j]
      BY <2>d, <3>3
    <3> QED
      BY <3>3, <3>4 DEF Before
  <2>5. blocks[c] = blocks[q] => EvidenceScore(q) <= EvidenceScore(c)
    BY <2>0, <1>3
  <2>6. blocks[c] = blocks[q] /\ EvidenceScore(q) = EvidenceScore(c) => burden(c) <= burden(q)
    BY <2>0, <1>4
  <2> QED
    BY <2>0, <2>1, <2>2, <2>3, <2>4, <2>5, <2>6
<1> QED
  BY <1>0, <1>6 DEF IsWitness, C

\* It is the only one: of two different keys, one comes before the other.
LEMMA WitnessUnique ==
    ASSUME NEW members \in SUBSET Providers, checkout \in Memories,
           NEW rank \in [Providers -> Nat], NEW blocks \in [Providers -> Nat],
           NEW p \in members, NEW q \in members,
           IsWitness(p, members, rank, blocks), IsWitness(q, members, rank, blocks)
    PROVE  p = q
<1> SUFFICES ASSUME p # q PROVE FALSE
  OBVIOUS
<1> DEFINE s == WitnessKey(p, rank, blocks)
           t == WitnessKey(q, rank, blocks)
<1>1. Before(s, t) /\ Before(t, s)
  BY DEF IsWitness
<1>2. /\ DOMAIN s = 1..4 /\ DOMAIN t = 1..4
      /\ \A i \in 1..4 : s[i] \in Int /\ t[i] \in Int
  <2>1. EvidenceScore(p) \in Int /\ EvidenceScore(q) \in Int
    BY ScoreType
  <2> QED
    BY <2>1 DEF WitnessKey, Memories
<1> HIDE DEF s, t
<1>3. PICK i \in 1..4 : s[i] < t[i] /\ \A j \in 1..(i - 1) : s[j] = t[j]
  BY <1>1, <1>2 DEF Before
<1>4. PICK k \in 1..4 : t[k] < s[k] /\ \A j \in 1..(k - 1) : t[j] = s[j]
  BY <1>1, <1>2 DEF Before
<1>5. CASE i < k
  <2>1. i \in 1..(k - 1)
    BY <1>5
  <2> QED
    BY <1>2, <1>3, <1>4, <2>1
<1>6. CASE k < i
  <2>1. k \in 1..(i - 1)
    BY <1>6
  <2> QED
    BY <1>2, <1>3, <1>4, <2>1
<1>7. CASE i = k
  BY <1>2, <1>3, <1>4, <1>7
<1> QED
  BY <1>5, <1>6, <1>7

-----------------------------------------------------------------------------
\* plan_batch plans providers of its page only, each eligible one whose family
\* is validated, and one of each family that has an eligible one.
LEMMA PlannedWithin ==
    ASSUME TypeOK
    PROVE
    /\ Planned \subseteq page
    /\ \A p \in page \cap Eligible :
          /\ FamilyOf[p] \in checkout.validated => p \in Planned
          /\ \E q \in Planned : FamilyOf[q] = FamilyOf[p]
<1> DEFINE rows == page \cap Eligible
<1>1. CASE Cardinality(rows) > 1
  <2>1. Planned = Wave(rows, PlanRank, NoBlocks)
    BY <1>1 DEF Planned
  <2>2. ASSUME NEW p \in rows
        PROVE  \E q \in Planned : FamilyOf[q] = FamilyOf[p]
    <3> DEFINE members == Siblings(p, rows)
    <3>1. members \in SUBSET Providers /\ members # {} /\ checkout \in Memories
      BY <2>2 DEF TypeOK, Siblings
    <3>2. PICK q \in members : IsWitness(q, members, PlanRank, NoBlocks)
      <4>1. NoBlocks \in [Providers -> Nat]
        BY DEF NoBlocks
      <4> HIDE DEF members
      <4> QED
        BY <3>1, <4>1, PlanRankIsOrder, WitnessExists
    <3>3. q \in rows /\ FamilyOf[q] = FamilyOf[p]
      BY <3>2 DEF Siblings
    <3>4. Siblings(q, rows) = members
      BY <3>3 DEF Siblings
    <3>5. q \in Wave(rows, PlanRank, NoBlocks)
      BY <3>2, <3>3, <3>4 DEF Wave
    <3> QED
      BY <3>3, <3>5, <2>1
  <2> QED
    BY <2>1, <2>2, WaveWithin
<1>2. CASE ~(Cardinality(rows) > 1)
  <2>1. Planned = rows
    BY <1>2 DEF Planned
  <2> QED
    BY <2>1
<1> QED
  BY <1>1, <1>2

\* Publishing a page preserves the invariant, when the outcome covers the
\* eligible providers of the page whose family is validated, and one of each
\* family.
LEMMA PublishStep ==
    ASSUME IInv, pc = "plan",
           NEW D \in SUBSET page,
           \A p \in page \cap Eligible :
              /\ FamilyOf[p] \in checkout.validated => p \in D
              /\ \E q \in D : FamilyOf[q] = FamilyOf[p],
           NEW outcome \in [D -> Outcomes],
           Publish(outcome)
    PROVE  IInv'
<1> USE CohortAssumption, CohortFacts, BoundAssumption
<1>d. DOMAIN outcome = D
  OBVIOUS
<1>o. \A p \in D : outcome[p].blocks \in 0..MaxBlocks
  BY DEF Outcomes
<1>p. page \subseteq Providers
  BY DEF IInv, TypeOK
<1>m. marks' = [p \in Providers |->
         IF p \in D THEN outcome[p].blocks
         ELSE IF p \in page \/ ~fresh THEN 0 ELSE marks[p]]
  BY <1>d DEF Publish, MergedMarks
<1>t. turn' = [p \in Providers |->
         IF p \notin page THEN turn[p]
         ELSE IF p \notin D THEN "deferred"
         ELSE IF outcome[p].blocks > 0 THEN "blocked" ELSE "planned"]
  BY <1>d DEF Publish
<1>c. completed' = completed \cup page /\ page' = {} /\ pc' = "select"
  BY DEF Publish
<1>1. TypeOK'
  <2>1. marks' \in [Providers -> 0..MaxBlocks]
    BY <1>m, <1>o DEF IInv, TypeOK
  <2>2. turn' \in [Providers -> {"none", "deferred", "planned", "blocked"}]
    BY <1>t DEF IInv, TypeOK
  <2>3. mutations' \subseteq Providers
    BY <1>d, <1>p DEF Publish, MergedMutations, IInv, TypeOK
  <2>4. /\ completed' \subseteq Providers /\ page' \subseteq Providers \ completed'
        /\ (page' # {}) <=> (pc' = "plan")
        /\ pc' \in {"select", "plan"} /\ fresh' \in BOOLEAN
    BY <1>c, <1>p DEF Publish, IInv, TypeOK
  <2>5. /\ checkout' \in Memories /\ ledger' \in Memories
        /\ excused' \subseteq Providers /\ verdicts' \in 0..MaxVerdicts
    BY DEF Publish, IInv, TypeOK, Memories
  <2> QED
    BY <2>1, <2>2, <2>3, <2>4, <2>5 DEF TypeOK
<1>2. MarksAreCurrent'
  <2> SUFFICES ASSUME NEW p \in Providers, marks'[p] > 0
               PROVE  turn'[p] = "blocked"
    BY DEF MarksAreCurrent
  <2>1. CASE p \in D
    BY <2>1, <1>m, <1>t
  <2>2. CASE p \notin D
    <3>1. p \notin page /\ marks[p] > 0
      BY <2>2, <1>m
    <3> QED
      BY <3>1, <1>t DEF IInv, MarksAreCurrent
  <2> QED
    BY <2>1, <2>2
<1>3. ValidatedFansOut'
  <2>1. checkout' = checkout
    BY DEF Publish
  <2> SUFFICES ASSUME NEW p \in completed' \cap Eligible,
                      FamilyOf[p] \in checkout.validated
               PROVE  turn'[p] \in {"planned", "blocked"}
    BY <2>1 DEF ValidatedFansOut, Served
  <2>2. CASE p \in page
    BY <2>2, <1>t, <1>p
  <2>3. CASE p \notin page
    <3>1. p \in completed /\ turn[p] \in {"planned", "blocked"}
      BY <2>3, <1>c DEF IInv, ValidatedFansOut, Served
    <3> QED
      BY <3>1, <2>3, <1>t DEF IInv, TypeOK
  <2> QED
    BY <2>2, <2>3
<1>4. FamiliesServed'
  <2>1. \A q \in Served : q \in Served'
    BY <1>c, <1>t DEF IInv, TypeOK, Served
  <2>2. \A q \in D : q \in Served'
    BY <1>c, <1>t, <1>p DEF Served
  <2> SUFFICES ASSUME NEW p \in completed' \cap Eligible
               PROVE  \E q \in Served' : FamilyOf[q] = FamilyOf[p]
    BY DEF FamiliesServed
  <2>3. CASE p \in page
    BY <2>3, <2>2
  <2>4. CASE p \in completed
    BY <2>4, <2>1 DEF IInv, FamiliesServed
  <2> QED
    BY <2>3, <2>4, <1>c
<1> QED
  BY <1>1, <1>2, <1>3, <1>4 DEF IInv

LEMMA InitInv == Init => IInv
<1> SUFFICES ASSUME Init PROVE IInv
  OBVIOUS
<1>1. NoMemory \in Memories
  BY DEF NoMemory, Memories
<1>2. /\ marks \in [Providers -> 0..MaxBlocks]
      /\ turn \in [Providers -> {"none", "deferred", "planned", "blocked"}]
      /\ verdicts \in 0..MaxVerdicts
  BY BoundAssumption DEF Init, NoBlocks
<1>3. TypeOK
  BY <1>1, <1>2 DEF Init, TypeOK
<1> QED
  BY <1>3 DEF Init, IInv, MarksAreCurrent, ValidatedFansOut, FamiliesServed, NoBlocks

LEMMA SelectInv == IInv /\ SelectPage => IInv'
<1> SUFFICES ASSUME IInv, SelectPage PROVE IInv'
  OBVIOUS
<1> USE CohortAssumption, CohortFacts, BoundAssumption
<1>1. PICK size \in PageSizes, first \in SUBSET Remaining :
         Cardinality(first) = PageLength(size) /\ page' = first
  BY DEF SelectPage
<1>2. /\ IsFiniteSet(Remaining) /\ Cardinality(Remaining) \in Nat
      /\ Cardinality(Remaining) # 0
  <2>1. IsFiniteSet(Remaining)
    BY FS_Subset DEF Remaining
  <2> QED
    BY <2>1, FS_CardinalityType, FS_EmptySet DEF SelectPage
<1>3. size \in 1..12
  BY BoundAssumption
<1>4. PageLength(size) # 0
  BY <1>2, <1>3 DEF PageLength
<1>5. page' # {}
  BY <1>1, <1>4, FS_EmptySet
<1>6. TypeOK'
  BY <1>1, <1>5 DEF IInv, TypeOK, SelectPage, Remaining, Memories
<1> QED
  BY <1>6 DEF IInv, SelectPage, MarksAreCurrent, ValidatedFansOut, FamiliesServed, Served

LEMMA PublishInv == IInv /\ (Bypass \/ PlanPage) => IInv'
<1>1. ASSUME IInv, Bypass PROVE IInv'
  <2> DEFINE outcome == [p \in page |-> [mutation |-> TRUE, blocks |-> 0]]
  <2>1. outcome \in [page -> Outcomes]
    BY BoundAssumption DEF Outcomes
  <2>2. Publish(outcome) /\ pc = "plan"
    BY <1>1 DEF Bypass
  <2> HIDE DEF outcome
  <2> QED
    BY <1>1, <2>1, <2>2, PublishStep
<1>2. ASSUME IInv, PlanPage PROVE IInv'
  <2>1. PICK outcome \in [Planned -> Outcomes] : Publish(outcome)
    BY <1>2 DEF PlanPage
  <2>2. pc = "plan"
    BY <1>2 DEF PlanPage
  <2>3. TypeOK
    BY <1>2 DEF IInv
  <2> QED
    BY <1>2, <2>1, <2>2, <2>3, PlannedWithin, PublishStep
<1> QED
  BY <1>1, <1>2

LEMMA OtherInv == IInv /\ (LosePage \/ NewCycle \/ Verdict) => IInv'
<1> USE CohortAssumption, CohortFacts, BoundAssumption
<1>1. ASSUME IInv, LosePage PROVE IInv'
  <2>1. TypeOK'
    BY <1>1 DEF IInv, TypeOK, LosePage, Memories
  <2> QED
    BY <1>1, <2>1 DEF IInv, LosePage, MarksAreCurrent, ValidatedFansOut, FamiliesServed, Served
<1>2. ASSUME IInv, NewCycle PROVE IInv'
  <2>1. checkout' \in Memories /\ fresh' \in BOOLEAN
    BY <1>2 DEF IInv, TypeOK, NewCycle
  <2>2. TypeOK'
    BY <1>2, <2>1 DEF IInv, TypeOK, NewCycle, Memories
  <2> QED
    BY <1>2, <2>2 DEF IInv, NewCycle, MarksAreCurrent, ValidatedFansOut, FamiliesServed
<1>3. ASSUME IInv, Verdict PROVE IInv'
  <2>1. ledger' \in Memories
    <3>1. PICK p \in mutations :
             \/ ledger' = [ledger EXCEPT !.burden[p] = @ + 1]
             \/ ledger' = [ledger EXCEPT !.burden[p] = 0,
                                         !.validated = @ \cup {FamilyOf[p]}]
      BY <1>3 DEF Verdict
    <3>2. p \in Providers /\ FamilyOf[p] \in Families /\ ledger \in Memories
      BY <1>3 DEF IInv, TypeOK
    <3>3. CASE ledger' = [ledger EXCEPT !.burden[p] = @ + 1]
      BY <3>2, <3>3 DEF Memories
    <3>4. CASE ledger' = [ledger EXCEPT !.burden[p] = 0,
                                        !.validated = @ \cup {FamilyOf[p]}]
      BY <3>2, <3>4 DEF Memories
    <3> QED
      BY <3>1, <3>3, <3>4
  <2>2. verdicts' \in 0..MaxVerdicts
    BY <1>3 DEF IInv, TypeOK, Verdict
  <2>3. TypeOK'
    BY <1>3, <2>1, <2>2 DEF IInv, TypeOK, Verdict, Memories
  <2> QED
    BY <1>3, <2>3 DEF IInv, Verdict, MarksAreCurrent, ValidatedFansOut, FamiliesServed, Served
<1> QED
  BY <1>1, <1>2, <1>3

LEMMA StepInv == IInv /\ [Next]_vars => IInv'
<1>1. IInv /\ UNCHANGED vars => IInv'
  BY DEF IInv, vars, TypeOK, MarksAreCurrent, ValidatedFansOut, FamiliesServed,
         Served, Memories
<1> QED
  BY <1>1, SelectInv, PublishInv, OtherInv DEF Next

LEMMA Invariance == Spec => []IInv
BY InitInv, StepInv, PTL DEF Spec

\* The chain's state is well formed for every cohort and page size, and
\* pages repeat no provider of the cycle.
THEOREM TypeCorrect == Spec => []TypeOK
<1>1. IInv => TypeOK
  BY DEF IInv
<1> QED
  BY <1>1, Invariance, PTL

\* A mark on the branch is always that of the provider's last page, whatever
\* pages, families, verdicts and lost runs came between.
THEOREM MarksCurrent == Spec => []MarksAreCurrent
<1>1. IInv => MarksAreCurrent
  BY DEF IInv
<1> QED
  BY <1>1, Invariance, PTL

\* An eligible provider of a validated family is never processed without a
\* portfolio, although a second wave is computed over its page.
THEOREM FanOut == Spec => []ValidatedFansOut
<1>1. IInv => ValidatedFansOut
  BY DEF IInv
<1> QED
  BY <1>1, Invariance, PTL

\* However pages cut a family, and although the two waves disagree on its
\* witness, no cycle ends with a family that had no portfolio.
THEOREM EveryFamilyServed == Spec => []FamilyCovered
<1>1. IInv => FamilyCovered
  <2> SUFFICES ASSUME IInv, Remaining = {}, NEW p \in Eligible
               PROVE  \E q \in Served : FamilyOf[q] = FamilyOf[p]
    BY DEF FamilyCovered
  <2>1. p \in completed
    BY CohortFacts DEF Remaining
  <2> QED
    BY <2>1 DEF IInv, FamiliesServed
<1> QED
  BY <1>1, Invariance, PTL

-----------------------------------------------------------------------------
(* The witness of a family comes first.  Until a member of a family is seen  *)
(* with a timeout, pages of a cycle take of it only the witness that no      *)
(* timeout decides, as long as some family has had no turn: that family has  *)
(* a member in the wave, which every other provider waits for.               *)

OfFamily(f) == {p \in Providers : FamilyOf[p] = f}

Unexcused(f) == f \notin checkout.validated /\ \A p \in excused : FamilyOf[p] # f

\* With g still to come, taken holds at most the first witness of f.
OnlyWitness(f, g, taken) ==
    (\A p \in taken : FamilyOf[p] # g) =>
        \A p \in taken : FamilyOf[p] = f =>
            IsWitness(p, OfFamily(f), TargetRank, NoBlocks)

WitnessInv ==
    \A f, g \in Families :
        Unexcused(f) =>
            OnlyWitness(f, g, completed) /\ OnlyWitness(f, g, completed \cup page)

\* Without a mark in the family the marks decide nothing.
LEMMA UnmarkedWitness ==
    ASSUME NEW f, NEW p \in Providers, \A q \in OfFamily(f) : marks[q] = 0,
           IsWitness(p, OfFamily(f), TargetRank, marks)
    PROVE  IsWitness(p, OfFamily(f), TargetRank, NoBlocks)
<1>1. \A q \in OfFamily(f) : marks[q] = NoBlocks[q]
  BY DEF NoBlocks, OfFamily
<1>2. /\ Candidates(OfFamily(f), marks) = OfFamily(f)
      /\ Candidates(OfFamily(f), NoBlocks) = OfFamily(f)
  BY <1>1 DEF Candidates, NoBlocks, OfFamily
<1>3. \A q \in OfFamily(f) :
         WitnessKey(q, TargetRank, marks) = WitnessKey(q, TargetRank, NoBlocks)
  BY <1>1 DEF WitnessKey
<1> QED
  BY <1>2, <1>3 DEF IsWitness

LEMMA SelectWitness == IInv /\ WitnessInv /\ SelectPage => WitnessInv'
<1> SUFFICES ASSUME IInv, WitnessInv, SelectPage,
                    NEW f \in Families, NEW g \in Families, Unexcused(f)'
             PROVE  OnlyWitness(f, g, completed)' /\ OnlyWitness(f, g, completed \cup page)'
  BY DEF WitnessInv
<1> DEFINE wave == Wave(Providers, TargetRank, marks)
<1>1. PICK first \in SUBSET Remaining :
        /\ \A p \in first, q \in Remaining \ first : Ahead(p, q, wave)
        /\ page' = first
  BY DEF SelectPage, CohortWave
<1>2. /\ pc = "select" /\ completed' = completed /\ checkout' = checkout
      /\ excused' = excused \cup {p \in Providers : marks[p] > 0}
      /\ page = {}
  BY DEF SelectPage, IInv, TypeOK
<1>3. Unexcused(f) /\ \A q \in OfFamily(f) : marks[q] = 0
  <2>1. \A q \in Providers : marks[q] \in Nat
    BY BoundAssumption DEF IInv, TypeOK
  <2> QED
    BY <1>2, <2>1 DEF Unexcused, OfFamily
<1>4. OnlyWitness(f, g, completed)
  BY <1>3 DEF WitnessInv
<1>5. \A p, members : IsWitness(p, members, TargetRank, NoBlocks)'
                         <=> IsWitness(p, members, TargetRank, NoBlocks)
  BY <1>2 DEF IsWitness, Candidates, WitnessKey
<1>6. OnlyWitness(f, g, completed)'
  BY <1>2, <1>4, <1>5 DEF OnlyWitness, OfFamily
<1>7. ASSUME \A p \in completed \cup first : FamilyOf[p] # g,
             NEW p \in first, FamilyOf[p] = f
      PROVE  IsWitness(p, OfFamily(f), TargetRank, NoBlocks)
  <2>1. PICK q \in OfFamily(g) : IsWitness(q, OfFamily(g), TargetRank, marks)
    <3>1. OfFamily(g) # {} /\ OfFamily(g) \in SUBSET Providers
      BY CohortFacts DEF OfFamily
    <3>2. marks \in [Providers -> Nat] /\ checkout \in Memories
      BY BoundAssumption DEF IInv, TypeOK
    <3> QED
      BY <3>1, <3>2, CohortAssumption, WitnessExists
  <2>2. q \in wave /\ q \in Remaining \ first
    <3>1. Siblings(q, Providers) = OfFamily(g) /\ q \in Providers
      BY <2>1 DEF Siblings, OfFamily
    <3>2. FamilyOf[q] = g
      BY <2>1 DEF OfFamily
    <3> QED
      BY <1>7, <2>1, <3>1, <3>2 DEF Wave, Remaining
  <2>3. p \in wave
    BY <1>1, <2>2 DEF Ahead
  <2>4. p \in Providers /\ Siblings(p, Providers) = OfFamily(f)
    BY <1>7 DEF Siblings, OfFamily, Remaining
  <2>5. IsWitness(p, OfFamily(f), TargetRank, marks)
    BY <1>3, <1>7, <2>3, <2>4 DEF Wave, Unexcused
  <2> QED
    BY <1>3, <2>4, <2>5, UnmarkedWitness
<1>8. OnlyWitness(f, g, completed \cup page)'
  <2> SUFFICES ASSUME \A p \in completed \cup first : FamilyOf[p] # g,
                      NEW p \in completed \cup first, FamilyOf[p] = f
               PROVE  IsWitness(p, OfFamily(f), TargetRank, NoBlocks)
    BY <1>1, <1>2, <1>5 DEF OnlyWitness, OfFamily
  <2>1. CASE p \in first
    BY <1>7, <2>1
  <2>2. CASE p \in completed
    BY <1>4, <2>2 DEF OnlyWitness
  <2> QED
    BY <2>1, <2>2
<1> QED
  BY <1>6, <1>8

\* Every other step leaves a set of taken providers that was there before.
LEMMA OtherWitness ==
    ASSUME IInv, WitnessInv,
           \/ /\ checkout' = checkout /\ excused' = excused
              /\ completed' \in {completed, completed \cup page}
              /\ completed' \cup page' \in {completed, completed \cup page}
           \/ completed' = {} /\ page' = {}
    PROVE  WitnessInv'
<1>1. CASE completed' = {} /\ page' = {}
  BY <1>1 DEF WitnessInv, OnlyWitness
<1>2. CASE /\ checkout' = checkout /\ excused' = excused
           /\ completed' \in {completed, completed \cup page}
           /\ completed' \cup page' \in {completed, completed \cup page}
  <2> SUFFICES ASSUME NEW f \in Families, NEW g \in Families, Unexcused(f)'
               PROVE  OnlyWitness(f, g, completed)' /\ OnlyWitness(f, g, completed \cup page)'
    BY DEF WitnessInv
  <2>1. OnlyWitness(f, g, completed) /\ OnlyWitness(f, g, completed \cup page)
    BY <1>2 DEF WitnessInv, Unexcused
  <2>2. \A p, members : IsWitness(p, members, TargetRank, NoBlocks)'
                           <=> IsWitness(p, members, TargetRank, NoBlocks)
    BY <1>2 DEF IsWitness, Candidates, WitnessKey
  <2> QED
    BY <1>2, <2>1, <2>2 DEF OnlyWitness, OfFamily
<1> QED
  BY <1>1, <1>2

LEMMA WitnessStep == IInv /\ WitnessInv /\ [Next]_vars => WitnessInv'
<1> SUFFICES ASSUME IInv, WitnessInv, [Next]_vars PROVE WitnessInv'
  OBVIOUS
<1>1. CASE SelectPage
  BY <1>1, SelectWitness
<1>2. CASE \E outcome : Publish(outcome)
  BY <1>2, OtherWitness DEF Publish
<1>3. CASE LosePage
  BY <1>3, OtherWitness DEF LosePage
<1>4. CASE NewCycle
  BY <1>4, OtherWitness DEF NewCycle, IInv, TypeOK
<1>5. CASE Verdict \/ UNCHANGED vars
  BY <1>5, OtherWitness DEF Verdict, vars
<1> QED
  BY <1>1, <1>2, <1>3, <1>4, <1>5 DEF Next, Bypass, PlanPage

\* A second member of an unvalidated family has its turn before the first of
\* another family only when a member was seen with a timeout in this cycle.
THEOREM WitnessFirst == Spec => []WitnessesFirst
<1>1. Init => WitnessInv
  BY DEF Init, WitnessInv, OnlyWitness
<1>2. IInv /\ WitnessInv => WitnessesFirst
  <2> SUFFICES ASSUME IInv, WitnessInv,
                      NEW f \in Families, f \notin checkout.validated, NEW g \in Families,
                      {p \in completed \cup page : FamilyOf[p] = g} = {},
                      \A p \in excused : FamilyOf[p] # f
               PROVE  ~(Cardinality({p \in completed \cup page : FamilyOf[p] = f}) > 1)
    BY DEF WitnessesFirst
  <2> DEFINE T == {p \in completed \cup page : FamilyOf[p] = f}
  <2>1. \A p \in T : p \in OfFamily(f) /\ IsWitness(p, OfFamily(f), TargetRank, NoBlocks)
    BY DEF WitnessInv, Unexcused, OnlyWitness, OfFamily, IInv, TypeOK
  <2>2. \A p, q \in T : p = q
    <3>1. /\ OfFamily(f) \in SUBSET Providers /\ NoBlocks \in [Providers -> Nat]
          /\ checkout \in Memories
      BY DEF OfFamily, NoBlocks, IInv, TypeOK
    <3> QED
      BY <2>1, <3>1, WitnessUnique, CohortAssumption
  <2>3. T = {} \/ \E p \in T : T = {p}
    BY <2>2
  <2> HIDE DEF T
  <2>4. Cardinality(T) \in {0, 1}
    BY <2>3, FS_EmptySet, FS_Singleton
  <2> QED
    BY <2>4 DEF T
<1>3. Init => IInv
  BY InitInv
<1>4. IInv /\ [Next]_vars => IInv'
  BY StepInv
<1> QED
  BY <1>1, <1>2, <1>3, <1>4, WitnessStep, PTL DEF Spec
=============================================================================
