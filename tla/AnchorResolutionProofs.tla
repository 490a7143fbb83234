----------------------- MODULE AnchorResolutionProofs -----------------------
(***************************************************************************)
(* Proofs about AnchorResolution, for texts over any letters.              *)
(*                                                                         *)
(* The first half is about the operators: what a slice, a match, a splice  *)
(* and a scan are, letter by letter, that the recursive equations of the   *)
(* scan and of the windows have a solution, and that an edit is the ends   *)
(* it leaves unchanged around what Minimized keeps.  The invariant EditInv  *)
(* follows: whatever is trimmed and widened, the replacement of the anchor  *)
(* at the target is the replacement of the edit at the occurrence selected. *)
(* The last part shows that the occurrence is the one the focus designates. *)
(***************************************************************************)
EXTENDS AnchorResolution, SequenceTheorems, WellFoundedInduction, TLAPS

Texts == Seq(Letters)

-----------------------------------------------------------------------------
(* Pieces of a text.                                                       *)

\* A piece of a text is a text, of its own length and letters.
LEMMA SliceFacts ==
    ASSUME NEW t \in Texts, NEW a \in Nat, NEW b \in Nat, a <= b, b <= Len(t)
    PROVE  /\ Slice(t, a, b) \in Texts
           /\ Len(Slice(t, a, b)) = b - a
           /\ \A k \in 1..(b - a) : Slice(t, a, b)[k] = t[a + k]
<1>1. \A i \in (a + 1)..b : t[i] \in Letters
  BY DEF Texts
<1>2. /\ SubSeq(t, a + 1, b) \in Seq(Letters)
      /\ Len(SubSeq(t, a + 1, b)) = IF a + 1 <= b THEN b - (a + 1) + 1 ELSE 0
      /\ \A i \in 1..(b - (a + 1) + 1) : SubSeq(t, a + 1, b)[i] = t[(a + 1) + i - 1]
  BY <1>1, SubSeqProperties
<1>3. \A k \in 1..(b - a) : k \in 1..(b - (a + 1) + 1) /\ (a + 1) + k - 1 = a + k
  OBVIOUS
<1> QED
  BY <1>2, <1>3 DEF Slice, Texts

\* Pieces that meet, joined.
LEMMA SliceJoin ==
    ASSUME NEW t \in Texts, NEW a \in Nat, NEW b \in Nat, NEW c \in Nat,
           a <= b, b <= c, c <= Len(t)
    PROVE  Slice(t, a, b) \o Slice(t, b, c) = Slice(t, a, c)
<1>1. /\ a + 1 \in 1..(Len(t) + 1) /\ b \in ((a + 1) - 1)..Len(t) /\ c \in b..Len(t)
  BY DEF Texts
<1> QED
  BY <1>1, ConcatAdjacentSubSeq DEF Slice, Texts

LEMMA SliceAll == ASSUME NEW t \in Texts PROVE Slice(t, 0, Len(t)) = t
<1>1. SubSeq(t, 1, Len(t)) = t
  BY SubSeqFull DEF Texts
<1> QED
  BY <1>1 DEF Slice

\* A match, letter by letter.
LEMMA AtLetters ==
    ASSUME NEW t \in Texts, NEW f \in Texts, NEW o \in Nat, o + Len(f) <= Len(t)
    PROVE  At(t, o, f) <=> \A k \in 1..Len(f) : t[o + k] = f[k]
<1>0. Len(f) \in Nat /\ Len(t) \in Nat
  BY DEF Texts
<1> DEFINE s == Slice(t, o, o + Len(f))
<1>1. s \in Texts /\ Len(s) = Len(f) /\ \A k \in 1..Len(f) : s[k] = t[o + k]
  <2> DEFINE e == o + Len(f)
  <2>1. e \in Nat /\ o <= e /\ e <= Len(t) /\ e - o = Len(f)
    BY <1>0
  <2>2. s = Slice(t, o, e)
    OBVIOUS
  <2> HIDE DEF e, s
  <2>3. Slice(t, o, e) \in Texts /\ Len(Slice(t, o, e)) = e - o
        /\ \A k \in 1..(e - o) : Slice(t, o, e)[k] = t[o + k]
    BY <2>1, SliceFacts
  <2> QED
    BY <2>1, <2>2, <2>3
<1> HIDE DEF s
<1>2. (\A k \in 1..Len(f) : s[k] = f[k]) => s = f
  BY <1>1, SeqEqual DEF Texts
<1> QED
  BY <1>1, <1>2 DEF At, s

\* A match of two texts, one after the other.
LEMMA AtConcat ==
    ASSUME NEW t \in Texts, NEW f \in Texts, NEW g \in Texts, NEW o \in Nat,
           o + Len(f) + Len(g) <= Len(t), At(t, o, f \o g)
    PROVE  At(t, o, f) /\ At(t, o + Len(f), g)
<1>0. Len(f) \in Nat /\ Len(g) \in Nat /\ Len(t) \in Nat
  BY DEF Texts
<1>1. /\ f \o g \in Texts /\ Len(f \o g) = Len(f) + Len(g)
      /\ \A k \in 1..Len(f) : (f \o g)[k] = f[k]
      /\ \A k \in 1..Len(g) : (f \o g)[Len(f) + k] = g[k]
  BY <1>0 DEF Texts
<1>2. \A k \in 1..(Len(f) + Len(g)) : t[o + k] = (f \o g)[k]
  <2> DEFINE h == f \o g
  <2>1. h \in Texts /\ Len(h) = Len(f) + Len(g) /\ At(t, o, h) /\ o + Len(h) <= Len(t)
    BY <1>0, <1>1
  <2> HIDE DEF h
  <2>2. \A k \in 1..Len(h) : t[o + k] = h[k]
    BY <2>1, AtLetters
  <2> QED
    BY <2>1, <2>2 DEF h
<1>3. At(t, o, f)
  <2>0. o + Len(f) <= Len(t)
    BY <1>0
  <2>1. \A k \in 1..Len(f) : t[o + k] = f[k]
    BY <1>0, <1>1, <1>2
  <2> QED
    BY <1>0, <2>0, <2>1, AtLetters
<1>4. At(t, o + Len(f), g)
  <2>1. ASSUME NEW k \in 1..Len(g) PROVE t[(o + Len(f)) + k] = g[k]
    <3>1. Len(f) + k \in 1..(Len(f) + Len(g)) /\ o + (Len(f) + k) = (o + Len(f)) + k
      BY <1>0
    <3> QED
      BY <1>1, <1>2, <3>1
  <2>2. o + Len(f) \in Nat /\ (o + Len(f)) + Len(g) <= Len(t)
    BY <1>0
  <2> QED
    BY <2>1, <2>2, AtLetters
<1> QED
  BY <1>3, <1>4

\* A match in a piece is a match in the text, and the reverse.
LEMMA AtInside ==
    ASSUME NEW t \in Texts, NEW f \in Texts, NEW a \in Nat, NEW b \in Nat, NEW o \in Nat,
           a <= b, b <= Len(t), o + Len(f) <= b - a
    PROVE  At(Slice(t, a, b), o, f) <=> At(t, a + o, f)
<1>0. Len(f) \in Nat /\ Len(t) \in Nat
  BY DEF Texts
<1> DEFINE s == Slice(t, a, b)
<1>1. s \in Texts /\ Len(s) = b - a /\ \A k \in 1..(b - a) : s[k] = t[a + k]
  BY SliceFacts
<1> HIDE DEF s
<1>2. \A k \in 1..Len(f) : s[o + k] = t[(a + o) + k]
  <2> SUFFICES ASSUME NEW k \in 1..Len(f) PROVE s[o + k] = t[(a + o) + k]
    OBVIOUS
  <2>1. o + k \in 1..(b - a) /\ a + (o + k) = (a + o) + k
    BY <1>0
  <2> QED
    BY <1>1, <2>1
<1>3. At(s, o, f) <=> \A k \in 1..Len(f) : s[o + k] = f[k]
  BY <1>1, AtLetters
<1>4. At(t, a + o, f) <=> \A k \in 1..Len(f) : t[(a + o) + k] = f[k]
  <2>1. a + o \in Nat /\ (a + o) + Len(f) <= Len(t)
    BY <1>0
  <2> QED
    BY <2>1, AtLetters
<1> QED
  BY <1>2, <1>3, <1>4 DEF s

\* Concatenation, without what the provers know of it but these lemmas.
Cat(x, y) == x \o y

\* Its order of evaluation does not matter.
LEMMA Joined ==
    ASSUME NEW x \in Texts, NEW y \in Texts, NEW z \in Texts
    PROVE  Cat(Cat(x, y), z) = Cat(x, Cat(y, z)) /\ Cat(x, y) \in Texts
BY ConcatAssociative, ConcatProperties DEF Texts, Cat

LEMMA CatLen ==
    ASSUME NEW x \in Texts, NEW y \in Texts
    PROVE  Cat(x, y) \in Texts /\ Len(Cat(x, y)) = Len(x) + Len(y)
BY ConcatProperties DEF Texts, Cat

\* Two texts around three, grouped otherwise.
LEMMA Regroup ==
    ASSUME NEW x \in Texts, NEW p \in Texts, NEW r \in Texts, NEW s \in Texts,
           NEW y \in Texts
    PROVE  Cat(Cat(x, Cat(Cat(p, r), s)), y) = Cat(Cat(Cat(x, p), r), Cat(s, y))
<1>1. /\ Cat(x, p) \in Texts /\ Cat(p, r) \in Texts /\ Cat(Cat(x, p), r) \in Texts
  BY Joined
<1>2. Cat(x, Cat(Cat(p, r), s)) = Cat(Cat(x, Cat(p, r)), s)
  BY <1>1, Joined
<1>3. Cat(x, Cat(p, r)) = Cat(Cat(x, p), r)
  BY Joined
<1>4. Cat(Cat(Cat(Cat(x, p), r), s), y) = Cat(Cat(Cat(x, p), r), Cat(s, y))
  BY <1>1, Joined
<1> QED
  BY <1>2, <1>3, <1>4

\* What is before a piece and after it, with more of the text.
LEMMA SliceEnds ==
    ASSUME NEW t \in Texts, NEW o \in Nat, NEW a \in Nat, NEW b \in Nat, NEW c \in Nat,
           o <= a, a <= b, b <= c, c <= Len(t)
    PROVE  /\ Cat(Slice(t, 0, o), Slice(t, o, a)) = Slice(t, 0, a)
           /\ Cat(Slice(t, b, c), Slice(t, c, Len(t))) = Slice(t, b, Len(t))
           /\ Slice(t, 0, o) \in Texts /\ Slice(t, c, Len(t)) \in Texts
<1> DEFINE n == Len(t)
<1>0. n \in Nat /\ 0 <= o /\ a <= n /\ o <= n /\ n <= n
  BY DEF Texts
<1> HIDE DEF n
<1>1. c <= n
  BY DEF n
<1>2. Cat(Slice(t, 0, o), Slice(t, o, a)) = Slice(t, 0, a)
  BY <1>0, SliceJoin DEF n, Cat
<1>3. Cat(Slice(t, b, c), Slice(t, c, n)) = Slice(t, b, n)
  BY <1>0, <1>1, SliceJoin DEF n, Cat
<1>4. Slice(t, 0, o) \in Texts
  BY <1>0, SliceFacts DEF n
<1>5. Slice(t, c, n) \in Texts
  BY <1>0, <1>1, SliceFacts DEF n
<1> QED
  BY <1>2, <1>3, <1>4, <1>5 DEF n

\* The occurrence of a longer text, replaced with its ends kept, is the
\* occurrence of the shorter one replaced.
LEMMA SpliceWithin ==
    ASSUME NEW t \in Texts, NEW p \in Texts, NEW f \in Texts, NEW s \in Texts,
           NEW r \in Texts, NEW o \in Nat,
           o + Len(Cat(Cat(p, f), s)) <= Len(t), At(t, o, Cat(Cat(p, f), s))
    PROVE  /\ Splice(t, o, Cat(Cat(p, f), s), Cat(Cat(p, r), s))
                = Splice(t, o + Len(p), f, r)
           /\ At(t, o + Len(p), f)
           /\ o + Len(p) + Len(f) <= Len(t)
<1>0. Len(p) \in Nat /\ Len(f) \in Nat /\ Len(s) \in Nat /\ Len(t) \in Nat
  BY DEF Texts
<1> DEFINE pf == Cat(p, f)
           h == Cat(pf, s)
           g == Cat(Cat(p, r), s)
<1>1. /\ pf \in Texts /\ Len(pf) = Len(p) + Len(f)
      /\ h \in Texts /\ Len(h) = Len(p) + Len(f) + Len(s)
  <2>1. pf \in Texts /\ Len(pf) = Len(p) + Len(f)
    BY CatLen
  <2> HIDE DEF pf
  <2> QED
    BY <2>1, CatLen
<1>2. At(t, o, pf) /\ At(t, o + Len(pf), s)
  <2>1. o + Len(pf) + Len(s) <= Len(t) /\ At(t, o, pf \o s)
    BY <1>0, <1>1 DEF Cat
  <2> HIDE DEF pf
  <2> QED
    BY <1>1, <2>1, AtConcat
<1>3. At(t, o, p) /\ At(t, o + Len(p), f)
  <2>1. o + Len(p) + Len(f) <= Len(t) /\ At(t, o, p \o f)
    BY <1>0, <1>1, <1>2 DEF Cat
  <2> QED
    BY <2>1, AtConcat
<1> DEFINE a == o + Len(p)
           b == a + Len(f)
           c == b + Len(s)
<1>4. /\ a \in Nat /\ b \in Nat /\ c \in Nat /\ o <= a /\ a <= b /\ b <= c /\ c <= Len(t)
      /\ o + Len(pf) = b /\ o + Len(h) = c
  BY <1>0, <1>1
<1>5. p = Slice(t, o, a) /\ s = Slice(t, b, c)
  BY <1>2, <1>3, <1>4 DEF At
<1>6. Splice(t, o, h, g) = Cat(Cat(Slice(t, 0, o), g), Slice(t, c, Len(t)))
  BY <1>4 DEF Splice, Cat
<1>7. Splice(t, a, f, r) = Cat(Cat(Slice(t, 0, a), r), Slice(t, b, Len(t)))
  BY DEF Splice, Cat
<1> HIDE DEF a, b, c, h
<1>8. PICK x \in Texts : x = Slice(t, 0, o)
  BY <1>4, SliceEnds
<1>9. PICK y \in Texts : y = Slice(t, c, Len(t))
  BY <1>4, SliceEnds
<1>10. Cat(x, p) = Slice(t, 0, a) /\ Cat(s, y) = Slice(t, b, Len(t))
  BY <1>4, <1>5, <1>8, <1>9, SliceEnds
<1>11. Cat(Cat(x, g), y) = Cat(Cat(Cat(x, p), r), Cat(s, y))
  BY Regroup
<1>12. Splice(t, o, h, g) = Splice(t, a, f, r)
  BY <1>6, <1>7, <1>8, <1>9, <1>10, <1>11
<1> QED
  BY <1>3, <1>4, <1>12 DEF a, b, h

-----------------------------------------------------------------------------
(* The scan: that its recursive equation has a solution, and what it finds.  *)

ScanStep(g, t, f, o) ==
    IF o + Len(f) > Len(t) THEN <<>>
    ELSE IF At(t, o, f) THEN <<o>> \o g[o + Greatest(1, Len(f))]
    ELSE g[o + 1]

IsScan(g, t, f) == g = [o \in Nat |-> ScanStep(g, t, f, o)]

\* Induction, for a set of natural numbers closed under successors.
LEMMA SetInduction ==
    ASSUME NEW P \in SUBSET Nat, 0 \in P, \A n \in P : n + 1 \in P
    PROVE  P = Nat
<1> SUFFICES ASSUME Nat \ P # {} PROVE FALSE
  OBVIOUS
<1> DEFINE R == OpToRel(<, Nat)
<1>1. PICK n \in Nat \ P : \A y \in Nat \ P : ~(<<y, n>> \in R)
  BY WFMin, NatLessThanWellFounded
<1>2. \A y \in Nat \ P : ~(y < n)
  BY <1>1 DEF OpToRel
<1> HIDE DEF R
<1>3. n \in Nat /\ n \notin P /\ n # 0
  BY <1>1
<1>4. n - 1 \in Nat /\ n - 1 < n /\ (n - 1) + 1 = n
  BY <1>3
<1> QED
  BY <1>2, <1>3, <1>4

\* A scan moves on.
LEMMA Ahead ==
    ASSUME NEW f \in Texts, NEW o \in Nat
    PROVE  /\ Len(f) \in Nat /\ o + 1 \in Nat
           /\ o + Greatest(1, Len(f)) \in Nat /\ o + Greatest(1, Len(f)) >= o + 1
           /\ o + Greatest(1, Len(f)) = o + 1 \/ o + Greatest(1, Len(f)) = o + Len(f)
<1>1. Len(f) \in Nat
  BY DEF Texts
<1> QED
  BY <1>1 DEF Greatest

\* The scan is defined: from the end of the text back to its beginning.
LEMMA ScanExists ==
    ASSUME NEW t \in Texts, NEW f \in Texts
    PROVE  \E g : IsScan(g, t, f)
<1> DEFINE Behind(g, k) ==
             /\ g = [o \in Nat |-> g[o]]
             /\ \A o \in Nat : o + k > Len(t) => g[o] = ScanStep(g, t, f, o)
           P == {k \in Nat : \E g : Behind(g, k)}
<1>0. Len(t) \in Nat /\ Len(f) \in Nat
  BY DEF Texts
<1>1. 0 \in P
  <2> DEFINE g == [o \in Nat |-> <<>>]
  <2>1. \A o \in Nat : o + 0 > Len(t) => g[o] = ScanStep(g, t, f, o)
    BY <1>0 DEF ScanStep
  <2>2. Behind(g, 0)
    BY <2>1
  <2> HIDE DEF Behind, g
  <2> QED
    BY <2>2
<1>2. ASSUME NEW k \in P PROVE k + 1 \in P
  <2>1. PICK g : Behind(g, k)
    OBVIOUS
  <2> DEFINE h == [o \in Nat |-> IF o + k > Len(t) THEN g[o] ELSE ScanStep(g, t, f, o)]
  <2>2. ASSUME NEW o \in Nat, o + (k + 1) > Len(t) PROVE h[o] = ScanStep(h, t, f, o)
    <3>1. h[o] = ScanStep(g, t, f, o)
      BY <2>1
    <3> DEFINE n == o + Greatest(1, Len(f))
    <3>2. n \in Nat /\ n >= o + 1 /\ o + 1 \in Nat
      BY Ahead
    <3> HIDE DEF n
    <3>3. n + k > Len(t) /\ (o + 1) + k > Len(t)
      BY <1>0, <2>2, <3>2
    <3>4. h[n] = g[n] /\ h[o + 1] = g[o + 1]
      BY <3>2, <3>3
    <3> HIDE DEF h
    <3> QED
      BY <3>1, <3>4 DEF ScanStep, n
  <2>3. Behind(h, k + 1)
    BY <2>2
  <2> HIDE DEF Behind, h
  <2> QED
    BY <2>3
<1>3. P = Nat
  <2> HIDE DEF P
  <2>1. P \in SUBSET Nat
    BY DEF P
  <2> QED
    BY <1>1, <1>2, <2>1, SetInduction
<1>4. PICK g : Behind(g, Len(t) + 1)
  <2>1. Len(t) + 1 \in P
    <3>1. Len(t) + 1 \in Nat
      BY <1>0
    <3> HIDE DEF P
    <3> QED
      BY <1>3, <3>1
  <2> HIDE DEF Behind
  <2> QED
    BY <2>1
<1>5. \A o \in Nat : o + (Len(t) + 1) > Len(t)
  BY <1>0
<1>6. g = [o \in Nat |-> ScanStep(g, t, f, o)]
  BY <1>4, <1>5
<1> QED
  BY <1>6 DEF IsScan

Apart(t, f) == \A o, p \in Matches(t, f) : o < p => o + Len(f) <= p

\* The definition of a match.
LEMMA MatchFacts ==
    ASSUME NEW t \in Texts, NEW f \in Texts
    PROVE  \A o : o \in Matches(t, f) <=> o \in Nat /\ o + Len(f) <= Len(t) /\ At(t, o, f)
<1>1. Len(t) \in Nat /\ Len(f) \in Nat
  BY DEF Texts
<1> QED
  BY <1>1 DEF Matches

LEMMA Prepended ==
    ASSUME NEW M, NEW x \in M, NEW s \in Seq(M)
    PROVE  /\ <<x>> \o s \in Seq(M)
           /\ 1 \in DOMAIN (<<x>> \o s) /\ (<<x>> \o s)[1] = x
           /\ \A i \in DOMAIN s : i + 1 \in DOMAIN (<<x>> \o s) /\ (<<x>> \o s)[i + 1] = s[i]
OBVIOUS

\* Whatever a scan returns is a match; when matches are apart it returns all.
LEMMA ScanFacts ==
    ASSUME NEW t \in Texts, NEW f \in Texts
    PROVE  /\ Scan(t, f) \in Seq(Matches(t, f))
           /\ Apart(t, f) => \A m \in Matches(t, f) :
                                \E i \in DOMAIN Scan(t, f) : Scan(t, f)[i] = m
<1> DEFINE M == Matches(t, f)
           g == CHOOSE h : IsScan(h, t, f)
           All(o) == \A m \in M : m >= o => \E i \in DOMAIN g[o] : g[o][i] = m
           Good(o) == g[o] \in Seq(M) /\ (Apart(t, f) => All(o))
           P == {k \in Nat : \A o \in Nat : o + k > Len(t) => Good(o)}
<1>0. Len(t) \in Nat /\ Len(f) \in Nat
  BY DEF Texts
<1>1. Scan(t, f) = g[0]
  BY DEF Scan, IsScan, ScanStep
<1>2. IsScan(g, t, f)
  BY ScanExists
<1> HIDE DEF g
<1>3. \A o \in Nat : g[o] = ScanStep(g, t, f, o)
  BY <1>2 DEF IsScan
<1>4. 0 \in P
  <2> SUFFICES ASSUME NEW o \in Nat, o + 0 > Len(t) PROVE Good(o)
    OBVIOUS
  <2>0. o + Len(f) > Len(t)
    BY <1>0
  <2>1. g[o] = <<>>
    <3>1. g[o] = ScanStep(g, t, f, o)
      BY <1>3
    <3> QED
      BY <2>0, <3>1 DEF ScanStep
  <2>2. \A m \in M : ~(m >= o)
    BY <1>0, MatchFacts
  <2> QED
    BY <2>1, <2>2
<1>5. ASSUME NEW k \in P PROVE k + 1 \in P
  <2> SUFFICES ASSUME NEW o \in Nat, o + (k + 1) > Len(t) PROVE Good(o)
    OBVIOUS
  <2> DEFINE n == o + Greatest(1, Len(f))
  <2>1. /\ n \in Nat /\ n >= o + 1 /\ o + 1 \in Nat
        /\ n = o + 1 \/ n = o + Len(f)
    BY Ahead
  <2> HIDE DEF n
  <2>2. Good(n) /\ Good(o + 1)
    <3>1. n + k > Len(t) /\ (o + 1) + k > Len(t)
      BY <1>0, <2>1
    <3> HIDE DEF Good
    <3> QED
      BY <2>1, <3>1
  <2>3. CASE o + Len(f) > Len(t)
    <3>1. g[o] = <<>>
      BY <1>3, <2>3 DEF ScanStep
    <3>2. \A m \in M : ~(m >= o)
      BY <1>0, <2>3, MatchFacts
    <3> QED
      BY <3>1, <3>2
  <2>4. CASE o + Len(f) <= Len(t) /\ ~At(t, o, f)
    <3>1. g[o] = g[o + 1]
      <4>1. g[o] = ScanStep(g, t, f, o) /\ ~(o + Len(f) > Len(t))
        BY <1>0, <1>3, <2>4
      <4> QED
        BY <2>4, <4>1 DEF ScanStep
    <3>2. \A m \in M : m >= o => m >= o + 1
      BY <1>0, <2>4, MatchFacts
    <3> QED
      BY <2>2, <3>1, <3>2
  <2>5. CASE o + Len(f) <= Len(t) /\ At(t, o, f)
    <3>1. g[o] = <<o>> \o g[n]
      <4>1. g[o] = ScanStep(g, t, f, o) /\ ~(o + Len(f) > Len(t))
        BY <1>0, <1>3, <2>5
      <4> QED
        BY <2>5, <4>1 DEF ScanStep, n
    <3>2. o \in M
      BY <2>5, MatchFacts
    <3> DEFINE rest == g[n]
    <3>3. rest \in Seq(M)
      BY <2>2
    <3>4. Apart(t, f) => \A m \in M : m >= n => \E i \in DOMAIN rest : rest[i] = m
      BY <2>2
    <3>5. /\ g[o] \in Seq(M) /\ 1 \in DOMAIN g[o] /\ g[o][1] = o
          /\ \A i \in DOMAIN rest : i + 1 \in DOMAIN g[o] /\ g[o][i + 1] = rest[i]
      <4> HIDE DEF rest, M
      <4>1. g[o] = <<o>> \o rest
        BY <3>1 DEF rest
      <4> QED
        BY <3>2, <3>3, <4>1, Prepended
    <3>6. ASSUME Apart(t, f), NEW m \in M, m >= o
          PROVE  \E i \in DOMAIN g[o] : g[o][i] = m
      <4>1. CASE m = o
        BY <3>5, <4>1
      <4>2. CASE m # o
        <5>1. m \in Nat /\ o < m
          BY <3>6, <4>2, MatchFacts
        <5>2. o + Len(f) <= m
          BY <3>2, <3>6, <5>1 DEF Apart
        <5>3. m >= n
          BY <1>0, <2>1, <5>1, <5>2
        <5>4. PICK i \in DOMAIN rest : rest[i] = m
          BY <3>4, <3>6, <5>3
        <5> QED
          BY <3>5, <5>4
      <4> QED
        BY <4>1, <4>2
    <3> QED
      BY <3>5, <3>6
  <2> QED
    BY <1>0, <2>3, <2>4, <2>5
<1>6. P = Nat
  <2>1. P \in SUBSET Nat
    OBVIOUS
  <2> HIDE DEF P
  <2> QED
    BY <1>4, <1>5, <2>1, SetInduction
<1>7. Good(0)
  <2>1. Len(t) + 1 \in Nat /\ 0 + (Len(t) + 1) > Len(t)
    BY <1>0
  <2>2. Len(t) + 1 \in P
    <3> HIDE DEF P
    <3> QED
      BY <1>6, <2>1
  <2> HIDE DEF Good
  <2> QED
    BY <2>1, <2>2
<1>8. \A m \in M : m >= 0
  BY MatchFacts
<1> QED
  BY <1>1, <1>7, <1>8

-----------------------------------------------------------------------------
(* Recursion along 0..N.                                                    *)

Solves(f, N, base, step) ==
    \A n \in 0..N : f[n] = IF n = 0 THEN base ELSE step[n][f[n - 1]]

LEMMA RecursionExists ==
    ASSUME NEW N \in Nat, NEW V, NEW base \in V, NEW step \in [1..N -> [V -> V]]
    PROVE  \E f \in [0..N -> V] : Solves(f, N, base, step)
<1> DEFINE Upto(f, m) == \A n \in 0..m : f[n] = IF n = 0 THEN base ELSE step[n][f[n - 1]]
           P == {m \in Nat : m <= N => \E f \in [0..N -> V] : Upto(f, m)}
<1>1. 0 \in P
  <2> DEFINE f == [n \in 0..N |-> base]
  <2>1. f \in [0..N -> V] /\ Upto(f, 0)
    OBVIOUS
  <2> HIDE DEF f, Upto
  <2> QED
    BY <2>1
<1>2. ASSUME NEW m \in P PROVE m + 1 \in P
  <2> SUFFICES ASSUME m + 1 <= N PROVE \E f \in [0..N -> V] : Upto(f, m + 1)
    OBVIOUS
  <2>0. m \in Nat /\ m <= N /\ m + 1 \in 1..N /\ m \in 0..N
    OBVIOUS
  <2>1. PICK f \in [0..N -> V] : Upto(f, m)
    BY <2>0
  <2> DEFINE h == [f EXCEPT ![m + 1] = step[m + 1][f[m]]]
  <2>2. h \in [0..N -> V]
    BY <2>0
  <2>3. ASSUME NEW n \in 0..(m + 1)
        PROVE  h[n] = IF n = 0 THEN base ELSE step[n][h[n - 1]]
    <3>1. CASE n = m + 1
      <4>1. h[n] = step[n][f[m]] /\ n # 0 /\ n - 1 = m
        BY <2>0, <3>1
      <4>2. h[m] = f[m]
        BY <2>0
      <4> QED
        BY <4>1, <4>2
    <3>2. CASE n # m + 1
      <4>1. n \in 0..m /\ n \in 0..N
        BY <2>0, <3>2
      <4>2. h[n] = f[n]
        BY <3>2, <4>1
      <4>3. n # 0 => h[n - 1] = f[n - 1]
        BY <2>0, <4>1
      <4>4. f[n] = IF n = 0 THEN base ELSE step[n][f[n - 1]]
        BY <2>1, <4>1
      <4> QED
        BY <4>2, <4>3, <4>4
    <3> QED
      BY <3>1, <3>2
  <2>4. Upto(h, m + 1)
    BY <2>3
  <2> HIDE DEF h, Upto
  <2> QED
    BY <2>2, <2>4
<1>3. P = Nat
  <2>1. P \in SUBSET Nat
    OBVIOUS
  <2> HIDE DEF P
  <2> QED
    BY <1>1, <1>2, <2>1, SetInduction
<1>4. N \in P
  <2> HIDE DEF P
  <2> QED
    BY <1>3
<1> QED
  BY <1>4 DEF Solves

LEMMA RecursionStays ==
    ASSUME NEW N \in Nat, NEW V, NEW f, f[0] \in V,
           \A n \in 1..N : f[n - 1] \in V => f[n] \in V
    PROVE  f[N] \in V
<1> DEFINE P == {m \in Nat : m <= N => f[m] \in V}
<1>1. 0 \in P
  OBVIOUS
<1>2. ASSUME NEW m \in P PROVE m + 1 \in P
  <2> SUFFICES ASSUME m + 1 <= N PROVE f[m + 1] \in V
    OBVIOUS
  <2>1. m + 1 \in 1..N /\ (m + 1) - 1 = m /\ f[m] \in V
    OBVIOUS
  <2> QED
    BY <2>1
<1>3. P = Nat
  <2>1. P \in SUBSET Nat
    OBVIOUS
  <2> HIDE DEF P
  <2> QED
    BY <1>1, <1>2, <2>1, SetInduction
<1>4. N \in P
  <2> HIDE DEF P
  <2> QED
    BY <1>3
<1> QED
  BY <1>4

-----------------------------------------------------------------------------
(* The windows are pieces of the source.                                    *)

IntervalType ==
    {i \in [from : Nat, to : Nat, focus : Int] : i.from <= i.to /\ i.to <= Len(source)}

WindowType ==
    {w \in [offset : Nat, text : Texts, focus : Nat] :
        /\ w.offset + Len(w.text) <= Len(source)
        /\ w.text = Slice(source, w.offset, w.offset + Len(w.text))}

\* Each way to build windows builds pieces of the source.
LEMMA WindowTyped ==
    ASSUME source \in Texts, NEW from \in Nat, NEW to \in Nat, NEW focus \in Int,
           from <= to, to <= Len(source)
    PROVE  Window(from, to, focus) \in WindowType
<1>1. /\ Slice(source, from, to) \in Texts
      /\ Len(Slice(source, from, to)) = to - from
  BY SliceFacts
<1>2. Greatest(0, Least(to - from - 1, focus - from)) \in Nat
  BY DEF Greatest, Least
<1>3. from + (to - from) = to
  OBVIOUS
<1> QED
  BY <1>1, <1>2, <1>3 DEF Window, WindowType

Around(focus) ==
    [from |-> Greatest(0, focus - Before),
     to |-> Least(Len(source), focus + 1 + After), focus |-> focus]

Keep(kept, new) ==
    IF \/ Len(kept) = MaxWindows
       \/ \E i \in DOMAIN kept : new.from < kept[i].to /\ new.to > kept[i].from
    THEN kept
    ELSE Append(kept, new)

IsIntervals(g, focuses) ==
    g = [n \in 0..Len(focuses) |->
            IF n = 0 THEN <<>> ELSE Keep(g[n - 1], Around(focuses[n]))]

LEMMA IntervalsTyped ==
    ASSUME source \in Texts, NEW focuses \in Seq(Nat),
           \A i \in DOMAIN focuses : focuses[i] < Len(source)
    PROVE  Intervals(focuses) \in Seq(IntervalType)
<1> DEFINE N == Len(focuses)
           V == Seq(IntervalType)
           step == [n \in 1..N |-> [v \in V |-> Keep(v, Around(focuses[n]))]]
           g == CHOOSE h : IsIntervals(h, focuses)
<1>0. N \in Nat /\ Len(source) \in Nat /\ <<>> \in V
  BY DEF Texts
<1>1. ASSUME NEW n \in 1..N PROVE Around(focuses[n]) \in IntervalType
  <2>1. focuses[n] \in Nat /\ focuses[n] < Len(source)
    OBVIOUS
  <2>2. Before \in Nat /\ After \in Nat
    BY LimitsAssumption
  <2> DEFINE from == Greatest(0, focuses[n] - Before)
             to == Least(Len(source), focuses[n] + 1 + After)
  <2>3. PICK focus \in Nat : focus = focuses[n]
    BY <2>1
  <2>4. from \in Nat /\ from <= focus
    BY <2>2, <2>3 DEF Greatest
  <2>5. to \in Nat /\ focus <= to /\ to <= Len(source)
    BY <1>0, <2>1, <2>2, <2>3 DEF Least
  <2>6. from <= to
    BY <2>4, <2>5
  <2>7. Around(focuses[n]) = [from |-> from, to |-> to, focus |-> focus]
    BY <2>3 DEF Around
  <2> HIDE DEF from, to
  <2> QED
    BY <2>4, <2>5, <2>6, <2>7 DEF IntervalType
<1>2. ASSUME NEW n \in 1..N, NEW v \in V PROVE Keep(v, Around(focuses[n])) \in V
  BY <1>1 DEF Keep
<1> HIDE DEF V, N
<1>3. step \in [1..N -> [V -> V]]
  BY <1>2
<1> HIDE DEF step
<1>4. PICK f \in [0..N -> V] : Solves(f, N, <<>>, step)
  BY <1>0, <1>3, RecursionExists
<1>5. \A n \in 0..N : f[n] = IF n = 0 THEN <<>> ELSE Keep(f[n - 1], Around(focuses[n]))
  <2> SUFFICES ASSUME NEW n \in 0..N, n # 0
               PROVE  f[n] = Keep(f[n - 1], Around(focuses[n]))
    BY <1>4 DEF Solves
  <2>1. n \in 1..N /\ n - 1 \in 0..N /\ f[n - 1] \in V
    BY <1>0
  <2> QED
    BY <1>4, <2>1 DEF step, Solves
<1>6. IsIntervals(f, focuses)
  <2>1. f = [n \in 0..N |-> f[n]]
    OBVIOUS
  <2> QED
    BY <1>5, <2>1 DEF IsIntervals, N
<1>7. IsIntervals(g, focuses)
  BY <1>6
<1>8. Intervals(focuses) = g[N]
  BY DEF Intervals, IsIntervals, Keep, Around, N
<1> HIDE DEF g
<1>9. /\ g[0] = <<>>
      /\ \A n \in 1..N : g[n] = Keep(g[n - 1], Around(focuses[n]))
  BY <1>0, <1>7 DEF IsIntervals, N
<1>10. g[N] \in V
  <2>1. \A n \in 1..N : g[n - 1] \in V => g[n] \in V
    BY <1>2, <1>9
  <2> QED
    BY <1>0, <1>9, <2>1, RecursionStays
<1> QED
  BY <1>8, <1>10 DEF V

CutStep(rest, i) ==
    LET to == Least(i.to, i.from + rest.left)
    IN  IF rest.left = 0 THEN rest
        ELSE [rows |-> Append(rest.rows, Window(i.from, to, i.focus)),
              left |-> rest.left - (to - i.from)]

IsCut(g, intervals) ==
    g = [n \in 0..Len(intervals) |->
            IF n = 0 THEN [rows |-> <<>>, left |-> MaxChars]
            ELSE CutStep(g[n - 1], intervals[n])]

LEMMA CutTyped ==
    ASSUME source \in Texts, NEW intervals \in Seq(IntervalType)
    PROVE  Cut(intervals) \in Seq(WindowType)
<1> DEFINE N == Len(intervals)
           V == [rows : Seq(WindowType), left : Nat]
           base == [rows |-> <<>>, left |-> MaxChars]
           step == [n \in 1..N |-> [v \in V |-> CutStep(v, intervals[n])]]
           g == CHOOSE h : IsCut(h, intervals)
<1>0. N \in Nat /\ Len(source) \in Nat /\ base \in V
  BY LimitsAssumption DEF Texts
<1>2. ASSUME NEW n \in 1..N, NEW v \in V PROVE CutStep(v, intervals[n]) \in V
  <2> DEFINE i == intervals[n]
             to == Least(i.to, i.from + v.left)
  <2>1. /\ i.from \in Nat /\ i.to \in Nat /\ i.focus \in Int
        /\ i.from <= i.to /\ i.to <= Len(source)
    BY DEF IntervalType
  <2>2. to \in Nat /\ i.from <= to /\ to <= Len(source) /\ to - i.from <= v.left
    BY <1>0, <2>1 DEF Least
  <2>3. Window(i.from, to, i.focus) \in WindowType
    <3> HIDE DEF to, i
    <3> QED
      BY <2>1, <2>2, WindowTyped
  <2>4. CutStep(v, i) = IF v.left = 0 THEN v
           ELSE [rows |-> Append(v.rows, Window(i.from, to, i.focus)),
                 left |-> v.left - (to - i.from)]
    BY DEF CutStep
  <2> HIDE DEF i, to
  <2>5. v.left - (to - i.from) \in Nat /\ Append(v.rows, Window(i.from, to, i.focus)) \in Seq(WindowType)
    BY <2>1, <2>2, <2>3
  <2>6. CutStep(v, i) \in V
    BY <2>4, <2>5
  <2> QED
    BY <2>6 DEF i
<1> HIDE DEF V, N, base
<1>3. step \in [1..N -> [V -> V]]
  BY <1>2
<1> HIDE DEF step
<1>4. PICK f \in [0..N -> V] : Solves(f, N, base, step)
  BY <1>0, <1>3, RecursionExists
<1>5. \A n \in 0..N : f[n] = IF n = 0 THEN base ELSE CutStep(f[n - 1], intervals[n])
  <2> SUFFICES ASSUME NEW n \in 0..N, n # 0
               PROVE  f[n] = CutStep(f[n - 1], intervals[n])
    BY <1>4 DEF Solves
  <2>1. n \in 1..N /\ n - 1 \in 0..N /\ f[n - 1] \in V
    BY <1>0
  <2> QED
    BY <1>4, <2>1 DEF step, Solves
<1>6. IsCut(f, intervals)
  <2>1. f = [n \in 0..N |-> f[n]]
    OBVIOUS
  <2> QED
    BY <1>5, <2>1 DEF IsCut, N, base
<1>7. IsCut(g, intervals)
  BY <1>6
<1>8. Cut(intervals) = g[N].rows
  BY DEF Cut, IsCut, CutStep, N
<1> HIDE DEF g
<1>9. /\ g[0] = base
      /\ \A n \in 1..N : g[n] = CutStep(g[n - 1], intervals[n])
  BY <1>0, <1>7 DEF IsCut, N, base
<1>10. g[N] \in V
  <2>1. \A n \in 1..N : g[n - 1] \in V => g[n] \in V
    BY <1>2, <1>9
  <2> QED
    BY <1>0, <1>9, <2>1, RecursionStays
<1> QED
  BY <1>8, <1>10 DEF V

LEMMA WindowsTyped ==
    ASSUME source \in Texts, NEW focuses \in Seq(Nat),
           \A i \in DOMAIN focuses : focuses[i] < Len(source)
    PROVE  SourceWindows(focuses) \in Seq(WindowType)
<1> DEFINE n == Len(source)
<1>0. n \in Nat /\ MaxChars \in Nat /\ MaxChars >= 1
  BY LimitsAssumption DEF Texts
<1>1. CASE n <= MaxChars
  <2> DEFINE focus == IF focuses = <<>> THEN n \div 2 ELSE Head(focuses)
  <2>1. focus \in Int
    BY <1>0
  <2> HIDE DEF focus
  <2>2. Window(0, n, focus) \in WindowType
    BY <1>0, <2>1, WindowTyped
  <2>3. SourceWindows(focuses) = <<Window(0, n, focus)>>
    BY <1>1 DEF SourceWindows, focus
  <2> QED
    BY <2>2, <2>3
<1>2. CASE ~(n <= MaxChars)
  <2>1. CASE focuses = <<>>
    <3> DEFINE head == MaxChars \div 2
    <3>1. head \in Nat /\ head <= MaxChars
      BY <1>0
    <3> DEFINE tail == MaxChars - head
               first == [from |-> 0, to |-> head, focus |-> Least(head \div 2, head - 1)]
               last == [from |-> n - tail, to |-> n, focus |-> n - Greatest(1, tail \div 2)]
    <3>2. HeadAndTail = <<first, last>>
      BY DEF HeadAndTail
    <3> HIDE DEF head
    <3>3. tail \in Nat /\ tail <= n /\ n - tail \in Nat /\ head <= n
      BY <1>0, <1>2, <3>1
    <3>4. Least(head \div 2, head - 1) \in Int
      BY <3>1 DEF Least
    <3> HIDE DEF tail
    <3>5. n - Greatest(1, tail \div 2) \in Int
      BY <1>0, <3>3 DEF Greatest
    <3> HIDE DEF n
    <3>6. first \in IntervalType /\ last \in IntervalType
      BY <1>0, <3>1, <3>3, <3>4, <3>5 DEF IntervalType, n
    <3> HIDE DEF first, last
    <3>7. HeadAndTail \in Seq(IntervalType)
      BY <3>2, <3>6
    <3> QED
      BY <1>2, <2>1, <3>7, CutTyped DEF SourceWindows, n
  <2>2. CASE focuses # <<>>
    BY <1>2, <2>2, IntervalsTyped, CutTyped DEF SourceWindows
  <2> QED
    BY <2>1, <2>2
<1> QED
  BY <1>1, <1>2

-----------------------------------------------------------------------------
(* What an edit leaves unchanged at its two ends.                           *)

\* A set of numbers up to L has one that it does not continue.
LEMMA Largest ==
    ASSUME NEW L \in Nat, NEW Q \in SUBSET (0..L), 0 \in Q
    PROVE  \E n \in Q : n < L => n + 1 \notin Q
<1> SUFFICES ASSUME \A n \in Q : n < L /\ n + 1 \in Q PROVE FALSE
  OBVIOUS
<1> DEFINE P == {n \in Nat : n \in Q}
<1>1. P = Nat
  <2>1. P \in SUBSET Nat /\ 0 \in P /\ \A n \in P : n + 1 \in P
    OBVIOUS
  <2> HIDE DEF P
  <2> QED
    BY <2>1, SetInduction
<1>2. L \in Q
  BY <1>1
<1> QED
  BY <1>2

\* Pieces of the same length, letter by letter.
SameLetters(s, a, t, b, n) == \A k \in 1..n : s[a + k] = t[b + k]

LEMMA SliceSame ==
    ASSUME NEW s \in Texts, NEW t \in Texts, NEW a \in Nat, NEW b \in Nat, NEW n \in Nat,
           NEW c \in Nat, NEW d \in Nat, c = a + n, d = b + n,
           c <= Len(s), d <= Len(t)
    PROVE  Slice(s, a, c) = Slice(t, b, d) <=> SameLetters(s, a, t, b, n)
<1>1. a <= c /\ b <= d /\ c - a = n /\ d - b = n
  OBVIOUS
<1>2. /\ Slice(s, a, c) \in Texts /\ Len(Slice(s, a, c)) = c - a
      /\ \A k \in 1..(c - a) : Slice(s, a, c)[k] = s[a + k]
  <2>1. a <= c
    BY <1>1
  <2> QED
    BY ONLY <2>1, c <= Len(s), s \in Texts, a \in Nat, c \in Nat, SliceFacts
<1>3. /\ Slice(t, b, d) \in Texts /\ Len(Slice(t, b, d)) = d - b
      /\ \A k \in 1..(d - b) : Slice(t, b, d)[k] = t[b + k]
  BY <1>1, SliceFacts
<1> DEFINE x == Slice(s, a, c)
           y == Slice(t, b, d)
<1>4. /\ x \in Texts /\ Len(x) = n /\ \A k \in 1..n : x[k] = s[a + k]
      /\ y \in Texts /\ Len(y) = n /\ \A k \in 1..n : y[k] = t[b + k]
  BY <1>1, <1>2, <1>3
<1> HIDE DEF x, y
<1>5. (\A k \in 1..n : x[k] = y[k]) => x = y
  BY <1>4, SeqEqual DEF Texts
<1>6. x = y <=> SameLetters(s, a, t, b, n)
  BY <1>4, <1>5 DEF SameLetters
<1> QED
  BY <1>6 DEF x, y

LEMMA LeastLength ==
    ASSUME NEW s \in Texts, NEW t \in Texts
    PROVE  /\ Len(s) \in Nat /\ Len(t) \in Nat /\ Least(Len(s), Len(t)) \in Nat
           /\ Least(Len(s), Len(t)) <= Len(s) /\ Least(Len(s), Len(t)) <= Len(t)
<1>1. Len(s) \in Nat /\ Len(t) \in Nat
  BY DEF Texts
<1> QED
  BY <1>1 DEF Least

\* The common prefix and the common suffix exist, and are common.
LEMMA PrefixFacts ==
    ASSUME NEW s \in Texts, NEW t \in Texts
    PROVE  /\ CommonPrefix(s, t) \in 0..Least(Len(s), Len(t))
           /\ Slice(s, 0, CommonPrefix(s, t)) = Slice(t, 0, CommonPrefix(s, t))
<1> DEFINE L == Least(Len(s), Len(t))
           Q == {n \in 0..L : \A k \in 1..n : s[k] = t[k]}
           Fits(n) == SubSeq(s, 1, n) = SubSeq(t, 1, n) /\ (n < L => s[n + 1] # t[n + 1])
<1>0. L \in Nat /\ L <= Len(s) /\ L <= Len(t)
  BY LeastLength
<1> HIDE DEF L
<1>1. \A n \in 0..L : SubSeq(s, 1, n) = SubSeq(t, 1, n) <=> n \in Q
  <2> SUFFICES ASSUME NEW n \in 0..L PROVE SubSeq(s, 1, n) = SubSeq(t, 1, n) <=> n \in Q
    OBVIOUS
  <2>1. Slice(s, 0, n) = Slice(t, 0, n) <=> SameLetters(s, 0, t, 0, n)
    <3>1. n \in Nat /\ 0 \in Nat /\ n = 0 + n /\ n <= Len(s) /\ n <= Len(t)
      BY <1>0, LeastLength
    <3> HIDE DEF Q, Fits
    <3> QED
      BY <3>1, SliceSame
  <2>2. SameLetters(s, 0, t, 0, n) <=> \A k \in 1..n : s[k] = t[k]
    BY DEF SameLetters
  <2>3. 0 + 1 = 1
    OBVIOUS
  <2> QED
    BY <2>1, <2>2, <2>3 DEF Slice
<1>2. PICK n \in Q : n < L => n + 1 \notin Q
  <2>1. Q \in SUBSET (0..L) /\ 0 \in Q
    BY <1>0
  <2> HIDE DEF Q
  <2> QED
    BY <1>0, <2>1, Largest
<1>3. n < L => s[n + 1] # t[n + 1]
  <2> SUFFICES ASSUME n < L, s[n + 1] = t[n + 1] PROVE n + 1 \in Q
    BY <1>2
  <2>1. n + 1 \in 0..L
    BY <1>0
  <2>2. \A k \in 1..(n + 1) : k \in 1..n \/ k = n + 1
    BY <1>0
  <2> QED
    BY <2>1, <2>2
<1>4. n \in 0..L /\ Fits(n)
  BY <1>1, <1>2, <1>3
<1>5. CommonPrefix(s, t) = CHOOSE m \in 0..L : Fits(m)
  BY DEF CommonPrefix, L
<1> HIDE DEF Fits
<1>6. CommonPrefix(s, t) \in 0..L /\ Fits(CommonPrefix(s, t))
  BY <1>4, <1>5
<1>7. Slice(s, 0, CommonPrefix(s, t)) = Slice(t, 0, CommonPrefix(s, t))
  <2>1. 0 + 1 = 1
    OBVIOUS
  <2> QED
    BY <1>6, <2>1 DEF Fits, Slice
<1> QED
  BY <1>6, <1>7 DEF L

LEMMA SuffixFacts ==
    ASSUME NEW s \in Texts, NEW t \in Texts
    PROVE  /\ CommonSuffix(s, t) \in 0..Least(Len(s), Len(t))
           /\ Slice(s, Len(s) - CommonSuffix(s, t), Len(s))
                = Slice(t, Len(t) - CommonSuffix(s, t), Len(t))
<1> DEFINE L == Least(Len(s), Len(t))
           l == Len(s)
           m == Len(t)
           Q == {n \in 0..L : \A k \in 1..n : s[(l - n) + k] = t[(m - n) + k]}
           Fits(n) == /\ Slice(s, l - n, l) = Slice(t, m - n, m)
                      /\ n < L => s[l - n] # t[m - n]
<1>0. L \in Nat /\ L <= l /\ L <= m /\ l \in Nat /\ m \in Nat
  BY LeastLength
<1>5. CommonSuffix(s, t) = CHOOSE n \in 0..L : Fits(n)
  BY DEF CommonSuffix
<1>c. l = Len(s) /\ m = Len(t)
  OBVIOUS
<1> HIDE DEF L, l, m
<1>1. \A n \in 0..L : Slice(s, l - n, l) = Slice(t, m - n, m) <=> n \in Q
  <2> SUFFICES ASSUME NEW n \in 0..L
               PROVE  Slice(s, l - n, l) = Slice(t, m - n, m) <=> n \in Q
    OBVIOUS
  <2> DEFINE a == l - n
             b == m - n
  <2>1. n \in Nat /\ a \in Nat /\ b \in Nat /\ a + n = l /\ b + n = m
    BY <1>0
  <2> HIDE DEF a, b
  <2>2. Slice(s, a, l) = Slice(t, b, m) <=> SameLetters(s, a, t, b, n)
    <3>1. l <= Len(s) /\ m <= Len(t) /\ l = a + n /\ m = b + n
      BY <1>0, <1>c, <2>1
    <3> HIDE DEF Q, Fits
    <3> QED
      BY <1>0, <2>1, <3>1, SliceSame
  <2> QED
    BY <2>1, <2>2 DEF a, b, SameLetters
<1>2. PICK n \in Q : n < L => n + 1 \notin Q
  <2>1. Q \in SUBSET (0..L) /\ 0 \in Q
    BY <1>0
  <2> HIDE DEF Q
  <2> QED
    BY <1>0, <2>1, Largest
<1>3. n < L => s[l - n] # t[m - n]
  <2> SUFFICES ASSUME n < L, s[l - n] = t[m - n] PROVE n + 1 \in Q
    BY <1>2
  <2>1. n + 1 \in 0..L /\ n \in Nat
    BY <1>0
  <2>2. ASSUME NEW k \in 1..(n + 1)
        PROVE  s[(l - (n + 1)) + k] = t[(m - (n + 1)) + k]
    <3>1. CASE k = 1
      <4>1. (l - (n + 1)) + k = l - n /\ (m - (n + 1)) + k = m - n
        BY <1>0, <2>1, <3>1
      <4> QED
        BY <4>1
    <3>2. CASE k # 1
      <4>1. PICK j \in 1..n : j = k - 1
        BY <2>1, <3>2
      <4>2. (l - (n + 1)) + k = (l - n) + j /\ (m - (n + 1)) + k = (m - n) + j
        BY <1>0, <2>1, <4>1
      <4> QED
        BY <4>2
    <3> QED
      BY <3>1, <3>2
  <2> QED
    BY <2>1, <2>2
<1>4. n \in 0..L /\ Fits(n)
  BY <1>1, <1>2, <1>3
<1> HIDE DEF Fits
<1>6. CommonSuffix(s, t) \in 0..L /\ Fits(CommonSuffix(s, t))
  BY <1>4, <1>5
<1> QED
  BY <1>6 DEF L, l, m, Fits

\* A piece of a piece.
LEMMA SliceSlice ==
    ASSUME NEW t \in Texts, NEW a \in Nat, NEW b \in Nat, NEW c \in Nat, NEW d \in Nat,
           a <= b, b <= Len(t), c <= d, d <= b - a
    PROVE  Slice(Slice(t, a, b), c, d) = Slice(t, a + c, a + d)
<1> DEFINE x == Slice(t, a, b)
           n == d - c
           e == a + c
           g == a + d
<1>1. x \in Texts /\ Len(x) = b - a /\ \A k \in 1..(b - a) : x[k] = t[a + k]
  BY SliceFacts
<1>2. Len(t) \in Nat /\ n \in Nat /\ e \in Nat /\ g \in Nat
  BY DEF Texts
<1>3. d = c + n /\ g = e + n /\ g <= Len(t)
  BY <1>2
<1>4. \A k \in 1..n : x[c + k] = t[e + k]
  <2> SUFFICES ASSUME NEW k \in 1..n PROVE x[c + k] = t[e + k]
    OBVIOUS
  <2>1. c + k \in 1..(b - a) /\ a + (c + k) = e + k
    OBVIOUS
  <2> HIDE DEF x, n, e
  <2> QED
    BY <1>1, <2>1
<1>5. d <= Len(x)
  BY <1>1
<1> HIDE DEF x, n, e, g
<1>6. SameLetters(x, c, t, e, n)
  BY <1>4 DEF SameLetters
<1>7. Slice(x, c, d) = Slice(t, e, g) <=> SameLetters(x, c, t, e, n)
  BY <1>1, <1>2, <1>3, <1>5, SliceSame
<1> QED
  BY <1>6, <1>7 DEF x, e, g

\* A text in three pieces.
LEMMA Thirds ==
    ASSUME NEW t \in Texts, NEW a \in Nat, NEW b \in Nat, a <= b, b <= Len(t)
    PROVE  /\ Slice(t, 0, a) \in Texts /\ Len(Slice(t, 0, a)) = a
           /\ Slice(t, a, b) \in Texts /\ Slice(t, b, Len(t)) \in Texts
           /\ t = Cat(Cat(Slice(t, 0, a), Slice(t, a, b)), Slice(t, b, Len(t)))
<1> DEFINE n == Len(t)
<1>1. n \in Nat /\ b <= n /\ n <= n /\ 0 <= a /\ 0 <= b /\ a <= n /\ a - 0 = a /\ 0 \in Nat
  BY DEF Texts
<1>2. n = Len(t)
  OBVIOUS
<1> HIDE DEF n
<1>3. Slice(t, 0, a) \in Texts /\ Len(Slice(t, 0, a)) = a
  <2>1. Slice(t, 0, a) \in Texts /\ Len(Slice(t, 0, a)) = a - 0
    BY <1>1, <1>2, SliceFacts
  <2> QED
    BY <1>1, <2>1
<1>4. Slice(t, a, b) \in Texts /\ Slice(t, b, n) \in Texts
  BY <1>1, <1>2, SliceFacts
<1>5. Cat(Slice(t, 0, a), Slice(t, a, b)) = Slice(t, 0, b)
  BY <1>1, <1>2, SliceJoin DEF Cat
<1>6. Cat(Slice(t, 0, b), Slice(t, b, n)) = Slice(t, 0, n)
  BY <1>1, <1>2, SliceJoin DEF Cat
<1>7. Slice(t, 0, n) = t
  BY <1>2, SliceAll
<1> QED
  BY <1>2, <1>3, <1>4, <1>5, <1>6, <1>7

\* What is left of an edit, between the ends that it leaves unchanged.
Ends(find, replace, e, p, s) ==
    /\ e.find \in Texts /\ e.replace \in Texts
    /\ Len(p) = e.prefix
    /\ find = Cat(Cat(p, e.find), s)
    /\ replace = Cat(Cat(p, e.replace), s)

LEMMA Untrimmed ==
    ASSUME NEW find \in Texts, NEW replace \in Texts
    PROVE  \E p, s \in Texts :
              Ends(find, replace, [find |-> find, replace |-> replace, prefix |-> 0], p, s)
<1>1. <<>> \in Texts /\ Len(<<>>) = 0
  BY DEF Texts
<1>2. \A t \in Texts : Cat(Cat(<<>>, t), <<>>) = t
  BY DEF Cat, Texts
<1> QED
  BY <1>1, <1>2 DEF Ends

LEMMA MinimizedFacts ==
    ASSUME NEW find \in Texts, NEW replace \in Texts
    PROVE  \E p, s \in Texts : Ends(find, replace, Minimized(find, replace), p, s)
<1> DEFINE prefix == CommonPrefix(find, replace)
           suffix == UnchangedEnd(find, replace, prefix)
           l == Len(find)
           m == Len(replace)
           a == Slice(find, prefix, l)
           b == Slice(replace, prefix, m)
           e == Minimized(find, replace)
<1>1. CASE prefix + suffix = l
  BY <1>1, Untrimmed DEF Minimized
<1>2. CASE prefix + suffix # l
  <2>1. e = [find |-> Slice(find, prefix, l - suffix),
             replace |-> Slice(replace, prefix, m - suffix), prefix |-> prefix]
    BY <1>2 DEF Minimized
  <2>2. l \in Nat /\ m \in Nat /\ prefix \in Nat /\ prefix <= l /\ prefix <= m
    BY LeastLength, PrefixFacts
  <2>3. Slice(find, 0, prefix) = Slice(replace, 0, prefix)
    BY PrefixFacts
  <2>4. suffix = CommonSuffix(a, b)
    BY DEF UnchangedEnd
  <2>c. l = Len(find) /\ m = Len(replace)
    OBVIOUS
  <2> HIDE DEF prefix, l, m, suffix
  <2>5. a \in Texts /\ Len(a) = l - prefix
    <3>1. l <= Len(find)
      BY <2>2, <2>c
    <3> HIDE DEF e
    <3> QED
      BY ONLY <2>2, <3>1, find \in Texts, SliceFacts DEF a
  <2>6. b \in Texts /\ Len(b) = m - prefix
    <3>1. m <= Len(replace)
      BY <2>2, <2>c
    <3> HIDE DEF e
    <3> QED
      BY ONLY <2>2, <3>1, replace \in Texts, SliceFacts DEF b
  <2> HIDE DEF a, b
  <2>7. /\ suffix \in Nat /\ suffix <= Len(a) /\ suffix <= Len(b)
        /\ Slice(a, Len(a) - suffix, Len(a)) = Slice(b, Len(b) - suffix, Len(b))
    <3>1. suffix \in 0..Least(Len(a), Len(b))
      BY <2>4, <2>5, <2>6, SuffixFacts
    <3>2. /\ Least(Len(a), Len(b)) \in Nat
          /\ Least(Len(a), Len(b)) <= Len(a) /\ Least(Len(a), Len(b)) <= Len(b)
      BY <2>5, <2>6, LeastLength
    <3>3. Len(a) \in Nat /\ Len(b) \in Nat
      BY <2>2, <2>5, <2>6
    <3>4. Slice(a, Len(a) - suffix, Len(a)) = Slice(b, Len(b) - suffix, Len(b))
      BY <2>4, <2>5, <2>6, SuffixFacts
    <3> QED
      BY <3>1, <3>2, <3>3, <3>4
  <2> DEFINE i == l - suffix
             j == m - suffix
  <2>8. /\ i \in Nat /\ j \in Nat /\ prefix <= i /\ prefix <= j /\ i <= l /\ j <= m
        /\ Len(a) - suffix \in Nat /\ Len(b) - suffix \in Nat
        /\ Len(a) \in Nat /\ Len(b) \in Nat
        /\ Len(a) - suffix <= Len(a) /\ Len(b) - suffix <= Len(b)
        /\ prefix + (Len(a) - suffix) = i /\ prefix + Len(a) = l
        /\ prefix + (Len(b) - suffix) = j /\ prefix + Len(b) = m
    BY <2>2, <2>5, <2>6, <2>7
  <2> HIDE DEF i, j
  <2>9. Slice(a, Len(a) - suffix, Len(a)) = Slice(find, i, l)
    <3> DEFINE u == Len(a) - suffix
               v == Len(a)
    <3>1. u \in Nat /\ v \in Nat /\ u <= v /\ v <= l - prefix /\ prefix + u = i /\ prefix + v = l
      BY <2>5, <2>8
    <3> HIDE DEF u, v
    <3>2. Slice(Slice(find, prefix, l), u, v) = Slice(find, prefix + u, prefix + v)
      BY <2>2, <2>c, <3>1, SliceSlice
    <3> QED
      BY <3>1, <3>2 DEF a, u, v
  <2>10. Slice(b, Len(b) - suffix, Len(b)) = Slice(replace, j, m)
    <3> DEFINE u == Len(b) - suffix
               v == Len(b)
    <3>1. u \in Nat /\ v \in Nat /\ u <= v /\ v <= m - prefix /\ prefix + u = j /\ prefix + v = m
      BY <2>6, <2>8
    <3> HIDE DEF u, v
    <3>2. Slice(Slice(replace, prefix, m), u, v) = Slice(replace, prefix + u, prefix + v)
      BY <2>2, <2>c, <3>1, SliceSlice
    <3> QED
      BY <3>1, <3>2 DEF b, u, v
  <2> DEFINE p == Slice(find, 0, prefix)
             s == Slice(find, i, l)
  <2>11. /\ p \in Texts /\ Len(p) = prefix /\ s \in Texts
         /\ Slice(find, prefix, i) \in Texts
         /\ find = Cat(Cat(p, Slice(find, prefix, i)), s)
    BY <2>2, <2>8, <2>c, Thirds
  <2>12. /\ Slice(replace, prefix, j) \in Texts
         /\ replace = Cat(Cat(p, Slice(replace, prefix, j)), s)
    <3>1. /\ Slice(replace, prefix, j) \in Texts
          /\ replace = Cat(Cat(Slice(replace, 0, prefix), Slice(replace, prefix, j)),
                           Slice(replace, j, m))
      BY <2>2, <2>8, <2>c, Thirds
    <3>2. p = Slice(replace, 0, prefix) /\ s = Slice(replace, j, m)
      BY <2>3, <2>7, <2>9, <2>10
    <3> QED
      BY <3>1, <3>2
  <2> HIDE DEF p, s
  <2>13. Ends(find, replace, e, p, s)
    <3> HIDE DEF e
    <3>1. e.find = Slice(find, prefix, i) /\ e.replace = Slice(replace, prefix, j)
          /\ e.prefix = prefix
      BY <2>1 DEF i, j
    <3> QED
      BY <2>11, <2>12, <3>1 DEF Ends
  <2> QED
    BY <2>11, <2>13
<1> QED
  BY <1>1, <1>2

-----------------------------------------------------------------------------
(* The invariant: every step keeps the replacement of the anchor at the      *)
(* target equal to the replacement of the edit at the occurrence selected.   *)

Occurrence(offset, find) ==
    offset \in Nat /\ offset + Len(find) <= Len(source) /\ At(source, offset, find)

EditType ==
    [scope : Scopes, unit : Int, window : Int, find : Texts, replace : Texts,
     declares : BOOLEAN]

TextType ==
    /\ source \in Texts
    /\ windows \in Seq(WindowType)
    /\ edit \in EditType
    /\ phase \in {"answering", "locating", "trimming", "widening", "applied", "rejected"}
    /\ start \in Nat /\ target \in Nat
    /\ anchor \in Texts /\ replacement \in Texts

AnswerKept ==
    phase \in {"locating", "trimming"} =>
        /\ edit.find # <<>>
        /\ edit.unit # None => edit.window = None /\ Occurrence(edit.unit, edit.find)

StartKept ==
    /\ phase = "trimming" => start \in Located(edit)
    /\ phase \in {"trimming", "widening", "applied"} => Occurrence(start, edit.find)

TargetKept ==
    phase \in {"widening", "applied"} =>
        /\ Occurrence(target, anchor)
        /\ Splice(source, target, anchor, replacement)
              = Splice(source, start, edit.find, edit.replace)

AppliedKept ==
    phase = "applied" =>
        /\ Count(source, anchor) = 1
        /\ updated = ReplaceFirst(source, anchor, replacement)
        /\ Len(anchor) <= MaxFind(edit) /\ Len(replacement) <= MaxReplace(edit)

EditInv == TextType /\ AnswerKept /\ StartKept /\ TargetKept /\ AppliedKept

\* A match in a window is a match in the source.
LEMMA WindowMatches ==
    ASSUME source \in Texts, NEW w \in WindowType, NEW f \in Texts, NEW p \in Nat
    PROVE  p \in Matches(w.text, f) <=>
              p + Len(f) <= Len(w.text) /\ Occurrence(w.offset + p, f)
<1> DEFINE a == w.offset
           n == Len(w.text)
           b == a + n
<1>1. /\ a \in Nat /\ w.text \in Texts /\ b <= Len(source) /\ w.text = Slice(source, a, b)
      /\ n \in Nat /\ Len(f) \in Nat /\ Len(source) \in Nat
  BY DEF WindowType, Texts
<1>2. b \in Nat /\ a <= b /\ b - a = n /\ a + p \in Nat
  BY <1>1
<1>3. ASSUME p + Len(f) <= n
      PROVE  /\ At(w.text, p, f) <=> At(source, a + p, f)
             /\ (a + p) + Len(f) <= Len(source)
  <2>1. (a + p) + Len(f) <= Len(source)
    BY <1>1, <1>2, <1>3
  <2>2. At(Slice(source, a, b), p, f) <=> At(source, a + p, f)
    <3> HIDE DEF a, b, n
    <3> QED
      BY <1>1, <1>2, <1>3, AtInside
  <2> QED
    BY <1>1, <2>1, <2>2
<1>4. p \in Matches(w.text, f) <=> p + Len(f) <= n /\ At(w.text, p, f)
  BY <1>1, MatchFacts
<1> QED
  BY <1>2, <1>3, <1>4 DEF Occurrence

\* Everything scanned is a match.
LEMMA ScanMatches ==
    ASSUME NEW t \in Texts, NEW f \in Texts, NEW i \in DOMAIN Scan(t, f)
    PROVE  Scan(t, f)[i] \in Matches(t, f) /\ Scan(t, f)[i] \in Nat
<1>1. Scan(t, f)[i] \in Matches(t, f)
  BY ScanFacts
<1> QED
  BY <1>1, MatchFacts

LEMMA OnlyMatch ==
    ASSUME NEW t \in Texts, NEW f \in Texts, Count(t, f) = 1
    PROVE  Head(Scan(t, f)) \in Matches(t, f)
<1>1. Scan(t, f) \in Seq(Matches(t, f)) /\ Len(Scan(t, f)) = 1
  BY ScanFacts DEF Count
<1> HIDE DEF Scan
<1> QED
  BY <1>1

\* A candidate is a match in one of the windows searched.
LEMMA CandidateOccurs ==
    ASSUME source \in Texts, NEW ws \in SUBSET WindowType, NEW f \in Texts,
           NEW c \in Candidates(ws, f)
    PROVE  \E w \in ws : \E p \in Matches(w.text, f) :
              /\ p \in Nat /\ c = [at |-> w.offset + p, rank |-> FocusRank(w, p, Len(f))]
<1>1. PICK w \in ws : \E i \in DOMAIN Scan(w.text, f) :
          c = [at |-> w.offset + Scan(w.text, f)[i],
               rank |-> FocusRank(w, Scan(w.text, f)[i], Len(f))]
  BY DEF Candidates
<1>2. PICK i \in DOMAIN Scan(w.text, f) :
          c = [at |-> w.offset + Scan(w.text, f)[i],
               rank |-> FocusRank(w, Scan(w.text, f)[i], Len(f))]
  BY <1>1
<1>3. w.text \in Texts
  BY DEF WindowType
<1>4. Scan(w.text, f)[i] \in Matches(w.text, f) /\ Scan(w.text, f)[i] \in Nat
  BY <1>3, ScanMatches
<1> QED
  BY <1>2, <1>4

\* What is located occurs in the source.
LEMMA LocatedOccurs ==
    ASSUME TextType, NEW o \in Located(edit),
           edit.unit # None => Occurrence(edit.unit, edit.find)
    PROVE  Occurrence(o, edit.find)
<1>1. source \in Texts /\ windows \in Seq(WindowType) /\ edit.find \in Texts
  BY DEF TextType, EditType
<1>2. CASE edit.unit # None
  BY <1>2 DEF Located
<1>3. CASE edit.unit = None /\ edit.window = None
  <2>1. Count(source, edit.find) = 1 /\ o = Head(Scan(source, edit.find))
    BY <1>3 DEF Located
  <2>2. o \in Matches(source, edit.find)
    BY <1>1, <2>1, OnlyMatch
  <2> QED
    BY <1>1, <2>2, MatchFacts DEF Occurrence
<1>4. CASE edit.unit = None /\ edit.window # None
  <2>1. /\ edit.window \in DOMAIN windows
        /\ o \in {c.at : c \in Best(Candidates(Searched(edit), edit.find))}
    BY <1>4 DEF Located
  <2>2. PICK c \in Candidates(Searched(edit), edit.find) : o = c.at
    BY <2>1 DEF Best
  <2>3. Searched(edit) \in SUBSET WindowType
    BY <1>1, <2>1 DEF Searched
  <2>4. PICK w \in Searched(edit) : \E p \in Matches(w.text, edit.find) :
          p \in Nat /\ c = [at |-> w.offset + p, rank |-> FocusRank(w, p, Len(edit.find))]
    BY <1>1, <2>2, <2>3, CandidateOccurs
  <2>5. PICK p \in Matches(w.text, edit.find) :
          p \in Nat /\ c = [at |-> w.offset + p, rank |-> FocusRank(w, p, Len(edit.find))]
    BY <2>4
  <2>6. w \in WindowType
    BY <2>3
  <2>7. Occurrence(w.offset + p, edit.find)
    BY <1>1, <2>5, <2>6, WindowMatches
  <2> QED
    BY <2>2, <2>5, <2>7
<1> QED
  BY <1>2, <1>3, <1>4

LEMMA EditInit == Init => EditInv
<1> SUFFICES ASSUME Init PROVE EditInv
  OBVIOUS
<1>1. source \in Texts /\ <<>> \in Texts
  BY TextsAssumption DEF Init, Texts
<1>2. PICK focuses \in Focuses :
          /\ \A i \in DOMAIN focuses : focuses[i] < Len(source)
          /\ windows = SourceWindows(focuses)
  BY DEF Init
<1>3. focuses \in Seq(Nat)
  BY TextsAssumption
<1>4. windows \in Seq(WindowType)
  BY <1>1, <1>2, <1>3, WindowsTyped
<1>5. edit \in EditType
  BY <1>1 DEF Init, Edit, EditType, Scopes, None
<1>6. TextType
  BY <1>1, <1>4, <1>5 DEF Init, TextType
<1> QED
  BY <1>6 DEF Init, EditInv, AnswerKept, StartKept, TargetKept, AppliedKept

\* What does not depend on the step.
LEMMA SourceKept ==
    ASSUME UNCHANGED <<source, windows>>
    PROVE  /\ WindowType' = WindowType
           /\ \A o, f : Occurrence(o, f)' <=> Occurrence(o, f)
<1>1. WindowType' = WindowType
  BY DEF WindowType
<1> QED
  BY <1>1 DEF Occurrence

LEMMA LocatedKept ==
    ASSUME UNCHANGED <<source, windows, edit>>
    PROVE  Located(edit)' = Located(edit)
BY DEF Located, Searched

LEMMA EditTyped ==
    ASSUME NEW scope \in Scopes, NEW unit \in Int, NEW window \in Int, NEW find \in Texts,
           NEW replace \in Texts, NEW declares \in BOOLEAN
    PROVE  Edit(scope, unit, window, find, replace, declares) \in EditType
BY DEF Edit, EditType

\* An answer changes the edit and the phase.
LEMMA AnswerKeeps ==
    ASSUME EditInv, edit' \in EditType,
           phase' = IF Acceptable(edit') THEN "locating" ELSE "rejected",
           edit'.unit # None => edit'.window = None /\ Occurrence(edit'.unit, edit'.find),
           UNCHANGED <<source, windows, start, target, anchor, replacement, updated>>
    PROVE  EditInv'
<1>1. TextType'
  BY SourceKept DEF EditInv, TextType
<1>2. AnswerKept'
  <2>1. phase' = "locating" => edit'.find # <<>>
    BY DEF Acceptable
  <2>2. (edit.unit # None => Occurrence(edit.unit, edit.find))'
    BY DEF Occurrence
  <2> QED
    BY <2>1, <2>2 DEF AnswerKept
<1> QED
  BY <1>1, <1>2 DEF EditInv, StartKept, TargetKept, AppliedKept

\* One lemma per action.
LEMMA AnswerUnitKeeps ==
    ASSUME EditInv, NEW scope \in Scopes, NEW offset \in 0..Len(source),
           NEW length \in 1..Len(source), NEW replace \in Replacements,
           NEW declares \in BOOLEAN, AnswerUnit(scope, offset, length, replace, declares)
    PROVE  EditInv'
<1> DEFINE end == offset + length
           find == Slice(source, offset, end)
<1>1. source \in Texts /\ replace \in Texts /\ Len(source) \in Nat
  BY TextsAssumption DEF EditInv, TextType, Texts
<1>2. offset \in Nat /\ end \in Nat /\ offset <= end /\ end <= Len(source) /\ end - offset = length
  BY <1>1 DEF AnswerUnit
<1>3. edit' = Edit(scope, offset, None, find, replace, declares)
  BY DEF AnswerUnit
<1>4. find \in Texts /\ Len(find) = length
  <2> HIDE DEF end
  <2> QED
    BY <1>1, <1>2, SliceFacts
<1>5. Occurrence(offset, find)
  BY <1>2, <1>4 DEF Occurrence, At
<1> HIDE DEF find, end
<1>6. edit' \in EditType
  <2>1. offset \in Int /\ None \in Int
    BY DEF None
  <2> QED
    BY <1>1, <1>3, <1>4, <2>1, EditTyped
<1>7. edit'.unit # None => edit'.window = None /\ Occurrence(edit'.unit, edit'.find)
  BY <1>3, <1>5 DEF Edit
<1> QED
  BY <1>6, <1>7, AnswerKeeps DEF AnswerUnit

LEMMA AnswerSnippetKeeps ==
    ASSUME EditInv, NEW scope \in Scopes, NEW window \in (DOMAIN windows) \cup {None, 0},
           NEW find \in Snippets, NEW replace \in Replacements, NEW declares \in BOOLEAN,
           AnswerSnippet(scope, window, find, replace, declares)
    PROVE  EditInv'
<1>1. replace \in Texts /\ find \in Texts
  BY TextsAssumption DEF Texts
<1>2. edit' = Edit(scope, None, window, find, replace, declares)
  BY DEF AnswerSnippet
<1>3. edit' \in EditType
  <2>1. window \in Int /\ None \in Int
    BY DEF None, EditInv, TextType
  <2> QED
    BY <1>1, <1>2, <2>1, EditTyped
<1>4. edit'.unit = None
  BY <1>2 DEF Edit
<1> QED
  BY <1>3, <1>4, AnswerKeeps DEF AnswerSnippet

LEMMA LocateKeeps ==
    ASSUME EditInv, Locate PROVE EditInv'
<1>0. UNCHANGED <<source, windows, edit, target, anchor, replacement, updated>>
  BY DEF Locate
<1>1. CASE Located(edit) = {} \/ edit.find = edit.replace
  <2>1. phase' = "rejected" /\ start' = start
    BY <1>1 DEF Locate
  <2>2. TextType'
    BY <1>0, <2>1, SourceKept DEF EditInv, TextType
  <2> QED
    BY <2>1, <2>2 DEF EditInv, AnswerKept, StartKept, TargetKept, AppliedKept
<1>2. CASE ~(Located(edit) = {} \/ edit.find = edit.replace)
  <2>1. phase' = "trimming" /\ start' \in Located(edit) /\ phase = "locating"
    BY <1>2 DEF Locate
  <2>2. Occurrence(start', edit.find)
    BY <2>1, LocatedOccurs DEF EditInv, AnswerKept
  <2>3. TextType'
    BY <1>0, <2>1, <2>2, SourceKept DEF EditInv, TextType, Occurrence
  <2>4. AnswerKept'
    BY <1>0, <2>1 DEF EditInv, AnswerKept, Occurrence
  <2>5. StartKept'
    <3>1. Occurrence(start, edit.find)'
      BY <1>0, <2>2 DEF Occurrence
    <3>2. Located(edit)' = Located(edit)
      BY <1>0, LocatedKept
    <3> QED
      BY <2>1, <3>1, <3>2 DEF StartKept
  <2> QED
    BY <2>1, <2>3, <2>4, <2>5 DEF EditInv, TargetKept, AppliedKept
<1> QED
  BY <1>1, <1>2

LEMMA TrimKeeps ==
    ASSUME EditInv, Trim PROVE EditInv'
<1> DEFINE e == IF Count(source, edit.find) # 1 \/ edit.declares
                THEN Minimized(edit.find, edit.replace)
                ELSE [find |-> edit.find, replace |-> edit.replace, prefix |-> 0]
           find == edit.find
           replace == edit.replace
<1>0. /\ UNCHANGED <<source, windows, edit, start, updated>>
      /\ phase = "trimming" /\ phase' = "widening"
      /\ anchor' = e.find /\ replacement' = e.replace /\ target' = start + e.prefix
  BY DEF Trim
<1>1. /\ source \in Texts /\ find \in Texts /\ replace \in Texts /\ start \in Nat
      /\ Occurrence(start, find)
  BY <1>0 DEF EditInv, TextType, EditType, StartKept
<1>2. PICK p \in Texts : \E s \in Texts : Ends(find, replace, e, p, s)
  <2>1. CASE Count(source, edit.find) # 1 \/ edit.declares
    <3>1. e = Minimized(find, replace)
      BY <2>1
    <3> HIDE DEF e, find, replace
    <3> QED
      BY <1>1, <3>1, MinimizedFacts
  <2>2. CASE ~(Count(source, edit.find) # 1 \/ edit.declares)
    <3>1. e = [find |-> find, replace |-> replace, prefix |-> 0]
      BY <2>2
    <3> HIDE DEF e, find, replace
    <3> QED
      BY <1>1, <3>1, Untrimmed
  <2> QED
    BY <2>1, <2>2
<1>3. PICK s \in Texts : Ends(find, replace, e, p, s)
  BY <1>2
<1>c. find = edit.find /\ replace = edit.replace
  OBVIOUS
<1> HIDE DEF e, find, replace
<1>4. /\ e.find \in Texts /\ e.replace \in Texts /\ Len(p) = e.prefix
      /\ find = Cat(Cat(p, e.find), s) /\ replace = Cat(Cat(p, e.replace), s)
  BY <1>3 DEF Ends
<1>5. /\ Splice(source, start, find, replace)
            = Splice(source, start + Len(p), e.find, e.replace)
      /\ At(source, start + Len(p), e.find)
      /\ start + Len(p) + Len(e.find) <= Len(source)
  <2>1. /\ start + Len(Cat(Cat(p, e.find), s)) <= Len(source)
        /\ At(source, start, Cat(Cat(p, e.find), s))
    BY <1>1, <1>4 DEF Occurrence
  <2>2. PICK f \in Texts : f = e.find
    BY <1>4
  <2>3. PICK r \in Texts : r = e.replace
    BY <1>4
  <2>4. /\ start + Len(Cat(Cat(p, f), s)) <= Len(source)
        /\ At(source, start, Cat(Cat(p, f), s))
    BY <2>1, <2>2
  <2>5. /\ Splice(source, start, Cat(Cat(p, f), s), Cat(Cat(p, r), s))
              = Splice(source, start + Len(p), f, r)
        /\ At(source, start + Len(p), f)
        /\ start + Len(p) + Len(f) <= Len(source)
    BY <1>1, <2>4, SpliceWithin
  <2> QED
    BY <1>4, <2>2, <2>3, <2>5
<1>6. target' \in Nat
  <2>1. Len(p) \in Nat
    BY DEF Texts
  <2> QED
    BY <1>0, <1>1, <1>4, <2>1
<1>7. TextType'
  BY <1>0, <1>4, <1>6, SourceKept DEF EditInv, TextType
<1>8. StartKept'
  BY <1>0, <1>1, <1>c DEF StartKept, Occurrence
<1>9. TargetKept'
  <2>1. Occurrence(target, anchor)'
    BY <1>0, <1>4, <1>5, <1>6 DEF Occurrence
  <2>2. Splice(source', target', anchor', replacement')
            = Splice(source', start', edit'.find, edit'.replace)
    BY <1>0, <1>4, <1>5, <1>c
  <2> QED
    BY <2>1, <2>2 DEF TargetKept
<1> QED
  BY <1>0, <1>7, <1>8, <1>9 DEF EditInv, AnswerKept, AppliedKept

\* An occurrence with the text around it is an occurrence.
LEMMA Widened ==
    ASSUME source \in Texts, NEW f \in Texts, NEW o \in Nat, Occurrence(o, f),
           NEW l \in Nat, NEW r \in Nat, l <= o, o + Len(f) + r <= Len(source)
    PROVE  LET end == o + Len(f)
               p == Slice(source, o - l, o)
               s == Slice(source, end, end + r)
           IN  /\ p \in Texts /\ s \in Texts /\ Len(p) = l
               /\ Cat(Cat(p, f), s) \in Texts
               /\ Occurrence(o - l, Cat(Cat(p, f), s))
<1> DEFINE t == source
           a == o - l
           b == o + Len(f)
           c == b + r
           p == Slice(t, a, o)
           s == Slice(t, b, c)
           h == Cat(Cat(p, f), s)
<1>1. Len(f) \in Nat /\ Len(t) \in Nat
  BY DEF Texts
<1>2. /\ a \in Nat /\ b \in Nat /\ c \in Nat /\ a <= o /\ o <= b /\ b <= c /\ c <= Len(t)
      /\ o - a = l /\ o <= Len(t) /\ b <= Len(t) /\ a <= b /\ a <= c
      /\ c - a = l + Len(f) + r /\ a + (l + Len(f) + r) = c
      /\ c - b = r
  BY <1>1
<1>3. f = Slice(t, o, b)
  BY DEF Occurrence, At
<1> HIDE DEF a, b, c, t
<1>4. t \in Texts
  BY DEF t
<1>5. p \in Texts /\ Len(p) = l
  <2>1. Slice(t, a, o) \in Texts /\ Len(Slice(t, a, o)) = o - a
    BY <1>2, <1>4, SliceFacts
  <2> QED
    BY <1>2, <2>1
<1>6. s \in Texts /\ Len(s) = r
  <2>1. Slice(t, b, c) \in Texts /\ Len(Slice(t, b, c)) = c - b
    BY <1>2, <1>4, SliceFacts
  <2> QED
    BY <1>2, <2>1
<1>7. Cat(p, f) = Slice(t, a, b)
  <2>1. Slice(t, a, o) \o Slice(t, o, b) = Slice(t, a, b)
    BY ONLY o \in Nat, <1>2, <1>4, SliceJoin
  <2> HIDE DEF h, s
  <2> QED
    BY <1>3, <2>1 DEF Cat
<1>8. h = Slice(t, a, c)
  <2>0. a \in Nat /\ b \in Nat /\ c \in Nat /\ a <= b /\ b <= c /\ c <= Len(t)
    BY <1>2
  <2>1. Slice(t, a, b) \o Slice(t, b, c) = Slice(t, a, c)
    BY ONLY <2>0, <1>4, SliceJoin
  <2>2. h = Cat(Slice(t, a, b), Slice(t, b, c))
    BY <1>7
  <2> QED
    BY <2>1, <2>2 DEF Cat
<1>9. h \in Texts /\ Len(h) = c - a
  <2>1. Slice(t, a, c) \in Texts /\ Len(Slice(t, a, c)) = c - a
    BY <1>2, <1>4, SliceFacts
  <2> QED
    BY <1>8, <2>1
<1> HIDE DEF h, p, s
<1>10. a + Len(h) = c
  BY <1>1, <1>2, <1>9
<1>11. Occurrence(a, h)
  BY <1>2, <1>8, <1>10 DEF Occurrence, At, t
<1> QED
  BY <1>5, <1>6, <1>9, <1>11 DEF a, b, c, h, p, s, t

LEMMA WidenKeeps ==
    ASSUME EditInv, Widen PROVE EditInv'
<1> DEFINE room == MaxFind(edit) - Len(anchor)
           step == Least(MaxStep, Greatest(1, room \div 2))
           end == target + Len(anchor)
           left == Least(step, target)
           right == Least(step, Len(source) - end)
           prefix == Slice(source, target - left, target)
           suffix == Slice(source, end, end + right)
<1>0. /\ UNCHANGED <<source, windows, edit, start, updated>> /\ phase = "widening"
  BY DEF Widen
<1>1. /\ source \in Texts /\ anchor \in Texts /\ replacement \in Texts
      /\ target \in Nat /\ Occurrence(target, anchor) /\ Occurrence(start, edit.find)
      /\ Splice(source, target, anchor, replacement)
            = Splice(source, start, edit.find, edit.replace)
  BY <1>0 DEF EditInv, TextType, StartKept, TargetKept
<1>2. CASE room <= 0 \/ left + right = 0
  <2>1. phase' = "rejected" /\ UNCHANGED <<target, anchor, replacement>>
    BY <1>2 DEF Widen
  <2>2. TextType'
    BY <1>0, <2>1, SourceKept DEF EditInv, TextType
  <2> QED
    BY <2>1, <2>2 DEF EditInv, AnswerKept, StartKept, TargetKept, AppliedKept
<1>3. CASE ~(room <= 0 \/ left + right = 0)
  <2>1. /\ target' = target - left
        /\ anchor' = prefix \o anchor \o suffix
        /\ replacement' = prefix \o replacement \o suffix
        /\ phase' \in {"rejected", "widening"}
    BY <1>3 DEF Widen
  <2>2. /\ anchor' = Cat(Cat(prefix, anchor), suffix)
        /\ replacement' = Cat(Cat(prefix, replacement), suffix)
    BY <2>1 DEF Cat
  <2>3. left \in Nat /\ right \in Nat /\ left <= target /\ end + right <= Len(source)
    <3>1. Len(source) \in Nat /\ Len(anchor) \in Nat /\ end <= Len(source)
      BY <1>1 DEF Occurrence, Texts
    <3>2. MaxFind(edit) \in Nat /\ MaxStep \in Nat
      BY LimitsAssumption DEF MaxFind
    <3>3. room \in Int
      BY <3>1, <3>2
    <3> HIDE DEF room
    <3>4. step \in Nat
      BY <3>2, <3>3 DEF Least, Greatest
    <3> HIDE DEF step
    <3>5. end \in Nat /\ Len(source) - end \in Nat
      BY <1>1, <3>1
    <3> HIDE DEF end
    <3> QED
      BY <1>1, <3>1, <3>4, <3>5 DEF Least
  <2> HIDE DEF room, step, left, right
  <2>4. /\ prefix \in Texts /\ suffix \in Texts /\ Len(prefix) = left
        /\ Cat(Cat(prefix, anchor), suffix) \in Texts
        /\ Occurrence(target - left, Cat(Cat(prefix, anchor), suffix))
    BY <1>1, <2>3, Widened
  <2>5. target - left \in Nat
    BY <1>1, <2>3
  <2> HIDE DEF prefix, suffix, end
  <2>6. replacement' \in Texts
    <3>1. Cat(prefix, replacement) \in Texts
      BY <1>1, <2>4, CatLen
    <3> QED
      BY <2>2, <2>4, <3>1, CatLen
  <2>7. Splice(source, target - left, anchor', replacement')
            = Splice(source, target, anchor, replacement)
    <3> DEFINE o == target - left
               h == Cat(Cat(prefix, anchor), suffix)
               g == Cat(Cat(prefix, replacement), suffix)
    <3>1. o \in Nat /\ o + Len(prefix) = target
      BY <1>1, <2>3, <2>4
    <3>2. o + Len(h) <= Len(source) /\ At(source, o, h)
      BY <2>4 DEF Occurrence
    <3> HIDE DEF o
    <3>3. Splice(source, o, h, g) = Splice(source, o + Len(prefix), anchor, replacement)
      <4>1. PICK p \in Texts : p = prefix
        BY <2>4
      <4>2. PICK s \in Texts : s = suffix
        BY <2>4
      <4>3. /\ o + Len(Cat(Cat(p, anchor), s)) <= Len(source)
            /\ At(source, o, Cat(Cat(p, anchor), s))
        BY <3>2, <4>1, <4>2
      <4>4. Splice(source, o, Cat(Cat(p, anchor), s), Cat(Cat(p, replacement), s))
                = Splice(source, o + Len(p), anchor, replacement)
        BY ONLY <1>1, <3>1, <4>3, SpliceWithin
      <4> QED
        BY <4>1, <4>2, <4>4
    <3> QED
      BY <2>2, <3>1, <3>3 DEF o
  <2>8. TextType'
    BY <1>0, <2>1, <2>2, <2>4, <2>5, <2>6, SourceKept DEF EditInv, TextType
  <2>9. StartKept'
    BY <1>0, <1>1, <2>1 DEF StartKept, Occurrence
  <2>10. TargetKept'
    <3>1. Occurrence(target, anchor)'
      BY <1>0, <2>1, <2>2, <2>4 DEF Occurrence
    <3>2. Splice(source', target', anchor', replacement')
              = Splice(source', start', edit'.find, edit'.replace)
      BY <1>0, <1>1, <2>1, <2>7
    <3> QED
      BY <3>1, <3>2 DEF TargetKept
  <2> QED
    BY <2>1, <2>8, <2>9, <2>10 DEF EditInv, AnswerKept, AppliedKept
<1> QED
  BY <1>2, <1>3

LEMMA ApplyKeeps ==
    ASSUME EditInv, Apply PROVE EditInv'
<1>0. /\ UNCHANGED <<source, windows, edit, start, target, anchor, replacement>>
      /\ phase = "widening" /\ phase' \in {"rejected", "applied"}
      /\ Count(source, anchor) = 1
      /\ phase' = "applied" =>
            /\ ~(Len(anchor) > MaxFind(edit) \/ Len(replacement) > MaxReplace(edit))
            /\ updated' = ReplaceFirst(source, anchor, replacement)
  BY DEF Apply
<1>1. TextType'
  BY <1>0, SourceKept DEF EditInv, TextType
<1>2. StartKept' /\ TargetKept'
  BY <1>0 DEF EditInv, StartKept, TargetKept, Occurrence
<1>3. AppliedKept'
  <2>1. /\ Len(anchor) \in Nat /\ Len(replacement) \in Nat
        /\ MaxFind(edit) \in Nat /\ MaxReplace(edit) \in Nat
    BY LimitsAssumption DEF EditInv, TextType, Texts, MaxFind, MaxReplace
  <2>2. phase' = "applied" => Len(anchor) <= MaxFind(edit) /\ Len(replacement) <= MaxReplace(edit)
    BY <1>0, <2>1
  <2>3. /\ Count(source', anchor') = Count(source, anchor)
        /\ ReplaceFirst(source', anchor', replacement') = ReplaceFirst(source, anchor, replacement)
        /\ MaxFind(edit') = MaxFind(edit) /\ MaxReplace(edit') = MaxReplace(edit)
        /\ Len(anchor') = Len(anchor) /\ Len(replacement') = Len(replacement)
    BY <1>0
  <2> QED
    BY <1>0, <2>2, <2>3 DEF AppliedKept
<1> QED
  BY <1>0, <1>1, <1>2, <1>3 DEF EditInv, AnswerKept

LEMMA RefuseKeeps ==
    ASSUME EditInv, Refuse PROVE EditInv'
<1>1. /\ UNCHANGED <<source, windows, edit, start, target, anchor, replacement, updated>>
      /\ phase' = "rejected"
  BY DEF Refuse
<1>2. TextType'
  BY <1>1, SourceKept DEF EditInv, TextType
<1> QED
  BY <1>1, <1>2 DEF EditInv, AnswerKept, StartKept, TargetKept, AppliedKept

LEMMA StutterKeeps ==
    ASSUME EditInv, UNCHANGED vars PROVE EditInv'
<1>1. UNCHANGED <<source, windows, edit, phase, start, target, anchor, replacement, updated>>
  BY DEF vars
<1>2. TextType'
  BY <1>1, SourceKept DEF EditInv, TextType
<1>3. AnswerKept' /\ StartKept' /\ TargetKept'
  BY <1>1, LocatedKept DEF EditInv, AnswerKept, StartKept, TargetKept, Occurrence
<1>4. AppliedKept'
  BY <1>1 DEF EditInv, AppliedKept
<1> QED
  BY <1>2, <1>3, <1>4 DEF EditInv

\* The invariant of the specification.
LEMMA EditInvariant == Spec => []EditInv
<1>1. Init => EditInv
  BY EditInit
<1>2. EditInv /\ [Next]_vars => EditInv'
  BY AnswerUnitKeeps, AnswerSnippetKeeps, LocateKeeps, TrimKeeps, WidenKeeps, ApplyKeeps,
     RefuseKeeps, StutterKeeps DEF Next
<1> QED
  BY <1>1, <1>2, PTL DEF Spec

\* Trimming, widening and the replacement of the first match amount to the
\* replacement of the occurrence selected (_resolve_structured_anchor).
THEOREM ReplacesSelected == Spec => []EditLandsWhereSelected
<1>1. EditInv => EditLandsWhereSelected
  <2> SUFFICES ASSUME EditInv, phase = "applied", Matches(source, anchor) = {target}
               PROVE  /\ updated = Splice(source, start, edit.find, edit.replace)
                      /\ Len(anchor) <= MaxFind(edit)
                      /\ Len(replacement) <= MaxReplace(edit)
    BY DEF EditLandsWhereSelected
  <2>1. /\ Count(source, anchor) = 1
        /\ updated = ReplaceFirst(source, anchor, replacement)
        /\ Len(anchor) <= MaxFind(edit) /\ Len(replacement) <= MaxReplace(edit)
    BY DEF EditInv, AppliedKept
  <2>2. Head(Scan(source, anchor)) = target
    <3>1. source \in Texts /\ anchor \in Texts
      BY DEF EditInv, TextType
    <3>2. Head(Scan(source, anchor)) \in Matches(source, anchor)
      BY <2>1, <3>1, OnlyMatch
    <3> QED
      BY <3>2
  <2>3. updated = Splice(source, target, anchor, replacement)
    BY <2>1, <2>2 DEF ReplaceFirst
  <2> QED
    BY <2>1, <2>3 DEF EditInv, TargetKept
<1> QED
  BY <1>1, EditInvariant, PTL

\* An anchor whose matches do not overlap is found at the target only, so that
\* the comment that calls it globally unique holds (planner.py:349).
THEOREM UniqueUnlessOverlapping ==
    Spec => [](phase = "applied" /\ Apart(source, anchor) =>
                  /\ Matches(source, anchor) = {target}
                  /\ SelectionIsReplaced)
<1>1. ASSUME EditInv, phase = "applied", Apart(source, anchor)
      PROVE  Matches(source, anchor) = {target}
  <2>1. /\ source \in Texts /\ anchor \in Texts /\ Count(source, anchor) = 1
        /\ Occurrence(target, anchor)
    BY <1>1 DEF EditInv, TextType, TargetKept, AppliedKept
  <2>2. target \in Matches(source, anchor)
    BY <2>1, MatchFacts DEF Occurrence
  <2>3. /\ Scan(source, anchor) \in Seq(Matches(source, anchor))
        /\ Len(Scan(source, anchor)) = 1
        /\ \A m \in Matches(source, anchor) :
              \E i \in DOMAIN Scan(source, anchor) : Scan(source, anchor)[i] = m
    BY <1>1, <2>1, ScanFacts DEF Count
  <2>4. DOMAIN Scan(source, anchor) = 1..1
    <3> HIDE DEF Scan
    <3> QED
      BY <2>3
  <2>5. \A m \in Matches(source, anchor) : m = Scan(source, anchor)[1]
    BY <2>3, <2>4
  <2> QED
    BY <2>2, <2>5
<1>2. EditInv /\ EditLandsWhereSelected =>
        (phase = "applied" /\ Apart(source, anchor) =>
            Matches(source, anchor) = {target} /\ SelectionIsReplaced)
  BY <1>1 DEF EditLandsWhereSelected, SelectionIsReplaced
<1> QED
  BY <1>2, EditInvariant, ReplacesSelected, PTL

-----------------------------------------------------------------------------
(* The occurrence selected is the causal one.                                *)

\* A record of a candidate.
Record(w, p, f) == [at |-> w.offset + p, rank |-> FocusRank(w, p, Len(f))]

\* The rank of an occurrence, by where it is from the focus.
LEMMA RankFacts ==
    ASSUME NEW w \in WindowType, w.focus > 0, NEW p \in Nat, NEW l \in Nat, l >= 1
    PROVE  LET r == FocusRank(w, p, l)
           IN  /\ r[1] \in Int /\ r[2] \in Int
               /\ p <= w.focus /\ w.focus < p + l => r[1] = 0 /\ r[2] = 0
               /\ p > w.focus => r[1] = 1 /\ r[2] = p - w.focus
               /\ p + l <= w.focus => r[1] = 2 /\ r[2] = w.focus - (p + l)
<1> DEFINE f == w.focus
           r == FocusRank(w, p, l)
<1>1. f \in Nat /\ Focus(w) = f
  BY DEF WindowType, Focus
<1>2. r = IF p <= f /\ f < p + l THEN <<0, 0>>
          ELSE IF p >= f THEN <<1, p - f>> ELSE <<2, f - (p + l)>>
  BY <1>1 DEF FocusRank
<1>3. \A x, y : <<x, y>>[1] = x /\ <<x, y>>[2] = y
  OBVIOUS
<1> HIDE DEF f, r
<1>4. CASE p <= f /\ f < p + l
  <2>1. r = <<0, 0>>
    BY <1>2, <1>4
  <2>2. ~(p > f) /\ ~(p + l <= f)
    BY <1>1, <1>4
  <2> QED
    BY <1>3, <2>1, <2>2 DEF f, r
<1>5. CASE p > f
  <2>1. r = <<1, p - f>>
    BY <1>1, <1>2, <1>5
  <2>2. ~(p <= f) /\ ~(p + l <= f) /\ p - f \in Int
    BY <1>1, <1>5
  <2> QED
    BY <1>3, <2>1, <2>2 DEF f, r
<1>6. CASE p + l <= f
  <2>1. r = <<2, f - (p + l)>>
    BY <1>1, <1>2, <1>6
  <2>2. ~(p > f) /\ ~(f < p + l) /\ f - (p + l) \in Int
    BY <1>1, <1>6
  <2> QED
    BY <1>3, <2>1, <2>2 DEF f, r
<1> QED
  BY <1>1, <1>4, <1>5, <1>6

\* A nearer rank is a closer occurrence.
LEMMA NearerIsCloser ==
    ASSUME windows \in Seq(WindowType), edit.find \in Texts, edit.find # <<>>,
           NEW i \in DOMAIN windows, NEW j \in DOMAIN windows,
           windows[i].focus > 0, windows[j].focus > 0,
           NEW p \in Nat, NEW q \in Nat,
           Nearer(FocusRank(windows[i], p, Len(edit.find)),
                  FocusRank(windows[j], q, Len(edit.find)))
    PROVE  Closer(i, windows[i].offset + p, j, windows[j].offset + q)
<1> DEFINE l == Len(edit.find)
           a == windows[i].offset
           b == windows[j].offset
           f == windows[i].focus
           g == windows[j].focus
           r == FocusRank(windows[i], p, l)
           s == FocusRank(windows[j], q, l)
<1>1. windows[i] \in WindowType /\ windows[j] \in WindowType
  OBVIOUS
<1>2. l \in Nat /\ l >= 1
  BY EmptySeq DEF Texts
<1>3. a \in Nat /\ b \in Nat /\ f \in Nat /\ g \in Nat
  BY <1>1 DEF WindowType
<1>4. /\ r[1] \in Int /\ r[2] \in Int
      /\ p <= f /\ f < p + l => r[1] = 0 /\ r[2] = 0
      /\ p > f => r[1] = 1 /\ r[2] = p - f
      /\ p + l <= f => r[1] = 2 /\ r[2] = f - (p + l)
  BY <1>1, <1>2, RankFacts
<1>5. /\ s[1] \in Int /\ s[2] \in Int
      /\ q <= g /\ g < q + l => s[1] = 0 /\ s[2] = 0
      /\ q > g => s[1] = 1 /\ s[2] = q - g
      /\ q + l <= g => s[1] = 2 /\ s[2] = g - (q + l)
  BY <1>1, <1>2, RankFacts
<1>6. r[1] < s[1] \/ (r[1] = s[1] /\ r[2] < s[2])
  BY DEF Nearer
<1>7. Closer(i, a + p, j, b + q) <=>
        /\ ~(b + q <= b + g /\ b + g < (b + q) + l)
        /\ \/ a + p <= a + f /\ a + f < (a + p) + l
           \/ /\ a + p > a + f
              /\ b + q > b + g => (a + p) - (a + f) < (b + q) - (b + g)
           \/ /\ ~(a + p > a + f) /\ ~(b + q > b + g)
              /\ (a + f) - (a + p) < (b + g) - (b + q)
  BY DEF Closer
<1> HIDE DEF l, a, b, f, g, r, s
<1>8. Closer(i, a + p, j, b + q) <=>
        /\ ~(q <= g /\ g < q + l)
        /\ \/ p <= f /\ f < p + l
           \/ p > f /\ (q > g => p - f < q - g)
           \/ ~(p > f) /\ ~(q > g) /\ f - p < g - q
  <2>1. /\ a + p <= a + f <=> p <= f
        /\ a + f < (a + p) + l <=> f < p + l
        /\ a + p > a + f <=> p > f
        /\ (a + p) - (a + f) = p - f /\ (a + f) - (a + p) = f - p
    BY <1>2, <1>3
  <2>2. /\ b + q <= b + g <=> q <= g
        /\ b + g < (b + q) + l <=> g < q + l
        /\ b + q > b + g <=> q > g
        /\ (b + q) - (b + g) = q - g /\ (b + g) - (b + q) = g - q
    BY <1>2, <1>3
  <2> QED
    BY <1>7, <2>1, <2>2
<1>9. Closer(i, a + p, j, b + q)
  BY <1>2, <1>3, <1>4, <1>5, <1>6, <1>8
<1> QED
  BY <1>9 DEF a, b

\* With matches apart, every match in a window searched is a candidate.
LEMMA MatchIsCandidate ==
    ASSUME source \in Texts, NEW f \in Texts, Apart(source, f),
           NEW ws \in SUBSET WindowType, NEW w \in ws, NEW p \in Matches(w.text, f)
    PROVE  /\ Scan(w.text, f) # <<>>
           /\ Record(w, p, f) \in Candidates(ws, f)
<1> DEFINE n == Len(f)
           a == w.offset
<1>1. w \in WindowType /\ w.text \in Texts /\ a \in Nat /\ n \in Nat
  BY DEF WindowType, Texts
<1>2. Apart(w.text, f)
  <2> SUFFICES ASSUME NEW x \in Matches(w.text, f), NEW y \in Matches(w.text, f), x < y
               PROVE  x + n <= y
    BY DEF Apart
  <2>1. x \in Nat /\ y \in Nat
    BY <1>1, MatchFacts
  <2>2. Occurrence(a + x, f) /\ Occurrence(a + y, f)
    BY <1>1, <2>1, WindowMatches
  <2>3. a + x \in Matches(source, f) /\ a + y \in Matches(source, f)
    BY <2>2, MatchFacts DEF Occurrence
  <2>4. a + x < a + y
    BY <1>1, <2>1
  <2>5. (a + x) + n <= a + y
    BY <2>3, <2>4 DEF Apart
  <2> QED
    BY <1>1, <2>1, <2>5
<1>3. PICK i \in DOMAIN Scan(w.text, f) : Scan(w.text, f)[i] = p
  BY <1>1, <1>2, ScanFacts
<1>4. Scan(w.text, f) # <<>>
  BY <1>3
<1>5. Record(w, p, f) \in Candidates(ws, f)
  BY <1>3 DEF Candidates, Record
<1> QED
  BY <1>4, <1>5

\* The single best is nearer than any other candidate.
LEMMA BestIsNearer ==
    ASSUME NEW C, \A c \in C : c.rank[1] \in Int /\ c.rank[2] \in Int,
           NEW c \in Best(C), NEW d \in C, d # c
    PROVE  c \in C /\ Nearer(c.rank, d.rank)
<1>1. /\ c \in C /\ \A e \in C : ~Nearer(e.rank, c.rank)
      /\ \E e \in C : Nearer(e.rank, d.rank)
  BY DEF Best
<1>2. PICK e \in C : Nearer(e.rank, d.rank)
  BY <1>1
<1>3. ~Nearer(e.rank, c.rank)
  BY <1>1
<1> QED
  BY <1>1, <1>2, <1>3 DEF Nearer

LEMMA WindowSizes ==
    ASSUME NEW w \in WindowType, NEW f \in Texts
    PROVE  w.offset \in Nat /\ Len(f) \in Nat /\ Len(w.text) \in Nat
<1>1. w.offset \in Nat /\ w.text \in Texts
  BY DEF WindowType
<1> QED
  BY <1>1 DEF Texts

\* A match inside a window is a match in its text, and the reverse.
LEMMA InsideIsMatch ==
    ASSUME source \in Texts, windows \in Seq(WindowType), edit.find \in Texts,
           NEW i \in DOMAIN windows, NEW o, Inside(i, o)
    PROVE  \E p \in Matches(windows[i].text, edit.find) :
              p \in Nat /\ o = windows[i].offset + p
<1> DEFINE w == windows[i]
           p == o - w.offset
<1>0. w \in WindowType
  OBVIOUS
<1>1. /\ w \in WindowType /\ w.offset \in Nat
      /\ Len(edit.find) \in Nat /\ Len(w.text) \in Nat
  BY <1>0, WindowSizes
<1>2. /\ Occurrence(o, edit.find) /\ w.offset <= o
      /\ o + Len(edit.find) <= w.offset + Len(w.text)
  BY MatchFacts DEF Inside, Occurrence
<1>3. o \in Nat
  BY <1>2 DEF Occurrence
<1> HIDE DEF w
<1>4. p \in Nat /\ o = w.offset + p /\ p + Len(edit.find) <= Len(w.text)
  <2>1. \A x, y, n, m \in Nat : x <= y /\ y + n <= x + m =>
            y - x \in Nat /\ y = x + (y - x) /\ (y - x) + n <= m
    OBVIOUS
  <2> QED
    BY <1>1, <1>2, <1>3, <2>1
<1> HIDE DEF p
<1>5. p \in Matches(w.text, edit.find)
  BY <1>1, <1>2, <1>4, WindowMatches
<1> QED
  BY <1>4, <1>5 DEF w

LEMMA MatchIsInside ==
    ASSUME source \in Texts, windows \in Seq(WindowType), edit.find \in Texts,
           NEW i \in DOMAIN windows, NEW p \in Nat,
           p \in Matches(windows[i].text, edit.find)
    PROVE  Inside(i, windows[i].offset + p)
<1> DEFINE w == windows[i]
           o == w.offset + p
<1>0. w \in WindowType
  OBVIOUS
<1>1. /\ w \in WindowType /\ w.offset \in Nat
      /\ Len(edit.find) \in Nat /\ Len(w.text) \in Nat
  BY <1>0, WindowSizes
<1> HIDE DEF w
<1>2. p + Len(edit.find) <= Len(w.text) /\ Occurrence(o, edit.find)
  BY <1>1, WindowMatches DEF w
<1>3. o \in Matches(source, edit.find)
  BY <1>2, MatchFacts DEF Occurrence
<1>4. w.offset <= o /\ o + Len(edit.find) <= w.offset + Len(w.text)
  BY <1>1, <1>2
<1> QED
  BY <1>3, <1>4 DEF w, Inside

\* When matches are apart, a snippet is found in the window named if it is there.
LEMMA NamedIsFound ==
    ASSUME TextType, Apart(source, edit.find), edit.window \in DOMAIN windows
    PROVE  Occurs(windows[edit.window].text, edit.find)
              <=> \E o \in Matches(source, edit.find) : Inside(edit.window, o)
<1> DEFINE w == windows[edit.window]
           f == edit.find
<1>1. /\ source \in Texts /\ windows \in Seq(WindowType) /\ f \in Texts
      /\ w \in WindowType /\ w.text \in Texts
  BY DEF TextType, EditType, WindowType
<1>2. ASSUME NEW o \in Matches(source, f), Inside(edit.window, o)
      PROVE  Scan(w.text, f) # <<>>
  <2>1. PICK p \in Matches(w.text, f) : p \in Nat /\ o = w.offset + p
    BY <1>1, <1>2, InsideIsMatch
  <2> QED
    <3>1. w \in {w} /\ {w} \in SUBSET WindowType
      BY <1>1
    <3> HIDE DEF w, f
    <3> QED
      BY <1>1, <2>1, <3>1, MatchIsCandidate DEF f
<1>3. ASSUME Scan(w.text, f) # <<>>
      PROVE  \E o \in Matches(source, f) : Inside(edit.window, o)
  <2>1. 1 \in DOMAIN Scan(w.text, f)
    <3>1. Scan(w.text, f) \in Seq(Matches(w.text, f))
      BY <1>1, ScanFacts
    <3> HIDE DEF Scan
    <3> QED
      BY <1>3, <3>1, EmptySeq
  <2>2. PICK p \in Nat : p \in Matches(w.text, f)
    BY <1>1, <2>1, ScanMatches
  <2>3. Inside(edit.window, w.offset + p)
    BY <1>1, <2>2, MatchIsInside
  <2> QED
    BY <2>3 DEF Inside
<1> QED
  BY <1>2, <1>3 DEF Occurs

\* CausalOccurrence, of a state that satisfies the invariant.
LEMMA CausalStart ==
    ASSUME EditInv, phase = "trimming", edit.window # None, Apart(source, edit.find),
           \A i \in DOMAIN windows : windows[i].focus > 0
    PROVE  LET named == \E o \in Matches(source, edit.find) : Inside(edit.window, o)
           IN  \E i \in DOMAIN windows :
                  /\ Inside(i, start)
                  /\ named => i = edit.window
                  /\ \A j \in DOMAIN windows, o \in Matches(source, edit.find) \ {start} :
                        Inside(j, o) /\ (named => j = i) => Closer(i, start, j, o)
<1> DEFINE named == \E o \in Matches(source, edit.find) : Inside(edit.window, o)
           f == edit.find
           F == Searched(edit)
           C == Candidates(F, f)
<1>1. /\ source \in Texts /\ windows \in Seq(WindowType) /\ f \in Texts /\ f # <<>>
      /\ edit.unit = None /\ start \in Located(edit)
  BY DEF EditInv, TextType, EditType, AnswerKept, StartKept
<1>2. /\ edit.window \in DOMAIN windows
      /\ start \in {c.at : c \in Best(C)}
  BY <1>1 DEF Located
<1>3. PICK c \in Best(C) : start = c.at
  BY <1>2
<1>4. F = IF named THEN {windows[edit.window]} ELSE {windows[i] : i \in DOMAIN windows}
  BY <1>2, NamedIsFound DEF Searched, EditInv
<1>5. F \in SUBSET WindowType
  BY <1>1, <1>2, <1>4
<1> HIDE DEF named, F, C
<1>6. \A d \in C : \E w \in F : \E p \in Matches(w.text, f) : p \in Nat /\ d = Record(w, p, f)
  BY <1>1, <1>5, CandidateOccurs DEF C, Record
<1>7. \A d \in C : d.rank[1] \in Int /\ d.rank[2] \in Int
  <2> SUFFICES ASSUME NEW d \in C PROVE d.rank[1] \in Int /\ d.rank[2] \in Int
    OBVIOUS
  <2>1. PICK w \in F : \E p \in Matches(w.text, f) : p \in Nat /\ d = Record(w, p, f)
    BY <1>6
  <2>2. PICK p \in Nat : d = Record(w, p, f)
    BY <2>1
  <2>3. w \in WindowType /\ w.focus > 0
    BY <1>2, <1>4, <1>5
  <2>4. Len(f) \in Nat /\ Len(f) >= 1
    BY <1>1, EmptySeq DEF Texts
  <2>5. FocusRank(w, p, Len(f))[1] \in Int /\ FocusRank(w, p, Len(f))[2] \in Int
    BY <2>3, <2>4, RankFacts
  <2> QED
    BY <2>2, <2>5 DEF Record
<1>8. c \in C
  BY DEF Best
<1>9. PICK w \in F : \E p \in Matches(w.text, f) : p \in Nat /\ c = Record(w, p, f)
  BY <1>6, <1>8
<1>10. PICK p \in Matches(w.text, f) : p \in Nat /\ c = Record(w, p, f)
  BY <1>9
<1>11. PICK i \in DOMAIN windows : w = windows[i] /\ (named => i = edit.window)
  BY <1>2, <1>4
<1>12. start = windows[i].offset + p
  BY <1>3, <1>10, <1>11 DEF Record
<1>13. Inside(i, start)
  BY <1>1, <1>10, <1>11, <1>12, MatchIsInside
<1>14. ASSUME NEW j \in DOMAIN windows, NEW o \in Matches(source, edit.find) \ {start},
              Inside(j, o), named => j = i
       PROVE  Closer(i, start, j, o)
  <2>1. PICK q \in Matches(windows[j].text, f) : q \in Nat /\ o = windows[j].offset + q
    BY <1>1, <1>14, InsideIsMatch
  <2>2. windows[j] \in F
    BY <1>4, <1>11, <1>14
  <2> DEFINE d == Record(windows[j], q, f)
  <2>3. d \in C
    BY <1>1, <1>5, <2>1, <2>2, MatchIsCandidate DEF C
  <2>4. d # c
    BY <1>3, <1>14, <2>1 DEF Record
  <2> HIDE DEF d
  <2>5. Nearer(c.rank, d.rank)
    BY <1>7, <2>3, <2>4, BestIsNearer
  <2>6. Nearer(FocusRank(windows[i], p, Len(f)), FocusRank(windows[j], q, Len(f)))
    BY <1>10, <1>11, <2>5 DEF d, Record
  <2>7. windows[i].focus > 0 /\ windows[j].focus > 0
    OBVIOUS
  <2>8. Closer(i, windows[i].offset + p, j, windows[j].offset + q)
    BY <1>1, <1>10, <2>1, <2>6, <2>7, NearerIsCloser
  <2> QED
    BY <1>12, <2>1, <2>8
<1> QED
  BY <1>11, <1>13, <1>14 DEF named

\* The occurrence selected is in the window named when the snippet is there, and
\* closer to the focus of its window than any other that is searched
\* (_resolve_structured_anchor, _focus_rank).
THEOREM SelectsCausal == Spec => []CausalOccurrence
<1>1. EditInv => CausalOccurrence
  BY CausalStart DEF CausalOccurrence, Apart
<1> QED
  BY <1>1, EditInvariant, PTL
=============================================================================
