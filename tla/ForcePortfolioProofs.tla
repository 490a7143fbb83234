------------------------ MODULE ForcePortfolioProofs ------------------------
(***************************************************************************)
(* Proofs about ForcePortfolio.                                            *)
(*                                                                         *)
(* DistinctCandidates is not inductive: it rests on the reservations, which *)
(* travel from the request to the scoped copy of each call and back through *)
(* the carried feedback, and on the list of the last four reservations     *)
(* being long enough.  CoverInv says that every candidate found so far is  *)
(* reserved in the request, LengthInv that the list has never more entries *)
(* than finished candidates, ScopedInv that the copy a call is made with   *)
(* agrees with the request, and FutureInv that later slots are empty.      *)
(***************************************************************************)
EXTENDS ForcePortfolio, TLAPS

KindInv ==
    /\ pc \in {"candidate", "scope", "call", "close", "done"}
    /\ index \in Candidates
    /\ request.reserved \in Seq(Mutations)
    /\ found \in [Candidates -> Mutations \cup {None}]

TimeInv ==
    /\ now \in Nat
    /\ until \in Nat
    /\ now <= Budget
    /\ until <= Budget
    /\ attempt \in {"primary", "transport", "correction"}

LengthInv == Len(request.reserved) < index \/ pc = "done"

FutureInv == pc # "done" => \A i \in Candidates : i >= index => found[i] = None

CoverInv == \A i \in Candidates : found[i] # None => found[i] \in Range(request.reserved)

ScopedInv ==
    pc = "call" => scoped.reserved = request.reserved /\ position \in Positions

MemoryInv ==
    "brain-force-sandbox-memory" \in Evidence =>
        /\ "brain-force-sandbox-memory" \in request.evidence
        /\ pc = "call" => "brain-force-sandbox-memory" \in scoped.evidence

PInv ==
    /\ KindInv /\ LengthInv /\ FutureInv /\ CoverInv /\ ScopedInv /\ MemoryInv
    /\ DistinctCandidates /\ NegativeMemoryRespected

-----------------------------------------------------------------------------
(* A portfolio of at most four candidates never loses a reservation, and   *)
(* the new one is among them.                                              *)
LEMMA ReservationsKept ==
    ASSUME NEW reserved \in Seq(Mutations), NEW m \in Mutations,
           Len(reserved) <= 3
    PROVE  /\ LastReservations(Append(reserved, m)) \in Seq(Mutations)
           /\ Len(LastReservations(Append(reserved, m))) = Len(reserved) + 1
           /\ Range(LastReservations(Append(reserved, m))) = Range(reserved) \cup {m}
<1> DEFINE all == Append(reserved, m)
<1>0. Len(reserved) \in Nat
  OBVIOUS
<1>1. all \in Seq(Mutations) /\ Len(all) = Len(reserved) + 1
  OBVIOUS
<1> HIDE DEF all
<1>2. Most(1, Len(all) - 3) = 1
  <2>1. PICK n \in Nat : n = Len(reserved)
    BY <1>0
  <2>2. n <= 3
    BY <2>1
  <2>3. Len(all) = n + 1
    BY <1>1, <2>1
  <2>4. ~(1 > (n + 1) - 3) => (n + 1) - 3 = 1
    BY <2>2
  <2> QED BY <2>3, <2>4 DEF Most
<1>3. LastReservations(all) = SubSeq(all, 1, Len(all))
  BY <1>2 DEF LastReservations
<1>4. SubSeq(all, 1, Len(all)) = all
  BY <1>1
<1> USE DEF all
<1>5. Range(all) = Range(reserved) \cup {m}
  <2>1. DOMAIN all = 1..(Len(reserved) + 1) /\ DOMAIN reserved = 1..Len(reserved)
    BY <1>1
  <2>2. \A k \in 1..Len(reserved) : all[k] = reserved[k]
    OBVIOUS
  <2>3. all[Len(reserved) + 1] = m
    OBVIOUS
  <2>4. ASSUME NEW x \in Range(all) PROVE x \in Range(reserved) \cup {m}
    BY <2>1, <2>2, <2>3 DEF Range
  <2>5. ASSUME NEW x \in Range(reserved) \cup {m} PROVE x \in Range(all)
    <3>1. CASE x = m
      BY <3>1, <2>1, <2>3 DEF Range
    <3>2. CASE x \in Range(reserved)
      <4>1. PICK k \in 1..Len(reserved) : x = reserved[k]
        BY <3>2, <2>1 DEF Range
      <4>2. k \in DOMAIN all /\ all[k] = x
        BY <4>1, <2>1, <2>2
      <4> QED BY <4>2 DEF Range
    <3> QED BY <2>5, <3>1, <3>2
  <2> QED BY <2>4, <2>5
<1> QED BY <1>1, <1>3, <1>4, <1>5

(* A step that leaves request, candidates and index alone keeps PInv when    *)
(* the copy of a call it leads to still agrees with the request.           *)
LEMMA QuietStep ==
    ASSUME PInv, request' = request, found' = found, index' = index,
           pc # "done", pc' \in {"scope", "call", "close"},
           pc' = "call" =>
               /\ scoped'.reserved = request.reserved
               /\ position' \in Positions
               /\ "brain-force-sandbox-memory" \in Evidence =>
                     "brain-force-sandbox-memory" \in scoped'.evidence
    PROVE  PInv'
<1>1. KindInv'
  BY DEF PInv, KindInv
<1>2. LengthInv'
  BY DEF PInv, LengthInv
<1>3. FutureInv'
  BY DEF PInv, FutureInv
<1>4. CoverInv'
  BY DEF PInv, CoverInv
<1>5. ScopedInv'
  BY DEF ScopedInv
<1>6. MemoryInv'
  BY DEF PInv, MemoryInv
<1>7. DistinctCandidates'
  BY DEF PInv, DistinctCandidates
<1>8. NegativeMemoryRespected'
  BY DEF PInv, NegativeMemoryRespected
<1> QED BY <1>1, <1>2, <1>3, <1>4, <1>5, <1>6, <1>7, <1>8 DEF PInv

(* The new candidate is none of the earlier ones, and it is reserved.      *)
LEMMA SelectStep == PInv /\ Select => PInv'
<1> SUFFICES ASSUME PInv, Select PROVE PInv'
  OBVIOUS
<1> USE DEF Candidates
<1>1. pc = "call"
  BY DEF Select, Answer
<1>2. PICK m \in Offers[ScopeOrder[position]] :
        /\ ~BlocksMutation(scoped, m)
        /\ found' = [found EXCEPT ![index] = m]
        /\ request' = [evidence |-> request.evidence,
                       reserved |-> LastReservations(Append(request.reserved, m)),
                       feedback |-> request.feedback]
  BY DEF Select
<1>3. m \in Mutations /\ m # None
  <2>1. position \in 1..Len(ScopeOrder)
    BY <1>1 DEF PInv, ScopedInv, Positions
  <2>2. ScopeOrder[position] \in Range(ScopeOrder)
    BY <2>1, MutationAssumption DEF Range
  <2> QED BY <1>2, <2>2, MutationAssumption
<1>4. /\ index \in 1..MaxHypotheses
      /\ request.reserved \in Seq(Mutations)
      /\ Len(request.reserved) < index
      /\ MaxHypotheses \in 1..4
  BY <1>1, PortfolioAssumption DEF PInv, KindInv, LengthInv
<1>5. Len(request.reserved) <= 3
  BY <1>4
<1>6. /\ request'.reserved \in Seq(Mutations)
      /\ Len(request'.reserved) = Len(request.reserved) + 1
      /\ Range(request'.reserved) = Range(request.reserved) \cup {m}
  BY <1>2, <1>3, <1>4, <1>5, ReservationsKept
<1>7. \/ index < MaxHypotheses /\ index' = index + 1 /\ pc' = "candidate"
      \/ index = MaxHypotheses /\ index' = index /\ pc' = "done"
  BY <1>4 DEF Select, Advance
<1>8. \A i \in 1..MaxHypotheses : found'[i] = IF i = index THEN m ELSE found[i]
  BY <1>2, <1>4 DEF PInv, KindInv
<1>9. m \in Blockable => m \notin Range(request.reserved)
  BY <1>1, <1>2 DEF PInv, ScopedInv, BlocksMutation
<1>10. KindInv'
  BY <1>2, <1>3, <1>4, <1>6, <1>7 DEF PInv, KindInv
<1>11. LengthInv'
  <2>1. CASE pc' = "done"
    BY <2>1 DEF LengthInv
  <2>2. CASE index' = index + 1
    <3>1. PICK n \in Nat : n = Len(request.reserved)
      BY <1>4
    <3>2. n + 1 < index + 1
      BY <3>1, <1>4
    <3> QED BY <2>2, <3>1, <3>2, <1>6 DEF LengthInv
  <2> QED BY <1>7, <2>1, <2>2
<1>12. FutureInv'
  <2> SUFFICES ASSUME pc' # "done", NEW i \in 1..MaxHypotheses, i >= index'
               PROVE  found'[i] = None
    BY DEF FutureInv
  <2>1. i > index
    BY <1>4, <1>7
  <2>2. found'[i] = found[i]
    BY <1>4, <1>8, <2>1
  <2>3. found[i] = None
    BY <1>1, <1>4, <2>1 DEF PInv, FutureInv
  <2> QED BY <2>2, <2>3
<1>13. CoverInv'
  BY <1>6, <1>8 DEF PInv, CoverInv
<1>14. ScopedInv'
  BY <1>7 DEF ScopedInv
<1>15. MemoryInv'
  <2>1. request'.evidence = request.evidence
    BY <1>2
  <2> QED BY <2>1, <1>7 DEF PInv, MemoryInv
<1>16. DistinctCandidates'
  <2> SUFFICES ASSUME NEW i \in 1..MaxHypotheses, NEW j \in 1..MaxHypotheses,
                      i # j, found'[i] = found'[j], found'[i] \in Blockable
               PROVE  FALSE
    BY DEF DistinctCandidates
  <2>1. found'[i] # None
    BY MutationAssumption
  <2>2. \A k \in 1..MaxHypotheses :
           k # index /\ found[k] = m /\ m \in Blockable => FALSE
    BY <1>3, <1>9 DEF PInv, CoverInv
  <2>3. CASE i = index
    BY <2>2, <2>3, <1>8
  <2>4. CASE j = index
    BY <2>2, <2>4, <1>8
  <2>5. CASE i # index /\ j # index
    BY <2>5, <1>8 DEF PInv, DistinctCandidates
  <2> QED BY <2>3, <2>4, <2>5
<1>17. NegativeMemoryRespected'
  <2> SUFFICES ASSUME "brain-force-sandbox-memory" \in Evidence,
                      NEW i \in 1..MaxHypotheses
               PROVE  found'[i] \notin Blockable \cap Executed
    BY DEF NegativeMemoryRespected
  <2>1. "brain-force-sandbox-memory" \in scoped.evidence
    BY <1>1 DEF PInv, MemoryInv
  <2>2. m \notin Blockable \cap Executed
    BY <1>2, <2>1 DEF BlocksMutation
  <2>3. found[i] \notin Blockable \cap Executed
    BY DEF PInv, NegativeMemoryRespected
  <2> QED BY <1>8, <2>2, <2>3
<1> QED BY <1>10, <1>11, <1>12, <1>13, <1>14, <1>15, <1>16, <1>17 DEF PInv

(* The feedback carried to the next candidate keeps both guards.            *)
LEMMA CloseStep == PInv /\ Close => PInv'
<1> SUFFICES ASSUME PInv, Close PROVE PInv'
  OBVIOUS
<1> USE DEF Candidates
<1>1. pc = "close" /\ found' = found
  BY DEF Close
<1>2. /\ request'.reserved = request.reserved
      /\ "brain-force-sandbox-memory" \in request.evidence
            => "brain-force-sandbox-memory" \in request'.evidence
  BY DEF Close, Carried, CarriedSources
<1>3. \/ index < MaxHypotheses /\ index' = index + 1 /\ pc' = "candidate"
      \/ index' = index /\ pc' = "done"
  BY DEF Close, Advance
<1>4. index \in 1..MaxHypotheses /\ MaxHypotheses \in 1..4
  BY PortfolioAssumption DEF PInv, KindInv
<1>5. KindInv'
  BY <1>1, <1>2, <1>3, <1>4 DEF PInv, KindInv
<1>6. LengthInv'
  <2>1. PICK n \in Nat : n = Len(request.reserved)
    BY DEF PInv, KindInv
  <2>2. n < index
    BY <1>1, <2>1 DEF PInv, LengthInv
  <2>3. n < index + 1
    BY <2>2, <1>4
  <2> QED BY <1>2, <1>3, <2>1, <2>3 DEF LengthInv
<1>7. FutureInv'
  <2> SUFFICES ASSUME pc' # "done", NEW i \in 1..MaxHypotheses, i >= index'
               PROVE  found[i] = None
    BY <1>1 DEF FutureInv
  <2>1. i >= index
    BY <1>3, <1>4
  <2> QED BY <1>1, <2>1 DEF PInv, FutureInv
<1>8. CoverInv'
  BY <1>1, <1>2 DEF PInv, CoverInv
<1>9. ScopedInv'
  BY <1>3 DEF ScopedInv
<1>10. MemoryInv'
  BY <1>2, <1>3 DEF PInv, MemoryInv
<1>11. DistinctCandidates' /\ NegativeMemoryRespected'
  BY <1>1 DEF PInv, DistinctCandidates, NegativeMemoryRespected
<1> QED BY <1>5, <1>6, <1>7, <1>8, <1>9, <1>10, <1>11 DEF PInv

LEMMA PInvStep == PInv /\ [Next]_vars => PInv'
<1> SUFFICES ASSUME PInv, [Next]_vars PROVE PInv'
  OBVIOUS
<1>1. CASE StartCandidate
  BY <1>1, QuietStep DEF StartCandidate
<1>2. CASE StartScope
  BY <1>2, QuietStep DEF StartScope, PInv, MemoryInv
<1>3. CASE BudgetExhausted
  BY <1>3, QuietStep DEF BudgetExhausted
<1>4. CASE NoScopeLeft
  BY <1>4, QuietStep DEF NoScopeLeft
<1>5. CASE Select
  BY <1>5, SelectStep
<1>6. CASE Abstain
  <2>1. pc = "call"
    BY <1>6 DEF Abstain, Answer
  <2> QED BY <1>6, <2>1, QuietStep DEF Abstain, NextScope
<1>7. CASE Reject
  <2>1. pc = "call" /\ request' = request /\ found' = found /\ index' = index
    BY <1>7 DEF Reject, Answer
  <2>2. PICK code \in Rejections : Correct(code) \/ Fail(code)
    BY <1>7 DEF Reject
  <2>3. CASE Fail(code)
    BY <2>1, <2>3, QuietStep DEF Fail, NextScope
  <2>4. CASE Correct(code)
    <3>1. /\ scoped'.reserved = scoped.reserved
          /\ scoped'.evidence = scoped.evidence \cap CorrectionSources
          /\ position' = position
          /\ pc' = pc
      BY <2>4 DEF Correct
    <3> QED BY <2>1, <3>1, QuietStep DEF PInv, ScopedInv, MemoryInv, CorrectionSources
  <2> QED BY <2>2, <2>3, <2>4
<1>8. CASE TransportError
  <2>1. pc = "call" /\ request' = request /\ found' = found /\ index' = index
    BY <1>8 DEF TransportError
  <2>2. \/ UNCHANGED <<pc, position, scoped>>
        \/ \E code : Fail(code)
    BY <1>8 DEF TransportError
  <2>3. CASE UNCHANGED <<pc, position, scoped>>
    BY <2>1, <2>3, QuietStep DEF PInv, ScopedInv, MemoryInv
  <2>4. CASE \E code : Fail(code)
    BY <2>1, <2>4, QuietStep DEF Fail, NextScope
  <2> QED BY <2>2, <2>3, <2>4
<1>9. CASE Close
  BY <1>9, CloseStep
<1>10. CASE Done \/ UNCHANGED vars
  <2>1. UNCHANGED vars
    BY <1>10 DEF Done
  <2> QED BY <2>1 DEF vars, PInv, KindInv, LengthInv, FutureInv, CoverInv, ScopedInv,
                      MemoryInv, DistinctCandidates, NegativeMemoryRespected
<1> QED BY <1>1, <1>2, <1>3, <1>4, <1>5, <1>6, <1>7, <1>8, <1>9, <1>10 DEF Next

LEMMA PInvInit == Init => PInv
<1> SUFFICES ASSUME Init PROVE PInv
  OBVIOUS
<1> USE DEF Candidates
<1>1. /\ pc = "candidate" /\ index = 1 /\ found = [i \in 1..MaxHypotheses |-> None]
      /\ request.reserved = <<>> /\ request.evidence = Evidence
  BY DEF Init, FirstRequest
<1>2. 1 \in 1..MaxHypotheses
  BY PortfolioAssumption
<1>3. KindInv
  BY <1>1, <1>2 DEF KindInv
<1>4. LengthInv
  BY <1>1 DEF LengthInv
<1>5. FutureInv /\ CoverInv /\ ScopedInv /\ MemoryInv
  BY <1>1 DEF FutureInv, CoverInv, ScopedInv, MemoryInv
<1>6. DistinctCandidates /\ NegativeMemoryRespected
  BY <1>1, MutationAssumption DEF DistinctCandidates, NegativeMemoryRespected
<1> QED BY <1>3, <1>4, <1>5, <1>6 DEF PInv

-----------------------------------------------------------------------------
(* No two candidates of a portfolio are the same mutation, for the          *)
(* mutations the memory guard covers.                                      *)
THEOREM CandidatesDistinct == Spec => []DistinctCandidates
<1>1. PInv => DistinctCandidates
  BY DEF PInv
<1> QED BY PInvInit, PInvStep, <1>1, PTL DEF Spec

(* An executed negative mutation known to the checkout request never        *)
(* becomes a candidate.                                                    *)
THEOREM NegativeMemoryHolds == Spec => []NegativeMemoryRespected
<1>1. PInv => NegativeMemoryRespected
  BY DEF PInv
<1> QED BY PInvInit, PInvStep, <1>1, PTL DEF Spec

-----------------------------------------------------------------------------
(* The deadline of a candidate lies within the budget, and no call is given *)
(* more than what is left until it.                                        *)
LEMMA TimeoutClipped ==
    ASSUME TimeInv, now < until
    PROVE  Timeout \in Int /\ Timeout <= until - now /\ Timeout >= 0
<1>1. Desired \in Int /\ Desired >= 0
  BY PortfolioAssumption DEF Desired, Least, Most, TimeInv
<1>2. until - now \in Int /\ until - now >= 0
  BY DEF TimeInv
<1> QED BY <1>1, <1>2 DEF Timeout, Least

LEMMA DeadlineWithinBudget ==
    ASSUME TimeInv, index \in Candidates
    PROVE  LET deadline == Least(Budget, now + Most(1, Share))
           IN  deadline \in Nat /\ deadline <= Budget
<1>1. Share \in Int
  <2>1. Remaining \in Int
    BY PortfolioAssumption DEF Remaining, TimeInv
  <2>2. MaxHypotheses - index \in Nat
    BY PortfolioAssumption DEF Candidates
  <2>3. Remaining \div ((MaxHypotheses - index) + 1) \in Int
    BY <2>1, <2>2
  <2> QED BY <2>1, <2>2, <2>3 DEF Share, Least, Most
<1>2. now + Most(1, Share) \in Nat
  BY <1>1 DEF Most, TimeInv
<1> QED BY <1>2, PortfolioAssumption DEF Least

(* A call that takes no longer than its timeout ends within the budget.     *)
LEMMA CallEndsInTime ==
    ASSUME TimeInv, now < until,
           NEW d \in Nat, d <= Timeout
    PROVE  now + d \in Nat /\ now + d <= Budget
<1>1. PICK t \in Int : t = Timeout /\ t <= until - now
  BY TimeoutClipped
<1>2. now \in Nat /\ until \in Nat /\ until <= Budget /\ Budget \in Nat
  BY PortfolioAssumption DEF TimeInv
<1>3. d <= until - now
  BY <1>1, <1>2
<1>4. now + d <= until
  BY <1>2, <1>3
<1> QED BY <1>2, <1>4

LEMMA TimeStep == PInv /\ TimeInv /\ [Next]_vars => TimeInv'
<1> SUFFICES ASSUME PInv, TimeInv, [Next]_vars PROVE TimeInv'
  OBVIOUS
<1>1. CASE StartCandidate
  <2>1. index \in Candidates
    BY DEF PInv, KindInv
  <2>2. until' = Least(Budget, now + Most(1, Share)) /\ UNCHANGED <<now, attempt>>
    BY <1>1 DEF StartCandidate, scopeVars
  <2> QED BY <2>1, <2>2, DeadlineWithinBudget DEF TimeInv
<1>2. ASSUME Answer PROVE now' \in Nat /\ now' <= Budget
  <2>1. PICK d \in Answers : now' = now + d
    BY <1>2 DEF Answer
  <2>2. d \in Nat /\ d <= Timeout
    BY <2>1, PortfolioAssumption DEF Answers
  <2>3. now < until
    BY <1>2 DEF Answer
  <2> QED BY <2>1, <2>2, <2>3, CallEndsInTime
<1>3. CASE StartScope
  BY <1>3 DEF StartScope, candidateVars, TimeInv
<1>4. CASE BudgetExhausted
  BY <1>4 DEF BudgetExhausted, scopeVars, TimeInv
<1>5. CASE NoScopeLeft
  BY <1>5 DEF NoScopeLeft, scopeVars, candidateVars, TimeInv
<1>6. CASE Select
  BY <1>2, <1>6 DEF Select, scopeVars, candidateVars, TimeInv
<1>7. CASE Abstain
  BY <1>2, <1>7 DEF Abstain, scopeVars, TimeInv
<1>8. CASE Reject
  <2>1. attempt' \in {"primary", "transport", "correction"}
    BY <1>8 DEF Reject, Correct, Fail, scopeVars, TimeInv
  <2> QED BY <1>2, <1>8, <2>1 DEF Reject, TimeInv
<1>9. CASE TransportError
  <2>1. attempt' \in {"primary", "transport", "correction"}
    BY <1>9 DEF TransportError, Fail, scopeVars, TimeInv
  <2>2. now' \in Nat /\ now' <= Budget
    <3>1. CASE OutOfTime
      BY <3>1 DEF OutOfTime, TimeInv
    <3>2. CASE now < until /\ now' = now + Timeout
      <4>1. PICK t \in Nat : t = Timeout
        BY <3>2, TimeoutClipped
      <4> QED BY <3>2, <4>1, CallEndsInTime
    <3>3. CASE Answer
      BY <1>2, <3>3
    <3> QED BY <1>9, <3>1, <3>2, <3>3 DEF TransportError
  <2> QED BY <1>9, <2>1, <2>2 DEF TransportError, TimeInv
<1>10. CASE Close
  BY <1>10 DEF Close, scopeVars, candidateVars, TimeInv
<1>11. CASE Done \/ UNCHANGED vars
  BY <1>11 DEF Done, vars, TimeInv
<1> QED BY <1>1, <1>3, <1>4, <1>5, <1>6, <1>7, <1>8, <1>9, <1>10, <1>11 DEF Next

(* All calls of all candidates together end within the provider's budget.  *)
THEOREM BudgetHolds == Spec => []WithinBudget
<1>1. Init => TimeInv
  BY PortfolioAssumption DEF Init, TimeInv
<1>2. TimeInv => WithinBudget
  BY DEF TimeInv, WithinBudget
<1> QED BY PInvInit, PInvStep, TimeStep, <1>1, <1>2, PTL DEF Spec
-----------------------------------------------------------------------------
(* The rest of the state is well formed.  That position is an index of      *)
(* ScopeOrder during a call comes from ScopedInv; that no scope is          *)
(* corrected more than three times from the bound on the corrections; that  *)
(* a preserved error is one of the outcomes from the rejection a correction *)
(* was started with.                                                       *)
RecordInv ==
    /\ position \in 1..(Len(ScopeOrder) + 1)
    /\ correction \in 0..3
    /\ request \in Observations
    /\ scoped \in Observations
    /\ reason \in Rejections \cup {None}
    /\ lastError \in Outcomes \cup {None}
    /\ trace \in Traces
    /\ answered \in BOOLEAN
    /\ abstained \in 0..MaxHypotheses
    /\ rejectedIn \subseteq Positions
    /\ pc = "call" /\ attempt = "correction" => reason \in Rejections

LEMMA OrderLength == Len(ScopeOrder) \in Nat
BY MutationAssumption

(* Writing an outcome at a scope leaves a trace.                            *)
LEMMA TraceWritten ==
    ASSUME trace \in Traces, position \in Positions,
           NEW outcome \in Outcomes \cup {"abstain", "candidate_budget_exhausted"},
           Traced(outcome)
    PROVE  trace' \in Traces
BY DEF Traced, Traces

LEMMA ObservationsBuilt ==
    ASSUME NEW e \in SUBSET Evidence, NEW r \in Seq(Mutations),
           NEW f \in {None} \cup [reason : Outcomes \cup {"abstain"}, trace : Traces]
    PROVE  [evidence |-> e, reserved |-> r, feedback |-> f] \in Observations
BY DEF Observations

LEMMA PositionMoves ==
    ASSUME position \in Positions
    PROVE  position + 1 \in 1..(Len(ScopeOrder) + 1)
BY OrderLength DEF Positions

LEMMA CorrectionsBounded ==
    ASSUME correction \in 0..3, correction < MaxCorrections
    PROVE  correction + 1 \in 0..3
<1>1. MaxCorrections \in {0, 1, 3}
  BY DEF MaxCorrections
<1> QED BY <1>1

LEMMA RecordInit == Init => RecordInv
<1> SUFFICES ASSUME Init PROVE RecordInv
  OBVIOUS
<1>1. Evidence \in SUBSET Evidence /\ <<>> \in Seq(Mutations)
  OBVIOUS
<1>2. FirstRequest \in Observations
  BY <1>1, ObservationsBuilt DEF FirstRequest
<1>3. NoTrace \in Traces
  BY DEF NoTrace, Traces
<1>4. 1 \in 1..(Len(ScopeOrder) + 1)
  BY OrderLength
<1>5. 0 \in 0..MaxHypotheses
  BY PortfolioAssumption
<1>6. /\ pc = "candidate" /\ position = 1 /\ correction = 0
      /\ request = FirstRequest /\ scoped = FirstRequest /\ trace = NoTrace
      /\ reason = None /\ lastError = None /\ answered = FALSE
      /\ abstained = 0 /\ rejectedIn = {}
  BY DEF Init
<1>7. correction \in 0..3 /\ reason \in Rejections \cup {None}
  BY <1>6
<1>8. lastError \in Outcomes \cup {None} /\ answered \in BOOLEAN /\ rejectedIn \subseteq Positions
  BY <1>6
<1>9. pc = "call" /\ attempt = "correction" => reason \in Rejections
  BY <1>6
<1> QED BY <1>2, <1>3, <1>4, <1>5, <1>6, <1>7, <1>8, <1>9 DEF RecordInv

(* What Fail and Correct write, and the two ways Reject ends.               *)
LEMMA FailRecord ==
    ASSUME RecordInv, position \in Positions, NEW code \in Outcomes, Fail(code),
           UNCHANGED <<request, abstained>>, rejectedIn' \subseteq Positions
    PROVE  RecordInv'
<1>0. pc' = "scope"
  BY DEF Fail, NextScope
<1>1. trace' \in Traces
  BY TraceWritten DEF Fail, RecordInv
<1>2. position' \in 1..(Len(ScopeOrder) + 1)
  BY PositionMoves DEF Fail, NextScope
<1>3. UNCHANGED <<correction, scoped, reason, answered>> /\ lastError' = code
  BY DEF Fail, scopeVars
<1> QED BY <1>0, <1>1, <1>2, <1>3 DEF RecordInv

LEMMA CorrectRecord ==
    ASSUME RecordInv, NEW code \in Rejections, correction < MaxCorrections, Correct(code),
           UNCHANGED <<request, abstained>>, rejectedIn' \subseteq Positions
    PROVE  RecordInv'
<1>1. correction' \in 0..3
  BY CorrectionsBounded DEF Correct, RecordInv
<1>2. scoped' \in Observations
  <2>1. /\ scoped.evidence \cap CorrectionSources \in SUBSET Evidence
        /\ scoped.reserved \in Seq(Mutations)
        /\ scoped.feedback \in {None} \cup [reason : Outcomes \cup {"abstain"}, trace : Traces]
    BY DEF RecordInv, Observations
  <2>2. scoped' = [evidence |-> scoped.evidence \cap CorrectionSources,
                   reserved |-> scoped.reserved,
                   feedback |-> scoped.feedback]
    BY DEF Correct
  <2> QED BY <2>1, <2>2, ObservationsBuilt
<1>3. UNCHANGED <<position, lastError, trace, answered>> /\ reason' = code
  BY DEF Correct
<1> QED BY <1>1, <1>2, <1>3 DEF RecordInv

LEMMA SelectRecord == PInv /\ PInv' /\ RecordInv /\ Select => RecordInv'
<1> SUFFICES ASSUME PInv, PInv', RecordInv, Select PROVE RecordInv'
  OBVIOUS
<1>1. PICK kept : request' = [evidence |-> request.evidence, reserved |-> kept,
                              feedback |-> request.feedback]
  BY DEF Select
<1>2. kept \in Seq(Mutations)
  BY <1>1 DEF PInv, KindInv
<1>3. /\ request.evidence \in SUBSET Evidence
      /\ request.feedback \in {None} \cup [reason : Outcomes \cup {"abstain"}, trace : Traces]
  BY DEF RecordInv, Observations
<1>4. request' \in Observations
  BY <1>1, <1>2, <1>3, ObservationsBuilt
<1> QED BY <1>4 DEF Select, Advance, scopeVars, candidateVars, RecordInv

LEMMA CloseRecord == PInv /\ RecordInv /\ Close => RecordInv'
<1> SUFFICES ASSUME PInv, RecordInv, Close PROVE RecordInv'
  OBVIOUS
<1>1. Carried(request) \in Observations
  <2>1. /\ request.evidence \cap CarriedSources \in SUBSET Evidence
        /\ request.reserved \in Seq(Mutations)
    BY DEF RecordInv, Observations
  <2>2. (IF lastError = None THEN "abstain" ELSE lastError) \in Outcomes \cup {"abstain"}
    BY DEF RecordInv
  <2>3. [reason |-> IF lastError = None THEN "abstain" ELSE lastError, trace |-> trace]
           \in [reason : Outcomes \cup {"abstain"}, trace : Traces]
    BY <2>2 DEF RecordInv
  <2> QED BY <2>1, <2>3, ObservationsBuilt DEF Carried
<1>2. request' \in Observations
  BY <1>1 DEF Close, RecordInv
<1>3. abstained' \in 0..MaxHypotheses
  BY PortfolioAssumption DEF Close, RecordInv, PInv, KindInv, Candidates
<1> QED BY <1>2, <1>3 DEF Close, Advance, scopeVars, candidateVars, RecordInv

LEMMA RecordStep == PInv /\ PInv' /\ TimeInv /\ RecordInv /\ [Next]_vars => RecordInv'
<1> SUFFICES ASSUME PInv, PInv', TimeInv, RecordInv, [Next]_vars PROVE RecordInv'
  OBVIOUS
<1>0. pc = "call" => position \in Positions
  BY DEF PInv, ScopedInv
<1>1. CASE StartCandidate
  <2>1. 1 \in 1..(Len(ScopeOrder) + 1) /\ NoTrace \in Traces
    BY OrderLength DEF NoTrace, Traces
  <2> QED BY <1>1, <2>1 DEF StartCandidate, scopeVars, RecordInv
<1>2. CASE StartScope
  BY <1>2 DEF StartScope, candidateVars, RecordInv
<1>3. CASE BudgetExhausted
  <2>1. trace' \in Traces
    BY <1>3, TraceWritten DEF BudgetExhausted, RecordInv
  <2> QED BY <1>3, <2>1 DEF BudgetExhausted, scopeVars, RecordInv, Outcomes, TransportErrors
<1>4. CASE NoScopeLeft
  BY <1>4 DEF NoScopeLeft, scopeVars, candidateVars, RecordInv
<1>5. CASE Select
  BY <1>5, SelectRecord
<1>6. CASE Abstain
  <2>1. pc = "call"
    BY <1>6 DEF Abstain, Answer
  <2>2. trace' \in Traces
    BY <1>0, <1>6, <2>1, TraceWritten DEF Abstain, RecordInv
  <2>3. position' \in 1..(Len(ScopeOrder) + 1)
    BY <1>0, <1>6, <2>1, PositionMoves DEF Abstain, NextScope
  <2> QED BY <1>6, <2>2, <2>3 DEF Abstain, NextScope, scopeVars, RecordInv
<1>7. CASE Reject
  <2>1. position \in Positions
    BY <1>0, <1>7 DEF Reject, Answer
  <2>2. UNCHANGED <<request, abstained>> /\ rejectedIn' \subseteq Positions
    BY <1>7, <2>1 DEF Reject, RecordInv
  <2>3. PICK code \in Rejections :
          IF correction < MaxCorrections THEN Correct(code) ELSE Fail(code)
    BY <1>7 DEF Reject
  <2>4. CASE correction < MaxCorrections
    BY <2>2, <2>3, <2>4, CorrectRecord
  <2>5. CASE ~(correction < MaxCorrections)
    BY <2>1, <2>2, <2>3, <2>5, FailRecord DEF Outcomes
  <2> QED BY <2>4, <2>5
<1>8. CASE TransportError
  <2>1. position \in Positions
    BY <1>0, <1>8 DEF TransportError
  <2>2. UNCHANGED <<request, abstained, rejectedIn>>
    BY <1>8 DEF TransportError
  <2>3. PICK code \in TransportErrors :
          IF Retryable(code)
          THEN /\ attempt' = "transport"
               /\ UNCHANGED <<position, correction, scoped, reason, lastError,
                              trace, answered>>
          ELSE Fail(Preserved(code))
    BY <1>8 DEF TransportError
  <2>4. CASE Retryable(code)
    BY <2>2, <2>3, <2>4 DEF RecordInv
  <2>5. CASE ~Retryable(code)
    <3>1. attempt = "correction" => reason \in Rejections
      BY <1>8 DEF TransportError, RecordInv
    <3>2. Preserved(code) \in Outcomes
      BY <2>3, <3>1 DEF Preserved, Outcomes
    <3> QED BY <2>1, <2>2, <2>3, <2>5, <3>2, FailRecord DEF RecordInv
  <2> QED BY <2>4, <2>5
<1>9. CASE Close
  BY <1>9, CloseRecord
<1>10. CASE Done \/ UNCHANGED vars
  BY <1>10 DEF Done, vars, RecordInv
<1> QED BY <1>1, <1>2, <1>3, <1>4, <1>5, <1>6, <1>7, <1>8, <1>9, <1>10 DEF Next

(* Counters, requests and traces are well formed in every state.            *)
THEOREM TypeCorrect == Spec => []TypeOK
<1>1. Init => TimeInv
  BY PortfolioAssumption DEF Init, TimeInv
<1>2. PInv /\ TimeInv /\ RecordInv => TypeOK
  BY DEF PInv, KindInv, TimeInv, RecordInv, TypeOK
<1> QED BY PInvInit, PInvStep, TimeStep, RecordInit, RecordStep, <1>1, <1>2, PTL DEF Spec
-----------------------------------------------------------------------------
(* Where the rejections of a candidate are.  The trace records one for      *)
(* every scope that had one, except for the scope being corrected, whose    *)
(* rejection is still only in reason; a scope that has not been called yet, *)
(* or is called without being corrected, has none.                          *)
RejectionInv ==
    /\ pc = "call" /\ attempt # "correction" => position \notin rejectedIn
    /\ pc = "scope" => \A p \in rejectedIn : p < position
    /\ pc = "call" => \A p \in rejectedIn : p <= position
    /\ pc \in {"scope", "call", "close"} =>
          \A p \in rejectedIn :
              \/ trace[p] \in Rejections \cup {"abstain"}
              \/ pc = "call" /\ p = position /\ attempt = "correction"

(* A scope that ends leaves its rejection in the trace, if it had one.      *)
LEMMA ScopeEnds ==
    ASSUME RecordInv, RejectionInv, pc = "call", position \in Positions,
           NEW outcome, Traced(outcome), NextScope,
           rejectedIn' \subseteq rejectedIn \cup {position},
           position \in rejectedIn' => outcome \in Rejections \cup {"abstain"}
    PROVE  RejectionInv'
<1>1. rejectedIn \subseteq Positions /\ Positions \subseteq Int
  BY DEF RecordInv, Positions
<1>2. pc' = "scope" /\ position' = position + 1
  BY DEF NextScope
<1>3. \A p \in Positions : trace'[p] = IF p = position THEN outcome ELSE trace[p]
  BY DEF Traced, RecordInv, Traces
<1>4. \A p \in rejectedIn' : p <= position
  BY <1>1 DEF RejectionInv
<1>5. \A p \in rejectedIn' : p < position'
  BY <1>1, <1>2, <1>4
<1>6. ASSUME NEW p \in rejectedIn' PROVE trace'[p] \in Rejections \cup {"abstain"}
  <2>1. CASE p = position
    BY <1>3, <1>6, <2>1
  <2>2. CASE p # position
    <3>1. p \in rejectedIn /\ trace'[p] = trace[p]
      BY <1>1, <1>3, <1>6, <2>2
    <3> QED BY <2>2, <3>1 DEF RejectionInv
  <2> QED BY <2>1, <2>2
<1> QED BY <1>2, <1>5, <1>6 DEF RejectionInv

LEMMA RejectionStep ==
    PInv /\ RecordInv /\ RejectionInv /\ [Next]_vars => RejectionInv'
<1> SUFFICES ASSUME PInv, RecordInv, RejectionInv, [Next]_vars PROVE RejectionInv'
  OBVIOUS
<1>0. pc = "call" => position \in Positions
  BY DEF PInv, ScopedInv
<1>1. CASE StartCandidate
  BY <1>1 DEF StartCandidate, RejectionInv
<1>2. CASE StartScope
  <2>1. rejectedIn \subseteq Int /\ position \in Int
    BY <1>2 DEF RecordInv, Positions, StartScope
  <2>2. \A p \in rejectedIn : p <= position /\ p # position
    BY <1>2, <2>1 DEF StartScope, RejectionInv
  <2> QED BY <1>2, <2>2 DEF StartScope, candidateVars, RejectionInv
<1>3. CASE BudgetExhausted
  <2>1. \A p \in rejectedIn : p \in Positions /\ p # position
    BY <1>3 DEF BudgetExhausted, RejectionInv, RecordInv, Positions
  <2>2. \A p \in rejectedIn : trace'[p] = trace[p]
    BY <1>3, <2>1 DEF BudgetExhausted, Traced, RecordInv, Traces
  <2> QED BY <1>3, <2>2 DEF BudgetExhausted, RejectionInv
<1>4. CASE NoScopeLeft
  BY <1>4 DEF NoScopeLeft, candidateVars, RejectionInv
<1>5. CASE Select
  BY <1>5 DEF Select, Advance, RejectionInv
<1>6. CASE Abstain
  <2>1. pc = "call"
    BY <1>6 DEF Abstain, Answer
  <2> QED BY <1>0, <1>6, <2>1, ScopeEnds DEF Abstain
<1>7. CASE Reject
  <2>1. pc = "call" /\ position \in Positions /\ rejectedIn' = rejectedIn \cup {position}
    BY <1>0, <1>7 DEF Reject, Answer
  <2>2. PICK code \in Rejections : Correct(code) \/ Fail(code)
    BY <1>7 DEF Reject
  <2>3. CASE Fail(code)
    BY <2>1, <2>2, <2>3, ScopeEnds DEF Fail
  <2>4. CASE Correct(code)
    <3>1. pc' = "call" /\ attempt' = "correction" /\ UNCHANGED <<position, trace>>
      BY <2>1, <2>4 DEF Correct
    <3>2. position \in Int
      BY <2>1 DEF Positions
    <3> QED BY <2>1, <3>1, <3>2 DEF RejectionInv
  <2> QED BY <2>2, <2>3, <2>4
<1>8. CASE TransportError
  <2>1. pc = "call" /\ position \in Positions /\ rejectedIn' = rejectedIn
    BY <1>0, <1>8 DEF TransportError
  <2>2. PICK code \in TransportErrors :
          IF Retryable(code)
          THEN attempt' = "transport" /\ UNCHANGED <<pc, position, trace>>
          ELSE Fail(Preserved(code))
    BY <1>8 DEF TransportError
  <2>3. CASE Retryable(code)
    BY <2>1, <2>2, <2>3 DEF Retryable, RejectionInv
  <2>4. CASE ~Retryable(code)
    <3>1. position \in rejectedIn => attempt = "correction" /\ reason \in Rejections
      BY <2>1 DEF RejectionInv, RecordInv
    <3>2. position \in rejectedIn => Preserved(code) \in Rejections
      BY <3>1 DEF Preserved
    <3> QED BY <2>1, <2>2, <2>4, <3>2, ScopeEnds DEF Fail
  <2> QED BY <2>3, <2>4
<1>9. CASE Close
  BY <1>9 DEF Close, Advance, RejectionInv
<1>10. CASE Done \/ UNCHANGED vars
  BY <1>10 DEF Done, vars, RejectionInv
<1> QED BY <1>1, <1>2, <1>3, <1>4, <1>5, <1>6, <1>7, <1>8, <1>9, <1>10 DEF Next

(* What a candidate was rejected for is in the feedback the next one gets,  *)
(* also when the correction of the rejected edit then timed out.            *)
THEOREM RejectionsCarried == Spec => RejectionsReachNext
<1>1. Init => TimeInv
  BY PortfolioAssumption DEF Init, TimeInv
<1>2. Init => RejectionInv
  BY DEF Init, RejectionInv
<1>3. RejectionInv /\ [Next]_vars =>
        [pc = "close" /\ pc' = "candidate" =>
            \A p \in rejectedIn :
                request'.feedback.trace[p] \in Rejections \cup {"abstain"}]_vars
  <2> SUFFICES ASSUME RejectionInv, [Next]_vars, pc = "close", pc' = "candidate",
                      NEW p \in rejectedIn
               PROVE  request'.feedback.trace[p] \in Rejections \cup {"abstain"}
    OBVIOUS
  <2>1. Close
    BY DEF Next, StartCandidate, StartScope, BudgetExhausted, NoScopeLeft, Select, Answer,
           Abstain, Reject, TransportError, Done, vars
  <2>2. request'.feedback.trace = trace
    BY <2>1 DEF Close, Advance, Carried
  <2>3. trace[p] \in Rejections \cup {"abstain"}
    BY DEF RejectionInv
  <2> QED BY <2>2, <2>3
<1> QED BY PInvInit, PInvStep, TimeStep, RecordInit, RecordStep, RejectionStep,
           <1>1, <1>2, <1>3, PTL DEF Spec, RejectionsReachNext
-----------------------------------------------------------------------------
(* No candidate is starved.  As long as planned is empty a candidate may    *)
(* use 36 units (180 s), so that each of the n slots after it needs that   *)
(* much, and the last one a single unit; once a row is planned the rest of *)
(* the budget is shared evenly, and one unit for each slot is enough.       *)
Needed(nothing, n) == IF nothing THEN 36 * n + 1 ELSE n + 1

SlotInv ==
    LET others == MaxHypotheses - index
    IN  /\ pc = "candidate" => now + Needed(NothingPlanned, others) <= Budget
        /\ pc \in {"scope", "call", "close"} =>
              /\ now <= until
              /\ others > 0 => until + Needed(NothingPlanned, others - 1) <= Budget
        /\ pc = "done" => index = MaxHypotheses

(* The slots left need a whole number of units, and no more once a row is  *)
(* planned.                                                                *)
LEMMA NeededShrinks ==
    ASSUME NEW n \in Nat, NEW before \in BOOLEAN, NEW after \in BOOLEAN, after => before
    PROVE  /\ Needed(before, n) \in Nat
           /\ Needed(after, n) <= Needed(before, n)
           /\ Needed(before, n) >= 1
BY DEF Needed

(* An even share of r units among k slots leaves one for each of the others. *)
LEMMA EvenShare ==
    ASSUME NEW r \in Nat, NEW k \in 1..4, r >= k
    PROVE  /\ r \div k \in Nat
           /\ r \div k >= 1
           /\ r - (r \div k) >= k - 1
<1>1. CASE k = 1
  BY <1>1
<1>2. CASE k = 2
  BY <1>2
<1>3. CASE k = 3
  BY <1>3
<1>4. CASE k = 4
  BY <1>4
<1> QED BY <1>1, <1>2, <1>3, <1>4

(* The share of a candidate leaves what the others need.                    *)
LEMMA ShareLeavesRest ==
    ASSUME TimeInv, index \in Candidates,
           now + Needed(NothingPlanned, MaxHypotheses - index) <= Budget
    PROVE  LET deadline == Least(Budget, now + Most(1, Share))
           IN  /\ deadline \in Nat
               /\ now <= deadline
               /\ MaxHypotheses - index > 0 =>
                     deadline + Needed(NothingPlanned, MaxHypotheses - index - 1) <= Budget
<1> DEFINE others == MaxHypotheses - index
           r == Budget - now
<1>1. others \in 0..3 /\ index \in Int /\ MaxHypotheses \in Int
  BY PortfolioAssumption DEF Candidates
<1>2. now \in Nat /\ Budget \in Nat /\ r \in Nat
  BY PortfolioAssumption DEF TimeInv
<1>3. Needed(NothingPlanned, others) <= r
  <2>1. Needed(NothingPlanned, others) \in Nat
    BY <1>1 DEF Needed
  <2> QED BY <1>2, <2>1
<1>4. CASE NothingPlanned
  <2>1. 36 * others + 1 <= r
    BY <1>3, <1>4 DEF Needed
  <2> DEFINE share == Least(36, Least(r, Most(18, r - 9 * others)))
  <2>2. Share = share
    BY <1>4 DEF Share, Remaining
  <2>3. share \in Nat /\ share <= 36 /\ share >= 1 /\ share <= r
    BY <1>1, <1>2, <2>1 DEF Least, Most
  <2> HIDE DEF share
  <2>4. Least(Budget, now + Most(1, Share)) = now + share
    BY <1>2, <2>2, <2>3 DEF Least, Most
  <2>5. others > 0 => 36 * others + 1 = 36 + (36 * (others - 1) + 1)
    BY <1>1
  <2>6. others > 0 => now + share + (36 * (others - 1) + 1) <= Budget
    BY <1>1, <1>2, <2>1, <2>3, <2>5
  <2> QED BY <1>2, <1>4, <2>3, <2>4, <2>6 DEF Needed
<1>5. CASE ~NothingPlanned
  <2>1. others + 1 \in 1..4 /\ r >= others + 1
    BY <1>1, <1>2, <1>3, <1>5 DEF Needed
  <2> DEFINE share == r \div (others + 1)
  <2>2. Share = share
    BY <1>5 DEF Share, Remaining
  <2>3. share \in Nat /\ share >= 1 /\ r - share >= others
    BY <1>1, <1>2, <2>1, EvenShare
  <2> HIDE DEF share
  <2>4. Least(Budget, now + Most(1, Share)) = now + share
    BY <1>1, <1>2, <2>2, <2>3 DEF Least, Most
  <2>5. now + share + others <= Budget
    BY <1>1, <1>2, <2>3
  <2> QED BY <1>1, <1>2, <1>5, <2>3, <2>4, <2>5 DEF Needed
<1> QED BY <1>4, <1>5

(* No call outlives the deadline of its candidate.                          *)
LEMMA CallEndsBeforeDeadline ==
    ASSUME TimeInv, Answer \/ (now < until /\ now' = now + Timeout)
    PROVE  now' <= until
<1>1. now < until /\ now \in Nat /\ until \in Nat
  BY DEF TimeInv, Answer
<1>2. PICK t \in Int : t = Timeout /\ t <= until - now
  BY <1>1, TimeoutClipped
<1>3. CASE Answer
  <2>1. PICK d \in Answers : now' = now + d
    BY <1>3 DEF Answer
  <2>2. d \in Nat /\ d <= t
    BY <1>2, <2>1, PortfolioAssumption DEF Answers
  <2> QED BY <1>1, <1>2, <2>1, <2>2
<1>4. CASE now' = now + Timeout
  BY <1>1, <1>2, <1>4
<1> QED BY <1>3, <1>4

(* A step within a candidate that stays before the candidate's deadline.    *)
LEMMA SlotQuiet ==
    ASSUME SlotInv, pc \in {"scope", "call", "close"},
           pc' \in {"scope", "call", "close"},
           UNCHANGED <<index, until, found, abstained>>, now' <= until
    PROVE  SlotInv'
BY DEF SlotInv, NothingPlanned, NothingFound

(* The end of a candidate hands what is left to the next one.               *)
LEMMA SlotAdvances ==
    ASSUME TimeInv, TimeInv', SlotInv, index \in Candidates,
           pc \in {"scope", "call", "close"}, now' <= until,
           NothingPlanned' => NothingPlanned,
           \/ pc' = "candidate" /\ index' = index + 1 /\ index < MaxHypotheses
           \/ pc' = "done" /\ index' = index /\ index = MaxHypotheses
    PROVE  SlotInv'
<1> DEFINE left == MaxHypotheses - index - 1
<1>1. index \in Nat /\ MaxHypotheses \in Nat
  BY PortfolioAssumption DEF Candidates
<1>2. CASE pc' = "done"
  BY <1>2 DEF SlotInv
<1>3. CASE pc' = "candidate"
  <2>1. left \in Nat /\ MaxHypotheses - index' = left /\ MaxHypotheses - index > 0
    BY <1>1, <1>3
  <2>2. until + Needed(NothingPlanned, left) <= Budget
    BY <2>1 DEF SlotInv
  <2>3. NothingPlanned \in BOOLEAN /\ NothingPlanned' \in BOOLEAN
    BY DEF NothingPlanned, NothingFound
  <2> HIDE DEF left
  <2>4. PICK a, b \in Nat : /\ a = Needed(NothingPlanned, left)
                            /\ b = Needed(NothingPlanned', left)
                            /\ b <= a
    BY <2>1, <2>3, NeededShrinks
  <2>5. now' + b <= Budget
    BY <2>2, <2>4, PortfolioAssumption DEF TimeInv
  <2> QED BY <1>3, <2>1, <2>4, <2>5 DEF SlotInv
<1> QED BY <1>2, <1>3

LEMMA SlotStep ==
    PInv /\ TimeInv /\ TimeInv' /\ RecordInv /\ SlotInv /\ [Next]_vars => SlotInv'
<1> SUFFICES ASSUME PInv, TimeInv, TimeInv', RecordInv, SlotInv, [Next]_vars
             PROVE  SlotInv'
  OBVIOUS
<1>0. index \in Candidates
  BY DEF PInv, KindInv
<1>1. CASE StartCandidate
  <2>1. pc = "candidate"
    BY <1>1 DEF StartCandidate
  <2>2. now + Needed(NothingPlanned, MaxHypotheses - index) <= Budget
    BY <2>1 DEF SlotInv
  <2>3. /\ until' = Least(Budget, now + Most(1, Share)) /\ pc' = "scope"
        /\ UNCHANGED <<now, index, found, abstained>>
    BY <1>1 DEF StartCandidate
  <2>4. NothingPlanned' = NothingPlanned
    BY <2>3 DEF NothingPlanned, NothingFound
  <2>5. /\ now <= until'
        /\ MaxHypotheses - index > 0 =>
              until' + Needed(NothingPlanned, MaxHypotheses - index - 1) <= Budget
    BY <1>0, <2>2, <2>3, ShareLeavesRest
  <2> QED BY <2>3, <2>4, <2>5 DEF SlotInv
<1>2. CASE StartScope
  BY <1>2, SlotQuiet DEF StartScope, candidateVars, SlotInv
<1>3. CASE BudgetExhausted
  BY <1>3, SlotQuiet DEF BudgetExhausted, SlotInv
<1>4. CASE NoScopeLeft
  BY <1>4, SlotQuiet DEF NoScopeLeft, candidateVars, SlotInv
<1>5. CASE Select
  <2>1. pc = "call" /\ now' <= until
    BY <1>5, CallEndsBeforeDeadline DEF Select, Answer
  <2>2. abstained' = abstained
    BY <1>5 DEF Select
  <2>3. NothingPlanned' => NothingPlanned
    <3>1. PICK m \in Offers[ScopeOrder[position]] : found' = [found EXCEPT ![index] = m]
      BY <1>5 DEF Select
    <3>2. m # None
      <4>1. ScopeOrder[position] \in Range(ScopeOrder)
        BY <2>1, MutationAssumption DEF PInv, ScopedInv, Positions, Range
      <4> QED BY <3>1, <4>1, MutationAssumption
    <3>3. found'[index] = m
      BY <1>0, <3>1 DEF PInv, KindInv
    <3> QED BY <1>0, <3>2, <3>3 DEF NothingPlanned, NothingFound
  <2>4. \/ pc' = "candidate" /\ index' = index + 1 /\ index < MaxHypotheses
        \/ pc' = "done" /\ index' = index /\ index = MaxHypotheses
    BY <1>0, <1>5, PortfolioAssumption DEF Select, Advance, Candidates
  <2> QED BY <1>0, <2>1, <2>3, <2>4, SlotAdvances
<1>6. CASE Abstain
  <2>1. pc = "call" /\ now' <= until
    <3>1. CASE Answer
      BY <3>1, CallEndsBeforeDeadline DEF Answer
    <3>2. CASE pc = "call" /\ UNCHANGED now
      BY <3>2 DEF SlotInv
    <3> QED BY <1>6, <3>1, <3>2 DEF Abstain
  <2> QED BY <1>6, <2>1, SlotQuiet DEF Abstain, NextScope
<1>7. CASE Reject
  <2>1. pc = "call" /\ now' <= until
    BY <1>7, CallEndsBeforeDeadline DEF Reject, Answer
  <2>2. UNCHANGED <<index, until, found, abstained>> /\ pc' \in {"scope", "call"}
    BY <1>7, <2>1 DEF Reject, Correct, Fail, NextScope
  <2> QED BY <2>1, <2>2, SlotQuiet
<1>8. CASE TransportError
  <2>1. pc = "call"
    BY <1>8 DEF TransportError
  <2>2. now' <= until
    <3>1. CASE OutOfTime
      BY <2>1, <3>1 DEF OutOfTime, SlotInv
    <3>2. CASE now < until /\ now' = now + Timeout
      BY <3>2, CallEndsBeforeDeadline
    <3>3. CASE Answer
      BY <3>3, CallEndsBeforeDeadline
    <3> QED BY <1>8, <3>1, <3>2, <3>3 DEF TransportError
  <2>3. UNCHANGED <<index, until, found, abstained>> /\ pc' \in {"scope", "call"}
    BY <1>8, <2>1 DEF TransportError, Fail, NextScope
  <2> QED BY <2>1, <2>2, <2>3, SlotQuiet
<1>9. CASE Close
  <2>1. pc = "close" /\ now' = now /\ found' = found
    BY <1>9 DEF Close
  <2>2. now <= until
    BY <2>1 DEF SlotInv
  <2>3. NothingPlanned' => NothingPlanned
    <3>1. abstained' = IF answered /\ NothingPlanned THEN index ELSE abstained
      BY <1>9 DEF Close
    <3>2. NothingFound' = NothingFound
      BY <2>1 DEF NothingFound
    <3>3. index # 0
      BY <1>0 DEF Candidates
    <3> QED BY <3>1, <3>2, <3>3 DEF NothingPlanned
  <2>4. index < MaxHypotheses => now < Budget
    <3> SUFFICES ASSUME index < MaxHypotheses PROVE now < Budget
      OBVIOUS
    <3>1. MaxHypotheses - index - 1 \in Nat /\ MaxHypotheses - index > 0
      BY <1>0, PortfolioAssumption DEF Candidates
    <3>2. until + Needed(NothingPlanned, MaxHypotheses - index - 1) <= Budget
      BY <2>1, <3>1 DEF SlotInv
    <3>3. PICK a \in Nat : a = Needed(NothingPlanned, MaxHypotheses - index - 1) /\ a >= 1
      BY <3>1, NeededShrinks DEF NothingPlanned, NothingFound
    <3> QED BY <2>2, <3>2, <3>3, PortfolioAssumption DEF TimeInv
  <2>5. \/ pc' = "candidate" /\ index' = index + 1 /\ index < MaxHypotheses
        \/ pc' = "done" /\ index' = index /\ index = MaxHypotheses
    BY <1>0, <1>9, <2>4, PortfolioAssumption DEF Close, Advance, Candidates
  <2> QED BY <1>0, <2>1, <2>2, <2>3, <2>5, SlotAdvances
<1>10. CASE Done \/ UNCHANGED vars
  BY <1>10 DEF Done, vars, SlotInv, NothingPlanned, NothingFound
<1> QED BY <1>1, <1>2, <1>3, <1>4, <1>5, <1>6, <1>7, <1>8, <1>9, <1>10 DEF Next

(* Every slot of a portfolio is tried, whatever the earlier candidates      *)
(* spent, when the budget holds 180 s for each of them but the last: the    *)
(* 600 s of the workflow are 120 units, four candidates need 109.           *)
THEOREM NoCandidateStarved ==
    ASSUME Budget >= 36 * (MaxHypotheses - 1) + 1
    PROVE  Spec => []EveryCandidateStarts
<1>1. Init => TimeInv
  BY PortfolioAssumption DEF Init, TimeInv
<1>2. Init => SlotInv
  <2> SUFFICES ASSUME Init PROVE SlotInv
    OBVIOUS
  <2>1. pc = "candidate" /\ now = 0 /\ index = 1
    BY DEF Init
  <2>2. NothingPlanned
    BY DEF Init, NothingPlanned, NothingFound
  <2>3. Needed(NothingPlanned, MaxHypotheses - index) = 36 * (MaxHypotheses - 1) + 1
    BY <2>1, <2>2 DEF Needed
  <2>4. now + Needed(NothingPlanned, MaxHypotheses - index) <= Budget
    BY <2>1, <2>3, PortfolioAssumption
  <2> QED BY <2>1, <2>4 DEF SlotInv
<1>3. SlotInv => EveryCandidateStarts
  BY DEF SlotInv, EveryCandidateStarts
<1> QED BY PInvInit, PInvStep, TimeStep, RecordInit, RecordStep, SlotStep,
           <1>1, <1>2, <1>3, PTL DEF Spec
=============================================================================
