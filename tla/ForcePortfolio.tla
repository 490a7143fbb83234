--------------------------- MODULE ForcePortfolio ---------------------------
(***************************************************************************)
(* The Force portfolio of one provider: the repair branch of plan_one and  *)
(* the _run_force_scope it calls (scripts/plan_batch_from_checkout.py).    *)
(*                                                                         *)
(* Up to MaxHypotheses candidates are tried one after the other, each over *)
(* the provider's mutation scopes, within one deadline shared by all.  A   *)
(* candidate that yields an executable mutation reserves it, so that later *)
(* ones must differ; a candidate that fails carries its rejections to the  *)
(* next one as feedback.                                                   *)
(*                                                                         *)
(* Time is counted in units of five seconds, the least timeout the code    *)
(* grants a model call.  A call of BrainOrchestrator.run is one step: it   *)
(* answers after any of Durations with a mutation offered in its scope, an *)
(* abstention or an exception.  The deterministic compilers of planner.py, *)
(* which answer without the model, are answers of duration 0.              *)
(*                                                                         *)
(* Of the request's observations the module keeps what decides control:    *)
(* which sources are present, the reservations, and the carried feedback.  *)
(***************************************************************************)
EXTENDS Integers, Sequences, FiniteSets, Functions, FiniteSetsExt

CONSTANTS
    ScopeOrder,      \* what _force_scope_order returns
    Mutations,       \* concrete mutations
    Offers,          \* Offers[s]: mutations the model may propose in scope s
    Blockable,       \* those whose scope and digests the memory guard covers
    Executed,        \* those an executed negative memory row blocks
    Evidence,        \* sources among the observations of the checkout request
    ChallengeSeen,   \* a targeted regression met an interactive challenge
    Rejections,      \* rejection codes of the local validation
    MaxHypotheses,   \* the clamped portfolio size, 1..4
    Budget,          \* the provider's wall-clock budget
    TimeoutSeconds,  \* --timeout-seconds
    Durations,       \* how long an answered call may take
    None

Blocked == "executed_negative_memory"

ASSUME PortfolioAssumption ==
    /\ MaxHypotheses \in 1..4
    /\ Budget \in Nat \ {0}
    /\ TimeoutSeconds \in Nat \ {0}
    /\ Durations \subseteq Nat
ASSUME MutationAssumption ==
    /\ ScopeOrder \in Seq(STRING)
    /\ Offers \in [Range(ScopeOrder) -> SUBSET Mutations]
    /\ Blockable \subseteq Mutations
    /\ Executed \subseteq Mutations
    /\ None \notin Mutations
ASSUME EvidenceAssumption ==
    /\ Evidence \subseteq STRING
    /\ ChallengeSeen \in BOOLEAN
    /\ Rejections \subseteq STRING
    /\ Blocked \in Rejections
    /\ "timeout" \notin Rejections

VARIABLES
    pc,          \* "candidate", "scope", "call", "close" or "done"
    now,         \* time.monotonic(), from the start of the portfolio
    index,       \* candidate_index
    until,       \* candidate_deadline
    position,    \* index of the current scope in ScopeOrder
    attempt,     \* "primary", "transport" or "correction"
    correction,  \* correction_index
    request,     \* what decides of request.observations
    scoped,      \* the scoped copy a call is made with
    reason,      \* code of the validation error being corrected
    lastError,   \* code of last_error, or None
    trace,       \* trace[p]: what scope_trace says of the p-th scope
    answered,    \* last_row is set: some scope of this candidate abstained
    found,       \* found[i]: executable mutation of candidate i, or None
    abstained,   \* hypothesis_index of the abstaining row in planned, or 0
    rejectedIn   \* history: scopes of this candidate with an edit rejected

scopeVars == <<attempt, correction, scoped, reason>>
candidateVars == <<until, lastError, trace, answered>>
vars == <<pc, now, index, until, position, attempt, correction, request,
          scoped, reason, lastError, trace, answered, found, abstained,
          rejectedIn>>

Candidates == 1..MaxHypotheses
Positions == 1..Len(ScopeOrder)

NoTrace == [p \in Positions |-> None]

FirstRequest == [evidence |-> Evidence, reserved |-> <<>>, feedback |-> None]

Init ==
    /\ pc = "candidate"
    /\ now = 0
    /\ index = 1
    /\ until = 0
    /\ position = 1
    /\ attempt = "primary"
    /\ correction = 0
    /\ request = FirstRequest
    /\ scoped = FirstRequest
    /\ reason = None
    /\ lastError = None
    /\ trace = NoTrace
    /\ answered = FALSE
    /\ found = [i \in Candidates |-> None]
    /\ abstained = 0
    /\ rejectedIn = {}

Least(a, b) == IF a < b THEN a ELSE b
Most(a, b) == IF a > b THEN a ELSE b

\* executable_rows is empty.
NothingFound == \A i \in Candidates : found[i] = None

\* planned holds no row at all.
NothingPlanned == NothingFound /\ abstained = 0

-----------------------------------------------------------------------------
(* The budget of a candidate.                                              *)

Remaining == Budget - now

ShareGreedy ==                                                         \* mutant
    IF NothingPlanned THEN Remaining
    ELSE Remaining \div (MaxHypotheses - index + 1)
Share ==
    LET others == MaxHypotheses - index
    IN  IF NothingPlanned
        THEN Least(36, Least(Remaining, Most(18, Remaining - 9 * others)))
        ELSE Remaining \div (others + 1)

StartCandidate ==
    /\ pc = "candidate"
    /\ until' = Least(Budget, now + Most(1, Share))
    /\ lastError' = None
    /\ trace' = NoTrace
    /\ answered' = FALSE
    /\ rejectedIn' = {}
    /\ position' = 1
    /\ pc' = "scope"
    /\ UNCHANGED <<now, index, scopeVars, request, found, abstained>>

-----------------------------------------------------------------------------
(* The scopes of a candidate.                                              *)

Traced(outcome) == trace' = [trace EXCEPT ![position] = outcome]

\* A scope starts with a copy of the request.
StartScope ==
    /\ pc = "scope"
    /\ position \in Positions
    /\ now < until
    /\ attempt' = "primary"
    /\ correction' = 0
    /\ reason' = None
    /\ scoped' = request
    /\ pc' = "call"
    /\ UNCHANGED <<now, index, position, request, candidateVars, found,
                   abstained, rejectedIn>>

\* The candidate's budget is gone before its next scope.
BudgetExhausted ==
    /\ pc = "scope"
    /\ position \in Positions
    /\ now >= until
    /\ lastError' = "timeout"
    /\ Traced("candidate_budget_exhausted")
    /\ pc' = "close"
    /\ UNCHANGED <<now, index, until, position, scopeVars, request, answered,
                   found, abstained, rejectedIn>>

NoScopeLeft ==
    /\ pc = "scope"
    /\ position \notin Positions
    /\ pc' = "close"
    /\ UNCHANGED <<now, index, position, scopeVars, request, candidateVars,
                   found, abstained, rejectedIn>>

-----------------------------------------------------------------------------
(* One model call.                                                         *)

\* Once a mutation is reserved, later slots are cheap and fail fast.
Speculative == request.reserved # <<>>

MaxCorrections ==
    IF Speculative THEN 0
    ELSE IF ScopeOrder[position] = "provider_bloc" THEN 3 ELSE 1

Desired ==
    LET atMost(seconds) == Least(TimeoutSeconds, seconds)
    IN  IF Speculative THEN Most(9, atMost(12))
        ELSE CASE attempt = "primary"   -> Most(9, atMost(36))
               [] attempt = "transport" -> Most(18, atMost(36))
               [] OTHER -> Most(12, atMost(IF ScopeOrder[position] = "provider_bloc"
                                           THEN 30 ELSE 18))

TimeoutUnclipped == Desired                                            \* mutant
Timeout == Least(Desired, until - now)

\* The causal layer BrainOrchestrator routes by.  A clean full replay (the
\* client differential) outranks a challenge of a targeted regression; without
\* it the provider is a harness case, and the outcome has no proposal.
Layer(evidence) ==
    IF /\ ChallengeSeen
       /\ "targeted-regression-current" \in evidence
       /\ "waf-client-differential-current" \notin evidence
    THEN "harness" ELSE "provider"

\* The planner's guard on reserved and on executed negative mutations.
BlocksMutation(r, m) ==
    /\ m \in Blockable
    /\ \/ m \in Range(r.reserved)
       \/ "brain-force-sandbox-memory" \in r.evidence /\ m \in Executed

Answers == {d \in Durations : d <= Timeout}

\* The call answers in time and the proposal is about the provider's layer.
Answer ==
    /\ pc = "call"
    /\ now < until
    /\ Layer(scoped.evidence) = "provider"
    /\ \E d \in Answers : now' = now + d

\* At least five seconds are needed to make a call at all.
OutOfTime == pc = "call" /\ now >= until /\ UNCHANGED now

NextScope ==
    /\ position' = position + 1
    /\ pc' = "scope"

LastReservations(reserved) ==
    SubSeq(reserved, Most(1, Len(reserved) - 3), Len(reserved))

\* A new candidate, or the end of the portfolio.
AdvancePast(goOn) ==                                                   \* mutant
    /\ index' = index + 1
    /\ pc' = IF goOn THEN "candidate" ELSE "done"
Advance(goOn) ==
    IF goOn
    THEN index' = index + 1 /\ pc' = "candidate"
    ELSE index' = index /\ pc' = "done"

\* An executable mutation ends the candidate and is reserved at once.
Select ==
    /\ Answer
    /\ \E m \in Offers[ScopeOrder[position]] :
          /\ ~BlocksMutation(scoped, m)
          /\ found' = [found EXCEPT ![index] = m]
          /\ request' = [evidence |-> request.evidence,
                         reserved |-> LastReservations(Append(request.reserved, m)),
                         feedback |-> request.feedback]
    /\ Advance(index < MaxHypotheses)
    /\ UNCHANGED <<position, scopeVars, candidateVars, abstained, rejectedIn>>

\* No mutation: an abstention of the model, or of the routing before it.
Abstain ==
    /\ \/ Answer
       \/ /\ pc = "call"
          /\ now < until
          /\ Layer(scoped.evidence) # "provider"
          /\ UNCHANGED now
    /\ answered' = TRUE
    /\ Traced("abstain")
    /\ NextScope
    /\ UNCHANGED <<index, until, scopeVars, request, lastError, found,
                   abstained, rejectedIn>>

Fail(code) ==
    /\ lastError' = code
    /\ Traced(code)
    /\ NextScope
    /\ UNCHANGED <<scopeVars, answered>>

\* What a correction's request keeps of the observations.
CorrectionSources ==
    {"census_current", "targeted-regression-current", "brain-force-sandbox-memory"}

Correct(code) ==
    /\ attempt' = "correction"
    /\ correction' = correction + 1
    /\ reason' = code
    /\ scoped' = [evidence |-> scoped.evidence \cap CorrectionSources,
                  reserved |-> scoped.reserved,
                  feedback |-> scoped.feedback]
    /\ UNCHANGED <<pc, position, lastError, trace, answered>>

\* The edit is rejected locally (ValueError): correct it, or give up.
Reject ==
    /\ Answer
    /\ \E code \in Rejections :
          /\ \/ code # Blocked
             \/ \E m \in Offers[ScopeOrder[position]] : BlocksMutation(scoped, m)
          /\ IF correction < MaxCorrections THEN Correct(code) ELSE Fail(code)
    /\ rejectedIn' = rejectedIn \cup {position}
    /\ UNCHANGED <<index, until, request, found, abstained>>

\* Any other exception.  During a correction it must not erase the rejection
\* being corrected; a first timeout is retried once.
PreservedNever(code) == code                                           \* mutant
Preserved(code) == IF attempt = "correction" THEN reason ELSE code

\* A truncated completion is transport too, but never retried by this path.
TransportErrors == {"timeout", "truncated", "fatal"}

Retryable(code) == code = "timeout" /\ attempt = "primary" /\ ~Speculative

TransportError ==
    /\ pc = "call"
    /\ \E code \in TransportErrors :
          /\ \/ code = "timeout" /\ OutOfTime
             \/ /\ code = "timeout"
                /\ now < until
                /\ Layer(scoped.evidence) = "provider"
                /\ now' = now + Timeout
             \/ code # "timeout" /\ Answer
          /\ IF Retryable(code)
             THEN /\ attempt' = "transport"
                  /\ UNCHANGED <<pc, position, correction, scoped, reason,
                                 lastError, trace, answered>>
             ELSE Fail(Preserved(code))
    /\ UNCHANGED <<index, until, request, found, abstained, rejectedIn>>

-----------------------------------------------------------------------------
(* The end of a candidate without a mutation.                              *)

CarriedWithoutMemory == {"census_current", "targeted-regression-current"} \* mutant
CarriedSources ==
    {"census_current", "census-sharded-current", "targeted-regression-current",
     "brain-force-sandbox-memory"}

\* _carry_force_portfolio_feedback.
CarriedForgetful(r) ==                                                 \* mutant
    [evidence |-> r.evidence \cap CarriedSources,
     reserved |-> <<>>,
     feedback |-> [reason |-> IF lastError = None THEN "abstain" ELSE lastError,
                   trace |-> trace]]
Carried(r) ==
    [evidence |-> r.evidence \cap CarriedSources,
     reserved |-> r.reserved,
     feedback |-> [reason |-> IF lastError = None THEN "abstain" ELSE lastError,
                   trace |-> trace]]

Close ==
    /\ pc = "close"
    /\ abstained' = IF answered /\ NothingPlanned THEN index ELSE abstained
    /\ LET goOn == index < MaxHypotheses /\ now < Budget
       IN  /\ request' = IF goOn THEN Carried(request) ELSE request
           /\ Advance(goOn)
    /\ UNCHANGED <<now, position, scopeVars, candidateVars, found, rejectedIn>>

Done == pc = "done" /\ UNCHANGED vars

Next ==
    \/ StartCandidate \/ StartScope \/ BudgetExhausted \/ NoScopeLeft
    \/ Select \/ Abstain \/ Reject \/ TransportError \/ Close
    \/ Done

Spec == Init /\ [][Next]_vars

-----------------------------------------------------------------------------
(* Properties.                                                             *)

Outcomes == Rejections \cup TransportErrors
Traces == [Positions -> Outcomes \cup {None, "abstain", "candidate_budget_exhausted"}]
Observations ==
    [evidence : SUBSET Evidence,
     reserved : Seq(Mutations),
     feedback : {None} \cup [reason : Outcomes \cup {"abstain"}, trace : Traces]]

\* The counters stay in the loops' ranges and every record is well formed.
TypeOK ==
    /\ pc \in {"candidate", "scope", "call", "close", "done"}
    /\ now \in Nat
    /\ index \in Candidates
    /\ until \in Nat
    /\ position \in 1..(Len(ScopeOrder) + 1)
    /\ attempt \in {"primary", "transport", "correction"}
    /\ correction \in 0..3
    /\ request \in Observations
    /\ scoped \in Observations
    /\ reason \in Rejections \cup {None}
    /\ lastError \in Outcomes \cup {None}
    /\ trace \in Traces
    /\ answered \in BOOLEAN
    /\ found \in [Candidates -> Mutations \cup {None}]
    /\ abstained \in 0..MaxHypotheses
    /\ rejectedIn \subseteq Positions

\* Whatever errors, retries and carried feedback came between, no two
\* candidates of one portfolio are the same mutation, for the mutations the
\* memory guard covers.
DistinctCandidates ==
    \A i, j \in Candidates :
        i # j /\ found[i] = found[j] => found[i] \notin Blockable

\* No candidate is a mutation that an executed negative memory row of the
\* checkout request blocks: the row survives every slot boundary.
NegativeMemoryRespected ==
    "brain-force-sandbox-memory" \in Evidence =>
        \A i \in Candidates : found[i] \notin Blockable \cap Executed

\* Initial synthesis, transport recovery and validation feedback of all
\* candidates together consume one deadline.
WithinBudget == now <= Budget

\* A scope whose edit was rejected locally reaches the next candidate's
\* request as that rejection, also when the correction then timed out.
RejectionsReachNext ==
    [][pc = "close" /\ pc' = "candidate" =>
        \A p \in rejectedIn :
            request'.feedback.trace[p] \in Rejections \cup {"abstain"}]_vars

\* With a budget of 600 s no early candidate starves the later ones: each of
\* the portfolio's slots is tried.
EveryCandidateStarts == pc = "done" => index = MaxHypotheses

\* All calls of a portfolio are routed by the causal layer the checkout
\* request had: retries do not reclassify the provider.
CausalLayerKept == pc = "call" => Layer(scoped.evidence) = Layer(Evidence)
=============================================================================
