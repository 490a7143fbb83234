-------------------------- MODULE CausalRoutingProofs --------------------------
(***************************************************************************)
(* Proofs about the routing, for any checkouts and any number of calls.    *)
(***************************************************************************)
EXTENDS CausalRouting, TLAPS

\* What the copies of a request have in common with it: status, class and
\* proofs are the same, scopes and observations fewer, but never the census
\* or the targeted probe.
Narrowed(r, full) ==
    /\ r.status = full.status /\ r.failure = full.failure
    /\ r.live = full.live /\ r.advisor = full.advisor
    /\ r.rediscover = full.rediscover
    /\ r.allowed \subseteq full.allowed
    /\ r.obs \subseteq full.obs
    /\ full.obs \cap {"census", "targeted"} \subseteq r.obs

\* Fewer observations may add a challenge, never lift one: without one, the
\* prior is that of the whole request.
LEMMA PriorOfNarrowed ==
    ASSUME NEW r, NEW full, Narrowed(r, full), NEW found,
           Prior(r, found).layer = "provider"
    PROVE  Prior(r, found) = Prior(full, found)
<1>1. StatusLayer(r.status) = StatusLayer(full.status)
  BY DEF Narrowed
<1>2. StatusLayer(r.status) = "open"
  BY DEF Prior, StatusLayer
<1>3. ~InteractiveChallenge(r)
  BY <1>2 DEF Prior
<1>4. ~InteractiveChallenge(full)
  BY <1>3 DEF InteractiveChallenge, ReplaySignal, Narrowed
<1> QED
  BY <1>1, <1>2, <1>3, <1>4 DEF Prior, Narrowed

LEMMA PolicyOfNarrowed ==
    ASSUME NEW r, NEW full, Narrowed(r, full), NEW found
    PROVE  Policy(r, Prior(r, found)).scopes \subseteq Policy(full, Prior(full, found)).scopes
<1>1. CASE Prior(r, found).layer # "provider"
  BY <1>1 DEF Policy, Refuse
<1>2. CASE Prior(r, found).layer = "provider"
  <2> DEFINE p == Prior(r, found)
  <2>1. p = Prior(full, found) /\ p.layer = "provider"
    BY <1>2, PriorOfNarrowed
  <2>2. EvidenceMissing(full) => EvidenceMissing(r)
    BY DEF EvidenceMissing, CurrentCensusEvidence, VerifiedLive, Narrowed
  <2>3. Fresh(r) => Fresh(full)
    BY DEF Fresh, Narrowed
  <2>4. /\ r.allowed \cap site.context \subseteq full.allowed \cap site.context
        /\ r.advisor = full.advisor
    BY DEF Narrowed
  <2> HIDE DEF p
  <2>5. Policy(r, p).scopes \subseteq Policy(full, p).scopes
    BY <2>1, <2>2, <2>3, <2>4 DEF Policy, Refuse, ReadOnly
  <2> QED
    BY <2>1, <2>5 DEF p
<1> QED
  BY <1>1, <1>2

\* A decision carries the scopes of the policy, or none.
LEMMA RouteScopes ==
    ASSUME NEW r, NEW found, NEW left, NEW family
    PROVE  /\ \/ Route(r, found, left, family).scopes = {}
              \/ Route(r, found, left, family).scopes = Policy(r, Prior(r, found)).scopes
           /\ Route(r, found, left, family).mode = "family_replay"
                => Policy(r, Prior(r, found)).mutate
  BY DEF Route, Decision

\* Under a standing challenge no prior names the provider.
LEMMA ChallengedPrior ==
    ASSUME NEW r, "targeted" \in r.obs, "waf" \in site.stages, ~CleanReplay, NEW found
    PROVE  Prior(r, found).layer # "provider"
<1>1. InteractiveChallenge(r)
  BY DEF InteractiveChallenge, ReplaySignal
<1> QED
  BY <1>1 DEF Prior, StatusLayer

-----------------------------------------------------------------------------
(* Types.                                                                  *)

LEMMA AdapterType ==
    ASSUME site \in SiteType
    PROVE  FailureOf \in Failures
<1>1. site.class \in Failures \cup {"absent"} /\ site.status \in Statuses
  BY DEF SiteType
<1>2. Classify \in Failures
  BY <1>1 DEF Classify, Failures, Taxonomy, HarnessClasses, ProviderClasses
<1>3. WithCoverage \in Failures
  BY <1>2 DEF WithCoverage, Failures, Taxonomy, ProviderClasses
<1> QED
  BY <1>3 DEF FailureOf, Failures, Taxonomy, HarnessClasses, ProviderClasses

LEMMA CheckoutType ==
    ASSUME site \in SiteType, NEW advisor \in BOOLEAN
    PROVE  FromCheckout(advisor) \in RequestType
<1>1. FailureOf \in Failures
  BY AdapterType
<1>2. site.status \in Statuses
  BY DEF SiteType
<1>3. MustRediscover(site.status, FailureOf) \in BOOLEAN
  BY DEF MustRediscover
<1> QED
  BY <1>1, <1>2, <1>3 DEF FromCheckout, RequestType, Sources

LEMMA StrategyType ==
    ASSUME NEW f
    PROVE  Strategy(f) \in Strategies
  BY DEF Strategy, Strategies, NoMutationStrategies

LEMMA FoundType ==
    ASSUME site \in SiteType, NEW found \in Retrievable
    PROVE  found \in Strategies \cup {"nothing"}
  BY DEF SiteType, Retrievable

LEMMA PriorType ==
    ASSUME NEW r, NEW found \in Strategies \cup {"nothing"}
    PROVE  /\ Prior(r, found).layer \in Layers
           /\ Prior(r, found).strategy \in Strategies
<1>1. TaxonomyLayer(r.failure) \in Layers /\ StatusLayer(r.status) \in Layers \cup {"open"}
  BY DEF TaxonomyLayer, StatusLayer, Layers
<1>2. Strategy(r.failure) \in Strategies
  BY StrategyType
<1>3. "compare-profiles" \in Strategies /\ "none" \in Strategies
  BY DEF Strategies, NoMutationStrategies
<1> QED
  BY <1>1, <1>2, <1>3 DEF Prior, Layers

LEMMA RouteType ==
    ASSUME NEW r, r.allowed \subseteq Scopes, NEW found \in Strategies \cup {"nothing"},
           NEW left, NEW family
    PROVE  Route(r, found, left, family) \in Decisions
<1> DEFINE p == Prior(r, found)
           to == Route(r, found, left, family)
           Named == Strategies \cup {"rediscover", "mechanism"}
<1>1. p.layer \in Layers /\ p.strategy \in Named
  BY PriorType
<1>2. Policy(r, p).scopes \subseteq Scopes
  BY DEF Policy, Refuse, ReadOnly
<1>3. to.scopes \subseteq Scopes
  BY <1>2, RouteScopes
<1>4. /\ [p EXCEPT !.strategy = "rediscover"].layer = p.layer
      /\ [p EXCEPT !.strategy = "rediscover"].strategy = "rediscover"
      /\ [p EXCEPT !.strategy = "mechanism"].layer = p.layer
      /\ [p EXCEPT !.strategy = "mechanism"].strategy = "mechanism"
  BY DEF Prior
<1>5. \E mode \in Modes, strategy \in {p.strategy, "rediscover", "mechanism"} :
         to = [mode |-> mode, layer |-> p.layer, strategy |-> strategy,
               scopes |-> to.scopes]
  BY <1>4 DEF Route, Decision, Modes
<1> HIDE DEF p, to
<1>6. to \in [mode : Modes, layer : Layers, strategy : Named, scopes : SUBSET Scopes]
  BY <1>1, <1>3, <1>5
<1> QED
  BY <1>6 DEF to, Decisions

-----------------------------------------------------------------------------
(* The invariant.                                                          *)

Answered == {"calling", "mutated", "advised", "rejected", "withheld"}

\* A call is only prepared within the bound.
CallsLeft == phase = "scoped" => calls < MaxCalls

\* What the request in hand has in common with the whole one, and what the
\* whole one has in common with its checkout.
RequestNarrows ==
    phase # "checkout" =>
        /\ Narrowed(request, initial)
        /\ initial.allowed = Scopes
        /\ site.stages # {} => "targeted" \in initial.obs
        /\ initial.live => /\ initial.status = "CURRENT_FAILURE"
                           /\ initial.failure = "provider-transport-gap"
                           /\ ~initial.advisor

\* A repair call is made with one scope there is material for.
CopyNarrows ==
    phase \in Answered \cup {"scoped"} =>
        /\ Narrowed(scoped, initial)
        /\ ~scoped.advisor => \E s \in site.context : scoped.allowed = {s}

\* A repair call stands on a policy that granted it.
RepairIsGranted ==
    phase = "calling" /\ routing.mode = "llm_repair" /\ ~scoped.advisor =>
        LET policy == Policy(scoped, Prior(scoped, retrieved))
        IN  policy.mutate /\ routing.scopes = policy.scopes

IInv ==
    /\ TypeOK
    /\ CallsLeft
    /\ RequestNarrows
    /\ CopyNarrows
    /\ RepairIsGranted
    /\ AuthorityOnlyShrinks
    /\ ChallengeNeverMutates
    /\ LiveSurvivesRetries

LEMMA InitInv == Init => IInv
<1> SUFFICES ASSUME Init PROVE IInv
  OBVIOUS
<1>1. NoRequest \in RequestType
  BY DEF NoRequest, RequestType, Statuses, Failures
<1>2. NoDecision \in Decisions
  BY DEF NoDecision, Decisions, Modes, Layers, Strategies
<1>3. site \in SiteType
  BY SiteAssumption DEF Init
<1>4. TypeOK
  BY <1>1, <1>2, <1>3, CallAssumption DEF TypeOK, Init
<1> QED
  BY <1>4 DEF Init, IInv, CallsLeft, RequestNarrows, CopyNarrows, RepairIsGranted,
              AuthorityOnlyShrinks, ChallengeNeverMutates, LiveSurvivesRetries, Answered

\* The steps that only prepare a request: what they put into it.
LEMMA BeginInv ==
    ASSUME IInv, phase = "checkout", NEW req \in RequestType, Begin(req),
           req.allowed = Scopes,
           site.stages # {} => "targeted" \in req.obs,
           req.live => /\ req.status = "CURRENT_FAILURE"
                       /\ req.failure = "provider-transport-gap"
                       /\ ~req.advisor
    PROVE  IInv'
<1>1. TypeOK'
  BY DEF Begin, IInv, TypeOK
<1>2. RequestNarrows'
  BY DEF Begin, RequestNarrows, Narrowed
<1> QED
  BY <1>1, <1>2 DEF Begin, IInv, CallsLeft, CopyNarrows, RepairIsGranted,
                    AuthorityOnlyShrinks, ChallengeNeverMutates, LiveSurvivesRetries, Answered

LEMMA BuildInv ==
    ASSUME IInv, NEW advisor \in BOOLEAN, Build(advisor) \/ BuildWithPreflight(advisor)
    PROVE  IInv'
<1> DEFINE req == FromCheckout(advisor)
<1>0. phase = "checkout" /\ site \in SiteType
  BY DEF Build, BuildWithPreflight, IInv, TypeOK
<1>1. req \in RequestType
  BY <1>0, CheckoutType
<1>2. /\ site.stages # {} => "targeted" \in req.obs
      /\ ~req.live /\ req.advisor = advisor /\ req.allowed = Scopes
  BY DEF FromCheckout, Targeted
<1> HIDE DEF req
<1>3. CASE Begin(req)
  BY <1>0, <1>1, <1>2, <1>3, BeginInv
<1>4. CASE ~advisor /\ Begin(Demote(req))
  <2>1. Demote(req) \in RequestType
    BY <1>1 DEF Demote, RequestType, Statuses, Failures, Taxonomy, ProviderClasses, Sources
  <2>2. /\ site.stages # {} => "targeted" \in Demote(req).obs
        /\ Demote(req).status = "CURRENT_FAILURE"
        /\ Demote(req).failure = "provider-transport-gap"
        /\ ~Demote(req).advisor
        /\ Demote(req).allowed = Scopes
    BY <1>1, <1>2, <1>4 DEF Demote, RequestType
  <2> QED
    BY <1>0, <1>4, <2>1, <2>2, BeginInv
<1>5. ASSUME NEW f \in Refined(req.failure), Begin([req EXCEPT !.failure = f])
      PROVE  IInv'
  <2> DEFINE new == [req EXCEPT !.failure = f]
  <2>1. f \in Failures
    BY <1>1, <1>5 DEF Refined, RequestType, Failures, Taxonomy, ProviderClasses
  <2>2. new \in RequestType
    BY <1>1, <2>1 DEF RequestType
  <2>3. /\ site.stages # {} => "targeted" \in new.obs
        /\ ~new.live /\ new.allowed = Scopes
    BY <1>1, <1>2 DEF RequestType
  <2>4. Begin(new)
    BY <1>5
  <2> HIDE DEF new
  <2> QED
    BY <1>0, <2>2, <2>3, <2>4, BeginInv
<1> QED
  BY <1>3, <1>4, <1>5 DEF Build, BuildWithPreflight, req

LEMMA StartInv ==
    ASSUME IInv, StartAdvice \/ \E s \in Scopes : StartScope(s)
    PROVE  IInv'
<1>0. /\ request \in RequestType /\ phase = "ready" /\ phase' = "scoped"
      /\ calls < MaxCalls
      /\ UNCHANGED <<site, request, initial, retrieved, routing, calls>>
  BY DEF IInv, TypeOK, StartAdvice, StartScope
<1>1. Narrowed(request, initial)
  BY <1>0 DEF IInv, RequestNarrows
<1>2. /\ scoped' \in RequestType
      /\ Narrowed(scoped', initial)
      /\ ~scoped'.advisor => \E s \in site.context : scoped'.allowed = {s}
  <2>1. CASE StartAdvice
    BY <1>0, <1>1, <2>1 DEF StartAdvice
  <2>2. CASE \E s \in Scopes : StartScope(s)
    <3> PICK s \in Scopes : StartScope(s)
      BY <2>2
    <3>1. scoped' = [request EXCEPT !.allowed = {s}] /\ s \in site.context
      BY DEF StartScope
    <3>2. scoped' \in RequestType
      BY <1>0, <3>1 DEF RequestType
    <3>3. initial.allowed = Scopes
      BY <1>0 DEF IInv, RequestNarrows
    <3> QED
      BY <1>0, <1>1, <3>1, <3>2, <3>3 DEF RequestType, Narrowed
  <2> QED
    BY <2>1, <2>2
<1>3. TypeOK'
  BY <1>0, <1>2 DEF IInv, TypeOK
<1>4. RequestNarrows'
  BY <1>0 DEF IInv, RequestNarrows, Narrowed
<1>5. CopyNarrows'
  BY <1>0, <1>2 DEF CopyNarrows, Narrowed
<1> QED
  BY <1>0, <1>3, <1>4, <1>5 DEF IInv, CallsLeft, RepairIsGranted, AuthorityOnlyShrinks,
       ChallengeNeverMutates, LiveSurvivesRetries, Answered

\* A scope of a narrowed copy was granted by the whole request.
LEMMA NarrowedIsGranted ==
    ASSUME NEW r, NEW full, Narrowed(r, full), NEW found \in Retrievable
    PROVE  Policy(r, Prior(r, found)).scopes \subseteq Granted(full)
<1>1. Policy(r, Prior(r, found)).scopes \subseteq Policy(full, Prior(full, found)).scopes
  BY PolicyOfNarrowed
<1> QED
  BY <1>1 DEF Granted

\* A live failure without a challenge is repaired, whatever was dropped, when
\* the experience found does not stand against it.
LEMMA LiveRoute ==
    ASSUME NEW r, r.status = "CURRENT_FAILURE", r.failure = "provider-transport-gap",
           r.live, ~r.advisor, ~r.rediscover, "waf" \notin site.stages,
           NEW s \in site.context, r.allowed = {s},
           NEW found, found \notin NoMutationStrategies,
           ~(found = "discover-api" /\ ~Fresh(r)),
           NEW left \in BOOLEAN, NEW family \in BOOLEAN
    PROVE  Route(r, found, left, family).mode \in {"llm_repair", "family_replay"}
<1>1. /\ StatusLayer(r.status) = "open"
      /\ ~InteractiveChallenge(r)
      /\ r.failure \in Taxonomy
      /\ TaxonomyLayer(r.failure) = "provider"
      /\ Strategy(r.failure) = "none"
  BY DEF StatusLayer, InteractiveChallenge, Taxonomy, ProviderClasses, TaxonomyLayer,
         CoreClasses, HarnessClasses, Strategy
<1> DEFINE p == Prior(r, found)
<1>2. /\ p.layer = "provider" /\ ~(p.confidence < 80)
      /\ p.strategy \in {"none", found}
  BY <1>1 DEF Prior
<1>3. r.allowed \cap site.context # {} /\ ~EvidenceMissing(r)
  BY DEF EvidenceMissing, VerifiedLive
<1>4. Policy(r, p).mutate /\ ~Policy(r, p).abstain
  <2> HIDE DEF p
  <2> QED
    BY <1>2, <1>3 DEF Policy, NoMutationStrategies
<1>5. r.status \notin Positive /\ r.status # "NO_PROOF"
  BY DEF Positive
<1> QED
  BY <1>2, <1>4, <1>5 DEF Route, Decision, NoMutationStrategies

\* What was granted stays granted while site and copies stand.
LEMMA SameGrants ==
    ASSUME UNCHANGED <<site, initial, scoped>>
    PROVE  /\ Granted(initial)' = Granted(initial)
           /\ \A found : Policy(scoped, Prior(scoped, found))' = Policy(scoped, Prior(scoped, found))
<1>1. ASSUME NEW found
      PROVE  /\ Policy(scoped, Prior(scoped, found))' = Policy(scoped, Prior(scoped, found))
             /\ Policy(initial, Prior(initial, found))' = Policy(initial, Prior(initial, found))
  <2>1. Prior(scoped, found)' = Prior(scoped, found) /\ Prior(initial, found)' = Prior(initial, found)
    BY DEF Prior, InteractiveChallenge, ReplaySignal, CleanReplay
  <2> QED
    BY <2>1 DEF Policy, EvidenceMissing, CurrentCensusEvidence, VerifiedLive, Fresh
<1>2. Granted(initial)' = Granted(initial)
  <2>1. Retrievable' = Retrievable
    BY DEF Retrievable
  <2> QED
    BY <1>1, <2>1 DEF Granted
<1> QED
  BY <1>1, <1>2

\* After the decision, only the phase moves until the next call.
LEMMA LiveKept ==
    ASSUME LiveSurvivesRetries,
           phase \in {"calling", "mutated", "rejected", "withheld"},
           UNCHANGED <<site, initial, scoped, retrieved, routing>>
    PROVE  LiveSurvivesRetries'
<1>1. WithheldByExperience' <=> WithheldByExperience
  BY DEF WithheldByExperience, Fresh
<1> QED
  BY <1>1 DEF LiveSurvivesRetries

LEMMA OrchestrateInv ==
    ASSUME IInv, NEW found \in Retrievable, NEW left \in BOOLEAN, NEW family \in BOOLEAN,
           NEW compiles \in BOOLEAN, Orchestrate(found, left, family, compiles)
    PROVE  IInv'
<1> DEFINE to == Route(scoped, found, left, family)
           policy == Policy(scoped, Prior(scoped, found))
<1>0. /\ phase = "scoped" /\ calls' = calls + 1 /\ calls < MaxCalls
      /\ scoped \in RequestType /\ scoped.allowed \subseteq Scopes
      /\ phase' \in Answered
      /\ UNCHANGED <<site, request, initial, scoped>>
      /\ retrieved' = found /\ found \in Strategies \cup {"nothing"}
  BY FoundType DEF IInv, TypeOK, CallsLeft, Orchestrate, Answered, RequestType
<1>1. Narrowed(scoped, initial)
  BY <1>0 DEF IInv, CopyNarrows
<1>2. /\ routing'.scopes = to.scopes
      /\ routing' \in Decisions
      /\ \/ routing'.mode = to.mode
         \/ routing'.mode = "llm_repair" /\ to.mode = "family_replay"
  <2>1. to \in Decisions
    BY <1>0, RouteType
  <2>2. routing' = IF to.mode = "family_replay" /\ ~compiles
                   THEN [to EXCEPT !.mode = "llm_repair"] ELSE to
    BY DEF Orchestrate
  <2> HIDE DEF to
  <2> QED
    BY <2>1, <2>2 DEF Decisions, Modes
<1>3. TypeOK'
  BY <1>0, <1>2, CallAssumption DEF IInv, TypeOK, Answered
<1>4. RequestNarrows'
  BY <1>0 DEF IInv, RequestNarrows, Narrowed, Answered
<1>5. CopyNarrows'
  BY <1>0 DEF IInv, CopyNarrows, Narrowed, Answered
<1>6. RepairIsGranted'
  <2> SUFFICES ASSUME phase' = "calling", routing'.mode = "llm_repair", ~scoped.advisor
               PROVE  policy.mutate /\ routing'.scopes = policy.scopes
    BY <1>0, SameGrants DEF RepairIsGranted
  <2>1. to.mode \in {"llm_repair", "family_replay"}
    BY <1>2
  <2>2. policy.mutate /\ to.scopes = policy.scopes
    BY <2>1 DEF Route, Decision
  <2> QED
    BY <1>2, <2>2
<1>7. AuthorityOnlyShrinks'
  <2>1. policy.scopes \subseteq Granted(initial)
    BY <1>0, <1>1, NarrowedIsGranted
  <2>2. to.scopes \subseteq Granted(initial)
    BY <2>1, RouteScopes
  <2>3. Granted(initial)' = Granted(initial)
    BY <1>0, SameGrants
  <2> QED
    BY <1>2, <2>2, <2>3 DEF AuthorityOnlyShrinks
<1>8. ChallengeNeverMutates'
  <2> SUFFICES ASSUME "waf" \in site.stages, ~CleanReplay, phase' = "mutated"
               PROVE  FALSE
    BY <1>0 DEF ChallengeNeverMutates, CleanReplay
  <2>1. to.mode = "family_replay"
    BY DEF Orchestrate
  <2>2. policy.mutate
    BY <2>1, RouteScopes
  <2>3. "targeted" \in scoped.obs
    BY <1>0, <1>1 DEF IInv, RequestNarrows, Narrowed
  <2>4. Prior(scoped, found).layer # "provider"
    BY <2>3, ChallengedPrior
  <2> QED
    BY <2>2, <2>4 DEF Policy, Refuse
<1>9. LiveSurvivesRetries'
  <2> SUFFICES ASSUME initial.live, "waf" \notin site.stages, ~initial.rediscover,
                      found \notin NoMutationStrategies,
                      ~(found = "discover-api" /\ ~Fresh(scoped))
               PROVE  routing'.mode \in {"llm_repair", "family_replay"}
    <3>1. Fresh(scoped)' = Fresh(scoped)
      BY <1>0 DEF Fresh
    <3> QED
      BY <1>0, <3>1 DEF LiveSurvivesRetries, WithheldByExperience
  <2>1. /\ scoped.status = "CURRENT_FAILURE" /\ scoped.failure = "provider-transport-gap"
        /\ scoped.live /\ ~scoped.advisor /\ ~scoped.rediscover
    BY <1>0, <1>1 DEF IInv, RequestNarrows, Narrowed
  <2>2. PICK s \in site.context : scoped.allowed = {s}
    BY <1>0, <2>1 DEF IInv, CopyNarrows
  <2>3. to.mode \in {"llm_repair", "family_replay"}
    BY <2>1, <2>2, LiveRoute
  <2> QED
    BY <1>2, <2>3
<1>10. CallsLeft'
  BY <1>0 DEF CallsLeft, Answered
<1> QED
  BY <1>3, <1>4, <1>5, <1>6, <1>7, <1>8, <1>9, <1>10 DEF IInv

\* A mutation passes the policy once more, on the copy the planner got.
LEMMA MutateInv ==
    ASSUME IInv, NEW found, NEW layer \in Layers, NEW s \in Scopes,
           Mutate(found, layer, s)
    PROVE  IInv'
<1> DEFINE req == Effective(scoped, routing)
<1>0. /\ phase = "calling" /\ phase' = "mutated" /\ scoped \in RequestType
      /\ UNCHANGED <<site, request, initial, scoped, retrieved, routing, calls>>
  BY DEF IInv, TypeOK, Mutate
<1>1. ChallengeNeverMutates'
  <2> SUFFICES ASSUME "waf" \in site.stages, ~CleanReplay PROVE FALSE
    BY <1>0 DEF ChallengeNeverMutates, CleanReplay
  <2>1. "targeted" \in req.obs
    <3>1. "targeted" \in scoped.obs
      BY <1>0 DEF IInv, RequestNarrows, CopyNarrows, Narrowed, Answered
    <3> QED
      BY <1>0, <3>1 DEF Effective, RequestType
  <2>2. Prior(req, found).layer # "provider"
    BY <2>1, ChallengedPrior
  <2> QED
    BY <2>2 DEF Mutate, MayMutate, Policy, Refuse
<1>2. TypeOK'
  BY <1>0 DEF IInv, TypeOK
<1>3. RequestNarrows' /\ CopyNarrows'
  BY <1>0 DEF IInv, RequestNarrows, CopyNarrows, Narrowed, Answered
<1>4. AuthorityOnlyShrinks'
  BY <1>0, SameGrants DEF IInv, AuthorityOnlyShrinks
<1>5. LiveSurvivesRetries'
  BY <1>0, LiveKept DEF IInv
<1> QED
  BY <1>0, <1>1, <1>2, <1>3, <1>4, <1>5 DEF IInv, CallsLeft, RepairIsGranted

LEMMA OutcomeInv ==
    ASSUME IInv, AnswerOnly \/ Reject \/ NextScope
    PROVE  IInv'
<1>0. /\ phase \in Answered /\ phase' \in {"advised", "withheld", "rejected", "ready"}
      /\ phase' \in Answered => phase = "calling"
      /\ UNCHANGED <<site, request, initial, scoped, retrieved, routing, calls>>
  BY DEF AnswerOnly, Reject, NextScope, Answered
<1>1. TypeOK'
  BY <1>0 DEF IInv, TypeOK
<1>2. RequestNarrows' /\ CopyNarrows'
  BY <1>0 DEF IInv, RequestNarrows, CopyNarrows, Narrowed, Answered
<1>3. LiveSurvivesRetries'
  <2>1. CASE phase = "calling"
    BY <1>0, <2>1, LiveKept DEF IInv
  <2>2. CASE phase' \notin Answered
    BY <2>2 DEF LiveSurvivesRetries, Answered
  <2> QED
    BY <1>0, <2>1, <2>2
<1> QED
  BY <1>0, <1>1, <1>2, <1>3 DEF IInv, CallsLeft, RepairIsGranted, AuthorityOnlyShrinks,
       ChallengeNeverMutates, Answered

LEMMA CorrectInv ==
    ASSUME IInv, Correct
    PROVE  IInv'
<1>0. /\ phase = "rejected" /\ phase' = "scoped" /\ calls < MaxCalls
      /\ scoped' = [scoped EXCEPT !.obs = @ \cap {"census", "targeted"}]
      /\ scoped \in RequestType
      /\ UNCHANGED <<site, request, initial, retrieved, routing, calls>>
  BY DEF IInv, TypeOK, Correct, CorrectionKeeps
<1>1. scoped' \in RequestType
  BY <1>0 DEF RequestType
<1>2. CopyNarrows'
  <2>1. /\ Narrowed(scoped, initial)
        /\ ~scoped.advisor => \E s \in site.context : scoped.allowed = {s}
    BY <1>0 DEF IInv, CopyNarrows, Answered
  <2>2. /\ Narrowed(scoped', initial)
        /\ scoped'.advisor = scoped.advisor /\ scoped'.allowed = scoped.allowed
    BY <1>0, <2>1 DEF Narrowed, RequestType
  <2> QED
    BY <1>0, <2>1, <2>2 DEF CopyNarrows, Narrowed
<1>3. TypeOK'
  BY <1>0, <1>1 DEF IInv, TypeOK
<1>4. RequestNarrows'
  BY <1>0 DEF IInv, RequestNarrows, Narrowed
<1> QED
  BY <1>0, <1>2, <1>3, <1>4 DEF IInv, CallsLeft, RepairIsGranted, AuthorityOnlyShrinks,
       ChallengeNeverMutates, LiveSurvivesRetries

LEMMA NextCandidateInv ==
    ASSUME IInv, NextCandidate
    PROVE  IInv'
<1>0. /\ phase \in {"rejected", "withheld", "mutated"} /\ phase' = "ready"
      /\ \/ request' = request
         \/ request' = [request EXCEPT !.obs = @ \cap {"census", "targeted"}]
      /\ request \in RequestType
      /\ UNCHANGED <<site, initial, scoped, retrieved, routing, calls>>
  BY DEF IInv, TypeOK, NextCandidate, CarryKeeps
<1>1. request' \in RequestType
  BY <1>0 DEF RequestType
<1>2. TypeOK'
  BY <1>0, <1>1 DEF IInv, TypeOK
<1>3. Narrowed(request', initial)
  BY <1>0 DEF IInv, RequestNarrows, Narrowed, RequestType
<1>4. RequestNarrows'
  BY <1>0, <1>3 DEF IInv, RequestNarrows, Narrowed
<1> QED
  BY <1>0, <1>2, <1>4 DEF IInv, CallsLeft, CopyNarrows, RepairIsGranted,
       AuthorityOnlyShrinks, ChallengeNeverMutates, LiveSurvivesRetries, Answered

LEMMA StutterInv ==
    ASSUME IInv, UNCHANGED vars
    PROVE  IInv'
<1>1. TypeOK' /\ RequestNarrows' /\ CopyNarrows' /\ CallsLeft'
  BY DEF vars, IInv, TypeOK, RequestNarrows, CopyNarrows, CallsLeft, Narrowed, Answered
<1>2. AuthorityOnlyShrinks' /\ ChallengeNeverMutates'
  BY SameGrants DEF vars, IInv, AuthorityOnlyShrinks, ChallengeNeverMutates, CleanReplay
<1>3. RepairIsGranted'
  BY SameGrants DEF vars, IInv, RepairIsGranted
<1>4. LiveSurvivesRetries'
  BY DEF vars, IInv, LiveSurvivesRetries, WithheldByExperience, Fresh
<1> QED
  BY <1>1, <1>2, <1>3, <1>4 DEF IInv

LEMMA StepInv == IInv /\ [Next]_vars => IInv'
<1> SUFFICES ASSUME IInv, [Next]_vars PROVE IInv'
  OBVIOUS
<1>1. CASE \E advisor \in BOOLEAN : Build(advisor) \/ BuildWithPreflight(advisor)
  BY <1>1, BuildInv
<1>2. CASE StartAdvice \/ \E s \in Scopes : StartScope(s)
  BY <1>2, StartInv
<1>3. CASE \E found \in Retrievable, left, family, compiles \in BOOLEAN :
              Orchestrate(found, left, family, compiles)
  BY <1>3, OrchestrateInv
<1>4. CASE \E found \in Retrievable, layer \in Layers, s \in Scopes : Mutate(found, layer, s)
  BY <1>4, MutateInv
<1>5. CASE AnswerOnly \/ Reject \/ NextScope
  BY <1>5, OutcomeInv
<1>6. CASE Correct
  BY <1>6, CorrectInv
<1>7. CASE NextCandidate
  BY <1>7, NextCandidateInv
<1>8. CASE UNCHANGED vars
  BY <1>8, StutterInv
<1> QED
  BY <1>1, <1>2, <1>3, <1>4, <1>5, <1>6, <1>7, <1>8 DEF Next

LEMMA Invariance == Spec => []IInv
  BY InitInv, StepInv, PTL DEF Spec

-----------------------------------------------------------------------------
(* The second look of the planner.                                         *)

\* A repair call stands on a policy that granted the one scope of its copy, so
\* that the planner is given the copy itself, searches it with the same result
\* and grants the same.
LEMMA RepairSucceeds == IInv => RepairCallCanSucceed
<1> SUFFICES ASSUME IInv, phase = "calling", routing.mode = "llm_repair",
                    ~scoped.advisor, NEW found \in FoundFor(Effective(scoped, routing))
             PROVE  \E s \in Scopes : MayMutate(Effective(scoped, routing),
                        Prior(Effective(scoped, routing), found), "provider", s)
  BY DEF RepairCallCanSucceed
<1> DEFINE prior == Prior(scoped, retrieved)
           policy == Policy(scoped, prior)
<1>0. scoped \in RequestType
  BY DEF IInv, TypeOK
<1>1. policy.mutate /\ routing.scopes = policy.scopes
  BY DEF IInv, RepairIsGranted
<1>2. PICK s \in site.context : scoped.allowed = {s}
  BY DEF IInv, CopyNarrows, Answered
<1>3. s \in Scopes /\ scoped.allowed \cap site.context = {s}
  BY <1>0, <1>2 DEF RequestType
<1>4. prior.layer = "provider" /\ policy.scopes = {s} /\ ~policy.abstain
  <2> HIDE DEF prior
  <2> QED
    BY <1>1, <1>3 DEF Policy, Refuse, ReadOnly
<1>5. Effective(scoped, routing) = scoped
  BY <1>0, <1>1, <1>2, <1>4 DEF Effective, RequestType
<1>6. found = retrieved
  BY <1>5 DEF FoundFor
<1>7. MayMutate(scoped, prior, "provider", s)
  BY <1>1, <1>2, <1>4 DEF MayMutate
<1> QED
  BY <1>3, <1>5, <1>6, <1>7

-----------------------------------------------------------------------------
\* Requests, copies and decisions are always well formed, whatever the checkout.
THEOREM TypeCorrect == Spec => []TypeOK
<1>1. IInv => TypeOK
  BY DEF IInv
<1> QED
  BY <1>1, Invariance, PTL

\* No correction and no slot boundary is granted a scope that the whole
\* evidence of the checkout denied: what they keep of the observations is
\* enough for the policy never to widen.
THEOREM AuthorityNeverGrows == Spec => []AuthorityOnlyShrinks
<1>1. IInv => AuthorityOnlyShrinks
  BY DEF IInv
<1> QED
  BY <1>1, Invariance, PTL

\* A standing challenge stops every mutation, of a model or of a family.
THEOREM ChallengeStopsMutation == Spec => []ChallengeNeverMutates
<1>1. IInv => ChallengeNeverMutates
  BY DEF IInv
<1> QED
  BY <1>1, Invariance, PTL

\* The planner, deciding again on a copy with replaced scopes and after a search
\* of its own, never withdraws what the routing paid a repair call for.
THEOREM PlannerAgrees == Spec => []RepairCallCanSucceed
  BY RepairSucceeds, Invariance, PTL

\* The authority of a failed preflight outlives the observation that gave it:
\* what withholds a repair is an experience, never evidence owed again.
THEOREM LiveOutlivesObservation == Spec => []LiveSurvivesRetries
<1>1. IInv => LiveSurvivesRetries
  BY DEF IInv
<1> QED
  BY <1>1, Invariance, PTL
=============================================================================
