----------------------------- MODULE CausalRouting -----------------------------
(***************************************************************************)
(* From the evidence of a checkout to the authority to change a provider.  *)
(*                                                                         *)
(* Five parts of the code read the same evidence and each decides anew:    *)
(* the adapter names the failure, the causal prior assigns a layer and a   *)
(* strategy, the policy grants scopes, the routing picks a mode, and the   *)
(* planner repeats prior and policy on a copy of the request before and    *)
(* after the model answers.  A batch then tries again, on copies from      *)
(* which corrections and slot boundaries have dropped observations.        *)
(***************************************************************************)
EXTENDS Integers, FiniteSets, Sequences

CONSTANTS
    Sites,        \* what a checkout may say of the provider
    MaxCalls      \* bound: calls of the orchestrator

Scopes == {"provider_data", "provider_patch", "provider_bloc", "provider_js"}

Layers == {"provider", "core", "harness", "network", "unknown"}

\* NiakVIO writes them with spaces.
Statuses == {"FULL_OK", "PARTIAL_OK", "NO_PROOF", "ROUTE_PROVEN", "CHAIN_REACHED",
             "CANDIDATE_OK", "HARNESS_MISMATCH", "HARNESS_ENV_BLOCKED",
             "CLIENT_TRANSPORT_GAP", "PROVIDER_NETWORK_BLOCKED", "DISABLED",
             "REGRESSION_PROVIDER_JS", "PROVIDER_JS_BROKEN", "CURRENT_FAILURE"}

\* The taxonomy of priors.py.
CoreClasses ==
    {"media-type-pre-network-gate", "playback-identity-gap", "runtime-compatibility-gap",
     "client-capability-projection-gap", "materializer-non-idempotence",
     "provider-identity-collision", "provider-reconstruction-integrity",
     "media-validation-gap", "runtime-timeout-gap", "structured-parse-gap",
     "state-authority-gap", "activation-proof-gap", "client-lifecycle-gap",
     "proof-freshness-gap"}
HarnessClasses == {"transport-environment-gap", "client-transport-gap"}
ProviderClasses ==
    {"provider-backend-isolation", "api-discovery-gap", "typed-api-execution",
     "identity-mismatch", "provider-transport-gap", "route-proven-gap",
     "chain-terminal-gap", "candidate-replay-gap", "media-extraction-gap",
     "variant-coverage-gap"}
Taxonomy == CoreClasses \cup HarnessClasses \cup ProviderClasses

\* Outside the taxonomy: a class NiakVIO wrote, "healthy", and the status that
\* stands in for a missing class.
Failures == Taxonomy \cup Statuses \cup {"unlisted", "healthy"}

\* Strategies that verify or replay and change nothing.
NoMutationStrategies == {"candidate-replay", "compare-profiles", "normalize-media-type"}

\* Strategies of the taxonomy, and of the experiences that sandboxes have
\* validated, which may bear any name: "other" is one no decision reads.
Strategies ==
    NoMutationStrategies
      \cup {"discover-api", "traversal", "terminal-extractor", "request-program",
            "enumerate-variants", "other", "none"}

\* Sources of observations that the decisions read.
Sources == {"census", "targeted", "waf", "experience", "live"}

\* A row of the sharded census: the variants a page of this lane announced,
\* its players (announced or explored), the streams it returned, and the
\* state the census gives the fan-out.
GapStates ==
    {"announced-not-explored", "explored-not-resolved", "returned-subset", "quality-gap"}
LaneType ==
    [lane : {"movie", "tv"}, announced : Nat, players : Nat, streams : Nat, raw : Nat,
     state : GapStates \cup {"", "other"}]

SiteType ==
    [status     : Statuses,
     class      : Failures \cup {"absent"},  \* failureClass of the census row
     tested     : BOOLEAN,                   \* testedThisRun
     candidate  : BOOLEAN,                   \* candidateProof
     route      : BOOLEAN,                   \* routeProof
     depth      : {"none", "route", "chain"},          \* evidenceDepth
     replayed   : BOOLEAN,                   \* residentialProviderReplayEvidence
     bothNets   : BOOLEAN,                   \* browser profile only, both networks
     debt       : BOOLEAN,                   \* runtime coverage risk is high
     lanes      : Seq(LaneType),             \* rows of the sharded census
     stages     : SUBSET {"waf", "http", "other"},     \* targeted debug stages
     origin     : SUBSET {"blocked", "served"},        \* and provider answers
     playable   : BOOLEAN,                             \* and playable lanes
     replay     : SUBSET {"clean", "challenged"},      \* full provider replays
     browser    : {"none", "persisted", "reached"},    \* outcome of the WAF seed
     native     : BOOLEAN,                   \* native-like profile got content
     routes     : BOOLEAN,                   \* proven routes in the contract
     context    : SUBSET Scopes,             \* scopes with material to change
     fresh      : SUBSET {"experience", "context"},    \* fresh URLs
     history    : SUBSET Strategies,         \* usable experiences of the class
     family     : BOOLEAN,                   \* a validated family mechanism
     liveFails  : BOOLEAN]                   \* exact-checkout preflight fails

ASSUME SiteAssumption == Sites \subseteq SiteType
ASSUME CallAssumption == MaxCalls \in Nat

VARIABLES
    site,      \* constant of a behaviour: the checkout and the preflight
    request,   \* RepairRequest of the provider
    initial,   \* history: the request before anything was dropped from it
    scoped,    \* copy of the request that the current call is made with
    retrieved, \* strategy of the experience the search for it returned
    routing,   \* decision of the routing on it
    phase,
    calls

vars == <<site, request, initial, scoped, retrieved, routing, phase, calls>>

-----------------------------------------------------------------------------
(* The adapter.                                                            *)

Targeted == site.stages # {} \/ site.origin # {}
Waf == site.replay # {} \/ site.browser # "none"

\* The class of a census row, by the depth its evidence reached.
Classify ==
    IF site.class # "absent" THEN site.class
    ELSE IF site.status \in {"HARNESS_MISMATCH", "HARNESS_ENV_BLOCKED", "CLIENT_TRANSPORT_GAP"}
        THEN "transport-environment-gap"
    ELSE IF site.candidate \/ site.status = "CANDIDATE_OK" THEN "candidate-replay-gap"
    ELSE IF site.depth = "chain" \/ site.status = "CHAIN_REACHED" THEN "chain-terminal-gap"
    ELSE IF site.route \/ site.status = "ROUTE_PROVEN" THEN "route-proven-gap"
    ELSE IF site.status = "PROVIDER_NETWORK_BLOCKED" THEN "provider-transport-gap"
    ELSE site.status

Positive == {"FULL_OK", "PARTIAL_OK"}

\* The fan-out of each lane: its last row that says anything about it.
Fanout(rows) ==
    LET speaks(row) == row.state # "" \/ row.announced > 0 \/ row.players > 0
    IN  {rows[i] : i \in {k \in DOMAIN rows :
            /\ speaks(rows[k])
            /\ \A j \in DOMAIN rows :
                  j > k /\ rows[j].lane = rows[k].lane => ~speaks(rows[j])}}

\* Several variants announced, and fewer of them returned.  A row without
\* streams counts its raw results.
FanoutGap(rows) ==
    \E row \in Fanout(rows) :
        /\ row.announced >= 2
        /\ \/ row.state \in GapStates
           \/ (IF row.streams > 0 THEN row.streams ELSE row.raw) < row.announced

\* Missing variants are a defect of a provider that plays.
WithCoverage ==
    IF \/ site.debt /\ site.status \in Positive
       \/ FanoutGap(site.lanes) /\ site.status \in Positive \cup {"CANDIDATE_OK"}
    THEN "variant-coverage-gap" ELSE Classify

\* Every full replay through the residential exit is clean.
CleanReplay == site.replay = {"clean"}

ProviderWaf ==
    /\ site.origin # {}
    /\ "waf" \in site.stages
          \/ (site.origin = {"blocked"} /\ site.stages \subseteq {"waf", "http"})
    /\ ~site.playable

\* A clean replay outranks the seed; a seed that stayed challenged is the
\* environment's; one that was reached natively is the client's.
FailureOf ==
    IF ProviderWaf /\ CleanReplay THEN WithCoverage
    ELSE IF ProviderWaf /\ site.browser = "persisted" THEN "transport-environment-gap"
    ELSE IF ProviderWaf /\ site.browser = "reached" /\ site.native
        THEN "client-transport-gap"
    ELSE IF "waf" \in site.stages THEN "provider-transport-gap"
    ELSE WithCoverage

TransportFailure(f) ==
    f \in {"provider-transport-gap", "transport-environment-gap", "client-transport-gap"}

\* _route_synthesis_policy: computed once, from the status and the class the
\* checkout gave, and kept in the request whatever becomes of them.
MustRediscover(status, f) ==
    \/ status = "NO_PROOF"
    \/ /\ status \notin {"ROUTE_PROVEN", "CHAIN_REACHED", "CANDIDATE_OK"}
       /\ TransportFailure(f) /\ ~site.routes

RequestType ==
    [status     : Statuses,
     failure    : Failures,
     obs        : SUBSET Sources,
     rediscover : BOOLEAN,
     live       : BOOLEAN,       \* verified_live_failure of the context
     allowed    : SUBSET Scopes,
     advisor    : BOOLEAN]

FromCheckout(advisor) ==
    [status     |-> site.status,
     failure    |-> FailureOf,
     obs        |-> {"census", "experience"}
                      \cup (IF Targeted THEN {"targeted"} ELSE {})
                      \cup (IF Waf THEN {"waf"} ELSE {}),
     rediscover |-> MustRediscover(site.status, FailureOf),
     live       |-> FALSE,
     allowed    |-> Scopes,
     advisor    |-> advisor]

\* apply_verified_live_failure: a preflight on the exact checkout demotes a
\* positive status, for this attempt; the proof goes into the context.
DemoteToIssue(req) ==                                                  \* mutant
    [req EXCEPT !.status = "provider_transport_gap", !.live = TRUE]
Demote(req) ==
    [req EXCEPT !.status = "CURRENT_FAILURE", !.failure = "provider-transport-gap",
                !.obs = @ \cup {"live"}, !.live = TRUE]

\* observed_failure_class: how far the failing fixtures of the preflight got.
Refined(f) ==
    IF f \in {"variant-coverage-gap", "candidate-replay-gap"}
    THEN {f, "chain-terminal-gap", "route-proven-gap"} ELSE {f}

-----------------------------------------------------------------------------
(* The causal prior.  found is the strategy of the first usable experience *)
(* of the same class that the retrieval returns, "nothing" without one.    *)
(* The ranking depends on the whole request and keeps six rows, so that    *)
(* the searches for two copies may return different experiences.           *)

Strategy(f) ==
    CASE f = "media-type-pre-network-gate" -> "normalize-media-type"
      [] f = "api-discovery-gap"           -> "discover-api"
      [] f \in HarnessClasses              -> "compare-profiles"
      [] f = "route-proven-gap"            -> "traversal"
      [] f = "chain-terminal-gap"          -> "terminal-extractor"
      [] f = "candidate-replay-gap"        -> "candidate-replay"
      [] f = "media-extraction-gap"        -> "request-program"
      [] f = "variant-coverage-gap"        -> "enumerate-variants"
      [] OTHER                             -> "none"

TaxonomyLayer(f) ==
    CASE f \in CoreClasses     -> "core"
      [] f \in HarnessClasses  -> "harness"
      [] f \in ProviderClasses -> "provider"
      [] OTHER                 -> "unknown"

\* The layer the current status owns, whatever the class says.
StatusLayer(status) ==
    CASE status \in {"CLIENT_TRANSPORT_GAP", "HARNESS_MISMATCH", "HARNESS_ENV_BLOCKED"}
                                             -> "harness"
      [] status = "PROVIDER_NETWORK_BLOCKED" -> "network"
      [] status = "DISABLED"                 -> "unknown"
      [] OTHER                               -> "open"

\* The observations of a copy may lack the replay, the challenge, or both.
ReplaySignalOfAny(req) == "waf" \in req.obs /\ "clean" \in site.replay  \* mutant
ReplaySignal(req) == "waf" \in req.obs /\ CleanReplay

InteractiveChallenge(req) ==
    ~ReplaySignal(req) /\ "targeted" \in req.obs /\ "waf" \in site.stages

Retrievable == site.history \cup {"nothing"}

\* Under an open status without a challenge, a class of the taxonomy names layer
\* and strategy, and an experience the strategy where the taxonomy has none.
\* Outside the taxonomy an experience names both: one without a provider of its
\* own is no case and counts as "nothing".
Prior(req, found) ==
    IF StatusLayer(req.status) # "open" THEN
        [layer |-> StatusLayer(req.status), confidence |-> 95,
         strategy |-> IF TaxonomyLayer(req.failure) = StatusLayer(req.status)
                      THEN Strategy(req.failure) ELSE "none"]
    ELSE IF InteractiveChallenge(req) THEN
        [layer |-> "harness", confidence |-> 99, strategy |-> "compare-profiles"]
    ELSE IF req.failure \in Taxonomy THEN
        [layer |-> TaxonomyLayer(req.failure), confidence |-> 96,
         strategy |-> IF Strategy(req.failure) = "none" /\ found # "nothing"
                      THEN found ELSE Strategy(req.failure)]
    ELSE IF found # "nothing" THEN
        [layer |-> "provider", confidence |-> 94, strategy |-> found]
    ELSE IF req.status \in {"ROUTE_PROVEN", "CHAIN_REACHED", "CANDIDATE_OK", "PARTIAL_OK",
                            "REGRESSION_PROVIDER_JS", "PROVIDER_JS_BROKEN"} THEN
        [layer |-> "provider", confidence |-> 82, strategy |-> "none"]
    ELSE [layer |-> "unknown", confidence |-> 35, strategy |-> "none"]

-----------------------------------------------------------------------------
(* The policy.                                                             *)

NeedsTargetedEvidence ==
    {"provider-transport-gap", "route-proven-gap", "chain-terminal-gap", "media-extraction-gap"}

CurrentCensusEvidence(req) ==
    /\ "census" \in req.obs /\ site.tested
    /\ site.route \/ site.candidate \/ site.replayed \/ site.depth # "none"

VerifiedLiveInObservations(req) == req.live /\ "live" \in req.obs       \* mutant
VerifiedLive(req) == req.live

\* A request that came from a checkout owes fresh evidence of its provider.
EvidenceMissing(req) ==
    /\ req.failure \in NeedsTargetedEvidence
    /\ "census" \in req.obs
    /\ "targeted" \notin req.obs
    /\ ~CurrentCensusEvidence(req)
    /\ ~VerifiedLive(req)

Fresh(req) == "context" \in site.fresh \/ ("experience" \in site.fresh \cap req.obs)

Refuse == [mutate |-> FALSE, scopes |-> {}, abstain |-> TRUE]
ReadOnly == [mutate |-> FALSE, scopes |-> {}, abstain |-> FALSE]

Policy(req, prior) ==
    IF prior.layer # "provider" THEN Refuse
    ELSE IF prior.strategy \in NoMutationStrategies \/ req.advisor THEN ReadOnly
    ELSE IF \/ EvidenceMissing(req)
            \/ prior.strategy = "discover-api" /\ ~Fresh(req)
            \/ req.allowed \cap site.context = {}
        THEN Refuse
    ELSE [mutate |-> TRUE, scopes |-> req.allowed \cap site.context, abstain |-> FALSE]

-----------------------------------------------------------------------------
(* The routing.  left says that an advisor experiment is untried, family   *)
(* that a mechanism of the provider's repair family was validated; its     *)
(* name, like rediscovery, replaces the strategy of the prior.             *)

Decision(mode, prior, scopes) ==
    [mode |-> mode, layer |-> prior.layer, strategy |-> prior.strategy, scopes |-> scopes]

Route(req, found, left, family) ==
    LET prior  == Prior(req, found)
        policy == Policy(req, prior)
        To(mode, scopes) == Decision(mode, prior, scopes)
    IN  IF req.status \in Positive /\ req.failure = "healthy" THEN To("skip", {})
        ELSE IF prior.layer = "unknown" \/ prior.confidence < 80 THEN To("llm_diagnose", {})
        ELSE IF prior.layer = "harness"
                  /\ (req.status = "CLIENT_TRANSPORT_GAP" \/ site.bothNets)
            THEN To("llm_diagnose", {})
        ELSE IF prior.layer # "provider" THEN To("deterministic", {})
        ELSE IF req.status = "NO_PROOF" \/ req.rediscover
            THEN Decision("probe", [prior EXCEPT !.strategy = "rediscover"], {})
        ELSE IF req.advisor /\ prior.confidence >= 90 /\ prior.strategy # "none"
            THEN To(IF left THEN "deterministic_advisor" ELSE "llm_repair", {})
        ELSE IF prior.strategy \in NoMutationStrategies THEN To("deterministic", {})
        ELSE IF req.advisor THEN To("llm_repair", {})
        ELSE IF policy.abstain THEN To("probe", {})
        ELSE IF policy.mutate /\ family
            THEN Decision("family_replay", [prior EXCEPT !.strategy = "mechanism"], policy.scopes)
        ELSE IF policy.mutate THEN To("llm_repair", policy.scopes)
        ELSE To("probe", {})

Modes == {"skip", "llm_diagnose", "deterministic", "probe", "deterministic_advisor",
          "llm_repair", "family_replay"}

-----------------------------------------------------------------------------
(* One provider of a batch.                                                *)

NoRequest ==
    [status |-> "FULL_OK", failure |-> "healthy", obs |-> {}, rediscover |-> FALSE,
     live |-> FALSE, allowed |-> {}, advisor |-> FALSE]
NoDecision == [mode |-> "skip", layer |-> "unknown", strategy |-> "none", scopes |-> {}]

Init ==
    /\ site \in Sites
    /\ request = NoRequest
    /\ initial = NoRequest
    /\ scoped = NoRequest
    /\ retrieved = "nothing"
    /\ routing = NoDecision
    /\ phase = "checkout"
    /\ calls = 0

Begin(req) ==
    /\ request' = req
    /\ initial' = req
    /\ phase' = "ready"
    /\ UNCHANGED <<site, scoped, retrieved, routing, calls>>

\* request_from_checkout, and the preflight when there is one.
Build(advisor) ==
    /\ phase = "checkout"
    /\ Begin(FromCheckout(advisor))

\* The override asks for the repair mode before advisor runs are told apart; a
\* preflight accompanies FORCE runs only, which never are.
BuildWithPreflight(advisor) ==
    LET req == FromCheckout(advisor)
    IN  /\ phase = "checkout"
        /\ IF site.liveFails /\ req.status \in Positive /\ ~advisor
           THEN Begin(Demote(req))
           ELSE \E f \in Refined(req.failure) : Begin([req EXCEPT !.failure = f])

\* A repair call is made with one scope, an advisor call with the request.
StartScope(s) ==
    /\ phase = "ready"
    /\ calls < MaxCalls
    /\ s \in site.context
    /\ ~request.advisor
    /\ scoped' = [request EXCEPT !.allowed = {s}]
    /\ phase' = "scoped"
    /\ UNCHANGED <<site, request, initial, retrieved, routing, calls>>

StartAdvice ==
    /\ phase = "ready"
    /\ calls < MaxCalls
    /\ request.advisor
    /\ scoped' = request
    /\ phase' = "scoped"
    /\ UNCHANGED <<site, request, initial, retrieved, routing, calls>>

\* The orchestrator: a decision, and a call of the planner when it needs one.
\* A family mechanism that does not compile is escalated to the model.
Orchestrate(found, left, family, compiles) ==
    LET to == Route(scoped, found, left, family)
    IN  /\ phase = "scoped"
        /\ calls' = calls + 1
        /\ found \in Retrievable
        /\ retrieved' = found
        /\ family => site.family
        /\ compiles => to.mode = "family_replay"
        /\ routing' = IF to.mode = "family_replay" /\ ~compiles
                      THEN [to EXCEPT !.mode = "llm_repair"] ELSE to
        /\ phase' = CASE compiles -> "mutated"
                      [] to.mode \in {"llm_diagnose", "llm_repair"} -> "calling"
                      [] to.mode = "family_replay" /\ ~compiles -> "calling"
                      [] to.mode = "deterministic_advisor" -> "advised"
                      [] OTHER -> "withheld"
        /\ UNCHANGED <<site, request, initial, scoped>>

\* The copy the planner gets.
EffectiveReadOnly(req, decision) == [req EXCEPT !.allowed = {}]          \* mutant
Effective(req, decision) ==
    IF decision.mode = "llm_diagnose" THEN [req EXCEPT !.allowed = {}]
    ELSE [req EXCEPT !.allowed = decision.scopes]

\* The planner searches again: for the same copy it finds the same experience.
FoundFor(req) == IF req = scoped THEN {retrieved} ELSE Retrievable

\* What the planner lets pass of an answer with one mutation of scope s, which
\* repeats the strategy of a prior of high confidence.
MayMutate(req, prior, layer, s) ==
    LET policy == Policy(req, prior)
    IN  /\ prior.confidence >= 90 /\ prior.layer # "unknown" => layer = prior.layer
        /\ policy.mutate
        /\ s \in req.allowed
        /\ s \in policy.scopes
        /\ layer = "provider"
        /\ ~policy.abstain

Mutate(found, layer, s) ==
    LET req == Effective(scoped, routing)
    IN  /\ phase = "calling"
        /\ found \in FoundFor(req)
        /\ MayMutate(req, Prior(req, found), layer, s)
        /\ phase' = "mutated"
        /\ UNCHANGED <<site, request, initial, scoped, retrieved, routing, calls>>

\* An answer without a mutation: a diagnosis, an experiment, an abstention.
AnswerOnly ==
    /\ phase = "calling"
    /\ phase' = IF routing.mode = "llm_repair" /\ scoped.advisor THEN "advised" ELSE "withheld"
    /\ UNCHANGED <<site, request, initial, scoped, retrieved, routing, calls>>

\* The planner, the compiler or the guard refuses the answer.
Reject ==
    /\ phase = "calling"
    /\ phase' = "rejected"
    /\ UNCHANGED <<site, request, initial, scoped, retrieved, routing, calls>>

\* _validation_feedback keeps some sources of the copy it corrects.
CorrectionDropsChallenge == {"census"}                                  \* mutant
CorrectionKeeps == {"census", "targeted"}

Correct ==
    /\ phase = "rejected"
    /\ calls < MaxCalls
    /\ ~scoped.advisor
    /\ scoped' = [scoped EXCEPT !.obs = @ \cap CorrectionKeeps]
    /\ phase' = "scoped"
    /\ UNCHANGED <<site, request, initial, retrieved, routing, calls>>

NextScope ==
    /\ phase \in {"rejected", "withheld"}
    /\ phase' = "ready"
    /\ UNCHANGED <<site, request, initial, scoped, retrieved, routing, calls>>

\* After a candidate without a mutation the portfolio goes on from feedback.
CarryDropsCensus == {"targeted"}                                        \* mutant
CarryKeeps == {"census", "targeted"}

NextCandidate ==
    /\ phase \in {"rejected", "withheld", "mutated"}
    /\ ~request.advisor
    /\ request' = IF phase = "mutated" THEN request
                  ELSE [request EXCEPT !.obs = @ \cap CarryKeeps]
    /\ phase' = "ready"
    /\ UNCHANGED <<site, initial, scoped, retrieved, routing, calls>>

Next ==
    \/ \E advisor \in BOOLEAN : Build(advisor)
    \/ \E advisor \in BOOLEAN : BuildWithPreflight(advisor)
    \/ \E s \in Scopes : StartScope(s)
    \/ StartAdvice
    \/ \E found \in Retrievable, left, family, compiles \in BOOLEAN :
          Orchestrate(found, left, family, compiles)
    \/ \E found \in Retrievable, layer \in Layers, s \in Scopes : Mutate(found, layer, s)
    \/ AnswerOnly
    \/ Reject
    \/ Correct
    \/ NextScope
    \/ NextCandidate

Spec == Init /\ [][Next]_vars

-----------------------------------------------------------------------------
Decisions ==
    [mode : Modes, layer : Layers, strategy : Strategies \cup {"rediscover", "mechanism"},
     scopes : SUBSET Scopes]

\* Requests, their copies and the decisions about them are well formed.
TypeOK ==
    /\ site \in SiteType
    /\ {request, initial, scoped} \subseteq RequestType
    /\ retrieved \in Strategies \cup {"nothing"}
    /\ routing \in Decisions
    /\ phase \in {"checkout", "ready", "scoped", "calling", "mutated", "advised",
                  "rejected", "withheld"}
    /\ calls \in 0..MaxCalls

\* The scopes a request may be granted, whichever experience is found for it.
Granted(req) == UNION {Policy(req, Prior(req, found)).scopes : found \in Retrievable}

\* Corrections and slot boundaries drop observations, and absence of evidence
\* can grant as well as deny (no challenge seen, no evidence owed): no retry is
\* ever granted a scope that the whole evidence of the checkout denied.
AuthorityOnlyShrinks ==
    phase \in {"calling", "mutated"} => routing.scopes \subseteq Granted(initial)

\* While an interactive challenge of the provider stands, unrefuted by a clean
\* full replay, nothing is mutated, on whatever copy, class, status or preflight.
ChallengeNeverMutates ==
    "waf" \in site.stages /\ ~CleanReplay => phase # "mutated"

\* The planner computes prior and policy again, after the orchestrator replaced
\* the scopes: a repair call that is paid for can end in a mutation.
RepairCallCanSucceed ==
    phase = "calling" /\ routing.mode = "llm_repair" /\ ~scoped.advisor
        => LET req == Effective(scoped, routing)
           IN  \A found \in FoundFor(req) :
                  \E s \in Scopes : MayMutate(req, Prior(req, found), "provider", s)

\* The experience found asks for a replay, or for a discovery nobody made.
WithheldByExperience ==
    \/ retrieved \in NoMutationStrategies
    \/ retrieved = "discover-api" /\ ~Fresh(scoped)

\* A preflight that demoted a positive status keeps its authority through every
\* correction and slot, although its observation is dropped: no copy owes again
\* the evidence the preflight gave, and the provider is repaired, never probed,
\* skipped or diagnosed, unless an experience of the class stands against it.
LiveSurvivesRetries ==
    initial.live /\ "waf" \notin site.stages /\ ~initial.rediscover
        /\ phase \in {"calling", "mutated", "rejected", "withheld"}
        => routing.mode \in {"llm_repair", "family_replay"} \/ WithheldByExperience
================================================================================
