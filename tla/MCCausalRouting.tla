---------------------------- MODULE MCCausalRouting ----------------------------
(* Three families of checkouts: challenges, evidence and retrieval.           *)
EXTENDS CausalRouting

Plain == [status |-> "ROUTE_PROVEN", class |-> "absent", tested |-> FALSE,
          candidate |-> FALSE, route |-> FALSE, depth |-> "none", replayed |-> FALSE,
          bothNets |-> FALSE, debt |-> FALSE, lanes |-> <<>>,
          stages |-> {}, origin |-> {}, playable |-> FALSE, replay |-> {},
          browser |-> "none", native |-> FALSE, routes |-> TRUE,
          context |-> {"provider_bloc", "provider_patch"}, fresh |-> {},
          history |-> {}, family |-> FALSE, liveFails |-> FALSE]

Challenges ==
    {[Plain EXCEPT !.status = status, !.bothNets = both, !.stages = stages,
                   !.origin = origin, !.replay = replay, !.browser = browser,
                   !.native = browser = "reached", !.liveFails = status = "FULL_OK"] :
        status \in {"FULL_OK", "NO_PROOF", "CHAIN_REACHED", "PROVIDER_NETWORK_BLOCKED"},
        both \in BOOLEAN, stages \in SUBSET {"waf", "http"},
        origin \in SUBSET {"blocked", "served"}, replay \in SUBSET {"clean", "challenged"},
        browser \in {"none", "persisted", "reached"}}

\* Two of three announced variants, before and after the lane is probed again.
Lane == [lane |-> "tv", announced |-> 3, players |-> 0, streams |-> 2, raw |-> 0,
         state |-> ""]
FewReturned == <<[Lane EXCEPT !.streams = 0], Lane, [Lane EXCEPT !.announced = 0]>>
CaughtUp == <<Lane, [Lane EXCEPT !.streams = 0, !.raw = 3]>>

\* What the census row proves, and how deep.
Proof(tested, candidate, depth, replayed) ==
    [Plain EXCEPT !.tested = tested, !.candidate = candidate, !.depth = depth,
                  !.replayed = replayed]
Proofs == {Proof(FALSE, FALSE, "none", FALSE), Proof(FALSE, TRUE, "route", FALSE),
           Proof(TRUE, TRUE, "none", FALSE), Proof(TRUE, FALSE, "chain", FALSE),
           Proof(TRUE, FALSE, "none", TRUE)}

Evidence ==
    {[proof EXCEPT !.status = status, !.class = class, !.stages = stages,
                   !.playable = stages # {}, !.routes = routes, !.context = context,
                   !.fresh = fresh, !.lanes = rows, !.liveFails = routes] :
        status \in {"FULL_OK", "ROUTE_PROVEN", "CANDIDATE_OK", "DISABLED"},
        class \in {"absent", "provider-transport-gap", "api-discovery-gap", "healthy"},
        proof \in Proofs, stages \in {{}, {"other"}},
        routes \in BOOLEAN, context \in {{}, {"provider_data"}},
        fresh \in SUBSET {"experience", "context"}, rows \in {<<>>, CaughtUp, FewReturned}}

\* Experiences that leave the strategy alone, forbid a mutation, or ask for a
\* discovery; with them a preflight of the positive statuses.
Retrieval ==
    {[Plain EXCEPT !.status = status, !.class = class, !.history = history,
                   !.family = family, !.bothNets = history # {}, !.stages = stages,
                   !.fresh = fresh, !.liveFails = status \in Positive] :
        status \in Statuses \ {"CURRENT_FAILURE"},
        class \in {"absent", "provider-transport-gap", "typed-api-execution",
                   "media-validation-gap", "unlisted"},
        history \in {{}, {"other"}, {"compare-profiles", "none"}, {"discover-api", "other"}},
        family \in BOOLEAN, stages \in {{}, {"other"}}, fresh \in {{}, {"experience"}}}

MCSites == Challenges \cup Evidence \cup Retrieval
=============================================================================
