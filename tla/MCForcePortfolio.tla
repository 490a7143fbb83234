-------------------------- MODULE MCForcePortfolio --------------------------
(* Small portfolios: two scopes, a few mutations, the workflow's arguments. *)
EXTENDS ForcePortfolio

CONSTANTS b1, b2, p1, d1

BlocThenPatch == <<"provider_bloc", "provider_patch">>
BlocOnly == <<"provider_bloc">>

MCMutations == {b1, b2, p1, d1}
MCOffers ==
    [s \in Range(ScopeOrder) |->
        CASE s = "provider_bloc" -> {b1, b2}
          [] s = "provider_patch" -> {p1}
          [] OTHER -> {d1}]
MCBlockable == {b1, b2, p1}
MCExecuted == {b2}

MemoryEvidence == {"census_current", "brain-force-sandbox-memory"}
\* A targeted regression and the clean full replay that outranks it.
ReplayEvidence ==
    {"census_current", "targeted-regression-current",
     "waf-client-differential-current"}

MCRejections == {"syntax_error", Blocked}
NoDelayOrHalfMinute == {0, 6}
UpToAMinute == {0, 12}
=============================================================================
