---------------------------- MODULE MCFamilyWave ----------------------------
(* Two families: three siblings with equal evidence, and a pair of which the *)
(* first is not repair-eligible and the second has static debt only.         *)
EXTENDS FamilyWave, TLC

CONSTANTS alpha, beta, gamma, delta, epsilon

Cohort == {alpha, beta, gamma, delta, epsilon}

ByName ==
    alpha :> 1 @@ beta :> 2 @@ gamma :> 3 @@ delta :> 4 @@ epsilon :> 5

Probe == [current |-> TRUE, hints |-> {}, stages |-> {4}, codes |-> {200}]
Cards == [classes |-> {<<"card">>, <<"card", "-title">>}, facts |-> {}]
Links == [classes |-> {<<"card">>},
          facts |-> {[count |-> 3, selfHref |-> 0, nested |-> 2, tags |-> 2]}]

CheckoutOf ==
    [p \in Cohort |->
        [name |-> ByName[p],
         eligible |-> p \notin {delta, epsilon},
         candidate |-> p = gamma, chain |-> p = beta, route |-> FALSE, broken |-> FALSE,
         audit |-> IF p = epsilon THEN "high" ELSE "absent",
         failure |-> IF p \in {delta, epsilon} THEN "chain-terminal-gap"
                     ELSE "structured-parse-gap",
         observations |->
            CASE p = delta   -> {Probe, [Probe EXCEPT !.stages = {7}]}
              [] p = epsilon -> {Probe, [Probe EXCEPT !.current = FALSE, !.hints = {Links}]}
              [] OTHER       -> {[Probe EXCEPT !.hints = {Cards}]}]]
=============================================================================
