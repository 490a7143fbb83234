----------------------------- MODULE MCAdvisorCycle -----------------------------
(* Ledgers: none, mixed evidence of one rotation, and few or none left.        *)
EXTENDS AdvisorCycle

MCStrategies == DOMAIN Base

Of(s, n) == Candidates[s][Tokens][n]

Mixed(s) ==
    <<Row(Of(s, 1), TRUE, "yes", 1, "rejected", {"search"}),
      Row(Of(s, 5), FALSE, "yes", 1, "rejected", {}),
      Row(Of(s, 6), TRUE, "no", 1, "rejected", {}),
      Row(Of(s, 7), TRUE, "yes", 0, "success", {}),
      Row(Of(s, 8), TRUE, "yes", 1, "unavailable", {"terminal"})>>

\* The first k candidates failed, all but two before executions were recorded.
Legacy(s, k) ==
    [n \in 1..k |-> Row(Of(s, n), TRUE, IF n > 2 THEN "absent" ELSE "yes", 1, "rejected", {})]

MCLedgers ==
    [s \in MCStrategies |->
        {Mixed(s)} \cup {Legacy(s, k) : k \in {4, 10, 16, 26, 28}}
            \cup (IF s = "traversal" THEN {<<>>} ELSE {})]

MCForceRows == <<Row(NoExperiment, FALSE, "yes", 1, "rejected", {"transport"})>>

\* Out of bounds with repeated roles, confident or not; an unknown role; none.
MCModelAnswers ==
    LET wild == [Base["traversal"] EXCEPT !.pages = 99, !.roles = <<"api", "api">>]
    IN  {Hypothesis(wild, "model", TRUE), Hypothesis(wild, "model", FALSE),
         Hypothesis([wild EXCEPT !.roles = <<"proxy">>], "model", TRUE),
         Hypothesis(NoExperiment, "model", TRUE)}
=============================================================================
