--------------------------- MODULE MCBudgetLedger ---------------------------
(* Two workers with different ceilings on one file, two calls each: enough  *)
(* for a reservation to be refused because of the other's pending amount,   *)
(* for usage beyond, at and below its reservation, and for a restart.       *)
EXTENDS BudgetLedger, TLC

CONSTANTS w1, w2

MCMaximum == w1 :> 8 @@ w2 :> 6
MCRequests == {[bytes |-> 0, limit |-> 1], [bytes |-> 1, limit |-> 1]}
MCUsages == {[input |-> 1, output |-> 0], [input |-> 2, output |-> 2]}
=============================================================================
