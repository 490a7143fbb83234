---------------------------- MODULE AtomicBudget ----------------------------
(***************************************************************************)
(* What the shared budget ledger promises its callers: two amounts that    *)
(* change in one step each.  A reservation is admitted only under the      *)
(* ceiling; a settlement moves one reserved amount into the spent total;   *)
(* nothing else ever changes them, whatever the workers, the file lock and *)
(* the provider do.                                                        *)
(***************************************************************************)
EXTENDS Naturals

CONSTANTS Ceiling       \* the largest maximum_usd of any worker

VARIABLES spent, pending

vars == <<spent, pending>>

Init == spent = 0 /\ pending = 0

\* Some amount is set aside, and the whole still fits the ceiling.
Reserve ==
    /\ pending' \in Nat
    /\ pending' >= pending
    /\ spent + pending' <= Ceiling
    /\ UNCHANGED spent

\* Some reserved amount is released against some charge.
Settle ==
    /\ pending' \in 0..pending
    /\ spent' \in Nat
    /\ spent' >= spent

Next == Reserve \/ Settle

Spec == Init /\ [][Next]_vars
=============================================================================
