---------------------------- MODULE BudgetLedger ----------------------------
(***************************************************************************)
(* The shared, locked cost ledger of the hosted backend                    *)
(* (src/niakvio_brain_llm/api_cost.py) and the part of                     *)
(* HostedResponsesBackend.complete (backend.py) that uses it: reserve      *)
(* before the request leaves, settle only verifiable usage afterwards.     *)
(*                                                                         *)
(* Every worker is a process with its own file handle; flock is the only   *)
(* thing between them.  A transaction is two steps, the read under the     *)
(* lock and the write that releases it, so that what the lock protects is  *)
(* visible.  A worker may be killed between any two steps, and inside the  *)
(* write: then the file holds the old text, the new text, or new text      *)
(* followed by the tail of a longer old text (the write precedes the       *)
(* truncate), which no later json.loads accepts.                           *)
(***************************************************************************)
EXTENDS Integers, FiniteSets, FiniteSetsExt

CONSTANTS
    Workers,          \* processes that share one ledger file
    Maximum,          \* Maximum[w]: the maximum_usd worker w was started with
    Ceiling,          \* a bound on every Maximum[w]
    InRate, OutRate,  \* RATES of the model, per token
    Overhead,         \* the 1024 protocol tokens added to the body length
    Requests,         \* request bodies: [bytes, limit] (max_output_tokens)
    Usages,           \* usage the provider may bill: [input, output] tokens
    MaxCalls,         \* bound: calls of complete per worker
    NoWorker          \* the lock's value when no worker holds it

ASSUME RateAssumption == InRate \in Nat /\ OutRate \in Nat /\ Overhead \in Nat
ASSUME CallAssumption ==
    /\ Requests \subseteq [bytes : Nat, limit : Nat]
    /\ Usages \subseteq [input : Nat, output : Nat]
    /\ MaxCalls \in Nat
ASSUME MaximumAssumption ==
    /\ Ceiling \in Nat
    /\ Maximum \in [Workers -> Nat]
    /\ \A w \in Workers : Maximum[w] <= Ceiling
ASSUME NoWorkerAssumption == NoWorker \notin Workers

VARIABLES
    ledger,       \* the JSON object in the file
    torn,         \* TRUE when the file no longer parses
    lock,         \* the worker that holds flock, or NoWorker
    pc,           \* where each worker is in complete
    snapshot,     \* snapshot[w]: the object w read under its lock
    reservation,  \* reservation[w]: the amount reserve returned to w
    charge,       \* charge[w]: the cost of the usage billed for w's request
    calls,        \* calls[w]: calls of complete w has started
    billed,       \* history: what the provider has really billed, each
                  \* request counted up to its reservation
    overrun       \* history: how far settled usage exceeded its reservations

ledgerVars == <<ledger, torn, lock, snapshot>>
historyVars == <<billed, overrun>>
vars == <<ledger, torn, lock, pc, snapshot, reservation, charge, calls,
          billed, overrun>>

Ledger == [spent : Nat, pending : Nat, reserved : Nat, accounted : Nat]

\* An empty or missing file reads as this object.
Fresh == [spent |-> 0, pending |-> 0, reserved |-> 0, accounted |-> 0]

Cost(input, output) == InRate * input + OutRate * output

ReservationFor(request) == Cost(request.bytes + Overhead, request.limit)

Init ==
    /\ ledger = Fresh
    /\ torn = FALSE
    /\ lock = NoWorker
    /\ pc = [w \in Workers |-> "idle"]
    /\ snapshot = [w \in Workers |-> Fresh]
    /\ reservation = [w \in Workers |-> 0]
    /\ charge = [w \in Workers |-> 0]
    /\ calls = [w \in Workers |-> 0]
    /\ billed = 0
    /\ overrun = 0

-----------------------------------------------------------------------------
(* The locked transaction.                                                 *)

LockFreeIgnoringOthers == TRUE                                   \* mutant
LockFree == lock = NoWorker

\* Enter _locked: take the lock, read and validate the file.
Enter(w, step) ==
    /\ LockFree
    /\ ~torn
    /\ lock' = w
    /\ snapshot' = [snapshot EXCEPT ![w] = ledger]
    /\ pc' = [pc EXCEPT ![w] = step]
    /\ UNCHANGED <<ledger, torn>>

\* Leave _locked normally: write the changed object and unlock.
Commit(w, new) ==
    /\ ledger' = new
    /\ lock' = NoWorker
    /\ UNCHANGED <<torn, snapshot>>

\* Leave _locked by an exception: nothing is written.
Rollback(w) ==
    /\ lock' = NoWorker
    /\ UNCHANGED <<ledger, torn, snapshot>>

\* What a worker forgets when its call of complete ends.
EndCall(w) ==
    /\ pc' = [pc EXCEPT ![w] = "idle"]
    /\ reservation' = [reservation EXCEPT ![w] = 0]
    /\ charge' = [charge EXCEPT ![w] = 0]

-----------------------------------------------------------------------------
(* reserve                                                                 *)

BeginReserve(w) ==
    /\ pc[w] = "idle"
    /\ calls[w] < MaxCalls
    /\ calls' = [calls EXCEPT ![w] = @ + 1]
    /\ \E request \in Requests :
          reservation' = [reservation EXCEPT ![w] = ReservationFor(request)]
    /\ Enter(w, "reserve")
    /\ UNCHANGED <<charge, historyVars>>

ExhaustedBySpent(w) == snapshot[w].spent + reservation[w] > Maximum[w]  \* mutant
ExhaustedWithoutThis(w) ==                                              \* mutant
    snapshot[w].spent + snapshot[w].pending > Maximum[w]
Exhausted(w) ==
    snapshot[w].spent + snapshot[w].pending + reservation[w] > Maximum[w]

ReservedUncounted(w) ==                                                 \* mutant
    [snapshot[w] EXCEPT !.pending = @ + reservation[w]]
Reserved(w) ==
    [spent |-> snapshot[w].spent,
     pending |-> snapshot[w].pending + reservation[w],
     reserved |-> snapshot[w].reserved + 1,
     accounted |-> snapshot[w].accounted]

Reserve(w) ==
    /\ pc[w] = "reserve"
    /\ ~Exhausted(w)
    /\ Commit(w, Reserved(w))
    /\ pc' = [pc EXCEPT ![w] = "reserved"]
    /\ UNCHANGED <<reservation, charge, calls, historyVars>>

RefuseReserve(w) ==
    /\ pc[w] = "reserve"
    /\ Exhausted(w)
    /\ Rollback(w)
    /\ EndCall(w)
    /\ UNCHANGED <<calls, historyVars>>

\* A call that finds the file unreadable raises before any traffic.
ReserveUnreadable(w) ==
    /\ pc[w] = "idle"
    /\ calls[w] < MaxCalls
    /\ LockFree
    /\ torn
    /\ calls' = [calls EXCEPT ![w] = @ + 1]
    /\ UNCHANGED <<ledgerVars, pc, reservation, charge, historyVars>>

-----------------------------------------------------------------------------
(* The request.                                                            *)

\* The request leaves; what the provider will bill for it (nothing, for a
\* request it rejects) is fixed here, the earliest moment it can be billed.
Send(w) ==
    /\ pc[w] = "reserved"
    /\ pc' = [pc EXCEPT ![w] = "sent"]
    /\ \E amount \in {0} \cup {Cost(u.input, u.output) : u \in Usages} :
          /\ charge' = [charge EXCEPT ![w] = amount]
          /\ billed' = billed + IF amount > reservation[w]
                                THEN reservation[w] ELSE amount
    /\ UNCHANGED <<ledgerVars, reservation, calls, overrun>>

\* HTTP error, timeout or lost connection: the exception leaves complete and
\* the reservation stays pending, whether or not the request was billed.
RequestFails(w) ==
    /\ pc[w] = "sent"
    /\ EndCall(w)
    /\ UNCHANGED <<ledgerVars, calls, historyVars>>

\* The answer arrives with a usage record settle accepts.
Answer(w) ==
    /\ pc[w] = "sent"
    /\ pc' = [pc EXCEPT ![w] = "answered"]
    /\ UNCHANGED <<ledgerVars, reservation, charge, calls, historyVars>>

\* The answer arrives with no usage record, or one settle rejects.
AnswerUnverifiable(w) ==
    /\ pc[w] = "sent"
    /\ EndCall(w)
    /\ UNCHANGED <<ledgerVars, calls, historyVars>>

-----------------------------------------------------------------------------
(* settle                                                                  *)

BeginSettle(w) ==
    /\ pc[w] = "answered"
    /\ Enter(w, "settle")
    /\ UNCHANGED <<reservation, charge, calls, historyVars>>

\* By how much the charge being settled exceeds what was reserved for it.
Excess(w) == IF charge[w] > reservation[w] THEN charge[w] - reservation[w] ELSE 0

Mismatch(w) == snapshot[w].pending < reservation[w]

SettledByCharge(w) ==                                                  \* mutant
    [snapshot[w] EXCEPT !.pending = @ - charge[w],
                        !.spent = @ + charge[w],
                        !.accounted = @ + 1]
SettledRefund(w) ==                                                    \* mutant
    [snapshot[w] EXCEPT !.pending = @ - reservation[w],
                        !.accounted = @ + 1]
Settled(w) ==
    [spent |-> snapshot[w].spent + charge[w],
     pending |-> snapshot[w].pending - reservation[w],
     reserved |-> snapshot[w].reserved,
     accounted |-> snapshot[w].accounted + 1]

\* The last step of settle: write, or raise on a mismatch.
Settle(w) ==
    /\ pc[w] = "settle"
    /\ IF Mismatch(w)
       THEN Rollback(w) /\ UNCHANGED overrun
       ELSE Commit(w, Settled(w)) /\ overrun' = overrun + Excess(w)
    /\ EndCall(w)
    /\ UNCHANGED <<calls, billed>>

SettleUnreadable(w) ==
    /\ pc[w] = "answered"
    /\ LockFree
    /\ torn
    /\ EndCall(w)
    /\ UNCHANGED <<ledgerVars, calls, historyVars>>

-----------------------------------------------------------------------------
(* The worker is killed; the kernel drops its lock and the next worker     *)
(* started in its place knows nothing of the reservation.                  *)

Writing(w) ==
    \/ pc[w] = "reserve" /\ ~Exhausted(w)
    \/ pc[w] = "settle" /\ ~Mismatch(w)

Crash(w) ==
    /\ pc[w] # "idle"
    /\ EndCall(w)
    /\ lock' = IF lock = w THEN NoWorker ELSE lock
    /\ \/ UNCHANGED <<ledger, torn, overrun>>
       \/ /\ Writing(w)
          /\ torn' = TRUE
          /\ UNCHANGED <<ledger, overrun>>
       \/ /\ Writing(w)
          /\ pc[w] = "reserve"
          /\ ledger' = Reserved(w)
          /\ UNCHANGED <<torn, overrun>>
       \/ /\ Writing(w)
          /\ pc[w] = "settle"
          /\ ledger' = Settled(w)
          /\ overrun' = overrun + Excess(w)
          /\ UNCHANGED torn
    /\ UNCHANGED <<snapshot, calls, billed>>

-----------------------------------------------------------------------------

Next ==
    \E w \in Workers :
        \/ BeginReserve(w) \/ Reserve(w) \/ RefuseReserve(w)
        \/ ReserveUnreadable(w)
        \/ Send(w) \/ RequestFails(w) \/ Answer(w) \/ AnswerUnverifiable(w)
        \/ BeginSettle(w) \/ Settle(w) \/ SettleUnreadable(w)
        \/ Crash(w)

Spec == Init /\ [][Next]_vars

-----------------------------------------------------------------------------
(* Properties.                                                             *)

PCs == {"idle", "reserve", "reserved", "sent", "answered", "settle"}

\* Every variable keeps its kind: the four ledger fields stay natural numbers
\* (what _locked validates on every read), and a call holds amounts only.
TypeOK ==
    /\ ledger \in Ledger
    /\ torn \in BOOLEAN
    /\ lock \in Workers \cup {NoWorker}
    /\ pc \in [Workers -> PCs]
    /\ snapshot \in [Workers -> Ledger]
    /\ reservation \in [Workers -> Nat]
    /\ charge \in [Workers -> Nat]
    /\ calls \in [Workers -> Nat]
    /\ billed \in Nat
    /\ overrun \in Nat

\* The ceiling of reserve: money spent and money promised never exceed the
\* largest maximum_usd, except by usage settled beyond its own reservation.
WithinCeiling == ledger.spent + ledger.pending <= Ceiling + overrun

\* Fail closed: at every moment, crashes, timeouts and unverifiable answers
\* included, the ledger accounts for all the provider has really billed
\* within the reservations it was asked under.
BilledIsCovered == billed <= ledger.spent + ledger.pending

Holding == {w \in Workers : pc[w] \in {"reserved", "sent", "answered", "settle"}}

\* The pending amount covers the reservations of all calls under way together,
\* so no settle ever raises "pending reservation mismatch".
PendingCoversCalls ==
    MapThenSumSet(LAMBDA w : reservation[w], Holding) <= ledger.pending

\* requests_reserved and requests_accounted differ at least by the calls that
\* hold a reservation: no call is counted as accounted before it settles.
CountersAgree == Cardinality(Holding) <= ledger.reserved - ledger.accounted

\* The locked file is one atomic pair of amounts to everyone who uses it.
Budget == INSTANCE AtomicBudget
            WITH spent <- ledger.spent, pending <- ledger.pending
AtomicSpec == Budget!Spec
=============================================================================
