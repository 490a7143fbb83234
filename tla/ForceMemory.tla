------------------------------ MODULE ForceMemory ------------------------------
(***************************************************************************)
(* The verdicts of NiakVIO's sandbox and who reads them.                   *)
(*                                                                         *)
(* A batch checks NiakVIO out, plans its providers on a pool of workers    *)
(* and writes the rows; the publisher turns the rows into candidates;      *)
(* NiakVIO executes candidates and appends verdicts to its ledger, where   *)
(* the next checkout finds them.  Three readers decide from the ledger     *)
(* which mutation may not be tried again: the adapter keeps the newest     *)
(* verdict of each mutation in each context, the planner's guard reads     *)
(* what the adapter kept, and the publisher reads the ledger itself.       *)
(*                                                                         *)
(* A mutation stands for the whole list of edits of one candidate, its     *)
(* context for the bytes of the surfaces the candidate touches.            *)
(***************************************************************************)
EXTENDS Integers, Sequences, FiniteSets, FiniteSetsExt, SequencesExt

CONSTANTS
    Selected,      \* the providers of a batch, in order
    Mutations,
    NoMutation,    \* of a row without an executable proposal
    Owner,         \* provider a mutation is for
    Scope,         \* "patch", "bloc", "js" or "data"
    Portfolio,     \* candidates of one provider at most
    WorkerCounts,  \* values of --workers
    MaxVerdicts,   \* bound: rows of the ledger
    MaxDrifts,     \* bound: changes of the bytes around a mutation
    MaxBatches     \* bound: batches

Providers == {Selected[i] : i \in 1..Len(Selected)}

ASSUME BatchAssumption ==
    /\ Selected \in Seq(Providers)
    /\ \A i, j \in 1..Len(Selected) : Selected[i] = Selected[j] => i = j
ASSUME MutationAssumption ==
    /\ NoMutation \notin Mutations
    /\ Owner \in [Mutations -> Providers]
    /\ Scope \in [Mutations -> {"patch", "bloc", "js", "data"}]
ASSUME BoundAssumption ==
    /\ Portfolio \in 1..4 /\ WorkerCounts \subseteq 1..8
    /\ MaxVerdicts \in Nat /\ MaxDrifts \in Nat /\ MaxBatches \in Nat

\* What NiakVIO may write: a rejection after execution, the same before the
\* execution flag existed, a gate that failed although nothing was applied, a
\* profile that did not run (old writers set the flag all the same), success.
Verdicts == {[outcome |-> "rejected",    executed |-> "yes",    failing |-> TRUE],
             [outcome |-> "rejected",    executed |-> "absent", failing |-> TRUE],
             [outcome |-> "rejected",    executed |-> "no",     failing |-> TRUE],
             [outcome |-> "unavailable", executed |-> "yes",    failing |-> TRUE],
             [outcome |-> "accepted",    executed |-> "yes",    failing |-> FALSE]}

VARIABLES
    ledger,    \* brain-llm-force-memory.json at the head of NiakVIO
    version,   \* version of the context of each mutation, at the head
    checkout,  \* ledger and contexts the batch was started on
    options,   \* --workers, --stop-after-first-mutation as they apply
    pc,        \* of the batch: "idle", "planning", "written"
    progress,  \* of each provider: "waiting", "planning", "done"
    rows,      \* the rows in the order they arrived
    planned,   \* what plan_one returned for each provider
    branch,    \* candidates of the guidance branch
    batches    \* batches started

vars == <<ledger, version, checkout, options, pc, progress, rows, planned,
          branch, batches>>

NoCheckout == [ledger |-> <<>>, version |-> [m \in Mutations |-> 0]]

Init ==
    /\ ledger = <<>>
    /\ version = [m \in Mutations |-> 0]
    /\ checkout = NoCheckout
    /\ options = [workers |-> 1, stop |-> FALSE]
    /\ pc = "idle"
    /\ progress = [p \in Providers |-> "waiting"]
    /\ rows = <<>>
    /\ planned = [p \in Providers |-> <<>>]
    /\ branch = {}
    /\ batches = 0

-----------------------------------------------------------------------------
(* The three readers.                                                      *)

Unproven == {"unavailable", "accepted"}

SameKey(r, s) == r.mutation = s.mutation /\ r.context = s.context

\* The adapter: the newest verdict of each key.
Newest(log) ==
    {log[i] : i \in {k \in 1..Len(log) :
        \A j \in (k + 1)..Len(log) : ~SameKey(log[j], log[k])}}

\* Its reading of the execution flag: an old row without one was executed.
ObservedAlways(row) == row.verdict.outcome \notin Unproven             \* mutant
Observed(row) ==
    /\ row.verdict.outcome \notin Unproven
    /\ row.verdict.executed \in {"yes", "absent"}

\* The planner's guard knows the scopes that carry their bytes.
Guarded(m) == Scope[m] \in {"patch", "bloc"}

PlannerBlocksInContext(m, at) ==                                       \* mutant
    /\ Guarded(m)
    /\ \E row \in Newest(at.ledger) :
          row.mutation = m /\ row.verdict.failing /\ Observed(row)
            /\ row.context = at.version[m]
PlannerBlocks(m, at) ==
    /\ Guarded(m)
    /\ \E row \in Newest(at.ledger) :
          /\ row.mutation = m
          /\ row.verdict.failing
          /\ Observed(row)
          /\ Scope[m] = "bloc" \/ row.context = at.version[m]

\* The publisher's reading of a row of the ledger.
Negative(row) ==
    /\ row.verdict.outcome \notin Unproven
    /\ row.verdict.executed # "no"
    /\ row.verdict.failing

PublisherBlocksInContext(m, at) ==                                     \* mutant
    \E i \in 1..Len(at.ledger) :
        /\ at.ledger[i].mutation = m
        /\ Negative(at.ledger[i])
        /\ at.ledger[i].context = at.version[m]
PublisherBlocks(m, at) ==
    \E i \in 1..Len(at.ledger) :
        /\ at.ledger[i].mutation = m
        /\ Negative(at.ledger[i])
        /\ Scope[m] = "bloc" \/ at.ledger[i].context = at.version[m]

-----------------------------------------------------------------------------
(* A batch.                                                                *)

\* Only the loop of a single worker looks at the option to stop early.
Checkout(w, stop) ==
    /\ pc = "idle"
    /\ batches < MaxBatches
    /\ checkout' = [ledger |-> ledger, version |-> version]
    /\ options' = [workers |-> w, stop |-> stop /\ w = 1]
    /\ pc' = "planning"
    /\ batches' = batches + 1
    /\ UNCHANGED <<ledger, version, progress, rows, planned, branch>>

\* The process ends; what it knew is gone.
EndBatch ==
    /\ pc' = "idle"
    /\ checkout' = NoCheckout
    /\ progress' = [p \in Providers |-> "waiting"]
    /\ rows' = <<>>
    /\ planned' = [p \in Providers |-> <<>>]
    /\ options' = [workers |-> 1, stop |-> FALSE]

Executable(row) == row.mutation # NoMutation

HasExecutable(list) == \E i \in 1..Len(list) : Executable(list[i])

\* The batch may end at the first executable row.
Stopped == options.stop /\ HasExecutable(rows)

Planning == {p \in Providers : progress[p] = "planning"}

FreeOffByOne == Cardinality(Planning) <= options.workers               \* mutant
Free == Cardinality(Planning) < options.workers

\* The pool starts providers in their order.
StartProvider(i) ==
    /\ pc = "planning"
    /\ ~Stopped
    /\ progress[Selected[i]] = "waiting"
    /\ \A j \in 1..(i - 1) : progress[Selected[j]] # "waiting"
    /\ Free
    /\ progress' = [progress EXCEPT ![Selected[i]] = "planning"]
    /\ UNCHANGED <<ledger, version, checkout, options, pc, rows, planned,
                   branch, batches>>

\* A portfolio: not blocked for the planner, and reserved one after another,
\* which again only the guard sees.
Portfolios(p) ==
    LET open == {m \in Mutations : Owner[m] = p /\ ~PlannerBlocks(m, checkout)}
    IN  {s \in BoundedSeq(open, Portfolio) :
            \A i, j \in 1..Len(s) : i # j /\ s[i] = s[j] => ~Guarded(s[i])}

RowsOf(p, s) ==
    IF s = <<>> THEN <<[provider |-> p, mutation |-> NoMutation]>>
    ELSE [i \in 1..Len(s) |-> [provider |-> p, mutation |-> s[i]]]

FinishProvider(p, s) ==
    /\ pc = "planning"
    /\ progress[p] = "planning"
    /\ progress' = [progress EXCEPT ![p] = "done"]
    /\ rows' = rows \o RowsOf(p, s)
    /\ planned' = [planned EXCEPT ![p] = RowsOf(p, s)]
    /\ UNCHANGED <<ledger, version, checkout, options, pc, branch, batches>>

\* An exception of plan_one outside its own handlers: no row is written.
Raise(p) ==
    /\ pc = "planning"
    /\ progress[p] = "planning"
    /\ EndBatch
    /\ UNCHANGED <<ledger, version, branch, batches>>

Position(p) == CHOOSE i \in 1..Len(Selected) : Selected[i] = p

\* The rows are sorted by position; the sort is stable, so that the rows of a
\* provider keep their order.  A single worker has them in this order already.  from[i] is where the i-th row stood.
InOrderByArrival(from) == \A i \in 1..Len(rows) : from[i] = i           \* mutant
InOrder(from) ==
    \A i, j \in 1..Len(rows) :
        i < j =>
            LET a == Position(rows[from[i]].provider)
                b == Position(rows[from[j]].provider)
            IN  a < b \/ (a = b /\ from[i] < from[j])

Write ==
    /\ pc = "planning"
    /\ Stopped \/ \A p \in Providers : progress[p] = "done"
    /\ \E from \in Bijection(1..Len(rows), 1..Len(rows)) :
          /\ InOrder(from)
          /\ rows' = [i \in 1..Len(rows) |-> rows[from[i]]]
    /\ pc' = "written"
    /\ UNCHANGED <<ledger, version, checkout, options, progress, planned,
                   branch, batches>>

-----------------------------------------------------------------------------
(* The publisher and NiakVIO.                                              *)

\* sanitize also drops rows that abstain, name another layer or fall short of the
\* minimal confidence: a row with a mutation here is one that does not.
Survives(row) == Executable(row) /\ ~PublisherBlocks(row.mutation, checkout)

\* The output drops repetitions and replaces the rows of the branch
\* (GuidancePublication has the merge of pages).
Sanitized ==
    {[mutation |-> rows[i].mutation,
      context |-> checkout.version[rows[i].mutation]] :
        i \in {k \in 1..Len(rows) : Survives(rows[k])}}

Publish ==
    /\ pc = "written"
    /\ branch' = Sanitized
    /\ EndBatch
    /\ UNCHANGED <<ledger, version, batches>>

\* One candidate that validate_mutations refuses, or whose context cannot be
\* read, raises out of the loop: nothing of the page is published.
SanitizeRaises ==
    /\ pc = "written"
    /\ HasExecutable(rows)
    /\ EndBatch
    /\ UNCHANGED <<ledger, version, branch, batches>>

\* The branch keeps its candidates: NiakVIO may execute one again.
Execute(c, v) ==
    /\ Len(ledger) < MaxVerdicts
    /\ ledger' = Append(ledger, [mutation |-> c.mutation, context |-> c.context,
                                 verdict |-> v])
    /\ UNCHANGED <<version, checkout, options, pc, progress, rows, planned,
                   branch, batches>>

\* A release of NiakVIO, or its Core, changes the bytes around a mutation.
Drift(m) ==
    /\ MapThenSumSet(LAMBDA n : version[n], Mutations) < MaxDrifts
    /\ version' = [version EXCEPT ![m] = @ + 1]
    /\ UNCHANGED <<ledger, checkout, options, pc, progress, rows, planned,
                   branch, batches>>

Next ==
    \/ \E w \in WorkerCounts, stop \in BOOLEAN : Checkout(w, stop)
    \/ \E i \in 1..Len(Selected) : StartProvider(i)
    \/ \E p \in Providers : \E s \in Portfolios(p) : FinishProvider(p, s)
    \/ \E p \in Providers : Raise(p)
    \/ Write
    \/ Publish
    \/ SanitizeRaises
    \/ \E c \in branch, v \in Verdicts : Execute(c, v)
    \/ \E m \in Mutations : Drift(m)

Spec == Init /\ [][Next]_vars

-----------------------------------------------------------------------------
Contexts == Nat

LedgerRows == [mutation : Mutations, context : Contexts, verdict : Verdicts]

PageRows == [provider : Providers, mutation : Mutations \cup {NoMutation}]

\* Every reachable state is well typed; workers never exceed --workers.
TypeOK ==
    /\ ledger \in Seq(LedgerRows)
    /\ version \in [Mutations -> Contexts]
    /\ checkout \in [ledger : Seq(LedgerRows), version : [Mutations -> Contexts]]
    /\ options \in [workers : WorkerCounts \cup {1}, stop : BOOLEAN]
    /\ pc \in {"idle", "planning", "written"}
    /\ progress \in [Providers -> {"waiting", "planning", "done"}]
    /\ rows \in Seq(PageRows)
    /\ planned \in [Providers -> Seq(PageRows)]
    /\ branch \in SUBSET [mutation : Mutations, context : Contexts]
    /\ batches \in 0..MaxBatches
    /\ Cardinality(Planning) <= options.workers

\* The planner reads a digest of the ledger that the adapter made, with rules
\* of its own (newest verdict, execution flag inferred for old rows): whatever
\* it refuses on that digest, the publisher refuses on the ledger.  Were it
\* otherwise, a mutation would be withheld from the model's portfolio without
\* any executed rejection behind it.
PlannerRefusesLess ==
    \A m \in Mutations : PlannerBlocks(m, checkout) => PublisherBlocks(m, checkout)

\* A later verdict on the same mutation in the same context supersedes a
\* rejection for the adapter, not for the publisher.
Superseded(m, at) ==
    \E i, j \in 1..Len(at.ledger) :
        /\ i < j
        /\ at.ledger[i].mutation = m /\ Negative(at.ledger[i])
        /\ SameKey(at.ledger[i], at.ledger[j]) /\ ~Negative(at.ledger[j])

\* A candidate that the planner reserved reaches the branch, whatever else is
\* on the page, unless its scope is outside the guard or its rejection was
\* superseded: the publisher drops nothing else that the portfolio paid for.
PlannedIsPublished ==
    [][pc = "written" /\ pc' = "idle" /\ branch' # branch =>
          \A i \in 1..Len(rows) :
              LET m == rows[i].mutation
              IN  Executable(rows[i]) /\ Guarded(m) /\ ~Superseded(m, checkout)
                    => \E c \in branch' : c.mutation = m]_vars

\* A bloc that was executed and rejected before the batch was checked out is
\* never published again, whatever drifted, and whatever verdict on other bytes
\* came later; any other mutation is not published again on the same bytes.
NoKnownRejectionPublished ==
    [][\A c \in branch' \ branch : \A i \in 1..Len(checkout.ledger) :
          LET row == checkout.ledger[i]
          IN  row.mutation = c.mutation /\ row.verdict.outcome = "rejected"
                /\ row.verdict.executed \in {"yes", "absent"}
                => Scope[c.mutation] # "bloc" /\ row.context # c.context]_vars

\* Whatever order the workers end in, the rows written are those of a
\* sequential batch: by position, each provider's portfolio complete and in its
\* order, and, when the batch stopped early, those of a prefix.
WrittenIsSequential ==
    pc = "written" =>
        \E n \in 0..Len(Selected) :
            /\ rows = FlattenSeq([i \in 1..n |-> planned[Selected[i]]])
            /\ n < Len(Selected) => options.stop
=============================================================================
