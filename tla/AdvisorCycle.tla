------------------------------ MODULE AdvisorCycle ------------------------------
(***************************************************************************)
(* Advice for one provider: bounded experiments, tried in turn.            *)
(*                                                                         *)
(* A batch advises up to MaxHypotheses experiments, the first ones of a    *)
(* fixed rotation that the provider's ledger does not rule out; each is    *)
(* reserved in the batch's copy of the ledger so that the next differs.    *)
(* Three executed failures of a profile hand the provider to the model.    *)
(* The publisher normalises what the batch wrote, drops what the ledger    *)
(* rules out, and NiakVIO executes the rest and writes the ledger.         *)
(***************************************************************************)
EXTENDS Integers, Sequences, SequencesExt, FiniteSets

CONSTANTS
    Strategies,       \* strategies of the checked providers
    Issues,           \* what their failure class and status speak of
    Ledgers,          \* ledgers of the provider to begin with
    ForceRows,        \* rows of the FORCE memory, read after the ledger
    ModelAnswers,     \* hypotheses of the model
    UnknownRoles,     \* what it may write for a role and is none
    Reasons,          \* what the reason of a failed execution points to
    MaxUnavailable,   \* bound: ledger rows without an observed execution
    Window,           \* rows of the history whose reasons are read (12)
    MaxHypotheses     \* --max-hypotheses

ASSUME BoundsAssumption == {Window, MaxHypotheses, MaxUnavailable} \subseteq Nat \ {0}

VARIABLES
    strategy,    \* constant of a behaviour: strategy of the causal prior
    issue,       \* constant of a behaviour
    ledger,      \* brain-repair-memory.json of NiakVIO, rows of this provider
    base,        \* the same at the commit that the batch checked out
    history,     \* advisor_experiment_history: base, FORCE rows, reservations
    planned,     \* hypotheses of the batch
    phase,
    published,   \* experiments that the batch published
    pending,     \* published ones that NiakVIO has not executed yet
    asked        \* the model was called for this provider

vars == <<strategy, issue, ledger, base, history, planned, phase, published, pending, asked>>

-----------------------------------------------------------------------------
(* The rotation.                                                           *)

Roles == {"search", "detail", "episode", "player", "source", "api", "other"}
RoutePolicies == <<"owned_only", "owned_plus_peer", "owned_plus_peer_generic">>
RecipePolicies == <<"current_only", "current_plus_provider", "current_plus_provider_peer">>
Toggles == {"terminal_only", "alias_search", "response_salvage",
            "document_request_mining", "session_bootstrap"}

\* toggles are those that are on; the numbers are depth, pages, embeds, passes.
Experiment(route, recipe, roles, toggles, depth, pages, embeds, passes) ==
    [route |-> route, recipe |-> recipe, roles |-> roles, toggles |-> toggles,
     depth |-> depth, pages |-> pages, embeds |-> embeds, passes |-> passes]

\* DEFAULTS of advisor_experiments.py; the publisher has the same table.
Base ==
    [origin_replay |-> Experiment("owned_plus_peer", "current_plus_provider",
        <<"api", "detail", "search", "player", "source", "episode", "other">>,
        {"session_bootstrap"}, 3, 14, 12, 3),
     traversal |-> Experiment("owned_plus_peer", "current_plus_provider_peer",
        <<"search", "detail", "episode", "player", "source", "api", "other">>,
        {}, 5, 24, 24, 4),
     terminal_extractor |-> Experiment("owned_plus_peer", "current_plus_provider_peer",
        <<"player", "source", "api", "episode", "detail", "other">>,
        {"terminal_only", "response_salvage"}, 5, 20, 28, 4),
     candidate_replay |-> Experiment("owned_only", "current_plus_provider",
        <<"player", "api", "source", "detail", "episode", "other">>, {}, 4, 18, 24, 4),
     request_program |-> Experiment("owned_only", "current_plus_provider",
        <<"api", "source", "player", "episode", "detail", "other">>,
        {"terminal_only", "response_salvage"}, 5, 18, 28, 5),
     discover_api |-> Experiment("owned_plus_peer_generic", "current_plus_provider_peer",
        <<"search", "api", "detail", "player", "source", "episode", "other">>,
        {"document_request_mining"}, 4, 28, 20, 4)]

AtMost(bound, n) == IF n < bound THEN n ELSE bound

\* What the words of class, status and reasons point to.
Tokens == {"transport", "search", "terminal"}

Targeted(b, tokens) ==
    LET browser == Experiment("owned_plus_peer_generic", "current_plus_provider_peer", b.roles,
                       b.toggles \cup {"session_bootstrap", "response_salvage"},
                       AtMost(6, b.depth + 1), AtMost(36, b.pages + 6), b.embeds, b.passes)
        lookup  == Experiment("owned_plus_peer_generic", "current_plus_provider_peer", b.roles,
                       b.toggles \cup {"alias_search", "document_request_mining"},
                       b.depth, AtMost(36, b.pages + 8), b.embeds, b.passes)
        media   == Experiment(b.route, "current_plus_provider_peer",
                       <<"player", "source", "api", "episode", "detail", "search", "other">>,
                       b.toggles \cup {"terminal_only", "response_salvage",
                                       "document_request_mining"},
                       b.depth, b.pages, AtMost(36, b.embeds + 6), AtMost(6, b.passes + 1))
        only(token, e) == IF token \in tokens THEN <<e>> ELSE <<>>
    IN  only("transport", browser) \o only("search", lookup) \o only("terminal", media)

Bit(n, weight) == (n \div weight) % 2 = 1

Rotated(s, k) == SubSeq(s, k + 1, Len(s)) \o SubSeq(s, 1, k)

DeepVariant(b, n) ==                                                   \* mutant
    [b EXCEPT !.depth = 2 + (n % 6), !.roles = Rotated(@, n % Len(@))]
Variant(b, n) ==
    Experiment(RoutePolicies[1 + (n % 3)], RecipePolicies[1 + ((n \div 2) % 3)],
        Rotated(b.roles, n % Len(b.roles)),
        {t \in Toggles :
            \/ t = "alias_search" /\ Bit(n, 1)
            \/ t = "response_salvage" /\ Bit(n, 2)
            \/ t = "document_request_mining" /\ Bit(n, 4)
            \/ t = "session_bootstrap" /\ Bit(n, 8)
            \/ t = "terminal_only" /\ (t \in b.toggles \/ Bit(n, 16))},
        2 + (n % 5), AtMost(36, 12 + ((n * 5) % 25)), AtMost(36, 12 + ((n * 7) % 25)), 1 + (n % 6))

Generic == [s \in DOMAIN Base |-> [n \in 1..24 |-> Variant(Base[s], n)]]

Candidates ==
    [s \in DOMAIN Base |-> [tokens \in SUBSET Tokens |->
        <<Base[s]>> \o Targeted(Base[s], tokens) \o Generic[s]]]

-----------------------------------------------------------------------------
(* The ledger.  A fingerprint is the experiment itself: the hash is of its *)
(* canonical form.                                                         *)

\* A row of the FORCE memory names none, and a model may answer with none.
NoExperiment == Experiment("owned_only", "current_only", <<>>, {}, 0, 0, 0, 0)

\* mine: the row is of the strategy's profile; executed is executionObserved,
\* which a legacy row lacks.
Row(experiment, mine, executed, failures, outcome, tokens) ==
    [experiment |-> experiment, mine |-> mine, executed |-> executed,
     failures |-> failures, outcome |-> outcome, tokens |-> tokens]

\* What a checkout and a model can hand in.  A FORCE row names no experiment.
ExperimentType ==
    [route : ToSet(RoutePolicies), recipe : ToSet(RecipePolicies), roles : Seq(Roles \cup UnknownRoles),
     toggles : SUBSET Toggles, depth : Nat, pages : Nat, embeds : Nat, passes : Nat]

RowType ==
    [experiment : ExperimentType, mine : BOOLEAN, executed : {"yes", "no", "absent"},
     failures : 0..1, outcome : {"rejected", "reserved", "unavailable", "success"},
     tokens : SUBSET Tokens]

HypothesisType == [experiment : ExperimentType, by : {"model"}, usable : BOOLEAN]

ASSUME InputsAssumption ==
    /\ Strategies \subseteq DOMAIN Base
    /\ Issues \subseteq SUBSET Tokens
    /\ Reasons \subseteq Tokens
    /\ Ledgers \in [Strategies -> SUBSET Seq(RowType)]
    /\ ForceRows \in Seq({row \in RowType : row.experiment = NoExperiment})
    /\ ModelAnswers \subseteq HypothesisType

BlocksLegacy(row) ==                                                   \* mutant
    row.executed = "absent" /\ row.outcome # "unavailable" /\ row.failures > 0
Blocks(row) ==
    /\ row.executed # "no"
    /\ row.outcome = "unavailable" => row.executed = "yes"
    /\ row.failures > 0
    /\ row.outcome # "success"

Blocked(e, rows) ==
    e # NoExperiment /\ \E i \in DOMAIN rows : rows[i].experiment = e /\ Blocks(rows[i])

Suffix(s, n) == SubSeq(s, IF Len(s) > n THEN Len(s) - n + 1 ELSE 1, Len(s))

\* The last rows of the history add their reasons.
IssueTokens(rows) == issue \cup UNION {row.tokens : row \in ToSet(Suffix(rows, Window))}

Untried(rows) ==
    LET all == Candidates[strategy][IssueTokens(rows)]
    IN  {i \in DOMAIN all : ~Blocked(all[i], rows)}

ExecutedFailures(rows) ==
    {row.experiment : row \in {r \in ToSet(rows) :
        r.mine /\ r.executed = "yes" /\ r.failures > 0 /\ r.outcome # "success"}}

\* _exhausted_executed_advisor_family: the provider goes to the model.
Exhausted(rows) == Cardinality(ExecutedFailures(rows) \ {NoExperiment}) >= 3

\* A reservation names no profile and claims no execution.
ReservedAsFailure(e) == Row(e, TRUE, "yes", 1, "reserved", {})         \* mutant
Reserved(e) == Row(e, FALSE, "absent", 1, "reserved", {})

-----------------------------------------------------------------------------
(* The publisher's normal form.                                            *)

Floored(lo, hi, n) == IF n < lo THEN lo ELSE n                         \* mutant
Clamp(lo, hi, n) == IF n < lo THEN lo ELSE IF n > hi THEN hi ELSE n

\* Each role at the place of its first occurrence.
WithoutRepeats(roles) ==
    LET first == {i \in DOMAIN roles : \A j \in 1..(i - 1) : roles[j] # roles[i]}
        nth(k) == CHOOSE i \in first : Cardinality(first \cap 1..i) = k
    IN  [k \in 1..Cardinality(first) |-> roles[nth(k)]]

Valid(e) == ToSet(e.roles) \subseteq Roles

\* An empty answer stands for the defaults of its strategy.
Sanitize(e) ==
    IF e = NoExperiment THEN Base[strategy]
    ELSE Experiment(e.route, e.recipe, WithoutRepeats(e.roles), e.toggles, Clamp(2, 6, e.depth),
                    Clamp(6, 36, e.pages), Clamp(6, 36, e.embeds), Clamp(1, 6, e.passes))

-----------------------------------------------------------------------------
Init ==
    /\ strategy \in Strategies
    /\ issue \in Issues
    /\ ledger \in Ledgers[strategy]
    /\ base = <<>>
    /\ history = <<>>
    /\ planned = <<>>
    /\ phase = "idle"
    /\ published = {}
    /\ pending = {}
    /\ asked = FALSE

\* request_from_checkout: the whole ledger of the provider, then the FORCE rows.
\* Bound: no batch and no execution after the batch that asked the model, to
\* which every later batch would turn as well.
Checkout ==
    /\ phase \in {"idle", "failed"}
    /\ ~asked
    /\ base' = ledger
    /\ history' = ledger \o ForceRows
    /\ planned' = <<>>
    /\ published' = {}
    /\ phase' = "planning"
    /\ UNCHANGED <<strategy, issue, ledger, pending, asked>>

\* The loop over the hypotheses ends with the first that cannot be reserved.
Reserve(e) ==
    IF e = NoExperiment \/ Blocked(e, history)
    THEN /\ history' = history
         /\ phase' = "publishing"
    ELSE /\ history' = Append(history, Reserved(e))
         /\ phase' = IF Len(planned') = MaxHypotheses THEN "publishing" ELSE "planning"

Hypothesis(e, by, usable) == [experiment |-> e, by |-> by, usable |-> usable]

\* deterministic_advisor: routing and orchestrator pick the same experiment.
Rotate ==
    /\ phase = "planning"
    /\ ~Exhausted(history)
    /\ LET untried == Untried(history)
       IN  \E i \in untried :
              /\ \A j \in untried : i <= j
              /\ LET e == Candidates[strategy][IssueTokens(history)][i]
                 IN  /\ planned' = Append(planned, Hypothesis(e, "rotation", TRUE))
                     /\ Reserve(e)
    /\ UNCHANGED <<strategy, issue, ledger, base, published, pending, asked>>

HandedOver == Exhausted(history) \/ Untried(history) = {}

\* Usable: no abstention, and confident enough for the publisher.
AskModel(answer) ==
    /\ asked' = TRUE
    /\ planned' = Append(planned, answer)
    /\ Reserve(answer.experiment)
    /\ UNCHANGED <<strategy, issue, ledger, base, published, pending>>

\* A truncated answer is asked for once more; any other error ends the provider.
ModelFails(truncated) ==
    /\ asked' = TRUE
    /\ phase' = IF truncated THEN "retrying" ELSE "publishing"
    /\ UNCHANGED <<strategy, issue, ledger, base, history, planned, published, pending>>

CallModel ==
    /\ phase = "planning"
    /\ HandedOver
    /\ \/ \E answer \in ModelAnswers : AskModel(answer)
       \/ \E truncated \in BOOLEAN : ModelFails(truncated)

\* The retry's answer is neither reserved nor followed by another hypothesis.
Retry(answer) ==
    /\ phase = "retrying"
    /\ planned' = Append(planned, answer)
    /\ phase' = "publishing"
    /\ UNCHANGED <<strategy, issue, ledger, base, history, published, pending, asked>>

RetryFails ==
    /\ phase = "retrying"
    /\ phase' = "publishing"
    /\ UNCHANGED <<strategy, issue, ledger, base, history, planned, published, pending, asked>>

Usable == {h.experiment : h \in {g \in ToSet(planned) : g.usable}}

\* One invalid experiment on the page, of this provider or of another, raises
\* out of sanitize, and nothing of the page is published.
Publish(othersValid) ==
    /\ phase = "publishing"
    /\ IF othersValid /\ \A e \in Usable : Valid(e)
       THEN /\ phase' = "idle"
            /\ published' = {e \in {Sanitize(f) : f \in Usable} : ~Blocked(e, base)}
            /\ pending' = published'
       ELSE /\ phase' = "failed"
            /\ UNCHANGED <<published, pending>>
    /\ history' = <<>>
    /\ UNCHANGED <<strategy, issue, ledger, base, planned, asked>>

-----------------------------------------------------------------------------
(* NiakVIO, which executes the guidance while batches go on.               *)

RowOf(e) == {i \in DOMAIN ledger : ledger[i].experiment = e}

Write(e, row) ==
    /\ phase # "repaired"
    /\ ~asked
    /\ e \in pending
    /\ pending' = pending \ {e}
    /\ ledger' = IF RowOf(e) = {} THEN Append(ledger, row)
                 ELSE [i \in DOMAIN ledger |->
                         IF ledger[i].experiment = e THEN row ELSE ledger[i]]
    /\ UNCHANGED <<strategy, issue, base, history, planned, published, asked>>

Fail(e, token) ==
    /\ Write(e, Row(e, TRUE, "yes", 1, "rejected", {token}))
    /\ UNCHANGED phase

\* The profile was unavailable: an execution observed before stays observed.
NotExecuted(e) ==
    LET before == \E i \in RowOf(e) : ledger[i].executed = "yes"
    IN  /\ Cardinality({i \in DOMAIN ledger : ledger[i].executed = "no"}) < MaxUnavailable
        /\ Write(e, Row(e, TRUE, IF before THEN "yes" ELSE "no", 1, "unavailable", {"terminal"}))
        /\ UNCHANGED phase

Accept(e) ==
    /\ Write(e, Row(e, TRUE, "yes", 0, "success", {}))
    /\ phase' = "repaired"

-----------------------------------------------------------------------------
Next ==
    \/ Checkout
    \/ Rotate
    \/ CallModel
    \/ \E answer \in ModelAnswers : Retry(answer)
    \/ RetryFails
    \/ \E othersValid \in BOOLEAN : Publish(othersValid)
    \/ \E e \in pending, token \in Reasons : Fail(e, token)
    \/ \E e \in pending : NotExecuted(e)
    \/ \E e \in pending : Accept(e)

\* Batches are scheduled again and again and a page is not lost for ever; of an
\* experiment that is published again and again, some execution is observed.
Fairness ==
    /\ WF_vars(Checkout)
    /\ WF_vars(Rotate)
    /\ WF_vars(CallModel)
    /\ SF_vars(Publish(TRUE))
    /\ SF_vars(\E e \in pending : Accept(e) \/ \E token \in Reasons : Fail(e, token))

Spec == Init /\ [][Next]_vars /\ Fairness

-----------------------------------------------------------------------------
(* Properties.                                                             *)

Rotations == {i \in DOMAIN planned : planned[i].by = "rotation"}

\* Ledgers, histories and hypotheses are well formed, and a published
\* experiment is in the executor's bounds.
TypeOK ==
    /\ ToSet(ledger) \cup ToSet(base) \cup ToSet(history) \subseteq RowType
    /\ \A h \in ToSet(planned) : h.experiment \in ExperimentType
    /\ Len(planned) \in 0..MaxHypotheses
    /\ phase \in {"idle", "planning", "retrying", "publishing", "failed", "repaired"}
    /\ \A e \in published \cup pending :
          /\ Valid(e)
          /\ e.depth \in 2..6 /\ e.pages \in 6..36 /\ e.embeds \in 6..36 /\ e.passes \in 1..6

\* Rotation and publisher normalise, hash and exclude separately, and a batch
\* excludes by its reservations: every hypothesis of the rotation is published,
\* as a row of its own, unless the page is lost.
EverySlotCounts ==
    phase = "idle" =>
        \A i \in Rotations :
            /\ Sanitize(planned[i].experiment) \in published
            /\ \A j \in Rotations \ {i} :
                  Sanitize(planned[i].experiment) # Sanitize(planned[j].experiment)

\* "Legacy unexecuted rows, duplicates, successes and other profiles never
\* count", and no reservation does: a batch goes over to the model only when
\* the ledger it checked out had already exhausted the provider.
HandoverIsEarned ==
    (\E i \in DOMAIN planned : planned[i].by = "model") =>
        \/ Exhausted(base)
        \/ \A e \in ToSet(Generic[strategy]) \cup {Base[strategy]} :
              Blocked(e, base) \/ \E i \in Rotations : planned[i].experiment = e

\* A rotation that keeps failing, however its executions interleave with the
\* next batches, ends at the model; it repeats no experiment for ever.
FailuresReachModel == <>(asked \/ phase = "repaired")
=============================================================================
