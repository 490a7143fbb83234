------------------------- MODULE AdvisorCycleProofs -------------------------
(***************************************************************************)
(* Proofs about AdvisorCycle.                                              *)
(*                                                                         *)
(* Three pieces of code exclude experiments: the rotation by the history   *)
(* of the batch, the hand-over by its executed failures, the publisher by  *)
(* the ledger that was checked out, after bringing each experiment into a  *)
(* normal form.  That they agree rests on two facts.  Everything the        *)
(* rotation advises is Normal, so that the publisher leaves it as it is;    *)
(* and while a batch plans, BatchInv holds: its history blocks what base   *)
(* blocks and what the batch has planned, and nothing else.                *)
(***************************************************************************)
EXTENDS AdvisorCycle, FiniteSetTheorems, SequenceTheorems, WellFoundedInduction, TLAPS

\* Induction, for a set of natural numbers closed under successors.
LEMMA SetInduction ==
    ASSUME NEW P \in SUBSET Nat, 0 \in P, \A n \in P : n + 1 \in P
    PROVE  P = Nat
<1> SUFFICES ASSUME Nat \ P # {} PROVE FALSE
  OBVIOUS
<1> DEFINE R == OpToRel(<, Nat)
<1>1. PICK n \in Nat \ P : \A y \in Nat \ P : ~(<<y, n>> \in R)
  BY WFMin, NatLessThanWellFounded
<1>2. \A y \in Nat \ P : ~(y < n)
  BY <1>1 DEF OpToRel
<1> HIDE DEF R
<1>3. n \in Nat /\ n \notin P /\ n # 0
  BY <1>1
<1>4. n - 1 \in Nat /\ n - 1 < n /\ (n - 1) + 1 = n
  BY <1>3
<1> QED
  BY <1>2, <1>3, <1>4

Once(roles) == \A i, j \in DOMAIN roles : roles[i] = roles[j] => i = j

RolesNormal(roles) ==
    /\ roles \in Seq(Roles \cup UnknownRoles)
    /\ Len(roles) > 0
    /\ Once(roles)
    /\ ToSet(roles) \subseteq Roles

Bounded(e) ==
    e.depth \in 2..6 /\ e.pages \in 6..36 /\ e.embeds \in 6..36 /\ e.passes \in 1..6

Normal(e) == e \in ExperimentType /\ RolesNormal(e.roles) /\ Bounded(e)

-----------------------------------------------------------------------------
(* A tuple of six or seven different roles is a normal order of roles.      *)
LEMMA SixRoles ==
    ASSUME NEW a \in Roles, NEW b \in Roles \ {a}, NEW c \in Roles \ {a, b},
           NEW d \in Roles \ {a, b, c}, NEW e \in Roles \ {a, b, c, d},
           NEW f \in Roles \ {a, b, c, d, e}
    PROVE  RolesNormal(<<a, b, c, d, e, f>>)
<1> DEFINE r == <<a, b, c, d, e, f>>
<1>1. DOMAIN r = {1, 2, 3, 4, 5, 6} /\ Len(r) = 6
  OBVIOUS
<1>2. r[1] = a /\ r[2] = b /\ r[3] = c /\ r[4] = d /\ r[5] = e /\ r[6] = f
  OBVIOUS
<1>3. r \in Seq(Roles \cup UnknownRoles)
  OBVIOUS
<1> HIDE DEF r
<1>4. Once(r)
  BY <1>1, <1>2 DEF Once
<1>5. ToSet(r) \subseteq Roles
  BY <1>1, <1>2 DEF ToSet
<1>6. RolesNormal(r)
  BY <1>1, <1>3, <1>4, <1>5 DEF RolesNormal
<1> QED BY <1>6 DEF r

LEMMA SevenRoles ==
    ASSUME NEW a \in Roles, NEW b \in Roles \ {a}, NEW c \in Roles \ {a, b},
           NEW d \in Roles \ {a, b, c}, NEW e \in Roles \ {a, b, c, d},
           NEW f \in Roles \ {a, b, c, d, e}, NEW g \in Roles \ {a, b, c, d, e, f}
    PROVE  RolesNormal(<<a, b, c, d, e, f, g>>)
<1> DEFINE r == <<a, b, c, d, e, f, g>>
<1>1. DOMAIN r = {1, 2, 3, 4, 5, 6, 7} /\ Len(r) = 7
  OBVIOUS
<1>2. /\ r[1] = a /\ r[2] = b /\ r[3] = c /\ r[4] = d /\ r[5] = e /\ r[6] = f
      /\ r[7] = g
  OBVIOUS
<1>3. r \in Seq(Roles \cup UnknownRoles)
  OBVIOUS
<1> HIDE DEF r
<1>4. Once(r)
  BY <1>1, <1>2 DEF Once
<1>5. ToSet(r) \subseteq Roles
  BY <1>1, <1>2 DEF ToSet
<1>6. RolesNormal(r)
  BY <1>1, <1>3, <1>4, <1>5 DEF RolesNormal
<1> QED BY <1>6 DEF r

LEMMA BaseRolesNormal ==
    /\ RolesNormal(<<"api", "detail", "search", "player", "source", "episode", "other">>)
    /\ RolesNormal(<<"search", "detail", "episode", "player", "source", "api", "other">>)
    /\ RolesNormal(<<"search", "api", "detail", "player", "source", "episode", "other">>)
    /\ RolesNormal(<<"player", "source", "api", "episode", "detail", "search", "other">>)
    /\ RolesNormal(<<"player", "source", "api", "episode", "detail", "other">>)
    /\ RolesNormal(<<"player", "api", "source", "detail", "episode", "other">>)
    /\ RolesNormal(<<"api", "source", "player", "episode", "detail", "other">>)
BY SixRoles, SevenRoles DEF Roles

(* An experiment with bounded numbers and normal roles is normal.           *)
LEMMA ExperimentNormal ==
    ASSUME NEW route \in ToSet(RoutePolicies), NEW recipe \in ToSet(RecipePolicies),
           NEW roles, RolesNormal(roles), NEW toggles \in SUBSET Toggles,
           NEW depth \in 2..6, NEW pages \in 6..36, NEW embeds \in 6..36, NEW passes \in 1..6
    PROVE  Normal(Experiment(route, recipe, roles, toggles, depth, pages, embeds, passes))
<1>1. roles \in Seq(Roles \cup UnknownRoles) /\ depth \in Nat /\ pages \in Nat /\ embeds \in Nat /\ passes \in Nat
  BY DEF RolesNormal
<1> QED BY <1>1 DEF Normal, Bounded, Experiment, ExperimentType

LEMMA PoliciesListed ==
    /\ \A n \in 1..3 : RoutePolicies[n] \in ToSet(RoutePolicies)
    /\ \A n \in 1..3 : RecipePolicies[n] \in ToSet(RecipePolicies)
    /\ {"owned_only", "owned_plus_peer", "owned_plus_peer_generic"} \subseteq ToSet(RoutePolicies)
    /\ {"current_only", "current_plus_provider", "current_plus_provider_peer"}
          \subseteq ToSet(RecipePolicies)
BY DEF ToSet, RoutePolicies, RecipePolicies

(* The defaults of every strategy are normal.                               *)
LEMMA BaseNormal == \A s \in DOMAIN Base : Normal(Base[s])
<1>1. DOMAIN Base = {"origin_replay", "traversal", "terminal_extractor",
                     "candidate_replay", "request_program", "discover_api"}
  BY DEF Base
<1>2. Normal(Base["origin_replay"])
  <2> DEFINE roles == <<"api", "detail", "search", "player", "source", "episode", "other">>
             toggles == {"session_bootstrap"}
  <2>1. Base["origin_replay"] =
          Experiment("owned_plus_peer", "current_plus_provider", roles, toggles, 3, 14, 12, 3)
    BY DEF Base
  <2>2. RolesNormal(roles) /\ toggles \in SUBSET Toggles
    BY BaseRolesNormal DEF Toggles
  <2> HIDE DEF roles, toggles
  <2>3. "owned_plus_peer" \in ToSet(RoutePolicies) /\ "current_plus_provider" \in ToSet(RecipePolicies)
    BY PoliciesListed
  <2>4. 3 \in 2..6 /\ 14 \in 6..36 /\ 12 \in 6..36 /\ 3 \in 1..6
    OBVIOUS
  <2> QED BY <2>1, <2>2, <2>3, <2>4, ExperimentNormal, Zenon
<1>3. Normal(Base["traversal"])
  <2> DEFINE roles == <<"search", "detail", "episode", "player", "source", "api", "other">>
             toggles == {}
  <2>1. Base["traversal"] =
          Experiment("owned_plus_peer", "current_plus_provider_peer", roles, toggles, 5, 24, 24, 4)
    BY DEF Base
  <2>2. RolesNormal(roles) /\ toggles \in SUBSET Toggles
    BY BaseRolesNormal DEF Toggles
  <2> HIDE DEF roles, toggles
  <2>3. "owned_plus_peer" \in ToSet(RoutePolicies) /\ "current_plus_provider_peer" \in ToSet(RecipePolicies)
    BY PoliciesListed
  <2>4. 5 \in 2..6 /\ 24 \in 6..36 /\ 24 \in 6..36 /\ 4 \in 1..6
    OBVIOUS
  <2> QED BY <2>1, <2>2, <2>3, <2>4, ExperimentNormal, Zenon
<1>4. Normal(Base["terminal_extractor"])
  <2> DEFINE roles == <<"player", "source", "api", "episode", "detail", "other">>
             toggles == {"terminal_only", "response_salvage"}
  <2>1. Base["terminal_extractor"] =
          Experiment("owned_plus_peer", "current_plus_provider_peer", roles, toggles, 5, 20, 28, 4)
    BY DEF Base
  <2>2. RolesNormal(roles) /\ toggles \in SUBSET Toggles
    BY BaseRolesNormal DEF Toggles
  <2> HIDE DEF roles, toggles
  <2>3. "owned_plus_peer" \in ToSet(RoutePolicies) /\ "current_plus_provider_peer" \in ToSet(RecipePolicies)
    BY PoliciesListed
  <2>4. 5 \in 2..6 /\ 20 \in 6..36 /\ 28 \in 6..36 /\ 4 \in 1..6
    OBVIOUS
  <2> QED BY <2>1, <2>2, <2>3, <2>4, ExperimentNormal, Zenon
<1>5. Normal(Base["candidate_replay"])
  <2> DEFINE roles == <<"player", "api", "source", "detail", "episode", "other">>
             toggles == {}
  <2>1. Base["candidate_replay"] =
          Experiment("owned_only", "current_plus_provider", roles, toggles, 4, 18, 24, 4)
    BY DEF Base
  <2>2. RolesNormal(roles) /\ toggles \in SUBSET Toggles
    BY BaseRolesNormal DEF Toggles
  <2> HIDE DEF roles, toggles
  <2>3. "owned_only" \in ToSet(RoutePolicies) /\ "current_plus_provider" \in ToSet(RecipePolicies)
    BY PoliciesListed
  <2>4. 4 \in 2..6 /\ 18 \in 6..36 /\ 24 \in 6..36 /\ 4 \in 1..6
    OBVIOUS
  <2> QED BY <2>1, <2>2, <2>3, <2>4, ExperimentNormal, Zenon
<1>6. Normal(Base["request_program"])
  <2> DEFINE roles == <<"api", "source", "player", "episode", "detail", "other">>
             toggles == {"terminal_only", "response_salvage"}
  <2>1. Base["request_program"] =
          Experiment("owned_only", "current_plus_provider", roles, toggles, 5, 18, 28, 5)
    BY DEF Base
  <2>2. RolesNormal(roles) /\ toggles \in SUBSET Toggles
    BY BaseRolesNormal DEF Toggles
  <2> HIDE DEF roles, toggles
  <2>3. "owned_only" \in ToSet(RoutePolicies) /\ "current_plus_provider" \in ToSet(RecipePolicies)
    BY PoliciesListed
  <2>4. 5 \in 2..6 /\ 18 \in 6..36 /\ 28 \in 6..36 /\ 5 \in 1..6
    OBVIOUS
  <2> QED BY <2>1, <2>2, <2>3, <2>4, ExperimentNormal, Zenon
<1>7. Normal(Base["discover_api"])
  <2> DEFINE roles == <<"search", "api", "detail", "player", "source", "episode", "other">>
             toggles == {"document_request_mining"}
  <2>1. Base["discover_api"] =
          Experiment("owned_plus_peer_generic", "current_plus_provider_peer", roles, toggles, 4, 28, 20, 4)
    BY DEF Base
  <2>2. RolesNormal(roles) /\ toggles \in SUBSET Toggles
    BY BaseRolesNormal DEF Toggles
  <2> HIDE DEF roles, toggles
  <2>3. "owned_plus_peer_generic" \in ToSet(RoutePolicies) /\ "current_plus_provider_peer" \in ToSet(RecipePolicies)
    BY PoliciesListed
  <2>4. 4 \in 2..6 /\ 28 \in 6..36 /\ 20 \in 6..36 /\ 4 \in 1..6
    OBVIOUS
  <2> QED BY <2>1, <2>2, <2>3, <2>4, ExperimentNormal, Zenon
<1> QED BY <1>1, <1>2, <1>3, <1>4, <1>5, <1>6, <1>7

(* A rotation of an order of roles is one: no role is lost or repeated.     *)
LEMMA RotatedNormal ==
    ASSUME NEW roles, RolesNormal(roles), NEW k \in 0..(Len(roles) - 1)
    PROVE  RolesNormal(Rotated(roles, k))
<1> DEFINE n == Len(roles)
           r == Rotated(roles, k)
<1>1. roles \in Seq(Roles \cup UnknownRoles) /\ n \in Nat /\ n > 0 /\ DOMAIN roles = 1..n
  BY DEF RolesNormal
<1>2. k \in Nat /\ k < n
  BY <1>1
<1>3. /\ r \in Seq(Roles \cup UnknownRoles)
      /\ Len(r) = n
      /\ DOMAIN r = 1..n
      /\ \A i \in 1..n : r[i] = IF i <= n - k THEN roles[i + k] ELSE roles[i - (n - k)]
  <2> DEFINE front == SubSeq(roles, k + 1, n)
             back == SubSeq(roles, 1, k)
  <2>1. /\ front \in Seq(Roles \cup UnknownRoles)
        /\ Len(front) = n - k
        /\ \A i \in 1..(n - k) : front[i] = roles[k + i]
    BY <1>1, <1>2
  <2>2. /\ back \in Seq(Roles \cup UnknownRoles)
        /\ Len(back) = k
        /\ \A i \in 1..k : back[i] = roles[i]
    BY <1>1, <1>2
  <2>3. r = front \o back
    BY DEF Rotated
  <2> HIDE DEF front, back, r
  <2>4. r \in Seq(Roles \cup UnknownRoles) /\ Len(r) = n
    <3>1. r \in Seq(Roles \cup UnknownRoles) /\ Len(r) = Len(front) + Len(back)
      BY <2>1, <2>2, <2>3, ConcatProperties
    <3>2. Len(front) + Len(back) = n
      BY <1>1, <1>2, <2>1, <2>2
    <3> QED BY <3>1, <3>2
  <2>5. ASSUME NEW i \in 1..n, i <= n - k PROVE r[i] = roles[i + k]
    BY <1>1, <1>2, <2>1, <2>2, <2>3, <2>5
  <2>6. ASSUME NEW i \in 1..n, ~(i <= n - k) PROVE r[i] = roles[i - (n - k)]
    <3>1. i - (n - k) \in 1..k
      BY <1>1, <1>2, <2>6
    <3> QED BY <1>1, <1>2, <2>1, <2>2, <2>3, <2>6, <3>1
  <2> QED BY <1>1, <2>4, <2>5, <2>6
<1> HIDE DEF r, n
<1>4. Once(r)
  <2> SUFFICES ASSUME NEW i \in 1..n, NEW j \in 1..n, r[i] = r[j] PROVE i = j
    BY <1>3 DEF Once
  <2> DEFINE at(x) == IF x <= n - k THEN x + k ELSE x - (n - k)
  <2>1. \A x \in 1..n : at(x) \in 1..n /\ r[x] = roles[at(x)]
    BY <1>1, <1>2, <1>3
  <2>2. at(i) = at(j)
    BY <1>1, <2>1 DEF RolesNormal, Once
  <2> QED BY <1>1, <1>2, <2>2
<1>5. ToSet(r) \subseteq Roles
  <2>1. \A x \in 1..n : roles[x] \in Roles
    BY <1>1 DEF RolesNormal, ToSet
  <2>2. \A x \in 1..n : (x <= n - k => x + k \in 1..n) /\ (~(x <= n - k) => x - (n - k) \in 1..n)
    BY <1>1, <1>2
  <2>3. \A x \in 1..n : r[x] \in Roles
    BY <1>3, <2>1, <2>2
  <2> QED BY <1>3, <2>3 DEF ToSet
<1>6. RolesNormal(r)
  BY <1>1, <1>3, <1>4, <1>5 DEF RolesNormal
<1> QED BY <1>6 DEF r

LEMMA VariantNormal ==
    ASSUME NEW b, Normal(b), NEW n \in 1..24
    PROVE  Normal(Variant(b, n))
<1> DEFINE on == {t \in Toggles :
            \/ t = "alias_search" /\ Bit(n, 1)
            \/ t = "response_salvage" /\ Bit(n, 2)
            \/ t = "document_request_mining" /\ Bit(n, 4)
            \/ t = "session_bootstrap" /\ Bit(n, 8)
            \/ t = "terminal_only" /\ (t \in b.toggles \/ Bit(n, 16))}
           route == RoutePolicies[1 + (n % 3)]
           recipe == RecipePolicies[1 + ((n \div 2) % 3)]
           roles == Rotated(b.roles, n % Len(b.roles))
           depth == 2 + (n % 5)
           pages == AtMost(36, 12 + ((n * 5) % 25))
           embeds == AtMost(36, 12 + ((n * 7) % 25))
           passes == 1 + (n % 6)
<1>1. on \in SUBSET Toggles
  OBVIOUS
<1>2. route \in ToSet(RoutePolicies) /\ recipe \in ToSet(RecipePolicies)
  <2>1. 1 + (n % 3) \in 1..3 /\ 1 + ((n \div 2) % 3) \in 1..3
    OBVIOUS
  <2> QED BY <2>1, PoliciesListed
<1>3. RolesNormal(roles)
  <2>1. PICK m \in Nat \ {0} : m = Len(b.roles)
    BY DEF Normal, RolesNormal
  <2>2. n % m \in 0..(m - 1)
    BY n \in Nat
  <2> QED BY <2>1, <2>2, RotatedNormal DEF Normal
<1>4. depth \in 2..6 /\ passes \in 1..6
  OBVIOUS
<1>5. pages \in 6..36 /\ embeds \in 6..36
  BY DEF AtMost
<1>6. Variant(b, n) = Experiment(route, recipe, roles, on, depth, pages, embeds, passes)
  BY DEF Variant
<1> HIDE DEF on, route, recipe, roles, depth, pages, embeds, passes
<1> QED BY <1>1, <1>2, <1>3, <1>4, <1>5, <1>6, ExperimentNormal, Zenon

(* Normal experiments, as a set.                                            *)
Normals == {e \in ExperimentType : Normal(e)}

LEMMA TargetedNormal ==
    ASSUME NEW b, Normal(b), NEW tokens
    PROVE  Targeted(b, tokens) \in Seq(Normals)
<1> DEFINE browser == Experiment("owned_plus_peer_generic", "current_plus_provider_peer",
                         b.roles, b.toggles \cup {"session_bootstrap", "response_salvage"},
                         AtMost(6, b.depth + 1), AtMost(36, b.pages + 6), b.embeds, b.passes)
           lookup == Experiment("owned_plus_peer_generic", "current_plus_provider_peer",
                         b.roles, b.toggles \cup {"alias_search", "document_request_mining"},
                         b.depth, AtMost(36, b.pages + 8), b.embeds, b.passes)
           media == Experiment(b.route, "current_plus_provider_peer",
                         <<"player", "source", "api", "episode", "detail", "search", "other">>,
                         b.toggles \cup {"terminal_only", "response_salvage",
                                         "document_request_mining"},
                         b.depth, b.pages, AtMost(36, b.embeds + 6), AtMost(6, b.passes + 1))
           only(token, e) == IF token \in tokens THEN <<e>> ELSE <<>>
<1>0. /\ b \in ExperimentType /\ RolesNormal(b.roles)
      /\ b.depth \in 2..6 /\ b.pages \in 6..36 /\ b.embeds \in 6..36 /\ b.passes \in 1..6
  BY DEF Normal, Bounded
<1>1. /\ "owned_plus_peer_generic" \in ToSet(RoutePolicies)
      /\ "current_plus_provider_peer" \in ToSet(RecipePolicies)
  BY PoliciesListed
<1>2. {"session_bootstrap", "response_salvage", "alias_search", "document_request_mining",
       "terminal_only"} \subseteq Toggles
  BY DEF Toggles
<1>3. /\ AtMost(6, b.depth + 1) \in 2..6 /\ AtMost(6, b.passes + 1) \in 1..6
      /\ AtMost(36, b.pages + 6) \in 6..36 /\ AtMost(36, b.pages + 8) \in 6..36
      /\ AtMost(36, b.embeds + 6) \in 6..36
  BY <1>0 DEF AtMost
<1>4. Normal(browser)
  <2> DEFINE toggles == b.toggles \cup {"session_bootstrap", "response_salvage"}
  <2>1. toggles \in SUBSET Toggles
    BY <1>0, <1>2 DEF ExperimentType
  <2> HIDE DEF toggles
  <2>2. Normal(Experiment("owned_plus_peer_generic", "current_plus_provider_peer", b.roles,
                    toggles, AtMost(6, b.depth + 1), AtMost(36, b.pages + 6), b.embeds, b.passes))
    BY <1>0, <1>1, <1>3, <2>1, ExperimentNormal, Zenon
  <2> QED BY <2>2 DEF toggles
<1>5. Normal(lookup)
  <2> DEFINE toggles == b.toggles \cup {"alias_search", "document_request_mining"}
  <2>1. toggles \in SUBSET Toggles
    BY <1>0, <1>2 DEF ExperimentType
  <2> HIDE DEF toggles
  <2>2. Normal(Experiment("owned_plus_peer_generic", "current_plus_provider_peer", b.roles,
                          toggles, b.depth, AtMost(36, b.pages + 8), b.embeds, b.passes))
    BY <1>0, <1>1, <1>3, <2>1, ExperimentNormal, Zenon
  <2> QED BY <2>2 DEF toggles
<1>6. Normal(media)
  <2> DEFINE roles == <<"player", "source", "api", "episode", "detail", "search", "other">>
             toggles == b.toggles \cup {"terminal_only", "response_salvage",
                                        "document_request_mining"}
  <2>1. RolesNormal(roles)
    BY BaseRolesNormal
  <2>2. toggles \in SUBSET Toggles /\ b.route \in ToSet(RoutePolicies)
    BY <1>0, <1>2 DEF ExperimentType
  <2> HIDE DEF roles, toggles
  <2>3. Normal(Experiment(b.route, "current_plus_provider_peer", roles, toggles,
                          b.depth, b.pages, AtMost(36, b.embeds + 6), AtMost(6, b.passes + 1)))
    BY <1>0, <1>1, <1>3, <2>1, <2>2, ExperimentNormal, Zenon
  <2> QED BY <2>3 DEF roles, toggles
<1> HIDE DEF browser, lookup, media
<1>7. browser \in Normals /\ lookup \in Normals /\ media \in Normals
  BY <1>4, <1>5, <1>6 DEF Normals, Normal
<1>8. \A token : \A e \in Normals : only(token, e) \in Seq(Normals)
  OBVIOUS
<1>10. Targeted(b, tokens) =
        only("transport", browser) \o only("search", lookup) \o only("terminal", media)
  BY DEF Targeted, browser, lookup, media
<1> HIDE DEF only
<1> QED BY <1>7, <1>8, <1>10

(* The elements of a concatenation.                                         *)
LEMMA Concatenated ==
    ASSUME NEW S, NEW s \in Seq(S), NEW t \in Seq(S)
    PROVE  /\ s \o t \in Seq(S)
           /\ Len(s \o t) = Len(s) + Len(t)
           /\ \A i \in 1..Len(s) : (s \o t)[i] = s[i]
           /\ \A i \in 1..Len(t) : (s \o t)[Len(s) + i] = t[i]
<1>1. PICK m \in Nat, n \in Nat : m = Len(s) /\ n = Len(t)
  OBVIOUS
<1>2. /\ s \o t \in Seq(S)
      /\ Len(s \o t) = m + n
      /\ \A i \in 1..(m + n) : (s \o t)[i] = IF i <= m THEN s[i] ELSE t[i - m]
  BY <1>1, ConcatProperties
<1>3. \A i \in 1..m : i \in 1..(m + n) /\ i <= m
  OBVIOUS
<1>4. \A i \in 1..n : m + i \in 1..(m + n) /\ ~(m + i <= m) /\ (m + i) - m = i
  OBVIOUS
<1> QED BY <1>1, <1>2, <1>3, <1>4

(* The rotation advises normal experiments only, the default of the         *)
(* strategy and all generic variants among them.                            *)
LEMMA CandidatesNormal ==
    ASSUME NEW s \in DOMAIN Base, NEW tokens \in SUBSET Tokens
    PROVE  /\ Candidates[s][tokens] \in Seq(Normals)
           /\ \A e \in ToSet(Generic[s]) \cup {Base[s]} :
                 \E i \in DOMAIN Candidates[s][tokens] : Candidates[s][tokens][i] = e
<1> DEFINE first == <<Base[s]>>
           targeted == Targeted(Base[s], tokens)
           generic == Generic[s]
           all == first \o targeted \o generic
<1>1. Base[s] \in Normals
  BY BaseNormal DEF Normals, Normal
<1>2. first \in Seq(Normals) /\ Len(first) = 1 /\ first[1] = Base[s]
  BY <1>1
<1>3. targeted \in Seq(Normals)
  BY BaseNormal, TargetedNormal
<1>4. generic \in Seq(Normals) /\ Len(generic) = 24
  <2>1. generic = [n \in 1..24 |-> Variant(Base[s], n)]
    BY DEF Generic
  <2>2. \A n \in 1..24 : Variant(Base[s], n) \in Normals
    BY BaseNormal, VariantNormal DEF Normals, Normal
  <2> HIDE DEF generic
  <2> QED BY <2>1, <2>2
<1>5. Candidates[s][tokens] = all
  BY DEF Candidates
<1> HIDE DEF first, targeted, generic
<1>6. all \in Seq(Normals)
  BY <1>2, <1>3, <1>4
<1>7. /\ Len(all) = 1 + Len(targeted) + 24
      /\ all[1] = Base[s]
      /\ \A n \in 1..24 : all[1 + Len(targeted) + n] = generic[n]
  <2> DEFINE front == first \o targeted
  <2>1. /\ front \in Seq(Normals)
        /\ Len(front) = Len(first) + Len(targeted)
        /\ \A i \in 1..Len(first) : front[i] = first[i]
    BY <1>2, <1>3, Concatenated
  <2>2. /\ front \o generic \in Seq(Normals)
        /\ Len(front \o generic) = Len(front) + Len(generic)
        /\ \A i \in 1..Len(front) : (front \o generic)[i] = front[i]
        /\ \A i \in 1..Len(generic) : (front \o generic)[Len(front) + i] = generic[i]
    <3> HIDE DEF front
    <3>1. generic \in Seq(Normals) /\ front \in Seq(Normals)
      BY <1>4, <2>1
    <3> QED BY <3>1, Concatenated
  <2>3. all = front \o generic
    OBVIOUS
  <2> HIDE DEF front, all
  <2>4. Len(targeted) \in Nat
    BY <1>3
  <2>5. front[1] = Base[s] /\ 1 \in 1..Len(front)
    BY <1>2, <2>1, <2>4
  <2>6. all[1] = Base[s]
    BY <2>2, <2>3, <2>5
  <2>7. Len(all) = 1 + Len(targeted) + 24
    BY <1>2, <1>4, <2>1, <2>2, <2>3
  <2>8. \A n \in 1..24 : all[1 + Len(targeted) + n] = generic[n]
    BY <1>2, <1>4, <2>1, <2>2, <2>3
  <2> QED BY <2>6, <2>7, <2>8
<1> HIDE DEF all
<1>8. Len(targeted) \in Nat /\ DOMAIN all = 1..Len(all)
  BY <1>3, <1>6
<1>9. ASSUME NEW e \in ToSet(generic) PROVE \E i \in DOMAIN all : all[i] = e
  <2>1. PICK n \in 1..24 : e = generic[n]
    BY <1>4 DEF ToSet
  <2>2. 1 + Len(targeted) + n \in DOMAIN all
    <3>1. PICK t \in Nat : t = Len(targeted)
      BY <1>8
    <3>2. 1 + t + n \in 1..(1 + t + 24)
      OBVIOUS
    <3> QED BY <1>7, <1>8, <3>1, <3>2
  <2> QED BY <1>7, <2>1, <2>2
<1>10. 1 \in DOMAIN all /\ all[1] = Base[s]
  BY <1>7, <1>8
<1> QED BY <1>5, <1>6, <1>9, <1>10 DEF generic

-----------------------------------------------------------------------------
(* The publisher's normal form.                                            *)

(* In a set of indices there is a k-th one.                                 *)
LEMMA RankExists ==
    ASSUME NEW n \in Nat, NEW S \in SUBSET (1..n), NEW k \in 1..Cardinality(S)
    PROVE  \E i \in S : Cardinality(S \cap 1..i) = k
<1> DEFINE P == {m \in Nat : \/ Cardinality(S \cap 1..m) < k
                             \/ \E i \in S : Cardinality(S \cap 1..i) = k}
<1>0. /\ IsFiniteSet(S)
      /\ \A m \in Nat : IsFiniteSet(S \cap 1..m) /\ Cardinality(S \cap 1..m) \in Nat
      /\ k \in Nat /\ k > 0
  <2>1. IsFiniteSet(S)
    <3>1. IsFiniteSet(1..n)
      BY FS_Interval
    <3> QED BY <3>1, FS_Subset
  <2>2. \A m \in Nat : IsFiniteSet(S \cap 1..m)
    BY <2>1, FS_Subset
  <2> QED BY <2>1, <2>2, FS_CardinalityType
<1>1. 0 \in P
  <2>1. S \cap 1..0 = {}
    OBVIOUS
  <2>2. Cardinality(S \cap 1..0) = 0
    BY <2>1, FS_EmptySet
  <2> QED BY <1>0, <2>2
<1>2. ASSUME NEW m \in P PROVE m + 1 \in P
  <2>0. m \in Nat /\ m + 1 \in Nat
    OBVIOUS
  <2>1. CASE \E i \in S : Cardinality(S \cap 1..i) = k
    BY <2>0, <2>1
  <2>2. CASE Cardinality(S \cap 1..m) < k
    <3>1. CASE m + 1 \notin S
      <4>1. S \cap 1..(m + 1) = S \cap 1..m
        BY <2>0, <3>1
      <4> QED BY <2>0, <2>2, <4>1
    <3>2. CASE m + 1 \in S
      <4>1. S \cap 1..(m + 1) = (S \cap 1..m) \cup {m + 1} /\ m + 1 \notin S \cap 1..m
        BY <2>0, <3>2
      <4>2. Cardinality(S \cap 1..(m + 1)) = Cardinality(S \cap 1..m) + 1
        BY <1>0, <2>0, <4>1, FS_AddElement
      <4>3. PICK c \in Nat : c = Cardinality(S \cap 1..m)
        BY <1>0, <2>0
      <4>4. c + 1 < k \/ c + 1 = k
        BY <1>0, <2>2, <4>3
      <4> QED BY <2>0, <3>2, <4>2, <4>3, <4>4
    <3> QED BY <3>1, <3>2
  <2> QED BY <2>1, <2>2
<1>3. n \in P
  <2> HIDE DEF P
  <2>1. P \in SUBSET Nat
    BY DEF P
  <2>2. P = Nat
    BY <1>1, <1>2, <2>1, SetInduction
  <2> QED BY <2>2
<1>4. S \cap 1..n = S
  OBVIOUS
<1>5. ~(Cardinality(S) < k)
  BY <1>0, FS_CardinalityType
<1> QED BY <1>3, <1>4, <1>5

FirstUses(roles) == {i \in DOMAIN roles : \A j \in 1..(i - 1) : roles[j] # roles[i]}

(* Dropping the repeats of a list of roles leaves a list of them.           *)
LEMMA WithoutRepeatsTyped ==
    ASSUME NEW S, NEW roles \in Seq(S)
    PROVE  WithoutRepeats(roles) \in Seq(S) /\ ToSet(WithoutRepeats(roles)) \subseteq ToSet(roles)
<1> DEFINE first == FirstUses(roles)
           nth(k) == CHOOSE i \in first : Cardinality(first \cap 1..i) = k
           kept == [k \in 1..Cardinality(first) |-> roles[nth(k)]]
<1>1. WithoutRepeats(roles) = kept
  BY DEF WithoutRepeats, FirstUses
<1>2. Len(roles) \in Nat /\ DOMAIN roles = 1..Len(roles) /\ first \in SUBSET (1..Len(roles))
  BY DEF FirstUses
<1>3. Cardinality(first) \in Nat
  <2>1. IsFiniteSet(1..Len(roles))
    BY <1>2, FS_Interval
  <2> HIDE DEF first
  <2> QED BY <1>2, <2>1, FS_Subset, FS_CardinalityType
<1>4. \A k \in 1..Cardinality(first) : nth(k) \in first
  <2> HIDE DEF first
  <2> QED BY <1>2, RankExists
<1> HIDE DEF first, nth
<1>5. ASSUME NEW k \in 1..Cardinality(first)
      PROVE  roles[nth(k)] \in S /\ roles[nth(k)] \in ToSet(roles)
  <2>1. nth(k) \in 1..Len(roles)
    BY <1>2, <1>4
  <2> QED BY <1>2, <2>1 DEF ToSet
<1>6. kept \in Seq(S)
  BY <1>3, <1>5
<1>7. ToSet(kept) \subseteq ToSet(roles)
  BY <1>5 DEF ToSet
<1> QED BY <1>1, <1>6, <1>7

(* A list without repeats stays as it is.                                   *)
LEMMA WithoutRepeatsKeeps ==
    ASSUME NEW S, NEW roles \in Seq(S), Once(roles)
    PROVE  WithoutRepeats(roles) = roles
<1> DEFINE n == Len(roles)
           first == FirstUses(roles)
           nth(k) == CHOOSE i \in first : Cardinality(first \cap 1..i) = k
<1>1. n \in Nat /\ DOMAIN roles = 1..n
  OBVIOUS
<1>2. first = 1..n
  BY <1>1 DEF FirstUses, Once
<1>3. WithoutRepeats(roles) = [k \in 1..Cardinality(first) |-> roles[nth(k)]]
  BY DEF WithoutRepeats, FirstUses
<1>4. \A i \in Nat : Cardinality(1..i) = i
  BY FS_Interval
<1>5. Cardinality(first) = n
  BY <1>1, <1>2, <1>4
<1>6. \A i \in 1..n : Cardinality(first \cap 1..i) = i
  <2> SUFFICES ASSUME NEW i \in 1..n PROVE Cardinality(first \cap 1..i) = i
    OBVIOUS
  <2>1. first \cap 1..i = 1..i
    BY <1>1, <1>2
  <2>2. i \in Nat
    BY <1>1
  <2> QED BY <1>4, <2>1, <2>2
<1> HIDE DEF n, first
<1>7. \A k \in 1..n : nth(k) = k
  <2> SUFFICES ASSUME NEW k \in 1..n PROVE nth(k) = k
    OBVIOUS
  <2>1. k \in first /\ Cardinality(first \cap 1..k) = k
    BY <1>2, <1>6
  <2>2. nth(k) \in first /\ Cardinality(first \cap 1..nth(k)) = k
    BY <2>1
  <2> QED BY <1>2, <1>6, <2>2
<1> HIDE DEF nth
<1>8. [k \in 1..n |-> roles[nth(k)]] = [k \in 1..n |-> roles[k]]
  BY <1>7
<1> QED BY <1>1, <1>3, <1>5, <1>8

LEMMA ClampKeeps ==
    ASSUME NEW lo \in Int, NEW hi \in Int, NEW n \in lo..hi
    PROVE  Clamp(lo, hi, n) = n
BY DEF Clamp

(* The publisher leaves what the rotation advises as it is.                 *)
LEMMA SanitizeKeeps ==
    ASSUME NEW e, Normal(e)
    PROVE  e # NoExperiment /\ Valid(e) /\ Sanitize(e) = e
<1>1. e \in ExperimentType /\ RolesNormal(e.roles) /\ Bounded(e)
  BY DEF Normal
<1>2. e # NoExperiment
  <2>1. NoExperiment.depth = 0
    BY DEF NoExperiment, Experiment
  <2>2. e.depth \in 2..6
    BY <1>1 DEF Bounded
  <2>3. e = NoExperiment => e.depth = 0
    BY <2>1
  <2> QED BY <2>2, <2>3
<1>3. Valid(e)
  BY <1>1 DEF RolesNormal, Valid
<1>4. WithoutRepeats(e.roles) = e.roles
  BY <1>1, WithoutRepeatsKeeps DEF RolesNormal
<1>5. /\ Clamp(2, 6, e.depth) = e.depth /\ Clamp(6, 36, e.pages) = e.pages
      /\ Clamp(6, 36, e.embeds) = e.embeds /\ Clamp(1, 6, e.passes) = e.passes
  BY <1>1, ClampKeeps DEF Bounded
<1>6. Sanitize(e) = Experiment(e.route, e.recipe, e.roles, e.toggles,
                               e.depth, e.pages, e.embeds, e.passes)
  BY <1>2, <1>4, <1>5 DEF Sanitize
<1>7. Experiment(e.route, e.recipe, e.roles, e.toggles, e.depth, e.pages, e.embeds, e.passes) = e
  BY <1>1 DEF Experiment, ExperimentType
<1> QED BY <1>2, <1>3, <1>6, <1>7

(* What the publisher writes is an experiment in the executor's bounds.     *)
Sound == {e \in ExperimentType : Valid(e) /\ Bounded(e)}

LEMMA SanitizeSound ==
    ASSUME NEW e \in ExperimentType, Valid(e), strategy \in DOMAIN Base
    PROVE  Sanitize(e) \in Sound
<1>1. CASE e = NoExperiment
  <2>1. Normal(Base[strategy])
    BY BaseNormal
  <2> QED BY <1>1, <2>1 DEF Sanitize, Sound, Normal, RolesNormal, Valid
<1>2. CASE e # NoExperiment
  <2> DEFINE roles == WithoutRepeats(e.roles)
             depth == Clamp(2, 6, e.depth)
             pages == Clamp(6, 36, e.pages)
             embeds == Clamp(6, 36, e.embeds)
             passes == Clamp(1, 6, e.passes)
  <2>1. roles \in Seq(Roles \cup UnknownRoles) /\ ToSet(roles) \subseteq Roles
    <3>1. e.roles \in Seq(Roles \cup UnknownRoles) /\ ToSet(e.roles) \subseteq Roles
      BY DEF ExperimentType, Valid
    <3> QED BY <3>1, WithoutRepeatsTyped
  <2>2. e.depth \in Nat /\ e.pages \in Nat /\ e.embeds \in Nat /\ e.passes \in Nat
    BY DEF ExperimentType
  <2>3. depth \in 2..6 /\ pages \in 6..36 /\ embeds \in 6..36 /\ passes \in 1..6
    <3>1. depth \in 2..6
      BY <2>2 DEF Clamp
    <3>2. pages \in 6..36 /\ embeds \in 6..36
      BY <2>2 DEF Clamp
    <3>3. passes \in 1..6
      BY <2>2 DEF Clamp
    <3> QED BY <3>1, <3>2, <3>3
  <2>4. Sanitize(e) = Experiment(e.route, e.recipe, roles, e.toggles, depth, pages, embeds, passes)
    BY <1>2 DEF Sanitize
  <2> HIDE DEF roles, depth, pages, embeds, passes
  <2>5. /\ e.route \in ToSet(RoutePolicies) /\ e.recipe \in ToSet(RecipePolicies)
        /\ e.toggles \in SUBSET Toggles
    BY DEF ExperimentType
  <2>6. depth \in Nat /\ pages \in Nat /\ embeds \in Nat /\ passes \in Nat
    BY <2>3
  <2>7. Sanitize(e) \in ExperimentType
    BY <2>1, <2>4, <2>5, <2>6 DEF Experiment, ExperimentType
  <2>8. Valid(Sanitize(e)) /\ Bounded(Sanitize(e))
    BY <2>1, <2>3, <2>4 DEF Experiment, Valid, Bounded
  <2> QED BY <2>7, <2>8 DEF Sound
<1> QED BY <1>1, <1>2

-----------------------------------------------------------------------------
(* Rows and what they block.                                               *)

LEMMA ToSetAppended ==
    ASSUME NEW S, NEW s \in Seq(S), NEW x \in S
    PROVE  /\ Append(s, x) \in Seq(S)
           /\ ToSet(Append(s, x)) = ToSet(s) \cup {x}
           /\ Len(Append(s, x)) = Len(s) + 1
           /\ DOMAIN Append(s, x) = DOMAIN s \cup {Len(s) + 1}
           /\ Len(s) + 1 \notin DOMAIN s
           /\ Append(s, x)[Len(s) + 1] = x
           /\ \A i \in DOMAIN s : Append(s, x)[i] = s[i]
<1>1. PICK n \in Nat : n = Len(s)
  OBVIOUS
<1>2. DOMAIN s = 1..n /\ DOMAIN Append(s, x) = 1..(n + 1)
  BY <1>1
<1>3. 1..(n + 1) = 1..n \cup {n + 1} /\ n + 1 \notin 1..n
  OBVIOUS
<1>4. /\ Append(s, x) \in Seq(S) /\ Len(Append(s, x)) = n + 1
      /\ Append(s, x)[n + 1] = x
      /\ \A i \in 1..n : Append(s, x)[i] = s[i]
  BY <1>1
<1>5. ToSet(Append(s, x)) = ToSet(s) \cup {x}
  BY <1>2, <1>3, <1>4 DEF ToSet
<1> QED BY <1>1, <1>2, <1>3, <1>4, <1>5

LEMMA ToSetConcatenated ==
    ASSUME NEW S, NEW s \in Seq(S), NEW t \in Seq(S)
    PROVE  ToSet(s \o t) = ToSet(s) \cup ToSet(t)
<1>1. PICK m \in Nat, n \in Nat : m = Len(s) /\ n = Len(t)
  OBVIOUS
<1>2. DOMAIN s = 1..m /\ DOMAIN t = 1..n /\ DOMAIN (s \o t) = 1..(m + n)
  BY <1>1, Concatenated
<1>3. /\ \A i \in 1..m : (s \o t)[i] = s[i]
      /\ \A i \in 1..n : (s \o t)[m + i] = t[i]
  BY <1>1, Concatenated
<1>4. ASSUME NEW x \in ToSet(s \o t) PROVE x \in ToSet(s) \cup ToSet(t)
  <2>1. PICK i \in 1..(m + n) : x = (s \o t)[i]
    BY <1>2 DEF ToSet
  <2>2. CASE i <= m
    <3>1. i \in 1..m
      BY <2>2
    <3> QED BY <1>2, <1>3, <2>1, <3>1 DEF ToSet
  <2>3. CASE i > m
    <3>1. i - m \in 1..n /\ m + (i - m) = i
      BY <2>3
    <3>2. x = t[i - m]
      BY <1>3, <2>1, <3>1
    <3> QED BY <1>2, <3>1, <3>2 DEF ToSet
  <2> QED BY <2>2, <2>3
<1>5. ASSUME NEW x \in ToSet(s) \cup ToSet(t) PROVE x \in ToSet(s \o t)
  <2>1. CASE x \in ToSet(s)
    <3>1. PICK i \in 1..m : x = s[i]
      BY <1>2, <2>1 DEF ToSet
    <3>2. i \in 1..(m + n)
      OBVIOUS
    <3>3. (s \o t)[i] = x
      BY <1>3, <3>1
    <3> QED BY <1>2, <3>2, <3>3 DEF ToSet
  <2>2. CASE x \in ToSet(t)
    <3>1. PICK i \in 1..n : x = t[i]
      BY <1>2, <2>2 DEF ToSet
    <3>2. m + i \in 1..(m + n)
      OBVIOUS
    <3>3. (s \o t)[m + i] = x
      BY <1>3, <3>1
    <3> QED BY <1>2, <3>2, <3>3 DEF ToSet
  <2> QED BY <1>5, <2>1, <2>2
<1> QED BY <1>4, <1>5

LEMMA BlockedByRow ==
    ASSUME NEW e, NEW rows
    PROVE  Blocked(e, rows) <=>
             e # NoExperiment /\ \E row \in ToSet(rows) : row.experiment = e /\ Blocks(row)
BY DEF Blocked, ToSet

(* FORCE rows block nothing and count for nothing.                          *)
LEMMA ForceRowsSilent ==
    ASSUME NEW rows \in Seq(RowType)
    PROVE  /\ rows \o ForceRows \in Seq(RowType)
           /\ \A e : Blocked(e, rows \o ForceRows) <=> Blocked(e, rows)
           /\ Exhausted(rows \o ForceRows) <=> Exhausted(rows)
<1>1. ForceRows \in Seq(RowType) /\ \A row \in ToSet(ForceRows) : row.experiment = NoExperiment
  <2>1. ForceRows \in Seq({row \in RowType : row.experiment = NoExperiment})
    BY InputsAssumption
  <2>2. \A i \in DOMAIN ForceRows : ForceRows[i] \in {row \in RowType : row.experiment = NoExperiment}
    BY <2>1
  <2>3. ForceRows \in Seq(RowType)
    BY <2>1
  <2> QED BY <2>2, <2>3 DEF ToSet
<1>2. ToSet(rows \o ForceRows) = ToSet(rows) \cup ToSet(ForceRows)
  BY <1>1, ToSetConcatenated
<1>3. ASSUME NEW e PROVE Blocked(e, rows \o ForceRows) <=> Blocked(e, rows)
  BY <1>1, <1>2, BlockedByRow
<1>4. ExecutedFailures(rows \o ForceRows) \ {NoExperiment} = ExecutedFailures(rows) \ {NoExperiment}
  BY <1>1, <1>2 DEF ExecutedFailures
<1>5. rows \o ForceRows \in Seq(RowType)
  BY <1>1
<1> QED BY <1>3, <1>4, <1>5 DEF Exhausted

(* A reservation blocks its experiment and is no executed failure.          *)
LEMMA ReservationBlocks ==
    ASSUME NEW rows \in Seq(RowType), NEW e \in ExperimentType, e # NoExperiment
    PROVE  /\ Append(rows, Reserved(e)) \in Seq(RowType)
           /\ \A f : Blocked(f, Append(rows, Reserved(e))) <=> Blocked(f, rows) \/ f = e
           /\ Exhausted(Append(rows, Reserved(e))) <=> Exhausted(rows)
<1> DEFINE r == Reserved(e)
<1>1. r = [experiment |-> e, mine |-> FALSE, executed |-> "absent", failures |-> 1,
           outcome |-> "reserved", tokens |-> {}]
  BY DEF Reserved, Row
<1> HIDE DEF r
<1>2. r \in RowType
  BY <1>1 DEF RowType
<1>3. r.experiment = e /\ Blocks(r) /\ ~r.mine
  BY <1>1 DEF Blocks
<1>4. Append(rows, r) \in Seq(RowType) /\ ToSet(Append(rows, r)) = ToSet(rows) \cup {r}
  BY <1>2, ToSetAppended
<1>5. ASSUME NEW f PROVE Blocked(f, Append(rows, r)) <=> Blocked(f, rows) \/ f = e
  BY <1>3, <1>4, BlockedByRow
<1>6. ExecutedFailures(Append(rows, r)) = ExecutedFailures(rows)
  BY <1>3, <1>4 DEF ExecutedFailures
<1> QED BY <1>4, <1>5, <1>6 DEF Exhausted, r

-----------------------------------------------------------------------------
(* The invariants.  The properties are about planned and base, which a     *)
(* batch compares by way of its history; BatchInv says what the history is *)
(* while the batch plans: the blocking rows of base and one reservation for *)
(* each hypothesis so far, and no executed failure that base did not have. *)

Answered == [experiment : ExperimentType, by : {"rotation", "model"}, usable : BOOLEAN]

Typed ==
    /\ strategy \in DOMAIN Base
    /\ issue \in SUBSET Tokens
    /\ ledger \in Seq(RowType)
    /\ base \in Seq(RowType)
    /\ history \in Seq(RowType)
    /\ planned \in Seq(Answered)
    /\ Len(planned) <= MaxHypotheses
    /\ phase \in {"planning", "retrying"} => Len(planned) < MaxHypotheses
    /\ phase \in {"idle", "planning", "retrying", "publishing", "failed", "repaired"}
    /\ published \subseteq Sound
    /\ pending \subseteq Sound

AdvisedOnce ==
    \A i \in Rotations :
        /\ planned[i].usable
        /\ Normal(planned[i].experiment)
        /\ ~Blocked(planned[i].experiment, base)
        /\ \A j \in Rotations : planned[i].experiment = planned[j].experiment => i = j

BatchInv ==
    phase = "planning" =>
        /\ Exhausted(history) <=> Exhausted(base)
        /\ \A e : Blocked(e, base) => Blocked(e, history)
        /\ \A e : Blocked(e, history) =>
              Blocked(e, base) \/ \E i \in DOMAIN planned : planned[i].experiment = e
        /\ \A i \in Rotations : Blocked(planned[i].experiment, history)

Earned ==
    \/ Exhausted(base)
    \/ \A e \in ToSet(Generic[strategy]) \cup {Base[strategy]} :
          Blocked(e, base) \/ \E i \in Rotations : planned[i].experiment = e

EarnedInv ==
    phase = "retrying" \/ (\E i \in DOMAIN planned : planned[i].by = "model") => Earned

CycleInv == Typed /\ AdvisedOnce /\ BatchInv /\ EarnedInv /\ EverySlotCounts

-----------------------------------------------------------------------------
(* What the rotation picks from, and what it means that nothing is left.    *)

LEMMA TokensTyped ==
    ASSUME issue \in SUBSET Tokens, NEW rows \in Seq(RowType)
    PROVE  IssueTokens(rows) \in SUBSET Tokens
<1> DEFINE first == IF Len(rows) > Window THEN Len(rows) - Window + 1 ELSE 1
           last == SubSeq(rows, first, Len(rows))
<1>1. PICK n \in Nat : n = Len(rows)
  OBVIOUS
<1>2. first \in Nat /\ first >= 1
  <2>1. Window \in Nat
    BY BoundsAssumption
  <2> QED BY <1>1, <2>1
<1>3. last \in Seq(RowType)
  <2>1. \A i \in first..n : i \in 1..n
    BY <1>1, <1>2
  <2> HIDE DEF first
  <2> QED BY <1>1, <1>2, <2>1
<1>4. last = Suffix(rows, Window)
  BY DEF Suffix
<1> HIDE DEF last
<1>5. \A row \in ToSet(Suffix(rows, Window)) : row.tokens \in SUBSET Tokens
  <2>1. ToSet(Suffix(rows, Window)) \subseteq RowType
    BY <1>3, <1>4 DEF ToSet
  <2>2. \A row \in RowType : row.tokens \in SUBSET Tokens
    BY DEF RowType
  <2> QED BY <2>1, <2>2
<1> QED BY <1>5 DEF IssueTokens

LEMMA UntriedNormal ==
    ASSUME Typed, NEW i \in Untried(history)
    PROVE  LET e == Candidates[strategy][IssueTokens(history)][i]
           IN  Normal(e) /\ ~Blocked(e, history)
<1> DEFINE all == Candidates[strategy][IssueTokens(history)]
<1>1. IssueTokens(history) \in SUBSET Tokens
  BY TokensTyped DEF Typed
<1>2. all \in Seq(Normals)
  BY <1>1, CandidatesNormal DEF Typed
<1>3. i \in DOMAIN all /\ ~Blocked(all[i], history)
  BY DEF Untried
<1> HIDE DEF all
<1>4. all[i] \in Normals
  BY <1>2, <1>3
<1> QED BY <1>3, <1>4 DEF all, Normals

LEMMA NothingUntried ==
    ASSUME Typed, Untried(history) = {}
    PROVE  \A e \in ToSet(Generic[strategy]) \cup {Base[strategy]} : Blocked(e, history)
<1> DEFINE all == Candidates[strategy][IssueTokens(history)]
<1> SUFFICES ASSUME NEW e \in ToSet(Generic[strategy]) \cup {Base[strategy]}
             PROVE  Blocked(e, history)
  OBVIOUS
<1>1. IssueTokens(history) \in SUBSET Tokens
  BY TokensTyped DEF Typed
<1>2. PICK i \in DOMAIN all : all[i] = e
  BY <1>1, CandidatesNormal DEF Typed
<1>3. Blocked(all[i], history)
  BY DEF Untried
<1> QED BY <1>2, <1>3

(* A batch that goes over to the model has earned it.                       *)
LEMMA HandoverEarned ==
    ASSUME CycleInv, phase = "planning", HandedOver
    PROVE  Earned
<1>1. CASE \E i \in DOMAIN planned : planned[i].by = "model"
  BY <1>1 DEF CycleInv, EarnedInv
<1>2. CASE Exhausted(history)
  BY <1>2 DEF CycleInv, BatchInv, Earned
<1>3. CASE Untried(history) = {} /\ ~\E i \in DOMAIN planned : planned[i].by = "model"
  <2>1. \A i \in DOMAIN planned : i \in Rotations
    <3>1. \A i \in DOMAIN planned : planned[i] \in Answered
      BY DEF CycleInv, Typed
    <3>2. \A h \in Answered : h.by \in {"rotation", "model"}
      BY DEF Answered
    <3> QED BY <1>3, <3>1, <3>2 DEF Rotations
  <2>2. \A e \in ToSet(Generic[strategy]) \cup {Base[strategy]} : Blocked(e, history)
    BY <1>3, NothingUntried DEF CycleInv
  <2>3. \A e : Blocked(e, history) =>
           Blocked(e, base) \/ \E i \in Rotations : planned[i].experiment = e
    BY <2>1 DEF CycleInv, BatchInv
  <2> QED BY <2>2, <2>3 DEF Earned
<1> QED BY <1>1, <1>2, <1>3 DEF HandedOver

-----------------------------------------------------------------------------
(* The steps.                                                              *)

LEMMA PlanGrows ==
    ASSUME Typed, NEW h \in Answered, planned' = Append(planned, h)
    PROVE  /\ planned' \in Seq(Answered)
           /\ Len(planned') = Len(planned) + 1
           /\ DOMAIN planned' = DOMAIN planned \cup {Len(planned) + 1}
           /\ Len(planned) + 1 \notin DOMAIN planned
           /\ planned'[Len(planned) + 1] = h
           /\ \A i \in DOMAIN planned : planned'[i] = planned[i]
           /\ Rotations \subseteq Rotations'
           /\ \A i \in Rotations' : i \in Rotations \/ (i = Len(planned) + 1 /\ h.by = "rotation")
<1>1. planned \in Seq(Answered)
  BY DEF Typed
<1>2. /\ planned' \in Seq(Answered)
      /\ Len(planned') = Len(planned) + 1
      /\ DOMAIN planned' = DOMAIN planned \cup {Len(planned) + 1}
      /\ Len(planned) + 1 \notin DOMAIN planned
      /\ planned'[Len(planned) + 1] = h
      /\ \A i \in DOMAIN planned : planned'[i] = planned[i]
  BY <1>1, ToSetAppended
<1> QED BY <1>2 DEF Rotations

LEMMA EarnedGrows ==
    ASSUME Typed, Earned, NEW h \in Answered, planned' = Append(planned, h),
           UNCHANGED <<strategy, base>>
    PROVE  Earned'
<1>1. Exhausted(base) => Exhausted(base')
  OBVIOUS
<1>2. \A e : (\E i \in Rotations : planned[i].experiment = e)
               => \E i \in Rotations' : planned'[i].experiment = e
  BY PlanGrows DEF Rotations
<1>3. Exhausted(base)' <=> Exhausted(base)
  BY DEF Exhausted, ExecutedFailures
<1>4. \A e : Blocked(e, base)' <=> Blocked(e, base)
  OBVIOUS
<1> QED BY <1>2, <1>3, <1>4 DEF Earned

(* A hypothesis of the rotation joins those that are advised once.          *)
LEMMA AdvisedGrows ==
    ASSUME CycleInv, NEW h \in Answered, planned' = Append(planned, h), UNCHANGED base,
           h.by = "rotation" =>
               h.usable /\ Normal(h.experiment) /\ ~Blocked(h.experiment, base)
                 /\ \A i \in Rotations : planned[i].experiment # h.experiment
    PROVE  AdvisedOnce'
<1> SUFFICES ASSUME NEW i \in Rotations'
             PROVE  /\ planned'[i].usable
                    /\ Normal(planned'[i].experiment)
                    /\ ~Blocked(planned'[i].experiment, base)
                    /\ \A j \in Rotations' :
                          planned'[i].experiment = planned'[j].experiment => i = j
  BY DEF AdvisedOnce
<1> DEFINE n == Len(planned) + 1
<1>0. /\ planned'[n] = h
      /\ \A k \in Rotations : planned'[k] = planned[k]
      /\ \A k \in Rotations' : k \in Rotations \/ (k = n /\ h.by = "rotation")
  BY PlanGrows DEF CycleInv, Rotations
<1>1. \A k \in Rotations :
        /\ planned[k].usable /\ Normal(planned[k].experiment)
        /\ ~Blocked(planned[k].experiment, base)
        /\ \A j \in Rotations : planned[k].experiment = planned[j].experiment => k = j
  BY DEF CycleInv, AdvisedOnce
<1> HIDE DEF n
<1>2. CASE i \in Rotations
  <2>1. planned'[i] = planned[i]
    BY <1>0, <1>2
  <2>2. ASSUME NEW j \in Rotations', planned'[i].experiment = planned'[j].experiment
        PROVE  i = j
    <3>1. CASE j \in Rotations
      BY <1>0, <1>1, <1>2, <2>1, <2>2, <3>1
    <3>2. CASE j = n /\ h.by = "rotation"
      BY <1>0, <1>2, <2>1, <2>2, <3>2
    <3> QED BY <1>0, <3>1, <3>2
  <2> QED BY <1>1, <1>2, <2>1, <2>2
<1>3. CASE i = n /\ h.by = "rotation" /\ i \notin Rotations
  <2>1. ASSUME NEW j \in Rotations', planned'[i].experiment = planned'[j].experiment
        PROVE  i = j
    <3>1. CASE j \in Rotations
      BY <1>0, <1>3, <2>1, <3>1
    <3>2. CASE j = n
      BY <1>3, <3>2
    <3> QED BY <1>0, <3>1, <3>2
  <2> QED BY <1>0, <1>3, <2>1
<1> QED BY <1>0, <1>2, <1>3

(* The next hypothesis of a batch, by the rotation or by the model.         *)
LEMMA PlanStep ==
    ASSUME CycleInv, phase = "planning", NEW h \in Answered,
           planned' = Append(planned, h), Reserve(h.experiment),
           UNCHANGED <<strategy, issue, ledger, base, published, pending>>,
           h.by = "rotation" =>
               h.usable /\ Normal(h.experiment) /\ ~Blocked(h.experiment, history),
           h.by = "model" => Earned
    PROVE  CycleInv'
<1> DEFINE e == h.experiment
           n == Len(planned) + 1
<1>0. Typed /\ h.experiment \in ExperimentType /\ h.by \in {"rotation", "model"}
  BY DEF CycleInv, Answered
<1>1. /\ planned' \in Seq(Answered)
      /\ Len(planned') = Len(planned) + 1
      /\ DOMAIN planned' = DOMAIN planned \cup {n}
      /\ planned'[n] = h
      /\ \A i \in DOMAIN planned : planned'[i] = planned[i]
      /\ \A i \in Rotations' : i \in Rotations \/ (i = n /\ h.by = "rotation")
  BY <1>0, PlanGrows
<1>2. Len(planned) \in Nat /\ Len(planned) < MaxHypotheses /\ MaxHypotheses \in Nat
  BY <1>0, BoundsAssumption DEF Typed
<1>3. \/ history' = history /\ phase' = "publishing"
      \/ /\ e # NoExperiment /\ ~Blocked(e, history)
         /\ history' = Append(history, Reserved(e))
         /\ phase' = IF Len(planned') = MaxHypotheses THEN "publishing" ELSE "planning"
  BY DEF Reserve
<1> HIDE DEF n
<1>4. Typed'
  <2>1. history' \in Seq(RowType)
    <3>1. history \in Seq(RowType)
      BY <1>0 DEF Typed
    <3>2. e # NoExperiment => Append(history, Reserved(e)) \in Seq(RowType)
      BY <1>0, <3>1, ReservationBlocks
    <3> QED BY <1>3, <3>1, <3>2
  <2>2. Len(planned') <= MaxHypotheses
    BY <1>1, <1>2
  <2>3. phase' \in {"planning", "publishing"}
    BY <1>3
  <2>4. phase' = "planning" => Len(planned') < MaxHypotheses
    <3>1. phase' = "planning" => Len(planned') # MaxHypotheses
      BY <1>3
    <3> QED BY <1>1, <1>2, <3>1
  <2> QED BY <1>0, <1>1, <2>1, <2>2, <2>3, <2>4 DEF Typed
<1>5. AdvisedOnce'
  <2>1. h.by = "rotation" => ~Blocked(e, base)
    BY DEF CycleInv, BatchInv
  <2>2. h.by = "rotation" => \A i \in Rotations : planned[i].experiment # e
    BY DEF CycleInv, BatchInv
  <2> QED BY <2>1, <2>2, AdvisedGrows
<1>6. BatchInv'
  <2> SUFFICES ASSUME phase' = "planning" PROVE BatchInv'
    BY DEF BatchInv
  <2>1. e # NoExperiment /\ history' = Append(history, Reserved(e))
    BY <1>3
  <2>2. /\ \A f : Blocked(f, history') <=> Blocked(f, history) \/ f = e
        /\ Exhausted(history') <=> Exhausted(history)
    BY <1>0, <2>1, ReservationBlocks DEF Typed
  <2>3. Exhausted(history') <=> Exhausted(base')
    BY <2>2 DEF CycleInv, BatchInv
  <2>4. \A f : Blocked(f, base') => Blocked(f, history')
    BY <2>2 DEF CycleInv, BatchInv
  <2>5. ASSUME NEW f, Blocked(f, history')
        PROVE  Blocked(f, base') \/ \E i \in DOMAIN planned' : planned'[i].experiment = f
    <3>1. CASE f = e
      BY <1>1, <3>1
    <3>2. CASE Blocked(f, history)
      BY <1>1, <3>2 DEF CycleInv, BatchInv
    <3> QED BY <2>2, <2>5, <3>1, <3>2
  <2>6. \A i \in Rotations' : Blocked(planned'[i].experiment, history')
    BY <1>1, <2>2 DEF CycleInv, BatchInv, Rotations
  <2> QED BY <2>3, <2>4, <2>5, <2>6 DEF BatchInv
<1>7. EarnedInv'
  <2> SUFFICES ASSUME phase' = "retrying" \/ \E i \in DOMAIN planned' : planned'[i].by = "model"
               PROVE  Earned'
    BY DEF EarnedInv
  <2>1. \E i \in DOMAIN planned' : planned'[i].by = "model"
    BY <1>3
  <2>2. Earned
    BY <1>1, <2>1 DEF CycleInv, EarnedInv
  <2> QED BY <1>0, <2>2, EarnedGrows
<1>8. EverySlotCounts'
  <2>1. phase' # "idle"
    BY <1>3
  <2> QED BY <2>1 DEF EverySlotCounts
<1> QED BY <1>4, <1>5, <1>6, <1>7, <1>8 DEF CycleInv

LEMMA InitStep == Init => CycleInv
<1> SUFFICES ASSUME Init PROVE CycleInv
  OBVIOUS
<1>1. /\ strategy \in Strategies /\ issue \in Issues /\ ledger \in Ledgers[strategy]
      /\ base = <<>> /\ history = <<>> /\ planned = <<>> /\ phase = "idle"
      /\ published = {} /\ pending = {}
  BY DEF Init
<1>2. Typed
  <2>1. strategy \in DOMAIN Base /\ issue \in SUBSET Tokens /\ ledger \in Seq(RowType)
    BY <1>1, InputsAssumption
  <2>2. Len(planned) <= MaxHypotheses
    BY <1>1, BoundsAssumption
  <2> QED BY <1>1, <2>1, <2>2 DEF Typed
<1>3. DOMAIN planned = {} /\ Rotations = {}
  BY <1>1 DEF Rotations
<1>4. AdvisedOnce /\ BatchInv /\ EarnedInv /\ EverySlotCounts
  BY <1>1, <1>3 DEF AdvisedOnce, BatchInv, EarnedInv, EverySlotCounts
<1> QED BY <1>2, <1>4 DEF CycleInv

LEMMA CheckoutStep == CycleInv /\ Checkout => CycleInv'
<1> SUFFICES ASSUME CycleInv, Checkout PROVE CycleInv'
  OBVIOUS
<1>1. /\ base' = ledger /\ history' = ledger \o ForceRows /\ planned' = <<>>
      /\ published' = {} /\ phase' = "planning"
      /\ UNCHANGED <<strategy, issue, ledger, pending>>
  BY DEF Checkout
<1>2. ledger \in Seq(RowType)
  BY DEF CycleInv, Typed
<1>3. DOMAIN planned' = {} /\ Rotations' = {} /\ Len(planned') = 0
  BY <1>1 DEF Rotations
<1>4. Typed'
  <2>1. history' \in Seq(RowType)
    BY <1>1, <1>2, ForceRowsSilent
  <2>2. Len(planned') <= MaxHypotheses /\ Len(planned') < MaxHypotheses
    BY <1>3, BoundsAssumption
  <2> QED BY <1>1, <2>1, <2>2 DEF CycleInv, Typed
<1>5. BatchInv'
  <2>1. Exhausted(history') <=> Exhausted(base')
    BY <1>1, <1>2, ForceRowsSilent
  <2>2. \A e : Blocked(e, base') <=> Blocked(e, history')
    BY <1>1, <1>2, ForceRowsSilent
  <2> QED BY <1>3, <2>1, <2>2 DEF BatchInv
<1>6. AdvisedOnce' /\ EarnedInv' /\ EverySlotCounts'
  BY <1>1, <1>3 DEF AdvisedOnce, EarnedInv, EverySlotCounts
<1> QED BY <1>4, <1>5, <1>6 DEF CycleInv

LEMMA RotateStep == CycleInv /\ Rotate => CycleInv'
<1> SUFFICES ASSUME CycleInv, Rotate PROVE CycleInv'
  OBVIOUS
<1>1. PICK i \in Untried(history) :
        LET e == Candidates[strategy][IssueTokens(history)][i]
        IN  /\ planned' = Append(planned, Hypothesis(e, "rotation", TRUE))
            /\ Reserve(e)
  BY DEF Rotate
<1> DEFINE e == Candidates[strategy][IssueTokens(history)][i]
           h == Hypothesis(e, "rotation", TRUE)
<1>2. Normal(e) /\ ~Blocked(e, history)
  BY UntriedNormal DEF CycleInv
<1>3. planned' = Append(planned, h) /\ Reserve(e)
  BY <1>1
<1> HIDE DEF e
<1>4. /\ h.experiment = e /\ h.by = "rotation" /\ h.usable
      /\ h \in Answered
  BY <1>2 DEF Hypothesis, Answered, Normal
<1> HIDE DEF h
<1>5. phase = "planning" /\ UNCHANGED <<strategy, issue, ledger, base, published, pending>>
  BY DEF Rotate
<1> QED BY <1>2, <1>3, <1>4, <1>5, PlanStep

(* A call of the model that fails, and the end of a truncated one.          *)
LEMMA PhaseStep ==
    ASSUME CycleInv, UNCHANGED <<strategy, issue, ledger, base, history, planned, published, pending>>,
           \/ phase' = "publishing"
           \/ phase' = "retrying" /\ phase = "planning" /\ HandedOver
    PROVE  CycleInv'
<1>1. Typed'
  BY DEF CycleInv, Typed
<1>2. AdvisedOnce'
  BY DEF CycleInv, AdvisedOnce, Rotations
<1>3. BatchInv' /\ EverySlotCounts'
  BY DEF BatchInv, EverySlotCounts
<1>4. EarnedInv'
  <2>1. phase' = "retrying" => Earned
    BY HandoverEarned
  <2>2. Earned' <=> Earned
    BY DEF Earned, Exhausted, ExecutedFailures, Blocked, Rotations
  <2> QED BY <2>1, <2>2 DEF CycleInv, EarnedInv
<1> QED BY <1>1, <1>2, <1>3, <1>4 DEF CycleInv

LEMMA AnswersTyped == \A answer \in ModelAnswers : answer \in Answered /\ answer.by = "model"
BY InputsAssumption DEF HypothesisType, Answered

LEMMA CallModelStep == CycleInv /\ CallModel => CycleInv'
<1> SUFFICES ASSUME CycleInv, CallModel PROVE CycleInv'
  OBVIOUS
<1>1. phase = "planning" /\ HandedOver
  BY DEF CallModel
<1>2. ASSUME NEW answer \in ModelAnswers, AskModel(answer) PROVE CycleInv'
  <2>1. answer \in Answered /\ answer.by = "model"
    BY AnswersTyped
  <2>2. /\ planned' = Append(planned, answer) /\ Reserve(answer.experiment)
        /\ UNCHANGED <<strategy, issue, ledger, base, published, pending>>
    BY <1>2 DEF AskModel
  <2>3. Earned
    BY <1>1, HandoverEarned
  <2> QED BY <1>1, <2>1, <2>2, <2>3, PlanStep
<1>3. ASSUME NEW truncated \in BOOLEAN, ModelFails(truncated) PROVE CycleInv'
  BY <1>1, <1>3, PhaseStep DEF ModelFails
<1> QED BY <1>2, <1>3 DEF CallModel

LEMMA RetryStep ==
    ASSUME CycleInv, NEW answer \in ModelAnswers, Retry(answer)
    PROVE  CycleInv'
<1>1. /\ phase = "retrying" /\ phase' = "publishing"
      /\ planned' = Append(planned, answer)
      /\ UNCHANGED <<strategy, issue, ledger, base, history, published, pending>>
  BY DEF Retry
<1>2. answer \in Answered /\ answer.by = "model" /\ Typed
  BY AnswersTyped DEF CycleInv
<1>3. planned' \in Seq(Answered) /\ Len(planned') = Len(planned) + 1
  BY <1>1, <1>2, PlanGrows
<1>4. Typed'
  <2>1. Len(planned') <= MaxHypotheses
    BY <1>1, <1>2, <1>3, BoundsAssumption DEF Typed
  <2> QED BY <1>1, <1>2, <1>3, <2>1 DEF Typed
<1>5. AdvisedOnce'
  BY <1>1, <1>2, AdvisedGrows
<1>6. BatchInv' /\ EverySlotCounts'
  BY <1>1 DEF BatchInv, EverySlotCounts
<1>7. EarnedInv'
  <2>1. Earned
    BY <1>1 DEF CycleInv, EarnedInv
  <2>2. Earned'
    BY <1>1, <1>2, <2>1, EarnedGrows
  <2> QED BY <2>2 DEF EarnedInv
<1> QED BY <1>4, <1>5, <1>6, <1>7 DEF CycleInv

(* A page that is not lost publishes every hypothesis of the rotation: the  *)
(* publisher leaves it as it is and base does not rule it out.              *)
LEMMA PublishStep ==
    ASSUME CycleInv, NEW othersValid \in BOOLEAN, Publish(othersValid)
    PROVE  CycleInv'
<1>1. /\ phase = "publishing" /\ history' = <<>>
      /\ UNCHANGED <<strategy, issue, ledger, base, planned>>
  BY DEF Publish
<1>2. \/ /\ phase' = "idle" /\ \A e \in Usable : Valid(e)
         /\ published' = {e \in {Sanitize(f) : f \in Usable} : ~Blocked(e, base)}
         /\ pending' = published'
      \/ /\ phase' = "failed" /\ UNCHANGED <<published, pending>>
  BY DEF Publish
<1>3. Typed'
  <2>1. CASE phase' = "failed"
    BY <1>1, <1>2, <2>1 DEF CycleInv, Typed
  <2>2. CASE phase' = "idle"
    <3>1. Usable \subseteq ExperimentType
      <4>1. \A h \in ToSet(planned) : h \in Answered
        BY DEF CycleInv, Typed, ToSet
      <4> QED BY <4>1 DEF Usable, Answered
    <3>2. strategy \in DOMAIN Base
      BY DEF CycleInv, Typed
    <3>3. published' \subseteq Sound
      BY <1>2, <2>2, <3>1, <3>2, SanitizeSound
    <3> QED BY <1>1, <1>2, <2>2, <3>3 DEF CycleInv, Typed
  <2> QED BY <1>2, <2>1, <2>2
<1>4. AdvisedOnce'
  BY <1>1 DEF CycleInv, AdvisedOnce, Rotations
<1>5. BatchInv'
  BY <1>2 DEF BatchInv
<1>6. EarnedInv'
  <2>1. Earned' <=> Earned
    BY <1>1 DEF Earned, Exhausted, ExecutedFailures, Blocked, Rotations
  <2> QED BY <1>1, <1>2, <2>1 DEF CycleInv, EarnedInv
<1>7. EverySlotCounts'
  <2> SUFFICES ASSUME phase' = "idle", NEW i \in Rotations
               PROVE  /\ Sanitize(planned[i].experiment) \in published'
                      /\ \A j \in Rotations \ {i} :
                            Sanitize(planned[i].experiment) # Sanitize(planned[j].experiment)
    BY <1>1 DEF EverySlotCounts, Rotations, Sanitize
  <2>1. \A k \in Rotations :
          /\ planned[k].usable /\ Normal(planned[k].experiment)
          /\ ~Blocked(planned[k].experiment, base)
          /\ \A j \in Rotations : planned[k].experiment = planned[j].experiment => k = j
    BY DEF CycleInv, AdvisedOnce
  <2>2. \A k \in Rotations : Sanitize(planned[k].experiment) = planned[k].experiment
    BY <2>1, SanitizeKeeps
  <2>3. planned[i].experiment \in Usable
    <3>1. planned[i] \in ToSet(planned)
      BY DEF Rotations, ToSet
    <3> QED BY <2>1, <3>1 DEF Usable
  <2>4. Sanitize(planned[i].experiment) \in published'
    BY <1>2, <2>1, <2>2, <2>3
  <2> QED BY <2>1, <2>2, <2>4
<1> QED BY <1>3, <1>4, <1>5, <1>6, <1>7 DEF CycleInv

(* What NiakVIO executes changes the ledger only, not what a batch or the   *)
(* publisher compares with.                                                *)
LEMMA WriteStep ==
    ASSUME CycleInv, NEW e \in pending, NEW row \in RowType, Write(e, row),
           phase' \in {phase, "repaired"}
    PROVE  CycleInv'
<1>1. UNCHANGED <<strategy, issue, base, history, planned, published>> /\ pending' \subseteq pending
  BY DEF Write
<1>2. ledger' \in Seq(RowType)
  <2>1. ledger \in Seq(RowType)
    BY DEF CycleInv, Typed
  <2>2. Append(ledger, row) \in Seq(RowType)
    BY <2>1
  <2>3. [i \in DOMAIN ledger |-> IF ledger[i].experiment = e THEN row ELSE ledger[i]] \in Seq(RowType)
    BY <2>1
  <2> QED BY <2>2, <2>3 DEF Write
<1>3. Typed'
  BY <1>1, <1>2 DEF CycleInv, Typed
<1>4. AdvisedOnce'
  BY <1>1 DEF CycleInv, AdvisedOnce, Rotations
<1>5. BatchInv'
  BY <1>1 DEF CycleInv, BatchInv, Exhausted, ExecutedFailures, Blocked, Rotations
<1>6. EarnedInv'
  <2>1. Earned' <=> Earned
    BY <1>1 DEF Earned, Exhausted, ExecutedFailures, Blocked, Rotations
  <2> QED BY <1>1, <2>1 DEF CycleInv, EarnedInv
<1>7. EverySlotCounts'
  BY <1>1 DEF CycleInv, EverySlotCounts, Rotations, Sanitize
<1> QED BY <1>3, <1>4, <1>5, <1>6, <1>7 DEF CycleInv

LEMMA CycleStep == CycleInv /\ [Next]_vars => CycleInv'
<1> SUFFICES ASSUME CycleInv, [Next]_vars PROVE CycleInv'
  OBVIOUS
<1>0. \A e \in pending : e \in ExperimentType
  BY DEF CycleInv, Typed, Sound
<1>1. CASE Checkout
  BY <1>1, CheckoutStep
<1>2. CASE Rotate
  BY <1>2, RotateStep
<1>3. CASE CallModel
  BY <1>3, CallModelStep
<1>4. CASE \E answer \in ModelAnswers : Retry(answer)
  BY <1>4, RetryStep
<1>5. CASE RetryFails
  BY <1>5, PhaseStep DEF RetryFails
<1>6. CASE \E othersValid \in BOOLEAN : Publish(othersValid)
  BY <1>6, PublishStep
<1>7. ASSUME NEW e \in pending, NEW token \in Reasons, Fail(e, token) PROVE CycleInv'
  <2>1. Row(e, TRUE, "yes", 1, "rejected", {token}) \in RowType
    BY <1>0, InputsAssumption DEF Row, RowType
  <2> QED BY <1>7, <2>1, WriteStep DEF Fail
<1>8. ASSUME NEW e \in pending, NotExecuted(e) PROVE CycleInv'
  <2> DEFINE before == \E i \in RowOf(e) : ledger[i].executed = "yes"
  <2>1. Row(e, TRUE, IF before THEN "yes" ELSE "no", 1, "unavailable", {"terminal"}) \in RowType
    BY <1>0 DEF Row, RowType, Tokens
  <2>2. Write(e, Row(e, TRUE, IF before THEN "yes" ELSE "no", 1, "unavailable", {"terminal"}))
    BY <1>8 DEF NotExecuted
  <2>3. phase' = phase
    BY <1>8 DEF NotExecuted
  <2> HIDE DEF before
  <2> QED BY <2>1, <2>2, <2>3, WriteStep
<1>9. ASSUME NEW e \in pending, Accept(e) PROVE CycleInv'
  <2>1. Row(e, TRUE, "yes", 0, "success", {}) \in RowType
    BY <1>0 DEF Row, RowType
  <2> QED BY <1>9, <2>1, WriteStep DEF Accept
<1>10. CASE UNCHANGED vars
  <2>1. UNCHANGED <<strategy, issue, ledger, base, history, planned, phase, published, pending>>
    BY <1>10 DEF vars
  <2>2. Typed' /\ AdvisedOnce'
    BY <2>1 DEF CycleInv, Typed, AdvisedOnce, Rotations
  <2>3. BatchInv'
    BY <2>1 DEF CycleInv, BatchInv, Exhausted, ExecutedFailures, Blocked, Rotations
  <2>4. Earned' <=> Earned
    BY <2>1 DEF Earned, Exhausted, ExecutedFailures, Blocked, Rotations
  <2>5. EarnedInv' /\ EverySlotCounts'
    BY <2>1, <2>4 DEF CycleInv, EarnedInv, EverySlotCounts, Rotations, Sanitize
  <2> QED BY <2>2, <2>3, <2>5 DEF CycleInv
<1> QED BY <1>1, <1>2, <1>3, <1>4, <1>5, <1>6, <1>7, <1>8, <1>9, <1>10 DEF Next

-----------------------------------------------------------------------------
(* Ledgers and hypotheses are well formed, and what is published is in the  *)
(* executor's bounds, whatever the model answers.                           *)
THEOREM AdviceTyped == Spec => []TypeOK
<1>1. CycleInv => TypeOK
  <2> SUFFICES ASSUME CycleInv PROVE TypeOK
    OBVIOUS
  <2>1. ToSet(ledger) \cup ToSet(base) \cup ToSet(history) \subseteq RowType
    BY DEF CycleInv, Typed, ToSet
  <2>2. \A h \in ToSet(planned) : h.experiment \in ExperimentType
    <3>1. \A h \in ToSet(planned) : h \in Answered
      BY DEF CycleInv, Typed, ToSet
    <3> QED BY <3>1 DEF Answered
  <2>3. Len(planned) \in 0..MaxHypotheses
    BY BoundsAssumption DEF CycleInv, Typed
  <2> QED BY <2>1, <2>2, <2>3 DEF CycleInv, Typed, TypeOK, Sound, Bounded
<1> QED BY InitStep, CycleStep, <1>1, PTL DEF Spec

(* Each hypothesis of the rotation is published as a row of its own, for    *)
(* any ledger, strategy and number of hypotheses.                           *)
THEOREM RotationPublished == Spec => []EverySlotCounts
<1>1. CycleInv => EverySlotCounts
  BY DEF CycleInv
<1> QED BY InitStep, CycleStep, <1>1, PTL DEF Spec

(* Neither reservations nor FORCE rows hand a provider to the model: the    *)
(* ledger had exhausted it, or the batch advised all that was left.         *)
THEOREM ModelIsLast == Spec => []HandoverIsEarned
<1>1. CycleInv => HandoverIsEarned
  BY DEF CycleInv, EarnedInv, Earned, HandoverIsEarned
<1> QED BY InitStep, CycleStep, <1>1, PTL DEF Spec
=============================================================================
