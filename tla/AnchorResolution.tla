---------------------------- MODULE AnchorResolution ----------------------------
(***************************************************************************)
(* From an edit of the model to one exact find/replace of the source.      *)
(*                                                                         *)
(* The model names an edit unit, or a snippet and the causal window it saw *)
(* it in.  The planner locates one occurrence, trims what the edit leaves  *)
(* unchanged, widens what is left with bytes around the occurrence until   *)
(* it is found only once, and replaces the first match in the source.      *)
(* Texts are sequences of letters; offsets start from 0.                   *)
(***************************************************************************)
EXTENDS Integers, Sequences

CONSTANTS
    Letters,         \* characters
    Sources,         \* texts of a provider's runtime, patch or module
    Focuses,         \* where the keywords of the failure are found, in order
    Snippets,        \* what a model may copy
    Replacements,    \* what a model may put in its place
    MaxChars,        \* characters of all windows together (2000)
    MaxWindows,      \* windows of a prompt (2)
    Before, After,   \* characters around a keyword (380, 620)
    Short, Middle, Long,  \* limits of a find or a replacement (320, 640, 1800)
    FragmentFrom,    \* length from which a fragment is suspicious (48)
    MaxStep          \* characters added on each side at a time (12)

ASSUME TextsAssumption ==
    /\ Sources \cup Snippets \cup Replacements \subseteq Seq(Letters)
    /\ Focuses \subseteq Seq(Nat)
ASSUME LimitsAssumption ==
    /\ {MaxChars, MaxWindows, Before, After, FragmentFrom, MaxStep} \subseteq Nat \ {0}
    /\ Short \in Nat /\ Middle \in Short..Long /\ Long \in Nat

VARIABLES
    source,      \* constant of a behaviour
    windows,     \* constant of a behaviour: source windows of the request
    edit,        \* the edit of the model; its find is the unit's own text
    phase,
    start,       \* offset of the occurrence selected
    target,      \* offset of the anchor
    anchor,      \* find, trimmed and widened
    replacement, \* replace, trimmed and widened
    updated      \* the source after the mutation

vars == <<source, windows, edit, phase, start, target, anchor, replacement, updated>>

-----------------------------------------------------------------------------
(* Texts.                                                                  *)

Slice(text, from, to) == SubSeq(text, from + 1, to)

At(text, offset, find) == Slice(text, offset, offset + Len(find)) = find

Least(m, n) == IF m < n THEN m ELSE n
Greatest(m, n) == IF m < n THEN n ELSE m

\* Offsets that str.find returns from left to right, each after the last match.
Scan(text, find) ==
    LET from[offset \in Nat] ==
            IF offset + Len(find) > Len(text) THEN <<>>
            ELSE IF At(text, offset, find)
                 THEN <<offset>> \o from[offset + Greatest(1, Len(find))]
                 ELSE from[offset + 1]
    IN  from[0]

Count(text, find) == Len(Scan(text, find))

Splice(text, offset, find, replace) ==
    Slice(text, 0, offset) \o replace \o Slice(text, offset + Len(find), Len(text))

ReplaceFirst(text, find, replace) == Splice(text, Head(Scan(text, find)), find, replace)

-----------------------------------------------------------------------------
(* Causal windows.                                                         *)

Window(from, to, focus) ==
    [offset |-> from, text |-> Slice(source, from, to),
     focus |-> Greatest(0, Least(to - from - 1, focus - from))]

\* An interval around each keyword that meets none of the earlier ones.
Intervals(focuses) ==
    LET around(focus) == [from |-> Greatest(0, focus - Before),
                          to |-> Least(Len(source), focus + 1 + After), focus |-> focus]
        upTo[n \in 0..Len(focuses)] ==
            IF n = 0 THEN <<>>
            ELSE LET kept == upTo[n - 1]
                     new  == around(focuses[n])
                 IN  IF \/ Len(kept) = MaxWindows
                        \/ \E i \in DOMAIN kept :
                              new.from < kept[i].to /\ new.to > kept[i].from
                     THEN kept
                     ELSE Append(kept, new)
    IN  upTo[Len(focuses)]

HeadAndTail ==
    LET head == MaxChars \div 2
        tail == MaxChars - head
    IN  <<[from |-> 0, to |-> head, focus |-> Least(head \div 2, head - 1)],
          [from |-> Len(source) - tail, to |-> Len(source),
           focus |-> Len(source) - Greatest(1, tail \div 2)]>>

\* Intervals cut to what is left of MaxChars.
Cut(intervals) ==
    LET upTo[n \in 0..Len(intervals)] ==
            IF n = 0 THEN [rows |-> <<>>, left |-> MaxChars]
            ELSE LET rest == upTo[n - 1]
                     i    == intervals[n]
                     to   == Least(i.to, i.from + rest.left)
                 IN  IF rest.left = 0 THEN rest
                     ELSE [rows |-> Append(rest.rows, Window(i.from, to, i.focus)),
                           left |-> rest.left - (to - i.from)]
    IN  upTo[Len(intervals)].rows

SourceWindows(focuses) ==
    IF Len(source) <= MaxChars
    THEN <<Window(0, Len(source),
                  IF focuses = <<>> THEN Len(source) \div 2 ELSE Head(focuses))>>
    ELSE Cut(IF focuses = <<>> THEN HeadAndTail ELSE Intervals(focuses))

-----------------------------------------------------------------------------
(* The edit.                                                               *)

\* A unit is a piece of the source whose offset the planner knows.
\* declares: the find holds the declaration of a function.
Edit(scope, unit, window, find, replace, declares) ==
    [scope |-> scope, unit |-> unit, window |-> window, find |-> find,
     replace |-> replace, declares |-> declares]

None == -1

MaxFind(e) ==
    IF e.unit # None /\ (e.scope = "bloc" \/ e.declares) THEN Long ELSE Short

MaxReplace(e) ==
    IF e.scope = "bloc" \/ (e.unit # None /\ e.declares) THEN Long ELSE Middle

Occurs(text, find) == Scan(text, find) # <<>>

Fragment(e) ==
    /\ e.scope = "patch"
    /\ e.replace # <<>>
    /\ Len(e.find) >= FragmentFrom
    /\ Len(e.replace) * 2 < Len(e.find)
    /\ Occurs(e.find, e.replace)

\* A Bloc's function gets its declaration back after its length was checked, so
\* that the whole may exceed the limit until the unchanged ends are trimmed.
Enveloped(e) == e.scope = "bloc" /\ e.unit # None /\ e.declares

Acceptable(e) ==
    /\ e.find # <<>>
    /\ e.unit = None => Len(e.find) <= Short
    /\ Len(e.replace) <= MaxReplace(e) \/ Enveloped(e)
    /\ e.scope = "bloc" => e.replace # <<>>
    /\ ~Fragment(e)

-----------------------------------------------------------------------------
(* The occurrence.                                                         *)

\* A focus of 0 is taken for none.
Focus(window) == IF window.focus = 0 THEN Len(window.text) \div 2 ELSE window.focus

\* Containing the focus, else after it, else before it; then by distance.
FocusRank(window, position, length) ==
    LET focus == Focus(window)
    IN  IF position <= focus /\ focus < position + length THEN <<0, 0>>
        ELSE IF position >= focus THEN <<1, position - focus>>
        ELSE <<2, focus - (position + length)>>

ClosestToFocus(r, s) == r[2] < s[2]                                    \* mutant
Nearer(r, s) == r[1] < s[1] \/ (r[1] = s[1] /\ r[2] < s[2])

Candidates(ws, find) ==
    UNION {{[at |-> w.offset + p, rank |-> FocusRank(w, p, Len(find))] :
               p \in {Scan(w.text, find)[i] : i \in DOMAIN Scan(w.text, find)}} : w \in ws}

Best(candidates) ==
    LET best == {c \in candidates : \A d \in candidates : ~Nearer(d.rank, c.rank)}
    IN  {c \in best : best = {c}}

\* The windows in which the snippet is looked for: the one the model named, or
\* all of them when it is not there.
Searched(e) ==
    IF Occurs(windows[e.window].text, e.find)
    THEN {windows[e.window]} ELSE {windows[i] : i \in DOMAIN windows}

\* At most one offset: none is a rejection.
Located(e) ==
    IF e.unit # None THEN {e.unit}
    ELSE IF e.window = None
    THEN IF Count(source, e.find) = 1 THEN {Head(Scan(source, e.find))} ELSE {}
    ELSE IF e.window \notin DOMAIN windows THEN {}
    ELSE {c.at : c \in Best(Candidates(Searched(e), e.find))}

-----------------------------------------------------------------------------
Init ==
    /\ source \in Sources
    /\ \E focuses \in Focuses :
          /\ \A i \in DOMAIN focuses : focuses[i] < Len(source)
          /\ windows = SourceWindows(focuses)
    /\ edit = Edit("bloc", None, None, <<>>, <<>>, FALSE)
    /\ phase = "answering"
    /\ start = 0
    /\ target = 0
    /\ anchor = <<>>
    /\ replacement = <<>>
    /\ updated = <<>>

\* The answer of the model.  A unit lies in a window, or is a whole function
\* anywhere in the source; a rejected one is gone with its request.
AnswerUnit(scope, offset, length, replace, declares) ==
    /\ phase = "answering"
    /\ offset + length <= Len(source)
    /\ declares \/ \E i \in DOMAIN windows :
          /\ offset >= windows[i].offset
          /\ offset + length <= windows[i].offset + Len(windows[i].text)
    /\ edit' = Edit(scope, offset, None, Slice(source, offset, offset + length),
                    replace, declares)
    /\ phase' = IF Acceptable(edit') THEN "locating" ELSE "rejected"
    /\ UNCHANGED <<source, windows, start, target, anchor, replacement, updated>>

AnswerSnippet(scope, window, find, replace, declares) ==
    /\ phase = "answering"
    /\ edit' = Edit(scope, None, window, find, replace, declares)
    /\ phase' = IF Acceptable(edit') THEN "locating" ELSE "rejected"
    /\ UNCHANGED <<source, windows, start, target, anchor, replacement, updated>>

\* Equal texts are a no-op.
Locate ==
    /\ phase = "locating"
    /\ IF Located(edit) = {} \/ edit.find = edit.replace
       THEN /\ phase' = "rejected"
            /\ start' = start
       ELSE /\ phase' = "trimming"
            /\ start' \in Located(edit)
    /\ UNCHANGED <<source, windows, edit, target, anchor, replacement, updated>>

CommonPrefix(s, t) ==
    CHOOSE n \in 0..Least(Len(s), Len(t)) :
        /\ SubSeq(s, 1, n) = SubSeq(t, 1, n)
        /\ n < Least(Len(s), Len(t)) => s[n + 1] # t[n + 1]

CommonSuffix(s, t) ==
    CHOOSE n \in 0..Least(Len(s), Len(t)) :
        /\ Slice(s, Len(s) - n, Len(s)) = Slice(t, Len(t) - n, Len(t))
        /\ n < Least(Len(s), Len(t)) => s[Len(s) - n] # t[Len(t) - n]

UnchangedEndOfAll(find, replace, prefix) == CommonSuffix(find, replace)   \* mutant
UnchangedEnd(find, replace, prefix) ==
    CommonSuffix(Slice(find, prefix, Len(find)), Slice(replace, prefix, Len(replace)))

\* _minimize_local_edit; a pure insertion keeps its context.
Minimized(find, replace) ==
    LET prefix == CommonPrefix(find, replace)
        suffix == UnchangedEnd(find, replace, prefix)
    IN  IF prefix + suffix = Len(find)
        THEN [find |-> find, replace |-> replace, prefix |-> 0]
        ELSE [find |-> Slice(find, prefix, Len(find) - suffix),
              replace |-> Slice(replace, prefix, Len(replace) - suffix), prefix |-> prefix]

Trim ==
    /\ phase = "trimming"
    /\ LET e == IF Count(source, edit.find) # 1 \/ edit.declares
                THEN Minimized(edit.find, edit.replace)
                ELSE [find |-> edit.find, replace |-> edit.replace, prefix |-> 0]
       IN  /\ anchor' = e.find
           /\ replacement' = e.replace
           /\ target' = start + e.prefix
    /\ phase' = "widening"
    /\ UNCHANGED <<source, windows, edit, start, updated>>

Widen ==
    LET room  == MaxFind(edit) - Len(anchor)
        step  == Least(MaxStep, Greatest(1, room \div 2))
        end   == target + Len(anchor)
        left  == Least(step, target)
        right == Least(step, Len(source) - end)
        prefix == Slice(source, target - left, target)
        suffix == Slice(source, end, end + right)
    IN  /\ phase = "widening"
        /\ Count(source, anchor) # 1
        /\ IF room <= 0 \/ left + right = 0
           THEN /\ phase' = "rejected"
                /\ UNCHANGED <<target, anchor, replacement>>
           ELSE /\ target' = target - left
                /\ anchor' = prefix \o anchor \o suffix
                /\ replacement' = prefix \o replacement \o suffix
                /\ phase' = IF Len(replacement') > MaxReplace(edit)
                            THEN "rejected" ELSE "widening"
        /\ UNCHANGED <<source, windows, edit, start, updated>>

Apply ==
    /\ phase = "widening"
    /\ Count(source, anchor) = 1
    /\ IF Len(anchor) > MaxFind(edit) \/ Len(replacement) > MaxReplace(edit)
       THEN /\ phase' = "rejected"
            /\ updated' = updated
       ELSE /\ phase' = "applied"
            /\ updated' = ReplaceFirst(source, anchor, replacement)
    /\ UNCHANGED <<source, windows, edit, start, target, anchor, replacement>>

\* What the edit removes, declares or calls, or the syntax, is refused.
Refuse ==
    /\ phase = "trimming" \/ (phase = "widening" /\ Count(source, anchor) = 1)
    /\ phase' = "rejected"
    /\ UNCHANGED <<source, windows, edit, start, target, anchor, replacement, updated>>

-----------------------------------------------------------------------------
Scopes == {"bloc", "patch"}

Next ==
    \/ \E scope \in Scopes, offset \in 0..Len(source), length \in 1..Len(source),
          replace \in Replacements, declares \in BOOLEAN :
             AnswerUnit(scope, offset, length, replace, declares)
    \/ \E scope \in Scopes, window \in (DOMAIN windows) \cup {None, 0}, find \in Snippets,
          replace \in Replacements, declares \in BOOLEAN :
             AnswerSnippet(scope, window, find, replace, declares)
    \/ Locate
    \/ Trim
    \/ Widen
    \/ Apply
    \/ Refuse

Spec == Init /\ [][Next]_vars

-----------------------------------------------------------------------------
(* Properties.                                                             *)

\* Offsets at which the text is found, those of overlapping matches included.
Matches(text, find) == {o \in 0..(Len(text) - Len(find)) : At(text, o, find)}

\* Trimming, widening and the replacement of the first match are, together, the
\* replacement of the occurrence selected, in the limits of the scope.  Counting
\* leaves out overlapping matches, and so does this.
EditLandsWhereSelected ==
    phase = "applied" /\ Matches(source, anchor) = {target} =>
        /\ updated = Splice(source, start, edit.find, edit.replace)
        /\ Len(anchor) <= MaxFind(edit) /\ Len(replacement) <= MaxReplace(edit)

\* "Compile a window-local semantic edit into one globally unique anchor": with
\* the anchor, the occurrence that was selected is what changes.
SelectionIsReplaced ==
    phase = "applied" => updated = Splice(source, start, edit.find, edit.replace)

Inside(i, offset) ==
    /\ offset \in Matches(source, edit.find)
    /\ windows[i].offset <= offset
    /\ offset + Len(edit.find) <= windows[i].offset + Len(windows[i].text)

\* Brain selects "the occurrence that contains the focus, otherwise the nearest
\* occurrence after it, otherwise the nearest occurrence before it".
Closer(i, offset, j, other) ==
    LET focus(k)    == windows[k].offset + windows[k].focus
        holds(k, o) == o <= focus(k) /\ focus(k) < o + Len(edit.find)
        after(k, o) == o > focus(k)
    IN  /\ ~holds(j, other)
        /\ \/ holds(i, offset)
           \/ after(i, offset) /\ (after(j, other) => offset - focus(i) < other - focus(j))
           \/ /\ ~after(i, offset) /\ ~after(j, other)
              /\ focus(i) - offset < focus(j) - other

\* A snippet is replaced in the window that the model named, or, when it is not
\* there, in the window where it is best; a tie is refused.  Left out are finds
\* that overlap themselves and windows that begin with their focus.
CausalOccurrence ==
    LET apart == \A o, p \in Matches(source, edit.find) : o < p => o + Len(edit.find) <= p
        named == \E o \in Matches(source, edit.find) : Inside(edit.window, o)
    IN  /\ phase = "trimming"
        /\ edit.window # None
        /\ apart
        /\ \A i \in DOMAIN windows : windows[i].focus > 0
        => \E i \in DOMAIN windows :
              /\ Inside(i, start)
              /\ named => i = edit.window
              /\ \A j \in DOMAIN windows, o \in Matches(source, edit.find) \ {start} :
                    Inside(j, o) /\ (named => j = i) => Closer(i, start, j, o)
=============================================================================
