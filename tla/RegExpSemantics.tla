-------------------------- MODULE RegExpSemantics --------------------------
(***************************************************************************)
(* What a pattern means (ECMA-262, section 22.2.2), on the trees           *)
(* RegExpCompiler compiles: the reference the matcher is checked against.  *)
(*                                                                         *)
(* The standard's matchers call a continuation; here a matcher gives the   *)
(* sequence of the states it would call it with, in that order, so that    *)
(* the first is the match.  A state is a position and, for each group,     *)
(* what it captured: <<>> or a pair of positions.  `v` holds the text,     *)
(* whether it is read by code points and the names of the groups, `f` the  *)
(* flags, and `g` is the number of groups to the left of the term.         *)
(***************************************************************************)
EXTENDS Integers, SequencesExt, FiniteSetsExt

CONSTANTS
    Alphabet,           \* the characters a class is looked at over
    CanonicalOf(_, _)   \* Canonicalize, of a character in a mode

State(end, captures) == [end |-> end, captures |-> captures]

\* The outcomes of one matcher after another.
Then(outcomes, M(_)) == FlattenSeq([k \in 1 .. Len(outcomes) |-> M(outcomes[k])])

Pair(v, p) == /\ v.codePoints /\ p >= 0 /\ p + 1 < Len(v.text)
              /\ v.text[p + 1] \in 55296 .. 56319 /\ v.text[p + 2] \in 56320 .. 57343

\* The character after a position and before it, with where it ends.
After(v, p) ==
    IF Pair(v, p)
    THEN [c |-> 65536 + (v.text[p + 1] - 55296) * 1024 + (v.text[p + 2] - 56320), at |-> p + 2]
    ELSE [c |-> v.text[p + 1], at |-> p + 1]
Before(v, p) == [After(v, IF Pair(v, p - 2) THEN p - 2 ELSE p - 1)
                 EXCEPT !.at = IF Pair(v, p - 2) THEN p - 2 ELSE p - 1]

Canon(c, f) == IF f.ignoreCase THEN CanonicalOf(c, f.unicode) ELSE c

LineTerminators == {10, 13, 8232, 8233}
WordCharacters(f) ==
    LET basic == (48 .. 57) \cup (65 .. 90) \cup {95} \cup (97 .. 122)
    IN  basic \cup {c \in Alphabet : f.ignoreCase /\ f.unicode /\ CanonicalOf(c, TRUE) \in basic}
WhiteSpace == {9, 11, 12, 32, 160, 65279, 5760, 8239, 8287, 12288} \cup (8192 .. 8202)
EscapeSet(name, f) ==
    CASE name = "d" -> 48 .. 57
      [] name = "s" -> WhiteSpace \cup LineTerminators
      [] name = "w" -> WordCharacters(f)

\* Character classes, over the alphabet.  In set notation the sets hold
\* folded characters when case is ignored.
Folds(S, f) == IF f.sets /\ f.ignoreCase THEN {CanonicalOf(c, TRUE) : c \in S} ELSE S
Outside(S, inverted, f) == IF inverted THEN Folds(Alphabet, f) \ S ELSE S
Strings(all) == [chars |-> {s[1] : s \in {t \in all : Len(t) = 1}}, strings |-> {s \in all : Len(s) # 1}]
RECURSIVE SetOf(_, _)
ItemSet(i, f) ==
    CASE i.kind = "char"  -> [chars |-> Folds({i.c}, f), strings |-> {}]
      [] i.kind = "range" -> [chars |-> Folds({c \in Alphabet : i.lo <= c /\ c <= i.hi}, f), strings |-> {}]
      [] i.kind = "esc"   -> [chars |-> Outside(Folds(Alphabet \cap EscapeSet(i.name, f), f), i.inverted, f),
                               strings |-> {}]
      [] i.kind = "strings" ->
            Strings({[k \in 1 .. Len(s) |-> Canon(s[k], f)] : s \in ToSet(i.strings)})
      [] i.kind = "class" -> SetOf(i, f)
Combine(a, b, op) ==
    LET Both(x, y) == CASE op = "union" -> x \cup y [] op = "inter" -> x \cap y [] op = "sub" -> x \ y
    IN  [chars |-> Both(a.chars, b.chars), strings |-> Both(a.strings, b.strings)]
\* Outside set notation the inversion is of the match: CharacterSetMatcher.
Inverted(set, class, f) == [set EXCEPT !.chars = Outside(@, class.inverted /\ f.sets, f)]
SetOf(class, f) ==
    Inverted(FoldLeftDomain(LAMBDA set, k :
                 Combine(set, ItemSet(class.items[k], f), IF k = 1 THEN "union" ELSE class.op),
                 [chars |-> {}, strings |-> {}], class.items),
             class, f)

\* CharacterSetMatcher
OneOf(v, f, x, back, Holds(_)) ==
    IF (back /\ x.end = 0) \/ (~back /\ x.end = Len(v.text)) THEN <<>>
    ELSE LET r == IF back THEN Before(v, x.end) ELSE After(v, x.end)
         IN  IF Holds(r.c) THEN <<State(r.at, x.captures)>> ELSE <<>>
InSet(S, c, f) == \E a \in S : Canon(a, f) = Canon(c, f)

\* A string of set notation, one character after the other.
RECURSIVE Literally(_, _, _, _)
Literally(v, f, x, s) ==
    IF s = <<>> THEN <<x>>
    ELSE Then(OneOf(v, f, x, FALSE, LAMBDA c : Canon(c, f) = Canon(Head(s), f)),
              LAMBDA y : Literally(v, f, y, Tail(s)))

\* The strings of the class, the longest first, then its characters.
SetMatches(v, f, x, back, set, inverted) ==
    LET long == SetToSortSeq(set.strings \ {<<>>}, LAMBDA s, t : Len(s) > Len(t))
    IN  FlattenSeq([k \in 1 .. Len(long) |-> Literally(v, f, x, long[k])])
        \o OneOf(v, f, x, back, LAMBDA c : InSet(set.chars, c, f) # inverted)
        \o (IF <<>> \in set.strings THEN <<x>> ELSE <<>>)

\* IsWordChar
WordAt(v, f, p) == p \in 0 .. Len(v.text) - 1 /\ After(v, p).c \in WordCharacters(f)
WordBefore(v, f, p) == p > 0 /\ Before(v, p).c \in WordCharacters(f)

\* BackreferenceMatcher: a group of a set of groups with the same name.
RECURSIVE Reread(_, _, _, _, _, _)
Reread(v, f, from, to, p, back) ==
    \* the position after the text of from..to is read again at p, or -1
    IF from = to THEN p
    ELSE IF (back /\ p = 0) \/ (~back /\ p = Len(v.text)) THEN -1
    ELSE LET old == IF back THEN Before(v, to) ELSE After(v, from)
             new == IF back THEN Before(v, p) ELSE After(v, p)
         IN  IF Canon(old.c, f) # Canon(new.c, f) THEN -1
             ELSE IF back THEN Reread(v, f, from, old.at, new.at, back)
                          ELSE Reread(v, f, old.at, to, new.at, back)
Refers(v, f, x, back, groups) ==
    LET set == {g \in groups : x.captures[g] # <<>>}
        r   == x.captures[CHOOSE g \in set : TRUE]
        e   == Reread(v, f, r[1], r[2], x.end, back)
    IN  IF set = {} THEN <<x>> ELSE IF e = -1 THEN <<>> ELSE <<State(e, x.captures)>>

\* The groups in a term.
RECURSIVE GroupsIn(_)
GroupsIn(t) ==
    LET InBody(alts) == Len(FlattenSeq([k \in 1 .. Len(FlattenSeq(alts)) |->
                               [n \in 1 .. GroupsIn(FlattenSeq(alts)[k]) |-> n]]))
    IN  CASE t.kind = "group" -> 1 + InBody(t.body)
          [] t.kind \in {"plain", "modifiers", "look"} -> InBody(t.body)
          [] t.kind = "quant" -> GroupsIn(t.atom)
          [] OTHER -> 0
GroupsBefore(terms, k) == FoldLeft(LAMBDA n, t : n + GroupsIn(t), 0, SubSeq(terms, 1, k - 1))

RECURSIVE Disjunction(_, _, _, _, _, _)

Looked(x, negative, inside) ==
    CASE negative  -> IF inside = <<>> THEN <<x>> ELSE <<>>
      [] ~negative -> IF inside = <<>> THEN <<>> ELSE <<State(x.end, inside[1].captures)>>

\* Around again, or on from here.
AroundOr(x, min, max, greedy, again) ==
    CASE max = 0 -> <<x>>
      [] max # 0 /\ min # 0 -> again
      [] max # 0 /\ min = 0 /\ greedy -> again \o <<x>>
      [] OTHER -> <<x>> \o again

\* RepeatMatcher: an iteration past the least number must have advanced.
RECURSIVE Term(_, _, _, _, _, _)
RECURSIVE Repeat(_, _, _, _, _, _, _, _)
Repeat(v, f, q, back, g, x, min, max) ==
    LET inner == g + 1 .. g + GroupsIn(q.atom)
        reset == [k \in DOMAIN x.captures |-> IF k \in inner THEN <<>> ELSE x.captures[k]]
    IN  AroundOr(x, min, max, q.greedy,
                Then(Term(v, f, q.atom, State(x.end, reset), back, g),
                     LAMBDA y : IF min = 0 /\ y.end = x.end THEN <<>>
                                ELSE Repeat(v, f, q, back, g, y, IF min = 0 THEN 0 ELSE min - 1,
                                            IF max = 2147483647 THEN max ELSE max - 1)))

\* CompileAtom, CompileAssertion
Term(v, f, t, x, back, g) ==
    CASE t.kind = "char" -> OneOf(v, f, x, back, LAMBDA c : Canon(c, f) = Canon(t.c, f))
      [] t.kind = "dot"  -> OneOf(v, f, x, back, LAMBDA c : f.dotAll \/ c \notin LineTerminators)
      [] t.kind \in {"esc", "class"} ->
            SetMatches(v, f, x, back, ItemSet(t, f), t.kind = "class" /\ t.inverted /\ ~f.sets)
      [] t.kind = "line_start" ->
            IF x.end = 0 \/ (f.multiLine /\ Before(v, x.end).c \in LineTerminators) THEN <<x>> ELSE <<>>
      [] t.kind = "line_end" ->
            IF x.end = Len(v.text) \/ (f.multiLine /\ After(v, x.end).c \in LineTerminators)
            THEN <<x>> ELSE <<>>
      [] t.kind = "word_boundary" ->
            IF (WordBefore(v, f, x.end) # WordAt(v, f, x.end)) # t.not THEN <<x>> ELSE <<>>
      [] t.kind = "ref" -> Refers(v, f, x, back, {t.group})
      [] t.kind = "named_ref" ->
            Refers(v, f, x, back, {k \in DOMAIN v.names : v.names[k] = t.name})
      [] t.kind = "group" ->
            Then(Disjunction(v, f, t.body, x, back, g + 1),
                 LAMBDA y : <<[y EXCEPT !.captures[g + 1] = IF back THEN <<y.end, x.end>>
                                                                    ELSE <<x.end, y.end>>]>>)
      [] t.kind = "plain" -> Disjunction(v, f, t.body, x, back, g)
      [] t.kind = "modifiers" ->
            Disjunction(v, [f EXCEPT !.ignoreCase = (@ \/ "i" \in t.add) /\ "i" \notin t.remove,
                                     !.multiLine = (@ \/ "m" \in t.add) /\ "m" \notin t.remove,
                                     !.dotAll = (@ \/ "s" \in t.add) /\ "s" \notin t.remove],
                        t.body, x, back, g)
      [] t.kind = "look" -> Looked(x, t.negative, Disjunction(v, f, t.body, x, t.behind, g))
      [] t.kind = "quant" -> Repeat(v, f, t, back, g, x, t.min, t.max)

\* The terms of an alternative; in a lookbehind from the last to the first.
RECURSIVE Terms(_, _, _, _, _, _, _)
Terms(v, f, terms, left, x, back, g) ==
    LET k == IF back THEN Last(left) ELSE Head(left)
        rest == IF back THEN Front(left) ELSE Tail(left)
    IN  IF left = <<>> THEN <<x>>
        ELSE Then(Term(v, f, terms[k], x, back, g + GroupsBefore(terms, k)),
                  LAMBDA y : Terms(v, f, terms, rest, y, back, g))

Disjunction(v, f, alternatives, x, back, g) ==
    LET before(k) == FoldLeft(LAMBDA n, ts : n + GroupsBefore(ts, Len(ts) + 1), 0,
                              SubSeq(alternatives, 1, k - 1))
    IN  FlattenSeq([k \in 1 .. Len(alternatives) |->
            Terms(v, f, alternatives[k], [n \in 1 .. Len(alternatives[k]) |-> n], x, back, g + before(k))])

\* RegExpBuiltinExec: the first position from the start on where the
\* pattern matches, and how: <<>> for none.
RECURSIVE FirstFrom(_, _, _, _, _)
RECURSIVE FirstOr(_, _, _, _, _, _)
FirstFrom(v, f, alternatives, groups, p) ==
    FirstOr(v, f, alternatives, groups, p,
            Disjunction(v, f, alternatives, State(p, [k \in 1 .. groups |-> <<>>]), FALSE, 0))
FirstOr(v, f, alternatives, groups, p, here) ==
    CASE here # <<>> -> <<[start |-> p, end |-> here[1].end, captures |-> here[1].captures]>>
      [] here = <<>> /\ (f.sticky \/ p = Len(v.text)) -> <<>>
      [] OTHER -> FirstFrom(v, f, alternatives, groups, After(v, p).at)

Meaning(v, f, alternatives, start) ==
    FirstFrom(v, f, alternatives, Len(v.names),
              IF start > 0 /\ Pair(v, start - 1) THEN start - 1 ELSE start)
=============================================================================
