------------------------------ MODULE MCRegExp ------------------------------
(***************************************************************************)
(* Patterns and texts for RegExp.                                          *)
(***************************************************************************)
EXTENDS RegExp, SequencesExt

a == 97
b == 98
k == 107
bigA == 65
bigK == 75
kelvin == 8490       \* U+212A folds to k
longS == 383         \* U+017F folds to s
newline == 10
hi == 55357          \* U+1F600 is hi lo
lo == 56832
smile == 128512

MCAlphabet == {48, 95, newline, 32, a, b, k, 115, bigA, 66, bigK, 83, kelvin, longS, 65534, 65535, hi, lo, smile}

\* The case tables of these characters, by mode.
MCCaseMap ==
    [u \in BOOLEAN |->
        IF u THEN (bigA :> a) @@ (66 :> b) @@ (bigK :> k) @@ (83 :> 115) @@ (kelvin :> k) @@ (longS :> 115)
        ELSE (a :> bigA) @@ (b :> 66) @@ (k :> bigK) @@ (115 :> 83) @@ (longS :> longS)]

Cases == INSTANCE RegExpCompiler WITH CaseMap <- MCCaseMap
MCFold(c, u) == Cases!Canonicalize(c, u)

\* Terms.
Ch(c) == [kind |-> "char", c |-> c]
Dot == [kind |-> "dot"]
Bol == [kind |-> "line_start"]
Eol == [kind |-> "line_end"]
Word(not) == [kind |-> "word_boundary", not |-> not]
Group(body) == [kind |-> "group", name |-> "", body |-> body]
Named(name, body) == [kind |-> "group", name |-> name, body |-> body]
Plain(body) == [kind |-> "plain", body |-> body]
Look(behind, negative, body) == [kind |-> "look", behind |-> behind, negative |-> negative, body |-> body]
Ref(g) == [kind |-> "ref", group |-> g]
NamedRef(name) == [kind |-> "named_ref", name |-> name]
Times(t, min, max, greedy) == [kind |-> "quant", atom |-> t, min |-> min, max |-> max, greedy |-> greedy]
Modifiers(add, remove, body) == [kind |-> "modifiers", add |-> add, remove |-> remove, body |-> body]
Esc(name, inverted) == [kind |-> "esc", name |-> name, inverted |-> inverted]
Class(op, inverted, items) == [kind |-> "class", op |-> op, inverted |-> inverted, items |-> items]
Span(l, h) == [kind |-> "range", lo |-> l, hi |-> h]
Strings(s) == [kind |-> "strings", strings |-> s]
One(t) == <<<<t>>>>
Many == 2147483647
Star(t) == Times(t, 0, Many, TRUE)
Plus(t) == Times(t, 1, Many, TRUE)
Opt(t) == Times(t, 0, 1, TRUE)
A == Ch(a)
B == Ch(b)

NoFlags == [ignoreCase |-> FALSE, multiLine |-> FALSE, dotAll |-> FALSE, unicode |-> FALSE,
            sets |-> FALSE, sticky |-> FALSE]
U == [NoFlags EXCEPT !.unicode = TRUE]
IC == [NoFlags EXCEPT !.ignoreCase = TRUE]
IU == [U EXCEPT !.ignoreCase = TRUE]
V == [U EXCEPT !.sets = TRUE]
IV == [V EXCEPT !.ignoreCase = TRUE]

CallOf(pattern, flags, text, wide, start, limited) ==
    [pattern |-> pattern, flags |-> flags, text |-> text, wide |-> wide, start |-> start,
     limited |-> limited, program |-> Cases!Compile(pattern, flags)]

\* Every combination of two sequences.
Cross(s, t, Both(_, _)) ==
    [n \in 1 .. Len(s) * Len(t) |-> Both(s[((n - 1) \div Len(t)) + 1], t[((n - 1) % Len(t)) + 1])]
CallsOf(patterns, flags, texts, wide) ==
    Cross(patterns, texts, LAMBDA p, t : CallOf(p, flags, t, wide, 0, FALSE))

\* Quantifiers inside quantifiers, over atoms that match nothing, capture,
\* look around or refer back.
Counts == <<<<0, Many, TRUE>>, <<0, Many, FALSE>>, <<1, Many, TRUE>>, <<0, 1, TRUE>>, <<0, 0, TRUE>>,
            <<2, 2, TRUE>>, <<0, 2, TRUE>>, <<1, 2, FALSE>>, <<2, Many, TRUE>>>>
InnerCounts == <<<<0, Many, TRUE>>, <<0, 1, FALSE>>, <<0, 2, TRUE>>, <<2, 2, TRUE>>, <<1, 3, TRUE>>>>
Counted(t, c) == Times(t, c[1], c[2], c[3])
Atoms == <<A, Group(One(A)), Plain(<<<<>>>>), Group(<<<<A>>, <<>>>>), Look(FALSE, FALSE, One(Group(One(A)))),
           Look(FALSE, TRUE, One(A)), Plain(<<<<Group(One(A))>>, <<B>>>>), Ref(1)>>
Inner == Atoms \o Cross(Atoms, InnerCounts, Counted)
Captured == Cross(Inner, Counts, LAMBDA i, c : <<<<Counted(Group(<<<<i>>>>), c)>>>>)
Followed == Cross(Inner, Counts, LAMBDA i, c : <<<<Counted(Group(<<<<i, Opt(B)>>>>), c), B>>>>)
Again    == Cross(Inner, Counts, LAMBDA i, c : <<<<Group(One(A)), Counted(Plain(<<<<i>>>>), c), Ref(1)>>>>)
Forward  == [n \in 1 .. Len(Counts) |-> <<<<Counted(Plain(<<<<Ref(1), Group(One(A))>>>>), Counts[n])>>>>]
NestedCalls == CallsOf(Captured \o Again \o Forward, NoFlags, <<<<a, a, b>>>>, FALSE) \o CallsOf(Followed, NoFlags, <<<<a, b, a>>>>, FALSE)

\* Lookbehinds run backwards: the order of terms, groups and references,
\* and lookarounds inside one another.
Bodies == <<<<<<A, Group(One(A))>>>>, <<<<Group(One(A)), Ref(1)>>>>, <<<<Ref(1), Group(One(A))>>>>,
            <<<<Group(One(Plus(A))), Group(One(Star(Dot)))>>>>, <<<<A>>, <<B, A>>>>, <<<<Group(One(A))>>, <<>>>>,
            <<<<Bol, Star(Dot)>>>>, <<<<Look(FALSE, FALSE, <<<<Group(One(A)), B>>>>), Dot>>>>,
            <<<<Look(FALSE, TRUE, <<<<Group(One(A)), A>>>>), Dot>>>>, <<<<Times(Group(One(Dot)), 1, 2, TRUE)>>>>,
            <<<<Look(TRUE, FALSE, One(Group(One(Dot)))), A>>>>, <<<<Look(TRUE, TRUE, One(A)), Group(One(Dot)), Ref(1)>>>>,
            <<<<Word(TRUE), Group(One(Opt(A)))>>>>, <<<<Named("x", One(A)), NamedRef("x")>>>>>>
Around == <<<<FALSE, FALSE>>, <<FALSE, TRUE>>, <<TRUE, FALSE>>, <<TRUE, TRUE>>>>
LookCalls ==
    CallsOf(Cross(Bodies, Around, LAMBDA y, l : <<<<Look(l[1], l[2], y), B>>>>)
           \o Cross(Bodies, Around, LAMBDA y, l : <<<<Group(One(Opt(Dot))), Look(l[1], l[2], y), Ref(1)>>>>),
           NoFlags, <<<<a, a, b>>, <<a, b, a, b>>>>, FALSE)

\* Names, modifiers and assertions.
Plains == <<<<<<Named("x", One(A)), NamedRef("x")>>>>, <<<<NamedRef("x"), Named("x", One(A))>>>>,
            <<<<Plus(Plain(<<<<Named("x", One(A))>>, <<Named("x", One(B))>>>>)), NamedRef("x")>>>>,
            <<<<A, Modifiers({"i"}, {}, One(A)), A>>>>,
            <<<<Modifiers({"i"}, {}, <<<<A, Modifiers({}, {"i"}, One(B)), Group(One(B)), Ref(1)>>>>)>>>>,
            <<<<Modifiers({"m"}, {}, <<<<Bol, Group(One(Plus(Dot))), Eol>>>>)>>>>, <<<<Bol, A, Eol>>>>,
            <<<<Modifiers({"s"}, {}, One(Plus(Dot)))>>>>, <<<<Plus(Dot), Eol>>>>,
            <<<<Word(FALSE), B>>>>, <<<<Word(TRUE), B>>>>, <<<<Plus(Esc("s", FALSE)), Esc("w", FALSE)>>>>,
            <<<<Plus(Esc("s", TRUE)), Eol>>>>>>
PlainCalls ==
    CallsOf(Plains, NoFlags, <<<<a, a, a>>, <<b, b, a>>, <<bigA, bigA, b, 66>>, <<a, newline, a, b>>,
                              <<bigA, b, 66, b>>, <<a, 32, b>>>>, FALSE)
    \o CallsOf(Plains, IC, <<<<bigA, a, a>>, <<bigA, b, 66, b>>>>, FALSE)

\* Surrogates: read as pairs and one by one, forwards and backwards, from
\* a start that may be inside a pair.
Wides == <<<<<<Dot>>>>, <<<<Group(One(Dot)), Ref(1)>>>>, <<<<Look(TRUE, FALSE, One(Dot)), A>>>>,
           <<<<Look(TRUE, FALSE, <<<<Group(One(Dot)), Ref(1)>>>>), A>>>>, <<<<Look(TRUE, TRUE, One(Ch(hi))), Dot, A>>>>,
           <<<<Ch(lo)>>>>, <<<<Ch(hi), Dot>>>>, <<<<Class("union", TRUE, <<A>>), Word(FALSE)>>>>,
           <<<<Look(TRUE, FALSE, One(Class("union", FALSE, <<Ch(hi), Ch(lo)>>))), Dot>>>>, <<<<Times(Dot, 2, 2, TRUE)>>>>>>
WideCalls ==
    LET At(p, flags) == Cross(Cross(<<<<hi, lo, hi, lo, a>>, <<lo, hi, lo>>, <<a, hi, hi, lo, lo, a>>>>, <<0, 1, 2>>,
                                    LAMBDA t, n : [text |-> t, start |-> n]), <<flags>>,
                              LAMBDA c, f : CallOf(p, f, c.text, TRUE, c.start, FALSE))
    IN  FlattenSeq([n \in 1 .. Len(Wides) |-> At(Wides[n], U) \o At(Wides[n], NoFlags)])

\* Classes, matched at each character of one text that has them all.
MCText == <<newline, 32, 48, bigA, 66, bigK, 83, 95, a, b, k, 115, longS, kelvin, 65534, 65535>>
S(items) == Class("union", FALSE, items)
Not(items) == Class("union", TRUE, items)
Classes == <<S(<<>>), Not(<<>>), S(<<A>>), Not(<<A>>), S(<<Span(a, k)>>), S(<<Span(b, k), Span(a, 115), Ch(65534)>>),
             S(<<Esc("w", FALSE)>>), S(<<Esc("w", TRUE)>>), Not(<<Esc("w", TRUE)>>),
             S(<<Esc("d", FALSE), Esc("s", FALSE), Ch(66)>>), Not(<<Esc("s", TRUE), Ch(k)>>), S(<<Ch(65535)>>),
             S(<<Span(65534, 65535)>>), Not(<<Ch(65534)>>), Not(<<Ch(65535)>>), Not(<<Span(newline, 65534)>>),
             S(<<Span(bigA, bigK), Ch(kelvin)>>), S(<<Ch(longS)>>), Esc("w", FALSE), Esc("w", TRUE), Ch(kelvin), Ch(66)>>
\* In set notation.
Sets == <<Class("sub", FALSE, <<Esc("w", FALSE), S(<<Span(a, k)>>)>>),
          Class("inter", FALSE, <<Esc("w", FALSE), Not(<<Ch(k)>>)>>),
          Class("inter", TRUE, <<S(<<Span(a, k)>>), S(<<Span(b, 115)>>), Esc("w", FALSE)>>),
          S(<<Strings(<<<<a, b>>, <<k>>>>), Ch(66)>>), S(<<Strings(<<<<>>, <<a, b, k>>, <<a, b>>>>)>>),
          Class("sub", FALSE, <<Strings(<<<<a, b>>, <<bigA, 66>>, <<a>>>>), Strings(<<<<a, b>>, <<k>>>>)>>),
          Class("inter", FALSE, <<S(<<Strings(<<<<a, b>>, <<b>>>>), A>>), S(<<Strings(<<<<a, b>>>>), B>>)>>),
          Not(<<S(<<Esc("w", TRUE)>>), S(<<Span(bigA, 66)>>)>>)>>
ClassCalls ==
    LET At(t, f) == [n \in 1 .. Len(MCText) |-> CallOf(One(t), [f EXCEPT !.sticky = TRUE], MCText, TRUE, n - 1, FALSE)]
    IN  FlattenSeq(Cross(Classes, <<NoFlags, IC, U, IU, IV>>, At)) \o FlattenSeq(Cross(Sets, <<V, IV>>, At))

\* Matches the host and the allocator may stop.
StoppedCalls ==
    [n \in 1 .. Len(Bodies) |-> CallOf(<<<<Star(Group(Bodies[n])), B>>>>, NoFlags, <<a, b, a>>, FALSE, 0, TRUE)]

MCCalls == NestedCalls \o LookCalls \o PlainCalls \o WideCalls \o ClassCalls \o StoppedCalls
=============================================================================
