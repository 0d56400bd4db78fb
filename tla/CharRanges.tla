---------------------------- MODULE CharRanges ----------------------------
(***************************************************************************)
(* The character sets a regular expression is compiled with               *)
(* (native/quickjs/libunicode.c, libregexp.c): a set of code points is a   *)
(* sorted sequence of points, where membership changes at each point, and  *)
(* a list of strings goes with it in set notation (the v flag).            *)
(*                                                                         *)
(* The hash table of the strings is a set here: which bucket a string is   *)
(* in decides nothing but the order of strings of one length.              *)
(***************************************************************************)
EXTENDS Integers, SequencesExt, FiniteSetsExt

CONSTANT
    CaseMap    \* the case tables, by mode: CaseMap[unicode][c] for the c that fold

\* UINT32_MAX, the point past every code point; TLC's integers end lower.
Infinity == 2147483647

\* lre_canonicalize
Canonicalize(c, unicode) ==
    IF c \in DOMAIN CaseMap[unicode] THEN CaseMap[unicode][c] ELSE c

-----------------------------------------------------------------------------
(* Operations on sorted points.                                            *)

\* cr_compress: drop empty intervals and join those that touch.
RECURSIVE Compress(_)
Compress(pt) ==
    CASE Len(pt) < 2 -> <<>>
      [] Len(pt) >= 2 /\ pt[1] = pt[2] -> Compress(SubSeq(pt, 3, Len(pt)))
      [] Len(pt) >= 4 /\ pt[1] # pt[2] /\ pt[2] = pt[3] ->
            Compress(<<pt[1]>> \o SubSeq(pt, 4, Len(pt)))
      [] OTHER -> <<pt[1], pt[2]>> \o Compress(SubSeq(pt, 3, Len(pt)))

Combined(op, inA, inB) ==
    CASE op = "union" -> inA \/ inB
      [] op = "inter" -> inA /\ inB
      [] op = "xor"   -> inA # inB
      [] op = "sub"   -> inA /\ ~inB

\* The loop of cr_op, i points of a and j of b taken: the next point in
\* increasing order is kept when it changes who is in.
RECURSIVE Merge(_, _, _, _, _, _)
Merge(op, a, b, i, j, out) ==
    LET takesA == i < Len(a) /\ (j < Len(b) => a[i + 1] <= b[j + 1])
        takesB == j < Len(b) /\ (i < Len(a) => b[j + 1] <= a[i + 1])
        v  == IF takesA THEN a[i + 1] ELSE b[j + 1]
        i2 == IF takesA THEN i + 1 ELSE i
        j2 == IF takesB THEN j + 1 ELSE j
        in == Combined(op, i2 % 2 = 1, j2 % 2 = 1)
    IN  IF ~takesA /\ ~takesB THEN out
        ELSE Merge(op, a, b, i2, j2, IF in # (Len(out) % 2 = 1) THEN Append(out, v) ELSE out)

\* cr_op, cr_op1
Op(a, b, op) == Compress(Merge(op, a, b, 0, 0, <<>>))

\* cr_union_interval: both ends are in.
UnionInterval(cr, c1, c2) == Op(cr, <<c1, c2 + 1>>, "union")

\* cr_invert
Invert(cr) == Compress(<<0>> \o cr \o <<Infinity>>)

-----------------------------------------------------------------------------
(* Folding a set: cr_regexp_canonicalize.                                  *)

Ascending(S) == [k \in 1 .. Cardinality(S) |-> CHOOSE x \in S : Cardinality({y \in S : y < x}) = k - 1]

\* The code points of sorted points, in increasing order.
Points(cr) ==
    Ascending(UNION {cr[i] .. cr[i + 1] - 1 : i \in {k \in 1 .. Len(cr) : k % 2 = 1}})

\* The points of a set of code points: unicode_case1 makes those of the
\* characters that fold.
Intervals(S) == FoldLeft(LAMBDA cr, c : UnionInterval(cr, c, c), <<>>, Ascending(S))

\* Consecutive folded characters that follow one another make one interval.
Runs(ds) ==
    FoldLeft(LAMBDA out, d : IF out # <<>> /\ out[Len(out)][2] = d
                             THEN [out EXCEPT ![Len(out)][2] = d + 1]
                             ELSE Append(out, <<d, d + 1>>),
             <<>>, ds)

\* cr_sort_and_remove_overlap
SortAndRemoveOverlap(intervals) ==
    LET sorted == SortSeq(intervals, LAMBDA x, y : x[1] < y[1])
        joined == FoldLeft(LAMBDA out, x :
                      CASE out = <<>> -> <<x>>
                        [] out # <<>> /\ x[1] > out[Len(out)][2] -> Append(out, x)
                        [] OTHER -> [out EXCEPT ![Len(out)][2] = Max({@, x[2]})],
                      <<>>, sorted)
    IN  FlattenSeq(joined)

Folded(points, unicode) == [k \in 1 .. Len(points) |-> Canonicalize(points[k], unicode)]

\* cr_regexp_canonicalize: the characters that fold (the mask) are replaced
\* by what they fold to, and the others stay.
FoldedUnder(mask, cr, unicode) ==
    Op(SortAndRemoveOverlap(Runs(Folded(Points(Op(mask, cr, "inter")), unicode))),
       Op(Invert(mask), cr, "inter"), "union")
RegexpCanonicalize(cr, unicode) == FoldedUnder(Intervals(DOMAIN CaseMap[unicode]), cr, unicode)

-----------------------------------------------------------------------------
(* Character sets with strings: REStringList.                              *)

EmptyList == [cr |-> <<>>, strings |-> {}]

CharsList(cr) == [cr |-> cr, strings |-> {}]

\* re_string_add: a string of one character is that character.
StringAdd(s, str) ==
    IF Len(str) = 1 THEN [s EXCEPT !.cr = UnionInterval(@, str[1], str[1])]
                    ELSE [s EXCEPT !.strings = @ \cup {str}]

\* re_string_list_op
ListOp(a, b, op) ==
    [cr |-> Op(a.cr, b.cr, op),
     strings |-> CASE op = "union" -> a.strings \cup b.strings
                   [] op = "inter" -> a.strings \cap b.strings
                   [] op = "sub"   -> a.strings \ b.strings]

\* re_string_list_canonicalize
ListCanonicalize(s, unicode) ==
    FoldLeft(LAMBDA t, str : StringAdd(t, Folded(str, unicode)),
             CharsList(RegexpCanonicalize(s.cr, unicode)), SetToSeq(s.strings))

\* char_range_table: the points of \d, \s and \w.
ClassPoints ==
    [d |-> <<48, 58>>,
     s |-> <<9, 14, 32, 33, 160, 161, 5760, 5761, 8192, 8203, 8232, 8234,
             8239, 8240, 8287, 8288, 12288, 12289, 65279, 65280>>,
     w |-> <<48, 58, 65, 91, 95, 96, 97, 123>>]

\* cr_init_char_range
InitCharRange(name, inverted) ==
    CharsList(IF inverted THEN Invert(ClassPoints[name]) ELSE ClassPoints[name])
=============================================================================
