-------------------------- MODULE RegExpCompiler --------------------------
(***************************************************************************)
(* lre_compile (native/quickjs/libregexp.c): from a pattern to the program *)
(* the backtracking matcher runs.                                          *)
(*                                                                         *)
(* A pattern is the tree of its text, as the parser recognises it; what    *)
(* the parser reads and refuses is left out.  A program is a sequence of   *)
(* instructions and a jump counts instructions, from the one after it, as  *)
(* the code's jumps count bytes.  A disjunction is a sequence of           *)
(* alternatives, each a sequence of terms; a term has a `kind`.            *)
(***************************************************************************)
EXTENDS CharRanges

MaxCount == 2147483647     \* INT32_MAX: no upper bound on the repetitions

\* The state of a parse: what is emitted, and the name of each group met
\* so far ("" for none): s->byte_code and s->group_names.
Parsed(code, names) == [code |-> code, names |-> names]
CaptureCount(names) == Len(names) + 1

I(op) == [op |-> op]
Jump(op, to) == [op |-> op, to |-> to]
Prev == <<I("prev")>>

\* A term that reads characters, in a lookbehind: back one character,
\* read it forwards, and back again.
Directed(code, back) == IF back THEN Prev \o code \o Prev ELSE code

-----------------------------------------------------------------------------
(* Character classes.                                                      *)

\* re_emit_char
EmitChar(c, f) == [op |-> "char", c |-> c, i |-> f.ignoreCase]

\* re_emit_range: 16-bit bounds when they will do, 0xffff standing for
\* everything from there on; nothing is in an empty set.
EmitRange(cr, f) ==
    LET n    == Len(cr) \div 2
        high == IF cr[Len(cr)] = Infinity THEN cr[Len(cr) - 1] ELSE cr[Len(cr)]
        end(k) == IF high <= 65535 /\ cr[2 * k] = Infinity THEN 65535 ELSE cr[2 * k] - 1
    IN  IF n = 0 THEN [op |-> "char", c |-> -1, i |-> FALSE]
        ELSE [op |-> IF high <= 65535 THEN "range" ELSE "range32", i |-> f.ignoreCase,
              bounds |-> <<>> \o [k \in 1 .. n |-> <<cr[2 * k - 1], end(k)>>]]

\* re_emit_string_list: the longest strings first, then the characters,
\* then the empty string.
EmitStringList(list, f) ==
    LET sorted == SetToSortSeq(list.strings \ {<<>>}, LAMBDA x, y : Len(x) > Len(y))
        chars  == IF list.cr = <<>> THEN <<>> ELSE <<<<EmitRange(list.cr, f)>>>>
        choices == [k \in 1 .. Len(sorted) |-> [j \in 1 .. Len(sorted[k]) |-> EmitChar(sorted[k][j], f)]]
                   \o chars \o (IF <<>> \in list.strings THEN <<<<>>>> ELSE <<>>)
        \* the alternatives from k on; only the strings need a jump over the rest
        from[k \in 1 .. Len(choices)] ==
            IF k = Len(choices) THEN choices[k]
            ELSE LET rest == from[k + 1]
                     out  == IF k <= Len(sorted) THEN <<Jump("goto", Len(rest))>> ELSE <<>>
                 IN  <<Jump("split_next_first", Len(choices[k] \o out))>> \o choices[k] \o out \o rest
    IN  IF list.strings = {} THEN <<EmitRange(list.cr, f)>> ELSE from[1]

\* get_class_atom, re_parse_class_set_operand and re_parse_nested_class:
\* the items of a class are joined, or, in set notation, the operands
\* after the first are intersected or subtracted.
StringsOf(list, f) == IF f.ignoreCase THEN ListCanonicalize(list, TRUE) ELSE list
Complement(list, inverted) == IF inverted THEN [list EXCEPT !.cr = Invert(@)] ELSE list

RECURSIVE ClassOf(_, _)
ClassItem(item, f) ==
    CASE item.kind = "char"  ->
            LET c == IF f.ignoreCase THEN Canonicalize(item.c, f.unicode) ELSE item.c
            IN  CharsList(UnionInterval(<<>>, c, c))
      [] item.kind = "range" ->
            LET r == <<item.lo, item.hi + 1>>
            IN  CharsList(IF f.ignoreCase THEN RegexpCanonicalize(r, f.unicode) ELSE r)
      [] item.kind = "esc"   -> InitCharRange(item.name, item.inverted)
      [] item.kind = "strings" -> StringsOf(FoldLeft(StringAdd, EmptyList, item.strings), f)
      [] item.kind = "class" -> ClassOf(item, f)

ClassOf(class, f) ==
    Complement(FoldLeftDomain(LAMBDA list, k :
                   ListOp(list, ClassItem(class.items[k], f), IF k = 1 THEN "union" ELSE class.op),
                   EmptyList, class.items),
               class.inverted)

-----------------------------------------------------------------------------
(* Quantifiers.                                                            *)

CharOps == {"char", "range", "range32", "dot", "any", "space", "not_space"}
NoEffectOps == {"line_start", "line_end", "set_i32", "set_char_pos", "word_boundary", "prev",
                "save_start", "save_end", "save_reset"}

\* re_need_check_adv_and_capture_init: what is known of an atom is read
\* up to the first instruction whose outcome cannot be predicted.
Predictable(code) ==
    LET odd == {k \in 1 .. Len(code) : code[k].op \notin CharOps \cup NoEffectOps \cup {"back_reference"}}
    IN  IF odd = {} THEN code ELSE SubSeq(code, 1, Min(odd) - 1)
OpsOf(code) == {code[k].op : k \in 1 .. Len(code)}
\* Variants: no loop is checked; a reference back is thought to need no reset.
NeedCheckAdvNever(code) == FALSE
NeedCaptureInitUnlessOdd(code) == Predictable(code) # code

NeedCheckAdv(code)    == OpsOf(Predictable(code)) \cap CharOps = {}
NeedCaptureInit(code) == Predictable(code) # code \/ "back_reference" \in OpsOf(code)

Split(greedy, to) == Jump(IF greedy THEN "split_next_first" ELSE "split_goto_first", to)

\* The end of a counted loop: again with the split's other order, for the
\* jump goes back.
LoopSplit(checks, greedy, limit, to) ==
    [op |-> "loop_split", checks |-> checks, goesFirst |-> greedy, limit |-> limit, to |-> to, reg |-> 0]

\* The quantifier part of re_parse_term: `atom` repeated q.min to q.max
\* times; its groups are those numbered from `before` to `after` - 1.
Quantified(atom, q, before, after) ==
    LET checks  == NeedCheckAdv(atom)
        init    == NeedCaptureInit(atom)
        reset   == IF before # after THEN <<[op |-> "save_reset", from |-> before, last |-> after - 1]>>
                                     ELSE <<>>
        once    == IF q.min = 0 /\ ~init THEN reset ELSE <<>>
        body    == (IF init THEN reset ELSE <<>>) \o atom
        setPos  == <<[op |-> "set_char_pos", reg |-> 0]>>
        marked  == (IF checks THEN setPos ELSE <<>>) \o body
        checked == marked \o (IF checks THEN <<[op |-> "check_advance", reg |-> 0]>> ELSE <<>>)
        counter == <<[op |-> "set_i32", reg |-> 0, n |-> q.max]>>
        counted(limit) == counter \o marked \o <<LoopSplit(checks, q.greedy, limit, -(Len(marked) + 1))>>
    IN  CASE q.max = 0 -> once
          [] q.min = 0 /\ q.max = 1 -> once \o <<Split(q.greedy, Len(checked))>> \o checked
          [] q.min = 0 /\ q.max = MaxCount ->
                once \o <<Split(q.greedy, Len(checked) + 1)>> \o checked
                     \o <<Jump("goto", -(Len(checked) + 2))>>
          [] q.min = 0 /\ q.max \notin {0, 1, MaxCount} ->
                once \o <<Split(q.greedy, Len(counted(q.max)))>> \o counted(q.max)
          [] q.min = 1 /\ q.max = MaxCount /\ ~checks ->
                body \o <<Split(~q.greedy, -(Len(body) + 1))>>
          [] q.min > 0 /\ q.min = q.max ->
                counter \o body \o <<[op |-> "loop", to |-> -(Len(body) + 1), reg |-> 0]>>
          [] OTHER -> counted(q.max - q.min)

-----------------------------------------------------------------------------
(* Terms.                                                                  *)

GroupsNamed(names, name) == Ascending({k \in 1 .. Len(names) : names[k] = name})

\* find_group_name, and re_parse_captures when no group met so far has the
\* name: the groups a named back reference reads.
NamedGroups(names, f, name) ==
    LET met == GroupsNamed(names, name)
    IN  IF met = <<>> THEN GroupsNamed(f.allNames, name) ELSE met

\* re_parse_modifiers, update_modifier
Modified(f, add, remove) ==
    [f EXCEPT !.ignoreCase = (@ \/ "i" \in add) /\ "i" \notin remove,
              !.multiLine  = (@ \/ "m" \in add) /\ "m" \notin remove,
              !.dotAll     = (@ \/ "s" \in add) /\ "s" \notin remove]

BackReference(groups, f, back) ==
    <<[op |-> "back_reference", groups |-> groups, back |-> back, i |-> f.ignoreCase]>>

Capturing(index, body, back) ==
    LET saves == IF back THEN <<"save_end", "save_start">> ELSE <<"save_start", "save_end">>
        Save(op) == <<[op |-> op, group |-> index]>>
    IN  Parsed(Save(saves[1]) \o body.code \o Save(saves[2]), body.names)

Looking(negative, body) ==
    LET end == I(IF negative THEN "negative_lookahead_match" ELSE "lookahead_match")
    IN  Parsed(<<[op |-> "lookahead", negative |-> negative, to |-> Len(body.code) + 1]>>
               \o Append(body.code, end), body.names)

Repeated(q, atom, names) ==
    Parsed(Quantified(atom.code, q, CaptureCount(names), CaptureCount(atom.names)), atom.names)

\* In a lookbehind the terms run from the last to the first.
FollowedBy(done, next, back) ==
    Parsed(IF back THEN next.code \o done.code ELSE done.code \o next.code, next.names)

\* Each further alternative puts a split before all that there is so far,
\* and a jump over itself after it.
OrElse(done, next) ==
    Parsed(<<Jump("split_next_first", Len(done.code) + 1)>> \o done.code
           \o <<Jump("goto", Len(next.code))>> \o next.code, next.names)

RECURSIVE DisjunctionOf(_, _, _, _)

\* re_parse_term
RECURSIVE TermOf(_, _, _, _)
TermOf(t, back, f, names) ==
    CASE t.kind = "char" ->
            LET c == IF f.ignoreCase THEN Canonicalize(t.c, f.unicode) ELSE t.c
            IN  Parsed(Directed(<<EmitChar(c, f)>>, back), names)
      [] t.kind = "dot" -> Parsed(Directed(<<I(IF f.dotAll THEN "any" ELSE "dot")>>, back), names)
      [] t.kind = "esc" /\ t.name = "s" ->
            Parsed(Directed(<<I(IF t.inverted THEN "not_space" ELSE "space")>>, back), names)
      [] t.kind = "class" \/ (t.kind = "esc" /\ t.name # "s") ->
            Parsed(Directed(EmitStringList(ClassItem(t, f), f), back), names)
      [] t.kind \in {"line_start", "line_end"} -> Parsed(<<[op |-> t.kind, m |-> f.multiLine]>>, names)
      [] t.kind = "word_boundary" ->
            Parsed(<<[op |-> "word_boundary", not |-> t.not, i |-> f.ignoreCase /\ f.unicode]>>, names)
      [] t.kind = "ref" -> Parsed(BackReference(<<t.group>>, f, back), names)
      [] t.kind = "named_ref" -> Parsed(BackReference(NamedGroups(names, f, t.name), f, back), names)
      [] t.kind = "group" ->
            Capturing(CaptureCount(names), DisjunctionOf(t.body, back, f, Append(names, t.name)), back)
      [] t.kind = "plain" -> DisjunctionOf(t.body, back, f, names)
      [] t.kind = "modifiers" -> DisjunctionOf(t.body, back, Modified(f, t.add, t.remove), names)
      [] t.kind = "look" -> Looking(t.negative, DisjunctionOf(t.body, t.behind, f, names))
      [] t.kind = "quant" -> Repeated(t, TermOf(t.atom, back, f, names), names)

\* re_parse_alternative
AlternativeOf(terms, back, f, names) ==
    FoldLeft(LAMBDA done, t : FollowedBy(done, TermOf(t, back, f, done.names), back),
             Parsed(<<>>, names), terms)

\* re_parse_disjunction
DisjunctionOf(alternatives, back, f, names) ==
    FoldLeft(LAMBDA done, terms : OrElse(done, AlternativeOf(terms, back, f, done.names)),
             AlternativeOf(Head(alternatives), back, f, names), Tail(alternatives))

-----------------------------------------------------------------------------
(* Registers: compute_register_count allocates them as a stack, in the     *)
(* order of the program.                                                   *)

Opens(i)  == IF i.op \in {"set_i32", "set_char_pos"} THEN 1 ELSE 0
Closes(i) == CASE i.op \in {"check_advance", "loop"} -> 1
               [] i.op = "loop_split" -> IF i.checks THEN 2 ELSE 1
               [] OTHER -> 0

\* With depth registers in use: the rest of the program, and the most in
\* use at once.
RECURSIVE WithRegisters(_, _)
WithRegisters(code, depth) ==
    IF code = <<>> THEN [code |-> <<>>, count |-> depth]
    ELSE LET i    == Head(code)
             at   == depth - Closes(i)
             rest == WithRegisters(Tail(code), at + Opens(i))
         IN  [code  |-> <<IF Opens(i) + Closes(i) > 0 THEN [i EXCEPT !.reg = at] ELSE i>> \o rest.code,
              count |-> Max({depth, rest.count})]

\* The names of the groups of a pattern, in the order of their numbers:
\* what re_parse_captures finds in the whole text.
RECURSIVE NamesOf(_)
NamesOf(alternatives) ==
    LET Inner(t) == CASE t.kind = "group" -> <<t.name>> \o NamesOf(t.body)
                      [] t.kind \in {"plain", "modifiers", "look"} -> NamesOf(t.body)
                      [] t.kind = "quant" -> NamesOf(<<<<t.atom>>>>)
                      [] OTHER -> <<>>
    IN  FlattenSeq([k \in 1 .. Len(FlattenSeq(alternatives)) |-> Inner(FlattenSeq(alternatives)[k])])

\* The parsed pattern made a program: unless the flags say sticky it tries
\* every position from the first.
Assembled(parsed, flags) ==
    LET prefix == IF flags.sticky THEN <<>>
                  ELSE <<Jump("split_goto_first", 2), I("any"), Jump("goto", -3)>>
        whole  == prefix \o <<[op |-> "save_start", group |-> 0]>> \o parsed.code
                  \o <<[op |-> "save_end", group |-> 0], I("match")>>
        regs   == WithRegisters(whole, 0)
    IN  [code |-> regs.code, captures |-> CaptureCount(parsed.names), registers |-> regs.count,
         unicode |-> flags.unicode]

\* lre_compile
Compile(alternatives, flags) ==
    Assembled(DisjunctionOf(alternatives, FALSE, flags @@ [allNames |-> NamesOf(alternatives)], <<>>),
              flags)
=============================================================================
