--------------------------- MODULE RegExpMatcher ---------------------------
(***************************************************************************)
(* lre_exec_backtrack (native/quickjs/libregexp.c): the matcher.           *)
(*                                                                         *)
(* It runs a program over a text, one instruction a step.  The stack holds *)
(* frames, to which a failure goes back, and between them what must be     *)
(* undone on the way there: the old value of each capture or register that *)
(* was set.  Whenever the stack is pushed to it may have to grow, which    *)
(* the allocator may refuse, and the host is asked now and then whether to *)
(* stop.                                                                   *)
(*                                                                         *)
(* Positions count code units from the start of the text.  The captures    *)
(* and the registers share one array: group g has 2g and 2g + 1, and       *)
(* register r the place 2 * captures + r.                                  *)
(***************************************************************************)
EXTENDS Integers, Sequences, FiniteSetsExt

CONSTANTS
    Calls,         \* the calls of lre_exec to run, each by itself: a sequence
    Fold(_, _)     \* lre_canonicalize of a character, in a mode

\* The innermost lookahead an instruction is in the body of, or 0.
Enclosing(code, at) ==
    LET around == {k \in 1 .. Len(code) : code[k].op = "lookahead" /\ k < at /\ at <= k + code[k].to}
    IN  IF around = {} THEN 0 ELSE Max(around)

\* Where an instruction of a program may go on, a lookahead once it holds.
Successors(code, k) ==
    CASE code[k].op \in {"goto", "lookahead"} -> {k + 1 + code[k].to}
      [] code[k].op \in {"split_next_first", "split_goto_first", "loop", "loop_split"}
             -> {k + 1, k + 1 + code[k].to}
      [] code[k].op \in {"match", "lookahead_match", "negative_lookahead_match"} -> {}
      [] OTHER -> {k + 1}

\* What the compiler makes: jumps stay within the program and within the
\* body of each lookahead, which its own kind of match ends.
WellFormed(code) ==
    /\ 1 \in DOMAIN code
    /\ \A k \in DOMAIN code :
           /\ \A next \in Successors(code, k) :
                  next \in DOMAIN code /\ Enclosing(code, next) = Enclosing(code, k)
           /\ code[k].op = "lookahead" => k + 1 \in DOMAIN code /\ Enclosing(code, k + 1) = k
           /\ code[k].op \in {"lookahead_match", "negative_lookahead_match"} =>
                  /\ Enclosing(code, k) # 0
                  /\ code[Enclosing(code, k)].negative <=> code[k].op = "negative_lookahead_match"
           /\ code[k].op = "save_reset" =>
                  code[k].from \in Nat /\ code[k].last \in Nat /\ code[k].from <= code[k].last

ASSUME CallsAssumption ==
    \A code \in {Calls[n].program.code : n \in 1 .. Len(Calls)} :
        code \in Seq({code[k] : k \in DOMAIN code}) /\ WellFormed(code)

Null == -1         \* a capture not set

VARIABLES
    call,      \* its program, its text, whether the text's units are 16 bits wide,
               \* where it starts, whether the host and the allocator may fail it
    pc, cptr,  \* the next instruction and the position in the text
    capture,   \* captures, then registers
    stack,     \* frames and undo entries
    bp,        \* how many entries there are up to the top frame, it included
    status     \* "running", or the result

vars == <<call, pc, cptr, capture, stack, bp, status>>

-----------------------------------------------------------------------------
(* Characters: GET_CHAR, PEEK_CHAR, GET_PREV_CHAR, PEEK_PREV_CHAR and      *)
(* PREV_CHAR.  In unicode mode a surrogate pair is one character.          *)

IsHi(u) == u \in 55296 .. 56319
IsLo(u) == u \in 56320 .. 57343
FromSurrogate(hi, lo) == 65536 + (hi - 55296) * 1024 + (lo - 56320)

\* cbuf_type 2
Utf16 == call.wide /\ call.program.unicode
Text  == call.text
End   == Len(call.text)

CharAt(p, end) ==
    IF Utf16 /\ IsHi(Text[p + 1]) /\ p + 1 < end /\ IsLo(Text[p + 2])
    THEN [c |-> FromSurrogate(Text[p + 1], Text[p + 2]), next |-> p + 2]
    ELSE [c |-> Text[p + 1], next |-> p + 1]

CharBefore(p, start) ==
    IF Utf16 /\ IsLo(Text[p]) /\ p - 1 > start /\ IsHi(Text[p - 1])
    THEN [c |-> FromSurrogate(Text[p - 1], Text[p]), next |-> p - 2]
    ELSE [c |-> Text[p], next |-> p - 1]

IsLineTerminator(c) == c \in {10, 13, 8232, 8233}
IsSpace(c) == c \in (9 .. 13) \cup {32, 160, 5760} \cup (8192 .. 8202)
                    \cup {8232, 8233, 8239, 8287, 12288, 65279}
\* lre_is_word_byte, and the two letters that fold to word characters
IsWordChar(c, i) == \/ c \in (48 .. 57) \cup (65 .. 90) \cup {95} \cup (97 .. 122)
                    \/ i /\ c \in {383, 8490}

Folded(c, i) == IF i THEN Fold(c, call.program.unicode) ELSE c

-----------------------------------------------------------------------------
(* The stack.                                                              *)

Undo(idx, old) == [kind |-> "undo", idx |-> idx, old |-> old]
\* `was` is the captures when the frame was pushed; the matcher does not
\* keep it, and no step reads it.
Frame(type, to) ==
    [kind |-> "frame", type |-> type, pc |-> to, cptr |-> cptr, bp |-> bp, was |-> capture]

IsFrame(e) == e.kind = "frame"

\* The undo entries of a part of the stack.
Undos(s) ==
    LET kept[k \in 0 .. Len(s)] ==
            IF k = 0 THEN <<>>
            ELSE IF IsFrame(s[k]) THEN kept[k - 1] ELSE Append(kept[k - 1], s[k])
    IN  kept[Len(s)]

\* The captures when everything above the first t entries is undone: the
\* oldest entry of each place has its value at t.
Restored(cap, s, t) ==
    [i \in DOMAIN cap |->
        LET saved == {k \in t + 1 .. Len(s) : s[k].kind = "undo" /\ s[k].idx = i}
        IN  IF saved = {} THEN cap[i] ELSE s[Min(saved)].old]

Go(to) == pc' = to /\ status' = "running"

\* lre_poll_timeout, when the counter has run out: the host may say stop.
Poll(to) == pc' = to /\ status' \in {"running"} \cup (IF call.limited THEN {"timeout"} ELSE {})

\* no_match, on the stack s with top frame b: back to the latest frame a
\* failure can go on from, with all that came after undone.  A lookahead
\* that fails fails what is before it.
Fail(cap, s, b) ==
    LET open == {t \in 1 .. b : IsFrame(s[t]) /\ s[t].type # "lookahead"}
        t    == Max(open)
    IN  IF open = {}
        THEN status' = "no match" /\ UNCHANGED <<call, pc, cptr, capture, stack, bp>>
        ELSE /\ capture' = Restored(cap, s, t)
             /\ cptr' = s[t].cptr
             /\ bp' = s[t].bp
             /\ stack' = SubSeq(s, 1, t - 1)
             /\ Poll(s[t].pc)
             /\ UNCHANGED <<call>>
GotoNoMatch == Fail(capture, stack, bp)

\* On to the next instruction, perhaps elsewhere in the text.
Advance(p) == cptr' = p /\ Go(pc + 1) /\ UNCHANGED <<call, capture, stack, bp>>

\* A test of the position fails or goes on.
Test(holds) == IF holds THEN Advance(cptr) ELSE GotoNoMatch

\* CHECK_STACK_SPACE, stack_realloc: a push found no room, and no memory.
Refused == /\ call.limited
           /\ status' = "memory"
           /\ UNCHANGED <<call, pc, cptr, capture, stack, bp>>

\* SAVE_CAPTURE
Save(idx, value) ==
    \/ /\ stack' = Append(stack, Undo(idx, capture[idx]))
       /\ capture' = [capture EXCEPT ![idx] = value]
       /\ Go(pc + 1)
       /\ UNCHANGED <<call, cptr, bp>>
    \/ Refused

\* Variant: an entry below the top frame is taken for one above it.
SavedEver(idx) == \E k \in 1 .. Len(stack) : ~IsFrame(stack[k]) /\ stack[k].idx = idx

\* SAVE_CAPTURE_CHECK: what is saved above the top frame need not be again.
SavedSince(idx) == \E k \in bp + 1 .. Len(stack) : stack[k].idx = idx
Entries(idx) == IF SavedSince(idx) THEN <<>> ELSE <<Undo(idx, capture[idx])>>

Instruction == call.program.code[pc]
Place(group) == 2 * group
Register(r) == 2 * call.program.captures + r
Is(op) == status = "running" /\ Instruction.op = op

-----------------------------------------------------------------------------
(* The instructions.                                                       *)

Match == Is("match") /\ status' = "match" /\ UNCHANGED <<call, pc, cptr, capture, stack, bp>>

\* The lookahead holds: its frames go, its undo entries stay for whoever
\* fails back past it.  They go too when there is nobody to.
LookaheadMatch ==
    LET t == Max({k \in 1 .. bp : IsFrame(stack[k]) /\ stack[k].type = "lookahead"})
        kept == Undos(SubSeq(stack, t + 1, Len(stack)))
    IN  /\ Is("lookahead_match")
        /\ cptr' = stack[t].cptr
        /\ bp' = stack[t].bp
        /\ stack' = SubSeq(stack, 1, t - 1) \o (IF t = 1 THEN <<>> ELSE kept)
        /\ Go(stack[t].pc)
        /\ UNCHANGED <<call, capture>>

\* A negative lookahead matched: all of it is undone, and it fails.
NegativeLookaheadMatch ==
    LET t == Max({k \in 1 .. bp : IsFrame(stack[k]) /\ stack[k].type = "negative"})
    IN  /\ Is("negative_lookahead_match")
        /\ Fail(Restored(capture, stack, t), SubSeq(stack, 1, t - 1), stack[t].bp)

\* The tests of one character; the code's range and range32 look the
\* character up by bisection.
InBounds(bounds, c) ==
    LET n == Len(bounds)
        found[lo \in 0 .. n, hi \in -1 .. n - 1] ==
            LET k == (lo + hi) \div 2
            IN  /\ lo <= hi
                /\ CASE c < bounds[k + 1][1] -> found[lo, k - 1]
                     [] c > bounds[k + 1][2] -> found[k + 1, hi]
                     [] OTHER -> TRUE
    IN  c >= bounds[1][1] /\ c <= bounds[n][2] /\ found[0, n - 1]

\* In a 16-bit table 0xffff as the last bound is everything from there on.
Accepts(i, c) ==
    CASE i.op = "char"    -> Folded(c, i.i) = i.c
      [] i.op = "range"   -> LET d == Folded(c, i.i)
                             IN  \/ d >= 65535 /\ i.bounds[Len(i.bounds)][2] = 65535
                                              /\ d >= i.bounds[1][1]
                                 \/ InBounds(i.bounds, d)
      [] i.op = "range32" -> InBounds(i.bounds, Folded(c, i.i))
      [] i.op = "dot"     -> ~IsLineTerminator(c)
      [] i.op = "any"     -> TRUE
      [] i.op = "space"   -> IsSpace(c)
      [] i.op = "not_space" -> ~IsSpace(c)

Character ==
    /\ status = "running"
    /\ Instruction.op \in {"char", "range", "range32", "dot", "any", "space", "not_space"}
    /\ IF cptr < End /\ Accepts(Instruction, CharAt(cptr, End).c)
       THEN Advance(CharAt(cptr, End).next)
       ELSE GotoNoMatch

PrevChar == Is("prev") /\ IF cptr = 0 THEN GotoNoMatch ELSE Advance(CharBefore(cptr, 0).next)

LineStart ==
    Is("line_start") /\ Test(cptr = 0 \/ (Instruction.m /\ IsLineTerminator(CharBefore(cptr, 0).c)))
LineEnd ==
    Is("line_end") /\ Test(cptr = End \/ (Instruction.m /\ IsLineTerminator(CharAt(cptr, End).c)))

WordBoundary ==
    LET before == cptr # 0 /\ IsWordChar(CharBefore(cptr, 0).c, Instruction.i)
        after  == cptr < End /\ IsWordChar(CharAt(cptr, End).c, Instruction.i)
    IN  Is("word_boundary") /\ Test((before # after) # Instruction.not)

SaveStart == Is("save_start") /\ Save(Place(Instruction.group), cptr)
SaveEnd   == Is("save_end") /\ Save(Place(Instruction.group) + 1, cptr)

SaveReset ==
    LET first == Place(Instruction.from)
        last  == Place(Instruction.last) + 1
        n     == last - first + 1
    IN  /\ Is("save_reset")
        /\ \/ /\ stack' = stack \o [k \in 1 .. n |-> Undo(first + k - 1, capture[first + k - 1])]
              /\ capture' = [i \in DOMAIN capture |-> IF i \in first .. last THEN Null ELSE capture[i]]
              /\ Go(pc + 1)
              /\ UNCHANGED <<call, cptr, bp>>
           \/ Refused

\* set_i32 and set_char_pos
SetRegister ==
    /\ status = "running"
    /\ Instruction.op \in {"set_i32", "set_char_pos"}
    /\ LET idx == Register(Instruction.reg)
       IN  \/ /\ stack' = stack \o Entries(idx)
              /\ capture' = [capture EXCEPT ![idx] = IF Instruction.op = "set_i32" THEN Instruction.n
                                                                                 ELSE cptr]
              /\ Go(pc + 1)
              /\ UNCHANGED <<call, cptr, bp>>
           \/ Refused

CheckAdvance == Is("check_advance") /\ Test(capture[Register(Instruction.reg)] # cptr)

Goto == /\ Is("goto")
        /\ Poll(pc + 1 + Instruction.to)
        /\ UNCHANGED <<call, cptr, capture, stack, bp>>

\* One of the two ways is taken and the other left in a frame.
SplitTo(s, cap, first, other) ==
    /\ stack' = Append(s, [Frame("split", other) EXCEPT !.was = cap])
    /\ bp' = Len(s) + 1
    /\ Go(first)

Split ==
    LET there == pc + 1 + Instruction.to
    IN  /\ status = "running"
        /\ \/ /\ \/ Is("split_next_first") /\ SplitTo(stack, capture, pc + 1, there)
                 \/ Is("split_goto_first") /\ SplitTo(stack, capture, there, pc + 1)
              /\ UNCHANGED <<call, cptr, capture>>
           \/ Instruction.op \in {"split_next_first", "split_goto_first"} /\ Refused

Lookahead ==
    /\ Is("lookahead")
    /\ \/ /\ stack' = Append(stack, Frame(IF Instruction.negative THEN "negative" ELSE "lookahead",
                                          pc + 1 + Instruction.to))
          /\ bp' = Len(stack) + 1
          /\ Go(pc + 1)
          /\ UNCHANGED <<call, cptr, capture>>
       \/ Refused

\* Variant: the count is read and not written back.
LoopUncounted ==
    /\ Is("loop")
    /\ stack' = stack \o Entries(Register(Instruction.reg))
    /\ IF capture[Register(Instruction.reg)] - 1 # 0 THEN Poll(pc + 1 + Instruction.to) ELSE Go(pc + 1)
    /\ UNCHANGED <<call, cptr, capture, bp>>

\* Count down, and again until the counter is at zero.
Loop ==
    LET idx  == Register(Instruction.reg)
        left == capture[idx] - 1
    IN  /\ Is("loop")
        /\ \/ /\ stack' = stack \o Entries(idx)
              /\ capture' = [capture EXCEPT ![idx] = left]
              /\ IF left # 0 THEN Poll(pc + 1 + Instruction.to) ELSE Go(pc + 1)
              /\ UNCHANGED <<call, cptr, bp>>
           \/ Refused

\* The end of an iteration of a counted loop.  While more must follow,
\* again; past that an iteration has to have advanced, and until none is
\* left going on is a choice.
LoopSplit ==
    LET idx    == Register(Instruction.reg)
        left   == capture[idx] - 1
        limit  == Instruction.limit
        saved  == stack \o Entries(idx)
        counted == [capture EXCEPT ![idx] = left]
        again  == pc + 1 + Instruction.to
        stuck  == Instruction.checks /\ capture[idx + 1] = cptr /\ left # limit
    IN  /\ Is("loop_split")
        /\ \/ /\ left > limit
              /\ stack' = saved /\ capture' = counted
              /\ Poll(again)
              /\ UNCHANGED <<call, cptr, bp>>
           \/ /\ left <= limit /\ stuck
              /\ Fail(counted, saved, bp)
           \/ /\ left <= limit /\ ~stuck /\ left = 0
              /\ stack' = saved /\ capture' = counted
              /\ Go(pc + 1)
              /\ UNCHANGED <<call, cptr, bp>>
           \/ /\ left <= limit /\ ~stuck /\ left # 0
              /\ capture' = counted
              /\ IF Instruction.goesFirst THEN SplitTo(saved, counted, again, pc + 1)
                                          ELSE SplitTo(saved, counted, pc + 1, again)
              /\ UNCHANGED <<call, cptr>>
           \/ Refused

\* What is read of a captured text, forwards from the position or
\* backwards: the position after it, or Null when the text differs there.
ReadAgain(from, to, back, i) ==
    LET Same(c, d) == Folded(c, i) = Folded(d, i)
        ahead[p \in from .. to, q \in 0 .. End] ==
            IF p = to THEN q
            ELSE IF q = End \/ ~Same(CharAt(p, to).c, CharAt(q, End).c) THEN Null
            ELSE ahead[CharAt(p, to).next, CharAt(q, End).next]
        behind[p \in from .. to, q \in 0 .. End] ==
            IF p = from THEN q
            ELSE IF q = 0 \/ ~Same(CharBefore(p, from).c, CharBefore(q, 0).c) THEN Null
            ELSE behind[CharBefore(p, from).next, CharBefore(q, 0).next]
    IN  IF back THEN behind[to, cptr] ELSE ahead[from, cptr]

\* The first group with a capture decides; with none the reference is empty.
BackReference ==
    LET groups == Instruction.groups
        IsSet(g) == capture[Place(g)] # Null /\ capture[Place(g) + 1] # Null
        set  == {k \in 1 .. Len(groups) : IsSet(groups[k])}
        g    == groups[Min(set)]
        after == IF set = {} THEN cptr
                 ELSE ReadAgain(capture[Place(g)], capture[Place(g) + 1], Instruction.back, Instruction.i)
    IN  /\ Is("back_reference")
        /\ IF after = Null THEN GotoNoMatch ELSE Advance(after)

-----------------------------------------------------------------------------

\* lre_exec: a start inside a surrogate pair moves to the pair's.  The
\* registers are not initialised: their values, never read before they are
\* set, are Null here.
StartOf(j) ==
    IF j.wide /\ j.program.unicode /\ 0 < j.start /\ j.start < Len(j.text)
       /\ IsLo(j.text[j.start + 1]) /\ IsHi(j.text[j.start])
    THEN j.start - 1 ELSE j.start

Init ==
    /\ \E n \in 1 .. Len(Calls) : call = Calls[n]
    /\ pc = 1
    /\ cptr = StartOf(call)
    /\ capture = [i \in 0 .. 2 * call.program.captures + call.program.registers - 1 |-> Null]
    /\ stack = <<>> /\ bp = 0
    /\ status = "running"

Next ==
    \/ Match \/ LookaheadMatch \/ NegativeLookaheadMatch
    \/ Character \/ PrevChar \/ LineStart \/ LineEnd \/ WordBoundary
    \/ SaveStart \/ SaveEnd \/ SaveReset
    \/ SetRegister \/ CheckAdvance \/ Loop \/ LoopSplit
    \/ Goto \/ Split \/ Lookahead \/ BackReference

Spec == Init /\ [][Next]_vars /\ WF_vars(Next)
-----------------------------------------------------------------------------
(* A property.                                                             *)

\* What is on the stack above the top frame undoes everything since the
\* frame was pushed, captures and registers both, however many loops,
\* resets and lookaheads came in between: backtracking sees the state it
\* left (no_match and SAVE_CAPTURE_CHECK of native/quickjs/libregexp.c).  A
\* frame further down is the top one when it is gone back to.
UndoRestores == bp # 0 => Restored(capture, stack, bp) = stack[bp].was
=============================================================================
