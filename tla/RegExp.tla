------------------------------- MODULE RegExp -------------------------------
(***************************************************************************)
(* Patterns compiled and matched: RegExpMatcher on the programs            *)
(* RegExpCompiler makes, against RegExpSemantics.                          *)
(*                                                                         *)
(* A call carries the pattern and the flags its program was compiled from.  *)
(***************************************************************************)
EXTENDS RegExpMatcher

CONSTANT Alphabet     \* the characters a class is looked at over

Compiler == INSTANCE RegExpCompiler WITH CaseMap <- [u \in BOOLEAN |-> [c \in {} |-> c]]
Standard == INSTANCE RegExpSemantics WITH CanonicalOf <- Fold

\* The result is the standard's: the same first match or none, with the
\* same captures.  It is the whole of what the compiler's jumps, resets,
\* counters and checks and the matcher's order of trying are for.
MatchIsSpecified ==
    LET v == [text |-> call.text, codePoints |-> Utf16, names |-> Compiler!NamesOf(call.pattern)]
        meant == Standard!Meaning(v, call.flags, call.pattern, call.start)
        At(g) == <<capture[Place(g)], capture[Place(g) + 1]>>
    IN  /\ status = "no match" => meant = <<>>
        /\ status = "match" =>
              /\ meant # <<>>
              /\ At(0) = <<meant[1].start, meant[1].end>>
              /\ \A g \in 1 .. call.program.captures - 1 :
                    At(g) = (IF meant[1].captures[g] = <<>> THEN <<Null, Null>> ELSE meant[1].captures[g])

\* No choice is open twice in the same state: a loop whose body matched
\* nothing does not come round to where it was.  It is why matching ends
\* and the stack is bounded.
ChoicesDiffer ==
    \A t \in 1 .. bp - 1 :
        IsFrame(stack[t]) => \/ stack[t].pc # stack[bp].pc \/ stack[t].cptr # stack[bp].cptr
                             \/ stack[t].was # stack[bp].was

\* Every match ends: with a result, or stopped by the host or by memory.
Terminates == <>(status # "running")
=============================================================================
