--------------------------- MODULE RegExpObjects ---------------------------
(***************************************************************************)
(* What a program is promised of regular expression objects (ECMA-262,     *)
(* RegExpBuiltinExec): a match is of the object's pattern as it is then,   *)
(* on the text given, from the object's lastIndex, and nothing writes a    *)
(* lastIndex that is read-only.  A lastIndex that is an object is made a   *)
(* number by the program, which may do anything meanwhile.                 *)
(***************************************************************************)
EXTENDS Integers, Sequences

CONSTANTS
    Object,     \* regular expression objects
    Pattern,    \* patterns with their flags
    Global,     \* the patterns with flag g or y
    Text,
    Length,     \* a text's length
    MatchEnd,   \* the end of a pattern's match in a text from an index, or NoMatch
    NoMatch,
    Index,      \* the indices a program may give
    NoRegex,     \* no object there
    Valued      \* a lastIndex whose number the program gives

VARIABLES
    object,     \* each object's pattern, lastIndex and whether that is writable
    begun,      \* the executions waiting for their lastIndex, the innermost last
    answer      \* what the last call returned

Fresh(p) == [pattern |-> p, lastIndex |-> 0, writable |-> TRUE]
Exists(r) == object[r] # NoRegex
Innermost == begun[Len(begun)]

Init ==
    /\ object = [r \in Object |-> NoRegex]
    /\ begun = <<>> /\ answer = <<"none">>

New(r, p) ==
    /\ \A i \in DOMAIN begun : begun[i].of # r
    /\ object' = [object EXCEPT ![r] = Fresh(p)]
    /\ answer' = <<"none">> /\ UNCHANGED begun

\* A refilled object's lastIndex is set to 0, or the setting is refused.
Refill(r, p) ==
    /\ Exists(r)
    /\ object' = [object EXCEPT ![r].pattern = p, ![r].lastIndex = IF object[r].writable THEN 0 ELSE @]
    /\ answer' = IF object[r].writable THEN <<"none">> ELSE <<"thrown">>
    /\ UNCHANGED begun

Assign(r, i) ==
    /\ Exists(r) /\ object[r].writable
    /\ object' = [object EXCEPT ![r].lastIndex = i]
    /\ answer' = <<"none">> /\ UNCHANGED begun

Freeze(r) ==
    /\ Exists(r)
    /\ object' = [object EXCEPT ![r].writable = FALSE]
    /\ answer' = <<"none">> /\ UNCHANGED begun

\* A call refused for want of memory, of time or of a right pattern, or one
\* the program threw in.
Throw == answer' = <<"thrown">> /\ UNCHANGED object
Fail == Throw /\ UNCHANGED begun

\* The rest of an execution, with the index it has been given.
Finish(r, text, index) ==
    LET p == object[r].pattern
        from == IF p \in Global THEN index ELSE 0
        end == IF from > Length[text] THEN NoMatch ELSE MatchEnd[p][text][from]
        next == IF end = NoMatch THEN 0 ELSE end
    IN  IF p \in Global /\ ~object[r].writable
        THEN Throw
        ELSE /\ answer' = IF end = NoMatch THEN <<"null">> ELSE <<"match", p, text, from>>
             /\ object' = [object EXCEPT ![r].lastIndex = IF p \in Global THEN next ELSE @]

Exec(r, text) ==
    /\ Exists(r)
    /\ IF object[r].lastIndex = Valued
       THEN /\ begun' = Append(begun, [of |-> r, text |-> text])
            /\ answer' = <<"none">> /\ UNCHANGED object
       ELSE Finish(r, text, object[r].lastIndex) /\ UNCHANGED begun

Pop == begun # <<>> /\ begun' = SubSeq(begun, 1, Len(begun) - 1)

\* The program gives the index, or throws, or the execution fails.
Continue(index) == Pop /\ Finish(Innermost.of, Innermost.text, index)
Abandon == Pop /\ Throw

Next ==
    \/ \E r \in Object, p \in Pattern : New(r, p) \/ Refill(r, p)
    \/ \E r \in Object, i \in Index \union {Valued} : Assign(r, i)
    \/ \E r \in Object : Freeze(r)
    \/ \E r \in Object, text \in Text : Exec(r, text)
    \/ \E index \in Index : Continue(index)
    \/ Abandon \/ Fail

Spec == Init /\ [][Next]_<<object, begun, answer>>
=============================================================================
