----------------------------- MODULE RegExpExec -----------------------------
(***************************************************************************)
(* How a regular expression object is executed (engine/regex.zs,           *)
(* engine/builtins/regexp.zs, native/zjs_regexp.c): the cache of compiled  *)
(* patterns the objects name by slot and ticket, the one scratch buffer    *)
(* that takes patterns and texts in turn and is not loaded again with a    *)
(* text it still holds.  The captures of a match are read before anything  *)
(* else can match, in the step that makes it.                              *)
(*                                                                         *)
(* The matcher itself is module RegExpMatcher: here what it finds is       *)
(* given.  The clock that finds the least recently used slot is the order  *)
(* of the uses.                                                            *)
(***************************************************************************)
EXTENDS Integers, SequencesExt

CONSTANTS
    Regex, Pattern, Global,             \* as in RegExpObjects
    Subject, SubjectLength, MatchEnd, NoMatch, Index, NoRegex, Valued,
    SubjectCell, Unused,                \* handles of strings; a free one's text
    CacheLimit,                         \* CACHE_LIMIT
    MaxCompiled, MaxSweeps, MaxBegun,   \* bounds: compilations, collections, calls begun
    FreezesInside   \* the program may freeze an object while an execution of it waits

ASSUME RegExpExecAssumption ==
    /\ Global \subseteq Pattern /\ Index \subseteq Nat /\ Valued \notin Nat
    /\ Unused \notin Subject /\ NoMatch \notin Nat
    /\ SubjectLength \in [Subject -> Nat]
    /\ \A p \in Pattern, s \in Subject : \A i \in 0 .. SubjectLength[s] :
          MatchEnd[p][s][i] \in (i .. SubjectLength[s]) \union {NoMatch}
    /\ NoRegex \notin [pattern : Pattern, lastIndex : Nat \union {Valued}, writable : BOOLEAN]
    /\ NoRegex \notin [pattern : Pattern, slot : Nat, ticket : Nat,
                       lastIndex : Nat \union {Valued}, writable : BOOLEAN]
    /\ CacheLimit \in Nat \ {0} /\ MaxCompiled \in Nat /\ MaxSweeps \in Nat /\ MaxBegun \in Nat
    /\ FreezesInside \in BOOLEAN

VARIABLES
    regexes,    \* the objects: pattern, slot and ticket, lastIndex, whether that is writable
    backend,    \* RegexBackend and its native context, below
    subjects,   \* the text of each string
    sweeps,     \* heap.collections
    execs,      \* executions waiting for their lastIndex, the innermost last
    result      \* what the last call returned

execVars == <<regexes, backend, subjects, sweeps, execs, result>>

\* The cache's slots and the order of their last uses; the compiled
\* patterns not freed; what the scratch buffer is known to hold, and the
\* text it holds.
EmptyBackend ==
    [entries |-> <<>>, used |-> <<>>, generations |-> 0, compiled |-> <<>>,
     loadedTag |-> <<>>, scratch |-> Unused]

ExecInit ==
    /\ regexes = [r \in Regex |-> NoRegex]
    /\ backend = EmptyBackend
    /\ subjects = [h \in SubjectCell |-> Unused]
    /\ sweeps = 0 /\ execs = <<>> /\ result = <<"none">>

-----------------------------------------------------------------------------
(* The backend.  What can fail yields a set of outcomes.                   *)

\* A slot's clock set to now.
Use(b, slot) ==
    LET at == CHOOSE i \in DOMAIN b.used : b.used[i] = slot
    IN  [b EXCEPT !.used = Append(RemoveAt(@, at), slot)]

SlotHolding(b, p) == {i \in DOMAIN b.entries : b.entries[i].pattern = p}

\* RegexBackend.ticket
Ticket(b, slot) == IF slot \in DOMAIN b.entries THEN b.entries[slot].generation ELSE 0

\* zjs_re_free
Free(b, handle) ==
    [b EXCEPT !.compiled = [h \in DOMAIN @ \ {handle} |-> @[h]]]

\* A variant: the compiled pattern in a slot taken is not freed.
EnterUnfreed(b, entry) ==
    IF Len(b.entries) < CacheLimit
    THEN [b EXCEPT !.entries = Append(@, entry), !.used = Append(@, Len(b.entries) + 1)]
    ELSE Use([b EXCEPT !.entries[Head(b.used)] = entry], Head(b.used))

\* A compiled pattern takes a slot: a new one, or the one longest unused.
Enter(b, entry) ==
    IF Len(b.entries) < CacheLimit
    THEN [b EXCEPT !.entries = Append(@, entry), !.used = Append(@, Len(b.entries) + 1)]
    ELSE LET victim == Head(b.used)
         IN  Use([Free(b, b.entries[victim].handle) EXCEPT !.entries[victim] = entry], victim)

\* zjs_re_compile, when it succeeds.
ReCompile(b, handle, p) ==
    [b EXCEPT !.compiled = [h \in DOMAIN @ \union {handle} |-> IF h = handle THEN p ELSE @[h]]]

\* RegexBackend.compile: the backend and a slot, or 0 for a failure.  The
\* pattern goes through the scratch buffer.
Compile(b, p) ==
    IF SlotHolding(b, p) # {}
    THEN {LET slot == CHOOSE i \in SlotHolding(b, p) : TRUE IN [b |-> Use(b, slot), slot |-> slot]}
    ELSE LET loaded == [b EXCEPT !.loadedTag = <<>>, !.scratch = Unused]
             g == b.generations + 1
             made == Enter(ReCompile([loaded EXCEPT !.generations = g], g, p),
                           [pattern |-> p, handle |-> g, generation |-> g])
         IN  {[b |-> loaded, slot |-> 0],
              [b |-> made, slot |-> CHOOSE i \in SlotHolding(made, p) : TRUE]}

\* A variant: any entry in the slot will do.
RegexpEntryUnticketed(b, o) ==
    IF o.slot \in DOMAIN b.entries THEN {[b |-> b, slot |-> o.slot]} ELSE Compile(b, o.pattern)

\* regexpEntry: the object's slot while its ticket is the slot's.
RegexpEntry(b, o) ==
    IF Ticket(b, o.slot) = o.ticket THEN {[b |-> b, slot |-> o.slot]} ELSE Compile(b, o.pattern)

\* What names a string's contents: its handle's may change in a collection.
Tag(h) == <<sweeps, h>>

\* zjs_re_exec, of the compiled pattern on what the scratch buffer holds:
\* the match it finds, none, or nothing when it is refused memory or
\* stopped.
ReExec(b, slot, from) ==
    LET p == b.compiled[b.entries[slot].handle]
    IN  {<<>>, <<[pattern |-> p, text |-> b.scratch, from |-> from, end |-> MatchEnd[p][b.scratch][from]]>>}

\* regexpExecRaw: the backend, the slot that has the pattern, and what
\* was found; nothing for what is raised.
Raised(b, slot) == [b |-> b, slot |-> slot, found |-> <<>>]
ExecRaw(o, h, from) ==
    UNION {IF e.slot = 0 THEN {Raised(e.b, 0)}
           ELSE LET loaded == IF e.b.loadedTag = Tag(h) THEN e.b
                              ELSE [e.b EXCEPT !.loadedTag = Tag(h), !.scratch = subjects[h]]
                IN  {Raised(e.b, e.slot)}    \* no memory for the text
                    \union {[b |-> Use(loaded, e.slot), slot |-> e.slot, found |-> found] :
                               found \in ReExec(loaded, e.slot, from)}
           : e \in RegexpEntry(backend, o)}

-----------------------------------------------------------------------------
(* Execution.                                                              *)

Throws == result' = <<"thrown">>

\* The object takes the slot regexpEntry came to, if it did, and a
\* lastIndex.
Settled(r, raw, lastIndex) ==
    [regexes EXCEPT ![r].slot = IF raw.slot = 0 THEN @ ELSE raw.slot,
                    ![r].ticket = IF raw.slot = 0 THEN @ ELSE Ticket(raw.b, raw.slot),
                    ![r].lastIndex = lastIndex]

\* builtinMatch with its lastIndex read, and the result made of it.
\* `known`: the object was of the recorded class when the execution began.
BuiltinMatch(r, h, known, index) ==
    LET o == regexes[r]
        global == o.pattern \in Global
        from == IF global THEN index ELSE 0
    IN  IF from > SubjectLength[subjects[h]]
        THEN /\ IF global /\ ~o.writable
                THEN Throws /\ UNCHANGED regexes
                ELSE /\ result' = <<"null">>
                     /\ regexes' = [regexes EXCEPT ![r].lastIndex = IF global THEN 0 ELSE @]
             /\ UNCHANGED backend
        ELSE \E raw \in ExecRaw(o, h, from) :
                LET ran == raw.found # <<>>
                    matched == ran /\ raw.found[1].end # NoMatch
                    stores == ran /\ global /\ (o.writable \/ (known /\ matched))
                    next == IF matched THEN raw.found[1].end ELSE 0
                IN  /\ backend' = raw.b
                    /\ regexes' = Settled(r, raw, IF stores THEN next ELSE o.lastIndex)
                    /\ IF ~ran \/ (global /\ ~stores) THEN Throws
                       ELSE result' = IF matched
                                      THEN <<"match", raw.found[1].pattern, raw.found[1].text, raw.found[1].from>>
                                      ELSE <<"null">>

\* knownBuiltinExec: one class is recorded at a time, and in it lastIndex
\* is writable.
MayBeKnown(r) == IF regexes[r].writable THEN BOOLEAN ELSE {FALSE}

\* An execution begins; getLastIndex may have to ask the program.
Exec(r, h) ==
    /\ regexes[r] # NoRegex /\ subjects[h] # Unused
    /\ backend.generations < MaxCompiled
    /\ \E known \in MayBeKnown(r) :
          IF regexes[r].lastIndex = Valued
          THEN /\ Len(execs) < MaxBegun
               /\ execs' = Append(execs, [of |-> r, subject |-> h, known |-> known])
               /\ result' = <<"none">> /\ UNCHANGED <<regexes, backend>>
          ELSE BuiltinMatch(r, h, known, regexes[r].lastIndex) /\ UNCHANGED execs
    /\ UNCHANGED <<subjects, sweeps>>

LastExec == execs[Len(execs)]
ExecPopped == execs # <<>> /\ execs' = SubSeq(execs, 1, Len(execs) - 1)

\* The program gives the index, or throws.
GiveIndex(index) ==
    /\ backend.generations < MaxCompiled
    /\ ExecPopped /\ BuiltinMatch(LastExec.of, LastExec.subject, LastExec.known, index)
    /\ UNCHANGED <<subjects, sweeps>>

ThrowInstead == ExecPopped /\ Throws /\ UNCHANGED <<regexes, backend, subjects, sweeps>>

-----------------------------------------------------------------------------
(* The program otherwise.                                                  *)

Waiting(r) == \E i \in DOMAIN execs : execs[i].of = r

\* regexpInitialize of a new object, or of one that is given another
\* pattern (RegExp called with it as `this`).
Initialize(r, p, lastIndex, writable) ==
    \E made \in Compile(backend, p) :
        /\ backend' = made.b
        /\ IF made.slot = 0 THEN Throws /\ UNCHANGED regexes
           ELSE /\ regexes' = [regexes EXCEPT ![r] =
                                  [pattern |-> p, slot |-> made.slot, ticket |-> Ticket(made.b, made.slot),
                                   lastIndex |-> IF writable THEN 0 ELSE lastIndex, writable |-> writable]]
                /\ IF writable THEN result' = <<"none">> ELSE Throws
        /\ UNCHANGED <<subjects, sweeps, execs>>

\* The object at r, if any, is one the program has dropped.
Make(r, p) ==
    /\ ~Waiting(r) /\ backend.generations < MaxCompiled
    /\ Initialize(r, p, 0, TRUE)

Refill(r, p) ==
    /\ regexes[r] # NoRegex /\ backend.generations < MaxCompiled
    /\ Initialize(r, p, regexes[r].lastIndex, regexes[r].writable)

AssignLastIndex(r, i) ==
    /\ regexes[r] # NoRegex /\ regexes[r].writable
    /\ regexes' = [regexes EXCEPT ![r].lastIndex = i]
    /\ result' = <<"none">> /\ UNCHANGED <<backend, subjects, sweeps, execs>>

FreezeRegex(r) ==
    /\ regexes[r] # NoRegex /\ (Waiting(r) => FreezesInside)
    /\ regexes' = [regexes EXCEPT ![r].writable = FALSE]
    /\ result' = <<"none">> /\ UNCHANGED <<backend, subjects, sweeps, execs>>

MakeSubject(h, s) ==
    /\ subjects[h] = Unused
    /\ subjects' = [subjects EXCEPT ![h] = s]
    /\ UNCHANGED <<regexes, backend, sweeps, execs, result>>

\* A collection frees strings the program has dropped.
Sweep ==
    /\ sweeps < MaxSweeps /\ sweeps' = sweeps + 1
    /\ \E dead \in SUBSET SubjectCell :
          /\ \A i \in DOMAIN execs : execs[i].subject \notin dead
          /\ subjects' = [h \in SubjectCell |-> IF h \in dead THEN Unused ELSE subjects[h]]
    /\ UNCHANGED <<regexes, backend, execs, result>>

ExecNext ==
    \/ \E r \in Regex, p \in Pattern : Make(r, p) \/ Refill(r, p)
    \/ \E r \in Regex, i \in Index \union {Valued} : AssignLastIndex(r, i)
    \/ \E r \in Regex : FreezeRegex(r)
    \/ \E h \in SubjectCell, s \in Subject : MakeSubject(h, s)
    \/ Sweep
    \/ \E r \in Regex, h \in SubjectCell : Exec(r, h)
    \/ \E index \in Index : GiveIndex(index)
    \/ ThrowInstead

ExecSpec == ExecInit /\ [][ExecNext]_execVars
-----------------------------------------------------------------------------
\* What the program sees: an execution is of the object's own pattern on
\* the text it was given, whatever has been evicted, loaded or matched
\* since, and lastIndex moves as the standard has it.
Objects == INSTANCE RegExpObjects WITH
    Object <- Regex, Text <- Subject, Length <- SubjectLength,
    object <- [r \in Regex |-> IF regexes[r] = NoRegex THEN NoRegex
                               ELSE [pattern |-> regexes[r].pattern, lastIndex |-> regexes[r].lastIndex,
                                     writable |-> regexes[r].writable]],
    begun <- [i \in DOMAIN execs |-> [of |-> execs[i].of, text |-> subjects[execs[i].subject]]],
    answer <- result
ImplementsRegExpObjects == Objects!Spec

\* The compiled patterns are the cache's, each entry's its own: none is
\* lost, and none is freed that an entry would run (RegexBackend.compile's
\* eviction, against the counts zjs_re_live_handles gives).
CompiledAreCached ==
    /\ DOMAIN backend.compiled = {backend.entries[i].handle : i \in DOMAIN backend.entries}
    /\ \A i \in DOMAIN backend.entries :
          backend.compiled[backend.entries[i].handle] = backend.entries[i].pattern

\* A lastIndex that is read-only keeps its value (builtinMatch's comment:
\* an object of the recorded class keeps lastIndex writable).
ReadOnlyKept ==
    [][\A r \in Regex :
          regexes[r] # NoRegex /\ ~regexes[r].writable /\ ~regexes'[r].writable
              => regexes'[r].lastIndex = regexes[r].lastIndex]_execVars
=============================================================================
