----------------------------- MODULE MCTables ------------------------------
(***************************************************************************)
(* The engine's three hashed structures on small instances, one of them at *)
(* a time: they share nothing but the way they search.  The keys' hashes   *)
(* make two of them collide at the end of every index, and the third come  *)
(* after them, round the end.                                              *)
(***************************************************************************)
EXTENDS EntryTable, WeakEntries, AtomTable

VARIABLE subject    \* the structure in use

EndHash == [key \in Key |-> IF key = "c" THEN 0 ELSE 15]

Symmetry == Permutations(StringCell)

Init ==
    /\ subject \in {"table", "record", "atoms"}
    /\ TableInit /\ WeakInit /\ AtomInit

Next ==
    \/ subject = "table" /\ TableNext /\ UNCHANGED <<subject, weakVars, atomVars>>
    \/ subject = "record" /\ WeakNext /\ UNCHANGED <<subject, tableVars, atomVars>>
    \/ subject = "atoms" /\ AtomNext /\ UNCHANGED <<subject, tableVars, weakVars>>

Spec == Init /\ [][Next]_<<subject, tableVars, weakVars, atomVars>>

\* No search of an index or a table goes round for ever: each has a slot
\* that stops it, however full of removed entries it is.
SearchesEnd == TableSearchesEnd /\ WeakSearchesEnd /\ AtomSearchesEnd
=============================================================================
