------------------------------ MODULE Probing ------------------------------
(***************************************************************************)
(* Open addressing with linear probing, as the engine's tables do it: an   *)
(* index is an array (a function from 0) of a power of two of slots, and   *)
(* a search goes from a hash's slot upwards, round the end.                *)
(***************************************************************************)
EXTENDS Integers, SequencesExt

CONSTANTS
    Key, Value,      \* what is looked up, and what is kept for it
    Hash,            \* a key's hash
    FirstCapacity,   \* an index's first capacity, 8 or 64 in the code
    Deleted          \* the deleted marker

ASSUME ProbingAssumption ==
    /\ Hash \in [Key -> Nat] /\ Deleted \notin Key \union Value
    /\ FirstCapacity \in Nat \ {0}

Slots(capacity) == 0 .. capacity - 1
Capacity(index) == Cardinality(DOMAIN index)

\* The slot a search from a hash begins at, the slot so many steps on, and
\* how many steps it takes from a slot to another.
Home(index, hash) == hash % Capacity(index)
Around(slot, steps, size) == IF slot + steps < size THEN slot + steps ELSE slot + steps - size
Distance(from, to, size) == IF from <= to THEN to - from ELSE to + size - from

\* The slot a search from a hash ends at: the first it comes to that has one
\* of the contents that stop it, or, when none has, the one it began at.
Found(index, hash, stops) ==
    LET Steps(slot) == Distance(Home(index, hash), slot, Capacity(index))
        stopping == {slot \in DOMAIN index : index[slot] \in stops}
    IN  IF stopping = {} THEN Home(index, hash)
        ELSE CHOOSE slot \in stopping : \A other \in stopping : Steps(slot) <= Steps(other)

\* Positions count from 1; a key that is not found has this one.
Absent == 0

Filled(capacity, content) == [slot \in Slots(capacity) |-> content]

\* The map that two arrays by position stand for.
ValuesOf(ks, vs) ==
    [key \in {ks[at] : at \in DOMAIN ks} \ {Deleted} |-> vs[CHOOSE at \in DOMAIN ks : ks[at] = key]]
=============================================================================
