---------------------------- MODULE EntryTable -----------------------------
(***************************************************************************)
(* A Map's or Set's table (engine/heap.zs, Tables) and the operations on   *)
(* it (engine/builtins/collections.zs): entries by position, which never   *)
(* move and are never taken again, and an index from a key's hash to its   *)
(* position.  Walks go by position: forEach calls the program at every     *)
(* entry, and between two calls of an iterator's next anything happens.    *)
(*                                                                         *)
(* An entry's value is kept apart from its key (a Set stores the key).     *)
(* The -0 that becomes +0, and what makes two keys the same, are data.     *)
(***************************************************************************)
EXTENDS Probing

CONSTANTS
    Walk,           \* iterators and forEach calls
    MaxPositions    \* a bound on the positions taken

ASSUME MaxPositionsAssumption == MaxPositions \in Nat

VARIABLES
    keys, values, hashes,    \* by position, from 1
    index,                   \* per slot a position, TABLE_EMPTY or TABLE_REMOVED
    live,                    \* entries present
    walks,                   \* per walk, the position it has come to
    answer                   \* what the last operation returned

table == <<keys, values, hashes, index, live>>
tableVars == <<table, walks, answer>>

TABLE_EMPTY == -1
TABLE_REMOVED == -2

\* A walk's position once it has reported its end.
Ended == 0

TableInit ==
    /\ keys = <<>> /\ values = <<>> /\ hashes = <<>>
    /\ index = Filled(FirstCapacity, TABLE_EMPTY)
    /\ live = 0
    /\ walks = [w \in Walk |-> Ended]
    /\ answer = <<"none">>
-----------------------------------------------------------------------------
\* tableFind (probeTable).
Holding(key) == {at \in DOMAIN keys : hashes[at] = Hash[key] /\ keys[at] = key}
TableFind(key) ==
    LET held == index[Found(index, Hash[key], {TABLE_EMPTY} \union Holding(key))]
    IN  IF held \in Holding(key) THEN held ELSE Absent

\* A position in the first slot of its probe that does not hold one.
Placed(slots, position, hash) ==
    [slots EXCEPT ![Found(slots, hash, {TABLE_EMPTY, TABLE_REMOVED})] = position]

\* growTableIndex: the live entries, by their kept hashes.
Regrown ==
    LET after[at \in 0 .. Len(keys)] ==
            IF at = 0 THEN Filled(2 * Capacity(index), TABLE_EMPTY)
            ELSE IF keys[at] = Deleted THEN after[at - 1]
            ELSE Placed(after[at - 1], at, hashes[at])
    IN  after[Len(keys)]

\* Variant: only the live entries are counted.
CrowdedByLive == (live + 1) * 4 > Capacity(index) * 3

\* No room for one more position, removed entries counted.
Crowded == (Len(keys) + 1) * 4 > Capacity(index) * 3

\* tableAdd.
TableAdd(key, value) ==
    /\ keys' = Append(keys, key)
    /\ values' = Append(values, value)
    /\ hashes' = Append(hashes, Hash[key])
    /\ index' = Placed(IF Crowded THEN Regrown ELSE index, Len(keys) + 1, Hash[key])
    /\ live' = live + 1

\* putEntry: Map.prototype.set, Set.prototype.add.
PutEntry(key, value) ==
    LET existing == TableFind(key)
    IN  /\ IF existing # Absent
           THEN /\ values' = [values EXCEPT ![existing] = value]
                /\ UNCHANGED <<keys, hashes, index, live>>
           ELSE Len(keys) < MaxPositions /\ TableAdd(key, value)
        /\ answer' = <<"none">>
        /\ UNCHANGED walks

\* The prototypes' get.
GetEntry(key) ==
    LET position == TableFind(key)
    IN  /\ answer' = IF position # Absent THEN <<"value", values[position]>> ELSE <<"absent">>
        /\ UNCHANGED <<table, walks>>

\* tableRemove: the search is for the position, from its kept hash.
TableRemove(position) ==
    /\ index' = [index EXCEPT ![Found(index, hashes[position], {position})] = TABLE_REMOVED]
    /\ keys' = [keys EXCEPT ![position] = Deleted]
    /\ values' = [values EXCEPT ![position] = Deleted]
    /\ live' = live - 1
    /\ UNCHANGED hashes

\* deleteEntry.
DeleteEntry(key) ==
    LET position == TableFind(key)
    IN  /\ IF position # Absent THEN TableRemove(position) ELSE UNCHANGED table
        /\ answer' = <<"deleted", position # Absent>>
        /\ UNCHANGED walks

\* clearEntries (tableClear): positions stay taken.
ClearEntries ==
    /\ keys' = [at \in DOMAIN keys |-> Deleted]
    /\ values' = [at \in DOMAIN keys |-> Deleted]
    /\ index' = Filled(Capacity(index), TABLE_EMPTY)
    /\ live' = 0 /\ answer' = <<"none">>
    /\ UNCHANGED <<hashes, walks>>

\* The size getters (tableLive).
SizeOf ==
    /\ answer' = <<"size", live>>
    /\ UNCHANGED <<table, walks>>

\* makeIterator, or the start of forEach.
StartWalk(w) ==
    /\ walks' = [walks EXCEPT ![w] = 1]
    /\ answer' = <<"none">>
    /\ UNCHANGED table

\* Variant: removed entries are not passed over.
BeyondRemoved(position) == position .. Len(keys)

\* The first live entry from a walk's position on, and the end of both
\* loops: forEach's ends for good, an iterator forgets its table.
Beyond(position) == {at \in position .. Len(keys) : keys[at] # Deleted}

\* iteratorNext, or forEach as far as its next call of the program.
WalkOn(w) ==
    /\ IF walks[w] = Ended \/ Beyond(walks[w]) = {}
       THEN /\ walks' = [walks EXCEPT ![w] = Ended]
            /\ answer' = <<"end">>
       ELSE LET at == Min(Beyond(walks[w]))
            IN  /\ walks' = [walks EXCEPT ![w] = at + 1]
                /\ answer' = <<"visit", keys[at], values[at]>>
    /\ UNCHANGED table

TableNext ==
    \/ \E key \in Key : GetEntry(key) \/ DeleteEntry(key) \/ \E value \in Value : PutEntry(key, value)
    \/ ClearEntries \/ SizeOf
    \/ \E w \in Walk : StartWalk(w) \/ WalkOn(w)

TableSpec == TableInit /\ [][TableNext]_tableVars
-----------------------------------------------------------------------------
\* The keys present from a position on, in the order of their positions.
LiveKeysOf(ks, position) ==
    LET ofLast[n \in 0 .. Len(ks)] ==
            IF n = 0 THEN <<>>
            ELSE IF ks[Len(ks) + 1 - n] = Deleted THEN ofLast[n - 1]
            ELSE <<ks[Len(ks) + 1 - n]>> \o ofLast[n - 1]
    IN  ofLast[Len(ks) + 1 - position]
LiveKeys(position) == LiveKeysOf(keys, position)

\* The table is the ordered map a program sees, for any history of it,
\* removed entries, clears and grown indexes included: what is looked up is
\* found, and a walk visits what was present when it started and what is
\* added before its end, in order, each once, and nothing deleted before.
Live == INSTANCE LiveEntries WITH
    order <- LiveKeys(1),
    map <- ValuesOf(keys, values),
    ahead <- [w \in Walk |-> IF walks[w] = Ended THEN <<>> ELSE LiveKeys(walks[w])],
    ended <- {w \in Walk : walks[w] = Ended}
ImplementsLiveEntries == Live!Spec

\* Every search ends: the index never fills up with entries and the marks
\* removed ones leave.
TableSearchesEnd == \E slot \in DOMAIN index : index[slot] = TABLE_EMPTY
=============================================================================
