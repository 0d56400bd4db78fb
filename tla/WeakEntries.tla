---------------------------- MODULE WeakEntries ----------------------------
(***************************************************************************)
(* A WeakMap's or WeakSet's record (engine/heap.zs, Weak records): keys    *)
(* and values by position in two private arrays, and an index from a       *)
(* key's hash to its position.  Removed entries keep their positions until *)
(* a compaction, which an insertion or a collection makes, and which moves *)
(* the entries above them.                                                 *)
(*                                                                         *)
(* The record is old and its arrays large, so that a young cell stored in  *)
(* them is remembered by its place: Collector has the other cases, and     *)
(* names entries by their keys.  `young` and `listed` are what moving      *)
(* entries could break.  A full collection starts with nothing remembered  *)
(* and ends with nothing young.                                            *)
(***************************************************************************)
EXTENDS Probing

CONSTANTS
    WeakKey,    \* the keys that can be held weakly
    Fresh       \* the cells that may be allocated anew; any other is old

ASSUME WeakAssumption == WeakKey \subseteq Key /\ Fresh \subseteq WeakKey \union Value

VARIABLES
    weakKeys, weakValues,   \* by position, from 1
    weakIndex,              \* per slot a position, WEAK_EMPTY or WEAK_TOMBSTONE
    weakSize,               \* entries present
    young,                  \* the cells allocated since the last collection
    listed,                 \* rememberedSlots: <<array, position>>
    weakAnswer              \* what the last operation returned

record == <<weakKeys, weakValues, weakIndex, weakSize>>
weakVars == <<record, young, listed, weakAnswer>>

WEAK_EMPTY == -1
WEAK_TOMBSTONE == -2

WeakInit ==
    /\ weakKeys = <<>> /\ weakValues = <<>>
    /\ weakIndex = Filled(FirstCapacity, WEAK_EMPTY)
    /\ weakSize = 0
    /\ young = {} /\ listed = {}
    /\ weakAnswer = <<"none">>
-----------------------------------------------------------------------------
\* weakFind: past their length the arrays have the deleted marker, and the
\* search goes round at most once.
WeakHolding(key) == {at \in DOMAIN weakKeys : weakKeys[at] = key}
WeakFind(key) ==
    LET held == weakIndex[Found(weakIndex, Hash[key], {WEAK_EMPTY} \union WeakHolding(key))]
    IN  IF held \in WeakHolding(key) THEN held ELSE Absent

\* weakIndexInsert.
IndexInsert(slots, key, position) ==
    [slots EXCEPT ![Found(slots, Hash[key], {WEAK_EMPTY, WEAK_TOMBSTONE})] = position]

\* Variant: into the slots as they are.
RebuiltOver(slots, ks) ==
    LET after[at \in 0 .. Len(ks)] ==
            IF at = 0 THEN slots
            ELSE IF ks[at] = Deleted THEN after[at - 1] ELSE IndexInsert(after[at - 1], ks[at], at)
    IN  after[Len(ks)]

\* weakRebuildIndex.
Rebuilt(slots, ks) ==
    LET after[at \in 0 .. Len(ks)] ==
            IF at = 0 THEN Filled(Capacity(slots), WEAK_EMPTY)
            ELSE IF ks[at] = Deleted THEN after[at - 1] ELSE IndexInsert(after[at - 1], ks[at], at)
    IN  after[Len(ks)]

\* The barrier of a store in an array: the place, if the value is young.
Listing(array, position, value) == IF value \in young THEN {<<array, position>>} ELSE {}

\* weakCompact: the positions that stay, which move down to the first ones,
\* each store through the barrier.
Staying(ks) ==
    LET among[at \in 0 .. Len(ks)] ==
            IF at = 0 THEN <<>>
            ELSE IF ks[at] = Deleted THEN among[at - 1] ELSE Append(among[at - 1], at)
    IN  among[Len(ks)]
Compacted(array, ks) == [at \in DOMAIN Staying(ks) |-> array[Staying(ks)[at]]]

\* Variant: what moves is stored past the barrier.
MovedUnlisted(ks, vs) == {}

Moved(ks, vs) ==
    UNION {Listing("keys", at, Compacted(ks, ks)[at]) \union Listing("values", at, Compacted(vs, ks)[at]) :
              at \in {at \in DOMAIN Staying(ks) : Staying(ks)[at] # at}}

\* weakPut: no room in the index for one more position, and what is done
\* about it: a compaction when most positions are of removed entries, and
\* the doubling of the index when that did not help.
NoRoom(ks, slots) == (Len(ks) + 1) * 4 > Capacity(slots) * 3
Compacts == NoRoom(weakKeys, weakIndex) /\ weakSize * 2 < Len(weakKeys)

RoomMade ==
    LET ks == IF Compacts THEN Compacted(weakKeys, weakKeys) ELSE weakKeys
        vs == IF Compacts THEN Compacted(weakValues, weakKeys) ELSE weakValues
    IN  [keys |-> ks, values |-> vs,
         index |-> IF NoRoom(ks, weakIndex)
                   THEN Rebuilt(Filled(2 * Capacity(weakIndex), WEAK_EMPTY), ks)
                   ELSE IF Compacts THEN Rebuilt(weakIndex, ks) ELSE weakIndex,
         listed |-> IF Compacts THEN Moved(weakKeys, weakValues) ELSE {}]

WeakPut(key, value) ==
    /\ IF WeakFind(key) # Absent
       THEN /\ weakValues' = [weakValues EXCEPT ![WeakFind(key)] = value]
            /\ listed' = listed \union Listing("values", WeakFind(key), value)
            /\ UNCHANGED <<weakKeys, weakIndex, weakSize>>
       ELSE LET made == RoomMade
                position == Len(made.keys) + 1
            IN  /\ weakKeys' = Append(made.keys, key)
                /\ weakValues' = Append(made.values, value)
                /\ weakIndex' = IndexInsert(made.index, key, position)
                /\ weakSize' = weakSize + 1
                /\ listed' = listed \union made.listed
                                 \union Listing("keys", position, key)
                                 \union Listing("values", position, value)
    /\ weakAnswer' = <<"none">>
    /\ UNCHANGED young

\* The prototypes' get and has.
WeakGet(key) ==
    /\ weakAnswer' = IF WeakFind(key) # Absent THEN <<"value", weakValues[WeakFind(key)]>> ELSE <<"absent">>
    /\ UNCHANGED <<record, young, listed>>

\* weakRetire, of a record r: the search is for the position, from its key.
Retired(r, position) ==
    LET key == r.keys[position]
    IN  [keys |-> [r.keys EXCEPT ![position] = Deleted],
         values |-> [r.values EXCEPT ![position] = Deleted],
         index |-> [r.index EXCEPT ![Found(r.index, Hash[key], {position})] = WEAK_TOMBSTONE]]
Whole == [keys |-> weakKeys, values |-> weakValues, index |-> weakIndex]

\* weakDelete.
WeakDelete(key) ==
    /\ IF WeakFind(key) # Absent
       THEN LET r == Retired(Whole, WeakFind(key))
            IN  /\ weakKeys' = r.keys /\ weakValues' = r.values /\ weakIndex' = r.index
                /\ weakSize' = weakSize - 1
       ELSE UNCHANGED record
    /\ weakAnswer' = <<"deleted", WeakFind(key) # Absent>>
    /\ UNCHANGED <<young, listed>>

\* The entries of dead keys retired, by their positions.
WithoutDead(dead) ==
    LET after[at \in 0 .. Len(weakKeys)] ==
            IF at = 0 THEN Whole
            ELSE IF weakKeys[at] \in dead THEN Retired(after[at - 1], at) ELSE after[at - 1]
    IN  after[Len(weakKeys)]

\* clearDeadWeakEntries, in a full collection that finds these keys dead:
\* their entries are retired, and the record compacted and its index built
\* anew if there were any.  Cells that survive are old from then on.
FullCollection(dead) ==
    /\ IF dead = {}
       THEN UNCHANGED record
       ELSE LET r == WithoutDead(dead)
                ks == Compacted(r.keys, r.keys)
            IN  /\ weakKeys' = ks
                /\ weakValues' = Compacted(r.values, r.keys)
                /\ weakIndex' = Rebuilt(r.index, ks)
                /\ weakSize' = weakSize - Cardinality(dead)
    /\ young' = {} /\ listed' = {}
    /\ weakAnswer' = <<"died", dead>>

\* A minor collection keeps every entry, and what the listed places hold.
MinorCollection ==
    /\ young' = {} /\ listed' = {}
    /\ weakAnswer' = <<"died", {}>>
    /\ UNCHANGED record

\* A cell is allocated anew, its handle having been free.
Present == Range(weakKeys) \ {Deleted}
Allocate(cell) ==
    /\ cell \notin Range(weakKeys) \union Range(weakValues)
    /\ young' = young \union {cell}
    /\ UNCHANGED <<record, listed, weakAnswer>>

WeakNext ==
    \/ \E key \in WeakKey : WeakGet(key) \/ WeakDelete(key) \/ \E value \in Value : WeakPut(key, value)
    \/ \E dead \in SUBSET Present : FullCollection(dead)
    \/ MinorCollection
    \/ \E cell \in Fresh : Allocate(cell)

WeakSpec == WeakInit /\ [][WeakNext]_weakVars
-----------------------------------------------------------------------------
\* The record is the map a program sees, less the entries of dead keys,
\* through any retirements, compactions and rebuilt or grown indexes.
Mapping == INSTANCE WeakMapping WITH
    map <- ValuesOf(weakKeys, weakValues),
    answer <- weakAnswer
ImplementsWeakMapping == Mapping!Spec

\* Every young cell in an entry is remembered by the place the entry is at
\* now, whatever compactions have moved it.
YoungEntriesListed ==
    \A at \in DOMAIN weakKeys :
        /\ weakKeys[at] \in young => <<"keys", at>> \in listed
        /\ weakValues[at] \in young => <<"values", at>> \in listed

\* Every search of the index ends.
WeakSearchesEnd == \E slot \in DOMAIN weakIndex : weakIndex[slot] < 0
=============================================================================
