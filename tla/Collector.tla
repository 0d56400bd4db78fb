----------------------------- MODULE Collector -----------------------------
(***************************************************************************)
(* The generational mark-and-sweep collector of engine/heap.zs, driven by  *)
(* collectNow of engine/runtime.zs.                                        *)
(*                                                                         *)
(* A context runs on one thread, and collects only at a safe point, so the *)
(* program (phase "run") and the collection alternate.  What interleaves   *)
(* is everything else: any sequence of stores between two collections, any *)
(* order in which the marker takes cells, and collections of both kinds.   *)
(*                                                                         *)
(* Data is abstracted to references.  A cell has a link, slots and, when   *)
(* it is a Map/Set table or a weak record, entries (key -> value); Null    *)
(* stands for every value that is not a cell.  A weak record stands for    *)
(* itself and its two private weak arrays, which are allocated with it;    *)
(* the remembered set lists those arrays as the parts "keys" and "values". *)
(* Positions of entries are abstracted (an entry is named by its key), and *)
(* so are slot counts: wherever the code asks whether a holder is large,   *)
(* both answers are possible.                                              *)
(***************************************************************************)
CONSTANTS
    Cell,       \* handles of the table
    Slot,       \* slot indices of an ordinary cell
    Null,       \* a value that is not a cell
    NoEntry,    \* entries[c][k] = NoEntry: c has no entry for the key k
    Kinds       \* the kinds of cell the program allocates

\* Cells with slots alone; with a link as well; strings, which refer to
\* nothing; Map and Set tables; weak records.
AllKinds == {"plain", "linked", "string", "table", "weak"}

ASSUME NullAssumption == Null \notin Cell /\ NoEntry \notin Cell \cup {Null}
ASSUME KindsAssumption == Kinds \subseteq AllKinds

VARIABLES
    tag,              \* CellHeader.tag; "free" is TAG_FREE
    link,             \* CellHeader.link: prototype, parent environment, bag
    slots,            \* the cell's slots
    entries,          \* a table's, or a weak record's, entries
    marked,           \* cells with CellHeader.marked
    young,            \* the cells allocated since the last collection
    remembered,       \* rememberedCells and rememberedSlots
    roots,            \* what markRoots reaches: registers, frames, globals...
    interned,         \* string cells with FLAG_INTERNED
    atoms,            \* the runtime's atom table
    phase,            \* where collectNow is; "run" outside a collection
    minorCollection,  \* Heap.minorCollection
    toMark,           \* roots markRoots has yet to mark
    toTrace,          \* remembered cells and slots yet to trace
    toRegister,       \* entries registerWeakRecord has yet to look at
    markStack,        \* Heap.markStack
    weakRecords,      \* Heap.weakRecords
    pending,          \* the pending ephemerons: <<key, value>>
    deadAtoms         \* Heap.deadAtoms

program == <<tag, link, slots, entries, roots, interned, atoms>>
marking == <<marked, toMark, toTrace, toRegister, markStack, weakRecords, pending>>
vars == <<program, marking, young, remembered, phase, minorCollection, deadAtoms>>

(***************************************************************************)
(* References.                                                             *)
(***************************************************************************)
Allocated == {c \in Cell : tag[c] # "free"}
Old == Allocated \ young

NoSlots == [s \in Slot |-> Null]
NoEntries == [k \in Cell |-> NoEntry]

\* Variant: the empty link and slots are taken for cells.
FieldsWithNull(c) == {link[c]} \cup {slots[c][s] : s \in Slot}

Fields(c) == ({link[c]} \cup {slots[c][s] : s \in Slot}) \ {Null}
Keys(c) == {k \in Cell : entries[c][k] # NoEntry}
Values(c) == {entries[c][k] : k \in Keys(c)} \ {Null}

\* Every cell c refers to, weakly or not.
Refs(c) == Fields(c) \cup Keys(c) \cup Values(c)

\* What keeps c's referents alive whatever else is reachable.
StrongRefs(c) == IF tag[c] = "weak" THEN Fields(c) ELSE Refs(c)

(***************************************************************************)
(* What the program can reach: the least set that has the roots, what a    *)
(* reached cell holds strongly, and the value of an entry of a reached     *)
(* weak record whose key is reached.                                       *)
(***************************************************************************)
Closed(T) ==
    /\ roots \subseteq T
    /\ \A c \in T : StrongRefs(c) \subseteq T
    /\ \A r \in T : tag[r] = "weak" =>
          \A k \in Keys(r) \cap T : entries[r][k] \in T \cup {Null}

Reachable == {c \in Cell : \A T \in SUBSET Cell : Closed(T) => c \in T}

(***************************************************************************)
(* The remembered set: parts of old cells, traced whole, and single slots  *)
(* or entries of large ones.                                               *)
(***************************************************************************)
Part == {"cell", "keys", "values"}
Where == [of : {"slot"}, holder : Cell, at : Slot]
            \cup [of : {"entry", "key", "value"}, holder : Cell, at : Cell]

SlotOf(h, s) == [of |-> "slot", holder |-> h, at |-> s]
EntryOf(h, k) == [of |-> "entry", holder |-> h, at |-> k]
KeyOf(h, k) == [of |-> "key", holder |-> h, at |-> k]
ValueOf(h, k) == [of |-> "value", holder |-> h, at |-> k]

NothingListed == [cells |-> {}, places |-> {}]

\* Whether a store of target into part p of h has to be listed in l.
MustList(l, p, h, target) ==
    /\ target # Null
    /\ h \in marked
    /\ <<p, h>> \notin l.cells
    /\ target \notin marked

\* remember: a link, or a store into a small holder, lists the part.
Remember(l, p, h, target) ==
    IF MustList(l, p, h, target)
    THEN [l EXCEPT !.cells = @ \cup {<<p, h>>}]
    ELSE l

\* rememberStore: a large holder is listed by the place, as long as the
\* list of places is short; the possible remembered sets afterwards.
RememberStore(l, p, h, place, target) ==
    IF MustList(l, p, h, target)
    THEN {[l EXCEPT !.cells = @ \cup {<<p, h>>}], [l EXCEPT !.places = @ \cup {place}]}
    ELSE {l}

\* What traceRemembered finds at a listed part or place.
PartRefs(p, h) ==
    CASE p = "cell" -> StrongRefs(h)
      [] p = "keys" -> Keys(h)
      [] p = "values" -> Values(h)

PlaceRefs(place) ==
    LET h == place.holder
        held == IF place.of = "slot" THEN Null ELSE entries[h][place.at]
    IN  CASE place.of = "slot" -> {slots[h][place.at]} \ {Null}
          [] place.of = "entry" -> IF held = NoEntry THEN {} ELSE {place.at, held} \ {Null}
          [] place.of = "key" -> IF held = NoEntry THEN {} ELSE {place.at}
          [] place.of = "value" -> {held} \ {Null, NoEntry}
-----------------------------------------------------------------------------
(***************************************************************************)
(* The program.  It runs between safe points, and reads and writes only    *)
(* cells it holds in a register (roots).                                   *)
(***************************************************************************)
Init ==
    /\ tag = [c \in Cell |-> "free"]
    /\ link = [c \in Cell |-> Null]
    /\ slots = [c \in Cell |-> NoSlots]
    /\ entries = [c \in Cell |-> NoEntries]
    /\ marked = {} /\ young = {} /\ roots = {} /\ interned = {} /\ atoms = {}
    /\ remembered = NothingListed
    /\ phase = "run" /\ minorCollection = FALSE
    /\ toMark = {} /\ toTrace = NothingListed /\ toRegister = {}
    /\ markStack = {} /\ weakRecords = {} /\ pending = {} /\ deadAtoms = {}

Running == phase = "run"

UnchangedByProgram == UNCHANGED <<marking, phase, minorCollection, deadAtoms>>

\* allocate: the handle of a free cell, its header written afresh.
Allocate(c, kind) ==
    /\ Running /\ tag[c] = "free"
    /\ tag' = [tag EXCEPT ![c] = kind]
    /\ young' = young \cup {c}
    /\ roots' = roots \cup {c}
    /\ UnchangedByProgram
    /\ UNCHANGED <<link, slots, entries, remembered, interned, atoms>>

\* A register takes what a cell it can reach through holds.
Load(h, t) ==
    /\ Running /\ h \in roots
    /\ t \in StrongRefs(h) \ roots
    /\ roots' = roots \cup {t}
    /\ UnchangedByProgram
    /\ UNCHANGED <<tag, link, slots, entries, young, remembered, interned, atoms>>

\* weakGet: the value of the entry for a key the program holds.
WeakGet(r, k) ==
    /\ Running /\ r \in roots /\ k \in roots /\ tag[r] = "weak"
    /\ entries[r][k] \in Cell \ roots
    /\ roots' = roots \cup {entries[r][k]}
    /\ UnchangedByProgram
    /\ UNCHANGED <<tag, link, slots, entries, young, remembered, interned, atoms>>

\* A register is overwritten, a frame popped, a global set.
Drop(c) ==
    /\ Running /\ c \in roots
    /\ roots' = roots \ {c}
    /\ UnchangedByProgram
    /\ UNCHANGED <<tag, link, slots, entries, young, remembered, interned, atoms>>

\* internExisting and the intern functions' new atom: a string takes its
\* place in the atom table.
Intern(c) ==
    /\ Running /\ c \in roots /\ tag[c] = "string" /\ c \notin interned
    /\ interned' = interned \cup {c}
    /\ atoms' = atoms \cup {c}
    /\ UnchangedByProgram
    /\ UNCHANGED <<tag, link, slots, entries, young, remembered, roots>>

\* The intern functions' hit: the table's cell, which nothing else may hold.
InternFound(a) ==
    /\ Running /\ a \in atoms \ roots
    /\ roots' = roots \cup {a}
    /\ UnchangedByProgram
    /\ UNCHANGED <<tag, link, slots, entries, young, remembered, interned, atoms>>

\* setSlot.
SetSlot(h, s, v) ==
    /\ Running /\ h \in roots /\ tag[h] \in {"plain", "linked"} /\ v # slots[h][s]
    /\ slots' = [slots EXCEPT ![h][s] = v]
    /\ remembered' \in RememberStore(remembered, "cell", h, SlotOf(h, s), v)
    /\ UnchangedByProgram
    /\ UNCHANGED <<tag, link, entries, young, roots, interned, atoms>>

\* Variant: the link is stored without the barrier.
SetLinkUnbarriered(h, v) ==
    /\ Running /\ h \in roots /\ tag[h] = "linked" /\ v # link[h]
    /\ link' = [link EXCEPT ![h] = v]
    /\ UnchangedByProgram
    /\ UNCHANGED <<tag, slots, entries, young, remembered, roots, interned, atoms>>

\* setLink, setObjectProto.
SetLink(h, v) ==
    /\ Running /\ h \in roots /\ tag[h] = "linked" /\ v # link[h]
    /\ link' = [link EXCEPT ![h] = v]
    /\ remembered' = Remember(remembered, "cell", h, v)
    /\ UnchangedByProgram
    /\ UNCHANGED <<tag, slots, entries, young, roots, interned, atoms>>

\* A value of the language: the program never sees a record itself, only the
\* object that holds it in a hidden slot (recordOf).
IsValue(v) == v # Null => tag[v] \notin {"table", "weak"}
IsWeakKey(k) == tag[k] \in {"plain", "linked"}

\* tableAdd: an entry the table does not hold, two stores.
TableAdd(h, k, v) ==
    /\ Running /\ {h, k} \subseteq roots /\ tag[h] = "table" /\ IsValue(k) /\ IsValue(v)
    /\ entries[h][k] = NoEntry
    /\ entries' = [entries EXCEPT ![h][k] = v]
    /\ \E l \in RememberStore(remembered, "cell", h, EntryOf(h, k), k) :
          remembered' \in RememberStore(l, "cell", h, EntryOf(h, k), v)
    /\ UnchangedByProgram
    /\ UNCHANGED <<tag, link, slots, young, roots, interned, atoms>>

\* setTableValue: another value for an entry the table holds.
SetTableValue(h, k, v) ==
    /\ Running /\ {h, k} \subseteq roots /\ tag[h] = "table" /\ IsValue(k) /\ IsValue(v)
    /\ entries[h][k] \notin {NoEntry, v}
    /\ entries' = [entries EXCEPT ![h][k] = v]
    /\ remembered' \in RememberStore(remembered, "cell", h, EntryOf(h, k), v)
    /\ UnchangedByProgram
    /\ UNCHANGED <<tag, link, slots, young, roots, interned, atoms>>

\* Variant: the barrier sees the key alone.
WeakPutKeyBarrier(r, k, v) ==
    /\ Running /\ {r, k} \subseteq roots /\ tag[r] = "weak" /\ IsWeakKey(k) /\ IsValue(v)
    /\ entries[r][k] # v
    /\ entries' = [entries EXCEPT ![r][k] = v]
    /\ remembered' \in RememberStore(remembered, "keys", r, KeyOf(r, k), k)
    /\ UnchangedByProgram
    /\ UNCHANGED <<tag, link, slots, young, roots, interned, atoms>>

\* weakPut: a new entry stores its key and value in two weak arrays; an
\* existing one takes the value alone.
WeakPut(r, k, v) ==
    /\ Running /\ {r, k} \subseteq roots /\ tag[r] = "weak" /\ IsWeakKey(k) /\ IsValue(v)
    /\ entries[r][k] # v
    /\ entries' = [entries EXCEPT ![r][k] = v]
    /\ IF entries[r][k] # NoEntry
       THEN remembered' \in RememberStore(remembered, "values", r, ValueOf(r, k), v)
       ELSE \E l \in RememberStore(remembered, "keys", r, KeyOf(r, k), k) :
               remembered' \in RememberStore(l, "values", r, ValueOf(r, k), v)
    /\ UnchangedByProgram
    /\ UNCHANGED <<tag, link, slots, young, roots, interned, atoms>>

\* tableRemove, weakDelete: the deleted marker in the key's place and the value's.
RemoveEntry(h, k) ==
    /\ Running /\ {h, k} \subseteq roots /\ entries[h][k] # NoEntry
    /\ entries' = [entries EXCEPT ![h][k] = NoEntry]
    /\ UnchangedByProgram
    /\ UNCHANGED <<tag, link, slots, young, remembered, roots, interned, atoms>>

\* tableClear.
TableClear(h) ==
    /\ Running /\ h \in roots /\ tag[h] = "table" /\ Keys(h) # {}
    /\ entries' = [entries EXCEPT ![h] = NoEntries]
    /\ UnchangedByProgram
    /\ UNCHANGED <<tag, link, slots, young, remembered, roots, interned, atoms>>

HeldOrNull == roots \cup {Null}

Program ==
    \/ \E c \in Cell, kind \in Kinds : Allocate(c, kind)
    \/ \E h \in roots, t \in Cell : Load(h, t)
    \/ \E r \in roots, k \in roots : WeakGet(r, k)
    \/ \E c \in roots : Drop(c)
    \/ \E c \in roots : Intern(c)
    \/ \E a \in atoms : InternFound(a)
    \/ \E h \in roots, s \in Slot, v \in HeldOrNull : SetSlot(h, s, v)
    \/ \E h \in roots, v \in HeldOrNull : SetLink(h, v)
    \/ \E h \in roots, k \in roots, v \in HeldOrNull :
          TableAdd(h, k, v) \/ SetTableValue(h, k, v) \/ WeakPut(h, k, v)
    \/ \E h \in roots, k \in roots : RemoveEntry(h, k)
    \/ \E h \in roots : TableClear(h)
-----------------------------------------------------------------------------
(***************************************************************************)
(* The collection: collectNow, step by step.                               *)
(***************************************************************************)
UnchangedByMarker == UNCHANGED <<program, young, remembered, minorCollection, deadAtoms>>

\* markHandle, and the marking in traceCell: unmarked cells are marked and pushed.
Push(cells) ==
    /\ marked' = marked \cup cells
    /\ markStack' = markStack \cup (cells \ marked)

\* drainMarks has nothing left to do.
Drained == markStack = {} /\ toRegister = {}

\* beginMajor: a full collection starts from no marks.
BeginMajor ==
    /\ Running
    /\ phase' = "roots" /\ minorCollection' = FALSE
    /\ marked' = {} /\ remembered' = NothingListed
    /\ toMark' = roots
    /\ UNCHANGED <<program, young, toTrace, toRegister, markStack, weakRecords, pending, deadAtoms>>

\* Variants: the list of places is lost; the atom table is taken for roots.
BeginMinorCellsOnly ==
    /\ Running
    /\ phase' = "roots" /\ minorCollection' = TRUE
    /\ toMark' = roots /\ toTrace' = [remembered EXCEPT !.places = {}]
    /\ UNCHANGED <<program, young, remembered, marked, toRegister, markStack, weakRecords,
                   pending, deadAtoms>>

BeginMinorFromAtoms ==
    /\ Running
    /\ phase' = "roots" /\ minorCollection' = TRUE
    /\ toMark' = roots \cup atoms /\ toTrace' = remembered
    /\ UNCHANGED <<program, young, remembered, marked, toRegister, markStack, weakRecords,
                   pending, deadAtoms>>

\* beginMinor: the old cells keep their marks.
BeginMinor ==
    /\ Running
    /\ phase' = "roots" /\ minorCollection' = TRUE
    /\ toMark' = roots /\ toTrace' = remembered
    /\ UNCHANGED <<program, young, remembered, marked, toRegister, markStack, weakRecords,
                   pending, deadAtoms>>

\* markRoots: one root, by markValue or markHandle.
MarkRoot(c) ==
    /\ phase = "roots" /\ Drained /\ c \in toMark
    /\ toMark' = toMark \ {c}
    /\ Push({c})
    /\ UnchangedByMarker
    /\ UNCHANGED <<phase, toTrace, toRegister, weakRecords, pending>>

\* The return of markRoots: what collectNow calls next.
RootsMarked ==
    /\ phase = "roots" /\ Drained /\ toMark = {}
    /\ phase' = IF minorCollection THEN "remembered" ELSE "ephemerons"
    /\ UnchangedByMarker
    /\ UNCHANGED marking

\* activatePending: the values that waited for the key c.
Waiting(c) == {v \in Cell : <<c, v>> \in pending}

\* Variant: weak entries are traced as any other slots.
TracedStrongly(c) == Refs(c)

\* traceCell: what c's own slots, link and table hold.  In a full
\* collection a weak record's entries are not among them: they are queued
\* for registerWeakRecord.
Traced(c) == IF minorCollection THEN Refs(c) ELSE StrongRefs(c)

\* Variant: what waits for the cell is forgotten, not activated.
TraceWithoutWaiting(c) ==
    /\ c \in markStack /\ toRegister = {}
    /\ marked' = marked \cup Traced(c)
    /\ markStack' = (markStack \ {c}) \cup (Traced(c) \ marked)
    /\ pending' = {e \in pending : e[1] # c}
    /\ IF tag[c] = "weak" /\ ~minorCollection
       THEN weakRecords' = weakRecords \cup {c} /\ toRegister' = {c} \X Keys(c)
       ELSE UNCHANGED <<weakRecords, toRegister>>
    /\ UnchangedByMarker
    /\ UNCHANGED <<phase, toMark, toTrace>>

\* drainMarks: a cell comes off the stack and is traced.
Trace(c) ==
    /\ c \in markStack /\ toRegister = {}
    /\ LET found == (Waiting(c) \cup Traced(c)) \ marked IN
         /\ marked' = marked \cup found
         /\ markStack' = (markStack \ {c}) \cup found
    /\ pending' = {e \in pending : e[1] # c}
    /\ IF tag[c] = "weak" /\ ~minorCollection
       THEN weakRecords' = weakRecords \cup {c} /\ toRegister' = {c} \X Keys(c)
       ELSE UNCHANGED <<weakRecords, toRegister>>
    /\ UnchangedByMarker
    /\ UNCHANGED <<phase, toMark, toTrace>>

\* Variant: the value is marked whether or not its key is.
RegisterStrongly(r, k) ==
    /\ <<r, k>> \in toRegister
    /\ toRegister' = toRegister \ {<<r, k>>}
    /\ Push({entries[r][k]} \ {Null})
    /\ UnchangedByMarker
    /\ UNCHANGED <<phase, toMark, toTrace, weakRecords, pending>>

\* registerWeakRecord: one entry of the record just traced.  Its value is
\* marked now when its key is, and waits for the key otherwise (addPending).
Register(r, k) ==
    /\ <<r, k>> \in toRegister
    /\ toRegister' = toRegister \ {<<r, k>>}
    /\ LET v == entries[r][k] IN
         IF v = Null \/ v \in marked
         THEN UNCHANGED <<marked, markStack, pending>>
         ELSE IF k \in marked
              THEN Push({v}) /\ UNCHANGED pending
              ELSE pending' = pending \cup {<<k, v>>} /\ UNCHANGED <<marked, markStack>>
    /\ UnchangedByMarker
    /\ UNCHANGED <<phase, toMark, toTrace, weakRecords>>

\* traceRemembered, its first loop: a listed cell (or weak array).
TraceRememberedCell(p, h) ==
    /\ phase = "remembered" /\ Drained /\ <<p, h>> \in toTrace.cells
    /\ toTrace' = [toTrace EXCEPT !.cells = @ \ {<<p, h>>}]
    /\ Push(PartRefs(p, h))
    /\ UnchangedByMarker
    /\ UNCHANGED <<phase, toMark, toRegister, weakRecords, pending>>

\* traceRemembered, its second loop: a listed slot or entry.
TraceRememberedPlace(place) ==
    /\ phase = "remembered" /\ Drained /\ toTrace.cells = {} /\ place \in toTrace.places
    /\ toTrace' = [toTrace EXCEPT !.places = @ \ {place}]
    /\ Push(PlaceRefs(place))
    /\ UnchangedByMarker
    /\ UNCHANGED <<phase, toMark, toRegister, weakRecords, pending>>

\* What the verification scan of markEphemerons marks.
ScanFinds ==
    {v \in Cell \ marked : \E r \in weakRecords : \E k \in marked : entries[r][k] = v}

\* markEphemerons: a pass over the reached records, again while it finds.
MarkEphemerons ==
    /\ phase = "ephemerons" /\ Drained
    /\ Push(ScanFinds)
    /\ phase' = IF ScanFinds = {} THEN "clear" ELSE "ephemerons"
    /\ UnchangedByMarker
    /\ UNCHANGED <<toMark, toTrace, toRegister, weakRecords, pending>>

\* Variants: dead keys are left in place; an entry also goes when its value
\* is not a marked cell.
ClearDeadWeakEntriesNever ==
    /\ phase = "clear"
    /\ weakRecords' = {} /\ pending' = {}
    /\ phase' = "atoms"
    /\ UNCHANGED <<program, young, remembered, marked, toMark, toTrace, toRegister, markStack,
                   minorCollection, deadAtoms>>

ClearDeadWeakEntriesByValue ==
    /\ phase = "clear"
    /\ entries' = [r \in Cell |-> IF r \in weakRecords
                                  THEN [k \in Cell |-> IF k \in marked /\ entries[r][k] \in marked
                                                       THEN entries[r][k] ELSE NoEntry]
                                  ELSE entries[r]]
    /\ weakRecords' = {} /\ pending' = {}
    /\ phase' = "atoms"
    /\ UNCHANGED <<tag, link, slots, young, remembered, roots, interned, atoms, marked,
                   toMark, toTrace, toRegister, markStack, minorCollection, deadAtoms>>

\* clearDeadWeakEntries, with weakRetire and weakCompact, and resetPending.
ClearDeadWeakEntries ==
    /\ phase = "clear"
    /\ entries' = [r \in Cell |-> IF r \in weakRecords
                                  THEN [k \in Cell |-> IF k \in marked THEN entries[r][k] ELSE NoEntry]
                                  ELSE entries[r]]
    /\ weakRecords' = {} /\ pending' = {}
    /\ phase' = "atoms"
    /\ UNCHANGED <<tag, link, slots, young, remembered, roots, interned, atoms, marked,
                   toMark, toTrace, toRegister, markStack, minorCollection, deadAtoms>>

\* rebuildAtoms: the atom table keeps the atoms that were reached.
RebuildAtoms ==
    /\ phase = "atoms"
    /\ atoms' = atoms \cap marked
    /\ phase' = "sweep"
    /\ UNCHANGED <<tag, link, slots, entries, roots, interned, marking, young, remembered,
                   minorCollection, deadAtoms>>

\* releaseCell: the headers of dead cells are reset to TAG_FREE.
Release(dead) ==
    /\ tag' = [c \in Cell |-> IF c \in dead THEN "free" ELSE tag[c]]
    /\ link' = [c \in Cell |-> IF c \in dead THEN Null ELSE link[c]]
    /\ slots' = [c \in Cell |-> IF c \in dead THEN NoSlots ELSE slots[c]]
    /\ entries' = [c \in Cell |-> IF c \in dead THEN NoEntries ELSE entries[c]]
    /\ interned' = interned \ dead

\* endCycle: the next cycle has no young cells and lists nothing.
EndCycle ==
    /\ remembered' = NothingListed
    /\ young' = {}
    /\ minorCollection' = FALSE
    /\ phase' = "run"

\* sweep: every unmarked cell is freed; the survivors keep their marks.
Sweep ==
    /\ phase = "sweep"
    /\ Release(Allocated \ marked)
    /\ EndCycle
    /\ UNCHANGED <<roots, atoms, marking, deadAtoms>>

\* The return of traceRemembered.
RememberedTraced ==
    /\ phase = "remembered" /\ Drained /\ toTrace = NothingListed
    /\ phase' = "sweepYoung"
    /\ UnchangedByMarker
    /\ UNCHANGED marking

\* Variant: atoms are freed as any other string.
SweepYoungWithAtoms ==
    /\ phase = "sweepYoung"
    /\ deadAtoms' = {}
    /\ Release(young \ marked)
    /\ young' = young \cap marked
    /\ phase' = "dropAtoms"
    /\ UNCHANGED <<roots, atoms, marking, remembered, minorCollection>>

\* sweepYoung: the unmarked young cells are freed, except the atoms, which
\* stay until the runtime has taken them out of its table.
SweepYoung ==
    /\ phase = "sweepYoung"
    /\ deadAtoms' = (young \ marked) \cap interned
    /\ Release((young \ marked) \ interned)
    /\ young' = young \cap (marked \cup interned)
    /\ phase' = "dropAtoms"
    /\ UNCHANGED <<roots, atoms, marking, remembered, minorCollection>>

\* dropDeadAtoms: removeAtom for each.
DropDeadAtoms ==
    /\ phase = "dropAtoms"
    /\ atoms' = atoms \ deadAtoms
    /\ phase' = "finish"
    /\ UNCHANGED <<tag, link, slots, entries, roots, interned, marking, young, remembered,
                   minorCollection, deadAtoms>>

\* finishMinor.
FinishMinor ==
    /\ phase = "finish"
    /\ Release(deadAtoms)
    /\ deadAtoms' = {}
    /\ EndCycle
    /\ UNCHANGED <<roots, atoms, marking>>

Collect ==
    \/ \E c \in toMark : MarkRoot(c)
    \/ RootsMarked
    \/ \E c \in markStack : Trace(c)
    \/ \E e \in toRegister : Register(e[1], e[2])
    \/ \E h \in toTrace.cells : TraceRememberedCell(h[1], h[2])
    \/ \E place \in toTrace.places : TraceRememberedPlace(place)
    \/ RememberedTraced
    \/ MarkEphemerons
    \/ ClearDeadWeakEntries
    \/ RebuildAtoms
    \/ Sweep
    \/ SweepYoung
    \/ DropDeadAtoms
    \/ FinishMinor

Next == Program \/ BeginMajor \/ BeginMinor \/ Collect

Spec == Init /\ [][Next]_vars
-----------------------------------------------------------------------------
(***************************************************************************)
(* Correctness.                                                            *)
(***************************************************************************)
Phases == {"run", "roots", "remembered", "sweepYoung", "dropAtoms", "finish",
           "ephemerons", "clear", "atoms", "sweep"}
Listed == [cells : SUBSET (Part \X Cell), places : SUBSET Where]

TypeOK ==
    /\ tag \in [Cell -> AllKinds \cup {"free"}]
    /\ link \in [Cell -> Cell \cup {Null}]
    /\ slots \in [Cell -> [Slot -> Cell \cup {Null}]]
    /\ entries \in [Cell -> [Cell -> Cell \cup {Null, NoEntry}]]
    /\ marked \subseteq Cell /\ young \subseteq Cell /\ roots \subseteq Cell
    /\ interned \subseteq Cell /\ atoms \subseteq Cell /\ deadAtoms \subseteq Cell
    /\ remembered \in Listed /\ toTrace \in Listed
    /\ phase \in Phases /\ minorCollection \in BOOLEAN
    /\ toMark \subseteq Cell /\ toRegister \subseteq Cell \X Cell
    /\ markStack \subseteq Cell /\ weakRecords \subseteq Cell
    /\ pending \subseteq Cell \X Cell

\* No cell in use, no root and no entry of the atom table names a freed
\* cell: a sweep (sweep, sweepYoung, finishMinor) frees nothing that
\* anything left in the heap still refers to, old garbage included.
NoDangling ==
    /\ roots \cup atoms \cup deadAtoms \subseteq Allocated
    /\ \A c \in Allocated : Refs(c) \subseteq Allocated

\* Everything the program can still get at is allocated, whatever mixture
\* of minor and full collections has run (sweep, sweepYoung).
ReachableAllocated == Reachable \subseteq Allocated

\* The write barrier's promise (remember, rememberStore): between two
\* collections every young cell an old cell refers to is found by tracing
\* what the remembered set lists.
OldToYoungListed ==
    Running => \A c \in Old : \A x \in Refs(c) \cap young :
                  \/ \E p \in Part : <<p, c>> \in remembered.cells /\ x \in PartRefs(p, c)
                  \/ \E w \in remembered.places : w.holder = c /\ x \in PlaceRefs(w)

\* A full collection keeps exactly what is reachable, ephemerons included:
\* when sweep starts, the marked cells are the reachable ones.
FullCollectionExact == phase = "sweep" => marked = Reachable

\* What a minor collection promotes: the least set of young cells that has
\* the young roots, and the young cells that an old cell or one of the set
\* refers to.
ClosedYoung(T) ==
    /\ roots \cap young \subseteq T
    /\ \A h \in Old \cup T : Refs(h) \cap young \subseteq T

Promoted == {c \in young : \A T \in SUBSET young : ClosedYoung(T) => c \in T}

\* traceRemembered neither misses a young cell an old one holds, nor
\* promotes one that only dead young cells hold.
MinorCollectionExact == phase = "sweepYoung" => young \cap marked = Promoted

\* The pending table activates every value whose key is marked: the
\* verification scan of markEphemerons has nothing left to find.
PendingComplete == phase = "ephemerons" /\ Drained => ScanFinds = {}

\* The atom table holds exactly the strings flagged as atoms, between
\* collections: a lookup finds every live atom, and only live ones
\* (internExisting answers from the flag, the other functions from the table).
AtomTableExact == Running => atoms = interned

\* A collection removes no entry whose record and key are reachable, and
\* changes no value of one (clearDeadWeakEntries).
LiveEntriesKept ==
    [][~Running => \A r \in Reachable : \A k \in Keys(r) \cap Reachable :
          entries'[r][k] = entries[r][k]]_vars

\* Every entry a full collection leaves behind, in any weak record, has a
\* key something else keeps alive (clearDeadWeakEntries before sweep).
DeadEntriesDropped ==
    [][Sweep => \A r \in Reachable : tag[r] = "weak" => Keys(r) \subseteq Reachable]_vars
=============================================================================
