-------------------------- MODULE Collector_proofs --------------------------
(***************************************************************************)
(* Collector, proved for any set of handles and of slots: CollectorInv's   *)
(* IInv is inductive, and the safety properties follow from it.            *)
(***************************************************************************)
EXTENDS CollectorInv, TLAPS

\* RefsIn, which names each reference, says the same as Refs, the set.
LEMMA RefsInIsRefs ==
    ASSUME TypeOK, NEW c \in Cell, NEW S \in SUBSET Cell
    PROVE  RefsIn(c, S) <=> Refs(c) \subseteq S
<1>1. link[c] \in Cell \cup {Null} /\ \A s \in Slot : slots[c][s] \in Cell \cup {Null}
  BY DEF TypeOK
<1>2. \A k \in Cell : entries[c][k] \in Cell \cup {Null, NoEntry}
  BY DEF TypeOK
<1> QED
  BY <1>1, <1>2, NullAssumption DEF RefsIn, Refs, Fields, Keys, Values

\* A step of the program is taken outside a collection, and touches none
\* of the collector's own state but the remembered set.
LEMMA ProgramFrame == Program => Running /\ UnchangedByProgram
BY DEF Program, Allocate, Load, WeakGet, Drop, Intern, InternFound, SetSlot, SetLink,
       TableAdd, SetTableValue, WeakPut, RemoveEntry, TableClear

LEMMA ProgramControl ==
    ASSUME IInv, Program
    PROVE  ControlInv' /\ RootInv' /\ MinorInv' /\ MajorInv' /\ ClearInv' /\ SweepInv'
<1>1. phase' = "run" /\ phase = "run" /\ UNCHANGED <<marking, minorCollection, deadAtoms>>
  BY ProgramFrame DEF Running, UnchangedByProgram
<1>2. ControlInv'
  BY <1>1 DEF IInv, ControlInv, Drained, Minor, marking
<1> QED
  BY <1>1, <1>2 DEF RootInv, MinorInv, MajorInv, ClearInv, SweepInv

\* What a barrier leaves listed stays listed, whatever it adds.
Grows(l, m) == l.cells \subseteq m.cells /\ l.places \subseteq m.places

LEMMA BarrierGrows ==
    ASSUME NEW l \in Listed, NEW p \in Part, NEW h \in Cell, NEW target,
           NEW place \in Where
    PROVE  /\ Remember(l, p, h, target) \in Listed /\ Grows(l, Remember(l, p, h, target))
           /\ \A m \in RememberStore(l, p, h, place, target) : m \in Listed /\ Grows(l, m)
BY DEF Listed, Grows, Remember, RememberStore

\* A store of an unmarked cell into a marked holder is listed.
LEMMA BarrierLists ==
    ASSUME NEW l \in Listed, NEW p \in Part, NEW h \in marked, NEW target,
           NEW place \in Where, target # Null, target \notin marked
    PROVE  /\ <<p, h>> \in Remember(l, p, h, target).cells
           /\ \A m \in RememberStore(l, p, h, place, target) :
                 <<p, h>> \in m.cells \/ place \in m.places
BY DEF Listed, Remember, RememberStore, MustList

LEMMA PlacesAreWhere ==
    ASSUME NEW h \in Cell
    PROVE  /\ \A s \in Slot : SlotOf(h, s) \in Where
           /\ \A k \in Cell : EntryOf(h, k) \in Where /\ KeyOf(h, k) \in Where /\ ValueOf(h, k) \in Where
BY DEF Where, SlotOf, EntryOf, KeyOf, ValueOf

LEMMA AllocateInv ==
    ASSUME IInv, NEW c \in Cell, NEW kind \in Kinds, Allocate(c, kind)
    PROVE  TypeOK' /\ HeapInv' /\ AtomInv' /\ RunInv'
<1> USE DEF IInv, Allocate, UnchangedByProgram, marking, Running
<1>1. TypeOK'
  BY KindsAssumption DEF TypeOK
<1>2. HeapInv'
  BY KindsAssumption DEF HeapInv, Allocated, RefsIn, TypeOK, AllKinds
<1>3. AtomInv'
  BY DEF AtomInv
<1>4. RunInv'
  <2>1. c \notin Allocated /\ Allocated' = Allocated \cup {c}
    BY KindsAssumption DEF Allocated, TypeOK, AllKinds
  <2>2. Old' = Old /\ marked' = Old
    BY <2>1 DEF Old, RunInv
  <2>3. ASSUME NEW d \in Old
        PROVE  ListedIn(remembered, d, young)'
    <3>1. ListedIn(remembered, d, young) /\ RefsIn(d, Allocated) /\ d # c
      BY <2>1 DEF RunInv, HeapInv, Old, Allocated
    <3>2. tag'[d] = tag[d]
      BY <3>1 DEF TypeOK
    <3> QED
      BY <2>1, <3>1, <3>2, NullAssumption DEF ListedIn, RefsIn, SlotOf, EntryOf, KeyOf, ValueOf
  <2> QED
    BY <2>2, <2>3 DEF RunInv
<1> QED
  BY <1>1, <1>2, <1>3, <1>4

\* Nothing that the program reads out of an allocated cell is freed.
LEMMA ReadIsAllocated ==
    ASSUME IInv, NEW h \in roots
    PROVE  /\ StrongRefs(h) \subseteq Allocated
           /\ \A k \in Cell : entries[h][k] \in Cell => entries[h][k] \in Allocated
<1>1. h \in Cell /\ RefsIn(h, Allocated) /\ Allocated \subseteq Cell
  BY DEF IInv, HeapInv, TypeOK, Allocated
<1>2. Refs(h) \subseteq Allocated
  BY <1>1, RefsInIsRefs DEF IInv
<1> QED
  BY <1>1, <1>2, NullAssumption DEF StrongRefs, Refs, RefsIn

LEMMA RegistersInv ==
    ASSUME IInv,
           \/ \E h \in roots, t \in Cell : Load(h, t)
           \/ \E r \in roots, k \in roots : WeakGet(r, k)
           \/ \E c \in roots : Drop(c)
           \/ \E a \in atoms : InternFound(a)
    PROVE  TypeOK' /\ HeapInv' /\ AtomInv' /\ RunInv'
<1> USE DEF IInv
<1>1. /\ UNCHANGED <<marking, phase, minorCollection, deadAtoms>>
      /\ UNCHANGED <<tag, link, slots, entries, young, remembered, interned, atoms>>
      /\ phase = "run"
  BY DEF Load, WeakGet, Drop, InternFound, UnchangedByProgram, Running
<1>2. atoms \subseteq Allocated /\ Allocated \subseteq Cell /\ toMark = {} /\ roots \subseteq Cell
  BY <1>1 DEF AtomInv, HeapInv, Allocated, ControlInv, TypeOK
<1>3. roots' \subseteq Allocated
  <2>1. CASE \E h \in roots, t \in Cell : Load(h, t)
    BY <2>1, ReadIsAllocated DEF Load, HeapInv
  <2>2. CASE \E r \in roots, k \in roots : WeakGet(r, k)
    BY <2>2, <1>2, ReadIsAllocated DEF WeakGet, HeapInv
  <2>3. CASE \E c \in roots : Drop(c)
    BY <2>3 DEF Drop, HeapInv
  <2>4. CASE \E a \in atoms : InternFound(a)
    BY <2>4, <1>2 DEF InternFound, HeapInv
  <2> QED
    BY <2>1, <2>2, <2>3, <2>4
<1>4. TypeOK'
  BY <1>1, <1>2, <1>3 DEF TypeOK, marking
<1>5. HeapInv'
  BY <1>1, <1>2, <1>3 DEF HeapInv, Allocated, RefsIn, marking
<1>6. AtomInv'
  BY <1>1 DEF AtomInv
<1>7. RunInv'
  BY <1>1 DEF RunInv, Running, Old, Allocated, ListedIn, marking, SlotOf, EntryOf, KeyOf, ValueOf
<1> QED
  BY <1>4, <1>5, <1>6, <1>7

LEMMA InternInv ==
    ASSUME IInv, NEW c \in roots, Intern(c)
    PROVE  TypeOK' /\ HeapInv' /\ AtomInv' /\ RunInv'
<1> USE DEF IInv, Intern, UnchangedByProgram, marking, Running
<1>1. TypeOK'
  BY DEF TypeOK
<1>2. HeapInv'
  BY DEF HeapInv, Allocated, RefsIn
<1>3. AtomInv'
  BY DEF AtomInv
<1>4. RunInv'
  BY DEF RunInv, Old, Allocated, ListedIn, SlotOf, EntryOf, KeyOf, ValueOf
<1> QED
  BY <1>1, <1>2, <1>3, <1>4

\* A store changes the contents of one cell, the holder, and lists more.
\* It keeps the invariant when the new contents are allocated, and listed
\* where they are young.
StoreInto(h) ==
    /\ phase = "run" /\ h \in roots /\ tag[h] # "string"
    /\ UnchangedByProgram
    /\ UNCHANGED <<tag, young, roots, interned, atoms>>
    /\ remembered' \in Listed /\ Grows(remembered, remembered')
    /\ \A c \in Cell \ {h} :
          link'[c] = link[c] /\ slots'[c] = slots[c] /\ entries'[c] = entries[c]

LEMMA StoreInv ==
    ASSUME IInv, NEW h, StoreInto(h),
           link' \in [Cell -> Cell \cup {Null}],
           slots' \in [Cell -> [Slot -> Cell \cup {Null}]],
           entries' \in [Cell -> [Cell -> Cell \cup {Null, NoEntry}]],
           RefsIn(h, Allocated)',
           h \in Old => ListedIn(remembered, h, young)'
    PROVE  TypeOK' /\ HeapInv' /\ AtomInv' /\ RunInv'
<1> USE DEF IInv, StoreInto, UnchangedByProgram, marking
<1>1. TypeOK'
  BY DEF TypeOK
<1>2. HeapInv'
  <2>1. ASSUME NEW c \in Cell PROVE RefsIn(c, Allocated)'
    <3>1. CASE c = h
      BY <3>1
    <3>2. CASE c # h
      BY <3>2 DEF HeapInv, RefsIn, Allocated
    <3> QED
      BY <3>1, <3>2
  <2>2. toRegister = {} /\ weakRecords = {}
    BY DEF ControlInv, Minor, Drained
  <2>3. ASSUME NEW c \in Cell, tag[c] \in {"free", "string"} PROVE RefsIn(c, {})'
    <3>1. c # h
      BY <2>3 DEF HeapInv, Allocated
    <3>2. RefsIn(c, {}) /\ link'[c] = link[c] /\ slots'[c] = slots[c] /\ entries'[c] = entries[c]
      BY <2>3, <3>1 DEF HeapInv
    <3> QED
      BY <3>2 DEF RefsIn
  <2>4. Allocated' = Allocated
    BY DEF Allocated
  <2> QED
    BY <2>1, <2>2, <2>3, <2>4 DEF HeapInv
<1>3. AtomInv'
  BY DEF AtomInv
<1>4. RunInv'
  <2>1. Old' = Old /\ marked' = Old
    BY DEF Old, Allocated, RunInv, Running
  <2>2. ASSUME NEW c \in Old PROVE ListedIn(remembered, c, young)'
    <3>1. CASE c = h
      BY <2>1, <3>1
    <3>2. CASE c # h
      <4>1. ListedIn(remembered, c, young) /\ c \in Cell
        BY DEF RunInv, Running, Old, Allocated
      <4> QED
        BY <3>2, <4>1 DEF ListedIn, Grows, SlotOf, EntryOf, KeyOf, ValueOf
    <3> QED
      BY <3>1, <3>2
  <2> QED
    BY <2>1, <2>2 DEF RunInv
<1> QED
  BY <1>1, <1>2, <1>3, <1>4

\* What a store may assume of its holder and of what it stores.
LEMMA HeldCells ==
    ASSUME IInv, phase = "run"
    PROVE  /\ roots \subseteq Allocated /\ roots \subseteq Cell /\ HeldOrNull \subseteq Cell \cup {Null}
           /\ \A v \in HeldOrNull : v \in Allocated \cup {Null}
           /\ \A h \in roots : RefsIn(h, Allocated)
           /\ \A h \in Old : h \in marked /\ h \in Cell
           /\ \A h \in Old : ListedIn(remembered, h, young)
           /\ \A v \in young : v # Null /\ v \notin marked
           /\ remembered \in Listed
<1>1. roots \subseteq Allocated /\ roots \subseteq Cell /\ young \subseteq Cell /\ remembered \in Listed
  BY DEF IInv, HeapInv, TypeOK
<1>2. marked = Old /\ (\A h \in Old : ListedIn(remembered, h, young)) /\ Old \subseteq Cell
  BY DEF IInv, RunInv, Running, Old, Allocated
<1>3. \A h \in roots : RefsIn(h, Allocated)
  BY <1>1 DEF IInv, HeapInv
<1>4. \A v \in young : v # Null /\ v \notin marked
  BY <1>1, <1>2, NullAssumption DEF Old
<1> QED
  BY <1>1, <1>2, <1>3, <1>4 DEF HeldOrNull

LEMMA SetSlotInv ==
    ASSUME IInv, NEW h \in roots, NEW s \in Slot, NEW v \in HeldOrNull, SetSlot(h, s, v)
    PROVE  TypeOK' /\ HeapInv' /\ AtomInv' /\ RunInv'
<1>1. phase = "run" /\ h \in Cell /\ SlotOf(h, s) \in Where /\ "cell" \in Part
  BY HeldCells, PlacesAreWhere DEF SetSlot, Running, Part
<1>2. StoreInto(h)
  BY <1>1, HeldCells, BarrierGrows DEF SetSlot, StoreInto, IInv, TypeOK
<1>3. RefsIn(h, Allocated)'
  BY <1>1, HeldCells DEF SetSlot, RefsIn, Allocated, IInv, TypeOK
<1>4. ASSUME h \in Old PROVE ListedIn(remembered, h, young)'
  <2>1. v \in young => <<"cell", h>> \in remembered'.cells \/ SlotOf(h, s) \in remembered'.places
    BY <1>1, <1>4, HeldCells, BarrierLists DEF SetSlot
  <2>2. ListedIn(remembered, h, young)
    BY <1>1, <1>4, HeldCells
  <2>3. slots'[h] = [slots[h] EXCEPT ![s] = v] /\ slots[h] \in [Slot -> Cell \cup {Null}]
    BY <1>1 DEF SetSlot, IInv, TypeOK
  <2>4. Grows(remembered, remembered') /\ UNCHANGED <<tag, link, entries, young>>
    BY <1>2 DEF StoreInto, SetSlot
  <2> QED
    BY <2>1, <2>2, <2>3, <2>4 DEF Grows, ListedIn, SlotOf, EntryOf, KeyOf, ValueOf
<1> QED
  BY <1>1, <1>2, <1>3, <1>4, StoreInv, HeldCells DEF SetSlot, IInv, TypeOK

LEMMA SetLinkInv ==
    ASSUME IInv, NEW h \in roots, NEW v \in HeldOrNull, SetLink(h, v)
    PROVE  TypeOK' /\ HeapInv' /\ AtomInv' /\ RunInv'
<1>1. phase = "run" /\ h \in Cell /\ "cell" \in Part /\ EntryOf(h, h) \in Where
  BY HeldCells, PlacesAreWhere DEF SetLink, Running, Part
<1>2. StoreInto(h)
  BY <1>1, HeldCells, BarrierGrows DEF SetLink, StoreInto, IInv, TypeOK
<1>3. RefsIn(h, Allocated)'
  BY <1>1, HeldCells DEF SetLink, RefsIn, Allocated, IInv, TypeOK
<1>4. ASSUME h \in Old PROVE ListedIn(remembered, h, young)'
  <2>1. v \in young => <<"cell", h>> \in remembered'.cells
    BY <1>1, <1>4, HeldCells, BarrierLists DEF SetLink
  <2> QED
    BY <1>1, <1>2, <1>4, <2>1, HeldCells
    DEF SetLink, StoreInto, Grows, ListedIn, IInv, TypeOK, SlotOf, EntryOf, KeyOf, ValueOf
<1> QED
  BY <1>1, <1>2, <1>3, <1>4, StoreInv, HeldCells DEF SetLink, IInv, TypeOK

LEMMA SetTableValueInv ==
    ASSUME IInv, NEW h \in roots, NEW k \in roots, NEW v \in HeldOrNull, SetTableValue(h, k, v)
    PROVE  TypeOK' /\ HeapInv' /\ AtomInv' /\ RunInv'
<1>1. phase = "run" /\ h \in Cell /\ k \in Cell /\ EntryOf(h, k) \in Where /\ "cell" \in Part
  BY HeldCells, PlacesAreWhere DEF SetTableValue, Running, Part
<1>2. StoreInto(h)
  BY <1>1, HeldCells, BarrierGrows DEF SetTableValue, StoreInto, IInv, TypeOK
<1>3. RefsIn(h, Allocated)'
  BY <1>1, HeldCells DEF SetTableValue, RefsIn, Allocated, IInv, TypeOK
<1>4. ASSUME h \in Old PROVE ListedIn(remembered, h, young)'
  <2>1. v \in young => <<"cell", h>> \in remembered'.cells \/ EntryOf(h, k) \in remembered'.places
    BY <1>1, <1>4, HeldCells, BarrierLists DEF SetTableValue
  <2>2. ListedIn(remembered, h, young)
    BY <1>1, <1>4, HeldCells
  <2>3. entries'[h] = [entries[h] EXCEPT ![k] = v] /\ entries[h][k] # NoEntry
        /\ entries[h] \in [Cell -> Cell \cup {Null, NoEntry}]
    BY <1>1 DEF SetTableValue, IInv, TypeOK
  <2>4. Grows(remembered, remembered') /\ UNCHANGED <<tag, link, slots, young>> /\ tag[h] = "table"
    BY <1>2 DEF StoreInto, SetTableValue
  <2> QED
    BY <1>1, <2>1, <2>2, <2>3, <2>4 DEF ListedIn, Grows, SlotOf, EntryOf, KeyOf, ValueOf
<1> QED
  BY <1>1, <1>2, <1>3, <1>4, StoreInv, HeldCells DEF SetTableValue, IInv, TypeOK

LEMMA TableAddInv ==
    ASSUME IInv, NEW h \in roots, NEW k \in roots, NEW v \in HeldOrNull, TableAdd(h, k, v)
    PROVE  TypeOK' /\ HeapInv' /\ AtomInv' /\ RunInv'
<1>1. phase = "run" /\ h \in Cell /\ k \in Cell /\ EntryOf(h, k) \in Where /\ "cell" \in Part
  BY HeldCells, PlacesAreWhere DEF TableAdd, Running, Part
<1>2. PICK l \in RememberStore(remembered, "cell", h, EntryOf(h, k), k) :
         remembered' \in RememberStore(l, "cell", h, EntryOf(h, k), v)
  BY DEF TableAdd
<1>3. l \in Listed /\ Grows(remembered, l) /\ remembered' \in Listed /\ Grows(l, remembered')
  BY <1>1, <1>2, HeldCells, BarrierGrows
<1>4. StoreInto(h)
  BY <1>1, <1>3 DEF TableAdd, StoreInto, IInv, TypeOK, Grows
<1>5. RefsIn(h, Allocated)'
  BY <1>1, HeldCells DEF TableAdd, RefsIn, Allocated, IInv, TypeOK
<1>6. ASSUME h \in Old PROVE ListedIn(remembered, h, young)'
  <2>1. k \in young => <<"cell", h>> \in l.cells \/ EntryOf(h, k) \in l.places
    BY <1>1, <1>2, <1>6, HeldCells, BarrierLists
  <2>2. v \in young => <<"cell", h>> \in remembered'.cells \/ EntryOf(h, k) \in remembered'.places
    BY <1>1, <1>2, <1>3, <1>6, HeldCells, BarrierLists
  <2> QED
    <3>1. ListedIn(remembered, h, young)
      BY <1>1, <1>6, HeldCells
    <3>2. entries'[h] = [entries[h] EXCEPT ![k] = v]
          /\ entries[h] \in [Cell -> Cell \cup {Null, NoEntry}]
      BY <1>1 DEF TableAdd, IInv, TypeOK
    <3>3. Grows(remembered, l) /\ Grows(l, remembered')
          /\ UNCHANGED <<tag, link, slots, young>> /\ tag[h] = "table"
      BY <1>3, <1>4 DEF StoreInto, TableAdd
    <3> QED
      BY <1>1, <2>1, <2>2, <3>1, <3>2, <3>3 DEF ListedIn, Grows, SlotOf, EntryOf, KeyOf, ValueOf
<1> QED
  BY <1>1, <1>4, <1>5, <1>6, StoreInv, HeldCells DEF TableAdd, IInv, TypeOK

LEMMA WeakPutInv ==
    ASSUME IInv, NEW r \in roots, NEW k \in roots, NEW v \in HeldOrNull, WeakPut(r, k, v)
    PROVE  TypeOK' /\ HeapInv' /\ AtomInv' /\ RunInv'
<1>1. /\ phase = "run" /\ r \in Cell /\ k \in Cell
      /\ KeyOf(r, k) \in Where /\ ValueOf(r, k) \in Where /\ "keys" \in Part /\ "values" \in Part
  BY HeldCells, PlacesAreWhere DEF WeakPut, Running, Part
<1>2. PICK l \in Listed :
         /\ Grows(remembered, l)
         /\ remembered' \in RememberStore(l, "values", r, ValueOf(r, k), v)
         /\ entries[r][k] = NoEntry => l \in RememberStore(remembered, "keys", r, KeyOf(r, k), k)
  <2>1. CASE entries[r][k] # NoEntry
    BY <1>1, <2>1, HeldCells DEF WeakPut, Grows
  <2>2. CASE entries[r][k] = NoEntry
    <3>1. PICK l \in RememberStore(remembered, "keys", r, KeyOf(r, k), k) :
             remembered' \in RememberStore(l, "values", r, ValueOf(r, k), v)
      BY <2>2 DEF WeakPut
    <3>2. l \in Listed /\ Grows(remembered, l)
      BY <1>1, <3>1, HeldCells, BarrierGrows
    <3> QED
      BY <3>1, <3>2
  <2> QED
    BY <2>1, <2>2
<1>3. remembered' \in Listed /\ Grows(l, remembered')
  BY <1>1, <1>2, BarrierGrows
<1>4. StoreInto(r)
  BY <1>1, <1>2, <1>3 DEF WeakPut, StoreInto, IInv, TypeOK, Grows
<1>5. RefsIn(r, Allocated)'
  BY <1>1, HeldCells DEF WeakPut, RefsIn, Allocated, IInv, TypeOK
<1>6. ASSUME r \in Old PROVE ListedIn(remembered, r, young)'
  <2>1. k \in young /\ entries[r][k] = NoEntry =>
           <<"keys", r>> \in l.cells \/ KeyOf(r, k) \in l.places
    BY <1>1, <1>2, <1>6, HeldCells, BarrierLists
  <2>2. v \in young => <<"values", r>> \in remembered'.cells \/ ValueOf(r, k) \in remembered'.places
    BY <1>1, <1>2, <1>6, HeldCells, BarrierLists
  <2>3. ListedIn(remembered, r, young)
    BY <1>1, <1>6, HeldCells
  <2>4. /\ entries'[r] = [entries[r] EXCEPT ![k] = v]
        /\ entries[r] \in [Cell -> Cell \cup {Null, NoEntry}]
    BY <1>1 DEF WeakPut, IInv, TypeOK
  <2>5. /\ Grows(remembered, l) /\ Grows(l, remembered')
        /\ UNCHANGED <<tag, link, slots, young>> /\ tag[r] = "weak"
    BY <1>2, <1>3, <1>4 DEF StoreInto, WeakPut
  <2> QED
    BY <1>1, <2>1, <2>2, <2>3, <2>4, <2>5 DEF Grows, ListedIn, SlotOf, EntryOf, KeyOf, ValueOf
<1> QED
  BY <1>1, <1>4, <1>5, <1>6, StoreInv, HeldCells DEF WeakPut, IInv, TypeOK

LEMMA RemoveInv ==
    ASSUME IInv, NEW h \in roots,
           (\E k \in roots : RemoveEntry(h, k)) \/ TableClear(h)
    PROVE  TypeOK' /\ HeapInv' /\ AtomInv' /\ RunInv'
<1>1. phase = "run" /\ h \in Cell
  BY HeldCells DEF RemoveEntry, TableClear, Running
<1>2. StoreInto(h)
  <2>1. tag[h] # "string"
    BY <1>1, HeldCells DEF RemoveEntry, TableClear, IInv, HeapInv, RefsIn
  <2> QED
    BY <1>1, <2>1, HeldCells DEF RemoveEntry, TableClear, StoreInto, Grows, IInv, TypeOK
<1>3. /\ entries' \in [Cell -> [Cell -> Cell \cup {Null, NoEntry}]]
      /\ \A k \in Cell : entries'[h][k] \in {NoEntry, entries[h][k]}
      /\ UNCHANGED <<tag, link, slots, young, remembered>>
  <2>1. entries \in [Cell -> [Cell -> Cell \cup {Null, NoEntry}]]
    BY DEF IInv, TypeOK
  <2>2. CASE \E k \in roots : RemoveEntry(h, k)
    BY <1>1, <2>1, <2>2, HeldCells DEF RemoveEntry
  <2>3. CASE TableClear(h)
    BY <1>1, <2>1, <2>3 DEF TableClear, NoEntries
  <2> QED
    BY <2>2, <2>3
<1>4. RefsIn(h, Allocated)'
  BY <1>1, <1>3, HeldCells DEF RefsIn, Allocated
<1>5. ASSUME h \in Old PROVE ListedIn(remembered, h, young)'
  BY <1>1, <1>3, <1>5, HeldCells DEF ListedIn, SlotOf, EntryOf, KeyOf, ValueOf
<1> QED
  BY <1>1, <1>2, <1>3, <1>4, <1>5, StoreInv DEF IInv, TypeOK

LEMMA ProgramInv == ASSUME IInv, Program PROVE IInv'
<1>1. TypeOK' /\ HeapInv' /\ AtomInv' /\ RunInv'
  BY AllocateInv, RegistersInv, InternInv, SetSlotInv, SetLinkInv, SetTableValueInv,
     TableAddInv, WeakPutInv, RemoveInv DEF Program
<1> QED
  BY <1>1, ProgramControl DEF IInv
-----------------------------------------------------------------------------
\* A marking step marks more cells, all of them allocated, and changes
\* nothing the program can see.  The parts of the invariant that such a
\* step keeps whatever it marks:
MarkingStep ==
    /\ UnchangedByMarker
    /\ marked \subseteq marked' /\ marked' \subseteq Allocated
    /\ markStack' \subseteq marked'
    /\ toMark' \subseteq toMark /\ roots \cap (toMark \ toMark') \subseteq marked'
    /\ toTrace' \in Listed
    /\ pending' \subseteq Cell \X Allocated
    /\ weakRecords' \subseteq weakRecords \cup {r \in marked : tag[r] = "weak"}
    /\ weakRecords \subseteq weakRecords'
    /\ \A e \in toRegister' :
          e \in Cell \X Cell /\ e[1] \in weakRecords' /\ entries[e[1]][e[2]] # NoEntry
    /\ phase \in {"roots", "remembered", "ephemerons"}
    /\ phase' = phase

LEMMA MarkingStepInv ==
    ASSUME IInv, MarkingStep
    PROVE  TypeOK' /\ HeapInv' /\ AtomInv' /\ RootInv' /\ RunInv' /\ ClearInv' /\ SweepInv'
<1> USE DEF IInv, MarkingStep, UnchangedByMarker, program
<1>1. TypeOK'
  BY DEF TypeOK, HeapInv, Allocated
<1>2. HeapInv'
  BY DEF HeapInv, Allocated, RefsIn
<1>3. AtomInv'
  BY DEF AtomInv
<1>4. RootInv'
  BY DEF RootInv
<1>5. RunInv' /\ ClearInv' /\ SweepInv'
  BY DEF RunInv, Running, ClearInv, SweepInv
<1> QED
  BY <1>1, <1>2, <1>3, <1>4, <1>5

\* What the marker finds in a cell is allocated.
LEMMA FoundIsAllocated ==
    ASSUME IInv, NEW c \in Cell
    PROVE  /\ RefsIn(c, Allocated) /\ Refs(c) \subseteq Allocated /\ StrongRefs(c) \subseteq Allocated
           /\ Traced(c) \subseteq Allocated /\ Allocated \subseteq Cell
<1>1. RefsIn(c, Allocated) /\ Allocated \subseteq Cell
  BY DEF IInv, HeapInv, Allocated
<1>2. Refs(c) \subseteq Allocated
  BY <1>1, RefsInIsRefs DEF IInv
<1> QED
  BY <1>1, <1>2 DEF StrongRefs, Traced, Refs

LEMMA MarkRootInv ==
    ASSUME IInv, NEW c \in toMark, MarkRoot(c)
    PROVE  IInv'
<1>1. MarkingStep
  BY DEF MarkRoot, MarkingStep, Push, IInv, HeapInv, TypeOK, Drained
<1>2. ControlInv'
  BY <1>1 DEF MarkRoot, MarkingStep, UnchangedByMarker, IInv, ControlInv, Minor, Drained
<1>3. MinorInv'
  <2> SUFFICES ASSUME minorCollection PROVE MinorInv'
    BY <1>1 DEF MinorInv, Minor, MarkingStep, UnchangedByMarker
  <2>1. /\ phase = "roots" /\ markStack = {} /\ c \in Allocated
        /\ marked' = marked \cup {c} /\ markStack' = {c} \ marked
        /\ UNCHANGED <<toTrace, young, tag, link, slots, entries>>
    BY DEF MarkRoot, Push, Drained, UnchangedByMarker, program, IInv, HeapInv
  <2>2. Old \subseteq marked /\ Old' = Old
    BY <2>1 DEF IInv, MinorInv, Minor, Old, Allocated
  <2>3. markStack' \subseteq young
    BY <2>1, <2>2 DEF Old
  <2>4. \A d \in Old : ListedIn(toTrace, d, young \ marked)'
    BY <2>1 DEF IInv, MinorInv, Minor, ListedIn, SlotOf, EntryOf, KeyOf, ValueOf
  <2>5. \A d \in ((young \cap marked) \ markStack)' : RefsIn(d, marked)'
    BY <2>1 DEF IInv, MinorInv, Minor, RefsIn
  <2> QED
    BY <2>1, <2>2, <2>3, <2>4, <2>5 DEF MinorInv
<1>4. MajorInv'
  BY DEF MarkRoot, Push, UnchangedByMarker, program, Drained, IInv, MajorInv, Minor, StrongRefsIn
<1> QED
  BY <1>1, <1>2, <1>3, <1>4, MarkingStepInv DEF IInv

LEMMA RootsMarkedInv == ASSUME IInv, RootsMarked PROVE IInv'
<1> USE DEF IInv, RootsMarked, UnchangedByMarker, program, marking
<1>1. TypeOK'
  BY DEF TypeOK, Phases
<1>2. ControlInv'
  BY DEF ControlInv, Minor, Drained
<1>3. HeapInv'
  BY DEF HeapInv, Allocated, RefsIn
<1>4. AtomInv' /\ RootInv' /\ RunInv' /\ ClearInv' /\ SweepInv'
  BY DEF AtomInv, RootInv, RunInv, Running, ClearInv, SweepInv
<1>5. MinorInv'
  BY DEF MinorInv, Minor, Old, Allocated, ListedIn, RefsIn, SlotOf, EntryOf, KeyOf, ValueOf
<1>6. MajorInv'
  BY DEF MajorInv, Minor, StrongRefsIn
<1> QED
  BY <1>1, <1>2, <1>3, <1>4, <1>5, <1>6

LEMMA TraceInv ==
    ASSUME IInv, NEW c \in markStack, Trace(c)
    PROVE  IInv'
<1> DEFINE found == (Waiting(c) \cup Traced(c)) \ marked
<1>1. /\ c \in marked /\ c \in Cell /\ marked \subseteq Allocated /\ Allocated \subseteq Cell
      /\ found \subseteq Allocated /\ found \cap marked = {}
  BY FoundIsAllocated DEF IInv, HeapInv, TypeOK, Waiting, Allocated
<1>2. /\ marked' = marked \cup found /\ markStack' = (markStack \ {c}) \cup found
      /\ UNCHANGED <<phase, minorCollection, toMark, toTrace, young, tag, link, slots, entries>>
      /\ phase \in {"roots", "remembered", "ephemerons"}
      /\ pending' \subseteq pending
      /\ toRegister = {}
  BY DEF Trace, UnchangedByMarker, program, IInv, ControlInv, Drained
<1>3. IF tag[c] = "weak" /\ ~minorCollection
      THEN weakRecords' = weakRecords \cup {c} /\ toRegister' = {c} \X Keys(c)
      ELSE UNCHANGED <<weakRecords, toRegister>>
  BY DEF Trace
<1> HIDE DEF found
<1>4. MarkingStep
  <2>1. pending' \subseteq Cell \X Allocated
    BY <1>2 DEF IInv, HeapInv, TypeOK
  <2>2. \A e \in toRegister' :
           e \in Cell \X Cell /\ e[1] \in weakRecords' /\ entries[e[1]][e[2]] # NoEntry
    BY <1>1, <1>2, <1>3 DEF Keys
  <2>3. /\ weakRecords' \subseteq weakRecords \cup {r \in marked : tag[r] = "weak"}
        /\ weakRecords \subseteq weakRecords'
    BY <1>1, <1>3
  <2>4. markStack \subseteq marked /\ toTrace' \in Listed /\ UnchangedByMarker
    BY <1>2 DEF IInv, HeapInv, TypeOK, Trace
  <2> QED
    BY <1>1, <1>2, <2>1, <2>2, <2>3, <2>4 DEF MarkingStep
<1>5. ControlInv'
  BY <1>2, <1>3 DEF IInv, ControlInv, Minor, Drained, Trace, UnchangedByMarker
<1>6. MinorInv'
  <2> SUFFICES ASSUME minorCollection, phase \in {"roots", "remembered"} PROVE MinorInv'
    BY <1>2 DEF MinorInv, Minor
  <2>1. Old \subseteq marked /\ Old' = Old /\ markStack \subseteq young
    BY <1>2 DEF IInv, MinorInv, Minor, Old, Allocated
  <2>2. found \subseteq young
    BY <1>1, <2>1 DEF Old
  <2>3. \A d \in Old : ListedIn(toTrace, d, young \ marked)'
    BY <1>2 DEF IInv, MinorInv, Minor, ListedIn, SlotOf, EntryOf, KeyOf, ValueOf
  <2>4. ASSUME NEW d \in ((young \cap marked) \ markStack)'
        PROVE  RefsIn(d, marked)'
    <3>1. CASE d = c
      <4>1. Refs(c) \subseteq marked'
        BY <1>2 DEF found, Traced
      <4>2. RefsIn(c, marked \cup found)
        BY <1>1, <1>2, <4>1, RefsInIsRefs DEF IInv
      <4> QED
        BY <1>2, <3>1, <4>2 DEF RefsIn
    <3>2. CASE d # c
      BY <1>2, <3>2 DEF IInv, MinorInv, Minor, RefsIn
    <3> QED
      BY <3>1, <3>2
  <2> QED
    BY <1>2, <2>1, <2>2, <2>3, <2>4 DEF MinorInv
<1>7. MajorInv'
  <2> SUFFICES ASSUME ~minorCollection, NEW d \in (marked \ markStack)'
               PROVE  StrongRefsIn(d, marked)' /\ (tag[d] = "weak" => d \in weakRecords)'
    BY <1>2 DEF MajorInv, Minor
  <2>1. CASE d = c
    <3>1. StrongRefs(c) \subseteq marked'
      BY <1>2 DEF found, Traced
    <3>2. StrongRefsIn(c, marked)'
      BY <1>1, <1>2, <3>1, NullAssumption
      DEF StrongRefs, StrongRefsIn, Refs, Fields, Keys, Values, IInv, TypeOK
    <3> QED
      BY <1>2, <1>3, <2>1, <3>2
  <2>2. CASE d # c
    <3>1. phase \in {"roots", "ephemerons"} /\ d \in marked \ markStack
      BY <1>2, <2>2 DEF IInv, ControlInv, Minor
    <3>2. StrongRefsIn(d, marked) /\ (tag[d] = "weak" => d \in weakRecords)
      BY <3>1 DEF IInv, MajorInv, Minor
    <3> QED
      BY <1>2, <1>3, <3>2 DEF StrongRefsIn
  <2> QED
    BY <2>1, <2>2
<1> QED
  BY <1>4, <1>5, <1>6, <1>7, MarkingStepInv DEF IInv

LEMMA RegisterInv ==
    ASSUME IInv, NEW e \in toRegister, Register(e[1], e[2])
    PROVE  IInv'
<1> DEFINE r == e[1]
           k == e[2]
           v == entries[r][k]
<1>1. r \in Cell /\ k \in Cell /\ r \in weakRecords /\ v \in Allocated \cup {Null}
  BY FoundIsAllocated DEF IInv, HeapInv, TypeOK, RefsIn
<1>2. ~minorCollection /\ phase \in {"roots", "ephemerons"}
  BY DEF IInv, ControlInv, Minor, Drained
<1>3. /\ UNCHANGED <<phase, minorCollection, toMark, toTrace, weakRecords, tag, link, slots, entries>>
      /\ marked \subseteq marked' /\ marked' \subseteq marked \cup ({v} \ {Null})
      /\ markStack \subseteq markStack' /\ marked' \ marked \subseteq markStack'
      /\ markStack' \subseteq markStack \cup (marked' \ marked)
      /\ toRegister' \subseteq toRegister
      /\ pending' \subseteq pending \cup {<<k, v>> : x \in {v} \ {Null}}
  BY DEF Register, Push, UnchangedByMarker, program
<1> HIDE DEF r, k, v
<1>4. MarkingStep
  <2>1. marked' \subseteq Allocated /\ markStack' \subseteq marked' /\ pending' \subseteq Cell \X Allocated
    BY <1>1, <1>3 DEF IInv, HeapInv, TypeOK
  <2> QED
    BY <1>2, <1>3, <2>1 DEF MarkingStep, IInv, HeapInv, TypeOK, Register
<1>5. ControlInv' /\ MinorInv'
  BY <1>2, <1>3 DEF IInv, ControlInv, MinorInv, Minor, Drained, Register, UnchangedByMarker
<1>6. MajorInv'
  BY <1>2, <1>3 DEF IInv, MajorInv, Minor, StrongRefsIn
<1> QED
  BY <1>4, <1>5, <1>6, MarkingStepInv DEF IInv

\* What is listed and has been traced is marked: the rest is still listed.
LEMMA PartTraced ==
    ASSUME TypeOK, NEW l, NEW m, NEW p, NEW h, NEW c \in Cell, NEW U, NEW V \in SUBSET Cell,
           m.cells = l.cells \ {<<p, h>>}, m.places = l.places,
           ListedIn(l, c, U), V \subseteq U, PartRefs(p, h) \cap V = {}, p \in Part
    PROVE  ListedIn(m, c, V)
<1>1. CASE c # h
  BY <1>1 DEF ListedIn
<1>2. CASE c = h /\ p = "cell"
  <2>1. StrongRefs(c) \cap V = {}
    BY <1>2 DEF PartRefs
  <2>2. link[c] \notin V /\ \A s \in Slot : slots[c][s] \notin V
    BY <2>1, NullAssumption DEF StrongRefs, Refs, Fields
  <2>3. tag[c] # "weak" => \A k \in Cell :
           entries[c][k] # NoEntry => k \notin V /\ entries[c][k] \notin V
    BY <2>1, NullAssumption DEF StrongRefs, Refs, Keys, Values
  <2>4. \A q \in {"keys", "values"} : <<q, c>> \in l.cells => <<q, c>> \in m.cells
    BY <1>2
  <2> QED
    BY <2>2, <2>3, <2>4 DEF ListedIn
<1>3. CASE c = h /\ p = "keys"
  <2>1. Keys(c) \cap V = {}
    BY <1>3 DEF PartRefs
  <2> QED
    BY <1>3, <2>1 DEF ListedIn, Keys
<1>4. CASE c = h /\ p = "values"
  <2>1. Values(c) \cap V = {}
    BY <1>4 DEF PartRefs
  <2> QED
    BY <1>4, <2>1, NullAssumption DEF ListedIn, Values, Keys
<1> QED
  BY <1>1, <1>2, <1>3, <1>4 DEF Part

LEMMA PlaceTraced ==
    ASSUME TypeOK, NEW l, NEW m, NEW w, NEW c \in Cell, NEW U, NEW V \in SUBSET Cell,
           m.places = l.places \ {w}, m.cells = l.cells,
           ListedIn(l, c, U), V \subseteq U, PlaceRefs(w) \cap V = {}
    PROVE  ListedIn(m, c, V)
<1>1. ASSUME NEW s \in Slot, w = SlotOf(c, s) PROVE slots[c][s] \notin V
  BY <1>1, NullAssumption DEF PlaceRefs, SlotOf
<1>2. ASSUME NEW k \in Cell, entries[c][k] # NoEntry, w = EntryOf(c, k)
      PROVE  k \notin V /\ entries[c][k] \notin V
  BY <1>2, NullAssumption DEF PlaceRefs, EntryOf
<1>3. ASSUME NEW k \in Cell, entries[c][k] # NoEntry, w = KeyOf(c, k) PROVE k \notin V
  BY <1>3, NullAssumption DEF PlaceRefs, KeyOf
<1>4. ASSUME NEW k \in Cell, entries[c][k] # NoEntry, w = ValueOf(c, k) PROVE entries[c][k] \notin V
  BY <1>4, NullAssumption DEF PlaceRefs, ValueOf
<1>5. \A x : x # w /\ x \in l.places => x \in m.places
  OBVIOUS
<1> HIDE DEF SlotOf, EntryOf, KeyOf, ValueOf
<1> QED
  BY <1>1, <1>2, <1>3, <1>4, <1>5 DEF ListedIn

LEMMA PartRefsAllocated ==
    ASSUME IInv, NEW p \in Part, NEW h \in Cell
    PROVE  PartRefs(p, h) \subseteq Allocated
BY FoundIsAllocated DEF PartRefs, Part, Refs, StrongRefs

LEMMA PlaceRefsAllocated ==
    ASSUME IInv, NEW w \in Where
    PROVE  PlaceRefs(w) \subseteq Allocated
<1>1. w.holder \in Cell /\ w.of \in {"slot", "entry", "key", "value"}
  BY DEF Where
<1>2. RefsIn(w.holder, Allocated)
  BY <1>1, FoundIsAllocated
<1>3. CASE w.of = "slot"
  BY <1>2, <1>3 DEF Where, PlaceRefs, RefsIn
<1>4. CASE w.of # "slot"
  <2>1. w.at \in Cell
    BY <1>4 DEF Where
  <2> QED
    BY <1>1, <1>2, <1>4, <2>1, NullAssumption DEF PlaceRefs, RefsIn
<1> QED
  BY <1>3, <1>4

\* A step of traceRemembered: what was listed at one place is marked.
RememberedStep(found) ==
    /\ phase = "remembered" /\ Drained
    /\ Push(found)
    /\ UnchangedByMarker
    /\ UNCHANGED <<phase, toMark, toRegister, weakRecords, pending>>

LEMMA RememberedStepInv ==
    ASSUME IInv, NEW found \in SUBSET Allocated, RememberedStep(found),
           toTrace' \in Listed,
           \A c \in Old : ListedIn(toTrace, c, young \ marked)'
    PROVE  IInv'
<1> USE DEF IInv, RememberedStep, Push, UnchangedByMarker, program, Drained
<1>1. MarkingStep
  BY DEF MarkingStep, HeapInv, TypeOK
<1>2. minorCollection
  BY DEF ControlInv, Minor
<1>3. ControlInv'
  BY <1>2 DEF ControlInv, Minor
<1>4. MinorInv'
  <2>1. Old \subseteq marked /\ Old' = Old
    BY <1>2 DEF MinorInv, Minor, Old, Allocated
  <2>2. markStack' \subseteq young'
    BY <2>1 DEF Old
  <2>3. \A d \in ((young \cap marked) \ markStack)' : RefsIn(d, marked)'
    BY <1>2 DEF MinorInv, Minor, RefsIn
  <2> QED
    BY <2>1, <2>2, <2>3 DEF MinorInv
<1>5. MajorInv'
  BY <1>2 DEF MajorInv, Minor
<1> QED
  BY <1>1, <1>3, <1>4, <1>5, MarkingStepInv

LEMMA TraceRememberedCellInv ==
    ASSUME IInv, NEW e \in toTrace.cells, TraceRememberedCell(e[1], e[2])
    PROVE  IInv'
<1> DEFINE p == e[1]
           h == e[2]
<1>1. p \in Part /\ h \in Cell /\ e = <<p, h>> /\ toTrace \in Listed
  BY DEF IInv, TypeOK, Listed
<1>2. PartRefs(p, h) \in SUBSET Allocated
  BY <1>1, PartRefsAllocated
<1>3. RememberedStep(PartRefs(p, h))
  BY DEF TraceRememberedCell, RememberedStep
<1>4. /\ toTrace'.cells = toTrace.cells \ {<<p, h>>} /\ toTrace'.places = toTrace.places
      /\ toTrace' \in Listed
  BY <1>1 DEF TraceRememberedCell, Listed
<1>5. /\ UNCHANGED <<tag, link, slots, entries, young>>
      /\ marked' = marked \cup PartRefs(p, h) /\ phase = "remembered"
  BY <1>3 DEF RememberedStep, Push, UnchangedByMarker, program
<1> HIDE DEF p, h
<1>6. ASSUME NEW c \in Old PROVE ListedIn(toTrace, c, young \ marked)'
  <2>1. ListedIn(toTrace, c, young \ marked) /\ c \in Cell
    BY <1>5 DEF IInv, MinorInv, ControlInv, Minor, Old, Allocated
  <2>2. (young \ marked') \in SUBSET Cell /\ young \ marked' \subseteq young \ marked
    BY <1>5 DEF IInv, TypeOK
  <2>3. ListedIn(toTrace', c, young \ marked')
    BY <1>1, <1>4, <1>5, <2>1, <2>2, PartTraced DEF IInv
  <2> QED
    BY <1>5, <2>3 DEF ListedIn, SlotOf, EntryOf, KeyOf, ValueOf
<1>7. Old' = Old
  BY <1>5 DEF Old, Allocated
<1> QED
  BY <1>2, <1>3, <1>4, <1>6, <1>7, RememberedStepInv

LEMMA TraceRememberedPlaceInv ==
    ASSUME IInv, NEW w \in toTrace.places, TraceRememberedPlace(w)
    PROVE  IInv'
<1>1. w \in Where /\ toTrace \in Listed
  BY DEF IInv, TypeOK, Listed
<1>2. PlaceRefs(w) \in SUBSET Allocated
  BY <1>1, PlaceRefsAllocated
<1>3. RememberedStep(PlaceRefs(w))
  BY DEF TraceRememberedPlace, RememberedStep
<1>4. /\ toTrace'.places = toTrace.places \ {w} /\ toTrace'.cells = toTrace.cells
      /\ toTrace' \in Listed
  BY <1>1 DEF TraceRememberedPlace, Listed
<1>5. /\ UNCHANGED <<tag, link, slots, entries, young>>
      /\ marked' = marked \cup PlaceRefs(w) /\ phase = "remembered"
  BY <1>3 DEF RememberedStep, Push, UnchangedByMarker, program
<1>6. ASSUME NEW c \in Old PROVE ListedIn(toTrace, c, young \ marked)'
  <2>1. ListedIn(toTrace, c, young \ marked) /\ c \in Cell
    BY <1>5 DEF IInv, MinorInv, ControlInv, Minor, Old, Allocated
  <2>2. (young \ marked') \in SUBSET Cell /\ young \ marked' \subseteq young \ marked
    BY <1>5 DEF IInv, TypeOK
  <2>3. ListedIn(toTrace', c, young \ marked')
    BY <1>4, <1>5, <2>1, <2>2, PlaceTraced DEF IInv
  <2> QED
    BY <1>5, <2>3 DEF ListedIn, SlotOf, EntryOf, KeyOf, ValueOf
<1>7. Old' = Old
  BY <1>5 DEF Old, Allocated
<1> QED
  BY <1>2, <1>3, <1>4, <1>6, <1>7, RememberedStepInv

LEMMA RememberedTracedInv == ASSUME IInv, RememberedTraced PROVE IInv'
<1> USE DEF IInv, RememberedTraced, UnchangedByMarker, program, marking
<1>1. TypeOK'
  BY DEF TypeOK, Phases
<1>2. minorCollection
  BY DEF ControlInv, Minor
<1>3. ControlInv'
  BY <1>2 DEF ControlInv, Minor, Drained
<1>4. HeapInv'
  BY DEF HeapInv, Allocated, RefsIn
<1>5. AtomInv' /\ RootInv' /\ RunInv' /\ MinorInv' /\ MajorInv' /\ ClearInv'
  BY <1>2 DEF AtomInv, RootInv, RunInv, Running, MinorInv, MajorInv, ClearInv, Minor
<1>6. SweepInv'
  <2>1. /\ Old \subseteq marked /\ markStack = {}
        /\ \A c \in Old : ListedIn(NothingListed, c, young \ marked)
        /\ \A c \in young \cap marked : RefsIn(c, marked)
        /\ Allocated = Old \cup young
    BY <1>2 DEF MinorInv, Minor, Drained, Old, Allocated, HeapInv
  <2>2. ASSUME NEW c \in Old PROVE RefsIn(c, marked)
    <3>1. RefsIn(c, Allocated) /\ Allocated \subseteq marked \cup (young \ marked)
      BY <2>1 DEF HeapInv, Old, Allocated
    <3>2. /\ link[c] \notin young \ marked
          /\ \A s \in Slot : slots[c][s] \notin young \ marked
          /\ \A k \in Cell : entries[c][k] # NoEntry =>
                k \notin young \ marked /\ entries[c][k] \notin young \ marked
      BY <2>1 DEF ListedIn, NothingListed
    <3> QED
      BY <3>1, <3>2 DEF RefsIn
  <2>3. \A c \in marked : RefsIn(c, marked)
    BY <2>1, <2>2 DEF HeapInv
  <2> QED
    BY <2>1, <2>3 DEF SweepInv, RefsIn, Old, Allocated
<1> QED
  BY <1>1, <1>3, <1>4, <1>5, <1>6

LEMMA MarkEphemeronsInv == ASSUME IInv, MarkEphemerons PROVE IInv'
<1>1. /\ phase = "ephemerons" /\ markStack = {} /\ toRegister = {} /\ ~minorCollection
      /\ marked' = marked \cup ScanFinds /\ markStack' = ScanFinds \ marked
      /\ UNCHANGED <<tag, link, slots, entries, roots, interned, atoms>>
      /\ UNCHANGED <<young, remembered, minorCollection, deadAtoms>>
      /\ UNCHANGED <<toMark, toTrace, toRegister, weakRecords, pending>>
      /\ phase' = IF ScanFinds = {} THEN "clear" ELSE "ephemerons"
  BY DEF MarkEphemerons, Drained, Push, UnchangedByMarker, program, IInv, ControlInv, Minor
<1>2. ScanFinds \subseteq Allocated /\ Allocated \subseteq Cell
  <2>1. ASSUME NEW r \in weakRecords, NEW k \in marked, entries[r][k] \in Cell
        PROVE  entries[r][k] \in Allocated
    <3>1. r \in Cell /\ k \in Cell
      BY DEF IInv, TypeOK
    <3>2. RefsIn(r, Allocated)
      BY <3>1 DEF IInv, HeapInv
    <3>3. entries[r][k] # NoEntry /\ entries[r][k] # Null
      BY <2>1, NullAssumption
    <3> QED
      BY <3>1, <3>2, <3>3 DEF RefsIn
  <2> QED
    BY <2>1 DEF ScanFinds, Allocated
<1>3. TypeOK'
  BY <1>1, <1>2 DEF IInv, TypeOK, Phases
<1>4. ControlInv'
  BY <1>1 DEF IInv, ControlInv, Minor, Drained
<1>5. HeapInv'
  BY <1>1, <1>2 DEF IInv, HeapInv, Allocated, RefsIn
<1>6. AtomInv' /\ RootInv' /\ RunInv' /\ MinorInv' /\ SweepInv'
  BY <1>1 DEF IInv, AtomInv, RootInv, RunInv, Running, MinorInv, Minor, SweepInv
<1>7. MajorInv'
  BY <1>1 DEF IInv, MajorInv, Minor, StrongRefsIn
<1>8. ClearInv'
  <2> SUFFICES ASSUME ScanFinds = {}, NEW r \in weakRecords, NEW k \in marked,
                      entries[r][k] # NoEntry
               PROVE  entries[r][k] \in marked \cup {Null}
    BY <1>1 DEF ClearInv
  <2>1. entries[r][k] \in Cell \cup {Null}
    BY DEF IInv, TypeOK
  <2> QED
    BY <2>1 DEF ScanFinds
<1> QED
  BY <1>3, <1>4, <1>5, <1>6, <1>7, <1>8 DEF IInv

LEMMA ClearDeadWeakEntriesInv == ASSUME IInv, ClearDeadWeakEntries PROVE IInv'
<1>1. /\ phase = "clear" /\ phase' = "atoms" /\ ~minorCollection
      /\ UNCHANGED <<tag, link, slots, young, remembered, roots, interned, atoms, marked,
                     toMark, toTrace, toRegister, markStack, minorCollection, deadAtoms>>
      /\ weakRecords' = {} /\ pending' = {}
  BY DEF ClearDeadWeakEntries, IInv, ControlInv, Minor
<1>2. /\ entries' \in [Cell -> [Cell -> Cell \cup {Null, NoEntry}]]
      /\ \A c \in Cell : \A k \in Cell :
            entries'[c][k] = IF c \in weakRecords /\ k \notin marked THEN NoEntry ELSE entries[c][k]
  BY DEF ClearDeadWeakEntries, IInv, TypeOK
<1>3. TypeOK'
  BY <1>1, <1>2 DEF IInv, TypeOK, Phases
<1>4. ControlInv'
  BY <1>1 DEF IInv, ControlInv, Minor, Drained
<1>5. HeapInv'
  <2>1. toRegister = {}
    BY <1>1 DEF IInv, ControlInv, Drained
  <2> QED
    BY <1>1, <1>2, <2>1 DEF IInv, HeapInv, Allocated, RefsIn
<1>6. AtomInv' /\ RootInv' /\ RunInv' /\ MinorInv' /\ MajorInv' /\ ClearInv'
  BY <1>1 DEF IInv, AtomInv, RootInv, RunInv, Running, MinorInv, MajorInv, Minor, ClearInv
<1>7. SweepInv'
  <2>1. ASSUME NEW c \in marked PROVE RefsIn(c, marked)'
    <3>1. /\ c \in Cell /\ StrongRefsIn(c, marked) /\ (tag[c] = "weak" => c \in weakRecords)
          /\ marked \subseteq Cell
      BY <1>1 DEF IInv, MajorInv, Minor, ControlInv, Drained, TypeOK
    <3>2. CASE tag[c] # "weak"
      BY <1>1, <1>2, <3>1, <3>2 DEF StrongRefsIn, RefsIn, IInv, HeapInv
    <3>3. CASE tag[c] = "weak"
      <4>1. \A k \in marked : entries[c][k] # NoEntry => entries[c][k] \in marked \cup {Null}
        BY <1>1, <3>1, <3>3 DEF IInv, ClearInv
      <4> QED
        BY <1>1, <1>2, <3>1, <3>3, <4>1 DEF StrongRefsIn, RefsIn
    <3> QED
      BY <3>2, <3>3
  <2> QED
    BY <1>1, <2>1 DEF SweepInv
<1> QED
  BY <1>3, <1>4, <1>5, <1>6, <1>7 DEF IInv

LEMMA AtomStepInv == ASSUME IInv, RebuildAtoms \/ DropDeadAtoms PROVE IInv'
<1>1. /\ UNCHANGED <<tag, link, slots, entries, roots, interned, marking, young, remembered,
                     minorCollection, deadAtoms>>
      /\ \/ phase = "atoms" /\ phase' = "sweep" /\ atoms' = atoms \cap marked
         \/ phase = "dropAtoms" /\ phase' = "finish" /\ atoms' = atoms \ deadAtoms
  BY DEF RebuildAtoms, DropDeadAtoms
<1> USE DEF IInv, marking
<1>2. TypeOK'
  BY <1>1 DEF TypeOK, Phases
<1>3. ControlInv'
  BY <1>1 DEF ControlInv, Minor, Drained
<1>4. HeapInv'
  BY <1>1 DEF HeapInv, Allocated, RefsIn
<1>5. AtomInv' /\ RootInv'
  BY <1>1 DEF AtomInv, RootInv
<1>6. RunInv' /\ MinorInv' /\ MajorInv' /\ ClearInv'
  BY <1>1 DEF RunInv, Running, MinorInv, MajorInv, ClearInv
<1>7. SweepInv'
  BY <1>1 DEF SweepInv, RefsIn, Allocated
<1> QED
  BY <1>2, <1>3, <1>4, <1>5, <1>6, <1>7

\* Freeing cells that nothing left refers to leaves no dangling reference.
LEMMA ReleaseKeeps ==
    ASSUME TypeOK, NEW dead \in SUBSET Cell, Release(dead),
           \A c \in Allocated \ dead : RefsIn(c, Allocated \ dead),
           \A c \in Cell : tag[c] \in {"free", "string"} => RefsIn(c, {})
    PROVE  /\ tag' \in [Cell -> AllKinds \cup {"free"}]
           /\ link' \in [Cell -> Cell \cup {Null}]
           /\ slots' \in [Cell -> [Slot -> Cell \cup {Null}]]
           /\ entries' \in [Cell -> [Cell -> Cell \cup {Null, NoEntry}]]
           /\ Allocated' = Allocated \ dead
           /\ \A c \in Cell : RefsIn(c, Allocated)'
           /\ \A c \in Cell : tag'[c] \in {"free", "string"} => RefsIn(c, {})'
           /\ \A c \in Cell \ dead : tag'[c] = tag[c]
<1>1. /\ tag' \in [Cell -> AllKinds \cup {"free"}]
      /\ link' \in [Cell -> Cell \cup {Null}]
      /\ slots' \in [Cell -> [Slot -> Cell \cup {Null}]]
      /\ entries' \in [Cell -> [Cell -> Cell \cup {Null, NoEntry}]]
  BY DEF Release, TypeOK, NoSlots, NoEntries
<1>2. Allocated' = Allocated \ dead
  BY DEF Release, Allocated
<1>3. ASSUME NEW c \in Cell
      PROVE  /\ RefsIn(c, Allocated)'
             /\ tag'[c] \in {"free", "string"} => RefsIn(c, {})'
             /\ c \notin dead => tag'[c] = tag[c]
  <2>1. CASE c \in dead
    BY <1>2, <2>1 DEF Release, RefsIn, NoSlots, NoEntries
  <2>2. CASE c \notin dead
    BY <1>2, <2>2 DEF Release, RefsIn, Allocated
  <2> QED
    BY <2>1, <2>2
<1> QED
  BY <1>1, <1>2, <1>3

\* The next cycle: the survivors are old, and nothing is young or listed.
LEMMA EndCycleInv ==
    ASSUME EndCycle, TypeOK', HeapInv', AtomInv',
           ControlInv, Drained, phase # "roots", toTrace = NothingListed,
           weakRecords = {}, pending = {}, UNCHANGED marking, deadAtoms' = {},
           Allocated' = marked
    PROVE  IInv'
<1> USE DEF EndCycle, marking
<1>1. ControlInv'
  BY DEF ControlInv, Drained, Minor
<1>2. RootInv' /\ MinorInv' /\ MajorInv' /\ ClearInv' /\ SweepInv'
  BY DEF RootInv, MinorInv, Minor, MajorInv, ClearInv, SweepInv
<1>3. RunInv'
  <2>1. marked' = Old'
    BY DEF Old
  <2>2. ASSUME NEW c \in Old' PROVE ListedIn(remembered, c, young)'
    BY DEF ListedIn
  <2> QED
    BY <2>1, <2>2 DEF RunInv
<1> QED
  BY <1>1, <1>2, <1>3 DEF IInv

LEMMA SweepKeepsInv == ASSUME IInv, Sweep PROVE IInv'
<1> DEFINE dead == Allocated \ marked
<1>1. phase = "sweep" /\ ~minorCollection /\ Release(dead) /\ EndCycle
      /\ UNCHANGED <<roots, atoms, marking, deadAtoms>>
  BY DEF Sweep, IInv, ControlInv, Minor
<1>2. /\ Allocated \ dead = marked /\ marked \subseteq Allocated /\ Allocated \subseteq Cell
      /\ dead \in SUBSET Cell /\ roots \subseteq marked
      /\ \A c \in Allocated \ dead : RefsIn(c, Allocated \ dead)
      /\ \A c \in Cell : tag[c] \in {"free", "string"} => RefsIn(c, {})
  BY <1>1 DEF IInv, HeapInv, SweepInv, RootInv, Allocated
<1>3. /\ tag' \in [Cell -> AllKinds \cup {"free"}]
      /\ link' \in [Cell -> Cell \cup {Null}]
      /\ slots' \in [Cell -> [Slot -> Cell \cup {Null}]]
      /\ entries' \in [Cell -> [Cell -> Cell \cup {Null, NoEntry}]]
      /\ Allocated' = marked
      /\ \A c \in Cell : RefsIn(c, Allocated)'
      /\ \A c \in Cell : tag'[c] \in {"free", "string"} => RefsIn(c, {})'
      /\ \A c \in marked : tag'[c] = tag[c]
  BY <1>1, <1>2, ReleaseKeeps DEF IInv
<1>4. /\ Drained /\ toTrace = NothingListed /\ weakRecords = {} /\ deadAtoms = {} /\ toMark = {}
      /\ pending = {}
  BY <1>1 DEF IInv, ControlInv, Minor
<1>5. interned' = interned \cap marked /\ atoms = interned \cap marked
  BY <1>1 DEF Release, IInv, HeapInv, AtomInv
<1>6. TypeOK'
  BY <1>1, <1>3, <1>5 DEF IInv, TypeOK, marking, EndCycle, Phases, Listed, NothingListed
<1>7. HeapInv'
  BY <1>1, <1>2, <1>3, <1>4, <1>5 DEF IInv, HeapInv, marking, EndCycle, Drained
<1>8. AtomInv'
  BY <1>1, <1>5 DEF AtomInv, EndCycle
<1> QED
  BY <1>1, <1>3, <1>4, <1>6, <1>7, <1>8, EndCycleInv DEF IInv

LEMMA FinishMinorInv == ASSUME IInv, FinishMinor PROVE IInv'
<1>1. phase = "finish" /\ minorCollection /\ Release(deadAtoms) /\ EndCycle
      /\ UNCHANGED <<roots, atoms, marking>> /\ deadAtoms' = {}
  BY DEF FinishMinor, IInv, ControlInv, Minor
<1>2. /\ Allocated \ deadAtoms = marked /\ deadAtoms \in SUBSET Cell /\ Allocated \subseteq Cell
      /\ roots \subseteq marked
      /\ \A c \in Allocated \ deadAtoms : RefsIn(c, Allocated \ deadAtoms)
      /\ \A c \in Cell : tag[c] \in {"free", "string"} => RefsIn(c, {})
  BY <1>1 DEF IInv, HeapInv, SweepInv, RootInv, Allocated
<1>3. /\ tag' \in [Cell -> AllKinds \cup {"free"}]
      /\ link' \in [Cell -> Cell \cup {Null}]
      /\ slots' \in [Cell -> [Slot -> Cell \cup {Null}]]
      /\ entries' \in [Cell -> [Cell -> Cell \cup {Null, NoEntry}]]
      /\ Allocated' = marked
      /\ \A c \in Cell : RefsIn(c, Allocated)'
      /\ \A c \in Cell : tag'[c] \in {"free", "string"} => RefsIn(c, {})'
      /\ \A c \in marked : tag'[c] = tag[c]
  BY <1>1, <1>2, ReleaseKeeps DEF IInv
<1>4. /\ Drained /\ toTrace = NothingListed /\ weakRecords = {} /\ toMark = {}
      /\ pending = {}
  BY <1>1 DEF IInv, ControlInv, Minor
<1>5. interned' = interned \ deadAtoms /\ atoms = interned \ deadAtoms /\ interned \subseteq Allocated
  BY <1>1 DEF Release, IInv, HeapInv, AtomInv
<1>6. pending' = {}
  BY <1>1 DEF IInv, ControlInv, Minor, marking
<1>7. TypeOK'
  BY <1>1, <1>3, <1>5 DEF IInv, TypeOK, marking, EndCycle, Phases, Listed, NothingListed
<1>8. HeapInv'
  BY <1>1, <1>2, <1>3, <1>4, <1>5, <1>6 DEF IInv, HeapInv, marking, EndCycle, Drained
<1>9. AtomInv'
  BY <1>1, <1>5 DEF AtomInv, EndCycle
<1> QED
  BY <1>1, <1>3, <1>4, <1>7, <1>8, <1>9, EndCycleInv DEF IInv

LEMMA SweepYoungInv == ASSUME IInv, SweepYoung PROVE IInv'
<1> DEFINE dead == (young \ marked) \ interned
<1>1. /\ phase = "sweepYoung" /\ minorCollection /\ Release(dead)
      /\ deadAtoms' = (young \ marked) \cap interned
      /\ young' = young \cap (marked \cup interned)
      /\ phase' = "dropAtoms"
      /\ UNCHANGED <<roots, atoms, marking, remembered, minorCollection>>
  BY DEF SweepYoung, IInv, ControlInv, Minor
<1>2. /\ Allocated = Old \cup young /\ Old \subseteq marked /\ young \subseteq Allocated
      /\ marked \subseteq Allocated /\ Allocated \subseteq Cell
      /\ \A c \in marked : RefsIn(c, marked)
      /\ \A c \in Cell : tag[c] \in {"free", "string"} => RefsIn(c, {})
      /\ roots \subseteq marked
  BY <1>1 DEF IInv, HeapInv, SweepInv, RootInv, Allocated, Old
<1>3. Allocated \ dead = marked \cup deadAtoms' /\ dead \cap marked = {} /\ dead \in SUBSET Cell
  BY <1>1, <1>2
<1>4. \A c \in Allocated \ dead : RefsIn(c, Allocated \ dead)
  <2>1. ASSUME NEW c \in marked PROVE RefsIn(c, Allocated \ dead)
    BY <1>2, <1>3 DEF RefsIn
  <2>2. ASSUME NEW c \in deadAtoms' PROVE RefsIn(c, Allocated \ dead)
    <3>1. c \in Cell /\ RefsIn(c, {})
      BY <1>1, <1>2 DEF IInv, HeapInv
    <3> QED
      BY <3>1 DEF RefsIn
  <2> QED
    BY <1>3, <2>1, <2>2
<1> HIDE DEF dead
<1>5. /\ tag' \in [Cell -> AllKinds \cup {"free"}]
      /\ link' \in [Cell -> Cell \cup {Null}]
      /\ slots' \in [Cell -> [Slot -> Cell \cup {Null}]]
      /\ entries' \in [Cell -> [Cell -> Cell \cup {Null, NoEntry}]]
      /\ Allocated' = marked \cup deadAtoms'
      /\ \A c \in Cell : RefsIn(c, Allocated)'
      /\ \A c \in Cell : tag'[c] \in {"free", "string"} => RefsIn(c, {})'
      /\ \A c \in Cell \ dead : tag'[c] = tag[c]
  BY <1>1, <1>2, <1>3, <1>4, ReleaseKeeps DEF IInv
<1>6. /\ Drained /\ toTrace = NothingListed /\ weakRecords = {} /\ toMark = {} /\ pending = {}
      /\ toMark' = {} /\ markStack' = {} /\ toRegister' = {} /\ toTrace' = NothingListed
      /\ weakRecords' = {} /\ pending' = {} /\ marked' = marked
  BY <1>1 DEF IInv, ControlInv, Minor, marking, Drained
<1>7. /\ interned' = interned /\ atoms' = interned' /\ deadAtoms' \subseteq interned
      /\ interned \subseteq marked \cup deadAtoms'
  BY <1>1, <1>2 DEF Release, IInv, HeapInv, AtomInv, dead
<1>8. TypeOK'
  BY <1>1, <1>2, <1>5, <1>6, <1>7 DEF IInv, TypeOK, Phases, Listed, NothingListed
<1>9. ControlInv'
  BY <1>1, <1>6 DEF ControlInv, Minor, Drained
<1>10. HeapInv'
  BY <1>1, <1>2, <1>3, <1>5, <1>6, <1>7 DEF IInv, HeapInv
<1>11. AtomInv' /\ RootInv'
  BY <1>1, <1>2, <1>6, <1>7 DEF AtomInv, RootInv
<1>12. RunInv' /\ MinorInv' /\ MajorInv' /\ ClearInv'
  BY <1>1 DEF RunInv, Running, MinorInv, MajorInv, ClearInv
<1>13. SweepInv'
  <2>1. \A c \in marked : RefsIn(c, marked)'
    BY <1>1, <1>2, <1>3, <1>6 DEF Release, RefsIn
  <2> QED
    BY <1>1, <1>5, <1>6, <1>7, <2>1 DEF SweepInv
<1> QED
  BY <1>8, <1>9, <1>10, <1>11, <1>12, <1>13 DEF IInv
-----------------------------------------------------------------------------
\* beginMajor: with no marks, every root is yet to mark.
LEMMA BeginMajorInv == ASSUME IInv, BeginMajor PROVE IInv'
<1> USE DEF BeginMajor, program, Running
<1>1. TypeOK'
  BY DEF IInv, TypeOK, Phases, Listed, NothingListed
<1>2. ControlInv'
  BY DEF IInv, ControlInv, Minor, Drained
<1>3. HeapInv'
  BY DEF IInv, ControlInv, Drained, HeapInv, Allocated, RefsIn
<1>4. AtomInv' /\ RootInv' /\ RunInv' /\ MinorInv' /\ ClearInv' /\ SweepInv'
  BY DEF IInv, AtomInv, RootInv, RunInv, MinorInv, Minor, ClearInv, SweepInv
<1>5. MajorInv'
  BY DEF MajorInv
<1> QED
  BY <1>1, <1>2, <1>3, <1>4, <1>5 DEF IInv

\* beginMinor: the marked cells are the old ones, and the remembered set
\* lists what they refer to among the unmarked.
LEMMA BeginMinorInv == ASSUME IInv, BeginMinor PROVE IInv'
<1> USE DEF BeginMinor, program, Running
<1>1. TypeOK'
  BY DEF IInv, TypeOK, Phases
<1>2. ControlInv'
  BY DEF IInv, ControlInv, Minor, Drained
<1>3. HeapInv'
  BY DEF IInv, ControlInv, Drained, HeapInv, Allocated, RefsIn
<1>4. AtomInv' /\ RootInv' /\ RunInv' /\ MajorInv' /\ ClearInv' /\ SweepInv'
  BY DEF IInv, AtomInv, RootInv, RunInv, MajorInv, Minor, ClearInv, SweepInv
<1>5. MinorInv'
  <2>1. /\ marked = Old /\ Old' = Old /\ marked' = marked /\ young' = young
        /\ \A c \in Old : ListedIn(remembered, c, young)
        /\ markStack' = {} /\ toTrace' = remembered
    BY DEF IInv, RunInv, ControlInv, Drained, Old, Allocated
  <2>2. young \cap marked = {}
    BY <2>1 DEF Old
  <2>3. ASSUME NEW c \in Old PROVE ListedIn(toTrace, c, young \ marked)'
    BY <2>1, <2>2 DEF ListedIn, SlotOf, EntryOf, KeyOf, ValueOf
  <2> QED
    BY <2>1, <2>2, <2>3 DEF MinorInv
<1> QED
  BY <1>1, <1>2, <1>3, <1>4, <1>5 DEF IInv

LEMMA CollectInv == ASSUME IInv, Collect PROVE IInv'
<1>1. CASE \E c \in toMark : MarkRoot(c)
  BY <1>1, MarkRootInv
<1>2. CASE \E c \in markStack : Trace(c)
  BY <1>2, TraceInv
<1>3. CASE \E e \in toRegister : Register(e[1], e[2])
  BY <1>3, RegisterInv
<1>4. CASE \E h \in toTrace.cells : TraceRememberedCell(h[1], h[2])
  BY <1>4, TraceRememberedCellInv
<1>5. CASE \E place \in toTrace.places : TraceRememberedPlace(place)
  BY <1>5, TraceRememberedPlaceInv
<1>6. CASE \/ RootsMarked \/ RememberedTraced \/ MarkEphemerons \/ ClearDeadWeakEntries
           \/ RebuildAtoms \/ DropDeadAtoms
  BY <1>6, RootsMarkedInv, RememberedTracedInv, MarkEphemeronsInv, ClearDeadWeakEntriesInv,
     AtomStepInv
<1>7. CASE Sweep \/ SweepYoung \/ FinishMinor
  BY <1>7, SweepKeepsInv, SweepYoungInv, FinishMinorInv
<1> QED
  BY <1>1, <1>2, <1>3, <1>4, <1>5, <1>6, <1>7 DEF Collect

\* An empty heap satisfies the invariant.
LEMMA InitInv == Init => IInv
<1> SUFFICES ASSUME Init PROVE IInv
  OBVIOUS
<1> USE DEF Init
<1>1. TypeOK
  BY DEF TypeOK, AllKinds, Phases, Listed, NothingListed, NoSlots, NoEntries
<1>2. Allocated = {} /\ \A c \in Cell : RefsIn(c, {})
  BY DEF Allocated, RefsIn, NoSlots, NoEntries
<1>3. ControlInv
  BY DEF ControlInv, Minor, Drained
<1>4. HeapInv
  BY <1>2 DEF HeapInv, RefsIn
<1>5. AtomInv /\ RootInv /\ MinorInv /\ MajorInv /\ ClearInv /\ SweepInv
  BY DEF AtomInv, RootInv, MinorInv, Minor, MajorInv, ClearInv, SweepInv
<1>6. RunInv
  BY <1>2 DEF RunInv, Old
<1> QED
  BY <1>1, <1>3, <1>4, <1>5, <1>6 DEF IInv

LEMMA StutterInv == ASSUME IInv, UNCHANGED vars PROVE IInv'
<1> USE DEF vars, program, marking
<1>1. TypeOK' /\ ControlInv' /\ AtomInv' /\ RootInv'
  BY DEF IInv, TypeOK, ControlInv, Minor, Drained, AtomInv, RootInv
<1>2. HeapInv'
  BY DEF IInv, HeapInv, Allocated, RefsIn
<1>3. MajorInv' /\ ClearInv'
  BY DEF IInv, MajorInv, Minor, StrongRefsIn, ClearInv
<1>4. SweepInv'
  BY DEF IInv, SweepInv, RefsIn, Old, Allocated
<1>5. RunInv'
  BY DEF IInv, RunInv, Running, Old, Allocated, ListedIn, SlotOf, EntryOf, KeyOf, ValueOf
<1>6. MinorInv'
  BY DEF IInv, MinorInv, Minor, Old, Allocated, ListedIn, RefsIn,
         SlotOf, EntryOf, KeyOf, ValueOf
<1> QED
  BY <1>1, <1>2, <1>3, <1>4, <1>5, <1>6 DEF IInv

\* The inductive invariant holds in every state of every behaviour: of any
\* sequence of stores, minor and full collections, in any order of marking.
THEOREM Invariant == Spec => []IInv
<1>1. IInv /\ [Next]_vars => IInv'
  BY ProgramInv, BeginMajorInv, BeginMinorInv, CollectInv, StutterInv DEF Next
<1> QED
  BY InitInv, <1>1, PTL DEF Spec

\* The collector's state always has its type.
THEOREM TypeCorrect == Spec => []TypeOK
BY Invariant, PTL DEF IInv

\* A sweep frees nothing that the roots, the atom table or any cell left in
\* the heap refers to: with any number of cells and slots, no reference
\* ever names a freed cell.
THEOREM NeverDangling == Spec => []NoDangling
<1>1. IInv => NoDangling
  <2> SUFFICES ASSUME IInv PROVE NoDangling
    OBVIOUS
  <2>1. roots \cup atoms \cup deadAtoms \subseteq Allocated
    BY DEF IInv, HeapInv, AtomInv
  <2>2. ASSUME NEW c \in Allocated PROVE Refs(c) \subseteq Allocated
    BY FoundIsAllocated DEF Allocated
  <2> QED
    BY <2>1, <2>2 DEF NoDangling
<1> QED
  BY Invariant, <1>1, PTL

\* What the program can reach, through strong references and ephemerons,
\* is never freed: the allocated cells are themselves closed under reach.
THEOREM NothingReachableFreed == Spec => []ReachableAllocated
<1>1. IInv => ReachableAllocated
  <2> SUFFICES ASSUME IInv PROVE ReachableAllocated
    OBVIOUS
  <2>1. Allocated \in SUBSET Cell /\ roots \subseteq Allocated
    BY DEF IInv, HeapInv, Allocated
  <2>2. ASSUME NEW c \in Allocated
        PROVE  /\ StrongRefs(c) \subseteq Allocated
               /\ \A k \in Keys(c) : entries[c][k] \in Allocated \cup {Null}
    BY <2>1, FoundIsAllocated DEF RefsIn, Keys
  <2>3. Closed(Allocated)
    BY <2>1, <2>2 DEF Closed
  <2> QED
    BY <2>1, <2>3 DEF ReachableAllocated, Reachable
<1> QED
  BY Invariant, <1>1, PTL

\* The write barrier misses nothing: between collections, the remembered
\* set always lists every reference from an old cell to a young one.
THEOREM BarrierComplete == Spec => []OldToYoungListed
<1>1. IInv => OldToYoungListed
  <2> SUFFICES ASSUME IInv, Running, NEW c \in Old, NEW x \in Refs(c) \cap young
               PROVE  \/ \E p \in Part : <<p, c>> \in remembered.cells /\ x \in PartRefs(p, c)
                      \/ \E w \in remembered.places : w.holder = c /\ x \in PlaceRefs(w)
    BY DEF OldToYoungListed
  <2>1. ListedIn(remembered, c, young) /\ c \in Cell /\ x \in Cell
    BY DEF IInv, RunInv, Old, Allocated, TypeOK
  <2>2. CASE x \in Fields(c)
    <3>1. <<"cell", c>> \in remembered.cells => x \in PartRefs("cell", c)
      BY <2>2 DEF PartRefs, StrongRefs, Refs
    <3>2. \/ <<"cell", c>> \in remembered.cells
          \/ \E s \in Slot : SlotOf(c, s) \in remembered.places /\ x = slots[c][s]
      BY <2>1, <2>2 DEF Fields, ListedIn
    <3>3. \A s \in Slot : slots[c][s] = x => x \in PlaceRefs(SlotOf(c, s))
      BY <2>1, NullAssumption DEF PlaceRefs, SlotOf
    <3> QED
      BY <3>1, <3>2, <3>3 DEF SlotOf, Part
  <2>3. CASE x \in Keys(c) \cup Values(c)
    <3>1. PICK k \in Keys(c) : x = k \/ x = entries[c][k]
      BY <2>3 DEF Values
    <3>2. k \in Cell /\ entries[c][k] # NoEntry
      BY <3>1 DEF Keys
    <3>3. CASE tag[c] # "weak"
      <4>1. x \in PartRefs("cell", c)
        BY <3>3, <2>3 DEF PartRefs, StrongRefs, Refs
      <4>2. x \in PlaceRefs(EntryOf(c, k))
        BY <2>1, <3>1, <3>2, NullAssumption DEF PlaceRefs, EntryOf
      <4>3. <<"cell", c>> \in remembered.cells \/ EntryOf(c, k) \in remembered.places
        BY <2>1, <3>1, <3>2, <3>3 DEF ListedIn
      <4> QED
        BY <4>1, <4>2, <4>3 DEF EntryOf, Part
    <3>4. CASE tag[c] = "weak" /\ x = k
      <4>1. x \in PartRefs("keys", c)
        BY <3>1, <3>4 DEF PartRefs
      <4>2. x \in PlaceRefs(KeyOf(c, k))
        BY <3>2, <3>4 DEF PlaceRefs, KeyOf
      <4>3. <<"keys", c>> \in remembered.cells \/ KeyOf(c, k) \in remembered.places
        BY <2>1, <3>2, <3>4 DEF ListedIn
      <4> QED
        BY <4>1, <4>2, <4>3 DEF KeyOf, Part
    <3>5. CASE tag[c] = "weak" /\ x = entries[c][k]
      <4>1. x \in PartRefs("values", c)
        BY <2>1, <3>1, <3>5, NullAssumption DEF PartRefs, Values
      <4>2. x \in PlaceRefs(ValueOf(c, k))
        BY <2>1, <3>2, <3>5, NullAssumption DEF PlaceRefs, ValueOf
      <4>3. <<"values", c>> \in remembered.cells \/ ValueOf(c, k) \in remembered.places
        BY <2>1, <3>2, <3>5 DEF ListedIn
      <4> QED
        BY <4>1, <4>2, <4>3 DEF ValueOf, Part
    <3> QED
      BY <3>1, <3>3, <3>4, <3>5
  <2> QED
    BY <2>2, <2>3 DEF Refs
<1> QED
  BY Invariant, <1>1, PTL

\* Between collections the atom table and the FLAG_INTERNED bits agree,
\* though each kind of collection updates them in a different order.
THEOREM AtomTableAgrees == Spec => []AtomTableExact
<1>1. IInv => AtomTableExact
  BY DEF IInv, AtomInv, AtomTableExact, Running
<1> QED
  BY Invariant, <1>1, PTL
-----------------------------------------------------------------------------
(***************************************************************************)
(* The other half of the collector's correctness: a collection of either   *)
(* kind keeps no more than it must, and the ephemerons of weak records are *)
(* neither lost nor kept too long.                                         *)
(***************************************************************************)

\* What is live depends on the program's state alone.
SameHeap == UNCHANGED <<roots, tag, link, slots, entries, young>>

LEMMA ClosedSame ==
    ASSUME SameHeap, NEW T
    PROVE  Closed(T)' <=> Closed(T)
BY DEF SameHeap, Closed, StrongRefs, Refs, Fields, Keys, Values

LEMMA ClosedYoungSame ==
    ASSUME SameHeap, NEW T
    PROVE  ClosedYoung(T)' <=> ClosedYoung(T)
BY DEF SameHeap, ClosedYoung, Old, Allocated, Refs, Fields, Keys, Values

LEMMA MarkerSameHeap ==
    ASSUME UnchangedByMarker
    PROVE  SameHeap /\ minorCollection' = minorCollection
BY DEF UnchangedByMarker, program, SameHeap
-----------------------------------------------------------------------------
\* Full collections mark what is in every closed set.
LEMMA MajorMark ==
    ASSUME EInv, SameHeap, minorCollection' = minorCollection,
           phase \in {"roots", "ephemerons"},
           ASSUME ~minorCollection, NEW T \in SUBSET Cell, Closed(T), MarkedWithin(T)
           PROVE  MarkedWithin(T)'
    PROVE  MajorExact'
<1> SUFFICES ASSUME ~minorCollection, NEW T \in SUBSET Cell, Closed(T)'
             PROVE  MarkedWithin(T)'
  BY DEF MajorExact, Minor
<1>1. Closed(T)
  BY ClosedSame
<1>2. MarkedWithin(T)
  BY <1>1 DEF EInv, MajorExact, Minor
<1> QED
  BY <1>1, <1>2

LEMMA TraceMajorExact ==
    ASSUME EInv, NEW c \in markStack, Trace(c)
    PROVE  MajorExact'
<1>1. c \in marked /\ c \in Cell /\ phase \in {"roots", "remembered", "ephemerons"}
  BY DEF EInv, IInv, HeapInv, TypeOK, ControlInv, Drained
<1>2. SameHeap /\ minorCollection' = minorCollection /\ phase' = phase
  BY MarkerSameHeap DEF Trace
<1>3. CASE phase = "remembered"
  BY <1>2, <1>3 DEF EInv, IInv, ControlInv, Minor, MajorExact
<1>4. CASE phase # "remembered"
  <2>1. ASSUME ~minorCollection, NEW T \in SUBSET Cell, Closed(T), MarkedWithin(T)
        PROVE  MarkedWithin(T)'
    <3>1. Waiting(c) \subseteq T
      BY <1>1, <2>1 DEF MarkedWithin, Waiting
    <3>2. Traced(c) \subseteq T
      BY <1>1, <2>1 DEF MarkedWithin, Closed, Traced
    <3>3. marked' = marked \cup ((Waiting(c) \cup Traced(c)) \ marked) /\ pending' \subseteq pending
      BY DEF Trace
    <3> QED
      BY <2>1, <3>1, <3>2, <3>3 DEF MarkedWithin
  <2> QED
    BY <1>1, <1>2, <1>4, <2>1, MajorMark
<1> QED
  BY <1>3, <1>4

\* An entry of a weak record in a closed set.
LEMMA EntryClosed ==
    ASSUME NEW T \in SUBSET Cell, Closed(T), NEW r \in T, tag[r] = "weak", NEW k \in T,
           entries[r][k] # NoEntry
    PROVE  entries[r][k] \in T \cup {Null}
BY DEF Closed, Keys

LEMMA RegisterMajorExact ==
    ASSUME EInv, NEW e \in toRegister, Register(e[1], e[2])
    PROVE  MajorExact'
<1> DEFINE r == e[1]
           k == e[2]
           v == entries[r][k]
<1>1. /\ r \in weakRecords /\ v # NoEntry /\ k \in Cell
      /\ r \in marked /\ tag[r] = "weak" /\ ~minorCollection
      /\ phase \in {"roots", "ephemerons"}
  BY DEF EInv, IInv, HeapInv, TypeOK, ControlInv, Drained, Minor
<1>2. SameHeap /\ minorCollection' = minorCollection
  BY MarkerSameHeap DEF Register
<1>3. \/ marked' = marked /\ pending' = pending
      \/ marked' = marked \cup {v} /\ pending' = pending /\ k \in marked /\ v # Null
      \/ marked' = marked /\ pending' = pending \cup {<<k, v>>} /\ v # Null
  BY DEF Register, Push
<1> HIDE DEF r, k, v
<1>4. ASSUME NEW T \in SUBSET Cell, Closed(T), MarkedWithin(T)
      PROVE  MarkedWithin(T)'
  <2>1. k \in T /\ v # Null => v \in T
    BY <1>1, <1>4, EntryClosed DEF MarkedWithin, v
  <2> QED
    BY <1>3, <1>4, <2>1 DEF MarkedWithin
<1> QED
  BY <1>1, <1>2, <1>4, MajorMark

LEMMA MarkEphemeronsMajorExact ==
    ASSUME EInv, MarkEphemerons
    PROVE  MajorExact'
<1>1. SameHeap /\ minorCollection' = minorCollection /\ phase = "ephemerons"
      /\ marked' = marked \cup ScanFinds /\ pending' = pending
  BY MarkerSameHeap DEF MarkEphemerons, Push
<1>2. ASSUME NEW T \in SUBSET Cell, Closed(T), MarkedWithin(T)
      PROVE  MarkedWithin(T)'
  <2>1. ASSUME NEW x \in ScanFinds PROVE x \in T
    <3>1. PICK r \in weakRecords, k \in marked : entries[r][k] = x
      BY DEF ScanFinds
    <3>2. r \in T /\ k \in T /\ tag[r] = "weak" /\ x # NoEntry /\ x # Null
      BY <1>2, NullAssumption DEF EInv, IInv, HeapInv, MarkedWithin, ScanFinds
    <3> QED
      BY <1>2, <3>1, <3>2, EntryClosed
  <2> QED
    BY <1>1, <1>2, <2>1 DEF MarkedWithin
<1> QED
  BY <1>1, <1>2, MajorMark

\* Clearing dead entries makes no more sets closed than the marked part of
\* one that was closed already.
LEMMA ClearMajorExact ==
    ASSUME EInv, ClearDeadWeakEntries
    PROVE  MajorExact'
<1>1. /\ ~minorCollection /\ phase = "clear" /\ markStack = {}
      /\ marked' = marked /\ pending' = {}
      /\ UNCHANGED <<roots, tag, link, slots>>
      /\ marked \subseteq Cell /\ roots \subseteq marked
      /\ \A r \in weakRecords : r \in Cell /\ tag[r] = "weak"
  BY DEF ClearDeadWeakEntries, EInv, IInv, ControlInv, Minor, Drained, TypeOK, RootInv, HeapInv
<1>2. \A r \in Cell : r \notin weakRecords => entries'[r] = entries[r]
  BY DEF ClearDeadWeakEntries
<1>3. \A r \in weakRecords : \A k \in marked : entries'[r][k] = entries[r][k]
  BY <1>1 DEF ClearDeadWeakEntries
<1>4. \A c \in marked : StrongRefsIn(c, marked)
  BY <1>1 DEF EInv, IInv, MajorInv, Minor
<1>5. ASSUME NEW T \in SUBSET Cell, Closed(T)' PROVE marked \subseteq T
  <2>1. roots \subseteq T \cap marked
    BY <1>1, <1>5 DEF Closed
  <2>2. ASSUME NEW c \in T \cap marked PROVE StrongRefs(c) \subseteq T \cap marked
    <3>1. StrongRefs(c) \subseteq marked
      BY <1>4, NullAssumption DEF StrongRefsIn, StrongRefs, Refs, Fields, Keys, Values
    <3>2. StrongRefs(c)' = StrongRefs(c)
      <4>1. CASE c \in weakRecords
        BY <1>1, <4>1 DEF StrongRefs, Fields
      <4>2. CASE c \notin weakRecords
        BY <1>1, <1>2, <4>2 DEF StrongRefs, Refs, Fields, Keys, Values
      <4> QED
        BY <4>1, <4>2
    <3>3. StrongRefs(c)' \subseteq T
      BY <1>5 DEF Closed
    <3> QED
      BY <3>1, <3>2, <3>3
  <2>3. ASSUME NEW r \in T \cap marked, tag[r] = "weak",
               NEW k \in T \cap marked, entries[r][k] # NoEntry
        PROVE  entries[r][k] \in (T \cap marked) \cup {Null}
    <3>1. r \in weakRecords
      BY <1>1, <2>3 DEF EInv, IInv, MajorInv, Minor
    <3>2. entries[r][k] \in marked \cup {Null}
      BY <1>1, <2>3, <3>1 DEF EInv, IInv, ClearInv
    <3>3. entries'[r][k] = entries[r][k] /\ tag'[r] = "weak"
      BY <1>1, <1>3, <2>3, <3>1
    <3>4. entries'[r][k] \in T \cup {Null}
      BY <1>5, <2>3, <3>3 DEF Closed, Keys
    <3> QED
      BY <3>2, <3>3, <3>4
  <2>4. Closed(T \cap marked)
    BY <2>1, <2>2, <2>3 DEF Closed, Keys
  <2> QED
    BY <1>1, <2>4 DEF EInv, MajorExact, Minor, MarkedWithin
<1> QED
  BY <1>1, <1>5 DEF MajorExact, MarkedWithin

LEMMA MajorExactStep == ASSUME EInv, Next PROVE MajorExact'
<1>1. CASE Program
  BY <1>1, ProgramFrame DEF UnchangedByProgram, Running, MajorExact
<1>2. CASE BeginMajor
  <2>1. marked' = {} /\ pending' = {}
    BY <1>2 DEF BeginMajor, Running, EInv, IInv, ControlInv, Drained
  <2> QED
    BY <2>1 DEF MajorExact, MarkedWithin
<1>3. CASE BeginMinor \/ SweepYoung \/ DropDeadAtoms \/ RememberedTraced \/ FinishMinor \/ Sweep
  BY <1>3 DEF BeginMinor, SweepYoung, DropDeadAtoms, RememberedTraced, FinishMinor, Sweep,
              EndCycle, MajorExact, Minor
<1>4. CASE \E c \in toMark : MarkRoot(c)
  <2>1. PICK c \in toMark : MarkRoot(c)
    BY <1>4
  <2>2. /\ SameHeap /\ minorCollection' = minorCollection /\ phase = "roots"
        /\ marked' = marked \cup {c} /\ pending' = pending /\ c \in roots
    BY <2>1, MarkerSameHeap DEF MarkRoot, Push, EInv, IInv, HeapInv
  <2>3. ASSUME NEW T \in SUBSET Cell, Closed(T), MarkedWithin(T) PROVE MarkedWithin(T)'
    BY <2>2, <2>3 DEF MarkedWithin, Closed
  <2> QED
    BY <2>2, <2>3, MajorMark
<1>5. CASE RootsMarked \/ RebuildAtoms
  <2>1. /\ SameHeap /\ minorCollection' = minorCollection
        /\ marked' = marked /\ pending' = pending /\ phase \in {"roots", "atoms"}
    BY <1>5, MarkerSameHeap DEF RootsMarked, RebuildAtoms, SameHeap, marking
  <2> SUFFICES ASSUME ~minorCollection, NEW T \in SUBSET Cell, Closed(T)' PROVE MarkedWithin(T)'
    BY <2>1 DEF MajorExact, Minor
  <2>2. MarkedWithin(T)
    BY <2>1, ClosedSame DEF EInv, MajorExact, Minor
  <2> QED
    BY <2>1, <2>2 DEF MarkedWithin
<1>6. CASE \/ \E h \in toTrace.cells : TraceRememberedCell(h[1], h[2])
           \/ \E place \in toTrace.places : TraceRememberedPlace(place)
  BY <1>6 DEF TraceRememberedCell, TraceRememberedPlace, EInv, IInv, ControlInv, Minor, MajorExact
<1>7. CASE \E c \in markStack : Trace(c)
  BY <1>7, TraceMajorExact
<1>8. CASE \E e \in toRegister : Register(e[1], e[2])
  BY <1>8, RegisterMajorExact
<1>9. CASE MarkEphemerons \/ ClearDeadWeakEntries
  BY <1>9, MarkEphemeronsMajorExact, ClearMajorExact
<1> QED
  BY <1>1, <1>2, <1>3, <1>4, <1>5, <1>6, <1>7, <1>8, <1>9 DEF Next, Collect
-----------------------------------------------------------------------------
\* Minor collections promote what is in every set closed among the young.
LEMMA MinorMark ==
    ASSUME EInv, SameHeap, minorCollection' = minorCollection, phase \in {"roots", "remembered"},
           ASSUME minorCollection, NEW T \in SUBSET young, ClosedYoung(T), young \cap marked \subseteq T
           PROVE  young \cap marked' \subseteq T
    PROVE  MinorExact'
<1> SUFFICES ASSUME minorCollection, NEW T \in SUBSET young, ClosedYoung(T)'
             PROVE  young \cap marked' \subseteq T
  BY DEF MinorExact, Minor, SameHeap
<1>1. ClosedYoung(T)
  BY ClosedYoungSame
<1>2. young \cap marked \subseteq T
  BY <1>1 DEF EInv, MinorExact, Minor
<1> QED
  BY <1>1, <1>2

LEMMA TraceMinorExact ==
    ASSUME EInv, NEW c \in markStack, Trace(c)
    PROVE  MinorExact'
<1>1. c \in marked /\ c \in Cell /\ phase \in {"roots", "remembered", "ephemerons"}
  BY DEF EInv, IInv, HeapInv, TypeOK, ControlInv, Drained
<1>2. SameHeap /\ minorCollection' = minorCollection /\ phase' = phase
  BY MarkerSameHeap DEF Trace
<1>3. CASE phase = "ephemerons"
  BY <1>2, <1>3 DEF EInv, IInv, ControlInv, Minor, MinorExact
<1>4. CASE phase # "ephemerons"
  <2>1. ASSUME minorCollection, NEW T \in SUBSET young, ClosedYoung(T), young \cap marked \subseteq T
        PROVE  young \cap marked' \subseteq T
    <3>1. c \in T /\ pending = {}
      BY <1>1, <1>4, <2>1 DEF EInv, IInv, MinorInv, ControlInv, Minor
    <3>2. marked' = marked \cup (Refs(c) \ marked)
      BY <2>1, <3>1 DEF Trace, Waiting, Traced
    <3>3. Refs(c) \cap young \subseteq T
      BY <2>1, <3>1 DEF ClosedYoung
    <3> QED
      BY <2>1, <3>2, <3>3
  <2> QED
    BY <1>1, <1>2, <1>4, <2>1, MinorMark
<1> QED
  BY <1>3, <1>4

\* What is found at a listed part or place is a reference of an old cell.
LEMMA ListedRefs ==
    ASSUME EInv, phase = "remembered"
    PROVE  /\ \A x \in toTrace.cells : x[2] \in Old /\ PartRefs(x[1], x[2]) \subseteq Refs(x[2])
           /\ \A w \in toTrace.places : w.holder \in Old /\ PlaceRefs(w) \subseteq Refs(w.holder)
<1>1. toTrace \in Listed /\ ListsOld(toTrace)
  BY DEF EInv, IInv, TypeOK, ListedOld, ControlInv, Minor
<1>2. ASSUME NEW x \in toTrace.cells
      PROVE  x[2] \in Old /\ PartRefs(x[1], x[2]) \subseteq Refs(x[2])
  <2>1. x[1] \in Part /\ x[2] \in Old
    BY <1>1, <1>2 DEF Listed, ListsOld
  <2> QED
    BY <2>1 DEF PartRefs, Part, StrongRefs, Refs
<1>3. ASSUME NEW w \in toTrace.places
      PROVE  w.holder \in Old /\ PlaceRefs(w) \subseteq Refs(w.holder)
  <2>1. w \in Where /\ w.holder \in Old
    BY <1>1, <1>3 DEF Listed, ListsOld
  <2>2. CASE w.of = "slot"
    BY <2>1, <2>2 DEF Where, PlaceRefs, Refs, Fields
  <2>3. CASE w.of # "slot"
    <3>1. w.at \in Cell /\ w.of \in {"entry", "key", "value"}
      BY <2>1, <2>3 DEF Where
    <3>2. CASE entries[w.holder][w.at] = NoEntry
      BY <2>1, <2>3, <3>1, <3>2 DEF PlaceRefs
    <3>3. CASE entries[w.holder][w.at] # NoEntry
      <4>1. w.at \in Refs(w.holder) /\ {entries[w.holder][w.at]} \ {Null} \subseteq Refs(w.holder)
        BY <3>1, <3>3 DEF Refs, Keys, Values
      <4>2. PlaceRefs(w) \subseteq {w.at} \cup ({entries[w.holder][w.at]} \ {Null})
        BY <2>3, <3>1, <3>3 DEF PlaceRefs
      <4> QED
        BY <2>1, <4>1, <4>2
    <3> QED
      BY <3>2, <3>3
  <2> QED
    BY <2>1, <2>2, <2>3
<1> QED
  BY <1>2, <1>3

LEMMA RememberedMinorExact ==
    ASSUME EInv, NEW found, NEW h \in Old, found \subseteq Refs(h), RememberedStep(found)
    PROVE  MinorExact'
<1>1. /\ SameHeap /\ minorCollection' = minorCollection /\ phase = "remembered"
      /\ marked' = marked \cup found
  BY MarkerSameHeap DEF RememberedStep, Push
<1>2. ASSUME NEW T \in SUBSET young, ClosedYoung(T), young \cap marked \subseteq T
      PROVE  young \cap marked' \subseteq T
  BY <1>1, <1>2 DEF ClosedYoung
<1> QED
  BY <1>1, <1>2, MinorMark

LEMMA MinorExactStep == ASSUME EInv, Next PROVE MinorExact'
<1>1. CASE Program
  BY <1>1, ProgramFrame DEF UnchangedByProgram, Running, MinorExact
<1>2. CASE BeginMinor
  <2>1. young' = young /\ marked' = marked /\ young \cap marked = {}
    BY <1>2 DEF BeginMinor, EInv, IInv, RunInv, Old
  <2> QED
    BY <2>1 DEF MinorExact
<1>3. CASE BeginMajor \/ SweepYoung \/ DropDeadAtoms \/ FinishMinor \/ Sweep
           \/ RebuildAtoms \/ ClearDeadWeakEntries \/ MarkEphemerons
  BY <1>3 DEF BeginMajor, SweepYoung, DropDeadAtoms, FinishMinor, Sweep, EndCycle,
              RebuildAtoms, ClearDeadWeakEntries, MarkEphemerons, MinorExact, Minor
<1>4. CASE \E c \in toMark : MarkRoot(c)
  <2>1. PICK c \in toMark : MarkRoot(c)
    BY <1>4
  <2>2. /\ SameHeap /\ minorCollection' = minorCollection /\ phase = "roots"
        /\ marked' = marked \cup {c} /\ c \in roots
    BY <2>1, MarkerSameHeap DEF MarkRoot, Push, EInv, IInv, HeapInv
  <2>3. ASSUME NEW T \in SUBSET young, ClosedYoung(T), young \cap marked \subseteq T
        PROVE  young \cap marked' \subseteq T
    BY <2>2, <2>3 DEF ClosedYoung
  <2> QED
    BY <2>2, <2>3, MinorMark
<1>5. CASE RootsMarked \/ RememberedTraced
  <2>1. /\ SameHeap /\ minorCollection' = minorCollection /\ marked' = marked
        /\ phase \in {"roots", "remembered"}
    BY <1>5, MarkerSameHeap DEF RootsMarked, RememberedTraced, marking
  <2> QED
    BY <2>1, MinorMark
<1>6. CASE \E x \in toTrace.cells : TraceRememberedCell(x[1], x[2])
  <2>1. PICK x \in toTrace.cells : TraceRememberedCell(x[1], x[2])
    BY <1>6
  <2>2. phase = "remembered" /\ RememberedStep(PartRefs(x[1], x[2]))
    BY <2>1 DEF TraceRememberedCell, RememberedStep
  <2> QED
    BY <2>2, ListedRefs, RememberedMinorExact
<1>7. CASE \E place \in toTrace.places : TraceRememberedPlace(place)
  <2>1. PICK w \in toTrace.places : TraceRememberedPlace(w)
    BY <1>7
  <2>2. phase = "remembered" /\ RememberedStep(PlaceRefs(w))
    BY <2>1 DEF TraceRememberedPlace, RememberedStep
  <2> QED
    BY <2>2, ListedRefs, RememberedMinorExact
<1>8. CASE \E c \in markStack : Trace(c)
  BY <1>8, TraceMinorExact
<1>9. CASE \E e \in toRegister : Register(e[1], e[2])
  BY <1>9 DEF Register, UnchangedByMarker, EInv, IInv, ControlInv, Drained, Minor, MinorExact
<1> QED
  BY <1>1, <1>2, <1>3, <1>4, <1>5, <1>6, <1>7, <1>8, <1>9 DEF Next, Collect
-----------------------------------------------------------------------------
\* The barrier lists marked holders, which between collections are the old.
LEMMA BarrierListsOld ==
    ASSUME IInv, Running, NEW l \in Listed, ListsOld(l),
           NEW p \in Part, NEW h \in Cell, NEW target, NEW place \in Where, place.holder = h
    PROVE  /\ ListsOld(Remember(l, p, h, target)) /\ Remember(l, p, h, target) \in Listed
           /\ \A m \in RememberStore(l, p, h, place, target) : m \in Listed /\ ListsOld(m)
<1>1. marked = Old
  BY DEF IInv, RunInv
<1>2. CASE MustList(l, p, h, target)
  <2>1. h \in Old
    BY <1>1, <1>2 DEF MustList
  <2> QED
    BY <1>2, <2>1 DEF Remember, RememberStore, ListsOld, Listed
<1>3. CASE ~MustList(l, p, h, target)
  BY <1>3 DEF Remember, RememberStore
<1> QED
  BY <1>2, <1>3

LEMMA ProgramListsOld ==
    ASSUME EInv, Program
    PROVE  ListsOld(remembered')
<1>1. /\ Running /\ remembered \in Listed /\ ListsOld(remembered) /\ roots \subseteq Cell
      /\ Part = {"cell", "keys", "values"}
  BY ProgramFrame DEF EInv, IInv, TypeOK, ListedOld, Part
<1>2. \A h \in Cell :
          /\ \A s \in Slot : SlotOf(h, s).holder = h
          /\ \A k \in Cell : EntryOf(h, k).holder = h /\ KeyOf(h, k).holder = h /\ ValueOf(h, k).holder = h
  BY DEF SlotOf, EntryOf, KeyOf, ValueOf
<1>3. ASSUME NEW h \in roots, NEW s \in Slot, NEW v, SetSlot(h, s, v)
      PROVE  ListsOld(remembered')
  BY <1>1, <1>2, <1>3, BarrierListsOld, PlacesAreWhere DEF SetSlot, EInv
<1>4. ASSUME NEW h \in roots, NEW v, SetLink(h, v)
      PROVE  ListsOld(remembered')
  BY <1>1, <1>2, <1>4, BarrierListsOld, PlacesAreWhere DEF SetLink, EInv
<1>5. ASSUME NEW h \in roots, NEW k \in roots, NEW v, TableAdd(h, k, v)
      PROVE  ListsOld(remembered')
  <2>1. h \in Cell /\ k \in Cell /\ EntryOf(h, k) \in Where /\ EntryOf(h, k).holder = h
    BY <1>1, <1>2, PlacesAreWhere
  <2>2. PICK l \in RememberStore(remembered, "cell", h, EntryOf(h, k), k) :
               remembered' \in RememberStore(l, "cell", h, EntryOf(h, k), v)
    BY <1>5 DEF TableAdd
  <2>3. l \in Listed /\ ListsOld(l)
    BY <1>1, <2>1, <2>2, BarrierListsOld DEF EInv
  <2> QED
    BY <1>1, <2>1, <2>2, <2>3, BarrierListsOld DEF EInv
<1>6. ASSUME NEW h \in roots, NEW k \in roots, NEW v, SetTableValue(h, k, v)
      PROVE  ListsOld(remembered')
  BY <1>1, <1>2, <1>6, BarrierListsOld, PlacesAreWhere DEF SetTableValue, EInv
<1>7. ASSUME NEW h \in roots, NEW k \in roots, NEW v, WeakPut(h, k, v)
      PROVE  ListsOld(remembered')
  <2>1. /\ h \in Cell /\ k \in Cell
        /\ KeyOf(h, k) \in Where /\ KeyOf(h, k).holder = h
        /\ ValueOf(h, k) \in Where /\ ValueOf(h, k).holder = h
    BY <1>1, <1>2, PlacesAreWhere
  <2>2. CASE entries[h][k] # NoEntry
    BY <1>1, <1>7, <2>1, <2>2, BarrierListsOld DEF WeakPut, EInv
  <2>3. CASE entries[h][k] = NoEntry
    <3>1. PICK l \in RememberStore(remembered, "keys", h, KeyOf(h, k), k) :
                 remembered' \in RememberStore(l, "values", h, ValueOf(h, k), v)
      BY <1>7, <2>3 DEF WeakPut
    <3>2. l \in Listed /\ ListsOld(l)
      BY <1>1, <2>1, <3>1, BarrierListsOld DEF EInv
    <3> QED
      BY <1>1, <2>1, <3>1, <3>2, BarrierListsOld DEF EInv
  <2> QED
    BY <2>2, <2>3
<1>8. ASSUME remembered' = remembered PROVE ListsOld(remembered')
  BY <1>1, <1>8
<1> QED
  BY <1>3, <1>4, <1>5, <1>6, <1>7, <1>8
  DEF Program, Allocate, Load, WeakGet, Drop, Intern, InternFound, RemoveEntry, TableClear

LEMMA ListedOldStep == ASSUME EInv, Next PROVE ListedOld'
<1>1. CASE Program
  <2>1. phase = "run" /\ phase' = "run" /\ marked' = marked /\ ListsOld(remembered')
    BY <1>1, ProgramFrame, ProgramListsOld DEF Running, UnchangedByProgram, marking
  <2>2. Old' = Old
    BY <1>1, <2>1, ProgramInv DEF EInv, IInv, RunInv, Running
  <2> QED
    BY <2>1, <2>2 DEF ListedOld, ListsOld, Running
<1>2. CASE BeginMajor
  BY <1>2 DEF BeginMajor, ListedOld, Running, Minor
<1>3. CASE BeginMinor
  BY <1>3 DEF BeginMinor, program, EInv, ListedOld, ListsOld, Running, Old, Allocated
<1>4. CASE \/ \E c \in toMark : MarkRoot(c)
           \/ RootsMarked
           \/ \E c \in markStack : Trace(c)
           \/ \E e \in toRegister : Register(e[1], e[2])
           \/ \E h \in toTrace.cells : TraceRememberedCell(h[1], h[2])
           \/ \E place \in toTrace.places : TraceRememberedPlace(place)
           \/ MarkEphemerons
  <2>1. UnchangedByMarker
    BY <1>4 DEF MarkRoot, RootsMarked, Trace, Register, TraceRememberedCell,
                TraceRememberedPlace, MarkEphemerons
  <2>2. Old' = Old /\ minorCollection' = minorCollection
    BY <2>1 DEF UnchangedByMarker, program, Old, Allocated
  <2>3. /\ phase' # "run"
        /\ phase' \in {"roots", "remembered"} => phase \in {"roots", "remembered"}
    BY <1>4 DEF MarkRoot, RootsMarked, Trace, Register, TraceRememberedCell,
                TraceRememberedPlace, MarkEphemerons, EInv, IInv, ControlInv, Drained
  <2>4. toTrace'.cells \subseteq toTrace.cells /\ toTrace'.places \subseteq toTrace.places
    <3>1. toTrace \in Listed
      BY DEF EInv, IInv, TypeOK
    <3>2. \/ toTrace' = toTrace
          \/ \E x : toTrace' = [toTrace EXCEPT !.cells = @ \ {x}]
          \/ \E x : toTrace' = [toTrace EXCEPT !.places = @ \ {x}]
      BY <1>4 DEF MarkRoot, RootsMarked, Trace, Register, TraceRememberedCell, marking,
                  TraceRememberedPlace, MarkEphemerons
    <3> QED
      BY <3>1, <3>2 DEF Listed
  <2> QED
    BY <2>2, <2>3, <2>4 DEF EInv, ListedOld, ListsOld, Running, Minor
<1>5. CASE RememberedTraced \/ ClearDeadWeakEntries \/ RebuildAtoms \/ SweepYoung \/ DropDeadAtoms
  BY <1>5 DEF RememberedTraced, ClearDeadWeakEntries, RebuildAtoms, SweepYoung, DropDeadAtoms,
              ListedOld, Running
<1>6. CASE Sweep \/ FinishMinor
  BY <1>6 DEF Sweep, FinishMinor, EndCycle, ListedOld, ListsOld, NothingListed, Running
<1> QED
  BY <1>1, <1>2, <1>3, <1>4, <1>5, <1>6 DEF Next, Collect
-----------------------------------------------------------------------------
\* Every entry of a reached weak record stays accounted for.
LEMMA QueuedStep == ASSUME EInv, Next PROVE Queued'
<1>1. CASE Program \/ BeginMinor
  BY <1>1, ProgramFrame DEF UnchangedByProgram, BeginMinor, Running, Queued, Minor
<1>2. CASE BeginMajor
  BY <1>2 DEF BeginMajor, Running, EInv, IInv, ControlInv, Minor, Queued
<1>3. CASE \/ RememberedTraced \/ ClearDeadWeakEntries \/ RebuildAtoms \/ Sweep \/ SweepYoung
           \/ DropDeadAtoms \/ FinishMinor
           \/ \E h \in toTrace.cells : TraceRememberedCell(h[1], h[2])
           \/ \E place \in toTrace.places : TraceRememberedPlace(place)
  BY <1>3 DEF RememberedTraced, ClearDeadWeakEntries, RebuildAtoms, Sweep, SweepYoung,
              DropDeadAtoms, FinishMinor, EndCycle, TraceRememberedCell, TraceRememberedPlace, Queued
<1>4. CASE (\E c \in toMark : MarkRoot(c)) \/ RootsMarked \/ MarkEphemerons
  <2>1. /\ UNCHANGED <<entries, pending, toRegister, weakRecords, minorCollection>>
        /\ marked \subseteq marked' /\ marked' \ marked \subseteq markStack' /\ markStack \subseteq markStack'
        /\ phase \in {"roots", "ephemerons"}
    BY <1>4 DEF MarkRoot, RootsMarked, MarkEphemerons, Push, UnchangedByMarker, program, marking
  <2> QED
    BY <2>1 DEF EInv, Queued, Minor, Keys
<1>5. CASE \E c \in markStack : Trace(c)
  <2>1. PICK c \in markStack : Trace(c)
    BY <1>5
  <2>2. /\ marked' = marked \cup ((Waiting(c) \cup Traced(c)) \ marked)
        /\ markStack' = (markStack \ {c}) \cup ((Waiting(c) \cup Traced(c)) \ marked)
        /\ pending' = {e \in pending : e[1] # c} /\ toRegister = {}
        /\ UNCHANGED <<phase, entries, minorCollection>>
    BY <2>1 DEF Trace, UnchangedByMarker, program
  <2> SUFFICES ASSUME ~minorCollection, phase \in {"roots", "ephemerons"},
                      NEW r \in weakRecords', NEW k \in Keys(r)
               PROVE  \/ entries[r][k] \in marked' \cup {Null}
                      \/ <<r, k>> \in toRegister'
                      \/ <<k, entries[r][k]>> \in pending' /\ k \notin marked' \ markStack'
    BY <2>2 DEF Queued, Minor, Keys
  <2>3. CASE r \notin weakRecords
    BY <2>1, <2>3 DEF Trace
  <2>4. CASE r \in weakRecords /\ entries[r][k] \notin marked \cup {Null}
    <3>1. <<k, entries[r][k]>> \in pending /\ k \notin marked \ markStack
      BY <2>2, <2>4 DEF EInv, Queued, Minor
    <3>2. CASE k = c
      BY <2>2, <3>1, <3>2 DEF Waiting, EInv, IInv, TypeOK
    <3>3. CASE k # c
      BY <2>2, <3>1, <3>3
    <3> QED
      BY <3>2, <3>3
  <2>5. CASE entries[r][k] \in marked \cup {Null}
    BY <2>2, <2>5
  <2> QED
    BY <2>3, <2>4, <2>5
<1>6. CASE \E e \in toRegister : Register(e[1], e[2])
  <2>1. PICK e \in toRegister : Register(e[1], e[2])
    BY <1>6
  <2> DEFINE v == entries[e[1]][e[2]]
  <2>2. /\ \/ v \in marked \cup {Null} /\ UNCHANGED <<marked, markStack, pending>>
           \/ marked' = marked \cup {v} /\ markStack' = markStack \cup ({v} \ marked) /\ pending' = pending
           \/ /\ e[2] \notin marked /\ UNCHANGED <<marked, markStack>>
              /\ pending' = pending \cup {<<e[2], v>>}
        /\ toRegister' = toRegister \ {<<e[1], e[2]>>}
        /\ UNCHANGED <<phase, entries, minorCollection, weakRecords>>
    BY <2>1 DEF Register, Push, UnchangedByMarker, program
  <2> HIDE DEF v
  <2> SUFFICES ASSUME ~minorCollection, phase \in {"roots", "ephemerons"},
                      NEW r \in weakRecords, NEW k \in Keys(r)
               PROVE  \/ entries[r][k] \in marked' \cup {Null}
                      \/ <<r, k>> \in toRegister'
                      \/ <<k, entries[r][k]>> \in pending' /\ k \notin marked' \ markStack'
    BY <2>2 DEF Queued, Minor, Keys
  <2>3. CASE r = e[1] /\ k = e[2]
    BY <2>2, <2>3 DEF v
  <2>4. CASE <<r, k>> # <<e[1], e[2]>>
    BY <2>2, <2>4 DEF EInv, Queued, Minor
  <2> QED
    BY <2>3, <2>4
<1> QED
  BY <1>1, <1>2, <1>3, <1>4, <1>5, <1>6 DEF Next, Collect
-----------------------------------------------------------------------------
\* The invariant of both collections: they are safe, and they are exact.
THEOREM ExactInvariant == Spec => []EInv
<1>1. Init => EInv
  BY InitInv DEF Init, EInv, MajorExact, Queued, MinorExact, ListedOld, ListsOld, NothingListed, Minor
<1>2. EInv /\ Next => EInv'
  BY ProgramInv, BeginMajorInv, BeginMinorInv, CollectInv, MajorExactStep, QueuedStep,
     MinorExactStep, ListedOldStep DEF Next, EInv
<1>3. EInv /\ UNCHANGED vars => EInv'
  <2> SUFFICES ASSUME EInv, UNCHANGED vars PROVE EInv'
    OBVIOUS
  <2>1. SameHeap /\ UNCHANGED <<phase, minorCollection, marked, markStack, pending, weakRecords,
                                toRegister, toTrace, remembered>>
    BY DEF vars, program, marking, SameHeap
  <2>2. MajorExact'
    BY <2>1, ClosedSame DEF EInv, MajorExact, MarkedWithin, Minor
  <2>3. MinorExact'
    BY <2>1, ClosedYoungSame DEF EInv, MinorExact, Minor, SameHeap
  <2>4. Queued' /\ ListedOld'
    BY <2>1 DEF EInv, Queued, Keys, ListedOld, ListsOld, Old, Allocated, Running, Minor, SameHeap
  <2> QED
    BY <2>2, <2>3, <2>4, StutterInv DEF EInv
<1> QED
  BY <1>1, <1>2, <1>3, PTL DEF Spec

\* Marked cells that refer to nothing unmarked have what is reachable.
LEMMA ReachableMarked ==
    ASSUME IInv, phase \in {"clear", "atoms", "sweep", "sweepYoung", "dropAtoms", "finish"}
    PROVE  Reachable \subseteq marked
<1>1. marked \in SUBSET Cell /\ roots \subseteq marked
  BY DEF IInv, TypeOK, RootInv
<1>2. ASSUME NEW c \in marked PROVE StrongRefs(c) \subseteq marked
  <2>1. CASE phase = "clear"
    <3>1. StrongRefsIn(c, marked)
      BY <2>1 DEF IInv, ControlInv, Drained, MajorInv, Minor
    <3> QED
      BY <3>1, NullAssumption DEF StrongRefsIn, StrongRefs, Refs, Fields, Keys, Values
  <2>2. CASE phase # "clear"
    <3>1. RefsIn(c, marked)
      BY <2>2 DEF IInv, SweepInv
    <3> QED
      BY <1>1, <3>1, RefsInIsRefs DEF IInv, StrongRefs, Refs
  <2> QED
    BY <2>1, <2>2
<1>3. ASSUME NEW r \in marked, tag[r] = "weak", NEW k \in Keys(r) \cap marked
      PROVE  entries[r][k] \in marked \cup {Null}
  <2>1. CASE phase = "clear"
    BY <1>3, <2>1 DEF IInv, ControlInv, Drained, MajorInv, ClearInv, Minor, Keys
  <2>2. CASE phase # "clear"
    BY <1>3, <2>2 DEF IInv, SweepInv, RefsIn, Keys
  <2> QED
    BY <2>1, <2>2
<1>4. Closed(marked)
  BY <1>1, <1>2, <1>3 DEF Closed
<1> QED
  BY <1>1, <1>4 DEF Reachable

\* A full collection keeps what is reachable and nothing else: ephemerons
\* are neither lost nor kept alive by themselves, in cycles or chains of
\* any length and in any order of marking.
THEOREM FullCollectionIsExact == Spec => []FullCollectionExact
<1>1. EInv => FullCollectionExact
  <2> SUFFICES ASSUME EInv, phase = "sweep" PROVE marked = Reachable
    BY DEF FullCollectionExact
  <2>1. \A T \in SUBSET Cell : Closed(T) => marked \subseteq T
    BY DEF EInv, IInv, ControlInv, Minor, MajorExact, MarkedWithin
  <2>2. marked \subseteq Reachable
    BY <2>1 DEF Reachable, EInv, IInv, TypeOK
  <2> QED
    BY <2>2, ReachableMarked DEF EInv
<1> QED
  BY ExactInvariant, <1>1, PTL

\* A minor collection promotes what it must and nothing else.
THEOREM MinorCollectionIsExact == Spec => []MinorCollectionExact
<1>1. EInv => MinorCollectionExact
  <2> SUFFICES ASSUME EInv, phase = "sweepYoung" PROVE young \cap marked = Promoted
    BY DEF MinorCollectionExact
  <2>1. young \cap marked \subseteq Promoted
    BY DEF EInv, IInv, ControlInv, Minor, MinorExact, Promoted
  <2>2. /\ roots \subseteq marked /\ Old \subseteq marked /\ marked \subseteq Cell
        /\ \A c \in marked : RefsIn(c, marked)
    BY DEF EInv, IInv, RootInv, SweepInv, TypeOK
  <2>3. ASSUME NEW h \in Old \cup (young \cap marked) PROVE Refs(h) \subseteq marked
    BY <2>2, RefsInIsRefs DEF EInv, IInv
  <2>4. ClosedYoung(young \cap marked)
    BY <2>2, <2>3 DEF ClosedYoung
  <2> QED
    BY <2>1, <2>4 DEF Promoted
<1> QED
  BY ExactInvariant, <1>1, PTL

\* The pending table loses no ephemeron: whenever the marker has drained,
\* the verification scan of markEphemerons finds nothing.
THEOREM PendingTableComplete == Spec => []PendingComplete
<1>1. EInv => PendingComplete
  <2> SUFFICES ASSUME EInv, phase = "ephemerons", Drained,
                      NEW v \in Cell \ marked, NEW r \in weakRecords, NEW k \in marked,
                      entries[r][k] = v
               PROVE  FALSE
    BY DEF PendingComplete, ScanFinds
  <2>1. k \in Keys(r) /\ v # Null
    BY NullAssumption DEF Keys, EInv, IInv, TypeOK
  <2> QED
    BY <2>1 DEF EInv, IInv, ControlInv, Minor, Drained, Queued
<1> QED
  BY ExactInvariant, <1>1, PTL

\* No step of a collection removes or changes an entry whose record and
\* key the program can reach.
THEOREM LiveEntriesAreKept == Spec => LiveEntriesKept
<1>1. EInv /\ [Next]_vars =>
          [~Running => \A r \in Reachable : \A k \in Keys(r) \cap Reachable :
              entries'[r][k] = entries[r][k]]_vars
  <2> SUFFICES ASSUME EInv, Next, ~Running, NEW r \in Reachable, NEW k \in Keys(r) \cap Reachable
               PROVE  entries'[r][k] = entries[r][k]
    OBVIOUS
  <2>1. r \in Cell /\ k \in Cell
    BY DEF Reachable
  <2>2. Collect
    BY ProgramFrame DEF Next, BeginMajor, BeginMinor
  <2>3. CASE ClearDeadWeakEntries
    BY <2>1, <2>3, ReachableMarked DEF ClearDeadWeakEntries, EInv
  <2>4. CASE Sweep \/ SweepYoung \/ FinishMinor
    <3>1. Reachable \subseteq marked
      BY <2>4, ReachableMarked DEF Sweep, SweepYoung, FinishMinor, EInv
    <3>2. \E dead : Release(dead) /\ dead \cap marked = {}
      <4>1. CASE Sweep
        BY <4>1 DEF Sweep
      <4>2. CASE SweepYoung
        BY <4>2 DEF SweepYoung
      <4>3. CASE FinishMinor
        BY <4>3 DEF FinishMinor, EInv, IInv, SweepInv
      <4> QED
        BY <2>4, <4>1, <4>2, <4>3
    <3> QED
      BY <2>1, <3>1, <3>2 DEF Release
  <2>5. CASE ~(ClearDeadWeakEntries \/ Sweep \/ SweepYoung \/ FinishMinor)
    BY <2>2, <2>5 DEF Collect, MarkRoot, RootsMarked, Trace, Register, TraceRememberedCell,
       TraceRememberedPlace, RememberedTraced, MarkEphemerons, RebuildAtoms, DropDeadAtoms,
       UnchangedByMarker, program
  <2> QED
    BY <2>3, <2>4, <2>5
<1> QED
  BY ExactInvariant, <1>1, PTL DEF Spec, LiveEntriesKept

\* After a full collection, what is left in a weak record is only entries
\* whose keys something else keeps alive.
THEOREM DeadEntriesAreDropped == Spec => DeadEntriesDropped
<1>1. EInv => [Sweep => \A r \in Reachable : tag[r] = "weak" => Keys(r) \subseteq Reachable]_vars
  <2> SUFFICES ASSUME EInv, phase = "sweep", NEW r \in Reachable
               PROVE  Keys(r) \subseteq Reachable
    BY DEF Sweep
  <2>1. marked \subseteq Reachable
    BY DEF EInv, IInv, TypeOK, ControlInv, Minor, MajorExact, MarkedWithin, Reachable
  <2>2. r \in marked
    BY ReachableMarked DEF EInv
  <2>3. RefsIn(r, marked)
    BY <2>2 DEF EInv, IInv, SweepInv
  <2> QED
    BY <2>1, <2>3 DEF RefsIn, Keys
<1> QED
  BY ExactInvariant, <1>1, PTL DEF Spec, DeadEntriesDropped
=============================================================================
