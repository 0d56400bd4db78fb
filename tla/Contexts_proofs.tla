-------------------------- MODULE Contexts_proofs --------------------------
(***************************************************************************)
(* Contexts, proved for any number of threads, contexts, slots and         *)
(* generations: its invariant, and that it implements ContextTable.        *)
(***************************************************************************)
EXTENDS Contexts, FiniteSetTheorems, SequenceTheorems, TLAPS

USE NoneAssumption, BoundsAssumption

\* Steps that leave the registry and the references as they are.
Quiet == UNCHANGED <<registryLock, registry, built, destroyed, ref>>

LEMMA InitInv == Init => Inv
<1> SUFFICES ASSUME Init PROVE Inv
  OBVIOUS
<1> USE DEF Init
<1>1. AnyHandle \in Handle
  <2>1. [index |-> 1, generation |-> 0] \in Handle
    BY DEF Handle
  <2> QED
    BY <2>1 DEF AnyHandle
<1>2. TypeOK
  <2>1. /\ slots \in Seq(Context \cup {NoContext}) /\ Len(slots) <= MaxSlots
        /\ generations \in Seq(0..GenerationRetired) /\ Len(generations) = Len(slots)
        /\ freeSlots \in Seq(1..MaxSlots)
    OBVIOUS
  <2>2. calls \in [Thread -> 0..MaxCalls]
    OBVIOUS
  <2>3. target \in [Thread -> Handle] /\ pc \in [Thread -> Places]
    BY <1>1 DEF Places
  <2> QED
    BY <2>1, <2>2, <2>3 DEF TypeOK
<1>3. ControlInv
  BY DEF ControlInv
<1>4. HandleInv
  BY DEF HandleInv, Published
<1>5. ReferenceInv
  BY DEF ReferenceInv, Referenced
<1>6. RegistryExact
  <2>1. {at \in DOMAIN slots : slots[at] # NoContext} = {}
    OBVIOUS
  <2> QED
    BY <2>1, FS_EmptySet DEF RegistryExact
<1> QED
  BY <1>2, <1>3, <1>4, <1>5, <1>6 DEF Inv

\* What a step that touches neither registry nor references keeps.
LEMMA QuietInv ==
    ASSUME Inv, Quiet, ready' \/ issued' # {} => published', Published' = Published
    PROVE  HandleInv' /\ ReferenceInv' /\ RegistryExact'
<1> USE DEF Inv, Quiet, registry
<1>1. HandleInv'
  BY DEF HandleInv
<1>2. ReferenceInv'
  BY DEF ReferenceInv, Referenced
<1>3. RegistryExact'
  BY DEF RegistryExact
<1> QED
  BY <1>1, <1>2, <1>3

LEMMA CallNewInv ==
    ASSUME Inv, NEW t \in Thread, CallNew(t)
    PROVE  Inv'
<1> USE DEF CallNew, Goto
<1>1. TypeOK'
  BY DEF Inv, TypeOK, Places, registry
<1>2. ControlInv'
  BY DEF Inv, TypeOK, ControlInv, Names, registry
<1>3. Published' = Published
  BY DEF Inv, TypeOK, Published
<1> QED
  BY <1>1, <1>2, <1>3, QuietInv DEF Quiet, Inv, TypeOK, ReferenceInv

LEMMA CallWithInv ==
    ASSUME Inv, NEW t \in Thread, NEW place \in {"lookup", "free"}, NEW h \in issued,
           CallWith(t, place, h)
    PROVE  Inv'
<1> USE DEF CallWith, Goto
<1>1. TypeOK'
  BY DEF Inv, TypeOK, Places, registry
<1>2. ControlInv'
  <2>1. published
    BY DEF Inv, ReferenceInv
  <2> QED
    BY <2>1 DEF Inv, TypeOK, ControlInv, Names, registry
<1>3. Published' = Published
  BY DEF Inv, TypeOK, Published
<1> QED
  BY <1>1, <1>2, <1>3, QuietInv DEF Quiet, Inv, TypeOK, ReferenceInv

LEMMA EnsureRuntimeInv ==
    ASSUME Inv, NEW t \in Thread, EnsureRuntime(t)
    PROVE  Inv'
<1> USE DEF EnsureRuntime, Goto
<1>1. TypeOK'
  BY DEF Inv, TypeOK, Places, registry
<1>2. ControlInv'
  BY DEF Inv, TypeOK, ControlInv, ReferenceInv, Names, registry
<1>3. Published' = Published
  BY DEF Inv, TypeOK, Published
<1> QED
  BY <1>1, <1>2, <1>3, QuietInv DEF Quiet, Inv, ReferenceInv

LEMMA LockContextInv ==
    ASSUME Inv, NEW t \in Thread, LockContext(t)
    PROVE  Inv'
<1> USE DEF LockContext, Goto
<1>1. TypeOK'
  BY DEF Inv, TypeOK, Places, registry
<1>2. ControlInv'
  BY DEF Inv, TypeOK, ControlInv, Names, registry
<1>3. Published' = Published
  BY DEF Inv, TypeOK, Published
<1> QED
  BY <1>1, <1>2, <1>3, QuietInv DEF Quiet, Inv, ReferenceInv

LEMMA UnlockContextInv ==
    ASSUME Inv, NEW t \in Thread, UnlockContext(t)
    PROVE  Inv'
<1> USE DEF UnlockContext, Goto
<1>1. TypeOK'
  BY DEF Inv, TypeOK, Places, registry
<1>2. ControlInv'
  BY DEF Inv, TypeOK, ControlInv, Names, registry
<1>3. Published' = Published
  BY DEF Inv, TypeOK, Published
<1> QED
  BY <1>1, <1>2, <1>3, QuietInv DEF Quiet, Inv, ReferenceInv
-----------------------------------------------------------------------------
\* Steps that change references and leave the registry as it is.
RegistryKept == UNCHANGED <<slots, generations, freeSlots, live, created, detached>>

LEMMA RegistryKeptInv ==
    ASSUME Inv, RegistryKept, Published' = Published
    PROVE  HandleInv' /\ RegistryExact'
<1>1. HandleInv'
  BY DEF RegistryKept, Inv, HandleInv
<1>2. RegistryExact'
  BY DEF RegistryKept, Inv, RegistryExact
<1> QED
  BY <1>1, <1>2

\* The references after one thread takes or drops its own.
LEMMA ReferencesSplit ==
    ASSUME TypeOK, NEW t \in Thread, NEW x, Take(t, x), UNCHANGED slots
    PROVE  Referenced' = {slots[i] : i \in DOMAIN slots} \cup {x}
                             \cup {ref[u] : u \in Thread \ {t}}
BY DEF Take, TypeOK, Referenced

LEMMA ReferencesNow ==
    ASSUME NEW t \in Thread
    PROVE  Referenced = {slots[i] : i \in DOMAIN slots} \cup {ref[t]}
                             \cup {ref[u] : u \in Thread \ {t}}
BY DEF Referenced

LEMMA BuildContextInv ==
    ASSUME Inv, NEW t \in Thread, BuildContext(t)
    PROVE  Inv'
<1> USE DEF BuildContext, Goto
<1>0. PICK x \in Context \ built : built' = built \cup {x} /\ Take(t, x)
  OBVIOUS
<1>1. TypeOK'
  BY <1>0 DEF Inv, TypeOK, Take, Places, registry
<1>2. ControlInv'
  BY <1>0 DEF Inv, TypeOK, ControlInv, Take, Names, registry
<1>3. Published' = Published
  BY DEF Inv, TypeOK, Published
<1>4. ReferenceInv'
  <2>1. Referenced' \cup {NoContext} = Referenced \cup {x, NoContext}
    <3>1. ref[t] = NoContext
      BY DEF Inv, ControlInv
    <3> QED
      BY <1>0, <3>1, ReferencesSplit, ReferencesNow DEF Inv, registry
  <2>2. Referenced \subseteq built \cup {NoContext} /\ destroyed = built \ Referenced
    BY DEF Inv, ReferenceInv
  <2>3. NoContext \notin built'
    BY <1>1 DEF TypeOK
  <2>4. Referenced' \subseteq built' \cup {NoContext}
    BY <1>0, <2>1, <2>2
  <2>5. destroyed' = built' \ Referenced'
    BY <1>0, <2>1, <2>2, <2>3
  <2> QED
    BY <2>4, <2>5 DEF Inv, ReferenceInv
<1> QED
  BY <1>1, <1>2, <1>3, <1>4, RegistryKeptInv DEF RegistryKept, registry, Inv

\* A reference copied from a slot refers to nothing new.
LEMMA CopyInv ==
    ASSUME Inv, NEW t \in Thread, ref[t] = NoContext, Names(target[t]),
           Take(t, slots[target[t].index]),
           UNCHANGED <<ready, published, slots, built, destroyed, issued>>
    PROVE  ReferenceInv'
<1>1. Referenced' \cup {NoContext} = Referenced \cup {NoContext}
  BY ReferencesSplit, ReferencesNow DEF Inv, Names
<1>2. NoContext \notin built
  BY DEF Inv, TypeOK
<1>3. Referenced \subseteq built \cup {NoContext} /\ destroyed = built \ Referenced
  BY DEF Inv, ReferenceInv
<1>4. Referenced' \subseteq built \cup {NoContext} /\ destroyed = built \ Referenced'
  BY <1>1, <1>2, <1>3
<1> QED
  BY <1>4 DEF Inv, ReferenceInv

\* References that go, with those that nothing keeps destroyed.
LEMMA ReleaseInv ==
    ASSUME Inv, Referenced' \subseteq Referenced \cup {NoContext}, built' = built,
           ReleaseUnreferenced, ready' \/ issued' # {} => published'
    PROVE  ReferenceInv'
<1>1. NoContext \notin built
  BY DEF Inv, TypeOK
<1>2. Referenced \subseteq built \cup {NoContext} /\ destroyed = built \ Referenced
  BY DEF Inv, ReferenceInv
<1>3. destroyed' = destroyed \cup (built \ Referenced')
  BY DEF ReleaseUnreferenced, Referenced
<1>4. Referenced' \subseteq built' \cup {NoContext} /\ destroyed' = built' \ Referenced'
  BY <1>1, <1>2, <1>3
<1> QED
  BY <1>4 DEF ReferenceInv

LEMMA RetainInv ==
    ASSUME Inv, NEW t \in Thread, Retain(t)
    PROVE  Inv'
<1> USE DEF Retain, Goto
<1>0. Names(target[t]) => slots[target[t].index] \in Context \cup {NoContext}
  BY DEF Inv, TypeOK, Names
<1>1. TypeOK'
  <2>1. ref' \in [Thread -> Context \cup {NoContext}]
    BY <1>0 DEF Inv, TypeOK, Take
  <2> QED
    BY <2>1 DEF Inv, TypeOK, Places, registry
<1>2. ControlInv'
  BY DEF Inv, TypeOK, ControlInv, Take, Names, registry
<1>3. Published' = Published
  BY DEF Inv, TypeOK, Published
<1>4. ReferenceInv'
  <2>1. CASE Names(target[t])
    BY <2>1, CopyInv DEF Inv, ControlInv, registry
  <2>2. CASE ~Names(target[t])
    BY <2>2 DEF Inv, ReferenceInv, Referenced, registry
  <2> QED
    BY <2>1, <2>2
<1> QED
  BY <1>1, <1>2, <1>3, <1>4, RegistryKeptInv DEF RegistryKept, registry, Inv

LEMMA TakeCopyInv ==
    ASSUME Inv, NEW t \in Thread, TakeCopy(t)
    PROVE  Inv'
<1> USE DEF TakeCopy, Goto
<1>0. Names(target[t]) => slots[target[t].index] \in Context \cup {NoContext}
  BY DEF Inv, TypeOK, Names
<1>1. TypeOK'
  <2>1. ref' \in [Thread -> Context \cup {NoContext}]
    BY <1>0 DEF Inv, TypeOK, Take
  <2> QED
    BY <2>1 DEF Inv, TypeOK, Places, registry
<1>2. ControlInv'
  BY DEF Inv, TypeOK, ControlInv, Take, Names, registry
<1>3. Published' = Published
  BY DEF Inv, TypeOK, Published
<1>4. ReferenceInv'
  <2>1. CASE Names(target[t])
    BY <2>1, CopyInv DEF Inv, ControlInv, registry
  <2>2. CASE ~Names(target[t])
    BY <2>2 DEF Inv, ReferenceInv, Referenced, registry
  <2> QED
    BY <2>1, <2>2
<1> QED
  BY <1>1, <1>2, <1>3, <1>4, RegistryKeptInv DEF RegistryKept, registry, Inv

LEMMA DropInv ==
    ASSUME Inv, NEW t \in Thread, Drop(t)
    PROVE  Inv'
<1> USE DEF Drop, Goto
<1>1. TypeOK'
  BY DEF Inv, TypeOK, Take, ReleaseUnreferenced, Places, registry
<1>2. ControlInv'
  BY DEF Inv, TypeOK, ControlInv, Take, Names, registry
<1>3. Published' = Published
  BY DEF Inv, TypeOK, Published
<1>4. ReferenceInv'
  <2>1. Referenced' \subseteq Referenced \cup {NoContext}
    BY ReferencesSplit, ReferencesNow DEF Inv, registry
  <2> QED
    BY <2>1, ReleaseInv DEF Inv, ReferenceInv
<1> QED
  BY <1>1, <1>2, <1>3, <1>4, RegistryKeptInv DEF RegistryKept, registry, Inv

LEMMA ReturnHandleInv ==
    ASSUME Inv, NEW t \in Thread, ReturnHandle(t)
    PROVE  Inv'
<1> USE DEF ReturnHandle, Goto
<1>1. TypeOK'
  BY DEF Inv, TypeOK, Take, ReleaseUnreferenced, Places, registry
<1>2. ControlInv'
  BY DEF Inv, TypeOK, ControlInv, Take, Names, registry
<1>3. Published' = Published
  BY DEF Inv, TypeOK, Published
<1>4. ReferenceInv'
  <2>1. Referenced' \subseteq Referenced \cup {NoContext}
    BY ReferencesSplit, ReferencesNow DEF Inv, registry
  <2>2. published'
    BY DEF Inv, ControlInv
  <2> QED
    BY <2>1, <2>2, ReleaseInv DEF Inv
<1> QED
  BY <1>1, <1>2, <1>3, <1>4, RegistryKeptInv DEF RegistryKept, registry, Inv
-----------------------------------------------------------------------------
\* Steps that change the registry.
Used == {at \in DOMAIN slots : slots[at] # NoContext}
Empty == {at \in DOMAIN slots : slots[at] = NoContext /\ generations[at] # GenerationRetired}
Free == {freeSlots[i] : i \in DOMAIN freeSlots}
FreeOnce == \A i, j \in DOMAIN freeSlots : freeSlots[i] = freeSlots[j] => i = j

LEMMA UsedFinite ==
    ASSUME TypeOK
    PROVE  IsFiniteSet(Used)
<1>1. Used \subseteq 1..Len(slots) /\ Len(slots) \in Nat
  BY DEF Used, TypeOK
<1>2. IsFiniteSet(1..Len(slots))
  BY <1>1, FS_Interval
<1> QED
  BY <1>1, <1>2, FS_Subset

\* A slot comes into use, and one more is counted; or goes.
LEMMA UsedCounted ==
    ASSUME TypeOK, RegistryExact, NEW at,
           \/ at \notin Used /\ Used' = Used \cup {at} /\ live' = live + 1
                                                     /\ created' = created + 1 /\ detached' = detached
           \/ at \in Used /\ Used' = Used \ {at} /\ live' = live - 1
                                                /\ created' = created /\ detached' = detached + 1
    PROVE  live' \in Nat /\ live' = Cardinality(Used') /\ created' = live' + detached'
<1>1. IsFiniteSet(Used) /\ live = Cardinality(Used) /\ created = live + detached
  BY UsedFinite DEF RegistryExact, Used
<1>2. CASE at \notin Used /\ Used' = Used \cup {at}
  <2>1. Cardinality(Used') = live + 1
    BY <1>1, <1>2, FS_AddElement
  <2>2. live' = live + 1 /\ created' = created + 1 /\ detached' = detached
    BY <1>2
  <2>3. live \in Nat /\ detached \in Nat
    BY DEF TypeOK
  <2> QED
    BY <1>1, <2>1, <2>2, <2>3
<1>3. CASE at \in Used /\ Used' = Used \ {at}
  <2>1. Cardinality(Used') = live - 1 /\ IsFiniteSet(Used')
    BY <1>1, <1>3, FS_RemoveElement
  <2>2. live - 1 \in Nat
    BY <2>1, FS_CardinalityType
  <2>3. live' = live - 1 /\ created' = created /\ detached' = detached + 1
    BY <1>3
  <2> QED
    BY <1>1, <2>1, <2>2, <2>3 DEF TypeOK
<1> QED
  BY <1>2, <1>3

\* The slots a handle, or the free list, can name.
LEMMA SlotFacts ==
    ASSUME Inv
    PROVE  /\ DOMAIN slots = 1..Len(slots) /\ DOMAIN generations = DOMAIN slots
           /\ DOMAIN slots \subseteq 1..MaxSlots
           /\ \A at \in DOMAIN slots : generations[at] \in 0..GenerationRetired
           /\ \A at \in DOMAIN slots : slots[at] # NoContext => generations[at] \in 0..LastGeneration
           /\ DOMAIN freeSlots = 1..Len(freeSlots)
           /\ \A i \in DOMAIN freeSlots :
                 /\ freeSlots[i] \in DOMAIN slots /\ slots[freeSlots[i]] = NoContext
                 /\ generations[freeSlots[i]] \in 0..LastGeneration
<1>1. /\ DOMAIN slots = 1..Len(slots) /\ DOMAIN generations = 1..Len(generations)
      /\ DOMAIN freeSlots = 1..Len(freeSlots)
      /\ Len(slots) = Len(generations) /\ Len(slots) \in Nat /\ Len(slots) <= MaxSlots
  BY LenProperties DEF Inv, TypeOK
<1>2. \A at \in DOMAIN slots : generations[at] \in 0..GenerationRetired
  BY <1>1, ElementOfSeq DEF Inv, TypeOK
<1>3. \A at \in DOMAIN slots : slots[at] # NoContext => generations[at] \in 0..LastGeneration
  BY <1>2 DEF Inv, HandleInv, GenerationRetired
<1>4. ASSUME NEW i \in DOMAIN freeSlots
      PROVE  /\ freeSlots[i] \in DOMAIN slots /\ slots[freeSlots[i]] = NoContext
             /\ generations[freeSlots[i]] \in 0..LastGeneration
  <2>1. freeSlots[i] \in DOMAIN slots
    BY DEF Inv, RegistryExact
  <2>2. slots[freeSlots[i]] = NoContext /\ generations[freeSlots[i]] <= LastGeneration
    BY DEF Inv, HandleInv
  <2> QED
    BY <1>2, <2>1, <2>2 DEF GenerationRetired
<1> QED
  BY <1>1, <1>2, <1>3, <1>4

LEMMA RegisterFacts ==
    ASSUME Inv, NEW t \in Thread, Register(t)
    PROVE  \E at \in 1..MaxSlots :
              /\ target' = [target EXCEPT ![t] = [index |-> at, generation |-> generations'[at]]]
              /\ at \in DOMAIN slots' /\ slots'[at] = ref[t]
              /\ generations'[at] \in 0..LastGeneration
              /\ DOMAIN slots' = DOMAIN slots \cup {at}
              /\ at \in DOMAIN slots => slots[at] = NoContext /\ generations[at] = generations'[at]
              /\ \A i \in DOMAIN slots \ {at} : slots'[i] = slots[i] /\ generations'[i] = generations[i]
              /\ Free' = Free \ {at} /\ FreeOnce'
              /\ DOMAIN freeSlots' \subseteq DOMAIN freeSlots
              /\ \A i \in DOMAIN freeSlots' : freeSlots'[i] = freeSlots[i]
              /\ slots' \in Seq(Context \cup {NoContext}) /\ Len(slots') <= MaxSlots
              /\ generations' \in Seq(0..GenerationRetired) /\ Len(generations') = Len(slots')
              /\ freeSlots' \in Seq(1..MaxSlots)
<1>1. CASE freeSlots # <<>>
  <2> DEFINE n == Len(freeSlots)  at == freeSlots[n]
  <2>1. n \in Nat \ {0} /\ at \in 1..MaxSlots
    BY <1>1 DEF Inv, TypeOK
  <2>2. freeSlots' = SubSeq(freeSlots, 1, n - 1)
    BY <1>1 DEF Register
  <2>3. /\ DOMAIN freeSlots' = 1..(n - 1)
        /\ \A i \in 1..(n - 1) : freeSlots'[i] = freeSlots[i]
        /\ freeSlots' \in Seq(1..MaxSlots)
    <3>1. n \in Nat /\ n - 1 \in Nat /\ \A i \in 1..n : freeSlots[i] \in 1..MaxSlots
      BY <2>1, ElementOfSeq DEF Inv, TypeOK
    <3> HIDE DEF n
    <3>2. /\ freeSlots' \in Seq(1..MaxSlots) /\ Len(freeSlots') = n - 1
          /\ \A i \in 1..(n - 1) : freeSlots'[i] = freeSlots[i]
      BY <2>2, <3>1, SubSeqProperties
    <3> QED
      BY <3>1, <3>2, LenProperties
  <2>4. FreeOnce /\ at \in DOMAIN slots /\ slots[at] = NoContext
    <3>1. FreeOnce
      BY DEF Inv, RegistryExact, FreeOnce
    <3> QED
      BY <2>1, <3>1, SlotFacts
  <2>5. generations[at] \in 0..LastGeneration
    BY <2>1, SlotFacts
  <2>6. Free' = Free \ {at} /\ FreeOnce'
    <3>1. DOMAIN freeSlots = 1..n
      BY DEF Inv, TypeOK
    <3>2. \A i \in 1..n : i # n => i \in 1..(n - 1)
      BY <2>1
    <3>3. \A i \in 1..(n - 1) : i \in 1..n /\ i # n
      BY <2>1
    <3>4. n \in 1..n /\ at = freeSlots[n]
      BY <2>1
    <3> HIDE DEF n, at
    <3>5. \A i \in 1..(n - 1) : freeSlots[i] # at
      BY <2>4, <3>1, <3>3, <3>4 DEF FreeOnce
    <3>6. Free' = Free \ {at}
      BY <2>3, <3>1, <3>2, <3>3, <3>4, <3>5 DEF Free
    <3>7. FreeOnce'
      BY <2>3, <2>4, <3>1, <3>3 DEF FreeOnce
    <3> QED
      BY <3>6, <3>7
  <2>7. slots' = [slots EXCEPT ![at] = ref[t]] /\ generations' = generations
    BY <1>1 DEF Register
  <2>8. slots' \in Seq(Context \cup {NoContext}) /\ Len(slots') = Len(slots)
    BY <2>7, <2>4 DEF Inv, TypeOK
  <2>9. target' = [target EXCEPT ![t] = [index |-> at, generation |-> generations'[at]]]
    BY <1>1, <2>7 DEF Register
  <2>10. DOMAIN slots' = DOMAIN slots \cup {at} /\ slots'[at] = ref[t]
    BY <2>4, <2>7
  <2>11. Len(slots') <= MaxSlots /\ generations' \in Seq(0..GenerationRetired)
            /\ Len(generations') = Len(slots')
    BY <2>7, <2>8 DEF Inv, TypeOK
  <2>12. DOMAIN freeSlots' \subseteq DOMAIN freeSlots
    BY <2>1, <2>3 DEF Inv, TypeOK
  <2>13. \A i \in DOMAIN slots \ {at} : slots'[i] = slots[i] /\ generations'[i] = generations[i]
    BY <2>7
  <2> QED
    BY <2>1, <2>3, <2>4, <2>5, <2>6, <2>7, <2>8, <2>9, <2>10, <2>11, <2>12, <2>13
<1>2. CASE freeSlots = <<>>
  <2> DEFINE n == Len(slots)  at == n + 1
  <2>1. n \in Nat /\ at \in 1..MaxSlots /\ Len(generations) = n
    BY <1>2 DEF Inv, TypeOK, Register
  <2>2. /\ slots' = Append(slots, ref[t]) /\ generations' = Append(generations, 0)
        /\ freeSlots' = freeSlots
    BY <1>2 DEF Register
  <2>3. slots' \in Seq(Context \cup {NoContext}) /\ Len(slots') = at
    BY <2>1, <2>2 DEF Inv, TypeOK
  <2>4. generations' \in Seq(0..GenerationRetired) /\ Len(generations') = at
    <3>1. 0 \in 0..GenerationRetired
      BY DEF GenerationRetired
    <3> QED
      BY <2>1, <2>2, <3>1 DEF Inv, TypeOK
  <2>5. generations'[at] = 0 /\ slots'[at] = ref[t]
    BY <2>1, <2>2 DEF Inv, TypeOK
  <2>6. \A i \in 1..n : slots'[i] = slots[i] /\ generations'[i] = generations[i]
    BY <2>1, <2>2 DEF Inv, TypeOK
  <2>7. DOMAIN slots = 1..n /\ DOMAIN slots' = 1..at /\ DOMAIN freeSlots = {}
    BY <1>2, <2>1, <2>3 DEF Inv, TypeOK
  <2>8. Free' = Free \ {at} /\ FreeOnce'
    BY <2>2, <2>7 DEF Free, FreeOnce
  <2>9. target' = [target EXCEPT ![t] = [index |-> at, generation |-> generations'[at]]]
    BY <1>2, <2>5 DEF Register
  <2>10. DOMAIN slots' = DOMAIN slots \cup {at} /\ at \notin DOMAIN slots
    BY <2>1, <2>7
  <2>11. Len(slots') <= MaxSlots /\ freeSlots' \in Seq(1..MaxSlots)
    BY <2>1, <2>2, <2>3 DEF Inv, TypeOK
  <2>12. DOMAIN freeSlots' \subseteq DOMAIN freeSlots
            /\ \A i \in DOMAIN freeSlots' : freeSlots'[i] = freeSlots[i]
    BY <2>2
  <2>13. \A i \in DOMAIN slots \ {at} : slots'[i] = slots[i] /\ generations'[i] = generations[i]
    BY <2>6, <2>7
  <2>14. generations'[at] \in 0..LastGeneration
    BY <2>5
  <2>15. at \in DOMAIN slots' /\ slots'[at] = ref[t]
    BY <2>5, <2>10
  <2> HIDE DEF at
  <2> QED
    BY <2>1, <2>3, <2>4, <2>8, <2>9, <2>10, <2>11, <2>12, <2>13, <2>14, <2>15
<1> QED
  BY <1>1, <1>2

LEMMA RegisterInv ==
    ASSUME Inv, NEW t \in Thread, Register(t)
    PROVE  Inv'
<1>0. /\ UNCHANGED <<ready, published, registryLock, detached, built, destroyed, contextLock, ref,
                     issued, calls>>
      /\ pc' = [pc EXCEPT ![t] = "return"] /\ pc[t] = "register" /\ registryLock = NoThread
      /\ live' = live + 1 /\ created' = created + 1
  BY DEF Register, Goto
<1>1. PICK at \in 1..MaxSlots :
          /\ target' = [target EXCEPT ![t] = [index |-> at, generation |-> generations'[at]]]
          /\ at \in DOMAIN slots' /\ slots'[at] = ref[t]
          /\ generations'[at] \in 0..LastGeneration
          /\ DOMAIN slots' = DOMAIN slots \cup {at}
          /\ at \in DOMAIN slots => slots[at] = NoContext /\ generations[at] = generations'[at]
          /\ \A i \in DOMAIN slots \ {at} : slots'[i] = slots[i] /\ generations'[i] = generations[i]
          /\ Free' = Free \ {at} /\ FreeOnce'
          /\ DOMAIN freeSlots' \subseteq DOMAIN freeSlots
          /\ \A i \in DOMAIN freeSlots' : freeSlots'[i] = freeSlots[i]
          /\ slots' \in Seq(Context \cup {NoContext}) /\ Len(slots') <= MaxSlots
          /\ generations' \in Seq(0..GenerationRetired) /\ Len(generations') = Len(slots')
          /\ freeSlots' \in Seq(1..MaxSlots)
  BY RegisterFacts
<1>2. ref[t] \in Context /\ ref[t] # NoContext /\ published
  BY <1>0 DEF Inv, TypeOK, ControlInv
<1>3. /\ at \notin Used /\ Used' = Used \cup {at}
      /\ Empty' = Empty \ {at}
  <2>1. generations'[at] # GenerationRetired
    BY <1>1 DEF GenerationRetired
  <2>2. at \notin Used /\ Used' = Used \cup {at}
    BY <1>1, <1>2 DEF Used
  <2>3. Empty' = Empty \ {at}
    BY <1>1, <1>2, <2>1 DEF Empty
  <2> QED
    BY <2>2, <2>3
<1>4. live' \in Nat /\ live' = Cardinality(Used') /\ created' = live' + detached'
  BY <1>0, <1>3, UsedCounted DEF Inv
<1>5. TypeOK'
  <2>1. [index |-> at, generation |-> generations'[at]] \in Handle
    BY <1>1 DEF Handle
  <2>2. target' \in [Thread -> Handle]
    BY <1>1, <2>1 DEF Inv, TypeOK
  <2>3. pc' \in [Thread -> Places]
    BY <1>0 DEF Inv, TypeOK, Places
  <2> QED
    <3>1. /\ ready' \in BOOLEAN /\ published' \in BOOLEAN /\ registryLock' \in Thread \cup {NoThread}
          /\ built' \subseteq Context /\ destroyed' \subseteq built'
          /\ contextLock' \in [Context -> Thread \cup {NoThread}]
          /\ ref' \in [Thread -> Context \cup {NoContext}] /\ issued' \subseteq Handle
          /\ calls' \in [Thread -> 0..MaxCalls]
      BY <1>0 DEF Inv, TypeOK
    <3>2. created' \in Nat /\ detached' \in Nat
      BY <1>0, <1>4 DEF Inv, TypeOK
    <3> QED
      BY <1>1, <1>4, <2>2, <2>3, <3>1, <3>2 DEF TypeOK
<1>6. ControlInv'
  <2>1. \A u \in Thread : pc[u] # "detach"
    BY <1>0 DEF Inv, ControlInv
  <2>2. \A u \in Thread \ {t} : target'[u] = target[u]
    BY <1>1 DEF Inv, TypeOK
  <2> QED
    BY <1>0, <1>2, <2>1, <2>2 DEF Inv, TypeOK, ControlInv
<1>7. HandleInv'
  <2>1. Published' = Published \cup {[index |-> at, generation |-> generations'[at]]}
    BY <1>0, <1>1 DEF Inv, TypeOK, Published
  <2>2. ASSUME NEW h \in Published'
        PROVE  /\ h.index \in DOMAIN slots'
               /\ h.generation <= generations'[h.index]
               /\ slots'[h.index] = NoContext => h.generation < generations'[h.index]
    <3>1. CASE h \in Published
      BY <1>1, <1>2, <3>1 DEF Inv, HandleInv
    <3>2. CASE h = [index |-> at, generation |-> generations'[at]]
      BY <1>1, <1>2, <3>2
    <3> QED
      BY <2>1, <3>1, <3>2
  <2>3. \A i \in DOMAIN slots' : slots'[i] # NoContext => generations'[i] <= LastGeneration
    <3>1. generations'[at] <= LastGeneration
      BY <1>1
    <3>2. \A i \in DOMAIN slots : slots[i] # NoContext => generations[i] <= LastGeneration
      BY DEF Inv, HandleInv
    <3> QED
      BY <1>1, <3>1, <3>2
  <2>4. \A i \in DOMAIN freeSlots' :
            slots'[freeSlots'[i]] = NoContext /\ generations'[freeSlots'[i]] <= LastGeneration
    <3> SUFFICES ASSUME NEW i \in DOMAIN freeSlots'
                 PROVE  slots'[freeSlots'[i]] = NoContext
                            /\ generations'[freeSlots'[i]] <= LastGeneration
      OBVIOUS
    <3>1. freeSlots'[i] \in Free' /\ freeSlots'[i] \in Free /\ freeSlots'[i] # at
      BY <1>1 DEF Free
    <3>2. Free \subseteq DOMAIN slots
      BY DEF Inv, RegistryExact, Free
    <3>3. slots[freeSlots[i]] = NoContext /\ generations[freeSlots[i]] <= LastGeneration
      BY <1>1 DEF Inv, HandleInv
    <3> QED
      BY <1>1, <3>1, <3>2, <3>3
  <2> QED
    BY <2>2, <2>3, <2>4 DEF HandleInv
<1>8. ReferenceInv'
  <2>1. Referenced' \cup {NoContext} = Referenced \cup {NoContext}
    <3>1. {slots'[i] : i \in DOMAIN slots'} \cup {NoContext}
             = {slots[i] : i \in DOMAIN slots} \cup {NoContext, ref[t]}
      BY <1>1
    <3> QED
      BY <1>0, <3>1 DEF Referenced
  <2>2. NoContext \notin built
    BY DEF Inv, TypeOK
  <2>3. Referenced \subseteq built \cup {NoContext} /\ destroyed = built \ Referenced
    BY DEF Inv, ReferenceInv
  <2>4. Referenced' \subseteq built \cup {NoContext} /\ destroyed = built \ Referenced'
    BY <2>1, <2>2, <2>3
  <2> QED
    BY <1>0, <2>4 DEF Inv, ReferenceInv
<1>9. RegistryExact'
  <2>1. Free' = Empty'
    BY <1>1, <1>3 DEF Inv, RegistryExact, Free, Empty
  <2> QED
    BY <1>1, <1>4, <2>1 DEF FreeOnce, Free, Empty, Used, RegistryExact
<1> QED
  BY <1>5, <1>6, <1>7, <1>8, <1>9 DEF Inv

\* The slot a free empties, by the generation it leaves.
LEMMA BumpFacts ==
    ASSUME Inv, NEW at \in DOMAIN slots, slots[at] # NoContext,
           slots' = [slots EXCEPT ![at] = NoContext], Bump(at)
    PROVE  /\ generations' \in Seq(0..GenerationRetired) /\ Len(generations') = Len(slots')
           /\ freeSlots' \in Seq(1..MaxSlots)
           /\ generations'[at] = generations[at] + 1
           /\ \A i \in DOMAIN slots \ {at} : generations'[i] = generations[i]
           /\ \/ generations'[at] = GenerationRetired /\ freeSlots' = freeSlots
              \/ generations'[at] <= LastGeneration /\ freeSlots' = Append(freeSlots, at)
<1>1. generations[at] \in 0..LastGeneration /\ at \in DOMAIN generations /\ at \in 1..MaxSlots
  BY SlotFacts
<1>2. CASE generations[at] >= LastGeneration
  <2>1. generations[at] + 1 = GenerationRetired
    BY <1>1, <1>2 DEF GenerationRetired
  <2>2. generations' = [generations EXCEPT ![at] = GenerationRetired] /\ freeSlots' = freeSlots
    BY <1>2 DEF Bump
  <2>3. GenerationRetired \in 0..GenerationRetired
    BY DEF GenerationRetired
  <2> QED
    BY <1>1, <2>1, <2>2, <2>3 DEF Inv, TypeOK
<1>3. CASE ~(generations[at] >= LastGeneration)
  <2>1. generations[at] + 1 \in 0..GenerationRetired /\ generations[at] + 1 <= LastGeneration
    BY <1>1, <1>3 DEF GenerationRetired
  <2>2. /\ generations' = [generations EXCEPT ![at] = generations[at] + 1]
        /\ freeSlots' = Append(freeSlots, at)
    BY <1>3 DEF Bump
  <2> QED
    BY <1>1, <2>1, <2>2 DEF Inv, TypeOK
<1> QED
  BY <1>2, <1>3

LEMMA DetachInv ==
    ASSUME Inv, NEW t \in Thread, Detach(t)
    PROVE  Inv'
<1> DEFINE at == target[t].index
<1>0. /\ UNCHANGED <<ready, published, created, built, contextLock, target, ref, issued, calls>>
      /\ pc' = [pc EXCEPT ![t] = "drop"] /\ pc[t] = "detach" /\ registryLock' = NoThread
      /\ live' = live - 1 /\ detached' = detached + 1
      /\ slots' = [slots EXCEPT ![at] = NoContext] /\ Bump(at) /\ ReleaseUnreferenced
  BY DEF Detach, Goto
<1>1. /\ at \in DOMAIN slots /\ slots[at] # NoContext /\ slots[at] = ref[t]
      /\ registryLock = t
  BY <1>0 DEF Inv, ControlInv, Names
<1>2. /\ generations' \in Seq(0..GenerationRetired) /\ Len(generations') = Len(slots')
      /\ freeSlots' \in Seq(1..MaxSlots)
      /\ generations'[at] = generations[at] + 1
      /\ \A i \in DOMAIN slots \ {at} : generations'[i] = generations[i]
      /\ \/ generations'[at] = GenerationRetired /\ freeSlots' = freeSlots
         \/ generations'[at] <= LastGeneration /\ freeSlots' = Append(freeSlots, at)
  BY <1>0, <1>1, BumpFacts
<1>3. /\ slots' \in Seq(Context \cup {NoContext}) /\ Len(slots') = Len(slots)
      /\ DOMAIN slots' = DOMAIN slots /\ slots'[at] = NoContext
      /\ \A i \in DOMAIN slots \ {at} : slots'[i] = slots[i]
  BY <1>0, <1>1 DEF Inv, TypeOK
<1>4. generations[at] \in 0..LastGeneration
  BY <1>1 DEF Inv, TypeOK, HandleInv, GenerationRetired
<1> HIDE DEF at
<1>5. at \in Used /\ Used' = Used \ {at}
  BY <1>1, <1>3 DEF Used
<1>6. live' \in Nat /\ live' = Cardinality(Used') /\ created' = live' + detached'
  BY <1>0, <1>5, UsedCounted DEF Inv
<1>7. at \notin Free /\ Free = Empty /\ FreeOnce
  BY <1>1 DEF Inv, RegistryExact, Free, Empty, FreeOnce
<1>8. FreeOnce' /\ Free' = Empty'
  <2>1. CASE generations'[at] = GenerationRetired /\ freeSlots' = freeSlots
    <3>1. Free' = Free /\ FreeOnce'
      BY <1>7, <2>1 DEF Free, FreeOnce
    <3>2. Empty' = Empty
      BY <1>1, <1>2, <1>3, <2>1 DEF Empty
    <3> QED
      BY <1>7, <3>1, <3>2
  <2>2. CASE generations'[at] <= LastGeneration /\ freeSlots' = Append(freeSlots, at)
    <3> DEFINE n == Len(freeSlots)
    <3>1. /\ n \in Nat /\ DOMAIN freeSlots = 1..n /\ DOMAIN freeSlots' = 1..(n + 1)
          /\ freeSlots'[n + 1] = at /\ \A i \in 1..n : freeSlots'[i] = freeSlots[i]
      BY <2>2 DEF Inv, TypeOK
    <3>2. \A i \in 1..(n + 1) : i \in 1..n \/ i = n + 1
      BY <3>1
    <3>3. n + 1 \in 1..(n + 1) /\ \A i \in 1..n : i \in 1..(n + 1)
      BY <3>1
    <3> HIDE DEF n
    <3>4. Free' = Free \cup {at}
      BY <3>1, <3>2, <3>3 DEF Free
    <3>5. FreeOnce'
      BY <1>7, <3>1, <3>2, <3>3 DEF Free, FreeOnce
    <3>6. Empty' = Empty \cup {at}
      <4>1. generations'[at] # GenerationRetired
        BY <1>2, <1>4, <2>2 DEF GenerationRetired
      <4> QED
        BY <4>1, <1>1, <1>2, <1>3 DEF Empty
    <3> QED
      BY <1>7, <3>4, <3>5, <3>6
  <2> QED
    BY <1>2, <2>1, <2>2
<1>9. TypeOK'
  <2>1. pc' \in [Thread -> Places]
    BY <1>0 DEF Inv, TypeOK, Places
  <2>2. destroyed' \subseteq built
    BY <1>0 DEF ReleaseUnreferenced, Inv, TypeOK
  <2>3. detached' \in Nat
    BY <1>0 DEF Inv, TypeOK
  <2> QED
    BY <1>0, <1>2, <1>3, <1>6, <2>1, <2>2, <2>3 DEF Inv, TypeOK
<1>10. ControlInv'
  <2>1. \A u \in Thread \ {t} : pc[u] # "detach"
    BY <1>1 DEF Inv, ControlInv
  <2> QED
    BY <1>0, <2>1 DEF Inv, TypeOK, ControlInv
<1>11. HandleInv'
  <2>1. Published' = Published
    BY <1>0 DEF Inv, TypeOK, Published
  <2>2. ASSUME NEW h \in Published'
        PROVE  /\ h.index \in DOMAIN slots'
               /\ h.generation <= generations'[h.index]
               /\ slots'[h.index] = NoContext => h.generation < generations'[h.index]
    <3>1. /\ h.index \in DOMAIN slots
          /\ h.generation <= generations[h.index]
          /\ slots[h.index] = NoContext => h.generation < generations[h.index]
      BY <2>1 DEF Inv, HandleInv
    <3>2. CASE h.index = at
      <4>1. h.generation \in Nat
        BY <2>1 DEF Inv, TypeOK, Published, Handle
      <4> QED
        BY <1>2, <1>3, <1>4, <3>1, <3>2, <4>1
    <3>3. CASE h.index # at
      BY <1>2, <1>3, <3>1, <3>3
    <3> QED
      BY <3>2, <3>3
  <2>3. \A i \in DOMAIN slots' : slots'[i] # NoContext => generations'[i] <= LastGeneration
    <3>1. \A i \in DOMAIN slots : slots[i] # NoContext => generations[i] <= LastGeneration
      BY DEF Inv, HandleInv
    <3> QED
      BY <1>2, <1>3, <3>1
  <2>4. \A i \in DOMAIN freeSlots' :
            slots'[freeSlots'[i]] = NoContext /\ generations'[freeSlots'[i]] <= LastGeneration
    <3> SUFFICES ASSUME NEW i \in DOMAIN freeSlots'
                 PROVE  slots'[freeSlots'[i]] = NoContext
                            /\ generations'[freeSlots'[i]] <= LastGeneration
      OBVIOUS
    <3>1. freeSlots'[i] \in Empty'
      BY <1>8 DEF Free
    <3>2. freeSlots'[i] \in DOMAIN slots' /\ slots'[freeSlots'[i]] = NoContext
             /\ generations'[freeSlots'[i]] # GenerationRetired
      BY <3>1 DEF Empty
    <3>3. generations'[freeSlots'[i]] \in 0..GenerationRetired
      <4>1. DOMAIN slots' = DOMAIN generations'
        BY <1>2, <1>3
      <4>2. \A j \in DOMAIN generations' : generations'[j] \in 0..GenerationRetired
        <5>1. generations' \in Seq(0..GenerationRetired)
          BY <1>2
        <5>2. DOMAIN generations' = 1..Len(generations')
          BY <5>1
        <5> QED
          BY <5>1, <5>2, ElementOfSeq
      <4> QED
        BY <3>2, <4>1, <4>2
    <3> QED
      BY <3>2, <3>3 DEF GenerationRetired
  <2> QED
    BY <2>2, <2>3, <2>4 DEF HandleInv
<1>12. ReferenceInv'
  <2>1. Referenced' \subseteq Referenced \cup {NoContext}
    BY <1>0, <1>3 DEF Referenced
  <2> QED
    BY <1>0, <2>1, ReleaseInv DEF Inv, ReferenceInv
<1>13. RegistryExact'
  BY <1>6, <1>8 DEF FreeOnce, Free, Empty, Used, RegistryExact
<1> QED
  BY <1>9, <1>10, <1>11, <1>12, <1>13 DEF Inv
-----------------------------------------------------------------------------
LEMMA StutterInv ==
    ASSUME Inv, UNCHANGED vars
    PROVE  Inv'
<1> USE DEF vars, registry
<1>1. TypeOK'
  BY DEF Inv, TypeOK
<1>2. ControlInv'
  BY DEF Inv, ControlInv, Names
<1>3. HandleInv'
  BY DEF Inv, HandleInv, Published
<1>4. ReferenceInv'
  BY DEF Inv, ReferenceInv, Referenced
<1>5. RegistryExact'
  BY DEF Inv, RegistryExact
<1> QED
  BY <1>1, <1>2, <1>3, <1>4, <1>5 DEF Inv

LEMMA NextInv ==
    ASSUME Inv, [Next]_vars
    PROVE  Inv'
<1>1. ASSUME NEW t \in Thread, Call(t)
      PROVE  Inv'
  BY <1>1, CallNewInv, CallWithInv DEF Call
<1>2. ASSUME NEW t \in Thread, Serve(t)
      PROVE  Inv'
  BY <1>2, EnsureRuntimeInv, BuildContextInv, RegisterInv, ReturnHandleInv, RetainInv,
     LockContextInv, UnlockContextInv, DropInv, TakeCopyInv, DetachInv DEF Serve
<1>3. CASE Next
  BY <1>1, <1>2, <1>3 DEF Next
<1> QED
  BY <1>3, StutterInv

\* In every reachable state: control, handles, references and the
\* registry agree (lib.zs's retain, registerContext, zjs_z_free_context).
THEOREM Invariant == Spec => []Inv
<1>1. Init => Inv
  BY InitInv
<1>2. Inv /\ [Next]_vars => Inv'
  BY NextInv
<1> QED
  BY <1>1, <1>2, PTL DEF Spec

\* The variables keep to their types: no handle is out of its bits, and
\* no generation goes past its retirement.
THEOREM TypeCorrect == Spec => []TypeOK
<1>1. Inv => TypeOK
  BY DEF Inv
<1> QED
  BY <1>1, Invariant, PTL

\* The registry's free list, live count and totals agree with its slots,
\* whatever creates and frees interleave.
THEOREM RegistryAgrees == Spec => []RegistryExact
<1>1. Inv => RegistryExact
  BY DEF Inv
<1> QED
  BY <1>1, Invariant, PTL

\* No thread is past shim_ensure_runtime before the root is published.
THEOREM RuntimePublished == Spec => []PublishedBeforeUse
<1>1. Inv => PublishedBeforeUse
  BY DEF Inv, ControlInv, PublishedBeforeUse
<1> QED
  BY <1>1, Invariant, PTL

\* The copy keeps the context while its slot is emptied.
LEMMA DetachDestroysNothing ==
    ASSUME Inv, NEW t \in Thread, Detach(t)
    PROVE  destroyed' = destroyed
<1>1. ref[t] = slots[target[t].index] /\ target[t].index \in DOMAIN slots
  BY DEF Detach, Inv, ControlInv, Names
<1>2. {slots'[i] : i \in DOMAIN slots'} \cup {NoContext, ref[t]}
         = {slots[i] : i \in DOMAIN slots} \cup {NoContext, ref[t]}
  BY <1>1 DEF Detach, Inv, TypeOK
<1>3. Referenced' \cup {NoContext} = Referenced \cup {NoContext}
  BY <1>2 DEF Referenced, Detach
<1>4. destroyed' = destroyed \cup (built \ Referenced')
  BY DEF Detach, ReleaseUnreferenced, Referenced
<1>5. NoContext \notin built /\ destroyed = built \ Referenced
  BY DEF Inv, TypeOK, ReferenceInv
<1> QED
  BY <1>3, <1>4, <1>5

\* No context is destroyed by a thread in the registry's critical section:
\* zjs_z_free_context's copy outlasts it.
THEOREM DestroyedOutside == Spec => DestroyedOutsideRegistry
<1> DEFINE Outside == \A t \in Thread :
                         destroyed' # destroyed /\ pc[t] # pc'[t] => pc[t] # "detach"
<1>1. Inv /\ [Next]_vars => [Outside]_vars
  <2> SUFFICES ASSUME Inv, Next, NEW t \in Thread, pc[t] # pc'[t], pc[t] = "detach"
               PROVE  destroyed' = destroyed
    OBVIOUS
  <2>1. ASSUME NEW u \in Thread, Call(u) \/ Serve(u)
        PROVE  u = t
    <3>1. \A v \in Thread \ {u} : pc'[v] = pc[v]
      BY <2>1 DEF Call, Serve, CallNew, CallWith, EnsureRuntime, BuildContext, Register,
         ReturnHandle, Retain, LockContext, UnlockContext, Drop, TakeCopy, Detach, Goto,
         Inv, TypeOK
    <3> QED
      BY <3>1
  <2>2. Detach(t)
    <3>1. Call(t) \/ Serve(t)
      BY <2>1 DEF Next
    <3>2. ~CallNew(t) /\ ~(\E place \in {"lookup", "free"}, h \in issued : CallWith(t, place, h))
      BY DEF CallNew, CallWith
    <3>3. /\ ~EnsureRuntime(t) /\ ~BuildContext(t) /\ ~Register(t) /\ ~ReturnHandle(t)
          /\ ~Retain(t) /\ ~LockContext(t) /\ ~UnlockContext(t) /\ ~Drop(t) /\ ~TakeCopy(t)
      BY DEF EnsureRuntime, BuildContext, Register, ReturnHandle, Retain, LockContext,
         UnlockContext, Drop, TakeCopy
    <3> QED
      BY <3>1, <3>2, <3>3 DEF Call, Serve
  <2> QED
    BY <2>2, DetachDestroysNothing
<1> QED
  BY <1>1, Invariant, PTL DEF Spec, DestroyedOutsideRegistry
-----------------------------------------------------------------------------
(***************************************************************************)
(* The refinement: each step of the code is a step of ContextTable, or     *)
(* none.                                                                   *)
(***************************************************************************)
TableKept == UNCHANGED <<built, destroyed, Published, NamesNow, Asked, ref>>

LEMMA HandleIs ==
    ASSUME NEW h \in Handle
    PROVE  h = [index |-> h.index, generation |-> h.generation]
BY DEF Handle

LEMMA NamesKept ==
    ASSUME UNCHANGED <<slots, generations>>
    PROVE  NamesNow' = NamesNow
BY DEF NamesNow

\* The handle a call was given: kept while the call has one, and gone when
\* the call is over.
LEMMA AskedKept ==
    ASSUME Inv, NEW t \in Thread, NEW place, pc' = [pc EXCEPT ![t] = place],
           target' = target, place \in Given <=> pc[t] \in Given
    PROVE  Asked' = Asked
<1>1. \A u \in Thread : pc'[u] \in Given <=> pc[u] \in Given
  BY DEF Inv, TypeOK
<1> QED
  BY <1>1 DEF Asked

LEMMA AskedOver ==
    ASSUME Inv, NEW t \in Thread, NEW place, pc' = [pc EXCEPT ![t] = place],
           \A u \in Thread \ {t} : target'[u] = target[u], place \notin Given
    PROVE  Asked' = [Asked EXCEPT ![t] = {}]
<1>1. /\ pc'[t] \notin Given
      /\ \A u \in Thread \ {t} : pc'[u] = pc[u]
  BY DEF Inv, TypeOK
<1> QED
  BY <1>1 DEF Asked

LEMMA AskedAt ==
    ASSUME NEW t \in Thread
    PROVE  /\ pc[t] \in Given => Asked[t] = {target[t]}
           /\ pc[t] \notin Given => Asked[t] = {}
BY DEF Asked

LEMMA BuildStep ==
    ASSUME Inv, NEW t \in Thread, BuildContext(t)
    PROVE  \E x \in Context : Table!Build(t, x)
<1>1. PICK x \in Context \ built : built' = built \cup {x} /\ ref' = [ref EXCEPT ![t] = x]
  BY DEF BuildContext, Take
<1>2. ref[t] = NoContext
  BY DEF BuildContext, Inv, ControlInv
<1>3. Published' = Published
  BY DEF BuildContext, Goto, Inv, TypeOK, Published
<1>4. NamesNow' = NamesNow /\ destroyed' = destroyed
  BY NamesKept DEF BuildContext, registry
<1>5. Asked' = Asked /\ Asked[t] = {}
  BY AskedKept, AskedAt DEF BuildContext, Goto, Given
<1> QED
  BY <1>1, <1>2, <1>3, <1>4, <1>5 DEF Table!Build

LEMMA RegisterStep ==
    ASSUME Inv, NEW t \in Thread, Register(t)
    PROVE  \E h \in Handle : Table!Publish(t, h)
<1>0. /\ UNCHANGED <<built, destroyed, ref, issued>> /\ pc[t] = "register"
      /\ pc' = [pc EXCEPT ![t] = "return"]
  BY DEF Register, Goto
<1>1. PICK at \in 1..MaxSlots :
          /\ target' = [target EXCEPT ![t] = [index |-> at, generation |-> generations'[at]]]
          /\ at \in DOMAIN slots' /\ slots'[at] = ref[t]
          /\ generations'[at] \in 0..LastGeneration
          /\ DOMAIN slots' = DOMAIN slots \cup {at}
          /\ at \in DOMAIN slots => slots[at] = NoContext /\ generations[at] = generations'[at]
          /\ \A i \in DOMAIN slots \ {at} : slots'[i] = slots[i] /\ generations'[i] = generations[i]
  BY RegisterFacts
<1> DEFINE h == [index |-> at, generation |-> generations'[at]]
<1>2. h \in Handle /\ h.index = at /\ h.generation = generations'[at]
  BY <1>1 DEF Handle
<1>3. ref[t] # NoContext
  BY <1>0 DEF Inv, ControlInv
<1>4. h \notin Published
  <2> SUFFICES ASSUME h \in Published PROVE FALSE
    OBVIOUS
  <2>1. at \in DOMAIN slots /\ slots[at] = NoContext /\ h.generation < generations[at]
    BY <1>1, <1>2 DEF Inv, HandleInv
  <2> QED
    BY <1>1, <1>2, <2>1
<1>5. Published' = Published \cup {h}
  BY <1>0, <1>1 DEF Inv, TypeOK, Published
<1>6. NamesNow' = NamesNow \cup {<<h, ref[t]>>}
  BY <1>1, <1>3 DEF NamesNow
<1>7. Asked' = Asked /\ Asked[t] = {}
  <2>1. Asked' = [Asked EXCEPT ![t] = {}] /\ Asked[t] = {}
    <3>1. \A u \in Thread \ {t} : target'[u] = target[u]
      BY <1>1 DEF Inv, TypeOK
    <3> QED
      BY <1>0, <3>1, AskedOver, AskedAt DEF Given
  <2> QED
    BY <2>1 DEF Asked
<1> QED
  BY <1>0, <1>2, <1>3, <1>4, <1>5, <1>6, <1>7 DEF Table!Publish

\* A handle that names a context is one of the pairs.
LEMMA NamesPair ==
    ASSUME TypeOK, NEW t \in Thread, Names(target[t])
    PROVE  <<target[t], slots[target[t].index]>> \in NamesNow
<1>1. target[t] = [index |-> target[t].index, generation |-> generations[target[t].index]]
  BY HandleIs DEF TypeOK, Names
<1> QED
  BY <1>1 DEF Names, NamesNow

LEMMA AdmitStep ==
    ASSUME Inv, NEW t \in Thread, Retain(t) \/ TakeCopy(t)
    PROVE  Table!Refuse(t) \/ \E e \in NamesNow : Table!Admit(t, e)
<1>1. ref[t] = NoContext
  BY DEF Retain, TakeCopy, Inv, ControlInv
<1>2. Published' = Published
  BY DEF Retain, TakeCopy, Goto, Inv, TypeOK, Published
<1>3. NamesNow' = NamesNow /\ UNCHANGED <<built, destroyed>>
  BY NamesKept DEF Retain, TakeCopy, registry
<1>0. pc[t] \in Given /\ target' = target /\ target[t] \in Handle
  BY DEF Retain, TakeCopy, Given, Inv, TypeOK
<1>4. CASE Names(target[t])
  <2> DEFINE e == <<target[t], slots[target[t].index]>>
  <2>1. e \in NamesNow /\ e[2] = slots[target[t].index]
    BY <1>4, NamesPair DEF Inv
  <2>2. ref' = [ref EXCEPT ![t] = e[2]]
    BY <1>4 DEF Retain, TakeCopy, Take
  <2>3. Asked' = Asked /\ e[1] \in Asked[t]
    <3>1. PICK place \in {"wait", "detach"} : pc' = [pc EXCEPT ![t] = place]
      BY <1>4 DEF Retain, TakeCopy, Goto
    <3> QED
      BY <1>0, <3>1, AskedKept, AskedAt DEF Given
  <2> QED
    BY <1>1, <1>2, <1>3, <2>1, <2>2, <2>3 DEF Table!Admit
<1>5. CASE ~Names(target[t])
  <2>1. pc' = [pc EXCEPT ![t] = "idle"] /\ ref' = ref
    BY <1>5 DEF Retain, TakeCopy, Goto
  <2>2. Asked' = [Asked EXCEPT ![t] = {}] /\ Asked[t] = {target[t]}
    BY <1>0, <2>1, AskedOver, AskedAt DEF Given
  <2>3. ASSUME NEW e \in NamesNow PROVE e[1] # target[t]
    BY <1>0, <1>5 DEF NamesNow, Names
  <2> QED
    BY <1>1, <1>2, <1>3, <2>1, <2>2, <2>3 DEF Table!Refuse
<1> QED
  BY <1>4, <1>5

LEMMA DropStep ==
    ASSUME Inv, NEW t \in Thread, ReturnHandle(t) \/ Drop(t)
    PROVE  Table!Drop(t)
<1>1. ref[t] # NoContext /\ ref[t] \in built
  BY DEF ReturnHandle, Drop, Inv, ControlInv, ReferenceInv, Referenced
<1>2. ref' = [ref EXCEPT ![t] = NoContext] /\ built' = built /\ UNCHANGED <<slots, generations>>
  BY DEF ReturnHandle, Drop, Take, registry
<1>3. Published' = Published /\ NamesNow' = NamesNow
  BY <1>2, NamesKept DEF ReturnHandle, Drop, Goto, Inv, TypeOK, Published
<1>4. destroyed' = destroyed \cup (built \ Referenced') /\ destroyed = built \ Referenced
      /\ NoContext \notin built
  BY DEF ReturnHandle, Drop, ReleaseUnreferenced, Referenced, Inv, TypeOK, ReferenceInv
<1>5. Referenced' \cup {NoContext, ref[t]} = Referenced \cup {NoContext}
  <2>1. Referenced' = {slots[i] : i \in DOMAIN slots} \cup {NoContext}
                          \cup {ref[u] : u \in Thread \ {t}}
    BY <1>2, ReferencesSplit DEF Inv, Take
  <2>2. Referenced = {slots[i] : i \in DOMAIN slots} \cup {ref[t]}
                          \cup {ref[u] : u \in Thread \ {t}}
    BY ReferencesNow
  <2> QED
    BY <2>1, <2>2
<1>6. ref[t] \in Referenced' <=> \/ \E u \in Thread \ {t} : ref[u] = ref[t]
                                \/ \E e \in NamesNow : e[2] = ref[t]
  <2>1. Referenced' = {slots[i] : i \in DOMAIN slots} \cup {NoContext}
                          \cup {ref[u] : u \in Thread \ {t}}
    BY <1>2, ReferencesSplit DEF Inv, Take
  <2>2. ref[t] \in {slots[i] : i \in DOMAIN slots} <=> \E e \in NamesNow : e[2] = ref[t]
    <3>1. ASSUME NEW i \in DOMAIN slots, slots[i] = ref[t]
          PROVE  \E e \in NamesNow : e[2] = ref[t]
      <4>1. <<[index |-> i, generation |-> generations[i]], slots[i]>> \in NamesNow
        BY <1>1, <3>1 DEF NamesNow
      <4> QED
        BY <3>1, <4>1
    <3>2. ASSUME NEW e \in NamesNow, e[2] = ref[t]
          PROVE  ref[t] \in {slots[i] : i \in DOMAIN slots}
      BY <3>2 DEF NamesNow
    <3> QED
      BY <3>1, <3>2
  <2> QED
    BY <1>1, <2>1, <2>2
<1>7. destroyed' = IF /\ \A u \in Thread \ {t} : ref[u] # ref[t]
                      /\ \A e \in NamesNow : e[2] # ref[t]
                   THEN destroyed \cup {ref[t]}
                   ELSE destroyed
  BY <1>1, <1>4, <1>5, <1>6
<1>8. Asked' = [Asked EXCEPT ![t] = {}]
  BY AskedOver DEF ReturnHandle, Drop, Goto, Given
<1> QED
  BY <1>1, <1>2, <1>3, <1>7, <1>8 DEF Table!Drop

LEMMA DetachStep ==
    ASSUME Inv, NEW t \in Thread, Detach(t)
    PROVE  \E e \in NamesNow : Table!Revoke(t, e)
<1> DEFINE at == target[t].index
           e == <<target[t], slots[at]>>
<1>1. Names(target[t]) /\ slots[at] = ref[t] /\ at \in DOMAIN slots
  BY DEF Detach, Inv, ControlInv, Names
<1>2. e \in NamesNow /\ e[2] = ref[t]
  BY <1>1, NamesPair DEF Inv
<1>3. slots' = [slots EXCEPT ![at] = NoContext] /\ Bump(at) /\ UNCHANGED <<built, ref, target, issued>>
  BY DEF Detach
<1>4. \A i \in DOMAIN slots \ {at} : generations'[i] = generations[i]
  BY <1>1, <1>3, BumpFacts DEF Names
<1>5. DOMAIN slots' = DOMAIN slots /\ slots'[at] = NoContext
      /\ \A i \in DOMAIN slots \ {at} : slots'[i] = slots[i]
  BY <1>1, <1>3 DEF Inv, TypeOK
<1>6. target[t] = [index |-> at, generation |-> generations[at]]
  BY <1>1, HandleIs DEF Inv, TypeOK, Names
<1>7. NamesNow' = NamesNow \ {e}
  <2>1. \A i \in DOMAIN slots : slots[i] # NoContext =>
            (<<[index |-> i, generation |-> generations[i]], slots[i]>> = e <=> i = at)
    BY <1>6
  <2> QED
    BY <1>4, <1>5, <2>1 DEF NamesNow
<1>8. Published' = Published
  BY <1>3 DEF Detach, Goto, Inv, TypeOK, Published
<1>9. Asked' = Asked /\ target[t] \in Asked[t]
  BY <1>3, AskedKept, AskedAt DEF Detach, Goto, Given
<1> QED
  BY <1>2, <1>3, <1>7, <1>8, <1>9, DetachDestroysNothing DEF Table!Revoke

LEMMA AskStep ==
    ASSUME Inv, NEW t \in Thread, NEW place \in {"lookup", "free"}, NEW h \in issued,
           CallWith(t, place, h)
    PROVE  Table!Ask(t, h)
<1>1. /\ UNCHANGED <<built, destroyed, issued, ref, slots, generations>> /\ pc[t] = "idle"
      /\ pc' = [pc EXCEPT ![t] = place] /\ target' = [target EXCEPT ![t] = h]
  BY DEF CallWith, Goto, registry
<1>2. Published' = Published /\ h \in Published
  BY <1>1 DEF Inv, TypeOK, Published
<1>3. ref[t] = NoContext
  BY <1>1 DEF Inv, ControlInv
<1>4. Asked' = [Asked EXCEPT ![t] = {h}] /\ Asked[t] = {}
  <2>1. /\ pc'[t] \in Given /\ target'[t] = h
        /\ \A u \in Thread \ {t} : pc'[u] = pc[u] /\ target'[u] = target[u]
    BY <1>1 DEF Inv, TypeOK, Given
  <2>2. Asked' = [Asked EXCEPT ![t] = {h}]
    BY <2>1 DEF Asked
  <2> QED
    BY <1>1, <2>2, AskedAt DEF Given
<1> QED
  BY <1>1, <1>2, <1>3, <1>4, NamesKept DEF Table!Ask

LEMMA OtherSteps ==
    ASSUME Inv, NEW t \in Thread,
           CallNew(t) \/ EnsureRuntime(t) \/ LockContext(t) \/ UnlockContext(t)
    PROVE  TableKept
<1>1. UNCHANGED <<built, destroyed, issued, ref, slots, generations, target>>
  BY DEF CallNew, EnsureRuntime, LockContext, UnlockContext, registry
<1>2. Published' = Published
  BY DEF CallNew, EnsureRuntime, LockContext, UnlockContext, Goto, Inv, TypeOK, Published
<1>3. Asked' = Asked
  <2>1. PICK place : pc' = [pc EXCEPT ![t] = place] /\ (place \in Given <=> pc[t] \in Given)
    BY DEF CallNew, EnsureRuntime, LockContext, UnlockContext, Goto, Given
  <2> QED
    BY <1>1, <2>1, AskedKept
<1> QED
  BY <1>1, <1>2, <1>3, NamesKept DEF TableKept

\* The handles, locks and references of lib.zs keep what ContextTable
\* promises: a handle is never issued twice and names one context until it
\* is freed, a call is admitted to that context or refused exactly as its
\* handle names one, and a context is destroyed when the last slot or call
\* lets go of it and never before.
THEOREM Implementation == Spec => ImplementsTable
<1>1. Init => Table!Init
  BY DEF Init, Table!Init, Published, NamesNow, Asked, Given
<1>2. Inv /\ [Next]_vars => [Table!Next]_(Table!vars)
  <2> SUFFICES ASSUME Inv, [Next]_vars
               PROVE  Table!Next \/ TableKept
    BY DEF TableKept, Table!vars
  <2>1. CASE UNCHANGED vars
    BY <2>1, NamesKept DEF vars, registry, TableKept, Published, Asked
  <2>2. ASSUME NEW t \in Thread, Call(t) \/ Serve(t)
        PROVE  Table!Next \/ TableKept
    <3>1. CASE BuildContext(t)
      BY <3>1, BuildStep DEF Table!Next
    <3>2. CASE Register(t)
      BY <3>2, RegisterStep DEF Table!Next
    <3>3. CASE ReturnHandle(t) \/ Drop(t)
      BY <3>3, DropStep DEF Table!Next
    <3>4. CASE Retain(t) \/ TakeCopy(t)
      BY <3>4, AdmitStep DEF Table!Next
    <3>5. CASE Detach(t)
      BY <3>5, DetachStep DEF Table!Next
    <3>6. CASE CallNew(t) \/ EnsureRuntime(t) \/ LockContext(t) \/ UnlockContext(t)
      BY <3>6, OtherSteps
    <3>7. ASSUME NEW place \in {"lookup", "free"}, NEW h \in issued, CallWith(t, place, h)
          PROVE  Table!Next
      <4>1. h \in Handle /\ Table!Ask(t, h)
        BY <3>7, AskStep DEF Inv, TypeOK
      <4> QED
        BY <4>1 DEF Table!Next
    <3> QED
      BY <2>2, <3>1, <3>2, <3>3, <3>4, <3>5, <3>6, <3>7 DEF Call, Serve
  <2> QED
    BY <2>1, <2>2 DEF Next
<1> QED
  BY <1>1, <1>2, Invariant, PTL DEF Spec, ImplementsTable, Table!Spec
=============================================================================
