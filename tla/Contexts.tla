------------------------------ MODULE Contexts ------------------------------
(***************************************************************************)
(* The C ABI's contexts (engine/lib.zs behind shim/zjs_shim.c): host       *)
(* threads create contexts, call into them by handle and free them, any    *)
(* thread any handle, at the same time.                                    *)
(*                                                                         *)
(* A step is what a thread does between two points where another can get   *)
(* in: a critical section of the registry, the taking or leaving of a      *)
(* context's lock, the drop of a reference.  References are counted by the *)
(* language's runtime (ARC): a context is destroyed by the drop that       *)
(* leaves neither a slot nor a thread with a reference to it.  What an     *)
(* evaluation does while it has the lock is not modelled here.             *)
(***************************************************************************)
EXTENDS Naturals, Sequences, FiniteSets

CONSTANTS
    Thread,          \* host threads
    Context,         \* the contexts ever created: a bound on their number
    NoContext,
    NoThread,
    MaxSlots,        \* slots a handle can name: 2^32 - 1 in the code
    LastGeneration,  \* GENERATION_LAST: 2^32 - 2 in the code
    MaxCalls         \* a bound on the calls of one thread

ASSUME NoneAssumption == NoContext \notin Context /\ NoThread \notin Thread
ASSUME BoundsAssumption == MaxSlots \in Nat \ {0} /\ LastGeneration \in Nat /\ MaxCalls \in Nat

GenerationRetired == LastGeneration + 1     \* GENERATION_RETIRED

VARIABLES
    ready,        \* the shim's g_runtime_ready
    published,    \* the root is published: engine.get() may be called
    registryLock, \* who is in a critical section of the registry
    slots, generations, freeSlots, live, created, detached,  \* Registry
    built,        \* contexts created so far
    destroyed,    \* contexts whose last reference was dropped
    contextLock,  \* who evaluates in a context
    pc,           \* where a thread's call is; "idle" outside the engine
    target,       \* the handle its call was given, or is about to return
    ref,          \* the reference its call holds
    issued,       \* handles zjs_new_context has returned
    calls         \* calls a thread has made

registry == <<slots, generations, freeSlots, live, created, detached>>
vars == <<ready, published, registryLock, registry, built, destroyed, contextLock,
          pc, target, ref, issued, calls>>

\* packHandle: the index is at least 1, so that no handle is NULL.
Handle == [index : 1..MaxSlots, generation : 0..LastGeneration]
AnyHandle == CHOOSE h \in Handle : TRUE

Init ==
    /\ ready = FALSE /\ published = FALSE
    /\ registryLock = NoThread
    /\ slots = <<>> /\ generations = <<>> /\ freeSlots = <<>>
    /\ live = 0 /\ created = 0 /\ detached = 0
    /\ built = {} /\ destroyed = {} /\ issued = {}
    /\ contextLock = [x \in Context |-> NoThread]
    /\ pc = [t \in Thread |-> "idle"]
    /\ target = [t \in Thread |-> AnyHandle]
    /\ ref = [t \in Thread |-> NoContext]
    /\ calls = [t \in Thread |-> 0]

Goto(t, place) == pc' = [pc EXCEPT ![t] = place]
Take(t, x) == ref' = [ref EXCEPT ![t] = x]

\* Contexts with no reference left are destroyed, by the step that drops
\* the last one; this stands after the step's slots' and ref'.
ReleaseUnreferenced ==
    destroyed' = destroyed \cup
        (built \ ({slots'[i] : i \in DOMAIN slots'} \cup {ref'[t] : t \in Thread}))
-----------------------------------------------------------------------------
\* The bound on contexts: the calls under way leave one more to create.
ContextLeft ==
    Cardinality({u \in Thread : pc[u] \in {"ensure", "build"}}) < Cardinality(Context \ built)

\* The host calls zjs_new_context or zjs_new_core_context.
CallNew(t) ==
    /\ pc[t] = "idle" /\ calls[t] < MaxCalls /\ ContextLeft
    /\ calls' = [calls EXCEPT ![t] = @ + 1]
    /\ Goto(t, "ensure")
    /\ UNCHANGED <<ready, published, registryLock, registry, built, destroyed, contextLock,
                   target, ref, issued>>

\* The host calls a function that looks a handle up: an evaluation, an
\* installer or a query ("lookup"), or zjs_free_context ("free").  NULL
\* is refused by the shim before it gets here.
CallWith(t, place, h) ==
    /\ pc[t] = "idle" /\ calls[t] < MaxCalls
    /\ calls' = [calls EXCEPT ![t] = @ + 1]
    /\ target' = [target EXCEPT ![t] = h]
    /\ Goto(t, place)
    /\ UNCHANGED <<ready, published, registryLock, registry, built, destroyed, contextLock,
                   ref, issued>>

\* Variant: readiness is recorded whatever the status.
EnsureRuntimeAlways(t) ==
    /\ pc[t] = "ensure"
    /\ ready' = TRUE
    /\ published' \in {published, TRUE}
    /\ Goto(t, "build")
    /\ UNCHANGED <<registryLock, registry, built, destroyed, contextLock, target, ref, issued, calls>>

\* shim_ensure_runtime, all of it under g_init_lock: the first caller
\* initializes the runtime, and a failed attempt leaves the next one to
\* try again; its own zjs_new_context returns NULL.
EnsureRuntime(t) ==
    /\ pc[t] = "ensure"
    /\ \/ ready /\ Goto(t, "build") /\ UNCHANGED <<ready, published>>
       \/ ~ready /\ Goto(t, "build") /\ ready' = TRUE /\ published' = TRUE
       \/ ~ready /\ Goto(t, "idle") /\ UNCHANGED <<ready, published>>
    /\ UNCHANGED <<registryLock, registry, built, destroyed, contextLock, target, ref, issued, calls>>

\* createEngine and new Context, outside the registry's lock.
BuildContext(t) ==
    /\ pc[t] = "build"
    /\ \E x \in Context \ built : built' = built \cup {x} /\ Take(t, x)
    /\ Goto(t, "register")
    /\ UNCHANGED <<ready, published, registryLock, registry, destroyed, contextLock, target,
                   issued, calls>>

\* registerContext's critical section: the last freed slot is used again,
\* under the generation its free left, or a new one is added.
Register(t) ==
    /\ pc[t] = "register" /\ registryLock = NoThread
    /\ live' = live + 1 /\ created' = created + 1
    /\ IF freeSlots # <<>>
       THEN LET at == freeSlots[Len(freeSlots)] IN
            /\ freeSlots' = SubSeq(freeSlots, 1, Len(freeSlots) - 1)
            /\ slots' = [slots EXCEPT ![at] = ref[t]]
            /\ target' = [target EXCEPT ![t] = [index |-> at, generation |-> generations[at]]]
            /\ UNCHANGED generations
       ELSE /\ Len(slots) < MaxSlots
            /\ slots' = Append(slots, ref[t])
            /\ generations' = Append(generations, 0)
            /\ target' = [target EXCEPT ![t] = [index |-> Len(slots) + 1, generation |-> 0]]
            /\ UNCHANGED freeSlots
    /\ Goto(t, "return")
    /\ UNCHANGED <<ready, published, registryLock, detached, built, destroyed, contextLock, ref,
                   issued, calls>>

\* registerContext returns the handle, and its own reference is dropped.
ReturnHandle(t) ==
    /\ pc[t] = "return"
    /\ issued' = issued \cup {target[t]}
    /\ Take(t, NoContext)
    /\ UNCHANGED <<ready, published, registryLock, registry, built, contextLock, target, calls>>
    /\ ReleaseUnreferenced
    /\ Goto(t, "idle")
-----------------------------------------------------------------------------
\* Variant: the generation is not compared.
NamesAnyGeneration(h) == h.index \in DOMAIN slots /\ slots[h.index] # NoContext

\* The test of retain and zjs_z_free_context: the slot exists, is of the
\* handle's generation, and is not empty.
Names(h) ==
    /\ h.index \in DOMAIN slots
    /\ generations[h.index] = h.generation
    /\ slots[h.index] # NoContext

\* retain: the lookup admits the call, which then holds the context.
Retain(t) ==
    /\ pc[t] = "lookup" /\ registryLock = NoThread
    /\ IF Names(target[t])
       THEN Take(t, slots[target[t].index]) /\ Goto(t, "wait")
       ELSE Goto(t, "idle") /\ UNCHANGED ref
    /\ UNCHANGED <<ready, published, registryLock, registry, built, destroyed, contextLock,
                   target, issued, calls>>

\* context.state.withLock: the call waits for its turn,
LockContext(t) ==
    /\ pc[t] = "wait" /\ contextLock[ref[t]] = NoThread
    /\ contextLock' = [contextLock EXCEPT ![ref[t]] = t]
    /\ Goto(t, "inside")
    /\ UNCHANGED <<ready, published, registryLock, registry, built, destroyed, target, ref, issued,
                   calls>>

\* Variant: the lock is not released.
UnlockContextNever(t) ==
    /\ pc[t] = "inside"
    /\ Goto(t, "drop")
    /\ UNCHANGED <<ready, published, registryLock, registry, built, destroyed, contextLock, target,
                   ref, issued, calls>>

\* does its work (an evaluation runs its jobs too), and unlocks.
UnlockContext(t) ==
    /\ pc[t] = "inside"
    /\ contextLock' = [contextLock EXCEPT ![ref[t]] = NoThread]
    /\ Goto(t, "drop")
    /\ UNCHANGED <<ready, published, registryLock, registry, built, destroyed, target, ref, issued,
                   calls>>

\* The call's reference is dropped as it returns.
Drop(t) ==
    /\ pc[t] = "drop"
    /\ Take(t, NoContext)
    /\ UNCHANGED <<ready, published, registryLock, registry, built, contextLock, target, issued, calls>>
    /\ ReleaseUnreferenced
    /\ Goto(t, "idle")
-----------------------------------------------------------------------------
\* Variant: the critical section retains no copy of its own.
TakeCopyNot(t) ==
    /\ pc[t] = "free" /\ registryLock = NoThread
    /\ IF Names(target[t])
       THEN registryLock' = t /\ Goto(t, "detach")
       ELSE Goto(t, "idle") /\ UNCHANGED registryLock
    /\ UNCHANGED <<ready, published, registry, built, destroyed, contextLock, target, ref, issued, calls>>

\* zjs_z_free_context's critical section: a copy of the slot's reference
\* is taken,
TakeCopy(t) ==
    /\ pc[t] = "free" /\ registryLock = NoThread
    /\ IF Names(target[t])
       THEN registryLock' = t /\ Take(t, slots[target[t].index]) /\ Goto(t, "detach")
       ELSE Goto(t, "idle") /\ UNCHANGED <<registryLock, ref>>
    /\ UNCHANGED <<ready, published, registry, built, destroyed, contextLock, target, issued, calls>>

\* A variant of what happens to the slot: a retired one is free all the same.
BumpFreeRetired(at) ==
    /\ generations' = [generations EXCEPT
                          ![at] = IF @ >= LastGeneration THEN GenerationRetired ELSE @ + 1]
    /\ freeSlots' = Append(freeSlots, at)

\* The slot's next generation, or its retirement.
Bump(at) ==
    IF generations[at] >= LastGeneration
    THEN /\ generations' = [generations EXCEPT ![at] = GenerationRetired]
         /\ UNCHANGED freeSlots
    ELSE /\ generations' = [generations EXCEPT ![at] = @ + 1]
         /\ freeSlots' = Append(freeSlots, at)

\* Variant: a slot that retires keeps its reference.
DetachUnlessRetired(t) ==
    /\ pc[t] = "detach"
    /\ LET at == target[t].index IN
         /\ slots' = IF generations[at] >= LastGeneration THEN slots
                     ELSE [slots EXCEPT ![at] = NoContext]
         /\ Bump(at)
    /\ live' = live - 1 /\ detached' = detached + 1
    /\ registryLock' = NoThread
    /\ Goto(t, "drop")
    /\ UNCHANGED <<ready, published, created, built, contextLock, target, ref, issued, calls>>
    /\ ReleaseUnreferenced

\* and the slot is emptied before the lock is released.  The copy is
\* dropped after that (Drop).
Detach(t) ==
    /\ pc[t] = "detach"
    /\ LET at == target[t].index IN
         /\ slots' = [slots EXCEPT ![at] = NoContext]
         /\ Bump(at)
    /\ live' = live - 1 /\ detached' = detached + 1
    /\ registryLock' = NoThread
    /\ Goto(t, "drop")
    /\ UNCHANGED <<ready, published, created, built, contextLock, target, ref, issued, calls>>
    /\ ReleaseUnreferenced
-----------------------------------------------------------------------------
Call(t) ==
    \/ CallNew(t)
    \/ \E place \in {"lookup", "free"}, h \in issued : CallWith(t, place, h)

Serve(t) ==
    \/ EnsureRuntime(t) \/ BuildContext(t) \/ Register(t) \/ ReturnHandle(t)
    \/ Retain(t) \/ LockContext(t) \/ UnlockContext(t) \/ Drop(t)
    \/ TakeCopy(t) \/ Detach(t)

Next == \E t \in Thread : Call(t) \/ Serve(t)

Spec == Init /\ [][Next]_vars

\* A thread inside the engine is scheduled, and evaluations return.
FairSpec == Spec /\ \A t \in Thread : WF_vars(Serve(t))
-----------------------------------------------------------------------------
Places == {"idle", "ensure", "build", "register", "return", "lookup", "wait", "inside",
           "drop", "free", "detach"}

TypeOK ==
    /\ ready \in BOOLEAN /\ published \in BOOLEAN
    /\ registryLock \in Thread \cup {NoThread}
    /\ slots \in Seq(Context \cup {NoContext}) /\ Len(slots) <= MaxSlots
    /\ generations \in Seq(0..GenerationRetired) /\ Len(generations) = Len(slots)
    /\ freeSlots \in Seq(1..MaxSlots)
    /\ live \in Nat /\ created \in Nat /\ detached \in Nat
    /\ built \subseteq Context /\ destroyed \subseteq built
    /\ contextLock \in [Context -> Thread \cup {NoThread}]
    /\ pc \in [Thread -> Places]
    /\ target \in [Thread -> Handle]
    /\ ref \in [Thread -> Context \cup {NoContext}]
    /\ issued \subseteq Handle
    /\ calls \in [Thread -> 0..MaxCalls]

\* The registry's account of itself (registerContext, zjs_z_free_context):
\* the free list has each empty slot that is not retired, once; live counts
\* the slots in use, and created and detached add up to it.
RegistryExact ==
    /\ \A i, j \in DOMAIN freeSlots : freeSlots[i] = freeSlots[j] => i = j
    /\ {freeSlots[i] : i \in DOMAIN freeSlots} =
          {at \in DOMAIN slots : slots[at] = NoContext /\ generations[at] # GenerationRetired}
    /\ live = Cardinality({at \in DOMAIN slots : slots[at] # NoContext})
    /\ created = live + detached

\* The runtime's root is published before any thread gets past
\* shim_ensure_runtime, also when attempts fail first.
PublishedBeforeUse == \A t \in Thread : pc[t] \notin {"idle", "ensure"} => published

\* A runtime is never destroyed by a thread in a critical section of the
\* registry: zjs_z_free_context's drop comes after it (docs/lifecycle.md,
\* Destruction), even when every other reference goes at the same time.
DestroyedOutsideRegistry ==
    [][\A t \in Thread : destroyed' # destroyed /\ pc[t] # pc'[t] => pc[t] # "detach"]_vars

\* What the contract promises, implemented (lib.zs's handles, locks and
\* references): a handle is issued once, names its context until it is
\* freed and never another, a call is admitted to the context its handle
\* names and refused only if there is none, and the context outlives every
\* call admitted.
Published == issued \cup {target[t] : t \in {u \in Thread : pc[u] = "return"}}
NamesNow == {<<[index |-> i, generation |-> generations[i]], slots[i]>> :
                i \in {j \in DOMAIN slots : slots[j] # NoContext}}
Given == {"lookup", "wait", "inside", "free", "detach", "drop"}
Asked == [t \in Thread |-> IF pc[t] \in Given THEN {target[t]} ELSE {}]
Table == INSTANCE ContextTable
            WITH issued <- Published, names <- NamesNow, asks <- Asked, holds <- ref
ImplementsTable == Table!Spec

\* Every call returns, admitted or not, whoever frees its context meanwhile.
CallsReturn == \A t \in Thread : pc[t] # "idle" ~> pc[t] = "idle"

\* A context no handle names any more is eventually destroyed, by whichever
\* thread drops the last reference.
Named(x) == \E h \in Published : Names(h) /\ slots[h.index] = x
FreedIsDestroyed ==
    \A x \in Context : x \in built /\ ~Named(x) ~> x \in destroyed \/ Named(x)
-----------------------------------------------------------------------------
(***************************************************************************)
(* The inductive invariant.                                                *)
(***************************************************************************)

\* Who holds what where: a reference from the building or the lookup of a
\* context to the drop, the registry's lock within a free.
ControlInv == \A t \in Thread :
    /\ ref[t] # NoContext <=> pc[t] \in {"register", "return", "wait", "inside", "drop", "detach"}
    /\ registryLock = t <=> pc[t] = "detach"
    /\ pc[t] = "detach" => Names(target[t]) /\ slots[target[t].index] = ref[t]
    /\ pc[t] \notin {"idle", "ensure"} => published
    /\ pc[t] \in {"lookup", "free", "wait", "inside", "detach"} => target[t] \in issued

\* Every handle given out is of a slot, of no generation after the slot's,
\* and of an earlier one once the slot is empty; free slots are empty.
HandleInv ==
    /\ \A h \in Published :
          /\ h.index \in DOMAIN slots
          /\ h.generation <= generations[h.index]
          /\ slots[h.index] = NoContext => h.generation < generations[h.index]
    /\ \A at \in DOMAIN slots : slots[at] # NoContext => generations[at] <= LastGeneration
    /\ \A i \in DOMAIN freeSlots :
          slots[freeSlots[i]] = NoContext /\ generations[freeSlots[i]] <= LastGeneration

\* A context is destroyed exactly when nothing refers to it.
Referenced == {slots[i] : i \in DOMAIN slots} \cup {ref[t] : t \in Thread}
ReferenceInv ==
    /\ Referenced \subseteq built \cup {NoContext}
    /\ destroyed = built \ Referenced
    /\ ready \/ issued # {} => published

Inv == TypeOK /\ ControlInv /\ HandleInv /\ ReferenceInv /\ RegistryExact
=============================================================================
