--------------------------- MODULE Modules_proofs ---------------------------
(***************************************************************************)
(* Proofs about module Modules, for every graph of modules and any number  *)
(* of evaluations: a body begins once and after all that its module needs, *)
(* and a promise settles with what became of all of its graph.             *)
(***************************************************************************)
EXTENDS Modules, WellFoundedInduction, FiniteSetTheorems, TLAPS

\* What is read of a module's record, of the calls of the walk and of those
\* that gather.
Root(m) == modules[m].cycleRoot
At(m) == modules[m].dfsIndex
Low(m) == modules[m].dfsAncestor
Turned(m) == modules[m].asyncEvaluation
Order(m) == modules[m].asyncOrder
Pend(m) == modules[m].pendingAsync
Waiters(m) == modules[m].asyncParents
Waiter(w, k) == modules[w].asyncParents[k]
Waiting(w) == 1 .. Len(modules[w].asyncParents)
Cap(m) == modules[m].capability
Err(m) == modules[m].error

On(m) == Status(m) = "evaluating"
Async(m) == Status(m) = "async"
Failed(m) == Status(m) = "failed"
Done(m) == Status(m) = "evaluated"
Ended(m) == Status(m) \in {"async", "evaluated"}
Unwalked(m) == Status(m) \in {"new", "linked"}

Depth == Len(frames)
Walker(i) == frames[i].module
Step(i) == frames[i].next
Walking(m) == \E i \in 1 .. Depth : Walker(i) = m
Gathering == 1 .. Len(gathering)
Gathers(k) == gathering[k].module
Counts(k) == gathering[k].next

Waits(p, w) == \E k \in Waiting(w) : Waiter(w, k) = p
Reaches(m, n) == n \in From(m, Imports)

\* The r-th request of m, and the requests it has been through.
Request(m, r) == graph.requested[m][r]
Requests(m) == 1 .. Len(graph.requested[m])
Asks(m, n) == \E r \in Requests(m) : Request(m, r) = n
Saw(m, n) ==
    \E r \in Requests(m) :
        Request(m, r) = n /\ \A i \in 1 .. Depth : Walker(i) = m => r < Step(i)
\* The last call of the walk is at its request of n.
Requiring(n) ==
    /\ Depth > 0 /\ Step(Depth) \in Requests(Walker(Depth)) /\ Request(Walker(Depth), Step(Depth)) = n

Statuses == {"new", "linked", "evaluating", "async", "evaluated", "failed"}
PromiseSet == [state : {"none", "pending", "fulfilled", "rejected"}, error : Module \union {NoError}]
Record ==
    [status : Statuses, error : Module \union {NoError}, dfsIndex : Nat, dfsAncestor : Nat,
     asyncEvaluation : BOOLEAN, asyncOrder : Nat, pendingAsync : Nat, asyncParents : Seq(Module),
     cycleRoot : Module, capability : PromiseSet]
Call == [module : Module, next : Nat]

TypeOK ==
    /\ graph \in Graphs
    /\ modules \in [Module -> Record]
    /\ asyncOrder \in Nat /\ index \in Nat
    /\ frames \in Seq(Call) /\ stack \in Seq(Module) /\ gathering \in Seq(Call)
    /\ ready \subseteq Module /\ running \subseteq Module
    /\ jobs \in Seq([module : Module, throws : BOOLEAN])
    /\ starts \in [Module -> {0, 1}]

\* The walk's stack has the modules being walked in the order they were
\* come to, its calls some of them, each at its request for the next.
StackInv ==
    /\ \A m \in Module : On(m) <=> \E i \in 1 .. Len(stack) : stack[i] = m
    /\ \A i, j \in 1 .. Len(stack) : i < j => At(stack[i]) < At(stack[j])
    /\ \A m \in Module : On(m) => At(m) < index /\ Depth > 0 /\ At(Walker(1)) <= At(m)
FramesInv ==
    /\ \A i \in 1 .. Depth : On(Walker(i)) /\ Step(i) \in 1 .. Len(graph.requested[Walker(i)]) + 1
    /\ \A i, j \in 1 .. Depth : i < j => At(Walker(i)) < At(Walker(j)) /\ Step(i) \in Requests(Walker(i))
    /\ \A i \in 1 .. Depth : i + 1 <= Depth => Request(Walker(i), Step(i)) = Walker(i + 1)
    /\ Depth > 0 => gathering = <<>> /\ ready = {}

\* m was come to before call i made its request for the next call, if it did.
Before(m, i) == i + 1 <= Depth => At(m) < At(Walker(i + 1))

\* Each call of the walk reaches what was come to since, and is reached by
\* what was come to before the next call.
ReachInv ==
    /\ \A i \in 1 .. Depth : \A m \in Module : On(m) =>
           /\ At(Walker(i)) <= At(m) => Reaches(Walker(i), m)
           /\ Before(m, i) => Reaches(m, Walker(i))
    /\ \A m \in Module : On(m) =>
           Low(m) <= At(m) /\ \E n \in Module : On(n) /\ At(n) = Low(m) /\ Reaches(m, n)

\* What is in m's cycle has the same root, and is in no other state than m
\* but by its own doing.
RootInv ==
    \A m \in Module :
        /\ Reaches(m, Root(m)) /\ Reaches(Root(m), m) /\ Root(Root(m)) = Root(m)
        /\ Root(m) # m => /\ Ended(m) \/ Failed(m)
                          /\ Ended(Root(m)) \/ Failed(Root(m))
                          /\ Turned(m) \/ Done(m)

\* The walk's lowest index of a module is no higher than those of the
\* modules it saw, and a call's no higher than those of what it called.
LowInv ==
    /\ \A m, n \in Module : On(m) /\ On(n) /\ Saw(m, n) =>
           /\ Low(m) <= At(n)
           /\ \A i \in 1 .. Depth : At(m) < At(Walker(i)) => At(n) < At(Walker(i))
    /\ \A i \in 1 .. Depth : \A m \in Module :
           On(m) /\ At(Walker(i)) <= At(m) /\ Before(m, i) =>
               \/ Low(Walker(i)) <= Low(m)
               \/ /\ i = Depth
                  /\ \E n \in Module : Requiring(n) /\ On(n) /\ At(n) <= At(m) /\ Low(n) <= Low(m)

\* A module's request is within its cycle, done, or waited for.
Met(m, n) ==
    \/ On(m) /\ On(n)
    \/ Ended(m) /\ Root(n) = Root(m)
    \/ Done(Root(n))
    \/ Waits(m, Root(n))

RequestInv ==
    /\ \A m, n \in Module : Asks(m, n) /\ Status(m) # "new" => Status(n) # "new"
    /\ \A m, n \in Module : Saw(m, n) /\ (On(m) \/ Ended(m)) => Met(m, n)

\* A module that waits for another was come to before it ended, waits until
\* it has, and fails with it.
WaitInv ==
    \A w, p \in Module : Waits(p, w) =>
        /\ Reaches(p, w)
        /\ ~Unwalked(p) /\ ~Unwalked(w)
        /\ Turned(w) \/ Done(w)
        /\ On(w) => On(p) /\ Saw(p, w)
        /\ Failed(w) => Failed(p)
        /\ On(w) \/ Async(w) => Turned(p) \/ Walking(p) \/ Failed(p)
        /\ Order(w) < asyncOrder
        /\ Turned(p) => Order(w) < Order(p)

\* A module that turned async is waited for by one of its cycle that was
\* come to before it, but for the cycle's root.
TurnInv ==
    \A m \in Module :
        /\ Turned(m) => On(m) \/ Async(m) \/ Failed(m)
        /\ Turned(m) => Order(m) < asyncOrder
        /\ Async(m) => Turned(m)
        /\ Unwalked(m) \/ Walking(m) => ~Turned(m) /\ starts[m] = 0
        /\ Turned(m) /\ Root(m) # m =>
               \E n \in Module : Waits(n, m) /\ Root(n) = Root(m) /\ At(n) < At(m)
        /\ Turned(m) /\ On(m) =>
               \/ \E n \in Module : On(n) /\ Waits(n, m) /\ At(n) < At(m)
               \/ Requiring(m) /\ At(Walker(Depth)) < At(m)

\* What p waits for and has not been counted: the waiter's places.
Cleared(w) == Done(w) \/ (w \in ready /\ ~HasAwait(w))
Due(p, w, k) ==
    /\ k \in Waiting(w) /\ Waiter(w, k) = p
    /\ \/ ~Cleared(w)
       \/ \E j \in Gathering : Gathers(j) = w /\ Counts(j) <= k
Uncounted(p) == {place \in Module \X Nat : Due(p, place[1], place[2])}

CountInv ==
    /\ \A p \in Module : ~Failed(p) => IsFiniteSet(Uncounted(p)) /\ Cardinality(Uncounted(p)) <= Pend(p)
    /\ \A p \in Module : Pend(p) > 0 => starts[p] = 0 /\ (Walking(p) \/ Turned(p) \/ Failed(p))
    /\ \A p \in ready : Pend(p) = 0 /\ starts[p] = 0 /\ (Async(p) \/ Failed(p))
GatherInv ==
    /\ \A j \in Gathering : Cleared(Gathers(j)) /\ Counts(j) >= 1
    /\ \A i, j \in Gathering : Gathers(i) = Gathers(j) => i = j

JobInv ==
    /\ \A m \in running : starts[m] = 1 /\ Turned(m)
    /\ \A i \in 1 .. Len(jobs) :
           starts[jobs[i].module] = 1 /\ Turned(jobs[i].module) /\ jobs[i].module \notin running
    /\ \A i, j \in 1 .. Len(jobs) : jobs[i].module = jobs[j].module => i = j

OutcomeInv ==
    /\ \A m \in Module : Failed(m) => Err(m) \in Module /\ Reaches(m, Err(m)) /\ Failed(Err(m))
    /\ \A m \in Module : Cap(m) # None =>
           /\ Root(m) = m
           /\ Unwalked(m) \/ On(m) => Depth > 0 /\ Walker(1) = m
           /\ Cap(m).state = "fulfilled" => Done(m)
           /\ Cap(m).state = "rejected" =>
                  Cap(m).error \in Module /\ Reaches(m, Cap(m).error) /\ Failed(Cap(m).error)
    /\ \A m, n \in Module : starts[m] = 1 /\ Asks(m, n) => Reaches(n, m) \/ Done(Root(n))

IInv ==
    /\ TypeOK /\ StackInv /\ FramesInv /\ ReachInv /\ LowInv
    /\ RootInv /\ RequestInv /\ WaitInv /\ TurnInv
    /\ CountInv /\ GatherInv /\ JobInv /\ OutcomeInv
-----------------------------------------------------------------------------
(* Graphs.                                                                 *)

LEMMA GraphTypes ==
    ASSUME TypeOK
    PROVE  /\ \A m \in Module : graph.requested[m] \in Seq(Module)
           /\ Imports = [m \in Module |-> Range(graph.requested[m])]
           /\ \A m \in Module : Imports[m] \subseteq Module
           /\ \A m, n \in Module : n \in Imports[m] <=> Asks(m, n)
           /\ \A m \in Module : \A r \in Requests(m) : Request(m, r) \in Module
  <1>1. graph \in Graphs
    BY DEF TypeOK
  <1>2. graph.requested \in [Module -> Seq(Module)]
    BY <1>1, ModulesAssumption
  <1>3. \A m \in Module : graph.requested[m] \in Seq(Module)
    BY <1>2
  <1>4. Imports = [m \in Module |-> Range(graph.requested[m])]
    BY DEF Imports, Requested
  <1>5. \A m \in Module : \A r \in Requests(m) : Request(m, r) \in Module
    BY <1>3 DEF Request, Requests
  <1>6. \A m \in Module : Imports[m] = {Request(m, r) : r \in Requests(m)}
    <2> SUFFICES ASSUME NEW m \in Module
                 PROVE  Imports[m] = {Request(m, r) : r \in Requests(m)}
      OBVIOUS
    <2>1. DOMAIN graph.requested[m] = Requests(m)
      BY <1>3 DEF Requests
    <2> QED
      BY <1>4, <2>1 DEF Request, Range
  <1>7. \A m \in Module : Imports[m] \subseteq Module
    BY <1>5, <1>6
  <1>8. \A m, n \in Module : n \in Imports[m] <=> Asks(m, n)
    BY <1>6 DEF Asks
  <1> QED
    BY <1>3, <1>4, <1>5, <1>7, <1>8

\* From: the first is among them, no edge leaves them, and they are in every
\* set that no edge leaves.
LEMMA FromFirst ==
    ASSUME NEW edges, NEW m \in Module
    PROVE  m \in From(m, edges) /\ From(m, edges) \subseteq Module
  BY DEF From

LEMMA FromClosed ==
    ASSUME NEW edges, NEW m \in Module, NEW n \in From(m, edges), NEW k \in edges[n], k \in Module
    PROVE  k \in From(m, edges)
  BY DEF From, Closed

LEMMA FromLeast ==
    ASSUME NEW edges, NEW m \in Module, NEW T \in SUBSET Module, m \in T,
           \A n \in T : edges[n] \subseteq T
    PROVE  From(m, edges) \subseteq T
  BY DEF From, Closed

LEMMA ReachesItself ==
    ASSUME NEW m \in Module
    PROVE  Reaches(m, m)
  BY FromFirst DEF Reaches

LEMMA ReachesOn ==
    ASSUME TypeOK, NEW m \in Module, NEW n \in Module, NEW k \in Module, Reaches(m, n), Asks(n, k)
    PROVE  Reaches(m, k)
  BY GraphTypes, FromClosed DEF Reaches

LEMMA ReachesLeast ==
    ASSUME TypeOK, NEW m \in Module, NEW T \in SUBSET Module, m \in T,
           \A n \in T : \A k \in Module : Asks(n, k) => k \in T,
           NEW n \in Module, Reaches(m, n)
    PROVE  n \in T
  <1>1. \A k \in T : Imports[k] \subseteq T
    BY GraphTypes
  <1> QED
    BY <1>1, FromLeast DEF Reaches

LEMMA ReachesThrough ==
    ASSUME TypeOK, NEW m \in Module, NEW n \in Module, NEW k \in Module, Reaches(m, n), Reaches(n, k)
    PROVE  Reaches(m, k)
  <1> DEFINE T == {x \in Module : Reaches(m, x)}
  <1>1. \A x \in T : \A y \in Module : Asks(x, y) => y \in T
    BY ReachesOn
  <1>2. n \in T /\ T \in SUBSET Module
    OBVIOUS
  <1>3. k \in T
    <2> HIDE DEF T
    <2> QED
      BY <1>1, <1>2, ReachesLeast
  <1> QED
    BY <1>3

LEMMA AskedIsReached ==
    ASSUME TypeOK, NEW m \in Module, NEW n \in Module, Asks(m, n)
    PROVE  Reaches(m, n)
  BY ReachesItself, ReachesOn

\* Connected is Reaches.
LEMMA ConnectedIsReaches ==
    ASSUME NEW m \in Module, NEW n \in Module
    PROVE  <<m, n>> \in Connected(Imports) <=> Reaches(m, n)
  BY DEF Connected, Reaches, From

\* The graph does not change.
LEMMA SameGraph ==
    ASSUME graph' = graph
    PROVE  /\ \A m, n : Reaches(m, n)' = Reaches(m, n)
           /\ \A m, n : Asks(m, n)' = Asks(m, n)
           /\ \A m, r : Request(m, r)' = Request(m, r)
           /\ \A m : Requests(m)' = Requests(m)
           /\ \A m : HasAwait(m)' = HasAwait(m)
           /\ \A m : graph'.requested[m] = graph.requested[m]
  BY DEF Reaches, From, Closed, Imports, Requested, Asks, Request, Requests, HasAwait
-----------------------------------------------------------------------------
(* What the invariant says of a state.                                     *)

\* The least of a property's modules, by the order they were come to.
LEMMA LeastAt ==
    ASSUME TypeOK, NEW T \in SUBSET Module, T # {}
    PROVE  \E m \in T : \A n \in T : At(m) <= At(n)
  <1> DEFINE N == {At(m) : m \in T}
  <1>1. N \in SUBSET Nat /\ N # {}
    BY DEF TypeOK, Record, At
  <1> HIDE DEF N
  <1>2. \E a \in N : \A b \in N : ~(<<b, a>> \in OpToRel(<, Nat))
    BY <1>1, NatLessThanWellFounded, WFMin
  <1>3. \E a \in N : \A b \in N : ~(b < a)
    BY <1>1, <1>2 DEF OpToRel
  <1>4. \E a \in N : \A b \in N : a <= b
    BY <1>1, <1>3
  <1> QED
    BY <1>4 DEF N

LEMMA AccessorTypes ==
    ASSUME TypeOK
    PROVE  /\ \A m \in Module : /\ Status(m) \in Statuses
                                /\ Root(m) \in Module
                                /\ At(m) \in Nat /\ Low(m) \in Nat /\ Order(m) \in Nat /\ Pend(m) \in Nat
                                /\ Turned(m) \in BOOLEAN
                                /\ Waiters(m) \in Seq(Module)
           /\ \A w \in Module : \A k \in Waiting(w) : Waiter(w, k) \in Module
           /\ \A p, w \in Module : Waits(p, w) <=> p \in Range(Waiters(w))
           /\ Depth \in Nat
           /\ \A i \in 1 .. Depth : Walker(i) \in Module /\ Step(i) \in Nat
           /\ \A j \in Gathering : Gathers(j) \in Module /\ Counts(j) \in Nat
  <1>1. \A m \in Module : modules[m] \in Record
    BY DEF TypeOK
  <1>2. \A m \in Module : /\ Status(m) \in Statuses
                          /\ Root(m) \in Module
                          /\ At(m) \in Nat /\ Low(m) \in Nat /\ Order(m) \in Nat /\ Pend(m) \in Nat
                          /\ Turned(m) \in BOOLEAN
                          /\ Waiters(m) \in Seq(Module)
    BY <1>1 DEF Record, Status, Root, At, Low, Order, Pend, Turned, Waiters
  <1>3. \A w \in Module : \A k \in Waiting(w) : Waiter(w, k) \in Module
    BY <1>2 DEF Waiters, Waiter, Waiting
  <1>4. \A w \in Module : DOMAIN Waiters(w) = Waiting(w)
    BY <1>2 DEF Waiters, Waiting
  <1>5. \A p, w \in Module : Waits(p, w) <=> p \in Range(Waiters(w))
    BY <1>4 DEF Waits, Range, Waiter, Waiters
  <1>6. frames \in Seq(Call) /\ gathering \in Seq(Call)
    BY DEF TypeOK
  <1>7. /\ Depth \in Nat /\ \A i \in 1 .. Depth : frames[i] \in Call
        /\ \A j \in Gathering : gathering[j] \in Call
    BY <1>6 DEF Depth, Gathering
  <1>8. /\ \A i \in 1 .. Depth : Walker(i) \in Module /\ Step(i) \in Nat
        /\ \A j \in Gathering : Gathers(j) \in Module /\ Counts(j) \in Nat
    BY <1>7 DEF Walker, Step, Gathers, Counts, Call
  <1> QED
    BY <1>2, <1>3, <1>5, <1>7, <1>8

LEMMA JobTypes ==
    ASSUME TypeOK
    PROVE  /\ running \subseteq Module /\ ready \subseteq Module
           /\ Len(jobs) \in Nat /\ \A i \in 1 .. Len(jobs) : jobs[i].module \in Module
           /\ \A m \in Module : starts[m] \in {0, 1}
  <1> DEFINE J == [module : Module, throws : BOOLEAN]
  <1>1. jobs \in Seq(J)
    BY DEF TypeOK
  <1>2. \A j \in J : j.module \in Module
    OBVIOUS
  <1> HIDE DEF J
  <1>3. Len(jobs) \in Nat /\ \A i \in 1 .. Len(jobs) : jobs[i] \in J
    BY <1>1
  <1> QED
    BY <1>2, <1>3 DEF TypeOK

\* A module is in one state.
LEMMA OneState ==
    ASSUME TypeOK, NEW m \in Module
    PROVE  /\ On(m) => ~Async(m) /\ ~Failed(m) /\ ~Done(m) /\ ~Unwalked(m) /\ ~Ended(m)
           /\ Async(m) => ~Failed(m) /\ ~Done(m) /\ ~Unwalked(m)
           /\ Failed(m) => ~Done(m) /\ ~Unwalked(m) /\ ~Ended(m)
           /\ Ended(m) <=> Async(m) \/ Done(m)
           /\ Unwalked(m) => ~Done(m) /\ ~Ended(m) /\ ~On(m)
           /\ On(m) \/ Async(m) \/ Failed(m) \/ Done(m) \/ Unwalked(m)
  BY AccessorTypes DEF On, Async, Failed, Done, Unwalked, Ended, Statuses

LEMMA WalkingIsOn ==
    ASSUME FramesInv, NEW m, Walking(m)
    PROVE  On(m)
  BY DEF FramesInv, Walking

\* What a module has ended has seen all that it requests.
LEMMA SawAll ==
    ASSUME NEW m, NEW n, ~Walking(m), Asks(m, n)
    PROVE  Saw(m, n)
  BY DEF Saw, Asks, Walking

\* A module that is done waits for nothing that is not.
LEMMA DoneWaitsForDone ==
    ASSUME TypeOK, FramesInv, TurnInv, WaitInv, NEW p \in Module, NEW w \in Module, Done(p), Waits(p, w)
    PROVE  Done(w)
  <1>1. ~On(p) /\ ~Async(p) /\ ~Failed(p)
    BY OneState
  <1>2. ~Turned(p) /\ ~Walking(p)
    BY <1>1, WalkingIsOn DEF TurnInv
  <1>3. ~On(w) /\ ~Async(w) /\ ~Failed(w) /\ ~Unwalked(w)
    BY <1>1, <1>2 DEF WaitInv
  <1> QED
    BY <1>3, OneState

\* A cycle is done when its root is.
LEMMA DoneCycle ==
    ASSUME TypeOK, FramesInv, RootInv, TurnInv, WaitInv, NEW m \in Module, Done(Root(m))
    PROVE  Done(m)
  <1> DEFINE T == {x \in Module : Root(x) = Root(m) /\ ~Done(x)}
  <1> SUFFICES ASSUME m \in T
               PROVE  FALSE
    OBVIOUS
  <1>1. PICK x \in T : \A y \in T : At(x) <= At(y)
    BY LeastAt, T \in SUBSET Module
  <1>2. Root(x) # x /\ Turned(x)
    BY DEF RootInv
  <1>3. PICK q \in Module : Waits(q, x) /\ Root(q) = Root(x) /\ At(q) < At(x)
    BY <1>2 DEF TurnInv
  <1>4. Done(q)
    BY <1>1, <1>3, AccessorTypes
  <1> QED
    BY <1>3, <1>4, DoneWaitsForDone

\* When a module's cycle is done, so is all that the module reaches.
LEMMA DoneReaches ==
    ASSUME TypeOK, FramesInv, RootInv, RequestInv, TurnInv, WaitInv,
           NEW m \in Module, Done(Root(m)), NEW n \in Module, Reaches(m, n)
    PROVE  Done(n)
  <1> DEFINE T == {x \in Module : Done(Root(x))}
  <1>1. ASSUME NEW x \in T, NEW y \in Module, Asks(x, y)
        PROVE  y \in T
    <2>1. Done(x) /\ ~On(x) /\ Ended(x)
      BY DoneCycle, OneState
    <2>2. Met(x, y)
      BY <1>1, <2>1, SawAll, WalkingIsOn DEF RequestInv
    <2>3. Root(y) \in Module
      BY AccessorTypes
    <2>4. Done(Root(y))
      BY <2>1, <2>2, <2>3, DoneWaitsForDone DEF Met
    <2> QED
      BY <2>4
  <1>2. m \in T /\ T \in SUBSET Module
    OBVIOUS
  <1>3. n \in T
    <2> HIDE DEF T
    <2> QED
      BY <1>1, <1>2, ReachesLeast
  <1> QED
    BY <1>3, DoneCycle

\* The properties of module Modules follow.
LEMMA PropertiesFollow ==
    ASSUME IInv
    PROVE  DependenciesFirst /\ SettledTruly
  <1> USE DEF IInv
  <1>1. ASSUME NEW m \in Module
        PROVE  /\ starts[m] <= 1
               /\ starts[m] = 1 =>
                      \A n \in Range(Requested(m)) :
                          \/ <<n, m>> \in Connected(Imports)
                          \/ \A k \in Module : <<n, k>> \in Connected(Imports) => Status(k) = "evaluated"
    <2>1. starts[m] \in {0, 1}
      BY DEF TypeOK
    <2>2. ASSUME starts[m] = 1, NEW n \in Range(Requested(m)), ~Reaches(n, m), NEW k \in Module, Reaches(n, k)
          PROVE  Done(k)
      <3>1. n \in Module /\ Asks(m, n)
        BY GraphTypes DEF Requested
      <3>2. Done(Root(n))
        BY <2>2, <3>1 DEF OutcomeInv
      <3> QED
        BY <2>2, <3>1, <3>2, DoneReaches
    <2>3. Range(Requested(m)) \subseteq Module
      BY GraphTypes DEF Requested
    <2> QED
      BY <2>1, <2>2, <2>3, ConnectedIsReaches DEF Done
  <1>2. ASSUME NEW m \in Module
        PROVE  /\ modules[m].capability.state = "fulfilled" =>
                      \A n \in Module : <<m, n>> \in Connected(Imports) => Status(n) = "evaluated"
               /\ modules[m].capability.state = "rejected" =>
                      /\ <<m, modules[m].capability.error>> \in Connected(Imports)
                      /\ Status(modules[m].capability.error) = "failed"
    <2>1. Cap(m).state \in {"fulfilled", "rejected"} => Cap(m) # None
      BY DEF None, Promise
    <2>2. ASSUME Cap(m).state = "fulfilled", NEW n \in Module, Reaches(m, n)
          PROVE  Done(n)
      BY <2>1, <2>2, DoneReaches DEF OutcomeInv
    <2>3. ASSUME Cap(m).state = "rejected"
          PROVE  Cap(m).error \in Module /\ Reaches(m, Cap(m).error) /\ Failed(Cap(m).error)
      BY <2>1, <2>3 DEF OutcomeInv
    <2> QED
      BY <2>2, <2>3, ConnectedIsReaches DEF Cap, Done, Failed
  <1> QED
    BY <1>1, <1>2 DEF DependenciesFirst, SettledTruly
-----------------------------------------------------------------------------
(* Types.                                                                  *)

LEMMA RecordTypes ==
    /\ Promise("none", NoError) \in PromiseSet /\ Pending \in PromiseSet /\ Fulfilled \in PromiseSet
    /\ \A e \in Module : Promise("rejected", e) \in PromiseSet
    /\ \A m \in Module : NewRecord(m) \in Record
    /\ \A r \in Record :
           /\ r.status \in Statuses /\ r.error \in Module \union {NoError} /\ r.dfsIndex \in Nat
           /\ r.dfsAncestor \in Nat /\ r.asyncEvaluation \in BOOLEAN /\ r.asyncOrder \in Nat
           /\ r.pendingAsync \in Nat /\ r.asyncParents \in Seq(Module) /\ r.cycleRoot \in Module
           /\ r.capability \in PromiseSet
    /\ \A r \in Record :
           /\ \A s \in Statuses : [r EXCEPT !.status = s] \in Record
           /\ \A e \in Module \union {NoError} : [r EXCEPT !.error = e] \in Record
           /\ \A k \in Nat : /\ [r EXCEPT !.dfsIndex = k] \in Record
                             /\ [r EXCEPT !.dfsAncestor = k] \in Record
                             /\ [r EXCEPT !.asyncOrder = k] \in Record
                             /\ [r EXCEPT !.pendingAsync = k] \in Record
           /\ \A b \in BOOLEAN : [r EXCEPT !.asyncEvaluation = b] \in Record
           /\ \A q \in Seq(Module) : [r EXCEPT !.asyncParents = q] \in Record
           /\ \A m \in Module : [r EXCEPT !.cycleRoot = m] \in Record
           /\ \A c \in PromiseSet : [r EXCEPT !.capability = c] \in Record
  <1>1. /\ Promise("none", NoError) \in PromiseSet /\ Pending \in PromiseSet /\ Fulfilled \in PromiseSet
        /\ \A e \in Module : Promise("rejected", e) \in PromiseSet
    BY DEF Promise, Pending, Fulfilled, PromiseSet
  <1>2. \A m \in Module : NewRecord(m) \in Record
    <2> << >> \in Seq(Module)
      OBVIOUS
    <2> QED
      BY <1>1 DEF NewRecord, Record, Statuses, None
  <1> QED
    BY <1>1, <1>2 DEF Record
-----------------------------------------------------------------------------
(* What does not change when a variable, or a field of the records, does   *)
(* not.                                                                    *)

SameRoots == \A m \in Module : Root(m)' = Root(m)
SameIndexes == \A m \in Module : At(m)' = At(m) /\ Low(m)' = Low(m)
SameTurns == \A m \in Module : Turned(m)' = Turned(m) /\ Order(m)' = Order(m)
SamePend == \A m \in Module : Pend(m)' = Pend(m)
SameWaiters == \A m \in Module : Waiters(m)' = Waiters(m)
SameOutcomes == \A m \in Module : Err(m)' = Err(m) /\ Cap(m)' = Cap(m)
SameStatus(m) ==
    /\ On(m)' = On(m) /\ Async(m)' = Async(m) /\ Failed(m)' = Failed(m) /\ Done(m)' = Done(m)
    /\ Ended(m)' = Ended(m) /\ Unwalked(m)' = Unwalked(m)
    /\ (Status(m) = "new")' => Status(m) = "new"

LEMMA SameWaits ==
    ASSUME SameWaiters
    PROVE  \A w \in Module : /\ Waiting(w)' = Waiting(w)
                             /\ \A k : Waiter(w, k)' = Waiter(w, k)
                             /\ \A p : Waits(p, w)' = Waits(p, w)
  BY DEF SameWaiters, Waiters, Waiting, Waiter, Waits

LEMMA SameFrames ==
    ASSUME frames' = frames, graph' = graph
    PROVE  /\ Depth' = Depth
           /\ \A i : Walker(i)' = Walker(i) /\ Step(i)' = Step(i)
           /\ \A m : Walking(m)' = Walking(m) /\ Requiring(m)' = Requiring(m)
           /\ \A m, n : Saw(m, n)' = Saw(m, n)
  BY DEF Depth, Walker, Step, Walking, Requiring, Saw, Request, Requests

LEMMA SameGathering ==
    ASSUME gathering' = gathering
    PROVE  Gathering' = Gathering /\ \A j : Gathers(j)' = Gathers(j) /\ Counts(j)' = Counts(j)
  BY DEF Gathering, Gathers, Counts

LEMMA EqualStatus ==
    ASSUME NEW m, Status(m)' = Status(m)
    PROVE  SameStatus(m)
  BY DEF SameStatus, On, Async, Failed, Done, Ended, Unwalked

LEMMA OneMore ==
    ASSUME NEW S, IsFiniteSet(S), NEW x
    PROVE  IsFiniteSet(S \union {x}) /\ Cardinality(S \union {x}) <= Cardinality(S) + 1
  <1>1. Cardinality(S) \in Nat
    BY FS_CardinalityType
  <1>2. /\ IsFiniteSet(S \union {x})
        /\ Cardinality(S \union {x}) = IF x \in S THEN Cardinality(S) ELSE Cardinality(S) + 1
    BY FS_AddElement
  <1> QED
    BY <1>1, <1>2

\* What fewer wait for is no less counted.
LEMMA FewerUncounted ==
    ASSUME NEW p \in Module, IsFiniteSet(Uncounted(p)), Cardinality(Uncounted(p)) <= Pend(p), Pend(p) \in Nat,
           \A w \in Module : \A k \in Nat : Due(p, w, k)' => Due(p, w, k)
    PROVE  IsFiniteSet(Uncounted(p)') /\ Cardinality(Uncounted(p)') <= Pend(p)
  <1>1. Uncounted(p)' = {place \in Module \X Nat : Due(p, place[1], place[2])'}
    BY DEF Uncounted
  <1>2. Uncounted(p)' \subseteq Uncounted(p)
    BY <1>1 DEF Uncounted
  <1>3. IsFiniteSet(Uncounted(p)') /\ Cardinality(Uncounted(p)') <= Cardinality(Uncounted(p))
    BY <1>2, FS_Subset
  <1>4. Cardinality(Uncounted(p)') \in Nat /\ Cardinality(Uncounted(p)) \in Nat
    BY <1>3, FS_CardinalityType
  <1> QED
    BY <1>3, <1>4
-----------------------------------------------------------------------------
(* A module entered.                                                       *)

Enters(n, at) ==
    /\ graph' = graph /\ asyncOrder' = asyncOrder /\ gathering' = gathering /\ ready' = ready
    /\ running' = running /\ jobs' = jobs /\ starts' = starts
    /\ frames' = Append(frames, [module |-> n, next |-> 1])
    /\ stack' = Append(stack, n) /\ index' = at + 1
    /\ modules' \in [Module -> Record]
    /\ SameRoots /\ SameTurns /\ SameWaiters
    /\ \A m \in Module \ {n} : /\ At(m)' = At(m) /\ Low(m)' = Low(m) /\ Pend(m)' = Pend(m)
                               /\ SameStatus(m) /\ Cap(m)' = Cap(m)
    /\ \A m \in Module : Err(m)' = Err(m)
    /\ On(n)' /\ At(n)' = at /\ Low(n)' = at /\ Pend(n)' = 0
    /\ Cap(n)' = Cap(n) \/ (Depth = 0 /\ Cap(n)' = Pending)
\* When a module may be: it is what the last call requires, if there is one.
MayEnter(n, at) ==
    /\ n \in Module /\ at \in Nat /\ Unwalked(n)
    /\ \A m \in Module : On(m) => At(m) < at
    /\ Depth > 0 => Requiring(n)
    /\ gathering = <<>> /\ ready = {}

LEMMA EnteredFrames ==
    ASSUME TypeOK, NEW n \in Module, NEW at, Enters(n, at)
    PROVE  /\ Depth' = Depth + 1
           /\ \A i \in 1 .. Depth : Walker(i)' = Walker(i) /\ Step(i)' = Step(i)
           /\ Walker(Depth)' = n /\ Step(Depth)' = 1
           /\ Len(stack)' = Len(stack) + 1
           /\ \A i \in 1 .. Len(stack) : stack'[i] = stack[i]
           /\ stack'[Len(stack) + 1] = n
           /\ \A m : Walking(m)' <=> Walking(m) \/ m = n
           /\ \A m, k : Saw(m, k)' => Saw(m, k)
           /\ \A m, k : m # n => Saw(m, k)' = Saw(m, k)
           /\ \A k \in Module : ~Saw(n, k)'
  <1>1. frames \in Seq(Call) /\ stack \in Seq(Module) /\ [module |-> n, next |-> 1] \in Call
    BY DEF TypeOK, Call
  <1>2. /\ Len(frames') = Len(frames) + 1
        /\ \A i \in 1 .. Len(frames) : frames'[i] = frames[i]
        /\ frames'[Len(frames) + 1] = [module |-> n, next |-> 1]
        /\ Len(frames) \in Nat
    BY <1>1 DEF Enters
  <1>3. /\ Depth' = Depth + 1 /\ Depth \in Nat
        /\ \A i \in 1 .. Depth : Walker(i)' = Walker(i) /\ Step(i)' = Step(i)
        /\ Walker(Depth)' = n /\ Step(Depth)' = 1
    BY <1>2 DEF Depth, Walker, Step
  <1>4. /\ Len(stack)' = Len(stack) + 1
        /\ \A i \in 1 .. Len(stack) : stack'[i] = stack[i]
        /\ stack'[Len(stack) + 1] = n
    BY <1>1 DEF Enters
  <1>5. 1 .. Depth' = (1 .. Depth) \union {Depth + 1}
    BY <1>3
  <1>6. \A m : Walking(m)' <=> Walking(m) \/ m = n
    BY <1>3, <1>5 DEF Walking
  <1>7. \A m, r : Request(m, r)' = Request(m, r) /\ Requests(m)' = Requests(m)
    BY SameGraph DEF Enters
  <1>8. \A m, k : Saw(m, k)' => Saw(m, k)
    BY <1>3, <1>5, <1>7 DEF Saw
  <1>9. \A m, k : m # n => Saw(m, k)' = Saw(m, k)
    BY <1>3, <1>5, <1>7 DEF Saw
  <1>10. \A k \in Module : ~Saw(n, k)'
    <2>1. ASSUME NEW r \in Requests(n)
          PROVE  ~(r < Step(Depth)')
      BY <2>1, <1>3 DEF Requests
    <2> QED
      BY <2>1, <1>3, <1>5, <1>7 DEF Saw
  <1> QED
    BY <1>3, <1>4, <1>6, <1>8, <1>9, <1>10

\* What a module entered is not: seen, waited for, or waiting.
LEMMA UnwalkedIsAlone ==
    ASSUME TypeOK, FramesInv, RootInv, RequestInv, WaitInv, TurnInv, NEW n \in Module, Unwalked(n)
    PROVE  /\ Root(n) = n
           /\ \A m \in Module : ~Waits(m, n) /\ ~Waits(n, m)
           /\ \A m \in Module : Saw(m, n) => ~On(m) /\ ~Ended(m)
           /\ \A m \in Module : Root(m) = n => m = n
           /\ ~Walking(n) /\ ~Turned(n) /\ starts[n] = 0
  <1>1. ~Ended(n) /\ ~Failed(n) /\ ~On(n) /\ ~Done(n)
    BY OneState
  <1>2. Root(n) = n
    BY <1>1 DEF RootInv
  <1>3. \A m \in Module : ~Waits(m, n) /\ ~Waits(n, m)
    BY DEF WaitInv
  <1>4. ASSUME NEW m \in Module, Root(m) = n
        PROVE  m = n
    BY <1>1, <1>4 DEF RootInv
  <1>5. ASSUME NEW m \in Module, Saw(m, n), On(m) \/ Ended(m)
        PROVE  FALSE
    <2>1. Met(m, n)
      BY <1>5 DEF RequestInv
    <2>2. Root(m) = n
      BY <2>1, <1>1, <1>2, <1>3 DEF Met
    <2> QED
      BY <2>2, <1>4, <1>1, <1>5
  <1> QED
    BY <1>1, <1>2, <1>3, <1>4, <1>5, WalkingIsOn DEF TurnInv

LEMMA EnteredStack ==
    ASSUME IInv, NEW n, NEW at, MayEnter(n, at), Enters(n, at)
    PROVE  StackInv' /\ FramesInv'
  <1> USE DEF IInv, MayEnter
  <1>1. /\ ~On(n)
        /\ \A m \in Module : m # n => On(m)' = On(m) /\ At(m)' = At(m)
        /\ On(n)' /\ At(n)' = at
    BY OneState DEF Enters, SameStatus
  <1>2. Len(stack) \in Nat /\ \A i \in 1 .. Len(stack) : stack[i] \in Module
    BY DEF TypeOK
  <1> PICK top \in Nat : top = Len(stack) + 1
    BY <1>2
  <1>3. /\ Len(stack)' = top /\ \A i \in 1 .. Len(stack) : stack'[i] = stack[i]
        /\ stack'[top] = n
    BY EnteredFrames
  <1>4. \A i \in 1 .. top : i \in 1 .. Len(stack) \/ i = top
    BY <1>2
  <1>5. top \in 1 .. top /\ \A i \in 1 .. Len(stack) : i \in 1 .. top
    BY <1>2
  <1>6. \A i \in 1 .. Len(stack) : On(stack[i]) /\ stack[i] # n
    BY <1>1, <1>2 DEF StackInv
  <1>7. \A m \in Module : On(m)' <=> \E i \in 1 .. Len(stack)' : stack'[i] = m
    BY <1>1, <1>3, <1>4, <1>5 DEF StackInv
  <1>8. \A i, j \in 1 .. Len(stack)' : i < j => At(stack[i])' < At(stack[j])'
    <2>1. \A i \in 1 .. Len(stack) : At(stack[i])' = At(stack[i])
      BY <1>1, <1>2, <1>3, <1>6
    <2>2. At(stack[top])' = at
      BY <1>1, <1>3
    <2>3. \A i \in 1 .. Len(stack) : At(stack[i]) < at
      BY <1>2, <1>6
    <2>4. ASSUME NEW i \in 1 .. top, NEW j \in 1 .. top, i < j
          PROVE  At(stack[i])' < At(stack[j])'
      <3>1. i \in 1 .. Len(stack)
        BY <2>4, <1>2
      <3> QED
        BY <3>1, <2>1, <2>2, <2>3, <1>4, <2>4 DEF StackInv
    <2> QED
      BY <2>4, <1>3
  <1>9. Depth \in Nat /\ \A i \in 1 .. Depth : Walker(i) \in Module /\ On(Walker(i)) /\ Walker(i) # n
    BY <1>1, AccessorTypes DEF FramesInv
  <1> PICK deep \in Nat : deep = Depth + 1
    BY <1>9
  <1>10. /\ Depth' = deep
         /\ \A i \in 1 .. Depth : Walker(i)' = Walker(i) /\ Step(i)' = Step(i) /\ At(Walker(i))' = At(Walker(i))
                                  /\ On(Walker(i))'
         /\ Walker(deep)' = n /\ Step(deep)' = 1 /\ At(Walker(deep))' = at /\ On(Walker(deep))'
    <2>1. /\ Depth' = deep /\ \A i \in 1 .. Depth : Walker(i)' = Walker(i) /\ Step(i)' = Step(i)
          /\ Walker(deep)' = n /\ Step(deep)' = 1
      BY EnteredFrames
    <2>2. \A i \in 1 .. Depth : At(Walker(i))' = At(Walker(i)) /\ On(Walker(i))'
      BY <1>1, <1>9, <2>1
    <2>3. At(Walker(deep))' = at /\ On(Walker(deep))'
      BY <1>1, <2>1
    <2> QED
      BY <2>1, <2>2, <2>3
  <1>11. \A i \in 1 .. deep : i \in 1 .. Depth \/ i = deep
    BY <1>9
  <1>12. \A m \in Module : On(m)' => At(m)' < index' /\ Depth' > 0 /\ At(Walker(1))' <= At(m)'
    <2>1. index' = at + 1
      BY DEF Enters
    <2>2. \A m \in Module : On(m) => At(m) < at /\ Depth > 0 /\ At(Walker(1)) <= At(m)
      BY DEF StackInv
    <2>3. \A m \in Module : At(m) \in Nat
      BY AccessorTypes
    <2>4. ASSUME NEW m \in Module, On(m)'
          PROVE  At(m)' < index' /\ Depth' > 0 /\ At(Walker(1))' <= At(m)'
      <3>1. CASE m # n
        BY <1>1, <1>9, <1>10, <2>1, <2>2, <2>3, <2>4, <3>1
      <3>2. CASE m = n /\ Depth = 0
        BY <1>1, <1>10, <2>1, <3>2
      <3>3. CASE m = n /\ Depth > 0
        <4>1. 1 \in 1 .. Depth /\ At(Walker(1)) < at
          BY <1>9, <3>3
        <4> QED
          BY <1>1, <1>9, <1>10, <2>1, <3>3, <4>1, <2>3
      <3> QED
        BY <3>1, <3>2, <3>3, <1>9
    <2> QED
      BY <2>4
  <1>13. StackInv'
    BY <1>7, <1>8, <1>12 DEF StackInv
  <1>14. /\ \A m, r : Request(m, r)' = Request(m, r)
         /\ \A m : Requests(m)' = Requests(m)
         /\ \A m : graph'.requested[m] = graph.requested[m]
    BY SameGraph DEF Enters
  <1>15. \A i \in 1 .. Depth' : On(Walker(i))' /\ Step(i)' \in 1 .. Len((graph.requested[Walker(i)])') + 1
    BY <1>10, <1>11, <1>14, GraphTypes DEF FramesInv
  <1>16. \A i \in 1 .. Depth : Step(i) \in Requests(Walker(i)) \/ i < Depth
    BY <1>9 DEF Requiring
  <1>17. \A i, j \in 1 .. Depth' : i < j => At(Walker(i))' < At(Walker(j))' /\ Step(i)' \in Requests(Walker(i))'
    <2>1. ASSUME NEW i \in 1 .. deep, NEW j \in 1 .. deep, i < j
          PROVE  At(Walker(i))' < At(Walker(j))' /\ Step(i)' \in Requests(Walker(i))'
      <3>1. i \in 1 .. Depth
        BY <2>1, <1>9
      <3>2. CASE j = deep
        <4>1. Step(i) \in Requests(Walker(i))
          BY <3>1, <1>9, <1>16 DEF FramesInv
        <4> QED
          BY <3>1, <3>2, <4>1, <1>9, <1>10, <1>14
      <3>3. CASE j \in 1 .. Depth
        BY <3>1, <3>3, <2>1, <1>10, <1>14 DEF FramesInv
      <3> QED
        BY <3>2, <3>3, <1>11
    <2> QED
      BY <2>1, <1>10
  <1>18. \A i \in 1 .. Depth' : i + 1 <= Depth' => Request(Walker(i), Step(i))' = Walker(i + 1)'
    <2>1. ASSUME NEW i \in 1 .. deep, i + 1 <= deep
          PROVE  Request(Walker(i), Step(i))' = Walker(i + 1)'
      <3>1. i \in 1 .. Depth /\ i + 1 \in Nat
        BY <2>1, <1>9
      <3>2. Request(Walker(i), Step(i))' = Request(Walker(i), Step(i))
        BY <3>1, <1>10, <1>14
      <3>3. CASE i + 1 = deep
        BY <3>1, <3>2, <3>3, <1>9, <1>10 DEF Requiring
      <3>4. CASE i + 1 \in 1 .. Depth
        BY <3>1, <3>2, <3>4, <1>10 DEF FramesInv
      <3> QED
        BY <3>3, <3>4, <2>1, <1>9
    <2> QED
      BY <2>1, <1>10
  <1> QED
    BY <1>13, <1>15, <1>17, <1>18 DEF FramesInv, Enters

LEMMA EnteredCalls ==
    ASSUME IInv, NEW n, NEW at, MayEnter(n, at), Enters(n, at)
    PROVE  \E deep \in Nat :
               /\ deep = Depth + 1 /\ Depth \in Nat
               /\ Depth' = deep
               /\ \A i \in 1 .. deep : i \in 1 .. Depth \/ i = deep
               /\ \A i \in 1 .. Depth :
                      /\ Walker(i) \in Module /\ On(Walker(i)) /\ Walker(i) # n
                      /\ Walker(i)' = Walker(i) /\ Step(i)' = Step(i)
                      /\ At(Walker(i)) < at /\ At(Walker(i))' = At(Walker(i)) /\ Low(Walker(i))' = Low(Walker(i))
               /\ Walker(deep)' = n /\ At(Walker(deep))' = at /\ Low(Walker(deep))' = at
  <1> USE DEF IInv, MayEnter
  <1>1. Depth \in Nat /\ \A i \in 1 .. Depth : Walker(i) \in Module /\ On(Walker(i)) /\ Walker(i) # n
    BY AccessorTypes, OneState DEF FramesInv
  <1> PICK deep \in Nat : deep = Depth + 1
    BY <1>1
  <1>2. /\ Depth' = deep /\ \A i \in 1 .. Depth : Walker(i)' = Walker(i) /\ Step(i)' = Step(i)
        /\ Walker(deep)' = n
    BY EnteredFrames
  <1>3. \A i \in 1 .. Depth : At(Walker(i))' = At(Walker(i)) /\ Low(Walker(i))' = Low(Walker(i))
    BY <1>1, <1>2 DEF Enters
  <1>4. At(Walker(deep))' = at /\ Low(Walker(deep))' = at
    BY <1>2 DEF Enters
  <1>5. \A i \in 1 .. deep : i \in 1 .. Depth \/ i = deep
    BY <1>1
  <1> QED
    BY <1>1, <1>2, <1>3, <1>4, <1>5

\* What the last call requires, its caller reaches.
LEMMA RequiredIsReached ==
    ASSUME TypeOK, NEW n \in Module, Requiring(n)
    PROVE  Reaches(Walker(Depth), n)
  <1> PICK d \in 1 .. Depth : d = Depth
    <2>1. Depth \in Nat /\ Depth > 0
      BY AccessorTypes DEF Requiring
    <2> QED
      BY <2>1
  <1> PICK m \in Module : m = Walker(d)
    BY AccessorTypes
  <1>1. Asks(m, n)
    BY DEF Requiring, Asks
  <1>2. Reaches(m, n)
    BY <1>1, AskedIsReached
  <1> QED
    BY <1>2

LEMMA EnteredReach ==
    ASSUME IInv, NEW n, NEW at, MayEnter(n, at), Enters(n, at)
    PROVE  ReachInv'
  <1> USE DEF IInv, MayEnter
  <1>1. PICK deep \in Nat :
               /\ deep = Depth + 1 /\ Depth \in Nat
               /\ Depth' = deep
               /\ \A i \in 1 .. deep : i \in 1 .. Depth \/ i = deep
               /\ \A i \in 1 .. Depth :
                      /\ Walker(i) \in Module /\ On(Walker(i)) /\ Walker(i) # n
                      /\ Walker(i)' = Walker(i) /\ Step(i)' = Step(i)
                      /\ At(Walker(i)) < at /\ At(Walker(i))' = At(Walker(i)) /\ Low(Walker(i))' = Low(Walker(i))
               /\ Walker(deep)' = n /\ At(Walker(deep))' = at /\ Low(Walker(deep))' = at
    BY EnteredCalls
  <1>2. \A m, k : Reaches(m, k)' = Reaches(m, k)
    BY SameGraph DEF Enters
  <1>3. /\ \A m \in Module : m # n => On(m)' = On(m) /\ At(m)' = At(m) /\ Low(m)' = Low(m)
        /\ On(n)' /\ At(n)' = at /\ Low(n)' = at
        /\ ~On(n)
    BY OneState DEF Enters, SameStatus
  <1>4. \A m \in Module : At(m) \in Nat /\ Low(m) \in Nat
    BY AccessorTypes
  <1>5. \A m \in Module : On(m) => Depth > 0
    BY DEF StackInv
  \* All that is being walked reaches the last call's module, and so n.
  <1>6. ASSUME NEW m \in Module, On(m)
        PROVE  Reaches(m, n)
    <2>1. Depth \in 1 .. Depth /\ Before(m, Depth)
      BY <1>1, <1>5, <1>6 DEF Before
    <2>2. Reaches(m, Walker(Depth)) /\ Reaches(Walker(Depth), n)
      BY <2>1, <1>6, RequiredIsReached DEF ReachInv
    <2> QED
      BY <2>1, <2>2, <1>1, ReachesThrough
  <1>7. ASSUME NEW i \in 1 .. deep, NEW m \in Module, On(m)'
        PROVE  /\ At(Walker(i))' <= At(m)' => Reaches(Walker(i), m)'
               /\ Before(m, i)' => Reaches(m, Walker(i))'
    <2>1. CASE m # n /\ i \in 1 .. Depth
      <3>1. At(Walker(i))' <= At(m)' => Reaches(Walker(i), m)'
        BY <1>1, <1>2, <1>3, <1>7, <2>1 DEF ReachInv
      <3>2. Before(m, i)' => Before(m, i)
        <4>1. CASE i + 1 <= Depth
          <5>1. i + 1 \in 1 .. Depth
            BY <4>1, <1>1
          <5> QED
            BY <5>1, <1>1, <1>3, <2>1 DEF Before
        <4>2. CASE ~(i + 1 <= Depth)
          BY <4>2 DEF Before
        <4> QED
          BY <4>1, <4>2
      <3> QED
        BY <3>1, <3>2, <1>1, <1>2, <1>3, <1>7, <2>1 DEF ReachInv
    <2>2. CASE m = n /\ i \in 1 .. Depth
      <3>1. Reaches(Walker(i), n)
        BY <1>1, <1>6, <2>2
      <3>2. ~Before(m, i)'
        <4>1. CASE i + 1 = deep
          BY <4>1, <1>1, <1>3, <2>2 DEF Before
        <4>2. CASE i + 1 \in 1 .. Depth
          BY <4>2, <1>1, <1>3, <1>4, <2>2 DEF Before
        <4> QED
          BY <4>1, <4>2, <1>1, <2>2
      <3> QED
        BY <3>1, <3>2, <1>1, <1>2, <2>2
    <2>3. CASE m # n /\ i = deep
      <3>1. ~(At(Walker(i))' <= At(m)')
        BY <1>1, <1>3, <1>4, <1>7, <2>3
      <3>2. Reaches(m, n)
        BY <1>3, <1>6, <1>7, <2>3
      <3> QED
        BY <3>1, <3>2, <1>1, <1>2, <2>3
    <2>4. CASE m = n /\ i = deep
      BY <1>1, <1>2, <2>4, ReachesItself
    <2> QED
      BY <1>1, <2>1, <2>2, <2>3, <2>4
  <1>8. ASSUME NEW m \in Module, On(m)'
        PROVE  Low(m)' <= At(m)' /\ \E k \in Module : On(k)' /\ At(k)' = Low(m)' /\ Reaches(m, k)'
    <2>1. CASE m = n
      BY <1>2, <1>3, <2>1, ReachesItself
    <2>2. CASE m # n
      <3>1. PICK k \in Module : On(k) /\ At(k) = Low(m) /\ Reaches(m, k)
        BY <1>3, <1>8, <2>2 DEF ReachInv
      <3> QED
        BY <3>1, <1>2, <1>3, <1>8, <2>2 DEF ReachInv
    <2> QED
      BY <2>1, <2>2
  <1> QED
    BY <1>1, <1>7, <1>8 DEF ReachInv

LEMMA EnteredLow ==
    ASSUME IInv, NEW n, NEW at, MayEnter(n, at), Enters(n, at)
    PROVE  LowInv'
  <1> USE DEF IInv, MayEnter
  <1>1. PICK deep \in Nat :
               /\ deep = Depth + 1 /\ Depth \in Nat
               /\ Depth' = deep
               /\ \A i \in 1 .. deep : i \in 1 .. Depth \/ i = deep
               /\ \A i \in 1 .. Depth :
                      /\ Walker(i) \in Module /\ On(Walker(i)) /\ Walker(i) # n
                      /\ Walker(i)' = Walker(i) /\ Step(i)' = Step(i)
                      /\ At(Walker(i)) < at /\ At(Walker(i))' = At(Walker(i)) /\ Low(Walker(i))' = Low(Walker(i))
               /\ Walker(deep)' = n /\ At(Walker(deep))' = at /\ Low(Walker(deep))' = at
    BY EnteredCalls
  <1>2. /\ \A m \in Module : m # n => On(m)' = On(m) /\ At(m)' = At(m) /\ Low(m)' = Low(m)
        /\ On(n)' /\ At(n)' = at /\ Low(n)' = at
        /\ ~On(n)
    BY OneState DEF Enters, SameStatus
  <1>3. \A m \in Module : At(m) \in Nat /\ Low(m) \in Nat
    BY AccessorTypes
  <1>4. ASSUME NEW m \in Module, NEW k \in Module, On(m)', On(k)', Saw(m, k)'
        PROVE  m # n /\ k # n /\ Saw(m, k) /\ On(m) /\ On(k)
    <2>1. m # n /\ Saw(m, k)
      BY <1>4, EnteredFrames
    <2>2. On(m)
      BY <1>2, <1>4, <2>1
    <2> QED
      BY <2>1, <2>2, <1>2, <1>4, UnwalkedIsAlone
  <1>5. ASSUME NEW m \in Module, NEW k \in Module, On(m)', On(k)', Saw(m, k)'
        PROVE  /\ Low(m)' <= At(k)'
               /\ \A i \in 1 .. Depth' : At(m)' < At(Walker(i))' => At(k)' < At(Walker(i))'
    <2>1. m # n /\ k # n /\ Saw(m, k) /\ On(m) /\ On(k)
      BY <1>4, <1>5
    <2>2. Low(m)' <= At(k)'
      BY <2>1, <1>2 DEF LowInv
    <2>3. ASSUME NEW i \in 1 .. deep, At(m)' < At(Walker(i))'
          PROVE  At(k)' < At(Walker(i))'
      <3>1. CASE i \in 1 .. Depth
        BY <3>1, <2>1, <2>3, <1>1, <1>2 DEF LowInv
      <3>2. CASE i = deep
        BY <3>2, <2>1, <1>1, <1>2
      <3> QED
        BY <3>1, <3>2, <1>1
    <2> QED
      BY <2>2, <2>3, <1>1
  <1>6. ASSUME NEW i \in 1 .. deep, NEW m \in Module, On(m)', At(Walker(i))' <= At(m)', Before(m, i)'
        PROVE  Low(Walker(i))' <= Low(m)'
    <2>1. CASE i = deep
      <3>1. m = n
        BY <1>1, <1>2, <1>3, <1>6, <2>1
      <3> QED
        BY <3>1, <2>1, <1>1, <1>2
    <2>2. CASE i \in 1 .. Depth
      <3>1. m # n
        <4>1. CASE i + 1 = deep
          BY <4>1, <1>1, <1>2, <1>6, <2>2 DEF Before
        <4>2. CASE i + 1 \in 1 .. Depth
          BY <4>2, <1>1, <1>2, <1>3, <1>6, <2>2 DEF Before
        <4> QED
          BY <4>1, <4>2, <1>1, <2>2
      <3>2. Before(m, i)
        <4>1. CASE i + 1 <= Depth
          <5>1. i + 1 \in 1 .. Depth
            BY <4>1, <1>1
          <5> QED
            BY <5>1, <1>1, <1>2, <1>6, <2>2, <3>1 DEF Before
        <4>2. CASE ~(i + 1 <= Depth)
          BY <4>2 DEF Before
        <4> QED
          BY <4>1, <4>2
      <3>3. \A k \in Module : Requiring(k) => ~On(k) \/ i # Depth
        BY <1>2 DEF Requiring
      <3>4. Low(Walker(i)) <= Low(m)
        BY <3>1, <3>2, <3>3, <1>1, <1>2, <1>6, <2>2 DEF LowInv
      <3> QED
        BY <3>1, <3>4, <1>1, <1>2, <2>2
    <2> QED
      BY <2>1, <2>2, <1>1
  <1> QED
    BY <1>1, <1>5, <1>6 DEF LowInv

LEMMA EnteredRecords ==
    ASSUME IInv, NEW n, NEW at, MayEnter(n, at), Enters(n, at),
           \A m, k \in Module : Asks(m, k) /\ (Status(m) # "new")' => (Status(k) # "new")'
    PROVE  RootInv' /\ RequestInv' /\ WaitInv' /\ TurnInv'
  <1> USE DEF IInv, MayEnter
  <1>1. /\ \A m, k : Reaches(m, k)' = Reaches(m, k) /\ Asks(m, k)' = Asks(m, k)
        /\ \A m \in Module : Root(m)' = Root(m) /\ Turned(m)' = Turned(m) /\ Order(m)' = Order(m)
        /\ asyncOrder' = asyncOrder /\ starts' = starts
    BY SameGraph DEF Enters, SameRoots, SameTurns
  <1>2. \A p, w \in Module : Waits(p, w)' = Waits(p, w)
    BY SameWaits DEF Enters
  <1>3. \A m \in Module : m # n => /\ On(m)' = On(m) /\ Async(m)' = Async(m) /\ Failed(m)' = Failed(m)
                                   /\ Done(m)' = Done(m) /\ Ended(m)' = Ended(m)
                                   /\ Unwalked(m)' = Unwalked(m) /\ At(m)' = At(m)
    BY DEF Enters, SameStatus
  <1>4. On(n)' /\ ~Async(n)' /\ ~Failed(n)' /\ ~Done(n)' /\ ~Ended(n)' /\ ~Unwalked(n)'
    BY DEF Enters, On, Async, Failed, Done, Ended, Unwalked
  <1>5. ~On(n) /\ ~Async(n) /\ ~Failed(n) /\ ~Done(n) /\ ~Ended(n)
    BY OneState
  <1>6. /\ Root(n) = n
        /\ \A m \in Module : ~Waits(m, n) /\ ~Waits(n, m)
        /\ \A m \in Module : Saw(m, n) => ~On(m) /\ ~Ended(m)
        /\ \A m \in Module : Root(m) = n => m = n
        /\ ~Walking(n) /\ ~Turned(n) /\ starts[n] = 0
    BY UnwalkedIsAlone
  <1>7. \A m \in Module : Walking(m)' <=> Walking(m) \/ m = n
    BY EnteredFrames
  <1>8. \A m, k \in Module : Saw(m, k)' => m # n /\ Saw(m, k)
    BY EnteredFrames
  <1>9. \A m, k \in Module : m # n => Saw(m, k)' = Saw(m, k)
    BY EnteredFrames
  <1>10. \A m \in Module : Root(m) \in Module
    BY AccessorTypes
  <1>11. RootInv'
    BY <1>1, <1>3, <1>5, <1>6, <1>10 DEF RootInv
  <1>12. RequestInv'
    <2>1. ASSUME NEW m \in Module, NEW k \in Module, Saw(m, k)', On(m)' \/ Ended(m)'
          PROVE  Met(m, k)'
      <3>1. m # n /\ Saw(m, k) /\ (On(m) \/ Ended(m))
        BY <1>3, <1>8, <2>1
      <3>2. Met(m, k) /\ k # n
        BY <3>1, <1>6 DEF RequestInv
      <3>3. Root(k) # n
        BY <3>2, <1>6
      <3>4. Waits(m, Root(k))' = Waits(m, Root(k))
        BY <1>1, <1>2, <1>10
      <3>5. Done(Root(k))' = Done(Root(k))
        BY <1>1, <1>3, <1>10, <3>3
      <3> QED
        BY <3>1, <3>2, <3>4, <3>5, <1>1, <1>3 DEF Met
    <2> QED
      BY <2>1, <1>1 DEF RequestInv
  <1>13. WaitInv'
    <2>1. ASSUME NEW w \in Module, NEW p \in Module, Waits(p, w)'
          PROVE  /\ Waits(p, w) /\ w # n /\ p # n
                 /\ Saw(p, w)' = Saw(p, w)
      BY <2>1, <1>2, <1>6, <1>9
    <2> QED
      BY <2>1, <1>1, <1>3, <1>7 DEF WaitInv
  <1>14. TurnInv'
    <2>1. ASSUME NEW m \in Module
          PROVE  /\ Turned(m)' => On(m)' \/ Async(m)' \/ Failed(m)'
                 /\ Turned(m)' => Order(m)' < asyncOrder'
                 /\ Async(m)' => Turned(m)'
                 /\ Unwalked(m)' \/ Walking(m)' => ~Turned(m)' /\ starts'[m] = 0
      BY <1>1, <1>3, <1>4, <1>6, <1>7 DEF TurnInv
    <2>2. ASSUME NEW m \in Module, Turned(m)', Root(m)' # m
          PROVE  \E k \in Module : Waits(k, m)' /\ Root(k)' = Root(m)' /\ At(k)' < At(m)'
      <3>1. m # n
        BY <2>2, <1>1, <1>6
      <3>2. PICK k \in Module : Waits(k, m) /\ Root(k) = Root(m) /\ At(k) < At(m)
        BY <2>2, <1>1 DEF TurnInv
      <3>3. k # n
        BY <3>2, <1>6
      <3> QED
        BY <3>1, <3>2, <3>3, <1>1, <1>2, <1>3
    <2>3. ASSUME NEW m \in Module, Turned(m)', On(m)'
          PROVE  \E k \in Module : On(k)' /\ Waits(k, m)' /\ At(k)' < At(m)'
      <3>1. m # n /\ On(m)
        BY <2>3, <1>1, <1>3, <1>6
      <3>2. ~Requiring(m)
        BY <3>1, <1>5 DEF Requiring
      <3>3. PICK k \in Module : On(k) /\ Waits(k, m) /\ At(k) < At(m)
        BY <2>3, <3>1, <3>2, <1>1 DEF TurnInv
      <3>4. k # n
        BY <3>3, <1>6
      <3> QED
        BY <3>1, <3>3, <3>4, <1>2, <1>3
    <2> QED
      BY <2>1, <2>2, <2>3 DEF TurnInv
  <1> QED
    BY <1>11, <1>12, <1>13, <1>14

LEMMA EnteredCounts ==
    ASSUME IInv, NEW n, NEW at, MayEnter(n, at), Enters(n, at)
    PROVE  CountInv' /\ GatherInv' /\ JobInv' /\ OutcomeInv'
  <1> USE DEF IInv, MayEnter
  <1>1. /\ \A m, k : Reaches(m, k)' = Reaches(m, k) /\ Asks(m, k)' = Asks(m, k)
        /\ \A m : HasAwait(m)' = HasAwait(m)
        /\ \A m \in Module : Root(m)' = Root(m) /\ Turned(m)' = Turned(m) /\ Err(m)' = Err(m)
        /\ starts' = starts /\ ready' = ready /\ running' = running /\ jobs' = jobs
    BY SameGraph DEF Enters, SameRoots, SameTurns
  <1>2. \A w \in Module : /\ Waiting(w)' = Waiting(w) /\ \A k : Waiter(w, k)' = Waiter(w, k)
                          /\ \A p \in Module : Waits(p, w)' = Waits(p, w)
    BY SameWaits DEF Enters
  <1>3. \A m \in Module : m # n => /\ On(m)' = On(m) /\ Async(m)' = Async(m) /\ Failed(m)' = Failed(m)
                                   /\ Done(m)' = Done(m)
                                   /\ Unwalked(m)' = Unwalked(m) /\ Pend(m)' = Pend(m)
                                   /\ Cap(m)' = Cap(m)
    BY DEF Enters, SameStatus
  <1>4. ~Failed(n)' /\ ~Done(n)' /\ Pend(n)' = 0 /\ (Cap(n)' = Cap(n) \/ (Depth = 0 /\ Cap(n)' = Pending))
    BY DEF Enters, On, Failed, Done
  <1>5. ~On(n) /\ ~Async(n) /\ ~Failed(n) /\ ~Done(n)
    BY OneState
  <1>6. /\ Root(n) = n
        /\ \A m \in Module : ~Waits(m, n) /\ ~Waits(n, m)
        /\ ~Turned(n) /\ starts[n] = 0
    BY UnwalkedIsAlone
  <1>7. \A m \in Module : Walking(m)' <=> Walking(m) \/ m = n
    BY EnteredFrames
  <1>8. Gathering' = Gathering /\ \A j : Gathers(j)' = Gathers(j) /\ Counts(j)' = Counts(j)
    BY SameGathering DEF Enters
  <1>9. \A w \in Module : Cleared(w)' = Cleared(w)
    BY <1>1, <1>3, <1>4, <1>5 DEF Cleared
  <1>10. \A p, w \in Module : \A k \in Nat : Due(p, w, k)' = Due(p, w, k)
    BY <1>2, <1>8, <1>9 DEF Due
  <1>11. \A m \in Module : Pend(m) \in Nat /\ Root(m) \in Module
    BY AccessorTypes
  <1>12. CountInv'
    <2>1. ASSUME NEW p \in Module, ~Failed(p)'
          PROVE  IsFiniteSet(Uncounted(p))' /\ (Cardinality(Uncounted(p)) <= Pend(p))'
      <3>1. ~Failed(p)
        BY <2>1, <1>3, <1>5
      <3>2. IsFiniteSet(Uncounted(p)) /\ Cardinality(Uncounted(p)) <= Pend(p)
        BY <3>1 DEF CountInv
      <3>3. CASE p # n
        BY <3>2, <3>3, <1>3, <1>10, <1>11, FewerUncounted
      <3>4. CASE p = n
        <4>1. \A w \in Module, k \in Nat : ~Due(n, w, k)'
          BY <1>2, <1>6 DEF Due, Waits
        <4>2. Uncounted(n)' = {}
          BY <4>1 DEF Uncounted
        <4> QED
          BY <3>4, <4>2, <1>4, FS_EmptySet
      <3> QED
        BY <3>3, <3>4
    <2>2. ASSUME NEW p \in Module, Pend(p)' > 0
          PROVE  starts'[p] = 0 /\ (Walking(p)' \/ Turned(p)' \/ Failed(p)')
      BY <2>2, <1>1, <1>3, <1>4, <1>7 DEF CountInv
    <2> QED
      BY <2>1, <2>2, <1>1 DEF CountInv
  <1>13. GatherInv'
    BY <1>8 DEF GatherInv, Gathering
  <1>14. JobInv'
    BY <1>1, JobTypes DEF JobInv
  <1>15. OutcomeInv'
    <2>1. ASSUME NEW m \in Module, Failed(m)'
          PROVE  Err(m)' \in Module /\ Reaches(m, Err(m))' /\ Failed(Err(m))'
      <3>1. Err(m) \in Module /\ Reaches(m, Err(m)) /\ Failed(Err(m)) /\ Failed(m)
        BY <2>1, <1>3, <1>4 DEF OutcomeInv
      <3> QED
        BY <3>1, <1>1, <1>3, <1>5
    <2>2. Cap(n) = None
      <3> SUFFICES ASSUME Cap(n) # None
                   PROVE  FALSE
        OBVIOUS
      <3>1. Depth > 0 /\ Walker(1) = n
        BY DEF OutcomeInv
      <3> QED
        BY <3>1, <1>5, AccessorTypes DEF FramesInv
    <2>3. Cap(n)' = None \/ (Depth = 0 /\ Cap(n)'.state = "pending")
      BY <1>4, <2>2 DEF Pending, Promise
    <2>4. Depth = 0 => Depth' > 0 /\ Walker(1)' = n
      BY EnteredFrames
    <2>5. ASSUME Depth > 0
          PROVE  Depth' > 0 /\ Walker(1)' = Walker(1)
      <3>1. Depth \in Nat /\ 1 \in 1 .. Depth
        BY <2>5, AccessorTypes
      <3> QED
        BY <3>1, EnteredFrames
    <2>6. ASSUME NEW m \in Module, m # n, Cap(m)' # None
          PROVE  /\ Root(m)' = m
                 /\ Unwalked(m)' \/ On(m)' => Depth' > 0 /\ Walker(1)' = m
                 /\ Cap(m)'.state = "fulfilled" => Done(m)'
                 /\ Cap(m)'.state = "rejected" =>
                        Cap(m)'.error \in Module /\ Reaches(m, Cap(m).error)' /\ Failed(Cap(m).error)'
      <3>1. /\ Root(m) = m
            /\ Unwalked(m) \/ On(m) => Depth > 0 /\ Walker(1) = m
            /\ Cap(m).state = "fulfilled" => Done(m)
            /\ Cap(m).state = "rejected" =>
                  Cap(m).error \in Module /\ Reaches(m, Cap(m).error) /\ Failed(Cap(m).error)
        BY <2>6, <1>3 DEF OutcomeInv
      <3>2. Cap(m)' = Cap(m)
        BY <2>6, <1>3
      <3> QED
        BY <3>1, <3>2, <2>5, <2>6, <1>1, <1>3, <1>5
    <2>7. ASSUME Cap(n)' # None
          PROVE  /\ Root(n)' = n
                 /\ Depth' > 0 /\ Walker(1)' = n
                 /\ Cap(n)'.state \notin {"fulfilled", "rejected"}
      BY <2>3, <2>4, <2>7, <1>1, <1>6
    <2>8. ASSUME NEW m \in Module, NEW k \in Module, starts'[m] = 1, Asks(m, k)'
          PROVE  Reaches(k, m)' \/ Done(Root(k))'
      BY <2>8, <1>1, <1>3, <1>5, <1>11 DEF OutcomeInv
    <2>9. None' = None
      BY DEF None, Promise
    <2> QED
      BY <2>1, <2>6, <2>7, <2>8, <2>9 DEF OutcomeInv
  <1> QED
    BY <1>12, <1>13, <1>14, <1>15
-----------------------------------------------------------------------------
(* WalkInto and Start.                                                     *)

LEMMA FrameIsLast ==
    ASSUME TypeOK
    PROVE  /\ frames # <<>> <=> Depth > 0
           /\ Frame.module = Walker(Depth) /\ Frame.next = Step(Depth)
           /\ frames = <<>> => Depth = 0
  BY AccessorTypes DEF TypeOK, Depth, Frame, Last, Walker, Step

LEMMA RequestMade ==
    ASSUME TypeOK, FramesInv, AtRequest
    PROVE  /\ Depth > 0 /\ Depth \in 1 .. Depth
           /\ Required \in Module /\ Requiring(Required)
           /\ On(Walker(Depth)) /\ Walker(Depth) \in Module
           /\ Asks(Walker(Depth), Required)
           /\ Status(Required) # "new" \/ ~RequestInv
  <1>a. Depth > 0 /\ Depth \in Nat
    BY FrameIsLast, AccessorTypes DEF AtRequest
  <1>b. Depth \in 1 .. Depth
    BY <1>a
  <1>c. Step(Depth) <= Len(graph.requested[Walker(Depth)])
    BY FrameIsLast DEF AtRequest, Requested
  <1>1. /\ Depth > 0 /\ Depth \in 1 .. Depth /\ Walker(Depth) \in Module
        /\ Step(Depth) <= Len(graph.requested[Walker(Depth)])
    BY <1>a, <1>b, <1>c, AccessorTypes
  <1>2. On(Walker(Depth)) /\ Step(Depth) \in Requests(Walker(Depth))
    BY <1>1, GraphTypes DEF FramesInv, Requests
  <1>3. Required = Request(Walker(Depth), Step(Depth))
    BY FrameIsLast DEF Required, Requested, Request
  <1>4. Required \in Module /\ Requiring(Required) /\ Asks(Walker(Depth), Required)
    BY <1>1, <1>2, <1>3, GraphTypes DEF Requiring, Asks
  <1> QED
    BY <1>1, <1>2, <1>4 DEF RequestInv, On

\* The records after a module was entered.
LEMMA EnteredRecord ==
    ASSUME NEW records \in [Module -> Record], NEW n \in Module, NEW at \in Nat
    PROVE  /\ Entered(records, n, at) \in [Module -> Record]
           /\ \A m \in Module : m # n => Entered(records, n, at)[m] = records[m]
           /\ LET r == Entered(records, n, at)[n]
              IN  /\ r.status = "evaluating" /\ r.dfsIndex = at /\ r.dfsAncestor = at
                  /\ r.pendingAsync = 0 /\ r.error = records[n].error
                  /\ r.asyncEvaluation = records[n].asyncEvaluation
                  /\ r.asyncOrder = records[n].asyncOrder /\ r.asyncParents = records[n].asyncParents
                  /\ r.cycleRoot = records[n].cycleRoot /\ r.capability = records[n].capability
  <1>1. records[n] \in Record
    OBVIOUS
  <1> DEFINE r == [records[n] EXCEPT !.status = "evaluating", !.dfsIndex = at, !.dfsAncestor = at,
                                     !.pendingAsync = 0]
  <1>2. Entered(records, n, at) = [records EXCEPT ![n] = r]
    BY DEF Entered
  <1>3. r \in Record
    BY <1>1, 0 \in Nat DEF Record, Statuses
  <1>4. /\ r.status = "evaluating" /\ r.dfsIndex = at /\ r.dfsAncestor = at
        /\ r.pendingAsync = 0 /\ r.error = records[n].error
        /\ r.asyncEvaluation = records[n].asyncEvaluation
        /\ r.asyncOrder = records[n].asyncOrder /\ r.asyncParents = records[n].asyncParents
        /\ r.cycleRoot = records[n].cycleRoot /\ r.capability = records[n].capability
    BY <1>1 DEF Record
  <1> HIDE DEF r
  <1> QED
    BY <1>2, <1>3, <1>4

LEMMA EnterTypes ==
    ASSUME TypeOK, NEW records \in [Module -> Record], NEW n \in Module, NEW at \in Nat,
           Enter(records, n, at), UNCHANGED <<graph, asyncOrder, gathering, ready, running, jobs, starts>>
    PROVE  TypeOK'
  <1>1. modules' \in [Module -> Record]
    BY EnteredRecord DEF Enter
  <1>2. frames' \in Seq(Call) /\ stack' \in Seq(Module) /\ index' \in Nat
    <2>1. frames \in Seq(Call) /\ stack \in Seq(Module) /\ [module |-> n, next |-> 1] \in Call
      BY DEF TypeOK, Call
    <2> QED
      BY <2>1 DEF Enter
  <1> QED
    BY <1>1, <1>2 DEF TypeOK

LEMMA EnterPreserves ==
    ASSUME IInv, TypeOK', NEW n, NEW at, MayEnter(n, at), Enters(n, at),
           \A m, k \in Module : Asks(m, k) /\ (Status(m) # "new")' => (Status(k) # "new")'
    PROVE  IInv'
  BY EnteredStack, EnteredReach, EnteredLow, EnteredRecords, EnteredCounts DEF IInv

LEMMA WalkIntoPreserves ==
    ASSUME IInv, WalkInto
    PROVE  IInv'
  <1> USE DEF IInv
  <1> PICK n \in Module : n = Required
    BY RequestMade DEF WalkInto
  <1>1. /\ Depth > 0 /\ Requiring(n) /\ Status(n) = "linked"
        /\ Enter(modules, n, index)
        /\ UNCHANGED <<graph, asyncOrder, gathering, ready, running, jobs, starts>>
    BY RequestMade DEF WalkInto
  <1>2. modules \in [Module -> Record] /\ index \in Nat
    BY DEF TypeOK
  <1>3. TypeOK'
    BY <1>1, <1>2, EnterTypes
  <1>4. MayEnter(n, index)
    BY <1>1, <1>2 DEF MayEnter, Unwalked, StackInv, FramesInv
  <1>5. /\ \A m \in Module : m # n => modules'[m] = modules[m]
        /\ LET r == modules'[n]
           IN  /\ r.status = "evaluating" /\ r.dfsIndex = index /\ r.dfsAncestor = index
               /\ r.pendingAsync = 0 /\ r.error = modules[n].error
               /\ r.asyncEvaluation = modules[n].asyncEvaluation
               /\ r.asyncOrder = modules[n].asyncOrder /\ r.asyncParents = modules[n].asyncParents
               /\ r.cycleRoot = modules[n].cycleRoot /\ r.capability = modules[n].capability
    BY <1>1, <1>2, EnteredRecord DEF Enter
  <1>6. \A m \in Module : m # n => Status(m)' = Status(m)
    BY <1>5 DEF Status
  <1>7. Enters(n, index)
    <2>1. SameRoots /\ SameTurns /\ SameWaiters /\ \A m \in Module : Err(m)' = Err(m)
      BY <1>5 DEF SameRoots, SameTurns, SameWaiters, Root, Turned, Order, Waiters, Err
    <2>2. \A m \in Module \ {n} : At(m)' = At(m) /\ Low(m)' = Low(m) /\ Pend(m)' = Pend(m) /\ Cap(m)' = Cap(m)
      BY <1>5 DEF At, Low, Pend, Cap
    <2>3. \A m \in Module \ {n} : SameStatus(m)
      BY <1>6, EqualStatus
    <2>4. On(n)' /\ At(n)' = index /\ Low(n)' = index /\ Pend(n)' = 0 /\ Cap(n)' = Cap(n)
      BY <1>5 DEF On, Status, At, Low, Pend, Cap
    <2>5. modules' \in [Module -> Record]
      BY <1>3 DEF TypeOK
    <2>6. /\ frames' = Append(frames, [module |-> n, next |-> 1])
          /\ stack' = Append(stack, n) /\ index' = index + 1
      BY <1>1 DEF Enter
    <2> QED
      BY <2>1, <2>2, <2>3, <2>4, <2>5, <2>6, <1>1 DEF Enters
  <1>8. ASSUME NEW m \in Module, NEW k \in Module, Asks(m, k), (Status(m) # "new")'
        PROVE  (Status(k) # "new")'
    <2>1. (Status(n) # "new")'
      BY <1>5 DEF Status
    <2>2. Status(m) # "new"
      BY <1>1, <1>6, <1>8
    <2> QED
      BY <2>1, <2>2, <1>6, <1>8 DEF RequestInv
  <1> QED
    BY <1>3, <1>4, <1>7, <1>8, EnterPreserves

\* Nothing changes but begun.
LEMMA Stutter ==
    ASSUME IInv, UNCHANGED <<graph, modules, asyncOrder, frames, stack, index, gathering, ready, running,
                             jobs, starts>>
    PROVE  IInv'
  <1> USE DEF IInv
  <1>1. /\ \A m : /\ Root(m)' = Root(m) /\ At(m)' = At(m) /\ Low(m)' = Low(m) /\ Turned(m)' = Turned(m)
                  /\ Order(m)' = Order(m) /\ Pend(m)' = Pend(m) /\ Cap(m)' = Cap(m) /\ Err(m)' = Err(m)
                  /\ Status(m)' = Status(m) /\ Waiting(m)' = Waiting(m)
                  /\ \A k : Waiter(m, k)' = Waiter(m, k)
    BY DEF Root, At, Low, Turned, Order, Pend, Cap, Err, Status, Waiting, Waiter
  <1>2. \A m : /\ On(m)' = On(m) /\ Async(m)' = Async(m) /\ Failed(m)' = Failed(m) /\ Done(m)' = Done(m)
               /\ Ended(m)' = Ended(m) /\ Unwalked(m)' = Unwalked(m)
    BY <1>1 DEF On, Async, Failed, Done, Ended, Unwalked
  <1>3. \A p, w : Waits(p, w)' = Waits(p, w)
    BY <1>1 DEF Waits
  <1>4. /\ Depth' = Depth
        /\ \A i : Walker(i)' = Walker(i) /\ Step(i)' = Step(i)
        /\ \A m : Walking(m)' = Walking(m) /\ Requiring(m)' = Requiring(m)
        /\ \A m, n : Saw(m, n)' = Saw(m, n)
    BY SameFrames
  <1>5. Gathering' = Gathering /\ \A j : Gathers(j)' = Gathers(j) /\ Counts(j)' = Counts(j)
    BY SameGathering
  <1>6. /\ \A m, n : Reaches(m, n)' = Reaches(m, n)
        /\ \A m, n : Asks(m, n)' = Asks(m, n)
        /\ \A m, r : Request(m, r)' = Request(m, r)
        /\ \A m : Requests(m)' = Requests(m)
        /\ \A m : HasAwait(m)' = HasAwait(m)
    BY SameGraph
  <1>7. TypeOK'
    BY DEF TypeOK
  <1>8. StackInv'
    BY <1>1, <1>2, <1>4 DEF StackInv
  <1>9. FramesInv'
    BY <1>1, <1>2, <1>4, <1>6 DEF FramesInv
  <1>10. \A m, i : Before(m, i)' = Before(m, i)
    BY <1>1, <1>4 DEF Before
  <1>11. ReachInv'
    BY <1>1, <1>2, <1>4, <1>6, <1>10 DEF ReachInv
  <1>12. LowInv'
    BY <1>1, <1>2, <1>4, <1>10 DEF LowInv
  <1>13. RootInv' /\ TurnInv'
    BY <1>1, <1>2, <1>3, <1>4, <1>6 DEF RootInv, TurnInv
  <1>14. RequestInv' /\ WaitInv'
    BY <1>1, <1>2, <1>3, <1>4, <1>6 DEF RequestInv, WaitInv, Met
  <1>15. \A w : Cleared(w)' = Cleared(w)
    BY <1>2, <1>6 DEF Cleared
  <1>16. \A p, w, k : Due(p, w, k)' = Due(p, w, k)
    BY <1>1, <1>5, <1>15 DEF Due
  <1>17. \A p : Uncounted(p)' = Uncounted(p)
    BY <1>16 DEF Uncounted
  <1>18. CountInv'
    BY <1>1, <1>2, <1>4, <1>17 DEF CountInv
  <1>19. GatherInv' /\ JobInv'
    BY <1>1, <1>5, <1>15 DEF GatherInv, JobInv
  <1>20. OutcomeInv'
    BY <1>1, <1>2, <1>4, <1>6 DEF OutcomeInv, None, Promise
  <1> QED
    BY <1>7, <1>8, <1>9, <1>11, <1>12, <1>13, <1>14, <1>18, <1>19, <1>20

\* The engine's walk has no call: nothing is being walked.
LEMMA NoWalk ==
    ASSUME TypeOK, StackInv, FramesInv, frames = <<>>
    PROVE  /\ Depth = 0 /\ stack = <<>>
           /\ \A m \in Module : ~On(m) /\ ~Walking(m) /\ ~Requiring(m)
           /\ \A m, n \in Module : Saw(m, n) <=> Asks(m, n)
  <1>1. Depth = 0
    BY FrameIsLast
  <1>2. \A m \in Module : ~On(m)
    BY <1>1 DEF StackInv
  <1>3. stack = <<>>
    <2>1. stack \in Seq(Module) /\ Len(stack) \in Nat /\ \A i \in 1 .. Len(stack) : stack[i] \in Module
      BY DEF TypeOK
    <2>2. \A i \in 1 .. Len(stack) : FALSE
      BY <2>1, <1>2 DEF StackInv
    <2> QED
      BY <2>1, <2>2
  <1> QED
    BY <1>1, <1>2, <1>3 DEF Walking, Saw, Asks, Requiring

LEMMA StillNoWalk ==
    ASSUME graph' = graph, frames' = <<>>, stack' = <<>>, \A m \in Module : ~On(m)'
    PROVE  /\ StackInv' /\ FramesInv' /\ ReachInv' /\ LowInv'
           /\ \A m \in Module : ~Walking(m)' /\ ~Requiring(m)'
           /\ \A m, n \in Module : Saw(m, n)' <=> Asks(m, n)
  <1>1. Depth' = 0 /\ Len(stack)' = 0
    BY DEF Depth
  <1>2. 1 .. Depth' = {} /\ 1 .. Len(stack)' = {}
    BY <1>1
  <1>3. StackInv' /\ FramesInv' /\ ReachInv' /\ LowInv'
    BY <1>1, <1>2 DEF StackInv, FramesInv, ReachInv, LowInv
  <1>4. \A m, r : Request(m, r)' = Request(m, r) /\ Requests(m)' = Requests(m)
    BY SameGraph
  <1>5. \A m, n \in Module : Saw(m, n)' <=> Asks(m, n)
    BY <1>2, <1>4 DEF Saw, Asks
  <1> QED
    BY <1>1, <1>2, <1>3, <1>5 DEF Walking, Requiring

\* What the records say of each other, when only what does not matter to it
\* changes.
LEMMA RecordsKept ==
    ASSUME IInv, graph' = graph, frames' = frames, asyncOrder' = asyncOrder,
           SameRoots, SameIndexes, SameTurns, SameWaiters, \A m \in Module : Status(m)' = Status(m),
           \A m \in Module : Unwalked(m) \/ Walking(m) => starts'[m] = 0
    PROVE  RootInv' /\ RequestInv' /\ WaitInv' /\ TurnInv'
  <1> USE DEF IInv
  <1>1. \A m \in Module : /\ Root(m)' = Root(m) /\ At(m)' = At(m) /\ Turned(m)' = Turned(m)
                          /\ Order(m)' = Order(m) /\ Root(m) \in Module
    BY AccessorTypes DEF SameRoots, SameIndexes, SameTurns
  <1>2. \A m \in Module : /\ On(m)' = On(m) /\ Async(m)' = Async(m) /\ Failed(m)' = Failed(m)
                          /\ Done(m)' = Done(m) /\ Ended(m)' = Ended(m) /\ Unwalked(m)' = Unwalked(m)
    BY DEF On, Async, Failed, Done, Ended, Unwalked
  <1>3. \A p, w \in Module : Waits(p, w)' = Waits(p, w)
    BY SameWaits
  <1>4. /\ Depth' = Depth
        /\ \A i : Walker(i)' = Walker(i)
        /\ \A m : Walking(m)' = Walking(m) /\ Requiring(m)' = Requiring(m)
        /\ \A m, n : Saw(m, n)' = Saw(m, n)
    BY SameFrames
  <1>5. \A m, n : Reaches(m, n)' = Reaches(m, n) /\ Asks(m, n)' = Asks(m, n)
    BY SameGraph
  <1>6. RootInv'
    BY <1>1, <1>2, <1>5 DEF RootInv
  <1>7. RequestInv'
    BY <1>1, <1>2, <1>3, <1>4, <1>5 DEF RequestInv, Met
  <1>8. WaitInv'
    BY <1>1, <1>2, <1>3, <1>4, <1>5 DEF WaitInv
  <1>9. TurnInv'
    <2>1. Depth > 0 => At(Walker(Depth))' = At(Walker(Depth))
      <3>1. Depth > 0 => Walker(Depth) \in Module
        BY AccessorTypes
      <3>2. Walker(Depth)' = Walker(Depth)
        BY <1>4
      <3> QED
        BY <3>1, <3>2, <1>1
    <2>2. \A m : Requiring(m) => Depth > 0
      BY DEF Requiring
    <2> QED
      BY <1>1, <1>2, <1>3, <1>4, <2>1, <2>2 DEF TurnInv
  <1> QED
    BY <1>6, <1>7, <1>8, <1>9

\* Where nothing walks, and nothing but promises changes.
LEMMA PromisesChange ==
    ASSUME IInv, NEW m \in Module, NEW c \in PromiseSet, frames = <<>>,
           modules' = [modules EXCEPT ![m].capability = c],
           UNCHANGED <<graph, asyncOrder, frames, stack, index, gathering, ready, running, jobs, starts>>,
           c # None => /\ Root(m) = m /\ ~Unwalked(m)
                       /\ c.state = "fulfilled" => Done(m)
                       /\ c.state = "rejected" =>
                              c.error \in Module /\ Reaches(m, c.error) /\ Failed(c.error)
    PROVE  IInv'
  <1> USE DEF IInv
  <1>1. modules \in [Module -> Record] /\ modules[m] \in Record
    BY DEF TypeOK
  <1> DEFINE r == [modules[m] EXCEPT !.capability = c]
  <1>2. /\ r \in Record /\ r.capability = c
        /\ r.status = modules[m].status /\ r.error = modules[m].error
        /\ r.dfsIndex = modules[m].dfsIndex /\ r.dfsAncestor = modules[m].dfsAncestor
        /\ r.asyncEvaluation = modules[m].asyncEvaluation /\ r.asyncOrder = modules[m].asyncOrder
        /\ r.pendingAsync = modules[m].pendingAsync /\ r.asyncParents = modules[m].asyncParents
        /\ r.cycleRoot = modules[m].cycleRoot
    <2>1. r \in Record
      BY <1>1, RecordTypes
    <2> QED
      BY <1>1, <2>1 DEF Record
  <1>3. modules' = [modules EXCEPT ![m] = r]
    OBVIOUS
  <1> HIDE DEF r
  <1>4. modules' \in [Module -> Record]
    BY <1>1, <1>2, <1>3
  <1>5. /\ \A n \in Module : n # m => modules'[n] = modules[n]
        /\ modules'[m] = r
    BY <1>1, <1>3
  <1>6. TypeOK'
    BY <1>4 DEF TypeOK
  <1>7. \A n \in Module : Status(n)' = Status(n)
    BY <1>2, <1>5 DEF Status
  <1>8. SameRoots /\ SameIndexes /\ SameTurns /\ SamePend /\ SameWaiters
    BY <1>2, <1>5 DEF SameRoots, SameIndexes, SameTurns, SamePend, SameWaiters,
                      Root, At, Low, Turned, Order, Pend, Waiters
  <1>9. /\ \A n \in Module : Err(n)' = Err(n)
        /\ \A n \in Module : n # m => Cap(n)' = Cap(n)
        /\ Cap(m)' = c
    BY <1>2, <1>5 DEF Err, Cap
  <1>10. \A n \in Module : /\ On(n)' = On(n) /\ Async(n)' = Async(n) /\ Failed(n)' = Failed(n)
                           /\ Done(n)' = Done(n) /\ Unwalked(n)' = Unwalked(n)
    BY <1>7 DEF On, Async, Failed, Done, Unwalked
  <1>11. StackInv' /\ FramesInv' /\ ReachInv' /\ LowInv'
    BY <1>10, NoWalk, StillNoWalk
  <1>12. RootInv' /\ RequestInv' /\ WaitInv' /\ TurnInv'
    BY <1>7, <1>8, RecordsKept DEF TurnInv
  <1>13. Gathering' = Gathering /\ \A j : Gathers(j)' = Gathers(j) /\ Counts(j)' = Counts(j)
    BY SameGathering
  <1>14. /\ \A n, k : Reaches(n, k)' = Reaches(n, k) /\ Asks(n, k)' = Asks(n, k)
         /\ \A n : HasAwait(n)' = HasAwait(n)
    BY SameGraph
  <1>15. \A w \in Module : Cleared(w)' = Cleared(w)
    BY <1>10, <1>14 DEF Cleared
  <1>16. \A p, w \in Module : \A k \in Nat : Due(p, w, k)' => Due(p, w, k)
    BY <1>8, <1>13, <1>15, SameWaits DEF Due
  <1>17. CountInv'
    BY <1>8, <1>10, <1>16, FewerUncounted, AccessorTypes, SameFrames, JobTypes
       DEF CountInv, SamePend, SameTurns
  <1>18. GatherInv' /\ JobInv'
    BY <1>8, <1>13, <1>15, JobTypes, AccessorTypes DEF GatherInv, JobInv, SameTurns
  <1>19. OutcomeInv'
    <2>1. \A n \in Module : Root(n)' = Root(n) /\ Root(n) \in Module
      BY <1>8, AccessorTypes DEF SameRoots
    <2>2. ASSUME NEW n \in Module, Failed(n)'
          PROVE  Err(n)' \in Module /\ Reaches(n, Err(n))' /\ Failed(Err(n))'
      BY <2>2, <1>9, <1>10, <1>14 DEF OutcomeInv
    <2>3. ASSUME NEW n \in Module, n # m, Cap(n)' # None
          PROVE  /\ Root(n)' = n /\ ~Unwalked(n)' /\ ~On(n)'
                 /\ Cap(n)'.state = "fulfilled" => Done(n)'
                 /\ Cap(n)'.state = "rejected" =>
                        Cap(n)'.error \in Module /\ Reaches(n, Cap(n).error)' /\ Failed(Cap(n).error)'
      <3>1. Cap(n)' = Cap(n)
        BY <2>3, <1>9
      <3>2. /\ Root(n) = n /\ ~Unwalked(n) /\ ~On(n)
            /\ Cap(n).state = "fulfilled" => Done(n)
            /\ Cap(n).state = "rejected" =>
                  Cap(n).error \in Module /\ Reaches(n, Cap(n).error) /\ Failed(Cap(n).error)
        BY <2>3, <3>1, NoWalk DEF OutcomeInv
      <3> QED
        BY <3>1, <3>2, <2>1, <1>10, <1>14
    <2>4. ASSUME Cap(m)' # None
          PROVE  /\ Root(m)' = m /\ ~Unwalked(m)' /\ ~On(m)'
                 /\ Cap(m)'.state = "fulfilled" => Done(m)'
                 /\ Cap(m)'.state = "rejected" =>
                        Cap(m)'.error \in Module /\ Reaches(m, Cap(m).error)' /\ Failed(Cap(m).error)'
      BY <2>4, <2>1, <1>9, <1>10, <1>14, NoWalk
    <2>5. ASSUME NEW n \in Module, NEW k \in Module, starts'[n] = 1, Asks(n, k)'
          PROVE  Reaches(k, n)' \/ Done(Root(k))'
      BY <2>5, <2>1, <1>10, <1>14 DEF OutcomeInv
    <2>6. None' = None
      BY DEF None, Promise
    <2> QED
      BY <2>2, <2>3, <2>4, <2>5, <2>6 DEF OutcomeInv
  <1> QED
    BY <1>6, <1>11, <1>12, <1>17, <1>18, <1>19

\* graphMembers: new modules only, and with one all the new that it requests.
LEMMA MembersProperties ==
    ASSUME TypeOK, NEW start \in Module
    PROVE  /\ GraphMembers(start) \subseteq {m \in Module : Status(m) = "new"}
           /\ Status(start) = "new" => start \in GraphMembers(start)
           /\ \A m \in GraphMembers(start) : \A k \in Module :
                  Asks(m, k) /\ Status(k) = "new" => k \in GraphMembers(start)
  <1> DEFINE E == [k \in Module |-> {n \in Range(Requested(k)) : Status(n) = "new"}]
             N == {m \in Module : Status(m) = "new"}
  <1>1. CASE Status(start) # "new"
    BY <1>1 DEF GraphMembers
  <1>2. CASE Status(start) = "new"
    <2>1. GraphMembers(start) = From(start, E)
      BY <1>2 DEF GraphMembers
    <2>2. \A m \in Module : \A k \in Module : k \in Range(Requested(m)) <=> Asks(m, k)
      BY GraphTypes DEF Requested
    <2>3. \A m \in Module : \A k \in Module : k \in E[m] <=> Asks(m, k) /\ Status(k) = "new"
      BY <2>2
    <2>4. \A m \in Module : E[m] \subseteq N
      BY GraphTypes DEF Requested
    <2>5. start \in N /\ N \in SUBSET Module
      BY <1>2
    <2> HIDE DEF E, N
    <2>6. From(start, E) \subseteq N /\ start \in From(start, E)
      BY <2>4, <2>5, FromLeast, FromFirst
    <2>7. \A m \in From(start, E) : \A k \in Module : k \in E[m] => k \in From(start, E)
      BY FromClosed
    <2> QED
      BY <2>1, <2>3, <2>5, <2>6, <2>7 DEF N
  <1> QED
    BY <1>1, <1>2

LEMMA StartPreserves ==
    ASSUME IInv, NEW start \in Module, Start(start)
    PROVE  IInv'
  <1> USE DEF IInv
  <1> PICK root : root = EvaluationRoot(start)
    OBVIOUS
  <1>1. /\ frames = <<>> /\ gathering = <<>> /\ ready = {}
        /\ UNCHANGED <<graph, asyncOrder, gathering, ready, running, jobs, starts>>
    BY DEF Start, Idle
  <1>2. Depth = 0 /\ stack = <<>> /\ \A m \in Module : ~On(m)
    BY <1>1, NoWalk
  <1>3. modules \in [Module -> Record]
    BY DEF TypeOK
  <1>4. root \in Module /\ (root = start \/ Root(root) = root)
    BY AccessorTypes DEF EvaluationRoot, Root, RootInv
  <1>5. Unwalked(root) => root = start
    BY <1>4, OneState DEF EvaluationRoot, Root, RootInv, Ended, Failed, Unwalked, Async, Done
  <1>6. CASE Cap(root) # None
    <2>1. UNCHANGED <<modules, frames, stack, index>>
      BY <1>6 DEF Start, Cap
    <2> QED
      BY <1>1, <2>1, Stutter
  <1>7. CASE Cap(root) = None /\ ~Unwalked(root)
    <2> DEFINE c == IF modules[root].status = "failed" THEN Promise("rejected", modules[root].error)
                    ELSE IF modules[root].asyncEvaluation THEN Pending ELSE Fulfilled
    <2>1. modules' = [modules EXCEPT ![root].capability = c] /\ UNCHANGED <<frames, stack, index>>
      BY <1>7 DEF Start, Cap, Unwalked, Status
    <2>2. Root(root) = root
      <3>1. Status(start) \notin {"async", "evaluated", "failed"} => root = start
        BY DEF EvaluationRoot
      <3>2. On(start) \/ Unwalked(start) \/ Ended(start) \/ Failed(start)
        BY OneState
      <3>3. root # start \/ Ended(start) \/ Failed(start)
        BY <1>2, <1>7, <3>2
      <3>4. root = Root(start)
        BY <3>1, <3>3 DEF EvaluationRoot, Root, Ended, Failed
      <3> QED
        BY <3>4 DEF RootInv
    <2>3. CASE Failed(root)
      <3>1. Err(root) \in Module /\ Reaches(root, Err(root)) /\ Failed(Err(root))
        BY <1>4, <2>3 DEF OutcomeInv
      <3>2. c = Promise("rejected", Err(root))
        BY <2>3 DEF Failed, Status, Err
      <3>3. c.state = "rejected" /\ c.error = Err(root)
        BY <3>2 DEF Promise
      <3>4. c \in PromiseSet
        BY <3>1, <3>2, RecordTypes
      <3> HIDE DEF c
      <3> QED
        BY <1>1, <1>4, <1>7, <2>1, <2>2, <3>1, <3>3, <3>4, PromisesChange
    <2>4. CASE ~Failed(root)
      <3>1. c = IF Turned(root) THEN Pending ELSE Fulfilled
        BY <2>4 DEF Failed, Status, Turned
      <3>2. ~Turned(root) => Done(root)
        BY <1>2, <1>4, <1>7, <2>4, OneState DEF TurnInv
      <3>3. c \in PromiseSet
        BY <3>1, RecordTypes
      <3>4. c.state \in {"pending", "fulfilled"} /\ (c.state = "fulfilled" => ~Turned(root))
        BY <3>1 DEF Pending, Fulfilled, Promise
      <3> HIDE DEF c
      <3> QED
        BY <1>1, <1>4, <1>7, <2>1, <2>2, <3>2, <3>3, <3>4, PromisesChange
    <2> QED
      BY <2>3, <2>4
  <1>8. CASE Cap(root) = None /\ Unwalked(root)
    <2> DEFINE promised == [Linked(start) EXCEPT ![root].capability = Pending]
               members == GraphMembers(start)
    <2>1. Enter(promised, root, 0) /\ root = start
      BY <1>5, <1>8 DEF Start, Cap, Unwalked, Status
    <2>2. Linked(start) = [m \in Module |-> IF m \in members THEN [modules[m] EXCEPT !.status = "linked"]
                                            ELSE modules[m]]
      BY DEF Linked
    <2>3. \A m \in Module : /\ modules[m] \in Record
                            /\ [modules[m] EXCEPT !.status = "linked"] \in Record
      BY <1>3, RecordTypes DEF Statuses
    <2>4. Linked(start) \in [Module -> Record]
      BY <2>2, <2>3
    <2>5. promised \in [Module -> Record]
      <3>1. [Linked(start)[root] EXCEPT !.capability = Pending] \in Record
        BY <1>4, <2>4, RecordTypes
      <3>2. promised = [Linked(start) EXCEPT ![root] = [Linked(start)[root] EXCEPT !.capability = Pending]]
        OBVIOUS
      <3> QED
        BY <2>4, <3>1, <3>2
    <2>6. ASSUME NEW m \in Module
          PROVE  /\ promised[m].dfsIndex = modules[m].dfsIndex
                 /\ promised[m].dfsAncestor = modules[m].dfsAncestor
                 /\ promised[m].asyncEvaluation = modules[m].asyncEvaluation
                 /\ promised[m].asyncOrder = modules[m].asyncOrder
                 /\ promised[m].pendingAsync = modules[m].pendingAsync
                 /\ promised[m].asyncParents = modules[m].asyncParents
                 /\ promised[m].cycleRoot = modules[m].cycleRoot
                 /\ promised[m].error = modules[m].error
                 /\ promised[m].status = IF m \in members THEN "linked" ELSE modules[m].status
                 /\ promised[m].capability = IF m = root THEN Pending ELSE modules[m].capability
      <3>1. /\ Linked(start)[m].dfsIndex = modules[m].dfsIndex
            /\ Linked(start)[m].dfsAncestor = modules[m].dfsAncestor
            /\ Linked(start)[m].asyncEvaluation = modules[m].asyncEvaluation
            /\ Linked(start)[m].asyncOrder = modules[m].asyncOrder
            /\ Linked(start)[m].pendingAsync = modules[m].pendingAsync
            /\ Linked(start)[m].asyncParents = modules[m].asyncParents
            /\ Linked(start)[m].cycleRoot = modules[m].cycleRoot
            /\ Linked(start)[m].error = modules[m].error
            /\ Linked(start)[m].status = IF m \in members THEN "linked" ELSE modules[m].status
            /\ Linked(start)[m].capability = modules[m].capability
        BY <2>2, <2>3 DEF Record
      <3>2. CASE m = root
        <4>1. promised[m] = [Linked(start)[m] EXCEPT !.capability = Pending]
          BY <2>4, <3>2
        <4> QED
          BY <2>4, <3>1, <3>2, <4>1 DEF Record
      <3>3. CASE m # root
        BY <2>4, <3>1, <3>3
      <3> QED
        BY <3>2, <3>3
    <2> HIDE DEF promised, members
    <2>7. TypeOK'
      BY <1>1, <1>4, <2>1, <2>5, EnterTypes
    <2>8. /\ members \subseteq {m \in Module : Status(m) = "new"}
          /\ Status(start) = "new" => start \in members
          /\ \A m \in members : \A k \in Module : Asks(m, k) /\ Status(k) = "new" => k \in members
      BY MembersProperties DEF members
    <2>9. /\ \A m \in Module : m # root => modules'[m] = promised[m]
          /\ LET r == modules'[root]
             IN  /\ r.status = "evaluating" /\ r.dfsIndex = 0 /\ r.dfsAncestor = 0
                 /\ r.pendingAsync = 0 /\ r.error = promised[root].error
                 /\ r.asyncEvaluation = promised[root].asyncEvaluation
                 /\ r.asyncOrder = promised[root].asyncOrder /\ r.asyncParents = promised[root].asyncParents
                 /\ r.cycleRoot = promised[root].cycleRoot /\ r.capability = promised[root].capability
      BY <1>4, <2>1, <2>5, EnteredRecord DEF Enter
    <2>10. \A m \in Module : m # root => Status(m)' = IF m \in members THEN "linked" ELSE Status(m)
      BY <2>6, <2>9 DEF Status
    <2>11. (Status(root) = "evaluating")'
      BY <2>9 DEF Status
    <2>12. MayEnter(root, 0)
      BY <1>1, <1>2, <1>4, <1>8 DEF MayEnter
    <2>13. Enters(root, 0)
      <3>1. SameRoots /\ SameTurns /\ SameWaiters /\ \A m \in Module : Err(m)' = Err(m)
        BY <2>6, <2>9 DEF SameRoots, SameTurns, SameWaiters, Root, Turned, Order, Waiters, Err
      <3>2. \A m \in Module \ {root} : /\ At(m)' = At(m) /\ Low(m)' = Low(m) /\ Pend(m)' = Pend(m)
                                       /\ Cap(m)' = Cap(m)
        BY <2>6, <2>9 DEF At, Low, Pend, Cap
      <3>3. \A m \in Module \ {root} : SameStatus(m)
        <4>1. ASSUME NEW m \in Module \ {root}, m \in members
              PROVE  SameStatus(m)
          BY <2>8, <2>10, <4>1 DEF SameStatus, On, Async, Failed, Done, Ended, Unwalked
        <4>2. ASSUME NEW m \in Module \ {root}, m \notin members
              PROVE  SameStatus(m)
          BY <2>10, <4>2, EqualStatus
        <4> QED
          BY <4>1, <4>2
      <3>4. On(root)' /\ At(root)' = 0 /\ Low(root)' = 0 /\ Pend(root)' = 0 /\ Cap(root)' = Pending
        BY <1>4, <2>6, <2>9 DEF On, Status, At, Low, Pend, Cap
      <3>5. modules' \in [Module -> Record]
        BY <2>7 DEF TypeOK
      <3>6. /\ frames' = Append(frames, [module |-> root, next |-> 1])
            /\ stack' = Append(stack, root) /\ index' = 0 + 1
        BY <2>1 DEF Enter
      <3> QED
        BY <3>1, <3>2, <3>3, <3>4, <3>5, <3>6, <1>1, <1>2 DEF Enters
    <2>14. ASSUME NEW m \in Module, NEW k \in Module, Asks(m, k), (Status(m) # "new")'
           PROVE  (Status(k) # "new")'
      <3>1. Status(k) # "new" => (Status(k) # "new")'
        BY <2>10, <2>11
      <3>2. m \in members \/ Status(m) # "new"
        BY <2>1, <2>8, <2>10, <2>14
      <3>3. k \in members => (Status(k) # "new")'
        BY <2>10, <2>11
      <3> QED
        BY <2>8, <2>14, <3>1, <3>2, <3>3 DEF RequestInv
    <2> QED
      BY <2>7, <2>12, <2>13, <2>14, EnterPreserves
  <1> QED
    BY <1>6, <1>7, <1>8
-----------------------------------------------------------------------------
(* A request noted: Require, where nothing has failed.                     *)

\* The last call's module m has seen n, and waits for w if that turned async.
Notes(m, n, w) ==
    /\ UNCHANGED <<graph, asyncOrder, stack, index, gathering, ready, running, jobs, starts>>
    /\ modules' \in [Module -> Record]
    /\ SameRoots /\ SameTurns /\ SameOutcomes
    /\ \A x \in Module : Status(x)' = Status(x) /\ At(x)' = At(x)
    /\ \A x \in Module : x # m => Low(x)' = Low(x) /\ Pend(x)' = Pend(x)
    /\ Low(m)' = IF On(n) /\ Low(n) < Low(m) THEN Low(n) ELSE Low(m)
    /\ Pend(m)' = IF Turned(w) THEN Pend(m) + 1 ELSE Pend(m)
    /\ \A x \in Module : x # w => Waiters(x)' = Waiters(x)
    /\ Waiters(w)' = IF Turned(w) THEN Append(Waiters(w), m) ELSE Waiters(w)
    /\ frames' = [frames EXCEPT ![Len(frames)].next = @ + 1]
MayNote(m, n, w) ==
    /\ m \in Module /\ n \in Module /\ w \in Module
    /\ Depth > 0 /\ m = Walker(Depth) /\ Requiring(n)
    /\ w = (IF On(n) THEN n ELSE Root(n))
    /\ On(n) \/ Ended(n)
    /\ On(w) \/ Ended(w)

LEMMA NotedWhat ==
    ASSUME IInv, NEW m, NEW n, NEW w, MayNote(m, n, w)
    PROVE  /\ Depth \in 1 .. Depth /\ On(m) /\ Walking(m) /\ ~Turned(m)
           /\ Turned(w) => m # w
           /\ On(w) <=> On(n)
           /\ On(w) => w = n
           /\ Reaches(m, n) /\ Reaches(m, w)
           /\ \A i \in 1 .. Depth : At(Walker(i)) <= At(m) /\ (Walker(i) = m => i = Depth)
           /\ ~Turned(w) => On(w) \/ Done(w)
           /\ ready = {} /\ gathering = <<>>
  <1> USE DEF IInv, MayNote
  <1>1. Depth \in Nat /\ Depth \in 1 .. Depth
    <2>1. Depth \in Nat
      BY AccessorTypes
    <2> QED
      BY <2>1
  <1>2. On(m) /\ Walking(m)
    BY <1>1 DEF FramesInv, Walking
  <1>3. ~Turned(m)
    BY <1>2 DEF TurnInv
  <1>4. Reaches(m, n)
    BY RequiredIsReached
  <1>5. Reaches(m, w)
    BY <1>4, ReachesThrough DEF RootInv
  <1>6. \A i \in 1 .. Depth : At(Walker(i)) <= At(m) /\ (Walker(i) = m => i = Depth)
    <2>1. ASSUME NEW i \in 1 .. Depth, i # Depth
          PROVE  At(Walker(i)) < At(m)
      BY <1>1, <2>1 DEF FramesInv
    <2>2. \A i \in 1 .. Depth : At(Walker(i)) \in Nat
      BY AccessorTypes
    <2>3. ASSUME NEW i \in 1 .. Depth
          PROVE  At(Walker(i)) <= At(m) /\ (Walker(i) = m => i = Depth)
      BY <2>1, <2>2, <1>1
    <2> QED
      BY <2>3
  <1>7. On(w) <=> On(n)
    <2>1. ~On(n) /\ Root(n) # n => ~On(w)
      BY OneState DEF RootInv
    <2> QED
      BY <2>1
  <1>8. On(w) => w = n
    BY <1>7
  <1>9. ~Turned(w) => On(w) \/ Done(w)
    BY OneState DEF TurnInv
  <1> QED
    BY <1>1, <1>2, <1>3, <1>4, <1>5, <1>6, <1>7, <1>8, <1>9 DEF FramesInv

LEMMA NotedCalls ==
    ASSUME IInv, NEW m, NEW n, NEW w, MayNote(m, n, w), Notes(m, n, w)
    PROVE  /\ Depth' = Depth
           /\ \A i \in 1 .. Depth : Walker(i)' = Walker(i) /\ (i # Depth => Step(i)' = Step(i))
           /\ \A i \in 1 .. Depth : i = Depth => Step(i)' = Step(i) + 1
           /\ \A x : Walking(x)' = Walking(x)
           /\ \A x, y \in Module : Saw(x, y)' <=> Saw(x, y) \/ (x = m /\ y = n)
           /\ \A p, x \in Module : Waits(p, x)' <=> Waits(p, x) \/ (Turned(w) /\ p = m /\ x = w)
           /\ \A x \in Module : \A k \in Nat : \A p :
                  k \in Waiting(x)' /\ Waiter(x, k)' = p =>
                      \/ k \in Waiting(x) /\ Waiter(x, k) = p
                      \/ Turned(w) /\ x = w /\ p = m /\ k = Len(Waiters(w)) + 1
           /\ frames' \in Seq(Call)
  <1> USE DEF IInv, MayNote
  <1>1. frames \in Seq(Call) /\ Depth = Len(frames) /\ Depth \in 1 .. Depth
    BY NotedWhat DEF TypeOK, Depth
  <1>2. \A i \in 1 .. Depth : frames[i] \in Call
    BY <1>1
  <1>3. /\ frames' \in Seq(Call) /\ Len(frames') = Depth
        /\ \A i \in 1 .. Depth : i # Depth => frames'[i] = frames[i]
        /\ \A i \in 1 .. Depth : i = Depth => frames'[i] = [frames[i] EXCEPT !.next = @ + 1]
    <2> DEFINE c == [frames[Depth] EXCEPT !.next = @ + 1]
    <2>1. frames' = [frames EXCEPT ![Depth] = c]
      BY <1>1 DEF Notes
    <2>2. c \in Call
      BY <1>1, <1>2 DEF Call
    <2> HIDE DEF c
    <2>3. frames' \in Seq(Call) /\ Len(frames') = Depth
      BY <1>1, <2>1, <2>2
    <2>4. \A i \in 1 .. Depth : frames'[i] = IF i = Depth THEN c ELSE frames[i]
      BY <1>1, <2>1
    <2> QED
      BY <2>3, <2>4 DEF c
  <1>4. \A i \in 1 .. Depth : i = Depth => frames'[i].module = frames[i].module /\ frames'[i].next = frames[i].next + 1
    BY <1>2, <1>3 DEF Call
  <1>5. /\ Depth' = Depth
        /\ \A i \in 1 .. Depth : Walker(i)' = Walker(i) /\ (i # Depth => Step(i)' = Step(i))
        /\ \A i \in 1 .. Depth : i = Depth => Step(i)' = Step(i) + 1
    <2>1. Depth' = Depth
      BY <1>3 DEF Depth
    <2> QED
      BY <2>1, <1>3, <1>4 DEF Walker, Step
  <1>6. \A x : Walking(x)' = Walking(x)
    BY <1>5 DEF Walking
  <1>7. \A x, r : Request(x, r)' = Request(x, r) /\ Requests(x)' = Requests(x)
    BY SameGraph DEF Notes
  <1>8. \A i \in 1 .. Depth : Walker(i) = m => i = Depth
    BY NotedWhat
  <1>9. ASSUME NEW x \in Module, NEW y \in Module
        PROVE  Saw(x, y)' <=> Saw(x, y) \/ (x = m /\ y = n)
    <2>1. \A i \in 1 .. Depth : Step(i) \in Nat
      BY AccessorTypes
    <2>2. \A r \in Requests(x) : r \in Nat
      BY DEF Requests
    <2>3. CASE x # m
      <3>1. \A i \in 1 .. Depth : Walker(i) = x => i # Depth
        BY <2>3
      <3> QED
        BY <2>3, <3>1, <1>5, <1>7 DEF Saw
    <2>4. CASE x = m
      <3>1. \A r \in Requests(m) : (\A i \in 1 .. Depth : Walker(i) = m => r < Step(i)) <=> r < Step(Depth)
        BY <1>1, <1>8
      <3>2. \A r \in Requests(m) : (\A i \in 1 .. Depth : Walker(i)' = m => r < Step(i)') <=> r < Step(Depth) + 1
        BY <1>1, <1>5, <1>8
      <3>3. Saw(m, y) <=> \E r \in Requests(m) : Request(m, r) = y /\ r < Step(Depth)
        BY <3>1 DEF Saw
      <3>4. Saw(m, y)' <=> \E r \in Requests(m) : Request(m, r) = y /\ r < Step(Depth) + 1
        BY <3>2, <1>5, <1>7 DEF Saw
      <3>5. \A r \in Requests(m) : r < Step(Depth) + 1 <=> r < Step(Depth) \/ r = Step(Depth)
        BY <1>1, <2>1, <2>2, <2>4
      <3>6. Step(Depth) \in Requests(m) /\ Request(m, Step(Depth)) = n
        BY DEF Requiring
      <3> QED
        BY <2>4, <3>3, <3>4, <3>5, <3>6
    <2> QED
      BY <2>3, <2>4
  <1>10. \A x \in Module : x # w => /\ Waiting(x)' = Waiting(x) /\ \A k : Waiter(x, k)' = Waiter(x, k)
    BY DEF Notes, Waiters, Waiting, Waiter
  <1>11. Waiters(w) \in Seq(Module) /\ m \in Module
    BY AccessorTypes
  <1>12. ASSUME Turned(w)
         PROVE  /\ \A k \in Nat : k \in Waiting(w)' <=> k \in Waiting(w) \/ k = Len(Waiters(w)) + 1
                /\ \A k \in Waiting(w) : Waiter(w, k)' = Waiter(w, k) /\ k # Len(Waiters(w)) + 1
                /\ \A k \in Nat : k = Len(Waiters(w)) + 1 => Waiter(w, k)' = m
    <2>1. Waiters(w)' = Append(Waiters(w), m)
      BY <1>12 DEF Notes
    <2>2. PICK s \in Seq(Module) : s = Waiters(w)
      BY <1>11
    <2>3. PICK t : t = Waiters(w)'
      OBVIOUS
    <2>4. t = Append(s, m)
      BY <2>1, <2>2, <2>3
    <2>5. /\ Len(t) = Len(s) + 1 /\ Len(s) \in Nat
          /\ \A k \in 1 .. Len(s) : t[k] = s[k]
          /\ t[Len(s) + 1] = m
      BY <2>4, <1>11
    <2>6. Waiting(w) = 1 .. Len(s) /\ \A k : Waiter(w, k) = s[k]
      BY <2>2 DEF Waiting, Waiter, Waiters
    <2>7. Waiting(w)' = 1 .. Len(t) /\ \A k : Waiter(w, k)' = t[k]
      BY <2>3 DEF Waiting, Waiter, Waiters
    <2> QED
      BY <2>2, <2>5, <2>6, <2>7
  <1>13. ASSUME ~Turned(w)
         PROVE  Waiting(w)' = Waiting(w) /\ \A k : Waiter(w, k)' = Waiter(w, k)
    BY <1>13 DEF Notes, Waiters, Waiting, Waiter
  <1>14. \A x \in Module : \A k \in Nat : \A p :
             k \in Waiting(x)' /\ Waiter(x, k)' = p =>
                 \/ k \in Waiting(x) /\ Waiter(x, k) = p
                 \/ Turned(w) /\ x = w /\ p = m /\ k = Len(Waiters(w)) + 1
    BY <1>10, <1>12, <1>13
  <1>15. ASSUME NEW p \in Module, NEW x \in Module
         PROVE  Waits(p, x)' <=> Waits(p, x) \/ (Turned(w) /\ p = m /\ x = w)
    <2>1. CASE x # w
      BY <2>1, <1>10 DEF Waits
    <2>2. CASE x = w /\ ~Turned(w)
      BY <2>2, <1>13 DEF Waits
    <2>3. CASE x = w /\ Turned(w)
      <3>1. Len(Waiters(w)) + 1 \in Nat
        BY <1>11
      <3>2. PICK q \in Nat : q = Len(Waiters(w)) + 1
        BY <3>1
      <3>3. q \in Waiting(w)' /\ Waiter(w, q)' = m
        BY <1>12, <2>3, <3>2
      <3>4. \A k \in Waiting(w) : k \in Waiting(w)' /\ Waiter(w, k)' = Waiter(w, k) /\ k # q
        BY <1>12, <2>3, <3>2 DEF Waiting
      <3>5. \A k \in Waiting(w)' : k \in Waiting(w) \/ k = q
        BY <1>12, <2>3, <3>2 DEF Waiting
      <3> QED
        BY <2>3, <3>3, <3>4, <3>5 DEF Waits
    <2> QED
      BY <2>1, <2>2, <2>3
  <1> QED
    BY <1>3, <1>5, <1>6, <1>9, <1>14, <1>15

LEMMA NotedWalk ==
    ASSUME IInv, NEW m, NEW n, NEW w, MayNote(m, n, w), Notes(m, n, w)
    PROVE  StackInv' /\ FramesInv' /\ ReachInv' /\ LowInv'
  <1> USE DEF IInv, MayNote
  <1>1. /\ Depth \in 1 .. Depth /\ On(m) /\ Reaches(m, n)
        /\ \A i \in 1 .. Depth : At(Walker(i)) <= At(m) /\ (Walker(i) = m => i = Depth)
    BY NotedWhat
  <1>2. /\ Depth' = Depth
        /\ \A i \in 1 .. Depth : Walker(i)' = Walker(i) /\ (i # Depth => Step(i)' = Step(i))
        /\ \A i \in 1 .. Depth : i = Depth => Step(i)' = Step(i) + 1
        /\ \A x, y \in Module : Saw(x, y)' <=> Saw(x, y) \/ (x = m /\ y = n)
    BY NotedCalls
  <1>3. /\ \A x \in Module : At(x)' = At(x)
        /\ \A x \in Module : x # m => Low(x)' = Low(x)
        /\ Low(m)' = IF On(n) /\ Low(n) < Low(m) THEN Low(n) ELSE Low(m)
        /\ stack' = stack /\ index' = index /\ gathering' = gathering /\ ready' = ready
    BY DEF Notes
  <1>4. \A x \in Module : On(x)' = On(x)
    BY EqualStatus DEF Notes, SameStatus
  <1>5. /\ \A x \in Module : At(x) \in Nat /\ Low(x) \in Nat
        /\ Depth \in Nat /\ \A i \in 1 .. Depth : Walker(i) \in Module /\ Step(i) \in Nat
    BY AccessorTypes
  <1>6. \A i \in 1 .. Depth : At(Walker(i))' = At(Walker(i))
    BY <1>2, <1>3, <1>5
  <1>7. StackInv'
    <2>1. \A i \in 1 .. Len(stack) : stack[i] \in Module
      BY DEF TypeOK
    <2>2. Depth > 0 /\ 1 \in 1 .. Depth
      BY <1>1
    <2> QED
      BY <1>2, <1>3, <1>4, <1>6, <2>1, <2>2 DEF StackInv
  <1>8. \A x, r : Request(x, r)' = Request(x, r) /\ Requests(x)' = Requests(x)
                  /\ graph'.requested[x] = graph.requested[x]
    BY SameGraph DEF Notes
  <1>9. FramesInv'
    <2>1. \A i \in 1 .. Depth' : On(Walker(i))'
      BY <1>2, <1>4, <1>5 DEF FramesInv
    <2>2. \A i \in 1 .. Depth' : Step(i)' \in 1 .. Len((graph.requested[Walker(i)])') + 1
      <3>1. ASSUME NEW i \in 1 .. Depth, i # Depth
            PROVE  Step(i)' \in 1 .. Len((graph.requested[Walker(i)])') + 1
        BY <3>1, <1>2, <1>8 DEF FramesInv
      <3>2. ASSUME NEW i \in 1 .. Depth, i = Depth
            PROVE  Step(i)' \in 1 .. Len((graph.requested[Walker(i)])') + 1
        <4>1. Step(i) \in 1 .. Len(graph.requested[Walker(i)]) /\ Len(graph.requested[Walker(i)]) \in Nat
          BY <3>2, <1>5, GraphTypes DEF Requiring, Requests
        <4>2. Step(i)' = Step(i) + 1 /\ Walker(i)' = Walker(i)
          BY <3>2, <1>2
        <4> QED
          BY <4>1, <4>2, <1>8
      <3> QED
        BY <3>1, <3>2, <1>2
    <2>3. \A i, j \in 1 .. Depth' : i < j => At(Walker(i))' < At(Walker(j))' /\ Step(i)' \in Requests(Walker(i))'
      <3>1. ASSUME NEW i \in 1 .. Depth, NEW j \in 1 .. Depth, i < j
            PROVE  At(Walker(i))' < At(Walker(j))' /\ Step(i)' \in Requests(Walker(i))'
        <4>1. i # Depth
          BY <3>1, <1>5
        <4> QED
          BY <4>1, <3>1, <1>2, <1>6, <1>8 DEF FramesInv
      <3> QED
        BY <3>1, <1>2
    <2>4. \A i \in 1 .. Depth' : i + 1 <= Depth' => Request(Walker(i), Step(i))' = Walker(i + 1)'
      <3>1. ASSUME NEW i \in 1 .. Depth, i + 1 <= Depth
            PROVE  Request(Walker(i), Step(i))' = Walker(i + 1)'
        <4>1. i # Depth /\ i + 1 \in 1 .. Depth
          BY <3>1, <1>5
        <4> QED
          BY <4>1, <3>1, <1>2, <1>8 DEF FramesInv
      <3> QED
        BY <3>1, <1>2
    <2> QED
      BY <2>1, <2>2, <2>3, <2>4, <1>3 DEF FramesInv
  <1>10. \A i \in 1 .. Depth : \A x \in Module : Before(x, i)' = Before(x, i)
    <2>1. \A i \in 1 .. Depth : i + 1 <= Depth => i + 1 \in 1 .. Depth
      BY <1>5
    <2>2. \A i \in 1 .. Depth : i + 1 <= Depth => At(Walker(i + 1))' = At(Walker(i + 1))
      BY <2>1, <1>2, <1>3, <1>5
    <2> QED
      BY <2>2, <1>2, <1>3 DEF Before
  <1>11. \A x, y : Reaches(x, y)' = Reaches(x, y)
    BY SameGraph DEF Notes
  <1>12. ReachInv'
    <2>1. \A i \in 1 .. Depth' : \A x \in Module : On(x)' =>
              /\ At(Walker(i))' <= At(x)' => Reaches(Walker(i), x)'
              /\ Before(x, i)' => Reaches(x, Walker(i))'
      BY <1>2, <1>3, <1>4, <1>6, <1>10, <1>11 DEF ReachInv
    <2>2. ASSUME NEW x \in Module, On(x)'
          PROVE  Low(x)' <= At(x)' /\ \E y \in Module : On(y)' /\ At(y)' = Low(x)' /\ Reaches(x, y)'
      <3>1. Low(x) <= At(x) /\ \E y \in Module : On(y) /\ At(y) = Low(x) /\ Reaches(x, y)
        BY <2>2, <1>4 DEF ReachInv
      <3>2. CASE Low(x)' = Low(x)
        BY <3>1, <3>2, <1>3, <1>4, <1>11
      <3>3. CASE Low(x)' # Low(x)
        <4>1. x = m /\ On(n) /\ Low(n) < Low(m) /\ Low(m)' = Low(n)
          BY <3>3, <1>3
        <4>2. PICK y \in Module : On(y) /\ At(y) = Low(n) /\ Reaches(n, y)
          BY <4>1 DEF ReachInv
        <4>3. Reaches(m, y)
          BY <4>2, <1>1, ReachesThrough
        <4> QED
          BY <3>1, <4>1, <4>2, <4>3, <1>3, <1>4, <1>5, <1>11
      <3> QED
        BY <3>2, <3>3
    <2> QED
      BY <2>1, <2>2 DEF ReachInv
  <1>13. LowInv'
    <2>1. \A x \in Module : Low(x)' <= Low(x)
      BY <1>3, <1>5
    <2>2. ASSUME NEW x \in Module, NEW y \in Module, On(x)', On(y)', Saw(x, y)'
          PROVE  /\ Low(x)' <= At(y)'
                 /\ \A i \in 1 .. Depth' : At(x)' < At(Walker(i))' => At(y)' < At(Walker(i))'
      <3>1. On(x) /\ On(y) /\ Low(x)' \in Nat
        BY <2>2, <1>3, <1>4, <1>5
      <3>2. CASE Saw(x, y)
        <4>1. Low(x) <= At(y) /\ \A i \in 1 .. Depth : At(x) < At(Walker(i)) => At(y) < At(Walker(i))
          BY <3>1, <3>2 DEF LowInv
        <4>2. Low(x)' <= At(y)
          BY <4>1, <2>1, <3>1, <1>5
        <4> QED
          BY <4>1, <4>2, <1>2, <1>3, <1>6
      <3>3. CASE x = m /\ y = n
        <4>1. Low(n) <= At(n) /\ Low(m)' <= Low(n)
          BY <3>1, <3>3, <1>3, <1>5 DEF ReachInv
        <4>2. Low(m)' <= At(n)
          BY <4>1, <3>1, <3>3, <1>5
        <4>3. \A i \in 1 .. Depth : ~(At(m) < At(Walker(i)))
          BY <1>1, <1>5
        <4> QED
          BY <4>2, <4>3, <3>3, <1>2, <1>3, <1>6
      <3> QED
        BY <3>2, <3>3, <2>2, <1>2
    <2>3. ASSUME NEW i \in 1 .. Depth, NEW x \in Module, On(x)', At(Walker(i))' <= At(x)', Before(x, i)'
          PROVE  Low(Walker(i))' <= Low(x)'
      <3>1. On(x) /\ At(Walker(i)) <= At(x) /\ Before(x, i)
        BY <2>3, <1>3, <1>4, <1>6, <1>10
      <3>2. \/ Low(Walker(i)) <= Low(x)
            \/ /\ i = Depth
               /\ \E y \in Module : Requiring(y) /\ On(y) /\ At(y) <= At(x) /\ Low(y) <= Low(x)
        BY <3>1 DEF LowInv
      <3>3. CASE x = Walker(i)
        <4>1. Low(Walker(i))' = Low(x)'
          BY <3>3, <1>2
        <4> QED
          BY <4>1, <1>3, <1>5
      <3>4. CASE x # Walker(i) /\ i # Depth
        <4>1. x # m
          <5>1. i + 1 \in 1 .. Depth /\ i + 1 <= Depth
            BY <3>4, <1>5
          <5>2. At(x) < At(Walker(i + 1)) /\ At(Walker(i + 1)) <= At(m)
            BY <3>1, <5>1, <1>1 DEF Before
          <5> QED
            BY <5>1, <5>2, <1>5
        <4>2. Walker(i) # m
          BY <3>4, <1>1
        <4>3. Low(Walker(i))' = Low(Walker(i)) /\ Low(x)' = Low(x)
          BY <4>1, <4>2, <1>2, <1>3, <1>5
        <4> QED
          BY <4>3, <3>2, <3>4
      <3>5. CASE x # Walker(i) /\ i = Depth
        <4>1. Walker(i) = m /\ x # m /\ Low(x)' = Low(x) /\ Low(Walker(i))' = Low(m)'
          BY <3>5, <1>2, <1>3
        <4>2. Low(m)' <= Low(x)
          <5>1. CASE Low(m) <= Low(x)
            BY <5>1, <1>3, <1>5
          <5>2. CASE ~(Low(m) <= Low(x))
            <6>1. PICK y \in Module : Requiring(y) /\ On(y) /\ At(y) <= At(x) /\ Low(y) <= Low(x)
              BY <5>2, <4>1, <3>2
            <6>2. y = n
              BY <6>1 DEF Requiring
            <6> QED
              BY <6>1, <6>2, <5>2, <1>3, <1>5
          <5> QED
            BY <5>1, <5>2
        <4> QED
          BY <4>1, <4>2
      <3> QED
        BY <3>3, <3>4, <3>5
    <2> QED
      BY <2>2, <2>3, <1>2 DEF LowInv
  <1> QED
    BY <1>7, <1>9, <1>12, <1>13

LEMMA NotedRecords ==
    ASSUME IInv, NEW m, NEW n, NEW w, MayNote(m, n, w), Notes(m, n, w)
    PROVE  RootInv' /\ RequestInv' /\ WaitInv' /\ TurnInv'
  <1> USE DEF IInv, MayNote
  <1>1. /\ Depth \in 1 .. Depth /\ On(m) /\ Walking(m) /\ ~Turned(m)
        /\ Turned(w) => m # w
        /\ On(w) <=> On(n)
        /\ On(w) => w = n
        /\ Reaches(m, w)
        /\ ~Turned(w) => On(w) \/ Done(w)
        /\ \A i \in 1 .. Depth : At(Walker(i)) <= At(m)
    BY NotedWhat
  <1>2. /\ Depth' = Depth
        /\ \A i \in 1 .. Depth : Walker(i)' = Walker(i) /\ (i # Depth => Step(i)' = Step(i))
        /\ \A i \in 1 .. Depth : i = Depth => Step(i)' = Step(i) + 1
        /\ \A x : Walking(x)' = Walking(x)
        /\ \A x, y \in Module : Saw(x, y)' <=> Saw(x, y) \/ (x = m /\ y = n)
        /\ \A p, x \in Module : Waits(p, x)' <=> Waits(p, x) \/ (Turned(w) /\ p = m /\ x = w)
    BY NotedCalls
  <1>3. /\ \A x \in Module : /\ Root(x)' = Root(x) /\ Turned(x)' = Turned(x) /\ Order(x)' = Order(x)
                             /\ At(x)' = At(x) /\ Root(x) \in Module
        /\ asyncOrder' = asyncOrder /\ starts' = starts
    BY AccessorTypes DEF Notes, SameRoots, SameTurns
  <1>4. \A x \in Module : /\ On(x)' = On(x) /\ Async(x)' = Async(x) /\ Failed(x)' = Failed(x)
                          /\ Done(x)' = Done(x) /\ Ended(x)' = Ended(x) /\ Unwalked(x)' = Unwalked(x)
                          /\ Status(x)' = Status(x)
    BY EqualStatus DEF Notes, SameStatus
  <1>5. \A x, y : Reaches(x, y)' = Reaches(x, y) /\ Asks(x, y)' = Asks(x, y)
    BY SameGraph DEF Notes
  <1>6. RootInv'
    BY <1>3, <1>4, <1>5 DEF RootInv
  <1>7. RequestInv'
    <2>1. ASSUME NEW x \in Module, NEW y \in Module, Met(x, y)
          PROVE  Met(x, y)'
      BY <2>1, <1>2, <1>3, <1>4 DEF Met
    <2>2. Met(m, n)'
      <3>1. CASE On(n)
        BY <3>1, <1>1, <1>4 DEF Met
      <3>2. CASE ~On(n) /\ Turned(w)
        BY <3>2, <1>2, <1>3 DEF Met
      <3>3. CASE ~On(n) /\ ~Turned(w)
        BY <3>3, <1>1, <1>3, <1>4 DEF Met
      <3> QED
        BY <3>1, <3>2, <3>3
    <2>3. ASSUME NEW x \in Module, NEW y \in Module, Saw(x, y)', On(x)' \/ Ended(x)'
          PROVE  Met(x, y)'
      <3>1. CASE Saw(x, y)
        BY <3>1, <2>1, <2>3, <1>4 DEF RequestInv
      <3>2. CASE x = m /\ y = n
        BY <3>2, <2>2
      <3> QED
        BY <3>1, <3>2, <2>3, <1>2
    <2> QED
      BY <2>3, <1>4, <1>5 DEF RequestInv
  <1>8. WaitInv'
    <2>1. ASSUME NEW x \in Module, NEW p \in Module, Waits(p, x)
          PROVE  /\ Reaches(p, x)'
                 /\ ~Unwalked(p)' /\ ~Unwalked(x)'
                 /\ Turned(x)' \/ Done(x)'
                 /\ On(x)' => On(p)' /\ Saw(p, x)'
                 /\ Failed(x)' => Failed(p)'
                 /\ On(x)' \/ Async(x)' => Turned(p)' \/ Walking(p)' \/ Failed(p)'
                 /\ Order(x)' < asyncOrder'
                 /\ Turned(p)' => Order(x)' < Order(p)'
      BY <2>1, <1>2, <1>3, <1>4, <1>5 DEF WaitInv
    <2>2. ASSUME Turned(w)
          PROVE  /\ Reaches(m, w)'
                 /\ ~Unwalked(m)' /\ ~Unwalked(w)'
                 /\ Turned(w)' \/ Done(w)'
                 /\ On(w)' => On(m)' /\ Saw(m, w)'
                 /\ Failed(w)' => Failed(m)'
                 /\ On(w)' \/ Async(w)' => Turned(m)' \/ Walking(m)' \/ Failed(m)'
                 /\ Order(w)' < asyncOrder'
                 /\ Turned(m)' => Order(w)' < Order(m)'
      <3>1. ~Unwalked(m) /\ ~Unwalked(w) /\ ~Failed(w)
        BY <1>1, OneState
      <3>2. Order(w) < asyncOrder
        BY <2>2 DEF TurnInv
      <3> QED
        BY <2>2, <3>1, <3>2, <1>1, <1>2, <1>3, <1>4, <1>5
    <2>3. ASSUME NEW x \in Module, NEW p \in Module, Waits(p, x)'
          PROVE  Waits(p, x) \/ (Turned(w) /\ p = m /\ x = w)
      BY <2>3, <1>2
    <2> QED
      BY <2>1, <2>2, <2>3 DEF WaitInv
  <1>9. TurnInv'
    <2>1. ASSUME NEW x \in Module, Turned(x)', On(x)'
          PROVE  \E y \in Module : On(y)' /\ Waits(y, x)' /\ At(y)' < At(x)'
      <3>1. CASE \E y \in Module : On(y) /\ Waits(y, x) /\ At(y) < At(x)
        BY <3>1, <1>2, <1>3, <1>4
      <3>2. CASE Requiring(x) /\ At(Walker(Depth)) < At(x)
        <4>1. x = n /\ On(n) /\ w = n
          BY <3>2, <2>1, <1>4 DEF Requiring
        <4> QED
          BY <4>1, <3>2, <2>1, <1>1, <1>2, <1>3, <1>4
      <3> QED
        BY <3>1, <3>2, <2>1, <1>3, <1>4 DEF TurnInv
    <2>2. ASSUME NEW x \in Module, Turned(x)', Root(x)' # x
          PROVE  \E y \in Module : Waits(y, x)' /\ Root(y)' = Root(x)' /\ At(y)' < At(x)'
      BY <2>2, <1>2, <1>3 DEF TurnInv
    <2>3. ASSUME NEW x \in Module
          PROVE  /\ Turned(x)' => On(x)' \/ Async(x)' \/ Failed(x)'
                 /\ Turned(x)' => Order(x)' < asyncOrder'
                 /\ Async(x)' => Turned(x)'
                 /\ Unwalked(x)' \/ Walking(x)' => ~Turned(x)' /\ starts'[x] = 0
      BY <1>2, <1>3, <1>4 DEF TurnInv
    <2> QED
      BY <2>1, <2>2, <2>3 DEF TurnInv
  <1> QED
    BY <1>6, <1>7, <1>8, <1>9

LEMMA NotedCounts ==
    ASSUME IInv, NEW m, NEW n, NEW w, MayNote(m, n, w), Notes(m, n, w)
    PROVE  CountInv' /\ GatherInv' /\ JobInv' /\ OutcomeInv'
  <1> USE DEF IInv, MayNote
  <1>1. Depth \in 1 .. Depth /\ On(m) /\ Walking(m) /\ ready = {} /\ gathering = <<>>
    BY NotedWhat
  <1>2. /\ Depth' = Depth
        /\ \A i \in 1 .. Depth : Walker(i)' = Walker(i)
        /\ \A x : Walking(x)' = Walking(x)
        /\ \A x \in Module : \A k \in Nat : \A p :
               k \in Waiting(x)' /\ Waiter(x, k)' = p =>
                   \/ k \in Waiting(x) /\ Waiter(x, k) = p
                   \/ Turned(w) /\ x = w /\ p = m /\ k = Len(Waiters(w)) + 1
    BY NotedCalls
  <1>3. /\ \A x \in Module : /\ Root(x)' = Root(x) /\ Turned(x)' = Turned(x)
                             /\ Err(x)' = Err(x) /\ Cap(x)' = Cap(x) /\ Root(x) \in Module
        /\ \A x \in Module : x # m => Pend(x)' = Pend(x)
        /\ Pend(m)' = IF Turned(w) THEN Pend(m) + 1 ELSE Pend(m)
        /\ starts' = starts /\ ready' = ready /\ running' = running /\ jobs' = jobs
    BY AccessorTypes DEF Notes, SameRoots, SameTurns, SameOutcomes
  <1>4. \A x \in Module : /\ On(x)' = On(x) /\ Async(x)' = Async(x) /\ Failed(x)' = Failed(x)
                          /\ Done(x)' = Done(x) /\ Unwalked(x)' = Unwalked(x)
    BY EqualStatus DEF Notes, SameStatus
  <1>5. /\ \A x, y : Reaches(x, y)' = Reaches(x, y) /\ Asks(x, y)' = Asks(x, y)
        /\ \A x : HasAwait(x)' = HasAwait(x)
    BY SameGraph DEF Notes
  <1>6. Gathering' = Gathering /\ \A j : Gathers(j)' = Gathers(j) /\ Counts(j)' = Counts(j)
    BY SameGathering DEF Notes
  <1>7. \A x \in Module : Cleared(x)' = Cleared(x)
    BY <1>3, <1>4, <1>5 DEF Cleared
  <1>8. \A x \in Module : Pend(x) \in Nat /\ Waiters(x) \in Seq(Module)
    BY AccessorTypes
  <1>9. PICK place \in Module \X Nat : place = <<w, Len(Waiters(w)) + 1>>
    <2>1. Waiters(w) \in Seq(Module)
      BY <1>8
    <2>2. Len(Waiters(w)) + 1 \in Nat
      BY <2>1
    <2> QED
      BY <2>2
  <1>10. ASSUME NEW p \in Module, NEW x \in Module, NEW k \in Nat, Due(p, x, k)'
         PROVE  Due(p, x, k) \/ (Turned(w) /\ p = m /\ <<x, k>> = place)
    <2>1. k \in Waiting(x)' /\ Waiter(x, k)' = p
      BY <1>10 DEF Due
    <2>2. ~Cleared(x) \/ \E j \in Gathering : Gathers(j) = x /\ Counts(j) <= k
      BY <1>10, <1>6, <1>7 DEF Due
    <2>3. \/ k \in Waiting(x) /\ Waiter(x, k) = p
          \/ Turned(w) /\ x = w /\ p = m /\ k = Len(Waiters(w)) + 1
      BY <2>1, <1>2
    <2> QED
      BY <2>2, <2>3, <1>9 DEF Due
  <1>11. ASSUME NEW p \in Module, ~Failed(p)'
         PROVE  IsFiniteSet(Uncounted(p))' /\ (Cardinality(Uncounted(p)) <= Pend(p))'
    <2>1. IsFiniteSet(Uncounted(p)) /\ Cardinality(Uncounted(p)) <= Pend(p)
      BY <1>4, <1>11 DEF CountInv
    <2>2. CASE p # m \/ ~Turned(w)
      <3>1. \A x \in Module : \A k \in Nat : Due(p, x, k)' => Due(p, x, k)
        BY <2>2, <1>10
      <3>2. Pend(p)' = Pend(p)
        BY <2>2, <1>3
      <3> QED
        BY <2>1, <3>1, <3>2, <1>8, FewerUncounted
    <2>3. CASE p = m /\ Turned(w)
      <3>1. Uncounted(m)' \subseteq Uncounted(m) \union {place}
        <4>1. Uncounted(m)' = {pl \in Module \X Nat : Due(m, pl[1], pl[2])'}
          BY DEF Uncounted
        <4>2. ASSUME NEW pl \in Module \X Nat, Due(m, pl[1], pl[2])'
              PROVE  Due(m, pl[1], pl[2]) \/ pl = place
          <5>1. pl = <<pl[1], pl[2]>> /\ pl[1] \in Module /\ pl[2] \in Nat
            OBVIOUS
          <5> QED
            BY <4>2, <5>1, <1>10
        <4> QED
          BY <4>1, <4>2 DEF Uncounted
      <3>2. /\ IsFiniteSet(Uncounted(m) \union {place})
            /\ Cardinality(Uncounted(m) \union {place}) <= Cardinality(Uncounted(m)) + 1
            /\ Cardinality(Uncounted(m)) \in Nat
        <4>1. IsFiniteSet(Uncounted(m)) /\ Cardinality(Uncounted(m)) \in Nat
          BY <2>1, <2>3, FS_CardinalityType
        <4> QED
          BY <4>1, OneMore
      <3>3. /\ IsFiniteSet(Uncounted(m)')
            /\ Cardinality(Uncounted(m)') <= Cardinality(Uncounted(m) \union {place})
        BY <3>1, <3>2, FS_Subset
      <3>4. Cardinality(Uncounted(m)') \in Nat /\ Cardinality(Uncounted(m) \union {place}) \in Nat
        BY <3>2, <3>3, FS_CardinalityType
      <3> QED
        BY <2>1, <2>3, <3>2, <3>3, <3>4, <1>3, <1>8
    <2> QED
      BY <2>2, <2>3
  <1>12. ASSUME NEW p \in Module, Pend(p)' > 0
         PROVE  starts'[p] = 0 /\ (Walking(p)' \/ Turned(p)' \/ Failed(p)')
    <2>1. starts[m] = 0
      BY <1>1 DEF TurnInv
    <2> QED
      BY <2>1, <1>12, <1>1, <1>2, <1>3, <1>4 DEF CountInv
  <1>13. CountInv'
    BY <1>1, <1>3, <1>11, <1>12 DEF CountInv
  <1>14. GatherInv' /\ JobInv'
    BY <1>1, <1>3, <1>6, JobTypes DEF GatherInv, JobInv, Gathering
  <1>15. OutcomeInv'
    <2>1. Walker(1)' = Walker(1)
      BY <1>1, <1>2
    <2>2. None' = None
      BY DEF None, Promise
    <2>3. \A x \in Module : Failed(x)' => Err(x)' \in Module /\ Reaches(x, Err(x))' /\ Failed(Err(x))'
      BY <1>3, <1>4, <1>5 DEF OutcomeInv
    <2>4. ASSUME NEW x \in Module, Cap(x)' # None
          PROVE  /\ Root(x)' = x
                 /\ Unwalked(x)' \/ On(x)' => Depth' > 0 /\ Walker(1)' = x
                 /\ Cap(x)'.state = "fulfilled" => Done(x)'
                 /\ Cap(x)'.state = "rejected" =>
                        Cap(x)'.error \in Module /\ Reaches(x, Cap(x).error)' /\ Failed(Cap(x).error)'
      <3>1. Cap(x)' = Cap(x)
        BY <1>3
      <3>2. /\ Root(x) = x
            /\ Unwalked(x) \/ On(x) => Depth > 0 /\ Walker(1) = x
            /\ Cap(x).state = "fulfilled" => Done(x)
            /\ Cap(x).state = "rejected" =>
                   Cap(x).error \in Module /\ Reaches(x, Cap(x).error) /\ Failed(Cap(x).error)
        BY <2>4, <3>1 DEF OutcomeInv
      <3> QED
        BY <3>1, <3>2, <2>1, <1>2, <1>3, <1>4, <1>5
    <2>5. \A x, y \in Module : starts'[x] = 1 /\ Asks(x, y)' => Reaches(y, x)' \/ Done(Root(y))'
      BY <1>3, <1>4, <1>5 DEF OutcomeInv
    <2> QED
      BY <2>2, <2>3, <2>4, <2>5 DEF OutcomeInv
  <1> QED
    BY <1>13, <1>14, <1>15

LEMMA RequirePreserves ==
    ASSUME IInv, TypeOK', NEW m, NEW n, NEW w, MayNote(m, n, w), Notes(m, n, w)
    PROVE  IInv'
  BY NotedWalk, NotedRecords, NotedCounts DEF IInv
-----------------------------------------------------------------------------
(* Bodies that may run.                                                    *)

\* A module that waits for none more waits for nothing that is not done, or
\* about to be run.
LEMMA NoneLeft ==
    ASSUME TypeOK, CountInv, NEW p \in Module, ~Failed(p), Pend(p) = 0, NEW w \in Module, Waits(p, w)
    PROVE  Cleared(w)
  <1>1. IsFiniteSet(Uncounted(p)) /\ Cardinality(Uncounted(p)) <= 0
    BY DEF CountInv
  <1>2. Cardinality(Uncounted(p)) = 0
    BY <1>1, FS_CardinalityType
  <1>3. Uncounted(p) = {}
    BY <1>1, <1>2, FS_EmptySet
  <1>4. PICK k \in Waiting(w) : Waiter(w, k) = p
    BY DEF Waits
  <1>5. k \in Nat
    BY <1>4 DEF Waiting
  <1>6. ~Due(p, w, k)
    <2>1. <<w, k>> \in Module \X Nat
      BY <1>5
    <2> QED
      BY <2>1, <1>3 DEF Uncounted
  <1> QED
    BY <1>4, <1>6 DEF Due

LEMMA WalkAtEnd ==
    ASSUME IInv, AtEnd
    PROVE  /\ Depth \in 1 .. Depth /\ Depth > 0
           /\ Frame.module = Walker(Depth) /\ Walker(Depth) \in Module
           /\ On(Walker(Depth)) /\ Walking(Walker(Depth)) /\ ~Turned(Walker(Depth))
           /\ starts[Walker(Depth)] = 0
           /\ \A n : ~Requiring(n)
           /\ \A i \in 1 .. Depth : i # Depth =>
                  At(Walker(i)) < At(Walker(Depth)) /\ Walker(i) # Walker(Depth)
           /\ \A n \in Module : Asks(Walker(Depth), n) => Saw(Walker(Depth), n)
           /\ frames # <<>> /\ ready = {} /\ gathering = <<>>
  <1> USE DEF IInv
  <1>1. frames # <<>> /\ Depth > 0 /\ Frame.module = Walker(Depth) /\ Frame.next = Step(Depth)
    BY FrameIsLast DEF AtEnd
  <1>2. Depth \in Nat /\ Depth \in 1 .. Depth
    <2>1. Depth \in Nat
      BY AccessorTypes
    <2> QED
      BY <1>1, <2>1
  <1>3. Walker(Depth) \in Module /\ Step(Depth) \in Nat
    BY <1>2, AccessorTypes
  <1>4. Step(Depth) > Len(graph.requested[Walker(Depth)]) /\ Len(graph.requested[Walker(Depth)]) \in Nat
    BY <1>1, <1>3, GraphTypes DEF AtEnd, Requested
  <1>5. On(Walker(Depth)) /\ Walking(Walker(Depth))
    BY <1>2 DEF FramesInv, Walking
  <1>6. ~Turned(Walker(Depth)) /\ starts[Walker(Depth)] = 0
    BY <1>3, <1>5 DEF TurnInv
  <1>7. \A n : ~Requiring(n)
    BY <1>3, <1>4 DEF Requiring, Requests
  <1>8. ASSUME NEW i \in 1 .. Depth, i # Depth
        PROVE  At(Walker(i)) < At(Walker(Depth)) /\ Walker(i) # Walker(Depth)
    <2>1. i < Depth
      BY <1>2, <1>8
    <2>2. At(Walker(i)) < At(Walker(Depth))
      BY <2>1, <1>2 DEF FramesInv
    <2>3. At(Walker(i)) \in Nat /\ At(Walker(Depth)) \in Nat
      BY <1>2, AccessorTypes
    <2> QED
      BY <2>2, <2>3
  <1>9. ASSUME NEW n \in Module, Asks(Walker(Depth), n)
        PROVE  Saw(Walker(Depth), n)
    <2>1. PICK r \in Requests(Walker(Depth)) : Request(Walker(Depth), r) = n
      BY <1>9 DEF Asks
    <2>2. r < Step(Depth)
      BY <1>3, <1>4 DEF Requests
    <2>3. \A i \in 1 .. Depth : Walker(i) = Walker(Depth) => r < Step(i)
      BY <1>8, <2>2
    <2> QED
      BY <2>1, <2>3 DEF Saw
  <1> QED
    BY <1>1, <1>2, <1>3, <1>5, <1>6, <1>7, <1>8, <1>9 DEF FramesInv

\* At the end of its requests, all being walked is in the last call's reach
\* and reaches it; and if its body may run, what it requests reaches it or
\* is done.
LEMMA BodyMayRun ==
    ASSUME IInv, AtEnd, Pend(Walker(Depth)) = 0
    PROVE  /\ \A w \in Module : Waits(Walker(Depth), w) => Done(w)
           /\ \A n \in Module : Asks(Walker(Depth), n) => Reaches(n, Walker(Depth)) \/ Done(Root(n))
  <1> USE DEF IInv
  <1> DEFINE m == Walker(Depth)
  <1>1. /\ Depth \in 1 .. Depth /\ m \in Module /\ On(m) /\ ready = {}
        /\ \A n \in Module : Asks(m, n) => Saw(m, n)
    BY WalkAtEnd
  <1>2. ASSUME NEW w \in Module, Waits(m, w)
        PROVE  Done(w)
    BY <1>1, <1>2, NoneLeft, OneState DEF Cleared
  <1>3. ASSUME NEW n \in Module, Asks(m, n)
        PROVE  Reaches(n, m) \/ Done(Root(n))
    <2>1. Met(m, n)
      BY <1>1, <1>3 DEF RequestInv
    <2>2. Root(n) \in Module /\ Depth \in Nat
      BY AccessorTypes
    <2>3. CASE On(n)
      BY <2>2, <2>3, <1>1 DEF ReachInv, Before
    <2>4. CASE ~On(n)
      BY <2>1, <2>2, <2>4, <1>1, <1>2, OneState DEF Met
    <2> QED
      BY <2>3, <2>4
  <1> QED
    BY <1>2, <1>3
-----------------------------------------------------------------------------
(* The walk fails.                                                         *)

Fails(e) ==
    /\ UNCHANGED <<graph, asyncOrder, gathering, ready, running, jobs>>
    /\ frames' = <<>> /\ stack' = <<>>
    /\ modules' \in [Module -> Record]
    /\ SameRoots /\ SameIndexes /\ SameTurns /\ SamePend /\ SameWaiters
    /\ \A m \in Module : On(m) => Failed(m)' /\ Err(m)' = e
    /\ \A m \in Module : ~On(m) => Status(m)' = Status(m) /\ Err(m)' = Err(m)
    /\ \A m \in Module : Cap(m)' = IF m = Walker(1) THEN Promise("rejected", e) ELSE Cap(m)

Outcome(r, s, x, c) == [r EXCEPT !.status = s, !.error = x, !.capability = c]

LEMMA OutcomeRecord ==
    ASSUME NEW o \in Record, NEW s \in Statuses, NEW x \in Module \union {NoError}, NEW k \in PromiseSet
    PROVE  /\ Outcome(o, s, x, k) \in Record
           /\ Outcome(o, s, x, k).status = s
           /\ Outcome(o, s, x, k).error = x
           /\ Outcome(o, s, x, k).capability = k
           /\ Outcome(o, s, x, k).dfsIndex = o.dfsIndex
           /\ Outcome(o, s, x, k).dfsAncestor = o.dfsAncestor
           /\ Outcome(o, s, x, k).asyncEvaluation = o.asyncEvaluation
           /\ Outcome(o, s, x, k).asyncOrder = o.asyncOrder
           /\ Outcome(o, s, x, k).pendingAsync = o.pendingAsync
           /\ Outcome(o, s, x, k).asyncParents = o.asyncParents
           /\ Outcome(o, s, x, k).cycleRoot = o.cycleRoot
  BY DEF Record, Outcome

LEMMA FailWalkFails ==
    ASSUME IInv, NEW e \in Module, frames # <<>>, FailWalk(e),
           UNCHANGED <<graph, asyncOrder, gathering, ready, running, jobs>>
    PROVE  Fails(e) /\ index' \in Nat
  <1> USE DEF IInv
  <1>1. \A m \in Module : modules[m] \in Record
    BY DEF TypeOK
  <1>2. \A m \in Module : Contains(stack, m) <=> On(m)
    BY DEF Contains, StackInv
  <1>3. Depth > 0 /\ Walker(1) = frames[1].module
    BY FrameIsLast DEF Walker
  <1>4. PICK c \in PromiseSet : c = Promise("rejected", e)
    BY RecordTypes
  <1>5. /\ modules' = [m \in Module |-> Outcome(modules[m],
                                              IF On(m) THEN "failed" ELSE modules[m].status,
                                              IF On(m) THEN e ELSE modules[m].error,
                                              IF m = Walker(1) THEN c ELSE modules[m].capability)]
        /\ frames' = <<>> /\ stack' = <<>> /\ index' = 0
    BY <1>2, <1>3, <1>4 DEF FailWalk, Outcome
  <1>6. ASSUME NEW m \in Module
        PROVE  /\ modules'[m] \in Record
               /\ modules'[m].dfsIndex = modules[m].dfsIndex
               /\ modules'[m].dfsAncestor = modules[m].dfsAncestor
               /\ modules'[m].asyncEvaluation = modules[m].asyncEvaluation
               /\ modules'[m].asyncOrder = modules[m].asyncOrder
               /\ modules'[m].pendingAsync = modules[m].pendingAsync
               /\ modules'[m].asyncParents = modules[m].asyncParents
               /\ modules'[m].cycleRoot = modules[m].cycleRoot
               /\ modules'[m].status = IF On(m) THEN "failed" ELSE modules[m].status
               /\ modules'[m].error = IF On(m) THEN e ELSE modules[m].error
               /\ modules'[m].capability = IF m = Walker(1) THEN c ELSE modules[m].capability
    <2>1. PICK o \in Record : o = modules[m]
      BY <1>1
    <2>2. PICK s \in Statuses : s = IF On(m) THEN "failed" ELSE o.status
      BY <2>1, RecordTypes DEF Statuses
    <2>3. PICK x \in Module \union {NoError} : x = IF On(m) THEN e ELSE o.error
      BY <2>1, RecordTypes
    <2>4. PICK k \in PromiseSet : k = IF m = Walker(1) THEN c ELSE o.capability
      BY <1>4, <2>1, RecordTypes
    <2>5. modules'[m] = Outcome(o, s, x, k)
      BY <1>5, <2>1, <2>2, <2>3, <2>4
    <2> HIDE DEF IInv
    <2> PICK t : t = Outcome(o, s, x, k)
      OBVIOUS
    <2>6. t \in Record
      BY OutcomeRecord
    <2>7. t.status = s
      BY OutcomeRecord
    <2>8. t.error = x
      BY <2>3 DEF Outcome, Record
    <2>9. t.capability = k
      BY OutcomeRecord
    <2>10. t.dfsIndex = o.dfsIndex
      BY OutcomeRecord
    <2>11. t.dfsAncestor = o.dfsAncestor
      BY OutcomeRecord
    <2>12. t.cycleRoot = o.cycleRoot
      BY OutcomeRecord
    <2>13. t.asyncEvaluation = o.asyncEvaluation
      BY OutcomeRecord
    <2>14. t.asyncOrder = o.asyncOrder
      BY OutcomeRecord
    <2>15. t.pendingAsync = o.pendingAsync
      BY OutcomeRecord
    <2>16. t.asyncParents = o.asyncParents
      BY OutcomeRecord
    <2>17. modules'[m] = t
      BY <2>5
    <2> QED
      BY <2>1, <2>2, <2>3, <2>4, <2>6, <2>7, <2>8, <2>9, <2>10, <2>11, <2>12, <2>13, <2>14, <2>15, <2>16, <2>17
  <1>7. DOMAIN modules' = Module /\ modules' = [m \in Module |-> modules'[m]]
    BY <1>5
  <1>8. modules' \in [Module -> Record]
    BY <1>6, <1>7
  <1>9. SameRoots /\ SameIndexes /\ SameTurns /\ SamePend /\ SameWaiters
    BY <1>6 DEF SameRoots, SameIndexes, SameTurns, SamePend, SameWaiters,
                Root, At, Low, Turned, Order, Pend, Waiters
  <1>10. /\ \A m \in Module : On(m) => Failed(m)' /\ Err(m)' = e
         /\ \A m \in Module : ~On(m) => Status(m)' = Status(m) /\ Err(m)' = Err(m)
         /\ \A m \in Module : Cap(m)' = IF m = Walker(1) THEN Promise("rejected", e) ELSE Cap(m)
    BY <1>4, <1>6 DEF Failed, Status, Err, Cap
  <1> QED
    BY <1>5, <1>8, <1>9, <1>10 DEF Fails

LEMMA FailsPreserves ==
    ASSUME IInv, NEW e \in Module, Depth > 0, Fails(e), Failed(e)', index' \in Nat,
           \A m \in Module : On(m) => Reaches(m, e),
           starts' \in [Module -> {0, 1}],
           \A m \in Module : starts'[m] # starts[m] =>
               /\ On(m) /\ Pend(m) = 0 /\ starts[m] = 0
               /\ \A n \in Module : Asks(m, n) => Reaches(n, m) \/ Done(Root(n))
    PROVE  IInv'
  <1> USE DEF IInv
  <1>1. TypeOK'
    <2>1. << >> \in Seq(Call) /\ << >> \in Seq(Module)
      OBVIOUS
    <2> QED
      BY <2>1 DEF TypeOK, Fails
  <1>2. \A m \in Module : /\ Root(m)' = Root(m) /\ At(m)' = At(m) /\ Turned(m)' = Turned(m)
                          /\ Order(m)' = Order(m) /\ Pend(m)' = Pend(m)
                          /\ Root(m) \in Module /\ Pend(m) \in Nat
    BY AccessorTypes DEF Fails, SameRoots, SameIndexes, SameTurns, SamePend
  <1>3. \A m \in Module : /\ ~On(m)' /\ Async(m)' = Async(m) /\ Done(m)' = Done(m)
                          /\ Ended(m)' = Ended(m) /\ Unwalked(m)' = Unwalked(m)
                          /\ (Failed(m)' <=> Failed(m) \/ On(m))
                          /\ ((Status(m) = "new")' <=> Status(m) = "new")
    <2>1. ASSUME NEW m \in Module, On(m)
          PROVE  Status(m)' = "failed" /\ Status(m) = "evaluating"
      BY <2>1 DEF Fails, Failed, On
    <2>2. ASSUME NEW m \in Module, ~On(m)
          PROVE  Status(m)' = Status(m)
      BY <2>2 DEF Fails
    <2> QED
      BY <2>1, <2>2 DEF On, Async, Done, Ended, Unwalked, Failed
  <1>4. \A w \in Module : /\ Waiting(w)' = Waiting(w) /\ \A k : Waiter(w, k)' = Waiter(w, k)
                          /\ \A p \in Module : Waits(p, w)' = Waits(p, w)
    BY SameWaits DEF Fails
  <1>5. /\ \A m, n : Reaches(m, n)' = Reaches(m, n) /\ Asks(m, n)' = Asks(m, n)
        /\ \A m : HasAwait(m)' = HasAwait(m)
    BY SameGraph DEF Fails
  <1>6. /\ StackInv' /\ FramesInv' /\ ReachInv' /\ LowInv'
        /\ \A m \in Module : ~Walking(m)'
        /\ \A m, n \in Module : Saw(m, n)' <=> Asks(m, n)
    BY <1>3, StillNoWalk DEF Fails
  <1>7. \A m \in Module : ~On(m) => ~Walking(m)
    BY WalkingIsOn
  <1>8. RootInv'
    BY <1>2, <1>3, <1>5 DEF RootInv
  <1>9. RequestInv'
    <2>1. ASSUME NEW m \in Module, NEW n \in Module, Saw(m, n)', Ended(m)'
          PROVE  Met(m, n)'
      <3>1. Ended(m) /\ ~On(m) /\ Saw(m, n)
        BY <2>1, <1>3, <1>6, <1>7, OneState, SawAll
      <3>2. Met(m, n)
        BY <3>1 DEF RequestInv
      <3> QED
        BY <3>1, <3>2, <1>2, <1>3, <1>4 DEF Met
    <2> QED
      BY <2>1, <1>3, <1>5 DEF RequestInv
  <1>10. WaitInv'
    <2>1. \A m \in Module : Walking(m) => Failed(m)'
      BY <1>3, <1>7
    <2>2. asyncOrder' = asyncOrder
      BY DEF Fails
    <2> QED
      BY <2>1, <2>2, <1>2, <1>3, <1>4, <1>5 DEF WaitInv
  <1>11. TurnInv'
    <2>1. asyncOrder' = asyncOrder
      BY DEF Fails
    <2>2. \A m \in Module : Unwalked(m) => starts'[m] = 0
      BY OneState DEF TurnInv
    <2> QED
      BY <2>1, <2>2, <1>2, <1>3, <1>4, <1>6 DEF TurnInv
  <1>12. ready' = {} /\ ready = {} /\ gathering = <<>> /\ gathering' = <<>> /\ Gathering = {} /\ Gathering' = {}
    BY DEF Fails, FramesInv, Gathering
  <1>13. \A w \in Module : Cleared(w)' = Cleared(w)
    BY <1>3, <1>12 DEF Cleared
  <1>14. \A p, w \in Module : \A k \in Nat : Due(p, w, k)' => Due(p, w, k)
    BY <1>4, <1>12, <1>13 DEF Due
  <1>15. CountInv'
    <2>1. \A p \in Module : ~Failed(p)' => IsFiniteSet(Uncounted(p))' /\ (Cardinality(Uncounted(p)) <= Pend(p))'
      BY <1>2, <1>3, <1>14, FewerUncounted DEF CountInv
    <2>2. ASSUME NEW p \in Module, Pend(p)' > 0
          PROVE  starts'[p] = 0 /\ (Walking(p)' \/ Turned(p)' \/ Failed(p)')
      <3>1. Pend(p) > 0 /\ starts[p] = 0 /\ (Walking(p) \/ Turned(p) \/ Failed(p))
        BY <2>2, <1>2 DEF CountInv
      <3> QED
        BY <3>1, <1>2, <1>3, <1>7
    <2> QED
      BY <2>1, <2>2, <1>12 DEF CountInv
  <1>16. GatherInv'
    BY <1>12 DEF GatherInv
  <1>17. JobInv'
    <2>1. running' = running /\ jobs' = jobs
      BY DEF Fails
    <2>2. \A m \in Module : starts[m] = 1 => starts'[m] = 1
      BY <1>1, JobTypes DEF TypeOK
    <2> QED
      BY <2>1, <2>2, <1>2, JobTypes DEF JobInv
  <1>18. OutcomeInv'
    <2>1. ASSUME NEW m \in Module, Failed(m)'
          PROVE  Err(m)' \in Module /\ Reaches(m, Err(m))' /\ Failed(Err(m))'
      <3>1. CASE On(m)
        <4>1. Err(m)' = e
          BY <3>1 DEF Fails
        <4> QED
          BY <3>1, <4>1, <1>5
      <3>2. CASE ~On(m)
        <4>1. Err(m)' = Err(m) /\ Failed(m)
          BY <3>2, <2>1, <1>3 DEF Fails
        <4> QED
          BY <4>1, <1>3, <1>5 DEF OutcomeInv
      <3> QED
        BY <3>1, <3>2
    <2>2. On(Walker(1)) /\ Walker(1) \in Module /\ Root(Walker(1)) = Walker(1)
      <3>1. 1 \in 1 .. Depth
        BY AccessorTypes
      <3>2. On(Walker(1)) /\ Walker(1) \in Module
        BY <3>1, AccessorTypes DEF FramesInv
      <3> QED
        BY <3>2, OneState DEF RootInv
    <2>3. ASSUME NEW m \in Module, m = Walker(1)
          PROVE  /\ Root(m)' = m /\ ~Unwalked(m)'
                 /\ Cap(m)'.state = "rejected" /\ Cap(m)'.error = e
      <3>1. Cap(m)' = Promise("rejected", e)
        BY <2>3 DEF Fails
      <3> QED
        BY <3>1, <2>2, <2>3, <1>2, <1>3, OneState DEF Promise
    <2>4. ASSUME NEW m \in Module, m # Walker(1), Cap(m)' # None
          PROVE  /\ Root(m)' = m /\ ~Unwalked(m)'
                 /\ Cap(m)'.state = "fulfilled" => Done(m)'
                 /\ Cap(m)'.state = "rejected" =>
                        Cap(m)'.error \in Module /\ Reaches(m, Cap(m).error)' /\ Failed(Cap(m).error)'
      <3>1. Cap(m)' = Cap(m)
        BY <2>4 DEF Fails
      <3>2. /\ Root(m) = m /\ ~Unwalked(m)
            /\ Cap(m).state = "fulfilled" => Done(m)
            /\ Cap(m).state = "rejected" =>
                   Cap(m).error \in Module /\ Reaches(m, Cap(m).error) /\ Failed(Cap(m).error)
        BY <2>4, <3>1 DEF OutcomeInv
      <3> QED
        BY <3>1, <3>2, <1>2, <1>3, <1>5
    <2>5. ASSUME NEW m \in Module, Cap(m)' # None
          PROVE  /\ Root(m)' = m /\ ~Unwalked(m)' /\ ~On(m)'
                 /\ Cap(m)'.state = "fulfilled" => Done(m)'
                 /\ Cap(m)'.state = "rejected" =>
                        Cap(m)'.error \in Module /\ Reaches(m, Cap(m).error)' /\ Failed(Cap(m).error)'
      <3>1. CASE m = Walker(1)
        <4>1. Reaches(m, e)' /\ Failed(e)'
          BY <2>2, <3>1, <1>5
        <4> QED
          BY <2>3, <3>1, <4>1, <1>3
      <3>2. CASE m # Walker(1)
        BY <2>4, <2>5, <3>2, <1>3
      <3> QED
        BY <3>1, <3>2
    <2>6. ASSUME NEW m \in Module, NEW n \in Module, starts'[m] = 1, Asks(m, n)'
          PROVE  Reaches(n, m)' \/ Done(Root(n))'
      <3>1. Asks(m, n)
        BY <2>6, <1>5
      <3>2. Reaches(n, m) \/ Done(Root(n))
        BY <2>6, <3>1 DEF OutcomeInv
      <3> QED
        BY <3>2, <1>2, <1>3, <1>5
    <2>7. None' = None
      BY DEF None, Promise
    <2> QED
      BY <2>1, <2>5, <2>6, <2>7 DEF OutcomeInv
  <1> QED
    BY <1>1, <1>6, <1>8, <1>9, <1>10, <1>11, <1>15, <1>16, <1>17, <1>18
-----------------------------------------------------------------------------
(* Require.                                                                *)

\* Of a request whose module, or its cycle, has failed.
LEMMA FailedRequestPreserves ==
    ASSUME IInv, AtRequest, NEW k \in Module, Failed(k), Reaches(Walker(Depth), k), FailWalk(Err(k)),
           UNCHANGED <<graph, asyncOrder, gathering, ready, running, jobs, starts>>
    PROVE  IInv'
  <1> USE DEF IInv
  <1>1. /\ Depth > 0 /\ Depth \in 1 .. Depth /\ Walker(Depth) \in Module /\ On(Walker(Depth))
        /\ frames # <<>>
    BY RequestMade DEF AtRequest
  <1> PICK e \in Module : e = Err(k) /\ Reaches(k, e) /\ Failed(e)
    BY DEF OutcomeInv
  <1>2. Fails(e) /\ index' \in Nat
    BY <1>1, FailWalkFails
  <1>3. ~On(e)
    BY OneState
  <1>4. Failed(e)'
    BY <1>2, <1>3 DEF Fails, Failed
  <1>5. ASSUME NEW m \in Module, On(m)
        PROVE  Reaches(m, e)
    <2>1. Depth \in Nat /\ ~(Depth + 1 <= Depth)
      BY AccessorTypes
    <2>2. Reaches(m, Walker(Depth))
      BY <2>1, <1>1, <1>5 DEF ReachInv, Before
    <2>3. Reaches(m, k)
      BY <2>2, <1>1, ReachesThrough
    <2> QED
      BY <2>3, ReachesThrough
  <1>6. starts' = starts /\ starts \in [Module -> {0, 1}]
    BY DEF TypeOK
  <1> QED
    BY <1>1, <1>2, <1>4, <1>5, <1>6, FailsPreserves

SameButWaiting(r, o) ==
    /\ r.status = o.status /\ r.error = o.error /\ r.dfsIndex = o.dfsIndex
    /\ r.asyncEvaluation = o.asyncEvaluation /\ r.asyncOrder = o.asyncOrder
    /\ r.cycleRoot = o.cycleRoot /\ r.capability = o.capability

LEMMA RequireNotes ==
    ASSUME IInv, Require, NEW m \in Module, NEW n \in Module, NEW w \in Module, MayNote(m, n, w), n = Required,
           ~Failed(n), ~Failed(w), w = WaitedOn(n)
    PROVE  Notes(m, n, w) /\ TypeOK'
  <1> USE DEF IInv, MayNote
  <1>1. /\ \A k \in Module : modules[k] \in Record
        /\ DOMAIN modules = Module
    BY DEF TypeOK
  <1>2. Turned(w) => m # w
    BY NotedWhat
  <1>3. m = Frame.module /\ frames # <<>>
    BY FrameIsLast
  <1> PICK low \in Nat : low = IF On(n) /\ Low(n) < Low(m) THEN Low(n) ELSE Low(m)
    BY AccessorTypes
  <1> PICK o \in Record : o = modules[m]
    BY <1>1
  <1> PICK q \in Record : q = modules[w]
    BY <1>1
  <1>4. o.pendingAsync \in Nat /\ q.asyncParents \in Seq(Module) /\ o.dfsAncestor \in Nat
    BY DEF Record
  <1> DEFINE lowered == [modules EXCEPT ![m].dfsAncestor = low]
  <1>5. /\ modules' = IF Turned(w) THEN [lowered EXCEPT ![m].pendingAsync = @ + 1,
                                                        ![w].asyncParents = Append(@, m)]
                      ELSE lowered
        /\ frames' = [frames EXCEPT ![Len(frames)].next = @ + 1]
        /\ UNCHANGED <<stack, index, graph, asyncOrder, gathering, ready, running, jobs, starts>>
    BY <1>3 DEF Require, Failed, Status, On, Turned, Low
  <1> PICK pend \in Nat : pend = IF Turned(w) THEN o.pendingAsync + 1 ELSE o.pendingAsync
    BY <1>4
  <1> HIDE DEF IInv, MayNote
  <1>a. Append(q.asyncParents, m) \in Seq(Module)
    BY <1>4
  <1> PICK after \in Seq(Module) : after = IF Turned(w) THEN Append(q.asyncParents, m) ELSE q.asyncParents
    BY <1>4, <1>a
  <1> PICK lr : lr = [o EXCEPT !.dfsAncestor = low, !.pendingAsync = pend]
    OBVIOUS
  <1> PICK wr : wr = [q EXCEPT !.asyncParents = after]
    OBVIOUS
  <1>6. modules'[m] = lr
    <2>1. CASE Turned(w)
      <3>1. lowered = [modules EXCEPT ![m] = [o EXCEPT !.dfsAncestor = low]]
        OBVIOUS
      <3> PICK lo \in Record : lo = [o EXCEPT !.dfsAncestor = low]
        BY RecordTypes
      <3>4. lo.pendingAsync = o.pendingAsync
        BY DEF Record
      <3>2. lowered[m] = lo
        BY <3>1, <1>1
      <3>3. modules'[m] = [lo EXCEPT !.pendingAsync = pend]
        BY <3>1, <3>2, <3>4, <1>1, <1>2, <1>5, <2>1
      <3> QED
        BY <3>3
    <2>2. CASE ~Turned(w)
      <3>1. modules'[m] = [o EXCEPT !.dfsAncestor = low]
        BY <1>1, <1>5, <2>2
      <3> QED
        BY <3>1, <2>2 DEF Record
    <2> QED
      BY <2>1, <2>2
  <1>7. w # m => modules'[w] = IF Turned(w) THEN wr ELSE modules[w]
    BY <1>1, <1>5
  <1>8. \A k \in Module : k # m /\ k # w => modules'[k] = modules[k]
    BY <1>1, <1>5
  <1> HIDE DEF lowered
  <1>9. /\ lr \in Record /\ SameButWaiting(lr, o)
        /\ lr.dfsAncestor = low /\ lr.pendingAsync = pend /\ lr.asyncParents = o.asyncParents
    BY DEF Record, SameButWaiting
  <1>10. /\ wr \in Record /\ SameButWaiting(wr, q)
         /\ wr.dfsAncestor = q.dfsAncestor /\ wr.pendingAsync = q.pendingAsync /\ wr.asyncParents = after
    BY DEF Record, SameButWaiting
  <1>11. modules' \in [Module -> Record]
    <2>1. modules \in [Module -> Record]
      BY DEF IInv, TypeOK
    <2> PICK new : new = modules'
      OBVIOUS
    <2>2. new = [k \in Module |-> new[k]]
      <3>1. lowered \in [Module -> {lowered[k] : k \in Module}]
        BY <2>1 DEF lowered
      <3>2. CASE Turned(w)
        <4>1. \E a, b : new = [lowered EXCEPT ![m] = a, ![w] = b]
          BY <1>5, <3>2
        <4> QED
          BY <3>1, <4>1
      <3>3. CASE ~Turned(w)
        BY <1>5, <3>1, <3>3
      <3> QED
        BY <3>2, <3>3
    <2>3. \A k \in Module : new[k] \in Record
      <3>1. new[m] \in Record
        BY <1>6, <1>9
      <3>2. w # m => new[w] \in Record
        BY <1>1, <1>7, <1>10
      <3>3. \A k \in Module : k # m /\ k # w => new[k] \in Record
        BY <1>1, <1>8
      <3> QED
        BY <3>1, <3>2, <3>3
    <2>4. new \in [Module -> Record]
      BY <2>2, <2>3
    <2> QED
      BY <2>4
  <1>b. /\ SameButWaiting(modules'[m], modules[m])
        /\ modules'[m].dfsAncestor = low /\ modules'[m].pendingAsync = pend
        /\ modules'[m].asyncParents = modules[m].asyncParents
    BY <1>6, <1>9
  <1>c. w # m => /\ SameButWaiting(modules'[w], modules[w])
                 /\ modules'[w].dfsAncestor = modules[w].dfsAncestor
                 /\ modules'[w].pendingAsync = modules[w].pendingAsync
    BY <1>7, <1>10 DEF SameButWaiting
  <1>d. \A k \in Module : SameButWaiting(modules'[k], modules[k])
    BY <1>b, <1>c, <1>8 DEF SameButWaiting
  <1>12. /\ \A k \in Module : Root(k)' = Root(k) /\ Turned(k)' = Turned(k) /\ Order(k)' = Order(k)
         /\ \A k \in Module : Err(k)' = Err(k) /\ Cap(k)' = Cap(k) /\ Status(k)' = Status(k) /\ At(k)' = At(k)
    BY <1>d DEF SameButWaiting, Root, Turned, Order, Err, Cap, Status, At
  <1>13. /\ \A k \in Module : k # m => Low(k)' = Low(k) /\ Pend(k)' = Pend(k)
         /\ Low(m)' = low /\ Pend(m)' = pend /\ Pend(m) = o.pendingAsync
    BY <1>b, <1>c, <1>8 DEF Low, Pend
  <1>14. /\ \A k \in Module : k # w => Waiters(k)' = Waiters(k)
         /\ Waiters(w)' = IF Turned(w) THEN Append(Waiters(w), m) ELSE Waiters(w)
    <2>1. \A k \in Module : k # w => modules'[k].asyncParents = modules[k].asyncParents
      BY <1>b, <1>8
    <2>2. Turned(w) => modules'[w].asyncParents = Append(modules[w].asyncParents, m)
      BY <1>2, <1>7, <1>10
    <2>3. ~Turned(w) => modules'[w].asyncParents = modules[w].asyncParents
      BY <1>b, <1>7
    <2> QED
      BY <2>1, <2>2, <2>3 DEF Waiters
  <1>15. Notes(m, n, w)
    BY <1>5, <1>11, <1>12, <1>13, <1>14 DEF Notes, SameRoots, SameTurns, SameOutcomes
  <1>16. frames' \in Seq(Call)
    BY <1>15, NotedCalls
  <1> QED
    BY <1>5, <1>11, <1>15, <1>16 DEF TypeOK, IInv

LEMMA RequireIsPreserving ==
    ASSUME IInv, Require
    PROVE  IInv'
  <1> USE DEF IInv
  <1>1. AtRequest /\ Status(Required) # "linked"
    BY DEF Require
  <1> PICK n \in Module : n = Required
    BY <1>1, RequestMade
  <1>2. /\ Depth > 0 /\ Walker(Depth) \in Module /\ Requiring(n) /\ Asks(Walker(Depth), n)
        /\ Status(n) # "new" /\ Status(n) # "linked"
    BY <1>1, RequestMade
  <1> PICK m \in Module : m = Walker(Depth)
    BY <1>2
  <1> PICK w \in Module : w = WaitedOn(n)
    BY AccessorTypes DEF WaitedOn, Root
  <1>3. w = IF On(n) THEN n ELSE Root(n)
    BY DEF WaitedOn, On, Root
  <1>4. Reaches(m, n) /\ Reaches(m, w)
    BY <1>2, <1>3, AskedIsReached, ReachesThrough DEF RootInv
  <1>5. UNCHANGED <<graph, asyncOrder, gathering, ready, running, jobs, starts>>
    BY DEF Require
  <1>6. CASE Failed(n)
    <2>1. FailWalk(Err(n))
      BY <1>6 DEF Require, Failed, Err
    <2> QED
      BY <2>1, <1>1, <1>4, <1>5, <1>6, FailedRequestPreserves
  <1>7. CASE ~Failed(n) /\ Failed(w)
    <2>1. FailWalk(Err(w))
      BY <1>7 DEF Require, Failed, Err, Status
    <2> QED
      BY <2>1, <1>1, <1>4, <1>5, <1>7, FailedRequestPreserves
  <1>8. CASE ~Failed(n) /\ ~Failed(w)
    <2>1. On(n) \/ Ended(n)
      BY <1>2, <1>8, OneState DEF Unwalked
    <2>2. On(w) \/ Ended(w)
      BY <2>1, <1>3, <1>8, OneState DEF RootInv
    <2>3. MayNote(m, n, w)
      BY <1>2, <1>3, <2>1, <2>2 DEF MayNote
    <2>4. Notes(m, n, w) /\ TypeOK'
      BY <2>3, <1>8, RequireNotes
    <2> QED
      BY <2>3, <2>4, RequirePreserves
  <1> QED
    BY <1>6, <1>7, <1>8
-----------------------------------------------------------------------------
(* A body that throws in the walk.                                         *)

LEMMA ThrowPreserves ==
    ASSUME IInv, AtEnd, Pend(Walker(Depth)) = 0, FailWalk(Walker(Depth)),
           starts' = [starts EXCEPT ![Walker(Depth)] = @ + 1],
           UNCHANGED <<graph, asyncOrder, gathering, ready, running, jobs>>
    PROVE  IInv'
  <1> USE DEF IInv
  <1>1. /\ Depth \in 1 .. Depth /\ Depth > 0 /\ frames # <<>>
        /\ Walker(Depth) \in Module /\ On(Walker(Depth)) /\ starts[Walker(Depth)] = 0
    BY WalkAtEnd
  <1> PICK m \in Module : m = Walker(Depth)
    BY <1>1
  <1>2. Fails(m) /\ index' \in Nat
    BY <1>1, FailWalkFails
  <1>3. Failed(m)'
    BY <1>1, <1>2 DEF Fails
  <1>4. ASSUME NEW x \in Module, On(x)
        PROVE  Reaches(x, m)
    <2>1. Depth \in Nat /\ ~(Depth + 1 <= Depth)
      BY AccessorTypes
    <2> QED
      BY <2>1, <1>1, <1>4 DEF ReachInv, Before
  <1>5. /\ starts' \in [Module -> {0, 1}]
        /\ \A x \in Module : starts'[x] # starts[x] => x = m
    BY <1>1 DEF TypeOK
  <1>6. \A n \in Module : Asks(m, n) => Reaches(n, m) \/ Done(Root(n))
    BY BodyMayRun
  <1> QED
    BY <1>1, <1>2, <1>3, <1>4, <1>5, <1>6, FailsPreserves
-----------------------------------------------------------------------------
(* A call that ends: Return, of a module that turns async or has run.      *)

\* m's call ends, turning async if t, and closes the cycle C if it is its
\* root.
Ends(m, t, C) ==
    /\ UNCHANGED <<graph, gathering, ready, jobs>>
    /\ asyncOrder' = IF t THEN asyncOrder + 1 ELSE asyncOrder
    /\ modules' \in [Module -> Record]
    /\ SameIndexes /\ SamePend /\ SameWaiters
    /\ \A x \in Module :
           /\ Turned(x)' <=> Turned(x) \/ (x = m /\ t)
           /\ Order(x)' = IF x = m /\ t THEN asyncOrder ELSE Order(x)
           /\ Err(x)' = Err(x)
           /\ Cap(x)' = IF x = m /\ Depth = 1 /\ ~t THEN Fulfilled ELSE Cap(x)
           /\ x \in C => /\ Root(x)' = m
                         /\ Status(x)' = IF Turned(x)' THEN "async" ELSE "evaluated"
           /\ x \notin C => Root(x)' = Root(x) /\ Status(x)' = Status(x)
    /\ frames' = Front(frames)
    /\ stack' = IF C = {} THEN stack ELSE SubSeq(stack, 1, Place(m) - 1)
    /\ index' = IF Depth = 1 THEN 0 ELSE index
    /\ running' = IF t /\ Pend(m) = 0 THEN running \union {m} ELSE running
    /\ starts' = IF Pend(m) = 0 THEN [starts EXCEPT ![m] = 1] ELSE starts
MayEnd(m, t, C) ==
    /\ m \in Module /\ t \in BOOLEAN /\ AtEnd /\ m = Walker(Depth)
    /\ t <=> Pend(m) # 0 \/ HasAwait(m)
    /\ C = IF Low(m) = At(m) THEN {x \in Module : On(x) /\ At(m) <= At(x)} ELSE {}

LEMMA EndedWhat ==
    ASSUME IInv, NEW m, NEW t, NEW C, MayEnd(m, t, C)
    PROVE  /\ Depth \in Nat /\ Depth \in 1 .. Depth /\ On(m) /\ Walking(m) /\ ~Turned(m) /\ starts[m] = 0
           /\ ready = {} /\ gathering = <<>> /\ frames # <<>>
           /\ C \in SUBSET Module
           /\ \A x \in Module : On(x) => /\ Root(x) = x /\ Reaches(x, m)
                                         /\ At(m) <= At(x) => Reaches(m, x) /\ Low(m) <= Low(x)
           /\ \A x \in C : On(x) /\ At(m) <= At(x) /\ At(m) <= Low(x)
           /\ \A x \in Module : On(x) /\ x \notin C => At(x) < At(m) \/ C = {}
           /\ \A x \in Module : Root(x) \in C => x \in C
           /\ C = {} => Low(m) < At(m) /\ Depth # 1
           /\ C # {} => m \in C /\ Low(m) = At(m)
           /\ Depth = 1 => \A x \in Module : On(x) => x \in C
           /\ \A x, y \in Module : On(x) /\ On(y) /\ Saw(x, y) => (x \in C <=> y \in C)
           /\ \A p \in Module : ~Waits(p, m)
           /\ Pend(m) = 0 => \A w \in Module : Waits(m, w) => Done(w)
           /\ \A i \in 1 .. Depth : i # Depth => At(Walker(i)) < At(m) /\ Walker(i) # m
           /\ \A n : ~Requiring(n)
  <1> USE DEF IInv, MayEnd
  <1>1. /\ Depth \in Nat /\ Depth \in 1 .. Depth /\ On(m) /\ Walking(m) /\ ~Turned(m) /\ starts[m] = 0
        /\ ready = {} /\ gathering = <<>> /\ frames # <<>>
        /\ \A i \in 1 .. Depth : i # Depth => At(Walker(i)) < At(m) /\ Walker(i) # m
        /\ \A n : ~Requiring(n)
    <2>1. Depth \in Nat
      BY AccessorTypes
    <2> QED
      BY <2>1, WalkAtEnd
  <1>2. \A x \in Module : At(x) \in Nat /\ Low(x) \in Nat /\ Root(x) \in Module
    BY AccessorTypes
  <1>3. \A x \in Module : On(x) => Root(x) = x
    BY OneState DEF RootInv
  <1>4. ASSUME NEW x \in Module, On(x)
        PROVE  /\ Reaches(x, m)
               /\ At(m) <= At(x) => Reaches(m, x) /\ Low(m) <= Low(x)
    <2>1. Before(x, Depth)
      BY <1>1 DEF Before
    <2>2. Reaches(x, m) /\ (At(m) <= At(x) => Reaches(m, x))
      BY <2>1, <1>1, <1>4 DEF ReachInv
    <2>3. At(m) <= At(x) => Low(m) <= Low(x)
      BY <2>1, <1>1, <1>4 DEF LowInv
    <2> QED
      BY <2>2, <2>3
  <1>5. C \in SUBSET Module /\ \A x \in C : On(x) /\ At(m) <= At(x) /\ At(m) <= Low(x)
    <2>1. ASSUME NEW x \in C
          PROVE  x \in Module /\ On(x) /\ At(m) <= At(x) /\ At(m) <= Low(x)
      <3>1. x \in Module /\ On(x) /\ At(m) <= At(x) /\ Low(m) = At(m)
        OBVIOUS
      <3> QED
        BY <3>1, <1>4
    <2> QED
      BY <2>1
  <1>6. \A x \in Module : On(x) /\ x \notin C => At(x) < At(m) \/ C = {}
    BY <1>2
  <1>7. ASSUME NEW x \in Module, Root(x) \in C
        PROVE  x \in C
    <2>1. On(Root(x)) /\ Root(x) \in Module
      BY <1>5, <1>7
    <2>2. Root(x) = x
      BY <2>1, OneState DEF RootInv
    <2> QED
      BY <1>7, <2>2
  <1>8. Low(m) <= At(m)
    BY <1>1 DEF ReachInv
  <1>9. ASSUME Depth = 1
        PROVE  Low(m) = At(m) /\ \A x \in Module : On(x) => At(m) <= At(x)
    <2>1. \A x \in Module : On(x) => At(m) <= At(x)
      BY <1>9 DEF StackInv
    <2>2. PICK n \in Module : On(n) /\ At(n) = Low(m)
      BY <1>1 DEF ReachInv
    <2> QED
      BY <2>1, <2>2, <1>2, <1>8
  <1>10. /\ C = {} => Low(m) < At(m) /\ Depth # 1
         /\ C # {} => m \in C /\ Low(m) = At(m)
    <2>1. Low(m) = At(m) => m \in C
      BY <1>1, <1>2
    <2> QED
      BY <2>1, <1>2, <1>8, <1>9
  <1>11. Depth = 1 => \A x \in Module : On(x) => x \in C
    BY <1>9
  <1>12. ASSUME NEW x \in Module, NEW y \in Module, On(x), On(y), Saw(x, y)
         PROVE  x \in C <=> y \in C
    <2>1. Low(x) <= At(y) /\ (At(x) < At(m) => At(y) < At(m))
      BY <1>1, <1>12 DEF LowInv
    <2>2. At(x) \in Nat /\ At(y) \in Nat /\ Low(x) \in Nat /\ At(m) \in Nat
      BY <1>2
    <2>3. x \in C => y \in C
      <3>1. x \in C => At(m) <= Low(x) /\ Low(m) = At(m)
        BY <1>5, <1>10
      <3> QED
        BY <3>1, <2>1, <2>2, <1>12
    <2>4. y \in C => x \in C
      BY <2>1, <2>2, <1>12, <1>6, <1>5
    <2> QED
      BY <2>3, <2>4
  <1>13. \A p \in Module : ~Waits(p, m)
    BY <1>1, OneState DEF WaitInv
  <1>14. Pend(m) = 0 => \A w \in Module : Waits(m, w) => Done(w)
    BY BodyMayRun
  <1> QED
    BY <1>1, <1>3, <1>4, <1>5, <1>6, <1>7, <1>10, <1>11, <1>12, <1>13, <1>14

LEMMA EndedCalls ==
    ASSUME IInv, NEW m, NEW t, NEW C, MayEnd(m, t, C), Ends(m, t, C)
    PROVE  /\ Depth' = Depth - 1 /\ Depth' \in Nat
           /\ \A i \in 1 .. Depth' : /\ i \in 1 .. Depth /\ i # Depth
                                     /\ Walker(i)' = Walker(i) /\ Step(i)' = Step(i)
           /\ \A x : Walking(x)' <=> Walking(x) /\ x # m
           /\ \A x, y \in Module : Saw(x, y)' <=> Saw(x, y)
           /\ Depth' > 0 => Requiring(m)' /\ \A n : Requiring(n)' => n = m
           /\ Depth' > 0 => (At(Walker(Depth)) < At(m))'
           /\ frames' \in Seq(Call)
  <1> USE DEF IInv, MayEnd
  <1>1. /\ Depth \in Nat /\ Depth \in 1 .. Depth /\ frames # <<>> /\ frames \in Seq(Call) /\ Depth = Len(frames)
        /\ \A i \in 1 .. Depth : i # Depth => At(Walker(i)) < At(m) /\ Walker(i) # m
    BY EndedWhat DEF TypeOK, Depth
  <1>2. frames' = SubSeq(frames, 1, Len(frames) - 1)
    BY DEF Ends, Front
  <1>3. /\ frames' \in Seq(Call) /\ Len(frames') = Len(frames) - 1
        /\ \A i \in 1 .. Len(frames) - 1 : frames'[i] = frames[i]
    BY <1>1, <1>2
  <1> PICK deep \in Nat : deep = Depth - 1
    BY <1>1
  <1>4. /\ Depth' = deep
        /\ \A i \in 1 .. deep : Walker(i)' = Walker(i) /\ Step(i)' = Step(i) /\ i \in 1 .. Depth /\ i # Depth
        /\ \A i \in 1 .. Depth : i \in 1 .. deep \/ i = Depth
    BY <1>1, <1>3 DEF Depth, Walker, Step
  <1>5. \A x : Walking(x)' <=> Walking(x) /\ x # m
    BY <1>1, <1>4 DEF Walking
  <1>6. \A x, r : Request(x, r)' = Request(x, r) /\ Requests(x)' = Requests(x)
    BY SameGraph DEF Ends
  <1>7. ASSUME NEW x \in Module, NEW y \in Module
        PROVE  Saw(x, y)' <=> Saw(x, y)
    <2>1. Saw(x, y) => Saw(x, y)'
      BY <1>4, <1>6 DEF Saw
    <2>2. ASSUME Saw(x, y)'
          PROVE  Saw(x, y)
      <3>1. CASE x = m
        <4>1. Asks(m, y)
          BY <2>2, <3>1, <1>6 DEF Saw, Asks
        <4> QED
          BY <4>1, <3>1, WalkAtEnd
      <3>2. CASE x # m
        BY <2>2, <3>2, <1>4, <1>6 DEF Saw
      <3> QED
        BY <3>1, <3>2
    <2> QED
      BY <2>1, <2>2
  <1>8. ASSUME deep > 0
        PROVE  Requiring(m)' /\ \A n : Requiring(n)' => n = m
    <2>1. deep \in 1 .. deep /\ deep \in 1 .. Depth /\ deep + 1 <= Depth /\ deep + 1 = Depth /\ deep < Depth
      BY <1>1, <1>8
    <2>2. Request(Walker(deep), Step(deep)) = m
      BY <2>1 DEF FramesInv
    <2>3. Step(deep) \in Requests(Walker(deep))
      BY <2>1, <1>1 DEF FramesInv
    <2>4. Walker(deep)' = Walker(deep) /\ Step(deep)' = Step(deep) /\ Depth' = deep
      BY <2>1, <1>4
    <2>5. Walker(Depth)' = Walker(deep) /\ Step(Depth)' = Step(deep)
      BY <2>4
    <2>6. \A n : Requiring(n)' <=> n = m
      BY <2>2, <2>3, <2>4, <2>5, <1>6, <1>8 DEF Requiring
    <2> QED
      BY <2>6
  <1>9. ASSUME deep > 0
        PROVE  (At(Walker(Depth)) < At(m))'
    <2>1. deep \in 1 .. deep /\ deep \in 1 .. Depth /\ deep # Depth
      BY <1>1, <1>9
    <2>2. Walker(Depth)' = Walker(deep) /\ Walker(deep) \in Module
      BY <2>1, <1>4, AccessorTypes
    <2>3. At(Walker(deep)) < At(m)
      BY <2>1, <1>1
    <2>4. \A x \in Module : At(x)' = At(x)
      BY DEF Ends, SameIndexes
    <2> QED
      BY <2>2, <2>3, <2>4
  <1> QED
    BY <1>3, <1>4, <1>5, <1>7, <1>8, <1>9

LEMMA EndedStates ==
    ASSUME IInv, NEW m, NEW t, NEW C, MayEnd(m, t, C), Ends(m, t, C)
    PROVE  \A x \in Module :
               /\ On(x)' <=> On(x) /\ x \notin C
               /\ Ended(x)' <=> Ended(x) \/ x \in C
               /\ Async(x)' <=> Async(x) \/ (x \in C /\ Turned(x)')
               /\ Done(x)' <=> Done(x) \/ (x \in C /\ ~Turned(x)')
               /\ Failed(x)' <=> Failed(x)
               /\ Unwalked(x)' <=> Unwalked(x)
               /\ (Status(x) = "new")' <=> Status(x) = "new"
  <1> USE DEF IInv
  <1>1. ASSUME NEW x \in Module, x \in C
        PROVE  On(x) /\ Status(x)' = IF Turned(x)' THEN "async" ELSE "evaluated"
    BY <1>1, EndedWhat DEF Ends
  <1>2. ASSUME NEW x \in Module, x \notin C
        PROVE  Status(x)' = Status(x)
    BY <1>2 DEF Ends
  <1> QED
    BY <1>1, <1>2 DEF On, Ended, Async, Done, Failed, Unwalked

LEMMA EndedStack ==
    ASSUME IInv, NEW m, NEW t, NEW C, MayEnd(m, t, C), Ends(m, t, C)
    PROVE  StackInv' /\ FramesInv' /\ stack' \in Seq(Module)
  <1> USE DEF IInv, MayEnd
  <1>1. /\ Depth \in Nat /\ Depth \in 1 .. Depth /\ On(m) /\ ready = {} /\ gathering = <<>>
        /\ \A x \in Module : On(x) /\ x \notin C => At(x) < At(m) \/ C = {}
        /\ \A x \in C : On(x) /\ At(m) <= At(x)
        /\ C = {} => Depth # 1
        /\ Depth = 1 => \A x \in Module : On(x) => x \in C
        /\ \A i \in 1 .. Depth : i # Depth => At(Walker(i)) < At(m)
    BY EndedWhat
  <1>2. \A x \in Module : (On(x)' <=> On(x) /\ x \notin C) /\ At(x)' = At(x) /\ At(x) \in Nat
    <2>1. \A x \in Module : On(x)' <=> On(x) /\ x \notin C
      BY EndedStates
    <2>2. \A x \in Module : At(x) \in Nat /\ Low(x) \in Nat
      BY AccessorTypes
    <2>3. \A x \in Module : At(x)' = At(x) /\ Low(x)' = Low(x)
      BY DEF Ends, SameIndexes
    <2> QED
      BY <2>1, <2>2, <2>3
  <1>3. /\ Depth' = Depth - 1 /\ Depth' \in Nat
        /\ \A i \in 1 .. Depth' : /\ i \in 1 .. Depth /\ i # Depth
                                  /\ Walker(i)' = Walker(i) /\ Step(i)' = Step(i)
    BY EndedCalls
  <1>4. stack \in Seq(Module) /\ Len(stack) \in Nat /\ \A i \in 1 .. Len(stack) : stack[i] \in Module
    BY DEF TypeOK
  <1>5. /\ Place(m) \in 1 .. Len(stack) /\ stack[Place(m)] = m
    <2>1. \E k \in DOMAIN stack : stack[k] = m
      BY <1>1, <1>4 DEF StackInv
    <2> QED
      BY <2>1, <1>4 DEF Place
  <1> PICK p \in 1 .. Len(stack) : p = Place(m)
    BY <1>5
  <1>6. /\ stack' \in Seq(Module)
        /\ C = {} => stack' = stack
        /\ C # {} => Len(stack') = p - 1 /\ \A i \in 1 .. p - 1 : stack'[i] = stack[i]
    <2>1. SubSeq(stack, 1, p - 1) \in Seq(Module)
      BY <1>4
    <2>2. Len(SubSeq(stack, 1, p - 1)) = p - 1 /\ \A i \in 1 .. p - 1 : SubSeq(stack, 1, p - 1)[i] = stack[i]
      BY <1>4
    <2> QED
      BY <2>1, <2>2, <1>4 DEF Ends
  <1>7. /\ \A i \in 1 .. Len(stack') : i \in 1 .. Len(stack) /\ stack'[i] = stack[i]
        /\ \A i \in 1 .. Len(stack) : C = {} => i \in 1 .. Len(stack')
        /\ \A i \in 1 .. Len(stack) : C # {} => (i < p <=> i \in 1 .. Len(stack'))
    BY <1>4, <1>6
  <1>8. \A i \in 1 .. Len(stack) : On(stack[i]) /\ (At(stack[i]) < At(m) <=> i < p)
    <2>1. ASSUME NEW i \in 1 .. Len(stack)
          PROVE  On(stack[i])
      BY <1>4 DEF StackInv
    <2>2. ASSUME NEW i \in 1 .. Len(stack)
          PROVE  At(stack[i]) < At(m) <=> i < p
      <3>1. i < p => At(stack[i]) < At(m)
        BY <1>5 DEF StackInv
      <3>2. p < i => At(m) < At(stack[i])
        BY <1>5 DEF StackInv
      <3>3. i < p \/ i = p \/ p < i
        BY <1>4
      <3>4. At(m) \in Nat /\ At(stack[i]) \in Nat
        BY <1>2, <1>4
      <3> QED
        BY <3>1, <3>2, <3>3, <3>4, <1>5
    <2> QED
      BY <2>1, <2>2
  <1>9. ASSUME NEW x \in Module
        PROVE  On(x)' <=> \E i \in 1 .. Len(stack') : stack'[i] = x
    <2>1. CASE C = {}
      BY <2>1, <1>2, <1>6 DEF StackInv
    <2>2. CASE C # {}
      <3>1. On(x) /\ x \notin C <=> On(x) /\ At(x) < At(m)
        BY <1>1, <1>2, <2>2
      <3>2. On(x) /\ At(x) < At(m) <=> \E i \in 1 .. Len(stack) : stack[i] = x /\ i < p
        BY <1>8 DEF StackInv
      <3> QED
        BY <3>1, <3>2, <1>2, <1>7, <2>2
    <2> QED
      BY <2>1, <2>2
  <1>10. \A i, j \in 1 .. Len(stack') : i < j => At(stack[i])' < At(stack[j])'
    <2>1. ASSUME NEW i \in 1 .. Len(stack'), NEW j \in 1 .. Len(stack'), i < j
          PROVE  At(stack[i])' < At(stack[j])'
      <3>1. At(stack[i]) < At(stack[j]) /\ stack[i] \in Module /\ stack[j] \in Module
        BY <2>1, <1>4, <1>7 DEF StackInv
      <3>2. stack'[i] = stack[i] /\ stack'[j] = stack[j]
        BY <1>7
      <3> QED
        BY <3>1, <3>2, <1>2
    <2> QED
      BY <2>1
  <1>11. ASSUME NEW x \in Module, On(x)'
         PROVE  At(x)' < index' /\ Depth' > 0 /\ At(Walker(1))' <= At(x)'
    <2>1. On(x) /\ Depth # 1
      BY <1>1, <1>2, <1>11
    <2>2. At(x) < index /\ At(Walker(1)) <= At(x)
      BY <2>1 DEF StackInv
    <2>3. index' = index
      BY <2>1 DEF Ends
    <2>4. Depth' > 0 /\ 1 \in 1 .. Depth'
      BY <2>1, <1>1, <1>3
    <2>5. Walker(1)' = Walker(1) /\ Walker(1) \in Module
      BY <2>4, <1>3, AccessorTypes
    <2> QED
      BY <2>2, <2>3, <2>4, <2>5, <1>2
  <1>12. StackInv'
    BY <1>9, <1>10, <1>11 DEF StackInv
  <1>13. FramesInv'
    <2>1. \A i \in 1 .. Depth' : On(Walker(i)) /\ Walker(i) \in Module /\ At(Walker(i)) < At(m)
      BY <1>1, <1>3, AccessorTypes DEF FramesInv
    <2>2. \A i \in 1 .. Depth' : On(Walker(i))' /\ At(Walker(i))' = At(Walker(i))
      <3>1. \A i \in 1 .. Depth' : Walker(i) \notin C
        <4>1. At(m) \in Nat /\ \A i \in 1 .. Depth' : At(Walker(i)) \in Nat
          BY <2>1, <1>2
        <4> QED
          BY <4>1, <2>1, <1>1
      <3> QED
        BY <3>1, <2>1, <1>2, <1>3
    <2>3. /\ \A x, r : Request(x, r)' = Request(x, r) /\ Requests(x)' = Requests(x)
          /\ \A x : graph'.requested[x] = graph.requested[x]
      BY SameGraph DEF Ends
    <2>4. \A i \in 1 .. Depth' : Step(i) \in 1 .. Len(graph.requested[Walker(i)]) + 1
      BY <1>3 DEF FramesInv
    <2>5. \A i, j \in 1 .. Depth' : i < j => At(Walker(i)) < At(Walker(j)) /\ Step(i) \in Requests(Walker(i))
      BY <1>3 DEF FramesInv
    <2>6. \A i \in 1 .. Depth' : i + 1 <= Depth' =>
              i + 1 \in 1 .. Depth' /\ Request(Walker(i), Step(i)) = Walker(i + 1)
      BY <1>3 DEF FramesInv
    <2>7. gathering' = <<>> /\ ready' = {}
      BY <1>1 DEF Ends
    <2>8. \A i \in 1 .. Depth' : /\ On(Walker(i))' /\ Step(i)' \in 1 .. Len(graph'.requested[Walker(i)']) + 1
      BY <2>2, <2>3, <2>4, <1>3
    <2>9. \A i, j \in 1 .. Depth' : i < j => At(Walker(i))' < At(Walker(j))' /\ Step(i)' \in Requests(Walker(i))'
      BY <2>2, <2>3, <2>5, <1>3
    <2>10. \A i \in 1 .. Depth' : i + 1 <= Depth' => Request(Walker(i), Step(i))' = Walker(i + 1)'
      BY <2>3, <2>6, <1>3
    <2> QED
      BY <2>7, <2>8, <2>9, <2>10 DEF FramesInv
  <1> QED
    BY <1>6, <1>12, <1>13

LEMMA EndedReach ==
    ASSUME IInv, NEW m, NEW t, NEW C, MayEnd(m, t, C), Ends(m, t, C)
    PROVE  ReachInv' /\ LowInv'
  <1> USE DEF IInv, MayEnd
  <1>1. /\ Depth \in Nat /\ Depth \in 1 .. Depth /\ On(m)
        /\ \A x \in Module : On(x) => Reaches(x, m) /\ (At(m) <= At(x) => Low(m) <= Low(x))
        /\ \A x \in Module : On(x) /\ x \notin C => At(x) < At(m) \/ C = {}
        /\ \A x \in C : On(x) /\ At(m) <= At(x)
        /\ C = {} => Low(m) < At(m)
        /\ \A n : ~Requiring(n)
    BY EndedWhat
  <1>2. \A x \in Module : /\ (On(x)' <=> On(x) /\ x \notin C)
                          /\ At(x)' = At(x) /\ At(x) \in Nat /\ Low(x)' = Low(x) /\ Low(x) \in Nat
    <2>1. \A x \in Module : On(x)' <=> On(x) /\ x \notin C
      BY EndedStates
    <2>2. \A x \in Module : At(x) \in Nat /\ Low(x) \in Nat
      BY AccessorTypes
    <2>3. \A x \in Module : At(x)' = At(x) /\ Low(x)' = Low(x)
      BY DEF Ends, SameIndexes
    <2> QED
      BY <2>1, <2>2, <2>3
  <1>3. /\ Depth' = Depth - 1 /\ Depth' \in Nat
        /\ \A i \in 1 .. Depth' : /\ i \in 1 .. Depth /\ i # Depth
                                  /\ Walker(i)' = Walker(i) /\ Walker(i) \in Module
    BY EndedCalls, AccessorTypes
  <1>4. \A i \in 1 .. Depth' : At(Walker(i))' = At(Walker(i)) /\ Low(Walker(i))' = Low(Walker(i))
    BY <1>2, <1>3
  <1>5. \A x, y : Reaches(x, y)' = Reaches(x, y)
    BY SameGraph DEF Ends
  \* Which modules came to before the next call, where there is none now.
  <1>6. ASSUME NEW i \in 1 .. Depth', NEW x \in Module, Before(x, i)'
        PROVE  Before(x, i) \/ (i + 1 = Depth /\ At(m) <= At(x))
    <2>1. CASE i + 1 <= Depth'
      <3>1. i + 1 \in 1 .. Depth'
        BY <2>1, <1>3
      <3>2. At(x)' < At(Walker(i + 1))'
        BY <2>1, <1>6 DEF Before
      <3>3. Walker(i + 1)' = Walker(i + 1) /\ At(Walker(i + 1))' = At(Walker(i + 1))
        BY <3>1, <1>3, <1>4
      <3>4. At(x) < At(Walker(i + 1))
        BY <3>2, <3>3, <1>2
      <3> QED
        BY <3>4 DEF Before
    <2>2. CASE ~(i + 1 <= Depth')
      <3>1. i + 1 = Depth
        BY <2>2, <1>1, <1>3
      <3>2. At(x) < At(m) => Before(x, i)
        BY <3>1 DEF Before
      <3> QED
        BY <3>1, <3>2, <1>2
    <2> QED
      BY <2>1, <2>2
  <1>7. ASSUME NEW i \in 1 .. Depth', NEW x \in Module, On(x)', i + 1 = Depth, At(m) <= At(x)
        PROVE  C = {} /\ On(m)' /\ Requiring(m)' /\ Reaches(x, Walker(i)) /\ Low(m) <= Low(x)
    <2>1. On(x) /\ C = {} /\ Low(m) < At(m)
      BY <1>7, <1>1, <1>2
    <2>2. Low(m) <= Low(x) /\ Reaches(x, m)
      BY <2>1, <1>7, <1>1
    <2>3. PICK n \in Module : On(n) /\ At(n) = Low(m) /\ Reaches(m, n)
      BY <1>1 DEF ReachInv
    <2>4. Before(n, i)
      BY <2>1, <2>3, <1>7 DEF Before
    <2>5. Reaches(n, Walker(i))
      BY <2>3, <2>4, <1>3 DEF ReachInv
    <2>6. Reaches(x, n)
      BY <2>2, <2>3, ReachesThrough
    <2>7. Reaches(x, Walker(i))
      BY <2>5, <2>6, <1>3, ReachesThrough
    <2>8. Depth' > 0
      BY <1>3
    <2>9. Requiring(m)'
      BY <2>8, EndedCalls
    <2> QED
      BY <2>1, <2>2, <2>7, <2>9, <1>1, <1>2
  <1>8. ReachInv'
    <2>1. ASSUME NEW i \in 1 .. Depth', NEW x \in Module, On(x)'
          PROVE  /\ At(Walker(i))' <= At(x)' => Reaches(Walker(i), x)'
                 /\ Before(x, i)' => Reaches(x, Walker(i))'
      <3>1. On(x) /\ i \in 1 .. Depth
        BY <2>1, <1>2, <1>3
      <3>2. At(Walker(i))' <= At(x)' => Reaches(Walker(i), x)
        BY <3>1, <1>2, <1>4 DEF ReachInv
      <3>3. Before(x, i)' => Reaches(x, Walker(i))
        BY <3>1, <2>1, <1>6, <1>7 DEF ReachInv
      <3> QED
        BY <3>2, <3>3, <1>3, <1>5
    <2>2. ASSUME NEW x \in Module, On(x)'
          PROVE  Low(x)' <= At(x)' /\ \E n \in Module : On(n)' /\ At(n)' = Low(x)' /\ Reaches(x, n)'
      <3>1. On(x) /\ Low(x) <= At(x)
        BY <2>2, <1>2 DEF ReachInv
      <3>2. PICK n \in Module : On(n) /\ At(n) = Low(x) /\ Reaches(x, n)
        BY <3>1 DEF ReachInv
      <3>3. x \notin C
        BY <2>2, <1>2
      <3>4. C = {} \/ At(x) < At(m)
        BY <3>1, <3>3, <1>1
      <3>5. n \notin C
        BY <3>1, <3>2, <3>4, <1>1, <1>2
      <3> QED
        BY <3>1, <3>2, <3>5, <1>2, <1>5
    <2> QED
      BY <2>1, <2>2 DEF ReachInv
  <1>9. LowInv'
    <2>1. ASSUME NEW x \in Module, NEW y \in Module, On(x)', On(y)', Saw(x, y)'
          PROVE  /\ Low(x)' <= At(y)'
                 /\ \A i \in 1 .. Depth' : At(x)' < At(Walker(i))' => At(y)' < At(Walker(i))'
      <3>1. On(x) /\ On(y) /\ Saw(x, y)
        BY <2>1, <1>2, EndedCalls
      <3>2. Low(x) <= At(y) /\ \A i \in 1 .. Depth : At(x) < At(Walker(i)) => At(y) < At(Walker(i))
        BY <3>1 DEF LowInv
      <3> QED
        BY <3>2, <1>2, <1>3, <1>4
    <2>2. ASSUME NEW i \in 1 .. Depth', NEW x \in Module, On(x)', At(Walker(i))' <= At(x)', Before(x, i)'
          PROVE  \/ Low(Walker(i))' <= Low(x)'
                 \/ /\ i = Depth'
                    /\ \E n \in Module : Requiring(n)' /\ On(n)' /\ At(n)' <= At(x)' /\ Low(n)' <= Low(x)'
      <3>1. On(x) /\ At(Walker(i)) <= At(x)
        BY <2>2, <1>2, <1>4
      <3>2. CASE Before(x, i)
        <4>1. Low(Walker(i)) <= Low(x)
          BY <3>1, <3>2, <1>1, <1>3 DEF LowInv
        <4> QED
          BY <4>1, <1>2, <1>4
      <3>3. CASE i + 1 = Depth /\ At(m) <= At(x)
        <4>1. On(m)' /\ Requiring(m)' /\ Low(m) <= Low(x)
          BY <3>3, <2>2, <1>7
        <4>2. i = Depth'
          BY <3>3, <1>3
        <4> QED
          BY <4>1, <4>2, <3>3, <1>2
      <3> QED
        BY <3>2, <3>3, <2>2, <1>6
    <2> QED
      BY <2>1, <2>2 DEF LowInv
  <1> QED
    BY <1>8, <1>9

\* The roots, and what is done, after a call ended.
LEMMA EndedRoots ==
    ASSUME IInv, NEW m \in Module, NEW t \in BOOLEAN, NEW C \in SUBSET Module, MayEnd(m, t, C), Ends(m, t, C)
    PROVE  /\ \A x \in Module : x \in C => Root(x)' = m /\ Root(x) = x
           /\ \A x \in Module : x \notin C => Root(x)' = Root(x) /\ Root(x) \notin C /\ Root(x) \in Module
           /\ \A x \in Module : Done(Root(x)) => Done(Root(x))' /\ x \notin C
  <1> USE DEF IInv
  <1>1. /\ \A x \in Module : Root(x) \in Module
        /\ \A x \in C : On(x) /\ Root(x) = x
        /\ \A x \in Module : Root(x) \in C => x \in C
    <2>1. \A x \in C : On(x)
      BY EndedWhat
    <2>2. \A x \in Module : On(x) => Root(x) = x
      BY EndedWhat
    <2>3. \A x \in Module : Root(x) \in C => x \in C
      BY EndedWhat
    <2> QED
      BY <2>1, <2>2, <2>3, AccessorTypes
  <1>2. \A x \in Module : x \in C => Root(x)' = m
    BY DEF Ends
  <1>3. \A x \in Module : x \notin C => Root(x)' = Root(x)
    BY DEF Ends
  <1>4. \A x \in Module : Done(x) => Done(x)' /\ x \notin C
    BY <1>1, EndedStates, OneState
  <1>5. ASSUME NEW x \in Module, Done(Root(x))
        PROVE  Done(Root(x))' /\ x \notin C
    <2>1. Root(x) \in Module /\ Root(x) \notin C
      BY <1>1, <1>4, <1>5
    <2>2. x \notin C
      BY <1>1, <2>1
    <2>3. Root(x)' = Root(x)
      BY <2>2, <1>3
    <2> PICK r \in Module : r = Root(x)
      BY <1>1
    <2>4. Done(r)'
      BY <1>4, <1>5
    <2>5. Root(x)' = r
      BY <2>3
    <2> QED
      BY <2>2, <2>4, <2>5 DEF Done, Status
  <1> QED
    BY <1>1, <1>2, <1>3, <1>5

LEMMA EndedRecords ==
    ASSUME IInv, NEW m \in Module, NEW t \in BOOLEAN, NEW C \in SUBSET Module, MayEnd(m, t, C), Ends(m, t, C)
    PROVE  RootInv' /\ RequestInv'
  <1> USE DEF IInv
  <1>1. /\ On(m)
        /\ \A x \in Module : On(x) => Reaches(x, m) /\ (At(m) <= At(x) => Reaches(m, x))
        /\ \A x \in C : On(x) /\ At(m) <= At(x)
        /\ C \in SUBSET Module
        /\ C # {} => m \in C
        /\ \A x, y \in Module : On(x) /\ On(y) /\ Saw(x, y) => (x \in C <=> y \in C)
    <2>1. On(m)
      BY EndedWhat
    <2>2. \A x \in Module : On(x) => Reaches(x, m) /\ (At(m) <= At(x) => Reaches(m, x))
      BY EndedWhat
    <2>3. \A x \in C : On(x) /\ At(m) <= At(x)
      BY EndedWhat
    <2>4. C # {} => m \in C
      BY EndedWhat
    <2>5. \A x, y \in Module : On(x) /\ On(y) /\ Saw(x, y) => (x \in C <=> y \in C)
      BY EndedWhat
    <2> QED
      BY <2>1, <2>2, <2>3, <2>4, <2>5
  <1>2. \A x \in Module :
            /\ On(x)' <=> On(x) /\ x \notin C
            /\ Ended(x)' <=> Ended(x) \/ x \in C
            /\ Async(x)' <=> Async(x) \/ (x \in C /\ Turned(x)')
            /\ Done(x)' <=> Done(x) \/ (x \in C /\ ~Turned(x)')
            /\ Failed(x)' <=> Failed(x)
            /\ (Status(x) = "new")' <=> Status(x) = "new"
    BY EndedStates
  <1>3. /\ \A x \in Module : x \in C => Root(x)' = m /\ Root(x) = x
        /\ \A x \in Module : x \notin C => Root(x)' = Root(x) /\ Root(x) \notin C /\ Root(x) \in Module
        /\ \A x \in Module : Done(Root(x)) => Done(Root(x))' /\ x \notin C
    BY EndedRoots
  <1>4. \A x, y : Reaches(x, y)' = Reaches(x, y) /\ Asks(x, y)' = Asks(x, y)
    BY SameGraph DEF Ends
  <1>5. \A x \in Module : Turned(x) => Turned(x)'
    BY DEF Ends
  <1>6. ASSUME NEW x \in Module
        PROVE  \E r \in Module :
                   /\ Root(x)' = r /\ Reaches(x, r) /\ Reaches(r, x) /\ Root(r)' = r
                   /\ r # x => /\ Ended(x)' \/ Failed(x)'
                               /\ Ended(r)' \/ Failed(r)'
                               /\ Turned(x)' \/ Done(x)'
    <2>1. CASE x \in C
      <3>1. Root(x)' = m /\ Reaches(x, m) /\ Reaches(m, x) /\ Root(m)' = m
        BY <2>1, <1>1, <1>3
      <3>2. Ended(x)' /\ Ended(m)' /\ (Turned(x)' \/ Done(x)')
        BY <2>1, <1>1, <1>2
      <3> QED
        BY <3>1, <3>2
    <2>2. CASE x \notin C
      <3> PICK r \in Module : r = Root(x) /\ r \notin C /\ Root(x)' = r
        BY <2>2, <1>3
      <3>1. Reaches(x, r) /\ Reaches(r, x) /\ Root(r) = r
        BY DEF RootInv
      <3>2. Root(r)' = r
        BY <3>1, <1>3
      <3>3. r # x => (Ended(x) \/ Failed(x)) /\ (Ended(r) \/ Failed(r)) /\ (Turned(x) \/ Done(x))
        BY DEF RootInv
      <3> QED
        BY <3>1, <3>2, <3>3, <1>2, <1>5
    <2> QED
      BY <2>1, <2>2
  <1>7. RootInv'
    <2>1. ASSUME NEW x \in Module
          PROVE  (/\ Reaches(x, Root(x)) /\ Reaches(Root(x), x) /\ Root(Root(x)) = Root(x)
                  /\ Root(x) # x => /\ Ended(x) \/ Failed(x)
                                    /\ Ended(Root(x)) \/ Failed(Root(x))
                                    /\ Turned(x) \/ Done(x))'
      <3> PICK r \in Module : /\ Root(x)' = r /\ Reaches(x, r) /\ Reaches(r, x) /\ Root(r)' = r
                              /\ r # x => /\ Ended(x)' \/ Failed(x)'
                                          /\ Ended(r)' \/ Failed(r)'
                                          /\ Turned(x)' \/ Done(x)'
        BY <1>6
      <3>1. Reaches(x, r)' /\ Reaches(r, x)'
        BY <1>4
      <3>2. (Root(Root(x)) = Root(x))'
        OBVIOUS
      <3> QED
        BY <3>1, <3>2
    <2> QED
      BY <2>1 DEF RootInv
  <1>8. ASSUME NEW x \in Module, NEW y \in Module, Saw(x, y)', On(x)' \/ Ended(x)'
        PROVE  Met(x, y)'
    <2>1. Saw(x, y) /\ \A p, w \in Module : Waits(p, w)' = Waits(p, w)
      <3>1. SameWaiters
        BY DEF Ends
      <3>2. \A p, w \in Module : Waits(p, w)' = Waits(p, w)
        BY <3>1, SameWaits
      <3> QED
        BY <1>8, <3>2, EndedCalls
    <2>2. (On(x) \/ Ended(x)) /\ (On(x) => ~Ended(x))
      BY <1>1, <1>2, <1>8, OneState
    <2>3. Met(x, y)
      BY <2>1, <2>2 DEF RequestInv
    <2>4. CASE Done(Root(y))
      BY <2>4, <1>3 DEF Met
    <2>5. CASE On(x) /\ On(y)
      <3>1. x \in C <=> y \in C
        BY <2>1, <2>5, <1>1
      <3>2. x \in C => Ended(x)' /\ Root(y)' = Root(x)'
        BY <3>1, <1>2, <1>3
      <3>3. x \notin C => On(x)' /\ On(y)'
        BY <3>1, <2>5, <1>2
      <3> QED
        BY <3>2, <3>3 DEF Met
    <2>6. CASE Ended(x) /\ Root(y) = Root(x)
      <3>1. x \notin C
        BY <2>2, <2>6, <1>1
      <3>2. y \notin C
        BY <3>1, <2>6, <1>3
      <3> QED
        BY <3>1, <3>2, <2>6, <1>2, <1>3 DEF Met
    <2>7. CASE Waits(x, Root(y))
      <3>1. CASE y \notin C
        <4> PICK r \in Module : r = Root(y) /\ Root(y)' = r
          BY <3>1, <1>3
        <4>1. Waits(x, r)'
          BY <2>1, <2>7
        <4> QED
          BY <4>1 DEF Met, Waits, Waiting, Waiter
      <3>2. CASE y \in C
        <4>1. On(y) /\ Waits(x, y)
          BY <3>2, <2>7, <1>1, <1>3
        <4>2. On(x)
          BY <4>1 DEF WaitInv
        <4> QED
          BY <4>1, <4>2, <2>5
      <3> QED
        BY <3>1, <3>2
    <2> QED
      BY <2>3, <2>4, <2>5, <2>6, <2>7 DEF Met
  <1>9. RequestInv'
    BY <1>2, <1>4, <1>8 DEF RequestInv
  <1> QED
    BY <1>7, <1>9

LEMMA EndedWaits ==
    ASSUME IInv, NEW m \in Module, NEW t \in BOOLEAN, NEW C \in SUBSET Module, MayEnd(m, t, C), Ends(m, t, C)
    PROVE  WaitInv' /\ TurnInv'
  <1> USE DEF IInv
  <1>1. /\ On(m) /\ ~Turned(m) /\ Root(m) = m
        /\ \A x \in C : On(x) /\ At(m) <= At(x)
        /\ \A x \in Module : On(x) /\ x \notin C => At(x) < At(m) \/ C = {}
        /\ C # {} => m \in C
        /\ \A x, y \in Module : On(x) /\ On(y) /\ Saw(x, y) => (x \in C <=> y \in C)
        /\ \A p \in Module : ~Waits(p, m)
        /\ Pend(m) = 0 => \A w \in Module : Waits(m, w) => Done(w)
        /\ \A n : ~Requiring(n)
    <2>1. On(m) /\ ~Turned(m) /\ Root(m) = m
      BY EndedWhat
    <2>3. \A x \in C : On(x) /\ At(m) <= At(x)
      BY EndedWhat
    <2>4. C # {} => m \in C
      BY EndedWhat
    <2>5. \A x, y \in Module : On(x) /\ On(y) /\ Saw(x, y) => (x \in C <=> y \in C)
      BY EndedWhat
    <2>6. \A x \in Module : On(x) /\ x \notin C => At(x) < At(m) \/ C = {}
      BY EndedWhat
    <2>7. \A p \in Module : ~Waits(p, m)
      BY EndedWhat
    <2>8. Pend(m) = 0 => \A w \in Module : Waits(m, w) => Done(w)
      BY EndedWhat
    <2>9. \A n : ~Requiring(n)
      BY EndedWhat
    <2> QED
      BY <2>1, <2>3, <2>4, <2>5, <2>6, <2>7, <2>8, <2>9
  <1>2. \A x \in Module :
            /\ On(x)' <=> On(x) /\ x \notin C
            /\ Async(x)' <=> Async(x) \/ (x \in C /\ Turned(x)')
            /\ Done(x)' <=> Done(x) \/ (x \in C /\ ~Turned(x)')
            /\ Failed(x)' <=> Failed(x)
            /\ Unwalked(x)' <=> Unwalked(x)
    BY EndedStates
  <1>3. /\ \A x \in Module : x \in C => Root(x)' = m /\ Root(x) = x
        /\ \A x \in Module : x \notin C => Root(x)' = Root(x) /\ Root(x) \notin C /\ Root(x) \in Module
    BY EndedRoots
  <1>4. \A x, y : Reaches(x, y)' = Reaches(x, y)
    BY SameGraph DEF Ends
  <1>5. /\ \A p, w \in Module : Waits(p, w)' = Waits(p, w)
        /\ \A x, y \in Module : Saw(x, y)' <=> Saw(x, y)
        /\ \A x : Walking(x)' <=> Walking(x) /\ x # m
    <2>1. SameWaiters
      BY DEF Ends
    <2>2. \A p, w \in Module : Waits(p, w)' = Waits(p, w)
      BY <2>1, SameWaits
    <2> QED
      BY <2>2, EndedCalls
  <1>6. \A x \in Module : Turned(x)' <=> Turned(x) \/ (x = m /\ t)
    BY DEF Ends
  <1>7. /\ asyncOrder \in Nat /\ asyncOrder <= asyncOrder'
        /\ \A x \in Module : Order(x) \in Nat /\ At(x) \in Nat /\ At(x)' = At(x)
        /\ \A x \in Module : x # m \/ ~t => Order(x)' = Order(x)
        /\ t => Order(m)' = asyncOrder /\ asyncOrder' = asyncOrder + 1
        /\ ~t => asyncOrder' = asyncOrder
    <2>1. asyncOrder \in Nat /\ \A x \in Module : Order(x) \in Nat /\ At(x) \in Nat
      BY AccessorTypes DEF TypeOK
    <2>2. asyncOrder' = IF t THEN asyncOrder + 1 ELSE asyncOrder
      BY DEF Ends
    <2>3. \A x \in Module : Order(x)' = IF x = m /\ t THEN asyncOrder ELSE Order(x)
      BY DEF Ends
    <2>4. \A x \in Module : At(x)' = At(x)
      BY DEF Ends, SameIndexes
    <2> QED
      BY <2>1, <2>2, <2>3, <2>4
  <1>8. ~t => Pend(m) = 0
    BY DEF MayEnd
  <1>9. WaitInv'
    <2>1. ASSUME NEW w \in Module, NEW p \in Module, Waits(p, w)
          PROVE  (/\ Reaches(p, w)
                  /\ ~Unwalked(p) /\ ~Unwalked(w)
                  /\ Turned(w) \/ Done(w)
                  /\ On(w) => On(p) /\ Saw(p, w)
                  /\ Failed(w) => Failed(p)
                  /\ On(w) \/ Async(w) => Turned(p) \/ Walking(p) \/ Failed(p)
                  /\ Order(w) < asyncOrder
                  /\ Turned(p) => Order(w) < Order(p))'
      <3>1. /\ Reaches(p, w) /\ ~Unwalked(p) /\ ~Unwalked(w) /\ (Turned(w) \/ Done(w))
            /\ On(w) => On(p) /\ Saw(p, w)
            /\ Failed(w) => Failed(p)
            /\ On(w) \/ Async(w) => Turned(p) \/ Walking(p) \/ Failed(p)
            /\ Order(w) < asyncOrder
            /\ Turned(p) => Order(w) < Order(p)
        BY <2>1 DEF WaitInv
      <3>2. w # m
        BY <2>1, <1>1
      <3>3. On(w)' => On(p)' /\ Saw(p, w)'
        BY <3>1, <1>1, <1>2, <1>5
      <3>4. ASSUME On(w)' \/ Async(w)'
            PROVE  Turned(p)' \/ Walking(p)' \/ Failed(p)'
        <4>1. On(w) \/ Async(w)
          BY <3>4, <1>1, <1>2
        <4>2. CASE p = m /\ ~t
          <5>1. Done(w)
            BY <4>2, <1>1, <1>8, <2>1
          <5> QED
            BY <4>1, <5>1, OneState
        <4>3. CASE p # m \/ t
          BY <4>1, <4>3, <3>1, <1>2, <1>5, <1>6
        <4> QED
          BY <4>2, <4>3
      <3>5. Order(w)' = Order(w) /\ Order(w) < asyncOrder' /\ Order(w) \in Nat
        BY <3>1, <3>2, <1>7
      <3>6. Turned(p)' => Order(w) < Order(p)'
        BY <3>1, <1>6, <1>7
      <3> QED
        BY <3>1, <3>3, <3>4, <3>5, <3>6, <1>2, <1>4, <1>6
    <2> QED
      BY <2>1, <1>5 DEF WaitInv
  <1>10. ASSUME NEW x \in Module
         PROVE  /\ Turned(x)' => On(x)' \/ Async(x)' \/ Failed(x)'
                /\ Turned(x)' => Order(x)' < asyncOrder'
                /\ Async(x)' => Turned(x)'
                /\ Unwalked(x)' \/ Walking(x)' => ~Turned(x)' /\ starts'[x] = 0
    <2>1. Turned(x)' => On(x)' \/ Async(x)' \/ Failed(x)'
      BY <1>1, <1>2, <1>6 DEF TurnInv
    <2>2. Turned(x)' => Order(x)' < asyncOrder'
      BY <1>6, <1>7 DEF TurnInv
    <2>3. Async(x)' => Turned(x)'
      BY <1>2, <1>6 DEF TurnInv
    <2>4. ASSUME Unwalked(x)' \/ Walking(x)'
          PROVE  ~Turned(x)' /\ starts'[x] = 0
      <3>1. x # m /\ (Unwalked(x) \/ Walking(x))
        BY <2>4, <1>1, <1>2, <1>5, OneState
      <3>2. ~Turned(x) /\ starts[x] = 0
        BY <3>1 DEF TurnInv
      <3>3. starts'[x] = starts[x]
        BY <3>1 DEF Ends, TypeOK
      <3> QED
        BY <3>1, <3>2, <3>3, <1>6
    <2> QED
      BY <2>1, <2>2, <2>3, <2>4
  <1>11. ASSUME NEW x \in Module, Turned(x)', Root(x)' # x
         PROVE  \E n \in Module : Waits(n, x)' /\ Root(n)' = Root(x)' /\ At(n)' < At(x)'
    <2>1. x # m
      BY <1>11, <1>1, <1>3
    <2>2. Turned(x)
      BY <2>1, <1>6, <1>11
    <2>3. CASE x \in C
      <3>1. PICK n \in Module : On(n) /\ Waits(n, x) /\ At(n) < At(x)
        BY <2>2, <2>3, <1>1 DEF TurnInv
      <3>2. Saw(n, x)
        BY <3>1, <2>3, <1>1 DEF WaitInv
      <3>3. n \in C
        BY <3>1, <3>2, <2>3, <1>1
      <3> QED
        BY <3>1, <3>3, <2>3, <1>3, <1>5, <1>7
    <2>4. CASE x \notin C
      <3>1. Root(x) # x /\ Root(x)' = Root(x) /\ Root(x) \notin C
        BY <2>4, <1>3, <1>11
      <3>2. PICK n \in Module : Waits(n, x) /\ Root(n) = Root(x) /\ At(n) < At(x)
        BY <3>1, <2>2 DEF TurnInv
      <3>3. n \notin C
        BY <3>1, <3>2, <1>3
      <3> QED
        BY <3>1, <3>2, <3>3, <1>3, <1>5, <1>7
    <2> QED
      BY <2>3, <2>4
  <1>12. ASSUME NEW x \in Module, Turned(x)', On(x)'
         PROVE  \/ \E n \in Module : On(n)' /\ Waits(n, x)' /\ At(n)' < At(x)'
                \/ Requiring(x)' /\ (At(Walker(Depth)) < At(x))'
    <2>1. CASE x = m
      <3>1. Depth' > 0
        <4>1. StackInv'
          BY EndedStack
        <4> QED
          BY <4>1, <1>12 DEF StackInv
      <3> QED
        BY <2>1, <3>1, EndedCalls
    <2>2. CASE x # m
      <3>1. Turned(x) /\ On(x) /\ x \notin C
        BY <2>2, <1>2, <1>6, <1>12
      <3>2. PICK n \in Module : On(n) /\ Waits(n, x) /\ At(n) < At(x)
        BY <3>1, <1>1 DEF TurnInv
      <3>3. Saw(n, x)
        BY <3>1, <3>2 DEF WaitInv
      <3>4. n \notin C
        BY <3>1, <3>2, <3>3, <1>1
      <3> QED
        BY <3>2, <3>4, <1>2, <1>5, <1>7
    <2> QED
      BY <2>1, <2>2
  <1>13. TurnInv'
    BY <1>10, <1>11, <1>12 DEF TurnInv
  <1> QED
    BY <1>9, <1>13

LEMMA EndedCounts ==
    ASSUME IInv, NEW m \in Module, NEW t \in BOOLEAN, NEW C \in SUBSET Module, MayEnd(m, t, C), Ends(m, t, C)
    PROVE  CountInv' /\ GatherInv' /\ JobInv'
  <1> USE DEF IInv
  <1>1. On(m) /\ ~Turned(m) /\ starts[m] = 0 /\ ready = {} /\ gathering = <<>>
    BY EndedWhat
  <1>2. /\ ready' = {} /\ gathering' = <<>> /\ Gathering = {} /\ Gathering' = {}
        /\ graph' = graph /\ jobs' = jobs
    BY <1>1 DEF Ends, Gathering
  <1>3. \A x \in Module : (Done(x) => Done(x)') /\ (Failed(x)' <=> Failed(x))
    BY EndedStates
  <1>4. \A x \in Module : Turned(x)' <=> Turned(x) \/ (x = m /\ t)
    BY DEF Ends
  <1>5. \A x \in Module : Pend(x)' = Pend(x) /\ Pend(x) \in Nat
    BY AccessorTypes DEF Ends, SamePend
  <1>6. \A w \in Module : Waiting(w)' = Waiting(w) /\ \A k : Waiter(w, k)' = Waiter(w, k)
    <2>1. SameWaiters
      BY DEF Ends
    <2> QED
      BY <2>1, SameWaits
  <1>7. \A w \in Module : Cleared(w)' <=> Done(w)'
    BY <1>2 DEF Cleared
  <1>8. \A w \in Module : Cleared(w) => Cleared(w)'
    BY <1>1, <1>3, <1>7 DEF Cleared
  <1>9. \A p, w \in Module : \A k \in Nat : Due(p, w, k)' => Due(p, w, k)
    BY <1>2, <1>6, <1>8 DEF Due
  <1>10. \A x \in Module : starts'[x] = IF x = m /\ Pend(m) = 0 THEN 1 ELSE starts[x]
    BY DEF Ends, TypeOK
  <1>11. \A x : Walking(x)' <=> Walking(x) /\ x # m
    BY EndedCalls
  <1>12. ASSUME NEW p \in Module, ~Failed(p)'
         PROVE  IsFiniteSet(Uncounted(p))' /\ (Cardinality(Uncounted(p)) <= Pend(p))'
    <2>1. IsFiniteSet(Uncounted(p)) /\ Cardinality(Uncounted(p)) <= Pend(p)
      BY <1>3, <1>12 DEF CountInv
    <2>2. IsFiniteSet(Uncounted(p)') /\ Cardinality(Uncounted(p)') <= Pend(p)
      BY <2>1, <1>5, <1>9, FewerUncounted
    <2> QED
      BY <2>2, <1>5
  <1>13. ASSUME NEW p \in Module, Pend(p)' > 0
         PROVE  starts'[p] = 0 /\ (Walking(p)' \/ Turned(p)' \/ Failed(p)')
    <2>1. Pend(p) > 0
      BY <1>5, <1>13
    <2>2. starts[p] = 0 /\ (Walking(p) \/ Turned(p) \/ Failed(p))
      BY <2>1 DEF CountInv
    <2>3. p = m => t
      BY <2>1, <1>5 DEF MayEnd
    <2>4. starts'[p] = 0
      BY <2>1, <2>2, <1>5, <1>10
    <2> QED
      BY <2>2, <2>3, <2>4, <1>3, <1>4, <1>11
  <1>14. CountInv'
    BY <1>2, <1>12, <1>13 DEF CountInv
  <1>15. GatherInv'
    BY <1>2 DEF GatherInv
  <1>16. JobInv'
    <2>1. ASSUME NEW x \in running'
          PROVE  starts'[x] = 1 /\ Turned(x)'
      <3>1. x \in running \/ (x = m /\ t /\ Pend(m) = 0)
        BY DEF Ends
      <3>2. x \in Module
        BY <3>1, JobTypes
      <3>3. x \in running => starts[x] = 1 /\ Turned(x)
        BY DEF JobInv
      <3> QED
        BY <3>1, <3>2, <3>3, <1>4, <1>10
    <2>2. ASSUME NEW i \in 1 .. Len(jobs)
          PROVE  /\ starts'[jobs[i].module] = 1 /\ Turned(jobs[i].module)'
                 /\ jobs[i].module \notin running'
      <3> PICK x \in Module : x = jobs[i].module
        BY JobTypes
      <3>1. starts[x] = 1 /\ Turned(x) /\ x \notin running /\ x # m
        BY <1>1 DEF JobInv
      <3>2. starts'[x] = 1 /\ Turned(x)'
        BY <3>1, <1>4, <1>10
      <3>3. x \notin running'
        BY <3>1 DEF Ends
      <3>4. jobs'[i].module = x
        BY <1>2
      <3>5. Turned(jobs[i].module)'
        BY <3>2, <3>4 DEF Turned
      <3> QED
        BY <3>2, <3>3, <3>5
    <2> QED
      BY <2>1, <2>2, <1>2 DEF JobInv
  <1> QED
    BY <1>14, <1>15, <1>16

LEMMA EndedOutcomes ==
    ASSUME IInv, NEW m \in Module, NEW t \in BOOLEAN, NEW C \in SUBSET Module, MayEnd(m, t, C), Ends(m, t, C)
    PROVE  OutcomeInv'
  <1> USE DEF IInv
  <1>1. On(m) /\ ~Turned(m) /\ Depth \in Nat /\ Depth \in 1 .. Depth
    BY EndedWhat
  <1>2. \A x \in C : On(x) /\ At(m) <= At(x)
    BY EndedWhat
  <1>3. /\ C # {} => m \in C
        /\ C = {} => Depth # 1
        /\ \A i \in 1 .. Depth : i # Depth => At(Walker(i)) < At(m) /\ Walker(i) # m
    BY EndedWhat
  <1>4. \A x \in Module :
            /\ On(x)' <=> On(x) /\ x \notin C
            /\ Done(x)' <=> Done(x) \/ (x \in C /\ ~Turned(x)')
            /\ Failed(x)' <=> Failed(x)
            /\ Unwalked(x)' <=> Unwalked(x)
    BY EndedStates
  <1>5. /\ \A x \in Module : x \in C => Root(x)' = m
        /\ \A x \in Module : x \notin C => Root(x)' = Root(x)
        /\ \A x \in Module : Done(Root(x)) => Done(Root(x))'
    BY EndedRoots
  <1>6. \A x, y : Reaches(x, y)' = Reaches(x, y) /\ Asks(x, y)' = Asks(x, y)
    BY SameGraph DEF Ends
  <1>7. \A x \in Module : Turned(x)' <=> Turned(x) \/ (x = m /\ t)
    BY DEF Ends
  <1>8. \A x \in Module : Err(x)' = Err(x)
    BY DEF Ends
  <1>9. ASSUME NEW x \in Module, Failed(x)'
        PROVE  Err(x)' \in Module /\ Reaches(x, Err(x))' /\ Failed(Err(x))'
    <2>1. Failed(x)
      BY <1>4, <1>9
    <2> PICK e \in Module : e = Err(x) /\ Reaches(x, e) /\ Failed(e)
      BY <2>1 DEF OutcomeInv
    <2>2. Failed(e)' /\ Reaches(x, e)'
      BY <1>4, <1>6
    <2>3. Err(x)' = e
      BY <1>8
    <2> QED
      BY <2>2, <2>3 DEF Failed, Status
  <1>10. ASSUME NEW x \in Module, x = m, Depth = 1, ~t
         PROVE  /\ Root(x)' = x /\ ~Unwalked(x)' /\ ~On(x)' /\ Done(x)' /\ Cap(x)' = Fulfilled
    <2>1. m \in C
      BY <1>3, <1>10
    <2>2. Cap(x)' = Fulfilled
      BY <1>10 DEF Ends
    <2> QED
      BY <2>1, <2>2, <1>1, <1>4, <1>5, <1>7, <1>10, OneState
  <1>11. ASSUME NEW x \in Module, ~(x = m /\ Depth = 1 /\ ~t), Cap(x)' # None
         PROVE  /\ Cap(x)' = Cap(x) /\ Root(x)' = x
                /\ Unwalked(x)' \/ On(x)' => Depth' > 0 /\ Walker(1)' = x
                /\ Cap(x).state = "fulfilled" => Done(x)'
                /\ Cap(x).state = "rejected" =>
                       Cap(x).error \in Module /\ Reaches(x, Cap(x).error)' /\ Failed(Cap(x).error)'
    <2>1. Cap(x)' = Cap(x)
      BY <1>11 DEF Ends
    <2>2. /\ Root(x) = x
          /\ Unwalked(x) \/ On(x) => Depth > 0 /\ Walker(1) = x
          /\ Cap(x).state = "fulfilled" => Done(x)
          /\ Cap(x).state = "rejected" =>
                 Cap(x).error \in Module /\ Reaches(x, Cap(x).error) /\ Failed(Cap(x).error)
      BY <2>1, <1>11 DEF OutcomeInv
    <2>3. Root(x)' = x
      <3>1. CASE x \in C
        <4>1. Walker(1) = x /\ At(m) <= At(x)
          BY <3>1, <2>2, <1>2
        <4>2. At(m) \in Nat /\ At(x) \in Nat
          BY AccessorTypes
        <4>3. 1 \in 1 .. Depth
          BY <1>1
        <4>4. Depth = 1
          BY <4>1, <4>2, <4>3, <1>3
        <4>5. x = m
          BY <4>1, <4>4 DEF MayEnd
        <4> QED
          BY <3>1, <4>5, <1>5
      <3>2. CASE x \notin C
        BY <3>2, <2>2, <1>5
      <3> QED
        BY <3>1, <3>2
    <2>4. ASSUME Unwalked(x)' \/ On(x)'
          PROVE  Depth' > 0 /\ Walker(1)' = x
      <3>1. Walker(1) = x /\ On(x)'
        <4>1. Walker(1) = x
          BY <2>2, <2>4, <1>4
        <4>2. On(Walker(1))
          <5>1. 1 \in 1 .. Depth
            BY <1>1
          <5> QED
            BY <5>1 DEF FramesInv
        <4> QED
          BY <4>1, <4>2, <2>4, <1>4, OneState
      <3>2. Depth' > 0
        <4>1. StackInv'
          BY EndedStack
        <4> QED
          BY <3>1, <4>1 DEF StackInv
      <3>3. Depth' \in Nat /\ \A i \in 1 .. Depth' : Walker(i)' = Walker(i)
        BY EndedCalls
      <3>4. 1 \in 1 .. Depth'
        BY <3>2, <3>3
      <3>5. Walker(1)' = Walker(1)
        BY <3>3, <3>4
      <3> QED
        BY <3>1, <3>2, <3>5
    <2>5. Cap(x).state = "rejected" =>
              Cap(x).error \in Module /\ Reaches(x, Cap(x).error)' /\ Failed(Cap(x).error)'
      <3> SUFFICES ASSUME Cap(x).state = "rejected"
                   PROVE  Cap(x).error \in Module /\ Reaches(x, Cap(x).error)' /\ Failed(Cap(x).error)'
        OBVIOUS
      <3> PICK e \in Module : e = Cap(x).error /\ Reaches(x, e) /\ Failed(e)
        BY <2>2
      <3>1. Failed(e)' /\ Reaches(x, e)' /\ Cap(x)'.error = e
        BY <2>1, <1>4, <1>6
      <3> QED
        BY <3>1, <2>1 DEF Failed, Status, Reaches, From
    <2> QED
      BY <2>1, <2>2, <2>3, <2>4, <2>5, <1>4
  <1>12. ASSUME NEW x \in Module, NEW n \in Module, starts'[x] = 1, Asks(x, n)'
         PROVE  Reaches(n, x)' \/ Done(Root(n))'
    <2>1. Asks(x, n)
      BY <1>6, <1>12
    <2>2. starts[x] = 1 \/ (x = m /\ Pend(m) = 0)
      BY <1>12 DEF Ends, TypeOK
    <2>3. Reaches(n, x) \/ Done(Root(n))
      <3>1. CASE starts[x] = 1
        BY <2>1, <3>1 DEF OutcomeInv
      <3>2. CASE x = m /\ Pend(m) = 0
        BY <2>1, <3>2, BodyMayRun DEF MayEnd
      <3> QED
        BY <2>2, <3>1, <3>2
    <2> QED
      BY <2>3, <1>5, <1>6
  <1>13. None' = None /\ Fulfilled # None /\ Fulfilled.state = "fulfilled"
    BY DEF None, Promise, Fulfilled
  <1>14. ASSUME NEW x \in Module, Cap(x)' # None
         PROVE  (/\ Root(x) = x
                 /\ Unwalked(x) \/ On(x) => Depth > 0 /\ Walker(1) = x
                 /\ Cap(x).state = "fulfilled" => Done(x)
                 /\ Cap(x).state = "rejected" =>
                        Cap(x).error \in Module /\ Reaches(x, Cap(x).error) /\ Failed(Cap(x).error))'
    <2>1. CASE x = m /\ Depth = 1 /\ ~t
      <3>1. /\ Root(x)' = x /\ ~Unwalked(x)' /\ ~On(x)' /\ Done(x)' /\ Cap(x)' = Fulfilled
        BY <2>1, <1>10
      <3>2. Cap(x)'.state # "rejected"
        BY <3>1, <1>13
      <3> QED
        BY <3>1, <3>2
    <2>2. CASE ~(x = m /\ Depth = 1 /\ ~t)
      <3>1. /\ Cap(x)' = Cap(x) /\ Root(x)' = x
            /\ Unwalked(x)' \/ On(x)' => Depth' > 0 /\ Walker(1)' = x
            /\ Cap(x).state = "fulfilled" => Done(x)'
            /\ Cap(x).state = "rejected" =>
                   Cap(x).error \in Module /\ Reaches(x, Cap(x).error)' /\ Failed(Cap(x).error)'
        BY <2>2, <1>11, <1>14
      <3> QED
        BY <3>1
    <2> QED
      BY <2>1, <2>2
  <1> QED
    BY <1>9, <1>12, <1>13, <1>14 DEF OutcomeInv

LEMMA EndPreserves ==
    ASSUME IInv, NEW m \in Module, NEW t \in BOOLEAN, NEW C \in SUBSET Module, MayEnd(m, t, C), Ends(m, t, C)
    PROVE  IInv'
  <1>1. TypeOK'
    <2>1. frames' \in Seq(Call) /\ stack' \in Seq(Module)
      BY EndedCalls, EndedStack
    <2>2. TypeOK
      BY DEF IInv
    <2>3. starts' \in [Module -> {0, 1}] /\ running' \subseteq Module /\ index' \in Nat /\ asyncOrder' \in Nat
      BY <2>2 DEF Ends, TypeOK
    <2> QED
      BY <2>1, <2>2, <2>3 DEF Ends, TypeOK
  <1> QED
    BY <1>1, EndedStack, EndedReach, EndedRecords, EndedWaits, EndedCounts, EndedOutcomes DEF IInv

\* The cycle that a call closes, in the order they were come to.
LEMMA ComponentIs ==
    ASSUME IInv, NEW m \in Module, On(m)
    PROVE  /\ Component(m) = IF Low(m) = At(m) THEN {x \in Module : On(x) /\ At(m) <= At(x)} ELSE {}
           /\ IsRoot(m) <=> Component(m) # {}
  <1> USE DEF IInv
  <1>1. IsRoot(m) <=> Low(m) = At(m)
    BY DEF IsRoot, Low, At
  <1>2. stack \in Seq(Module) /\ Len(stack) \in Nat /\ \A i \in 1 .. Len(stack) : stack[i] \in Module
    BY DEF TypeOK
  <1>3. \A x \in Module : At(x) \in Nat
    BY AccessorTypes
  <1>4. Place(m) \in 1 .. Len(stack) /\ stack[Place(m)] = m
    <2>1. \E k \in DOMAIN stack : stack[k] = m
      BY <1>2 DEF StackInv
    <2> QED
      BY <2>1, <1>2 DEF Place
  <1> PICK p \in 1 .. Len(stack) : p = Place(m)
    BY <1>4
  <1>5. ASSUME NEW k \in 1 .. Len(stack)
        PROVE  On(stack[k]) /\ (At(m) <= At(stack[k]) <=> p <= k)
    <2>1. On(stack[k])
      BY <1>2 DEF StackInv
    <2>2. k < p => At(stack[k]) < At(m)
      BY <1>4 DEF StackInv
    <2>3. p < k => At(m) < At(stack[k])
      BY <1>4 DEF StackInv
    <2>4. p < k \/ p = k \/ k < p
      BY <1>2
    <2>5. At(m) \in Nat /\ At(stack[k]) \in Nat
      BY <1>2, <1>3
    <2>6. p = k => At(stack[k]) = At(m)
      BY <1>4
    <2> QED
      BY <2>1, <2>2, <2>3, <2>4, <2>5, <2>6
  <1>6. {stack[k] : k \in p .. Len(stack)} = {x \in Module : On(x) /\ At(m) <= At(x)}
    <2>1. ASSUME NEW k \in p .. Len(stack)
          PROVE  stack[k] \in Module /\ On(stack[k]) /\ At(m) <= At(stack[k])
      <3>1. k \in 1 .. Len(stack) /\ p <= k
        BY <1>2
      <3> QED
        BY <3>1, <1>2, <1>5
    <2>2. ASSUME NEW x \in Module, On(x), At(m) <= At(x)
          PROVE  \E k \in p .. Len(stack) : stack[k] = x
      <3>1. PICK k \in 1 .. Len(stack) : stack[k] = x
        BY <2>2 DEF StackInv
      <3>2. p <= k
        BY <3>1, <2>2, <1>5
      <3>3. k \in p .. Len(stack)
        BY <3>2, <1>2
      <3> QED
        BY <3>1, <3>3
    <2> QED
      BY <2>1, <2>2
  <1>7. At(m) <= At(m)
    BY <1>3
  <1> QED
    BY <1>1, <1>6, <1>7 DEF Component

\* What a return does to a record: of the one that turned async, of one
\* whose cycle is closed, of the one whose promise is fulfilled.
TurnedTo(o, at, turns) == IF turns THEN [o EXCEPT !.asyncEvaluation = TRUE, !.asyncOrder = at] ELSE o
ClosedTo(o, m, closes) ==
    IF closes THEN [o EXCEPT !.status = IF o.asyncEvaluation THEN "async" ELSE "evaluated",
                             !.cycleRoot = m]
    ELSE o
PromisedTo(o, fulfils) == IF fulfils THEN [o EXCEPT !.capability = Fulfilled] ELSE o

Became(r, o, at, m, turns, closes, fulfils) ==
    /\ r \in Record
    /\ r.error = o.error /\ r.dfsIndex = o.dfsIndex /\ r.dfsAncestor = o.dfsAncestor
    /\ r.pendingAsync = o.pendingAsync /\ r.asyncParents = o.asyncParents
    /\ r.asyncEvaluation <=> o.asyncEvaluation \/ turns
    /\ r.asyncOrder = IF turns THEN at ELSE o.asyncOrder
    /\ r.status = IF closes THEN IF r.asyncEvaluation THEN "async" ELSE "evaluated" ELSE o.status
    /\ r.cycleRoot = IF closes THEN m ELSE o.cycleRoot
    /\ r.capability = IF fulfils THEN Fulfilled ELSE o.capability

LEMMA ReturnedRecord ==
    ASSUME NEW o \in Record, NEW at \in Nat, NEW m \in Module,
           NEW turns \in BOOLEAN, NEW closes \in BOOLEAN, NEW fulfils \in BOOLEAN,
           NEW r, r = PromisedTo(ClosedTo(TurnedTo(o, at, turns), m, closes), fulfils)
    PROVE  Became(r, o, at, m, turns, closes, fulfils)
  <1> PICK u : u = TurnedTo(o, at, turns)
    OBVIOUS
  <1> PICK v : v = ClosedTo(u, m, closes)
    OBVIOUS
  <1>a. r = PromisedTo(v, fulfils)
    OBVIOUS
  <1>1. /\ u \in Record
        /\ u.status = o.status /\ u.error = o.error /\ u.dfsIndex = o.dfsIndex
        /\ u.dfsAncestor = o.dfsAncestor
        /\ u.asyncEvaluation = (o.asyncEvaluation \/ turns)
        /\ u.asyncOrder = IF turns THEN at ELSE o.asyncOrder
        /\ u.pendingAsync = o.pendingAsync /\ u.asyncParents = o.asyncParents
        /\ u.cycleRoot = o.cycleRoot /\ u.capability = o.capability
    <2>1. CASE turns
      <3>1. u = [o EXCEPT !.asyncEvaluation = TRUE, !.asyncOrder = at]
        BY <2>1 DEF TurnedTo
      <3>2. /\ u \in Record
            /\ u.status = o.status /\ u.error = o.error /\ u.dfsIndex = o.dfsIndex
            /\ u.dfsAncestor = o.dfsAncestor /\ u.asyncEvaluation = TRUE /\ u.asyncOrder = at
            /\ u.pendingAsync = o.pendingAsync /\ u.asyncParents = o.asyncParents
            /\ u.cycleRoot = o.cycleRoot /\ u.capability = o.capability
        BY <3>1 DEF Record
      <3> QED
        BY <2>1, <3>2
    <2>2. CASE ~turns
      <3>1. u = o
        BY <2>2 DEF TurnedTo
      <3>2. o.asyncEvaluation \in BOOLEAN
        BY DEF Record
      <3> QED
        BY <2>2, <3>1, <3>2
    <2> QED
      BY <2>1, <2>2
  <1> PICK s \in Statuses : s = IF u.asyncEvaluation THEN "async" ELSE "evaluated"
    BY DEF Statuses
  <1>2. /\ v \in Record
        /\ v.status = (IF closes THEN s ELSE u.status) /\ v.error = u.error /\ v.dfsIndex = u.dfsIndex
        /\ v.dfsAncestor = u.dfsAncestor /\ v.asyncEvaluation = u.asyncEvaluation
        /\ v.asyncOrder = u.asyncOrder
        /\ v.pendingAsync = u.pendingAsync /\ v.asyncParents = u.asyncParents
        /\ v.cycleRoot = (IF closes THEN m ELSE u.cycleRoot) /\ v.capability = u.capability
    <2>1. CASE closes
      <3>1. v = [u EXCEPT !.status = s, !.cycleRoot = m]
        BY <2>1 DEF ClosedTo
      <3> QED
        BY <2>1, <3>1, <1>1 DEF Record
    <2>2. CASE ~closes
      BY <2>2, <1>1 DEF ClosedTo
    <2> QED
      BY <2>1, <2>2
  <1>3. /\ r \in Record
        /\ r.status = v.status /\ r.error = v.error /\ r.dfsIndex = v.dfsIndex
        /\ r.dfsAncestor = v.dfsAncestor /\ r.asyncEvaluation = v.asyncEvaluation
        /\ r.asyncOrder = v.asyncOrder
        /\ r.pendingAsync = v.pendingAsync /\ r.asyncParents = v.asyncParents
        /\ r.cycleRoot = v.cycleRoot /\ r.capability = IF fulfils THEN Fulfilled ELSE v.capability
    <2>1. CASE fulfils
      <3>1. Fulfilled \in PromiseSet /\ r = [v EXCEPT !.capability = Fulfilled]
        BY <2>1, <1>a, RecordTypes DEF PromisedTo
      <3> QED
        BY <2>1, <3>1, <1>2 DEF Record
    <2>2. CASE ~fulfils
      BY <2>2, <1>a, <1>2 DEF PromisedTo
    <2> QED
      BY <2>1, <2>2
  <1> QED
    BY <1>1, <1>2, <1>3 DEF Became

LEMMA ReturnEnds ==
    ASSUME IInv, NEW m \in Module, NEW t \in BOOLEAN, NEW C \in SUBSET Module, MayEnd(m, t, C),
           NEW records,
           records = IF t THEN [modules EXCEPT ![m].asyncEvaluation = TRUE, ![m].asyncOrder = asyncOrder]
                     ELSE modules,
           Return(records, m),
           UNCHANGED <<graph, gathering, ready, jobs>>,
           asyncOrder' = IF t THEN asyncOrder + 1 ELSE asyncOrder,
           running' = IF t /\ Pend(m) = 0 THEN running \union {m} ELSE running,
           starts' = IF Pend(m) = 0 THEN [starts EXCEPT ![m] = 1] ELSE starts
    PROVE  Ends(m, t, C)
  <1>1. On(m) /\ ~Turned(m)
    BY EndedWhat
  <1>2. C = Component(m) /\ (IsRoot(m) <=> C # {})
    BY <1>1, ComponentIs DEF MayEnd
  <1>3. modules \in [Module -> Record] /\ asyncOrder \in Nat
    BY DEF IInv, TypeOK
  <1>4. Len(frames) = 1 <=> Depth = 1
    BY DEF Depth
  <1>5. \A x \in Module : records[x] = TurnedTo(modules[x], asyncOrder, x = m /\ t)
    BY <1>3 DEF TurnedTo
  <1>6. records[m].asyncEvaluation <=> t
    BY <1>1, <1>3 DEF Record, Turned
  <1> DEFINE closed == [n \in Module |->
                IF n \in Component(m)
                THEN [records[n] EXCEPT !.status = IF records[n].asyncEvaluation
                                                   THEN "async" ELSE "evaluated",
                                        !.cycleRoot = m]
                ELSE records[n]]
  <1>7. /\ modules' = IF Len(frames) = 1 /\ ~records[m].asyncEvaluation
                      THEN [closed EXCEPT ![m].capability = Fulfilled] ELSE closed
        /\ frames' = Front(frames)
        /\ stack' = IF IsRoot(m) THEN SubSeq(stack, 1, Place(m) - 1) ELSE stack
        /\ index' = IF Len(frames) = 1 THEN 0 ELSE index
    BY DEF Return
  <1>8. \A x \in Module : closed[x] = ClosedTo(records[x], m, x \in C)
    BY <1>2 DEF ClosedTo
  <1>9. /\ modules' = IF Depth = 1 /\ ~t THEN [closed EXCEPT ![m].capability = Fulfilled] ELSE closed
        /\ frames' = Front(frames)
        /\ stack' = IF C = {} THEN stack ELSE SubSeq(stack, 1, Place(m) - 1)
        /\ index' = IF Depth = 1 THEN 0 ELSE index
    BY <1>2, <1>4, <1>6, <1>7
  <1>10. closed = [x \in Module |-> closed[x]]
    OBVIOUS
  <1> HIDE DEF closed
  <1>11. \A x \in Module : modules'[x] = PromisedTo(closed[x], x = m /\ Depth = 1 /\ ~t)
    BY <1>9, <1>10 DEF PromisedTo
  <1>12. ASSUME NEW x \in Module
         PROVE  /\ modules'[x] \in Record
                /\ modules'[x].error = modules[x].error /\ modules'[x].dfsIndex = modules[x].dfsIndex
                /\ modules'[x].dfsAncestor = modules[x].dfsAncestor
                /\ modules'[x].pendingAsync = modules[x].pendingAsync
                /\ modules'[x].asyncParents = modules[x].asyncParents
                /\ modules'[x].asyncEvaluation <=> modules[x].asyncEvaluation \/ (x = m /\ t)
                /\ modules'[x].asyncOrder = IF x = m /\ t THEN asyncOrder ELSE modules[x].asyncOrder
                /\ modules'[x].status = IF x \in C
                                        THEN IF modules'[x].asyncEvaluation THEN "async" ELSE "evaluated"
                                        ELSE modules[x].status
                /\ modules'[x].cycleRoot = IF x \in C THEN m ELSE modules[x].cycleRoot
                /\ modules'[x].capability = IF x = m /\ Depth = 1 /\ ~t THEN Fulfilled
                                            ELSE modules[x].capability
    <2> PICK r : r = modules'[x]
      OBVIOUS
    <2> PICK o \in Record : o = modules[x]
      BY <1>3
    <2>a. (x = m /\ t) \in BOOLEAN /\ (x = m /\ Depth = 1 /\ ~t) \in BOOLEAN /\ (x \in C) \in BOOLEAN
      OBVIOUS
    <2> PICK turns \in BOOLEAN : turns = (x = m /\ t)
      BY <2>a, Zenon
    <2> PICK closes \in BOOLEAN : closes = (x \in C)
      BY <2>a, Zenon
    <2> PICK fulfils \in BOOLEAN : fulfils = (x = m /\ Depth = 1 /\ ~t)
      BY <2>a, Zenon
    <2>1. r = PromisedTo(ClosedTo(TurnedTo(o, asyncOrder, turns), m, closes), fulfils)
      BY <1>5, <1>8, <1>11
    <2>2. /\ r \in Record
          /\ r.error = o.error /\ r.dfsIndex = o.dfsIndex /\ r.dfsAncestor = o.dfsAncestor
          /\ r.pendingAsync = o.pendingAsync /\ r.asyncParents = o.asyncParents
          /\ r.asyncEvaluation <=> o.asyncEvaluation \/ turns
          /\ r.asyncOrder = IF turns THEN asyncOrder ELSE o.asyncOrder
          /\ r.status = IF closes THEN IF r.asyncEvaluation THEN "async" ELSE "evaluated" ELSE o.status
          /\ r.cycleRoot = IF closes THEN m ELSE o.cycleRoot
          /\ r.capability = IF fulfils THEN Fulfilled ELSE o.capability
      <3>1. Became(r, o, asyncOrder, m, turns, closes, fulfils)
        BY <2>1, <1>3, ReturnedRecord, Zenon
      <3> QED
        BY <3>1 DEF Became
    <2> QED
      BY <2>2
  <1>13. modules' \in [Module -> Record]
    <2> PICK new : new = modules'
      OBVIOUS
    <2>1. new = [x \in Module |-> new[x]]
      BY <1>9, <1>10
    <2>2. \A x \in Module : new[x] \in Record
      BY <1>12
    <2>3. new \in [Module -> Record]
      BY <2>1, <2>2
    <2> QED
      BY <2>3
  <1>14. SameIndexes /\ SamePend /\ SameWaiters /\ \A x \in Module : Err(x)' = Err(x)
    BY <1>12 DEF SameIndexes, SamePend, SameWaiters, At, Low, Pend, Waiters, Err
  <1>15. ASSUME NEW x \in Module
         PROVE  /\ Turned(x)' <=> Turned(x) \/ (x = m /\ t)
                /\ Order(x)' = IF x = m /\ t THEN asyncOrder ELSE Order(x)
                /\ Cap(x)' = IF x = m /\ Depth = 1 /\ ~t THEN Fulfilled ELSE Cap(x)
                /\ x \in C => /\ Root(x)' = m
                              /\ Status(x)' = IF Turned(x)' THEN "async" ELSE "evaluated"
                /\ x \notin C => Root(x)' = Root(x) /\ Status(x)' = Status(x)
    BY <1>12 DEF Turned, Order, Cap, Root, Status
  <1> QED
    BY <1>9, <1>13, <1>14, <1>15 DEF Ends

LEMMA TurnAsyncPreserves ==
    ASSUME IInv, TurnAsync
    PROVE  IInv'
  <1> PICK m \in Module : m = Walker(Depth) /\ m = Frame.module /\ AtEnd /\ starts[m] = 0
    BY WalkAtEnd DEF TurnAsync
  <1> DEFINE C == IF Low(m) = At(m) THEN {x \in Module : On(x) /\ At(m) <= At(x)} ELSE {}
  <1>1. C \in SUBSET Module
    OBVIOUS
  <1> PICK t \in BOOLEAN : t
    OBVIOUS
  <1>2. Pend(m) \in Nat /\ starts \in [Module -> {0, 1}]
    BY AccessorTypes DEF IInv, TypeOK
  <1>3. /\ Pend(m) # 0 \/ HasAwait(m)
        /\ asyncOrder' = asyncOrder + 1
        /\ running' = IF Pend(m) = 0 THEN running \union {m} ELSE running
        /\ starts' = IF Pend(m) = 0 THEN [starts EXCEPT ![m] = 1] ELSE starts
        /\ Return([modules EXCEPT ![m].asyncEvaluation = TRUE, ![m].asyncOrder = asyncOrder], m)
        /\ UNCHANGED <<graph, gathering, ready, jobs>>
    BY <1>2 DEF TurnAsync, Pend
  <1>4. MayEnd(m, t, C)
    BY <1>3 DEF MayEnd
  <1> HIDE DEF C
  <1>5. Ends(m, t, C)
    BY <1>1, <1>3, <1>4, ReturnEnds
  <1> QED
    BY <1>1, <1>4, <1>5, EndPreserves

LEMMA ExecutePreserves ==
    ASSUME IInv, Execute
    PROVE  IInv'
  <1> PICK m \in Module : m = Walker(Depth) /\ m = Frame.module /\ AtEnd /\ starts[m] = 0
    BY WalkAtEnd DEF Execute
  <1> DEFINE C == IF Low(m) = At(m) THEN {x \in Module : On(x) /\ At(m) <= At(x)} ELSE {}
  <1>1. C \in SUBSET Module
    OBVIOUS
  <1> PICK t \in BOOLEAN : ~t
    OBVIOUS
  <1>2. starts \in [Module -> {0, 1}]
    BY DEF IInv, TypeOK
  <1>3. /\ Pend(m) = 0 /\ ~HasAwait(m)
        /\ starts' = [starts EXCEPT ![m] = @ + 1] /\ starts' = [starts EXCEPT ![m] = 1]
        /\ FailWalk(m) \/ Return(modules, m)
        /\ UNCHANGED <<graph, asyncOrder, gathering, ready, running, jobs>>
    BY <1>2 DEF Execute, Pend
  <1>4. MayEnd(m, t, C)
    BY <1>3 DEF MayEnd
  <1> HIDE DEF C
  <1>5. CASE FailWalk(m)
    BY <1>3, <1>5, ThrowPreserves
  <1>6. CASE Return(modules, m)
    <2>1. Ends(m, t, C)
      BY <1>1, <1>3, <1>4, <1>6, ReturnEnds
    <2> QED
      BY <1>1, <1>4, <2>1, EndPreserves
  <1> QED
    BY <1>3, <1>5, <1>6
-----------------------------------------------------------------------------
(* What happens between the walks: BodyEnds, the jobs, gatherAncestors and *)
(* the list of those that may run.                                         *)

\* The modules of D are done and those of F fail with e; no other record
\* changes but in what is counted.
Settles(D, F, e) ==
    /\ UNCHANGED <<graph, asyncOrder, frames, stack, index>>
    /\ modules' \in [Module -> Record]
    /\ SameRoots /\ SameIndexes /\ SameWaiters
    /\ \A x \in Module :
           /\ Order(x)' = Order(x)
           /\ Turned(x)' <=> Turned(x) /\ x \notin D
           /\ x \in D => Status(x)' = "evaluated"
           /\ x \in F => Status(x)' = "failed" /\ Err(x)' = e
           /\ x \notin D /\ x \notin F => Status(x)' = Status(x)
           /\ x \notin F => Err(x)' = Err(x)
           /\ Cap(x)' = IF Cap(x) = None \/ (x \notin D /\ x \notin F) THEN Cap(x)
                        ELSE IF x \in D THEN Fulfilled ELSE Promise("rejected", e)
MaySettle(D, F, e) ==
    /\ frames = <<>>
    /\ \A x \in D : Async(x) /\ x \notin F /\ \A w \in Module : Waits(x, w) => Done(w)
    /\ \A x \in F : /\ Async(x) /\ e \in F /\ Reaches(x, e)
                    /\ \A p \in Module : Waits(p, x) => p \in F \/ Failed(p)
\* The bodies that begin may.
BodiesBegin ==
    \A x \in Module : starts'[x] # starts[x] =>
        Async(x) /\ \A n \in Module : Asks(x, n) => Reaches(n, x) \/ Done(Root(n))

LEMMA SettledStates ==
    ASSUME IInv, NEW D \in SUBSET Module, NEW F \in SUBSET Module, NEW e,
           MaySettle(D, F, e), Settles(D, F, e)
    PROVE  \A x \in Module :
               /\ ~On(x) /\ ~On(x)' /\ ~Walking(x) /\ ~Walking(x)'
               /\ Done(x)' <=> Done(x) \/ x \in D
               /\ Failed(x)' <=> Failed(x) \/ x \in F
               /\ Async(x)' <=> Async(x) /\ x \notin D /\ x \notin F
               /\ Ended(x)' <=> Ended(x) /\ x \notin F
               /\ Unwalked(x)' <=> Unwalked(x)
               /\ (Status(x) = "new")' <=> Status(x) = "new"
  <1> USE DEF IInv
  <1>1. \A x \in Module : ~On(x) /\ ~Walking(x)
    BY NoWalk DEF MaySettle
  <1>2. ASSUME NEW x \in Module
        PROVE  /\ x \in D => Async(x) /\ x \notin F /\ Status(x)' = "evaluated"
               /\ x \in F => Async(x) /\ Status(x)' = "failed"
               /\ x \notin D /\ x \notin F => Status(x)' = Status(x)
    BY DEF MaySettle, Settles
  <1>3. ASSUME NEW x \in Module
        PROVE  /\ ~On(x)'
               /\ Done(x)' <=> Done(x) \/ x \in D
               /\ Failed(x)' <=> Failed(x) \/ x \in F
               /\ Async(x)' <=> Async(x) /\ x \notin D /\ x \notin F
               /\ Ended(x)' <=> Ended(x) /\ x \notin F
               /\ Unwalked(x)' <=> Unwalked(x)
               /\ (Status(x) = "new")' <=> Status(x) = "new"
    BY <1>1, <1>2 DEF On, Done, Failed, Async, Ended, Unwalked
  <1>4. \A x \in Module : ~Walking(x)'
    BY <1>1, SameFrames DEF Settles
  <1> QED
    BY <1>1, <1>3, <1>4

LEMMA SettledRecords ==
    ASSUME IInv, NEW D \in SUBSET Module, NEW F \in SUBSET Module, NEW e,
           MaySettle(D, F, e), Settles(D, F, e), BodiesBegin
    PROVE  /\ StackInv' /\ FramesInv' /\ ReachInv' /\ LowInv'
           /\ RootInv' /\ RequestInv' /\ WaitInv' /\ TurnInv'
  <1> USE DEF IInv
  <1>1. \A x \in Module :
            /\ ~On(x) /\ ~On(x)' /\ ~Walking(x) /\ ~Walking(x)'
            /\ Done(x)' <=> Done(x) \/ x \in D
            /\ Failed(x)' <=> Failed(x) \/ x \in F
            /\ Async(x)' <=> Async(x) /\ x \notin D /\ x \notin F
            /\ Ended(x)' <=> Ended(x) /\ x \notin F
            /\ Unwalked(x)' <=> Unwalked(x)
            /\ (Status(x) = "new")' <=> Status(x) = "new"
    BY SettledStates
  <1>2. frames = <<>> /\ stack = <<>> /\ frames' = <<>> /\ stack' = <<>> /\ graph' = graph
    BY NoWalk DEF MaySettle, Settles
  <1>3. /\ StackInv' /\ FramesInv' /\ ReachInv' /\ LowInv'
        /\ \A m, n \in Module : Saw(m, n)' <=> Asks(m, n)
    BY <1>1, <1>2, StillNoWalk
  <1>4. \A x, y : Reaches(x, y)' = Reaches(x, y) /\ Asks(x, y)' = Asks(x, y)
    BY <1>2, SameGraph
  <1>5. \A x \in Module : Root(x)' = Root(x) /\ Root(x) \in Module /\ At(x)' = At(x)
    BY AccessorTypes DEF Settles, SameRoots, SameIndexes
  <1>6. \A x \in Module : Order(x)' = Order(x) /\ (Turned(x)' <=> Turned(x) /\ x \notin D)
    BY DEF Settles
  <1>7. \A p, w \in Module : Waits(p, w)' = Waits(p, w)
    <2>1. SameWaiters
      BY DEF Settles
    <2> QED
      BY <2>1, SameWaits
  <1>8. RootInv'
    <2>1. ASSUME NEW x \in Module
          PROVE  (/\ Reaches(x, Root(x)) /\ Reaches(Root(x), x) /\ Root(Root(x)) = Root(x)
                  /\ Root(x) # x => /\ Ended(x) \/ Failed(x)
                                    /\ Ended(Root(x)) \/ Failed(Root(x))
                                    /\ Turned(x) \/ Done(x))'
      <3> PICK r \in Module : r = Root(x) /\ Root(x)' = r
        BY <1>5
      <3>1. /\ Reaches(x, r) /\ Reaches(r, x) /\ Root(r) = r
            /\ r # x => (Ended(x) \/ Failed(x)) /\ (Ended(r) \/ Failed(r)) /\ (Turned(x) \/ Done(x))
        BY DEF RootInv
      <3>2. /\ Reaches(x, r)' /\ Reaches(r, x)' /\ Root(r)' = r
            /\ r # x => (Ended(x)' \/ Failed(x)') /\ (Ended(r)' \/ Failed(r)') /\ (Turned(x)' \/ Done(x)')
        BY <3>1, <1>1, <1>4, <1>5, <1>6
      <3> QED
        BY <3>2
    <2> QED
      BY <2>1 DEF RootInv
  <1>9. RequestInv'
    <2>1. ASSUME NEW x \in Module, NEW y \in Module, Asks(x, y), Ended(x)'
          PROVE  Met(x, y)'
      <3>1. Ended(x) /\ Saw(x, y)
        BY <2>1, <1>1, SawAll
      <3>2. Met(x, y)
        BY <3>1 DEF RequestInv
      <3> PICK r \in Module : r = Root(y) /\ Root(y)' = r
        BY <1>5
      <3>3. Done(r) => Done(r)'
        BY <1>1
      <3>4. Waits(x, r)' = Waits(x, r)
        BY <1>7
      <3>5. \/ Ended(x) /\ Root(x) = r
            \/ Done(r)
            \/ Waits(x, r)
        BY <3>2, <1>1 DEF Met
      <3>6. \/ Ended(x)' /\ Root(x)' = r
            \/ Done(r)'
            \/ Waits(x, r)'
        BY <3>3, <3>4, <3>5, <2>1, <1>5
      <3> QED
        BY <3>6 DEF Met, Waits, Waiting, Waiter, Done, Status
    <2> QED
      BY <2>1, <1>1, <1>3, <1>4 DEF RequestInv
  <1>10. WaitInv'
    <2>1. ASSUME NEW w \in Module, NEW p \in Module, Waits(p, w)
          PROVE  /\ Reaches(p, w)' /\ ~Unwalked(p)' /\ ~Unwalked(w)'
                 /\ Turned(w)' \/ Done(w)'
                 /\ Failed(w)' => Failed(p)'
                 /\ Async(w)' => Turned(p)' \/ Failed(p)'
                 /\ Order(w)' < asyncOrder'
                 /\ Turned(p)' => Order(w)' < Order(p)'
      <3>1. /\ Reaches(p, w) /\ ~Unwalked(p) /\ ~Unwalked(w) /\ (Turned(w) \/ Done(w))
            /\ Failed(w) => Failed(p)
            /\ Async(w) => Turned(p) \/ Failed(p)
            /\ Order(w) < asyncOrder
            /\ Turned(p) => Order(w) < Order(p)
        BY <2>1, <1>1 DEF WaitInv
      <3>2. Failed(w)' => Failed(p)'
        BY <3>1, <2>1, <1>1 DEF MaySettle
      <3>3. Async(w)' => Turned(p)' \/ Failed(p)'
        <4>1. ASSUME p \in D
              PROVE  Done(w)
          BY <4>1, <2>1 DEF MaySettle
        <4>2. Async(w)' => Async(w) /\ ~Done(w)
          BY <1>1, OneState
        <4> QED
          BY <3>1, <4>1, <4>2, <1>1, <1>6
      <3>4. asyncOrder' = asyncOrder
        BY DEF Settles
      <3> QED
        BY <3>1, <3>2, <3>3, <3>4, <1>1, <1>4, <1>6
    <2> QED
      BY <2>1, <1>1, <1>7 DEF WaitInv
  <1>11. TurnInv'
    <2>1. ASSUME NEW x \in Module
          PROVE  /\ Turned(x)' => Async(x)' \/ Failed(x)'
                 /\ Turned(x)' => Order(x)' < asyncOrder'
                 /\ Async(x)' => Turned(x)'
                 /\ Unwalked(x)' => ~Turned(x)' /\ starts'[x] = 0
      <3>1. /\ Turned(x) => Async(x) \/ Failed(x)
            /\ Turned(x) => Order(x) < asyncOrder
            /\ Async(x) => Turned(x)
            /\ Unwalked(x) => ~Turned(x) /\ starts[x] = 0
        BY <1>1 DEF TurnInv
      <3>2. asyncOrder' = asyncOrder
        BY DEF Settles
      <3>3. Unwalked(x)' => starts'[x] = 0
        BY <3>1, <1>1, OneState DEF BodiesBegin
      <3> QED
        BY <3>1, <3>2, <3>3, <1>1, <1>6
    <2>2. ASSUME NEW x \in Module, Turned(x)', Root(x)' # x
          PROVE  \E n \in Module : Waits(n, x)' /\ Root(n)' = Root(x)' /\ At(n)' < At(x)'
      <3>1. PICK n \in Module : Waits(n, x) /\ Root(n) = Root(x) /\ At(n) < At(x)
        BY <2>2, <1>5, <1>6 DEF TurnInv
      <3> QED
        BY <3>1, <1>5, <1>7
    <2> QED
      BY <2>1, <2>2, <1>1 DEF TurnInv
  <1> QED
    BY <1>3, <1>8, <1>9, <1>10, <1>11

LEMMA SettledOutcomes ==
    ASSUME IInv, NEW D \in SUBSET Module, NEW F \in SUBSET Module, NEW e,
           MaySettle(D, F, e), Settles(D, F, e), BodiesBegin, starts' \in [Module -> {0, 1}]
    PROVE  OutcomeInv'
  <1> USE DEF IInv
  <1>1. \A x \in Module :
            /\ ~On(x) /\ ~On(x)'
            /\ Done(x)' <=> Done(x) \/ x \in D
            /\ Failed(x)' <=> Failed(x) \/ x \in F
            /\ Unwalked(x)' <=> Unwalked(x)
    BY SettledStates
  <1>2. \A x, y : Reaches(x, y)' = Reaches(x, y) /\ Asks(x, y)' = Asks(x, y)
    BY SameGraph DEF Settles
  <1>3. \A x \in Module : Root(x)' = Root(x) /\ Root(x) \in Module
    BY AccessorTypes DEF Settles, SameRoots
  <1>4. \A x \in F : Async(x) /\ e \in F /\ Reaches(x, e) /\ e \in Module
    BY DEF MaySettle
  <1>5. \A x \in D : Async(x)
    BY DEF MaySettle
  <1>6. ASSUME NEW x \in Module, Failed(x)'
        PROVE  (Err(x) \in Module /\ Reaches(x, Err(x)) /\ Failed(Err(x)))'
    <2>1. \E k \in Module : Err(x)' = k /\ Reaches(x, k) /\ Failed(k)'
      <3>1. CASE x \in F
        <4>1. Err(x)' = e
          BY <3>1 DEF Settles
        <4> QED
          BY <3>1, <4>1, <1>1, <1>4
      <3>2. CASE x \notin F
        <4>1. Err(x)' = Err(x) /\ Failed(x)
          BY <3>2, <1>1, <1>6 DEF Settles
        <4> QED
          BY <4>1, <1>1 DEF OutcomeInv
      <3> QED
        BY <3>1, <3>2
    <2> PICK k \in Module : Err(x)' = k /\ Reaches(x, k) /\ Failed(k)'
      BY <2>1
    <2>2. Reaches(x, k)'
      BY <1>2
    <2> QED
      BY <2>2 DEF Failed, Status
  <1>7. ASSUME NEW x \in Module, Cap(x) # None
        PROVE  /\ Root(x)' = x /\ ~Unwalked(x)'
               /\ Cap(x)'.state = "fulfilled" => Done(x)'
               /\ Cap(x)'.state = "rejected" =>
                      \E k \in Module : Cap(x)'.error = k /\ Reaches(x, k) /\ Failed(k)'
    <2>1. /\ Root(x) = x
          /\ Unwalked(x) => Depth > 0
          /\ Cap(x).state = "fulfilled" => Done(x)
          /\ Cap(x).state = "rejected" =>
                 Cap(x).error \in Module /\ Reaches(x, Cap(x).error) /\ Failed(Cap(x).error)
      BY <1>7 DEF OutcomeInv
    <2>2. Depth = 0
      BY NoWalk DEF MaySettle
    <2>3. CASE x \in D
      <3>1. Cap(x)' = Fulfilled
        BY <2>3, <1>7 DEF Settles
      <3>2. Cap(x)'.state # "rejected"
        BY <3>1 DEF Fulfilled, Promise
      <3> QED
        BY <2>1, <2>2, <2>3, <3>2, <1>1, <1>3
    <2>4. CASE x \in F
      <3>1. x \notin D
        BY <2>4 DEF MaySettle
      <3>2. Cap(x)' = Promise("rejected", e)
        BY <2>4, <3>1, <1>7 DEF Settles
      <3>3. Cap(x)'.state # "fulfilled" /\ Cap(x)'.error = e
        BY <3>2 DEF Promise
      <3> QED
        BY <2>1, <2>2, <2>4, <3>3, <1>1, <1>3, <1>4
    <2>5. CASE x \notin D /\ x \notin F
      <3>1. Cap(x)' = Cap(x)
        BY <2>5 DEF Settles
      <3> QED
        BY <2>1, <2>2, <3>1, <1>1, <1>3
    <2> QED
      BY <2>3, <2>4, <2>5
  <1>8. \A x \in Module : Cap(x)' # None => Cap(x) # None
    BY DEF Settles
  <1>9. ASSUME NEW x \in Module, NEW n \in Module, starts'[x] = 1, Asks(x, n)'
        PROVE  Reaches(n, x)' \/ Done(Root(n))'
    <2>1. Asks(x, n)
      BY <1>2, <1>9
    <2>2. Reaches(n, x) \/ Done(Root(n))
      <3>1. CASE starts'[x] = starts[x]
        BY <2>1, <3>1, <1>9 DEF OutcomeInv
      <3>2. CASE starts'[x] # starts[x]
        BY <2>1, <3>2 DEF BodiesBegin
      <3> QED
        BY <3>1, <3>2
    <2> PICK r \in Module : r = Root(n) /\ Root(n)' = r
      BY <1>3
    <2>3. Reaches(n, x)' \/ Done(r)'
      BY <2>2, <1>1, <1>2
    <2> QED
      BY <2>3 DEF Done, Status
  <1>10. None' = None
    BY DEF None, Promise
  <1>11. ASSUME NEW x \in Module, Cap(x)' # None
         PROVE  (/\ Root(x) = x
                 /\ Unwalked(x) \/ On(x) => Depth > 0 /\ Walker(1) = x
                 /\ Cap(x).state = "fulfilled" => Done(x)
                 /\ Cap(x).state = "rejected" =>
                        Cap(x).error \in Module /\ Reaches(x, Cap(x).error) /\ Failed(Cap(x).error))'
    <2>1. /\ Root(x)' = x /\ ~Unwalked(x)' /\ ~On(x)'
          /\ Cap(x)'.state = "fulfilled" => Done(x)'
          /\ Cap(x)'.state = "rejected" =>
                 \E k \in Module : Cap(x)'.error = k /\ Reaches(x, k) /\ Failed(k)'
      BY <1>1, <1>7, <1>8, <1>11
    <2>2. ASSUME Cap(x)'.state = "rejected"
          PROVE  (Cap(x).error \in Module /\ Reaches(x, Cap(x).error) /\ Failed(Cap(x).error))'
      <3> PICK k \in Module : Cap(x)'.error = k /\ Reaches(x, k) /\ Failed(k)'
        BY <2>1, <2>2
      <3>1. Reaches(x, k)'
        BY <1>2
      <3> QED
        BY <3>1 DEF Failed, Status
    <2> QED
      BY <2>1, <2>2
  <1> QED
    BY <1>6, <1>9, <1>10, <1>11 DEF OutcomeInv

LEMMA SettledCounts ==
    ASSUME IInv, NEW D \in SUBSET Module, NEW F \in SUBSET Module, NEW e,
           MaySettle(D, F, e), Settles(D, F, e), SamePend,
           \A x \in Module : starts'[x] # starts[x] => Pend(x) = 0 /\ x \notin ready',
           \A x \in D : Pend(x) = 0 /\ x \notin ready',
           ready' \subseteq ready,
           \A p, w \in Module : \A k \in Nat : ~Failed(p)' /\ Due(p, w, k)' => Due(p, w, k)
    PROVE  CountInv'
  <1> USE DEF IInv
  <1>1. \A x \in Module :
            /\ ~Walking(x)
            /\ Failed(x)' <=> Failed(x) \/ x \in F
            /\ Async(x)' <=> Async(x) /\ x \notin D /\ x \notin F
    BY SettledStates
  <1>2. \A x \in Module : Pend(x)' = Pend(x) /\ Pend(x) \in Nat
    BY AccessorTypes DEF SamePend
  <1>3. \A x \in Module : Turned(x)' <=> Turned(x) /\ x \notin D
    BY DEF Settles
  <1>4. ASSUME NEW p \in Module, ~Failed(p)'
        PROVE  IsFiniteSet(Uncounted(p))' /\ (Cardinality(Uncounted(p)) <= Pend(p))'
    <2>1. IsFiniteSet(Uncounted(p)) /\ Cardinality(Uncounted(p)) <= Pend(p)
      BY <1>1, <1>4 DEF CountInv
    <2>2. \A w \in Module : \A k \in Nat : Due(p, w, k)' => Due(p, w, k)
      BY <1>4
    <2>3. IsFiniteSet(Uncounted(p)') /\ Cardinality(Uncounted(p)') <= Pend(p)
      BY <2>1, <2>2, <1>2, FewerUncounted
    <2> QED
      BY <2>3, <1>2
  <1>5. ASSUME NEW p \in Module, Pend(p)' > 0
        PROVE  starts'[p] = 0 /\ (Turned(p)' \/ Failed(p)')
    <2>1. Pend(p) > 0 /\ Pend(p) # 0
      BY <1>2, <1>5
    <2>2. starts[p] = 0 /\ (Turned(p) \/ Failed(p))
      BY <2>1, <1>1 DEF CountInv
    <2> QED
      BY <2>1, <2>2, <1>1, <1>3
  <1>6. ASSUME NEW p \in ready'
        PROVE  Pend(p)' = 0 /\ starts'[p] = 0 /\ (Async(p)' \/ Failed(p)')
    <2>1. p \in ready /\ p \in Module
      BY <1>6, JobTypes
    <2>2. Pend(p) = 0 /\ starts[p] = 0 /\ (Async(p) \/ Failed(p))
      BY <2>1 DEF CountInv
    <2>3. p \notin D /\ starts'[p] = starts[p]
      BY <2>1, <1>6
    <2> QED
      BY <2>1, <2>2, <2>3, <1>1, <1>2
  <1> QED
    BY <1>4, <1>5, <1>6 DEF CountInv

LEMMA SettlePreserves ==
    ASSUME IInv, NEW D \in SUBSET Module, NEW F \in SUBSET Module, NEW e,
           MaySettle(D, F, e), Settles(D, F, e), BodiesBegin, starts' \in [Module -> {0, 1}],
           gathering' \in Seq(Call), ready' \subseteq Module, running' \subseteq Module,
           jobs' \in Seq([module : Module, throws : BOOLEAN]),
           CountInv', GatherInv', JobInv'
    PROVE  IInv'
  <1>1. TypeOK'
    <2>1. TypeOK
      BY DEF IInv
    <2> QED
      BY <2>1 DEF TypeOK, Settles
  <1> QED
    BY <1>1, SettledRecords, SettledOutcomes DEF IInv

\* Where the records stay.
LEMMA NoneSettle ==
    ASSUME IInv, frames = <<>>, UNCHANGED <<graph, modules, asyncOrder, frames, stack, index>>
    PROVE  /\ MaySettle({}, {}, NoError) /\ Settles({}, {}, NoError) /\ SamePend
           /\ \A x \in Module : Turned(x)' = Turned(x) /\ Failed(x)' = Failed(x)
           /\ \A w \in Module : Done(w)' = Done(w)
           /\ \A w \in Module : Waiting(w)' = Waiting(w) /\ \A k : Waiter(w, k)' = Waiter(w, k)
  <1>1. modules' \in [Module -> Record]
    BY DEF IInv, TypeOK
  <1>2. SameRoots /\ SameIndexes /\ SameWaiters /\ SamePend
    BY DEF SameRoots, SameIndexes, SameWaiters, SamePend, Root, At, Low, Waiters, Pend
  <1>3. \A x \in Module : /\ Order(x)' = Order(x) /\ Turned(x)' = Turned(x) /\ Status(x)' = Status(x)
                          /\ Err(x)' = Err(x) /\ Cap(x)' = Cap(x)
    BY DEF Order, Turned, Status, Err, Cap
  <1>4. \A x \in Module : Turned(x) \in BOOLEAN
    BY AccessorTypes DEF IInv
  <1>5. Settles({}, {}, NoError)
    BY <1>1, <1>2, <1>3, <1>4 DEF Settles
  <1>6. MaySettle({}, {}, NoError)
    BY DEF MaySettle
  <1> QED
    BY <1>2, <1>3, <1>5, <1>6, SameWaits DEF Failed, Done

LEMMA BodyEndsPreserves ==
    ASSUME IInv, NEW m \in Module, BodyEnds(m)
    PROVE  IInv'
  <1> USE DEF IInv
  <1>1. /\ frames = <<>> /\ m \in running /\ running' = running \ {m}
        /\ UNCHANGED <<graph, modules, asyncOrder, frames, stack, index, gathering, ready, starts>>
    BY DEF BodyEnds, Idle
  <1> PICK throws \in BOOLEAN : jobs' = Append(jobs, [module |-> m, throws |-> throws])
    BY DEF BodyEnds
  <1>2. /\ MaySettle({}, {}, NoError) /\ Settles({}, {}, NoError) /\ SamePend
        /\ \A x \in Module : Turned(x)' = Turned(x) /\ Failed(x)' = Failed(x)
        /\ \A w \in Module : Done(w)' = Done(w)
        /\ \A w \in Module : Waiting(w)' = Waiting(w) /\ \A k : Waiter(w, k)' = Waiter(w, k)
    BY <1>1, NoneSettle
  <1>3. Gathering' = Gathering /\ \A j : Gathers(j)' = Gathers(j) /\ Counts(j)' = Counts(j)
    BY <1>1, SameGathering
  <1>4. \A w \in Module : Cleared(w)' = Cleared(w)
    BY <1>1, <1>2, SameGraph DEF Cleared
  <1>5. \A p, w \in Module : \A k \in Nat : Due(p, w, k)' = Due(p, w, k)
    BY <1>2, <1>3, <1>4 DEF Due
  <1>6. CountInv'
    BY <1>1, <1>2, <1>5, SettledCounts
  <1>7. GatherInv'
    <2>1. \A j \in Gathering : Gathers(j) \in Module
      BY AccessorTypes
    <2> QED
      BY <2>1, <1>3, <1>4 DEF GatherInv
  <1> DEFINE J == [module : Module, throws : BOOLEAN]
  <1> DEFINE job == [module |-> m, throws |-> throws]
  <1>8. jobs \in Seq(J) /\ job \in J /\ job.module = m
    BY DEF TypeOK
  <1> HIDE DEF J, job
  <1>9. /\ jobs' \in Seq(J) /\ Len(jobs) \in Nat /\ Len(jobs') = Len(jobs) + 1
        /\ \A i \in 1 .. Len(jobs) : jobs'[i] = jobs[i]
        /\ jobs'[Len(jobs) + 1] = job
    <2>1. jobs' = Append(jobs, job)
      BY DEF job
    <2> QED
      BY <2>1, <1>8
  <1>10. \A i \in 1 .. Len(jobs') : i \in 1 .. Len(jobs) \/ i = Len(jobs) + 1
    BY <1>9
  <1>11. \A i \in 1 .. Len(jobs) : jobs[i].module # m
    BY <1>1 DEF JobInv
  <1>12. starts[m] = 1 /\ Turned(m)
    BY <1>1 DEF JobInv
  <1>13. JobInv'
    <2>1. \A x \in running' : starts'[x] = 1 /\ Turned(x)'
      BY <1>1, <1>2, JobTypes DEF JobInv
    <2>2. ASSUME NEW i \in 1 .. Len(jobs')
          PROVE  \E x \in Module : jobs'[i].module = x /\ starts'[x] = 1 /\ Turned(x)' /\ x \notin running'
      <3>1. CASE i \in 1 .. Len(jobs)
        <4> PICK x \in Module : jobs[i].module = x
          BY <3>1, JobTypes
        <4>1. starts[x] = 1 /\ Turned(x) /\ x \notin running
          BY <3>1 DEF JobInv
        <4> QED
          BY <3>1, <4>1, <1>1, <1>2, <1>9
      <3>2. CASE i = Len(jobs) + 1
        BY <3>2, <1>1, <1>2, <1>8, <1>9, <1>12
      <3> QED
        BY <3>1, <3>2, <1>10
    <2>3. \A i, j \in 1 .. Len(jobs') : jobs'[i].module = jobs'[j].module => i = j
      BY <1>8, <1>9, <1>10, <1>11 DEF JobInv
    <2>4. \A i \in 1 .. Len(jobs') :
              starts'[jobs'[i].module] = 1 /\ Turned(jobs[i].module)' /\ jobs'[i].module \notin running'
      BY <2>2 DEF Turned
    <2> QED
      BY <2>1, <2>3, <2>4 DEF JobInv
  <1>14. BodiesBegin
    BY <1>1 DEF BodiesBegin
  <1> QED
    BY <1>1, <1>2, <1>6, <1>7, <1>9, <1>13, <1>14, SettlePreserves DEF TypeOK, J

\* The head of the jobs is taken.
LEMMA TailOfJobs ==
    ASSUME TypeOK, JobInv, jobs # <<>>, jobs' = Tail(jobs), running' = running, starts' = starts
    PROVE  /\ jobs' \in Seq([module : Module, throws : BOOLEAN])
           /\ Head(jobs).module \in Module /\ starts[Head(jobs).module] = 1 /\ Turned(Head(jobs).module)
           /\ Head(jobs).module \notin running
           /\ (\A x \in Module : x # Head(jobs).module /\ Turned(x) => Turned(x)') => JobInv'
  <1> DEFINE J == [module : Module, throws : BOOLEAN]
  <1>1. jobs \in Seq(J)
    BY DEF TypeOK
  <1>2. 1 \in 1 .. Len(jobs)
    BY <1>1
  <1> PICK m \in Module : m = jobs[1].module
    BY <1>2, JobTypes
  <1> HIDE DEF J
  <1>3. Head(jobs).module = m
    BY <1>1
  <1>4. /\ jobs' \in Seq(J) /\ Len(jobs') = Len(jobs) - 1 /\ Len(jobs) \in Nat
        /\ \A i \in 1 .. Len(jobs') : jobs'[i] = jobs[i + 1]
    BY <1>1
  <1>5. starts[m] = 1 /\ Turned(m) /\ m \notin running
    BY <1>2 DEF JobInv
  <1>6. \A i \in 1 .. Len(jobs') : i + 1 \in 1 .. Len(jobs) /\ i + 1 # 1
    BY <1>4
  <1>7. ASSUME \A x \in Module : x # m /\ Turned(x) => Turned(x)'
        PROVE  JobInv'
    <2>1. \A x \in running' : starts'[x] = 1 /\ Turned(x)'
      BY <1>5, <1>7, JobTypes DEF JobInv
    <2>2. ASSUME NEW i \in 1 .. Len(jobs')
          PROVE  \E x \in Module : jobs'[i].module = x /\ starts'[x] = 1 /\ Turned(x)' /\ x \notin running'
      <3> PICK k \in 1 .. Len(jobs) : k = i + 1 /\ k # 1
        BY <1>6
      <3> PICK x \in Module : jobs[k].module = x
        BY JobTypes
      <3>1. starts[x] = 1 /\ Turned(x) /\ x \notin running
        BY DEF JobInv
      <3>2. x # m
        BY <1>2 DEF JobInv
      <3>3. jobs'[i].module = x
        BY <1>4
      <3> QED
        BY <3>1, <3>2, <3>3, <1>7
    <2>3. \A i, j \in 1 .. Len(jobs') : jobs'[i].module = jobs'[j].module => i = j
      <3>1. ASSUME NEW i \in 1 .. Len(jobs'), NEW j \in 1 .. Len(jobs'), jobs'[i].module = jobs'[j].module
            PROVE  i = j
        <4>1. jobs[i + 1].module = jobs[j + 1].module /\ i + 1 \in 1 .. Len(jobs) /\ j + 1 \in 1 .. Len(jobs)
          BY <3>1, <1>4, <1>6
        <4>2. i + 1 = j + 1
          BY <4>1 DEF JobInv
        <4> QED
          BY <4>2
      <3> QED
        BY <3>1
    <2>4. \A i \in 1 .. Len(jobs') :
              starts'[jobs'[i].module] = 1 /\ Turned(jobs[i].module)' /\ jobs'[i].module \notin running'
      BY <2>2 DEF Turned
    <2> QED
      BY <2>1, <2>3, <2>4 DEF JobInv
  <1> QED
    BY <1>3, <1>4, <1>5, <1>7 DEF J

\* The job of a module that is no longer async changes nothing.
LEMMA JobDropped ==
    ASSUME IInv, frames = <<>>, jobs # <<>>, jobs' = Tail(jobs),
           UNCHANGED <<graph, modules, asyncOrder, frames, stack, index, gathering, ready, running, starts>>
    PROVE  IInv'
  <1> USE DEF IInv
  <1>1. /\ MaySettle({}, {}, NoError) /\ Settles({}, {}, NoError) /\ SamePend
        /\ \A x \in Module : Turned(x)' = Turned(x) /\ Failed(x)' = Failed(x)
        /\ \A w \in Module : Done(w)' = Done(w)
        /\ \A w \in Module : Waiting(w)' = Waiting(w) /\ \A k : Waiter(w, k)' = Waiter(w, k)
    BY NoneSettle
  <1>2. Gathering' = Gathering /\ \A j : Gathers(j)' = Gathers(j) /\ Counts(j)' = Counts(j)
    BY SameGathering
  <1>3. \A w \in Module : Cleared(w)' = Cleared(w)
    BY <1>1, SameGraph DEF Cleared
  <1>4. \A p, w \in Module : \A k \in Nat : Due(p, w, k)' = Due(p, w, k)
    BY <1>1, <1>2, <1>3 DEF Due
  <1>5. CountInv'
    BY <1>1, <1>4, SettledCounts
  <1>6. GatherInv'
    <2>1. \A j \in Gathering : Gathers(j) \in Module
      BY AccessorTypes
    <2> QED
      BY <2>1, <1>2, <1>3 DEF GatherInv
  <1>7. JobInv' /\ jobs' \in Seq([module : Module, throws : BOOLEAN])
    BY <1>1, TailOfJobs
  <1>8. BodiesBegin
    BY DEF BodiesBegin
  <1> QED
    BY <1>1, <1>5, <1>6, <1>7, <1>8, SettlePreserves DEF TypeOK

\* A module finished.
LEMMA FinishedSettles ==
    ASSUME IInv, NEW m \in Module, modules' = Finished(m),
           UNCHANGED <<graph, asyncOrder, frames, stack, index>>
    PROVE  Settles({m}, {}, NoError) /\ SamePend
  <1>1. modules \in [Module -> Record]
    BY DEF IInv, TypeOK
  <1> PICK o \in Record : o = modules[m]
    BY <1>1
  <1> PICK c \in PromiseSet : c = IF o.capability = None THEN o.capability ELSE Fulfilled
    BY RecordTypes
  <1> PICK r : r = [o EXCEPT !.asyncEvaluation = FALSE, !.status = "evaluated", !.capability = c]
    OBVIOUS
  <1>2. modules' = [modules EXCEPT ![m] = r]
    BY <1>1 DEF Finished
  <1>3. /\ r \in Record
        /\ r.status = "evaluated" /\ r.error = o.error /\ r.dfsIndex = o.dfsIndex
        /\ r.dfsAncestor = o.dfsAncestor /\ r.asyncEvaluation = FALSE /\ r.asyncOrder = o.asyncOrder
        /\ r.pendingAsync = o.pendingAsync /\ r.asyncParents = o.asyncParents
        /\ r.cycleRoot = o.cycleRoot /\ r.capability = c
    BY DEF Record, Statuses
  <1>4. modules' \in [Module -> Record]
    BY <1>1, <1>2, <1>3
  <1>5. modules'[m] = r /\ \A x \in Module : x # m => modules'[x] = modules[x]
    BY <1>1, <1>2
  <1>6. ASSUME NEW x \in Module
        PROVE  /\ modules'[x].dfsIndex = modules[x].dfsIndex
               /\ modules'[x].dfsAncestor = modules[x].dfsAncestor
               /\ modules'[x].cycleRoot = modules[x].cycleRoot
               /\ modules'[x].asyncParents = modules[x].asyncParents
               /\ modules'[x].pendingAsync = modules[x].pendingAsync
               /\ modules'[x].asyncOrder = modules[x].asyncOrder
               /\ modules'[x].error = modules[x].error
    <2>1. CASE x = m
      BY <1>3, <1>5, <2>1
    <2>2. CASE x # m
      <3>1. modules'[x] = modules[x]
        BY <1>5, <2>2
      <3> QED
        BY <3>1
    <2> QED
      BY <2>1, <2>2
  <1>7. SameRoots /\ SameIndexes /\ SameWaiters /\ SamePend
    BY <1>6 DEF SameRoots, SameIndexes, SameWaiters, SamePend, Root, At, Low, Waiters, Pend
  <1>8. \A x \in Module : Order(x)' = Order(x) /\ Err(x)' = Err(x)
    BY <1>6 DEF Order, Err
  <1>9. Status(m)' = "evaluated" /\ ~Turned(m)' /\ Cap(m)' = IF Cap(m) = None THEN Cap(m) ELSE Fulfilled
    BY <1>3, <1>5 DEF Status, Turned, Cap
  <1>10. ASSUME NEW x \in Module, x # m
         PROVE  Status(x)' = Status(x) /\ Turned(x)' = Turned(x) /\ Cap(x)' = Cap(x)
    <2>1. modules'[x] = modules[x]
      BY <1>5, <1>10
    <2> QED
      BY <2>1 DEF Status, Turned, Cap
  <1>11. \A x \in Module : Turned(x) \in BOOLEAN
    BY AccessorTypes DEF IInv
  <1>12. UNCHANGED <<graph, asyncOrder, frames, stack, index>>
    OBVIOUS
  <1>13. ASSUME NEW x \in Module
         PROVE  /\ Turned(x)' <=> Turned(x) /\ x \notin {m}
                /\ x \in {m} => Status(x)' = "evaluated"
                /\ x \notin {m} => Status(x)' = Status(x)
                /\ Cap(x)' = IF Cap(x) = None \/ x \notin {m} THEN Cap(x) ELSE Fulfilled
    BY <1>9, <1>10, <1>11
  <1> QED
    BY <1>4, <1>7, <1>8, <1>12, <1>13 DEF Settles

LEMMA ModuleFulfilledPreserves ==
    ASSUME IInv, ModuleFulfilled
    PROVE  IInv'
  <1> USE DEF IInv
  <1>1. /\ frames = <<>> /\ gathering = <<>> /\ ready = {} /\ jobs # <<>> /\ jobs' = Tail(jobs)
        /\ UNCHANGED <<graph, asyncOrder, frames, stack, index, ready, running, starts>>
    BY DEF ModuleFulfilled, Idle
  <1> PICK m \in Module : m = Head(jobs).module /\ starts[m] = 1 /\ Turned(m) /\ m \notin running
    BY <1>1, TailOfJobs
  <1>2. CASE ~Async(m)
    <2>1. UNCHANGED <<modules, gathering>>
      BY <1>2 DEF ModuleFulfilled, Async
    <2> QED
      BY <2>1, <1>1, JobDropped
  <1>3. CASE Async(m)
    <2>1. modules' = Finished(m) /\ gathering' = <<[module |-> m, next |-> 1]>>
      BY <1>3 DEF ModuleFulfilled, Async
    <2>2. Settles({m}, {}, NoError) /\ SamePend
      BY <2>1, <1>1, FinishedSettles
    <2>3. Pend(m) = 0
      <3>1. Pend(m) \in Nat /\ ~(Pend(m) > 0)
        BY AccessorTypes DEF CountInv
      <3> QED
        BY <3>1
    <2>4. \A w \in Module : Waits(m, w) => Done(w)
      BY <2>3, <1>1, <1>3, NoneLeft, OneState DEF Cleared
    <2>5. MaySettle({m}, {}, NoError)
      BY <2>4, <1>1, <1>3 DEF MaySettle
    <2>6. \A x \in Module : (Done(x)' <=> Done(x) \/ x = m) /\ (Failed(x)' <=> Failed(x))
      BY <2>2, <2>5, SettledStates
    <2>7. /\ gathering' \in Seq(Call) /\ Gathering = {} /\ Gathering' = {1}
          /\ \A j \in Gathering' : Gathers(j)' = m /\ Counts(j)' = 1
      <3>1. [module |-> m, next |-> 1] \in Call
        BY DEF Call
      <3>2. gathering' \in Seq(Call) /\ Len(gathering') = 1 /\ gathering'[1] = [module |-> m, next |-> 1]
        BY <2>1, <3>1
      <3>3. 1 .. Len(gathering) = {} /\ 1 .. Len(gathering') = {1}
        BY <3>2, <1>1
      <3> QED
        BY <3>2, <3>3 DEF Gathering, Gathers, Counts
    <2>8. ready' = {} /\ \A w \in Module : (Cleared(w) <=> Done(w)) /\ (Cleared(w)' <=> Done(w)')
      BY <1>1 DEF Cleared
    <2>9. ASSUME NEW p \in Module, NEW w \in Module, NEW k \in Nat, Due(p, w, k)'
          PROVE  Due(p, w, k)
      <3>1. SameWaiters
        BY <2>2 DEF Settles
      <3>2. k \in Waiting(w) /\ Waiter(w, k) = p
        BY <3>1, <2>9, SameWaits DEF Due
      <3>3. ~Done(w)
        <4>1. ~Done(w)' \/ w = m
          BY <2>7, <2>8, <2>9 DEF Due
        <4> QED
          BY <4>1, <2>6, <1>3, OneState
      <3> QED
        BY <3>2, <3>3, <2>8 DEF Due
    <2>10. CountInv'
      BY <2>2, <2>3, <2>5, <2>8, <2>9, <1>1, SettledCounts
    <2>11. GatherInv'
      <3>1. Done(m)'
        BY <2>6
      <3>2. ASSUME NEW j \in Gathering'
            PROVE  Cleared(Gathers(j))' /\ Counts(j)' >= 1
        <4>1. Gathers(j)' = m /\ Counts(j)' = 1
          BY <2>7
        <4>2. Done(Gathers(j))'
          BY <3>1, <4>1 DEF Done, Status
        <4> QED
          BY <4>1, <4>2 DEF Cleared
      <3> QED
        BY <3>2, <2>7 DEF GatherInv
    <2>12. \A x \in Module : x # m /\ Turned(x) => Turned(x)'
      BY <2>2 DEF Settles
    <2>13. JobInv' /\ jobs' \in Seq([module : Module, throws : BOOLEAN])
      BY <2>12, <1>1, TailOfJobs
    <2>14. BodiesBegin
      BY <1>1 DEF BodiesBegin
    <2> QED
      BY <2>2, <2>5, <2>7, <2>10, <2>11, <2>13, <2>14, <1>1, SettlePreserves DEF TypeOK
  <1> QED
    BY <1>2, <1>3

\* The last call that gathers, and where it is.
LEMMA GathererIsLast ==
    ASSUME IInv, gathering # <<>>
    PROVE  /\ frames = <<>>
           /\ Len(gathering) \in Gathering /\ Len(gathering) \in Nat
           /\ Gatherer.module = Gathers(Len(gathering)) /\ Gatherer.next = Counts(Len(gathering))
           /\ Parents = Waiters(Gathers(Len(gathering)))
  <1> USE DEF IInv
  <1>1. frames = <<>>
    <2>1. frames # <<>> => Depth > 0
      BY FrameIsLast
    <2> QED
      BY <2>1 DEF FramesInv
  <1>2. gathering \in Seq(Call)
    BY DEF TypeOK
  <1>3. Len(gathering) \in Nat /\ Len(gathering) \in 1 .. Len(gathering)
    BY <1>2
  <1>4. Gatherer = gathering[Len(gathering)]
    BY <1>2 DEF Gatherer, Last
  <1> QED
    BY <1>1, <1>3, <1>4 DEF Gathering, Gathers, Counts, Parents, Waiters

LEMMA ParentsCountedPreserves ==
    ASSUME IInv, ParentsCounted
    PROVE  IInv'
  <1> USE DEF IInv
  <1>1. /\ gathering # <<>> /\ gathering' = Front(gathering)
        /\ UNCHANGED <<graph, modules, asyncOrder, frames, stack, index, ready, running, jobs, starts>>
    BY DEF ParentsCounted
  <1>2. frames = <<>>
    BY <1>1, GathererIsLast
  <1>3. /\ MaySettle({}, {}, NoError) /\ Settles({}, {}, NoError) /\ SamePend
        /\ \A x \in Module : Turned(x)' = Turned(x) /\ Failed(x)' = Failed(x)
        /\ \A w \in Module : Done(w)' = Done(w)
        /\ \A w \in Module : Waiting(w)' = Waiting(w) /\ \A k : Waiter(w, k)' = Waiter(w, k)
    BY <1>1, <1>2, NoneSettle
  <1> PICK j : j = Len(gathering)
    OBVIOUS
  <1>4. j \in Gathering /\ j \in Nat /\ Gatherer.module = Gathers(j) /\ Gatherer.next = Counts(j)
        /\ Parents = Waiters(Gathers(j))
    BY <1>1, GathererIsLast
  <1>5. Counts(j) > Len(Waiters(Gathers(j)))
    BY <1>4 DEF ParentsCounted
  <1>6. /\ gathering' \in Seq(Call) /\ Len(gathering') = j - 1
        /\ \A i \in 1 .. j - 1 : gathering'[i] = gathering[i]
    <2>1. gathering \in Seq(Call)
      BY DEF TypeOK
    <2> QED
      BY <2>1, <1>1 DEF Front
  <1>7. /\ Gathering' = 1 .. j - 1
        /\ \A i \in Gathering : i \in Gathering' \/ i = j
        /\ \A i \in Gathering' : i \in Gathering /\ Gathers(i)' = Gathers(i) /\ Counts(i)' = Counts(i)
    BY <1>4, <1>6 DEF Gathering, Gathers, Counts
  <1>8. \A w \in Module : Cleared(w)' = Cleared(w)
    BY <1>1, <1>3, SameGraph DEF Cleared
  <1>9. \A p, w \in Module : \A k \in Nat : Due(p, w, k)' => Due(p, w, k)
    BY <1>3, <1>7, <1>8 DEF Due
  <1>10. CountInv'
    BY <1>1, <1>3, <1>9, SettledCounts
  <1>11. GatherInv'
    <2>1. \A i \in Gathering : Gathers(i) \in Module
      BY AccessorTypes
    <2>2. ASSUME NEW i \in Gathering'
          PROVE  Cleared(Gathers(i))' /\ Counts(i)' >= 1
      <3> PICK w \in Module : w = Gathers(i) /\ w = Gathers(i)'
        BY <2>1, <1>7
      <3>1. Cleared(w)' /\ Counts(i) >= 1
        BY <1>7, <1>8 DEF GatherInv
      <3> QED
        BY <3>1, <1>7 DEF Cleared, Done, Status
    <2>3. \A i, k \in Gathering' : Gathers(i)' = Gathers(k)' => i = k
      BY <1>7 DEF GatherInv
    <2> QED
      BY <2>2, <2>3 DEF GatherInv
  <1>12. JobInv'
    <2>1. \A i \in 1 .. Len(jobs) : jobs[i].module \in Module
      BY JobTypes
    <2>2. \A i \in 1 .. Len(jobs) : Turned(jobs[i].module)' = Turned(jobs[i].module)
      BY <1>1 DEF Turned
    <2>3. \A m \in running : Turned(m)' = Turned(m)
      BY <1>3, JobTypes
    <2> QED
      BY <2>2, <2>3, <1>1 DEF JobInv
  <1>13. BodiesBegin
    BY <1>1 DEF BodiesBegin
  <1> QED
    BY <1>1, <1>3, <1>6, <1>10, <1>11, <1>12, <1>13, SettlePreserves DEF TypeOK

\* What a module waits for is counted.
LEMMA CountedSettles ==
    ASSUME IInv, frames = <<>>, NEW p \in Module, NEW b \in Nat,
           modules' = [modules EXCEPT ![p].pendingAsync = b],
           UNCHANGED <<graph, asyncOrder, frames, stack, index>>
    PROVE  /\ MaySettle({}, {}, NoError) /\ Settles({}, {}, NoError)
           /\ \A x \in Module : Pend(x)' = IF x = p THEN b ELSE Pend(x)
           /\ \A x \in Module : Turned(x)' = Turned(x) /\ Status(x)' = Status(x)
  <1>1. modules \in [Module -> Record]
    BY DEF IInv, TypeOK
  <1> PICK o \in Record : o = modules[p]
    BY <1>1
  <1> PICK r \in Record : r = [o EXCEPT !.pendingAsync = b]
    BY RecordTypes
  <1>2. modules' = [modules EXCEPT ![p] = r]
    BY <1>1
  <1>3. /\ r.status = o.status /\ r.error = o.error /\ r.dfsIndex = o.dfsIndex
        /\ r.dfsAncestor = o.dfsAncestor /\ r.asyncEvaluation = o.asyncEvaluation
        /\ r.asyncOrder = o.asyncOrder /\ r.pendingAsync = b /\ r.asyncParents = o.asyncParents
        /\ r.cycleRoot = o.cycleRoot /\ r.capability = o.capability
    BY DEF Record
  <1>4. modules' \in [Module -> Record]
    BY <1>1, <1>2
  <1>5. modules'[p] = r /\ \A x \in Module : x # p => modules'[x] = modules[x]
    BY <1>1, <1>2
  <1>6. ASSUME NEW x \in Module
        PROVE  /\ modules'[x].status = modules[x].status /\ modules'[x].error = modules[x].error
               /\ modules'[x].dfsIndex = modules[x].dfsIndex
               /\ modules'[x].dfsAncestor = modules[x].dfsAncestor
               /\ modules'[x].asyncEvaluation = modules[x].asyncEvaluation
               /\ modules'[x].asyncOrder = modules[x].asyncOrder
               /\ modules'[x].pendingAsync = IF x = p THEN b ELSE modules[x].pendingAsync
               /\ modules'[x].asyncParents = modules[x].asyncParents
               /\ modules'[x].cycleRoot = modules[x].cycleRoot
               /\ modules'[x].capability = modules[x].capability
    <2>1. CASE x = p
      BY <1>3, <1>5, <2>1
    <2>2. CASE x # p
      <3>1. modules'[x] = modules[x]
        BY <1>5, <2>2
      <3> QED
        BY <2>2, <3>1
    <2> QED
      BY <2>1, <2>2
  <1>7. SameRoots /\ SameIndexes /\ SameWaiters
    BY <1>6 DEF SameRoots, SameIndexes, SameWaiters, Root, At, Low, Waiters
  <1>8. \A x \in Module : /\ Order(x)' = Order(x) /\ Turned(x)' = Turned(x) /\ Status(x)' = Status(x)
                          /\ Err(x)' = Err(x) /\ Cap(x)' = Cap(x)
                          /\ Pend(x)' = IF x = p THEN b ELSE Pend(x)
    BY <1>6 DEF Order, Turned, Status, Err, Cap, Pend
  <1>9. \A x \in Module : Turned(x) \in BOOLEAN
    BY AccessorTypes DEF IInv
  <1>10. Settles({}, {}, NoError)
    BY <1>4, <1>7, <1>8, <1>9 DEF Settles
  <1>11. MaySettle({}, {}, NoError)
    BY DEF MaySettle
  <1> QED
    BY <1>8, <1>10, <1>11

LEMMA NextGatheredIs ==
    ASSUME IInv, NEW j, j = Len(gathering), gathering # <<>>
    PROVE  /\ NextGathered \in Seq(Call) /\ Len(NextGathered) = j /\ j \in Nat
           /\ \A i \in 1 .. j : /\ NextGathered[i] \in Call
                                /\ NextGathered[i].module = Gathers(i)
                                /\ NextGathered[i].next = IF i = j THEN Counts(i) + 1 ELSE Counts(i)
  <1>1. gathering \in Seq(Call) /\ j \in 1 .. Len(gathering) /\ j \in Nat
    <2>1. gathering \in Seq(Call)
      BY DEF IInv, TypeOK
    <2> QED
      BY <2>1
  <1> PICK c \in Call : c = gathering[j]
    BY <1>1
  <1> PICK d : d = [c EXCEPT !.next = @ + 1]
    OBVIOUS
  <1>2. d \in Call /\ d.module = c.module /\ d.next = c.next + 1
    BY DEF Call
  <1>3. NextGathered = [gathering EXCEPT ![j] = d]
    BY <1>1 DEF NextGathered
  <1>4. NextGathered \in Seq(Call) /\ Len(NextGathered) = j
    BY <1>1, <1>2, <1>3
  <1>5. ASSUME NEW i \in 1 .. j
        PROVE  NextGathered[i] = IF i = j THEN d ELSE gathering[i]
    BY <1>1, <1>3
  <1>6. ASSUME NEW i \in 1 .. j
        PROVE  /\ NextGathered[i] \in Call
               /\ NextGathered[i].module = Gathers(i)
               /\ NextGathered[i].next = IF i = j THEN Counts(i) + 1 ELSE Counts(i)
    <2>1. CASE i = j
      BY <2>1, <1>2, <1>5 DEF Gathers, Counts
    <2>2. CASE i # j
      <3>1. NextGathered[i] = gathering[i] /\ gathering[i] \in Call
        BY <2>2, <1>1, <1>5
      <3> QED
        BY <2>2, <3>1 DEF Gathers, Counts
    <2> QED
      BY <2>1, <2>2
  <1> QED
    BY <1>1, <1>4, <1>6

\* A parent that is listed, has failed or waits for nothing is not counted.
LEMMA ParentPassedPreserves ==
    ASSUME IInv, gathering # <<>>, gathering' = NextGathered,
           UNCHANGED <<graph, modules, asyncOrder, frames, stack, index, ready, running, jobs, starts>>
    PROVE  IInv'
  <1> USE DEF IInv
  <1>1. frames = <<>>
    BY GathererIsLast
  <1>2. /\ MaySettle({}, {}, NoError) /\ Settles({}, {}, NoError) /\ SamePend
        /\ \A x \in Module : Turned(x)' = Turned(x) /\ Failed(x)' = Failed(x)
        /\ \A w \in Module : Done(w)' = Done(w)
        /\ \A w \in Module : Waiting(w)' = Waiting(w) /\ \A k : Waiter(w, k)' = Waiter(w, k)
    BY <1>1, NoneSettle
  <1> PICK j : j = Len(gathering)
    OBVIOUS
  <1>3. /\ gathering' \in Seq(Call) /\ Len(gathering') = j /\ j \in Nat
        /\ \A i \in 1 .. j : /\ gathering'[i].module = Gathers(i)
                             /\ gathering'[i].next = IF i = j THEN Counts(i) + 1 ELSE Counts(i)
    <2> HIDE DEF IInv
    <2> QED
      BY NextGatheredIs
  <1>4. Gathering = 1 .. j /\ Gathering' = 1 .. j
    BY <1>3 DEF Gathering
  <1>5. \A i \in Gathering : Gathers(i) \in Module /\ Counts(i) \in Nat
    BY AccessorTypes
  <1>6. \A i \in Gathering : Gathers(i)' = Gathers(i) /\ Counts(i)' \in Nat /\ Counts(i)' >= Counts(i)
    BY <1>3, <1>4, <1>5 DEF Gathers, Counts
  <1>7. \A w \in Module : Cleared(w)' = Cleared(w)
    BY <1>2, SameGraph DEF Cleared
  <1>8. ASSUME NEW p \in Module, NEW w \in Module, NEW k \in Nat, Due(p, w, k)'
        PROVE  Due(p, w, k)
    <2>1. k \in Waiting(w) /\ Waiter(w, k) = p
      BY <1>2, <1>8 DEF Due
    <2>2. CASE ~Cleared(w)'
      BY <2>1, <2>2, <1>7 DEF Due
    <2>3. CASE \E i \in Gathering' : Gathers(i)' = w /\ Counts(i)' <= k
      <3> PICK i \in Gathering : Gathers(i) = w /\ Counts(i)' <= k
        BY <2>3, <1>4, <1>6
      <3>1. Counts(i) <= k
        BY <1>5, <1>6
      <3> QED
        BY <2>1, <3>1 DEF Due
    <2> QED
      BY <2>2, <2>3, <1>8 DEF Due
  <1>9. CountInv'
    BY <1>2, <1>8, SettledCounts
  <1>10. GatherInv'
    <2>1. ASSUME NEW i \in Gathering'
          PROVE  Cleared(Gathers(i))' /\ Counts(i)' >= 1
      <3> PICK w \in Module : w = Gathers(i) /\ w = Gathers(i)'
        BY <1>4, <1>5, <1>6
      <3>1. Cleared(w)' /\ Counts(i) >= 1
        BY <1>4, <1>7 DEF GatherInv
      <3>2. Cleared(Gathers(i))'
        BY <3>1 DEF Cleared, Done, Status
      <3> QED
        BY <3>1, <3>2, <1>4, <1>5, <1>6
    <2>2. \A i, k \in Gathering' : Gathers(i)' = Gathers(k)' => i = k
      BY <1>4, <1>6 DEF GatherInv
    <2> QED
      BY <2>1, <2>2 DEF GatherInv
  <1>11. JobInv'
    <2>1. \A i \in 1 .. Len(jobs) : Turned(jobs[i].module)' = Turned(jobs[i].module)
      BY DEF Turned
    <2>2. \A m \in running : Turned(m)' = Turned(m)
      BY <1>2, JobTypes
    <2> QED
      BY <2>1, <2>2 DEF JobInv
  <1>12. BodiesBegin
    BY DEF BodiesBegin
  <1> QED
    BY <1>2, <1>3, <1>9, <1>10, <1>11, <1>12, SettlePreserves DEF TypeOK

\* What is counted is no longer among what a module waits for.
LEMMA OneLessUncounted ==
    ASSUME NEW p \in Module, NEW w \in Module, NEW n \in Nat, Due(p, w, n), ~Due(p, w, n)',
           IsFiniteSet(Uncounted(p)), Cardinality(Uncounted(p)) <= Pend(p), Pend(p) \in Nat,
           \A v \in Module : \A k \in Nat : Due(p, v, k)' => Due(p, v, k)
    PROVE  IsFiniteSet(Uncounted(p)') /\ Cardinality(Uncounted(p)') <= Pend(p) - 1
  <1> PICK place : place = <<w, n>>
    OBVIOUS
  <1>1. Uncounted(p)' = {x \in Module \X Nat : Due(p, x[1], x[2])'}
    BY DEF Uncounted
  <1>2. place \in Uncounted(p)
    BY DEF Uncounted
  <1>3. place \notin Uncounted(p)'
    BY <1>1
  <1>4. Uncounted(p)' \subseteq Uncounted(p) \ {place}
    <2>1. Uncounted(p)' \subseteq Uncounted(p)
      BY <1>1 DEF Uncounted
    <2> QED
      BY <2>1, <1>3
  <1>5. /\ IsFiniteSet(Uncounted(p) \ {place})
        /\ Cardinality(Uncounted(p) \ {place}) = Cardinality(Uncounted(p)) - 1
    BY <1>2, FS_RemoveElement
  <1>6. /\ IsFiniteSet(Uncounted(p)')
        /\ Cardinality(Uncounted(p)') <= Cardinality(Uncounted(p) \ {place})
    BY <1>4, <1>5, FS_Subset
  <1>7. Cardinality(Uncounted(p)') \in Nat /\ Cardinality(Uncounted(p)) \in Nat
    BY <1>6, FS_CardinalityType
  <1> QED
    BY <1>5, <1>6, <1>7

\* The calls that gather after a parent is counted, which the parent's may
\* join.
LEMMA GatheringJoined ==
    ASSUME IInv, NEW j, j = Len(gathering), gathering # <<>>, NEW p \in Module, NEW joins \in BOOLEAN,
           gathering' = IF joins THEN Append(NextGathered, [module |-> p, next |-> 1]) ELSE NextGathered
    PROVE  /\ gathering' \in Seq(Call)
           /\ Gathering \subseteq Gathering'
           /\ \A i \in Gathering : /\ Gathers(i)' = Gathers(i)
                                   /\ Counts(i)' = IF i = j THEN Counts(i) + 1 ELSE Counts(i)
           /\ \A i \in Gathering' : i \notin Gathering =>
                  i = j + 1 /\ joins /\ Gathers(i)' = p /\ Counts(i)' = 1
  <1>1. /\ NextGathered \in Seq(Call) /\ Len(NextGathered) = j /\ j \in Nat
        /\ \A i \in 1 .. j : /\ NextGathered[i] \in Call
                             /\ NextGathered[i].module = Gathers(i)
                             /\ NextGathered[i].next = IF i = j THEN Counts(i) + 1 ELSE Counts(i)
    BY NextGatheredIs
  <1>2. Gathering = 1 .. j
    BY DEF Gathering
  <1> PICK g \in Seq(Call) : g = NextGathered
    BY <1>1
  <1> PICK c \in Call : c = [module |-> p, next |-> 1]
    BY DEF Call
  <1>3. c.module = p /\ c.next = 1
    OBVIOUS
  <1>4. CASE joins
    <2>1. gathering' = Append(g, c) /\ Len(g) = j
      BY <1>1, <1>4
    <2>2. /\ gathering' \in Seq(Call) /\ Len(gathering') = j + 1 /\ gathering'[j + 1] = c
          /\ \A i \in 1 .. j : gathering'[i] = g[i]
      BY <2>1, <1>1
    <2>3. Gathering' = 1 .. j + 1
      BY <2>2 DEF Gathering
    <2>4. \A i \in Gathering' : i \in Gathering \/ i = j + 1
      BY <2>3, <1>1, <1>2
    <2>5. Gathers(j + 1)' = p /\ Counts(j + 1)' = 1
      BY <2>2, <1>3 DEF Gathers, Counts
    <2>6. Gathering \subseteq Gathering'
      BY <2>3, <1>1, <1>2
    <2>7. \A i \in Gathering : /\ Gathers(i)' = Gathers(i)
                               /\ Counts(i)' = IF i = j THEN Counts(i) + 1 ELSE Counts(i)
      BY <2>2, <1>1, <1>2 DEF Gathers, Counts
    <2>8. ASSUME NEW i \in Gathering', i \notin Gathering
          PROVE  i = j + 1 /\ joins /\ Gathers(i)' = p /\ Counts(i)' = 1
      <3>1. i = j + 1
        BY <2>4, <2>8
      <3>2. \A k : k = j + 1 => Gathers(k)' = p /\ Counts(k)' = 1
        BY <2>5 DEF Gathers, Counts
      <3> QED
        BY <3>1, <3>2, <1>4
    <2> QED
      BY <2>2, <2>6, <2>7, <2>8
  <1>5. CASE ~joins
    <2>1. gathering' = g /\ Gathering' = 1 .. j
      BY <1>1, <1>5 DEF Gathering
    <2>2. \A i \in Gathering : /\ Gathers(i)' = Gathers(i)
                               /\ Counts(i)' = IF i = j THEN Counts(i) + 1 ELSE Counts(i)
      BY <2>1, <1>1, <1>2 DEF Gathers, Counts
    <2> QED
      BY <2>1, <2>2, <1>2
  <1> QED
    BY <1>4, <1>5

\* A parent is counted, and listed when it waits for nothing else.
CountedOff(p, b, joins) ==
    /\ modules' = [modules EXCEPT ![p].pendingAsync = b]
    /\ ready' = IF b = 0 THEN ready \union {p} ELSE ready
    /\ gathering' = IF joins THEN Append(NextGathered, [module |-> p, next |-> 1]) ELSE NextGathered
    /\ UNCHANGED <<graph, asyncOrder, frames, stack, index, running, jobs, starts>>

LEMMA ParentCountedPreserves ==
    ASSUME IInv, gathering # <<>>, NEW j, j = Len(gathering),
           NEW w \in Module, w = Gathers(j), NEW n \in Nat, n = Counts(j), n \in Waiting(w),
           NEW p \in Module, p = Waiter(w, n), p \notin ready,
           NEW b \in Nat, Pend(p) = b + 1,
           NEW joins \in BOOLEAN, joins <=> b = 0 /\ ~HasAwait(p), CountedOff(p, b, joins)
    PROVE  IInv'
  <1> /\ modules' = [modules EXCEPT ![p].pendingAsync = b]
      /\ ready' = IF b = 0 THEN ready \union {p} ELSE ready
      /\ gathering' = IF joins THEN Append(NextGathered, [module |-> p, next |-> 1]) ELSE NextGathered
      /\ UNCHANGED <<graph, asyncOrder, frames, stack, index, running, jobs, starts>>
    BY DEF CountedOff
  <1>1. frames = <<>> /\ j \in Gathering /\ j \in Nat
    BY GathererIsLast
  <1>2. /\ gathering' \in Seq(Call)
        /\ Gathering \subseteq Gathering'
        /\ \A i \in Gathering : /\ Gathers(i)' = Gathers(i)
                                /\ Counts(i)' = IF i = j THEN Counts(i) + 1 ELSE Counts(i)
        /\ \A i \in Gathering' : i \notin Gathering =>
               i = j + 1 /\ joins /\ Gathers(i)' = p /\ Counts(i)' = 1
    BY GatheringJoined
  <1>3. /\ MaySettle({}, {}, NoError) /\ Settles({}, {}, NoError)
        /\ \A x \in Module : Pend(x)' = IF x = p THEN b ELSE Pend(x)
        /\ \A x \in Module : Turned(x)' = Turned(x) /\ Status(x)' = Status(x)
    BY <1>1, CountedSettles
  <1> USE DEF IInv
  <1>4. \A x \in Module : /\ Failed(x)' = Failed(x) /\ Done(x)' = Done(x) /\ Async(x)' = Async(x)
                          /\ ~Walking(x) /\ ~On(x)
    BY <1>1, <1>3, NoWalk DEF Failed, Done, Async
  <1>5. \A v \in Module : Waiting(v)' = Waiting(v) /\ \A k : Waiter(v, k)' = Waiter(v, k)
    <2>1. SameWaiters
      BY <1>3 DEF Settles
    <2> QED
      BY <2>1, SameWaits
  <1>6. \A x \in Module : HasAwait(x)' = HasAwait(x)
    BY SameGraph
  <1>7. \A i \in Gathering : Gathers(i) \in Module /\ Counts(i) \in Nat
    BY AccessorTypes
  <1>8. \A x \in Module : Pend(x) \in Nat
    BY AccessorTypes
  \* The parent.
  <1>9. starts[p] = 0 /\ (Turned(p) \/ Failed(p)) /\ ~Done(p)
    <2>1. Pend(p) > 0
      OBVIOUS
    <2>2. starts[p] = 0 /\ (Turned(p) \/ Failed(p))
      BY <2>1, <1>4 DEF CountInv
    <2>3. Turned(p) => Async(p) \/ Failed(p)
      BY <1>4 DEF TurnInv
    <2> QED
      BY <2>2, <2>3, OneState
  <1>10. ~Cleared(p)
    BY <1>9 DEF Cleared
  <1>11. \A i \in Gathering : Gathers(i) # p
    BY <1>10 DEF GatherInv
  <1>12. \A x \in Module : Cleared(x) => Cleared(x)'
    BY <1>4, <1>6 DEF Cleared
  <1>13. joins => Cleared(p)'
    BY <1>6 DEF Cleared
  \* What is waited for.
  <1>14. ASSUME NEW q \in Module, NEW v \in Module, NEW k \in Nat, Due(q, v, k)'
         PROVE  Due(q, v, k)
    <2>1. k \in Waiting(v) /\ Waiter(v, k) = q
      BY <1>5, <1>14 DEF Due
    <2>2. CASE ~Cleared(v)'
      BY <2>1, <2>2, <1>12 DEF Due
    <2>3. CASE \E i \in Gathering' : Gathers(i)' = v /\ Counts(i)' <= k
      <3> PICK i \in Gathering' : Gathers(i)' = v /\ Counts(i)' <= k
        BY <2>3
      <3>1. CASE i \in Gathering
        <4>1. Gathers(i) = v /\ Counts(i) <= k
          BY <3>1, <1>2, <1>7
        <4> QED
          BY <2>1, <3>1, <4>1 DEF Due
      <3>2. CASE i \notin Gathering
        <4>1. v = p
          BY <3>2, <1>2
        <4> QED
          BY <2>1, <4>1, <1>10 DEF Due
      <3> QED
        BY <3>1, <3>2
    <2> QED
      BY <2>2, <2>3, <1>14 DEF Due
  <1>15. Due(p, w, n) /\ ~Due(p, w, n)'
    <2>1. n <= n
      OBVIOUS
    <2>2. Due(p, w, n)
      BY <2>1, <1>1 DEF Due
    <2>3. Cleared(w) /\ Cleared(w)' /\ w # p
      BY <1>1, <1>10, <1>12 DEF GatherInv
    <2>4. ASSUME NEW i \in Gathering', Gathers(i)' = w
          PROVE  ~(Counts(i)' <= n)
      <3>1. i \in Gathering
        BY <2>3, <2>4, <1>2
      <3>2. i = j
        BY <2>4, <3>1, <1>1, <1>2 DEF GatherInv
      <3>3. Counts(i)' = n + 1
        BY <3>1, <3>2, <1>2
      <3> QED
        BY <3>3
    <2>5. ~Due(p, w, n)'
      BY <2>3, <2>4 DEF Due
    <2> QED
      BY <2>2, <2>5
  <1>16. CountInv'
    <2>1. ASSUME NEW q \in Module, ~Failed(q)'
          PROVE  IsFiniteSet(Uncounted(q))' /\ (Cardinality(Uncounted(q)) <= Pend(q))'
      <3>1. IsFiniteSet(Uncounted(q)) /\ Cardinality(Uncounted(q)) <= Pend(q) /\ Pend(q) \in Nat
        BY <2>1, <1>4, <1>8 DEF CountInv
      <3>2. CASE q = p
        <4>1. IsFiniteSet(Uncounted(p)') /\ Cardinality(Uncounted(p)') <= Pend(p) - 1
          BY <3>1, <3>2, <1>14, <1>15, OneLessUncounted
        <4>2. Pend(p)' = Pend(p) - 1
          BY <1>3
        <4>3. IsFiniteSet(Uncounted(p)') /\ Cardinality(Uncounted(p)') <= Pend(p)'
          BY <4>1, <4>2
        <4> QED
          BY <3>2, <4>3 DEF Uncounted, Pend, Due
      <3>3. CASE q # p
        <4>1. IsFiniteSet(Uncounted(q)') /\ Cardinality(Uncounted(q)') <= Pend(q)
          BY <3>1, <1>14, FewerUncounted
        <4> QED
          BY <3>3, <4>1, <1>3
      <3> QED
        BY <3>2, <3>3
    <2>2. ASSUME NEW q \in Module, Pend(q)' > 0
          PROVE  starts'[q] = 0 /\ (Turned(q)' \/ Failed(q)')
      <3>1. Pend(q) > 0
        BY <2>2, <1>3
      <3> QED
        BY <3>1, <1>3, <1>4 DEF CountInv
    <2>3. ASSUME NEW q \in ready'
          PROVE  Pend(q)' = 0 /\ starts'[q] = 0 /\ (Async(q)' \/ Failed(q)')
      <3>1. CASE q = p
        <4>1. b = 0
          BY <2>3, <3>1
        <4>2. Pend(p)' = 0 /\ (Async(p)' \/ Failed(p)')
          BY <4>1, <1>3, <1>4, <1>9 DEF TurnInv
        <4> QED
          BY <3>1, <4>2, <1>9 DEF Pend, Async, Failed, Status
      <3>2. CASE q # p
        <4>1. q \in ready /\ q \in Module
          BY <2>3, <3>2, JobTypes
        <4> QED
          BY <3>2, <4>1, <1>3, <1>4 DEF CountInv
      <3> QED
        BY <3>1, <3>2
    <2> QED
      BY <2>1, <2>2, <2>3 DEF CountInv
  <1>17. GatherInv'
    <2>1. ASSUME NEW i \in Gathering'
          PROVE  Cleared(Gathers(i))' /\ Counts(i)' >= 1
      <3>1. CASE i \in Gathering
        <4> PICK v \in Module : v = Gathers(i) /\ v = Gathers(i)'
          BY <3>1, <1>2, <1>7
        <4>1. Cleared(v)' /\ Counts(i) >= 1
          BY <3>1, <1>12 DEF GatherInv
        <4>2. Cleared(Gathers(i))'
          BY <4>1 DEF Cleared, Done, Status
        <4> QED
          BY <3>1, <4>1, <4>2, <1>2, <1>7
      <3>2. CASE i \notin Gathering
        <4>1. Cleared(p)' /\ Gathers(i)' = p /\ Counts(i)' = 1
          BY <3>2, <1>2, <1>13
        <4>2. Cleared(Gathers(i))'
          BY <4>1 DEF Cleared, Done, Status
        <4> QED
          BY <4>1, <4>2
      <3> QED
        BY <3>1, <3>2
    <2>2. ASSUME NEW i \in Gathering', NEW k \in Gathering', Gathers(i)' = Gathers(k)'
          PROVE  i = k
      <3>1. i \in Gathering /\ k \in Gathering => i = k
        BY <2>2, <1>2 DEF GatherInv
      <3>2. i \notin Gathering /\ k \notin Gathering => i = k
        BY <1>2
      <3>3. i \in Gathering => Gathers(i)' # p
        BY <1>2, <1>11
      <3>4. k \in Gathering => Gathers(k)' # p
        BY <1>2, <1>11
      <3> QED
        BY <2>2, <3>1, <3>2, <3>3, <3>4, <1>2
    <2> QED
      BY <2>1, <2>2 DEF GatherInv
  <1>18. JobInv'
    <2>1. \A i \in 1 .. Len(jobs) : jobs[i].module \in Module /\ Turned(jobs[i].module)
      BY JobTypes DEF JobInv
    <2>2. \A i \in 1 .. Len(jobs) : Turned(jobs[i].module)'
      <3>1. \A i \in 1 .. Len(jobs) : \E x \in Module : x = jobs[i].module /\ Turned(x)'
        BY <2>1, <1>3
      <3> QED
        BY <3>1 DEF Turned
    <2>3. \A m \in running : Turned(m)' = Turned(m)
      BY <1>3, JobTypes
    <2> QED
      BY <2>1, <2>2, <2>3 DEF JobInv
  <1>19. BodiesBegin
    BY DEF BodiesBegin
  <1>20. ready' \subseteq Module
    BY JobTypes
  <1>21. TypeOK
    OBVIOUS
  <1> HIDE DEF IInv
  <1>22. /\ starts' \in [Module -> {0, 1}] /\ running' \subseteq Module
         /\ jobs' \in Seq([module : Module, throws : BOOLEAN])
    BY <1>21 DEF TypeOK
  <1> QED
    BY <1>2, <1>3, <1>16, <1>17, <1>18, <1>19, <1>20, <1>22, SettlePreserves

LEMMA CountParentPreserves ==
    ASSUME IInv, CountParent
    PROVE  IInv'
  <1> USE DEF IInv
  <1>1. /\ gathering # <<>>
        /\ UNCHANGED <<graph, asyncOrder, frames, stack, index, running, jobs, starts>>
    BY DEF CountParent
  <1> PICK j : j = Len(gathering)
    OBVIOUS
  <1>2. /\ j \in Gathering /\ Gatherer.module = Gathers(j) /\ Gatherer.next = Counts(j)
        /\ Parents = Waiters(Gathers(j))
    BY <1>1, GathererIsLast
  <1> PICK w \in Module : w = Gathers(j)
    BY <1>2, AccessorTypes
  <1> PICK n \in Nat : n = Counts(j)
    BY <1>2, AccessorTypes
  <1>3. n \in Waiting(w) /\ Parents[Gatherer.next] = Waiter(w, n)
    <2>1. n <= Len(Waiters(w)) /\ n >= 1 /\ Len(Waiters(w)) \in Nat
      BY <1>2, AccessorTypes DEF CountParent, GatherInv
    <2> QED
      BY <2>1, <1>2 DEF Waiting, Waiters, Waiter
  <1> PICK p \in Module : p = Waiter(w, n)
    BY <1>3, AccessorTypes
  <1>4. CASE p \in ready \/ Status(Root(p)) = "failed" \/ Pend(p) = 0
    <2>1. gathering' = NextGathered /\ UNCHANGED <<modules, ready>>
      BY <1>3, <1>4 DEF CountParent, Root, Pend
    <2> QED
      BY <2>1, <1>1, ParentPassedPreserves
  <1>5. CASE ~(p \in ready \/ Status(Root(p)) = "failed" \/ Pend(p) = 0)
    <2>1. Pend(p) \in Nat /\ Pend(p) # 0
      BY <1>5, AccessorTypes
    <2> PICK b \in Nat : b = Pend(p) - 1
      BY <2>1
    <2> DEFINE lists == b = 0 /\ ~HasAwait(p)
    <2>2. lists \in BOOLEAN
      OBVIOUS
    <2> PICK joins \in BOOLEAN : joins = lists
      BY <2>2, Zenon
    <2>3. /\ modules' = [modules EXCEPT ![p].pendingAsync = b]
          /\ ready' = IF b = 0 THEN ready \union {p} ELSE ready
          /\ gathering' = IF lists THEN Append(NextGathered, [module |-> p, next |-> 1]) ELSE NextGathered
      BY <1>3, <1>5 DEF CountParent, Root, Pend, Available
    <2>4. Pend(p) = b + 1 /\ p \notin ready
      BY <2>1, <1>5
    <2>5. joins <=> b = 0 /\ ~HasAwait(p)
      OBVIOUS
    <2>6. gathering' = IF joins THEN Append(NextGathered, [module |-> p, next |-> 1]) ELSE NextGathered
      BY <2>3
    <2>7. CountedOff(p, b, joins)
      BY <2>3, <2>6, <1>1 DEF CountedOff
    <2> HIDE DEF lists, IInv
    <2> QED
      BY <2>4, <2>5, <2>7, <1>1, <1>3, ParentCountedPreserves
  <1> QED
    BY <1>4, <1>5
-----------------------------------------------------------------------------
(* What fails when a module does.                                          *)

\* What fails with m waits for it, through others that wait, and has not
\* failed; and nothing else that has not waits for what fails.
LEMMA RejectedAre ==
    ASSUME IInv, frames = <<>>, NEW m \in Module, Async(m)
    PROVE  /\ Rejected(m) \subseteq Module /\ m \in Rejected(m)
           /\ \A x \in Rejected(m) : /\ Async(x) /\ Reaches(x, m)
                                     /\ \A p \in Module : Waits(p, x) => p \in Rejected(m) \/ Failed(p)
  <1> USE DEF IInv
  <1> DEFINE edges == [k \in Module |-> {p \in Range(modules[k].asyncParents) : Status(p) # "failed"}]
  <1>1. Rejected(m) = From(m, edges)
    BY OneState DEF Rejected, Failed
  <1>2. \A k, p \in Module : p \in edges[k] <=> Waits(p, k) /\ ~Failed(p)
    BY AccessorTypes DEF Waiters, Failed
  <1>3. \A k \in Module : edges[k] \subseteq Module
    <2>1. \A k \in Module : Range(modules[k].asyncParents) \subseteq Module
      <3>1. ASSUME NEW k \in Module
            PROVE  Range(Waiters(k)) \subseteq Module
        <4>1. Waiters(k) \in Seq(Module)
          BY AccessorTypes
        <4> QED
          BY <4>1 DEF Range
      <3> QED
        BY <3>1 DEF Waiters
    <2> QED
      BY <2>1
  <1> HIDE DEF edges
  <1> DEFINE T == {x \in Module : Async(x) /\ Reaches(x, m)}
  <1>4. m \in T
    BY ReachesItself
  <1>5. ASSUME NEW k \in T, NEW p \in edges[k]
        PROVE  p \in T
    <2>1. p \in Module /\ Waits(p, k) /\ ~Failed(p)
      BY <1>2, <1>3
    <2>2. ~On(p) /\ ~Walking(p)
      BY <2>1, NoWalk
    <2>3. Reaches(p, k) /\ (Turned(p) \/ Failed(p))
      BY <2>1, <2>2 DEF WaitInv
    <2>4. Async(p)
      BY <2>1, <2>2, <2>3 DEF TurnInv
    <2> QED
      BY <2>1, <2>3, <2>4, ReachesThrough
  <1>6. T \in SUBSET Module /\ \A k \in T : edges[k] \subseteq T
    BY <1>5
  <1>7. \A x \in T : Async(x) /\ Reaches(x, m)
    OBVIOUS
  <1> HIDE DEF T
  <1>8. From(m, edges) \subseteq T
    BY <1>4, <1>6, FromLeast
  <1>9. m \in From(m, edges) /\ From(m, edges) \subseteq Module
    BY FromFirst
  <1>10. ASSUME NEW x \in From(m, edges), NEW p \in Module, Waits(p, x), ~Failed(p)
         PROVE  p \in From(m, edges)
    BY <1>2, <1>9, <1>10, FromClosed
  <1> QED
    BY <1>1, <1>7, <1>8, <1>9, <1>10

LEMMA RejectSettles ==
    ASSUME IInv, frames = <<>>, NEW m \in Module, Async(m), Reject(m, m),
           UNCHANGED <<graph, asyncOrder, frames, stack, index>>
    PROVE  MaySettle({}, Rejected(m), m) /\ Settles({}, Rejected(m), m) /\ SamePend
  <1> PICK F : F = Rejected(m)
    OBVIOUS
  <1>1. /\ F \subseteq Module /\ m \in F
        /\ \A x \in F : /\ Async(x) /\ Reaches(x, m)
                        /\ \A p \in Module : Waits(p, x) => p \in F \/ Failed(p)
    BY RejectedAre
  <1>2. MaySettle({}, F, m)
    BY <1>1 DEF MaySettle
  <1>3. /\ modules \in [Module -> Record] /\ \A x \in Module : modules[x] \in Record
    BY DEF IInv, TypeOK
  <1>4. PICK c \in PromiseSet : c = Promise("rejected", m)
    BY RecordTypes
  <1>5. modules' = [x \in Module |->
                       IF x \in F
                       THEN Outcome(modules[x], "failed", m,
                                    IF modules[x].capability = None THEN modules[x].capability ELSE c)
                       ELSE modules[x]]
    BY <1>3, <1>4 DEF Reject, Outcome
  <1>6. ASSUME NEW x \in Module
        PROVE  /\ modules'[x] \in Record
               /\ modules'[x].dfsIndex = modules[x].dfsIndex
               /\ modules'[x].dfsAncestor = modules[x].dfsAncestor
               /\ modules'[x].asyncEvaluation = modules[x].asyncEvaluation
               /\ modules'[x].asyncOrder = modules[x].asyncOrder
               /\ modules'[x].pendingAsync = modules[x].pendingAsync
               /\ modules'[x].asyncParents = modules[x].asyncParents
               /\ modules'[x].cycleRoot = modules[x].cycleRoot
               /\ modules'[x].status = IF x \in F THEN "failed" ELSE modules[x].status
               /\ modules'[x].error = IF x \in F THEN m ELSE modules[x].error
               /\ modules'[x].capability = IF modules[x].capability = None \/ x \notin F
                                           THEN modules[x].capability ELSE c
    <2>1. CASE x \in F
      <3>1. PICK o \in Record : o = modules[x]
        BY <1>3
      <3>2. PICK k \in PromiseSet : k = IF o.capability = None THEN o.capability ELSE c
        BY <1>4, <3>1, RecordTypes
      <3>3. PICK s \in Statuses : s = "failed"
        BY DEF Statuses
      <3>4. modules'[x] = Outcome(o, s, m, k)
        BY <1>5, <2>1, <3>1, <3>2, <3>3
      <3> PICK t : t = Outcome(o, s, m, k)
        OBVIOUS
      <3>5. t \in Record
        BY OutcomeRecord
      <3>6. t.status = s
        BY OutcomeRecord
      <3>7. t.error = m
        BY DEF Outcome, Record
      <3>8. t.capability = k
        BY OutcomeRecord
      <3>9. t.dfsIndex = o.dfsIndex
        BY OutcomeRecord
      <3>10. t.dfsAncestor = o.dfsAncestor
        BY OutcomeRecord
      <3>11. t.cycleRoot = o.cycleRoot
        BY OutcomeRecord
      <3>12. t.asyncEvaluation = o.asyncEvaluation
        BY OutcomeRecord
      <3>13. t.asyncOrder = o.asyncOrder
        BY OutcomeRecord
      <3>14. t.pendingAsync = o.pendingAsync
        BY OutcomeRecord
      <3>15. t.asyncParents = o.asyncParents
        BY OutcomeRecord
      <3>16. modules'[x] = t
        BY <3>4
      <3> QED
        BY <2>1, <3>1, <3>2, <3>3, <3>5, <3>6, <3>7, <3>8, <3>9, <3>10, <3>11, <3>12, <3>13, <3>14,
           <3>15, <3>16
    <2>2. CASE x \notin F
      <3>1. modules'[x] = modules[x] /\ modules[x] \in Record
        BY <1>3, <1>5, <2>2
      <3> QED
        BY <2>2, <3>1
    <2> QED
      BY <2>1, <2>2
  <1>7. modules' = [x \in Module |-> modules'[x]]
    BY <1>5
  <1>8. modules' \in [Module -> Record]
    BY <1>6, <1>7
  <1>9. SameRoots /\ SameIndexes /\ SamePend /\ SameWaiters
    BY <1>6 DEF SameRoots, SameIndexes, SamePend, SameWaiters, Root, At, Low, Pend, Waiters
  <1>10. \A x \in Module : /\ Order(x)' = Order(x) /\ Turned(x)' = Turned(x) /\ Turned(x) \in BOOLEAN
                           /\ x \in F => Status(x)' = "failed" /\ Err(x)' = m
                           /\ x \notin F => Status(x)' = Status(x) /\ Err(x)' = Err(x)
                           /\ Cap(x)' = IF Cap(x) = None \/ x \notin F THEN Cap(x)
                                        ELSE Promise("rejected", m)
    <2>1. \A x \in Module : Turned(x) \in BOOLEAN
      BY AccessorTypes DEF IInv
    <2> QED
      BY <2>1, <1>4, <1>6 DEF Order, Turned, Status, Err, Cap
  <1>11. Settles({}, F, m)
    BY <1>8, <1>9, <1>10 DEF Settles
  <1> QED
    BY <1>2, <1>9, <1>11

LEMMA ModuleRejectedPreserves ==
    ASSUME IInv, ModuleRejected
    PROVE  IInv'
  <1> USE DEF IInv
  <1>1. /\ frames = <<>> /\ gathering = <<>> /\ ready = {} /\ jobs # <<>> /\ jobs' = Tail(jobs)
        /\ UNCHANGED <<graph, asyncOrder, frames, stack, index, gathering, ready, running, starts>>
    BY DEF ModuleRejected, Idle
  <1> PICK m \in Module : m = Head(jobs).module /\ starts[m] = 1 /\ Turned(m) /\ m \notin running
    BY <1>1, TailOfJobs
  <1>2. Reject(m, m)
    BY DEF ModuleRejected
  <1>3. Async(m) \/ Failed(m)
    BY <1>1, NoWalk DEF TurnInv
  <1>4. CASE Failed(m)
    <2>1. Rejected(m) = {}
      BY <1>4 DEF Rejected, Failed
    <2>2. modules' = [n \in Module |-> modules[n]]
      BY <2>1, <1>2 DEF Reject
    <2>3. modules' = modules
      BY <2>2 DEF TypeOK
    <2> QED
      BY <2>3, <1>1, JobDropped
  <1>5. CASE Async(m)
    <2> PICK F : F = Rejected(m)
      OBVIOUS
    <2>1. MaySettle({}, F, m) /\ Settles({}, F, m) /\ SamePend
      BY <1>1, <1>2, <1>5, RejectSettles
    <2>2. F \in SUBSET Module
      BY <1>1, <1>5, RejectedAre
    <2>3. \A x \in Module : (Done(x)' <=> Done(x)) /\ Turned(x)' = Turned(x)
      <3>1. \A x \in Module : Done(x)' <=> Done(x)
        BY <2>1, <2>2, SettledStates
      <3>2. \A x \in Module : (Turned(x)' <=> Turned(x)) /\ Turned(x) \in BOOLEAN
        BY <2>1, AccessorTypes DEF Settles
      <3>3. \A x \in Module : Turned(x)' \in BOOLEAN
        BY <2>1 DEF Settles, Record, Turned
      <3> QED
        BY <3>1, <3>2, <3>3
    <2>4. \A w \in Module : Cleared(w)' <=> Cleared(w)
      BY <2>3, <1>1 DEF Cleared
    <2>5. \A w \in Module : Waiting(w)' = Waiting(w) /\ \A k : Waiter(w, k)' = Waiter(w, k)
      BY <2>1, SameWaits DEF Settles
    <2>6. Gathering = {} /\ Gathering' = {}
      <3>1. 1 .. Len(gathering) = {} /\ 1 .. Len(gathering') = {}
        BY <1>1
      <3> QED
        BY <3>1 DEF Gathering
    <2>7. \A p, w \in Module : \A k \in Nat : Due(p, w, k)' => Due(p, w, k)
      BY <2>4, <2>5, <2>6 DEF Due
    <2>8. CountInv'
      BY <2>1, <2>2, <2>7, <1>1, SettledCounts
    <2>9. GatherInv'
      BY <2>6 DEF GatherInv
    <2>10. JobInv' /\ jobs' \in Seq([module : Module, throws : BOOLEAN])
      BY <2>3, <1>1, TailOfJobs
    <2>11. BodiesBegin
      BY <1>1 DEF BodiesBegin
    <2> QED
      BY <2>1, <2>2, <2>8, <2>9, <2>10, <2>11, <1>1, SettlePreserves DEF TypeOK
  <1> QED
    BY <1>3, <1>4, <1>5
-----------------------------------------------------------------------------
(* The next of the list.                                                   *)

\* What the next waits for is done, but for what it is in a cycle with.
LEMMA ReadyMayRun ==
    ASSUME IInv, frames = <<>>, NEW m \in ready, Async(m),
           \A n \in ready : modules[m].asyncOrder <= modules[n].asyncOrder
    PROVE  /\ \A w \in Module : Waits(m, w) => Done(w)
           /\ \A n \in Module : Asks(m, n) => Reaches(n, m) \/ Done(Root(n))
  <1> USE DEF IInv
  <1>1. m \in Module /\ Pend(m) = 0 /\ ~Failed(m) /\ Turned(m) /\ Ended(m) /\ ~On(m) /\ ~Walking(m)
    BY JobTypes, NoWalk, OneState DEF CountInv, TurnInv
  <1>2. ASSUME NEW w \in Module, Waits(m, w)
        PROVE  Done(w)
    <2>1. Done(w) \/ w \in ready
      BY <1>1, <1>2, NoneLeft DEF Cleared
    <2>2. Order(w) < Order(m)
      BY <1>1, <1>2 DEF WaitInv
    <2>3. w \in ready => Order(m) <= Order(w)
      BY DEF Order
    <2>4. Order(w) \in Nat /\ Order(m) \in Nat
      BY <1>1, AccessorTypes
    <2> QED
      BY <2>1, <2>2, <2>3, <2>4
  <1>3. ASSUME NEW n \in Module, Asks(m, n)
        PROVE  Reaches(n, m) \/ Done(Root(n))
    <2> PICK r \in Module : r = Root(n)
      BY AccessorTypes
    <2>1. Met(m, n)
      BY <1>1, <1>3, SawAll DEF RequestInv
    <2>2. Root(n) = Root(m) \/ Done(r) \/ Waits(m, r)
      BY <2>1, <1>1 DEF Met
    <2>3. Root(n) = Root(m) => Reaches(n, m)
      <3>1. Reaches(n, r) /\ (Root(m) = r => Reaches(r, m))
        BY <1>1 DEF RootInv
      <3> QED
        BY <3>1, <1>1, ReachesThrough
    <2> QED
      BY <2>2, <2>3, <1>2
  <1> QED
    BY <1>2, <1>3

Ran(m, D, F) ==
    /\ UNCHANGED <<gathering, jobs>>
    /\ ready' = ready \ {m}
    /\ \/ running' = running
       \/ running' = running \union {m} /\ starts'[m] = 1 /\ D = {} /\ Async(m)
    /\ \/ starts' = starts
       \/ /\ starts' = [starts EXCEPT ![m] = 1] /\ Async(m)
          /\ \A n \in Module : Asks(m, n) => Reaches(n, m) \/ Done(Root(n))
    /\ \A p \in Module : Waits(p, m) /\ Cleared(m) => Cleared(m)' \/ Failed(p)'

LEMMA RanPreserves ==
    ASSUME IInv, gathering = <<>>, NEW m \in Module, m \in ready,
           NEW D \in SUBSET Module, D \subseteq {m}, NEW F \in SUBSET Module, NEW e,
           MaySettle(D, F, e), Settles(D, F, e), SamePend, Ran(m, D, F)
    PROVE  IInv'
  <1> USE DEF IInv
  <1>1. \A x \in Module : Done(x)' <=> Done(x) \/ x \in D
    BY SettledStates
  <1>2. starts[m] = 0 /\ Pend(m) = 0
    BY DEF CountInv
  <1>3. graph' = graph /\ \A x \in Module : HasAwait(x)' = HasAwait(x)
    BY SameGraph DEF Settles
  <1>4. \A w \in Module : w # m /\ Cleared(w) => Cleared(w)'
    BY <1>1, <1>3 DEF Cleared, Ran
  <1>5. \A w \in Module : Waiting(w)' = Waiting(w) /\ \A k : Waiter(w, k)' = Waiter(w, k)
    BY SameWaits DEF Settles
  <1>6. Gathering = {} /\ Gathering' = {}
    <2>1. 1 .. Len(gathering) = {} /\ 1 .. Len(gathering') = {}
      BY DEF Ran
    <2> QED
      BY <2>1 DEF Gathering
  <1>7. ASSUME NEW p \in Module, NEW w \in Module, NEW k \in Nat, ~Failed(p)', Due(p, w, k)'
        PROVE  Due(p, w, k)
    <2>1. k \in Waiting(w) /\ Waiter(w, k) = p
      BY <1>5, <1>7 DEF Due
    <2>2. ~Cleared(w)'
      BY <1>6, <1>7 DEF Due
    <2>3. ~Cleared(w)
      <3>1. CASE w = m
        <4>1. Waits(p, m)
          BY <2>1, <3>1 DEF Waits
        <4>2. ~Cleared(m)'
          BY <2>2, <3>1 DEF Cleared, Done, Status
        <4> QED
          BY <4>1, <4>2, <3>1, <1>7 DEF Ran
      <3>2. CASE w # m
        BY <2>2, <3>2, <1>4
      <3> QED
        BY <3>1, <3>2
    <2> QED
      BY <2>1, <2>3 DEF Due
  <1>8. starts \in [Module -> {0, 1}]
    BY DEF TypeOK
  <1>9. /\ starts' \in [Module -> {0, 1}]
        /\ \A x \in Module : x # m => starts'[x] = starts[x]
    BY <1>8 DEF Ran
  <1>10. CountInv'
    BY <1>2, <1>7, <1>9, SettledCounts DEF Ran
  <1>11. GatherInv'
    BY <1>6 DEF GatherInv
  <1>12. JobInv'
    <2>1. ASSUME NEW x \in running'
          PROVE  starts'[x] = 1 /\ Turned(x)'
      <3>1. CASE x \in running
        <4>1. x \in Module /\ starts[x] = 1 /\ Turned(x)
          BY <3>1, JobTypes DEF JobInv
        <4>2. x # m
          BY <4>1, <1>2
        <4>3. x \notin D
          BY <4>2
        <4> QED
          BY <4>1, <4>2, <4>3, <1>9 DEF Settles
      <3>2. CASE x \notin running
        <4>1. x = m /\ starts'[m] = 1 /\ D = {} /\ Async(m)
          BY <2>1, <3>2 DEF Ran
        <4>2. Turned(m)
          BY <4>1 DEF TurnInv
        <4>3. Turned(m)'
          BY <4>1, <4>2 DEF Settles
        <4> QED
          BY <4>1, <4>3 DEF Turned
      <3> QED
        BY <3>1, <3>2
    <2>2. ASSUME NEW i \in 1 .. Len(jobs)
          PROVE  starts'[jobs[i].module] = 1 /\ Turned(jobs[i].module)' /\ jobs[i].module \notin running'
      <3> PICK x \in Module : x = jobs[i].module
        BY JobTypes
      <3>1. starts[x] = 1 /\ Turned(x) /\ x \notin running
        BY DEF JobInv
      <3>2. x # m /\ x \notin D
        BY <3>1, <1>2
      <3>3. starts'[x] = 1 /\ Turned(x)' /\ x \notin running'
        BY <3>1, <3>2, <1>9 DEF Settles, Ran
      <3>4. jobs' = jobs
        BY DEF Ran
      <3> QED
        BY <3>3, <3>4 DEF Turned
    <2>3. jobs' = jobs
      BY DEF Ran
    <2> QED
      BY <2>1, <2>2, <2>3 DEF JobInv, Turned
  <1>13. BodiesBegin
    BY <1>9 DEF BodiesBegin, Ran
  <1>14. /\ gathering' \in Seq(Call) /\ ready' \subseteq Module /\ running' \subseteq Module
         /\ jobs' \in Seq([module : Module, throws : BOOLEAN])
    <2>1. /\ gathering \in Seq(Call) /\ ready \subseteq Module /\ running \subseteq Module
          /\ jobs \in Seq([module : Module, throws : BOOLEAN])
      BY DEF TypeOK
    <2> QED
      BY <2>1 DEF Ran
  <1> HIDE DEF IInv
  <1> QED
    BY <1>9, <1>10, <1>11, <1>12, <1>13, <1>14, SettlePreserves

LEMMA RunReadyPreserves ==
    ASSUME IInv, RunReady
    PROVE  IInv'
  <1> USE DEF IInv
  <1> PICK m \in ready :
          /\ \A n \in ready : modules[m].asyncOrder <= modules[n].asyncOrder
          /\ ready' = ready \ {m}
          /\ IF Status(m) = "failed" THEN UNCHANGED <<modules, running, starts>>
             ELSE /\ starts' = [starts EXCEPT ![m] = @ + 1]
                  /\ IF HasAwait(m)
                     THEN running' = running \union {m} /\ UNCHANGED modules
                     ELSE /\ Reject(m, m) \/ modules' = Finished(m)
                          /\ UNCHANGED running
    BY DEF RunReady
  <1>1. /\ gathering = <<>>
        /\ UNCHANGED <<graph, asyncOrder, frames, stack, index, gathering, jobs>>
    BY DEF RunReady
  <1>2. frames = <<>>
    <2>1. frames # <<>> => Depth > 0
      BY FrameIsLast
    <2> QED
      BY <2>1 DEF FramesInv
  <1>3. m \in Module /\ Pend(m) = 0 /\ starts[m] = 0 /\ (Async(m) \/ Failed(m))
    BY JobTypes DEF CountInv
  <1>4. CASE Failed(m)
    <2>1. UNCHANGED <<modules, running, starts>>
      BY <1>4 DEF Failed
    <2>2. MaySettle({}, {}, NoError) /\ Settles({}, {}, NoError) /\ SamePend
          /\ \A x \in Module : Failed(x)' = Failed(x)
      BY <2>1, <1>1, <1>2, NoneSettle
    <2>3. \A p \in Module : Waits(p, m) => Failed(p)'
      BY <2>2, <1>3, <1>4 DEF WaitInv
    <2>4. Ran(m, {}, {})
      BY <2>1, <2>3, <1>1 DEF Ran
    <2> QED
      BY <2>2, <2>4, <1>1, <1>3, RanPreserves
  <1>5. CASE Async(m)
    <2>1. ~Failed(m) /\ Turned(m)
      BY <1>3, <1>5, OneState DEF TurnInv
    <2>2. /\ \A w \in Module : Waits(m, w) => Done(w)
          /\ \A n \in Module : Asks(m, n) => Reaches(n, m) \/ Done(Root(n))
      BY <1>2, <1>5, ReadyMayRun
    <2>3. /\ starts' = [starts EXCEPT ![m] = 1]
          /\ IF HasAwait(m)
             THEN running' = running \union {m} /\ UNCHANGED modules
             ELSE (Reject(m, m) \/ modules' = Finished(m)) /\ UNCHANGED running
      BY <2>1, <1>3 DEF Failed
    <2>4. starts'[m] = 1
      BY <2>3, <1>3 DEF TypeOK
    <2>5. CASE HasAwait(m)
      <3>1. MaySettle({}, {}, NoError) /\ Settles({}, {}, NoError) /\ SamePend
        BY <2>3, <2>5, <1>1, <1>2, NoneSettle
      <3>2. ~Cleared(m)
        BY <2>5, <1>3, <1>5, OneState DEF Cleared
      <3>3. Ran(m, {}, {})
        BY <3>2, <2>2, <2>3, <2>4, <2>5, <1>1, <1>5 DEF Ran
      <3> QED
        BY <3>1, <3>3, <1>1, <1>3, RanPreserves
    <2>6. CASE ~HasAwait(m) /\ Reject(m, m)
      <3> PICK F : F = Rejected(m)
        OBVIOUS
      <3>1. MaySettle({}, F, m) /\ Settles({}, F, m) /\ SamePend
        BY <2>6, <1>1, <1>2, <1>3, <1>5, RejectSettles
      <3>2. /\ F \in SUBSET Module /\ m \in F
            /\ \A p \in Module : Waits(p, m) => p \in F \/ Failed(p)
        BY <1>2, <1>3, <1>5, RejectedAre
      <3>3. \A p \in Module : Failed(p)' <=> Failed(p) \/ p \in F
        BY <3>1, <3>2, SettledStates
      <3>4. \A p \in Module : Waits(p, m) => Failed(p)'
        BY <3>2, <3>3
      <3>5. Ran(m, {}, F)
        BY <3>4, <2>2, <2>3, <2>6, <1>1, <1>5 DEF Ran
      <3> QED
        BY <3>1, <3>2, <3>5, <1>1, <1>3, RanPreserves
    <2>7. CASE ~HasAwait(m) /\ modules' = Finished(m)
      <3>1. Settles({m}, {}, NoError) /\ SamePend
        BY <2>7, <1>1, <1>3, FinishedSettles
      <3>2. MaySettle({m}, {}, NoError)
        BY <2>2, <1>2, <1>5 DEF MaySettle
      <3>3. Done(m)'
        BY <3>1, <3>2, <1>3, SettledStates
      <3>4. Cleared(m)'
        BY <3>3 DEF Cleared
      <3>5. Ran(m, {m}, {})
        BY <3>4, <2>2, <2>3, <2>7, <1>1, <1>5 DEF Ran
      <3> QED
        BY <3>1, <3>2, <3>5, <1>1, <1>3, RanPreserves
    <2> QED
      BY <2>3, <2>5, <2>6, <2>7
  <1> QED
    BY <1>3, <1>4, <1>5
-----------------------------------------------------------------------------
(* The theorems.                                                           *)

LEMMA InvariantStarts == Init => IInv
  <1> SUFFICES ASSUME Init
               PROVE  IInv
    OBVIOUS
  <1>1. \A m \in Module : modules[m] = NewRecord(m)
    BY DEF Init
  <1>2. ASSUME NEW m \in Module
        PROVE  /\ Status(m) = "new" /\ Root(m) = m /\ Turned(m) = FALSE /\ Pend(m) = 0
               /\ Waiting(m) = {} /\ Cap(m) = None /\ starts[m] = 0
    <2>1. modules[m] = NewRecord(m)
      BY <1>1
    <2>2. /\ modules[m].status = "new" /\ modules[m].cycleRoot = m
          /\ modules[m].asyncEvaluation = FALSE /\ modules[m].pendingAsync = 0
          /\ modules[m].asyncParents = << >> /\ modules[m].capability = None
      BY <2>1 DEF NewRecord
    <2>3. 1 .. Len(modules[m].asyncParents) = {}
      <3>1. Len(modules[m].asyncParents) = 0
        BY <2>2
      <3> QED
        BY <3>1
    <2>4. starts[m] = 0
      BY DEF Init
    <2> QED
      BY <2>2, <2>3, <2>4 DEF Status, Root, Turned, Pend, Waiting, Cap
  <1>3. Depth = 0 /\ Gathering = {}
    BY DEF Init, Depth, Gathering
  <1>4. TypeOK
    <2>1. modules \in [Module -> Record]
      BY RecordTypes DEF Init
    <2>2. frames \in Seq(Call) /\ stack \in Seq(Module) /\ gathering \in Seq(Call)
      BY DEF Init
    <2>3. jobs \in Seq([module : Module, throws : BOOLEAN])
      BY DEF Init
    <2> QED
      BY <2>1, <2>2, <2>3 DEF Init, TypeOK
  <1>5. \A m \in Module : /\ ~On(m) /\ ~Async(m) /\ ~Failed(m) /\ ~Done(m) /\ ~Ended(m) /\ Unwalked(m)
                          /\ ~Walking(m)
    <2>1. ASSUME NEW m \in Module
          PROVE  /\ ~On(m) /\ ~Async(m) /\ ~Failed(m) /\ ~Done(m) /\ ~Ended(m) /\ Unwalked(m)
      <3>1. Status(m) = "new"
        BY <1>2
      <3> QED
        BY <3>1 DEF On, Async, Failed, Done, Ended, Unwalked
    <2>2. \A m : ~Walking(m)
      BY <1>3 DEF Walking
    <2> QED
      BY <2>1, <2>2
  <1>6. \A p, w \in Module : ~Waits(p, w)
    BY <1>2 DEF Waits
  <1>7. StackInv /\ FramesInv /\ ReachInv /\ LowInv
    <2>1. Len(stack) = 0
      BY DEF Init
    <2> QED
      BY <2>1, <1>3, <1>5 DEF StackInv, FramesInv, ReachInv, LowInv
  <1>8. RootInv
    BY <1>2, ReachesItself DEF RootInv
  <1>9. RequestInv
    BY <1>2, <1>5 DEF RequestInv
  <1>10. WaitInv
    BY <1>6 DEF WaitInv
  <1>11. TurnInv
    BY <1>2, <1>5 DEF TurnInv
  <1>12. CountInv
    <2>1. ASSUME NEW p \in Module
          PROVE  IsFiniteSet(Uncounted(p)) /\ Cardinality(Uncounted(p)) <= Pend(p)
      <3>1. Uncounted(p) = {}
        BY <1>2 DEF Uncounted, Due
      <3>2. IsFiniteSet(Uncounted(p)) /\ Cardinality(Uncounted(p)) = 0
        BY <3>1, FS_EmptySet
      <3>3. Pend(p) = 0
        BY <1>2
      <3> QED
        BY <3>2, <3>3
    <2>2. ready = {}
      BY DEF Init
    <2>3. ASSUME NEW p \in Module
          PROVE  ~(Pend(p) > 0)
      <3>1. Pend(p) = 0
        BY <1>2
      <3> QED
        BY <3>1
    <2> QED
      BY <2>1, <2>2, <2>3 DEF CountInv
  <1>13. GatherInv
    BY <1>3 DEF GatherInv
  <1>14. JobInv
    BY DEF Init, JobInv
  <1>15. OutcomeInv
    <2>1. ASSUME NEW m \in Module
          PROVE  ~Failed(m) /\ Cap(m) = None /\ starts[m] # 1
      <3>1. ~Failed(m)
        BY <1>5
      <3>2. Cap(m) = None /\ starts[m] = 0
        BY <1>2
      <3> QED
        BY <3>1, <3>2
    <2> QED
      BY <2>1 DEF OutcomeInv
  <1> QED
    BY <1>4, <1>7, <1>8, <1>9, <1>10, <1>11, <1>12, <1>13, <1>14, <1>15 DEF IInv

LEMMA InvariantKept == IInv /\ [Next]_vars => IInv'
  <1> SUFFICES ASSUME IInv, [Next]_vars
               PROVE  IInv'
    OBVIOUS
  <1>1. CASE UNCHANGED vars
    BY <1>1, Stutter DEF vars
  <1>2. ASSUME NEW m \in Module, Start(m)
        PROVE  IInv'
    BY <1>2, StartPreserves
  <1>3. ASSUME NEW m \in Module, BodyEnds(m)
        PROVE  IInv'
    BY <1>3, BodyEndsPreserves
  <1>4. CASE WalkInto
    BY <1>4, WalkIntoPreserves
  <1>5. CASE Require
    BY <1>5, RequireIsPreserving
  <1>6. CASE TurnAsync
    BY <1>6, TurnAsyncPreserves
  <1>7. CASE Execute
    BY <1>7, ExecutePreserves
  <1>8. CASE ModuleFulfilled
    BY <1>8, ModuleFulfilledPreserves
  <1>9. CASE CountParent
    BY <1>9, CountParentPreserves
  <1>10. CASE ParentsCounted
    BY <1>10, ParentsCountedPreserves
  <1>11. CASE ModuleRejected
    BY <1>11, ModuleRejectedPreserves
  <1>12. CASE RunReady
    BY <1>12, RunReadyPreserves
  <1> QED
    BY <1>1, <1>2, <1>3, <1>4, <1>5, <1>6, <1>7, <1>8, <1>9, <1>10, <1>11, <1>12 DEF Next, Engine

\* In every state of the evaluation of any graphs, by modules.zs' evaluateFrom,
\* gatherAncestors and asyncModuleFulfilled: the invariant, by which the walk's
\* lowest indexes find the cycles, a module waits for as many as it is counted
\* to, and what waits for a failed module has failed.
THEOREM Invariant == Spec => []IInv
  <1>1. Init => IInv
    BY InvariantStarts
  <1>2. IInv /\ [Next]_vars => IInv'
    BY InvariantKept
  <1> QED
    BY <1>1, <1>2, PTL DEF Spec

\* A module's body begins once, and only when all that it requests, and all
\* that this reaches, has been evaluated, but for what waits for it in turn:
\* evaluateFrom's and asyncModuleFulfilled's runs of a module.
THEOREM BodiesAfterDependencies == Spec => []DependenciesFirst
  <1>1. IInv => DependenciesFirst
    BY PropertiesFollow
  <1> QED
    BY <1>1, Invariant, PTL

\* An evaluation's promise is fulfilled only when all of its graph has been
\* evaluated, and rejected only with what a module of its graph threw:
\* evaluateRoot, finishEvaluation and asyncModuleRejected.
THEOREM PromisesSettleTruly == Spec => []SettledTruly
  <1>1. IInv => SettledTruly
    BY PropertiesFollow
  <1> QED
    BY <1>1, Invariant, PTL
=============================================================================
