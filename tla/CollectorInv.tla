---------------------------- MODULE CollectorInv ----------------------------
(***************************************************************************)
(* The inductive invariant of Collector: what holds before and after every *)
(* single step of the program and of a collection.  The parts are stated   *)
(* reference by reference, as the barrier and the marker work.             *)
(***************************************************************************)
EXTENDS Collector

\* Everything c refers to is in S.
RefsIn(c, S) ==
    /\ link[c] \in S \cup {Null}
    /\ \A s \in Slot : slots[c][s] \in S \cup {Null}
    /\ \A k \in Cell : entries[c][k] # NoEntry => k \in S /\ entries[c][k] \in S \cup {Null}

\* Everything c holds strongly is in S.
StrongRefsIn(c, S) ==
    /\ link[c] \in S \cup {Null}
    /\ \A s \in Slot : slots[c][s] \in S \cup {Null}
    /\ tag[c] # "weak" => \A k \in Cell :
          entries[c][k] # NoEntry => k \in S /\ entries[c][k] \in S \cup {Null}

\* Each reference from the old cell c to a cell of U is listed in l, by
\* its holder or by its own place.
ListedIn(l, c, U) ==
    /\ link[c] \in U => <<"cell", c>> \in l.cells
    /\ \A s \in Slot :
          slots[c][s] \in U => <<"cell", c>> \in l.cells \/ SlotOf(c, s) \in l.places
    /\ \A k \in Cell : entries[c][k] # NoEntry =>
          /\ tag[c] # "weak" /\ (k \in U \/ entries[c][k] \in U) =>
                <<"cell", c>> \in l.cells \/ EntryOf(c, k) \in l.places
          /\ tag[c] = "weak" /\ k \in U =>
                <<"keys", c>> \in l.cells \/ KeyOf(c, k) \in l.places
          /\ tag[c] = "weak" /\ entries[c][k] \in U =>
                <<"values", c>> \in l.cells \/ ValueOf(c, k) \in l.places

Minor == minorCollection

\* Where the control is, and what is then empty.
ControlInv ==
    /\ phase \in {"remembered", "sweepYoung", "dropAtoms", "finish"} => Minor
    /\ phase \in {"run", "ephemerons", "clear", "atoms", "sweep"} => ~Minor
    /\ phase # "roots" => toMark = {}
    /\ phase \notin {"roots", "remembered", "ephemerons"} => Drained
    /\ phase \notin {"roots", "remembered"} \/ ~Minor => toTrace = NothingListed
    /\ phase \notin {"dropAtoms", "finish"} => deadAtoms = {}
    /\ phase \notin {"roots", "ephemerons", "clear"} \/ Minor =>
          toRegister = {} /\ weakRecords = {} /\ pending = {}

\* Who is allocated; nothing refers to a freed cell, and neither a freed
\* cell nor a string refers to anything.
HeapInv ==
    /\ roots \cup young \cup marked \cup interned \cup deadAtoms \subseteq Allocated
    /\ toMark \subseteq roots /\ markStack \subseteq marked
    /\ \A r \in weakRecords : r \in marked /\ tag[r] = "weak"
    /\ \A e \in toRegister : e[1] \in weakRecords /\ entries[e[1]][e[2]] # NoEntry
    /\ \A e \in pending : e[2] \in Allocated
    /\ \A c \in Cell : RefsIn(c, Allocated)
    /\ \A c \in Cell : tag[c] \in {"free", "string"} => RefsIn(c, {})
    /\ \A c \in interned : tag[c] = "string"

\* The atom table and the flags of its cells.
AtomInv ==
    atoms = CASE phase = "sweep" -> interned \cap marked
              [] phase = "finish" -> interned \ deadAtoms
              [] OTHER -> interned

\* The roots yet to mark are the only ones unmarked.
RootInv ==
    /\ phase = "roots" => roots \subseteq marked \cup toMark
    /\ phase \notin {"run", "roots"} => roots \subseteq marked

\* Between collections the marks say who is old, and the barrier has
\* listed every reference from an old cell to a young one.
RunInv == Running =>
    /\ marked = Old
    /\ \A c \in Old : ListedIn(remembered, c, young)

\* A minor collection: old cells stay marked, and what is unmarked is
\* referred to by the cells on the stack, or from a place yet to trace.
MinorInv == Minor /\ phase \in {"roots", "remembered"} =>
    /\ Old \subseteq marked /\ markStack \subseteq young
    /\ \A c \in Old : ListedIn(toTrace, c, young \ marked)
    /\ \A c \in (young \cap marked) \ markStack : RefsIn(c, marked)

\* A full collection: what the traced cells hold strongly is marked, and
\* the traced weak records are known.
MajorInv == ~Minor /\ phase \in {"roots", "ephemerons", "clear"} =>
    \A c \in marked \ markStack : StrongRefsIn(c, marked) /\ (tag[c] = "weak" => c \in weakRecords)

ClearInv == phase = "clear" =>
    \A r \in weakRecords : \A k \in marked :
        entries[r][k] # NoEntry => entries[r][k] \in marked \cup {Null}

\* Marking is over: nothing marked refers to anything unmarked.
SweepInv ==
    /\ phase \in {"atoms", "sweep", "sweepYoung", "dropAtoms", "finish"} =>
          \A c \in marked : RefsIn(c, marked)
    /\ phase = "sweepYoung" => Old \subseteq marked
    /\ phase \in {"dropAtoms", "finish"} =>
          Allocated = marked \cup deadAtoms /\ marked \cap deadAtoms = {} /\ deadAtoms \subseteq interned

IInv == /\ TypeOK /\ ControlInv /\ HeapInv /\ AtomInv /\ RootInv
        /\ RunInv /\ MinorInv /\ MajorInv /\ ClearInv /\ SweepInv
-----------------------------------------------------------------------------
(***************************************************************************)
(* The marker marks no more than it must: what it has marked, and what its *)
(* queues will make it mark, is in every set closed as the collection's    *)
(* own definition of live asks.                                            *)
(***************************************************************************)

\* A full collection, until the sweep.
MarkedWithin(T) == marked \subseteq T /\ \A e \in pending : e[1] \in T => e[2] \in T
MajorExact == ~Minor /\ phase \in {"roots", "ephemerons", "clear", "atoms", "sweep"} =>
    \A T \in SUBSET Cell : Closed(T) => MarkedWithin(T)

\* Every entry of a reached weak record is accounted for: its value is
\* marked, or it is still to be registered, or it waits for its key.
Queued == ~Minor /\ phase \in {"roots", "ephemerons"} =>
    \A r \in weakRecords : \A k \in Keys(r) :
        \/ entries[r][k] \in marked \cup {Null}
        \/ <<r, k>> \in toRegister
        \/ <<k, entries[r][k]>> \in pending /\ k \notin marked \ markStack

\* A minor collection, until the sweep of the young.
MinorExact == Minor /\ phase \in {"roots", "remembered", "sweepYoung"} =>
    \A T \in SUBSET young : ClosedYoung(T) => young \cap marked \subseteq T

\* Only old cells are ever listed.
ListsOld(l) == (\A x \in l.cells : x[2] \in Old) /\ (\A w \in l.places : w.holder \in Old)
ListedOld ==
    /\ Running => ListsOld(remembered)
    /\ Minor /\ phase \in {"roots", "remembered"} => ListsOld(toTrace)

EInv == IInv /\ MajorExact /\ Queued /\ MinorExact /\ ListedOld
=============================================================================
