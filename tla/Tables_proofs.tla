--------------------------- MODULE Tables_proofs ---------------------------
(***************************************************************************)
(* Proofs about the engine's hashed structures, for every hash function,   *)
(* every first capacity and any number of keys, positions and walks.       *)
(*                                                                         *)
(* What a loop of the code leaves is a recursive function in the model.    *)
(* That such a function exists, and what each of its values is, is shown   *)
(* here by the least number at which it would fail.                        *)
(***************************************************************************)
EXTENDS MCTables, FiniteSetTheorems, SequenceTheorems, WellFoundedInduction, TLAPS
-----------------------------------------------------------------------------
(* Least numbers and recursion.                                            *)

LEMMA Least ==
    ASSUME NEW T \in SUBSET Nat, T # {}
    PROVE  \E n \in T : \A m \in T : n <= m
<1>1. \E x \in T : \A y \in T : ~ (<<y, x>> \in OpToRel(<, Nat))
  BY NatLessThanWellFounded, WFMin
<1>2. PICK x \in T : \A y \in T : ~ (<<y, x>> \in OpToRel(<, Nat))
  BY <1>1
<1>3. \A y \in T : ~ (y < x)
  BY <1>2 DEF OpToRel
<1> QED BY <1>3

\* A set of numbers up to a bound with 0 and with each one's successor has
\* them all.
LEMMA UpTo ==
    ASSUME NEW N \in Nat, NEW H, 0 \in H, \A n \in 1 .. N : n - 1 \in H => n \in H
    PROVE  \A n \in 0 .. N : n \in H
<1> SUFFICES ASSUME \E n \in 0 .. N : n \notin H PROVE FALSE
  OBVIOUS
<1> DEFINE T == {n \in 0 .. N : n \notin H}
<1>1. T \in SUBSET Nat /\ T # {}
  OBVIOUS
<1>2. PICK n \in T : \A m \in T : n <= m
  <2> HIDE DEF T
  <2> QED BY <1>1, Least
<1>3. n # 0 /\ n \in 1 .. N /\ n - 1 \in 0 .. N /\ n - 1 \notin T
  BY <1>2
<1> QED BY <1>2, <1>3

\* A function given at 0, and at each number from its value before.
Follows(f, N, base, G) == f = [n \in 0 .. N |-> IF n = 0 THEN base ELSE G[n][f[n - 1]]]

LEMMA Recursion ==
    ASSUME NEW N \in Nat, NEW S, NEW base \in S, NEW G \in [1 .. N -> [S -> S]]
    PROVE  \E f \in [0 .. N -> S] : Follows(f, N, base, G)
<1> DEFINE Partial(n, f) == f[0] = base /\ \A m \in 1 .. n : f[m] = G[m][f[m - 1]]
           Has(n) == \E f \in [0 .. n -> S] : Partial(n, f)
           H == {n \in 0 .. N : Has(n)}
<1>1. Has(0)
  <2> DEFINE f == [n \in 0 .. 0 |-> base]
  <2>1. f \in [0 .. 0 -> S] /\ Partial(0, f)
    OBVIOUS
  <2> HIDE DEF f
  <2> QED BY <2>1
<1>2. ASSUME NEW n \in 1 .. N, Has(n - 1) PROVE Has(n)
  <2>1. PICK f \in [0 .. n - 1 -> S] : Partial(n - 1, f)
    BY <1>2
  <2> DEFINE v == G[n][f[n - 1]]
             g == [m \in 0 .. n |-> IF m = n THEN v ELSE f[m]]
  <2>2. v \in S
    BY <2>1
  <2>3. g \in [0 .. n -> S]
    BY <2>1, <2>2
  <2>4. \A m \in 0 .. n - 1 : g[m] = f[m]
    OBVIOUS
  <2>5. g[n] = v
    OBVIOUS
  <2>6. Partial(n, g)
    <3>1. g[0] = base
      BY <2>1, <2>4
    <3>2. ASSUME NEW m \in 1 .. n PROVE g[m] = G[m][g[m - 1]]
      <4>1. m - 1 \in 0 .. n - 1 /\ g[m - 1] = f[m - 1]
        BY <2>4
      <4>2. CASE m = n
        BY <4>1, <4>2, <2>5
      <4>3. CASE m # n
        <5>1. m \in 1 .. n - 1
          BY <4>3
        <5> QED BY <5>1, <4>1, <2>4, <2>1
      <4> QED BY <4>2, <4>3
    <3> QED BY <3>1, <3>2
  <2> HIDE DEF g, Partial
  <2> QED BY <2>3, <2>6
<1>3. Has(N)
  <2> HIDE DEF Has
  <2>1. 0 \in H /\ \A n \in 1 .. N : n - 1 \in H => n \in H
    BY <1>1, <1>2
  <2>2. N \in 0 .. N
    OBVIOUS
  <2>3. \A n \in 0 .. N : n \in H
    <3> HIDE DEF H
    <3> QED BY <2>1, UpTo
  <2> QED BY <2>2, <2>3
<1>4. PICK f \in [0 .. N -> S] : Partial(N, f)
  BY <1>3
<1>5. \A n \in 0 .. N : f[n] = IF n = 0 THEN base ELSE G[n][f[n - 1]]
  BY <1>4
<1> QED BY <1>5 DEF Follows
-----------------------------------------------------------------------------
(* Searching an index.                                                     *)

LEMMA Modulo == \A n \in Nat, c \in Nat \ {0} : n % c \in 0 .. c - 1
OBVIOUS

LEMMA Steps ==
    ASSUME NEW C \in Nat \ {0}, NEW a \in 0 .. C - 1
    PROVE  /\ \A b \in 0 .. C - 1 : Distance(a, b, C) \in 0 .. C - 1
           /\ \A b, d \in 0 .. C - 1 : Distance(a, b, C) = Distance(a, d, C) => b = d
           /\ \A b \in 0 .. C - 1 : Around(a, Distance(a, b, C), C) = b
           /\ \A n \in 0 .. C - 1 : /\ Around(a, n, C) \in 0 .. C - 1
                                    /\ Distance(a, Around(a, n, C), C) = n
BY DEF Distance, Around

LEMMA CapacityOf ==
    ASSUME NEW C \in Nat \ {0}, NEW idx, DOMAIN idx = 0 .. C - 1
    PROVE  Capacity(idx) = C
<1>1. Cardinality(0 .. C - 1) = C
  BY FS_Interval
<1> QED BY <1>1 DEF Capacity

LEMMA HomeOf ==
    ASSUME NEW C \in Nat \ {0}, NEW idx, DOMAIN idx = 0 .. C - 1, NEW hash \in Nat
    PROVE  Home(idx, hash) = hash % C /\ hash % C \in 0 .. C - 1
BY CapacityOf, Modulo DEF Home

\* A search that something stops ends at the first slot that does.
LEMMA FoundFirst ==
    ASSUME NEW C \in Nat \ {0}, NEW idx, DOMAIN idx = 0 .. C - 1, NEW hash \in Nat, NEW stops,
           NEW some \in 0 .. C - 1, idx[some] \in stops
    PROVE  /\ Found(idx, hash, stops) \in 0 .. C - 1
           /\ idx[Found(idx, hash, stops)] \in stops
           /\ \A s \in 0 .. C - 1 : idx[s] \in stops =>
                 Distance(hash % C, Found(idx, hash, stops), C) <= Distance(hash % C, s, C)
<1> DEFINE h == hash % C
           stopping == {s \in 0 .. C - 1 : idx[s] \in stops}
           T == {Distance(h, s, C) : s \in stopping}
<1>1. h \in 0 .. C - 1 /\ Home(idx, hash) = h /\ Capacity(idx) = C
  BY HomeOf, CapacityOf
<1>2. \A s \in stopping : Distance(h, s, C) \in 0 .. C - 1
  BY <1>1, Steps
<1>3. some \in stopping
  OBVIOUS
<1>4. PICK n \in T : \A m \in T : n <= m
  <2>1. T \in SUBSET Nat /\ T # {}
    BY <1>2, <1>3
  <2> HIDE DEF T
  <2> QED BY <2>1, Least
<1>5. PICK first \in stopping : \A s \in stopping : Distance(h, first, C) <= Distance(h, s, C)
  BY <1>4
<1>6. Found(idx, hash, stops) =
        CHOOSE slot \in stopping : \A other \in stopping : Distance(h, slot, C) <= Distance(h, other, C)
  BY <1>1, <1>3 DEF Found
<1>7. /\ Found(idx, hash, stops) \in stopping
      /\ \A other \in stopping : Distance(h, Found(idx, hash, stops), C) <= Distance(h, other, C)
  BY <1>5, <1>6
<1> QED BY <1>7
-----------------------------------------------------------------------------
(* An index that is in order, over a set P of what it holds: each of P is  *)
(* in one slot, a search from its hash meets no empty slot before it, and  *)
(* there is nothing else but empty slots and marks of what is gone.        *)

HoldsEach(idx, C, P) == \A p \in P : \E s \in 0 .. C - 1 : idx[s] = p

HoldsOnce(idx, C, P) == \A s, t \in 0 .. C - 1 : idx[s] \in P /\ idx[s] = idx[t] => s = t

Reachable(idx, C, P, hs, none) ==
    \A s, t \in 0 .. C - 1 :
        /\ idx[s] \in P
        /\ Distance(hs[idx[s]] % C, t, C) < Distance(hs[idx[s]] % C, s, C)
        => idx[t] # none

InOrder(idx, C, P, hs, none, gone) ==
    /\ idx \in [0 .. C - 1 -> {none, gone} \union P]
    /\ HoldsEach(idx, C, P)
    /\ HoldsOnce(idx, C, P)
    /\ Reachable(idx, C, P, hs, none)

HasEmpty(idx, C, none) == \E s \in 0 .. C - 1 : idx[s] = none

\* The slots that stop no search.
Used(idx, C, none) == {s \in 0 .. C - 1 : idx[s] # none}

LEMMA UsedFinite ==
    ASSUME NEW C \in Nat \ {0}, NEW idx, NEW none
    PROVE  /\ IsFiniteSet(Used(idx, C, none))
           /\ Cardinality(Used(idx, C, none)) \in Nat
<1>1. IsFiniteSet(0 .. C - 1)
  BY FS_Interval
<1>2. Used(idx, C, none) \subseteq 0 .. C - 1
  BY DEF Used
<1> QED BY <1>1, <1>2, FS_Subset, FS_CardinalityType

\* An index with fewer slots used than it has has an empty one.
LEMMA SomeEmpty ==
    ASSUME NEW C \in Nat \ {0}, NEW idx, NEW none, Cardinality(Used(idx, C, none)) < C
    PROVE  HasEmpty(idx, C, none)
<1> SUFFICES ASSUME \A s \in 0 .. C - 1 : idx[s] # none PROVE FALSE
  BY DEF HasEmpty
<1>1. Used(idx, C, none) = 0 .. C - 1
  BY DEF Used
<1>2. Cardinality(0 .. C - 1) = C
  BY FS_Interval
<1> QED BY <1>1, <1>2

\* Writing one slot uses at most one more.
LEMMA UsedOneMore ==
    ASSUME NEW C \in Nat \ {0}, NEW S, NEW idx \in [0 .. C - 1 -> S], NEW none,
           NEW f \in 0 .. C - 1, NEW v
    PROVE  Cardinality(Used([idx EXCEPT ![f] = v], C, none)) <= Cardinality(Used(idx, C, none)) + 1
<1> DEFINE U == Used(idx, C, none)
           W == Used([idx EXCEPT ![f] = v], C, none)
<1>1. W \subseteq U \union {f}
  BY DEF Used
<1>2. IsFiniteSet(U) /\ Cardinality(U) \in Nat /\ IsFiniteSet(W) /\ Cardinality(W) \in Nat
  BY UsedFinite
<1> HIDE DEF U, W
<1>3. IsFiniteSet(U \union {f}) /\ Cardinality(U \union {f}) <= Cardinality(U) + 1
  <2>1. IsFiniteSet(U \union {f})
    BY <1>2, FS_AddElement, Zenon
  <2>2. Cardinality(U \union {f}) = IF f \in U THEN Cardinality(U) ELSE Cardinality(U) + 1
    BY <1>2, FS_AddElement, Zenon
  <2> QED BY <1>2, <2>1, <2>2
<1>4. Cardinality(W) <= Cardinality(U \union {f}) /\ Cardinality(U \union {f}) \in Nat
  BY <1>1, <1>3, FS_Subset, FS_CardinalityType
<1> QED BY <1>2, <1>3, <1>4 DEF U, W
-----------------------------------------------------------------------------
(* The operations on an index.                                             *)

LEMMA FilledInOrder ==
    ASSUME NEW C \in Nat \ {0}, NEW hs, NEW none, NEW gone
    PROVE  /\ InOrder(Filled(C, none), C, {}, hs, none, gone)
           /\ Cardinality(Used(Filled(C, none), C, none)) = 0
<1>1. Used(Filled(C, none), C, none) = {}
  BY DEF Used, Filled, Slots
<1> QED BY <1>1, FS_EmptySet
        DEF InOrder, HoldsEach, HoldsOnce, Reachable, Filled, Slots

\* What is in order by one set of hashes is by another that agrees on it.
LEMMA SameHashes ==
    ASSUME NEW C \in Nat \ {0}, NEW P, NEW hs, NEW hs2, NEW none, NEW gone, NEW idx,
           InOrder(idx, C, P, hs, none, gone), \A p \in P : hs2[p] = hs[p]
    PROVE  InOrder(idx, C, P, hs2, none, gone)
<1>1. Reachable(idx, C, P, hs2, none)
  BY DEF InOrder, Reachable
<1> QED BY <1>1 DEF InOrder

\* A new one of the set goes into the first free slot from its hash.
LEMMA PlacedInOrder ==
    ASSUME NEW C \in Nat \ {0}, NEW P, NEW hs, NEW none, NEW gone, NEW idx,
           InOrder(idx, C, P, hs, none, gone),
           NEW q, q \notin P, q # none, q # gone, none \notin P, gone \notin P, hs[q] \in Nat,
           HasEmpty(idx, C, none),
           NEW placed, placed = [idx EXCEPT ![Found(idx, hs[q], {none, gone})] = q]
    PROVE  /\ InOrder(placed, C, P \union {q}, hs, none, gone)
           /\ Cardinality(Used(placed, C, none)) <= Cardinality(Used(idx, C, none)) + 1
<1> DEFINE f == Found(idx, hs[q], {none, gone})
           R == P \union {q}
<1>1. DOMAIN idx = 0 .. C - 1
  BY DEF InOrder
<1>2. /\ f \in 0 .. C - 1 /\ idx[f] \in {none, gone}
      /\ \A s \in 0 .. C - 1 : idx[s] \in {none, gone} =>
            Distance(hs[q] % C, f, C) <= Distance(hs[q] % C, s, C)
  <2> PICK some \in 0 .. C - 1 : idx[some] \in {none, gone}
    BY DEF HasEmpty
  <2> QED BY <1>1, FoundFirst
<1>0. placed = [idx EXCEPT ![f] = q]
  OBVIOUS
<1> HIDE DEF f
<1>3. /\ placed \in [0 .. C - 1 -> {none, gone} \union R]
      /\ placed[f] = q
      /\ \A s \in 0 .. C - 1 : s # f => placed[s] = idx[s]
  BY <1>0, <1>1, <1>2 DEF InOrder
<1>4. HoldsEach(placed, C, R)
  <2> SUFFICES ASSUME NEW p \in R PROVE \E s \in 0 .. C - 1 : placed[s] = p
    BY DEF HoldsEach
  <2>1. CASE p = q
    BY <2>1, <1>2, <1>3
  <2>2. CASE p \in P
    <3>1. PICK s \in 0 .. C - 1 : idx[s] = p
      BY <2>2 DEF InOrder, HoldsEach
    <3> QED BY <3>1, <1>2, <1>3, <2>2
  <2> QED BY <2>1, <2>2
<1>5. HoldsOnce(placed, C, R)
  <2> SUFFICES ASSUME NEW s \in 0 .. C - 1, NEW t \in 0 .. C - 1, placed[s] \in R, placed[s] = placed[t]
               PROVE  s = t
    BY DEF HoldsOnce
  <2>1. \A u \in 0 .. C - 1 : idx[u] # q
    BY DEF InOrder
  <2> QED BY <2>1, <1>3 DEF InOrder, HoldsOnce
<1>6. Reachable(placed, C, R, hs, none)
  <2> SUFFICES ASSUME NEW s \in 0 .. C - 1, NEW t \in 0 .. C - 1, placed[s] \in R,
                      Distance(hs[placed[s]] % C, t, C) < Distance(hs[placed[s]] % C, s, C)
               PROVE  placed[t] # none
    BY DEF Reachable
  <2>1. CASE t = f
    BY <2>1, <1>3
  <2>2. CASE t # f /\ s # f
    <3>1. idx[t] # none
      <4>1. placed[s] = idx[s]
        BY <2>2, <1>3
      <4>2. idx[s] \in P
        BY <4>1 DEF InOrder
      <4> QED BY <4>1, <4>2 DEF InOrder, Reachable
    <3> QED BY <3>1, <2>2, <1>3
  <2>3. CASE t # f /\ s = f
    <3>1. Distance(hs[q] % C, t, C) < Distance(hs[q] % C, f, C)
      BY <2>3, <1>3
    <3>2. hs[q] % C \in 0 .. C - 1
      BY Modulo
    <3>3. Distance(hs[q] % C, t, C) \in Int /\ Distance(hs[q] % C, f, C) \in Int
      BY <3>2, <1>2, Steps
    <3>4. idx[t] \notin {none, gone}
      BY <3>1, <3>3, <1>2
    <3> QED BY <3>4, <2>3, <1>3
  <2> QED BY <2>1, <2>2, <2>3
<1>7. Cardinality(Used(placed, C, none)) <= Cardinality(Used(idx, C, none)) + 1
  BY <1>0, <1>2, UsedOneMore DEF InOrder
<1> QED BY <1>3, <1>4, <1>5, <1>6, <1>7 DEF InOrder

\* The slot of one that is in order is found from its hash.
LEMMA FoundWhereHeld ==
    ASSUME NEW C \in Nat \ {0}, NEW P, NEW hs, NEW none, NEW gone, NEW idx,
           InOrder(idx, C, P, hs, none, gone), NEW p \in P, hs[p] \in Nat
    PROVE  Found(idx, hs[p], {p}) \in 0 .. C - 1 /\ idx[Found(idx, hs[p], {p})] = p
<1>1. PICK s \in 0 .. C - 1 : idx[s] = p
  BY DEF InOrder, HoldsEach
<1>2. DOMAIN idx = 0 .. C - 1
  BY DEF InOrder
<1> DEFINE stops == {p}
<1>3. idx[s] \in stops
  BY <1>1
<1>4. Found(idx, hs[p], stops) \in 0 .. C - 1 /\ idx[Found(idx, hs[p], stops)] \in stops
  <2> HIDE DEF stops
  <2> QED BY <1>2, <1>3, FoundFirst, Zenon
<1> QED BY <1>4

\* Marking the slot of one takes it away.
Marks(marked, idx, p, hash, gone) == marked = [idx EXCEPT ![Found(idx, hash, {p})] = gone]

LEMMA MarkedInOrder ==
    ASSUME NEW C \in Nat \ {0}, NEW P, NEW hs, NEW none, NEW gone, NEW idx,
           InOrder(idx, C, P, hs, none, gone),
           NEW p \in P, hs[p] \in Nat, none # gone, none \notin P, gone \notin P,
           NEW marked, Marks(marked, idx, p, hs[p], gone)
    PROVE  /\ InOrder(marked, C, P \ {p}, hs, none, gone)
           /\ Cardinality(Used(marked, C, none)) = Cardinality(Used(idx, C, none))
<1> DEFINE f == Found(idx, hs[p], {p})
           R == P \ {p}
<1>1. f \in 0 .. C - 1 /\ idx[f] = p /\ DOMAIN idx = 0 .. C - 1
  <2>1. DOMAIN idx = 0 .. C - 1
    BY DEF InOrder
  <2>2. Found(idx, hs[p], {p}) \in 0 .. C - 1 /\ idx[Found(idx, hs[p], {p})] = p
    BY FoundWhereHeld
  <2> QED BY <2>1, <2>2
<1>0. marked = [idx EXCEPT ![f] = gone]
  BY DEF Marks
<1> HIDE DEF f
<1>2. \A s \in 0 .. C - 1 : s # f => idx[s] # p
  BY <1>1 DEF InOrder, HoldsOnce
<1>3. /\ marked \in [0 .. C - 1 -> {none, gone} \union R]
      /\ marked[f] = gone
      /\ \A s \in 0 .. C - 1 : s # f => marked[s] = idx[s]
  BY <1>0, <1>1, <1>2 DEF InOrder
<1>4. HoldsEach(marked, C, R)
  <2> SUFFICES ASSUME NEW q \in R PROVE \E s \in 0 .. C - 1 : marked[s] = q
    BY DEF HoldsEach
  <2>1. PICK s \in 0 .. C - 1 : idx[s] = q
    BY DEF InOrder, HoldsEach
  <2> QED BY <2>1, <1>1, <1>3
<1>5. HoldsOnce(marked, C, R)
  BY <1>1, <1>3 DEF InOrder, HoldsOnce
<1>6. Reachable(marked, C, R, hs, none)
  <2> SUFFICES ASSUME NEW s \in 0 .. C - 1, NEW t \in 0 .. C - 1, marked[s] \in R,
                      Distance(hs[marked[s]] % C, t, C) < Distance(hs[marked[s]] % C, s, C)
               PROVE  marked[t] # none
    BY DEF Reachable
  <2>1. s # f /\ marked[s] = idx[s] /\ idx[s] \in P
    BY <1>3
  <2>2. idx[t] # none
    BY <2>1 DEF InOrder, Reachable
  <2> QED BY <2>2, <1>3
<1>7. Used(marked, C, none) = Used(idx, C, none)
  BY <1>1, <1>3 DEF Used
<1> QED BY <1>3, <1>4, <1>5, <1>6, <1>7 DEF InOrder

\* A search for one of a set H of what may be there, all of them of this
\* hash, ends at one, and at an empty slot when there is none.
OfHash(H, P, hs, hash) == \A p \in H \intersect P : hs[p] = hash
Apart(H, none, gone) == none \notin H /\ gone \notin H

LEMMA SearchFinds ==
    ASSUME NEW C \in Nat \ {0}, NEW P, NEW hs, NEW none, NEW gone, NEW idx,
           InOrder(idx, C, P, hs, none, gone), none \notin P,
           HasEmpty(idx, C, none),
           NEW hash \in Nat, NEW H, Apart(H, none, gone), OfHash(H, P, hs, hash)
    PROVE  /\ H \intersect P = {} => idx[Found(idx, hash, {none} \union H)] = none
           /\ H \intersect P # {} => idx[Found(idx, hash, {none} \union H)] \in H \intersect P
<1> DEFINE stops == {none} \union H
           f == Found(idx, hash, stops)
<1>1. DOMAIN idx = 0 .. C - 1
  BY DEF InOrder
<1>2. /\ f \in 0 .. C - 1 /\ idx[f] \in stops
      /\ \A s \in 0 .. C - 1 : idx[s] \in stops => Distance(hash % C, f, C) <= Distance(hash % C, s, C)
  <2> PICK some \in 0 .. C - 1 : idx[some] \in stops
    BY DEF HasEmpty
  <2> HIDE DEF stops
  <2> QED BY <1>1, FoundFirst
<1> HIDE DEF f
<1>3. idx[f] \in P => idx[f] \in H
  BY <1>2
<1>4. idx[f] \in P \/ idx[f] = none
  BY <1>2 DEF InOrder, Apart
<1>5. ASSUME NEW p \in H \intersect P PROVE idx[f] # none
  <2>1. PICK s \in 0 .. C - 1 : idx[s] = p
    BY DEF InOrder, HoldsEach
  <2>2. Distance(hash % C, f, C) <= Distance(hash % C, s, C)
    BY <2>1, <1>2
  <2>3. CASE f = s
    BY <2>1, <2>3
  <2>4. CASE f # s
    <3>1. hash % C \in 0 .. C - 1
      BY Modulo
    <3>2. /\ Distance(hash % C, f, C) # Distance(hash % C, s, C)
          /\ Distance(hash % C, f, C) \in Int /\ Distance(hash % C, s, C) \in Int
      <4> DEFINE h == hash % C
      <4>1. h \in 0 .. C - 1
        BY <3>1
      <4> HIDE DEF h
      <4>2. Distance(h, f, C) \in 0 .. C - 1 /\ Distance(h, s, C) \in 0 .. C - 1
        BY <4>1, <1>2, Steps
      <4>3. Distance(h, f, C) # Distance(h, s, C)
        BY <4>1, <1>2, <2>4, Steps
      <4> QED BY <4>2, <4>3 DEF h
    <3>3. Distance(hs[p] % C, f, C) < Distance(hs[p] % C, s, C)
      BY <3>2, <2>2 DEF OfHash
    <3> QED BY <3>3, <2>1, <1>2 DEF InOrder, Reachable, OfHash
  <2> QED BY <2>3, <2>4
<1> QED BY <1>3, <1>4, <1>5 DEF f
-----------------------------------------------------------------------------
(* An index built anew, from the positions of a set in their order.        *)

Building(f, C, N, P, hs, none, gone) ==
    f = [n \in 0 .. N |->
            IF n = 0 THEN Filled(C, none)
            ELSE IF n \notin P THEN f[n - 1]
            ELSE [f[n - 1] EXCEPT ![Found(f[n - 1], hs[n], {none, gone})] = n]]

LEMMA BuildingExists ==
    ASSUME NEW C \in Nat \ {0}, NEW N \in Nat, NEW P, NEW hs, NEW none, NEW gone
    PROVE  \E f : Building(f, C, N, P, hs, none, gone)
<1> DEFINE S == [0 .. C - 1 -> {none, gone} \union 1 .. N]
           Step(n, g) == IF n \notin P THEN g ELSE [g EXCEPT ![Found(g, hs[n], {none, gone})] = n]
           G == [n \in 1 .. N |-> [g \in S |-> Step(n, g)]]
           base == Filled(C, none)
<1>1. base \in S
  BY DEF Filled, Slots
<1>2. G \in [1 .. N -> [S -> S]]
  <2>1. \A n \in 1 .. N : \A g \in S : Step(n, g) \in S
    OBVIOUS
  <2> HIDE DEF S, Step
  <2> QED BY <2>1
<1>3. \A n \in 1 .. N : \A g \in S : G[n][g] = Step(n, g)
  <2> HIDE DEF S, Step
  <2> QED OBVIOUS
<1> HIDE DEF S, G, base
<1>4. PICK f \in [0 .. N -> S] : Follows(f, N, base, G)
  BY <1>1, <1>2, Recursion
<1>5. \A n \in 1 .. N : f[n - 1] \in S
  BY <1>4
<1>6. \A n \in 0 .. N : (IF n = 0 THEN base ELSE G[n][f[n - 1]]) = (IF n = 0 THEN base ELSE Step(n, f[n - 1]))
  <2> HIDE DEF Step
  <2> QED BY <1>3, <1>5
<1>7. f = [n \in 0 .. N |-> IF n = 0 THEN base ELSE Step(n, f[n - 1])]
  <2> HIDE DEF Step
  <2> QED BY <1>4, <1>6 DEF Follows
<1>8. Building(f, C, N, P, hs, none, gone)
  BY <1>7, Zenon DEF Building, base
<1> QED BY <1>8

LEMMA BuiltInOrder ==
    ASSUME NEW C \in Nat \ {0}, NEW N \in Nat, N <= C, NEW P \in SUBSET (1 .. N), NEW hs,
           \A p \in P : hs[p] \in Nat, NEW none, NEW gone, none \notin Nat, gone \notin Nat,
           NEW f, Building(f, C, N, P, hs, none, gone)
    PROVE  InOrder(f[N], C, P, hs, none, gone) /\ Cardinality(Used(f[N], C, none)) <= N
<1> DEFINE Q(n) == P \intersect 1 .. n
           Done(n) == InOrder(f[n], C, Q(n), hs, none, gone) /\ Cardinality(Used(f[n], C, none)) <= n
<1>1. Done(0)
  <2>1. f[0] = Filled(C, none)
    BY DEF Building
  <2>2. Q(0) = {}
    OBVIOUS
  <2> QED BY <2>1, <2>2, FilledInOrder
<1>2. ASSUME NEW n \in 1 .. N, Done(n - 1) PROVE Done(n)
  <2>1. n \in 0 .. N /\ n # 0
    OBVIOUS
  <2>2. f[n] = IF n \notin P THEN f[n - 1]
               ELSE [f[n - 1] EXCEPT ![Found(f[n - 1], hs[n], {none, gone})] = n]
    BY <2>1 DEF Building
  <2>3. Cardinality(Used(f[n - 1], C, none)) \in Nat
    BY UsedFinite
  <2>4. CASE n \notin P
    <3>1. Q(n) = Q(n - 1)
      BY <2>4
    <3> HIDE DEF Q
    <3> QED BY <1>2, <2>2, <2>3, <2>4, <3>1
  <2>5. CASE n \in P
    <3>1. Q(n) = Q(n - 1) \union {n} /\ n \notin Q(n - 1) /\ none \notin Q(n - 1) /\ gone \notin Q(n - 1)
      BY <2>5
    <3>2. n # none /\ n # gone /\ hs[n] \in Nat
      BY <2>5
    <3> HIDE DEF Q
    <3>3. HasEmpty(f[n - 1], C, none)
      BY <1>2, <2>3, SomeEmpty
    <3>4. /\ InOrder(f[n], C, Q(n - 1) \union {n}, hs, none, gone)
          /\ Cardinality(Used(f[n], C, none)) <= Cardinality(Used(f[n - 1], C, none)) + 1
      <4> DEFINE g == f[n - 1]
                 R == Q(n - 1)
      <4>1. InOrder(g, C, R, hs, none, gone) /\ HasEmpty(g, C, none)
        BY <1>2, <3>3
      <4>2. n \notin R /\ none \notin R /\ gone \notin R
        BY <3>1
      <4>3. f[n] = [g EXCEPT ![Found(g, hs[n], {none, gone})] = n]
        BY <2>2, <2>5
      <4> HIDE DEF g, R, Q, Done
      <4>4. /\ InOrder(f[n], C, R \union {n}, hs, none, gone)
            /\ Cardinality(Used(f[n], C, none)) <= Cardinality(Used(g, C, none)) + 1
        BY <4>1, <4>2, <4>3, <3>2, PlacedInOrder
      <4> QED BY <4>4 DEF g, R
    <3>5. Cardinality(Used(f[n], C, none)) \in Nat
      BY UsedFinite
    <3> QED BY <1>2, <2>3, <3>1, <3>4, <3>5
  <2> QED BY <2>4, <2>5
<1> DEFINE H == {n \in 0 .. N : Done(n)}
<1>3. Done(N)
  <2> HIDE DEF Done
  <2>1. 0 \in H /\ \A n \in 1 .. N : n - 1 \in H => n \in H
    BY <1>1, <1>2
  <2>2. N \in 0 .. N
    OBVIOUS
  <2>3. \A n \in 0 .. N : n \in H
    <3> HIDE DEF H
    <3> QED BY <2>1, UpTo
  <2> QED BY <2>2, <2>3
<1>4. Q(N) = P
  OBVIOUS
<1> QED BY <1>3, <1>4
-----------------------------------------------------------------------------
(* The table of a Map or Set.                                              *)

Entries(ks) == {at \in DOMAIN ks : ks[at] # Deleted}

\* The arrays by position: no key is present twice, and each entry has its
\* key's hash and a value.
EntriesFit(ks, vs, hs) ==
    /\ ks \in Seq(Key \union {Deleted}) /\ hs \in Seq(Nat) /\ vs \in Seq(Value \union {Deleted})
    /\ Len(hs) = Len(ks) /\ Len(vs) = Len(ks)
    /\ \A at \in Entries(ks) : ks[at] \in Key /\ hs[at] = Hash[ks[at]] /\ vs[at] \in Value
    /\ \A at, other \in Entries(ks) : ks[at] = ks[other] => at = other

\* The index: at most three quarters of its slots would not stop a search
\* for what is not there.
Indexes(idx, ks, hs) ==
    LET C == Capacity(idx)
    IN  /\ C \in Nat \ {0}
        /\ InOrder(idx, C, Entries(ks), hs, TABLE_EMPTY, TABLE_REMOVED)
        /\ Cardinality(Used(idx, C, TABLE_EMPTY)) <= Len(ks)
        /\ Len(ks) * 4 <= C * 3

LEMMA Codes == TABLE_EMPTY \notin Nat /\ TABLE_REMOVED \notin Nat /\ TABLE_EMPTY # TABLE_REMOVED
BY DEF TABLE_EMPTY, TABLE_REMOVED

LEMMA EntriesAreNumbers ==
    ASSUME NEW S, NEW ks \in Seq(S)
    PROVE  /\ Entries(ks) \in SUBSET (1 .. Len(ks)) /\ Entries(ks) \in SUBSET Nat
           /\ TABLE_EMPTY \notin Entries(ks) /\ TABLE_REMOVED \notin Entries(ks)
<1>1. DOMAIN ks = 1 .. Len(ks) /\ Len(ks) \in Nat
  BY LenProperties
<1> QED BY <1>1, Codes DEF Entries

\* The index has an empty slot.
LEMMA IndexHasEmpty ==
    ASSUME NEW ks, NEW vs, NEW hs, NEW idx, EntriesFit(ks, vs, hs), Indexes(idx, ks, hs)
    PROVE  HasEmpty(idx, Capacity(idx), TABLE_EMPTY)
<1> DEFINE C == Capacity(idx)
           U == Cardinality(Used(idx, C, TABLE_EMPTY))
<1>1. C \in Nat \ {0} /\ U <= Len(ks) /\ Len(ks) * 4 <= C * 3 /\ Len(ks) \in Nat
  BY LenProperties DEF Indexes, EntriesFit
<1>2. U \in Nat
  BY <1>1, UsedFinite
<1> HIDE DEF C
<1>3. U < C
  <2> HIDE DEF U
  <2> QED BY <1>1, <1>2
<1>4. HasEmpty(idx, C, TABLE_EMPTY)
  BY <1>1, <1>3, SomeEmpty
<1> QED BY <1>4 DEF C

\* An entry is added in any index in order that has room for its position.
LEMMA AddedInto ==
    ASSUME NEW C \in Nat \ {0}, NEW ks, NEW vs, NEW hs, NEW idx, EntriesFit(ks, vs, hs),
           InOrder(idx, C, Entries(ks), hs, TABLE_EMPTY, TABLE_REMOVED),
           Cardinality(Used(idx, C, TABLE_EMPTY)) <= Len(ks), (Len(ks) + 1) * 4 <= C * 3,
           NEW key \in Key, NEW hash \in Nat
    PROVE  Indexes(Placed(idx, Len(ks) + 1, hash), Append(ks, key), Append(hs, hash))
<1> DEFINE n == Len(ks) + 1
           ks2 == Append(ks, key)
           hs2 == Append(hs, hash)
           placed == Placed(idx, n, hash)
           U == Cardinality(Used(idx, C, TABLE_EMPTY))
<1>1. /\ Len(ks) \in Nat /\ n \in Nat /\ DOMAIN ks = 1 .. Len(ks) /\ Len(hs) = Len(ks)
      /\ DOMAIN ks2 = 1 .. n /\ ks2[n] = key /\ \A i \in 1 .. Len(ks) : ks2[i] = ks[i]
      /\ hs2[n] = hash /\ \A i \in 1 .. Len(ks) : hs2[i] = hs[i]
      /\ Len(ks2) = n
  BY LenProperties DEF EntriesFit
<1>2. U \in Nat
  BY UsedFinite
<1>3. key # Deleted
  BY ProbingAssumption
<1> HIDE DEF n, ks2, hs2
<1>4. Entries(ks2) = Entries(ks) \union {n} /\ n \notin Entries(ks)
  <2>1. n = Len(ks) + 1
    BY DEF n
  <2> QED BY <1>1, <1>3, <2>1 DEF Entries
<1>5. /\ TABLE_EMPTY \notin Entries(ks) /\ TABLE_REMOVED \notin Entries(ks)
      /\ Entries(ks) \in SUBSET (1 .. Len(ks))
  BY EntriesAreNumbers DEF EntriesFit
<1>6. InOrder(idx, C, Entries(ks), hs2, TABLE_EMPTY, TABLE_REMOVED)
  <2>1. \A p \in Entries(ks) : hs2[p] = hs[p]
    BY <1>1, <1>5
  <2> QED BY <2>1, SameHashes
<1>7. HasEmpty(idx, C, TABLE_EMPTY)
  <2>1. U < C
    <3> HIDE DEF U
    <3>1. U <= Len(ks) /\ (Len(ks) + 1) * 4 <= C * 3
      BY DEF U
    <3> QED BY <1>1, <1>2, <3>1
  <2> QED BY <2>1, SomeEmpty
<1>8. placed = [idx EXCEPT ![Found(idx, hs2[n], {TABLE_EMPTY, TABLE_REMOVED})] = n]
  BY <1>1 DEF Placed
<1>9. n # TABLE_EMPTY /\ n # TABLE_REMOVED /\ hs2[n] \in Nat
  BY <1>1, Codes
<1> HIDE DEF placed
<1>10. /\ InOrder(placed, C, Entries(ks) \union {n}, hs2, TABLE_EMPTY, TABLE_REMOVED)
       /\ Cardinality(Used(placed, C, TABLE_EMPTY)) <= U + 1
  BY <1>4, <1>5, <1>6, <1>7, <1>8, <1>9, PlacedInOrder
<1>11. Capacity(placed) = C
  BY <1>10, CapacityOf DEF InOrder
<1>12. Cardinality(Used(placed, C, TABLE_EMPTY)) \in Nat
  BY UsedFinite
<1>13. Cardinality(Used(placed, C, TABLE_EMPTY)) <= Len(ks2) /\ Len(ks2) * 4 <= C * 3
  <2>1. U <= Len(ks) /\ (Len(ks) + 1) * 4 <= C * 3 /\ n = Len(ks) + 1
    BY DEF n
  <2> HIDE DEF U
  <2> QED BY <1>1, <1>2, <1>10, <1>12, <2>1
<1>14. Indexes(placed, ks2, hs2)
  BY <1>4, <1>10, <1>11, <1>13 DEF Indexes
<1> QED BY <1>14 DEF placed, ks2, hs2, n

\* growTableIndex.
LEMMA RegrownInOrder ==
    ASSUME EntriesFit(keys, values, hashes), Indexes(index, keys, hashes)
    PROVE  LET C == 2 * Capacity(index)
           IN  /\ C \in Nat \ {0}
               /\ InOrder(Regrown, C, Entries(keys), hashes, TABLE_EMPTY, TABLE_REMOVED)
               /\ Cardinality(Used(Regrown, C, TABLE_EMPTY)) <= Len(keys)
               /\ (Len(keys) + 1) * 4 <= C * 3
<1> DEFINE C == 2 * Capacity(index)
           N == Len(keys)
           P == Entries(keys)
<1>1. Capacity(index) \in Nat \ {0} /\ N \in Nat /\ N * 4 <= Capacity(index) * 3
  BY LenProperties DEF Indexes, EntriesFit
<1>2. C \in Nat \ {0} /\ N <= C /\ (N + 1) * 4 <= C * 3
  BY <1>1
<1>3. P \in SUBSET (1 .. N) /\ \A p \in P : hashes[p] \in Nat
  <2>1. P \in SUBSET (1 .. N)
    BY EntriesAreNumbers DEF EntriesFit
  <2>2. \A p \in 1 .. N : hashes[p] \in Nat
    BY ElementOfSeq DEF EntriesFit
  <2> QED BY <2>1, <2>2
<1> HIDE DEF C
<1>4. PICK f : Building(f, C, N, P, hashes, TABLE_EMPTY, TABLE_REMOVED)
  BY <1>1, <1>2, BuildingExists
<1>5. \A n \in 1 .. N : n \in P <=> keys[n] # Deleted
  BY LenProperties DEF Entries, EntriesFit
<1> DEFINE Body(g) == [at \in 0 .. Len(keys) |->
                          IF at = 0 THEN Filled(2 * Capacity(index), TABLE_EMPTY)
                          ELSE IF keys[at] = Deleted THEN g[at - 1]
                          ELSE Placed(g[at - 1], at, hashes[at])]
           after == CHOOSE g : g = Body(g)
<1>6. Regrown = after[Len(keys)]
  BY DEF Regrown
<1>7. ASSUME NEW g
      PROVE  Body(g) = [n \in 0 .. N |->
                IF n = 0 THEN Filled(C, TABLE_EMPTY)
                ELSE IF n \notin P THEN g[n - 1]
                ELSE [g[n - 1] EXCEPT ![Found(g[n - 1], hashes[n], {TABLE_EMPTY, TABLE_REMOVED})] = n]]
  <2>1. \A n \in 0 .. N : n # 0 => n \in 1 .. N /\ (n \in P <=> keys[n] # Deleted)
    BY <1>1, <1>5
  <2>2. \A n : Placed(g[n - 1], n, hashes[n]) =
               [g[n - 1] EXCEPT ![Found(g[n - 1], hashes[n], {TABLE_EMPTY, TABLE_REMOVED})] = n]
    BY DEF Placed
  <2> HIDE DEF N, P
  <2>3. N = Len(keys)
    BY DEF N
  <2> QED BY <2>1, <2>2, <2>3, Zenon DEF C
<1> HIDE DEF Body
<1>8. f = Body(f)
  BY <1>4, <1>7, Zenon DEF Building
<1>9. after = Body(after)
  BY <1>8
<1>10. Building(after, C, N, P, hashes, TABLE_EMPTY, TABLE_REMOVED)
  <2> HIDE DEF after
  <2> QED BY <1>9, <1>7, Zenon DEF Building
<1> HIDE DEF after
<1>11. /\ InOrder(after[N], C, P, hashes, TABLE_EMPTY, TABLE_REMOVED)
       /\ Cardinality(Used(after[N], C, TABLE_EMPTY)) <= N
  BY <1>1, <1>2, <1>3, <1>10, Codes, BuiltInOrder
<1> QED BY <1>2, <1>6, <1>11 DEF C

\* A key that is not there is added.
LEMMA AddedFit ==
    ASSUME NEW ks, NEW vs, NEW hs, EntriesFit(ks, vs, hs), NEW key \in Key, NEW value \in Value,
           \A at \in Entries(ks) : ks[at] # key
    PROVE  /\ EntriesFit(Append(ks, key), Append(vs, value), Append(hs, Hash[key]))
           /\ Entries(Append(ks, key)) = Entries(ks) \union {Len(ks) + 1}
<1> DEFINE n == Len(ks) + 1
           ks2 == Append(ks, key)
           vs2 == Append(vs, value)
           hs2 == Append(hs, Hash[key])
<1>1. /\ Len(ks) \in Nat /\ DOMAIN ks = 1 .. Len(ks) /\ Len(hs) = Len(ks) /\ Len(vs) = Len(ks)
      /\ Hash[key] \in Nat
  BY LenProperties, ProbingAssumption DEF EntriesFit
<1>2. /\ ks2 \in Seq(Key \union {Deleted}) /\ Len(ks2) = n /\ DOMAIN ks2 = 1 .. n
      /\ ks2[n] = key /\ \A i \in 1 .. Len(ks) : ks2[i] = ks[i]
  BY <1>1, AppendProperties, LenProperties DEF EntriesFit
<1>3. /\ vs2 \in Seq(Value \union {Deleted}) /\ Len(vs2) = n
      /\ vs2[n] = value /\ \A i \in 1 .. Len(ks) : vs2[i] = vs[i]
  BY <1>1, AppendProperties, LenProperties DEF EntriesFit
<1>4. /\ hs2 \in Seq(Nat) /\ Len(hs2) = n
      /\ hs2[n] = Hash[key] /\ \A i \in 1 .. Len(ks) : hs2[i] = hs[i]
  BY <1>1, AppendProperties, LenProperties DEF EntriesFit
<1>5. n \in Nat /\ n = Len(ks) + 1
  BY <1>1
<1> HIDE DEF n, ks2, vs2, hs2
<1>6. Entries(ks2) = Entries(ks) \union {n} /\ Entries(ks) \in SUBSET (1 .. Len(ks)) /\ n \notin Entries(ks)
  BY <1>1, <1>2, <1>5, ProbingAssumption DEF Entries
<1>7. \A at \in Entries(ks2) : ks2[at] \in Key /\ hs2[at] = Hash[ks2[at]] /\ vs2[at] \in Value
  BY <1>2, <1>3, <1>4, <1>6 DEF EntriesFit
<1>8. \A at, other \in Entries(ks2) : ks2[at] = ks2[other] => at = other
  BY <1>2, <1>6 DEF EntriesFit
<1>9. EntriesFit(ks2, vs2, hs2)
  BY <1>2, <1>3, <1>4, <1>7, <1>8 DEF EntriesFit
<1> QED BY <1>6, <1>9 DEF ks2, vs2, hs2, n

\* An entry's value is written.
LEMMA WrittenFit ==
    ASSUME NEW ks, NEW vs, NEW hs, EntriesFit(ks, vs, hs), NEW p \in Entries(ks), NEW value \in Value
    PROVE  EntriesFit(ks, [vs EXCEPT ![p] = value], hs)
<1> DEFINE vs2 == [vs EXCEPT ![p] = value]
<1>1. /\ Len(ks) \in Nat /\ DOMAIN ks = 1 .. Len(ks) /\ Len(vs) = Len(ks) /\ DOMAIN vs = 1 .. Len(vs)
      /\ Entries(ks) \in SUBSET (1 .. Len(ks))
  BY LenProperties, EntriesAreNumbers DEF EntriesFit
<1>2. vs2 \in Seq(Value \union {Deleted}) /\ Len(vs2) = Len(vs)
  BY <1>1, ExceptSeq DEF EntriesFit
<1>3. \A i \in 1 .. Len(vs) : vs2[i] = IF i = p THEN value ELSE vs[i]
  BY <1>1
<1> HIDE DEF vs2
<1>4. EntriesFit(ks, vs2, hs)
  BY <1>1, <1>2, <1>3 DEF EntriesFit
<1> QED BY <1>4 DEF vs2

\* An entry is removed.
LEMMA RemovedFit ==
    ASSUME NEW ks, NEW vs, NEW hs, EntriesFit(ks, vs, hs), NEW p \in Entries(ks)
    PROVE  /\ EntriesFit([ks EXCEPT ![p] = Deleted], [vs EXCEPT ![p] = Deleted], hs)
           /\ Entries([ks EXCEPT ![p] = Deleted]) = Entries(ks) \ {p}
           /\ Len([ks EXCEPT ![p] = Deleted]) = Len(ks)
<1> DEFINE ks2 == [ks EXCEPT ![p] = Deleted]
           vs2 == [vs EXCEPT ![p] = Deleted]
<1>1. /\ Len(ks) \in Nat /\ DOMAIN ks = 1 .. Len(ks) /\ Len(vs) = Len(ks) /\ DOMAIN vs = 1 .. Len(vs)
      /\ Entries(ks) \in SUBSET (1 .. Len(ks))
  BY LenProperties, EntriesAreNumbers DEF EntriesFit
<1>2. /\ vs2 \in Seq(Value \union {Deleted}) /\ Len(vs2) = Len(vs)
      /\ ks2 \in Seq(Key \union {Deleted}) /\ Len(ks2) = Len(ks)
  BY <1>1, ExceptSeq DEF EntriesFit
<1>3. /\ \A i \in 1 .. Len(vs) : vs2[i] = IF i = p THEN Deleted ELSE vs[i]
      /\ \A i \in 1 .. Len(ks) : ks2[i] = IF i = p THEN Deleted ELSE ks[i]
      /\ DOMAIN ks2 = 1 .. Len(ks)
  BY <1>1
<1> HIDE DEF vs2, ks2
<1>4. Entries(ks2) = Entries(ks) \ {p}
  BY <1>1, <1>3 DEF Entries
<1>5. EntriesFit(ks2, vs2, hs)
  BY <1>1, <1>2, <1>3, <1>4 DEF EntriesFit
<1> QED BY <1>2, <1>4, <1>5 DEF vs2, ks2

LEMMA RemovedIndexes ==
    ASSUME NEW ks, NEW vs, NEW hs, NEW idx, EntriesFit(ks, vs, hs), Indexes(idx, ks, hs),
           NEW p \in Entries(ks)
    PROVE  Indexes([idx EXCEPT ![Found(idx, hs[p], {p})] = TABLE_REMOVED], [ks EXCEPT ![p] = Deleted], hs)
<1> DEFINE C == Capacity(idx)
           idx2 == [idx EXCEPT ![Found(idx, hs[p], {p})] = TABLE_REMOVED]
           ks2 == [ks EXCEPT ![p] = Deleted]
<1>1. Entries(ks2) = Entries(ks) \ {p} /\ Len(ks2) = Len(ks)
  BY RemovedFit
<1>2. /\ hs[p] \in Nat /\ TABLE_EMPTY # TABLE_REMOVED
      /\ TABLE_EMPTY \notin Entries(ks) /\ TABLE_REMOVED \notin Entries(ks)
  <2>1. Hash[ks[p]] \in Nat /\ hs[p] = Hash[ks[p]]
    BY ProbingAssumption DEF EntriesFit
  <2> QED BY <2>1, Codes, EntriesAreNumbers DEF EntriesFit
<1> HIDE DEF ks2, idx2
<1>3. /\ C \in Nat \ {0} /\ InOrder(idx, C, Entries(ks), hs, TABLE_EMPTY, TABLE_REMOVED)
      /\ Cardinality(Used(idx, C, TABLE_EMPTY)) <= Len(ks) /\ Len(ks) * 4 <= C * 3
  BY DEF Indexes
<1> HIDE DEF C
<1>4. /\ InOrder(idx2, C, Entries(ks) \ {p}, hs, TABLE_EMPTY, TABLE_REMOVED)
      /\ Cardinality(Used(idx2, C, TABLE_EMPTY)) = Cardinality(Used(idx, C, TABLE_EMPTY))
  <2>1. Marks(idx2, idx, p, hs[p], TABLE_REMOVED)
    BY DEF idx2, Marks
  <2> QED BY <1>2, <1>3, <2>1, MarkedInOrder
<1>5. Capacity(idx2) = C
  BY <1>3, <1>4, CapacityOf DEF InOrder
<1>6. Indexes(idx2, ks2, hs)
  BY <1>1, <1>3, <1>4, <1>5 DEF Indexes
<1> QED BY <1>6 DEF idx2, ks2

\* The table is cleared: the positions stay taken.
LEMMA ClearedFit ==
    ASSUME NEW ks, NEW vs, NEW hs, NEW idx, EntriesFit(ks, vs, hs), Indexes(idx, ks, hs)
    PROVE  LET none == [at \in DOMAIN ks |-> Deleted]
           IN  /\ EntriesFit(none, none, hs)
               /\ Indexes(Filled(Capacity(idx), TABLE_EMPTY), none, hs)
               /\ Len(none) = Len(ks) /\ Entries(none) = {}
<1> DEFINE C == Capacity(idx)
           none == [at \in DOMAIN ks |-> Deleted]
           filled == Filled(C, TABLE_EMPTY)
<1>1. DOMAIN ks = 1 .. Len(ks) /\ Len(ks) \in Nat
  BY LenProperties DEF EntriesFit
<1>2. none \in Seq(Key \union {Deleted}) /\ none \in Seq(Value \union {Deleted}) /\ Len(none) = Len(ks)
  <2>1. \A S : Deleted \in S => none \in Seq(S) /\ Len(none) = Len(ks)
    BY <1>1, IsASeq
  <2> QED BY <2>1
<1>3. Entries(none) = {}
  BY DEF Entries
<1> HIDE DEF none
<1>4. EntriesFit(none, none, hs)
  BY <1>2, <1>3 DEF EntriesFit
<1>5. C \in Nat \ {0} /\ Len(ks) * 4 <= C * 3
  BY DEF Indexes
<1> HIDE DEF C
<1>6. InOrder(filled, C, {}, hs, TABLE_EMPTY, TABLE_REMOVED) /\ Cardinality(Used(filled, C, TABLE_EMPTY)) = 0
  BY <1>5, FilledInOrder
<1>7. Capacity(filled) = C
  BY <1>5, <1>6, CapacityOf DEF InOrder
<1> HIDE DEF filled
<1>8. Indexes(filled, none, hs)
  BY <1>1, <1>2, <1>3, <1>5, <1>6, <1>7 DEF Indexes
<1> QED BY <1>2, <1>3, <1>4, <1>8 DEF none, filled, C

\* The entries of a key, and what a search for them ends at.
OfKey(ks, key) == {at \in Entries(ks) : ks[at] = key}

LEMMA LookupIn ==
    ASSUME NEW ks, NEW vs, NEW hs, NEW idx, EntriesFit(ks, vs, hs), Indexes(idx, ks, hs),
           NEW key \in Key, NEW held,
           held = idx[Found(idx, Hash[key], {TABLE_EMPTY} \union OfKey(ks, key))]
    PROVE  /\ OfKey(ks, key) = {} => held = TABLE_EMPTY
           /\ OfKey(ks, key) # {} => held \in OfKey(ks, key)
           /\ Absent \notin OfKey(ks, key) /\ TABLE_EMPTY \notin OfKey(ks, key)
<1> DEFINE C == Capacity(idx)
           P == Entries(ks)
           H == OfKey(ks, key)
<1>1. /\ C \in Nat \ {0} /\ InOrder(idx, C, P, hs, TABLE_EMPTY, TABLE_REMOVED)
      /\ HasEmpty(idx, C, TABLE_EMPTY)
  BY IndexHasEmpty DEF Indexes
<1>2. P \in SUBSET (1 .. Len(ks)) /\ TABLE_EMPTY \notin P /\ TABLE_REMOVED \notin P
  BY EntriesAreNumbers DEF EntriesFit
<1>3. /\ Hash[key] \in Nat /\ H \intersect P = H /\ Apart(H, TABLE_EMPTY, TABLE_REMOVED)
      /\ OfHash(H, P, hs, Hash[key])
  BY <1>2, ProbingAssumption DEF EntriesFit, Apart, OfHash, OfKey
<1>4. Absent \notin H
  BY <1>2 DEF Absent, OfKey
<1> HIDE DEF C, P, H
<1>5. /\ H \intersect P = {} => held = TABLE_EMPTY
      /\ H \intersect P # {} => held \in H \intersect P
  <2> DEFINE f == Found(idx, Hash[key], {TABLE_EMPTY} \union H)
  <2>1. /\ H \intersect P = {} => idx[f] = TABLE_EMPTY
        /\ H \intersect P # {} => idx[f] \in H \intersect P
    BY <1>1, <1>2, <1>3, SearchFinds
  <2>2. held = idx[f]
    BY DEF H
  <2> HIDE DEF f
  <2> QED BY <2>1, <2>2
<1> QED BY <1>3, <1>4, <1>5 DEF H, Apart

\* tableFind finds what is there, and nothing else.
LEMMA Lookup ==
    ASSUME EntriesFit(keys, values, hashes), Indexes(index, keys, hashes), NEW key \in Key
    PROVE  /\ TableFind(key) # Absent => TableFind(key) \in Entries(keys) /\ keys[TableFind(key)] = key
           /\ TableFind(key) = Absent => \A at \in Entries(keys) : keys[at] # key
<1> DEFINE H == OfKey(keys, key)
           held == index[Found(index, Hash[key], {TABLE_EMPTY} \union H)]
<1>1. Holding(key) = H
  <2>1. key # Deleted
    BY ProbingAssumption
  <2> QED BY <2>1 DEF Holding, Entries, EntriesFit, OfKey
<1>2. (H = {} => held = TABLE_EMPTY) /\ (H # {} => held \in H) /\ Absent \notin H /\ TABLE_EMPTY \notin H
  BY LookupIn
<1>3. TableFind(key) = IF held \in H THEN held ELSE Absent
  BY <1>1 DEF TableFind
<1> HIDE DEF held
<1> QED BY <1>2, <1>3 DEF OfKey

\* A set of numbers with the one past a bound and with each one's
\* predecessor has them all.
LEMMA DownFrom ==
    ASSUME NEW N \in Nat, NEW H, N + 1 \in H, \A p \in 1 .. N : p + 1 \in H => p \in H
    PROVE  \A p \in 1 .. N + 1 : p \in H
<1> DEFINE K == {n \in 0 .. N : N + 1 - n \in H}
<1>1. 0 \in K
  OBVIOUS
<1>2. ASSUME NEW n \in 1 .. N, n - 1 \in K PROVE n \in K
  <2>1. N + 1 - n \in 1 .. N /\ (N + 1 - n) + 1 = N + 1 - (n - 1)
    OBVIOUS
  <2> QED BY <1>2, <2>1
<1>3. \A n \in 0 .. N : n \in K
  <2> HIDE DEF K
  <2> QED BY <1>1, <1>2, UpTo
<1> SUFFICES ASSUME NEW p \in 1 .. N + 1 PROVE p \in H
  OBVIOUS
<1>4. N + 1 - p \in 0 .. N /\ N + 1 - (N + 1 - p) = p
  OBVIOUS
<1>5. N + 1 - p \in K
  BY <1>3, <1>4
<1> QED BY <1>4, <1>5

\* The keys present from a position on.
LEMMA LiveKeysFrom ==
    ASSUME NEW ks \in Seq(Key \union {Deleted})
    PROVE  /\ LiveKeysOf(ks, Len(ks) + 1) = <<>>
           /\ \A p \in 1 .. Len(ks) :
                 LiveKeysOf(ks, p) = IF ks[p] = Deleted THEN LiveKeysOf(ks, p + 1)
                                     ELSE <<ks[p]>> \o LiveKeysOf(ks, p + 1)
           /\ \A p \in 1 .. Len(ks) + 1 : LiveKeysOf(ks, p) \in Seq(Key)
<1> DEFINE N == Len(ks)
           S == Seq(Key)
           Step(n, q) == IF ks[N + 1 - n] = Deleted THEN q ELSE <<ks[N + 1 - n]>> \o q
           G == [n \in 1 .. N |-> [q \in S |-> Step(n, q)]]
           Body(g) == [n \in 0 .. N |-> IF n = 0 THEN <<>> ELSE Step(n, g[n - 1])]
           ofLast == CHOOSE g : g = Body(g)
<1>1. N \in Nat /\ \A i \in 1 .. N : ks[i] \in Key \union {Deleted}
  BY LenProperties, ElementOfSeq
<1>2. \A p : LiveKeysOf(ks, p) = ofLast[N + 1 - p]
  BY DEF LiveKeysOf
<1>3. \A n \in 1 .. N : \A q \in S : Step(n, q) \in S
  <2> SUFFICES ASSUME NEW n \in 1 .. N, NEW q \in S PROVE Step(n, q) \in S
    OBVIOUS
  <2>1. N + 1 - n \in 1 .. N
    BY <1>1
  <2>2. ks[N + 1 - n] \in Key \union {Deleted}
    BY <1>1, <2>1
  <2>3. ks[N + 1 - n] # Deleted => <<ks[N + 1 - n]>> \in Seq(Key)
    BY <2>2
  <2> QED BY <2>3, ConcatProperties
<1> HIDE DEF N, S, Step
<1>4. G \in [1 .. N -> [S -> S]] /\ \A n \in 1 .. N : \A q \in S : G[n][q] = Step(n, q)
  BY <1>3
<1>5. <<>> \in S
  BY EmptySeq DEF S
<1> HIDE DEF G
<1>6. PICK f \in [0 .. N -> S] : Follows(f, N, <<>>, G)
  BY <1>1, <1>4, <1>5, Recursion
<1>7. \A n \in 1 .. N : f[n - 1] \in S
  BY <1>1
<1>8. f = Body(f)
  <2>1. \A n \in 0 .. N : n # 0 => n \in 1 .. N
    BY <1>1
  <2>2. \A n \in 0 .. N : n # 0 => G[n][f[n - 1]] = Step(n, f[n - 1])
    BY <1>4, <1>7, <2>1
  <2> QED BY <1>6, <2>2, Zenon DEF Follows
<1> HIDE DEF Body
<1>9. ofLast = Body(ofLast)
  BY <1>8
<1> HIDE DEF ofLast
<1>10. ofLast[0] = <<>> /\ \A n \in 1 .. N : ofLast[n] = Step(n, ofLast[n - 1])
  BY <1>1, <1>9 DEF Body
<1>11. \A n \in 0 .. N : ofLast[n] \in S
  <2> DEFINE H == {n \in 0 .. N : ofLast[n] \in S}
  <2>1. 0 \in H /\ \A n \in 1 .. N : n - 1 \in H => n \in H
    BY <1>1, <1>3, <1>5, <1>10
  <2>2. \A n \in 0 .. N : n \in H
    <3> HIDE DEF H
    <3> QED BY <1>1, <2>1, UpTo
  <2> QED BY <2>2
<1>12. N + 1 - (N + 1) = 0 /\ \A p \in 1 .. N : /\ N + 1 - p \in 1 .. N /\ N + 1 - (N + 1 - p) = p
                                               /\ (N + 1 - p) - 1 = N + 1 - (p + 1)
  BY <1>1
<1>13. \A p \in 1 .. N : Step(N + 1 - p, ofLast[N + 1 - (p + 1)]) =
           IF ks[p] = Deleted THEN ofLast[N + 1 - (p + 1)] ELSE <<ks[p]>> \o ofLast[N + 1 - (p + 1)]
  BY <1>12 DEF Step
<1>14. \A p \in 1 .. N : ofLast[N + 1 - p] = Step(N + 1 - p, ofLast[N + 1 - (p + 1)])
  BY <1>10, <1>12
<1>15. \A p \in 1 .. N + 1 : N + 1 - p \in 0 .. N
  BY <1>1
<1>16. LiveKeysOf(ks, N + 1) = <<>>
  BY <1>2, <1>10, <1>12
<1>17. \A p \in 1 .. N : LiveKeysOf(ks, p) = IF ks[p] = Deleted THEN LiveKeysOf(ks, p + 1)
                                              ELSE <<ks[p]>> \o LiveKeysOf(ks, p + 1)
  BY <1>2, <1>13, <1>14
<1>18. \A p \in 1 .. N + 1 : LiveKeysOf(ks, p) \in S
  BY <1>2, <1>11, <1>15
<1> QED BY <1>16, <1>17, <1>18 DEF N, S
-----------------------------------------------------------------------------
(* Sequences less one element.                                             *)

LEMMA RemovedAt ==
    ASSUME NEW S, NEW s \in Seq(S), NEW m \in 1 .. Len(s)
    PROVE  /\ RemoveAt(s, m) \in Seq(S)
           /\ Len(RemoveAt(s, m)) = Len(s) - 1
           /\ \A i \in 1 .. Len(s) - 1 : RemoveAt(s, m)[i] = IF i < m THEN s[i] ELSE s[i + 1]
<1>1. Len(s) \in Nat /\ m \in Nat /\ m >= 1 /\ m <= Len(s) /\ \A i \in 1 .. Len(s) : s[i] \in S
  BY LenProperties, ElementOfSeq
<1> DEFINE a == SubSeq(s, 1, m - 1)
           b == SubSeq(s, m + 1, Len(s))
<1>2. /\ a \in Seq(S) /\ Len(a) = m - 1 /\ \A i \in 1 .. m - 1 : a[i] = s[i]
  <2>1. \A i \in 1 .. m - 1 : s[i] \in S
    BY <1>1
  <2>2. /\ a \in Seq(S) /\ Len(a) = IF 1 <= m - 1 THEN m - 1 - 1 + 1 ELSE 0
        /\ \A i \in 1 .. m - 1 - 1 + 1 : a[i] = s[1 + i - 1]
    BY <1>1, <2>1, SubSeqProperties
  <2> HIDE DEF a
  <2> QED BY <1>1, <2>2
<1>3. /\ b \in Seq(S) /\ Len(b) = Len(s) - m /\ \A i \in 1 .. Len(s) - m : b[i] = s[m + i]
  <2>1. \A i \in m + 1 .. Len(s) : s[i] \in S
    BY <1>1
  <2>2. /\ b \in Seq(S) /\ Len(b) = IF m + 1 <= Len(s) THEN Len(s) - (m + 1) + 1 ELSE 0
        /\ \A i \in 1 .. Len(s) - (m + 1) + 1 : b[i] = s[m + 1 + i - 1]
    BY <1>1, <2>1, SubSeqProperties
  <2> HIDE DEF b
  <2> QED BY <1>1, <2>2
<1> HIDE DEF a, b
<1>4. RemoveAt(s, m) = a \o b
  BY DEF RemoveAt, a, b
<1>5. /\ a \o b \in Seq(S) /\ Len(a \o b) = Len(a) + Len(b)
      /\ \A i \in 1 .. Len(a) + Len(b) : (a \o b)[i] = IF i <= Len(a) THEN a[i] ELSE b[i - Len(a)]
  BY <1>2, <1>3, ConcatProperties
<1> QED BY <1>1, <1>2, <1>3, <1>4, <1>5

LEMMA FirstRemoved ==
    ASSUME NEW S, NEW s \in Seq(S), NEW m \in 1 .. Len(s), NEW k, s[m] = k,
           \A i \in 1 .. m - 1 : s[i] # k
    PROVE  RemoveFirst(s, k) = RemoveAt(s, m)
<1> DEFINE I == {i \in 1 .. Len(s) : s[i] = k}
<1>1. Len(s) \in Nat
  BY LenProperties
<1>2. m \in I /\ \A i \in I : m <= i
  BY <1>1
<1>3. Min(I) = m
  <2> HIDE DEF I
  <2>1. \A x \in I : (\A y \in I : x <= y) => x = m
    <3>1. I \in SUBSET Nat
      BY <1>1 DEF I
    <3> QED BY <1>2, <3>1
  <2> QED BY <1>2, <2>1 DEF Min
<1>4. SelectInSeq(s, LAMBDA v : v = k) = Min(I)
  BY <1>2 DEF SelectInSeq
<1> QED BY <1>2, <1>3, <1>4 DEF RemoveFirst

LEMMA NothingRemoved ==
    ASSUME NEW s, NEW k, \A i \in 1 .. Len(s) : s[i] # k
    PROVE  RemoveFirst(s, k) = s
BY DEF RemoveFirst

\* One element before a sequence.
LEMMA OneBefore ==
    ASSUME NEW S, NEW s \in Seq(S), NEW x \in S
    PROVE  /\ <<x>> \o s \in Seq(S) /\ Len(<<x>> \o s) = Len(s) + 1
           /\ \A i \in 1 .. Len(s) + 1 : (<<x>> \o s)[i] = IF i = 1 THEN x ELSE s[i - 1]
<1>1. <<x>> \in Seq(S) /\ Len(<<x>>) = 1 /\ <<x>>[1] = x /\ Len(s) \in Nat
  BY LenProperties
<1>2. /\ <<x>> \o s \in Seq(S) /\ Len(<<x>> \o s) = 1 + Len(s)
      /\ \A i \in 1 .. 1 + Len(s) : (<<x>> \o s)[i] = IF i <= 1 THEN <<x>>[i] ELSE s[i - 1]
  BY <1>1, ConcatProperties
<1> QED BY <1>1, <1>2

LEMMA HeadTailBefore ==
    ASSUME NEW S, NEW s \in Seq(S), NEW x \in S
    PROVE  <<x>> \o s # <<>> /\ Head(<<x>> \o s) = x /\ Tail(<<x>> \o s) = s
<1> DEFINE t == <<x>> \o s
<1>1. /\ t \in Seq(S) /\ Len(t) = Len(s) + 1
      /\ \A i \in 1 .. Len(s) + 1 : t[i] = IF i = 1 THEN x ELSE s[i - 1]
  BY OneBefore
<1>2. Len(s) \in Nat
  BY LenProperties
<1> HIDE DEF t
<1>3. t # <<>> /\ Head(t) = x
  BY <1>1, <1>2, EmptySeq
<1>4. /\ Tail(t) \in Seq(S) /\ Len(Tail(t)) = Len(s)
      /\ \A i \in 1 .. Len(s) : Tail(t)[i] = s[i]
  BY <1>1, <1>2, <1>3, HeadTailProperties
<1>5. Tail(t) = s
  BY <1>4, SeqEqual
<1> QED BY <1>3, <1>5 DEF t

LEMMA HeadRemoved ==
    ASSUME NEW S, NEW s \in Seq(S), NEW x \in S
    PROVE  RemoveFirst(<<x>> \o s, x) = s
<1> DEFINE t == <<x>> \o s
<1>1. /\ t \in Seq(S) /\ Len(t) = Len(s) + 1 /\ Len(s) \in Nat
      /\ \A i \in 1 .. Len(s) + 1 : t[i] = IF i = 1 THEN x ELSE s[i - 1]
  BY OneBefore, LenProperties
<1> HIDE DEF t
<1>2. RemoveFirst(t, x) = RemoveAt(t, 1)
  BY <1>1, FirstRemoved
<1>3. /\ RemoveAt(t, 1) \in Seq(S) /\ Len(RemoveAt(t, 1)) = Len(s)
      /\ \A i \in 1 .. Len(t) - 1 : RemoveAt(t, 1)[i] = IF i < 1 THEN t[i] ELSE t[i + 1]
  <2>1. 1 \in 1 .. Len(t) /\ Len(t) - 1 = Len(s)
    BY <1>1
  <2> QED BY <1>1, <2>1, RemovedAt
<1>4. ASSUME NEW i \in 1 .. Len(s) PROVE RemoveAt(t, 1)[i] = s[i]
  <2>1. i \in 1 .. Len(t) - 1 /\ ~ (i < 1)
    BY <1>1
  <2>2. RemoveAt(t, 1)[i] = t[i + 1]
    BY <1>3, <2>1
  <2>3. i + 1 \in 1 .. Len(s) + 1 /\ i + 1 # 1 /\ (i + 1) - 1 = i
    BY <1>1
  <2> QED BY <1>1, <2>2, <2>3
<1>5. RemoveAt(t, 1) = s
  BY <1>3, <1>4, SeqEqual
<1> QED BY <1>2, <1>5 DEF t

LEMMA RemovedAfter ==
    ASSUME NEW S, NEW s \in Seq(S), NEW x \in S, NEW k, x # k
    PROVE  /\ RemoveFirst(<<x>> \o s, k) = <<x>> \o RemoveFirst(s, k)
           /\ RemoveFirst(s, k) \in Seq(S)
<1> DEFINE t == <<x>> \o s
<1>1. /\ t \in Seq(S) /\ Len(t) = Len(s) + 1 /\ Len(s) \in Nat
      /\ \A i \in 1 .. Len(s) + 1 : t[i] = IF i = 1 THEN x ELSE s[i - 1]
  BY OneBefore, LenProperties
<1> HIDE DEF t
<1>2. CASE \A i \in 1 .. Len(s) : s[i] # k
  <2>1. \A i \in 1 .. Len(t) : t[i] # k
    BY <1>1, <1>2
  <2>2. RemoveFirst(t, k) = t /\ RemoveFirst(s, k) = s
    BY <1>2, <2>1, NothingRemoved
  <2> QED BY <1>2, <2>2 DEF t
<1>3. CASE \E i \in 1 .. Len(s) : s[i] = k
  <2> DEFINE I == {i \in 1 .. Len(s) : s[i] = k}
  <2>1. I \in SUBSET Nat /\ I # {}
    BY <1>3
  <2>2. PICK m \in I : \A i \in I : m <= i
    <3> HIDE DEF I
    <3> QED BY <2>1, Least
  <2>3. m \in 1 .. Len(s) /\ s[m] = k /\ \A i \in 1 .. m - 1 : s[i] # k
    BY <1>1, <2>2
  <2>4. m + 1 \in 1 .. Len(t) /\ t[m + 1] = k /\ \A i \in 1 .. (m + 1) - 1 : t[i] # k
    <3>1. m \in Nat /\ m >= 1 /\ m <= Len(s)
      BY <1>1, <2>3
    <3>2. m + 1 \in 1 .. Len(s) + 1 /\ t[m + 1] = s[m]
      BY <1>1, <3>1
    <3>3. ASSUME NEW i \in 1 .. m PROVE t[i] # k
      <4>1. i \in 1 .. Len(s) + 1 /\ t[i] = IF i = 1 THEN x ELSE s[i - 1]
        BY <1>1, <3>1
      <4>2. i # 1 => i - 1 \in 1 .. m - 1
        BY <3>1
      <4> QED BY <4>1, <4>2, <2>3
    <3>4. (m + 1) - 1 = m
      BY <3>1
    <3> QED BY <1>1, <2>3, <3>2, <3>3, <3>4
  <2>5. RemoveFirst(s, k) = RemoveAt(s, m)
    BY <2>3, FirstRemoved
  <2>6. RemoveFirst(t, k) = RemoveAt(t, m + 1)
    BY <1>1, <2>4, FirstRemoved
  <2> DEFINE u == RemoveAt(s, m)
             v == RemoveAt(t, m + 1)
             w == <<x>> \o u
  <2>7. /\ u \in Seq(S) /\ Len(u) = Len(s) - 1
        /\ \A i \in 1 .. Len(s) - 1 : u[i] = IF i < m THEN s[i] ELSE s[i + 1]
    BY <2>3, RemovedAt
  <2>8. /\ v \in Seq(S) /\ Len(v) = Len(t) - 1
        /\ \A i \in 1 .. Len(t) - 1 : v[i] = IF i < m + 1 THEN t[i] ELSE t[i + 1]
    BY <1>1, <2>4, RemovedAt
  <2> HIDE DEF u, v
  <2>9. /\ w \in Seq(S) /\ Len(w) = Len(u) + 1
        /\ \A i \in 1 .. Len(u) + 1 : w[i] = IF i = 1 THEN x ELSE u[i - 1]
    BY <2>7, OneBefore
  <2> HIDE DEF w
  <2>10. Len(v) = Len(w) /\ \A i \in 1 .. Len(v) : v[i] = w[i]
    <3>1. m \in Nat /\ m >= 1 /\ m <= Len(s) /\ Len(t) - 1 = Len(s) /\ Len(u) + 1 = Len(s)
      BY <1>1, <2>3, <2>7
    <3>2. Len(v) = Len(s) /\ Len(w) = Len(s)
      BY <3>1, <2>8, <2>9
    <3>3. ASSUME NEW i \in 1 .. Len(s) PROVE v[i] = w[i]
      <4>1. /\ v[i] = IF i < m + 1 THEN t[i] ELSE t[i + 1]
            /\ w[i] = IF i = 1 THEN x ELSE u[i - 1]
        BY <3>1, <2>8, <2>9
      <4>2. t[i] = IF i = 1 THEN x ELSE s[i - 1]
        BY <1>1
      <4>3. i + 1 \in 1 .. Len(s) + 1 /\ i + 1 # 1 /\ (i + 1) - 1 = i
        BY <1>1
      <4>4. t[i + 1] = s[i]
        BY <1>1, <4>3
      <4>5. CASE i = 1
        BY <4>1, <4>2, <4>5, <3>1
      <4>6. CASE i # 1
        <5>1. i - 1 \in 1 .. Len(s) - 1 /\ (i - 1) + 1 = i
          BY <1>1, <4>6
        <5>2. u[i - 1] = IF i - 1 < m THEN s[i - 1] ELSE s[i]
          BY <2>7, <5>1
        <5>3. (i - 1 < m) <=> (i < m + 1)
          BY <3>1, <1>1
        <5> QED BY <4>1, <4>2, <4>4, <4>6, <5>2, <5>3
      <4> QED BY <4>5, <4>6
    <3> QED BY <3>2, <3>3
  <2>11. v = w
    BY <2>8, <2>9, <2>10, SeqEqual
  <2> QED BY <2>5, <2>6, <2>7, <2>11 DEF t, u, v, w
<1> QED BY <1>2, <1>3
-----------------------------------------------------------------------------
(* How the keys present change.                                            *)

\* What the keys present from a position on are.
Occurs(s, key) == \E i \in 1 .. Len(s) : s[i] = key
PresentFrom(ks, p, key) == \E at \in Entries(ks) : p <= at /\ ks[at] = key

LEMMA LiveKeysAre ==
    ASSUME NEW ks, NEW vs, NEW hs, EntriesFit(ks, vs, hs), NEW p \in 1 .. Len(ks) + 1, NEW key
    PROVE  Occurs(LiveKeysOf(ks, p), key) <=> PresentFrom(ks, p, key)
<1> DEFINE N == Len(ks)
           Q(n) == (\E i \in 1 .. Len(LiveKeysOf(ks, n)) : LiveKeysOf(ks, n)[i] = key) <=>
                      \E at \in Entries(ks) : n <= at /\ ks[at] = key
           H == {n \in 1 .. N + 1 : Q(n)}
<1>1. /\ ks \in Seq(Key \union {Deleted}) /\ N \in Nat /\ DOMAIN ks = 1 .. N
      /\ Entries(ks) \in SUBSET (1 .. N)
  BY LenProperties, EntriesAreNumbers DEF EntriesFit
<1>2. /\ LiveKeysOf(ks, N + 1) = <<>>
      /\ \A n \in 1 .. N : LiveKeysOf(ks, n) = IF ks[n] = Deleted THEN LiveKeysOf(ks, n + 1)
                                               ELSE <<ks[n]>> \o LiveKeysOf(ks, n + 1)
      /\ \A n \in 1 .. N + 1 : LiveKeysOf(ks, n) \in Seq(Key)
  BY <1>1, LiveKeysFrom
<1>3. Q(N + 1)
  <2>1. Len(LiveKeysOf(ks, N + 1)) = 0
    BY <1>2, EmptySeq
  <2> QED BY <1>1, <2>1
<1>4. ASSUME NEW n \in 1 .. N, Q(n + 1) PROVE Q(n)
  <2> DEFINE s == LiveKeysOf(ks, n + 1)
             t == LiveKeysOf(ks, n)
  <2>1. n + 1 \in 1 .. N + 1 /\ n \in DOMAIN ks /\ n \in Nat
    BY <1>1
  <2>2. s \in Seq(Key) /\ Len(s) \in Nat
    BY <1>2, <2>1, LenProperties
  <2>3. CASE ks[n] = Deleted
    <3>1. t = s
      BY <1>2, <2>3
    <3>2. \A at \in Entries(ks) : n <= at <=> n + 1 <= at
      BY <1>1, <2>1, <2>3 DEF Entries
    <3> QED BY <1>4, <3>1, <3>2
  <2>4. CASE ks[n] # Deleted
    <3>1. t = <<ks[n]>> \o s /\ n \in Entries(ks) /\ ks[n] \in Key
      BY <1>2, <2>1, <2>4 DEF Entries, EntriesFit
    <3>2. /\ Len(t) = Len(s) + 1
          /\ \A i \in 1 .. Len(s) + 1 : t[i] = IF i = 1 THEN ks[n] ELSE s[i - 1]
      BY <2>2, <3>1, OneBefore
    <3> HIDE DEF s, t
    <3>3. (\E i \in 1 .. Len(t) : t[i] = key) <=> ks[n] = key \/ \E i \in 1 .. Len(s) : s[i] = key
      <4>1. 1 \in 1 .. Len(s) + 1 /\ t[1] = ks[n]
        BY <2>2, <3>2
      <4>2. ASSUME NEW i \in 1 .. Len(s), s[i] = key PROVE \E j \in 1 .. Len(t) : t[j] = key
        <5>1. i + 1 \in 1 .. Len(s) + 1 /\ i + 1 # 1 /\ (i + 1) - 1 = i
          BY <2>2
        <5> QED BY <4>2, <5>1, <3>2
      <4>3. ASSUME NEW i \in 1 .. Len(t), t[i] = key, i # 1 PROVE \E j \in 1 .. Len(s) : s[j] = key
        <5>1. i - 1 \in 1 .. Len(s)
          BY <2>2, <3>2, <4>3
        <5> QED BY <4>3, <5>1, <3>2
      <4> QED BY <4>1, <4>2, <4>3, <3>2
    <3>4. \A at \in Entries(ks) : n <= at <=> at = n \/ n + 1 <= at
      BY <1>1, <2>1
    <3>5. (\E at \in Entries(ks) : n <= at /\ ks[at] = key) <=>
            ks[n] = key \/ \E at \in Entries(ks) : n + 1 <= at /\ ks[at] = key
      BY <3>1, <3>4
    <3> QED BY <1>4, <3>3, <3>5 DEF s, t
  <2> QED BY <2>3, <2>4
<1>5. \A n \in 1 .. N + 1 : n \in H
  <2> HIDE DEF Q
  <2>1. N + 1 \in H /\ \A n \in 1 .. N : n + 1 \in H => n \in H
    BY <1>1, <1>3, <1>4
  <2> HIDE DEF H
  <2> QED BY <1>1, <2>1, DownFrom
<1> QED BY <1>5 DEF Occurs, PresentFrom

\* One element after a sequence.
LEMMA AppendedAfter ==
    ASSUME NEW S, NEW s \in Seq(S), NEW x \in S, NEW y \in S
    PROVE  Append(<<x>> \o s, y) = <<x>> \o Append(s, y)
<1> DEFINE t == <<x>> \o s
           a == Append(t, y)
           u == Append(s, y)
           b == <<x>> \o u
<1>1. /\ t \in Seq(S) /\ Len(t) = Len(s) + 1 /\ Len(s) \in Nat
      /\ \A i \in 1 .. Len(s) + 1 : t[i] = IF i = 1 THEN x ELSE s[i - 1]
  BY OneBefore, LenProperties
<1>2. /\ u \in Seq(S) /\ Len(u) = Len(s) + 1 /\ u[Len(s) + 1] = y
      /\ \A i \in 1 .. Len(s) : u[i] = s[i]
  BY AppendProperties
<1> HIDE DEF t, u
<1>3. /\ a \in Seq(S) /\ Len(a) = Len(t) + 1 /\ a[Len(t) + 1] = y
      /\ \A i \in 1 .. Len(t) : a[i] = t[i]
  BY <1>1, AppendProperties
<1>4. /\ b \in Seq(S) /\ Len(b) = Len(u) + 1
      /\ \A i \in 1 .. Len(u) + 1 : b[i] = IF i = 1 THEN x ELSE u[i - 1]
  BY <1>2, OneBefore
<1> HIDE DEF a, b
<1>5. ASSUME NEW i \in 1 .. Len(a) PROVE a[i] = b[i]
  <2>1. CASE i = 1
    BY <1>1, <1>3, <1>4, <1>2, <2>1
  <2>2. CASE i = Len(s) + 2
    <3>1. i = Len(t) + 1 /\ i # 1 /\ i - 1 = Len(s) + 1 /\ i \in 1 .. Len(u) + 1
      BY <1>1, <1>2, <2>2
    <3> QED BY <1>3, <1>4, <1>2, <3>1
  <2>3. CASE i # 1 /\ i # Len(s) + 2
    <3>1. i \in 1 .. Len(t) /\ i - 1 \in 1 .. Len(s) /\ i \in 1 .. Len(u) + 1
      BY <1>1, <1>2, <1>3, <2>3
    <3>2. a[i] = s[i - 1]
      BY <1>1, <1>3, <2>3, <3>1
    <3>3. b[i] = s[i - 1]
      BY <1>2, <1>4, <2>3, <3>1
    <3> QED BY <3>2, <3>3
  <2> QED BY <2>1, <2>2, <2>3
<1>6. Len(a) = Len(b)
  BY <1>1, <1>2, <1>3, <1>4
<1>7. a = b
  BY <1>3, <1>4, <1>5, <1>6, SeqEqual
<1> QED BY <1>7 DEF a, b, t, u

\* A key added comes last for every position taken before.
LEMMA LiveKeysAdded ==
    ASSUME NEW ks, NEW vs, NEW hs, EntriesFit(ks, vs, hs), NEW key \in Key
    PROVE  \A p \in 1 .. Len(ks) + 1 :
              LiveKeysOf(Append(ks, key), p) = Append(LiveKeysOf(ks, p), key)
<1> DEFINE N == Len(ks)
           ks2 == Append(ks, key)
           H == {n \in 1 .. N + 1 : LiveKeysOf(ks2, n) = Append(LiveKeysOf(ks, n), key)}
<1>1. /\ ks \in Seq(Key \union {Deleted}) /\ N \in Nat /\ key # Deleted
      /\ \A n \in 1 .. N : ks[n] # Deleted => ks[n] \in Key
  BY LenProperties, ProbingAssumption, ElementOfSeq DEF EntriesFit
<1>2. /\ LiveKeysOf(ks, N + 1) = <<>>
      /\ \A n \in 1 .. N : LiveKeysOf(ks, n) = IF ks[n] = Deleted THEN LiveKeysOf(ks, n + 1)
                                               ELSE <<ks[n]>> \o LiveKeysOf(ks, n + 1)
      /\ \A n \in 1 .. N + 1 : LiveKeysOf(ks, n) \in Seq(Key)
  BY <1>1, LiveKeysFrom
<1>3. /\ ks2 \in Seq(Key \union {Deleted}) /\ Len(ks2) = N + 1 /\ ks2[N + 1] = key
      /\ \A n \in 1 .. N : ks2[n] = ks[n]
  BY <1>1, AppendProperties
<1> HIDE DEF ks2
<1>4. /\ LiveKeysOf(ks2, (N + 1) + 1) = <<>>
      /\ \A n \in 1 .. N + 1 : LiveKeysOf(ks2, n) = IF ks2[n] = Deleted THEN LiveKeysOf(ks2, n + 1)
                                                    ELSE <<ks2[n]>> \o LiveKeysOf(ks2, n + 1)
  BY <1>3, LiveKeysFrom
<1>5. N + 1 \in H
  <2>1. N + 1 \in 1 .. N + 1
    BY <1>1
  <2>2. LiveKeysOf(ks2, N + 1) = <<key>> \o <<>>
    BY <1>1, <1>3, <1>4, <2>1
  <2>3. <<key>> \o <<>> = <<key>> /\ Append(<<>>, key) = <<key>>
    BY ConcatEmptySeq
  <2> QED BY <1>2, <2>1, <2>2, <2>3
<1>6. ASSUME NEW n \in 1 .. N, n + 1 \in H PROVE n \in H
  <2>1. n \in 1 .. N + 1 /\ n + 1 \in 1 .. N + 1
    BY <1>1
  <2>2. LiveKeysOf(ks2, n + 1) = Append(LiveKeysOf(ks, n + 1), key)
    BY <1>6
  <2>3. CASE ks[n] = Deleted
    BY <1>2, <1>3, <1>4, <2>1, <2>2, <2>3
  <2>4. CASE ks[n] # Deleted
    <3>1. /\ LiveKeysOf(ks, n) = <<ks[n]>> \o LiveKeysOf(ks, n + 1)
          /\ LiveKeysOf(ks2, n) = <<ks[n]>> \o LiveKeysOf(ks2, n + 1)
      BY <1>2, <1>3, <1>4, <2>1, <2>4
    <3>2. ks[n] \in Key /\ LiveKeysOf(ks, n + 1) \in Seq(Key)
      BY <1>1, <1>2, <2>1, <2>4
    <3>3. Append(<<ks[n]>> \o LiveKeysOf(ks, n + 1), key) = <<ks[n]>> \o Append(LiveKeysOf(ks, n + 1), key)
      BY <3>2, AppendedAfter
    <3> QED BY <2>1, <2>2, <3>1, <3>3
  <2> QED BY <2>3, <2>4
<1>7. \A n \in 1 .. N + 1 : n \in H
  <2> HIDE DEF H
  <2> QED BY <1>1, <1>5, <1>6, DownFrom
<1> QED BY <1>7 DEF ks2

\* A key removed is missing from every position up to its own.
LEMMA LiveKeysRemoved ==
    ASSUME NEW ks, NEW vs, NEW hs, EntriesFit(ks, vs, hs), NEW d \in Entries(ks)
    PROVE  /\ \A p \in 1 .. Len(ks) + 1 :
                 LiveKeysOf([ks EXCEPT ![d] = Deleted], p) = RemoveFirst(LiveKeysOf(ks, p), ks[d])
           /\ Len(LiveKeysOf([ks EXCEPT ![d] = Deleted], 1)) = Len(LiveKeysOf(ks, 1)) - 1
<1> DEFINE N == Len(ks)
           ks2 == [ks EXCEPT ![d] = Deleted]
           Q(n) == /\ LiveKeysOf(ks2, n) = RemoveFirst(LiveKeysOf(ks, n), ks[d])
                   /\ n <= d => Len(LiveKeysOf(ks2, n)) = Len(LiveKeysOf(ks, n)) - 1
           H == {n \in 1 .. N + 1 : Q(n)}
<1>1. /\ ks \in Seq(Key \union {Deleted}) /\ N \in Nat /\ DOMAIN ks = 1 .. N
      /\ Entries(ks) \in SUBSET (1 .. N) /\ d \in 1 .. N /\ ks[d] \in Key /\ ks[d] # Deleted
      /\ \A n \in 1 .. N : ks[n] # Deleted => n \in Entries(ks) /\ ks[n] \in Key
  BY LenProperties, EntriesAreNumbers DEF EntriesFit, Entries
<1>2. /\ LiveKeysOf(ks, N + 1) = <<>>
      /\ \A n \in 1 .. N : LiveKeysOf(ks, n) = IF ks[n] = Deleted THEN LiveKeysOf(ks, n + 1)
                                               ELSE <<ks[n]>> \o LiveKeysOf(ks, n + 1)
      /\ \A n \in 1 .. N + 1 : LiveKeysOf(ks, n) \in Seq(Key)
  BY <1>1, LiveKeysFrom
<1>3. /\ ks2 \in Seq(Key \union {Deleted}) /\ Len(ks2) = N
      /\ \A n \in 1 .. N : ks2[n] = IF n = d THEN Deleted ELSE ks[n]
  BY <1>1, ExceptSeq
<1> HIDE DEF ks2
<1>4. /\ LiveKeysOf(ks2, N + 1) = <<>>
      /\ \A n \in 1 .. N : LiveKeysOf(ks2, n) = IF ks2[n] = Deleted THEN LiveKeysOf(ks2, n + 1)
                                                ELSE <<ks2[n]>> \o LiveKeysOf(ks2, n + 1)
  BY <1>3, LiveKeysFrom
<1>5. Q(N + 1)
  <2>1. ~ (N + 1 <= d)
    BY <1>1
  <2>2. Len(<<>>) = 0
    BY EmptySeq
  <2>3. RemoveFirst(<<>>, ks[d]) = <<>>
    BY <2>2, NothingRemoved
  <2> QED BY <1>2, <1>4, <2>1, <2>3
<1>6. ASSUME NEW n \in 1 .. N, Q(n + 1) PROVE Q(n)
  <2> DEFINE s == LiveKeysOf(ks, n + 1)
             s2 == LiveKeysOf(ks2, n + 1)
  <2>1. n + 1 \in 1 .. N + 1 /\ n \in Nat
    BY <1>1
  <2>2. s \in Seq(Key) /\ Len(s) \in Nat
    BY <1>2, <2>1, LenProperties
  <2>3. CASE n = d
    <3>1. LiveKeysOf(ks, n) = <<ks[d]>> \o s
      BY <1>1, <1>2, <2>3
    <3>2. LiveKeysOf(ks2, n) = s2
      BY <1>3, <1>4, <2>3
    <3>3. \A i \in 1 .. Len(s) : s[i] # ks[d]
      <4>1. ~ PresentFrom(ks, n + 1, ks[d])
        <5>1. \A at \in Entries(ks) : ks[at] = ks[d] => at = d
          BY DEF EntriesFit
        <5>2. ~ (n + 1 <= d)
          BY <2>1, <2>3
        <5> QED BY <5>1, <5>2 DEF PresentFrom
      <4> QED BY <2>1, <4>1, LiveKeysAre DEF Occurs
    <3>4. s2 = s
      BY <1>6, <3>3, NothingRemoved
    <3>5. RemoveFirst(<<ks[d]>> \o s, ks[d]) = s /\ Len(<<ks[d]>> \o s) = Len(s) + 1
      BY <1>1, <2>2, HeadRemoved, OneBefore
    <3> QED BY <2>2, <3>1, <3>2, <3>4, <3>5
  <2>4. CASE n # d /\ ks[n] = Deleted
    <3>1. LiveKeysOf(ks, n) = s /\ LiveKeysOf(ks2, n) = s2
      BY <1>2, <1>3, <1>4, <2>4
    <3>2. n <= d => n + 1 <= d
      BY <1>1, <2>1, <2>4
    <3> QED BY <1>6, <3>1, <3>2
  <2>5. CASE n # d /\ ks[n] # Deleted
    <3>1. LiveKeysOf(ks, n) = <<ks[n]>> \o s /\ LiveKeysOf(ks2, n) = <<ks[n]>> \o s2
      BY <1>2, <1>3, <1>4, <2>5
    <3>2. n <= d => n + 1 <= d
      BY <1>1, <2>1, <2>5
    <3>3. ks[n] \in Key /\ ks[n] # ks[d]
      BY <1>1, <2>5 DEF EntriesFit
    <3>4. /\ RemoveFirst(<<ks[n]>> \o s, ks[d]) = <<ks[n]>> \o RemoveFirst(s, ks[d])
          /\ RemoveFirst(s, ks[d]) \in Seq(Key)
      <4> HIDE DEF s
      <4> QED BY <2>2, <3>3, RemovedAfter
    <3>5. s2 = RemoveFirst(s, ks[d])
      BY <1>6
    <3> HIDE DEF s, s2
    <3>6. Len(<<ks[n]>> \o s) = Len(s) + 1 /\ Len(<<ks[n]>> \o s2) = Len(s2) + 1
      BY <2>2, <3>3, <3>4, <3>5, OneBefore
    <3>7. Len(s2) \in Nat
      BY <3>4, <3>5, LenProperties
    <3>8. n <= d => Len(s2) = Len(s) - 1
      BY <1>6, <3>2 DEF s, s2
    <3> QED BY <2>2, <3>1, <3>4, <3>5, <3>6, <3>7, <3>8
  <2> QED BY <2>3, <2>4, <2>5
<1>7. \A n \in 1 .. N + 1 : n \in H
  <2> HIDE DEF Q
  <2>1. N + 1 \in H /\ \A n \in 1 .. N : n + 1 \in H => n \in H
    BY <1>1, <1>5, <1>6
  <2> HIDE DEF H
  <2> QED BY <1>1, <2>1, DownFrom
<1>8. 1 \in 1 .. N + 1 /\ 1 <= d
  BY <1>1
<1> QED BY <1>7, <1>8 DEF ks2

\* None is present where all are removed.
LEMMA NoLiveKeys ==
    ASSUME NEW ks \in Seq(Key \union {Deleted}), NEW p \in 1 .. Len(ks) + 1,
           \A n \in p .. Len(ks) : ks[n] = Deleted
    PROVE  LiveKeysOf(ks, p) = <<>>
<1> DEFINE N == Len(ks)
           H == {n \in 1 .. N + 1 : p <= n => LiveKeysOf(ks, n) = <<>>}
<1>1. N \in Nat /\ p \in Nat /\ p >= 1
  BY LenProperties
<1>2. /\ LiveKeysOf(ks, N + 1) = <<>>
      /\ \A n \in 1 .. N : LiveKeysOf(ks, n) = IF ks[n] = Deleted THEN LiveKeysOf(ks, n + 1)
                                               ELSE <<ks[n]>> \o LiveKeysOf(ks, n + 1)
  BY LiveKeysFrom
<1>3. N + 1 \in H
  BY <1>1, <1>2
<1>4. ASSUME NEW n \in 1 .. N, n + 1 \in H PROVE n \in H
  <2>1. (p <= n => p <= n + 1 /\ ks[n] = Deleted) /\ n \in 1 .. N + 1
    BY <1>1
  <2>2. p <= n => LiveKeysOf(ks, n + 1) = <<>>
    BY <1>4, <2>1
  <2>3. ks[n] = Deleted => LiveKeysOf(ks, n) = LiveKeysOf(ks, n + 1)
    BY <1>2
  <2> QED BY <2>1, <2>2, <2>3
<1>5. \A n \in 1 .. N + 1 : n \in H
  <2> HIDE DEF H
  <2> QED BY <1>1, <1>3, <1>4, DownFrom
<1> QED BY <1>1, <1>5

\* The first from a position on is at the first entry from there on.
LEMMA LiveKeysNext ==
    ASSUME NEW ks \in Seq(Key \union {Deleted}), NEW p \in 1 .. Len(ks) + 1,
           NEW at \in p .. Len(ks), ks[at] # Deleted, \A n \in p .. at - 1 : ks[n] = Deleted
    PROVE  LiveKeysOf(ks, p) = <<ks[at]>> \o LiveKeysOf(ks, at + 1)
<1> DEFINE N == Len(ks)
           rest == LiveKeysOf(ks, at + 1)
           H == {n \in 1 .. N + 1 : p <= n /\ n <= at => LiveKeysOf(ks, n) = <<ks[at]>> \o rest}
<1>1. N \in Nat /\ p \in Nat /\ p >= 1 /\ at \in Nat /\ p <= at /\ at <= N
  BY LenProperties
<1>2. \A n \in 1 .. N : LiveKeysOf(ks, n) = IF ks[n] = Deleted THEN LiveKeysOf(ks, n + 1)
                                            ELSE <<ks[n]>> \o LiveKeysOf(ks, n + 1)
  BY LiveKeysFrom
<1>3. N + 1 \in H
  BY <1>1
<1>4. ASSUME NEW n \in 1 .. N, n + 1 \in H PROVE n \in H
  <2>1. CASE n = at
    BY <1>1, <1>2, <2>1
  <2>2. CASE n # at
    <3>1. /\ p <= n /\ n <= at => p <= n + 1 /\ n + 1 <= at /\ ks[n] = Deleted
          /\ n \in 1 .. N + 1
      BY <1>1, <2>2
    <3> HIDE DEF rest
    <3>2. p <= n /\ n <= at => LiveKeysOf(ks, n + 1) = <<ks[at]>> \o rest
      BY <1>4, <3>1
    <3>3. ks[n] = Deleted => LiveKeysOf(ks, n) = LiveKeysOf(ks, n + 1)
      BY <1>2
    <3> QED BY <3>1, <3>2, <3>3
  <2> QED BY <2>1, <2>2
<1>5. \A n \in 1 .. N + 1 : n \in H
  <2> HIDE DEF H
  <2> QED BY <1>1, <1>3, <1>4, DownFrom
<1> QED BY <1>1, <1>5
-----------------------------------------------------------------------------
(* The table's inductive invariant.                                        *)

WalksFit == walks \in [Walk -> 0 .. Len(keys) + 1]

TableInv ==
    /\ EntriesFit(keys, values, hashes)
    /\ Indexes(index, keys, hashes)
    /\ live = Len(LiveKeys(1))
    /\ WalksFit

LEMMA TableStarts ==
    ASSUME TableInit
    PROVE  TableInv
<1>1. keys = <<>> /\ values = <<>> /\ hashes = <<>> /\ live = 0
  BY DEF TableInit
<1>2. /\ \A S : <<>> \in Seq(S)
      /\ Len(<<>>) = 0 /\ DOMAIN <<>> = {}
  BY EmptySeq
<1>3. Entries(keys) = {}
  BY <1>1, <1>2 DEF Entries
<1>4. EntriesFit(keys, values, hashes)
  BY <1>1, <1>2, <1>3 DEF EntriesFit
<1>5. Indexes(index, keys, hashes)
  <2> DEFINE C == FirstCapacity
  <2>1. C \in Nat \ {0} /\ index = Filled(C, TABLE_EMPTY)
    BY ProbingAssumption DEF TableInit
  <2>2. InOrder(index, C, {}, hashes, TABLE_EMPTY, TABLE_REMOVED) /\ Cardinality(Used(index, C, TABLE_EMPTY)) = 0
    BY <2>1, FilledInOrder
  <2>3. Capacity(index) = C
    BY <2>1, <2>2, CapacityOf DEF InOrder
  <2>4. Len(keys) = 0
    BY <1>1, <1>2
  <2> HIDE DEF C
  <2> QED BY <1>3, <2>1, <2>2, <2>3, <2>4 DEF Indexes
<1>6. LiveKeys(1) = <<>>
  <2>1. keys \in Seq(Key \union {Deleted}) /\ Len(keys) + 1 = 1
    BY <1>1, <1>2
  <2> QED BY <2>1, LiveKeysFrom DEF LiveKeys
<1>7. WalksFit
  BY <1>1, <1>2 DEF TableInit, WalksFit, Ended
<1> QED BY <1>1, <1>2, <1>4, <1>5, <1>6, <1>7 DEF TableInv

\* What an addition leaves.
LEMMA AddKeeps ==
    ASSUME TableInv, NEW key \in Key, NEW value \in Value, TableFind(key) = Absent,
           TableAdd(key, value), UNCHANGED walks
    PROVE  TableInv'
<1> USE DEF TableInv
<1>1. \A at \in Entries(keys) : keys[at] # key
  BY Lookup
<1>2. /\ keys' = Append(keys, key) /\ values' = Append(values, value) /\ hashes' = Append(hashes, Hash[key])
      /\ index' = Placed(IF Crowded THEN Regrown ELSE index, Len(keys) + 1, Hash[key])
      /\ live' = live + 1
  BY DEF TableAdd
<1>3. EntriesFit(keys, values, hashes)'
  BY <1>1, <1>2, AddedFit
<1>4. Hash[key] \in Nat
  BY ProbingAssumption
<1>5. Indexes(index, keys, hashes)'
  <2>1. CASE Crowded
    <3> DEFINE C == 2 * Capacity(index)
    <3>1. /\ C \in Nat \ {0}
          /\ InOrder(Regrown, C, Entries(keys), hashes, TABLE_EMPTY, TABLE_REMOVED)
          /\ Cardinality(Used(Regrown, C, TABLE_EMPTY)) <= Len(keys)
          /\ (Len(keys) + 1) * 4 <= C * 3
      BY RegrownInOrder
    <3> HIDE DEF C
    <3>2. Indexes(Placed(Regrown, Len(keys) + 1, Hash[key]), Append(keys, key), Append(hashes, Hash[key]))
      BY <1>4, <3>1, AddedInto
    <3> QED BY <1>2, <2>1, <3>2
  <2>2. CASE ~Crowded
    <3> DEFINE C == Capacity(index)
    <3>1. /\ C \in Nat \ {0} /\ Len(keys) \in Nat
          /\ InOrder(index, C, Entries(keys), hashes, TABLE_EMPTY, TABLE_REMOVED)
          /\ Cardinality(Used(index, C, TABLE_EMPTY)) <= Len(keys)
      BY LenProperties DEF Indexes, EntriesFit
    <3>2. (Len(keys) + 1) * 4 <= C * 3
      <4>1. ~ ((Len(keys) + 1) * 4 > C * 3)
        BY <2>2 DEF Crowded
      <4> HIDE DEF C
      <4> QED BY <3>1, <4>1
    <3> HIDE DEF C
    <3>3. Indexes(Placed(index, Len(keys) + 1, Hash[key]), Append(keys, key), Append(hashes, Hash[key]))
      BY <1>4, <3>1, <3>2, AddedInto
    <3> QED BY <1>2, <2>2, <3>3
  <2> QED BY <2>1, <2>2
<1>6. /\ Len(keys) \in Nat /\ Len(keys') = Len(keys) + 1 /\ 1 \in 1 .. Len(keys) + 1
      /\ keys \in Seq(Key \union {Deleted})
  BY <1>2, LenProperties, AppendProperties DEF EntriesFit
<1>7. live' = Len(LiveKeys(1)')
  <2>1. LiveKeysOf(keys', 1) = Append(LiveKeysOf(keys, 1), key)
    BY <1>2, <1>6, LiveKeysAdded
  <2>2. LiveKeysOf(keys, 1) \in Seq(Key)
    BY <1>6, LiveKeysFrom
  <2>3. Len(LiveKeysOf(keys', 1)) = Len(LiveKeysOf(keys, 1)) + 1
    BY <2>1, <2>2, AppendProperties
  <2> QED BY <1>2, <2>3 DEF LiveKeys
<1>8. WalksFit'
  BY <1>6 DEF WalksFit
<1> QED BY <1>3, <1>5, <1>7, <1>8

LEMMA WriteKeeps ==
    ASSUME TableInv, NEW key \in Key, NEW value \in Value, TableFind(key) # Absent,
           values' = [values EXCEPT ![TableFind(key)] = value],
           UNCHANGED <<keys, hashes, index, live, walks>>
    PROVE  TableInv'
<1>1. TableFind(key) \in Entries(keys)
  BY Lookup DEF TableInv
<1>2. EntriesFit(keys, values', hashes)
  BY <1>1, WrittenFit DEF TableInv
<1> QED BY <1>2 DEF TableInv, LiveKeys, WalksFit

LEMMA RemoveKeeps ==
    ASSUME TableInv, NEW p \in Entries(keys), TableRemove(p), UNCHANGED walks
    PROVE  TableInv' /\ Len(keys') = Len(keys)
<1> USE DEF TableInv
<1>1. /\ index' = [index EXCEPT ![Found(index, hashes[p], {p})] = TABLE_REMOVED]
      /\ keys' = [keys EXCEPT ![p] = Deleted] /\ values' = [values EXCEPT ![p] = Deleted]
      /\ live' = live - 1 /\ hashes' = hashes
  BY DEF TableRemove
<1>2. EntriesFit(keys', values', hashes') /\ Len(keys') = Len(keys)
  BY <1>1, RemovedFit
<1>3. Indexes(index', keys', hashes')
  BY <1>1, RemovedIndexes
<1>4. live' = Len(LiveKeys(1)')
  <2>1. Len(LiveKeysOf(keys', 1)) = Len(LiveKeysOf(keys, 1)) - 1
    BY <1>1, LiveKeysRemoved
  <2> QED BY <1>1, <2>1 DEF LiveKeys
<1>5. WalksFit'
  BY <1>2 DEF WalksFit
<1> QED BY <1>2, <1>3, <1>4, <1>5

LEMMA ClearKeeps ==
    ASSUME TableInv, ClearEntries
    PROVE  TableInv' /\ Len(keys') = Len(keys) /\ Entries(keys') = {}
<1> DEFINE none == [at \in DOMAIN keys |-> Deleted]
<1>1. /\ keys' = none /\ values' = none /\ hashes' = hashes
      /\ index' = Filled(Capacity(index), TABLE_EMPTY) /\ live' = 0 /\ walks' = walks
  BY DEF ClearEntries
<1>2. /\ EntriesFit(none, none, hashes)
      /\ Indexes(Filled(Capacity(index), TABLE_EMPTY), none, hashes)
      /\ Len(none) = Len(keys) /\ Entries(none) = {}
  BY ClearedFit DEF TableInv
<1> HIDE DEF none
<1>3. LiveKeysOf(none, 1) = <<>>
  <2>1. none \in Seq(Key \union {Deleted}) /\ Len(none) \in Nat /\ DOMAIN none = 1 .. Len(none)
    BY <1>2, LenProperties DEF EntriesFit
  <2>2. 1 \in 1 .. Len(none) + 1 /\ \A n \in 1 .. Len(none) : none[n] = Deleted
    BY <1>2, <2>1 DEF Entries
  <2> QED BY <2>1, <2>2, NoLiveKeys
<1>4. live' = Len(LiveKeys(1)')
  BY <1>1, <1>3, EmptySeq DEF LiveKeys
<1>5. WalksFit'
  BY <1>1, <1>2 DEF WalksFit, TableInv
<1> QED BY <1>1, <1>2, <1>4, <1>5 DEF TableInv
-----------------------------------------------------------------------------
(* The table implements the ordered map.                                   *)

LEMMA ValuesAre ==
    ASSUME NEW ks, NEW vs, NEW hs, EntriesFit(ks, vs, hs)
    PROVE  /\ DOMAIN ValuesOf(ks, vs) = {ks[at] : at \in Entries(ks)}
           /\ \A at \in Entries(ks) : ValuesOf(ks, vs)[ks[at]] = vs[at]
<1>1. DOMAIN ValuesOf(ks, vs) = {ks[at] : at \in Entries(ks)}
  BY DEF ValuesOf, Entries
<1>2. ASSUME NEW at \in Entries(ks) PROVE ValuesOf(ks, vs)[ks[at]] = vs[at]
  <2>1. at \in DOMAIN ks /\ ks[at] \in DOMAIN ValuesOf(ks, vs)
    BY <1>1 DEF Entries
  <2>2. \A other \in DOMAIN ks : ks[other] = ks[at] => other = at
    BY DEF EntriesFit, Entries
  <2>3. (CHOOSE other \in DOMAIN ks : ks[other] = ks[at]) = at
    BY <2>1, <2>2
  <2> QED BY <2>1, <2>3 DEF ValuesOf
<1> QED BY <1>1, <1>2

\* A function of the keys present that gives each entry's value is the map.
LEMMA SameValues ==
    ASSUME NEW ks, NEW vs, NEW hs, EntriesFit(ks, vs, hs), NEW f, f = [k \in DOMAIN f |-> f[k]],
           DOMAIN f = {ks[at] : at \in Entries(ks)}, \A at \in Entries(ks) : f[ks[at]] = vs[at]
    PROVE  ValuesOf(ks, vs) = f
<1> DEFINE g == ValuesOf(ks, vs)
<1>0. DOMAIN g = {ks[at] : at \in Entries(ks)} /\ \A at \in Entries(ks) : g[ks[at]] = vs[at]
  BY ONLY EntriesFit(ks, vs, hs), ValuesAre
<1>1. DOMAIN g = DOMAIN f /\ \A at \in Entries(ks) : g[ks[at]] = vs[at]
  <2> HIDE DEF g
  <2> QED BY <1>0
<1>2. \A k \in DOMAIN f : g[k] = f[k]
  <2> HIDE DEF g
  <2> QED BY <1>1
<1>3. g = [k \in DOMAIN g |-> g[k]]
  BY DEF ValuesOf
<1> HIDE DEF g
<1>4. g = f
  BY <1>1, <1>2, <1>3
<1> QED BY <1>4 DEF g

\* A map with a value for a key, and one without it.
With(m, key, value) == [k \in DOMAIN m \union {key} |-> IF k = key THEN value ELSE m[k]]
Lacking(m, key) == [k \in DOMAIN m \ {key} |-> m[k]]

LEMMA AddedValues ==
    ASSUME NEW ks, NEW vs, NEW hs, EntriesFit(ks, vs, hs), NEW key \in Key, NEW value \in Value,
           \A at \in Entries(ks) : ks[at] # key
    PROVE  ValuesOf(Append(ks, key), Append(vs, value)) = With(ValuesOf(ks, vs), key, value)
<1> DEFINE m == ValuesOf(ks, vs)
           f == [k \in DOMAIN m \union {key} |-> IF k = key THEN value ELSE m[k]]
           ks2 == Append(ks, key)
           vs2 == Append(vs, value)
<1>1. /\ EntriesFit(ks2, vs2, Append(hs, Hash[key]))
      /\ Entries(ks2) = Entries(ks) \union {Len(ks) + 1}
  BY AddedFit
<1>2. /\ ks2[Len(ks) + 1] = key /\ vs2[Len(ks) + 1] = value
      /\ \A at \in Entries(ks) : ks2[at] = ks[at] /\ vs2[at] = vs[at]
  <2>1. Len(vs) = Len(ks) /\ Entries(ks) \in SUBSET (1 .. Len(ks))
    BY EntriesAreNumbers DEF EntriesFit
  <2> QED BY <2>1, AppendProperties DEF EntriesFit
<1>3. DOMAIN m = {ks[at] : at \in Entries(ks)} /\ \A at \in Entries(ks) : m[ks[at]] = vs[at]
  BY ONLY EntriesFit(ks, vs, hs), ValuesAre
<1> HIDE DEF m, ks2, vs2
<1>4. DOMAIN f = {ks2[at] : at \in Entries(ks2)}
  BY <1>1, <1>2, <1>3
<1>5. \A at \in Entries(ks2) : f[ks2[at]] = vs2[at]
  BY <1>1, <1>2, <1>3
<1>6. f = [k \in DOMAIN f |-> f[k]]
  OBVIOUS
<1> HIDE DEF f
<1>7. ValuesOf(ks2, vs2) = f
  BY <1>1, <1>4, <1>5, <1>6, SameValues
<1> QED BY <1>7 DEF m, ks2, vs2, f, With

LEMMA WrittenValues ==
    ASSUME NEW ks, NEW vs, NEW hs, EntriesFit(ks, vs, hs), NEW p \in Entries(ks), NEW value \in Value
    PROVE  ValuesOf(ks, [vs EXCEPT ![p] = value]) = With(ValuesOf(ks, vs), ks[p], value)
<1> DEFINE m == ValuesOf(ks, vs)
           f == [k \in DOMAIN m \union {ks[p]} |-> IF k = ks[p] THEN value ELSE m[k]]
           vs2 == [vs EXCEPT ![p] = value]
<1>1. EntriesFit(ks, vs2, hs)
  BY WrittenFit
<1>2. \A at \in Entries(ks) : vs2[at] = IF at = p THEN value ELSE vs[at]
  <2>1. Len(vs) = Len(ks) /\ Entries(ks) \in SUBSET (1 .. Len(ks))
    BY EntriesAreNumbers DEF EntriesFit
  <2> QED BY <2>1, ExceptSeq DEF EntriesFit
<1>3. DOMAIN m = {ks[at] : at \in Entries(ks)} /\ \A at \in Entries(ks) : m[ks[at]] = vs[at]
  BY ValuesAre
<1>4. \A at \in Entries(ks) : ks[at] = ks[p] => at = p
  BY DEF EntriesFit
<1> HIDE DEF m, vs2
<1>5. DOMAIN f = {ks[at] : at \in Entries(ks)}
  BY <1>3
<1>6. \A at \in Entries(ks) : f[ks[at]] = vs2[at]
  BY <1>2, <1>3, <1>4
<1>7. f = [k \in DOMAIN f |-> f[k]]
  OBVIOUS
<1> HIDE DEF f
<1>8. ValuesOf(ks, vs2) = f
  BY <1>1, <1>5, <1>6, <1>7, SameValues
<1> QED BY <1>8 DEF m, vs2, f, With

LEMMA RemovedValues ==
    ASSUME NEW ks, NEW vs, NEW hs, EntriesFit(ks, vs, hs), NEW p \in Entries(ks)
    PROVE  ValuesOf([ks EXCEPT ![p] = Deleted], [vs EXCEPT ![p] = Deleted]) =
              Lacking(ValuesOf(ks, vs), ks[p])
<1> DEFINE m == ValuesOf(ks, vs)
           f == [k \in DOMAIN m \ {ks[p]} |-> m[k]]
           ks2 == [ks EXCEPT ![p] = Deleted]
           vs2 == [vs EXCEPT ![p] = Deleted]
<1>1. EntriesFit(ks2, vs2, hs) /\ Entries(ks2) = Entries(ks) \ {p}
  BY RemovedFit
<1>2. \A at \in Entries(ks) : at # p => ks2[at] = ks[at] /\ vs2[at] = vs[at]
  <2>1. Len(vs) = Len(ks) /\ Entries(ks) \in SUBSET (1 .. Len(ks))
    BY EntriesAreNumbers DEF EntriesFit
  <2> QED BY <2>1, ExceptSeq DEF EntriesFit
<1>3. DOMAIN m = {ks[at] : at \in Entries(ks)} /\ \A at \in Entries(ks) : m[ks[at]] = vs[at]
  BY ValuesAre
<1>4. \A at \in Entries(ks) : ks[at] = ks[p] => at = p
  BY DEF EntriesFit
<1> HIDE DEF m, vs2, ks2
<1>5. DOMAIN f = {ks2[at] : at \in Entries(ks2)}
  BY <1>1, <1>2, <1>3, <1>4
<1>6. \A at \in Entries(ks2) : f[ks2[at]] = vs2[at]
  BY <1>1, <1>2, <1>3, <1>4
<1>7. f = [k \in DOMAIN f |-> f[k]]
  OBVIOUS
<1> HIDE DEF f
<1>8. ValuesOf(ks2, vs2) = f
  BY <1>1, <1>5, <1>6, <1>7, SameValues
<1> QED BY <1>8 DEF m, vs2, ks2, f, Lacking

LEMMA NoValues ==
    ASSUME NEW ks, NEW vs, NEW hs, EntriesFit(ks, vs, hs), Entries(ks) = {}
    PROVE  ValuesOf(ks, vs) = <<>>
<1>1. DOMAIN <<>> = {} /\ <<>> = [k \in {} |-> <<>>[k]]
  OBVIOUS
<1>2. {ks[at] : at \in Entries(ks)} = {}
  OBVIOUS
<1> DEFINE f == <<>>
<1>3. f = [k \in DOMAIN f |-> f[k]] /\ DOMAIN f = {ks[at] : at \in Entries(ks)}
  BY <1>1, <1>2
<1> HIDE DEF f
<1>4. ValuesOf(ks, vs) = f
  BY <1>3, SameValues
<1> QED BY <1>4 DEF f

LEMMA SameRemoval == \A s, k : Live!Without(s, k) = RemoveFirst(s, k)
BY DEF Live!Without, Live!RemoveFirst, RemoveFirst, Live!RemoveAt, RemoveAt,
   Live!SelectInSeq, SelectInSeq, Live!Min, Min

\* Set.prototype.add and Map.prototype.set.
LEMMA PutImplements ==
    ASSUME TableInv, NEW key \in Key, NEW value \in Value, PutEntry(key, value)
    PROVE  TableInv' /\ Live!Put(key, value)
<1> DEFINE m == ValuesOf(keys, values)
<1>1. EntriesFit(keys, values, hashes) /\ answer' = <<"none">> /\ walks' = walks
  BY DEF TableInv, PutEntry
<1>2. DOMAIN m = {keys[at] : at \in Entries(keys)}
  BY ONLY <1>1, ValuesAre
<1>3. CASE TableFind(key) # Absent
  <2>1. /\ values' = [values EXCEPT ![TableFind(key)] = value]
        /\ UNCHANGED <<keys, hashes, index, live>>
    BY <1>3 DEF PutEntry
  <2>2. TableFind(key) \in Entries(keys) /\ keys[TableFind(key)] = key
    BY <1>3, Lookup DEF TableInv
  <2>3. TableInv'
    BY <1>1, <1>3, <2>1, WriteKeeps
  <2>4. ValuesOf(keys, values') = With(m, key, value)
    BY <1>1, <2>1, <2>2, WrittenValues
  <2>5. key \in DOMAIN m
    BY <1>2, <2>2
  <2> HIDE DEF m
  <2> QED BY <1>1, <2>1, <2>3, <2>4, <2>5 DEF With, Live!Put, Live!Has, LiveKeys, m
<1>4. CASE TableFind(key) = Absent
  <2>1. TableAdd(key, value)
    BY <1>4 DEF PutEntry
  <2>2. \A at \in Entries(keys) : keys[at] # key
    BY <1>4, Lookup DEF TableInv
  <2>3. TableInv'
    BY <1>1, <1>4, <2>1, AddKeeps
  <2>4. keys' = Append(keys, key) /\ values' = Append(values, value)
    BY <2>1 DEF TableAdd
  <2>5. ValuesOf(keys', values') = With(m, key, value)
    BY <1>1, <2>2, <2>4, AddedValues
  <2>6. key \notin DOMAIN m
    BY <1>2, <2>2
  <2>7. \A p \in 1 .. Len(keys) + 1 : LiveKeysOf(keys', p) = Append(LiveKeysOf(keys, p), key)
    BY <1>1, <2>4, LiveKeysAdded
  <2>8. Len(keys) \in Nat /\ \A w \in Walk : walks[w] # Ended => walks[w] \in 1 .. Len(keys) + 1
    BY <1>1, LenProperties DEF TableInv, EntriesFit, WalksFit, Ended
  <2> HIDE DEF m
  <2>9. LiveKeys(1)' = Append(LiveKeys(1), key)
    BY <2>7, <2>8 DEF LiveKeys
  <2>10. [w \in Walk |-> IF walks[w] = Ended THEN <<>> ELSE LiveKeys(walks[w])]' =
            [w \in Walk |-> IF w \in {v \in Walk : walks[v] = Ended}
                            THEN [v \in Walk |-> IF walks[v] = Ended THEN <<>> ELSE LiveKeys(walks[v])][w]
                            ELSE Append([v \in Walk |-> IF walks[v] = Ended THEN <<>> ELSE LiveKeys(walks[v])][w], key)]
    BY <1>1, <2>7, <2>8 DEF LiveKeys
  <2> QED BY <1>1, <2>3, <2>5, <2>6, <2>9, <2>10 DEF With, Live!Put, Live!Has, m
<1> QED BY <1>3, <1>4

\* get.
LEMMA GetImplements ==
    ASSUME TableInv, NEW key \in Key, GetEntry(key)
    PROVE  TableInv' /\ Live!Get(key)
<1> DEFINE m == ValuesOf(keys, values)
<1>1. EntriesFit(keys, values, hashes) /\ UNCHANGED <<table, walks>>
  BY DEF TableInv, GetEntry
<1>2. DOMAIN m = {keys[at] : at \in Entries(keys)} /\ \A at \in Entries(keys) : m[keys[at]] = values[at]
  BY ONLY <1>1, ValuesAre
<1>3. /\ TableFind(key) # Absent => TableFind(key) \in Entries(keys) /\ keys[TableFind(key)] = key
      /\ TableFind(key) = Absent => \A at \in Entries(keys) : keys[at] # key
  BY Lookup DEF TableInv
<1> HIDE DEF m
<1>4. answer' = IF key \in DOMAIN m THEN <<"value", m[key]>> ELSE <<"absent">>
  BY <1>2, <1>3 DEF GetEntry
<1>5. TableInv'
  BY <1>1 DEF TableInv, LiveKeys, WalksFit, table
<1> QED BY <1>1, <1>4, <1>5 DEF Live!Get, Live!Has, LiveKeys, m, table

\* delete.
LEMMA DeleteImplements ==
    ASSUME TableInv, NEW key \in Key, DeleteEntry(key)
    PROVE  TableInv' /\ Live!Delete(key)
<1> DEFINE m == ValuesOf(keys, values)
           ahead == [w \in Walk |-> IF walks[w] = Ended THEN <<>> ELSE LiveKeys(walks[w])]
<1>1. /\ EntriesFit(keys, values, hashes) /\ walks' = walks
      /\ answer' = <<"deleted", TableFind(key) # Absent>>
  BY DEF TableInv, DeleteEntry
<1>2. DOMAIN m = {keys[at] : at \in Entries(keys)} /\ m = [k \in DOMAIN m |-> m[k]]
  <2>1. DOMAIN m = {keys[at] : at \in Entries(keys)}
    BY ONLY <1>1, ValuesAre
  <2>2. m = [k \in DOMAIN m |-> m[k]]
    BY DEF ValuesOf
  <2> QED BY <2>1, <2>2
<1>3. Len(keys) \in Nat /\ \A w \in Walk : walks[w] # Ended => walks[w] \in 1 .. Len(keys) + 1
  BY <1>1, LenProperties DEF TableInv, EntriesFit, WalksFit, Ended
<1>4. RemoveFirst(<<>>, key) = <<>>
  BY EmptySeq, NothingRemoved
<1>5. CASE TableFind(key) # Absent
  <2> DEFINE p == TableFind(key)
  <2>1. p \in Entries(keys) /\ keys[p] = key
    BY <1>5, Lookup DEF TableInv
  <2>2. TableRemove(p)
    BY <1>5 DEF DeleteEntry
  <2> HIDE DEF p
  <2>3. TableInv'
    BY <1>1, <2>1, <2>2, RemoveKeeps
  <2>4. keys' = [keys EXCEPT ![p] = Deleted] /\ values' = [values EXCEPT ![p] = Deleted]
    BY <2>2 DEF TableRemove
  <2>5. ValuesOf(keys', values') = Lacking(m, key)
    BY <1>1, <2>1, <2>4, RemovedValues
  <2>6. \A n \in 1 .. Len(keys) + 1 : LiveKeysOf(keys', n) = RemoveFirst(LiveKeysOf(keys, n), key)
    BY <1>1, <2>1, <2>4, LiveKeysRemoved
  <2>7. key \in DOMAIN m
    BY <1>2, <2>1
  <2> HIDE DEF m
  <2>8. LiveKeys(1)' = RemoveFirst(LiveKeys(1), key)
    BY <1>3, <2>6 DEF LiveKeys
  <2>9. ahead' = [w \in Walk |-> RemoveFirst(ahead[w], key)]
    BY <1>1, <1>3, <1>4, <2>6 DEF LiveKeys
  <2>10. answer' = <<"deleted", key \in DOMAIN m>>
    BY <1>1, <1>5, <2>7
  <2> QED BY <1>1, <2>3, <2>5, <2>8, <2>9, <2>10, SameRemoval DEF Lacking, Live!Delete, Live!Has, m
<1>6. CASE TableFind(key) = Absent
  <2>1. UNCHANGED table
    BY <1>6 DEF DeleteEntry
  <2>2. \A at \in Entries(keys) : keys[at] # key
    BY <1>6, Lookup DEF TableInv
  <2>3. \A n \in 1 .. Len(keys) + 1 : RemoveFirst(LiveKeysOf(keys, n), key) = LiveKeysOf(keys, n)
    <3>1. SUFFICES ASSUME NEW n \in 1 .. Len(keys) + 1
                   PROVE  RemoveFirst(LiveKeysOf(keys, n), key) = LiveKeysOf(keys, n)
      OBVIOUS
    <3>2. ~ PresentFrom(keys, n, key)
      BY <2>2 DEF PresentFrom
    <3>3. ~ Occurs(LiveKeysOf(keys, n), key)
      BY <1>1, <3>2, LiveKeysAre
    <3> QED BY <3>3, NothingRemoved DEF Occurs
  <2>4. TableInv'
    BY <1>1, <2>1 DEF TableInv, LiveKeys, WalksFit, table
  <2>5. key \notin DOMAIN m
    BY <1>2, <2>2
  <2>6. m = Lacking(m, key)
    <3> HIDE DEF m
    <3>1. DOMAIN m \ {key} = DOMAIN m
      BY <2>5
    <3> QED BY <1>2, <3>1 DEF Lacking
  <2> HIDE DEF m
  <2>7. LiveKeys(1)' = RemoveFirst(LiveKeys(1), key)
    BY <1>3, <2>1, <2>3 DEF LiveKeys, table
  <2>8. ahead' = [w \in Walk |-> RemoveFirst(ahead[w], key)]
    BY <1>1, <1>3, <1>4, <2>1, <2>3 DEF LiveKeys, table
  <2>9. answer' = <<"deleted", key \in DOMAIN m>>
    BY <1>1, <1>6, <2>5
  <2> QED BY <1>1, <2>1, <2>4, <2>6, <2>7, <2>8, <2>9, SameRemoval DEF Lacking, Live!Delete, Live!Has, m, table
<1> QED BY <1>5, <1>6

\* clear: a walk has nothing left to visit until something is added.
LEMMA ClearImplements ==
    ASSUME TableInv, ClearEntries
    PROVE  TableInv' /\ Live!Clear
<1>1. TableInv' /\ Len(keys') = Len(keys) /\ Entries(keys') = {}
  BY ClearKeeps
<1>2. EntriesFit(keys', values', hashes') /\ walks' = walks /\ answer' = <<"none">>
  BY <1>1 DEF TableInv, ClearEntries
<1>3. ValuesOf(keys', values') = <<>>
  BY <1>1, <1>2, NoValues
<1>4. \A n \in 1 .. Len(keys') + 1 : LiveKeysOf(keys', n) = <<>>
  <2>1. keys' \in Seq(Key \union {Deleted}) /\ \A n \in 1 .. Len(keys') : keys'[n] = Deleted
    BY <1>1, <1>2, LenProperties DEF EntriesFit, Entries
  <2>2. Len(keys') \in Nat
    BY <2>1, LenProperties
  <2> QED BY <2>1, <2>2, NoLiveKeys
<1>5. Len(keys) \in Nat /\ \A w \in Walk : walks[w] # Ended => walks[w] \in 1 .. Len(keys) + 1
  BY LenProperties DEF TableInv, EntriesFit, WalksFit, Ended
<1>6. LiveKeys(1)' = <<>>
  BY <1>1, <1>4, <1>5 DEF LiveKeys
<1>7. [w \in Walk |-> IF walks[w] = Ended THEN <<>> ELSE LiveKeys(walks[w])]' = [w \in Walk |-> <<>>]
  BY <1>1, <1>2, <1>4, <1>5 DEF LiveKeys
<1> QED BY <1>1, <1>2, <1>3, <1>6, <1>7 DEF Live!Clear

\* size.
LEMMA SizeImplements ==
    ASSUME TableInv, SizeOf
    PROVE  TableInv' /\ Live!Size
<1>1. UNCHANGED <<table, walks>> /\ answer' = <<"size", Len(LiveKeys(1))>>
  BY DEF TableInv, SizeOf
<1>2. TableInv'
  BY <1>1 DEF TableInv, LiveKeys, WalksFit, table
<1> QED BY <1>1, <1>2 DEF Live!Size, LiveKeys, table

\* A walk starts at the first position.
LEMMA StartImplements ==
    ASSUME TableInv, NEW w \in Walk, StartWalk(w)
    PROVE  TableInv' /\ Live!Start(w)
<1>1. UNCHANGED table /\ walks' = [walks EXCEPT ![w] = 1] /\ answer' = <<"none">>
  BY DEF StartWalk
<1>2. Len(keys) \in Nat /\ walks \in [Walk -> 0 .. Len(keys) + 1]
  BY LenProperties DEF TableInv, EntriesFit, WalksFit
<1>3. TableInv'
  BY <1>1, <1>2 DEF TableInv, LiveKeys, WalksFit, table
<1>4. walks'[w] # Ended /\ \A v \in Walk : walks'[v] = IF v = w THEN 1 ELSE walks[v]
  BY <1>1, <1>2 DEF Ended
<1>5. {v \in Walk : walks[v] = Ended}' = {v \in Walk : walks[v] = Ended} \ {w}
  BY <1>4
<1>6. [v \in Walk |-> IF walks[v] = Ended THEN <<>> ELSE LiveKeys(walks[v])]' =
         [[v \in Walk |-> IF walks[v] = Ended THEN <<>> ELSE LiveKeys(walks[v])] EXCEPT ![w] = LiveKeys(1)]
  <2> DEFINE ahead == [v \in Walk |-> IF walks[v] = Ended THEN <<>> ELSE LiveKeys(walks[v])]
  <2>1. \A v \in Walk : (IF walks'[v] = Ended THEN <<>> ELSE LiveKeys(walks'[v])) =
                            IF v = w THEN LiveKeys(1) ELSE ahead[v]
    BY <1>4
  <2>2. [ahead EXCEPT ![w] = LiveKeys(1)] = [v \in Walk |-> IF v = w THEN LiveKeys(1) ELSE ahead[v]]
    OBVIOUS
  <2> QED BY <1>1, <2>1, <2>2 DEF LiveKeys, table
<1> QED BY <1>1, <1>3, <1>5, <1>6 DEF Live!Start, LiveKeys, table

\* The first entry from a position on.
LEMMA FirstBeyond ==
    ASSUME TableInv, NEW p \in 1 .. Len(keys) + 1, Beyond(p) # {}
    PROVE  /\ Min(Beyond(p)) \in p .. Len(keys) /\ Min(Beyond(p)) \in Entries(keys)
           /\ LiveKeysOf(keys, p) = <<keys[Min(Beyond(p))]>> \o LiveKeysOf(keys, Min(Beyond(p)) + 1)
<1>1. /\ keys \in Seq(Key \union {Deleted}) /\ Len(keys) \in Nat /\ DOMAIN keys = 1 .. Len(keys)
  BY LenProperties DEF TableInv, EntriesFit
<1>2. Beyond(p) \in SUBSET Nat
  BY <1>1 DEF Beyond
<1>3. PICK at \in Beyond(p) : \A other \in Beyond(p) : at <= other
  BY <1>2, Least
<1>4. /\ Min(Beyond(p)) \in Beyond(p)
      /\ \A other \in Beyond(p) : Min(Beyond(p)) <= other
  BY <1>3 DEF Min
<1> DEFINE first == Min(Beyond(p))
<1> HIDE DEF first
<1>5. first \in p .. Len(keys) /\ keys[first] # Deleted /\ \A n \in p .. first - 1 : keys[n] = Deleted
  <2>1. first \in Beyond(p) /\ \A other \in Beyond(p) : first <= other
    BY <1>4 DEF first
  <2>2. first \in p .. Len(keys) /\ keys[first] # Deleted
    BY <2>1 DEF Beyond
  <2>3. ASSUME NEW n \in p .. first - 1 PROVE keys[n] = Deleted
    BY <1>1, <2>1, <2>2, <2>3 DEF Beyond
  <2> QED BY <2>2, <2>3
<1>6. LiveKeysOf(keys, p) = <<keys[first]>> \o LiveKeysOf(keys, first + 1)
  BY <1>1, <1>5, LiveKeysNext
<1> QED BY <1>1, <1>5, <1>6 DEF first, Entries

\* A walk goes on.
LEMMA WalkImplements ==
    ASSUME TableInv, NEW w \in Walk, WalkOn(w)
    PROVE  TableInv' /\ Live!Advance(w)
<1> DEFINE ahead == [v \in Walk |-> IF walks[v] = Ended THEN <<>> ELSE LiveKeys(walks[v])]
           ended == {v \in Walk : walks[v] = Ended}
           p == walks[w]
<1>1. UNCHANGED table
  BY DEF WalkOn
<1>2. /\ Len(keys) \in Nat /\ walks \in [Walk -> 0 .. Len(keys) + 1]
      /\ keys \in Seq(Key \union {Deleted}) /\ DOMAIN keys = 1 .. Len(keys)
  BY LenProperties DEF TableInv, EntriesFit, WalksFit
<1>3. ASSUME walks' \in [Walk -> 0 .. Len(keys) + 1] PROVE TableInv'
  BY <1>1, <1>3 DEF TableInv, LiveKeys, WalksFit, table
<1>4. CASE p = Ended \/ Beyond(p) = {}
  <2>1. walks' = [walks EXCEPT ![w] = Ended] /\ answer' = <<"end">>
    BY <1>4 DEF WalkOn
  <2>2. ahead[w] = <<>>
    <3>1. CASE p = Ended
      BY <3>1
    <3>2. CASE p # Ended /\ Beyond(p) = {}
      <4>1. p \in 1 .. Len(keys) + 1 /\ \A n \in p .. Len(keys) : keys[n] = Deleted
        BY <1>2, <3>2 DEF Ended, Beyond
      <4>2. LiveKeysOf(keys, p) = <<>>
        BY <1>2, <4>1, NoLiveKeys
      <4> QED BY <3>2, <4>2 DEF LiveKeys
    <3> QED BY <1>4, <3>1, <3>2
  <2>3. \A v \in Walk : walks'[v] = IF v = w THEN Ended ELSE walks[v]
    BY <1>2, <2>1
  <2>4. ahead' = ahead
    <3>1. \A v \in Walk : ahead[v] = IF walks'[v] = Ended THEN <<>> ELSE LiveKeys(walks'[v])
      BY <2>2, <2>3
    <3> QED BY <1>1, <3>1 DEF LiveKeys, table
  <2>5. ended' = ended \union {w}
    BY <2>3
  <2>6. TableInv'
    BY <1>2, <1>3, <2>1 DEF Ended
  <2> QED BY <1>1, <2>1, <2>2, <2>4, <2>5, <2>6 DEF Live!Advance, LiveKeys, table
<1>5. CASE p # Ended /\ Beyond(p) # {}
  <2> DEFINE at == Min(Beyond(p))
  <2>1. walks' = [walks EXCEPT ![w] = at + 1] /\ answer' = <<"visit", keys[at], values[at]>>
    BY <1>5 DEF WalkOn
  <2>2. p \in 1 .. Len(keys) + 1
    BY <1>2, <1>5 DEF Ended
  <2>3. at \in p .. Len(keys) /\ at \in Entries(keys)
    BY <1>5, <2>2, FirstBeyond
  <2>4. LiveKeysOf(keys, p) = <<keys[at]>> \o LiveKeysOf(keys, at + 1)
    BY <1>5, <2>2, FirstBeyond
  <2>5. ValuesOf(keys, values)[keys[at]] = values[at]
    <3>1. EntriesFit(keys, values, hashes)
      BY DEF TableInv
    <3> HIDE DEF at
    <3> QED BY <2>3, <3>1, ValuesAre
  <2> HIDE DEF at
  <2>6. at + 1 \in 1 .. Len(keys) + 1 /\ keys[at] \in Key
    BY <1>2, <2>2, <2>3 DEF TableInv, EntriesFit
  <2>7. LiveKeysOf(keys, at + 1) \in Seq(Key)
    BY <1>2, <2>6, LiveKeysFrom
  <2>8. /\ ahead[w] # <<>> /\ Head(ahead[w]) = keys[at]
        /\ Tail(ahead[w]) = LiveKeys(at + 1)
    <3>1. ahead[w] = LiveKeysOf(keys, p)
      BY <1>5 DEF LiveKeys
    <3>2. LET s == <<keys[at]>> \o LiveKeysOf(keys, at + 1)
          IN  s # <<>> /\ Head(s) = keys[at] /\ Tail(s) = LiveKeysOf(keys, at + 1)
      BY <2>6, <2>7, HeadTailBefore
    <3> QED BY <2>4, <3>1, <3>2 DEF LiveKeys
  <2>9. walks'[w] # Ended /\ \A v \in Walk : walks'[v] = IF v = w THEN at + 1 ELSE walks[v]
    BY <1>2, <2>1, <2>6 DEF Ended
  <2>10. ahead' = [ahead EXCEPT ![w] = Tail(ahead[w])]
    <3>1. \A v \in Walk : (IF walks'[v] = Ended THEN <<>> ELSE LiveKeys(walks'[v])) =
                             IF v = w THEN Tail(ahead[w]) ELSE ahead[v]
      BY <2>8, <2>9
    <3>2. [ahead EXCEPT ![w] = Tail(ahead[w])] = [v \in Walk |-> IF v = w THEN Tail(ahead[w]) ELSE ahead[v]]
      OBVIOUS
    <3> QED BY <1>1, <3>1, <3>2 DEF LiveKeys, table
  <2>11. ended' = ended
    BY <1>5, <2>9
  <2>12. TableInv'
    BY <1>2, <1>3, <2>1, <2>6
  <2>13. answer' = <<"visit", Head(ahead[w]), ValuesOf(keys, values)[Head(ahead[w])]>>
    BY <2>1, <2>5, <2>8
  <2> QED BY <1>1, <2>8, <2>10, <2>11, <2>12, <2>13 DEF Live!Advance, LiveKeys, table
<1> QED BY <1>4, <1>5

LEMMA StartsImplement ==
    ASSUME TableInit
    PROVE  Live!Init
<1>1. TableInv /\ keys = <<>> /\ values = <<>> /\ walks = [w \in Walk |-> Ended] /\ answer = <<"none">>
  BY TableStarts DEF TableInit
<1>2. EntriesFit(keys, values, hashes) /\ Entries(keys) = {} /\ Len(keys) = 0
      /\ keys \in Seq(Key \union {Deleted})
  BY <1>1, EmptySeq DEF TableInv, EntriesFit, Entries
<1>3. ValuesOf(keys, values) = <<>>
  BY <1>2, NoValues
<1>4. LiveKeysOf(keys, 1) = <<>>
  <2>1. LiveKeysOf(keys, Len(keys) + 1) = <<>>
    BY <1>2, LiveKeysFrom, Zenon
  <2> QED BY <1>2, <2>1
<1>5. {w \in Walk : walks[w] = Ended} = Walk
  BY <1>1
<1>6. [w \in Walk |-> IF walks[w] = Ended THEN <<>> ELSE LiveKeys(walks[w])] = [w \in Walk |-> <<>>]
  BY <1>1
<1> QED BY <1>1, <1>3, <1>4, <1>5, <1>6 DEF Live!Init, LiveKeys

LEMMA TableSteps ==
    ASSUME TableInv, TableNext
    PROVE  TableInv' /\ Live!Next
<1>1. ASSUME NEW key \in Key, GetEntry(key) PROVE TableInv' /\ Live!Next
  BY <1>1, GetImplements DEF Live!Next
<1>2. ASSUME NEW key \in Key, DeleteEntry(key) PROVE TableInv' /\ Live!Next
  BY <1>2, DeleteImplements DEF Live!Next
<1>3. ASSUME NEW key \in Key, NEW value \in Value, PutEntry(key, value) PROVE TableInv' /\ Live!Next
  BY <1>3, PutImplements DEF Live!Next
<1>4. ASSUME ClearEntries PROVE TableInv' /\ Live!Next
  BY <1>4, ClearImplements DEF Live!Next
<1>5. ASSUME SizeOf PROVE TableInv' /\ Live!Next
  BY <1>5, SizeImplements DEF Live!Next
<1>6. ASSUME NEW w \in Walk, StartWalk(w) PROVE TableInv' /\ Live!Next
  BY <1>6, StartImplements DEF Live!Next
<1>7. ASSUME NEW w \in Walk, WalkOn(w) PROVE TableInv' /\ Live!Next
  BY <1>7, WalkImplements DEF Live!Next
<1> QED BY <1>1, <1>2, <1>3, <1>4, <1>5, <1>6, <1>7 DEF TableNext

\* A step of another structure is none of this one's.
LEMMA TableStutters ==
    ASSUME TableInv, UNCHANGED tableVars
    PROVE  TableInv' /\ UNCHANGED <<LiveKeys(1), ValuesOf(keys, values),
                                    [w \in Walk |-> IF walks[w] = Ended THEN <<>> ELSE LiveKeys(walks[w])],
                                    {w \in Walk : walks[w] = Ended}, answer>>
BY DEF TableInv, LiveKeys, WalksFit, table, tableVars

\* The table's invariant holds in every state.
THEOREM TableInvariant == Spec => []TableInv
<1>1. Init => TableInv
  BY TableStarts DEF Init
<1>2. TableInv /\ [Next]_<<subject, tableVars, weakVars, atomVars>> => TableInv'
  BY TableSteps, TableStutters DEF Next
<1> QED BY <1>1, <1>2, PTL DEF Spec

\* Whatever is added, deleted and cleared while walks are under way, and
\* however the keys' hashes collide, what a program sees of a Map or Set is
\* the ordered map: every lookup answers by what was put last, and each walk
\* visits what it should, in order, each once (the operations of
\* engine/builtins/collections.zs on the table of engine/heap.zs).
THEOREM EntriesImplemented == Spec => ImplementsLiveEntries
<1>1. Init => Live!Init
  BY StartsImplement DEF Init
<1>2. TableInv /\ [Next]_<<subject, tableVars, weakVars, atomVars>> =>
         [Live!Next]_<<LiveKeys(1), ValuesOf(keys, values),
                       [w \in Walk |-> IF walks[w] = Ended THEN <<>> ELSE LiveKeys(walks[w])],
                       {w \in Walk : walks[w] = Ended}, answer>>
  BY TableSteps, TableStutters DEF Next
<1> QED BY <1>1, <1>2, TableInvariant, PTL DEF Spec, ImplementsLiveEntries, Live!Spec
-----------------------------------------------------------------------------
(* The record of a WeakMap or WeakSet.                                     *)

LEMMA SameCodes == /\ WEAK_EMPTY = TABLE_EMPTY /\ WEAK_TOMBSTONE = TABLE_REMOVED
                   /\ \A slots, key, at : IndexInsert(slots, key, at) = Placed(slots, at, Hash[key])
BY DEF WEAK_EMPTY, TABLE_EMPTY, WEAK_TOMBSTONE, TABLE_REMOVED, IndexInsert, Placed

\* Arrays by position and an index, with some hashes (the record keeps none).
WeakFits(ks, vs, idx) == \E hs : EntriesFit(ks, vs, hs) /\ Indexes(idx, ks, hs)

\* weakRebuildIndex, from any slots of which there are enough.
LEMMA RebuiltIndexes ==
    ASSUME NEW ks, NEW vs, NEW hs, NEW slots, EntriesFit(ks, vs, hs),
           Capacity(slots) \in Nat \ {0}, Len(ks) * 4 <= Capacity(slots) * 3
    PROVE  Indexes(Rebuilt(slots, ks), ks, hs) /\ Capacity(Rebuilt(slots, ks)) = Capacity(slots)
<1> DEFINE C == Capacity(slots)
           N == Len(ks)
           P == Entries(ks)
<1>1. N \in Nat /\ DOMAIN ks = 1 .. N /\ C \in Nat \ {0} /\ N * 4 <= C * 3
  BY LenProperties DEF EntriesFit
<1>2. P \in SUBSET (1 .. N) /\ (\A p \in P : hs[p] \in Nat /\ hs[p] = Hash[ks[p]])
      /\ \A n \in 1 .. N : n \in P <=> ks[n] # Deleted
  BY <1>1, ProbingAssumption DEF EntriesFit, Entries
<1> HIDE DEF C
<1>3. N <= C
  BY <1>1
<1>4. PICK f : Building(f, C, N, P, hs, TABLE_EMPTY, TABLE_REMOVED)
  BY <1>1, BuildingExists
<1> DEFINE Body(g) == [at \in 0 .. Len(ks) |->
                          IF at = 0 THEN Filled(Capacity(slots), WEAK_EMPTY)
                          ELSE IF ks[at] = Deleted THEN g[at - 1] ELSE IndexInsert(g[at - 1], ks[at], at)]
           after == CHOOSE g : g = Body(g)
<1>5. Rebuilt(slots, ks) = after[Len(ks)]
  BY DEF Rebuilt
<1>6. ASSUME NEW g
      PROVE  Body(g) = [n \in 0 .. N |->
                IF n = 0 THEN Filled(C, TABLE_EMPTY)
                ELSE IF n \notin P THEN g[n - 1]
                ELSE [g[n - 1] EXCEPT ![Found(g[n - 1], hs[n], {TABLE_EMPTY, TABLE_REMOVED})] = n]]
  <2>1. \A n \in 0 .. N : n # 0 => /\ (n \in P <=> ks[n] # Deleted)
                                   /\ n \in P => hs[n] = Hash[ks[n]]
    BY <1>1, <1>2
  <2>2. \A n : IndexInsert(g[n - 1], ks[n], n) =
               [g[n - 1] EXCEPT ![Found(g[n - 1], Hash[ks[n]], {TABLE_EMPTY, TABLE_REMOVED})] = n]
    BY SameCodes DEF Placed
  <2>3. Filled(Capacity(slots), WEAK_EMPTY) = Filled(C, TABLE_EMPTY)
    BY SameCodes DEF C
  <2> DEFINE Left(n) == IF n = 0 THEN Filled(Capacity(slots), WEAK_EMPTY)
                        ELSE IF ks[n] = Deleted THEN g[n - 1] ELSE IndexInsert(g[n - 1], ks[n], n)
             Right(n) == IF n = 0 THEN Filled(C, TABLE_EMPTY)
                         ELSE IF n \notin P THEN g[n - 1]
                         ELSE [g[n - 1] EXCEPT ![Found(g[n - 1], hs[n], {TABLE_EMPTY, TABLE_REMOVED})] = n]
  <2>4. \A n \in 0 .. N : Left(n) = Right(n)
    <3> HIDE DEF N, P
    <3> QED BY <2>1, <2>2, <2>3, Zenon
  <2>5. [n \in 0 .. N |-> Left(n)] = [n \in 0 .. N |-> Right(n)]
    <3> HIDE DEF Left, Right
    <3> QED BY <2>4
  <2> QED BY <2>5, Zenon
<1> HIDE DEF Body
<1>7. f = Body(f)
  BY <1>4, <1>6, Zenon DEF Building
<1>8. after = Body(after)
  BY <1>7
<1>9. Building(after, C, N, P, hs, TABLE_EMPTY, TABLE_REMOVED)
  <2> HIDE DEF after
  <2> QED BY <1>8, <1>6, Zenon DEF Building
<1> HIDE DEF after
<1>10. /\ InOrder(after[N], C, P, hs, TABLE_EMPTY, TABLE_REMOVED)
       /\ Cardinality(Used(after[N], C, TABLE_EMPTY)) <= N
  BY <1>1, <1>2, <1>3, <1>9, Codes, BuiltInOrder
<1>11. Capacity(after[N]) = C
  BY <1>1, <1>10, CapacityOf DEF InOrder
<1> QED BY <1>1, <1>5, <1>10, <1>11 DEF Indexes, C

\* weakCompact keeps the positions of the entries, each once.
StaysOnce(s, P, n) ==
    /\ s \in Seq(P) /\ Len(s) <= n
    /\ \A p \in P : \E i \in 1 .. Len(s) : s[i] = p
    /\ \A i, j \in 1 .. Len(s) : s[i] = s[j] => i = j

LEMMA OneMoreStays ==
    ASSUME NEW n \in Nat, NEW P \in SUBSET (0 .. n), NEW s, StaysOnce(s, P, n)
    PROVE  StaysOnce(Append(s, n + 1), P \union {n + 1}, n + 1)
<1> DEFINE t == Append(s, n + 1)
           Q == P \union {n + 1}
<1>1. Len(s) \in Nat /\ s \in Seq(Q) /\ n + 1 \in Q /\ \A i \in 1 .. Len(s) : s[i] \in P
  BY LenProperties, ElementOfSeq DEF StaysOnce
<1>2. /\ t \in Seq(Q) /\ Len(t) = Len(s) + 1 /\ t[Len(s) + 1] = n + 1
      /\ \A i \in 1 .. Len(s) : t[i] = s[i]
  <2> HIDE DEF Q
  <2> QED BY <1>1, AppendProperties
<1> HIDE DEF t
<1>3. \A q \in Q : \E i \in 1 .. Len(t) : t[i] = q
  BY <1>1, <1>2 DEF StaysOnce
<1>4. n + 1 \notin P
  OBVIOUS
<1>5. ASSUME NEW i \in 1 .. Len(t), NEW j \in 1 .. Len(t), t[i] = t[j] PROVE i = j
  <2>1. i \in 1 .. Len(s) \/ i = Len(s) + 1
    BY <1>1, <1>2
  <2>2. j \in 1 .. Len(s) \/ j = Len(s) + 1
    BY <1>1, <1>2
  <2> QED BY <1>1, <1>2, <1>4, <1>5, <2>1, <2>2 DEF StaysOnce
<1>6. StaysOnce(t, Q, n + 1)
  BY <1>1, <1>2, <1>3, <1>5 DEF StaysOnce
<1> QED BY <1>6 DEF t, Q

LEMMA StayingAre ==
    ASSUME NEW S, NEW ks \in Seq(S)
    PROVE  StaysOnce(Staying(ks), Entries(ks), Len(ks))
<1> DEFINE N == Len(ks)
           Step(n, s) == IF ks[n] = Deleted THEN s ELSE Append(s, n)
           G == [n \in 1 .. N |-> [s \in Seq(Nat) |-> Step(n, s)]]
           Body(g) == [at \in 0 .. Len(ks) |-> IF at = 0 THEN <<>>
                                               ELSE IF ks[at] = Deleted THEN g[at - 1] ELSE Append(g[at - 1], at)]
           among == CHOOSE g : g = Body(g)
<1>1. N \in Nat /\ DOMAIN ks = 1 .. N
  BY LenProperties
<1>2. G \in [1 .. N -> [Seq(Nat) -> Seq(Nat)]]
  <2>1. \A n \in 1 .. N : \A s \in Seq(Nat) : Step(n, s) \in Seq(Nat)
    BY AppendProperties
  <2> HIDE DEF Step
  <2> QED BY <2>1
<1>3. \A n \in 1 .. N : \A s \in Seq(Nat) : G[n][s] = Step(n, s)
  <2> HIDE DEF Step
  <2> QED OBVIOUS
<1>4. <<>> \in Seq(Nat)
  BY EmptySeq
<1> HIDE DEF G
<1>5. PICK f \in [0 .. N -> Seq(Nat)] : Follows(f, N, <<>>, G)
  BY <1>1, <1>2, <1>4, Recursion
<1>6. f = Body(f)
  <2>1. \A n \in 1 .. N : f[n - 1] \in Seq(Nat)
    BY <1>5
  <2>2. \A n \in 0 .. N : (IF n = 0 THEN <<>> ELSE G[n][f[n - 1]]) = (IF n = 0 THEN <<>> ELSE Step(n, f[n - 1]))
    <3> HIDE DEF Step
    <3> QED BY <1>3, <2>1
  <2>3. f = [n \in 0 .. N |-> IF n = 0 THEN <<>> ELSE Step(n, f[n - 1])]
    <3> HIDE DEF Step
    <3> QED BY <1>5, <2>2 DEF Follows
  <2> QED BY <2>3, Zenon
<1>7. among = Body(among)
  <2> HIDE DEF Body
  <2> QED BY <1>6
<1>8. Staying(ks) = among[N]
  BY DEF Staying
<1> HIDE DEF among
<1>9. /\ among[0] = <<>>
      /\ \A n \in 1 .. N : among[n] = IF ks[n] = Deleted THEN among[n - 1] ELSE Append(among[n - 1], n)
  <2>1. \A n \in 0 .. N : among[n] = IF n = 0 THEN <<>>
                                     ELSE IF ks[n] = Deleted THEN among[n - 1] ELSE Append(among[n - 1], n)
    BY <1>7
  <2> QED BY <1>1, <2>1
<1> DEFINE Upto(n) == {at \in 1 .. n : ks[at] # Deleted}
           Done(n) == StaysOnce(among[n], Upto(n), n)
<1>10. Done(0)
  <2>1. Upto(0) = {} /\ Len(<<>>) = 0 /\ <<>> \in Seq({})
    BY EmptySeq
  <2> QED BY <1>9, <2>1 DEF StaysOnce
<1>11. ASSUME NEW n \in 1 .. N, Done(n - 1) PROVE Done(n)
  <2>1. CASE ks[n] = Deleted
    <3>1. Upto(n) = Upto(n - 1)
      BY <2>1
    <3>2. among[n] = among[n - 1]
      BY <1>9, <2>1
    <3>3. Len(among[n]) \in Nat
      BY <1>11, <3>2, LenProperties DEF StaysOnce
    <3> HIDE DEF Upto
    <3> QED BY <1>11, <3>1, <3>2, <3>3 DEF StaysOnce
  <2>2. CASE ks[n] # Deleted
    <3> DEFINE m == n - 1
    <3>1. m \in Nat /\ m + 1 = n
      OBVIOUS
    <3>2. Upto(n) = Upto(m) \union {m + 1} /\ Upto(m) \in SUBSET (0 .. m)
      BY <2>2
    <3>3. among[n] = Append(among[m], n)
      BY <1>9, <2>2
    <3>4. StaysOnce(among[m], Upto(m), m)
      BY <1>11
    <3> HIDE DEF m, Upto
    <3>5. StaysOnce(Append(among[m], m + 1), Upto(m) \union {m + 1}, m + 1)
      BY <3>1, <3>2, <3>4, OneMoreStays
    <3> QED BY <3>1, <3>2, <3>3, <3>5
  <2> QED BY <2>1, <2>2
<1> DEFINE H == {n \in 0 .. N : Done(n)}
<1>12. Done(N)
  <2> HIDE DEF Done
  <2>1. 0 \in H /\ \A n \in 1 .. N : n - 1 \in H => n \in H
    BY <1>1, <1>10, <1>11
  <2>2. N \in 0 .. N
    BY <1>1
  <2>3. \A n \in 0 .. N : n \in H
    <3> HIDE DEF H
    <3> QED BY <1>1, <2>1, UpTo
  <2> QED BY <2>2, <2>3
<1>13. Upto(N) = Entries(ks)
  BY <1>1 DEF Entries
<1> QED BY <1>8, <1>12, <1>13

\* What a compaction leaves: the entries, at the first positions.
LEMMA CompactedFit ==
    ASSUME NEW ks, NEW vs, NEW hs, EntriesFit(ks, vs, hs),
           NEW ks2, ks2 = Compacted(ks, ks), NEW vs2, vs2 = Compacted(vs, ks),
           NEW hs2, hs2 = Compacted(hs, ks)
    PROVE  /\ EntriesFit(ks2, vs2, hs2)
           /\ Len(ks2) <= Len(ks)
           /\ ValuesOf(ks2, vs2) = ValuesOf(ks, vs)
           /\ \A at \in DOMAIN ks2 : \E from \in Entries(ks) : ks2[at] = ks[from] /\ vs2[at] = vs[from]
<1> DEFINE s == Staying(ks)
           n == Len(s)
           P == Entries(ks)
<1>1. /\ Len(ks) \in Nat /\ DOMAIN ks = 1 .. Len(ks) /\ P \in SUBSET (1 .. Len(ks))
      /\ Len(vs) = Len(ks) /\ Len(hs) = Len(ks)
      /\ \A at \in P : ks[at] \in Key /\ hs[at] = Hash[ks[at]] /\ vs[at] \in Value
      /\ \A at, other \in P : ks[at] = ks[other] => at = other
  BY LenProperties, EntriesAreNumbers DEF EntriesFit
<1>2. StaysOnce(s, P, Len(ks))
  BY StayingAre DEF EntriesFit
<1>3. /\ n \in Nat /\ DOMAIN s = 1 .. n /\ n <= Len(ks) /\ \A i \in 1 .. n : s[i] \in P
      /\ \A p \in P : \E i \in 1 .. n : s[i] = p
      /\ \A i, j \in 1 .. n : s[i] = s[j] => i = j
  BY <1>2, LenProperties, ElementOfSeq DEF StaysOnce
<1>4. /\ ks2 = [i \in 1 .. n |-> ks[s[i]]] /\ vs2 = [i \in 1 .. n |-> vs[s[i]]]
      /\ hs2 = [i \in 1 .. n |-> hs[s[i]]]
  BY <1>3 DEF Compacted
<1> HIDE DEF s, n, P
<1>5. \A i \in 1 .. n : /\ ks2[i] \in Key /\ vs2[i] \in Value /\ hs2[i] = Hash[ks2[i]] /\ hs2[i] \in Nat
                        /\ ks2[i] # Deleted
  <2>1. SUFFICES ASSUME NEW i \in 1 .. n
                 PROVE  /\ ks2[i] \in Key /\ vs2[i] \in Value /\ hs2[i] = Hash[ks2[i]] /\ hs2[i] \in Nat
                        /\ ks2[i] # Deleted
    OBVIOUS
  <2>2. s[i] \in P /\ ks2[i] = ks[s[i]] /\ vs2[i] = vs[s[i]] /\ hs2[i] = hs[s[i]]
    BY <1>3, <1>4
  <2>3. ks[s[i]] \in Key /\ hs[s[i]] = Hash[ks[s[i]]] /\ vs[s[i]] \in Value
    BY <1>1, <2>2
  <2> QED BY <2>2, <2>3, ProbingAssumption
<1>6. /\ ks2 \in Seq(Key \union {Deleted}) /\ vs2 \in Seq(Value \union {Deleted}) /\ hs2 \in Seq(Nat)
      /\ Len(ks2) = n /\ Len(vs2) = n /\ Len(hs2) = n /\ DOMAIN ks2 = 1 .. n
  <2>1. DOMAIN ks2 = 1 .. n /\ DOMAIN vs2 = 1 .. n /\ DOMAIN hs2 = 1 .. n
    BY <1>4
  <2>2. ks2 \in Seq(Key \union {Deleted}) /\ Len(ks2) = n
    <3>1. \A i \in 1 .. n : ks[s[i]] \in Key \union {Deleted}
      BY <1>4, <1>5
    <3> QED BY <1>3, <1>4, <3>1, IsASeq
  <2>3. vs2 \in Seq(Value \union {Deleted}) /\ Len(vs2) = n
    <3>1. \A i \in 1 .. n : vs[s[i]] \in Value \union {Deleted}
      BY <1>4, <1>5
    <3> QED BY <1>3, <1>4, <3>1, IsASeq
  <2>4. hs2 \in Seq(Nat) /\ Len(hs2) = n
    <3>1. \A i \in 1 .. n : hs[s[i]] \in Nat
      BY <1>4, <1>5
    <3> QED BY <1>3, <1>4, <3>1, IsASeq
  <2> QED BY <2>1, <2>2, <2>3, <2>4
<1>7. Entries(ks2) = 1 .. n
  BY <1>5, <1>6 DEF Entries
<1>8. ASSUME NEW i \in 1 .. n, NEW j \in 1 .. n, ks2[i] = ks2[j] PROVE i = j
  <2>1. ks[s[i]] = ks[s[j]] /\ s[i] \in P /\ s[j] \in P
    BY <1>3, <1>4, <1>8
  <2>2. s[i] = s[j]
    BY <1>1, <2>1
  <2> QED BY <1>3, <2>2
<1>9. EntriesFit(ks2, vs2, hs2)
  BY <1>5, <1>6, <1>7, <1>8 DEF EntriesFit
<1>10. ValuesOf(ks2, vs2) = ValuesOf(ks, vs)
  <2> DEFINE f == ValuesOf(ks, vs)
  <2>1. DOMAIN f = {ks[at] : at \in P} /\ \A at \in P : f[ks[at]] = vs[at]
    BY ONLY EntriesFit(ks, vs, hs), ValuesAre DEF P
  <2>2. f = [k \in DOMAIN f |-> f[k]]
    BY DEF ValuesOf
  <2> HIDE DEF f
  <2>3. DOMAIN f = {ks2[at] : at \in Entries(ks2)}
    <3>1. \A at \in P : \E i \in 1 .. n : ks2[i] = ks[at]
      BY <1>3, <1>4
    <3>2. \A i \in 1 .. n : \E at \in P : ks2[i] = ks[at]
      BY <1>3, <1>4
    <3> QED BY <1>7, <2>1, <3>1, <3>2
  <2>4. \A at \in Entries(ks2) : f[ks2[at]] = vs2[at]
    <3>1. \A i \in 1 .. n : s[i] \in P /\ ks2[i] = ks[s[i]] /\ vs2[i] = vs[s[i]]
      BY <1>3, <1>4
    <3> QED BY <1>7, <2>1, <3>1
  <2>5. ValuesOf(ks2, vs2) = f
    BY <1>9, <2>2, <2>3, <2>4, SameValues
  <2> QED BY <2>5 DEF f
<1>11. \A at \in DOMAIN ks2 : \E from \in P : ks2[at] = ks[from] /\ vs2[at] = vs[from]
  BY <1>3, <1>4, <1>6
<1> QED BY <1>3, <1>6, <1>9, <1>10, <1>11 DEF P

\* weakFind finds what is there, and nothing else.
LEMMA WeakLookup ==
    ASSUME WeakFits(weakKeys, weakValues, weakIndex), NEW key \in Key
    PROVE  /\ WeakFind(key) # Absent => WeakFind(key) \in Entries(weakKeys) /\ weakKeys[WeakFind(key)] = key
           /\ WeakFind(key) = Absent => \A at \in Entries(weakKeys) : weakKeys[at] # key
<1> DEFINE H == OfKey(weakKeys, key)
           held == weakIndex[Found(weakIndex, Hash[key], {TABLE_EMPTY} \union H)]
<1>1. WeakHolding(key) = H
  <2>1. key # Deleted
    BY ProbingAssumption
  <2> QED BY <2>1 DEF WeakHolding, Entries, OfKey
<1>2. (H = {} => held = TABLE_EMPTY) /\ (H # {} => held \in H) /\ Absent \notin H /\ TABLE_EMPTY \notin H
  <2>1. PICK hs : EntriesFit(weakKeys, weakValues, hs) /\ Indexes(weakIndex, weakKeys, hs)
    BY DEF WeakFits
  <2> QED BY <2>1, LookupIn
<1>3. WeakFind(key) = IF held \in H THEN held ELSE Absent
  BY <1>1, SameCodes DEF WeakFind
<1> HIDE DEF held
<1> QED BY <1>2, <1>3 DEF OfKey

\* Room for one more: the entries stay, by their keys.
LEMMA RoomMadeFits ==
    ASSUME NEW hs, EntriesFit(weakKeys, weakValues, hs), Indexes(weakIndex, weakKeys, hs)
    PROVE  \E hs2 :
              /\ EntriesFit(RoomMade.keys, RoomMade.values, hs2)
              /\ Indexes(RoomMade.index, RoomMade.keys, hs2)
              /\ (Len(RoomMade.keys) + 1) * 4 <= Capacity(RoomMade.index) * 3
              /\ ValuesOf(RoomMade.keys, RoomMade.values) = ValuesOf(weakKeys, weakValues)
<1> DEFINE ks == IF Compacts THEN Compacted(weakKeys, weakKeys) ELSE weakKeys
           vs == IF Compacts THEN Compacted(weakValues, weakKeys) ELSE weakValues
           hs2 == IF Compacts THEN Compacted(hs, weakKeys) ELSE hs
           doubled == Filled(2 * Capacity(weakIndex), WEAK_EMPTY)
           idx == IF NoRoom(ks, weakIndex) THEN Rebuilt(doubled, ks)
                  ELSE IF Compacts THEN Rebuilt(weakIndex, ks) ELSE weakIndex
           C == Capacity(weakIndex)
<1>1. RoomMade.keys = ks /\ RoomMade.values = vs /\ RoomMade.index = idx
  BY DEF RoomMade
<1>2. /\ EntriesFit(ks, vs, hs2) /\ Len(ks) <= Len(weakKeys)
      /\ ValuesOf(ks, vs) = ValuesOf(weakKeys, weakValues)
  <2>1. CASE Compacts
    BY <2>1, CompactedFit
  <2>2. CASE ~Compacts
    <3>1. Len(weakKeys) \in Nat
      BY LenProperties DEF EntriesFit
    <3> QED BY <2>2, <3>1
  <2> QED BY <2>1, <2>2
<1>3. C \in Nat \ {0} /\ Len(weakKeys) * 4 <= C * 3 /\ Len(weakKeys) \in Nat /\ Len(ks) \in Nat
  <2>1. Len(ks) \in Nat
    <3> HIDE DEF ks
    <3> QED BY <1>2, LenProperties DEF EntriesFit
  <2> QED BY <2>1, LenProperties DEF Indexes, EntriesFit
<1>4. Capacity(doubled) = 2 * C
  <2> HIDE DEF C
  <2>1. 2 * C \in Nat \ {0} /\ doubled = Filled(2 * C, WEAK_EMPTY)
    BY <1>3 DEF C
  <2>2. DOMAIN doubled = 0 .. 2 * C - 1
    BY <2>1 DEF Filled, Slots
  <2> QED BY <2>1, <2>2, CapacityOf
<1> HIDE DEF hs2, vs, doubled
<1>5. CASE NoRoom(ks, weakIndex)
  <2>1. idx = Rebuilt(doubled, ks)
    BY <1>5
  <2> HIDE DEF ks, C, idx
  <2>2. Capacity(doubled) \in Nat \ {0} /\ Len(ks) * 4 <= Capacity(doubled) * 3
        /\ (Len(ks) + 1) * 4 <= Capacity(doubled) * 3
    BY <1>2, <1>3, <1>4
  <2>3. Indexes(idx, ks, hs2) /\ Capacity(idx) = Capacity(doubled)
    BY <1>2, <2>1, <2>2, RebuiltIndexes
  <2> QED BY <1>1, <1>2, <2>2, <2>3
<1>6. CASE ~ NoRoom(ks, weakIndex)
  <2>1. (Len(ks) + 1) * 4 <= C * 3
    <3>1. ~ ((Len(ks) + 1) * 4 > C * 3)
      BY <1>6 DEF NoRoom
    <3> HIDE DEF ks, C
    <3> QED BY <1>3, <3>1
  <2>2. CASE Compacts
    <3>1. idx = Rebuilt(weakIndex, ks)
      BY <1>6, <2>2
    <3> HIDE DEF ks, idx
    <3>2. Len(ks) * 4 <= C * 3
      <4> HIDE DEF C
      <4> QED BY <1>3, <2>1
    <3>3. Indexes(idx, ks, hs2) /\ Capacity(idx) = C
      BY <1>2, <1>3, <3>1, <3>2, RebuiltIndexes
    <3> HIDE DEF C
    <3> QED BY <1>1, <1>2, <2>1, <3>3
  <2>3. CASE ~Compacts
    <3>1. idx = weakIndex /\ ks = weakKeys /\ hs2 = hs
      BY <1>6, <2>3 DEF hs2
    <3>2. Indexes(idx, ks, hs2) /\ Capacity(idx) = C
      BY <3>1
    <3> HIDE DEF ks, idx, C
    <3> QED BY <1>1, <1>2, <2>1, <3>2
  <2> QED BY <2>2, <2>3
<1> QED BY <1>5, <1>6

\* What a collection leaves of the arrays before they are compacted.
Less(m, dead) == [k \in DOMAIN m \ dead |-> m[k]]
Cleared(array, ks, dead) == [at \in DOMAIN ks |-> IF ks[at] \in dead THEN Deleted ELSE array[at]]

LEMMA WithoutDeadAre ==
    ASSUME WeakFits(weakKeys, weakValues, weakIndex), NEW dead
    PROVE  /\ WithoutDead(dead).keys = Cleared(weakKeys, weakKeys, dead)
           /\ WithoutDead(dead).values = Cleared(weakValues, weakKeys, dead)
           /\ Capacity(WithoutDead(dead).index) = Capacity(weakIndex)
<1> DEFINE N == Len(weakKeys)
           C == Capacity(weakIndex)
           K == Key \union {Deleted}
           V == Value \union {Deleted}
           A == {weakIndex[slot] : slot \in DOMAIN weakIndex} \union {WEAK_TOMBSTONE}
           S == [keys : [1 .. N -> K], values : [1 .. N -> V], index : [0 .. C - 1 -> A]]
           Step(n, r) == IF weakKeys[n] \in dead THEN Retired(r, n) ELSE r
           G == [n \in 1 .. N |-> [r \in S |-> Step(n, r)]]
           Body(g) == [at \in 0 .. Len(weakKeys) |->
                          IF at = 0 THEN Whole
                          ELSE IF weakKeys[at] \in dead THEN Retired(g[at - 1], at) ELSE g[at - 1]]
           after == CHOOSE g : g = Body(g)
<1>1. /\ N \in Nat /\ DOMAIN weakKeys = 1 .. N
      /\ weakKeys \in [1 .. N -> K] /\ weakValues \in [1 .. N -> V]
      /\ C \in Nat \ {0} /\ weakIndex \in [0 .. C - 1 -> A]
  <2>1. PICK hs : EntriesFit(weakKeys, weakValues, hs) /\ Indexes(weakIndex, weakKeys, hs)
    BY DEF WeakFits
  <2>2. /\ N \in Nat /\ DOMAIN weakKeys = 1 .. N /\ weakKeys \in [1 .. N -> K]
        /\ weakValues \in [1 .. N -> V]
    <3>1. weakKeys \in Seq(K) /\ weakValues \in Seq(V) /\ Len(weakValues) = N
      BY <2>1 DEF EntriesFit
    <3> HIDE DEF K, V
    <3> QED BY <3>1, LenProperties
  <2>3. C \in Nat \ {0} /\ DOMAIN weakIndex = 0 .. C - 1 /\ weakIndex = [slot \in DOMAIN weakIndex |-> weakIndex[slot]]
    <3>1. C \in Nat \ {0} /\ \E B : weakIndex \in [0 .. C - 1 -> B]
      BY <2>1 DEF Indexes, InOrder
    <3> HIDE DEF C
    <3> QED BY <3>1
  <2> HIDE DEF C
  <2>4. weakIndex \in [0 .. C - 1 -> A]
    BY <2>3
  <2> QED BY <2>2, <2>3, <2>4
<1> HIDE DEF N, C, K, V, A
<1>2. Deleted \in K /\ Deleted \in V /\ WEAK_TOMBSTONE \in A
  BY DEF K, V, A
<1>3. ASSUME NEW n \in 1 .. N, NEW r \in S
      PROVE  /\ Retired(r, n) \in S
             /\ Retired(r, n).keys = [r.keys EXCEPT ![n] = Deleted]
             /\ Retired(r, n).values = [r.values EXCEPT ![n] = Deleted]
  BY <1>2 DEF Retired
<1>4. Whole \in S
  BY <1>1 DEF Whole
<1>5. G \in [1 .. N -> [S -> S]] /\ \A n \in 1 .. N : \A r \in S : G[n][r] = Step(n, r) /\ Step(n, r) \in S
  <2>1. \A n \in 1 .. N : \A r \in S : Step(n, r) \in S
    BY <1>3
  <2> HIDE DEF Step, S
  <2> QED BY <2>1
<1> HIDE DEF G, S
<1>6. PICK f \in [0 .. N -> S] : Follows(f, N, Whole, G)
  BY <1>1, <1>4, <1>5, Recursion
<1>7. f = Body(f)
  <2>1. \A n \in 1 .. N : f[n - 1] \in S
    BY <1>1, <1>6
  <2>2. \A n \in 0 .. N : (IF n = 0 THEN Whole ELSE G[n][f[n - 1]]) = (IF n = 0 THEN Whole ELSE Step(n, f[n - 1]))
    <3> HIDE DEF Step
    <3> QED BY <1>5, <2>1
  <2>3. f = [n \in 0 .. N |-> IF n = 0 THEN Whole ELSE Step(n, f[n - 1])]
    <3> HIDE DEF Step
    <3> QED BY <1>6, <2>2 DEF Follows
  <2>4. N = Len(weakKeys)
    BY DEF N
  <2> QED BY <2>3, <2>4, Zenon
<1>8. after = Body(after)
  <2> HIDE DEF Body
  <2> QED BY <1>7
<1>9. WithoutDead(dead) = after[N]
  BY DEF WithoutDead, N
<1> HIDE DEF after
<1>10. /\ after[0] = Whole
       /\ \A n \in 1 .. N : after[n] = Step(n, after[n - 1])
  <2>1. \A n \in 0 .. N : after[n] = IF n = 0 THEN Whole
                                     ELSE IF weakKeys[n] \in dead THEN Retired(after[n - 1], n) ELSE after[n - 1]
    BY <1>8 DEF N
  <2> QED BY <1>1, <2>1
<1> DEFINE Upto(array, n) == [at \in 1 .. N |-> IF at <= n /\ weakKeys[at] \in dead THEN Deleted ELSE array[at]]
           Done(n) == after[n] \in S /\ after[n].keys = Upto(weakKeys, n) /\ after[n].values = Upto(weakValues, n)
<1>11. Done(0)
  <2>1. after[0].keys = weakKeys /\ after[0].values = weakValues
    BY <1>10 DEF Whole
  <2>2. Upto(weakKeys, 0) = weakKeys /\ Upto(weakValues, 0) = weakValues
    <3>1. \A at \in 1 .. N : ~ (at <= 0)
      BY <1>1
    <3> QED BY <1>1, <3>1
  <2> QED BY <1>4, <1>10, <2>1, <2>2
<1>12. ASSUME NEW n \in 1 .. N, Done(n - 1) PROVE Done(n)
  <2> DEFINE r == after[n - 1]
  <2>1. r \in S /\ r.keys = Upto(weakKeys, n - 1) /\ r.values = Upto(weakValues, n - 1) /\ after[n] = Step(n, r)
    BY <1>10, <1>12
  <2> HIDE DEF r
  <2>2. \A at \in 1 .. N : at <= n <=> at <= n - 1 \/ at = n
    BY <1>1
  <2>3. CASE weakKeys[n] \in dead
    <3>1. after[n] = Retired(r, n)
      BY <2>1, <2>3
    <3>2. \A array : [Upto(array, n - 1) EXCEPT ![n] = Deleted] = Upto(array, n)
      BY <2>2, <2>3
    <3> HIDE DEF Upto
    <3> QED BY <1>3, <2>1, <3>1, <3>2
  <2>4. CASE weakKeys[n] \notin dead
    <3>1. after[n] = r
      BY <2>1, <2>4
    <3>2. \A array : Upto(array, n - 1) = Upto(array, n)
      BY <2>2, <2>4
    <3> HIDE DEF Upto
    <3> QED BY <2>1, <3>1, <3>2
  <2> QED BY <2>3, <2>4
<1> DEFINE H == {n \in 0 .. N : Done(n)}
<1>13. Done(N)
  <2> HIDE DEF Done
  <2>1. 0 \in H /\ \A n \in 1 .. N : n - 1 \in H => n \in H
    BY <1>1, <1>11, <1>12
  <2>2. N \in 0 .. N
    BY <1>1
  <2>3. \A n \in 0 .. N : n \in H
    <3> HIDE DEF H
    <3> QED BY <1>1, <2>1, UpTo
  <2> QED BY <2>2, <2>3
<1>14. \A array : Upto(array, N) = Cleared(array, weakKeys, dead)
  <2>1. \A at \in 1 .. N : at <= N
    BY <1>1
  <2> QED BY <1>1, <2>1 DEF Cleared
<1>15. Capacity(WithoutDead(dead).index) = C
  <2>1. DOMAIN (WithoutDead(dead).index) = 0 .. C - 1
    BY <1>9, <1>13 DEF S
  <2> QED BY <1>1, <2>1, CapacityOf
<1> HIDE DEF Upto
<1> QED BY <1>9, <1>13, <1>14, <1>15 DEF C

LEMMA ClearedAre ==
    ASSUME NEW ks, NEW vs, NEW hs, EntriesFit(ks, vs, hs), NEW dead,
           NEW ks2, ks2 = Cleared(ks, ks, dead), NEW vs2, vs2 = Cleared(vs, ks, dead)
    PROVE  /\ EntriesFit(ks2, vs2, hs) /\ Len(ks2) = Len(ks)
           /\ ValuesOf(ks2, vs2) = Less(ValuesOf(ks, vs), dead)
<1>1. /\ Len(ks) \in Nat /\ DOMAIN ks = 1 .. Len(ks) /\ Len(vs) = Len(ks) /\ Len(hs) = Len(ks)
      /\ \A n \in 1 .. Len(ks) : ks[n] \in Key \union {Deleted} /\ vs[n] \in Value \union {Deleted}
  BY LenProperties, ElementOfSeq DEF EntriesFit
<1>2. /\ ks2 = [at \in 1 .. Len(ks) |-> IF ks[at] \in dead THEN Deleted ELSE ks[at]]
      /\ vs2 = [at \in 1 .. Len(ks) |-> IF ks[at] \in dead THEN Deleted ELSE vs[at]]
  BY <1>1 DEF Cleared
<1>3. ks2 \in Seq(Key \union {Deleted}) /\ Len(ks2) = Len(ks) /\ DOMAIN ks2 = 1 .. Len(ks)
  <2>1. \A at \in 1 .. Len(ks) : (IF ks[at] \in dead THEN Deleted ELSE ks[at]) \in Key \union {Deleted}
    BY <1>1
  <2> QED BY <1>1, <1>2, <2>1, IsASeq
<1>4. vs2 \in Seq(Value \union {Deleted}) /\ Len(vs2) = Len(ks)
  <2>1. \A at \in 1 .. Len(ks) : (IF ks[at] \in dead THEN Deleted ELSE vs[at]) \in Value \union {Deleted}
    BY <1>1
  <2> QED BY <1>1, <1>2, <2>1, IsASeq
<1>5. Entries(ks2) = {at \in Entries(ks) : ks[at] \notin dead}
  BY <1>1, <1>2, <1>3 DEF Entries
<1>6. Entries(ks) \in SUBSET (1 .. Len(ks)) /\ \A at \in Entries(ks2) : ks2[at] = ks[at] /\ vs2[at] = vs[at]
  BY <1>1, <1>2, <1>5 DEF Entries
<1>7. EntriesFit(ks2, vs2, hs)
  BY <1>1, <1>3, <1>4, <1>5, <1>6 DEF EntriesFit
<1> DEFINE m == ValuesOf(ks, vs)
           f == [k \in DOMAIN m \ dead |-> m[k]]
<1>8. DOMAIN m = {ks[at] : at \in Entries(ks)} /\ \A at \in Entries(ks) : m[ks[at]] = vs[at]
  BY ONLY EntriesFit(ks, vs, hs), ValuesAre
<1> HIDE DEF m
<1>9. DOMAIN f = {ks2[at] : at \in Entries(ks2)} /\ f = [k \in DOMAIN f |-> f[k]]
  BY <1>5, <1>6, <1>8
<1>10. \A at \in Entries(ks2) : f[ks2[at]] = vs2[at]
  BY <1>5, <1>6, <1>8
<1> HIDE DEF f
<1>11. ValuesOf(ks2, vs2) = f
  BY <1>7, <1>9, <1>10, SameValues
<1> QED BY <1>3, <1>7, <1>11 DEF f, m, Less

\* The record's inductive invariant.
WeakInv ==
    /\ WeakFits(weakKeys, weakValues, weakIndex)
    /\ young \in SUBSET Fresh
    /\ YoungEntriesListed

LEMMA YoungAreNoMarks == young \in SUBSET Fresh => Deleted \notin young
BY WeakAssumption, ProbingAssumption

LEMMA SameArrays ==
    ASSUME WeakInv, UNCHANGED <<weakKeys, weakValues, weakIndex>>, young' = {} \/ UNCHANGED <<young, listed>>
    PROVE  WeakInv'
<1>1. WeakFits(weakKeys, weakValues, weakIndex)'
  BY DEF WeakInv, WeakFits
<1>2. young' \in SUBSET Fresh
  BY DEF WeakInv
<1>3. YoungEntriesListed'
  BY DEF WeakInv, YoungEntriesListed
<1> QED BY <1>1, <1>2, <1>3 DEF WeakInv

\* The places of young cells after room is made: those that moved are
\* listed anew.
LEMMA RoomListed ==
    ASSUME WeakInv
    PROVE  \A at \in DOMAIN RoomMade.keys :
              /\ RoomMade.keys[at] \in young => <<"keys", at>> \in listed \union RoomMade.listed
              /\ RoomMade.values[at] \in young => <<"values", at>> \in listed \union RoomMade.listed
<1>1. CASE ~Compacts
  <2>1. RoomMade.keys = weakKeys /\ RoomMade.values = weakValues
    BY <1>1 DEF RoomMade
  <2> QED BY <2>1 DEF WeakInv, YoungEntriesListed
<1>2. CASE Compacts
  <2> DEFINE s == Staying(weakKeys)
             ks == Compacted(weakKeys, weakKeys)
             vs == Compacted(weakValues, weakKeys)
  <2>1. RoomMade.keys = ks /\ RoomMade.values = vs /\ RoomMade.listed = Moved(weakKeys, weakValues)
    BY <1>2 DEF RoomMade
  <2>2. DOMAIN ks = DOMAIN s /\ \A at \in DOMAIN s : ks[at] = weakKeys[s[at]] /\ vs[at] = weakValues[s[at]]
    BY DEF Compacted
  <2>3. ASSUME NEW at \in DOMAIN s, s[at] # at
        PROVE  Listing("keys", at, ks[at]) \union Listing("values", at, vs[at])
                  \in SUBSET Moved(weakKeys, weakValues)
    BY <2>3 DEF Moved
  <2>4. \A at \in DOMAIN s : s[at] \in DOMAIN weakKeys
    <3>1. PICK hs : EntriesFit(weakKeys, weakValues, hs)
      BY DEF WeakInv, WeakFits
    <3>2. StaysOnce(s, Entries(weakKeys), Len(weakKeys))
      BY <3>1, StayingAre DEF EntriesFit
    <3>3. s \in Seq(Entries(weakKeys))
      BY <3>2 DEF StaysOnce
    <3> HIDE DEF s
    <3> QED BY <3>3, LenProperties, ElementOfSeq DEF Entries
  <2> HIDE DEF s, ks, vs
  <2>5. ASSUME NEW at \in DOMAIN s
        PROVE  /\ ks[at] \in young => <<"keys", at>> \in listed \union Moved(weakKeys, weakValues)
               /\ vs[at] \in young => <<"values", at>> \in listed \union Moved(weakKeys, weakValues)
    <3>1. CASE s[at] = at
      BY <2>2, <2>4, <3>1 DEF WeakInv, YoungEntriesListed
    <3>2. CASE s[at] # at
      BY <2>3, <3>2 DEF Listing
    <3> QED BY <3>1, <3>2
  <2> QED BY <2>1, <2>2, <2>5
<1> QED BY <1>1, <1>2

\* set and add.
LEMMA WeakPutImplements ==
    ASSUME WeakInv, NEW key \in Key, NEW value \in Value, WeakPut(key, value)
    PROVE  WeakInv' /\ Mapping!Put(key, value)
<1>1. /\ WeakFits(weakKeys, weakValues, weakIndex) /\ young \in SUBSET Fresh /\ young' = young
      /\ weakAnswer' = <<"none">>
  BY DEF WeakInv, WeakPut
<1>2. PICK hs : EntriesFit(weakKeys, weakValues, hs) /\ Indexes(weakIndex, weakKeys, hs)
  BY <1>1 DEF WeakFits
<1>3. /\ WeakFind(key) # Absent => WeakFind(key) \in Entries(weakKeys) /\ weakKeys[WeakFind(key)] = key
      /\ WeakFind(key) = Absent => \A at \in Entries(weakKeys) : weakKeys[at] # key
  BY <1>1, WeakLookup
<1>4. CASE WeakFind(key) # Absent
  <2> DEFINE p == WeakFind(key)
  <2>1. /\ weakValues' = [weakValues EXCEPT ![p] = value]
        /\ listed' = listed \union Listing("values", p, value)
        /\ UNCHANGED <<weakKeys, weakIndex>>
    BY <1>4 DEF WeakPut
  <2>2. p \in Entries(weakKeys) /\ weakKeys[p] = key
    BY <1>3, <1>4
  <2> HIDE DEF p
  <2>3. EntriesFit(weakKeys', weakValues', hs) /\ Indexes(weakIndex', weakKeys', hs)
    BY <1>2, <2>1, <2>2, WrittenFit
  <2>4. WeakFits(weakKeys, weakValues, weakIndex)'
    BY <2>3 DEF WeakFits
  <2>5. ValuesOf(weakKeys', weakValues') = With(ValuesOf(weakKeys, weakValues), key, value)
    BY <1>2, <2>1, <2>2, WrittenValues
  <2>6. YoungEntriesListed'
    <3>1. \A at \in DOMAIN weakKeys : weakValues'[at] = IF at = p THEN value ELSE weakValues[at]
      BY <1>2, <2>1, LenProperties DEF EntriesFit
    <3>2. SUFFICES ASSUME NEW at \in DOMAIN weakKeys
                   PROVE  /\ weakKeys[at] \in young => <<"keys", at>> \in listed'
                          /\ weakValues'[at] \in young => <<"values", at>> \in listed'
      BY <1>1, <2>1 DEF YoungEntriesListed
    <3>3. CASE at = p
      BY <2>1, <3>1, <3>3 DEF WeakInv, YoungEntriesListed, Listing
    <3>4. CASE at # p
      BY <2>1, <3>1, <3>4 DEF WeakInv, YoungEntriesListed
    <3> QED BY <3>3, <3>4
  <2> QED BY <1>1, <2>4, <2>5, <2>6 DEF WeakInv, Mapping!Put, With
<1>5. CASE WeakFind(key) = Absent
  <2> DEFINE made == RoomMade
             ks == made.keys
             vs == made.values
             at0 == Len(ks) + 1
  <2>1. /\ weakKeys' = Append(ks, key) /\ weakValues' = Append(vs, value)
        /\ weakIndex' = Placed(made.index, at0, Hash[key])
        /\ listed' = ((listed \union made.listed) \union Listing("keys", at0, key))
                        \union Listing("values", at0, value)
    BY <1>5, SameCodes DEF WeakPut
  <2>2. PICK hs2 :
           /\ EntriesFit(ks, vs, hs2) /\ Indexes(made.index, ks, hs2)
           /\ (Len(ks) + 1) * 4 <= Capacity(made.index) * 3
           /\ ValuesOf(ks, vs) = ValuesOf(weakKeys, weakValues)
    BY <1>2, RoomMadeFits
  <2>3. \A at \in DOMAIN ks : /\ ks[at] \in young => <<"keys", at>> \in listed \union made.listed
                              /\ vs[at] \in young => <<"values", at>> \in listed \union made.listed
    BY RoomListed
  <2>4. \A at \in Entries(ks) : ks[at] # key
    <3>1. DOMAIN ValuesOf(weakKeys, weakValues) = {weakKeys[at] : at \in Entries(weakKeys)}
      BY ONLY <1>2, ValuesAre
    <3>2. DOMAIN ValuesOf(ks, vs) = {ks[at] : at \in Entries(ks)}
      BY ONLY <2>2, ValuesAre
    <3> HIDE DEF ks, vs, made
    <3> QED BY <1>3, <1>5, <2>2, <3>1, <3>2
  <2> HIDE DEF made, ks, vs
  <2>5. EntriesFit(weakKeys', weakValues', Append(hs2, Hash[key]))
    BY <2>1, <2>2, <2>4, AddedFit
  <2>6. Indexes(weakIndex', weakKeys', Append(hs2, Hash[key]))
    <3> DEFINE C == Capacity(made.index)
    <3>1. /\ C \in Nat \ {0} /\ InOrder(made.index, C, Entries(ks), hs2, TABLE_EMPTY, TABLE_REMOVED)
          /\ Cardinality(Used(made.index, C, TABLE_EMPTY)) <= Len(ks) /\ (Len(ks) + 1) * 4 <= C * 3
          /\ Hash[key] \in Nat
      BY <2>2, ProbingAssumption DEF Indexes
    <3> HIDE DEF C
    <3>2. Indexes(Placed(made.index, Len(ks) + 1, Hash[key]), Append(ks, key), Append(hs2, Hash[key]))
      BY <2>2, <3>1, AddedInto
    <3> QED BY <2>1, <3>2
  <2>7. WeakFits(weakKeys, weakValues, weakIndex)'
    BY <2>5, <2>6 DEF WeakFits
  <2>8. ValuesOf(weakKeys', weakValues') = With(ValuesOf(weakKeys, weakValues), key, value)
    BY <2>1, <2>2, <2>4, AddedValues
  <2>9. YoungEntriesListed'
    <3>1. /\ Len(ks) \in Nat /\ DOMAIN ks = 1 .. Len(ks) /\ DOMAIN weakKeys' = 1 .. Len(ks) + 1
          /\ weakKeys'[Len(ks) + 1] = key /\ weakValues'[Len(ks) + 1] = value
          /\ \A at \in 1 .. Len(ks) : weakKeys'[at] = ks[at] /\ weakValues'[at] = vs[at]
      BY <2>1, <2>2, AppendProperties, LenProperties DEF EntriesFit
    <3>2. SUFFICES ASSUME NEW at \in DOMAIN weakKeys'
                   PROVE  /\ weakKeys'[at] \in young => <<"keys", at>> \in listed'
                          /\ weakValues'[at] \in young => <<"values", at>> \in listed'
      BY <1>1 DEF YoungEntriesListed
    <3>3. CASE at \in 1 .. Len(ks)
      BY <2>1, <2>3, <3>1, <3>3
    <3>4. CASE at = at0
      BY <2>1, <3>1, <3>4 DEF Listing
    <3> QED BY <3>1, <3>3, <3>4
  <2> QED BY <1>1, <2>7, <2>8, <2>9 DEF WeakInv, Mapping!Put, With
<1> QED BY <1>4, <1>5

\* get and has.
LEMMA WeakGetImplements ==
    ASSUME WeakInv, NEW key \in Key, WeakGet(key)
    PROVE  WeakInv' /\ Mapping!Get(key)
<1> DEFINE m == ValuesOf(weakKeys, weakValues)
<1>1. WeakFits(weakKeys, weakValues, weakIndex) /\ UNCHANGED <<record, young, listed>>
  BY DEF WeakInv, WeakGet
<1>2. DOMAIN m = {weakKeys[at] : at \in Entries(weakKeys)}
      /\ \A at \in Entries(weakKeys) : m[weakKeys[at]] = weakValues[at]
  <2>1. PICK hs : EntriesFit(weakKeys, weakValues, hs)
    BY <1>1 DEF WeakFits
  <2> QED BY ONLY <2>1, ValuesAre
<1>3. /\ WeakFind(key) # Absent => WeakFind(key) \in Entries(weakKeys) /\ weakKeys[WeakFind(key)] = key
      /\ WeakFind(key) = Absent => \A at \in Entries(weakKeys) : weakKeys[at] # key
  BY <1>1, WeakLookup
<1> HIDE DEF m
<1>4. weakAnswer' = IF key \in DOMAIN m THEN <<"value", m[key]>> ELSE <<"absent">>
  BY <1>2, <1>3 DEF WeakGet
<1>5. WeakInv'
  BY <1>1, SameArrays DEF record
<1> QED BY <1>1, <1>4, <1>5 DEF Mapping!Get, m, record

\* delete.
LEMMA WeakDeleteImplements ==
    ASSUME WeakInv, NEW key \in Key, WeakDelete(key)
    PROVE  WeakInv' /\ Mapping!Delete(key)
<1> DEFINE m == ValuesOf(weakKeys, weakValues)
           p == WeakFind(key)
<1>1. /\ WeakFits(weakKeys, weakValues, weakIndex) /\ young \in SUBSET Fresh
      /\ UNCHANGED <<young, listed>> /\ weakAnswer' = <<"deleted", p # Absent>>
  BY DEF WeakInv, WeakDelete
<1>2. PICK hs : EntriesFit(weakKeys, weakValues, hs) /\ Indexes(weakIndex, weakKeys, hs)
  BY <1>1 DEF WeakFits
<1>3. /\ p # Absent => p \in Entries(weakKeys) /\ weakKeys[p] = key
      /\ p = Absent => \A at \in Entries(weakKeys) : weakKeys[at] # key
  BY <1>1, WeakLookup
<1>4. DOMAIN m = {weakKeys[at] : at \in Entries(weakKeys)}
  BY ONLY <1>2, ValuesAre
<1>5. m = [k \in DOMAIN m |-> m[k]]
  BY DEF ValuesOf
<1>6. CASE p # Absent
  <2>1. /\ weakKeys' = [weakKeys EXCEPT ![p] = Deleted] /\ weakValues' = [weakValues EXCEPT ![p] = Deleted]
        /\ weakIndex' = [weakIndex EXCEPT ![Found(weakIndex, Hash[weakKeys[p]], {p})] = TABLE_REMOVED]
    BY <1>6, SameCodes DEF WeakDelete, Retired, Whole
  <2> HIDE DEF p, m
  <2>2. hs[p] = Hash[weakKeys[p]]
    BY <1>2, <1>3, <1>6 DEF EntriesFit
  <2>3. EntriesFit(weakKeys', weakValues', hs)
    BY <1>2, <1>3, <1>6, <2>1, RemovedFit
  <2>4. Indexes(weakIndex', weakKeys', hs)
    BY <1>2, <1>3, <1>6, <2>1, <2>2, RemovedIndexes
  <2>5. WeakFits(weakKeys, weakValues, weakIndex)'
    BY <2>3, <2>4 DEF WeakFits
  <2>6. ValuesOf(weakKeys', weakValues') = Lacking(m, key)
    BY <1>2, <1>3, <1>6, <2>1, RemovedValues DEF m
  <2>7. YoungEntriesListed'
    <3>1. /\ DOMAIN weakKeys' = DOMAIN weakKeys
          /\ \A at \in DOMAIN weakKeys : /\ weakKeys'[at] = IF at = p THEN Deleted ELSE weakKeys[at]
                                         /\ weakValues'[at] = IF at = p THEN Deleted ELSE weakValues[at]
      BY <1>2, <2>1, LenProperties DEF EntriesFit
    <3> QED BY <1>1, <3>1, YoungAreNoMarks DEF WeakInv, YoungEntriesListed
  <2>8. key \in DOMAIN m
    BY <1>3, <1>4, <1>6
  <2>9. weakAnswer' = <<"deleted", key \in DOMAIN m>>
    BY <1>1, <1>6, <2>8
  <2> QED BY <1>1, <2>5, <2>6, <2>7, <2>9 DEF WeakInv, Mapping!Delete, Lacking, m
<1>7. CASE p = Absent
  <2>1. UNCHANGED record
    BY <1>7 DEF WeakDelete
  <2>2. WeakInv'
    BY <1>1, <2>1, SameArrays DEF record
  <2> HIDE DEF m, p
  <2>3. key \notin DOMAIN m
    BY <1>3, <1>4, <1>7
  <2>4. m = Lacking(m, key)
    <3>1. DOMAIN m \ {key} = DOMAIN m
      BY <2>3
    <3> QED BY <1>5, <3>1 DEF Lacking
  <2>5. weakAnswer' = <<"deleted", key \in DOMAIN m>>
    BY <1>1, <1>7, <2>3
  <2> QED BY <2>1, <2>2, <2>4, <2>5 DEF Mapping!Delete, Lacking, record, m
<1> QED BY <1>6, <1>7

\* A collection takes the entries of the keys that die, and no others.
LEMMA CollectionImplements ==
    ASSUME WeakInv, NEW dead \in SUBSET Present, FullCollection(dead)
    PROVE  WeakInv' /\ Mapping!Next
<1> DEFINE m == ValuesOf(weakKeys, weakValues)
<1>1. /\ WeakFits(weakKeys, weakValues, weakIndex) /\ young' = {} /\ weakAnswer' = <<"died", dead>>
  BY DEF WeakInv, FullCollection
<1>2. PICK hs : EntriesFit(weakKeys, weakValues, hs) /\ Indexes(weakIndex, weakKeys, hs)
  BY <1>1 DEF WeakFits
<1>3. DOMAIN m = Present /\ m = [k \in DOMAIN m |-> m[k]]
  BY DEF ValuesOf, Present, Range
<1>4. WeakInv' /\ ValuesOf(weakKeys', weakValues') = Less(m, dead)
  <2>1. CASE dead = {}
    <3>1. UNCHANGED record
      BY <2>1 DEF FullCollection
    <3>2. WeakInv'
      BY <1>1, <3>1, SameArrays DEF record
    <3>3. ValuesOf(weakKeys', weakValues') = m
      BY <3>1 DEF record
    <3> HIDE DEF m
    <3>4. DOMAIN m \ dead = DOMAIN m
      BY <2>1
    <3>5. m = Less(m, dead)
      BY <1>3, <3>4 DEF Less
    <3> QED BY <3>2, <3>3, <3>5
  <2>2. CASE dead # {}
    <3> DEFINE ks == Cleared(weakKeys, weakKeys, dead)
               vs == Cleared(weakValues, weakKeys, dead)
               ks2 == Compacted(ks, ks)
               vs2 == Compacted(vs, ks)
               hs2 == Compacted(hs, ks)
               slots == WithoutDead(dead).index
    <3>1. ks = WithoutDead(dead).keys /\ vs = WithoutDead(dead).values /\ Capacity(slots) = Capacity(weakIndex)
      BY <1>1, WithoutDeadAre
    <3>2. weakKeys' = ks2 /\ weakValues' = vs2 /\ weakIndex' = Rebuilt(slots, ks2)
      BY <2>2, <3>1 DEF FullCollection
    <3>3. /\ EntriesFit(ks, vs, hs) /\ Len(ks) = Len(weakKeys)
          /\ ValuesOf(ks, vs) = Less(m, dead)
      BY <1>2, ClearedAre
    <3> HIDE DEF ks, vs, slots, m
    <3>4. EntriesFit(ks2, vs2, hs2) /\ Len(ks2) <= Len(ks) /\ ValuesOf(ks2, vs2) = ValuesOf(ks, vs)
      BY <3>3, CompactedFit
    <3> HIDE DEF ks2, vs2, hs2
    <3>5. Capacity(slots) \in Nat \ {0} /\ Len(ks2) * 4 <= Capacity(slots) * 3
      <4> DEFINE C == Capacity(weakIndex)
      <4>1. C \in Nat \ {0} /\ Len(weakKeys) * 4 <= C * 3 /\ Len(weakKeys) \in Nat /\ Len(ks2) \in Nat
        BY <1>2, <3>4, LenProperties DEF Indexes, EntriesFit
      <4> HIDE DEF C
      <4>2. Len(ks2) * 4 <= C * 3
        BY <3>3, <3>4, <4>1
      <4> QED BY <3>1, <4>1, <4>2 DEF C
    <3>6. Indexes(Rebuilt(slots, ks2), ks2, hs2)
      BY <3>4, <3>5, RebuiltIndexes
    <3>7. WeakFits(weakKeys, weakValues, weakIndex)'
      BY <3>2, <3>4, <3>6 DEF WeakFits
    <3>8. young' \in SUBSET Fresh /\ YoungEntriesListed'
      BY <1>1 DEF YoungEntriesListed
    <3> QED BY <3>2, <3>3, <3>4, <3>7, <3>8 DEF WeakInv
  <2> QED BY <2>1, <2>2
<1>5. Mapping!Collect(dead)
  BY <1>1, <1>4 DEF Mapping!Collect, Less
<1> QED BY <1>3, <1>4, <1>5 DEF Mapping!Next

LEMMA MinorImplements ==
    ASSUME WeakInv, MinorCollection
    PROVE  WeakInv' /\ Mapping!Next
<1> DEFINE m == ValuesOf(weakKeys, weakValues)
<1>1. UNCHANGED record /\ young' = {} /\ weakAnswer' = <<"died", {}>>
  BY DEF MinorCollection
<1>2. WeakInv'
  BY <1>1, SameArrays DEF record
<1>3. m = [k \in DOMAIN m |-> m[k]]
  BY DEF ValuesOf
<1>4. ValuesOf(weakKeys', weakValues') = m
  BY <1>1 DEF record
<1> HIDE DEF m
<1>5. m = [k \in DOMAIN m \ {} |-> m[k]]
  <2>1. DOMAIN m \ {} = DOMAIN m
    OBVIOUS
  <2> QED BY <1>3, <2>1
<1>6. Mapping!Collect({})
  BY <1>1, <1>4, <1>5 DEF Mapping!Collect, m
<1>7. {} \in SUBSET DOMAIN m
  OBVIOUS
<1> QED BY <1>2, <1>6, <1>7 DEF Mapping!Next, m

\* An allocation is no step of the map.
LEMMA AllocateStutters ==
    ASSUME WeakInv, NEW cell \in Fresh, Allocate(cell)
    PROVE  WeakInv' /\ UNCHANGED <<ValuesOf(weakKeys, weakValues), weakAnswer>>
<1>1. /\ UNCHANGED <<record, listed, weakAnswer>> /\ young' = young \union {cell}
      /\ cell \notin Range(weakKeys) /\ cell \notin Range(weakValues)
  BY DEF Allocate
<1>2. WeakFits(weakKeys, weakValues, weakIndex)'
  BY <1>1 DEF WeakInv, WeakFits, record
<1>3. DOMAIN weakKeys = DOMAIN weakValues
  BY LenProperties DEF WeakInv, WeakFits, EntriesFit
<1>4. YoungEntriesListed'
  BY <1>1, <1>3 DEF WeakInv, YoungEntriesListed, record, Range
<1> QED BY <1>1, <1>2, <1>4 DEF WeakInv, record

LEMMA WeakStarts ==
    ASSUME WeakInit
    PROVE  WeakInv /\ Mapping!Init
<1>1. weakKeys = <<>> /\ weakValues = <<>> /\ weakIndex = Filled(FirstCapacity, TABLE_EMPTY)
      /\ young = {} /\ weakAnswer = <<"none">>
  BY SameCodes DEF WeakInit
<1> DEFINE C == FirstCapacity
           filled == Filled(C, TABLE_EMPTY)
<1>2. Entries(<<>>) = {} /\ Len(<<>>) = 0 /\ \A S : <<>> \in Seq(S)
  BY EmptySeq DEF Entries
<1>3. EntriesFit(<<>>, <<>>, <<>>)
  BY <1>2 DEF EntriesFit
<1>4. C \in Nat \ {0}
  BY ProbingAssumption
<1> HIDE DEF C
<1>5. /\ InOrder(filled, C, {}, <<>>, TABLE_EMPTY, TABLE_REMOVED)
      /\ Cardinality(Used(filled, C, TABLE_EMPTY)) = 0
  BY <1>4, FilledInOrder
<1>6. Capacity(filled) = C
  BY <1>4, <1>5, CapacityOf DEF InOrder
<1> HIDE DEF filled
<1>7. Indexes(filled, <<>>, <<>>)
  BY <1>2, <1>4, <1>5, <1>6 DEF Indexes
<1>8. WeakFits(weakKeys, weakValues, weakIndex)
  BY <1>1, <1>3, <1>7 DEF WeakFits, filled, C
<1>9. ValuesOf(weakKeys, weakValues) = <<>>
  BY <1>1, <1>2, <1>3, NoValues
<1>10. YoungEntriesListed /\ young \in SUBSET Fresh
  BY <1>1 DEF YoungEntriesListed
<1> QED BY <1>1, <1>8, <1>9, <1>10 DEF WeakInv, Mapping!Init

LEMMA WeakSteps ==
    ASSUME WeakInv, WeakNext
    PROVE  WeakInv' /\ [Mapping!Next]_<<ValuesOf(weakKeys, weakValues), weakAnswer>>
<1> DEFINE Step == WeakInv' /\ [Mapping!Next]_<<ValuesOf(weakKeys, weakValues), weakAnswer>>
<1>1. ASSUME NEW key \in WeakKey, WeakGet(key) PROVE Step
  BY <1>1, WeakAssumption, WeakGetImplements DEF Mapping!Next
<1>2. ASSUME NEW key \in WeakKey, WeakDelete(key) PROVE Step
  BY <1>2, WeakAssumption, WeakDeleteImplements DEF Mapping!Next
<1>3. ASSUME NEW key \in WeakKey, NEW value \in Value, WeakPut(key, value) PROVE Step
  BY <1>3, WeakAssumption, WeakPutImplements DEF Mapping!Next
<1>4. ASSUME NEW dead \in SUBSET Present, FullCollection(dead) PROVE Step
  BY <1>4, CollectionImplements
<1>5. ASSUME MinorCollection PROVE Step
  BY <1>5, MinorImplements
<1>6. ASSUME NEW cell \in Fresh, Allocate(cell) PROVE Step
  BY <1>6, AllocateStutters
<1> QED BY <1>1, <1>2, <1>3, <1>4, <1>5, <1>6 DEF WeakNext

LEMMA WeakStutters ==
    ASSUME WeakInv, UNCHANGED weakVars
    PROVE  WeakInv' /\ UNCHANGED <<ValuesOf(weakKeys, weakValues), weakAnswer>>
BY SameArrays DEF weakVars, record

\* The record's invariant holds in every state.
THEOREM WeakInvariant == Spec => []WeakInv
<1>1. Init => WeakInv
  BY WeakStarts DEF Init
<1>2. WeakInv /\ [Next]_<<subject, tableVars, weakVars, atomVars>> => WeakInv'
  BY WeakSteps, WeakStutters DEF Next
<1> QED BY <1>1, <1>2, PTL DEF Spec

\* A young cell in an entry is always remembered by the place it is at,
\* however often compactions move the entries (the barrier in weakCompact).
THEOREM YoungListed == Spec => []YoungEntriesListed
<1>1. WeakInv => YoungEntriesListed
  BY DEF WeakInv
<1> QED BY <1>1, WeakInvariant, PTL

\* Whatever is put, deleted and collected, the record is a map that loses
\* the entries of keys that died and nothing else.
THEOREM MappingImplemented == Spec => ImplementsWeakMapping
<1>1. Init => Mapping!Init
  BY WeakStarts DEF Init
<1>2. WeakInv /\ [Next]_<<subject, tableVars, weakVars, atomVars>> =>
         [Mapping!Next]_<<ValuesOf(weakKeys, weakValues), weakAnswer>>
  BY WeakSteps, WeakStutters DEF Next
<1> QED BY <1>1, <1>2, WeakInvariant, PTL DEF Spec, ImplementsWeakMapping, Mapping!Spec
-----------------------------------------------------------------------------
(* The atom table.                                                         *)

\* Going round: four facts about the order slots are come to in.
LEMMA Between ==
    ASSUME NEW C \in Nat \ {0}, NEW start \in 0 .. C - 1, NEW hole \in 0 .. C - 1,
           NEW next \in 0 .. C - 1, NEW s \in 0 .. C - 1, NEW h \in 0 .. C - 1,
           Distance(start, hole, C) < Distance(start, next, C),
           Distance(start, next, C) < Distance(start, s, C),
           Distance(h, hole, C) < Distance(h, s, C)
    PROVE  Distance(h, next, C) < Distance(h, s, C)
BY DEF Distance

LEMMA Distances ==
    ASSUME NEW C \in Nat \ {0}, NEW a \in 0 .. C - 1, NEW b \in 0 .. C - 1
    PROVE  /\ Distance(a, b, C) \in Nat
           /\ \A d \in 0 .. C - 1 : Distance(a, b, C) = Distance(a, d, C) => b = d
BY DEF Distance

LEMMA HoleFirst ==
    ASSUME NEW C \in Nat \ {0}, NEW hole \in 0 .. C - 1, NEW next \in 0 .. C - 1, NEW h \in 0 .. C - 1,
           hole # next
    PROVE  Distance(hole, next, C) <= Distance(h, next, C) <=> Distance(h, hole, C) < Distance(h, next, C)
BY DEF Distance

LEMMA EmptyFirst ==
    ASSUME NEW C \in Nat \ {0}, NEW start \in 0 .. C - 1, NEW next \in 0 .. C - 1,
           NEW s \in 0 .. C - 1, NEW h \in 0 .. C - 1, NEW e \in 0 .. C - 1,
           Distance(start, s, C) < Distance(start, next, C),
           Distance(start, next, C) < Distance(start, e, C),
           Distance(h, next, C) < Distance(h, s, C)
    PROVE  Distance(h, e, C) < Distance(h, s, C)
BY DEF Distance

\* A table while a gap is closed: the gap is the one empty slot that a search
\* for an atom may meet, and only for one that has not been come to yet.
Gap(T, C, P, hs, none, start, hole, k) ==
    \A s, t \in 0 .. C - 1 :
        /\ T[s] \in P
        /\ Distance(hs[T[s]] % C, t, C) < Distance(hs[T[s]] % C, s, C)
        /\ T[t] = none
        => t = hole /\ k < Distance(start, s, C)

\* The slots come to are full, the gap apart.
FullUpTo(T, C, none, start, hole, k) ==
    \A t \in 0 .. C - 1 : Distance(start, t, C) <= k /\ t # hole => T[t] # none

Closing(T, C, P, hs, none, start, hole, k) ==
    /\ T \in [0 .. C - 1 -> {none} \union P]
    /\ HoldsEach(T, C, P) /\ HoldsOnce(T, C, P)
    /\ hole \in 0 .. C - 1 /\ T[hole] = none /\ Distance(start, hole, C) <= k
    /\ FullUpTo(T, C, none, start, hole, k)
    /\ Gap(T, C, P, hs, none, start, hole, k)
    /\ \E e \in 0 .. C - 1 : e # hole /\ T[e] = none

\* The next slot is empty: nothing is cut off.
LEMMA GapAtEmpty ==
    ASSUME NEW C \in Nat \ {0}, NEW P, NEW hs, NEW none, none \notin P, \A p \in P : hs[p] \in Nat,
           NEW start \in 0 .. C - 1, NEW hole, NEW k \in Nat, NEW T,
           Closing(T, C, P, hs, none, start, hole, k),
           NEW next \in 0 .. C - 1, Distance(start, next, C) = k + 1, T[next] = none
    PROVE  InOrder(T, C, P, hs, none, none)
<1>1. ASSUME NEW s \in 0 .. C - 1, NEW t \in 0 .. C - 1, T[s] \in P,
             Distance(hs[T[s]] % C, t, C) < Distance(hs[T[s]] % C, s, C), T[t] = none
      PROVE  FALSE
  <2> DEFINE h == hs[T[s]] % C
  <2>1. h \in 0 .. C - 1
    BY <1>1, Modulo
  <2>2. t = hole /\ k < Distance(start, s, C) /\ hole \in 0 .. C - 1 /\ Distance(start, hole, C) <= k
    BY <1>1 DEF Closing, Gap
  <2> HIDE DEF h
  <2>3. Distance(start, s, C) \in Nat /\ Distance(start, hole, C) \in Nat
    BY <2>2, Distances
  <2>4. s # next
    BY <1>1
  <2>5. Distance(start, s, C) # Distance(start, next, C)
    BY <2>4, Distances
  <2>6. Distance(start, hole, C) < Distance(start, next, C) /\ Distance(start, next, C) < Distance(start, s, C)
    BY <2>2, <2>3, <2>5
  <2>7. Distance(h, hole, C) < Distance(h, s, C)
    BY <1>1, <2>2 DEF h
  <2>8. Distance(h, next, C) < Distance(h, s, C)
    BY <2>1, <2>2, <2>6, <2>7, Between
  <2>9. next = hole
    BY <1>1, <2>8 DEF Closing, Gap, h
  <2> QED BY <2>6, <2>9, <2>3
<1>2. Reachable(T, C, P, hs, none)
  BY <1>1 DEF Reachable
<1> QED BY <1>2 DEF Closing, InOrder

\* The atom at the next slot stays: its search does not pass the gap.
LEMMA GapPasses ==
    ASSUME NEW C \in Nat \ {0}, NEW P, NEW hs, NEW none, none \notin P, \A p \in P : hs[p] \in Nat,
           NEW start \in 0 .. C - 1, NEW hole, NEW k \in Nat, NEW T,
           Closing(T, C, P, hs, none, start, hole, k),
           NEW next \in 0 .. C - 1, Distance(start, next, C) = k + 1, T[next] \in P,
           ~ (Distance(hole, next, C) <= Distance(hs[T[next]] % C, next, C))
    PROVE  Closing(T, C, P, hs, none, start, hole, k + 1)
<1>1. hole \in 0 .. C - 1 /\ Distance(start, hole, C) <= k /\ Distance(start, hole, C) \in Nat /\ hole # next
  <2>1. hole \in 0 .. C - 1 /\ Distance(start, hole, C) <= k
    BY DEF Closing
  <2>2. Distance(start, hole, C) \in Nat
    BY <2>1, Steps
  <2> QED BY <2>1, <2>2
<1>2. ASSUME NEW t \in 0 .. C - 1
      PROVE  Distance(start, t, C) \in Nat /\ (Distance(start, t, C) = k + 1 => t = next)
  BY Distances
<1>3. FullUpTo(T, C, none, start, hole, k + 1)
  <2>1. FullUpTo(T, C, none, start, hole, k)
    BY DEF Closing
  <2>2. \A t \in 0 .. C - 1 : Distance(start, t, C) <= k + 1 => Distance(start, t, C) <= k \/ t = next
    BY <1>2
  <2> QED BY <2>1, <2>2 DEF FullUpTo
<1>4. ASSUME NEW s \in 0 .. C - 1, NEW t \in 0 .. C - 1, T[s] \in P,
             Distance(hs[T[s]] % C, t, C) < Distance(hs[T[s]] % C, s, C), T[t] = none
      PROVE  t = hole /\ k + 1 < Distance(start, s, C)
  <2>1. t = hole /\ k < Distance(start, s, C)
    BY <1>4 DEF Closing, Gap
  <2>2. s # next
    <3>1. SUFFICES ASSUME s = next PROVE FALSE
      OBVIOUS
    <3> DEFINE h == hs[T[next]] % C
    <3>2. h \in 0 .. C - 1 /\ Distance(h, hole, C) < Distance(h, next, C) /\ ~ (Distance(hole, next, C) <= Distance(h, next, C))
      BY <1>4, <2>1, <3>1, Modulo
    <3> HIDE DEF h
    <3> QED BY <1>1, <3>2, HoleFirst
  <2> QED BY <1>2, <2>1, <2>2
<1>5. Gap(T, C, P, hs, none, start, hole, k + 1)
  BY <1>4 DEF Gap
<1>6. Distance(start, hole, C) <= k + 1
  BY <1>1
<1> QED BY <1>3, <1>5, <1>6 DEF Closing

\* The atom at the next slot moves into the gap, which is then there.
LEMMA GapMoves ==
    ASSUME NEW C \in Nat \ {0}, NEW P, NEW hs, NEW none, none \notin P, \A p \in P : hs[p] \in Nat,
           NEW start \in 0 .. C - 1, NEW hole, NEW k \in Nat, NEW T,
           Closing(T, C, P, hs, none, start, hole, k),
           NEW next \in 0 .. C - 1, Distance(start, next, C) = k + 1, T[next] \in P,
           Distance(hole, next, C) <= Distance(hs[T[next]] % C, next, C),
           NEW T2, T2 = [T EXCEPT ![hole] = T[next], ![next] = none]
    PROVE  Closing(T2, C, P, hs, none, start, next, k + 1)
<1>1. /\ hole \in 0 .. C - 1 /\ Distance(start, hole, C) <= k /\ T[hole] = none
      /\ T \in [0 .. C - 1 -> {none} \union P]
      /\ HoldsEach(T, C, P) /\ HoldsOnce(T, C, P)
  BY DEF Closing
<1>2. ASSUME NEW t \in 0 .. C - 1
      PROVE  Distance(start, t, C) \in Nat /\ (Distance(start, t, C) = k + 1 => t = next)
  BY Distances
<1>3. hole # next
  BY <1>1, <1>2
<1>4. \A t \in 0 .. C - 1 : T2[t] = IF t = next THEN none ELSE IF t = hole THEN T[next] ELSE T[t]
  BY <1>1, <1>3
<1>5. T2 \in [0 .. C - 1 -> {none} \union P]
  BY <1>1
<1>6. HoldsEach(T2, C, P)
  <2>1. SUFFICES ASSUME NEW p \in P PROVE \E s \in 0 .. C - 1 : T2[s] = p
    BY DEF HoldsEach
  <2>2. PICK s \in 0 .. C - 1 : T[s] = p
    BY <1>1 DEF HoldsEach
  <2>3. s # hole
    BY <1>1, <2>2
  <2> QED BY <1>1, <1>3, <1>4, <2>2, <2>3
<1>7. HoldsOnce(T2, C, P)
  <2>1. SUFFICES ASSUME NEW s \in 0 .. C - 1, NEW t \in 0 .. C - 1, T2[s] \in P, T2[s] = T2[t] PROVE s = t
    BY DEF HoldsOnce
  <2> DEFINE From(u) == IF u = hole THEN next ELSE u
  <2>2. s # next /\ t # next
    BY <1>4, <2>1
  <2>3. T[From(s)] = T2[s] /\ T[From(t)] = T2[t] /\ From(s) \in 0 .. C - 1 /\ From(t) \in 0 .. C - 1
    BY <1>4, <2>2
  <2>4. From(s) = From(t)
    <3> HIDE DEF From
    <3> QED BY <1>1, <2>1, <2>3 DEF HoldsOnce
  <2> QED BY <2>2, <2>4
<1>8. PICK e \in 0 .. C - 1 : e # hole /\ T[e] = none
  BY DEF Closing
<1>9. Distance(start, next, C) < Distance(start, e, C)
  <2>1. ~ (Distance(start, e, C) <= k)
    BY <1>8 DEF Closing, FullUpTo
  <2>2. e # next
    BY <1>8
  <2> QED BY <1>2, <2>1, <2>2
<1>10. FullUpTo(T2, C, none, start, next, k + 1)
  <2>1. SUFFICES ASSUME NEW t \in 0 .. C - 1, Distance(start, t, C) <= k + 1, t # next PROVE T2[t] # none
    BY DEF FullUpTo
  <2>2. Distance(start, t, C) <= k
    BY <1>2, <2>1
  <2>3. CASE t = hole
    BY <1>4, <2>1, <2>3
  <2>4. CASE t # hole
    BY <1>4, <2>1, <2>2, <2>4 DEF Closing, FullUpTo
  <2> QED BY <2>3, <2>4
<1>11. ASSUME NEW s \in 0 .. C - 1, NEW t \in 0 .. C - 1, T2[s] \in P,
              Distance(hs[T2[s]] % C, t, C) < Distance(hs[T2[s]] % C, s, C), T2[t] = none
       PROVE  t = next /\ k + 1 < Distance(start, s, C)
  <2> DEFINE h == hs[T2[s]] % C
  <2>1. h \in 0 .. C - 1
    BY <1>11, Modulo
  <2>2. s # next /\ t # hole /\ (t = next \/ T[t] = none)
    <3>1. T2[next] = none /\ T2[hole] = T[next]
      BY <1>1, <1>3, <1>4
    <3>2. s # next /\ t # hole
      BY <1>11, <3>1
    <3> QED BY <1>4, <1>11, <3>2
  <2>3. CASE s = hole
    <3>1. T2[s] = T[next]
      BY <1>3, <1>4, <2>3
    <3>2. Distance(hole, next, C) <= Distance(h, next, C)
      BY <3>1
    <3>3. Distance(h, hole, C) < Distance(h, next, C)
      <4> HIDE DEF h
      <4> QED BY <1>1, <1>3, <2>1, <3>2, HoleFirst
    <3>4. Distance(h, t, C) < Distance(h, hole, C)
      BY <1>11, <2>3
    <3>5. /\ Distance(h, t, C) \in Nat /\ Distance(h, hole, C) \in Nat /\ Distance(h, next, C) \in Nat
      <4> HIDE DEF h
      <4> QED BY <1>1, <2>1, Distances
    <3>6. Distance(h, t, C) < Distance(h, next, C)
      <4> HIDE DEF h
      <4> QED BY <3>3, <3>4, <3>5
    <3>7. t # next
      <4> HIDE DEF h
      <4> QED BY <3>5, <3>6
    <3>8. t = hole
      BY <2>2, <3>1, <3>6, <3>7 DEF Closing, Gap
    <3> QED BY <2>2, <3>8
  <2>4. CASE s # hole
    <3>1. T2[s] = T[s]
      BY <1>4, <2>2, <2>4
    <3>2. t = next
      <4>1. T[t] = none => t = hole
        BY <1>11, <3>1 DEF Closing, Gap
      <4> QED BY <2>2, <4>1
    <3>3. ~ (Distance(start, s, C) < Distance(start, next, C))
      <4>1. SUFFICES ASSUME Distance(start, s, C) < Distance(start, next, C) PROVE FALSE
        OBVIOUS
      <4>2. Distance(h, next, C) < Distance(h, s, C)
        BY <1>11, <3>2
      <4>3. Distance(h, e, C) < Distance(h, s, C)
        <5> HIDE DEF h
        <5> QED BY <1>9, <2>1, <4>1, <4>2, EmptyFirst
      <4>4. e = hole
        BY <1>8, <1>11, <3>1, <4>3 DEF Closing, Gap
      <4> QED BY <1>8, <4>4
    <3> QED BY <1>2, <2>2, <3>2, <3>3
  <2> QED BY <2>3, <2>4
<1>12. Gap(T2, C, P, hs, none, start, next, k + 1)
  BY <1>11 DEF Gap
<1>13. \E e2 \in 0 .. C - 1 : e2 # next /\ T2[e2] = none
  BY <1>4, <1>8, <1>9
<1>14. T2[next] = none /\ Distance(start, next, C) <= k + 1
  <2>1. T2[next] = none
    BY <1>4
  <2>2. Distance(start, next, C) <= k + 1
    OBVIOUS
  <2> QED BY <2>1, <2>2
<1> QED BY <1>5, <1>6, <1>7, <1>10, <1>12, <1>13, <1>14 DEF Closing

\* One step of the loop of removeAtom.
Hashed(P, hs) == P \in SUBSET StringCell /\ \A p \in P : hs[p] \in Nat /\ hs[p] = HashOf(p)

Walkings(C, P) == [table : [0 .. C - 1 -> {NoAtom} \union P], hole : 0 .. C - 1, over : BOOLEAN]

Closed(w) == [w.table EXCEPT ![w.hole] = NoAtom]

Removing(w, C, P, hs, start, k) ==
    IF w.over THEN InOrder(Closed(w), C, P, hs, NoAtom, NoAtom)
    ELSE Closing(Closed(w), C, P, hs, NoAtom, start, w.hole, k)

Ends(w, next) == w.over \/ w.table[next] = NoAtom
Moves(w, next, C) == Distance(w.hole, next, C) <= Distance(Home(w.table, HashOf(w.table[next])), next, C)

\* What one step makes of a walk.
SteppedTo(w, next, C, P, w2) ==
    /\ w2 \in Walkings(C, P)
    /\ Capacity(w.table) = C
    /\ Ends(w, next) => w2.table = w.table /\ w2.hole = w.hole /\ w2.over = TRUE
    /\ ~ Ends(w, next) /\ Moves(w, next, C) =>
          w2.table = [w.table EXCEPT ![w.hole] = w.table[next]] /\ w2.hole = next /\ w2.over = w.over
    /\ ~ Ends(w, next) /\ ~ Moves(w, next, C) => w2 = w

LEMMA SteppedIn ==
    ASSUME NEW C \in Nat \ {0}, NEW P, NEW w \in Walkings(C, P), NEW next \in 0 .. C - 1
    PROVE  SteppedTo(w, next, C, P, SteppedOver(w, next))
<1> DEFINE w2 == SteppedOver(w, next)
<1>0. w2 = SteppedOver(w, next)
  OBVIOUS
<1> SUFFICES SteppedTo(w, next, C, P, w2)
  BY <1>0
<1> HIDE DEF w2
<1>1. w.table \in [0 .. C - 1 -> {NoAtom} \union P] /\ w.hole \in 0 .. C - 1 /\ w.over \in BOOLEAN
  BY DEF Walkings
<1>2. Capacity(w.table) = C
  BY <1>1, CapacityOf
<1> DEFINE moved == w.table[next]
<1>3. moved \in {NoAtom} \union P
  BY <1>1
<1> HIDE DEF moved
<1>4. CASE Ends(w, next)
  <2>1. w2 = [w EXCEPT !.over = TRUE]
    BY <1>0, <1>4 DEF SteppedOver, Ends
  <2>2. w2.table = w.table /\ w2.hole = w.hole /\ w2.over = TRUE /\ w2 \in Walkings(C, P)
    BY <2>1 DEF Walkings
  <2> QED BY <1>2, <1>4, <2>2 DEF SteppedTo
<1>5. CASE ~ Ends(w, next) /\ Moves(w, next, C)
  <2>1. w2 = [w EXCEPT !.table[w.hole] = moved, !.hole = next]
    BY <1>0, <1>2, <1>5 DEF SteppedOver, Ends, Moves, moved
  <2>2. w2.table = [w.table EXCEPT ![w.hole] = moved] /\ w2.hole = next /\ w2.over = w.over
    BY <2>1 DEF Walkings
  <2>3. w2 \in Walkings(C, P)
    BY <1>3, <2>1 DEF Walkings
  <2> QED BY <1>2, <1>5, <2>2, <2>3 DEF moved, SteppedTo
<1>6. CASE ~ Ends(w, next) /\ ~ Moves(w, next, C)
  <2>1. w2 = w
    BY <1>0, <1>2, <1>6 DEF SteppedOver, Ends, Moves
  <2> QED BY <1>2, <1>6, <2>1 DEF SteppedTo
<1> QED BY <1>4, <1>5, <1>6

LEMMA RemovingStarts ==
    ASSUME NEW C \in Nat \ {0}, NEW P, NEW hs, NEW array, InOrder(array, C, P, hs, NoAtom, NoAtom),
           NEW cell \in P, NoAtom \notin P, HasEmpty(array, C, NoAtom), NEW start \in 0 .. C - 1, array[start] = cell,
           NEW w, w = [table |-> array, hole |-> start, over |-> FALSE]
    PROVE  Removing(w, C, P \ {cell}, hs, start, 0)
<1> DEFINE T == [array EXCEPT ![start] = NoAtom]
           R == P \ {cell}
<1>1. /\ array \in [0 .. C - 1 -> {NoAtom} \union P] /\ HoldsEach(array, C, P) /\ HoldsOnce(array, C, P)
      /\ Reachable(array, C, P, hs, NoAtom)
  BY DEF InOrder
<1>2. \A s \in 0 .. C - 1 : T[s] = IF s = start THEN NoAtom ELSE array[s]
  BY <1>1
<1>3. \A s \in 0 .. C - 1 : array[s] = cell => s = start
  BY <1>1 DEF HoldsOnce
<1>4. T \in [0 .. C - 1 -> {NoAtom} \union R]
  <2>1. \A s \in 0 .. C - 1 : T[s] \in {NoAtom} \union R
    BY <1>1, <1>2, <1>3
  <2> QED BY <1>1, <2>1
<1> HIDE DEF T, R
<1>5. HoldsEach(T, C, R)
  BY <1>1, <1>2 DEF HoldsEach, R
<1>6. HoldsOnce(T, C, R)
  BY <1>1, <1>2 DEF HoldsOnce, R
<1>7. Distance(start, start, C) = 0
  BY DEF Distance
<1>8. \A t \in 0 .. C - 1 : t # start => Distance(start, t, C) \in Nat /\ 0 < Distance(start, t, C)
  BY DEF Distance
<1>9. FullUpTo(T, C, NoAtom, start, start, 0)
  BY <1>8 DEF FullUpTo
<1>10. Gap(T, C, R, hs, NoAtom, start, start, 0)
  <2>1. SUFFICES ASSUME NEW s \in 0 .. C - 1, NEW t \in 0 .. C - 1, T[s] \in R,
                        Distance(hs[T[s]] % C, t, C) < Distance(hs[T[s]] % C, s, C), T[t] = NoAtom
                 PROVE  t = start /\ 0 < Distance(start, s, C)
    BY DEF Gap
  <2>2. s # start /\ T[s] = array[s] /\ array[s] \in P
    BY <1>2, <2>1 DEF R
  <2>3. array[t] # NoAtom
    BY <1>1, <2>1, <2>2 DEF Reachable
  <2> QED BY <1>2, <1>8, <2>1, <2>2, <2>3
<1>11. \E e \in 0 .. C - 1 : e # start /\ T[e] = NoAtom
  BY <1>2 DEF HasEmpty
<1>12. Closing(T, C, R, hs, NoAtom, start, start, 0)
  BY <1>2, <1>4, <1>5, <1>6, <1>7, <1>9, <1>10, <1>11 DEF Closing
<1>13. Closed(w) = T /\ w.over = FALSE /\ w.hole = start
  BY DEF Closed, T
<1> QED BY <1>12, <1>13 DEF Removing, R

LEMMA RemovingGoesOn ==
    ASSUME NEW C \in Nat \ {0}, NEW P, NEW R, NEW hs, Hashed(R, hs), NoAtom \notin StringCell,
           NEW w \in Walkings(C, P), NEW start \in 0 .. C - 1,
           NEW k \in Nat, Removing(w, C, R, hs, start, k),
           NEW next \in 0 .. C - 1, Distance(start, next, C) = k + 1
    PROVE  Removing(SteppedOver(w, next), C, R, hs, start, k + 1)
<1> DEFINE w2 == SteppedOver(w, next)
           T == Closed(w)
           hole == w.hole
           moved == w.table[next]
<1>2. SteppedTo(w, next, C, P, w2)
  BY SteppedIn
<1> HIDE DEF w2
<1>1. /\ w.table \in [0 .. C - 1 -> {NoAtom} \union P] /\ hole \in 0 .. C - 1 /\ w.over \in BOOLEAN
      /\ Capacity(w.table) = C
      /\ Ends(w, next) => w2.table = w.table /\ w2.hole = hole /\ w2.over = TRUE
      /\ ~ Ends(w, next) /\ Moves(w, next, C) =>
            w2.table = [w.table EXCEPT ![hole] = moved] /\ w2.hole = next /\ w2.over = w.over
      /\ ~ Ends(w, next) /\ ~ Moves(w, next, C) => w2 = w
  BY <1>2 DEF SteppedTo, Walkings
<1>3. NoAtom \notin R /\ \A p \in R : hs[p] \in Nat
  BY DEF Hashed
<1>4. T = [w.table EXCEPT ![hole] = NoAtom]
  BY DEF Closed
<1> HIDE DEF T
<1>5. CASE w.over
  <2>1. w2.over = TRUE /\ Closed(w2) = T
    BY <1>1, <1>4, <1>5 DEF Closed, Ends
  <2>2. InOrder(T, C, R, hs, NoAtom, NoAtom)
    BY <1>5 DEF Removing, T
  <2> QED BY <2>1, <2>2 DEF Removing, w2
<1>6. CASE ~ w.over
  <2>1. Closing(T, C, R, hs, NoAtom, start, hole, k)
    BY <1>6 DEF Removing, T
  <2>2. next # hole
    <3>1. Distance(start, hole, C) <= k /\ Distance(start, hole, C) \in Nat
      BY <1>1, <2>1, Distances DEF Closing
    <3> QED BY <3>1
  <2>3. T[next] = moved /\ T[next] \in {NoAtom} \union R
    BY <1>1, <1>4, <2>1, <2>2 DEF Closing
  <2>4. CASE moved = NoAtom
    <3>1. w2.over = TRUE /\ Closed(w2) = T
      BY <1>1, <1>4, <2>4 DEF Closed, Ends
    <3>2. InOrder(T, C, R, hs, NoAtom, NoAtom)
      BY <1>3, <2>1, <2>3, <2>4, GapAtEmpty
    <3> QED BY <3>1, <3>2 DEF Removing, w2
  <2>5. CASE moved # NoAtom
    <3>1. T[next] \in R /\ Home(w.table, HashOf(moved)) = hs[T[next]] % C
      <4>1. T[next] \in R /\ hs[T[next]] = HashOf(moved)
        BY <2>3, <2>5 DEF Hashed
      <4> QED BY <1>1, <4>1 DEF Home
    <3>2. CASE Distance(hole, next, C) <= Distance(hs[T[next]] % C, next, C)
      <4> DEFINE T2 == [T EXCEPT ![hole] = T[next], ![next] = NoAtom]
      <4>1. Closing(T2, C, R, hs, NoAtom, start, next, k + 1)
        <5> HIDE DEF hole
        <5> QED BY <1>3, <2>1, <3>1, <3>2, GapMoves
      <4>2. ~ Ends(w, next) /\ Moves(w, next, C)
        BY <1>6, <2>5, <3>1, <3>2 DEF Ends, Moves
      <4>3. w2.over = FALSE /\ w2.hole = next
        BY <1>1, <1>6, <4>2
      <4>4. w2.table = [w.table EXCEPT ![hole] = moved]
        BY <1>1, <4>2
      <4>5. [w2.table EXCEPT ![next] = NoAtom] = T2
        BY <1>1, <1>4, <2>2, <2>3, <4>4
      <4>6. Closed(w2) = T2
        BY <4>3, <4>5 DEF Closed
      <4> HIDE DEF T2
      <4> QED BY <4>1, <4>3, <4>6 DEF Removing, w2
    <3>3. CASE ~ (Distance(hole, next, C) <= Distance(hs[T[next]] % C, next, C))
      <4>1. Closing(T, C, R, hs, NoAtom, start, hole, k + 1)
        <5> HIDE DEF hole
        <5> QED BY <1>3, <2>1, <3>1, <3>3, GapPasses
      <4>2. ~ Ends(w, next) /\ ~ Moves(w, next, C)
        BY <1>6, <2>5, <3>1, <3>3 DEF Ends, Moves
      <4>3. w2 = w
        BY <1>1, <4>2
      <4> QED BY <1>6, <4>1, <4>3 DEF Removing, T, w2
    <3> QED BY <3>2, <3>3
  <2> QED BY <2>4, <2>5
<1> QED BY <1>5, <1>6

\* removeAtom takes one atom out, and leaves the others to be found.
LEMMA RemovedInOrder ==
    ASSUME NEW C \in Nat \ {0}, NEW P, NEW hs, Hashed(P, hs), NoAtom \notin StringCell,
           NEW array, InOrder(array, C, P, hs, NoAtom, NoAtom), HasEmpty(array, C, NoAtom),
           NEW cell \in P
    PROVE  InOrder(Removed(array, cell), C, P \ {cell}, hs, NoAtom, NoAtom)
<1> DEFINE start == Found(array, HashOf(cell), {cell})
           S == Walkings(C, P)
           base == [table |-> array, hole |-> start, over |-> FALSE]
           N == C - 1
           Step(n, w) == SteppedOver(w, Around(start, n, C))
           G == [n \in 1 .. N |-> [w \in S |-> Step(n, w)]]
           Body(g) == [steps \in 0 .. Capacity(array) - 1 |->
                          IF steps = 0 THEN [table |-> array, hole |-> start, over |-> FALSE]
                          ELSE SteppedOver(g[steps - 1], Around(start, steps, Capacity(array)))]
           after == CHOOSE g : g = Body(g)
           R == P \ {cell}
<1>1. /\ array \in [0 .. C - 1 -> {NoAtom} \union P] /\ Capacity(array) = C
      /\ N \in Nat
  <2>1. array \in [0 .. C - 1 -> {NoAtom} \union P]
    BY DEF InOrder
  <2> QED BY <2>1, CapacityOf
<1>2. start \in 0 .. C - 1 /\ array[start] = cell
  <2>1. hs[cell] \in Nat /\ hs[cell] = HashOf(cell)
    BY DEF Hashed
  <2>2. Found(array, hs[cell], {cell}) \in 0 .. C - 1 /\ array[Found(array, hs[cell], {cell})] = cell
    BY <2>1, FoundWhereHeld
  <2> QED BY <2>1, <2>2
<1> HIDE DEF start
<1>3. \A n \in 1 .. N : Around(start, n, C) \in 0 .. C - 1 /\ Distance(start, Around(start, n, C), C) = n
  <2>1. \A n \in 0 .. C - 1 : Around(start, n, C) \in 0 .. C - 1 /\ Distance(start, Around(start, n, C), C) = n
    BY <1>2, Steps
  <2> QED BY <1>1, <2>1
<1>4. base \in S
  BY <1>1, <1>2 DEF Walkings
<1>5. G \in [1 .. N -> [S -> S]] /\ \A n \in 1 .. N : \A w \in S : G[n][w] = Step(n, w) /\ Step(n, w) \in S
  <2>1. \A n \in 1 .. N : \A w \in S : Step(n, w) \in S
    BY <1>3, SteppedIn DEF SteppedTo
  <2> HIDE DEF Step, S, N
  <2> QED BY <2>1
<1> HIDE DEF G, S, N
<1>6. PICK f \in [0 .. N -> S] : Follows(f, N, base, G)
  <2> HIDE DEF base
  <2> QED BY <1>1, <1>4, <1>5, Recursion
<1>7. f = Body(f)
  <2>1. \A n \in 1 .. N : f[n - 1] \in S
    BY <1>1, <1>6
  <2>2. \A n \in 0 .. N : (IF n = 0 THEN base ELSE G[n][f[n - 1]]) = (IF n = 0 THEN base ELSE Step(n, f[n - 1]))
    <3> HIDE DEF Step, base
    <3> QED BY <1>5, <2>1
  <2>3. f = [n \in 0 .. N |-> IF n = 0 THEN base ELSE Step(n, f[n - 1])]
    <3> HIDE DEF Step, base
    <3> QED BY <1>6, <2>2 DEF Follows
  <2>4. N = Capacity(array) - 1 /\ C = Capacity(array)
    BY <1>1 DEF N
  <2> QED BY <2>3, <2>4, Zenon
<1>8. after = Body(after)
  <2> HIDE DEF Body
  <2> QED BY <1>7
<1>9. Removed(array, cell) = Closed(after[N])
  <2>1. N = Capacity(array) - 1
    BY <1>1 DEF N
  <2> QED BY <2>1, Zenon DEF Removed, Closed, start
<1> HIDE DEF after
<1>10. after[0] = base /\ \A n \in 1 .. N : after[n] = Step(n, after[n - 1])
  <2>1. \A n \in 0 .. N : after[n] = IF n = 0 THEN base ELSE Step(n, after[n - 1])
    <3>1. N = Capacity(array) - 1 /\ C = Capacity(array)
      BY <1>1 DEF N
    <3>2. after = [n \in 0 .. N |-> IF n = 0 THEN base ELSE Step(n, after[n - 1])]
      BY <1>8, <3>1, Zenon
    <3> HIDE DEF base, Step
    <3> QED BY <3>2, Zenon
  <2> HIDE DEF base, Step
  <2> QED BY <1>1, <2>1
<1> DEFINE Done(n) == after[n] \in S /\ Removing(after[n], C, R, hs, start, n)
<1>11. Done(0)
  <2>1. NoAtom \notin P
    BY DEF Hashed
  <2>2. Removing(base, C, P \ {cell}, hs, start, 0)
    BY <1>2, <2>1, RemovingStarts
  <2> HIDE DEF base
  <2> QED BY <1>4, <1>10, <2>2
<1>12. ASSUME NEW n \in 1 .. N, Done(n - 1) PROVE Done(n)
  <2> DEFINE k == n - 1
             w == after[k]
             next == Around(start, n, C)
  <2>1. k \in Nat /\ k + 1 = n /\ w \in S /\ Removing(w, C, R, hs, start, k)
    BY <1>12
  <2>2. next \in 0 .. C - 1 /\ Distance(start, next, C) = n
    BY <1>3
  <2>3. after[n] = SteppedOver(w, next)
    BY <1>10
  <2>4. Hashed(R, hs)
    BY DEF Hashed
  <2> HIDE DEF k, w, next, R
  <2>5. Removing(SteppedOver(w, next), C, R, hs, start, k + 1) /\ SteppedOver(w, next) \in S
    <3>1. Distance(start, next, C) = k + 1
      BY <2>1, <2>2
    <3>2. w \in Walkings(C, P)
      BY <2>1 DEF S
    <3>3. SteppedOver(w, next) \in S
      BY <2>2, <3>2, SteppedIn DEF S, SteppedTo
    <3> QED BY <1>2, <2>1, <2>2, <2>4, <3>1, <3>2, <3>3, RemovingGoesOn
  <2> QED BY <2>1, <2>3, <2>5
<1> DEFINE H == {n \in 0 .. N : Done(n)}
<1>13. Done(N)
  <2> HIDE DEF Done
  <2>1. 0 \in H /\ \A n \in 1 .. N : n - 1 \in H => n \in H
    BY <1>1, <1>11, <1>12
  <2>2. N \in 0 .. N
    BY <1>1
  <2>3. \A n \in 0 .. N : n \in H
    <3> HIDE DEF H
    <3> QED BY <1>1, <2>1, UpTo
  <2> QED BY <2>2, <2>3
<1> DEFINE T == Closed(after[N])
<1>14. InOrder(T, C, R, hs, NoAtom, NoAtom)
  <2>1. CASE after[N].over
    BY <1>13, <2>1 DEF Removing
  <2>2. CASE ~ after[N].over
    <3>1. Closing(T, C, R, hs, NoAtom, start, after[N].hole, C - 1)
      BY <1>13, <2>2 DEF Removing, N
    <3> HIDE DEF T, R
    <3>2. \A s \in 0 .. C - 1 : ~ (C - 1 < Distance(start, s, C))
      <4>1. start \in 0 .. C - 1
        BY <1>2
      <4>2. \A s \in 0 .. C - 1 : Distance(start, s, C) \in 0 .. C - 1
        BY <4>1, Steps, Zenon
      <4> QED BY <4>2
    <3>3. Reachable(T, C, R, hs, NoAtom)
      BY <3>1, <3>2 DEF Closing, Gap, Reachable
    <3> QED BY <3>1, <3>3 DEF Closing, InOrder
  <2> QED BY <2>1, <2>2
<1> QED BY <1>9, <1>14

\* A table in order uses no more slots than it has atoms.
LEMMA UsedAtMost ==
    ASSUME NEW C \in Nat \ {0}, NEW P, NEW hs, NEW none, NEW array, none \notin P, IsFiniteSet(P),
           InOrder(array, C, P, hs, none, none)
    PROVE  Cardinality(Used(array, C, none)) <= Cardinality(P)
<1> DEFINE U == Used(array, C, none)
           f == [s \in U |-> array[s]]
<1>1. \A s \in U : s \in 0 .. C - 1 /\ array[s] \in P
  BY DEF Used, InOrder
<1>2. \A s, t \in U : array[s] = array[t] => s = t
  BY <1>1 DEF InOrder, HoldsOnce
<1>3. f \in Injection(U, P)
  <2>1. f \in [U -> P]
    BY <1>1
  <2>2. IsInjective(f)
    BY <1>2 DEF IsInjective
  <2> HIDE DEF f, U
  <2> QED BY <2>1, <2>2 DEF Injection
<1> HIDE DEF f, U
<1>4. Cardinality(U) <= Cardinality(P)
  BY <1>3, FS_Injection
<1> QED BY <1>4 DEF U

LEMMA RoomLeft ==
    ASSUME NEW C \in Nat \ {0}, NEW P, NEW hs, NEW none, NEW array, none \notin P, IsFiniteSet(P),
           InOrder(array, C, P, hs, none, none), Cardinality(P) < C
    PROVE  HasEmpty(array, C, none)
<1>1. Cardinality(Used(array, C, none)) <= Cardinality(P) /\ Cardinality(Used(array, C, none)) \in Nat
  BY UsedAtMost, UsedFinite
<1>2. Cardinality(P) \in Nat
  BY FS_CardinalityType
<1>3. Cardinality(Used(array, C, none)) < C
  BY <1>1, <1>2
<1> QED BY <1>3, SomeEmpty

LEMMA InsertedInOrder ==
    ASSUME NEW C \in Nat \ {0}, NEW P, NEW hs, NoAtom \notin StringCell, NEW array,
           InOrder(array, C, P, hs, NoAtom, NoAtom), HasEmpty(array, C, NoAtom), P \subseteq StringCell,
           NEW cell \in StringCell, cell \notin P, hs[cell] \in Nat
    PROVE  InOrder(Inserted(array, cell, hs[cell]), C, P \union {cell}, hs, NoAtom, NoAtom)
<1> DEFINE placed == Inserted(array, cell, hs[cell])
<1>1. placed = [array EXCEPT ![Found(array, hs[cell], {NoAtom, NoAtom})] = cell]
  <2>1. {NoAtom, NoAtom} = {NoAtom}
    OBVIOUS
  <2> QED BY <2>1 DEF Inserted
<1>2. cell # NoAtom /\ NoAtom \notin P
  OBVIOUS
<1> HIDE DEF placed
<1>3. InOrder(placed, C, P \union {cell}, hs, NoAtom, NoAtom)
  BY <1>1, <1>2, PlacedInOrder
<1> QED BY <1>3 DEF placed

\* The atoms to be kept come, slot by slot, into an empty table.
LEMMA ReinsertedInOrder ==
    ASSUME NEW B \in Nat \ {0}, NEW P, NEW hs, Hashed(P, hs), NoAtom \notin StringCell, IsFiniteSet(P),
           NEW array, InOrder(array, B, P, hs, NoAtom, NoAtom),
           NEW C \in Nat \ {0}, Cardinality(P) < C, NEW kept \in SUBSET StringCell
    PROVE  InOrder(Reinserted(array, kept, Filled(C, NoAtom)), C, P \intersect kept, hs, NoAtom, NoAtom)
<1> DEFINE S == [0 .. C - 1 -> {NoAtom} \union P]
           base == Filled(C, NoAtom)
           N == B
           Step(n, g) == IF array[n - 1] \in kept THEN Inserted(g, array[n - 1], HashOf(array[n - 1])) ELSE g
           G == [n \in 1 .. N |-> [g \in S |-> Step(n, g)]]
           Body(g) == [n \in 0 .. Capacity(array) |->
                          IF n = 0 THEN base
                          ELSE IF array[n - 1] \in kept
                          THEN Inserted(g[n - 1], array[n - 1], HashOf(array[n - 1])) ELSE g[n - 1]]
           after == CHOOSE g : g = Body(g)
           Q(n) == {p \in P \intersect kept : \E s \in 0 .. n - 1 : array[s] = p}
<1>1. /\ array \in [0 .. B - 1 -> {NoAtom} \union P] /\ Capacity(array) = B
      /\ HoldsEach(array, B, P) /\ HoldsOnce(array, B, P)
  <2>1. array \in [0 .. B - 1 -> {NoAtom} \union P] /\ HoldsEach(array, B, P) /\ HoldsOnce(array, B, P)
    BY DEF InOrder
  <2> QED BY <2>1, CapacityOf
<1>2. /\ P \subseteq StringCell /\ NoAtom \notin P /\ NoAtom \notin kept
      /\ \A p \in P : hs[p] \in Nat /\ hs[p] = HashOf(p)
  BY DEF Hashed
<1>3. \A n \in 1 .. N : array[n - 1] \in {NoAtom} \union P
  BY <1>1
<1>4. base \in S
  BY DEF Filled, Slots
<1>5. G \in [1 .. N -> [S -> S]] /\ \A n \in 1 .. N : \A g \in S : G[n][g] = Step(n, g) /\ Step(n, g) \in S
  <2>1. \A n \in 1 .. N : \A g \in S : Step(n, g) \in S
    BY <1>2, <1>3 DEF Inserted
  <2> HIDE DEF Step, S, N
  <2> QED BY <2>1
<1> HIDE DEF G, S, base
<1>6. PICK f \in [0 .. N -> S] : Follows(f, N, base, G)
  BY <1>4, <1>5, Recursion
<1>7. f = Body(f)
  <2>1. \A n \in 1 .. N : f[n - 1] \in S
    BY <1>6
  <2>2. \A n \in 0 .. N : (IF n = 0 THEN base ELSE G[n][f[n - 1]]) = (IF n = 0 THEN base ELSE Step(n, f[n - 1]))
    <3> HIDE DEF Step
    <3> QED BY <1>5, <2>1
  <2>3. f = [n \in 0 .. N |-> IF n = 0 THEN base ELSE Step(n, f[n - 1])]
    <3> HIDE DEF Step
    <3> QED BY <1>6, <2>2 DEF Follows
  <2>4. N = Capacity(array)
    BY <1>1
  <2> QED BY <2>3, <2>4, Zenon
<1>8. after = Body(after)
  <2> HIDE DEF Body
  <2> QED BY <1>7
<1>9. Reinserted(array, kept, Filled(C, NoAtom)) = after[B]
  BY <1>1, Zenon DEF Reinserted, base
<1> HIDE DEF after
<1>10. after[0] = base /\ \A n \in 1 .. N : after[n] = Step(n, after[n - 1])
  <2>1. \A n \in 0 .. N : after[n] = IF n = 0 THEN base ELSE Step(n, after[n - 1])
    <3>1. after = [n \in 0 .. N |-> IF n = 0 THEN base ELSE Step(n, after[n - 1])]
      BY <1>1, <1>8, Zenon
    <3> HIDE DEF Step
    <3> QED BY <3>1, Zenon
  <2> HIDE DEF Step
  <2> QED BY <2>1
<1> DEFINE Done(n) == InOrder(after[n], C, Q(n), hs, NoAtom, NoAtom)
<1>11. Done(0)
  <2>1. Q(0) = {}
    OBVIOUS
  <2>2. InOrder(Filled(C, NoAtom), C, {}, hs, NoAtom, NoAtom)
    BY FilledInOrder
  <2>3. after[0] = Filled(C, NoAtom)
    BY <1>10 DEF base
  <2> HIDE DEF Q
  <2> QED BY <2>1, <2>2, <2>3
<1>12. ASSUME NEW n \in 1 .. N, Done(n - 1) PROVE Done(n)
  <2> DEFINE q == array[n - 1]
             g == after[n - 1]
             R == Q(n - 1)
  <2>1. InOrder(g, C, R, hs, NoAtom, NoAtom)
    BY <1>12
  <2>2. after[n] = IF q \in kept THEN Inserted(g, q, HashOf(q)) ELSE g
    BY <1>10
  <2>3. q \in {NoAtom} \union P
    BY <1>3
  <2>4. \A s \in 0 .. n - 1 : s \in 0 .. n - 1 - 1 \/ s = n - 1
    OBVIOUS
  <2>5. CASE q \notin kept
    <3>1. Q(n) = R
      BY <2>4, <2>5
    <3> HIDE DEF Q, q, g, R
    <3> QED BY <2>1, <2>2, <2>5, <3>1
  <2>6. CASE q \in kept
    <3>1. q \in P /\ hs[q] = HashOf(q) /\ hs[q] \in Nat /\ q \in StringCell
      BY <1>2, <2>3, <2>6
    <3>2. Q(n) = R \union {q}
      BY <2>4, <2>6, <3>1
    <3>3. q \notin R
      BY <1>1, <3>1 DEF HoldsOnce
    <3>4. R \subseteq P
      OBVIOUS
    <3> HIDE DEF Q, q, g, R
    <3>5. IsFiniteSet(R) /\ Cardinality(R) <= Cardinality(P) /\ Cardinality(R) \in Nat /\ Cardinality(P) \in Nat
      BY <3>4, FS_Subset, FS_CardinalityType
    <3>6. Cardinality(R) < C /\ NoAtom \notin R /\ R \subseteq StringCell
      BY <1>2, <3>4, <3>5
    <3>7. HasEmpty(g, C, NoAtom)
      BY <2>1, <3>5, <3>6, RoomLeft
    <3>8. InOrder(Inserted(g, q, hs[q]), C, R \union {q}, hs, NoAtom, NoAtom)
      BY <2>1, <3>1, <3>3, <3>6, <3>7, InsertedInOrder
    <3> QED BY <2>2, <2>6, <3>1, <3>2, <3>8
  <2> QED BY <2>5, <2>6
<1> DEFINE H == {n \in 0 .. N : Done(n)}
<1>13. Done(N)
  <2> HIDE DEF Done
  <2>1. 0 \in H /\ \A n \in 1 .. N : n - 1 \in H => n \in H
    BY <1>11, <1>12
  <2>2. N \in 0 .. N
    OBVIOUS
  <2>3. \A n \in 0 .. N : n \in H
    <3> HIDE DEF H
    <3> QED BY <2>1, UpTo
  <2> QED BY <2>2, <2>3
<1>14. Q(N) = P \intersect kept
  BY <1>1 DEF HoldsEach
<1> QED BY <1>9, <1>13, <1>14

LEMMA ReinsertedNothing ==
    ASSUME NEW array, Capacity(array) = 0, NEW kept, NEW into
    PROVE  Reinserted(array, kept, into) = into
<1> DEFINE Body(g) == [n \in 0 .. Capacity(array) |->
                          IF n = 0 THEN into
                          ELSE IF array[n - 1] \in kept
                          THEN Inserted(g[n - 1], array[n - 1], HashOf(array[n - 1])) ELSE g[n - 1]]
           after == CHOOSE g : g = Body(g)
           f == [n \in 0 .. 0 |-> into]
<1>1. \A n \in 0 .. 0 : n = 0
  OBVIOUS
<1>2. f = Body(f)
  BY <1>1, Zenon
<1>3. after = Body(after)
  <2> HIDE DEF Body, f
  <2> QED BY <1>2
<1>4. Reinserted(array, kept, into) = after[0]
  BY Zenon DEF Reinserted
<1> HIDE DEF after
<1>5. after[0] = into
  <2>1. 0 \in 0 .. Capacity(array)
    OBVIOUS
  <2> QED BY <1>3, <2>1, Zenon
<1> QED BY <1>4, <1>5

\* The atoms: of different texts, and in order in a table with room.
AtomsFit(cells, texts) ==
    /\ cells \subseteq StringCell /\ IsFiniteSet(cells)
    /\ \A p \in cells : texts[p] \in Key
    /\ \A p, q \in cells : texts[p] = texts[q] => p = q

AtomsIn(array, C, cells, texts) ==
    \E hs : /\ \A p \in cells : hs[p] = Hash[texts[p]]
            /\ InOrder(array, C, cells, hs, NoAtom, NoAtom)

Nothing(array) == array = <<>> /\ Capacity(array) = 0

HalfFull(array, n, cells, texts) ==
    \E C \in Nat : C > 1 /\ n * 2 <= C /\ AtomsIn(array, C, cells, texts)

AtomInv ==
    /\ text \in [StringCell -> Key \union {NoText}]
    /\ AtomsFit(interned, text)
    /\ atomCount = Cardinality(interned)
    /\ (Nothing(atoms) /\ interned = {}) \/ HalfFull(atoms, atomCount, interned, text)

LEMMA NoTable == Capacity(<<>>) = 0
<1>1. DOMAIN <<>> = {}
  OBVIOUS
<1> QED BY <1>1, FS_EmptySet DEF Capacity

\* The same table holds the same atoms when their texts stay.
LEMMA AtomsStay ==
    ASSUME NEW array, NEW C, NEW cells, NEW texts, NEW texts2, AtomsIn(array, C, cells, texts),
           \A p \in cells : texts2[p] = texts[p]
    PROVE  AtomsIn(array, C, cells, texts2)
BY DEF AtomsIn

\* The hashes of the atoms as the headers keep them.
LEMMA HashesOfAtoms ==
    ASSUME NEW cells, AtomsFit(cells, text), NEW hs, \A p \in cells : hs[p] = Hash[text[p]]
    PROVE  Hashed(cells, hs)
<1>1. Hash \in [Key -> Nat]
  BY ProbingAssumption
<1> QED BY <1>1 DEF AtomsFit, Hashed, HashOf

LEMMA HalfFullHasEmpty ==
    ASSUME NEW C \in Nat, C > 1, NEW array, NEW cells, NEW texts,
           AtomsFit(cells, texts), Cardinality(cells) < C, AtomsIn(array, C, cells, texts)
    PROVE  HasEmpty(array, C, NoAtom)
<1>1. PICK hs : InOrder(array, C, cells, hs, NoAtom, NoAtom)
  BY DEF AtomsIn
<1>2. NoAtom \notin cells /\ IsFiniteSet(cells) /\ C \in Nat \ {0}
  BY AtomAssumption DEF AtomsFit
<1> QED BY <1>1, <1>2, RoomLeft

\* The table the interning functions search has room for one more atom.
LEMMA RoomyFits ==
    ASSUME AtomInv
    PROVE  HalfFull(Roomy, atomCount + 1, interned, text)
<1>1. /\ AtomsFit(interned, text) /\ IsFiniteSet(interned) /\ atomCount = Cardinality(interned)
      /\ atomCount \in Nat /\ NoAtom \notin StringCell /\ FirstCapacity \in Nat /\ FirstCapacity > 1
  BY FS_CardinalityType, AtomAssumption, ProbingAssumption DEF AtomInv, AtomsFit
<1>2. CASE Nothing(atoms) /\ interned = {}
  <2>1. atomCount = 0 /\ Capacity(atoms) = 0 /\ atoms = <<>>
    BY <1>1, <1>2, FS_EmptySet DEF Nothing
  <2>2. Roomy = Reinserted(atoms, StringCell, Filled(FirstCapacity, NoAtom))
    BY <2>1 DEF Roomy
  <2>3. Roomy = Filled(FirstCapacity, NoAtom)
    BY <2>1, <2>2, ReinsertedNothing
  <2>4. InOrder(Roomy, FirstCapacity, {}, <<>>, NoAtom, NoAtom)
    BY <1>1, <2>3, FilledInOrder
  <2>5. AtomsIn(Roomy, FirstCapacity, interned, text)
    BY <1>2, <2>4 DEF AtomsIn
  <2>6. (atomCount + 1) * 2 <= FirstCapacity
    BY <1>1, <2>1
  <2> QED BY <1>1, <2>5, <2>6 DEF HalfFull
<1>3. CASE HalfFull(atoms, atomCount, interned, text)
  <2>1. PICK C \in Nat : C > 1 /\ atomCount * 2 <= C /\ AtomsIn(atoms, C, interned, text)
    BY <1>3 DEF HalfFull
  <2>2. PICK hs : /\ \A p \in interned : hs[p] = Hash[text[p]]
                  /\ InOrder(atoms, C, interned, hs, NoAtom, NoAtom)
    BY <2>1 DEF AtomsIn
  <2>3. DOMAIN atoms = 0 .. C - 1 /\ C \in Nat \ {0} /\ Capacity(atoms) = C /\ atoms # <<>>
    <3>1. DOMAIN atoms = 0 .. C - 1 /\ C \in Nat \ {0}
      BY <2>1, <2>2 DEF InOrder
    <3>2. Capacity(atoms) = C
      BY <3>1, CapacityOf
    <3> QED BY <2>1, <3>1, <3>2, NoTable
  <2>4. CASE (atomCount + 1) * 2 > C
    <3>1. Roomy = Reinserted(atoms, StringCell, Filled(2 * C, NoAtom))
      BY <2>3, <2>4 DEF Roomy
    <3>2. 2 * C \in Nat \ {0} /\ Cardinality(interned) < 2 * C /\ (atomCount + 1) * 2 <= 2 * C /\ 2 * C > 1
      BY <1>1, <2>1
    <3>3. Hashed(interned, hs)
      BY <1>1, <2>2, HashesOfAtoms
    <3>4. InOrder(Roomy, 2 * C, interned \intersect StringCell, hs, NoAtom, NoAtom)
      <4> DEFINE D == 2 * C
                 kept == StringCell
      <4>1. D \in Nat \ {0} /\ Cardinality(interned) < D /\ kept \in SUBSET StringCell
        BY <3>2
      <4> HIDE DEF D, kept
      <4>2. InOrder(Reinserted(atoms, kept, Filled(D, NoAtom)), D, interned \intersect kept, hs, NoAtom, NoAtom)
        BY <1>1, <2>2, <2>3, <3>3, <4>1, ReinsertedInOrder
      <4> QED BY <3>1, <4>2 DEF D, kept
    <3>5. interned \intersect StringCell = interned
      BY <1>1 DEF AtomsFit
    <3>6. AtomsIn(Roomy, 2 * C, interned, text)
      BY <2>2, <3>4, <3>5 DEF AtomsIn
    <3> QED BY <3>2, <3>6 DEF HalfFull
  <2>5. CASE ~ ((atomCount + 1) * 2 > C)
    <3>1. Roomy = atoms
      BY <2>3, <2>5 DEF Roomy
    <3>2. (atomCount + 1) * 2 <= C
      BY <1>1, <2>5
    <3> QED BY <2>1, <3>1, <3>2 DEF HalfFull
  <2> QED BY <2>4, <2>5
<1> QED BY <1>2, <1>3 DEF AtomInv

\* The search of the interning functions.
LEMMA MatchIn ==
    ASSUME NEW array, NEW cells, NEW n \in Nat, HalfFull(array, n, cells, text), Cardinality(cells) < n,
           AtomsFit(cells, text), NEW key \in Key
    PROVE  /\ Match(array, key) = NoAtom => \A p \in cells : text[p] # key
           /\ Match(array, key) # NoAtom => Match(array, key) \in cells /\ text[Match(array, key)] = key
<1>1. PICK C \in Nat : C > 1 /\ n * 2 <= C /\ AtomsIn(array, C, cells, text)
  BY DEF HalfFull
<1>2. PICK hs : /\ \A p \in cells : hs[p] = Hash[text[p]]
                /\ InOrder(array, C, cells, hs, NoAtom, NoAtom)
  BY <1>1 DEF AtomsIn
<1>3. Cardinality(cells) \in Nat /\ cells \subseteq StringCell /\ NoAtom \notin StringCell
  BY FS_CardinalityType, AtomAssumption DEF AtomsFit
<1>4. HasEmpty(array, C, NoAtom)
  <2>1. Cardinality(cells) < C
    BY <1>1, <1>3
  <2> QED BY <1>1, <2>1, HalfFullHasEmpty
<1> DEFINE H == Spelled(key)
           hash == Hash[key]
<1>5. Apart(H, NoAtom, NoAtom) /\ OfHash(H, cells, hs, hash) /\ hash \in Nat /\ NoAtom \notin cells
  <2>1. Hash \in [Key -> Nat]
    BY ProbingAssumption
  <2> QED BY <1>2, <1>3, <2>1 DEF Apart, OfHash, Spelled
<1>6. Match(array, key) = array[Found(array, hash, {NoAtom} \union H)]
  BY DEF Match
<1>7. H \intersect cells = {p \in cells : text[p] = key}
  BY <1>3 DEF Spelled
<1> HIDE DEF H, hash
<1>8. /\ H \intersect cells = {} => array[Found(array, hash, {NoAtom} \union H)] = NoAtom
      /\ H \intersect cells # {} => array[Found(array, hash, {NoAtom} \union H)] \in H \intersect cells
  <2>1. C \in Nat \ {0} /\ InOrder(array, C, cells, hs, NoAtom, NoAtom)
    BY <1>1, <1>2
  <2> QED BY <1>4, <1>5, <2>1, SearchFinds
<1> QED BY <1>5, <1>6, <1>7, <1>8

\* A string of a new text becomes an atom.
LEMMA BecomesFits ==
    ASSUME AtomInv, NEW cell \in StringCell, cell \notin interned, NEW key \in Key,
           \A p \in interned : text[p] # key,
           NEW texts, texts[cell] = key, \A p \in interned : texts[p] = text[p]
    PROVE  /\ AtomsFit(interned \union {cell}, texts)
           /\ HalfFull(Inserted(Roomy, cell, Hash[key]), atomCount + 1, interned \union {cell}, texts)
           /\ Cardinality(interned \union {cell}) = atomCount + 1
<1>1. /\ AtomsFit(interned, text) /\ IsFiniteSet(interned) /\ atomCount = Cardinality(interned)
      /\ atomCount \in Nat /\ NoAtom \notin StringCell /\ Hash \in [Key -> Nat]
  BY FS_CardinalityType, AtomAssumption, ProbingAssumption DEF AtomInv, AtomsFit
<1>2. IsFiniteSet(interned \union {cell}) /\ Cardinality(interned \union {cell}) = atomCount + 1
  BY <1>1, FS_AddElement
<1>3. AtomsFit(interned \union {cell}, texts)
  BY <1>1, <1>2 DEF AtomsFit
<1>4. PICK C \in Nat : C > 1 /\ (atomCount + 1) * 2 <= C /\ AtomsIn(Roomy, C, interned, text)
  BY RoomyFits DEF HalfFull
<1>5. PICK hs : /\ \A p \in interned : hs[p] = Hash[text[p]]
                /\ InOrder(Roomy, C, interned, hs, NoAtom, NoAtom)
  BY <1>4 DEF AtomsIn
<1> DEFINE hs2 == [p \in StringCell |-> Hash[texts[p]]]
<1>6. /\ \A p \in interned : hs2[p] = hs[p]
      /\ \A p \in interned \union {cell} : hs2[p] = Hash[texts[p]]
      /\ hs2[cell] = Hash[key] /\ hs2[cell] \in Nat /\ interned \subseteq StringCell
  BY <1>1, <1>5 DEF AtomsFit
<1>7. C \in Nat \ {0}
  BY <1>4
<1> HIDE DEF hs2
<1>8. InOrder(Roomy, C, interned, hs2, NoAtom, NoAtom)
  BY <1>5, <1>6, <1>7, SameHashes
<1>9. HasEmpty(Roomy, C, NoAtom)
  <2>1. Cardinality(interned) < C
    BY <1>1, <1>4
  <2> QED BY <1>1, <1>4, <2>1, HalfFullHasEmpty
<1>10. InOrder(Inserted(Roomy, cell, hs2[cell]), C, interned \union {cell}, hs2, NoAtom, NoAtom)
  BY <1>1, <1>6, <1>7, <1>8, <1>9, InsertedInOrder
<1>11. AtomsIn(Inserted(Roomy, cell, Hash[key]), C, interned \union {cell}, texts)
  BY <1>6, <1>10 DEF AtomsIn
<1>12. HalfFull(Inserted(Roomy, cell, Hash[key]), atomCount + 1, interned \union {cell}, texts)
  BY <1>4, <1>11 DEF HalfFull
<1> QED BY <1>2, <1>3, <1>12

\* One atom after the other is removed.
Goes(f, order, N, S) ==
    \A n \in 1 .. N : Removed(f[n - 1], order[n]) \in S => f[n] = Removed(f[n - 1], order[n])

Removes(f, order, N) == \A n \in 1 .. N : f[n] = Removed(f[n - 1], order[n])

Left(P, order, n) == P \ {order[i] : i \in 1 .. n}

Emptying(f, order, C, P, hs, N) == \A n \in 0 .. N : InOrder(f[n], C, Left(P, order, n), hs, NoAtom, NoAtom)

LEMMA RemovalsGoOn ==
    ASSUME NEW C \in Nat \ {0}, NEW P, NEW hs, Hashed(P, hs), IsFiniteSet(P), Cardinality(P) < C,
           NoAtom \notin StringCell, NEW array, InOrder(array, C, P, hs, NoAtom, NoAtom),
           NEW D \in SUBSET P, NEW N \in Nat, NEW order \in [1 .. N -> D], IsInjective(order),
           NEW f, f[0] = array, Goes(f, order, N, [0 .. C - 1 -> {NoAtom} \union P])
    PROVE  Emptying(f, order, C, P, hs, N) /\ Removes(f, order, N)
<1> DEFINE Done(n) == /\ InOrder(f[n], C, Left(P, order, n), hs, NoAtom, NoAtom)
                      /\ n # 0 => f[n] = Removed(f[n - 1], order[n])
           H == {n \in 0 .. N : Done(n)}
<1>1. Done(0)
  <2>1. Left(P, order, 0) = P
    BY DEF Left
  <2> QED BY <2>1
<1>2. ASSUME NEW n \in 1 .. N, Done(n - 1) PROVE Done(n)
  <2> DEFINE g == f[n - 1]
             R == Left(P, order, n - 1)
             cell == order[n]
             next == Removed(g, cell)
  <2>1. InOrder(g, C, R, hs, NoAtom, NoAtom) /\ R \subseteq P
    BY <1>2 DEF Left
  <2>2. \A i \in 1 .. n : i \in 1 .. n - 1 \/ i = n
    OBVIOUS
  <2>3. Left(P, order, n) = R \ {cell}
    BY <2>2 DEF Left
  <2>4. \A i \in 1 .. n - 1 : order[i] # cell
    BY DEF IsInjective
  <2>5. cell \in R
    BY <2>4 DEF Left
  <2>6. Hashed(R, hs) /\ NoAtom \notin R
    BY <2>1 DEF Hashed
  <2> HIDE DEF R, g, cell
  <2>7. IsFiniteSet(R) /\ Cardinality(R) < C
    <3>1. IsFiniteSet(R) /\ Cardinality(R) <= Cardinality(P)
      BY <2>1, FS_Subset
    <3>2. Cardinality(R) \in Nat /\ Cardinality(P) \in Nat
      BY <3>1, FS_CardinalityType
    <3> QED BY <3>1, <3>2
  <2>8. HasEmpty(g, C, NoAtom)
    BY <2>1, <2>6, <2>7, RoomLeft
  <2>9. InOrder(next, C, R \ {cell}, hs, NoAtom, NoAtom)
    BY <2>1, <2>5, <2>6, <2>8, RemovedInOrder
  <2> HIDE DEF next
  <2>10. next \in [0 .. C - 1 -> {NoAtom} \union P]
    <3>1. next \in [0 .. C - 1 -> {NoAtom} \union (R \ {cell})]
      BY <2>9 DEF InOrder
    <3>2. {NoAtom} \union (R \ {cell}) \subseteq {NoAtom} \union P
      BY <2>1
    <3> QED BY <3>1, <3>2
  <2>11. f[n] = next /\ next = Removed(f[n - 1], order[n])
    BY <2>10 DEF Goes, next, g, cell
  <2> QED BY <2>3, <2>9, <2>11
<1>3. \A n \in 0 .. N : n \in H
  <2> HIDE DEF Done
  <2>1. 0 \in H /\ \A n \in 1 .. N : n - 1 \in H => n \in H
    BY <1>1, <1>2
  <2> HIDE DEF H
  <2> QED BY <2>1, UpTo
<1>4. \A n \in 1 .. N : n \in 0 .. N /\ n # 0
  OBVIOUS
<1> QED BY <1>3, <1>4 DEF Emptying, Removes

\* dropDeadAtoms takes out the dead atoms, in whatever order.
LEMMA RemovedInTurnInOrder ==
    ASSUME NEW C \in Nat \ {0}, NEW P, NEW hs, Hashed(P, hs), IsFiniteSet(P), Cardinality(P) < C,
           NoAtom \notin StringCell, InOrder(atoms, C, P, hs, NoAtom, NoAtom),
           NEW D \in SUBSET P, NEW order \in Orders(D)
    PROVE  InOrder(RemovedInTurn(order), C, P \ D, hs, NoAtom, NoAtom)
<1> DEFINE N == Len(order)
           S == [0 .. C - 1 -> {NoAtom} \union P]
           Step(n, g) == IF Removed(g, order[n]) \in S THEN Removed(g, order[n]) ELSE atoms
           G == [n \in 1 .. N |-> [g \in S |-> Step(n, g)]]
           Body(g) == [n \in 0 .. Len(order) |-> IF n = 0 THEN atoms ELSE Removed(g[n - 1], order[n])]
           after == CHOOSE g : g = Body(g)
<1>1. IsFiniteSet(D) /\ Cardinality(D) \in Nat
  BY FS_Subset, FS_CardinalityType
<1>2. N = Cardinality(D) /\ N \in Nat /\ order \in [1 .. N -> D] /\ IsInjective(order)
  <2>1. order \in [1 .. Cardinality(D) -> D] /\ IsInjective(order)
    BY DEF Orders
  <2>2. Len(order) = Cardinality(D)
    BY <1>1, <2>1
  <2> QED BY <1>1, <2>1, <2>2
<1> HIDE DEF N
<1>3. atoms \in S
  BY DEF InOrder
<1>4. G \in [1 .. N -> [S -> S]] /\ \A n \in 1 .. N : \A g \in S : G[n][g] = Step(n, g)
  <2>1. \A n \in 1 .. N : \A g \in S : Step(n, g) \in S
    <3> HIDE DEF S
    <3> QED BY <1>3
  <2> HIDE DEF Step, S
  <2> QED BY <2>1
<1> HIDE DEF G, S
<1>5. PICK f \in [0 .. N -> S] : Follows(f, N, atoms, G)
  BY <1>2, <1>3, <1>4, Recursion
<1>6. f[0] = atoms /\ \A n \in 1 .. N : f[n] = Step(n, f[n - 1])
  <2>1. \A n \in 1 .. N : f[n - 1] \in S
    BY <1>2, <1>5
  <2>2. \A n \in 0 .. N : f[n] = IF n = 0 THEN atoms ELSE G[n][f[n - 1]]
    BY <1>5, Zenon DEF Follows
  <2>3. 0 \in 0 .. N /\ \A n \in 1 .. N : n \in 0 .. N /\ n # 0
    BY <1>2
  <2> HIDE DEF Step
  <2> QED BY <1>4, <2>1, <2>2, <2>3
<1>7. Goes(f, order, N, [0 .. C - 1 -> {NoAtom} \union P])
  <2>1. Goes(f, order, N, S)
    BY <1>6 DEF Goes
  <2> QED BY <2>1 DEF S
<1>8. \A n \in 1 .. N : f[n] = Removed(f[n - 1], order[n])
  <2>1. Removes(f, order, N)
    BY <1>2, <1>6, <1>7, RemovalsGoOn
  <2> QED BY <2>1 DEF Removes
<1>9. f = Body(f)
  <2>1. \A n \in 0 .. N : f[n] = IF n = 0 THEN atoms ELSE Removed(f[n - 1], order[n])
    BY <1>6, <1>8
  <2>2. f = [n \in 0 .. N |-> f[n]]
    BY <1>5
  <2> QED BY <2>1, <2>2, Zenon DEF N
<1>10. after = Body(after)
  <2> HIDE DEF Body
  <2> QED BY <1>9
<1>11. RemovedInTurn(order) = after[N]
  BY Zenon DEF RemovedInTurn, N
<1> HIDE DEF after
<1>12. after[0] = atoms /\ \A n \in 1 .. N : after[n] = Removed(after[n - 1], order[n])
  <2>1. \A n \in 0 .. N : after[n] = IF n = 0 THEN atoms ELSE Removed(after[n - 1], order[n])
    BY <1>10, Zenon DEF N
  <2>2. 0 \in 0 .. N /\ \A n \in 1 .. N : n \in 0 .. N /\ n # 0
    BY <1>2
  <2> QED BY <2>1, <2>2
<1>13. Goes(after, order, N, [0 .. C - 1 -> {NoAtom} \union P])
  BY <1>12 DEF Goes
<1>14. Emptying(after, order, C, P, hs, N)
  BY <1>2, <1>12, <1>13, RemovalsGoOn
<1>15. InOrder(after[N], C, Left(P, order, N), hs, NoAtom, NoAtom)
  BY <1>2, <1>14 DEF Emptying
<1>16. Left(P, order, N) = P \ D
  <2>1. IsFiniteSet(1 .. N) /\ Cardinality(1 .. N) = N
    BY <1>2, FS_Interval
  <2>2. order \in Injection(1 .. N, D)
    BY <1>2 DEF Injection
  <2>3. order \in Surjection(1 .. N, D)
    BY <1>1, <1>2, <2>1, <2>2, FS_Injection
  <2>4. \A d \in D : \E i \in 1 .. N : order[i] = d
    BY <2>3 DEF Surjection
  <2> QED BY <1>2, <2>4 DEF Left
<1> QED BY <1>11, <1>15, <1>16
-----------------------------------------------------------------------------
(* The invariant of the atom table.                                        *)

LEMMA AtomsStart ==
    ASSUME AtomInit
    PROVE  AtomInv
<1>1. text \in [StringCell -> Key \union {NoText}]
  BY DEF AtomInit
<1>2. AtomsFit(interned, text) /\ atomCount = Cardinality(interned)
  BY FS_EmptySet DEF AtomInit, AtomsFit
<1>3. Nothing(atoms) /\ interned = {}
  BY NoTable DEF AtomInit, Nothing
<1> QED BY <1>1, <1>2, <1>3 DEF AtomInv

\* A new string has a text of its own, and no atom is touched.
LEMMA AllocatedFits ==
    ASSUME AtomInv, NEW cell \in StringCell, NEW key \in Key, Allocated(cell, key)
    PROVE  /\ cell \notin interned
           /\ text' \in [StringCell -> Key \union {NoText}]
           /\ text'[cell] = key /\ \A p \in interned : text'[p] = text[p]
<1>1. /\ text \in [StringCell -> Key \union {NoText}] /\ NoText \notin Key
      /\ interned \subseteq StringCell /\ \A p \in interned : text[p] \in Key
  BY AtomAssumption DEF AtomInv, AtomsFit
<1>2. cell \notin interned
  BY <1>1 DEF Allocated
<1> QED BY <1>1, <1>2 DEF Allocated

LEMMA SameAtoms ==
    ASSUME AtomInv, text' \in [StringCell -> Key \union {NoText}],
           \A p \in interned : text'[p] = text[p],
           UNCHANGED <<interned, atomCount>>,
           (UNCHANGED atoms) \/ atoms' = Roomy
    PROVE  AtomInv'
<1>1. /\ AtomsFit(interned, text) /\ atomCount = Cardinality(interned) /\ atomCount \in Nat
  BY FS_CardinalityType DEF AtomInv, AtomsFit
<1>2. AtomsFit(interned, text')
  BY <1>1 DEF AtomsFit
<1>3. ASSUME NEW array, NEW n \in Nat, HalfFull(array, n, interned, text), atomCount <= n
      PROVE  HalfFull(array, atomCount, interned, text')
  <2>1. PICK C \in Nat : C > 1 /\ n * 2 <= C /\ AtomsIn(array, C, interned, text)
    BY <1>3 DEF HalfFull
  <2>2. AtomsIn(array, C, interned, text')
    BY <2>1, AtomsStay
  <2>3. atomCount * 2 <= C
    BY <1>1, <1>3, <2>1
  <2> QED BY <2>1, <2>2, <2>3 DEF HalfFull
<1>4. CASE UNCHANGED atoms
  <2>1. (Nothing(atoms) /\ interned = {}) \/ HalfFull(atoms, atomCount, interned, text')
    BY <1>1, <1>3 DEF AtomInv
  <2> QED BY <1>1, <1>2, <1>4, <2>1 DEF AtomInv
<1>5. CASE atoms' = Roomy
  <2>1. HalfFull(Roomy, atomCount + 1, interned, text)
    BY RoomyFits
  <2>2. HalfFull(Roomy, atomCount, interned, text')
    BY <1>1, <1>3, <2>1
  <2> QED BY <1>1, <1>2, <1>5, <2>2 DEF AtomInv
<1> QED BY <1>4, <1>5

LEMMA BecomesKeeps ==
    ASSUME AtomInv, NEW cell \in StringCell, cell \notin interned, NEW key \in Key,
           \A p \in interned : text[p] # key,
           text' \in [StringCell -> Key \union {NoText}], text'[cell] = key,
           \A p \in interned : text'[p] = text[p],
           BecomesAtom(cell, key)
    PROVE  AtomInv'
<1>1. /\ AtomsFit(interned \union {cell}, text')
      /\ HalfFull(Inserted(Roomy, cell, Hash[key]), atomCount + 1, interned \union {cell}, text')
      /\ Cardinality(interned \union {cell}) = atomCount + 1
  BY BecomesFits
<1>2. /\ atoms' = Inserted(Roomy, cell, Hash[key]) /\ atomCount' = atomCount + 1
      /\ interned' = interned \union {cell}
  BY DEF BecomesAtom
<1> QED BY <1>1, <1>2 DEF AtomInv

\* What the search in the table that has room says.
LEMMA MatchSays ==
    ASSUME AtomInv, NEW key \in Key
    PROVE  /\ Match(Roomy, key) = NoAtom => \A p \in interned : text[p] # key
           /\ Match(Roomy, key) # NoAtom => Match(Roomy, key) \in interned /\ text[Match(Roomy, key)] = key
<1> DEFINE n == atomCount + 1
<1>1. /\ AtomsFit(interned, text) /\ n \in Nat /\ Cardinality(interned) < n
  BY FS_CardinalityType DEF AtomInv, AtomsFit
<1>2. HalfFull(Roomy, n, interned, text)
  BY RoomyFits
<1> HIDE DEF n
<1> QED BY <1>1, <1>2, MatchIn

LEMMA InternTextKeeps ==
    ASSUME AtomInv, NEW key \in Key, InternText(key)
    PROVE  AtomInv'
<1>1. CASE Match(Roomy, key) # NoAtom
  <2>1. atoms' = Roomy /\ UNCHANGED <<text, interned, atomCount>>
    BY <1>1 DEF InternText, AtomFound
  <2>2. text' \in [StringCell -> Key \union {NoText}] /\ \A p \in interned : text'[p] = text[p]
    BY <2>1 DEF AtomInv
  <2> QED BY <2>1, <2>2, SameAtoms
<1>2. CASE Match(Roomy, key) = NoAtom
  <2>1. PICK cell \in StringCell : Allocated(cell, key) /\ BecomesAtom(cell, key)
    BY <1>2 DEF InternText
  <2>2. \A p \in interned : text[p] # key
    BY <1>2, MatchSays
  <2>3. /\ cell \notin interned /\ text' \in [StringCell -> Key \union {NoText}]
        /\ text'[cell] = key /\ \A p \in interned : text'[p] = text[p]
    BY <2>1, AllocatedFits
  <2> QED BY <2>1, <2>2, <2>3, BecomesKeeps
<1> QED BY <1>1, <1>2

LEMMA InternExistingKeeps ==
    ASSUME AtomInv, NEW cell \in StringCell, InternExisting(cell)
    PROVE  AtomInv'
<1>1. text \in [StringCell -> Key \union {NoText}] /\ text[cell] \in Key
  BY DEF AtomInv, InternExisting
<1>2. text' = text
  BY DEF InternExisting, AtomFound
<1>3. CASE cell \in interned
  <2>1. UNCHANGED <<atoms, interned, atomCount>>
    BY <1>3 DEF InternExisting
  <2> QED BY <1>1, <1>2, <2>1, SameAtoms
<1>4. CASE cell \notin interned /\ Match(Roomy, text[cell]) # NoAtom
  <2>1. atoms' = Roomy /\ UNCHANGED <<interned, atomCount>>
    BY <1>4 DEF InternExisting, AtomFound
  <2> QED BY <1>1, <1>2, <2>1, SameAtoms
<1>5. CASE cell \notin interned /\ Match(Roomy, text[cell]) = NoAtom
  <2> DEFINE key == text[cell]
  <2>1. BecomesAtom(cell, key)
    BY <1>5 DEF InternExisting
  <2>2. key \in Key /\ text'[cell] = key /\ \A p \in interned : text'[p] = text[p]
    BY <1>1, <1>2
  <2>3. \A p \in interned : text[p] # key
    BY <1>1, <1>5, MatchSays
  <2> HIDE DEF key
  <2> QED BY <1>1, <1>2, <1>5, <2>1, <2>2, <2>3, BecomesKeeps
<1> QED BY <1>3, <1>4, <1>5

LEMMA NewStringKeeps ==
    ASSUME AtomInv, NEW key \in Key, NewString(key)
    PROVE  AtomInv'
<1>1. PICK cell \in StringCell : Allocated(cell, key)
  BY DEF NewString
<1>2. UNCHANGED <<interned, atoms, atomCount>>
  BY DEF NewString
<1> QED BY <1>1, <1>2, AllocatedFits, SameAtoms

\* The atoms that a collection leaves, in a table of the same capacity.
LEMMA FreedKeeps ==
    ASSUME AtomInv, NEW dead \in SUBSET StringCell, Freed(dead),
           atomCount' = Cardinality(interned \ dead),
           \/ Nothing(atoms) /\ Nothing(atoms')
           \/ \E C \in Nat : /\ C > 1 /\ atomCount * 2 <= C
                             /\ AtomsIn(atoms', C, interned \ dead, text)
    PROVE  AtomInv'
<1>1. /\ text' = [cell \in StringCell |-> IF cell \in dead THEN NoText ELSE text[cell]]
      /\ interned' = interned \ dead
  BY DEF Freed
<1>2. /\ text \in [StringCell -> Key \union {NoText}]
      /\ AtomsFit(interned, text) /\ IsFiniteSet(interned) /\ interned \subseteq StringCell
      /\ atomCount = Cardinality(interned)
  BY DEF AtomInv, AtomsFit
<1>3. text' \in [StringCell -> Key \union {NoText}] /\ \A p \in interned \ dead : text'[p] = text[p]
  BY <1>1, <1>2
<1>4. interned \ dead \subseteq interned
  OBVIOUS
<1>5. /\ IsFiniteSet(interned \ dead) /\ Cardinality(interned \ dead) <= Cardinality(interned)
      /\ Cardinality(interned \ dead) \in Nat /\ Cardinality(interned) \in Nat
  BY <1>2, <1>4, FS_Subset, FS_CardinalityType
<1>6. AtomsFit(interned', text')
  BY <1>1, <1>2, <1>3, <1>5 DEF AtomsFit
<1>7. CASE Nothing(atoms) /\ Nothing(atoms')
  <2>1. interned = {} \/ interned # {}
    OBVIOUS
  <2>2. interned = {}
    <3>1. SUFFICES ASSUME HalfFull(atoms, atomCount, interned, text) PROVE FALSE
      BY DEF AtomInv
    <3>2. PICK C \in Nat : C > 1 /\ AtomsIn(atoms, C, interned, text)
      BY <3>1 DEF HalfFull
    <3>3. DOMAIN atoms = 0 .. C - 1
      BY <3>2 DEF AtomsIn, InOrder
    <3>4. Capacity(atoms) = C
      BY <3>2, <3>3, CapacityOf
    <3> QED BY <1>7, <3>2, <3>4 DEF Nothing
  <2> QED BY <1>1, <1>3, <1>6, <1>7, <2>2 DEF AtomInv
<1>8. CASE \E C \in Nat : /\ C > 1 /\ atomCount * 2 <= C
                          /\ AtomsIn(atoms', C, interned \ dead, text)
  <2>1. PICK C \in Nat : /\ C > 1 /\ atomCount * 2 <= C
                         /\ AtomsIn(atoms', C, interned \ dead, text)
    BY <1>8
  <2>2. AtomsIn(atoms', C, interned \ dead, text')
    BY <1>3, <2>1, AtomsStay
  <2>3. atomCount' * 2 <= C
    BY <1>2, <1>5, <2>1
  <2>4. HalfFull(atoms', atomCount', interned', text')
    BY <1>1, <2>1, <2>2, <2>3 DEF HalfFull
  <2> QED BY <1>1, <1>3, <1>6, <2>4 DEF AtomInv
<1> QED BY <1>7, <1>8

LEMMA MinorKeeps ==
    ASSUME AtomInv, NEW dead \in SUBSET StringCell, MinorCollectionOf(dead)
    PROVE  AtomInv'
<1> DEFINE D == dead \intersect interned
<1>1. /\ AtomsFit(interned, text) /\ IsFiniteSet(interned) /\ interned \subseteq StringCell
      /\ atomCount = Cardinality(interned) /\ atomCount \in Nat /\ NoAtom \notin StringCell
  BY FS_CardinalityType, AtomAssumption DEF AtomInv, AtomsFit
<1>2. PICK order \in Orders(D) : atoms' = RemovedInTurn(order)
  BY DEF MinorCollectionOf
<1>3. /\ IsFiniteSet(D) /\ Cardinality(D) \in Nat /\ D \subseteq interned /\ interned \ D = interned \ dead
  BY <1>1, FS_Subset, FS_CardinalityType
<1>4. atomCount' = Cardinality(interned \ dead)
  <2>1. atomCount' = atomCount - Cardinality(D)
    BY DEF MinorCollectionOf
  <2> HIDE DEF D
  <2>2. interned = (interned \ D) \union D /\ (interned \ D) \intersect D = {}
    BY <1>3
  <2>3. IsFiniteSet(interned \ D) /\ Cardinality(interned \ D) \in Nat
    BY <1>1, FS_Subset, FS_CardinalityType
  <2>4. Cardinality(interned) = Cardinality(interned \ D) + Cardinality(D)
    <3> DEFINE rest == interned \ D
    <3>1. interned = rest \union D /\ rest \intersect D = {} /\ IsFiniteSet(rest)
      BY <2>2, <2>3
    <3> HIDE DEF rest
    <3>2. Cardinality(rest \union D) = Cardinality(rest) + Cardinality(D) - Cardinality(rest \intersect D)
      BY <1>3, <3>1, FS_Union
    <3>3. Cardinality(rest \intersect D) = 0
      BY <3>1, FS_EmptySet
    <3>4. Cardinality(rest) \in Nat
      BY <3>1, FS_CardinalityType
    <3>5. Cardinality(interned) = Cardinality(rest) + Cardinality(D)
      BY <1>3, <3>1, <3>2, <3>3, <3>4
    <3> QED BY <3>5 DEF rest
  <2>5. Cardinality(interned \ D) = Cardinality(interned \ dead)
    BY <1>3
  <2>6. atomCount' = Cardinality(interned \ D)
    BY ONLY <1>1, <1>3, <2>1, <2>3, <2>4
  <2> QED BY <2>5, <2>6
<1>5. Freed(dead)
  BY DEF MinorCollectionOf
<1>6. CASE Nothing(atoms) /\ interned = {}
  <2>1. D = {} /\ Cardinality(D) = 0
    BY <1>6, FS_EmptySet
  <2>2. Len(order) = 0
    <3>1. order \in [1 .. Cardinality(D) -> D]
      BY DEF Orders
    <3> HIDE DEF D
    <3> QED BY <2>1, <3>1
  <2>3. RemovedInTurn(order) = atoms
    <3> DEFINE Body(g) == [n \in 0 .. Len(order) |-> IF n = 0 THEN atoms ELSE Removed(g[n - 1], order[n])]
               after == CHOOSE g : g = Body(g)
               f == [n \in 0 .. 0 |-> atoms]
    <3>1. \A n \in 0 .. 0 : n = 0
      OBVIOUS
    <3>2. f = Body(f)
      BY <2>2, <3>1, Zenon
    <3>3. after = Body(after)
      <4> HIDE DEF Body, f
      <4> QED BY <3>2
    <3>4. RemovedInTurn(order) = after[0]
      BY <2>2, Zenon DEF RemovedInTurn
    <3> HIDE DEF after
    <3>5. after[0] = atoms
      <4>1. 0 \in 0 .. Len(order)
        BY <2>2
      <4> QED BY <3>3, <4>1, Zenon
    <3> QED BY <3>4, <3>5
  <2>4. Nothing(atoms')
    BY <1>2, <1>6, <2>3 DEF Nothing
  <2> QED BY <1>4, <1>5, <1>6, <2>4, FreedKeeps
<1>7. CASE HalfFull(atoms, atomCount, interned, text)
  <2>1. PICK C \in Nat : C > 1 /\ atomCount * 2 <= C /\ AtomsIn(atoms, C, interned, text)
    BY <1>7 DEF HalfFull
  <2>2. PICK hs : /\ \A p \in interned : hs[p] = Hash[text[p]]
                  /\ InOrder(atoms, C, interned, hs, NoAtom, NoAtom)
    BY <2>1 DEF AtomsIn
  <2>3. Hashed(interned, hs) /\ C \in Nat \ {0} /\ Cardinality(interned) < C
    BY <1>1, <2>1, <2>2, HashesOfAtoms
  <2> HIDE DEF D
  <2>4. InOrder(RemovedInTurn(order), C, interned \ D, hs, NoAtom, NoAtom)
    BY <1>1, <1>3, <2>2, <2>3, RemovedInTurnInOrder
  <2>5. AtomsIn(atoms', C, interned \ dead, text)
    BY <1>2, <1>3, <2>2, <2>4 DEF AtomsIn
  <2> QED BY <1>4, <1>5, <2>1, <2>5, FreedKeeps
<1> QED BY <1>6, <1>7 DEF AtomInv

LEMMA FullKeeps ==
    ASSUME AtomInv, NEW dead \in SUBSET StringCell, FullCollectionOf(dead)
    PROVE  AtomInv'
<1>1. /\ AtomsFit(interned, text) /\ IsFiniteSet(interned) /\ interned \subseteq StringCell
      /\ atomCount = Cardinality(interned) /\ atomCount \in Nat /\ NoAtom \notin StringCell
  BY FS_CardinalityType, AtomAssumption DEF AtomInv, AtomsFit
<1>2. /\ atoms' = Reinserted(atoms, StringCell \ dead, Filled(Capacity(atoms), NoAtom))
      /\ atomCount' = Cardinality(interned \ dead) /\ Freed(dead)
  BY DEF FullCollectionOf
<1>3. CASE Nothing(atoms) /\ interned = {}
  <2>1. Capacity(atoms) = 0
    BY <1>3 DEF Nothing
  <2>2. atoms' = Filled(0, NoAtom)
    BY <1>2, <2>1, ReinsertedNothing
  <2>3. Filled(0, NoAtom) = <<>>
    BY DEF Filled, Slots
  <2>4. Nothing(atoms')
    BY <2>2, <2>3, NoTable DEF Nothing
  <2> QED BY <1>2, <1>3, <2>4, FreedKeeps
<1>4. CASE HalfFull(atoms, atomCount, interned, text)
  <2>1. PICK C \in Nat : C > 1 /\ atomCount * 2 <= C /\ AtomsIn(atoms, C, interned, text)
    BY <1>4 DEF HalfFull
  <2>2. PICK hs : /\ \A p \in interned : hs[p] = Hash[text[p]]
                  /\ InOrder(atoms, C, interned, hs, NoAtom, NoAtom)
    BY <2>1 DEF AtomsIn
  <2>3. Hashed(interned, hs) /\ C \in Nat \ {0} /\ Cardinality(interned) < C /\ Capacity(atoms) = C
    <3>1. Hashed(interned, hs) /\ C \in Nat \ {0} /\ Cardinality(interned) < C
      BY <1>1, <2>1, <2>2, HashesOfAtoms
    <3>2. DOMAIN atoms = 0 .. C - 1
      BY <2>2 DEF InOrder
    <3> QED BY <3>1, <3>2, CapacityOf
  <2> DEFINE kept == StringCell \ dead
  <2>4. kept \in SUBSET StringCell /\ interned \intersect kept = interned \ dead
    BY <1>1
  <2>5. atoms' = Reinserted(atoms, kept, Filled(C, NoAtom))
    BY <1>2, <2>3
  <2> HIDE DEF kept
  <2>6. InOrder(Reinserted(atoms, kept, Filled(C, NoAtom)), C, interned \intersect kept, hs, NoAtom, NoAtom)
    BY <1>1, <2>2, <2>3, <2>4, ReinsertedInOrder
  <2>7. AtomsIn(atoms', C, interned \ dead, text)
    BY <2>2, <2>4, <2>5, <2>6 DEF AtomsIn
  <2> QED BY <1>2, <2>1, <2>7, FreedKeeps
<1> QED BY <1>3, <1>4 DEF AtomInv

LEMMA AtomSteps ==
    ASSUME AtomInv, AtomNext
    PROVE  AtomInv'
<1>1. ASSUME NEW key \in Key, InternText(key) \/ NewString(key) PROVE AtomInv'
  BY <1>1, InternTextKeeps, NewStringKeeps
<1>2. ASSUME NEW cell \in StringCell, InternExisting(cell) PROVE AtomInv'
  BY <1>2, InternExistingKeeps
<1>3. ASSUME NEW dead \in SUBSET {cell \in StringCell : text[cell] # NoText},
             MinorCollectionOf(dead) \/ FullCollectionOf(dead)
      PROVE  AtomInv'
  <2>1. dead \in SUBSET StringCell
    OBVIOUS
  <2> QED BY <1>3, <2>1, MinorKeeps, FullKeeps
<1> QED BY <1>1, <1>2, <1>3 DEF AtomNext

LEMMA AtomStutters ==
    ASSUME AtomInv, UNCHANGED atomVars
    PROVE  AtomInv'
<1>1. UNCHANGED <<text, interned, atoms, atomCount>>
  BY DEF atomVars
<1> QED BY <1>1 DEF AtomInv

\* The atom table's invariant holds in every state.
THEOREM AtomInvariant == Spec => []AtomInv
<1>1. Init => AtomInv
  BY AtomsStart DEF Init
<1>2. AtomInv /\ [Next]_<<subject, tableVars, weakVars, atomVars>> => AtomInv'
  BY AtomSteps, AtomStutters DEF Next
<1> QED BY <1>1, <1>2, PTL DEF Spec
-----------------------------------------------------------------------------
(* The atom table implements interning.                                    *)

\* AtomsOf, as a mapping from texts to cells.
Names(m, texts, cells) ==
    /\ m = [key \in DOMAIN m |-> m[key]]
    /\ \A key : key \in DOMAIN m <=> \E cell \in cells : texts[cell] = key
    /\ \A cell \in cells : m[texts[cell]] = cell

LEMMA AtomsNamed ==
    ASSUME NEW texts, NEW cells, \A p, q \in cells : texts[p] = texts[q] => p = q
    PROVE  Names(AtomsOf(texts, cells), texts, cells)
<1> DEFINE D == {texts[cell] : cell \in cells}
           m == AtomsOf(texts, cells)
<1>1. m = [key \in D |-> CHOOSE cell \in cells : texts[cell] = key]
  BY DEF AtomsOf
<1>2. DOMAIN m = D /\ m = [key \in DOMAIN m |-> m[key]]
  BY <1>1
<1>3. \A cell \in cells : m[texts[cell]] = cell
  <2>1. SUFFICES ASSUME NEW cell \in cells PROVE m[texts[cell]] = cell
    OBVIOUS
  <2>2. texts[cell] \in D
    OBVIOUS
  <2>3. m[texts[cell]] = CHOOSE c \in cells : texts[c] = texts[cell]
    BY <1>1, <2>2
  <2>4. (CHOOSE c \in cells : texts[c] = texts[cell]) \in cells
        /\ texts[CHOOSE c \in cells : texts[c] = texts[cell]] = texts[cell]
    OBVIOUS
  <2> QED BY <2>3, <2>4
<1> HIDE DEF m
<1> QED BY <1>2, <1>3 DEF Names, m

LEMMA SameNames ==
    ASSUME NEW texts, NEW cells, NEW texts2, NEW cells2,
           \A p, q \in cells : texts[p] = texts[q] => p = q,
           cells2 = cells, \A p \in cells : texts2[p] = texts[p]
    PROVE  AtomsOf(texts2, cells2) = AtomsOf(texts, cells)
<1> DEFINE m == AtomsOf(texts, cells)
           m2 == AtomsOf(texts2, cells2)
<1>1. Names(m, texts, cells)
  BY AtomsNamed
<1>2. Names(m2, texts2, cells2)
  BY AtomsNamed
<1> HIDE DEF m, m2
<1>3. DOMAIN m2 = DOMAIN m
  BY <1>1, <1>2 DEF Names
<1>4. \A key \in DOMAIN m : m2[key] = m[key]
  BY <1>1, <1>2 DEF Names
<1>5. m = [key \in DOMAIN m |-> m[key]] /\ m2 = [key \in DOMAIN m2 |-> m2[key]]
  BY <1>1, <1>2 DEF Names
<1>6. m2 = m
  BY <1>3, <1>4, <1>5, Zenon
<1> QED BY <1>6 DEF m, m2

\* One more cell, of a text that had none.
Joins(cell, key, cells, texts, texts2) ==
    /\ cell \notin cells /\ texts2[cell] = key
    /\ \A p, q \in cells : texts[p] = texts[q] => p = q
    /\ \A p \in cells : texts2[p] = texts[p] /\ texts[p] # key

LEMMA OneMoreName ==
    ASSUME NEW texts, NEW cells, NEW texts2, NEW cell, NEW key, Joins(cell, key, cells, texts, texts2)
    PROVE  AtomsOf(texts2, cells \union {cell}) = With(AtomsOf(texts, cells), key, cell)
<1> DEFINE m == AtomsOf(texts, cells)
           cells2 == cells \union {cell}
           m2 == AtomsOf(texts2, cells2)
           w == With(m, key, cell)
<1> USE DEF Joins
<1>1. Names(m, texts, cells)
  BY AtomsNamed
<1>2. Names(m2, texts2, cells2)
  <2>1. \A p, q \in cells2 : texts2[p] = texts2[q] => p = q
    OBVIOUS
  <2> HIDE DEF cells2
  <2> QED BY <2>1, AtomsNamed
<1> HIDE DEF m, m2
<1>3. DOMAIN w = DOMAIN m \union {key} /\ w = [k \in DOMAIN w |-> w[k]]
  BY DEF With
<1>4. \A k \in DOMAIN w : w[k] = IF k = key THEN cell ELSE m[k]
  BY DEF With
<1> HIDE DEF w
<1>5. DOMAIN m2 = DOMAIN w
  <2>1. \A k : k \in DOMAIN m2 <=> k \in DOMAIN m \/ k = key
    BY <1>1, <1>2 DEF Names
  <2> QED BY <1>3, <2>1
<1>6. \A k \in DOMAIN w : m2[k] = w[k]
  <2>1. m2[key] = cell
    BY <1>2 DEF Names
  <2>2. \A k \in DOMAIN m : m2[k] = m[k] /\ k # key
    BY <1>1, <1>2 DEF Names
  <2> QED BY <1>3, <1>4, <2>1, <2>2
<1>7. m2 = [k \in DOMAIN m2 |-> m2[k]]
  BY <1>2 DEF Names
<1>8. m2 = w
  BY <1>3, <1>5, <1>6, <1>7, Zenon
<1> QED BY <1>8 DEF m, m2, w

\* The cells of a set are taken away, and their texts with them.
LEMMA FewerNames ==
    ASSUME NEW texts, NEW cells, NEW texts2, NEW dead,
           \A p, q \in cells : texts[p] = texts[q] => p = q,
           \A p \in cells \ dead : texts2[p] = texts[p]
    PROVE  AtomsOf(texts2, cells \ dead) =
              [k \in DOMAIN AtomsOf(texts, cells) \ {texts[cell] : cell \in dead \intersect cells} |->
                  AtomsOf(texts, cells)[k]]
<1> DEFINE m == AtomsOf(texts, cells)
           rest == cells \ dead
           m2 == AtomsOf(texts2, rest)
           lost == {texts[cell] : cell \in dead \intersect cells}
           w == [k \in DOMAIN m \ lost |-> m[k]]
<1>1. Names(m, texts, cells)
  BY AtomsNamed
<1>2. Names(m2, texts2, rest)
  <2>1. \A p, q \in rest : texts2[p] = texts2[q] => p = q
    OBVIOUS
  <2> HIDE DEF rest
  <2> QED BY <2>1, AtomsNamed
<1> HIDE DEF m, m2
<1>3. DOMAIN w = DOMAIN m \ lost /\ w = [k \in DOMAIN w |-> w[k]] /\ \A k \in DOMAIN w : w[k] = m[k]
  OBVIOUS
<1>4. \A k : k \in DOMAIN m2 <=> k \in DOMAIN m /\ k \notin lost
  BY <1>1, <1>2 DEF Names
<1> HIDE DEF w, lost
<1>5. DOMAIN m2 = DOMAIN w
  BY <1>3, <1>4
<1>6. \A k \in DOMAIN w : m2[k] = w[k]
  BY <1>1, <1>2, <1>3, <1>4 DEF Names
<1>7. m2 = [k \in DOMAIN m2 |-> m2[k]]
  BY <1>2 DEF Names
<1>8. m2 = w
  BY <1>3, <1>5, <1>6, <1>7, Zenon
<1> QED BY <1>8 DEF m, m2, w, lost

LEMMA DistinctTexts ==
    ASSUME AtomInv
    PROVE  /\ \A p, q \in interned : text[p] = text[q] => p = q
           /\ interned \subseteq StringCell
           /\ Names(AtomsOf(text, interned), text, interned)
<1>1. interned \subseteq StringCell /\ \A p, q \in interned : text[p] = text[q] => p = q
  BY DEF AtomInv, AtomsFit
<1> QED BY <1>1, AtomsNamed

\* Asking for the atom of a text that has one.
LEMMA FoundImplements ==
    ASSUME AtomInv, NEW key \in Key, NEW atom \in interned, text[atom] = key,
           UNCHANGED <<text, interned>>, atomAnswer' = <<"atom", atom>>
    PROVE  OneAtom!Intern(key)
<1> DEFINE m == AtomsOf(text, interned)
<1>1. Names(m, text, interned) /\ atom \in StringCell
  BY DistinctTexts
<1>2. key \in DOMAIN m /\ m[key] = atom
  BY <1>1 DEF Names
<1>3. m' = m
  OBVIOUS
<1> QED BY <1>1, <1>2, <1>3 DEF OneAtom!Intern

\* A cell becomes the atom of a text that has none.
LEMMA BecomesImplements ==
    ASSUME AtomInv, NEW cell \in StringCell, cell \notin interned, NEW key \in Key,
           \A p \in interned : text[p] # key,
           text'[cell] = key, \A p \in interned : text'[p] = text[p],
           BecomesAtom(cell, key)
    PROVE  OneAtom!Intern(key)
<1> DEFINE m == AtomsOf(text, interned)
<1>1. Names(m, text, interned) /\ \A p, q \in interned : text[p] = text[q] => p = q
  BY DistinctTexts
<1>2. interned' = interned \union {cell} /\ atomAnswer' = <<"atom", cell>>
  BY DEF BecomesAtom
<1>3. AtomsOf(text', interned \union {cell}) = With(m, key, cell)
  <2>1. \A p \in interned : text'[p] = text[p] /\ text[p] # key
    OBVIOUS
  <2>2. Joins(cell, key, interned, text, text')
    BY <1>1, <2>1 DEF Joins
  <2> QED BY <2>2, OneMoreName
<1>4. m' = [t \in DOMAIN m \union {key} |-> IF t = key THEN cell ELSE m[t]]
  BY <1>2, <1>3 DEF With
<1>5. key \notin DOMAIN m
  BY <1>1 DEF Names
<1>6. cell \notin {m[t] : t \in DOMAIN m}
  BY <1>1 DEF Names
<1> HIDE DEF m
<1>7. cell \notin OneAtom!Atoms
  BY <1>6 DEF OneAtom!Atoms, m
<1> QED BY <1>2, <1>4, <1>5, <1>7 DEF OneAtom!Intern, m

LEMMA InternTextImplements ==
    ASSUME AtomInv, NEW key \in Key, InternText(key)
    PROVE  OneAtom!Next
<1>1. OneAtom!Intern(key)
  <2>1. CASE Match(Roomy, key) # NoAtom
    <3> DEFINE atom == Match(Roomy, key)
    <3>1. atom \in interned /\ text[atom] = key
      BY <2>1, MatchSays
    <3>2. UNCHANGED <<text, interned>> /\ atomAnswer' = <<"atom", atom>>
      BY <2>1 DEF InternText, AtomFound
    <3> HIDE DEF atom
    <3> QED BY <3>1, <3>2, FoundImplements
  <2>2. CASE Match(Roomy, key) = NoAtom
    <3>1. PICK cell \in StringCell : Allocated(cell, key) /\ BecomesAtom(cell, key)
      BY <2>2 DEF InternText
    <3>2. \A p \in interned : text[p] # key
      BY <2>2, MatchSays
    <3>3. cell \notin interned /\ text'[cell] = key /\ \A p \in interned : text'[p] = text[p]
      BY <3>1, AllocatedFits
    <3> QED BY <3>1, <3>2, <3>3, BecomesImplements
  <2> QED BY <2>1, <2>2
<1> QED BY <1>1 DEF OneAtom!Next

LEMMA InternExistingImplements ==
    ASSUME AtomInv, NEW cell \in StringCell, InternExisting(cell)
    PROVE  OneAtom!Next
<1> DEFINE key == text[cell]
<1>1. key \in Key /\ text' = text
  BY DEF AtomInv, InternExisting, AtomFound
<1>2. CASE cell \in interned
  <2>1. UNCHANGED interned /\ atomAnswer' = <<"atom", cell>> /\ text[cell] = key
    BY <1>2 DEF InternExisting
  <2> HIDE DEF key
  <2> QED BY <1>1, <1>2, <2>1, FoundImplements DEF OneAtom!Next
<1>3. CASE cell \notin interned /\ Match(Roomy, key) # NoAtom
  <2> DEFINE atom == Match(Roomy, key)
  <2>1. UNCHANGED interned /\ atomAnswer' = <<"atom", atom>>
    BY <1>3 DEF InternExisting, AtomFound
  <2>2. atom \in interned /\ text[atom] = key
    BY <1>1, <1>3, MatchSays
  <2> HIDE DEF key, atom
  <2> QED BY <1>1, <2>1, <2>2, FoundImplements DEF OneAtom!Next
<1>4. CASE cell \notin interned /\ Match(Roomy, key) = NoAtom
  <2>1. BecomesAtom(cell, key)
    BY <1>4 DEF InternExisting
  <2>2. text'[cell] = key /\ \A p \in interned : text'[p] = text[p]
    BY <1>1
  <2>3. \A p \in interned : text[p] # key
    BY <1>1, <1>4, MatchSays
  <2> HIDE DEF key
  <2> QED BY <1>1, <1>4, <2>1, <2>2, <2>3, BecomesImplements DEF OneAtom!Next
<1> QED BY <1>2, <1>3, <1>4

LEMMA NewStringImplements ==
    ASSUME AtomInv, NEW key \in Key, NewString(key)
    PROVE  UNCHANGED <<AtomsOf(text, interned), atomAnswer>>
<1>1. PICK cell \in StringCell : Allocated(cell, key)
  BY DEF NewString
<1>2. UNCHANGED <<interned, atomAnswer>>
  BY DEF NewString
<1>3. \A p \in interned : text'[p] = text[p]
  BY <1>1, AllocatedFits
<1>4. \A p, q \in interned : text[p] = text[q] => p = q
  BY DistinctTexts
<1>5. AtomsOf(text', interned') = AtomsOf(text, interned)
  BY <1>2, <1>3, <1>4, SameNames
<1> QED BY <1>2, <1>5

LEMMA FreedImplements ==
    ASSUME AtomInv, NEW dead \in SUBSET StringCell, Freed(dead)
    PROVE  OneAtom!Next
<1> DEFINE m == AtomsOf(text, interned)
           lost == {text[cell] : cell \in dead \intersect interned}
<1>1. /\ text' = [cell \in StringCell |-> IF cell \in dead THEN NoText ELSE text[cell]]
      /\ interned' = interned \ dead /\ atomAnswer' = <<"died", lost>>
  BY DEF Freed
<1>2. /\ \A p, q \in interned : text[p] = text[q] => p = q
      /\ interned \subseteq StringCell /\ Names(m, text, interned)
  BY DistinctTexts
<1>3. \A p \in interned \ dead : text'[p] = text[p]
  BY <1>1, <1>2
<1>4. AtomsOf(text', interned \ dead) = [k \in DOMAIN m \ lost |-> m[k]]
  BY <1>2, <1>3, FewerNames
<1>5. m' = [k \in DOMAIN m \ lost |-> m[k]]
  BY <1>1, <1>4
<1>6. lost \in SUBSET DOMAIN m
  BY <1>2 DEF Names
<1>7. OneAtom!Forget(lost)
  BY <1>1, <1>5 DEF OneAtom!Forget
<1> HIDE DEF lost
<1> QED BY <1>6, <1>7 DEF OneAtom!Next

LEMMA AtomsImplement ==
    ASSUME AtomInv, AtomNext
    PROVE  OneAtom!Next \/ UNCHANGED <<AtomsOf(text, interned), atomAnswer>>
<1>1. ASSUME NEW key \in Key, InternText(key) PROVE OneAtom!Next
  BY <1>1, InternTextImplements
<1>2. ASSUME NEW key \in Key, NewString(key) PROVE UNCHANGED <<AtomsOf(text, interned), atomAnswer>>
  BY <1>2, NewStringImplements
<1>3. ASSUME NEW cell \in StringCell, InternExisting(cell) PROVE OneAtom!Next
  BY <1>3, InternExistingImplements
<1>4. ASSUME NEW dead \in SUBSET {cell \in StringCell : text[cell] # NoText},
             MinorCollectionOf(dead) \/ FullCollectionOf(dead)
      PROVE  OneAtom!Next
  <2>1. dead \in SUBSET StringCell /\ Freed(dead)
    BY <1>4 DEF MinorCollectionOf, FullCollectionOf
  <2> QED BY <2>1, FreedImplements
<1> QED BY <1>1, <1>2, <1>3, <1>4 DEF AtomNext

\* A text has one atom for as long as it lives, whatever runs into whatever
\* else's place, and whatever removals move back (internLatin1, internUnits,
\* internExisting, removeAtom and rebuildAtoms of engine/runtime.zs).
THEOREM InterningImplemented == Spec => ImplementsInterning
<1>1. Init => OneAtom!Init
  <2>1. SUFFICES ASSUME AtomInit PROVE OneAtom!Init
    BY DEF Init
  <2>2. interned = {} /\ atomAnswer = <<"none">>
    BY <2>1 DEF AtomInit
  <2>3. AtomsOf(text, interned) = <<>>
    BY <2>2 DEF AtomsOf
  <2> QED BY <2>2, <2>3 DEF OneAtom!Init
<1>2. AtomInv /\ [Next]_<<subject, tableVars, weakVars, atomVars>> =>
         [OneAtom!Next]_<<AtomsOf(text, interned), atomAnswer>>
  <2>1. AtomInv /\ UNCHANGED atomVars => UNCHANGED <<AtomsOf(text, interned), atomAnswer>>
    BY DEF atomVars
  <2> QED BY <2>1, AtomsImplement DEF Next
<1> QED BY <1>1, <1>2, AtomInvariant, PTL DEF Spec, ImplementsInterning, OneAtom!Spec
-----------------------------------------------------------------------------
(* Every search ends.                                                      *)

\* No search of an index, of a record or of the atoms goes round for ever:
\* each has a slot that stops it, however many removed entries it keeps.
THEOREM EverySearchEnds == Spec => []SearchesEnd
<1>1. TableInv => TableSearchesEnd
  <2>1. SUFFICES ASSUME TableInv PROVE TableSearchesEnd
    OBVIOUS
  <2>2. EntriesFit(keys, values, hashes) /\ Indexes(index, keys, hashes)
    BY <2>1 DEF TableInv
  <2>3. HasEmpty(index, Capacity(index), TABLE_EMPTY)
    BY <2>2, IndexHasEmpty
  <2>4. DOMAIN index = 0 .. Capacity(index) - 1
    BY <2>2 DEF Indexes, InOrder
  <2> QED BY <2>3, <2>4 DEF HasEmpty, TableSearchesEnd
<1>2. WeakInv => WeakSearchesEnd
  <2>1. SUFFICES ASSUME WeakInv PROVE WeakSearchesEnd
    OBVIOUS
  <2>2. PICK hs : EntriesFit(weakKeys, weakValues, hs) /\ Indexes(weakIndex, weakKeys, hs)
    BY <2>1 DEF WeakInv, WeakFits
  <2>3. HasEmpty(weakIndex, Capacity(weakIndex), TABLE_EMPTY)
    BY <2>2, IndexHasEmpty
  <2>4. DOMAIN weakIndex = 0 .. Capacity(weakIndex) - 1
    BY <2>2 DEF Indexes, InOrder
  <2> QED BY <2>3, <2>4 DEF HasEmpty, WeakSearchesEnd, TABLE_EMPTY
<1>3. AtomInv => AtomSearchesEnd
  <2>1. SUFFICES ASSUME AtomInv, HalfFull(atoms, atomCount, interned, text) PROVE AtomSearchesEnd
    BY DEF AtomInv, AtomSearchesEnd, Nothing
  <2>2. PICK C \in Nat : C > 1 /\ atomCount * 2 <= C /\ AtomsIn(atoms, C, interned, text)
    BY <2>1 DEF HalfFull
  <2>3. AtomsFit(interned, text) /\ Cardinality(interned) \in Nat /\ atomCount = Cardinality(interned)
    BY <2>1, FS_CardinalityType DEF AtomInv, AtomsFit
  <2>4. HasEmpty(atoms, C, NoAtom)
    BY <2>2, <2>3, HalfFullHasEmpty
  <2>5. DOMAIN atoms = 0 .. C - 1
    BY <2>2 DEF AtomsIn, InOrder
  <2> QED BY <2>4, <2>5 DEF HasEmpty, AtomSearchesEnd
<1> QED BY <1>1, <1>2, <1>3, TableInvariant, WeakInvariant, AtomInvariant, PTL DEF SearchesEnd
=============================================================================
