--------------------------- MODULE Storage_proofs ---------------------------
(***************************************************************************)
(* Proofs about the heap's storage, for any sizes of the handle table, the *)
(* arenas and the strings and any number of collections: after any         *)
(* allocations, growths, concatenations and collections every cell reads   *)
(* what was written in it, and the handle table, the buffers' counts and   *)
(* the young cells are exact.                                              *)
(*                                                                         *)
(* A slide is shown once, of the lowest range that remains, for any set of *)
(* ranges that were slid before it; the minor collection's walk, its log   *)
(* and the full collection's pass over the arena then only have to come in *)
(* that order.                                                             *)
(***************************************************************************)
EXTENDS StorageInv, FiniteSetTheorems, WellFoundedInduction, TLAPS
-----------------------------------------------------------------------------
(* Least numbers and recursion.                                            *)

LEMMA Least ==
    ASSUME NEW T \in SUBSET Nat, T # {}
    PROVE  \E n \in T : \A m \in T : n <= m
<1>1. \E x \in T : \A y \in T : ~ (<<y, x>> \in OpToRel(<, Nat))
  BY NatLessThanWellFounded, WFMin
<1>2. PICK x \in T : \A y \in T : ~ (<<y, x>> \in OpToRel(<, Nat))
  BY <1>1
<1>3. \A y \in T : ~ (y < x)
  BY <1>2 DEF OpToRel
<1> QED BY <1>3

\* A set of numbers up to a bound with 0 and with each one's successor has
\* them all.
LEMMA UpTo ==
    ASSUME NEW N \in Nat, NEW H, 0 \in H, \A n \in 1 .. N : n - 1 \in H => n \in H
    PROVE  \A n \in 0 .. N : n \in H
<1> SUFFICES ASSUME \E n \in 0 .. N : n \notin H PROVE FALSE
  OBVIOUS
<1> DEFINE T == {n \in 0 .. N : n \notin H}
<1>1. T \in SUBSET Nat /\ T # {}
  OBVIOUS
<1>2. PICK n \in T : \A m \in T : n <= m
  <2> HIDE DEF T
  <2> QED BY <1>1, Least
<1>3. n # 0 /\ n \in 1 .. N /\ n - 1 \in 0 .. N /\ n - 1 \notin T
  BY <1>2
<1> QED BY <1>2, <1>3

\* A function given at 0, and at each number from its value before.
Follows(f, N, base, G) == f = [n \in 0 .. N |-> IF n = 0 THEN base ELSE G[n][f[n - 1]]]

LEMMA Recursion ==
    ASSUME NEW N \in Nat, NEW S, NEW base \in S, NEW G \in [1 .. N -> [S -> S]]
    PROVE  \E f \in [0 .. N -> S] : Follows(f, N, base, G)
<1> DEFINE Partial(n, f) == f[0] = base /\ \A m \in 1 .. n : f[m] = G[m][f[m - 1]]
           Has(n) == \E f \in [0 .. n -> S] : Partial(n, f)
           H == {n \in 0 .. N : Has(n)}
<1>1. Has(0)
  <2> DEFINE f == [n \in 0 .. 0 |-> base]
  <2>1. f \in [0 .. 0 -> S] /\ Partial(0, f)
    OBVIOUS
  <2> HIDE DEF f
  <2> QED BY <2>1
<1>2. ASSUME NEW n \in 1 .. N, Has(n - 1) PROVE Has(n)
  <2>1. PICK f \in [0 .. n - 1 -> S] : Partial(n - 1, f)
    BY <1>2
  <2> DEFINE v == G[n][f[n - 1]]
             g == [m \in 0 .. n |-> IF m = n THEN v ELSE f[m]]
  <2>2. v \in S
    BY <2>1
  <2>3. g \in [0 .. n -> S]
    BY <2>1, <2>2
  <2>4. \A m \in 0 .. n - 1 : g[m] = f[m]
    OBVIOUS
  <2>5. g[n] = v
    OBVIOUS
  <2>6. Partial(n, g)
    <3>1. g[0] = base
      BY <2>1, <2>4
    <3>2. ASSUME NEW m \in 1 .. n PROVE g[m] = G[m][g[m - 1]]
      <4>1. m - 1 \in 0 .. n - 1 /\ g[m - 1] = f[m - 1]
        BY <2>4
      <4>2. CASE m = n
        BY <4>1, <4>2, <2>5
      <4>3. CASE m # n
        <5>1. m \in 1 .. n - 1
          BY <4>3
        <5> QED BY <5>1, <4>1, <2>4, <2>1
      <4> QED BY <4>2, <4>3
    <3> QED BY <3>1, <3>2
  <2> HIDE DEF g, Partial
  <2> QED BY <2>3, <2>6
<1>3. Has(N)
  <2> HIDE DEF Has
  <2>1. 0 \in H /\ \A n \in 1 .. N : n - 1 \in H => n \in H
    BY <1>1, <1>2
  <2>2. N \in 0 .. N
    OBVIOUS
  <2>3. \A n \in 0 .. N : n \in H
    <3> HIDE DEF H
    <3> QED BY <2>1, UpTo
  <2> QED BY <2>2, <2>3
<1>4. PICK f \in [0 .. N -> S] : Partial(N, f)
  BY <1>3
<1>5. \A n \in 0 .. N : f[n] = IF n = 0 THEN base ELSE G[n][f[n - 1]]
  BY <1>4
<1> QED BY <1>5 DEF Follows
-----------------------------------------------------------------------------
(* Sequences.                                                              *)

LEMMA SubSeqOf ==
    ASSUME NEW S, NEW s \in Seq(S), NEW m \in Nat, NEW n \in Nat, n <= Len(s)
    PROVE  /\ SubSeq(s, m + 1, n) \in Seq(S)
           /\ Len(SubSeq(s, m + 1, n)) = IF m <= n THEN n - m ELSE 0
           /\ \A i \in 1 .. n - m : SubSeq(s, m + 1, n)[i] = s[m + i]
OBVIOUS

LEMMA PrefixOf ==
    ASSUME NEW S, NEW s \in Seq(S), NEW n \in 0 .. Len(s)
    PROVE  /\ SubSeq(s, 1, n) \in Seq(S) /\ Len(SubSeq(s, 1, n)) = n
           /\ \A i \in 1 .. n : SubSeq(s, 1, n)[i] = s[i]
OBVIOUS

LEMMA ConcatOf ==
    ASSUME NEW S, NEW s \in Seq(S), NEW t \in Seq(S)
    PROVE  /\ s \o t \in Seq(S) /\ Len(s \o t) = Len(s) + Len(t)
           /\ \A i \in 1 .. Len(s) : (s \o t)[i] = s[i]
           /\ \A i \in 1 .. Len(t) : (s \o t)[Len(s) + i] = t[i]
OBVIOUS

LEMMA NatConcat ==
    \A s, t \in Seq(Nat) :
        /\ s \o t \in Seq(Nat) /\ Len(s \o t) = Len(s) + Len(t)
        /\ \A i \in 1 .. Len(s) : (s \o t)[i] = s[i]
        /\ \A i \in 1 .. Len(t) : (s \o t)[Len(s) + i] = t[i]
OBVIOUS

LEMMA NatPrefix ==
    \A s \in Seq(Nat) : \A n \in 0 .. Len(s) :
        /\ SubSeq(s, 1, n) \in Seq(Nat) /\ Len(SubSeq(s, 1, n)) = n
        /\ \A i \in 1 .. n : SubSeq(s, 1, n)[i] = s[i]
OBVIOUS

LEMMA SameSeq ==
    ASSUME NEW S, NEW s \in Seq(S), NEW t \in Seq(S), Len(s) = Len(t), \A i \in 1 .. Len(s) : s[i] = t[i]
    PROVE  s = t
OBVIOUS

LEMMA NothingFirst ==
    ASSUME NEW S, NEW s \in Seq(S)
    PROVE  <<>> \o s = s
<1>1. <<>> \in Seq(S) /\ Len(<<>>) = 0
  OBVIOUS
<1>2. <<>> \o s \in Seq(S) /\ Len(<<>> \o s) = Len(s) /\ \A i \in 1 .. Len(s) : (<<>> \o s)[i] = s[i]
  BY <1>1, ConcatOf
<1> QED BY <1>2, SameSeq

\* A table with an entry set, at a place of it or at its end.
LEMMA SetAtOf ==
    ASSUME NEW S, NEW s \in Seq(S), NEW n \in 1 .. Len(s) + 1, NEW e \in S
    PROVE  /\ SetAt(s, n, e) \in Seq(S)
           /\ Len(SetAt(s, n, e)) = IF n <= Len(s) THEN Len(s) ELSE Len(s) + 1
           /\ SetAt(s, n, e)[n] = e
           /\ \A i \in 1 .. Len(s) : i # n => SetAt(s, n, e)[i] = s[i]
BY DEF SetAt

\* A slide takes a range down to the cursor and leaves the rest.
MovedDown(new, arena, start, count, cursor) ==
    /\ new \in Seq(Nat) /\ Len(new) = Len(arena)
    /\ \A k \in 1 .. count : new[cursor + k] = arena[start + k]
    /\ \A p \in 1 .. Len(arena) : p <= cursor \/ p > cursor + count => new[p] = arena[p]

LEMMA SlidToOf ==
    ASSUME NEW arena \in Seq(Nat), NEW start \in Nat, NEW count \in Nat, NEW cursor \in Nat,
           cursor <= start, start + count <= Len(arena)
    PROVE  MovedDown(SlidTo(arena, start, count, cursor), arena, start, count, cursor)
<1> DEFINE a == SubSeq(arena, 1, cursor)
           b == SubSeq(arena, start + 1, start + count)
           c == SubSeq(arena, cursor + count + 1, Len(arena))
<1>1. a \in Seq(Nat) /\ Len(a) = cursor /\ \A i \in 1 .. cursor : a[i] = arena[i]
  OBVIOUS
<1>2. b \in Seq(Nat) /\ Len(b) = count /\ \A i \in 1 .. count : b[i] = arena[start + i]
  OBVIOUS
<1>3. /\ c \in Seq(Nat) /\ Len(c) = Len(arena) - (cursor + count)
      /\ \A i \in 1 .. Len(arena) - (cursor + count) : c[i] = arena[cursor + count + i]
  OBVIOUS
<1> DEFINE ab == a \o b
<1> HIDE DEF a, b, c
<1>4. /\ ab \in Seq(Nat) /\ Len(ab) = cursor + count
      /\ \A i \in 1 .. cursor : ab[i] = arena[i]
      /\ \A i \in 1 .. count : ab[cursor + i] = arena[start + i]
  <2>1. /\ ab \in Seq(Nat) /\ Len(ab) = Len(a) + Len(b)
        /\ \A i \in 1 .. Len(a) : ab[i] = a[i]
        /\ \A i \in 1 .. Len(b) : ab[Len(a) + i] = b[i]
    BY <1>1, <1>2, NatConcat, Zenon
  <2> HIDE DEF ab
  <2> QED BY <1>1, <1>2, <2>1
<1> DEFINE abc == ab \o c
<1> HIDE DEF ab
<1>5. /\ abc \in Seq(Nat) /\ Len(abc) = Len(arena)
      /\ \A i \in 1 .. cursor + count : abc[i] = ab[i]
      /\ \A i \in 1 .. Len(c) : abc[cursor + count + i] = c[i]
  <2>1. /\ abc \in Seq(Nat) /\ Len(abc) = Len(ab) + Len(c)
        /\ \A i \in 1 .. Len(ab) : abc[i] = ab[i]
        /\ \A i \in 1 .. Len(c) : abc[Len(ab) + i] = c[i]
    BY <1>3, <1>4, NatConcat, Zenon
  <2> HIDE DEF abc
  <2> QED BY <1>3, <1>4, <2>1
<1>6. SlidTo(arena, start, count, cursor) = abc
  BY DEF SlidTo, a, b, c, ab
<1> HIDE DEF abc
<1>7. \A k \in 1 .. count : abc[cursor + k] = arena[start + k]
  BY <1>4, <1>5, SMTT(30)
<1>8. \A p \in 1 .. cursor : abc[p] = arena[p]
  BY <1>4, <1>5, SMTT(30)
<1>9. ASSUME NEW p \in 1 .. Len(arena), p > cursor + count PROVE abc[p] = arena[p]
  <2> DEFINE i == p - (cursor + count)
  <2>1. i \in 1 .. Len(c) /\ p = cursor + count + i
    BY <1>3, <1>9
  <2> HIDE DEF i
  <2> QED BY <1>3, <1>5, <2>1
<1>10. \A p \in 1 .. Len(arena) : p <= cursor \/ p > cursor + count => abc[p] = arena[p]
  BY <1>8, <1>9
<1> QED BY <1>5, <1>6, <1>7, <1>10 DEF MovedDown

\* Lists.
LEMMA ListsNothing == Lists(<<>>, {})
BY DEF Lists

LEMMA ListsAppend ==
    ASSUME NEW s, NEW D, Lists(s, D), NEW d \in Nat, d \notin D
    PROVE  Lists(Append(s, d), D \union {d})
<1>1. s \in Seq(Nat)
  BY DEF Lists
<1>2. /\ Append(s, d) \in Seq(Nat) /\ Len(Append(s, d)) = Len(s) + 1
      /\ Append(s, d)[Len(s) + 1] = d /\ \A i \in 1 .. Len(s) : Append(s, d)[i] = s[i]
  BY <1>1
<1>3. Len(s) \in Nat
  BY <1>1
<1> HIDE DEF Lists
<1>4. /\ \A i \in 1 .. Len(s) : s[i] \in D
      /\ \A e \in D : \E i \in 1 .. Len(s) : s[i] = e
      /\ \A i, j \in 1 .. Len(s) : s[i] = s[j] => i = j
  BY DEF Lists
<1>5. \A i \in 1 .. Len(s) + 1 : i \in 1 .. Len(s) \/ i = Len(s) + 1
  BY <1>3
<1>6. \A i \in 1 .. Len(s) : i \in 1 .. Len(s) + 1
  BY <1>3
<1>7. Len(s) + 1 \in 1 .. Len(s) + 1
  BY <1>3
<1>8. \A i, j \in 1 .. Len(s) + 1 : Append(s, d)[i] = Append(s, d)[j] => i = j
  BY <1>2, <1>4, <1>5
<1>9. \A e \in D \union {d} : \E i \in 1 .. Len(s) + 1 : Append(s, d)[i] = e
  BY <1>2, <1>4, <1>6, <1>7
<1> QED BY <1>2, <1>4, <1>5, <1>8, <1>9 DEF Lists

LEMMA ListsConcat ==
    ASSUME NEW s, NEW D, Lists(s, D), NEW t, NEW E, Lists(t, E), D \intersect E = {}
    PROVE  Lists(s \o t, D \union E)
<1>1. s \in Seq(Nat) /\ t \in Seq(Nat)
  BY DEF Lists
<1>2. /\ s \o t \in Seq(Nat) /\ Len(s \o t) = Len(s) + Len(t)
      /\ \A i \in 1 .. Len(s) : (s \o t)[i] = s[i]
      /\ \A i \in 1 .. Len(t) : (s \o t)[Len(s) + i] = t[i]
  BY <1>1, ConcatOf
<1>3. Len(s) \in Nat /\ Len(t) \in Nat
  BY <1>1
<1>4. /\ \A i \in 1 .. Len(s) : s[i] \in D
      /\ \A e \in D : \E i \in 1 .. Len(s) : s[i] = e
      /\ \A i, j \in 1 .. Len(s) : s[i] = s[j] => i = j
  BY DEF Lists
<1>5. /\ \A i \in 1 .. Len(t) : t[i] \in E
      /\ \A e \in E : \E i \in 1 .. Len(t) : t[i] = e
      /\ \A i, j \in 1 .. Len(t) : t[i] = t[j] => i = j
  BY DEF Lists
<1>6. \A i \in 1 .. Len(s) + Len(t) : i \in 1 .. Len(s) \/ \E j \in 1 .. Len(t) : i = Len(s) + j
  <2>1. ASSUME NEW i \in 1 .. Len(s) + Len(t), i \notin 1 .. Len(s)
        PROVE  i - Len(s) \in 1 .. Len(t) /\ i = Len(s) + (i - Len(s))
    BY <1>3, <2>1
  <2> QED BY <2>1
<1>7. /\ \A i \in 1 .. Len(s) : i \in 1 .. Len(s) + Len(t)
      /\ \A i \in 1 .. Len(t) : Len(s) + i \in 1 .. Len(s) + Len(t)
  BY <1>3
<1>8. \A i \in 1 .. Len(s) + Len(t) : (s \o t)[i] \in D \union E
  <2>1. \A i \in 1 .. Len(s) : (s \o t)[i] \in D
    BY <1>2, <1>4
  <2>2. \A j \in 1 .. Len(t) : (s \o t)[Len(s) + j] \in E
    BY <1>2, <1>5
  <2> HIDE DEF Lists
  <2> QED BY <1>6, <2>1, <2>2
<1>9. \A e \in D \union E : \E i \in 1 .. Len(s) + Len(t) : (s \o t)[i] = e
  BY <1>2, <1>4, <1>5, <1>7
<1>10. \A i, j \in 1 .. Len(s) + Len(t) : (s \o t)[i] = (s \o t)[j] => i = j
  <2> SUFFICES ASSUME NEW i \in 1 .. Len(s) + Len(t), NEW j \in 1 .. Len(s) + Len(t), (s \o t)[i] = (s \o t)[j]
               PROVE  i = j
    OBVIOUS
  <2>1. CASE i \in 1 .. Len(s) /\ j \in 1 .. Len(s)
    BY <1>2, <1>4, <2>1
  <2>2. CASE i \in 1 .. Len(s) /\ \E k \in 1 .. Len(t) : j = Len(s) + k
    <3>1. (s \o t)[i] \in D /\ (s \o t)[j] \in E
      BY <1>2, <1>4, <1>5, <2>2
    <3> QED BY <3>1
  <2>3. CASE j \in 1 .. Len(s) /\ \E k \in 1 .. Len(t) : i = Len(s) + k
    <3>1. (s \o t)[j] \in D /\ (s \o t)[i] \in E
      BY <1>2, <1>4, <1>5, <2>3
    <3> QED BY <3>1
  <2>4. CASE \E k, l \in 1 .. Len(t) : i = Len(s) + k /\ j = Len(s) + l
    <3>1. PICK k \in 1 .. Len(t), l \in 1 .. Len(t) : i = Len(s) + k /\ j = Len(s) + l
      BY <2>4
    <3>2. t[k] = t[l]
      BY <1>2, <3>1
    <3> QED BY <1>5, <3>1, <3>2
  <2> QED BY <1>6, <2>1, <2>2, <2>3, <2>4
<1> HIDE DEF Lists
<1> QED BY <1>2, <1>8, <1>9, <1>10 DEF Lists

\* A list is as long as its set is large.
LEMMA ListsCount ==
    ASSUME NEW s, NEW D, Lists(s, D)
    PROVE  IsFiniteSet(D) /\ Cardinality(D) = Len(s)
<1>1. Len(s) \in Nat /\ s \in [1 .. Len(s) -> D]
  BY DEF Lists
<1>2. s \in Bijection(1 .. Len(s), D)
  BY <1>1 DEF Lists, Bijection, Injection, Surjection, IsInjective
<1>3. ExistsBijection(1 .. Len(s), D)
  BY <1>2 DEF ExistsBijection
<1>4. IsFiniteSet(1 .. Len(s)) /\ Cardinality(1 .. Len(s)) = Len(s)
  BY <1>1, FS_Interval
<1> QED BY <1>3, <1>4, FS_Bijection

LEMMA ListsFront ==
    ASSUME NEW s, NEW D, Lists(s, D), s # <<>>
    PROVE  /\ Last(s) \in D /\ Last(s) \in Nat
           /\ Lists(Front(s), D \ {Last(s)})
<1>1. s \in Seq(Nat) /\ Len(s) \in Nat \ {0}
  BY DEF Lists
<1>2. /\ Front(s) \in Seq(Nat) /\ Len(Front(s)) = Len(s) - 1
      /\ \A i \in 1 .. Len(s) - 1 : Front(s)[i] = s[i]
  <2>1. Front(s) = SubSeq(s, 1, Len(s) - 1) /\ Len(s) - 1 \in 0 .. Len(s)
    BY <1>1 DEF Front
  <2>2. /\ SubSeq(s, 1, Len(s) - 1) \in Seq(Nat) /\ Len(SubSeq(s, 1, Len(s) - 1)) = Len(s) - 1
        /\ \A i \in 1 .. Len(s) - 1 : SubSeq(s, 1, Len(s) - 1)[i] = s[i]
    BY <1>1, <2>1, NatPrefix, Zenon
  <2> QED BY <2>1, <2>2, Zenon
<1>3. /\ \A i \in 1 .. Len(s) : s[i] \in D
      /\ \A e \in D : \E i \in 1 .. Len(s) : s[i] = e
      /\ \A i, j \in 1 .. Len(s) : s[i] = s[j] => i = j
  BY DEF Lists
<1>4. /\ Len(s) \in 1 .. Len(s) /\ \A i \in 1 .. Len(s) - 1 : i \in 1 .. Len(s) /\ i # Len(s)
      /\ \A i \in 1 .. Len(s) : i # Len(s) => i \in 1 .. Len(s) - 1
  BY <1>1
<1>5. Last(s) = s[Len(s)]
  BY DEF Last
<1>6. \A i \in 1 .. Len(s) - 1 : s[i] \in D \ {s[Len(s)]}
  BY <1>3, <1>4
<1>7. \A e \in D \ {s[Len(s)]} : \E i \in 1 .. Len(s) - 1 : s[i] = e
  BY <1>3, <1>4
<1>8. \A i, j \in 1 .. Len(s) - 1 : s[i] = s[j] => i = j
  BY <1>3, <1>4
<1>9. Last(s) \in D /\ Last(s) \in Nat
  BY <1>1, <1>3, <1>4, <1>5
<1>10. Lists(Front(s), D \ {s[Len(s)]})
  BY <1>2, <1>6, <1>7, <1>8 DEF Lists
<1> QED BY <1>5, <1>9, <1>10
-----------------------------------------------------------------------------
(* What a sweep works on.                                                  *)

Works == [headers : Seq(CellSet), slots : Seq(Nat), cursor : Nat, grown : Nat,
          bytes : Seq(Nat), byteCursor : Nat, origin : Nat, target : Nat, length : Nat,
          dead : Seq(Nat), deadAtoms : Seq(Nat)]

SameSlots(v, w) == v.slots = w.slots /\ v.cursor = w.cursor
SameBytes(v, w) ==
    v.bytes = w.bytes /\ v.byteCursor = w.byteCursor /\ v.origin = w.origin /\ v.target = w.target
        /\ v.length = w.length
SameDead(v, w) == v.dead = w.dead /\ v.deadAtoms = w.deadAtoms

\* Of the cells, one's start may differ.
StartOnly(v, w, h) ==
    /\ Len(v.headers) = Len(w.headers)
    /\ \A g \in 1 .. Len(w.headers) : g # h => v.headers[g] = w.headers[g]
    /\ v.headers[h].tag = w.headers[h].tag /\ v.headers[h].marked = w.headers[h].marked
    /\ v.headers[h].moved = w.headers[h].moved /\ v.headers[h].count = w.headers[h].count
    /\ v.headers[h].buffer = w.headers[h].buffer

LEMMA WorksFields ==
    ASSUME NEW w \in Works
    PROVE  /\ w.headers \in Seq(CellSet) /\ w.slots \in Seq(Nat) /\ w.bytes \in Seq(Nat)
           /\ w.dead \in Seq(Nat) /\ w.deadAtoms \in Seq(Nat)
           /\ w.cursor \in Nat /\ w.grown \in Nat /\ w.byteCursor \in Nat /\ w.origin \in Nat
           /\ w.target \in Nat /\ w.length \in Nat
           /\ Len(w.headers) \in Nat /\ Len(w.slots) \in Nat /\ Len(w.bytes) \in Nat
           /\ \A h \in 1 .. Len(w.headers) :
                  /\ w.headers[h] \in CellSet /\ w.headers[h].start \in Nat /\ w.headers[h].count \in Nat
                  /\ w.headers[h].marked \in BOOLEAN /\ w.headers[h].moved \in BOOLEAN
                  /\ w.headers[h].buffer \in Nat
                  /\ w.headers[h].tag \in {"free", "slots", "small", "large"}
<1>1. /\ w.headers \in Seq(CellSet) /\ w.slots \in Seq(Nat) /\ w.bytes \in Seq(Nat)
      /\ w.dead \in Seq(Nat) /\ w.deadAtoms \in Seq(Nat)
      /\ w.cursor \in Nat /\ w.grown \in Nat /\ w.byteCursor \in Nat /\ w.origin \in Nat
      /\ w.target \in Nat /\ w.length \in Nat
  BY DEF Works
<1>2. Len(w.headers) \in Nat /\ Len(w.slots) \in Nat /\ Len(w.bytes) \in Nat
  BY <1>1, SMTT(30)
<1>3. \A h \in 1 .. Len(w.headers) : w.headers[h] \in CellSet
  BY <1>1
<1>4. \A c \in CellSet : /\ c.start \in Nat /\ c.count \in Nat /\ c.marked \in BOOLEAN /\ c.moved \in BOOLEAN
                          /\ c.buffer \in Nat /\ c.tag \in {"free", "slots", "small", "large"}
  BY DEF CellSet
<1> QED BY <1>1, <1>2, <1>3, <1>4

\* A cell's start set.
LEMMA StartSet ==
    ASSUME NEW w \in Works, NEW h \in 1 .. Len(w.headers), NEW s \in Nat
    PROVE  LET hs == [w.headers EXCEPT ![h].start = s]
           IN  /\ hs \in Seq(CellSet) /\ Len(hs) = Len(w.headers)
               /\ \A g \in 1 .. Len(w.headers) : g # h => hs[g] = w.headers[g]
               /\ hs[h].start = s
               /\ hs[h].tag = w.headers[h].tag /\ hs[h].marked = w.headers[h].marked
               /\ hs[h].moved = w.headers[h].moved /\ hs[h].count = w.headers[h].count
               /\ hs[h].buffer = w.headers[h].buffer
<1> DEFINE hs == [w.headers EXCEPT ![h].start = s]
           c == [w.headers[h] EXCEPT !.start = s]
<1>1. w.headers \in Seq(CellSet) /\ w.headers[h] \in CellSet
  BY DEF Works
<1>2. /\ c \in CellSet /\ c.start = s /\ c.tag = w.headers[h].tag /\ c.marked = w.headers[h].marked
      /\ c.moved = w.headers[h].moved /\ c.count = w.headers[h].count /\ c.buffer = w.headers[h].buffer
  BY <1>1 DEF CellSet
<1>3. hs = [w.headers EXCEPT ![h] = c]
  OBVIOUS
<1> HIDE DEF c, hs
<1>4. /\ hs \in Seq(CellSet) /\ Len(hs) = Len(w.headers) /\ hs[h] = c
      /\ \A g \in 1 .. Len(w.headers) : g # h => hs[g] = w.headers[g]
  BY <1>1, <1>2, <1>3
<1> QED BY <1>2, <1>4 DEF hs

\* What SlideRange does.
RangeSlid(v, w, h) ==
    /\ v \in Works
    /\ StartOnly(v, w, h) /\ v.headers[h].start = w.cursor
    /\ v.cursor = w.cursor + w.headers[h].count
    /\ Len(v.slots) = Len(w.slots)
    /\ \A k \in 1 .. w.headers[h].count : v.slots[w.cursor + k] = w.slots[w.headers[h].start + k]
    /\ \A p \in 1 .. Len(w.slots) : p <= w.cursor \/ p > v.cursor => v.slots[p] = w.slots[p]
    /\ SameBytes(v, w) /\ SameDead(v, w) /\ v.grown = w.grown

LEMMA SlideRangeOf ==
    ASSUME NEW w \in Works, NEW h \in 1 .. Len(w.headers),
           w.cursor <= w.headers[h].start, w.headers[h].start + w.headers[h].count <= Len(w.slots)
    PROVE  RangeSlid(SlideRange(w, h), w, h)
<1> DEFINE c == w.headers[h]
           v == SlideRange(w, h)
           hs == [w.headers EXCEPT ![h].start = w.cursor]
           ss == SlidTo(w.slots, c.start, c.count, w.cursor)
<1>1. /\ w.slots \in Seq(Nat) /\ w.cursor \in Nat /\ c.start \in Nat /\ c.count \in Nat
      /\ w.cursor <= c.start /\ c.start + c.count <= Len(w.slots)
  BY WorksFields
<1>2. /\ ss \in Seq(Nat) /\ Len(ss) = Len(w.slots)
      /\ \A k \in 1 .. c.count : ss[w.cursor + k] = w.slots[c.start + k]
      /\ \A p \in 1 .. Len(w.slots) : p <= w.cursor \/ p > w.cursor + c.count => ss[p] = w.slots[p]
  <2> HIDE DEF c
  <2>1. MovedDown(ss, w.slots, c.start, c.count, w.cursor)
    BY <1>1, SlidToOf DEF ss
  <2> QED BY <2>1 DEF MovedDown
<1>3. /\ hs \in Seq(CellSet) /\ Len(hs) = Len(w.headers)
      /\ \A g \in 1 .. Len(w.headers) : g # h => hs[g] = w.headers[g]
      /\ hs[h].start = w.cursor
      /\ hs[h].tag = w.headers[h].tag /\ hs[h].marked = w.headers[h].marked
      /\ hs[h].moved = w.headers[h].moved /\ hs[h].count = w.headers[h].count
      /\ hs[h].buffer = w.headers[h].buffer
  BY <1>1, StartSet
<1>4. v = [w EXCEPT !.slots = ss, !.headers = hs, !.cursor = w.cursor + c.count]
  BY DEF SlideRange, Works
<1> HIDE DEF ss, hs, v, c
<1>5. /\ v \in Works /\ v.slots = ss /\ v.headers = hs /\ v.cursor = w.cursor + c.count
      /\ v.grown = w.grown /\ SameBytes(v, w) /\ SameDead(v, w)
  <2> DEFINE n == w.cursor + c.count
  <2>1. n \in Nat /\ ss \in Seq(Nat) /\ hs \in Seq(CellSet) /\ v = [w EXCEPT !.slots = ss, !.headers = hs, !.cursor = n]
    BY <1>1, <1>2, <1>3, <1>4
  <2> HIDE DEF n
  <2>2. v \in Works
    BY <2>1 DEF Works
  <2>3. /\ v.slots = ss /\ v.headers = hs /\ v.cursor = n /\ v.grown = w.grown
        /\ v.bytes = w.bytes /\ v.byteCursor = w.byteCursor /\ v.origin = w.origin /\ v.target = w.target
        /\ v.length = w.length /\ v.dead = w.dead /\ v.deadAtoms = w.deadAtoms
    BY <2>1 DEF Works
  <2> QED BY <2>2, <2>3 DEF SameBytes, SameDead, n
<1> QED BY <1>2, <1>3, <1>5 DEF RangeSlid, StartOnly, v, c
-----------------------------------------------------------------------------
(* The slots' slide.                                                       *)

EndIn(w, h) == w.headers[h].start + w.headers[h].count
ApartIn(w, g, h) == EndIn(w, g) <= w.headers[h].start \/ EndIn(w, h) <= w.headers[g].start

\* Of the cells that survive, some have their slots at the cursor or below,
\* as they were written and apart, and the others have them where they were.
SlotsSlid(w, P, S) ==
    /\ S \subseteq P /\ Len(w.headers) = extent
    /\ Len(w.slots) = Len(slots) /\ w.cursor <= Len(slots)
    /\ \A p \in w.cursor + 1 .. Len(slots) : w.slots[p] = slots[p]
    /\ \A h \in P : w.headers[h].count = headers[h].count
    /\ \A h \in P \ S : w.headers[h].start = headers[h].start /\ w.cursor <= headers[h].start
    /\ \A h \in S : /\ EndIn(w, h) <= w.cursor
                    /\ \A k \in 1 .. headers[h].count : w.slots[w.headers[h].start + k] = Written(h, k)
    /\ \A g, h \in S : g # h => ApartIn(w, g, h)

\* What the slide of slots does not look at.
LEMMA SlotsSlidElsewhere ==
    ASSUME NEW w, NEW v, SameSlots(v, w), Len(v.headers) = Len(w.headers), NEW P, NEW S, SlotsSlid(w, P, S),
           \A h \in P : v.headers[h].start = w.headers[h].start /\ v.headers[h].count = w.headers[h].count
    PROVE  SlotsSlid(v, P, S)
<1>1. v.slots = w.slots /\ v.cursor = w.cursor /\ \A h \in P : EndIn(v, h) = EndIn(w, h)
  BY DEF SameSlots, EndIn
<1>2. S \subseteq P
  BY DEF SlotsSlid
<1>3. \A g, h \in P : ApartIn(v, g, h) <=> ApartIn(w, g, h)
  BY <1>1 DEF ApartIn
<1> QED BY <1>1, <1>2, <1>3 DEF SlotsSlid

\* The lowest of the remaining ranges goes next.
LEMMA SlotsSlideOn ==
    ASSUME TypeOK, SlotsPlaced, NEW w \in Works, NEW P \in SUBSET Tagged("slots"), NEW S, SlotsSlid(w, P, S),
           NEW h \in P \ S, \A g \in P \ S : headers[h].start <= headers[g].start
    PROVE  SlotsSlid(SlideRange(w, h), P, S \union {h}) /\ RangeSlid(SlideRange(w, h), w, h)
<1> DEFINE v == SlideRange(w, h)
           n == headers[h].count
<1>1. /\ extent \in Nat /\ P \subseteq 1 .. extent /\ P \subseteq Tagged("slots") /\ S \subseteq P /\ h \in 1 .. extent
      /\ Len(slots) \in Nat
      /\ \A g \in 1 .. extent : headers[g].start \in Nat /\ headers[g].count \in Nat
  <2>1. extent \in Nat /\ P \subseteq 1 .. extent /\ S \subseteq P /\ Len(slots) \in Nat
    BY DEF TypeOK, Tagged, Handle, SlotsSlid
  <2>2. \A g \in 1 .. extent : headers[g] \in CellSet
    BY DEF TypeOK
  <2>3. \A c \in CellSet : c.start \in Nat /\ c.count \in Nat
    BY DEF CellSet
  <2> QED BY <2>1, <2>2, <2>3
<1>2. /\ w.cursor \in Nat /\ Len(w.headers) = extent /\ Len(w.slots) = Len(slots) /\ w.cursor <= Len(slots)
      /\ \A p \in w.cursor + 1 .. Len(slots) : w.slots[p] = slots[p]
      /\ \A g \in P : w.headers[g].count = headers[g].count /\ w.headers[g].start \in Nat
      /\ \A g \in P \ S : w.headers[g].start = headers[g].start /\ w.cursor <= headers[g].start
  BY <1>1, WorksFields DEF SlotsSlid
<1>3. /\ \A g \in S : EndIn(w, g) <= w.cursor
      /\ \A g \in S : \A k \in 1 .. headers[g].count : w.slots[w.headers[g].start + k] = Written(g, k)
      /\ \A g, e \in S : g # e => ApartIn(w, g, e)
  BY DEF SlotsSlid
<1>4. /\ w.headers[h].start = headers[h].start /\ w.headers[h].count = n /\ n \in Nat /\ n >= 1
      /\ headers[h].start \in Nat /\ headers[h].start + n <= Len(slots) /\ w.cursor <= headers[h].start
      /\ \A k \in 1 .. n : slots[headers[h].start + k] = Written(h, k)
  BY <1>1, <1>2 DEF SlotsPlaced, End
<1>5. RangeSlid(v, w, h)
  BY <1>1, <1>2, <1>4, SlideRangeOf
<1> HIDE DEF v
<1>6. /\ v.cursor = w.cursor + n /\ v.headers[h].start = w.cursor /\ v.headers[h].count = n
      /\ Len(v.headers) = extent /\ Len(v.slots) = Len(slots)
      /\ \A g \in 1 .. extent : g # h => v.headers[g] = w.headers[g]
      /\ \A k \in 1 .. n : v.slots[w.cursor + k] = w.slots[headers[h].start + k]
      /\ \A p \in 1 .. Len(slots) : p <= w.cursor \/ p > w.cursor + n => v.slots[p] = w.slots[p]
  BY <1>2, <1>4, <1>5 DEF RangeSlid, StartOnly
<1> HIDE DEF n
<1>7. \A g \in P : v.headers[g].count = headers[g].count
  BY <1>1, <1>2, <1>4, <1>6 DEF n
<1>8. v.cursor <= Len(slots) /\ \A p \in v.cursor + 1 .. Len(slots) : v.slots[p] = slots[p]
  <2>1. v.cursor <= Len(slots) /\ v.cursor \in Nat /\ v.cursor >= w.cursor
    <3>1. v.cursor = w.cursor + n /\ w.cursor \in Nat /\ n \in Nat /\ Len(slots) \in Nat
          /\ w.cursor + n <= headers[h].start + n
      BY <1>1, <1>2, <1>4, <1>6
    <3> QED BY <1>4, <3>1
  <2>2. \A p \in v.cursor + 1 .. Len(slots) : p \in w.cursor + 1 .. Len(slots) /\ p \in 1 .. Len(slots) /\ p > w.cursor + n
    BY <1>1, <1>2, <1>4, <1>6, <2>1
  <2>3. \A p \in v.cursor + 1 .. Len(slots) : v.slots[p] = slots[p]
    BY <1>2, <1>6, <2>2, Zenon
  <2> QED BY <2>1, <2>3
<1>9. ASSUME NEW g \in P \ (S \union {h}) PROVE v.headers[g].start = headers[g].start /\ v.cursor <= headers[g].start
  <2>1. g \in P \ S /\ g # h /\ g \in 1 .. extent /\ g \in Tagged("slots") /\ h \in Tagged("slots")
    BY <1>1
  <2>2. headers[g].count >= 1 /\ Apart(h, g)
    BY <2>1 DEF SlotsPlaced
  <2>3. headers[h].start + n <= headers[g].start
    BY <1>1, <1>4, <2>1, <2>2 DEF Apart, End, n
  <2>4. v.headers[g] = w.headers[g] /\ w.headers[g].start = headers[g].start /\ headers[g].start \in Nat
    BY <1>1, <1>2, <1>6, <2>1
  <2>5. w.cursor + n <= headers[g].start
    BY <1>2, <1>4, <2>3, <2>4
  <2> QED BY <1>6, <2>4, <2>5
<1>10. \A g \in S : g # h /\ v.headers[g] = w.headers[g] /\ EndIn(v, g) = EndIn(w, g) /\ EndIn(v, g) <= w.cursor
  BY <1>1, <1>3, <1>6 DEF EndIn
<1>11. EndIn(v, h) = v.cursor
  BY <1>6 DEF EndIn
<1>12. ASSUME NEW g \in S \union {h}
       PROVE  /\ EndIn(v, g) <= v.cursor
              /\ \A k \in 1 .. headers[g].count : v.slots[v.headers[g].start + k] = Written(g, k)
  <2>1. CASE g = h
    <3>1. \A k \in 1 .. n : v.slots[w.cursor + k] = Written(h, k)
      <4>1. \A k \in 1 .. n : headers[h].start + k \in w.cursor + 1 .. Len(slots)
        BY <1>2, <1>4, SMTT(30)
      <4> QED BY <1>2, <1>4, <1>6, <4>1, Zenon
    <3>2. v.cursor <= v.cursor
      BY <1>2, <1>4, <1>6
    <3> QED BY <1>6, <1>11, <2>1, <3>1, <3>2 DEF n
  <2>2. CASE g \in S
    <3>3. /\ g \in P /\ w.headers[g].count = headers[g].count /\ w.headers[g].start \in Nat /\ headers[g].count \in Nat
          /\ EndIn(w, g) = w.headers[g].start + headers[g].count /\ EndIn(w, g) <= w.cursor /\ EndIn(v, g) = EndIn(w, g)
      BY <1>1, <1>2, <1>3, <1>10, <2>2 DEF EndIn
    <3>1. \A k \in 1 .. headers[g].count : /\ w.headers[g].start + k \in 1 .. Len(slots)
                                            /\ w.headers[g].start + k <= w.cursor
      BY <1>1, <1>2, <3>3, SMTT(30)
    <3>2. EndIn(v, g) <= v.cursor
      BY <1>2, <1>4, <1>6, <3>3
    <3> QED BY <1>3, <1>6, <1>10, <2>2, <3>1, <3>2, SMTT(30)
  <2> QED BY <2>1, <2>2
<1>13. \A g, e \in S \union {h} : g # e => ApartIn(v, g, e)
  <2>1. \A g, e \in S : g # e => ApartIn(v, g, e)
    BY <1>3, <1>10 DEF ApartIn
  <2>2. \A g \in S : ApartIn(v, g, h) /\ ApartIn(v, h, g)
    BY <1>6, <1>10 DEF ApartIn
  <2> QED BY <2>1, <2>2
<1>14. S \union {h} \subseteq P
  BY <1>1
<1>15. SlotsSlid(v, P, S \union {h})
  BY <1>6, <1>7, <1>8, <1>9, <1>12, <1>13, <1>14 DEF SlotsSlid
<1> QED BY <1>5, <1>15 DEF v
-----------------------------------------------------------------------------
(* The bytes' slide.                                                       *)

\* Of the small strings that survive, some have been placed.  Below low,
\* strings stay where they are; those above that remain are at the cursor
\* or after it, or extend the run that is being placed.
BytesRest(w, Q, T, low) ==
    /\ T \subseteq Q /\ Len(w.headers) = extent
    /\ Len(w.bytes) = Len(bytes) /\ w.byteCursor <= Len(bytes)
    /\ \A p \in w.byteCursor + 1 .. Len(bytes) : w.bytes[p] = bytes[p]
    /\ \A h \in Q : w.headers[h].count = headers[h].count
    /\ \A h \in Q \ T : w.headers[h].start = headers[h].start
    /\ \A h \in Q \ T : NonEmpty(h) => \/ headers[h].start < low
                                       \/ w.byteCursor <= headers[h].start
                                       \/ headers[h].start = w.origin /\ w.length > 0

BytesDone(w, T) ==
    /\ \A h \in T : EndIn(w, h) <= w.byteCursor
    /\ \A h \in T : \A k \in 1 .. headers[h].count : w.bytes[w.headers[h].start + k] = bytes[headers[h].start + k]
    /\ \A g, h \in T : NonEmpty(g) /\ NonEmpty(h) => w.headers[g].start = w.headers[h].start \/ ApartIn(w, g, h)

\* The run's bytes are at its target, and what was placed before is below.
BytesRun(w, T, low) ==
    w.length > 0 /\ w.origin >= low =>
        /\ w.target <= w.origin /\ w.target + w.length = w.byteCursor /\ w.origin + w.length <= Len(bytes)
        /\ \A k \in 1 .. w.length : w.bytes[w.target + k] = bytes[w.origin + k]
        /\ \A g \in T : NonEmpty(g) => w.headers[g].start = w.target \/ EndIn(w, g) <= w.target

\* Nothing moves before all that stays has been seen.
BytesLow(w, Q, T, low) ==
    (\E h \in Q \ T : NonEmpty(h) /\ headers[h].start < low) =>
        /\ w.bytes = bytes /\ \A g \in T : NonEmpty(g) => w.headers[g].start = headers[g].start
        /\ w.length > 0 => w.origin < low

BytesSlid(w, Q, T, low) ==
    BytesRest(w, Q, T, low) /\ BytesDone(w, T) /\ BytesRun(w, T, low) /\ BytesLow(w, Q, T, low)

\* What the slide of bytes does not look at.
LEMMA BytesSlidElsewhere ==
    ASSUME NEW w, NEW v, SameBytes(v, w), Len(v.headers) = Len(w.headers), NEW Q, NEW T, NEW low,
           BytesSlid(w, Q, T, low),
           \A h \in Q : v.headers[h].start = w.headers[h].start /\ v.headers[h].count = w.headers[h].count
    PROVE  BytesSlid(v, Q, T, low)
<1>1. /\ v.bytes = w.bytes /\ v.byteCursor = w.byteCursor /\ v.origin = w.origin /\ v.target = w.target
      /\ v.length = w.length /\ \A h \in Q : EndIn(v, h) = EndIn(w, h)
  BY DEF SameBytes, EndIn
<1>2. T \subseteq Q
  BY DEF BytesSlid, BytesRest
<1>3. \A g, h \in Q : ApartIn(v, g, h) <=> ApartIn(w, g, h)
  BY <1>1 DEF ApartIn
<1>4. BytesRest(v, Q, T, low)
  BY <1>1, <1>2 DEF BytesSlid, BytesRest
<1>5. BytesDone(v, T)
  BY <1>1, <1>2, <1>3 DEF BytesSlid, BytesDone
<1>6. BytesRun(v, T, low)
  BY <1>1, <1>2 DEF BytesSlid, BytesRun
<1>7. BytesLow(v, Q, T, low)
  BY <1>1, <1>2 DEF BytesSlid, BytesLow
<1> QED BY <1>4, <1>5, <1>6, <1>7 DEF BytesSlid

\* What SlideRun does: what it had copied before, where to and how much.
Copied(w, h) == IF InRun(w, w.headers[h]) THEN w.length ELSE 0
Target(w, h) == IF InRun(w, w.headers[h]) THEN w.target ELSE w.byteCursor
Length(w, h) == IF w.headers[h].count > Copied(w, h) THEN w.headers[h].count ELSE Copied(w, h)

RunSlid(v, w, h) ==
    /\ v \in Works
    /\ StartOnly(v, w, h) /\ v.headers[h].start = Target(w, h)
    /\ v.origin = w.headers[h].start /\ v.target = Target(w, h) /\ v.length = Length(w, h)
    /\ v.byteCursor = IF Target(w, h) + Length(w, h) > w.byteCursor THEN Target(w, h) + Length(w, h)
                      ELSE w.byteCursor
    /\ MovedDown(v.bytes, w.bytes, w.headers[h].start + Copied(w, h), Length(w, h) - Copied(w, h),
                 Target(w, h) + Copied(w, h))
    /\ SameSlots(v, w) /\ SameDead(v, w) /\ v.grown = w.grown

LEMMA SlideRunOf ==
    ASSUME NEW w \in Works, NEW h \in 1 .. Len(w.headers),
           Target(w, h) <= w.headers[h].start, w.headers[h].start + Length(w, h) <= Len(w.bytes)
    PROVE  RunSlid(SlideRun(w, h), w, h)
<1> DEFINE c == w.headers[h]
           v == SlideRun(w, h)
           copied == Copied(w, h)
           target == Target(w, h)
           length == Length(w, h)
           hs == [w.headers EXCEPT ![h].start = target]
           bs == SlidTo(w.bytes, c.start + copied, length - copied, target + copied)
           m == c.start + copied
           n == length - copied
           k == target + copied
           top == IF target + length > w.byteCursor THEN target + length ELSE w.byteCursor
<1>1. /\ w.bytes \in Seq(Nat) /\ w.byteCursor \in Nat /\ c.start \in Nat /\ c.count \in Nat
      /\ w.target \in Nat /\ w.length \in Nat /\ w.origin \in Nat
  BY WorksFields
<1>2. copied \in Nat /\ target \in Nat /\ length \in Nat /\ copied <= length
  BY <1>1 DEF Copied, Target, Length
<1>3. /\ m \in Nat /\ n \in Nat /\ k \in Nat /\ top \in Nat /\ k <= m /\ m + n <= Len(w.bytes)
  <2>1. Len(w.bytes) \in Nat /\ target <= c.start /\ c.start + length <= Len(w.bytes)
    BY <1>1
  <2> HIDE DEF copied, target, length, c
  <2>2. top \in Nat
    BY <1>1, <1>2
  <2>3. m \in Nat /\ n \in Nat /\ k \in Nat
    BY <1>1, <1>2
  <2>4. k <= m /\ m + n <= Len(w.bytes)
    BY <1>1, <1>2, <2>1
  <2> QED BY <2>2, <2>3, <2>4
<1>4. MovedDown(bs, w.bytes, m, n, k)
  <2>1. bs = SlidTo(w.bytes, m, n, k)
    OBVIOUS
  <2> HIDE DEF bs, m, n, k
  <2> QED BY <1>1, <1>3, <2>1, SlidToOf
<1>5. bs \in Seq(Nat)
  BY <1>4 DEF MovedDown
<1>6. /\ hs \in Seq(CellSet) /\ Len(hs) = Len(w.headers)
      /\ \A g \in 1 .. Len(w.headers) : g # h => hs[g] = w.headers[g]
      /\ hs[h].start = target
      /\ hs[h].tag = w.headers[h].tag /\ hs[h].marked = w.headers[h].marked
      /\ hs[h].moved = w.headers[h].moved /\ hs[h].count = w.headers[h].count
      /\ hs[h].buffer = w.headers[h].buffer
  <2> HIDE DEF target
  <2> QED BY <1>2, StartSet
<1>7. v = [w EXCEPT !.bytes = bs, !.origin = c.start, !.target = target, !.length = length,
                    !.byteCursor = top, !.headers = hs]
  BY DEF SlideRun, Works, Copied, Target, Length
<1> HIDE DEF bs, hs, v, c, top, copied, target, length
<1>8. /\ v \in Works
  BY <1>1, <1>2, <1>3, <1>5, <1>6, <1>7 DEF Works
<1>9. /\ v.bytes = bs /\ v.origin = c.start /\ v.target = target /\ v.length = length
      /\ v.byteCursor = top /\ v.headers = hs /\ v.slots = w.slots /\ v.cursor = w.cursor /\ v.grown = w.grown
      /\ v.dead = w.dead /\ v.deadAtoms = w.deadAtoms
  BY <1>7 DEF Works
<1>10. StartOnly(v, w, h) /\ v.headers[h].start = target
  BY <1>6, <1>9 DEF StartOnly
<1> QED BY <1>4, <1>8, <1>9, <1>10 DEF RunSlid, SameSlots, SameDead, v, c, copied, target, length, top

\* What of the state the slides of bytes use.
BytesFacts(Q) ==
    /\ extent \in Nat /\ Q \subseteq 1 .. extent /\ Len(bytes) \in Nat
    /\ \A h \in Q : /\ headers[h].start \in Nat /\ headers[h].count \in Nat
                    /\ headers[h].start + headers[h].count <= Len(bytes)
                    /\ NonEmpty(h) <=> headers[h].count > 0
    /\ \A g, h \in Q : NonEmpty(g) /\ NonEmpty(h) => headers[g].start = headers[h].start \/ Apart(g, h)

LEMMA BytesKnown ==
    ASSUME TypeOK, BytesPlaced, NEW Q \in SUBSET Tagged("small")
    PROVE  BytesFacts(Q)
<1>1. extent \in Nat /\ Q \subseteq 1 .. extent /\ Len(bytes) \in Nat
  BY DEF TypeOK, Tagged, Handle
<1>2. \A h \in 1 .. extent : headers[h] \in CellSet
  BY DEF TypeOK
<1>3. \A c \in CellSet : c.start \in Nat /\ c.count \in Nat
  BY DEF CellSet
<1>4. \A h \in Q : End(h) <= Len(bytes) /\ h \in Handle /\ headers[h].tag = "small"
  BY DEF BytesPlaced, Tagged
<1>5. \A g, h \in Q : NonEmpty(g) /\ NonEmpty(h) => headers[g].start = headers[h].start \/ Apart(g, h)
  BY <1>4 DEF BytesPlaced
<1>6. \A h \in Q : /\ headers[h].start \in Nat /\ headers[h].count \in Nat
                   /\ headers[h].start + headers[h].count <= Len(bytes)
                   /\ NonEmpty(h) <=> headers[h].count > 0
  BY <1>1, <1>2, <1>3, <1>4 DEF End, NonEmpty
<1> QED BY <1>1, <1>5, <1>6 DEF BytesFacts

LEMMA BytesWork ==
    ASSUME NEW w \in Works, NEW Q, BytesFacts(Q), NEW T, NEW low, BytesSlid(w, Q, T, low)
    PROVE  /\ w.byteCursor \in Nat /\ w.origin \in Nat /\ w.target \in Nat /\ w.length \in Nat
           /\ T \subseteq Q /\ Len(w.headers) = extent /\ Len(w.bytes) = Len(bytes) /\ w.byteCursor <= Len(bytes)
           /\ \A g \in Q : g \in 1 .. extent /\ w.headers[g].count = headers[g].count /\ w.headers[g].start \in Nat
                           /\ EndIn(w, g) \in Nat /\ EndIn(w, g) = w.headers[g].start + headers[g].count
           /\ \A g \in Q \ T : w.headers[g].start = headers[g].start
<1>1. /\ w.byteCursor \in Nat /\ w.origin \in Nat /\ w.target \in Nat /\ w.length \in Nat
      /\ \A g \in 1 .. Len(w.headers) : w.headers[g].start \in Nat
  BY WorksFields
<1>2. /\ T \subseteq Q /\ Len(w.headers) = extent /\ Len(w.bytes) = Len(bytes) /\ w.byteCursor <= Len(bytes)
      /\ \A g \in Q : w.headers[g].count = headers[g].count
      /\ \A g \in Q \ T : w.headers[g].start = headers[g].start
  BY DEF BytesSlid, BytesRest
<1>3. \A g \in Q : g \in 1 .. extent /\ headers[g].count \in Nat
  <2>1. Q \subseteq 1 .. extent /\ \A g \in Q : headers[g].count \in Nat
    BY DEF BytesFacts
  <2> QED BY <2>1, Zenon
<1> QED BY <1>1, <1>2, <1>3 DEF EndIn

\* An empty string goes anywhere up to the cursor.
LEMMA BytesEmptyOn ==
    ASSUME NEW w \in Works, NEW Q, BytesFacts(Q), NEW T, NEW low, BytesSlid(w, Q, T, low),
           NEW h \in Q, ~NonEmpty(h), NEW v, SameBytes(v, w), StartOnly(v, w, h),
           v.headers[h].start \in Nat, v.headers[h].start <= w.byteCursor
    PROVE  BytesSlid(v, Q, T \union {h}, low)
<1>1. /\ v.bytes = w.bytes /\ v.byteCursor = w.byteCursor /\ v.origin = w.origin /\ v.target = w.target
      /\ v.length = w.length
  BY DEF SameBytes
<1>2. T \subseteq Q /\ Len(w.headers) = extent /\ Q \subseteq 1 .. extent
  BY BytesWork DEF BytesFacts
<1>3. /\ Len(v.headers) = Len(w.headers) /\ v.headers[h].count = w.headers[h].count
      /\ \A g \in Q : g # h => v.headers[g] = w.headers[g]
  BY <1>2 DEF StartOnly
<1>4. headers[h].count = 0 /\ w.headers[h].count = 0
  <2>1. headers[h].count \in Nat /\ ~ (headers[h].count > 0)
    BY DEF BytesFacts
  <2>2. w.headers[h].count = headers[h].count
    BY BytesWork
  <2> QED BY <2>1, <2>2
<1>5. BytesRest(v, Q, T \union {h}, low)
  BY <1>1, <1>2, <1>3 DEF BytesSlid, BytesRest
<1>6. \A g \in T : NonEmpty(g) => g # h /\ v.headers[g] = w.headers[g] /\ EndIn(v, g) = EndIn(w, g)
  BY <1>2, <1>3 DEF EndIn
<1>7. BytesDone(v, T \union {h})
  <2>1. ASSUME NEW g \in T \union {h} PROVE EndIn(v, g) <= v.byteCursor
    <3>1. CASE g = h
      BY <1>1, <1>3, <1>4, <3>1, BytesWork DEF EndIn
    <3>2. CASE g # h
      BY <1>1, <1>2, <1>3, <3>2 DEF BytesSlid, BytesDone, EndIn
    <3> QED BY <3>1, <3>2
  <2>2. ASSUME NEW g \in T \union {h}
        PROVE  \A k \in 1 .. headers[g].count : v.bytes[v.headers[g].start + k] = bytes[headers[g].start + k]
    <3>1. CASE g = h
      BY <1>4, <3>1
    <3>2. CASE g # h
      BY <1>1, <1>2, <1>3, <3>2 DEF BytesSlid, BytesDone
    <3> QED BY <3>1, <3>2
  <2>3. \A g, e \in T : NonEmpty(g) /\ NonEmpty(e) => v.headers[g].start = v.headers[e].start \/ ApartIn(v, g, e)
    BY <1>6 DEF BytesSlid, BytesDone, ApartIn
  <2> QED BY <2>1, <2>2, <2>3 DEF BytesDone
<1>8. BytesRun(v, T \union {h}, low)
  BY <1>1, <1>6 DEF BytesSlid, BytesRun
<1>9. BytesLow(v, Q, T \union {h}, low)
  BY <1>1, <1>6 DEF BytesSlid, BytesLow
<1> QED BY <1>5, <1>7, <1>8, <1>9 DEF BytesSlid

\* What KeepRun does.
RunKept(v, w, h) ==
    /\ v \in Works /\ v.headers = w.headers /\ v.bytes = w.bytes
    /\ v.origin = w.headers[h].start
    /\ v.byteCursor = IF w.headers[h].start + w.headers[h].count > w.byteCursor
                      THEN w.headers[h].start + w.headers[h].count ELSE w.byteCursor
    /\ SameSlots(v, w) /\ SameDead(v, w) /\ v.grown = w.grown

LEMMA KeepRunOf ==
    ASSUME NEW w \in Works, NEW h \in 1 .. Len(w.headers)
    PROVE  RunKept(KeepRun(w, h), w, h)
<1> DEFINE c == w.headers[h]
           v == KeepRun(w, h)
           before == IF c.start = w.origin /\ w.target = c.start THEN w.length ELSE 0
           length == IF c.count > before THEN c.count ELSE before
           top == IF c.start + c.count > w.byteCursor THEN c.start + c.count ELSE w.byteCursor
<1>1. c.start \in Nat /\ c.count \in Nat /\ w.byteCursor \in Nat /\ w.length \in Nat
  BY WorksFields
<1>2. length \in Nat /\ top \in Nat
  BY <1>1
<1>3. v = [w EXCEPT !.origin = c.start, !.target = c.start, !.length = length, !.byteCursor = top]
  BY DEF KeepRun, Works
<1> HIDE DEF c, v, before, length, top
<1>4. v \in Works
  BY <1>1, <1>2, <1>3 DEF Works
<1>5. /\ v.headers = w.headers /\ v.bytes = w.bytes /\ v.origin = c.start /\ v.byteCursor = top
      /\ v.slots = w.slots /\ v.cursor = w.cursor /\ v.grown = w.grown
      /\ v.dead = w.dead /\ v.deadAtoms = w.deadAtoms
  BY <1>3 DEF Works
<1> QED BY <1>4, <1>5 DEF RunKept, SameSlots, SameDead, c, top, v

\* The lowest of the remaining strings, below what is slid, is left there.
LEMMA BytesKeepOn ==
    ASSUME NEW w \in Works, NEW Q, BytesFacts(Q), NEW T, NEW low \in Nat, BytesSlid(w, Q, T, low),
           NEW h \in Q \ T, NonEmpty(h), headers[h].start < low,
           \A g \in Q \ T : NonEmpty(g) => headers[h].start <= headers[g].start
    PROVE  BytesSlid(KeepRun(w, h), Q, T \union {h}, low) /\ RunKept(KeepRun(w, h), w, h)
<1> DEFINE v == KeepRun(w, h)
           n == headers[h].count
           s == headers[h].start
<1>1. /\ w.byteCursor \in Nat /\ T \subseteq Q /\ Len(w.headers) = extent /\ Len(w.bytes) = Len(bytes)
      /\ w.byteCursor <= Len(bytes)
      /\ \A g \in Q : g \in 1 .. extent /\ w.headers[g].count = headers[g].count /\ w.headers[g].start \in Nat
                      /\ EndIn(w, g) \in Nat /\ EndIn(w, g) = w.headers[g].start + headers[g].count
      /\ \A g \in Q \ T : w.headers[g].start = headers[g].start
  BY BytesWork
<1>2. /\ Len(bytes) \in Nat
      /\ \A g \in Q : /\ headers[g].start \in Nat /\ headers[g].count \in Nat
                      /\ headers[g].start + headers[g].count <= Len(bytes)
                      /\ NonEmpty(g) <=> headers[g].count > 0
      /\ \A g, e \in Q : NonEmpty(g) /\ NonEmpty(e) => headers[g].start = headers[e].start \/ Apart(g, e)
  BY DEF BytesFacts
<1>3. RunKept(v, w, h)
  BY <1>1, KeepRunOf
<1> HIDE DEF v
<1>4. /\ w.bytes = bytes /\ \A g \in T : NonEmpty(g) => w.headers[g].start = headers[g].start
      /\ w.length > 0 => w.origin < low
  BY DEF BytesSlid, BytesLow
<1>5. /\ h \in Q /\ h \in 1 .. extent /\ s \in Nat /\ n \in Nat /\ n > 0 /\ s + n <= Len(bytes)
      /\ w.headers[h].start = s /\ w.headers[h].count = n
  BY <1>1, <1>2
<1>6. /\ v.headers = w.headers /\ v.bytes = bytes /\ v.origin = s /\ v.byteCursor \in Nat
      /\ w.byteCursor <= v.byteCursor /\ s + n <= v.byteCursor
      /\ v.byteCursor = w.byteCursor \/ v.byteCursor = s + n
  BY <1>1, <1>3, <1>4, <1>5 DEF RunKept
<1>7. v.byteCursor <= Len(bytes)
  BY <1>1, <1>5, <1>6
<1>8. \A g \in Q : EndIn(v, g) = EndIn(w, g) /\ v.headers[g] = w.headers[g]
  BY <1>6 DEF EndIn
<1> HIDE DEF n, s
<1>9. BytesRest(v, Q, T \union {h}, low)
  <2>1. ASSUME NEW g \in Q \ (T \union {h}), NonEmpty(g), ~ (headers[g].start < low)
        PROVE  v.byteCursor <= headers[g].start
    <3>1. s <= headers[g].start /\ headers[g].start \in Nat /\ s < low
      BY <1>2, <2>1 DEF s
    <3>2. w.byteCursor <= headers[g].start
      BY <1>4, <2>1, <3>1 DEF BytesSlid, BytesRest
    <3>3. Apart(h, g)
      BY <1>2, <1>5, <2>1, <3>1 DEF s
    <3>4. headers[g].count \in Nat /\ headers[g].count > 0
      BY <1>2, <2>1
    <3>5. s + n <= headers[g].start
      BY <1>5, <3>1, <3>3, <3>4 DEF Apart, End, s, n
    <3> QED BY <1>6, <3>2, <3>5
  <2>2. /\ T \union {h} \subseteq Q /\ Len(v.headers) = extent /\ Len(v.bytes) = Len(bytes)
        /\ \A p \in v.byteCursor + 1 .. Len(bytes) : v.bytes[p] = bytes[p]
        /\ \A g \in Q : v.headers[g].count = headers[g].count
        /\ \A g \in Q \ (T \union {h}) : v.headers[g].start = headers[g].start
    BY <1>1, <1>5, <1>6
  <2> QED BY <1>7, <2>1, <2>2 DEF BytesRest
<1>10. \A g \in T \union {h} : NonEmpty(g) => v.headers[g].start = headers[g].start
  BY <1>4, <1>5, <1>6 DEF s
<1>11. BytesDone(v, T \union {h})
  <2>1. \A g \in T : EndIn(w, g) <= w.byteCursor
    BY DEF BytesSlid, BytesDone
  <2>2. ASSUME NEW g \in T \union {h} PROVE EndIn(v, g) <= v.byteCursor
    <3>1. CASE g \in T
      BY <1>1, <1>6, <1>8, <2>1, <3>1
    <3>2. CASE g = h
      BY <1>1, <1>5, <1>6, <1>8, <3>2 DEF n, s
    <3> QED BY <3>1, <3>2
  <2>3. \A g \in T \union {h} : \A k \in 1 .. headers[g].count : v.bytes[v.headers[g].start + k] = bytes[headers[g].start + k]
    <3> SUFFICES ASSUME NEW g \in T \union {h}, NEW k \in 1 .. headers[g].count
                 PROVE  v.bytes[v.headers[g].start + k] = bytes[headers[g].start + k]
      OBVIOUS
    <3>1. g \in Q /\ headers[g].count > 0
      BY <1>1, <1>2
    <3>2. NonEmpty(g)
      BY <1>2, <3>1
    <3> QED BY <1>6, <1>10, <3>2
  <2>4. \A g, e \in T \union {h} : NonEmpty(g) /\ NonEmpty(e) =>
             v.headers[g].start = v.headers[e].start \/ ApartIn(v, g, e)
    <3> SUFFICES ASSUME NEW g \in T \union {h}, NEW e \in T \union {h}, NonEmpty(g), NonEmpty(e)
                 PROVE  v.headers[g].start = v.headers[e].start \/ ApartIn(v, g, e)
      OBVIOUS
    <3>1. g \in Q /\ e \in Q
      BY <1>1
    <3>2. headers[g].start = headers[e].start \/ Apart(g, e)
      BY <1>2, <3>1
    <3>3. EndIn(v, g) = End(g) /\ EndIn(v, e) = End(e)
      BY <1>1, <1>6, <1>8, <1>10, <3>1 DEF End
    <3> QED BY <1>10, <3>2, <3>3 DEF ApartIn, Apart
  <2> QED BY <2>2, <2>3, <2>4 DEF BytesDone
<1>12. BytesRun(v, T \union {h}, low)
  BY <1>5, <1>6 DEF BytesRun, s
<1>13. BytesLow(v, Q, T \union {h}, low)
  BY <1>6, <1>10 DEF BytesLow, s
<1>14. BytesSlid(v, Q, T \union {h}, low)
  BY <1>9, <1>11, <1>12, <1>13 DEF BytesSlid
<1> QED BY <1>3, <1>14 DEF v

\* The lowest of the remaining strings goes next, to the cursor or to the
\* run it extends.
LEMMA BytesSlideOn ==
    ASSUME NEW w \in Works, NEW Q, BytesFacts(Q), NEW T, NEW low \in Nat, BytesSlid(w, Q, T, low),
           NEW h \in Q \ T, NonEmpty(h), low <= headers[h].start,
           \A g \in Q \ T : NonEmpty(g) => headers[h].start <= headers[g].start
    PROVE  BytesSlid(SlideRun(w, h), Q, T \union {h}, low) /\ RunSlid(SlideRun(w, h), w, h)
<1> DEFINE v == SlideRun(w, h)
           n == headers[h].count
           s == headers[h].start
           copied == Copied(w, h)
           target == Target(w, h)
           length == Length(w, h)
           in == s = w.origin /\ w.length > 0
<1>1. /\ w.byteCursor \in Nat /\ w.origin \in Nat /\ w.target \in Nat /\ w.length \in Nat
      /\ T \subseteq Q /\ Len(w.headers) = extent /\ Len(w.bytes) = Len(bytes) /\ w.byteCursor <= Len(bytes)
      /\ \A g \in Q : g \in 1 .. extent /\ w.headers[g].count = headers[g].count /\ w.headers[g].start \in Nat
                      /\ EndIn(w, g) \in Nat /\ EndIn(w, g) = w.headers[g].start + headers[g].count
      /\ \A g \in Q \ T : w.headers[g].start = headers[g].start
  BY BytesWork
<1>2. /\ Len(bytes) \in Nat
      /\ \A g \in Q : /\ headers[g].start \in Nat /\ headers[g].count \in Nat
                      /\ headers[g].start + headers[g].count <= Len(bytes)
                      /\ NonEmpty(g) <=> headers[g].count > 0
      /\ \A g, e \in Q : NonEmpty(g) /\ NonEmpty(e) => headers[g].start = headers[e].start \/ Apart(g, e)
  BY DEF BytesFacts
<1>3. /\ h \in Q /\ h \in 1 .. extent /\ s \in Nat /\ n \in Nat /\ n > 0 /\ s + n <= Len(bytes)
      /\ w.headers[h].start = s /\ w.headers[h].count = n /\ low <= s
  BY <1>1, <1>2
<1>4. \A p \in w.byteCursor + 1 .. Len(bytes) : w.bytes[p] = bytes[p]
  BY DEF BytesSlid, BytesRest
<1>5. /\ copied = (IF in THEN w.length ELSE 0) /\ target = (IF in THEN w.target ELSE w.byteCursor)
      /\ length = IF n > copied THEN n ELSE copied
  BY <1>3 DEF Copied, Target, Length, InRun
<1> HIDE DEF copied, target, length
\* Whatever the case, what was there goes to the cursor.
<1>6. /\ copied \in Nat /\ length \in Nat /\ target \in Nat /\ copied <= length /\ n <= length
      /\ target + copied = w.byteCursor /\ target <= s /\ s + length <= Len(bytes) /\ length > 0
      /\ \A k \in 1 .. copied : w.bytes[target + k] = bytes[s + k]
      /\ \A g \in T : NonEmpty(g) => w.headers[g].start = target \/ EndIn(w, g) <= target
  <2>1. CASE in
    <3>1. /\ w.target <= w.origin /\ w.target + w.length = w.byteCursor /\ w.origin + w.length <= Len(bytes)
          /\ \A k \in 1 .. w.length : w.bytes[w.target + k] = bytes[w.origin + k]
          /\ \A g \in T : NonEmpty(g) => w.headers[g].start = w.target \/ EndIn(w, g) <= w.target
      BY <1>1, <1>3, <2>1 DEF BytesSlid, BytesRun
    <3>2. copied = w.length /\ target = w.target /\ s = w.origin /\ copied > 0
      BY <1>5, <2>1
    <3>3. length \in Nat /\ copied <= length /\ n <= length /\ (length = n \/ length = copied)
      BY <1>1, <1>3, <1>5, <3>2, SMTT(30)
    <3>4. s + length <= Len(bytes) /\ length > 0
      BY <1>3, <3>1, <3>2, <3>3
    <3> HIDE DEF s, in
    <3> QED BY <1>1, <3>1, <3>2, <3>3, <3>4
  <2>2. CASE ~in
    <3>1. copied = 0 /\ target = w.byteCursor /\ length = n
      BY <1>3, <1>5, <2>2
    <3>2. w.byteCursor <= s
      BY <1>3, <2>2 DEF BytesSlid, BytesRest
    <3>3. \A g \in T : EndIn(w, g) <= target
      BY <3>1 DEF BytesSlid, BytesDone
    <3> QED BY <1>1, <1>3, <3>1, <3>2, <3>3
  <2> QED BY <2>1, <2>2
<1>7. RunSlid(v, w, h)
  BY <1>1, <1>3, <1>6, SlideRunOf DEF target, length
<1> HIDE DEF v
<1>8. /\ v.headers[h].start = target /\ v.headers[h].count = n /\ Len(v.headers) = extent
      /\ \A g \in 1 .. extent : g # h => v.headers[g] = w.headers[g]
      /\ v.origin = s /\ v.target = target /\ v.length = length
  BY <1>1, <1>3, <1>7 DEF RunSlid, StartOnly, target, length
<1>9. v.byteCursor = target + length
  <2>1. v.byteCursor = IF target + length > w.byteCursor THEN target + length ELSE w.byteCursor
    BY <1>7 DEF RunSlid, target, length
  <2> QED BY <1>1, <1>6, <2>1
<1>10. MovedDown(v.bytes, w.bytes, s + copied, length - copied, w.byteCursor)
  BY <1>3, <1>6, <1>7 DEF RunSlid, target, length, copied
<1>11. /\ Len(v.bytes) = Len(bytes)
       /\ \A k \in 1 .. length - copied : v.bytes[w.byteCursor + k] = w.bytes[s + copied + k]
       /\ \A p \in 1 .. Len(bytes) : p <= w.byteCursor \/ p > v.byteCursor => v.bytes[p] = w.bytes[p]
  <2>1. w.byteCursor + (length - copied) = v.byteCursor
    BY <1>1, <1>6, <1>9
  <2> QED BY <1>1, <1>10, <2>1 DEF MovedDown
<1> HIDE DEF n, s
<1>12. v.byteCursor \in Nat /\ w.byteCursor <= v.byteCursor /\ v.byteCursor <= Len(bytes) /\ v.byteCursor <= s + length
  BY <1>1, <1>3, <1>6, <1>9
\* The run is at its target now.
<1>13. \A k \in 1 .. length : v.bytes[target + k] = bytes[s + k]
  <2> SUFFICES ASSUME NEW k \in 1 .. length PROVE v.bytes[target + k] = bytes[s + k]
    OBVIOUS
  <2>1. CASE k <= copied
    <3>1. k \in 1 .. copied /\ target + k \in 1 .. Len(bytes) /\ target + k <= w.byteCursor
      BY <1>1, <1>6, <2>1
    <3> QED BY <1>6, <1>11, <3>1
  <2>2. CASE k > copied
    <3> DEFINE j == k - copied
    <3>1. /\ j \in 1 .. length - copied /\ target + k = w.byteCursor + j /\ s + copied + j = s + k
      BY <1>1, <1>3, <1>6, <2>2
    <3>2. s + k \in w.byteCursor + 1 .. Len(bytes)
      BY <1>1, <1>3, <1>6, <2>2, SMTT(30)
    <3> HIDE DEF j
    <3>3. v.bytes[target + k] = w.bytes[s + k]
      BY <1>11, <3>1
    <3> QED BY <1>4, <3>2, <3>3
  <2> QED BY <1>6, <2>1, <2>2
<1>14. \A g \in T : /\ g # h /\ v.headers[g] = w.headers[g] /\ EndIn(v, g) = EndIn(w, g) /\ EndIn(w, g) \in Nat
                    /\ EndIn(w, g) <= w.byteCursor
  BY <1>1, <1>8 DEF EndIn, BytesSlid, BytesDone
<1>15. EndIn(v, h) = target + n
  BY <1>8 DEF EndIn
<1>16. BytesRest(v, Q, T \union {h}, low)
  <2>1. ASSUME NEW g \in Q \ (T \union {h}), NonEmpty(g), ~ (headers[g].start < low), headers[g].start # s
        PROVE  v.byteCursor <= headers[g].start
    <3>1. s <= headers[g].start /\ headers[g].start \in Nat /\ headers[g].count \in Nat /\ headers[g].count > 0
      BY <1>2, <2>1 DEF s
    <3>2. Apart(h, g)
      BY <1>2, <1>3, <2>1 DEF s
    <3>3. s + n <= headers[g].start
      BY <1>3, <3>1, <3>2 DEF Apart, End, s, n
    <3>4. CASE length = n
      BY <1>12, <1>3, <3>1, <3>3, <3>4
    <3>5. CASE length # n
      <4>1. length = copied /\ in
        BY <1>3, <1>5, <1>6, <3>5
      <4>2. headers[g].start # w.origin
        BY <2>1, <4>1
      <4>3. w.byteCursor <= headers[g].start
        BY <2>1, <4>2 DEF BytesSlid, BytesRest
      <4> QED BY <1>6, <1>9, <4>1, <4>3
    <3> QED BY <3>4, <3>5
  <2>2. \A p \in v.byteCursor + 1 .. Len(bytes) : v.bytes[p] = bytes[p]
    <3>1. \A p \in v.byteCursor + 1 .. Len(bytes) : p \in 1 .. Len(bytes) /\ p > v.byteCursor /\ p \in w.byteCursor + 1 .. Len(bytes)
      BY <1>1, <1>2, <1>12
    <3> QED BY <1>4, <1>11, <3>1, Zenon
  <2>3. \A g \in Q : v.headers[g].count = headers[g].count
    BY <1>1, <1>3, <1>8 DEF n
  <2>4. \A g \in Q \ (T \union {h}) : v.headers[g].start = headers[g].start
    BY <1>1, <1>8
  <2>5. \A g \in Q \ (T \union {h}) : NonEmpty(g) => \/ headers[g].start < low
                                                     \/ v.byteCursor <= headers[g].start
                                                     \/ headers[g].start = v.origin /\ v.length > 0
    BY <1>6, <1>8, <2>1
  <2>6. T \union {h} \subseteq Q
    BY <1>1, <1>3
  <2> QED BY <1>8, <1>11, <1>12, <2>2, <2>3, <2>4, <2>5, <2>6 DEF BytesRest
<1>17. BytesDone(v, T \union {h})
  <2>1. \A g \in T \union {h} : EndIn(v, g) <= v.byteCursor
    <3>1. EndIn(v, h) <= v.byteCursor
      BY <1>3, <1>6, <1>9, <1>15
    <3>2. \A g \in T : EndIn(v, g) <= v.byteCursor
      BY <1>1, <1>12, <1>14
    <3> QED BY <3>1, <3>2
  <2>2. \A g \in T \union {h} : \A k \in 1 .. headers[g].count : v.bytes[v.headers[g].start + k] = bytes[headers[g].start + k]
    <3> SUFFICES ASSUME NEW g \in T \union {h}, NEW k \in 1 .. headers[g].count
                 PROVE  v.bytes[v.headers[g].start + k] = bytes[headers[g].start + k]
      OBVIOUS
    <3>1. CASE g = h
      <4>1. k \in 1 .. length
        BY <1>3, <1>6, <3>1 DEF n
      <4> QED BY <1>8, <1>13, <3>1, <4>1 DEF s
    <3>2. CASE g \in T
      <4>1. w.bytes[w.headers[g].start + k] = bytes[headers[g].start + k]
        BY <3>2 DEF BytesSlid, BytesDone
      <4>2. w.headers[g].start \in Nat /\ headers[g].count \in Nat /\ w.headers[g].start + headers[g].count <= w.byteCursor
        BY <1>1, <1>2, <1>14, <3>2
      <4>3. w.headers[g].start + k \in 1 .. Len(bytes) /\ w.headers[g].start + k <= w.byteCursor
        <5> DEFINE x == w.headers[g].start
                   m == headers[g].count
        <5>1. x \in Nat /\ m \in Nat /\ x + m <= w.byteCursor /\ w.byteCursor \in Nat /\ w.byteCursor <= Len(bytes)
              /\ Len(bytes) \in Nat /\ k \in 1 .. m
          BY <1>1, <1>2, <4>2
        <5> HIDE DEF x, m
        <5>2. x + k \in 1 .. Len(bytes) /\ x + k <= w.byteCursor
          BY <5>1
        <5> QED BY <5>2 DEF x
      <4> QED BY <1>11, <1>14, <3>2, <4>1, <4>3
    <3> QED BY <3>1, <3>2
  <2>3. \A g, e \in T : NonEmpty(g) /\ NonEmpty(e) => v.headers[g].start = v.headers[e].start \/ ApartIn(v, g, e)
    BY <1>14 DEF ApartIn, BytesSlid, BytesDone
  <2>4. \A g \in T : NonEmpty(g) =>
            /\ v.headers[g].start = v.headers[h].start \/ ApartIn(v, g, h)
            /\ v.headers[h].start = v.headers[g].start \/ ApartIn(v, h, g)
    BY <1>6, <1>8, <1>14 DEF ApartIn
  <2>5. \A g, e \in T \union {h} : NonEmpty(g) /\ NonEmpty(e) => v.headers[g].start = v.headers[e].start \/ ApartIn(v, g, e)
    BY <2>3, <2>4
  <2> QED BY <2>1, <2>2, <2>5 DEF BytesDone
<1>18. BytesRun(v, T \union {h}, low)
  <2>1. \A g \in T \union {h} : NonEmpty(g) => v.headers[g].start = target \/ EndIn(v, g) <= target
    BY <1>6, <1>8, <1>14
  <2>2. v.target <= v.origin /\ v.target + v.length = v.byteCursor /\ v.origin + v.length <= Len(bytes)
    BY <1>6, <1>8, <1>9
  <2>3. \A k \in 1 .. v.length : v.bytes[v.target + k] = bytes[v.origin + k]
    BY <1>8, <1>13
  <2> QED BY <1>8, <2>1, <2>2, <2>3 DEF BytesRun
<1>19. BytesLow(v, Q, T \union {h}, low)
  <2>1. \A g \in Q \ T : NonEmpty(g) => ~ (headers[g].start < low)
    BY <1>2, <1>3 DEF s
  <2> QED BY <2>1 DEF BytesLow
<1>20. BytesSlid(v, Q, T \union {h}, low)
  BY <1>16, <1>17, <1>18, <1>19 DEF BytesSlid
<1> QED BY <1>7, <1>20 DEF v
-----------------------------------------------------------------------------
(* The dead.                                                               *)

\* The dead so far are listed, the atoms among them apart.
DeadIn(w, D, atoms) == Lists(w.dead, D \ atoms) /\ Lists(w.deadAtoms, D \intersect atoms)

CellFreed(v, w, h) ==
    /\ v \in Works
    /\ Len(v.headers) = Len(w.headers) /\ v.headers[h] = FreeCell
    /\ \A g \in 1 .. Len(w.headers) : g # h => v.headers[g] = w.headers[g]
    /\ SameSlots(v, w) /\ SameBytes(v, w) /\ v.grown = w.grown

LEMMA FreeCellIs == FreeCell \in CellSet /\ FreeCell.tag = "free" /\ FreeCell.marked = FALSE
BY DEF FreeCell, Cell, CellSet

LEMMA FreedOf ==
    ASSUME NEW w \in Works, NEW h \in 1 .. Len(w.headers), NEW D, NEW atoms, DeadIn(w, D, atoms), h \notin D
    PROVE  CellFreed(Freed(w, h, atoms), w, h) /\ DeadIn(Freed(w, h, atoms), D \union {h}, atoms)
<1> DEFINE v == Freed(w, h, atoms)
           hs == [w.headers EXCEPT ![h] = FreeCell]
           d == IF h \in atoms THEN w.dead ELSE Append(w.dead, h)
           a == IF h \in atoms THEN Append(w.deadAtoms, h) ELSE w.deadAtoms
<1>1. w.headers \in Seq(CellSet) /\ w.dead \in Seq(Nat) /\ w.deadAtoms \in Seq(Nat) /\ h \in Nat
  BY WorksFields
<1>2. /\ hs \in Seq(CellSet) /\ Len(hs) = Len(w.headers) /\ hs[h] = FreeCell
      /\ \A g \in 1 .. Len(w.headers) : g # h => hs[g] = w.headers[g]
  BY <1>1, FreeCellIs
<1>3. d \in Seq(Nat) /\ a \in Seq(Nat)
  BY <1>1
<1>4. v = [w EXCEPT !.headers = hs, !.dead = d, !.deadAtoms = a]
  BY DEF Freed, Works
<1> HIDE DEF hs, d, a, v
<1>5. v \in Works
  BY <1>2, <1>3, <1>4 DEF Works
<1>6. /\ v.headers = hs /\ v.dead = d /\ v.deadAtoms = a /\ v.slots = w.slots /\ v.cursor = w.cursor
      /\ v.grown = w.grown /\ v.bytes = w.bytes /\ v.byteCursor = w.byteCursor /\ v.origin = w.origin
      /\ v.target = w.target /\ v.length = w.length
  BY <1>4 DEF Works
<1>7. CellFreed(v, w, h)
  BY <1>2, <1>5, <1>6 DEF CellFreed, SameSlots, SameBytes
<1>8. DeadIn(v, D \union {h}, atoms)
  <2>1. CASE h \in atoms
    <3>1. (D \union {h}) \ atoms = D \ atoms /\ (D \union {h}) \intersect atoms = (D \intersect atoms) \union {h}
      BY <2>1
    <3>2. Lists(Append(w.deadAtoms, h), (D \intersect atoms) \union {h})
      BY <1>1, ListsAppend DEF DeadIn
    <3>3. d = w.dead /\ a = Append(w.deadAtoms, h)
      BY <2>1 DEF d, a
    <3> QED BY <1>6, <3>1, <3>2, <3>3 DEF DeadIn
  <2>2. CASE h \notin atoms
    <3>1. (D \union {h}) \ atoms = (D \ atoms) \union {h} /\ (D \union {h}) \intersect atoms = D \intersect atoms
      BY <2>2
    <3>2. Lists(Append(w.dead, h), (D \ atoms) \union {h})
      BY <1>1, ListsAppend DEF DeadIn
    <3>3. d = Append(w.dead, h) /\ a = w.deadAtoms
      BY <2>2 DEF d, a
    <3> QED BY <1>6, <3>1, <3>2, <3>3 DEF DeadIn
  <2> QED BY <2>1, <2>2
<1> QED BY <1>7, <1>8 DEF v

LEMMA DeadListed ==
    ASSUME NEW w, NEW D, NEW atoms, DeadIn(w, D, atoms)
    PROVE  Lists(w.dead \o w.deadAtoms, D)
<1>1. (D \ atoms) \intersect (D \intersect atoms) = {} /\ (D \ atoms) \union (D \intersect atoms) = D
  OBVIOUS
<1>2. Lists(w.dead \o w.deadAtoms, (D \ atoms) \union (D \intersect atoms))
  BY <1>1, ListsConcat DEF DeadIn
<1> QED BY <1>1, <1>2

\* The buffers with one string fewer over them.
Released1 == [buffers : Seq(BufferSet), free : Seq(Nat)]

LEMMA OverFinite ==
    ASSUME TypeOK, NEW L \in SUBSET Handle
    PROVE  IsFiniteSet(L) /\ \A b : IsFiniteSet(Over(L, b)) /\ Cardinality(Over(L, b)) \in Nat
<1>1. IsFiniteSet(1 .. extent)
  BY FS_Interval DEF TypeOK
<1>2. IsFiniteSet(L)
  BY <1>1, FS_Subset DEF Handle
<1>3. \A b : Over(L, b) \subseteq L
  BY DEF Over
<1> QED BY <1>2, <1>3, FS_Subset, FS_CardinalityType

LEMMA ReleaseOne ==
    ASSUME TypeOK, NEW L \in SUBSET Tagged("large"), NEW b \in Released1, Counted(b.buffers, b.free, L),
           NEW h \in Handle, h \in L \/ headers[h].tag # "large"
    PROVE  /\ ReleaseBuffer(b, h) \in Released1
           /\ Counted(ReleaseBuffer(b, h).buffers, ReleaseBuffer(b, h).free, L \ {h})
<1> DEFINE index == headers[h].buffer
           r == ReleaseBuffer(b, h)
           bs == b.buffers
           left == bs[index].refs - 1
<1>1. L \subseteq Handle /\ \A g \in L : headers[g].tag = "large"
  BY DEF Tagged
<1>2. CASE h \notin L
  <2>1. r = b /\ L \ {h} = L
    BY <1>2 DEF ReleaseBuffer
  <2> QED BY <2>1
<1>3. CASE h \in L
  <2>1. /\ bs \in Seq(BufferSet) /\ b.free \in Seq(Nat) /\ index \in 1 .. Len(bs) /\ Len(bs) \in Nat
        /\ headers[h].tag = "large"
    BY <1>1, <1>3 DEF Counted, Released1
  <2>2. /\ \A i \in 1 .. Len(bs) : bs[i] \in BufferSet /\ bs[i].refs = Cardinality(Over(L, i)) /\ bs[i].refs \in Nat
        /\ Lists(b.free, {i \in 1 .. Len(bs) : Over(L, i) = {}})
        /\ \A g \in L : /\ headers[g].buffer \in 1 .. Len(bs)
                        /\ headers[g].count <= Len(bs[headers[g].buffer].bytes)
                        /\ SubSeq(bs[headers[g].buffer].bytes, 1, headers[g].count) = text[g]
    <3>1. \A i \in 1 .. Len(bs) : bs[i] \in BufferSet
      BY <2>1
    <3> QED BY <3>1 DEF Counted, BufferSet
  <2> DEFINE M == L \ {h}
  <2>3. /\ \A i : Over(M, i) = Over(L, i) \ {h}
        /\ h \in Over(L, index) /\ \A i : i # index => Over(M, i) = Over(L, i)
    BY <1>3 DEF Over
  <2>4. /\ Cardinality(Over(M, index)) = left /\ left \in Nat
        /\ left = 0 <=> Over(M, index) = {}
    <3>1. IsFiniteSet(Over(L, index)) /\ Cardinality(Over(L, index)) \in Nat
      BY <1>1, OverFinite
    <3>2. IsFiniteSet(Over(M, index)) /\ Cardinality(Over(M, index)) \in Nat
      BY <1>1, OverFinite
    <3>3. Cardinality(Over(M, index)) = Cardinality(Over(L, index)) - 1
      <4>1. h \in Over(L, index) /\ Over(M, index) = Over(L, index) \ {h}
        BY <2>3
      <4> HIDE DEF M, index
      <4>2. Cardinality(Over(L, index) \ {h}) = Cardinality(Over(L, index)) - 1
        BY <3>1, <4>1, FS_RemoveElement
      <4> QED BY <4>1, <4>2
    <3>4. bs[index].refs = Cardinality(Over(L, index))
      BY <2>1, <2>2
    <3>5. Cardinality(Over(M, index)) = left
      BY <3>3, <3>4
    <3> HIDE DEF left, M
    <3> QED BY <3>2, <3>5, FS_EmptySet
  <2> HIDE DEF M
  <2>5. \A g \in M : g \in L
    BY DEF M
  <2>6. CASE left > 0
    <3> DEFINE c == [bs[index] EXCEPT !.refs = left]
               bs2 == [bs EXCEPT ![index] = c]
    <3>1. r = [b EXCEPT !.buffers = bs2]
      BY <2>1, <2>6 DEF ReleaseBuffer, Released1
    <3>2. c \in BufferSet /\ c.refs = left /\ c.bytes = bs[index].bytes
      <4>1. bs[index] \in BufferSet /\ left \in Nat
        BY <2>1, <2>2, <2>4
      <4> HIDE DEF left
      <4> QED BY <4>1 DEF BufferSet
    <3> HIDE DEF c
    <3>3. /\ bs2 \in Seq(BufferSet) /\ Len(bs2) = Len(bs) /\ bs2[index] = c
          /\ \A i \in 1 .. Len(bs) : i # index => bs2[i] = bs[i]
      BY <2>1, <3>2
    <3> HIDE DEF bs2, r
    <3>4. r \in Released1 /\ r.buffers = bs2 /\ r.free = b.free
      BY <3>1, <3>3 DEF Released1
    <3>5. \A i \in 1 .. Len(bs2) : bs2[i].refs = Cardinality(Over(M, i)) /\ bs2[i].bytes = bs[i].bytes
      BY <2>2, <2>3, <2>4, <3>2, <3>3
    <3>6. {i \in 1 .. Len(bs2) : Over(M, i) = {}} = {i \in 1 .. Len(bs) : Over(L, i) = {}}
      BY <2>3, <2>4, <2>6, <3>3
    <3>7. \A g \in M : /\ headers[g].buffer \in 1 .. Len(bs2)
                       /\ headers[g].count <= Len(bs2[headers[g].buffer].bytes)
                       /\ SubSeq(bs2[headers[g].buffer].bytes, 1, headers[g].count) = text[g]
      BY <2>2, <2>5, <3>3, <3>5
    <3>8. Counted(bs2, b.free, M)
      BY <2>2, <3>3, <3>5, <3>6, <3>7 DEF Counted
    <3> QED BY <3>4, <3>8 DEF r, M
  <2>7. CASE ~ (left > 0)
    <3> DEFINE bs2 == [bs EXCEPT ![index] = NoBuffer]
               f == Append(b.free, index)
    <3>1. r = [buffers |-> bs2, free |-> f]
      BY <2>1, <2>7 DEF ReleaseBuffer
    <3>2. NoBuffer \in BufferSet /\ NoBuffer.refs = 0
      BY DEF NoBuffer, BufferSet
    <3>3. /\ bs2 \in Seq(BufferSet) /\ Len(bs2) = Len(bs) /\ bs2[index] = NoBuffer
          /\ \A i \in 1 .. Len(bs) : i # index => bs2[i] = bs[i]
      BY <2>1, <3>2
    <3>4. f \in Seq(Nat)
      BY <2>1
    <3> HIDE DEF bs2, f, r
    <3>5. r \in Released1 /\ r.buffers = bs2 /\ r.free = f
      BY <3>1, <3>3, <3>4 DEF Released1
    <3>6. left = 0 /\ Over(M, index) = {}
      <4> HIDE DEF left
      <4> QED BY <2>4, <2>7
    <3>7. \A i \in 1 .. Len(bs2) : bs2[i].refs = Cardinality(Over(M, i))
      <4> SUFFICES ASSUME NEW i \in 1 .. Len(bs2) PROVE bs2[i].refs = Cardinality(Over(M, i))
        OBVIOUS
      <4>1. CASE i = index
        <5>1. Cardinality(Over(M, index)) = 0
          BY <3>6, FS_EmptySet
        <5> QED BY <3>2, <3>3, <4>1, <5>1
      <4>2. CASE i # index
        BY <2>2, <2>3, <3>3, <4>2
      <4> QED BY <4>1, <4>2
    <3>8. {i \in 1 .. Len(bs2) : Over(M, i) = {}} = {i \in 1 .. Len(bs) : Over(L, i) = {}} \union {index}
      BY <2>1, <2>3, <3>3, <3>6
    <3>9. index \notin {i \in 1 .. Len(bs) : Over(L, i) = {}} /\ index \in Nat
      BY <2>1, <2>3
    <3>10. Lists(f, {i \in 1 .. Len(bs2) : Over(M, i) = {}})
      <4>1. Lists(Append(b.free, index), {i \in 1 .. Len(bs) : Over(L, i) = {}} \union {index})
        BY <2>2, <3>9, ListsAppend
      <4> QED BY <3>8, <4>1 DEF f
    <3>11. \A g \in M : headers[g].buffer # index
      BY <3>6 DEF Over
    <3>12. \A g \in M : /\ headers[g].buffer \in 1 .. Len(bs2)
                        /\ headers[g].count <= Len(bs2[headers[g].buffer].bytes)
                        /\ SubSeq(bs2[headers[g].buffer].bytes, 1, headers[g].count) = text[g]
      BY <2>2, <2>5, <3>3, <3>11
    <3>13. Counted(bs2, f, M)
      BY <3>3, <3>7, <3>10, <3>12 DEF Counted
    <3> QED BY <3>5, <3>13 DEF r, M
  <2> QED BY <2>6, <2>7, <2>4
<1> QED BY <1>2, <1>3

LEMMA ReleaseType ==
    ASSUME TypeOK, NEW b \in Released1, NEW h \in Handle
    PROVE  ReleaseBuffer(b, h) \in Released1
<1> DEFINE index == headers[h].buffer
           bs == b.buffers
           left == bs[index].refs - 1
           c == [bs[index] EXCEPT !.refs = left]
           bs2 == [bs EXCEPT ![index] = c]
           bs3 == [bs EXCEPT ![index] = NoBuffer]
           f == Append(b.free, index)
<1>1. bs \in Seq(BufferSet) /\ b.free \in Seq(Nat) /\ index \in Nat
  <2>1. headers[h] \in CellSet
    BY DEF TypeOK, Handle
  <2> QED BY <2>1 DEF Released1, CellSet
<1>2. NoBuffer \in BufferSet
  BY DEF NoBuffer, BufferSet
<1>3. bs3 \in Seq(BufferSet) /\ f \in Seq(Nat)
  <2>1. bs3 \in Seq(BufferSet)
    <3>1. CASE index \in 1 .. Len(bs)
      BY <1>1, <1>2, <3>1
    <3>2. CASE index \notin 1 .. Len(bs)
      <4>1. bs \in [1 .. Len(bs) -> BufferSet]
        BY <1>1
      <4>2. bs3 = bs
        BY <3>2, <4>1
      <4> QED BY <1>1, <4>2
    <3> QED BY <3>1, <3>2
  <2>2. f \in Seq(Nat)
    BY <1>1
  <2> QED BY <2>1, <2>2
<1>4. CASE headers[h].tag # "large"
  BY <1>4 DEF ReleaseBuffer
<1>5. CASE headers[h].tag = "large" /\ left > 0
  <2>1. ReleaseBuffer(b, h) = [b EXCEPT !.buffers = bs2]
    BY <1>5 DEF ReleaseBuffer, Released1
  <2>2. bs2 \in Seq(BufferSet)
    <3>1. CASE index \in 1 .. Len(bs)
      <4>1. bs[index] \in BufferSet
        BY <1>1, <3>1
      <4>2. left \in Nat
        BY <1>5, <4>1 DEF BufferSet
      <4>3. c \in BufferSet
        <5> HIDE DEF left
        <5> QED BY <4>1, <4>2 DEF BufferSet
      <4> HIDE DEF c
      <4> QED BY <1>1, <3>1, <4>3
    <3>2. CASE index \notin 1 .. Len(bs)
      <4> HIDE DEF c
      <4>1. bs \in [1 .. Len(bs) -> BufferSet]
        BY <1>1
      <4>2. bs2 = bs
        BY <3>2, <4>1
      <4> QED BY <1>1, <4>2
    <3> QED BY <3>1, <3>2
  <2> HIDE DEF bs2
  <2> QED BY <2>1, <2>2 DEF Released1
<1>6. CASE headers[h].tag = "large" /\ ~ (left > 0)
  <2>1. ReleaseBuffer(b, h) = [buffers |-> bs3, free |-> f]
    BY <1>6 DEF ReleaseBuffer
  <2> HIDE DEF bs3, f
  <2> QED BY <1>3, <2>1 DEF Released1
<1> QED BY <1>4, <1>5, <1>6

\* The buffers when all of the dead are released.
LEMMA ReleasedOf ==
    ASSUME TypeOK, BuffersInv, NEW D \in SUBSET Handle, NEW dead, Lists(dead, D)
    PROVE  Counted(Released(dead).buffers, Released(dead).free, Tagged("large") \ D)
<1> DEFINE S == Released1
           base == [buffers |-> buffers, free |-> freeBuffers]
           N == Len(dead)
           Step(n, b) == ReleaseBuffer(b, dead[n])
           G == [n \in 1 .. N |-> [b \in S |-> Step(n, b)]]
           Body(g) == [n \in 0 .. Len(dead) |->
                          IF n = 0 THEN [buffers |-> buffers, free |-> freeBuffers]
                          ELSE ReleaseBuffer(g[n - 1], dead[n])]
           after == CHOOSE g : g = Body(g)
           L == Tagged("large")
           Q(n) == {dead[i] : i \in 1 .. n}
<1>1. N \in Nat /\ \A n \in 1 .. N : dead[n] \in D /\ dead[n] \in Handle
  BY DEF Lists
<1>2. base \in S
  BY DEF TypeOK, Released1
<1>3. G \in [1 .. N -> [S -> S]] /\ \A n \in 1 .. N : \A b \in S : G[n][b] = Step(n, b) /\ Step(n, b) \in S
  <2>1. \A n \in 1 .. N : \A b \in S : Step(n, b) \in S
    BY <1>1, ReleaseType
  <2> HIDE DEF Step, S, N
  <2> QED BY <2>1
<1> HIDE DEF G, S, base
<1>4. PICK f \in [0 .. N -> S] : Follows(f, N, base, G)
  BY <1>1, <1>2, <1>3, Recursion
<1>5. f = Body(f)
  <2>1. \A n \in 1 .. N : f[n - 1] \in S
    BY <1>1, <1>4
  <2>2. \A n \in 0 .. N : (IF n = 0 THEN base ELSE G[n][f[n - 1]]) = (IF n = 0 THEN base ELSE Step(n, f[n - 1]))
    <3> HIDE DEF Step
    <3> QED BY <1>1, <1>3, <2>1
  <2>3. f = [n \in 0 .. N |-> IF n = 0 THEN base ELSE Step(n, f[n - 1])]
    <3> HIDE DEF Step
    <3> QED BY <1>4, <2>2 DEF Follows
  <2> QED BY <2>3, Zenon DEF base
<1>6. after = Body(after)
  <2> HIDE DEF Body
  <2> QED BY <1>5
<1>7. Released(dead) = after[Len(dead)]
  BY Zenon DEF Released
<1> HIDE DEF after
<1>8. after[0] = base /\ \A n \in 1 .. N : after[n] = Step(n, after[n - 1])
  <2>1. \A n \in 0 .. N : after[n] = IF n = 0 THEN base ELSE Step(n, after[n - 1])
    <3>1. after = [n \in 0 .. N |-> IF n = 0 THEN base ELSE Step(n, after[n - 1])]
      BY <1>6, Zenon DEF base
    <3> HIDE DEF Step
    <3> QED BY <3>1, Zenon
  <2> HIDE DEF Step
  <2> QED BY <1>1, <2>1
<1> DEFINE Done(n) == after[n] \in S /\ Counted(after[n].buffers, after[n].free, L \ Q(n))
<1>9. Done(0)
  <2>1. L \ Q(0) = L
    OBVIOUS
  <2>2. base.buffers = buffers /\ base.free = freeBuffers
    BY DEF base
  <2> HIDE DEF Q, L
  <2> QED BY <1>2, <1>8, <2>1, <2>2 DEF BuffersInv, L
<1>10. ASSUME NEW n \in 1 .. N, Done(n - 1) PROVE Done(n)
  <2> DEFINE d == dead[n]
             M == L \ Q(n - 1)
             b == after[n - 1]
  <2>1. d \in Handle /\ after[n] = ReleaseBuffer(b, d)
    BY <1>1, <1>8
  <2>2. d \notin Q(n - 1)
    <3>1. \A i \in 1 .. n - 1 : i \in 1 .. N /\ i # n
      BY <1>1
    <3> QED BY <3>1 DEF Lists
  <2>3. d \in M \/ headers[d].tag # "large"
    BY <2>1, <2>2 DEF Tagged
  <2>4. L \ Q(n) = M \ {d}
    <3>1. \A i \in 1 .. n : i \in 1 .. n - 1 \/ i = n
      BY <1>1
    <3>2. n \in 1 .. n /\ \A i \in 1 .. n - 1 : i \in 1 .. n
      BY <1>1
    <3> QED BY <3>1, <3>2
  <2>5. M \in SUBSET Tagged("large")
    OBVIOUS
  <2>6. b \in Released1 /\ Counted(b.buffers, b.free, M)
    BY <1>10 DEF S
  <2> HIDE DEF M, d, b, Q
  <2>7. ReleaseBuffer(b, d) \in Released1 /\ Counted(ReleaseBuffer(b, d).buffers, ReleaseBuffer(b, d).free, M \ {d})
    BY <2>1, <2>3, <2>5, <2>6, ReleaseOne
  <2> QED BY <2>1, <2>4, <2>7 DEF S
<1> DEFINE H == {n \in 0 .. N : Done(n)}
<1>11. Done(N)
  <2> HIDE DEF Done
  <2>1. 0 \in H /\ \A n \in 1 .. N : n - 1 \in H => n \in H
    BY <1>1, <1>9, <1>10
  <2>2. N \in 0 .. N
    BY <1>1
  <2>3. \A n \in 0 .. N : n \in H
    <3> HIDE DEF H
    <3> QED BY <1>1, <2>1, UpTo
  <2> QED BY <2>2, <2>3
<1>12. L \ Q(N) = Tagged("large") \ D
  BY DEF Lists
<1> HIDE DEF Q
<1> QED BY <1>7, <1>11, <1>12
-----------------------------------------------------------------------------
(* What a collection leaves.                                               *)

\* A sweep's work when it is done: the survivors are where they were slid,
\* and all others are freed and listed dead.
SweptTo(w, K) ==
    /\ w \in Works /\ Len(w.headers) = extent
    /\ K \subseteq Live
    /\ Lists(w.dead \o w.deadAtoms, Live \ K)
    /\ \A h \in K : /\ w.headers[h].tag = headers[h].tag /\ w.headers[h].count = headers[h].count
                    /\ w.headers[h].buffer = headers[h].buffer /\ w.headers[h].marked = TRUE
    /\ \A h \in Handle \ K : w.headers[h].tag = "free"
    /\ SlotsSlid(w, K \intersect Tagged("slots"), K \intersect Tagged("slots"))
    /\ \E low \in Nat : BytesSlid(w, K \intersect Tagged("small"), K \intersect Tagged("small"), low)

\* The state after, in terms of the work.
Ended(w, K, list, top) ==
    /\ extent' = top /\ top \in 0 .. extent /\ K \subseteq 1 .. top
    /\ headers' \in Seq(CellSet) /\ Len(headers') = top
    /\ \A h \in 1 .. top : headers'[h] = w.headers[h] /\ text'[h] = IF h \in K THEN text[h] ELSE <<>>
    /\ text' \in Seq(Seq(Nat)) /\ Len(text') = top
    /\ freeHandles' = list /\ freeCount' = Len(list)
    /\ slots' \in Seq(Nat) /\ Len(slots') = w.cursor /\ \A p \in 1 .. w.cursor : slots'[p] = w.slots[p]
    /\ bytes' \in Seq(Nat) /\ Len(bytes') = w.byteCursor /\ \A p \in 1 .. w.byteCursor : bytes'[p] = w.bytes[p]
    /\ growLog' = <<>>
    /\ cycle' \in Cycles
    /\ cycle'.freeCount = Len(list) /\ cycle'.extent = top /\ cycle'.tail = w.cursor /\ cycle'.byteTail = w.byteCursor

LEMMA CollectionEnded ==
    ASSUME TypeOK, NEW w, NEW K, SweptTo(w, K), NEW top \in 0 .. extent, \A h \in K : h <= top,
           NEW list, Lists(list, (1 .. top) \ K), EndCollection(w, list, top)
    PROVE  Ended(w, K, list, top)
<1>1. /\ w \in Works /\ Len(w.headers) = extent /\ extent \in Nat /\ K \subseteq Live
  BY DEF SweptTo, TypeOK
<1>2. /\ w.headers \in Seq(CellSet) /\ w.slots \in Seq(Nat) /\ w.bytes \in Seq(Nat)
      /\ w.cursor \in Nat /\ w.byteCursor \in Nat
  BY <1>1, WorksFields
<1>3. K \subseteq Handle /\ K \subseteq 1 .. top
  BY <1>1 DEF Live, Handle
<1>4. w.cursor \in 0 .. Len(w.slots)
  <2>1. w.cursor <= Len(w.slots)
    BY DEF SweptTo, SlotsSlid
  <2> QED BY <1>2, <2>1
<1>5. w.byteCursor \in 0 .. Len(w.bytes)
  <2>1. w.byteCursor <= Len(w.bytes)
    BY DEF SweptTo, BytesSlid, BytesRest
  <2> QED BY <1>2, <2>1
<1>6. /\ SubSeq(w.slots, 1, w.cursor) \in Seq(Nat) /\ Len(SubSeq(w.slots, 1, w.cursor)) = w.cursor
      /\ \A p \in 1 .. w.cursor : SubSeq(w.slots, 1, w.cursor)[p] = w.slots[p]
  BY <1>2, <1>4, NatPrefix, Zenon
<1>7. /\ SubSeq(w.bytes, 1, w.byteCursor) \in Seq(Nat) /\ Len(SubSeq(w.bytes, 1, w.byteCursor)) = w.byteCursor
      /\ \A p \in 1 .. w.byteCursor : SubSeq(w.bytes, 1, w.byteCursor)[p] = w.bytes[p]
  BY <1>2, <1>5, NatPrefix, Zenon
<1>8. /\ SubSeq(w.headers, 1, top) \in Seq(CellSet) /\ Len(SubSeq(w.headers, 1, top)) = top
      /\ \A h \in 1 .. top : SubSeq(w.headers, 1, top)[h] = w.headers[h]
  <2>1. top \in 0 .. Len(w.headers)
    BY <1>1
  <2> QED BY <1>2, <2>1, PrefixOf
<1>9. /\ headers' = SubSeq(w.headers, 1, top) /\ extent' = top
      /\ freeHandles' = list /\ freeCount' = Len(list)
      /\ slots' = SubSeq(w.slots, 1, w.cursor)
      /\ bytes' = SubSeq(w.bytes, 1, w.byteCursor)
      /\ growLog' = <<>>
      /\ cycle' = [freeCount |-> Len(list), extent |-> top,
                   tail |-> w.cursor, byteTail |-> w.byteCursor,
                   collections |-> cycle.collections + 1]
      /\ text' = [h \in 1 .. top |-> IF w.headers[h].tag = "free" THEN <<>> ELSE text[h]]
  BY DEF EndCollection
<1>10. \A h \in 1 .. top : w.headers[h].tag = "free" <=> h \notin K
  <2>1. \A h \in 1 .. top : h \in Handle
    BY <1>1 DEF Handle
  <2>2. \A h \in K : w.headers[h].tag # "free"
    BY <1>1 DEF SweptTo, Live
  <2> QED BY <2>1, <2>2 DEF SweptTo
<1>11. \A h \in 1 .. top : text'[h] = IF h \in K THEN text[h] ELSE <<>>
  BY <1>9, <1>10
<1>12. text' \in Seq(Seq(Nat)) /\ Len(text') = top
  <2>1. \A h \in 1 .. top : text[h] \in Seq(Nat)
    BY <1>1 DEF TypeOK
  <2>2. text' \in [1 .. top -> Seq(Nat)]
    BY <1>9, <2>1
  <2> QED BY <2>2, <1>1
<1>13. /\ cycle' \in Cycles
       /\ cycle'.freeCount = Len(list) /\ cycle'.extent = top /\ cycle'.tail = w.cursor /\ cycle'.byteTail = w.byteCursor
  <2>1. Len(list) \in Nat /\ top \in Nat /\ cycle.collections + 1 \in Nat
    BY <1>1 DEF Lists, TypeOK, Cycles
  <2> QED BY <1>2, <1>9, <2>1 DEF Cycles
<1>14. \A h \in 1 .. top : headers'[h] = w.headers[h]
  BY <1>8, <1>9
<1> QED BY <1>3, <1>6, <1>7, <1>8, <1>9, <1>11, <1>12, <1>13, <1>14 DEF Ended

CellsAfter(w, K, top) ==
    /\ Handle' = 1 .. top /\ top \in Nat /\ Live' = K
    /\ \A tag \in {"slots", "small", "large"} : Tagged(tag)' = K \intersect Tagged(tag)
    /\ \A h \in K : /\ h \in 1 .. top
                    /\ headers'[h] = w.headers[h] /\ headers'[h].tag = headers[h].tag
                    /\ headers'[h].count = headers[h].count /\ headers'[h].buffer = headers[h].buffer
                    /\ headers'[h].marked = TRUE /\ text'[h] = text[h]

LEMMA EndedCells ==
    ASSUME TypeOK, NEW w, NEW K, SweptTo(w, K), NEW list, NEW top, Ended(w, K, list, top)
    PROVE  CellsAfter(w, K, top)
<1>1. extent' = top /\ top \in 0 .. extent /\ extent \in Nat /\ K \subseteq 1 .. top /\ K \subseteq Live /\ K \subseteq Handle
  BY DEF Ended, TypeOK, SweptTo, Live
<1>2. \A h \in 1 .. top : headers'[h] = w.headers[h] /\ text'[h] = IF h \in K THEN text[h] ELSE <<>>
  BY DEF Ended
<1>3. \A h \in K : /\ w.headers[h].tag = headers[h].tag /\ w.headers[h].count = headers[h].count
                   /\ w.headers[h].buffer = headers[h].buffer /\ w.headers[h].marked = TRUE
  BY DEF SweptTo
<1>4. \A h \in 1 .. top : h \notin K => w.headers[h].tag = "free"
  BY <1>1 DEF SweptTo, Handle
<1>5. \A h \in K : headers[h].tag # "free"
  BY <1>1 DEF Live
<1>6. Live' = K
  <2>1. \A h \in 1 .. top : h \in K <=> headers'[h].tag # "free"
    BY <1>2, <1>3, <1>4, <1>5
  <2>2. Live' = {h \in 1 .. top : headers'[h].tag # "free"}
    BY <1>1 DEF Live, Handle
  <2> QED BY <1>1, <2>1, <2>2
<1>7. ASSUME NEW tag \in {"slots", "small", "large"} PROVE Tagged(tag)' = K \intersect Tagged(tag)
  BY <1>1, <1>2, <1>3, <1>4 DEF Tagged, Handle
<1> QED BY <1>1, <1>2, <1>3, <1>6, <1>7 DEF Handle, CellsAfter

LEMMA EndedTypes ==
    ASSUME TypeOK, BuffersInv, NEW w, NEW K, SweptTo(w, K), NEW list, NEW top, Ended(w, K, list, top),
           Lists(list, (1 .. top) \ K), EndCollection(w, list, top)
    PROVE  TypeOK' /\ BuffersInv'
<1> DEFINE dead == w.dead \o w.deadAtoms
           L == K \intersect Tagged("large")
<1>1. /\ Handle' = 1 .. top /\ top \in Nat /\ Live' = K /\ Tagged("large")' = L
      /\ \A h \in K : /\ h \in 1 .. top
                      /\ headers'[h].count = headers[h].count /\ headers'[h].buffer = headers[h].buffer
                      /\ text'[h] = text[h]
  BY EndedCells DEF CellsAfter
<1>2. Lists(dead, Live \ K) /\ Live \ K \in SUBSET Handle
  BY DEF SweptTo, Live
<1>3. buffers' = Released(dead).buffers /\ freeBuffers' = Released(dead).free
  BY DEF EndCollection
<1> HIDE DEF dead
<1>4. Counted(buffers', freeBuffers', Tagged("large") \ (Live \ K))
  BY <1>2, <1>3, ReleasedOf
<1>5. Tagged("large") \ (Live \ K) = L
  BY DEF Tagged, Live, SweptTo
<1> HIDE DEF L
<1>6. Counted(buffers', freeBuffers', L)
  BY <1>4, <1>5
<1>8. L \subseteq K
  BY DEF L
<1>9. BuffersInv'
  <2> DEFINE M == Tagged("large")
  <2>1. BuffersInv' <=> Counted(buffers, freeBuffers, M)'
    BY DEF BuffersInv
  <2>2. \A b : {h \in L : headers'[h].buffer = b} = Over(L, b)
    BY <1>1, <1>8 DEF Over
  <2>3. M' = L
    BY <1>1
  <2> HIDE DEF M
  <2>4. /\ buffers' \in Seq(BufferSet)
        /\ \A b \in 1 .. Len(buffers') : buffers'[b].refs = Cardinality({h \in L : headers'[h].buffer = b})
        /\ Lists(freeBuffers', {b \in 1 .. Len(buffers') : {h \in L : headers'[h].buffer = b} = {}})
        /\ \A h \in L : /\ headers'[h].buffer \in 1 .. Len(buffers')
                        /\ headers'[h].count <= Len(buffers'[headers'[h].buffer].bytes)
                        /\ SubSeq(buffers'[headers'[h].buffer].bytes, 1, headers'[h].count) = text'[h]
    BY <1>1, <1>6, <1>8, <2>2 DEF Counted
  <2>5. Counted(buffers, freeBuffers, M)'
    BY <2>3, <2>4 DEF Counted, Over
  <2> QED BY <2>1, <2>5
<1>10. TypeOK'
  <2>1. buffers' \in Seq(BufferSet) /\ freeBuffers' \in Seq(Nat)
    BY <1>6 DEF Counted, Lists
  <2>2. list \in Seq(Nat) /\ Len(list) \in Nat
    BY DEF Lists
  <2>3. growLog' \in Seq([start : Nat, handle : Nat])
    BY DEF Ended
  <2> QED BY <1>1, <2>1, <2>2, <2>3 DEF TypeOK, Ended
<1> QED BY <1>9, <1>10

LEMMA EndedHandles ==
    ASSUME TypeOK, NEW w, NEW K, SweptTo(w, K), NEW list, NEW top, Ended(w, K, list, top),
           Lists(list, (1 .. top) \ K)
    PROVE  HandlesInv' /\ YoungCount' = 0
<1>1. /\ Handle' = 1 .. top /\ top \in Nat /\ Live' = K /\ \A h \in K : headers'[h].marked = TRUE
  BY EndedCells DEF CellsAfter
<1>2. /\ extent' = top /\ freeHandles' = list /\ freeCount' = Len(list)
      /\ cycle'.freeCount = Len(list) /\ cycle'.extent = top
  BY DEF Ended
<1>3. list \in Seq(Nat) /\ Len(list) \in Nat /\ \A i \in 1 .. Len(list) : list[i] \in 1 .. top
  BY DEF Lists
<1>4. Listed' = list
  <2>1. Listed' = SubSeq(list, 1, Len(list))
    BY <1>2 DEF Listed
  <2> QED BY <1>3, <2>1
<1>5. Lists(Listed, Handle \ Live)'
  <2>1. Lists(Listed', Handle' \ Live')
    BY <1>1, <1>4
  <2> QED BY <2>1 DEF Lists
<1>6. YoungCount' = 0
  BY <1>1, <1>2, <1>3 DEF YoungCount, FromList
<1>7. \A i, j \in 1 .. Len(list) : list[i] = list[j] => i = j
  BY DEF Lists
<1>8. HandlesInv'
  BY <1>1, <1>2, <1>3, <1>5, <1>7 DEF HandlesInv
<1> QED BY <1>6, <1>8

LEMMA EndedSlots ==
    ASSUME TypeOK, SlotsPlaced, NEW w, NEW K, SweptTo(w, K), NEW list, NEW top, Ended(w, K, list, top),
           YoungCount' = 0
    PROVE  SlotsPlaced' /\ SlotsAged' /\ LogOK'
<1> DEFINE P == K \intersect Tagged("slots")
<1>1. /\ Tagged("slots")' = P
      /\ \A h \in P : /\ headers'[h] = w.headers[h] /\ headers'[h].count = headers[h].count
                      /\ headers'[h].marked = TRUE /\ headers'[h].count \in Nat /\ headers'[h].start \in Nat
  <2>1. /\ Tagged("slots")' = P
        /\ \A h \in K : /\ h \in 1 .. top
                        /\ headers'[h] = w.headers[h] /\ headers'[h].count = headers[h].count
                        /\ headers'[h].marked = TRUE
    <3>1. \A tag \in {"slots", "small", "large"} : Tagged(tag)' = K \intersect Tagged(tag)
      BY EndedCells DEF CellsAfter
    <3>2. Tagged("slots")' = P
      BY <3>1
    <3>3. \A h \in K : /\ h \in 1 .. top
                       /\ headers'[h] = w.headers[h] /\ headers'[h].count = headers[h].count
                       /\ headers'[h].marked = TRUE
      <4>1. CellsAfter(w, K, top)
        BY EndedCells
      <4> QED BY <4>1 DEF CellsAfter
    <3> QED BY <3>2, <3>3
  <2>2. \A h \in 1 .. top : headers'[h] \in CellSet
    BY DEF Ended
  <2>3. \A c \in CellSet : c.start \in Nat /\ c.count \in Nat
    BY DEF CellSet
  <2> QED BY <2>1, <2>2, <2>3
<1>2. SlotsSlid(w, P, P) /\ w \in Works
  BY DEF SweptTo
<1>3. /\ Len(slots') = w.cursor /\ \A p \in 1 .. w.cursor : slots'[p] = w.slots[p]
      /\ growLog' = <<>> /\ cycle'.tail = w.cursor /\ w.cursor \in Nat
  BY <1>2, WorksFields DEF Ended
<1>4. \A h \in P : headers[h].count >= 1
  BY DEF SlotsPlaced
<1> HIDE DEF P
<1>5. \A h \in P : End(h)' = EndIn(w, h) /\ EndIn(w, h) <= w.cursor
  BY <1>1, <1>2 DEF End, EndIn, SlotsSlid
<1>6. ASSUME NEW h \in P, NEW k \in 1 .. headers'[h].count
      PROVE  slots'[headers'[h].start + k] = Written(h, k)
  <2>1. w.slots[w.headers[h].start + k] = Written(h, k)
    BY <1>1, <1>2, <1>6 DEF SlotsSlid
  <2>2. headers'[h].start + k \in 1 .. w.cursor
    BY <1>1, <1>3, <1>5, <1>6 DEF End
  <2> QED BY <1>1, <1>3, <2>1, <2>2
<1>7. \A g, h \in P : g # h => Apart(g, h)'
  BY <1>1, <1>2, <1>5 DEF Apart, ApartIn, SlotsSlid, End
<1>8. SlotsPlaced'
  BY <1>1, <1>3, <1>4, <1>5, <1>6, <1>7 DEF SlotsPlaced, Written
<1>9. \A h \in P : headers'[h].start < cycle'.tail
  BY <1>1, <1>3, <1>4, <1>5 DEF End
<1>10. SlotsAged'
  <2>1. \A h \in P : /\ headers'[h].start < cycle'.tail => headers'[h].marked /\ End(h)' <= cycle'.tail
                     /\ ~ (headers'[h].start >= cycle'.tail)
    BY <1>1, <1>3, <1>5, <1>9
  <2>2. cycle'.tail <= Len(slots')
    BY <1>3
  <2>3. \A i : i \notin 1 .. YoungCount'
    OBVIOUS
  <2> QED BY <1>1, <2>1, <2>2, <2>3 DEF SlotsAged
<1>11. LogOK'
  <2>1. Len(growLog') = 0
    BY <1>3
  <2>2. \A i : i \notin 1 .. Len(growLog')
    BY <2>1
  <2> QED BY <2>2 DEF LogOK
<1> QED BY <1>8, <1>10, <1>11

LEMMA EndedBytes ==
    ASSUME TypeOK, BytesPlaced, NEW w, NEW K, SweptTo(w, K), NEW list, NEW top, Ended(w, K, list, top),
           YoungCount' = 0
    PROVE  BytesPlaced' /\ BytesAged'
<1> DEFINE Q == K \intersect Tagged("small")
<1>1. /\ Tagged("small")' = Q /\ Handle' = 1 .. top /\ Live' = K
      /\ \A h \in K : h \in Handle' /\ headers'[h] = w.headers[h] /\ headers'[h].tag = headers[h].tag
                      /\ headers'[h].count = headers[h].count
                      /\ text'[h] = text[h]
  <2>1. \A tag \in {"slots", "small", "large"} : Tagged(tag)' = K \intersect Tagged(tag)
    BY EndedCells DEF CellsAfter
  <2>2. Tagged("small")' = Q
    BY <2>1
  <2> HIDE DEF Q
  <2>3. /\ Handle' = 1 .. top /\ Live' = K
        /\ \A h \in K : /\ h \in 1 .. top
                        /\ headers'[h] = w.headers[h] /\ headers'[h].tag = headers[h].tag
                        /\ headers'[h].count = headers[h].count /\ text'[h] = text[h]
    BY EndedCells DEF CellsAfter
  <2> QED BY <2>2, <2>3
<1>2. PICK low \in Nat : BytesSlid(w, Q, Q, low)
  BY DEF SweptTo
<1>3. w \in Works /\ Q \in SUBSET Tagged("small") /\ Q \subseteq K
  BY DEF SweptTo
<1>4. BytesFacts(Q)
  BY <1>3, BytesKnown
<1>5. \A h \in Q : headers[h].tag = "small"
  BY DEF Tagged
<1> HIDE DEF Q
<1>6. /\ w.byteCursor \in Nat /\ Len(w.bytes) = Len(bytes) /\ w.byteCursor <= Len(bytes)
      /\ \A g \in Q : /\ w.headers[g].count = headers[g].count /\ w.headers[g].start \in Nat
                      /\ EndIn(w, g) = w.headers[g].start + headers[g].count
  BY <1>2, <1>3, <1>4, BytesWork
<1>7. /\ \A h \in Q : EndIn(w, h) <= w.byteCursor
      /\ \A h \in Q : \A k \in 1 .. headers[h].count : w.bytes[w.headers[h].start + k] = bytes[headers[h].start + k]
      /\ \A g, h \in Q : NonEmpty(g) /\ NonEmpty(h) => w.headers[g].start = w.headers[h].start \/ ApartIn(w, g, h)
  BY <1>2 DEF BytesSlid, BytesDone
<1>8. \A h \in Q : End(h)' = EndIn(w, h)
  BY <1>1, <1>3 DEF End, EndIn
<1>9. /\ bytes' \in Seq(Nat) /\ Len(bytes') = w.byteCursor /\ \A p \in 1 .. w.byteCursor : bytes'[p] = w.bytes[p]
      /\ cycle'.byteTail = w.byteCursor
  BY DEF Ended
<1>10. ASSUME NEW h \in Q PROVE StorageOf(h)' = text'[h]
  <2> DEFINE s == headers[h].start
             n == headers[h].count
             r == w.headers[h].start
  <2>1. /\ s \in Nat /\ n \in Nat /\ s + n <= Len(bytes) /\ r \in Nat /\ r + n <= w.byteCursor /\ bytes \in Seq(Nat)
    BY <1>4, <1>6, <1>7 DEF BytesFacts, TypeOK
  <2>2. StorageOf(h)' = SubSeq(bytes', r + 1, r + n)
    <3>1. headers'[h].tag = "small" /\ headers'[h].start = r /\ headers'[h].count = n
      BY <1>1, <1>3, <1>5
    <3> QED BY <3>1 DEF StorageOf
  <2>3. StorageOf(h) = SubSeq(bytes, s + 1, s + n)
    BY <1>5 DEF StorageOf
  <2>4. StorageOf(h) = text[h]
    BY <1>3 DEF BytesPlaced
  <2>5. \A k \in 1 .. n : w.bytes[r + k] = bytes[s + k]
    BY <1>7
  <2> HIDE DEF s, n, r
  <2>6. /\ SubSeq(bytes, s + 1, s + n) \in Seq(Nat) /\ Len(SubSeq(bytes, s + 1, s + n)) = n
        /\ \A k \in 1 .. n : SubSeq(bytes, s + 1, s + n)[k] = bytes[s + k]
    BY <2>1
  <2>7. /\ SubSeq(bytes', r + 1, r + n) \in Seq(Nat) /\ Len(SubSeq(bytes', r + 1, r + n)) = n
        /\ \A k \in 1 .. n : SubSeq(bytes', r + 1, r + n)[k] = bytes'[r + k]
    BY <1>6, <1>9, <2>1
  <2>8. \A k \in 1 .. n : bytes'[r + k] = bytes[s + k]
    <3>1. \A k \in 1 .. n : r + k \in 1 .. w.byteCursor
      BY <1>6, <2>1
    <3> QED BY <1>9, <2>5, <3>1
  <2>9. SubSeq(bytes', r + 1, r + n) = SubSeq(bytes, s + 1, s + n)
    BY <2>1, <2>6, <2>7, <2>8, SameSeq
  <2>10. text'[h] = text[h]
    BY <1>1, <1>3
  <2> QED BY <2>2, <2>3, <2>4, <2>9, <2>10
<1>11. ASSUME NEW g \in Handle', NEW h \in Handle', NonEmpty(g)', NonEmpty(h)'
       PROVE  headers'[g].start = headers'[h].start \/ Apart(g, h)'
  <2>1. g \in Q /\ h \in Q
    <3>1. Tagged("small")' = {e \in Handle' : headers'[e].tag = "small"}
      BY DEF Tagged
    <3> QED BY <1>1, <1>11, <3>1 DEF NonEmpty
  <2>2. headers'[g].start = w.headers[g].start /\ headers'[h].start = w.headers[h].start
    BY <1>1, <1>3, <2>1
  <2>3. NonEmpty(g) /\ NonEmpty(h)
    BY <1>1, <1>3, <1>11, <2>1 DEF NonEmpty
  <2>4. w.headers[g].start = w.headers[h].start \/ ApartIn(w, g, h)
    BY <1>7, <2>1, <2>3
  <2> QED BY <1>8, <2>1, <2>2, <2>4 DEF Apart, ApartIn
<1>12. \A h \in Q : End(h)' <= Len(bytes') /\ End(h)' <= cycle'.byteTail
  BY <1>7, <1>8, <1>9
<1>13. BytesPlaced'
  BY <1>1, <1>10, <1>11, <1>12 DEF BytesPlaced
<1>14. BytesAged'
  <2>1. \A i : i \notin 1 .. YoungCount'
    OBVIOUS
  <2>2. cycle'.byteTail <= Len(bytes')
    BY <1>6, <1>9
  <2> QED BY <1>1, <1>12, <2>1, <2>2 DEF BytesAged
<1> QED BY <1>13, <1>14

\* A collection that swept the cells to the survivors leaves the invariant.
LEMMA CollectionKeeps ==
    ASSUME Inv, NEW w, NEW K, SweptTo(w, K), NEW top \in 0 .. extent, \A h \in K : h <= top,
           NEW list, Lists(list, (1 .. top) \ K), EndCollection(w, list, top)
    PROVE  Inv'
<1>1. TypeOK /\ SlotsPlaced /\ BytesPlaced /\ BuffersInv
  BY DEF Inv
<1>2. Ended(w, K, list, top)
  BY <1>1, CollectionEnded
<1>3. TypeOK' /\ BuffersInv'
  BY <1>1, <1>2, EndedTypes
<1>4. HandlesInv' /\ YoungCount' = 0
  BY <1>1, <1>2, EndedHandles
<1>5. SlotsPlaced' /\ SlotsAged' /\ LogOK'
  BY <1>1, <1>2, <1>4, EndedSlots
<1>6. BytesPlaced' /\ BytesAged'
  BY <1>1, <1>2, <1>4, EndedBytes
<1> QED BY <1>3, <1>4, <1>5, <1>6 DEF Inv
-----------------------------------------------------------------------------
(* The young cells.                                                        *)

YoungAre ==
    /\ YoungCount \in Nat
    /\ \A n \in 1 .. YoungCount : /\ YoungHandle(n) \in Handle /\ YoungHandle(n) \in Live
                                  /\ ~headers[YoungHandle(n)].marked
    /\ \A m, n \in 1 .. YoungCount : YoungHandle(m) = YoungHandle(n) => m = n
    /\ \A h \in Live : ~headers[h].marked => \E n \in 1 .. YoungCount : YoungHandle(n) = h

LEMMA YoungKnown ==
    ASSUME TypeOK, HandlesInv
    PROVE  YoungAre
<1>1. /\ extent \in Nat /\ freeCount \in Nat /\ cycle.freeCount \in Nat /\ cycle.extent \in Nat
      /\ freeHandles \in Seq(Nat)
  BY DEF TypeOK, Cycles
<1>2. /\ freeCount <= cycle.freeCount /\ cycle.freeCount <= Len(freeHandles) /\ cycle.extent <= extent
      /\ \A i \in 1 .. cycle.freeCount : freeHandles[i] \in 1 .. cycle.extent
      /\ \A i, j \in 1 .. cycle.freeCount : freeHandles[i] = freeHandles[j] => i = j
      /\ \A h \in Handle : (h \in Live /\ ~headers[h].marked) <=>
             \/ h > cycle.extent
             \/ \E i \in freeCount + 1 .. cycle.freeCount : freeHandles[i] = h
  BY DEF HandlesInv
<1>3. /\ FromList \in Nat /\ YoungCount \in Nat /\ FromList <= YoungCount
      /\ FromList = cycle.freeCount - freeCount /\ YoungCount = FromList + (extent - cycle.extent)
  BY <1>1, <1>2, SMTT(30) DEF FromList, YoungCount
<1> DEFINE fc == cycle.freeCount
           ec == cycle.extent
           F == FromList
           Y == YoungCount
<1>9. /\ extent \in Nat /\ freeCount \in Nat /\ fc \in Nat /\ ec \in Nat /\ F \in Nat /\ Y \in Nat
      /\ freeCount <= fc /\ ec <= extent /\ F = fc - freeCount /\ Y = F + (extent - ec)
  BY <1>1, <1>2, <1>3
<1>10. /\ \A n \in 1 .. F : fc + 1 - n \in freeCount + 1 .. fc /\ fc + 1 - n \in 1 .. fc
       /\ \A n \in 1 .. Y : n \notin 1 .. F => /\ ~ (n <= F) /\ n \in Nat /\ ec + (n - F) > ec
                                             /\ ec + (n - F) \in 1 .. extent
       /\ \A m, n \in 1 .. F : fc + 1 - m = fc + 1 - n => m = n
       /\ \A m, n \in 1 .. Y : ec + (m - F) = ec + (n - F) => m = n
       /\ \A h \in 1 .. extent : h > ec => /\ F + (h - ec) \in 1 .. Y /\ F + (h - ec) \notin 1 .. F
                                           /\ ec + ((F + (h - ec)) - F) = h
       /\ \A i \in freeCount + 1 .. fc : /\ fc + 1 - i \in 1 .. F /\ fc + 1 - i \in 1 .. Y
                                         /\ fc + 1 - (fc + 1 - i) = i
  <2> HIDE DEF fc, ec, F, Y
  <2> QED BY <1>9
<1>4. ASSUME NEW n \in 1 .. FromList
      PROVE  /\ cycle.freeCount + 1 - n \in freeCount + 1 .. cycle.freeCount
             /\ cycle.freeCount + 1 - n \in 1 .. cycle.freeCount
             /\ YoungHandle(n) = freeHandles[cycle.freeCount + 1 - n] /\ YoungHandle(n) \in 1 .. cycle.extent
  <2>1. cycle.freeCount + 1 - n \in freeCount + 1 .. cycle.freeCount /\ cycle.freeCount + 1 - n \in 1 .. cycle.freeCount
    BY <1>10
  <2>2. n <= FromList
    OBVIOUS
  <2>3. YoungHandle(n) = freeHandles[cycle.freeCount + 1 - n]
    BY <2>2 DEF YoungHandle
  <2> QED BY <1>2, <2>1, <2>3
<1>5. ASSUME NEW n \in 1 .. YoungCount, n \notin 1 .. FromList
      PROVE  YoungHandle(n) = cycle.extent + (n - FromList) /\ YoungHandle(n) > cycle.extent /\ YoungHandle(n) \in 1 .. extent
  <2>1. /\ ~ (n <= FromList) /\ n \in Nat /\ cycle.extent + (n - FromList) > cycle.extent
        /\ cycle.extent + (n - FromList) \in 1 .. extent
    BY <1>5, <1>10
  <2>2. YoungHandle(n) = cycle.extent + (n - FromList)
    BY <2>1 DEF YoungHandle
  <2> QED BY <2>1, <2>2
<1>6. ASSUME NEW n \in 1 .. YoungCount
      PROVE  YoungHandle(n) \in Handle /\ YoungHandle(n) \in Live /\ ~headers[YoungHandle(n)].marked
  <2>1. CASE n \in 1 .. FromList
    <3>1. YoungHandle(n) \in Handle
      BY <1>1, <1>2, <1>4, <2>1 DEF Handle
    <3>2. \E i \in freeCount + 1 .. cycle.freeCount : freeHandles[i] = YoungHandle(n)
      BY <1>4, <2>1
    <3> QED BY <1>2, <3>1, <3>2
  <2>2. CASE n \notin 1 .. FromList
    <3>1. YoungHandle(n) \in Handle /\ YoungHandle(n) > cycle.extent
      BY <1>5, <2>2 DEF Handle
    <3> QED BY <1>2, <3>1
  <2> QED BY <2>1, <2>2
<1>7. ASSUME NEW m \in 1 .. YoungCount, NEW n \in 1 .. YoungCount, YoungHandle(m) = YoungHandle(n)
      PROVE  m = n
  <2>1. CASE m \in 1 .. FromList /\ n \in 1 .. FromList
    <3>1. cycle.freeCount + 1 - m = cycle.freeCount + 1 - n
      BY <1>2, <1>4, <1>7, <2>1
    <3> QED BY <1>10, <2>1, <3>1
  <2>2. CASE m \notin 1 .. FromList /\ n \notin 1 .. FromList
    <3>1. cycle.extent + (m - FromList) = cycle.extent + (n - FromList)
      BY <1>5, <1>7, <2>2
    <3> QED BY <1>10, <3>1
  <2>3. CASE m \in 1 .. FromList /\ n \notin 1 .. FromList
    BY <1>1, <1>4, <1>5, <1>7, <2>3
  <2>4. CASE m \notin 1 .. FromList /\ n \in 1 .. FromList
    BY <1>1, <1>4, <1>5, <1>7, <2>4
  <2> QED BY <2>1, <2>2, <2>3, <2>4
<1>8. ASSUME NEW h \in Live, ~headers[h].marked PROVE \E n \in 1 .. YoungCount : YoungHandle(n) = h
  <2>1. h \in Handle /\ h \in 1 .. extent
    BY DEF Live, Handle
  <2>2. CASE h > cycle.extent
    <3> DEFINE n == FromList + (h - cycle.extent)
    <3>1. n \in 1 .. YoungCount /\ n \notin 1 .. FromList /\ cycle.extent + (n - FromList) = h
      BY <1>10, <2>1, <2>2
    <3> HIDE DEF n
    <3> QED BY <1>5, <3>1
  <2>3. CASE \E i \in freeCount + 1 .. cycle.freeCount : freeHandles[i] = h
    <3>1. PICK i \in freeCount + 1 .. cycle.freeCount : freeHandles[i] = h
      BY <2>3
    <3> DEFINE n == cycle.freeCount + 1 - i
    <3>2. n \in 1 .. FromList /\ n \in 1 .. YoungCount /\ cycle.freeCount + 1 - n = i
      BY <1>10, <3>1
    <3> HIDE DEF n
    <3> QED BY <1>4, <3>1, <3>2
  <2> QED BY <1>2, <1>8, <2>1, <2>2, <2>3
<1> QED BY <1>3, <1>6, <1>7, <1>8 DEF YoungAre

\* Least numbers and recursion, from any number.
LEMMA UpFrom ==
    ASSUME NEW A \in Nat, NEW B \in Nat, A <= B, NEW H, A \in H, \A n \in A + 1 .. B : n - 1 \in H => n \in H
    PROVE  \A n \in A .. B : n \in H
<1> SUFFICES ASSUME \E n \in A .. B : n \notin H PROVE FALSE
  OBVIOUS
<1> DEFINE T == {n \in A .. B : n \notin H}
<1>1. T \in SUBSET Nat /\ T # {}
  OBVIOUS
<1>2. PICK n \in T : \A m \in T : n <= m
  <2> HIDE DEF T
  <2> QED BY <1>1, Least
<1>3. n # A /\ n \in A + 1 .. B /\ n - 1 \in A .. B /\ n - 1 \notin T
  BY <1>2
<1> QED BY <1>2, <1>3

\* A walk whose every step leads from good to good has a function of its
\* steps.
FollowsFrom(f, A, B, base, G) == f = [n \in A .. B |-> IF n = A THEN base ELSE G[n][f[n - 1]]]

LEMMA Walk ==
    ASSUME NEW A \in Nat, NEW B \in Nat, A <= B, NEW S, NEW Good \in [A .. B -> SUBSET S], NEW base \in Good[A],
           NEW G, \A n \in A + 1 .. B : \A x \in Good[n - 1] : G[n][x] \in Good[n]
    PROVE  \E f : FollowsFrom(f, A, B, base, G) /\ \A n \in A .. B : f[n] \in Good[n]
<1> DEFINE N == B - A
           K == [k \in 1 .. N |-> [x \in S |-> IF x \in Good[A + k - 1] THEN G[A + k][x] ELSE base]]
<1>1. N \in Nat /\ base \in S /\ A \in A .. B
  OBVIOUS
<1>2. \A k \in 1 .. N : A + k \in A + 1 .. B /\ A + k - 1 \in A .. B /\ A + k \in A .. B
  OBVIOUS
<1>3. K \in [1 .. N -> [S -> S]]
  <2>1. \A k \in 1 .. N : \A x \in S : (IF x \in Good[A + k - 1] THEN G[A + k][x] ELSE base) \in S
    BY <1>1, <1>2
  <2> HIDE DEF N
  <2> QED BY <2>1
<1> HIDE DEF K
<1>4. PICK g \in [0 .. N -> S] : Follows(g, N, base, K)
  <2> HIDE DEF N
  <2> QED BY <1>1, <1>3, Recursion
<1>5. /\ g[0] = base
      /\ \A k \in 1 .. N : g[k] = IF g[k - 1] \in Good[A + k - 1] THEN G[A + k][g[k - 1]] ELSE base
  <2>1. g[0] = base
    BY <1>4 DEF Follows
  <2>2. \A k \in 1 .. N : g[k] = K[k][g[k - 1]]
    BY <1>4 DEF Follows
  <2>3. \A k \in 1 .. N : g[k - 1] \in S
    BY <1>4
  <2> QED BY <2>1, <2>2, <2>3 DEF K
<1> DEFINE H == {k \in 0 .. N : g[k] \in Good[A + k]}
<1>6. \A k \in 0 .. N : g[k] \in Good[A + k]
  <2>1. 0 \in H
    BY <1>1, <1>5
  <2>2. ASSUME NEW k \in 1 .. N, k - 1 \in H PROVE k \in H
    <3>1. A + (k - 1) = A + k - 1
      OBVIOUS
    <3>2. g[k - 1] \in Good[A + k - 1]
      BY <2>2, <3>1
    <3>3. g[k] = G[A + k][g[k - 1]] /\ A + k \in A + 1 .. B
      BY <1>2, <1>5, <3>2
    <3>4. A + k - 1 = (A + k) - 1
      OBVIOUS
    <3>5. G[A + k][g[k - 1]] \in Good[A + k]
      BY <3>2, <3>3, <3>4
    <3> QED BY <3>3, <3>5
  <2>3. \A k \in 0 .. N : k \in H
    <3> HIDE DEF H, N
    <3> QED BY <1>1, <2>1, <2>2, UpTo
  <2> QED BY <2>3
<1> DEFINE f == [n \in A .. B |-> g[n - A]]
<1>7. \A n \in A .. B : n - A \in 0 .. N /\ A + (n - A) = n /\ (n # A => n - A \in 1 .. N /\ n - 1 \in A .. B /\ (n - 1) - A = (n - A) - 1
                        /\ A + (n - A) - 1 = n - 1)
  OBVIOUS
<1>8. \A n \in A .. B : f[n] \in Good[n]
  BY <1>6, <1>7
<1>9. ASSUME NEW n \in A .. B PROVE f[n] = IF n = A THEN base ELSE G[n][f[n - 1]]
  <2>1. CASE n = A
    BY <1>1, <1>5, <2>1
  <2>2. CASE n # A
    <3> DEFINE k == n - A
    <3>1. k \in 1 .. N /\ A + k = n /\ A + k - 1 = n - 1 /\ n - 1 \in A .. B /\ (n - 1) - A = k - 1
      BY <1>7, <2>2
    <3>2. f[n] = g[k] /\ f[n - 1] = g[k - 1]
      BY <3>1
    <3>3. g[k - 1] \in Good[n - 1]
      BY <1>8, <3>1, <3>2
    <3> HIDE DEF k, f
    <3>4. g[k] = G[n][g[k - 1]]
      BY <1>5, <3>1, <3>3
    <3> QED BY <2>2, <3>2, <3>4
  <2> QED BY <2>1, <2>2
<1>10. f = [n \in A .. B |-> f[n]]
  OBVIOUS
<1> HIDE DEF f
<1>11. FollowsFrom(f, A, B, base, G)
  BY <1>9, <1>10 DEF FollowsFrom
<1> QED BY <1>8, <1>11
-----------------------------------------------------------------------------
(* The minor collection's walk.                                            *)

\* The old cells all survive it.
OldKept(K) == K \subseteq Live /\ \A h \in Live : headers[h].marked => h \in K

KeptSlots(K) == K \intersect Tagged("slots")
KeptSmall(K) == K \intersect Tagged("small")

\* When it has walked n of the young cells and g of the log's entries, these
\* are placed, and these are dead.
SlotsDone(K, n, g) ==
    {h \in KeptSlots(K) : \/ headers[h].start < cycle.tail
                          \/ Unmoved(h) /\ \E i \in 1 .. n : YoungHandle(i) = h
                          \/ \E j \in 1 .. g : Current(j, h)}
StringsDone(K, n) == {h \in KeptSmall(K) : headers[h].marked \/ \E i \in 1 .. n : YoungHandle(i) = h}
DeadBy(K, n) == {h \in Live \ K : \E i \in 1 .. n : YoungHandle(i) = h}

CellsWalked(w, K, n) ==
    /\ Len(w.headers) = extent
    /\ \A h \in K : /\ w.headers[h].tag = headers[h].tag /\ w.headers[h].count = headers[h].count
                    /\ w.headers[h].buffer = headers[h].buffer /\ w.headers[h].marked = TRUE
    /\ \A h \in Live \ K : w.headers[h].marked = FALSE
    /\ \A h \in Handle \ K : h \notin Live \/ h \in DeadBy(K, n) => w.headers[h].tag = "free"

Walking(w, K, n, g, atoms) ==
    /\ w \in Works
    /\ CellsWalked(w, K, n)
    /\ DeadIn(w, DeadBy(K, n), atoms)
    /\ SlotsSlid(w, KeptSlots(K), SlotsDone(K, n, g))
    /\ BytesSlid(w, KeptSmall(K), StringsDone(K, n), cycle.byteTail)

\* What has not been walked is as it was, its mark apart.
MovedKept(w, n) ==
    \A i \in n + 1 .. YoungCount : w.headers[YoungHandle(i)].moved = headers[YoungHandle(i)].moved

\* Cells but for their starts, and for whether they moved.
CellsAlike(v, w) ==
    /\ Len(v.headers) = Len(w.headers)
    /\ \A h \in 1 .. Len(w.headers) :
           /\ v.headers[h].tag = w.headers[h].tag /\ v.headers[h].count = w.headers[h].count
           /\ v.headers[h].buffer = w.headers[h].buffer /\ v.headers[h].marked = w.headers[h].marked

LEMMA WalkedAlike ==
    ASSUME TypeOK, NEW K \in SUBSET Live, NEW n, NEW w, CellsWalked(w, K, n), NEW v, CellsAlike(v, w)
    PROVE  CellsWalked(v, K, n)
<1>1. K \subseteq Handle /\ Handle = 1 .. extent
  BY DEF Live, Handle
<1>2. /\ Len(v.headers) = extent
      /\ \A h \in Handle :
             /\ v.headers[h].tag = w.headers[h].tag /\ v.headers[h].count = w.headers[h].count
             /\ v.headers[h].buffer = w.headers[h].buffer /\ v.headers[h].marked = w.headers[h].marked
  BY <1>1 DEF CellsAlike, CellsWalked
<1>3. \A h \in K : /\ v.headers[h].tag = headers[h].tag /\ v.headers[h].count = headers[h].count
                   /\ v.headers[h].buffer = headers[h].buffer /\ v.headers[h].marked = TRUE
  BY <1>1, <1>2 DEF CellsWalked
<1>4. /\ \A h \in Live \ K : v.headers[h].marked = FALSE
      /\ \A h \in Handle \ K : h \notin Live \/ h \in DeadBy(K, n) => v.headers[h].tag = "free"
  BY <1>2 DEF CellsWalked, Live
<1> QED BY <1>2, <1>3, <1>4 DEF CellsWalked

LEMMA StartOnlyAlike ==
    ASSUME NEW w, NEW v, NEW h, StartOnly(v, w, h)
    PROVE  CellsAlike(v, w) /\ \A g \in 1 .. Len(w.headers) : v.headers[g].moved = w.headers[g].moved
BY DEF StartOnly, CellsAlike

\* Facts of the cells that the walk's steps use.
LEMMA SlotsWhere ==
    ASSUME TypeOK, HandlesInv, SlotsAged, LogOK, NEW K, OldKept(K), NEW n \in Nat, NEW g \in Nat,
           NEW h \in KeptSlots(K), h \notin SlotsDone(K, n, g)
    PROVE  /\ headers[h].start >= cycle.tail
           /\ \/ Unmoved(h) /\ \E i \in n + 1 .. YoungCount : YoungHandle(i) = h
              \/ ~Unmoved(h) /\ \E j \in g + 1 .. Len(growLog) : Current(j, h)
<1>1. /\ cycle.tail \in Nat /\ headers[h].start \in Nat /\ h \in Tagged("slots") /\ h \in Live
      /\ YoungCount \in Nat /\ Len(growLog) \in Nat
  <2>1. h \in Tagged("slots") /\ h \in Live /\ h \in 1 .. extent
    BY DEF KeptSlots, Tagged, Live, OldKept, Handle
  <2>2. headers[h] \in CellSet
    BY <2>1 DEF TypeOK
  <2>3. YoungCount \in Nat
    BY YoungKnown DEF YoungAre
  <2> QED BY <2>1, <2>2, <2>3 DEF TypeOK, CellSet, Cycles
<1>2. /\ ~ (headers[h].start < cycle.tail)
      /\ ~ (Unmoved(h) /\ \E i \in 1 .. n : YoungHandle(i) = h)
      /\ ~ (\E j \in 1 .. g : Current(j, h))
  BY DEF SlotsDone
<1>3. headers[h].start >= cycle.tail
  BY <1>1, <1>2
<1>4. Unmoved(h) \/ \E j \in 1 .. Len(growLog) : Current(j, h)
  BY <1>1, <1>3 DEF SlotsAged
<1>5. CASE Unmoved(h)
  <2>1. PICK i \in 1 .. YoungCount : YoungHandle(i) = h
    BY <1>1, <1>5, YoungKnown DEF YoungAre, Unmoved
  <2>2. i \notin 1 .. n
    BY <1>2, <1>5, <2>1
  <2>3. i \in n + 1 .. YoungCount
    BY <1>1, <2>2
  <2> QED BY <1>3, <1>5, <2>1, <2>3
<1>6. CASE ~Unmoved(h)
  <2>1. PICK j \in 1 .. Len(growLog) : Current(j, h)
    BY <1>4, <1>6
  <2>2. j \in g + 1 .. Len(growLog)
    BY <1>1, <1>2, <2>1
  <2> QED BY <1>3, <1>6, <2>1, <2>2
<1> QED BY <1>5, <1>6

LogKnown ==
    /\ Len(growLog) \in Nat
    /\ \A i \in 1 .. Len(growLog) : growLog[i].start \in Nat /\ growLog[i].handle \in Nat

LEMMA LogIs ==
    ASSUME TypeOK
    PROVE  LogKnown
<1> DEFINE E == [start : Nat, handle : Nat]
<1>1. growLog \in Seq(E)
  BY DEF TypeOK
<1>2. \A e \in E : e.start \in Nat /\ e.handle \in Nat
  OBVIOUS
<1> HIDE DEF E
<1>3. Len(growLog) \in Nat /\ \A i \in 1 .. Len(growLog) : growLog[i] \in E
  BY <1>1
<1> QED BY <1>2, <1>3 DEF LogKnown

\* The cell of an entry of the log that has not been walked is not placed.
LEMMA LogWhere ==
    ASSUME TypeOK, LogOK, NEW K, NEW n, NEW j \in 1 .. Len(growLog)
    PROVE  growLog[j].handle \notin SlotsDone(K, n, j - 1)
<1> DEFINE h == growLog[j].handle
<1>1. /\ cycle.tail <= growLog[j].start /\ growLog[j].start <= headers[h].start
      /\ h \in Tagged("slots") /\ ~Unmoved(h)
  BY DEF LogOK
<1>2. Len(growLog) \in Nat /\ \A i \in 1 .. Len(growLog) : growLog[i].start \in Nat
  BY LogIs DEF LogKnown
<1>3. headers[h].start \in Nat /\ cycle.tail \in Nat
  <2>1. headers[h] \in CellSet
    BY <1>1, SMTT(30) DEF TypeOK, Tagged, Handle
  <2> QED BY <2>1 DEF TypeOK, CellSet, Cycles
<1>4. ~ (headers[h].start < cycle.tail)
  BY <1>1, <1>2, <1>3
<1>5. ASSUME NEW i \in 1 .. j - 1, Current(i, h) PROVE FALSE
  <2>1. i \in 1 .. Len(growLog) /\ i < j
    BY <1>2
  <2>2. growLog[i].start < growLog[j].start
    BY <2>1 DEF LogOK
  <2>3. growLog[i].start = headers[h].start
    BY <1>5 DEF Current
  <2> QED BY <1>1, <1>2, <1>3, <2>1, <2>2, <2>3
<1> HIDE DEF h
<1>6. h \notin SlotsDone(K, n, j - 1)
  BY <1>1, <1>4, <1>5 DEF SlotsDone
<1> QED BY <1>6 DEF h

\* A slide of a cell's slots leaves the rest of the walk's work.
MovedAlike(v, w) == \A h \in 1 .. Len(w.headers) : v.headers[h].moved = w.headers[h].moved
GrownFrom(v, w) == CellsAlike(v, w) /\ MovedAlike(v, w) /\ v.grown = w.grown

LEMMA GrownOn ==
    ASSUME NEW u, NEW v, NEW w, GrownFrom(v, w), GrownFrom(w, u)
    PROVE  GrownFrom(v, u)
BY DEF GrownFrom, CellsAlike, MovedAlike

LEMMA SlotsLeaveRest ==
    ASSUME TypeOK, NEW K \in SUBSET Live, NEW n, NEW g, NEW atoms, NEW w, Walking(w, K, n, g, atoms),
           NEW h \in KeptSlots(K), NEW v, RangeSlid(v, w, h)
    PROVE  /\ v \in Works /\ CellsWalked(v, K, n) /\ DeadIn(v, DeadBy(K, n), atoms)
           /\ BytesSlid(v, KeptSmall(K), StringsDone(K, n), cycle.byteTail)
           /\ GrownFrom(v, w)
<1>1. /\ v \in Works /\ StartOnly(v, w, h) /\ SameBytes(v, w) /\ SameDead(v, w) /\ v.grown = w.grown
  BY DEF RangeSlid
<1>2. /\ CellsWalked(w, K, n) /\ DeadIn(w, DeadBy(K, n), atoms)
      /\ BytesSlid(w, KeptSmall(K), StringsDone(K, n), cycle.byteTail) /\ Len(w.headers) = extent
  BY DEF Walking, CellsWalked
<1>3. CellsAlike(v, w) /\ MovedAlike(v, w)
  BY <1>1, StartOnlyAlike DEF MovedAlike
<1>4. CellsWalked(v, K, n)
  BY <1>2, <1>3, WalkedAlike
<1>5. DeadIn(v, DeadBy(K, n), atoms)
  BY <1>1, <1>2 DEF DeadIn, SameDead
<1>6. \A e \in KeptSmall(K) : v.headers[e].start = w.headers[e].start /\ v.headers[e].count = w.headers[e].count
  <2>1. \A e \in KeptSmall(K) : e # h /\ e \in 1 .. Len(w.headers)
    BY <1>2 DEF KeptSmall, KeptSlots, Tagged, Handle
  <2> QED BY <1>1, <2>1 DEF StartOnly
<1>7. Len(v.headers) = Len(w.headers)
  BY <1>1 DEF StartOnly
<1>8. BytesSlid(v, KeptSmall(K), StringsDone(K, n), cycle.byteTail)
  BY <1>1, <1>2, <1>6, <1>7, BytesSlidElsewhere
<1> QED BY <1>1, <1>3, <1>4, <1>5, <1>8 DEF GrownFrom

\* No unmoved cell still to come is below the entry.
NoneBelow(K, n, start) ==
    \A i \in n + 1 .. YoungCount :
        YoungHandle(i) \in K /\ Unmoved(YoungHandle(i)) => start <= headers[YoungHandle(i)].start

\* One entry of the log.
LEMMA SlideGrownOn ==
    ASSUME TypeOK, HandlesInv, SlotsPlaced, SlotsAged, LogOK, NEW K, OldKept(K), NEW n \in Nat,
           NEW j \in 1 .. Len(growLog), NoneBelow(K, n, growLog[j].start),
           NEW atoms, NEW w, Walking(w, K, n, j - 1, atoms)
    PROVE  Walking(SlideGrown(w, growLog[j]), K, n, j, atoms) /\ GrownFrom(SlideGrown(w, growLog[j]), w)
<1> DEFINE h == growLog[j].handle
           v == SlideGrown(w, growLog[j])
           P == KeptSlots(K)
           S == SlotsDone(K, n, j - 1)
<1>1. /\ h \in Tagged("slots") /\ h \in Live /\ h \in Handle /\ K \in SUBSET Live
      /\ LogKnown /\ h \notin S
  BY LogIs, LogWhere DEF LogOK, Tagged, Live, Handle, OldKept
<1>2. /\ w \in Works /\ CellsWalked(w, K, n) /\ SlotsSlid(w, P, S) /\ Len(w.headers) = extent
      /\ DeadIn(w, DeadBy(K, n), atoms) /\ BytesSlid(w, KeptSmall(K), StringsDone(K, n), cycle.byteTail)
  BY DEF Walking, CellsWalked
<1>3. \A g : Current(j, g) => g = h
  BY DEF Current
<1>4. /\ j - 1 \in Nat /\ j \in Nat
      /\ SlotsDone(K, n, j) = S \union {g \in P : Current(j, g)}
  <2>1. j - 1 \in Nat /\ j \in Nat /\ 1 .. j = (1 .. j - 1) \union {j}
    BY <1>1 DEF LogKnown
  <2> QED BY <2>1 DEF SlotsDone
<1>5. CASE h \in K /\ headers[h].start = growLog[j].start
  <2>1. h \in P /\ Current(j, h)
    BY <1>1, <1>5 DEF Current, KeptSlots
  <2>2. w.headers[h].start = growLog[j].start /\ w.headers[h].tag = "slots" /\ w.headers[h].marked
    <3>1. w.headers[h].tag = headers[h].tag /\ w.headers[h].marked = TRUE
      BY <1>2, <1>5 DEF CellsWalked
    <3>2. w.headers[h].start = headers[h].start
      BY <1>1, <1>2, <2>1 DEF SlotsSlid
    <3> QED BY <1>1, <1>5, <3>1, <3>2 DEF Tagged
  <2>3. v = SlideRange(w, h)
    BY <2>2 DEF SlideGrown
  <2>4. ASSUME NEW g \in P \ S PROVE headers[h].start <= headers[g].start
    <3>1. \/ Unmoved(g) /\ \E i \in n + 1 .. YoungCount : YoungHandle(i) = g
          \/ ~Unmoved(g) /\ \E i \in j - 1 + 1 .. Len(growLog) : Current(i, g)
      BY <1>4, SlotsWhere
    <3>2. CASE Unmoved(g) /\ \E i \in n + 1 .. YoungCount : YoungHandle(i) = g
      BY <1>5, <3>2 DEF NoneBelow, KeptSlots
    <3>3. CASE \E i \in j - 1 + 1 .. Len(growLog) : Current(i, g)
      <4>1. PICK i \in j - 1 + 1 .. Len(growLog) : Current(i, g)
        BY <3>3
      <4>2. i \in 1 .. Len(growLog) /\ (i = j \/ j < i)
        BY <1>1 DEF LogKnown
      <4>3. growLog[j].start <= growLog[i].start /\ growLog[j].start \in Nat /\ growLog[i].start \in Nat
        <5>1. growLog[j].start \in Nat /\ growLog[i].start \in Nat
          BY <1>1, <4>2 DEF LogKnown
        <5>2. CASE i = j
          BY <5>1, <5>2
        <5>3. CASE j < i
          <6>1. growLog[j].start < growLog[i].start
            BY <4>2, <5>3 DEF LogOK
          <6> QED BY <5>1, <6>1
        <5> QED BY <4>2, <5>1, <5>2, <5>3
      <4> QED BY <1>5, <4>1, <4>3 DEF Current
    <3> QED BY <3>1, <3>2, <3>3
  <2> HIDE DEF v, S, h
  <2>5. SlotsSlid(v, P, S \union {h}) /\ RangeSlid(v, w, h)
    <3>1. P \in SUBSET Tagged("slots") /\ h \in P \ S
      BY <1>1, <2>1 DEF KeptSlots
    <3> HIDE DEF P
    <3> QED BY <1>2, <2>3, <2>4, <3>1, SlotsSlideOn
  <2>6. SlotsDone(K, n, j) = S \union {h}
    BY <1>3, <1>4, <2>1
  <2>7. /\ v \in Works /\ CellsWalked(v, K, n) /\ DeadIn(v, DeadBy(K, n), atoms)
        /\ BytesSlid(v, KeptSmall(K), StringsDone(K, n), cycle.byteTail)
        /\ GrownFrom(v, w)
    BY <1>1, <2>1, <2>5, SlotsLeaveRest
  <2> QED BY <2>5, <2>6, <2>7 DEF Walking, v
<1>6. CASE ~ (h \in K /\ headers[h].start = growLog[j].start)
  <2>1. v = w
    <3>1. CASE h \notin K
      <4>1. w.headers[h].marked = FALSE
        BY <1>1, <1>2, <3>1 DEF CellsWalked
      <4> QED BY <4>1 DEF SlideGrown
    <3>2. CASE h \in K
      <4>1. h \in P \ S
        BY <1>1, <3>2 DEF KeptSlots
      <4>2. w.headers[h].start = headers[h].start
        BY <1>2, <4>1 DEF SlotsSlid
      <4>3. w.headers[h].start # growLog[j].start
        BY <1>6, <3>2, <4>2
      <4> QED BY <4>3 DEF SlideGrown
    <3> QED BY <3>1, <3>2
  <2>2. {g \in P : Current(j, g)} = {}
    BY <1>3, <1>6 DEF Current, KeptSlots
  <2>3. SlotsDone(K, n, j) = S
    BY <1>4, <2>2
  <2>4. GrownFrom(w, w)
    BY DEF GrownFrom, CellsAlike, MovedAlike
  <2> HIDE DEF v, S
  <2> QED BY <1>2, <2>1, <2>3, <2>4 DEF Walking, v
<1> QED BY <1>5, <1>6

\* The entries up to one.
LEMMA SlideGrownToOn ==
    ASSUME TypeOK, HandlesInv, SlotsPlaced, SlotsAged, LogOK, NEW K, OldKept(K), NEW n \in Nat,
           NEW atoms, NEW w, Walking(w, K, n, w.grown, atoms), NEW last \in w.grown .. Len(growLog),
           \A j \in w.grown + 1 .. last : NoneBelow(K, n, growLog[j].start)
    PROVE  /\ Walking(SlideGrownTo(w, last), K, n, last, atoms)
           /\ CellsAlike(SlideGrownTo(w, last), w) /\ MovedAlike(SlideGrownTo(w, last), w)
           /\ SlideGrownTo(w, last).grown = last
<1> DEFINE A == w.grown
           Good == [j \in A .. last |-> {x \in Works : Walking(x, K, n, j, atoms) /\ GrownFrom(x, w)}]
           Step(j, x) == SlideGrown(x, growLog[j])
           G == [j \in A + 1 .. last |-> [x \in Works |-> Step(j, x)]]
           Body(g) == [j \in w.grown .. last |->
                          IF j = w.grown THEN w ELSE SlideGrown(g[j - 1], growLog[j])]
           slid == CHOOSE g : g = Body(g)
<1>1. w \in Works /\ A \in Nat /\ Len(growLog) \in Nat /\ last \in Nat /\ A <= last
  <2>1. w \in Works
    BY DEF Walking
  <2>2. w.grown \in Nat /\ Len(growLog) \in Nat
    BY <2>1, WorksFields, LogIs DEF LogKnown
  <2> QED BY <2>1, <2>2
<1>2. Good \in [A .. last -> SUBSET Works] /\ w \in Good[A]
  <2>1. GrownFrom(w, w)
    BY DEF GrownFrom, CellsAlike, MovedAlike
  <2>2. A \in A .. last
    BY <1>1
  <2> QED BY <1>1, <2>1, <2>2
<1>3. \A j \in A + 1 .. last : j \in 1 .. Len(growLog) /\ j - 1 \in A .. last /\ j \in A .. last
  BY <1>1
<1>4. ASSUME NEW j \in A + 1 .. last, NEW x \in Good[j - 1]
      PROVE  Step(j, x) \in Good[j] /\ G[j][x] = Step(j, x)
  <2>1. Walking(x, K, n, j - 1, atoms) /\ GrownFrom(x, w) /\ x \in Works
    BY <1>3, <1>4
  <2>2. Walking(Step(j, x), K, n, j, atoms) /\ GrownFrom(Step(j, x), x)
    <3>1. j \in 1 .. Len(growLog) /\ NoneBelow(K, n, growLog[j].start)
      BY <1>3, <1>4
    <3> QED BY <2>1, <3>1, SlideGrownOn
  <2> HIDE DEF Step
  <2>3. GrownFrom(Step(j, x), w)
    BY <2>1, <2>2, GrownOn
  <2>4. Step(j, x) \in Works
    BY <2>2 DEF Walking
  <2> QED BY <1>3, <2>1, <2>2, <2>3, <2>4
<1>5. \A j \in A + 1 .. last : \A x \in Good[j - 1] : Step(j, x) \in Good[j] /\ G[j][x] = Step(j, x)
  BY <1>4
<1> HIDE DEF Good, G
<1>6. PICK f : FollowsFrom(f, A, last, w, G) /\ \A j \in A .. last : f[j] \in Good[j]
  <2>1. \A j \in A + 1 .. last : \A x \in Good[j - 1] : G[j][x] \in Good[j]
    <3> HIDE DEF Step
    <3> QED BY <1>5
  <2> HIDE DEF A, Step
  <2> QED BY <1>1, <1>2, <2>1, Walk, ZenonT(40)
<1>7. f = Body(f)
  <2>1. \A j \in A .. last : (IF j = A THEN w ELSE G[j][f[j - 1]]) = (IF j = A THEN w ELSE Step(j, f[j - 1]))
    <3>1. \A j \in A .. last : j # A => j \in A + 1 .. last /\ j - 1 \in A .. last
      BY <1>1
    <3> HIDE DEF Step
    <3> QED BY <1>5, <1>6, <3>1
  <2>2. f = [j \in A .. last |-> IF j = A THEN w ELSE Step(j, f[j - 1])]
    <3> HIDE DEF Step
    <3> QED BY <1>6, <2>1 DEF FollowsFrom
  <2> QED BY <2>2, Zenon
<1>8. slid = Body(slid)
  <2> HIDE DEF Body
  <2> QED BY <1>7
<1>9. SlideGrownTo(w, last) = [slid[last] EXCEPT !.grown = last]
  BY Zenon DEF SlideGrownTo
<1> HIDE DEF slid
<1>10. slid[A] = w /\ \A j \in A + 1 .. last : slid[j] = Step(j, slid[j - 1])
  <2>1. \A j \in A .. last : slid[j] = IF j = A THEN w ELSE Step(j, slid[j - 1])
    <3>1. slid = [j \in A .. last |-> IF j = A THEN w ELSE Step(j, slid[j - 1])]
      BY <1>8, Zenon
    <3> HIDE DEF Step
    <3> QED BY <3>1, Zenon
  <2>2. A \in A .. last /\ \A j \in A + 1 .. last : j \in A .. last /\ j # A
    BY <1>1
  <2> HIDE DEF Step
  <2> QED BY <2>1, <2>2
<1>11. slid[last] \in Good[last]
  <2> DEFINE H == {j \in A .. last : slid[j] \in Good[j]}
  <2>1. A \in H
    BY <1>1, <1>2, <1>10
  <2>2. \A j \in A + 1 .. last : j - 1 \in H => j \in H
    <3> HIDE DEF Step
    <3> QED BY <1>3, <1>5, <1>10
  <2>3. \A j \in A .. last : j \in H
    <3> HIDE DEF H, A
    <3> QED BY <1>1, <2>1, <2>2, UpFrom
  <2>4. last \in A .. last
    BY <1>1
  <2> QED BY <2>3, <2>4
<1> DEFINE x == slid[last]
           v == [x EXCEPT !.grown = last]
<1>12. x \in Works /\ Walking(x, K, n, last, atoms) /\ GrownFrom(x, w)
  <2>1. last \in A .. last
    BY <1>1
  <2> QED BY <1>11, <2>1 DEF Good
<1> HIDE DEF x
<1>13. v \in Works /\ v.grown = last /\ v.headers = x.headers /\ SameSlots(v, x) /\ SameBytes(v, x) /\ SameDead(v, x)
  BY <1>1, <1>12 DEF Works, SameSlots, SameBytes, SameDead
<1> HIDE DEF v
<1>14. Walking(v, K, n, last, atoms)
  <2>1. /\ CellsWalked(x, K, n) /\ DeadIn(x, DeadBy(K, n), atoms)
        /\ SlotsSlid(x, KeptSlots(K), SlotsDone(K, n, last))
        /\ BytesSlid(x, KeptSmall(K), StringsDone(K, n), cycle.byteTail)
    BY <1>12 DEF Walking
  <2>2. CellsWalked(v, K, n) /\ DeadIn(v, DeadBy(K, n), atoms)
    BY <1>13, <2>1 DEF CellsWalked, DeadIn, SameDead
  <2>3. SlotsSlid(v, KeptSlots(K), SlotsDone(K, n, last))
    BY <1>13, <2>1, SlotsSlidElsewhere
  <2>4. BytesSlid(v, KeptSmall(K), StringsDone(K, n), cycle.byteTail)
    BY <1>13, <2>1, BytesSlidElsewhere
  <2> QED BY <1>13, <2>2, <2>3, <2>4 DEF Walking
<1>15. CellsAlike(v, w) /\ MovedAlike(v, w)
  BY <1>12, <1>13 DEF GrownFrom, CellsAlike, MovedAlike
<1>16. SlideGrownTo(w, last) = v
  BY <1>9 DEF v, x
<1> QED BY <1>13, <1>14, <1>15, <1>16

\* The entries below a place.
GrownBelow(v, w, K, n, atoms, start) ==
    \E last \in Nat :
        /\ last <= Len(growLog)
        /\ Walking(v, K, n, last, atoms)
        /\ CellsAlike(v, w) /\ MovedAlike(v, w) /\ v.grown = last
        /\ \A j \in last + 1 .. Len(growLog) : start <= growLog[j].start

LEMMA SlideGrownBelowOn ==
    ASSUME TypeOK, HandlesInv, SlotsPlaced, SlotsAged, LogOK, NEW K, OldKept(K), NEW n \in Nat,
           NEW atoms, NEW w, Walking(w, K, n, w.grown, atoms), w.grown <= Len(growLog),
           NEW start \in Nat, NoneBelow(K, n, start)
    PROVE  GrownBelow(SlideGrownBelow(w, start), w, K, n, atoms, start)
<1> DEFINE Is(last) == /\ \A m \in w.grown + 1 .. last : growLog[m].start < start
                       /\ last = Len(growLog) \/ growLog[last + 1].start >= start
           T == {m \in w.grown .. Len(growLog) : m = Len(growLog) \/ growLog[m + 1].start >= start}
           last == CHOOSE m \in w.grown .. Len(growLog) : Is(m)
<1>1. /\ w.grown \in Nat /\ Len(growLog) \in Nat
      /\ \A j \in 1 .. Len(growLog) : growLog[j].start \in Nat
  <2>1. w \in Works
    BY DEF Walking
  <2> QED BY <2>1, WorksFields, LogIs DEF LogKnown
<1>2. \E m \in w.grown .. Len(growLog) : Is(m)
  <2>1. T \in SUBSET Nat /\ Len(growLog) \in T
    BY <1>1
  <2>2. PICK m \in T : \A i \in T : m <= i
    <3> HIDE DEF T
    <3> QED BY <2>1, Least
  <2>3. ASSUME NEW i \in w.grown + 1 .. m PROVE growLog[i].start < start
    <3>1. i - 1 \in w.grown .. Len(growLog) /\ ~ (m <= i - 1) /\ i - 1 + 1 = i /\ i \in 1 .. Len(growLog)
          /\ i - 1 # Len(growLog)
      BY <1>1, <2>2
    <3>2. i - 1 \notin T
      <4> HIDE DEF T
      <4> QED BY <2>2, <3>1
    <3>3. ~ (growLog[i].start >= start)
      BY <3>1, <3>2
    <3> QED BY <1>1, <3>1, <3>3
  <2>4. m \in w.grown .. Len(growLog) /\ (m = Len(growLog) \/ growLog[m + 1].start >= start)
    BY <2>2
  <2> QED BY <2>3, <2>4
<1>3. last \in w.grown .. Len(growLog) /\ Is(last)
  <2> HIDE DEF Is
  <2> QED BY <1>2
<1>4. SlideGrownBelow(w, start) = SlideGrownTo(w, last)
  BY DEF SlideGrownBelow
<1> HIDE DEF last
<1>5. ASSUME NEW j \in w.grown + 1 .. last PROVE NoneBelow(K, n, growLog[j].start)
  <2>1. j \in 1 .. Len(growLog) /\ growLog[j].start < start /\ growLog[j].start \in Nat
    BY <1>1, <1>3
  <2>2. ASSUME NEW i \in n + 1 .. YoungCount, YoungHandle(i) \in K, Unmoved(YoungHandle(i))
        PROVE  growLog[j].start <= headers[YoungHandle(i)].start
    <3> DEFINE h == YoungHandle(i)
    <3>1. start <= headers[h].start
      BY <2>2 DEF NoneBelow
    <3>2. headers[h].start \in Nat
      <4>1. h \in Handle
        BY <2>2 DEF OldKept, Live
      <4> HIDE DEF h
      <4>2. headers[h] \in CellSet
        BY <4>1 DEF TypeOK, Handle
      <4> QED BY <4>2 DEF CellSet
    <3> QED BY <2>1, <3>1, <3>2
  <2> QED BY <2>2 DEF NoneBelow
<1>6. ASSUME NEW j \in last + 1 .. Len(growLog) PROVE start <= growLog[j].start
  <2>1. j \in 1 .. Len(growLog) /\ last + 1 \in 1 .. Len(growLog) /\ last # Len(growLog) /\ (j = last + 1 \/ last + 1 < j)
    BY <1>1, <1>3
  <2>2. start <= growLog[last + 1].start
    BY <1>1, <1>3, <2>1
  <2>3. CASE j = last + 1
    BY <2>2, <2>3
  <2>4. CASE last + 1 < j
    <3>1. growLog[last + 1].start < growLog[j].start
      BY <2>1, <2>4 DEF LogOK
    <3> QED BY <1>1, <2>1, <2>2, <3>1
  <2> QED BY <2>1, <2>3, <2>4
<1>7. /\ Walking(SlideGrownTo(w, last), K, n, last, atoms)
      /\ CellsAlike(SlideGrownTo(w, last), w) /\ MovedAlike(SlideGrownTo(w, last), w)
      /\ SlideGrownTo(w, last).grown = last
  BY <1>3, <1>5, SlideGrownToOn
<1>8. last \in Nat /\ last <= Len(growLog)
  BY <1>1, <1>3
<1> QED BY <1>4, <1>6, <1>7, <1>8 DEF GrownBelow

\* A survivor settled.
LEMMA SettledOn ==
    ASSUME TypeOK, NEW K \in SUBSET Live, NEW n, NEW g, NEW atoms, NEW w, Walking(w, K, n, g, atoms), NEW h \in Handle
    PROVE  LET v == [w EXCEPT !.headers[h].moved = FALSE]
           IN  /\ Walking(v, K, n, g, atoms) /\ CellsAlike(v, w) /\ v.grown = w.grown /\ v \in Works
               /\ v.headers[h].start = w.headers[h].start
               /\ \A e \in Handle : e # h => v.headers[e] = w.headers[e]
               /\ SameBytes(v, w)
<1> DEFINE v == [w EXCEPT !.headers[h].moved = FALSE]
           c == [w.headers[h] EXCEPT !.moved = FALSE]
           hs == [w.headers EXCEPT ![h] = c]
<1>1. /\ w \in Works /\ CellsWalked(w, K, n) /\ DeadIn(w, DeadBy(K, n), atoms)
      /\ SlotsSlid(w, KeptSlots(K), SlotsDone(K, n, g))
      /\ BytesSlid(w, KeptSmall(K), StringsDone(K, n), cycle.byteTail)
      /\ Len(w.headers) = extent /\ Handle = 1 .. extent /\ h \in 1 .. Len(w.headers)
  BY DEF Walking, CellsWalked, Handle
<1>2. w.headers \in Seq(CellSet) /\ w.headers[h] \in CellSet
  BY <1>1 DEF Works
<1>3. /\ c \in CellSet /\ c.start = w.headers[h].start /\ c.tag = w.headers[h].tag /\ c.marked = w.headers[h].marked
      /\ c.count = w.headers[h].count /\ c.buffer = w.headers[h].buffer
  BY <1>2 DEF CellSet
<1>4. v = [w EXCEPT !.headers = hs]
  BY <1>1 DEF Works
<1> HIDE DEF c
<1>5. /\ hs \in Seq(CellSet) /\ Len(hs) = Len(w.headers) /\ hs[h] = c
      /\ \A e \in 1 .. Len(w.headers) : e # h => hs[e] = w.headers[e]
  BY <1>1, <1>2, <1>3
<1> HIDE DEF hs, v
<1>6. /\ v \in Works /\ v.headers = hs /\ v.grown = w.grown
      /\ SameSlots(v, w) /\ SameBytes(v, w) /\ SameDead(v, w)
  BY <1>1, <1>4, <1>5 DEF Works, SameSlots, SameBytes, SameDead
<1>7. /\ CellsAlike(v, w) /\ Len(v.headers) = Len(w.headers)
      /\ \A e \in Handle : v.headers[e].start = w.headers[e].start /\ v.headers[e].count = w.headers[e].count
  BY <1>1, <1>3, <1>5, <1>6 DEF CellsAlike
<1>8. CellsWalked(v, K, n)
  BY <1>1, <1>7, WalkedAlike
<1>9. DeadIn(v, DeadBy(K, n), atoms)
  BY <1>1, <1>6 DEF DeadIn, SameDead
<1>10. KeptSlots(K) \subseteq Handle /\ KeptSmall(K) \subseteq Handle
  BY DEF KeptSlots, KeptSmall, Tagged
<1>11. SlotsSlid(v, KeptSlots(K), SlotsDone(K, n, g))
  <2>1. \A e \in KeptSlots(K) : v.headers[e].start = w.headers[e].start /\ v.headers[e].count = w.headers[e].count
    BY <1>7, <1>10
  <2> QED BY <1>1, <1>6, <1>7, <2>1, SlotsSlidElsewhere
<1>12. BytesSlid(v, KeptSmall(K), StringsDone(K, n), cycle.byteTail)
  <2>1. \A e \in KeptSmall(K) : v.headers[e].start = w.headers[e].start /\ v.headers[e].count = w.headers[e].count
    BY <1>7, <1>10
  <2> QED BY <1>1, <1>6, <1>7, <2>1, BytesSlidElsewhere
<1>13. Walking(v, K, n, g, atoms)
  BY <1>6, <1>8, <1>9, <1>11, <1>12 DEF Walking
<1> QED BY <1>1, <1>5, <1>6, <1>7, <1>13 DEF v

\* What each step of the walk adds.
NextYoung(K, n, g, h) ==
    /\ h \in Handle /\ h \in Live /\ ~headers[h].marked /\ h = YoungHandle(n)
    /\ h \notin DeadBy(K, n - 1) /\ h \notin StringsDone(K, n - 1)
    /\ Unmoved(h) => h \notin SlotsDone(K, n - 1, g)
    /\ DeadBy(K, n) = DeadBy(K, n - 1) \union ({h} \intersect (Live \ K))
    /\ StringsDone(K, n) = StringsDone(K, n - 1) \union ({h} \intersect KeptSmall(K))
    /\ SlotsDone(K, n, g) = SlotsDone(K, n - 1, g) \union {e \in {h} \intersect KeptSlots(K) : Unmoved(e)}

LEMMA NextYoungIs ==
    ASSUME TypeOK, HandlesInv, SlotsAged, LogOK, NEW K, NEW n \in 1 .. YoungCount, NEW g \in Nat, g <= Len(growLog)
    PROVE  NextYoung(K, n, g, YoungHandle(n))
<1> DEFINE h == YoungHandle(n)
<1>1. YoungAre
  BY YoungKnown
<1>2. h \in Handle /\ h \in Live /\ ~headers[h].marked /\ YoungCount \in Nat
  BY <1>1 DEF YoungAre
<1>3. \A i \in 1 .. n - 1 : YoungHandle(i) # h
  <2>1. \A i \in 1 .. n - 1 : i \in 1 .. YoungCount /\ i # n
    BY <1>2
  <2> QED BY <1>1, <2>1 DEF YoungAre
<1>4. 1 .. n = (1 .. n - 1) \union {n}
  BY <1>2
<1>5. \A e : (\E i \in 1 .. n : YoungHandle(i) = e) <=> e = h \/ \E i \in 1 .. n - 1 : YoungHandle(i) = e
  BY <1>4
<1>6. h \notin DeadBy(K, n - 1) /\ DeadBy(K, n) = DeadBy(K, n - 1) \union ({h} \intersect (Live \ K))
  <2> HIDE DEF h
  <2> QED BY <1>3, <1>5 DEF DeadBy
<1>7. h \notin StringsDone(K, n - 1) /\ StringsDone(K, n) = StringsDone(K, n - 1) \union ({h} \intersect KeptSmall(K))
  <2> HIDE DEF h
  <2> QED BY <1>2, <1>3, <1>5 DEF StringsDone
<1>8. SlotsDone(K, n, g) = SlotsDone(K, n - 1, g) \union {e \in {h} \intersect KeptSlots(K) : Unmoved(e)}
  <2> HIDE DEF h
  <2> QED BY <1>5 DEF SlotsDone
<1>9. ASSUME Unmoved(h) PROVE h \notin SlotsDone(K, n - 1, g)
  <2>1. h \in Tagged("slots")
    BY <1>2, <1>9 DEF Unmoved, Tagged
  <2>2. ~ (headers[h].start < cycle.tail)
    BY <1>2, <2>1 DEF SlotsAged
  <2>3. ASSUME NEW j \in 1 .. g, Current(j, h) PROVE FALSE
    <3>1. j \in 1 .. Len(growLog)
      BY LogIs DEF LogKnown
    <3> QED BY <1>9, <2>3, <3>1 DEF LogOK, Current
  <2> HIDE DEF h
  <2> QED BY <1>3, <2>2, <2>3 DEF SlotsDone
<1> HIDE DEF h
<1> QED BY <1>2, <1>6, <1>7, <1>8, <1>9 DEF NextYoung, h

\* The walk so far.
Walked(w, K, n, atoms) ==
    Walking(w, K, n, w.grown, atoms) /\ MovedKept(w, n) /\ w.grown <= Len(growLog)

LEMMA MovedOn ==
    ASSUME TypeOK, HandlesInv, NEW n \in 1 .. YoungCount, NEW w, MovedKept(w, n - 1), NEW v,
           \A e \in Handle : e # YoungHandle(n) => v.headers[e].moved = w.headers[e].moved
    PROVE  MovedKept(v, n)
<1>1. YoungAre
  BY YoungKnown
<1>2. ASSUME NEW i \in n + 1 .. YoungCount PROVE v.headers[YoungHandle(i)].moved = headers[YoungHandle(i)].moved
  <2>1. i \in n - 1 + 1 .. YoungCount /\ i \in 1 .. YoungCount /\ i # n
    BY <1>1 DEF YoungAre
  <2>2. YoungHandle(i) \in Handle /\ YoungHandle(i) # YoungHandle(n)
    BY <1>1, <2>1 DEF YoungAre
  <2> QED BY <2>1, <2>2 DEF MovedKept
<1> QED BY <1>2 DEF MovedKept

LEMMA DeadStep ==
    ASSUME TypeOK, HandlesInv, SlotsAged, LogOK, NEW K, OldKept(K), NEW n \in 1 .. YoungCount, NEW atoms,
           NEW w, Walked(w, K, n - 1, atoms), YoungHandle(n) \notin K
    PROVE  Walked(Freed(w, YoungHandle(n), atoms), K, n, atoms)
<1> DEFINE h == YoungHandle(n)
           v == Freed(w, h, atoms)
           g == w.grown
<1>1. /\ w \in Works /\ CellsWalked(w, K, n - 1) /\ DeadIn(w, DeadBy(K, n - 1), atoms)
      /\ SlotsSlid(w, KeptSlots(K), SlotsDone(K, n - 1, g))
      /\ BytesSlid(w, KeptSmall(K), StringsDone(K, n - 1), cycle.byteTail)
      /\ Len(w.headers) = extent /\ Handle = 1 .. extent
  BY DEF Walked, Walking, CellsWalked, Handle
<1>2. g \in Nat /\ g <= Len(growLog)
  BY <1>1, WorksFields DEF Walked
<1>3. NextYoung(K, n, g, h)
  BY <1>2, NextYoungIs
<1> HIDE DEF h, v, g
<1>4. /\ h \in Handle /\ h \in Live /\ h \notin DeadBy(K, n - 1) /\ h \notin K
      /\ DeadBy(K, n) = DeadBy(K, n - 1) \union {h}
      /\ StringsDone(K, n) = StringsDone(K, n - 1)
      /\ SlotsDone(K, n, g) = SlotsDone(K, n - 1, g)
  BY <1>3 DEF NextYoung, KeptSmall, KeptSlots, h
<1>5. CellFreed(v, w, h) /\ DeadIn(v, DeadBy(K, n), atoms)
  BY <1>1, <1>4, FreedOf DEF v
<1>6. /\ v \in Works /\ Len(v.headers) = extent /\ v.headers[h] = FreeCell /\ v.grown = g
      /\ \A e \in Handle : e # h => v.headers[e] = w.headers[e]
      /\ SameSlots(v, w) /\ SameBytes(v, w)
  BY <1>1, <1>5 DEF CellFreed, g
<1>7. K \subseteq Handle /\ \A e \in K : v.headers[e] = w.headers[e]
  BY <1>4, <1>6 DEF OldKept, Live
<1>8. CellsWalked(v, K, n)
  <2>1. \A e \in K : /\ v.headers[e].tag = headers[e].tag /\ v.headers[e].count = headers[e].count
                     /\ v.headers[e].buffer = headers[e].buffer /\ v.headers[e].marked = TRUE
    BY <1>1, <1>7 DEF CellsWalked
  <2>2. ASSUME NEW e \in Handle \ K, e \notin Live \/ e \in DeadBy(K, n) PROVE v.headers[e].tag = "free"
    <3>1. CASE e = h
      BY <1>6, <3>1, FreeCellIs
    <3>2. CASE e # h
      <4>1. e \notin Live \/ e \in DeadBy(K, n - 1)
        BY <1>4, <2>2, <3>2
      <4> QED BY <1>1, <1>6, <3>2, <4>1 DEF CellsWalked
    <3> QED BY <3>1, <3>2
  <2>3. ASSUME NEW e \in Live \ K PROVE v.headers[e].marked = FALSE
    <3>1. CASE e = h
      BY <1>6, <3>1, FreeCellIs
    <3>2. CASE e # h
      BY <1>1, <1>6, <3>2 DEF CellsWalked, Live
    <3> QED BY <3>1, <3>2
  <2> QED BY <1>6, <2>1, <2>2, <2>3 DEF CellsWalked
<1>9. SlotsSlid(v, KeptSlots(K), SlotsDone(K, n, g))
  <2>1. \A e \in KeptSlots(K) : v.headers[e].start = w.headers[e].start /\ v.headers[e].count = w.headers[e].count
    BY <1>7 DEF KeptSlots
  <2> QED BY <1>1, <1>4, <1>6, <2>1, SlotsSlidElsewhere
<1>10. BytesSlid(v, KeptSmall(K), StringsDone(K, n), cycle.byteTail)
  <2>1. \A e \in KeptSmall(K) : v.headers[e].start = w.headers[e].start /\ v.headers[e].count = w.headers[e].count
    BY <1>7 DEF KeptSmall
  <2> QED BY <1>1, <1>4, <1>6, <2>1, BytesSlidElsewhere
<1>11. MovedKept(v, n)
  <2>1. MovedKept(w, n - 1) /\ \A e \in Handle : e # YoungHandle(n) => v.headers[e].moved = w.headers[e].moved
    BY <1>6 DEF Walked, h
  <2> QED BY <2>1, MovedOn
<1>12. v.grown <= Len(growLog) /\ v.grown = g
  BY <1>2, <1>6
<1>13. Walking(v, K, n, v.grown, atoms)
  BY <1>5, <1>6, <1>8, <1>9, <1>10 DEF Walking
<1>14. Walked(v, K, n, atoms)
  BY <1>11, <1>12, <1>13 DEF Walked
<1> QED BY <1>14 DEF v, h

\* A survivor: what it is, and its settling.
Settled(w, h) == [w EXCEPT !.headers[h].moved = FALSE]

SettledAt(s, w, K, n, h, atoms) ==
    /\ Walking(s, K, n - 1, w.grown, atoms) /\ CellsAlike(s, w) /\ s.grown = w.grown
    /\ s \in Works /\ Len(s.headers) = extent /\ Handle = 1 .. extent
    /\ s.headers[h].start = w.headers[h].start
    /\ \A e \in Handle : e # h => s.headers[e] = w.headers[e]
    /\ SameBytes(s, w)
    /\ w.grown \in Nat /\ w.grown <= Len(growLog)
    /\ h \in Handle /\ h \in K /\ K \in SUBSET Live
    /\ w.headers[h].tag = headers[h].tag /\ w.headers[h].count = headers[h].count /\ w.headers[h].marked
    /\ w.headers[h].moved = headers[h].moved
    /\ DeadBy(K, n) = DeadBy(K, n - 1)
    /\ \A v : CellsWalked(v, K, n) <=> CellsWalked(v, K, n - 1)
    /\ \A v : (\A e \in Handle : e # h => v.headers[e].moved = s.headers[e].moved) => MovedKept(v, n)

LEMMA SurvivorSettled ==
    ASSUME TypeOK, HandlesInv, SlotsAged, LogOK, NEW K, OldKept(K), NEW n \in 1 .. YoungCount, NEW atoms,
           NEW w, Walked(w, K, n - 1, atoms), YoungHandle(n) \in K
    PROVE  /\ SettledAt(Settled(w, YoungHandle(n)), w, K, n, YoungHandle(n), atoms)
           /\ \A g \in Nat : g <= Len(growLog) => NextYoung(K, n, g, YoungHandle(n))
<1> DEFINE h == YoungHandle(n)
           s == Settled(w, h)
<1>1. /\ w \in Works /\ CellsWalked(w, K, n - 1) /\ Walking(w, K, n - 1, w.grown, atoms)
      /\ MovedKept(w, n - 1) /\ Handle = 1 .. extent /\ Len(w.headers) = extent
  BY DEF Walked, Walking, CellsWalked, Handle
<1>2. w.grown \in Nat /\ w.grown <= Len(growLog)
  BY <1>1, WorksFields DEF Walked
<1>3. \A g \in Nat : g <= Len(growLog) => NextYoung(K, n, g, h)
  BY NextYoungIs
<1>4. n \in n - 1 + 1 .. YoungCount
  BY YoungKnown DEF YoungAre
<1>5. w.headers[h].moved = headers[h].moved
  BY <1>1, <1>4 DEF MovedKept
<1>6. h \in Handle /\ h \in K /\ K \in SUBSET Live /\ DeadBy(K, n) = DeadBy(K, n - 1)
  <2>1. NextYoung(K, n, w.grown, h)
    BY <1>2, <1>3
  <2>2. h \in K /\ K \in SUBSET Live
    BY DEF OldKept
  <2> HIDE DEF h
  <2> QED BY <2>1, <2>2 DEF NextYoung
<1> HIDE DEF h
<1>7. w.headers[h].tag = headers[h].tag /\ w.headers[h].count = headers[h].count /\ w.headers[h].marked
  BY <1>1, <1>6 DEF CellsWalked
<1>8. /\ Walking(s, K, n - 1, w.grown, atoms) /\ CellsAlike(s, w) /\ s.grown = w.grown /\ s \in Works
      /\ s.headers[h].start = w.headers[h].start
      /\ \A e \in Handle : e # h => s.headers[e] = w.headers[e]
      /\ SameBytes(s, w)
  BY <1>1, <1>6, SettledOn DEF Settled
<1> HIDE DEF s
<1>9. \A v : CellsWalked(v, K, n) <=> CellsWalked(v, K, n - 1)
  BY <1>6 DEF CellsWalked
<1>10. ASSUME NEW v, \A e \in Handle : e # h => v.headers[e].moved = s.headers[e].moved PROVE MovedKept(v, n)
  <2>1. \A e \in Handle : e # YoungHandle(n) => v.headers[e].moved = w.headers[e].moved
    BY <1>8, <1>10 DEF h
  <2> QED BY <1>1, <2>1, MovedOn
<1>11. Len(s.headers) = extent
  BY <1>1, <1>8 DEF CellsAlike
<1>12. SettledAt(s, w, K, n, h, atoms)
  BY <1>1, <1>2, <1>5, <1>6, <1>7, <1>8, <1>9, <1>10, <1>11, Zenon DEF SettledAt
<1> QED BY <1>3, <1>12 DEF s, h

\* A large string, or a cell whose slots moved when they grew.
LEMMA StillStep ==
    ASSUME NEW K, NEW n, NEW h, NEW atoms, NEW w, NEW s, SettledAt(s, w, K, n, h, atoms),
           NextYoung(K, n, w.grown, h), h \notin KeptSmall(K), h \notin KeptSlots(K) \/ ~Unmoved(h)
    PROVE  Walked(s, K, n, atoms)
<1>1. StringsDone(K, n) = StringsDone(K, n - 1) /\ SlotsDone(K, n, w.grown) = SlotsDone(K, n - 1, w.grown)
  BY DEF NextYoung
<1>2. /\ Walking(s, K, n - 1, w.grown, atoms) /\ s.grown = w.grown /\ w.grown <= Len(growLog)
      /\ DeadBy(K, n) = DeadBy(K, n - 1)
      /\ CellsWalked(s, K, n) <=> CellsWalked(s, K, n - 1)
      /\ MovedKept(s, n)
  BY DEF SettledAt
<1>3. Walking(s, K, n, w.grown, atoms)
  BY <1>1, <1>2 DEF Walking
<1> QED BY <1>2, <1>3 DEF Walked

\* A step on a small string leaves the rest of the walk's work.
LEMMA BytesLeaveRest ==
    ASSUME TypeOK, NEW K, NEW n, NEW h, NEW atoms, NEW w, NEW s, SettledAt(s, w, K, n, h, atoms),
           NextYoung(K, n, w.grown, h), h \in KeptSmall(K),
           NEW v, v \in Works, StartOnly(v, s, h), SameSlots(v, s), SameDead(v, s), v.grown = s.grown,
           BytesSlid(v, KeptSmall(K), StringsDone(K, n - 1) \union {h}, cycle.byteTail)
    PROVE  Walked(v, K, n, atoms)
<1>1. h \notin KeptSlots(K)
  BY DEF KeptSmall, KeptSlots, Tagged
<1>2. /\ StringsDone(K, n) = StringsDone(K, n - 1) \union {h}
      /\ SlotsDone(K, n, w.grown) = SlotsDone(K, n - 1, w.grown)
  BY <1>1 DEF NextYoung
<1>3. /\ Walking(s, K, n - 1, w.grown, atoms) /\ s.grown = w.grown /\ w.grown <= Len(growLog)
      /\ DeadBy(K, n) = DeadBy(K, n - 1) /\ K \in SUBSET Live /\ Len(s.headers) = extent /\ Handle = 1 .. extent
      /\ CellsWalked(v, K, n) <=> CellsWalked(v, K, n - 1)
  BY DEF SettledAt
<1>4. CellsAlike(v, s) /\ \A e \in Handle : v.headers[e].moved = s.headers[e].moved
  BY <1>3, StartOnlyAlike
<1>5. CellsWalked(v, K, n)
  BY <1>3, <1>4, WalkedAlike DEF Walking
<1>6. DeadIn(v, DeadBy(K, n), atoms)
  BY <1>3 DEF DeadIn, SameDead, Walking
<1>7. SlotsSlid(v, KeptSlots(K), SlotsDone(K, n, w.grown))
  <2>1. \A e \in KeptSlots(K) : v.headers[e].start = s.headers[e].start /\ v.headers[e].count = s.headers[e].count
    <3>1. \A e \in KeptSlots(K) : e # h /\ e \in 1 .. Len(s.headers)
      BY <1>1, <1>3 DEF KeptSlots, Tagged
    <3> QED BY <3>1 DEF StartOnly
  <2>2. Len(v.headers) = Len(s.headers)
    BY DEF StartOnly
  <2>3. SlotsSlid(s, KeptSlots(K), SlotsDone(K, n - 1, w.grown))
    BY <1>3 DEF Walking
  <2> QED BY <1>2, <2>1, <2>2, <2>3, SlotsSlidElsewhere
<1>8. MovedKept(v, n)
  BY <1>4 DEF SettledAt
<1>9. Walking(v, K, n, w.grown, atoms)
  BY <1>2, <1>5, <1>6, <1>7 DEF Walking
<1> QED BY <1>3, <1>8, <1>9 DEF Walked

\* The small strings still to come are not below the next.
LEMMA StringsOrder ==
    ASSUME TypeOK, HandlesInv, BytesAged, NEW K, OldKept(K), NEW n \in 1 .. YoungCount,
           NonEmpty(YoungHandle(n)), NEW g \in KeptSmall(K) \ StringsDone(K, n - 1), NonEmpty(g)
    PROVE  headers[YoungHandle(n)].start <= headers[g].start
<1>1. YoungAre
  BY YoungKnown
<1>2. g \in Live /\ ~headers[g].marked /\ g \in Handle
  BY DEF KeptSmall, StringsDone, OldKept, Live
<1>3. PICK i \in 1 .. YoungCount : YoungHandle(i) = g
  BY <1>1, <1>2 DEF YoungAre
<1>4. i \notin 1 .. n - 1
  BY <1>3 DEF StringsDone
<1>5. i = n \/ n < i
  BY <1>1, <1>4 DEF YoungAre
<1>6. headers[g].start \in Nat
  <2>1. headers[g] \in CellSet
    BY <1>2 DEF TypeOK, Handle
  <2> QED BY <2>1 DEF CellSet
<1>7. CASE i = n
  BY <1>3, <1>6, <1>7
<1>8. CASE n < i
  BY <1>3, <1>8 DEF BytesAged
<1> QED BY <1>5, <1>7, <1>8

LEMMA EmptyStep ==
    ASSUME TypeOK, HandlesInv, BytesPlaced, BytesAged, NEW K, OldKept(K), NEW n \in 1 .. YoungCount, NEW atoms,
           NEW w, NEW s, SettledAt(s, w, K, n, YoungHandle(n), atoms), NextYoung(K, n, w.grown, YoungHandle(n)),
           YoungHandle(n) \in KeptSmall(K), headers[YoungHandle(n)].count = 0
    PROVE  Walked([s EXCEPT !.headers[YoungHandle(n)].start = w.byteCursor], K, n, atoms)
<1> DEFINE h == YoungHandle(n)
           v == [s EXCEPT !.headers[h].start = w.byteCursor]
           hs == [s.headers EXCEPT ![h].start = w.byteCursor]
           Q == KeptSmall(K)
           T == StringsDone(K, n - 1)
<1>1. /\ s \in Works /\ h \in 1 .. Len(s.headers) /\ w.byteCursor = s.byteCursor
      /\ BytesSlid(s, Q, T, cycle.byteTail)
  BY DEF SettledAt, Walking, SameBytes
<1>2. s.byteCursor \in Nat
  BY <1>1, WorksFields
<1>3. ~NonEmpty(h) /\ h \in Q
  BY DEF NonEmpty
<1>4. BytesFacts(Q)
  BY BytesKnown DEF KeptSmall
<1> HIDE DEF h
<1>5. /\ hs \in Seq(CellSet) /\ Len(hs) = Len(s.headers)
      /\ \A g \in 1 .. Len(s.headers) : g # h => hs[g] = s.headers[g]
      /\ hs[h].start = s.byteCursor
      /\ hs[h].tag = s.headers[h].tag /\ hs[h].marked = s.headers[h].marked
      /\ hs[h].moved = s.headers[h].moved /\ hs[h].count = s.headers[h].count
      /\ hs[h].buffer = s.headers[h].buffer
  BY <1>1, <1>2, StartSet
<1>6. v = [s EXCEPT !.headers = hs]
  BY <1>1 DEF Works
<1> HIDE DEF hs, v
<1>7. /\ v \in Works /\ v.headers = hs /\ v.grown = s.grown /\ SameSlots(v, s) /\ SameBytes(v, s) /\ SameDead(v, s)
  BY <1>1, <1>5, <1>6 DEF Works, SameSlots, SameBytes, SameDead
<1>8. StartOnly(v, s, h) /\ v.headers[h].start = s.byteCursor
  BY <1>5, <1>7 DEF StartOnly
<1> HIDE DEF Q, T
<1>9. BytesSlid(v, Q, T \union {h}, cycle.byteTail)
  <2>1. v.headers[h].start \in Nat /\ v.headers[h].start <= s.byteCursor
    BY <1>2, <1>8
  <2> QED BY <1>1, <1>3, <1>4, <1>7, <1>8, <2>1, BytesEmptyOn
<1>10. Walked(v, K, n, atoms)
  BY <1>3, <1>7, <1>8, <1>9, BytesLeaveRest DEF Q, T, h
<1> QED BY <1>10 DEF v, h

LEMMA SmallStep ==
    ASSUME TypeOK, HandlesInv, BytesPlaced, BytesAged, NEW K, OldKept(K), NEW n \in 1 .. YoungCount, NEW atoms,
           NEW w, NEW s, SettledAt(s, w, K, n, YoungHandle(n), atoms), NextYoung(K, n, w.grown, YoungHandle(n)),
           YoungHandle(n) \in KeptSmall(K), NonEmpty(YoungHandle(n))
    PROVE  /\ w.headers[YoungHandle(n)].start = headers[YoungHandle(n)].start
           /\ headers[YoungHandle(n)].start < cycle.byteTail => Walked(KeepRun(s, YoungHandle(n)), K, n, atoms)
           /\ headers[YoungHandle(n)].start >= cycle.byteTail => Walked(SlideRun(s, YoungHandle(n)), K, n, atoms)
<1> DEFINE h == YoungHandle(n)
           Q == KeptSmall(K)
           T == StringsDone(K, n - 1)
<1>1. /\ s \in Works /\ h \in 1 .. Len(s.headers) /\ w.headers[h].start = s.headers[h].start
      /\ BytesSlid(s, Q, T, cycle.byteTail)
  BY DEF SettledAt, Walking
<1>2. h \in Q \ T
  BY DEF NextYoung
<1>3. s.headers[h].start = headers[h].start
  BY <1>1, <1>2 DEF BytesSlid, BytesRest
<1>4. BytesFacts(Q) /\ cycle.byteTail \in Nat
  BY BytesKnown DEF KeptSmall, TypeOK, Cycles
<1>5. \A g \in Q \ T : NonEmpty(g) => headers[h].start <= headers[g].start
  BY StringsOrder
<1>6. NonEmpty(h)
  OBVIOUS
<1> HIDE DEF h, Q, T
<1>7. ASSUME headers[h].start < cycle.byteTail PROVE Walked(KeepRun(s, h), K, n, atoms)
  <2> DEFINE v == KeepRun(s, h)
  <2>1. BytesSlid(v, Q, T \union {h}, cycle.byteTail) /\ RunKept(v, s, h)
    <3> HIDE DEF v
    <3> QED BY <1>1, <1>2, <1>4, <1>5, <1>6, <1>7, BytesKeepOn DEF v
  <2> HIDE DEF v
  <2>2. v \in Works /\ StartOnly(v, s, h) /\ SameSlots(v, s) /\ SameDead(v, s) /\ v.grown = s.grown
    BY <2>1 DEF RunKept, StartOnly
  <2>3. Walked(v, K, n, atoms)
    BY <1>2, <2>1, <2>2, BytesLeaveRest DEF Q, T, h
  <2> QED BY <2>3 DEF v
<1>8. ASSUME headers[h].start >= cycle.byteTail PROVE Walked(SlideRun(s, h), K, n, atoms)
  <2> DEFINE v == SlideRun(s, h)
  <2>1. BytesSlid(v, Q, T \union {h}, cycle.byteTail) /\ RunSlid(v, s, h)
    <3>1. cycle.byteTail <= headers[h].start
      BY <1>8
    <3> HIDE DEF v
    <3> QED BY <1>1, <1>2, <1>4, <1>5, <1>6, <3>1, BytesSlideOn DEF v
  <2> HIDE DEF v
  <2>2. v \in Works /\ StartOnly(v, s, h) /\ SameSlots(v, s) /\ SameDead(v, s) /\ v.grown = s.grown
    BY <2>1 DEF RunSlid
  <2>3. Walked(v, K, n, atoms)
    BY <1>2, <2>1, <2>2, BytesLeaveRest DEF Q, T, h
  <2> QED BY <2>3 DEF v
<1>9. w.headers[h].start = headers[h].start
  BY <1>1, <1>3
<1> QED BY <1>7, <1>8, <1>9 DEF h

\* A cell whose slots are where they were allocated.
LEMMA SlotsStep ==
    ASSUME TypeOK, HandlesInv, SlotsPlaced, SlotsAged, LogOK, NEW K, OldKept(K), NEW n \in 1 .. YoungCount,
           NEW atoms, NEW w, NEW s, SettledAt(s, w, K, n, YoungHandle(n), atoms),
           \A g \in Nat : g <= Len(growLog) => NextYoung(K, n, g, YoungHandle(n)),
           YoungHandle(n) \in KeptSlots(K), Unmoved(YoungHandle(n))
    PROVE  /\ w.headers[YoungHandle(n)].start = headers[YoungHandle(n)].start
           /\ Walked(SlideRange(SlideGrownBelow(s, headers[YoungHandle(n)].start), YoungHandle(n)), K, n, atoms)
<1> DEFINE h == YoungHandle(n)
           P == KeptSlots(K)
           start == headers[h].start
           b == SlideGrownBelow(s, start)
           v == SlideRange(b, h)
<1>1. /\ s \in Works /\ h \in Handle /\ Handle = 1 .. extent /\ K \in SUBSET Live /\ w.headers[h].start = s.headers[h].start
      /\ Walking(s, K, n - 1, s.grown, atoms) /\ s.grown <= Len(growLog) /\ w.grown \in Nat /\ w.grown <= Len(growLog)
      /\ SlotsSlid(s, P, SlotsDone(K, n - 1, w.grown))
  BY DEF SettledAt, Walking
<1>2. h \in P \ SlotsDone(K, n - 1, w.grown)
  BY <1>1 DEF NextYoung
<1>3. s.headers[h].start = start
  BY <1>1, <1>2 DEF SlotsSlid
<1>4. start \in Nat /\ n - 1 \in Nat
  <2>1. headers[h] \in CellSet
    BY <1>1 DEF TypeOK
  <2>2. YoungCount \in Nat
    BY YoungKnown DEF YoungAre
  <2> QED BY <2>1, <2>2 DEF CellSet
<1>5. NoneBelow(K, n - 1, start)
  <2>1. ASSUME NEW i \in n - 1 + 1 .. YoungCount, Unmoved(YoungHandle(i)) PROVE start <= headers[YoungHandle(i)].start
    <3>1. i \in 1 .. YoungCount /\ (i = n \/ n < i)
      BY YoungKnown DEF YoungAre
    <3>2. CASE i = n
      BY <1>4, <3>2
    <3>3. CASE n < i
      <4>1. headers[h].start < headers[YoungHandle(i)].start
        BY <2>1, <3>1, <3>3 DEF SlotsAged
      <4>2. headers[YoungHandle(i)] \in CellSet
        BY <3>1, YoungKnown DEF YoungAre, TypeOK, Handle
      <4> QED BY <1>4, <4>1, <4>2 DEF CellSet
    <3> QED BY <3>1, <3>2, <3>3
  <2> QED BY <2>1 DEF NoneBelow
<1>6. PICK last \in Nat :
          /\ last <= Len(growLog) /\ Walking(b, K, n - 1, last, atoms)
          /\ CellsAlike(b, s) /\ MovedAlike(b, s) /\ b.grown = last
          /\ \A j \in last + 1 .. Len(growLog) : start <= growLog[j].start
  <2> DEFINE m == n - 1
  <2>1. m \in Nat /\ NoneBelow(K, m, start) /\ Walking(s, K, m, s.grown, atoms)
    BY <1>1, <1>4, <1>5
  <2> HIDE DEF start, h, P, m
  <2>2. GrownBelow(SlideGrownBelow(s, start), s, K, m, atoms, start)
    BY <1>1, <1>4, <2>1, SlideGrownBelowOn
  <2> QED BY <2>2 DEF GrownBelow, m, b
<1> HIDE DEF b
<1>7. NextYoung(K, n, last, h)
  BY <1>6
<1> DEFINE S == SlotsDone(K, n - 1, last)
<1>8. /\ h \in P \ S /\ SlotsDone(K, n, last) = S \union {h} /\ StringsDone(K, n) = StringsDone(K, n - 1)
  <2>1. h \notin KeptSmall(K)
    BY DEF KeptSlots, KeptSmall, Tagged
  <2> QED BY <1>7, <2>1 DEF NextYoung
<1>9. b \in Works /\ SlotsSlid(b, P, S) /\ Len(b.headers) = extent
  BY <1>6 DEF Walking, SlotsSlid
<1>10. ASSUME NEW g \in P \ S PROVE headers[h].start <= headers[g].start
  <2>1. \/ Unmoved(g) /\ \E i \in n - 1 + 1 .. YoungCount : YoungHandle(i) = g
        \/ ~Unmoved(g) /\ \E j \in last + 1 .. Len(growLog) : Current(j, g)
    BY <1>4, SlotsWhere
  <2>2. CASE Unmoved(g) /\ \E i \in n - 1 + 1 .. YoungCount : YoungHandle(i) = g
    BY <1>5, <2>2 DEF NoneBelow, KeptSlots
  <2>3. CASE \E j \in last + 1 .. Len(growLog) : Current(j, g)
    BY <1>6, <2>3 DEF Current
  <2> QED BY <2>1, <2>2, <2>3
<1>11. P \in SUBSET Tagged("slots")
  BY DEF KeptSlots
<1> HIDE DEF h, P, S, v
<1>12. SlotsSlid(v, P, S \union {h}) /\ RangeSlid(v, b, h)
  BY <1>8, <1>9, <1>10, <1>11, SlotsSlideOn DEF v
<1>13. /\ v \in Works /\ CellsWalked(v, K, n - 1) /\ DeadIn(v, DeadBy(K, n - 1), atoms)
       /\ BytesSlid(v, KeptSmall(K), StringsDone(K, n - 1), cycle.byteTail)
       /\ GrownFrom(v, b)
  BY <1>1, <1>6, <1>8, <1>12, SlotsLeaveRest DEF P
<1>14. v.grown = last /\ \A e \in Handle : v.headers[e].moved = s.headers[e].moved
  <2>1. v.grown = last
    BY <1>6, <1>13 DEF GrownFrom
  <2>2. Len(s.headers) = extent
    BY <1>6, <1>9 DEF CellsAlike
  <2> QED BY <1>1, <1>6, <1>9, <1>13, <2>1, <2>2 DEF GrownFrom, MovedAlike
<1>15. CellsWalked(v, K, n) /\ DeadBy(K, n) = DeadBy(K, n - 1) /\ MovedKept(v, n)
  <2>1. SettledAt(s, w, K, n, h, atoms)
    BY DEF h
  <2> QED BY <1>13, <1>14, <2>1 DEF SettledAt
<1>16. Walking(v, K, n, v.grown, atoms)
  BY <1>8, <1>12, <1>13, <1>14, <1>15 DEF Walking, P
<1>17. Walked(v, K, n, atoms)
  BY <1>6, <1>14, <1>15, <1>16 DEF Walked
<1>18. w.headers[h].start = headers[h].start
  BY <1>1, <1>3 DEF h
<1> QED BY <1>17, <1>18 DEF v, b, h

\* One young cell.
LEMMA SweepOn ==
    ASSUME Inv, NEW K, OldKept(K), NEW n \in 1 .. YoungCount, NEW atoms, NEW w, Walked(w, K, n - 1, atoms)
    PROVE  Walked(SweepYoungCell(w, YoungHandle(n), atoms), K, n, atoms)
<1> DEFINE h == YoungHandle(n)
           s == Settled(w, h)
           v == SweepYoungCell(w, h, atoms)
<1>1. TypeOK /\ HandlesInv /\ SlotsPlaced /\ SlotsAged /\ LogOK /\ BytesPlaced /\ BytesAged
  BY DEF Inv
<1>2. h \in Live /\ h \in Handle /\ ~headers[h].marked
  BY <1>1, YoungKnown DEF YoungAre
<1>3. headers[h] \in CellSet /\ headers[h].tag \in {"slots", "small", "large"}
  <2>1. headers[h] \in CellSet
    BY <1>1, <1>2 DEF TypeOK, Handle
  <2> QED BY <1>2, <2>1 DEF CellSet, Live
<1>4. CASE h \notin K
  <2>1. ~w.headers[h].marked
    BY <1>2, <1>4 DEF Walked, Walking, CellsWalked
  <2>2. v = Freed(w, h, atoms)
    BY <2>1 DEF SweepYoungCell
  <2> QED BY <1>1, <1>4, <2>2, DeadStep
<1>5. CASE h \in K
  <2>1. SettledAt(s, w, K, n, h, atoms) /\ \A g \in Nat : g <= Len(growLog) => NextYoung(K, n, g, h)
    BY <1>1, <1>5, SurvivorSettled
  <2>2. /\ w.headers[h].tag = headers[h].tag /\ w.headers[h].count = headers[h].count /\ w.headers[h].marked
        /\ w.headers[h].moved = headers[h].moved
        /\ w.grown \in Nat /\ w.grown <= Len(growLog)
    BY <2>1, Zenon DEF SettledAt
  <2>3. NextYoung(K, n, w.grown, h)
    BY <2>1, <2>2
  <2> HIDE DEF s, h, v
  <2>4. CASE headers[h].tag = "large"
    <3>1. v = s
      BY <2>2, <2>4 DEF SweepYoungCell, Settled, v, s
    <3>2. h \notin KeptSmall(K) /\ h \notin KeptSlots(K)
      BY <2>4 DEF KeptSmall, KeptSlots, Tagged
    <3>3. Walked(s, K, n, atoms)
      BY <2>1, <2>3, <3>2, StillStep
    <3> QED BY <3>1, <3>3 DEF v, h
  <2>5. CASE headers[h].tag = "small"
    <3>1. h \in KeptSmall(K)
      BY <1>2, <1>5, <2>5 DEF KeptSmall, Tagged
    <3>2. CASE headers[h].count = 0
      <4>1. v = [s EXCEPT !.headers[h].start = w.byteCursor]
        BY <2>2, <2>5, <3>2 DEF SweepYoungCell, Settled, v, s
      <4>2. Walked([s EXCEPT !.headers[h].start = w.byteCursor], K, n, atoms)
        BY <1>1, <2>1, <2>3, <3>1, <3>2, EmptyStep DEF h
      <4> QED BY <4>1, <4>2 DEF v, h
    <3>3. CASE headers[h].count # 0
      <4>1. NonEmpty(h)
        BY <1>3, <2>5, <3>3 DEF NonEmpty, CellSet
      <4>2. /\ w.headers[h].start = headers[h].start
            /\ headers[h].start < cycle.byteTail => Walked(KeepRun(s, h), K, n, atoms)
            /\ headers[h].start >= cycle.byteTail => Walked(SlideRun(s, h), K, n, atoms)
        BY <1>1, <2>1, <2>3, <3>1, <4>1, SmallStep DEF h
      <4>3. CASE headers[h].start < cycle.byteTail
        <5>1. v = KeepRun(s, h)
          BY <2>2, <2>5, <3>3, <4>2, <4>3 DEF SweepYoungCell, Settled, v, s
        <5> QED BY <4>2, <4>3, <5>1 DEF v, h
      <4>4. CASE ~ (headers[h].start < cycle.byteTail)
        <5>1. v = SlideRun(s, h)
          BY <2>2, <2>5, <3>3, <4>2, <4>4 DEF SweepYoungCell, Settled, v, s
        <5>2. headers[h].start >= cycle.byteTail
          <6>1. headers[h].start \in Nat /\ cycle.byteTail \in Nat
            BY <1>1, <1>3 DEF CellSet, TypeOK, Cycles
          <6> QED BY <4>4, <6>1
        <5> QED BY <4>2, <5>1, <5>2 DEF v, h
      <4> QED BY <4>3, <4>4
    <3> QED BY <3>2, <3>3
  <2>6. CASE headers[h].tag = "slots"
    <3>1. h \in KeptSlots(K) /\ h \notin KeptSmall(K)
      BY <1>2, <1>5, <2>6 DEF KeptSlots, KeptSmall, Tagged
    <3>2. CASE headers[h].moved
      <4>1. v = s
        BY <2>2, <2>6, <3>2 DEF SweepYoungCell, Settled, v, s
      <4>2. Walked(s, K, n, atoms)
        BY <2>1, <2>3, <3>1, <3>2, StillStep DEF Unmoved
      <4> QED BY <4>1, <4>2 DEF v, h
    <3>3. CASE ~headers[h].moved
      <4>1. Unmoved(h)
        BY <1>2, <2>6, <3>3 DEF Unmoved
      <4>2. /\ w.headers[h].start = headers[h].start
            /\ Walked(SlideRange(SlideGrownBelow(s, headers[h].start), h), K, n, atoms)
        BY <1>1, <2>1, <3>1, <4>1, SlotsStep DEF h
      <4>3. v = SlideRange(SlideGrownBelow(s, headers[h].start), h)
        BY <2>2, <2>6, <3>3, <4>2 DEF SweepYoungCell, Settled, v, s
      <4> QED BY <4>2, <4>3 DEF v, h
    <3> QED BY <3>2, <3>3
  <2> QED BY <1>3, <2>4, <2>5, <2>6 DEF h
<1> QED BY <1>4, <1>5

\* A function over the first numbers is a sequence.
LEMMA SeqIs ==
    ASSUME NEW N \in Nat, NEW S, NEW f, f = [i \in 1 .. N |-> f[i]], \A i \in 1 .. N : f[i] \in S
    PROVE  f \in Seq(S) /\ Len(f) = N
<1>1. f \in [1 .. N -> S]
  OBVIOUS
<1> QED BY <1>1

\* What a sweep begins with.
MarkedAs(marked, K) ==
    /\ marked \in Seq(CellSet) /\ Len(marked) = extent
    /\ \A h \in K : /\ marked[h].tag = headers[h].tag /\ marked[h].count = headers[h].count
                    /\ marked[h].buffer = headers[h].buffer /\ marked[h].start = headers[h].start
                    /\ marked[h].marked = TRUE
    /\ \A h \in Handle \ K : marked[h] = headers[h]

LEMMA SurvivorIs ==
    ASSUME TypeOK, NEW h \in Handle, NEW m \in BOOLEAN
    PROVE  /\ Survivor(h, m) \in CellSet
           /\ Survivor(h, m).tag = headers[h].tag /\ Survivor(h, m).count = headers[h].count
           /\ Survivor(h, m).buffer = headers[h].buffer /\ Survivor(h, m).start = headers[h].start
           /\ Survivor(h, m).marked = TRUE /\ Survivor(h, m).moved = m
<1>1. headers[h] \in CellSet
  BY DEF TypeOK, Handle
<1> QED BY <1>1 DEF Survivor, CellSet

LEMMA WorkIs ==
    ASSUME TypeOK, NEW marked \in Seq(CellSet), NEW cursor \in Nat, NEW byteCursor \in Nat
    PROVE  LET w == Work(marked, cursor, byteCursor)
           IN  /\ w \in Works /\ w.headers = marked /\ w.slots = slots /\ w.cursor = cursor /\ w.grown = 0
               /\ w.bytes = bytes /\ w.byteCursor = byteCursor /\ w.length = 0
               /\ w.dead = <<>> /\ w.deadAtoms = <<>>
<1>1. <<>> \o marked = marked
  BY NothingFirst
<1>2. slots \in Seq(Nat) /\ bytes \in Seq(Nat) /\ <<>> \in Seq(Nat)
  BY DEF TypeOK
<1> QED BY <1>1, <1>2 DEF Work, Works

LEMMA MinorMarked ==
    ASSUME TypeOK, NEW survivors \in SUBSET {h \in Live : ~headers[h].marked}, NEW K,
           K = {h \in Live : headers[h].marked} \union survivors,
           NEW marked, marked = [h \in 1 .. extent |-> IF h \in survivors THEN Survivor(h, headers[h].moved) ELSE headers[h]]
    PROVE  MarkedAs(marked, K) /\ \A h \in Handle : marked[h].moved = headers[h].moved
<1>1. /\ extent \in Nat /\ Handle = 1 .. extent /\ K \subseteq Handle /\ survivors \subseteq Handle
      /\ \A h \in Handle : headers[h] \in CellSet /\ headers[h].moved \in BOOLEAN /\ headers[h].marked \in BOOLEAN
  <2>1. \A h \in Handle : headers[h] \in CellSet
    BY DEF TypeOK, Handle
  <2> QED BY <2>1 DEF TypeOK, Handle, Live, CellSet
<1>2. \A h \in Handle : marked[h] = IF h \in survivors THEN Survivor(h, headers[h].moved) ELSE headers[h]
  BY <1>1
<1>3. \A h \in Handle : marked[h] \in CellSet /\ marked[h].moved = headers[h].moved
  BY <1>1, <1>2, SurvivorIs
<1>4. marked \in Seq(CellSet) /\ Len(marked) = extent
  <2>1. marked = [h \in 1 .. extent |-> marked[h]]
    OBVIOUS
  <2>2. extent \in Nat /\ \A h \in 1 .. extent : marked[h] \in CellSet
    BY <1>1, <1>3
  <2> QED BY ONLY <2>1, <2>2, SeqIs
<1>5. ASSUME NEW h \in K
      PROVE  /\ marked[h].tag = headers[h].tag /\ marked[h].count = headers[h].count
             /\ marked[h].buffer = headers[h].buffer /\ marked[h].start = headers[h].start
             /\ marked[h].marked = TRUE
  <2>1. CASE h \in survivors
    <3>1. h \in Handle /\ headers[h].moved \in BOOLEAN /\ marked[h] = Survivor(h, headers[h].moved)
      BY <1>1, <1>2, <2>1
    <3> DEFINE m == headers[h].moved
    <3> HIDE DEF m
    <3>2. /\ Survivor(h, m).tag = headers[h].tag /\ Survivor(h, m).count = headers[h].count
          /\ Survivor(h, m).buffer = headers[h].buffer /\ Survivor(h, m).start = headers[h].start
          /\ Survivor(h, m).marked = TRUE
      BY <3>1, SurvivorIs DEF m
    <3> QED BY <3>1, <3>2 DEF m
  <2>2. CASE h \notin survivors
    BY <1>1, <1>2, <2>2
  <2> QED BY <2>1, <2>2
<1>6. \A h \in Handle \ K : marked[h] = headers[h]
  BY <1>2
<1> QED BY <1>3, <1>4, <1>5, <1>6 DEF MarkedAs

\* The walk begins.
LEMMA WalkBegins ==
    ASSUME Inv, NEW K, OldKept(K), NEW marked, MarkedAs(marked, K),
           \A h \in Live \ K : ~headers[h].marked,
           \A h \in Handle : marked[h].moved = headers[h].moved, NEW atoms
    PROVE  Walked(Work(marked, cycle.tail, cycle.byteTail), K, 0, atoms)
<1> DEFINE w == Work(marked, cycle.tail, cycle.byteTail)
           P == KeptSlots(K)
           S == SlotsDone(K, 0, 0)
           Q == KeptSmall(K)
           T == StringsDone(K, 0)
<1>1. TypeOK /\ HandlesInv /\ SlotsPlaced /\ SlotsAged /\ LogOK /\ BytesPlaced /\ BytesAged
  BY DEF Inv
<1>2. /\ cycle.tail \in Nat /\ cycle.byteTail \in Nat /\ Len(slots) \in Nat /\ Len(bytes) \in Nat /\ extent \in Nat
      /\ Handle = 1 .. extent /\ K \subseteq Handle /\ K \subseteq Live
      /\ cycle.tail <= Len(slots) /\ cycle.byteTail <= Len(bytes)
  BY <1>1, SMTT(30) DEF TypeOK, Cycles, Handle, OldKept, Live, SlotsAged, BytesAged
<1>3. /\ marked \in Seq(CellSet) /\ Len(marked) = extent
      /\ \A h \in K : /\ marked[h].tag = headers[h].tag /\ marked[h].count = headers[h].count
                      /\ marked[h].buffer = headers[h].buffer /\ marked[h].start = headers[h].start
                      /\ marked[h].marked = TRUE
      /\ \A h \in Handle \ K : marked[h] = headers[h]
  BY DEF MarkedAs
<1>4. /\ w \in Works /\ w.headers = marked /\ w.slots = slots /\ w.cursor = cycle.tail /\ w.grown = 0
      /\ w.bytes = bytes /\ w.byteCursor = cycle.byteTail /\ w.length = 0
      /\ w.dead = <<>> /\ w.deadAtoms = <<>>
  BY <1>1, <1>2, <1>3, WorkIs
<1> HIDE DEF w
<1>5. /\ \A h \in K : headers[h] \in CellSet /\ headers[h].start \in Nat /\ headers[h].count \in Nat
      /\ \A h \in K : w.headers[h].start = headers[h].start /\ w.headers[h].count = headers[h].count
                      /\ EndIn(w, h) = headers[h].start + headers[h].count /\ EndIn(w, h) \in Nat
  <2>1. \A h \in K : headers[h] \in CellSet
    BY <1>1, <1>2 DEF TypeOK
  <2>2. \A c \in CellSet : c.start \in Nat /\ c.count \in Nat
    BY DEF CellSet
  <2>3. \A h \in K : w.headers[h].start = headers[h].start /\ w.headers[h].count = headers[h].count
    BY <1>3, <1>4
  <2> QED BY <2>1, <2>2, <2>3 DEF EndIn
<1>6. CellsWalked(w, K, 0)
  <2>1. \A h \in Live \ K : w.headers[h].marked = FALSE
    <3>1. \A h \in Live \ K : h \in Handle \ K /\ headers[h] \in CellSet /\ headers[h].marked = FALSE
      <4>1. \A h \in Live \ K : headers[h] \in CellSet /\ ~headers[h].marked
        BY <1>1, <1>2 DEF TypeOK, Live
      <4>2. \A c \in CellSet : c.marked \in BOOLEAN
        BY DEF CellSet
      <4> QED BY <4>1, <4>2 DEF Live
    <3> QED BY <1>3, <1>4, <3>1
  <2>2. \A h \in Handle \ K : h \notin Live \/ h \in DeadBy(K, 0) => w.headers[h].tag = "free"
    BY <1>3, <1>4 DEF DeadBy, Live
  <2> QED BY <1>3, <1>4, <2>1, <2>2 DEF CellsWalked
<1>7. DeadIn(w, DeadBy(K, 0), atoms)
  <2>1. DeadBy(K, 0) = {}
    BY DEF DeadBy
  <2>2. {} \ atoms = {} /\ {} \intersect atoms = {}
    OBVIOUS
  <2> QED BY <1>4, <2>1, <2>2, ListsNothing DEF DeadIn
<1>8. S = {h \in P : headers[h].start < cycle.tail}
  BY DEF SlotsDone
<1>9. T = {h \in Q : headers[h].marked}
  BY DEF StringsDone
<1>10. P \subseteq Tagged("slots") /\ P \subseteq K /\ Q \subseteq Tagged("small") /\ Q \subseteq K
  BY DEF KeptSlots, KeptSmall
<1> HIDE DEF P, S, Q, T
<1>11. SlotsSlid(w, P, S)
  <2>1. \A h \in P : /\ headers[h].start + headers[h].count <= Len(slots)
                     /\ \A k \in 1 .. headers[h].count : slots[headers[h].start + k] = Written(h, k)
    BY <1>1, <1>10 DEF SlotsPlaced, End
  <2>2. \A h \in P \ S : w.headers[h].start = headers[h].start /\ cycle.tail <= headers[h].start
    BY <1>2, <1>5, <1>8, <1>10
  <2>3. \A h \in S : EndIn(w, h) <= cycle.tail
    <3>1. \A h \in S : headers[h].start + headers[h].count <= cycle.tail
      BY <1>1, <1>8, <1>10 DEF SlotsAged, End
    <3> QED BY <1>5, <1>8, <1>10, <3>1
  <2>4. \A h \in S : \A k \in 1 .. headers[h].count : w.slots[w.headers[h].start + k] = Written(h, k)
    BY <1>4, <1>5, <1>8, <1>10, <2>1
  <2>5. \A g, h \in S : g # h => ApartIn(w, g, h)
    <3>1. \A g, h \in S : g # h => Apart(g, h)
      BY <1>1, <1>8, <1>10 DEF SlotsPlaced
    <3> QED BY <1>5, <1>8, <1>10, <3>1 DEF ApartIn, Apart, End
  <2>6. S \subseteq P /\ \A h \in P : w.headers[h].count = headers[h].count
    BY <1>5, <1>8, <1>10
  <2> QED BY <1>2, <1>3, <1>4, <2>2, <2>3, <2>4, <2>5, <2>6 DEF SlotsSlid
<1>12. BytesSlid(w, Q, T, cycle.byteTail)
  <2>1. BytesFacts(Q)
    BY <1>1, <1>10, BytesKnown
  <2>2. BytesRest(w, Q, T, cycle.byteTail)
    <3>1. \A h \in Q \ T : NonEmpty(h) => \/ headers[h].start < cycle.byteTail
                                          \/ w.byteCursor <= headers[h].start
      BY <1>2, <1>4, <1>5, <1>10
    <3>2. \A h \in Q : w.headers[h].count = headers[h].count /\ w.headers[h].start = headers[h].start
      BY <1>5, <1>10
    <3> QED BY <1>2, <1>3, <1>4, <1>9, <3>1, <3>2 DEF BytesRest
  <2>3. BytesDone(w, T)
    <3>1. \A h \in T : EndIn(w, h) <= w.byteCursor
      <4>1. \A h \in T : headers[h].start + headers[h].count <= cycle.byteTail
        BY <1>1, <1>9, <1>10 DEF BytesAged, End
      <4> QED BY <1>4, <1>5, <1>9, <1>10, <4>1
    <3>2. \A h \in T : \A k \in 1 .. headers[h].count : w.bytes[w.headers[h].start + k] = bytes[headers[h].start + k]
      BY <1>4, <1>5, <1>9, <1>10
    <3>3. \A g, h \in T : NonEmpty(g) /\ NonEmpty(h) => w.headers[g].start = w.headers[h].start \/ ApartIn(w, g, h)
      <4>1. \A g, h \in T : NonEmpty(g) /\ NonEmpty(h) => headers[g].start = headers[h].start \/ Apart(g, h)
        BY <1>9, <2>1 DEF BytesFacts
      <4> QED BY <1>5, <1>9, <1>10, <4>1 DEF ApartIn, Apart, End
    <3> QED BY <3>1, <3>2, <3>3 DEF BytesDone
  <2>4. BytesRun(w, T, cycle.byteTail)
    BY <1>4 DEF BytesRun
  <2>5. BytesLow(w, Q, T, cycle.byteTail)
    <3>1. \A g \in T : w.headers[g].start = headers[g].start
      BY <1>5, <1>9, <1>10
    <3>2. ~ (w.length > 0)
      BY <1>4
    <3> QED BY <1>4, <3>1, <3>2 DEF BytesLow
  <2> QED BY <2>2, <2>3, <2>4, <2>5 DEF BytesSlid
<1>13. Walking(w, K, 0, w.grown, atoms)
  BY <1>4, <1>6, <1>7, <1>11, <1>12 DEF Walking, P, Q, S, T
<1>14. MovedKept(w, 0)
  <2>1. \A i \in 0 + 1 .. YoungCount : YoungHandle(i) \in Handle
    BY <1>1, YoungKnown DEF YoungAre
  <2> QED BY <1>4, <2>1 DEF MovedKept
<1>15. w.grown <= Len(growLog)
  <2>1. Len(growLog) \in Nat
    BY <1>1, LogIs DEF LogKnown
  <2> QED BY <1>4, <2>1
<1> QED BY <1>13, <1>14, <1>15 DEF Walked, w

\* The walk over all the young cells, and the rest of the log.
LEMMA SweptYoungIs ==
    ASSUME Inv, NEW survivors \in SUBSET {h \in Live : ~headers[h].marked}, NEW K,
           K = {h \in Live : headers[h].marked} \union survivors, NEW atoms
    PROVE  Walking(SweptYoung(survivors, atoms), K, YoungCount, Len(growLog), atoms)
<1> DEFINE marked == [h \in 1 .. extent |-> IF h \in survivors THEN Survivor(h, headers[h].moved) ELSE headers[h]]
           base == Work(marked, cycle.tail, cycle.byteTail)
           N == YoungCount
           Good == [n \in 0 .. N |-> {x \in Works : Walked(x, K, n, atoms)}]
           Step(n, x) == SweepYoungCell(x, YoungHandle(n), atoms)
           G == [n \in 0 + 1 .. N |-> [x \in Works |-> Step(n, x)]]
           Body(g) == [n \in 0 .. YoungCount |->
                          IF n = 0
                          THEN Work([h \in 1 .. extent |-> IF h \in survivors THEN Survivor(h, headers[h].moved) ELSE headers[h]],
                                    cycle.tail, cycle.byteTail)
                          ELSE SweepYoungCell(g[n - 1], YoungHandle(n), atoms)]
           walked == CHOOSE g : g = Body(g)
<1>1. TypeOK /\ HandlesInv /\ SlotsPlaced /\ SlotsAged /\ LogOK /\ OldKept(K)
  BY DEF Inv, OldKept
<1>2. N \in Nat /\ \A n \in 0 + 1 .. N : n \in 1 .. YoungCount /\ n - 1 \in 0 .. N /\ n \in 0 .. N
  BY <1>1, YoungKnown DEF YoungAre
<1>3. Walked(base, K, 0, atoms)
  <2>1. MarkedAs(marked, K) /\ \A h \in Handle : marked[h].moved = headers[h].moved
    <3> HIDE DEF marked
    <3> QED BY <1>1, MinorMarked DEF marked
  <2>2. \A h \in Live \ K : ~headers[h].marked
    OBVIOUS
  <2> HIDE DEF marked
  <2> QED BY <1>1, <2>1, <2>2, WalkBegins
<1> HIDE DEF marked, base
<1>4. base \in Works
  BY <1>3 DEF Walked, Walking
<1>5. Good \in [0 .. N -> SUBSET Works] /\ base \in Good[0]
  BY <1>2, <1>3, <1>4
<1>6. ASSUME NEW n \in 0 + 1 .. N, NEW x \in Good[n - 1]
      PROVE  Step(n, x) \in Good[n] /\ G[n][x] = Step(n, x)
  <2>1. Walked(x, K, n - 1, atoms) /\ x \in Works /\ n \in 1 .. YoungCount
    BY <1>2, <1>6
  <2>2. Walked(Step(n, x), K, n, atoms)
    BY <1>1, <2>1, SweepOn
  <2> HIDE DEF Step
  <2>3. Step(n, x) \in Works
    BY <2>2 DEF Walked, Walking
  <2> QED BY <1>2, <2>1, <2>2, <2>3
<1>7. \A n \in 0 + 1 .. N : \A x \in Good[n - 1] : Step(n, x) \in Good[n] /\ G[n][x] = Step(n, x)
  BY <1>6
<1> HIDE DEF Good, G
<1>8. PICK f : FollowsFrom(f, 0, N, base, G) /\ \A n \in 0 .. N : f[n] \in Good[n]
  <2>1. \A n \in 0 + 1 .. N : \A x \in Good[n - 1] : G[n][x] \in Good[n]
    <3> HIDE DEF Step
    <3> QED BY <1>7
  <2>2. 0 \in Nat /\ 0 <= N
    BY <1>2
  <2> HIDE DEF N, Step
  <2> QED BY <1>2, <1>5, <2>1, <2>2, Walk, ZenonT(40)
<1>9. f = Body(f)
  <2>1. \A n \in 0 .. N : (IF n = 0 THEN base ELSE G[n][f[n - 1]]) = (IF n = 0 THEN base ELSE Step(n, f[n - 1]))
    <3>1. \A n \in 0 .. N : n # 0 => n \in 0 + 1 .. N /\ n - 1 \in 0 .. N
      BY <1>2
    <3> HIDE DEF Step
    <3> QED BY <1>7, <1>8, <3>1
  <2>2. f = [n \in 0 .. N |-> IF n = 0 THEN base ELSE Step(n, f[n - 1])]
    <3> HIDE DEF Step
    <3> QED BY <1>8, <2>1 DEF FollowsFrom
  <2> QED BY <2>2, Zenon DEF base, marked
<1>10. walked = Body(walked)
  <2> HIDE DEF Body
  <2> QED BY <1>9
<1>11. SweptYoung(survivors, atoms) = SlideGrownTo(walked[YoungCount], Len(growLog))
  BY Zenon DEF SweptYoung
<1> HIDE DEF walked
<1>12. walked[0] = base /\ \A n \in 0 + 1 .. N : walked[n] = Step(n, walked[n - 1])
  <2>1. \A n \in 0 .. N : walked[n] = IF n = 0 THEN base ELSE Step(n, walked[n - 1])
    <3>1. walked = [n \in 0 .. N |-> IF n = 0 THEN base ELSE Step(n, walked[n - 1])]
      BY <1>10, Zenon DEF base, marked
    <3> HIDE DEF Step
    <3> QED BY <3>1, Zenon
  <2>2. 0 \in 0 .. N /\ \A n \in 0 + 1 .. N : n \in 0 .. N /\ n # 0
    BY <1>2
  <2> HIDE DEF Step
  <2> QED BY <2>1, <2>2
<1>13. walked[N] \in Good[N]
  <2> DEFINE H == {n \in 0 .. N : walked[n] \in Good[n]}
  <2>1. 0 \in H
    BY <1>2, <1>5, <1>12
  <2>2. \A n \in 0 + 1 .. N : n - 1 \in H => n \in H
    <3> HIDE DEF Step
    <3> QED BY <1>2, <1>7, <1>12
  <2>3. \A n \in 0 .. N : n \in H
    <3>1. 0 \in Nat /\ 0 <= N
      BY <1>2
    <3> HIDE DEF H, N
    <3> QED BY <1>2, <2>1, <2>2, <3>1, UpFrom
  <2>4. N \in 0 .. N
    BY <1>2
  <2> QED BY <2>3, <2>4
<1> DEFINE x == walked[N]
<1>14. Walked(x, K, N, atoms)
  <2>1. N \in 0 .. N
    BY <1>2
  <2> QED BY <1>13, <2>1 DEF Good
<1> HIDE DEF x, N
<1>15. Walking(SlideGrownTo(x, Len(growLog)), K, N, Len(growLog), atoms)
  <2>1. Walking(x, K, N, x.grown, atoms) /\ x.grown <= Len(growLog) /\ x \in Works
    BY <1>14 DEF Walked, Walking
  <2>2. Len(growLog) \in x.grown .. Len(growLog)
    <3>1. Len(growLog) \in Nat /\ x.grown \in Nat
      BY <1>1, <2>1, LogIs, WorksFields DEF LogKnown
    <3> QED BY <2>1, <3>1
  <2>3. \A j \in x.grown + 1 .. Len(growLog) : NoneBelow(K, N, growLog[j].start)
    <3>1. N + 1 .. YoungCount = {}
      BY <1>2 DEF N
    <3> QED BY <3>1 DEF NoneBelow
  <2>4. N \in Nat
    BY <1>2
  <2> QED BY <1>1, <2>1, <2>2, <2>3, <2>4, SlideGrownToOn
<1> QED BY <1>11, <1>15 DEF x, N

\* What survives is placed when the walk is over, and what does not is dead.
LEMMA WalkEnds ==
    ASSUME Inv, NEW K, OldKept(K), NEW atoms, NEW w, Walking(w, K, YoungCount, Len(growLog), atoms)
    PROVE  SweptTo(w, K) /\ DeadIn(w, Live \ K, atoms)
<1>1. TypeOK /\ HandlesInv /\ SlotsAged /\ LogOK /\ YoungAre /\ LogKnown
  BY YoungKnown, LogIs DEF Inv
<1>2. DeadBy(K, YoungCount) = Live \ K
  BY <1>1 DEF DeadBy, OldKept, YoungAre
<1>3. StringsDone(K, YoungCount) = KeptSmall(K)
  <2>1. ASSUME NEW h \in KeptSmall(K) PROVE headers[h].marked \/ \E i \in 1 .. YoungCount : YoungHandle(i) = h
    BY <1>1 DEF KeptSmall, OldKept, YoungAre
  <2> QED BY <2>1 DEF StringsDone
<1>4. SlotsDone(K, YoungCount, Len(growLog)) = KeptSlots(K)
  <2>1. ASSUME NEW h \in KeptSlots(K), h \notin SlotsDone(K, YoungCount, Len(growLog)) PROVE FALSE
    <3>1. YoungCount \in Nat /\ Len(growLog) \in Nat
      BY <1>1 DEF YoungAre, LogKnown
    <3>2. YoungCount + 1 .. YoungCount = {} /\ Len(growLog) + 1 .. Len(growLog) = {}
      BY <3>1
    <3>3. \/ \E i \in YoungCount + 1 .. YoungCount : YoungHandle(i) = h
          \/ \E j \in Len(growLog) + 1 .. Len(growLog) : Current(j, h)
      BY <1>1, <2>1, <3>1, SlotsWhere
    <3> QED BY <3>2, <3>3
  <2> QED BY <2>1 DEF SlotsDone
<1>5. /\ w \in Works /\ CellsWalked(w, K, YoungCount) /\ DeadIn(w, Live \ K, atoms)
      /\ SlotsSlid(w, KeptSlots(K), KeptSlots(K))
      /\ BytesSlid(w, KeptSmall(K), KeptSmall(K), cycle.byteTail)
  BY <1>2, <1>3, <1>4 DEF Walking
<1>6. Lists(w.dead \o w.deadAtoms, Live \ K)
  BY <1>5, DeadListed
<1>7. cycle.byteTail \in Nat
  BY <1>1 DEF TypeOK, Cycles
<1>8. \A h \in Handle \ K : w.headers[h].tag = "free"
  <2>1. \A h \in Handle \ K : h \notin Live \/ h \in DeadBy(K, YoungCount)
    BY <1>2
  <2> QED BY <1>5, <2>1 DEF CellsWalked
<1>9. \E low \in Nat : BytesSlid(w, K \intersect Tagged("small"), K \intersect Tagged("small"), low)
  BY <1>5, <1>7 DEF KeptSmall
<1>10. SlotsSlid(w, K \intersect Tagged("slots"), K \intersect Tagged("slots"))
  BY <1>5 DEF KeptSlots
<1>11. K \subseteq Live
  BY DEF OldKept
<1>12. /\ Len(w.headers) = extent
       /\ \A h \in K : /\ w.headers[h].tag = headers[h].tag /\ w.headers[h].count = headers[h].count
                       /\ w.headers[h].buffer = headers[h].buffer /\ w.headers[h].marked = TRUE
  BY <1>5 DEF CellsWalked
<1>13. SweptTo(w, K)
  BY <1>5, <1>6, <1>8, <1>9, <1>10, <1>11, <1>12 DEF SweptTo
<1> QED BY <1>5, <1>13

LEMMA MinorKeeps ==
    ASSUME Inv, MinorCollection
    PROVE  Inv'
<1>1. PICK survivors \in SUBSET {h \in Live : ~headers[h].marked} :
           \E atoms \in SUBSET {h \in {g \in Live : ~headers[g].marked} \ survivors : headers[h].tag # "slots"} :
               EndCollection(SweptYoung(survivors, atoms),
                             Listed \o SweptYoung(survivors, atoms).dead \o SweptYoung(survivors, atoms).deadAtoms, extent)
  BY DEF MinorCollection
<1>2. PICK atoms :
           EndCollection(SweptYoung(survivors, atoms),
                         Listed \o SweptYoung(survivors, atoms).dead \o SweptYoung(survivors, atoms).deadAtoms, extent)
  BY <1>1
<1> DEFINE K == {h \in Live : headers[h].marked} \union survivors
           w == SweptYoung(survivors, atoms)
           list == Listed \o w.dead \o w.deadAtoms
<1>3. OldKept(K) /\ K \subseteq Handle /\ extent \in Nat /\ HandlesInv
  BY DEF OldKept, Live, Inv, TypeOK
<1>4. Walking(w, K, YoungCount, Len(growLog), atoms)
  BY SweptYoungIs
<1> HIDE DEF K, w
<1>5. SweptTo(w, K) /\ DeadIn(w, Live \ K, atoms)
  BY <1>3, <1>4, WalkEnds
<1>6. Lists(list, (1 .. extent) \ K)
  <2> DEFINE D == Live \ K
             F == Handle \ Live
  <2>1. Lists(Listed, F)
    BY <1>3 DEF HandlesInv
  <2>2. Lists(w.dead, D \ atoms) /\ Lists(w.deadAtoms, D \intersect atoms)
    BY <1>5 DEF DeadIn
  <2>3. F \intersect (D \ atoms) = {} /\ (F \union (D \ atoms)) \intersect (D \intersect atoms) = {}
    OBVIOUS
  <2>4. (F \union (D \ atoms)) \union (D \intersect atoms) = (1 .. extent) \ K
    BY <1>3 DEF OldKept, Handle, Live
  <2> HIDE DEF D, F
  <2>5. Lists(Listed \o w.dead, F \union (D \ atoms))
    BY <2>1, <2>2, <2>3, ListsConcat
  <2>6. Lists(list, (F \union (D \ atoms)) \union (D \intersect atoms))
    BY <2>2, <2>3, <2>5, ListsConcat
  <2> QED BY <2>4, <2>6
<1>7. EndCollection(w, list, extent)
  BY <1>2 DEF w
<1>8. extent \in 0 .. extent /\ \A h \in K : h <= extent
  BY <1>3 DEF Handle
<1> HIDE DEF list
<1> QED BY <1>5, <1>6, <1>7, <1>8, CollectionKeeps
-----------------------------------------------------------------------------
(* The full collection's sweep.                                            *)

\* When the cells from n down to the end of the table have been looked at,
\* the dead among them are freed.
FreedDown(K, n) == {h \in Live \ K : h >= extent + 1 - n}

\* The survivors' cells, wherever their arenas' ranges are.
CellsKept(w, K) ==
    /\ Len(w.headers) = extent
    /\ \A h \in K : /\ w.headers[h].tag = headers[h].tag /\ w.headers[h].count = headers[h].count
                    /\ w.headers[h].buffer = headers[h].buffer /\ w.headers[h].marked = TRUE

Freeing(w, K, n) ==
    /\ w \in Works /\ CellsKept(w, K)
    /\ \A h \in K : w.headers[h].start = headers[h].start
    /\ \A h \in Handle \ K : h \notin Live \/ h \in FreedDown(K, n) => w.headers[h].tag = "free"
    /\ DeadIn(w, FreedDown(K, n), {})
    /\ w.slots = slots /\ w.cursor = 0
    /\ w.bytes = bytes /\ w.byteCursor = Len(bytes) /\ w.length = 0

LEMMA FullMarked ==
    ASSUME TypeOK, NEW K \in SUBSET Live,
           NEW marked, marked = [h \in 1 .. extent |-> IF h \in K THEN Survivor(h, FALSE) ELSE headers[h]]
    PROVE  MarkedAs(marked, K)
<1>1. /\ extent \in Nat /\ Handle = 1 .. extent /\ K \subseteq Handle
      /\ \A h \in Handle : headers[h] \in CellSet
  BY DEF TypeOK, Handle, Live
<1>2. \A h \in Handle : marked[h] = IF h \in K THEN Survivor(h, FALSE) ELSE headers[h]
  BY <1>1
<1>3. \A h \in Handle : marked[h] \in CellSet
  BY <1>1, <1>2, SurvivorIs
<1>4. marked \in Seq(CellSet) /\ Len(marked) = extent
  <2>1. marked = [h \in 1 .. extent |-> marked[h]]
    OBVIOUS
  <2>2. extent \in Nat /\ \A h \in 1 .. extent : marked[h] \in CellSet
    BY <1>1, <1>3
  <2> QED BY ONLY <2>1, <2>2, SeqIs
<1>5. \A h \in K : /\ marked[h].tag = headers[h].tag /\ marked[h].count = headers[h].count
                   /\ marked[h].buffer = headers[h].buffer /\ marked[h].start = headers[h].start
                   /\ marked[h].marked = TRUE
  BY <1>1, <1>2, SurvivorIs
<1>6. \A h \in Handle \ K : marked[h] = headers[h]
  BY <1>2
<1> QED BY <1>4, <1>5, <1>6 DEF MarkedAs

LEMMA FreeingBegins ==
    ASSUME TypeOK, NEW K \in SUBSET Live, NEW marked, MarkedAs(marked, K)
    PROVE  Freeing(Work(marked, 0, Len(bytes)), K, 0)
<1> DEFINE w == Work(marked, 0, Len(bytes))
<1>1. /\ marked \in Seq(CellSet) /\ Len(marked) = extent
      /\ \A h \in K : /\ marked[h].tag = headers[h].tag /\ marked[h].count = headers[h].count
                      /\ marked[h].buffer = headers[h].buffer /\ marked[h].start = headers[h].start
                      /\ marked[h].marked = TRUE
      /\ \A h \in Handle \ K : marked[h] = headers[h]
  BY DEF MarkedAs
<1>2. Len(bytes) \in Nat /\ 0 \in Nat
  BY DEF TypeOK
<1>3. /\ w \in Works /\ w.headers = marked /\ w.slots = slots /\ w.cursor = 0 /\ w.grown = 0
      /\ w.bytes = bytes /\ w.byteCursor = Len(bytes) /\ w.length = 0
      /\ w.dead = <<>> /\ w.deadAtoms = <<>>
  BY <1>1, <1>2, WorkIs
<1> HIDE DEF w
<1>4. FreedDown(K, 0) = {}
  BY DEF FreedDown, Live, Handle, TypeOK
<1>5. DeadIn(w, FreedDown(K, 0), {})
  <2>1. {} \ {} = {} /\ {} \intersect {} = {}
    OBVIOUS
  <2> QED BY <1>3, <1>4, <2>1, ListsNothing DEF DeadIn
<1>6. \A h \in Handle \ K : h \notin Live \/ h \in FreedDown(K, 0) => w.headers[h].tag = "free"
  BY <1>1, <1>3, <1>4 DEF Live
<1>7. CellsKept(w, K) /\ \A h \in K : w.headers[h].start = headers[h].start
  BY <1>1, <1>3 DEF CellsKept
<1>8. Freeing(w, K, 0)
  BY <1>3, <1>5, <1>6, <1>7 DEF Freeing
<1> QED BY <1>8 DEF w

LEMMA FreeingOn ==
    ASSUME TypeOK, NEW K \in SUBSET Live, NEW n \in 1 .. extent, NEW w, Freeing(w, K, n - 1)
    PROVE  Freeing(IF extent + 1 - n \in Live \ K THEN Freed(w, extent + 1 - n, {}) ELSE w, K, n)
<1> DEFINE h == extent + 1 - n
           v == Freed(w, h, {})
<1>1. /\ extent \in Nat /\ h \in 1 .. extent /\ Handle = 1 .. extent /\ Live \subseteq 1 .. extent
      /\ extent + 1 - (n - 1) = h + 1
  BY DEF TypeOK, Handle, Live
<1>2. FreedDown(K, n) = FreedDown(K, n - 1) \union ({h} \intersect (Live \ K)) /\ h \notin FreedDown(K, n - 1)
  <2>1. \A e \in Live : (e >= h <=> e >= h + 1 \/ e = h) /\ (h + 1 > h) /\ ~ (h >= h + 1)
    <3>1. h \in Nat
      BY <1>1
    <3> HIDE DEF h
    <3> QED BY <1>1, <3>1
  <2> QED BY <1>1, <2>1 DEF FreedDown
<1>3. /\ w \in Works /\ CellsKept(w, K) /\ Len(w.headers) = extent
      /\ \A e \in K : w.headers[e].start = headers[e].start
      /\ \A e \in Handle \ K : e \notin Live \/ e \in FreedDown(K, n - 1) => w.headers[e].tag = "free"
      /\ DeadIn(w, FreedDown(K, n - 1), {})
      /\ w.slots = slots /\ w.cursor = 0
      /\ w.bytes = bytes /\ w.byteCursor = Len(bytes) /\ w.length = 0
  BY DEF Freeing, CellsKept
<1> HIDE DEF h, v
<1>4. CASE h \in Live \ K
  <2>1. CellFreed(v, w, h) /\ DeadIn(v, FreedDown(K, n - 1) \union {h}, {})
    BY <1>1, <1>2, <1>3, FreedOf DEF v
  <2>2. /\ v \in Works /\ Len(v.headers) = extent /\ v.headers[h] = FreeCell
        /\ \A e \in Handle : e # h => v.headers[e] = w.headers[e]
        /\ SameSlots(v, w) /\ SameBytes(v, w)
    BY <1>1, <1>3, <2>1 DEF CellFreed
  <2>3. \A e \in K : e \in Handle /\ e # h /\ v.headers[e] = w.headers[e]
    BY <1>4, <2>2 DEF Live
  <2>4. FreedDown(K, n) = FreedDown(K, n - 1) \union {h}
    BY <1>2, <1>4
  <2>5. ASSUME NEW e \in Handle \ K, e \notin Live \/ e \in FreedDown(K, n) PROVE v.headers[e].tag = "free"
    <3>1. CASE e = h
      BY <2>2, <3>1, FreeCellIs
    <3>2. CASE e # h
      BY <1>3, <2>2, <2>4, <2>5, <3>2
    <3> QED BY <3>1, <3>2
  <2>6. CellsKept(v, K) /\ \A e \in K : v.headers[e].start = headers[e].start
    BY <1>3, <2>2, <2>3 DEF CellsKept
  <2>7. v.slots = slots /\ v.cursor = 0 /\ v.bytes = bytes /\ v.byteCursor = Len(bytes) /\ v.length = 0
    BY <1>3, <2>2 DEF SameSlots, SameBytes
  <2>8. Freeing(v, K, n)
    BY <2>1, <2>2, <2>4, <2>5, <2>6, <2>7 DEF Freeing
  <2> QED BY <1>4, <2>8 DEF v, h
<1>5. CASE h \notin Live \ K
  <2>1. FreedDown(K, n) = FreedDown(K, n - 1)
    BY <1>2, <1>5
  <2>2. Freeing(w, K, n)
    BY <1>3, <2>1 DEF Freeing
  <2> QED BY <1>5, <2>2 DEF h
<1> QED BY <1>4, <1>5

\* The slots.
SlotsBelow(K, n) == {h \in KeptSlots(K) : headers[h].start < n}

SlotsGoing(v, w, K, n) ==
    /\ v \in Works /\ SlotsSlid(v, KeptSlots(K), SlotsBelow(K, n))
    /\ CellsAlike(v, w) /\ SameBytes(v, w) /\ SameDead(v, w)
    /\ \A h \in KeptSmall(K) : v.headers[h].start = w.headers[h].start

SlotsAt(w, n) == {h \in Handle : w.headers[h].tag = "slots" /\ headers[h].start = n}

LEMMA SlotsGoOn ==
    ASSUME TypeOK, SlotsPlaced, NEW K \in SUBSET Live, NEW w, Freeing(w, K, extent), NEW n \in 1 .. Len(slots),
           NEW v, SlotsGoing(v, w, K, n - 1)
    PROVE  SlotsGoing(IF SlotsAt(w, n - 1) = {} THEN v ELSE SlideRange(v, CHOOSE h \in SlotsAt(w, n - 1) : TRUE), w, K, n)
<1> DEFINE P == KeptSlots(K)
           S == SlotsBelow(K, n - 1)
<1>1. /\ n \in Nat /\ n - 1 \in Nat
      /\ \A h \in P : headers[h].start \in Nat /\ headers[h].count \in Nat /\ headers[h].count >= 1 /\ h \in Handle
  <2>1. \A h \in P : h \in Tagged("slots") /\ headers[h].count >= 1 /\ h \in Handle
    BY DEF KeptSlots, SlotsPlaced, Tagged
  <2>2. \A h \in P : headers[h] \in CellSet
    BY <2>1 DEF TypeOK, Handle
  <2>3. Len(slots) \in Nat
    BY DEF TypeOK
  <2> QED BY <2>1, <2>2, <2>3 DEF CellSet
<1>2. SlotsAt(w, n - 1) = {h \in P : headers[h].start = n - 1}
  <2>1. \A h \in K : h \in Handle /\ w.headers[h].tag = headers[h].tag
    BY DEF Freeing, CellsKept, Live
  <2>2. \A h \in Handle \ K : w.headers[h].tag = "free"
    <3>1. \A h \in Handle \ K : h \notin Live \/ h \in FreedDown(K, extent)
      BY DEF FreedDown, Handle, Live, TypeOK
    <3> QED BY <3>1 DEF Freeing
  <2> QED BY <2>1, <2>2 DEF SlotsAt, KeptSlots, Tagged
<1>3. SlotsBelow(K, n) = S \union {h \in P : headers[h].start = n - 1}
  BY <1>1 DEF SlotsBelow
<1>4. /\ v \in Works /\ SlotsSlid(v, P, S) /\ CellsAlike(v, w) /\ SameBytes(v, w) /\ SameDead(v, w)
      /\ \A h \in KeptSmall(K) : v.headers[h].start = w.headers[h].start
      /\ Len(v.headers) = extent
  BY DEF SlotsGoing, SlotsSlid
<1>5. CASE SlotsAt(w, n - 1) = {}
  <2>1. SlotsBelow(K, n) = S
    BY <1>2, <1>3, <1>5
  <2>2. SlotsGoing(v, w, K, n)
    BY <1>4, <2>1 DEF SlotsGoing
  <2> QED BY <1>5, <2>2
<1>6. CASE SlotsAt(w, n - 1) # {}
  <2> DEFINE h == CHOOSE e \in SlotsAt(w, n - 1) : TRUE
             u == SlideRange(v, h)
  <2>1. h \in P /\ headers[h].start = n - 1
    BY <1>2, <1>6
  <2> HIDE DEF h
  <2>2. SlotsBelow(K, n) = S \union {h}
    <3>1. ASSUME NEW e \in P, headers[e].start = n - 1 PROVE e = h
      <4>1. e \in Tagged("slots") /\ h \in Tagged("slots")
        BY <2>1 DEF KeptSlots
      <4>2. ~ Apart(e, h)
        BY <1>1, <2>1, <3>1 DEF Apart, End
      <4> QED BY <4>1, <4>2 DEF SlotsPlaced
    <3> QED BY <1>3, <2>1, <3>1
  <2>3. h \in P \ S /\ \A g \in P \ S : headers[h].start <= headers[g].start
    BY <1>1, <2>1 DEF SlotsBelow
  <2>4. P \in SUBSET Tagged("slots")
    BY DEF KeptSlots
  <2> HIDE DEF P, S, u
  <2>5. SlotsSlid(u, P, S \union {h}) /\ RangeSlid(u, v, h)
    BY <1>4, <2>3, <2>4, SlotsSlideOn DEF u
  <2>6. /\ u \in Works /\ StartOnly(u, v, h) /\ SameBytes(u, v) /\ SameDead(u, v)
    BY <2>5 DEF RangeSlid
  <2>7. CellsAlike(u, w) /\ SameBytes(u, w) /\ SameDead(u, w)
    <3>1. CellsAlike(u, v)
      BY <2>6, StartOnlyAlike
    <3> QED BY <1>4, <2>6, <3>1 DEF CellsAlike, SameBytes, SameDead
  <2>8. \A e \in KeptSmall(K) : u.headers[e].start = w.headers[e].start
    <3>1. \A e \in KeptSmall(K) : e # h /\ e \in 1 .. Len(v.headers)
      BY <1>4, <2>1 DEF KeptSmall, KeptSlots, Tagged, Handle, P
    <3> QED BY <1>4, <2>6, <3>1 DEF StartOnly
  <2>9. SlotsGoing(u, w, K, n)
    BY <2>2, <2>5, <2>6, <2>7, <2>8 DEF SlotsGoing, P
  <2> QED BY <1>6, <2>9 DEF u, h
<1> QED BY <1>5, <1>6

\* All the slots.
LEMMA SlideSlotsIs ==
    ASSUME TypeOK, SlotsPlaced, NEW K \in SUBSET Live, NEW w, Freeing(w, K, extent)
    PROVE  SlotsGoing(SlideSlots(w), w, K, Len(slots)) /\ SlotsBelow(K, Len(slots)) = KeptSlots(K)
<1> DEFINE N == Len(slots)
           base == w
           Good == [n \in 0 .. N |-> {x \in Works : SlotsGoing(x, w, K, n)}]
           Step(n, x) == IF SlotsAt(w, n - 1) = {} THEN x ELSE SlideRange(x, CHOOSE h \in SlotsAt(w, n - 1) : TRUE)
           G == [n \in 0 + 1 .. N |-> [x \in Works |-> Step(n, x)]]
           Body(g) == [n \in 0 .. Len(slots) |->
                          IF n = 0 THEN w
                          ELSE IF SlotsAt(w, n - 1) = {} THEN g[n - 1]
                          ELSE SlideRange(g[n - 1], CHOOSE h \in SlotsAt(w, n - 1) : TRUE)]
           slid == CHOOSE g : g = Body(g)
<1>1. /\ w \in Works /\ CellsKept(w, K) /\ Len(w.headers) = extent /\ K \subseteq Handle
      /\ \A h \in K : w.headers[h].start = headers[h].start
      /\ w.slots = slots /\ w.cursor = 0
  BY DEF Freeing, CellsKept, Live
<1>2. N \in Nat /\ \A n \in 0 + 1 .. N : n \in 1 .. Len(slots) /\ n - 1 \in 0 .. N /\ n \in 0 .. N
  BY DEF TypeOK
<1>3. SlotsGoing(w, w, K, 0)
  <2>1. \A h \in KeptSlots(K) : h \in K /\ headers[h].start \in Nat
    <3>1. \A h \in KeptSlots(K) : h \in K /\ headers[h] \in CellSet
      BY <1>1 DEF KeptSlots, TypeOK, Handle
    <3> QED BY <3>1 DEF CellSet
  <2>2. SlotsBelow(K, 0) = {}
    BY <2>1 DEF SlotsBelow
  <2>3. \A h \in KeptSlots(K) : w.headers[h].count = headers[h].count /\ w.headers[h].start = headers[h].start
    BY <1>1, <2>1 DEF CellsKept
  <2>4. SlotsSlid(w, KeptSlots(K), {})
    BY <1>1, <1>2, <2>1, <2>3 DEF SlotsSlid
  <2> QED BY <1>1, <2>2, <2>4 DEF SlotsGoing, CellsAlike, SameBytes, SameDead
<1>5. Good \in [0 .. N -> SUBSET Works] /\ base \in Good[0]
  BY <1>1, <1>2, <1>3
<1>6. ASSUME NEW n \in 0 + 1 .. N, NEW x \in Good[n - 1]
      PROVE  Step(n, x) \in Good[n] /\ G[n][x] = Step(n, x)
  <2>1. SlotsGoing(x, w, K, n - 1) /\ x \in Works /\ n \in 1 .. Len(slots)
    BY <1>2, <1>6
  <2>2. SlotsGoing(Step(n, x), w, K, n)
    BY <2>1, SlotsGoOn
  <2> HIDE DEF Step
  <2>3. Step(n, x) \in Works
    BY <2>2 DEF SlotsGoing
  <2> QED BY <1>2, <2>1, <2>2, <2>3
<1>7. \A n \in 0 + 1 .. N : \A x \in Good[n - 1] : Step(n, x) \in Good[n] /\ G[n][x] = Step(n, x)
  BY <1>6
<1> HIDE DEF Good, G
<1>8. PICK f : FollowsFrom(f, 0, N, base, G) /\ \A n \in 0 .. N : f[n] \in Good[n]
  <2>1. \A n \in 0 + 1 .. N : \A x \in Good[n - 1] : G[n][x] \in Good[n]
    <3> HIDE DEF Step
    <3> QED BY <1>7
  <2>2. 0 \in Nat /\ 0 <= N
    BY <1>2
  <2> HIDE DEF Step, N
  <2> QED BY <1>2, <1>5, <2>1, <2>2, Walk, ZenonT(40)
<1>9. f = Body(f)
  <2>1. \A n \in 0 .. N : (IF n = 0 THEN base ELSE G[n][f[n - 1]]) = (IF n = 0 THEN base ELSE Step(n, f[n - 1]))
    <3>1. \A n \in 0 .. N : n # 0 => n \in 0 + 1 .. N /\ n - 1 \in 0 .. N
      BY <1>2
    <3> HIDE DEF Step
    <3> QED BY <1>7, <1>8, <3>1
  <2>2. f = [n \in 0 .. N |-> IF n = 0 THEN base ELSE Step(n, f[n - 1])]
    <3> HIDE DEF Step
    <3> QED BY <1>8, <2>1 DEF FollowsFrom
  <2> QED BY <2>2, Zenon
<1>10. slid = Body(slid)
  <2> HIDE DEF Body
  <2> QED BY <1>9
<1>11. SlideSlots(w) = slid[Len(slots)]
  BY Zenon DEF SlideSlots, SlotsAt
<1> HIDE DEF slid
<1>12. slid[0] = base /\ \A n \in 0 + 1 .. N : slid[n] = Step(n, slid[n - 1])
  <2>1. \A n \in 0 .. N : slid[n] = IF n = 0 THEN base ELSE Step(n, slid[n - 1])
    <3>1. slid = [n \in 0 .. N |-> IF n = 0 THEN base ELSE Step(n, slid[n - 1])]
      BY <1>10, Zenon
    <3> HIDE DEF Step
    <3> QED BY <3>1, Zenon
  <2>2. 0 \in 0 .. N /\ \A n \in 0 + 1 .. N : n \in 0 .. N /\ n # 0
    BY <1>2
  <2> HIDE DEF Step
  <2> QED BY <2>1, <2>2
<1>13. slid[N] \in Good[N]
  <2> DEFINE H == {n \in 0 .. N : slid[n] \in Good[n]}
  <2>1. 0 \in H
    BY <1>2, <1>5, <1>12
  <2>2. \A n \in 0 + 1 .. N : n - 1 \in H => n \in H
    <3> HIDE DEF Step
    <3> QED BY <1>2, <1>7, <1>12
  <2>3. \A n \in 0 .. N : n \in H
    <3>1. 0 \in Nat /\ 0 <= N
      BY <1>2
    <3> HIDE DEF H, N
    <3> QED BY <1>2, <2>1, <2>2, <3>1, UpFrom
  <2>4. N \in 0 .. N
    BY <1>2
  <2> QED BY <2>3, <2>4
<1>14. SlotsGoing(SlideSlots(w), w, K, Len(slots))
  <2>1. N \in 0 .. N
    BY <1>2
  <2> QED BY <1>11, <1>13, <2>1 DEF Good
<1>15. SlotsBelow(K, Len(slots)) = KeptSlots(K)
  <2>1. ASSUME NEW h \in KeptSlots(K) PROVE headers[h].start < Len(slots)
    <3>1. /\ headers[h].count >= 1 /\ headers[h].start + headers[h].count <= Len(slots) /\ h \in Handle
      BY DEF KeptSlots, SlotsPlaced, End, Tagged
    <3>2. headers[h] \in CellSet
      BY <3>1 DEF TypeOK, Handle
    <3>3. headers[h].start \in Nat /\ headers[h].count \in Nat
      BY <3>2 DEF CellSet
    <3> QED BY <1>2, <3>1, <3>3
  <2> QED BY <2>1 DEF SlotsBelow
<1> QED BY <1>14, <1>15

\* The strings' bytes: the handles at a place up to one.
BytesUpTo(K, n, h) == {e \in KeptSmall(K) : headers[e].start < n \/ (headers[e].start = n /\ e <= h)}
BytesBelow(K, n) == {e \in KeptSmall(K) : headers[e].start < n}

BytesGoing(v, w, K, T) ==
    /\ v \in Works /\ BytesSlid(v, KeptSmall(K), T, 0)
    /\ CellsAlike(v, w) /\ SameSlots(v, w) /\ SameDead(v, w)
    /\ \A h \in KeptSlots(K) : v.headers[h].start = w.headers[h].start

\* A step on a small string.
LEMMA BytesStep ==
    ASSUME NEW K, NEW w, NEW T, NEW v, BytesGoing(v, w, K, T), Len(w.headers) = extent, NEW h \in KeptSmall(K),
           NEW u \in Works, StartOnly(u, v, h), SameSlots(u, v), SameDead(u, v),
           NEW V, BytesSlid(u, KeptSmall(K), V, 0)
    PROVE  BytesGoing(u, w, K, V)
<1>1. CellsAlike(v, w) /\ SameSlots(v, w) /\ SameDead(v, w) /\ Len(v.headers) = extent
      /\ \A e \in KeptSlots(K) : v.headers[e].start = w.headers[e].start
  BY DEF BytesGoing, CellsAlike
<1>2. CellsAlike(u, w)
  <2>1. CellsAlike(u, v)
    BY StartOnlyAlike
  <2> QED BY <1>1, <2>1 DEF CellsAlike
<1>3. \A e \in KeptSlots(K) : u.headers[e].start = w.headers[e].start
  <2>1. \A e \in KeptSlots(K) : e # h /\ e \in 1 .. Len(v.headers)
    BY <1>1 DEF KeptSmall, KeptSlots, Tagged, Handle
  <2> QED BY <1>1, <2>1 DEF StartOnly
<1> QED BY <1>1, <1>2, <1>3 DEF BytesGoing, SameSlots, SameDead

BytesStepped(x, w, n, h) ==
    IF w.headers[h].tag # "small" \/ headers[h].start # n THEN x
    ELSE IF headers[h].count = 0 THEN [x EXCEPT !.headers[h].start = 0]
    ELSE SlideRun(x, h)

\* What tells the small survivors.
SmallKnown(w, K) == Len(w.headers) = extent /\ \A h \in Handle : w.headers[h].tag = "small" <=> h \in KeptSmall(K)

LEMMA BytesGoOn ==
    ASSUME TypeOK, BytesPlaced, NEW K \in SUBSET Live, NEW w, NEW base, SmallKnown(base, K), CellsAlike(base, w),
           Len(w.headers) = extent, NEW n \in Nat, NEW h \in 1 .. extent, NEW v, BytesGoing(v, w, K, BytesUpTo(K, n, h - 1))
    PROVE  BytesGoing(BytesStepped(v, base, n, h), w, K, BytesUpTo(K, n, h))
<1> DEFINE Q == KeptSmall(K)
           T == BytesUpTo(K, n, h - 1)
           V == BytesUpTo(K, n, h)
           u == BytesStepped(v, base, n, h)
<1>1. h \in Handle /\ extent \in Nat /\ Q \subseteq Handle /\ Q \in SUBSET Tagged("small")
  BY DEF Handle, TypeOK, KeptSmall, Tagged
<1>2. BytesFacts(Q)
  BY <1>1, BytesKnown
<1>3. \A e \in Q : headers[e].start \in Nat /\ e \in Nat /\ headers[e].count \in Nat
  BY <1>1, <1>2 DEF BytesFacts, Handle
<1>4. \A e \in Q : (e <= h <=> e <= h - 1 \/ e = h) /\ ~ (h <= h - 1)
  BY <1>1, <1>3
<1>5. h \notin Q \/ headers[h].start # n => V = T
  BY <1>4 DEF BytesUpTo
<1>6. h \in Q /\ headers[h].start = n => V = T \union {h} /\ h \in Q \ T
  <2>1. ASSUME h \in Q, headers[h].start = n PROVE ~ (headers[h].start < n) /\ h <= h
    BY <1>1, <2>1 DEF Handle
  <2>2. ASSUME h \in Q, headers[h].start = n PROVE h \in V /\ h \notin T
    BY <1>4, <2>1, <2>2 DEF BytesUpTo
  <2>3. ASSUME NEW e, e # h PROVE e \in V <=> e \in T
    BY <1>4, <2>3 DEF BytesUpTo
  <2> HIDE DEF T, V
  <2> QED BY <2>2, <2>3
<1>7. /\ v \in Works /\ BytesSlid(v, Q, T, 0) /\ Len(v.headers) = extent /\ T \subseteq Q
  BY DEF BytesGoing, BytesSlid, BytesRest
<1>8. base.headers[h].tag = "small" <=> h \in Q
  BY <1>1 DEF SmallKnown
<1> HIDE DEF T, V, u
<1>9. CASE h \notin Q \/ headers[h].start # n
  <2>1. u = v
    BY <1>8, <1>9 DEF BytesStepped, u
  <2> QED BY <1>5, <1>9, <2>1 DEF T, V, u
<1>10. CASE h \in Q /\ headers[h].start = n /\ headers[h].count = 0
  <2> DEFINE hs == [v.headers EXCEPT ![h].start = 0]
  <2>1. u = [v EXCEPT !.headers[h].start = 0]
    BY <1>8, <1>10 DEF BytesStepped, u
  <2>2. /\ hs \in Seq(CellSet) /\ Len(hs) = Len(v.headers)
        /\ \A g \in 1 .. Len(v.headers) : g # h => hs[g] = v.headers[g]
        /\ hs[h].start = 0
        /\ hs[h].tag = v.headers[h].tag /\ hs[h].marked = v.headers[h].marked
        /\ hs[h].moved = v.headers[h].moved /\ hs[h].count = v.headers[h].count
        /\ hs[h].buffer = v.headers[h].buffer
    BY <1>7, StartSet
  <2>3. u = [v EXCEPT !.headers = hs]
    BY <1>7, <2>1 DEF Works
  <2> HIDE DEF hs
  <2>4. u \in Works /\ u.headers = hs /\ SameSlots(u, v) /\ SameBytes(u, v) /\ SameDead(u, v)
    BY <1>7, <2>2, <2>3 DEF Works, SameSlots, SameBytes, SameDead
  <2>5. StartOnly(u, v, h) /\ u.headers[h].start = 0
    BY <2>2, <2>4 DEF StartOnly
  <2>6. v.byteCursor \in Nat /\ 0 <= v.byteCursor
    <3>1. v.byteCursor \in Nat
      BY <1>7, WorksFields
    <3> QED BY <3>1
  <2>7. ~NonEmpty(h) /\ V = T \union {h}
    BY <1>6, <1>10 DEF NonEmpty
  <2> HIDE DEF Q
  <2>8. BytesSlid(u, Q, V, 0)
    <3>1. u.headers[h].start \in Nat /\ u.headers[h].start <= v.byteCursor
      BY <2>5, <2>6
    <3> QED BY <1>2, <1>7, <1>10, <2>4, <2>5, <2>7, <3>1, BytesEmptyOn
  <2>9. BytesGoing(u, w, K, V)
    BY <1>10, <2>4, <2>5, <2>8, BytesStep DEF Q, T
  <2> QED BY <2>9 DEF u, V
<1>11. CASE h \in Q /\ headers[h].start = n /\ headers[h].count # 0
  <2>1. u = SlideRun(v, h)
    BY <1>8, <1>11 DEF BytesStepped, u
  <2>2. NonEmpty(h) /\ h \in Q \ T /\ V = T \union {h}
    BY <1>1, <1>3, <1>6, <1>11 DEF NonEmpty, Tagged
  <2>3. \A g \in Q \ T : headers[h].start <= headers[g].start
    <3>1. ASSUME NEW g \in Q \ T PROVE headers[h].start <= headers[g].start
      <4>1. g \in Q /\ ~ (headers[g].start < n)
        BY DEF T, BytesUpTo
      <4>2. headers[g].start \in Nat /\ headers[h].start = n
        BY <1>3, <1>11, <4>1
      <4>3. \A a \in Nat : ~ (a < n) => n <= a
        OBVIOUS
      <4> HIDE DEF Q
      <4> QED BY <4>1, <4>2, <4>3
    <3> QED BY <3>1
  <2>4. 0 \in Nat /\ 0 <= headers[h].start
    BY <1>3, <1>11
  <2> HIDE DEF Q
  <2>5. BytesSlid(SlideRun(v, h), Q, T \union {h}, 0) /\ RunSlid(SlideRun(v, h), v, h)
    BY <1>2, <1>7, <2>2, <2>3, <2>4, BytesSlideOn
  <2>6. u \in Works /\ StartOnly(u, v, h) /\ SameSlots(u, v) /\ SameDead(u, v) /\ BytesSlid(u, Q, V, 0)
    BY <2>1, <2>2, <2>5 DEF RunSlid
  <2>7. BytesGoing(u, w, K, V)
    BY <1>11, <2>6, BytesStep DEF Q, T
  <2> QED BY <2>7 DEF u, V
<1> QED BY <1>9, <1>10, <1>11

\* All the strings at a place.
LEMMA SlideRunAtIs ==
    ASSUME TypeOK, BytesPlaced, NEW K \in SUBSET Live, NEW w, SmallKnown(w, K), NEW start \in Nat,
           NEW v, BytesGoing(v, w, K, BytesBelow(K, start))
    PROVE  BytesGoing(SlideRunAt(v, start), w, K, BytesBelow(K, start + 1))
<1> DEFINE N == extent
           base == v
           Good == [n \in 0 .. N |-> {x \in Works : BytesGoing(x, w, K, BytesUpTo(K, start, n))}]
           Step(n, x) == BytesStepped(x, v, start, n)
           G == [n \in 0 + 1 .. N |-> [x \in Works |-> Step(n, x)]]
           Body(g) == [n \in 0 .. extent |->
                          IF n = 0 THEN v
                          ELSE IF v.headers[n].tag # "small" \/ headers[n].start # start THEN g[n - 1]
                          ELSE IF headers[n].count = 0 THEN [g[n - 1] EXCEPT !.headers[n].start = 0]
                          ELSE SlideRun(g[n - 1], n)]
           slid == CHOOSE g : g = Body(g)
<1>1. /\ v \in Works /\ CellsAlike(v, w) /\ Len(w.headers) = extent /\ SmallKnown(v, K)
      /\ \A e \in KeptSmall(K) : e \in 1 .. extent /\ headers[e].start \in Nat
  <2>1. v \in Works /\ CellsAlike(v, w) /\ Len(w.headers) = extent
    BY DEF BytesGoing, SmallKnown
  <2>2. \A h \in Handle : v.headers[h].tag = w.headers[h].tag
    BY <2>1 DEF CellsAlike, Handle
  <2>3. SmallKnown(v, K)
    BY <2>1, <2>2 DEF SmallKnown, CellsAlike
  <2>4. BytesFacts(KeptSmall(K))
    BY BytesKnown DEF KeptSmall
  <2> QED BY <2>1, <2>3, <2>4 DEF BytesFacts
<1>2. N \in Nat /\ \A n \in 0 + 1 .. N : n \in 1 .. extent /\ n - 1 \in 0 .. N /\ n \in 0 .. N
  BY DEF TypeOK
<1>3. BytesUpTo(K, start, 0) = BytesBelow(K, start)
  <2>1. \A e \in KeptSmall(K) : ~ (e <= 0)
    BY <1>1, <1>2
  <2> QED BY <2>1 DEF BytesUpTo, BytesBelow
<1>4. BytesUpTo(K, start, extent) = BytesBelow(K, start + 1)
  <2>1. \A e \in KeptSmall(K) : e <= extent
    BY <1>1, <1>2
  <2>2. \A e \in KeptSmall(K) : headers[e].start < start + 1 <=> headers[e].start < start \/ headers[e].start = start
    <3>1. \A a \in Nat : a < start + 1 <=> a < start \/ a = start
      OBVIOUS
    <3> QED BY <1>1, <3>1
  <2> QED BY <2>1, <2>2 DEF BytesUpTo, BytesBelow
<1>5. Good \in [0 .. N -> SUBSET Works] /\ base \in Good[0]
  BY <1>1, <1>2, <1>3
<1>6. ASSUME NEW n \in 0 + 1 .. N, NEW x \in Good[n - 1]
      PROVE  Step(n, x) \in Good[n] /\ G[n][x] = Step(n, x)
  <2>1. BytesGoing(x, w, K, BytesUpTo(K, start, n - 1)) /\ x \in Works /\ n \in 1 .. extent
    BY <1>2, <1>6
  <2>2. BytesGoing(Step(n, x), w, K, BytesUpTo(K, start, n))
    BY <1>1, <2>1, BytesGoOn
  <2> HIDE DEF Step
  <2>3. Step(n, x) \in Works
    BY <2>2 DEF BytesGoing
  <2> QED BY <1>2, <2>1, <2>2, <2>3
<1>7. \A n \in 0 + 1 .. N : \A x \in Good[n - 1] : Step(n, x) \in Good[n] /\ G[n][x] = Step(n, x)
  BY <1>6
<1> HIDE DEF Good, G
<1>8. PICK f : FollowsFrom(f, 0, N, base, G) /\ \A n \in 0 .. N : f[n] \in Good[n]
  <2>1. \A n \in 0 + 1 .. N : \A x \in Good[n - 1] : G[n][x] \in Good[n]
    <3> HIDE DEF Step
    <3> QED BY <1>7
  <2>2. 0 \in Nat /\ 0 <= N
    BY <1>2
  <2> HIDE DEF Step, N
  <2> QED BY <1>2, <1>5, <2>1, <2>2, Walk, ZenonT(40)
<1>9. f = Body(f)
  <2>1. \A n \in 0 .. N : (IF n = 0 THEN base ELSE G[n][f[n - 1]]) = (IF n = 0 THEN base ELSE Step(n, f[n - 1]))
    <3>1. \A n \in 0 .. N : n # 0 => n \in 0 + 1 .. N /\ n - 1 \in 0 .. N
      BY <1>2
    <3> HIDE DEF Step
    <3> QED BY <1>7, <1>8, <3>1
  <2>2. f = [n \in 0 .. N |-> IF n = 0 THEN base ELSE Step(n, f[n - 1])]
    <3> HIDE DEF Step
    <3> QED BY <1>8, <2>1 DEF FollowsFrom
  <2> QED BY <2>2, Zenon DEF BytesStepped
<1>10. slid = Body(slid)
  <2> HIDE DEF Body
  <2> QED BY <1>9
<1>11. SlideRunAt(v, start) = slid[extent]
  BY Zenon DEF SlideRunAt
<1> HIDE DEF slid
<1>12. slid[0] = base /\ \A n \in 0 + 1 .. N : slid[n] = Step(n, slid[n - 1])
  <2>1. \A n \in 0 .. N : slid[n] = IF n = 0 THEN base ELSE Step(n, slid[n - 1])
    <3>1. slid = [n \in 0 .. N |-> IF n = 0 THEN base ELSE Step(n, slid[n - 1])]
      BY <1>10, Zenon DEF BytesStepped
    <3> HIDE DEF Step
    <3> QED BY <3>1, Zenon
  <2>2. 0 \in 0 .. N /\ \A n \in 0 + 1 .. N : n \in 0 .. N /\ n # 0
    BY <1>2
  <2> HIDE DEF Step
  <2> QED BY <2>1, <2>2
<1>13. slid[N] \in Good[N]
  <2> DEFINE H == {n \in 0 .. N : slid[n] \in Good[n]}
  <2>1. 0 \in H
    BY <1>2, <1>5, <1>12
  <2>2. \A n \in 0 + 1 .. N : n - 1 \in H => n \in H
    <3> HIDE DEF Step
    <3> QED BY <1>2, <1>7, <1>12
  <2>3. \A n \in 0 .. N : n \in H
    <3>1. 0 \in Nat /\ 0 <= N
      BY <1>2
    <3> HIDE DEF H, N
    <3> QED BY <1>2, <2>1, <2>2, <3>1, UpFrom
  <2>4. N \in 0 .. N
    BY <1>2
  <2> QED BY <2>3, <2>4
<1>14. BytesGoing(slid[extent], w, K, BytesUpTo(K, start, extent))
  <2>1. N \in 0 .. N
    BY <1>2
  <2> QED BY <1>13, <2>1 DEF Good
<1> QED BY <1>4, <1>11, <1>14

\* All the strings.
LEMMA SlideBytesIs ==
    ASSUME TypeOK, BytesPlaced, NEW K \in SUBSET Live, NEW w \in Works, SmallKnown(w, K), w.bytes = bytes, w.length = 0,
           \A h \in KeptSmall(K) : w.headers[h].start = headers[h].start /\ w.headers[h].count = headers[h].count
    PROVE  BytesGoing(SlideBytes(w), w, K, KeptSmall(K))
<1> DEFINE N == Len(bytes) + 1
           base == [w EXCEPT !.byteCursor = 0]
           Good == [n \in 0 .. N |-> {x \in Works : BytesGoing(x, w, K, BytesBelow(K, n))}]
           Step(n, x) == SlideRunAt(x, n - 1)
           G == [n \in 0 + 1 .. N |-> [x \in Works |-> Step(n, x)]]
           Body(g) == [n \in 0 .. Len(bytes) + 1 |->
                          IF n = 0 THEN [w EXCEPT !.byteCursor = 0] ELSE SlideRunAt(g[n - 1], n - 1)]
           slid == CHOOSE g : g = Body(g)
           Q == KeptSmall(K)
<1>1. /\ Len(w.headers) = extent
      /\ \A e \in Q : headers[e].start \in Nat /\ headers[e].count \in Nat /\ headers[e].start + headers[e].count <= Len(bytes)
  <2>1. BytesFacts(KeptSmall(K))
    BY BytesKnown DEF KeptSmall
  <2> QED BY <2>1 DEF BytesFacts, SmallKnown
<1>2. N \in Nat /\ \A n \in 0 + 1 .. N : n - 1 \in Nat /\ n - 1 \in 0 .. N /\ n \in 0 .. N /\ n - 1 + 1 = n
  BY DEF TypeOK
<1>3. BytesGoing(base, w, K, BytesBelow(K, 0))
  <2>1. /\ base \in Works /\ base.headers = w.headers /\ base.bytes = bytes /\ base.byteCursor = 0 /\ base.length = 0
        /\ SameSlots(base, w) /\ SameDead(base, w)
    BY DEF Works, SameSlots, SameDead
  <2> HIDE DEF base
  <2>2. BytesBelow(K, 0) = {}
    BY <1>1 DEF BytesBelow
  <2>3. CellsAlike(base, w) /\ \A h \in KeptSlots(K) : base.headers[h].start = w.headers[h].start
    BY <2>1 DEF CellsAlike
  <2>4. Len(bytes) \in Nat
    BY DEF TypeOK
  <2>5. BytesRest(base, Q, {}, 0)
    <3>1. \A h \in Q : base.headers[h].start = headers[h].start /\ base.headers[h].count = headers[h].count
                       /\ base.byteCursor <= headers[h].start
      BY <1>1, <2>1
    <3> QED BY <1>1, <2>1, <2>4, <3>1 DEF BytesRest
  <2>6. BytesDone(base, {})
    BY DEF BytesDone
  <2>7. BytesRun(base, {}, 0) /\ BytesLow(base, Q, {}, 0)
    BY <2>1 DEF BytesRun, BytesLow
  <2>8. BytesSlid(base, Q, {}, 0)
    BY <2>5, <2>6, <2>7 DEF BytesSlid
  <2> QED BY <2>1, <2>2, <2>3, <2>8 DEF BytesGoing
<1> HIDE DEF base
<1>4. base \in Works
  BY <1>3 DEF BytesGoing
<1>5. Good \in [0 .. N -> SUBSET Works] /\ base \in Good[0]
  BY <1>2, <1>3, <1>4
<1>6. ASSUME NEW n \in 0 + 1 .. N, NEW x \in Good[n - 1]
      PROVE  Step(n, x) \in Good[n] /\ G[n][x] = Step(n, x)
  <2>1. BytesGoing(x, w, K, BytesBelow(K, n - 1)) /\ x \in Works /\ n - 1 \in Nat
    BY <1>2, <1>6
  <2>2. BytesGoing(Step(n, x), w, K, BytesBelow(K, n - 1 + 1))
    <3> DEFINE m == n - 1
    <3> HIDE DEF m
    <3>1. BytesGoing(SlideRunAt(x, m), w, K, BytesBelow(K, m + 1))
      BY <2>1, SlideRunAtIs DEF m
    <3> QED BY <3>1 DEF m
  <2> HIDE DEF Step
  <2>3. Step(n, x) \in Works
    BY <2>2 DEF BytesGoing
  <2> QED BY <1>2, <2>1, <2>2, <2>3
<1>7. \A n \in 0 + 1 .. N : \A x \in Good[n - 1] : Step(n, x) \in Good[n] /\ G[n][x] = Step(n, x)
  BY <1>6
<1> HIDE DEF Good, G
<1>8. PICK f : FollowsFrom(f, 0, N, base, G) /\ \A n \in 0 .. N : f[n] \in Good[n]
  <2>1. \A n \in 0 + 1 .. N : \A x \in Good[n - 1] : G[n][x] \in Good[n]
    <3> HIDE DEF Step
    <3> QED BY <1>7
  <2>2. 0 \in Nat /\ 0 <= N
    BY <1>2
  <2> HIDE DEF Step, N
  <2> QED BY <1>2, <1>5, <2>1, <2>2, Walk, ZenonT(40)
<1>9. f = Body(f)
  <2>1. \A n \in 0 .. N : (IF n = 0 THEN base ELSE G[n][f[n - 1]]) = (IF n = 0 THEN base ELSE Step(n, f[n - 1]))
    <3>1. \A n \in 0 .. N : n # 0 => n \in 0 + 1 .. N /\ n - 1 \in 0 .. N
      BY <1>2
    <3> HIDE DEF Step
    <3> QED BY <1>7, <1>8, <3>1
  <2>2. f = [n \in 0 .. N |-> IF n = 0 THEN base ELSE Step(n, f[n - 1])]
    <3> HIDE DEF Step
    <3> QED BY <1>8, <2>1 DEF FollowsFrom
  <2> QED BY <2>2, Zenon DEF base
<1>10. slid = Body(slid)
  <2> HIDE DEF Body
  <2> QED BY <1>9
<1>11. SlideBytes(w) = slid[Len(bytes) + 1]
  BY Zenon DEF SlideBytes
<1> HIDE DEF slid
<1>12. slid[0] = base /\ \A n \in 0 + 1 .. N : slid[n] = Step(n, slid[n - 1])
  <2>1. \A n \in 0 .. N : slid[n] = IF n = 0 THEN base ELSE Step(n, slid[n - 1])
    <3>1. slid = [n \in 0 .. N |-> IF n = 0 THEN base ELSE Step(n, slid[n - 1])]
      BY <1>10, Zenon DEF base
    <3> HIDE DEF Step
    <3> QED BY <3>1, Zenon
  <2>2. 0 \in 0 .. N /\ \A n \in 0 + 1 .. N : n \in 0 .. N /\ n # 0
    BY <1>2
  <2> HIDE DEF Step
  <2> QED BY <2>1, <2>2
<1>13. slid[N] \in Good[N]
  <2> DEFINE H == {n \in 0 .. N : slid[n] \in Good[n]}
  <2>1. 0 \in H
    BY <1>2, <1>5, <1>12
  <2>2. \A n \in 0 + 1 .. N : n - 1 \in H => n \in H
    <3> HIDE DEF Step
    <3> QED BY <1>2, <1>7, <1>12
  <2>3. \A n \in 0 .. N : n \in H
    <3>1. 0 \in Nat /\ 0 <= N
      BY <1>2
    <3> HIDE DEF H, N
    <3> QED BY <1>2, <2>1, <2>2, <3>1, UpFrom
  <2>4. N \in 0 .. N
    BY <1>2
  <2> QED BY <2>3, <2>4
<1>14. BytesGoing(slid[N], w, K, BytesBelow(K, N))
  <2>1. N \in 0 .. N
    BY <1>2
  <2> QED BY <1>13, <2>1 DEF Good
<1>15. BytesBelow(K, N) = KeptSmall(K)
  <2>1. \A e \in Q : headers[e].start < N
    <3>1. Len(bytes) \in Nat
      BY DEF TypeOK
    <3> QED BY <1>1, <3>1
  <2> QED BY <2>1 DEF BytesBelow
<1> QED BY <1>11, <1>14, <1>15

\* The dead freed.
FreedAll(K) ==
    LET marked == [h \in 1 .. extent |-> IF h \in K THEN Survivor(h, FALSE) ELSE headers[h]]
        freed[n \in 0 .. extent] ==
            IF n = 0 THEN Work(marked, 0, Len(bytes))
            ELSE IF extent + 1 - n \in Live \ K THEN Freed(freed[n - 1], extent + 1 - n, {})
            ELSE freed[n - 1]
    IN  freed[extent]

LEMMA FreedAllIs ==
    ASSUME TypeOK, NEW K \in SUBSET Live
    PROVE  Freeing(FreedAll(K), K, extent)
<1> DEFINE N == extent
           marked == [h \in 1 .. extent |-> IF h \in K THEN Survivor(h, FALSE) ELSE headers[h]]
           base == Work(marked, 0, Len(bytes))
           Good == [n \in 0 .. N |-> {x \in Works : Freeing(x, K, n)}]
           Step(n, x) == IF extent + 1 - n \in Live \ K THEN Freed(x, extent + 1 - n, {}) ELSE x
           G == [n \in 0 + 1 .. N |-> [x \in Works |-> Step(n, x)]]
           Body(g) == [n \in 0 .. extent |->
                          IF n = 0
                          THEN Work([h \in 1 .. extent |-> IF h \in K THEN Survivor(h, FALSE) ELSE headers[h]], 0, Len(bytes))
                          ELSE IF extent + 1 - n \in Live \ K THEN Freed(g[n - 1], extent + 1 - n, {})
                          ELSE g[n - 1]]
           freed == CHOOSE g : g = Body(g)
<1>2. N \in Nat /\ \A n \in 0 + 1 .. N : n \in 1 .. extent /\ n - 1 \in 0 .. N /\ n \in 0 .. N
  BY DEF TypeOK
<1>3. Freeing(base, K, 0)
  <2> HIDE DEF marked
  <2>1. MarkedAs(marked, K)
    BY FullMarked DEF marked
  <2> QED BY <2>1, FreeingBegins
<1> HIDE DEF base, marked
<1>4. base \in Works
  BY <1>3 DEF Freeing
<1>5. Good \in [0 .. N -> SUBSET Works] /\ base \in Good[0]
  BY <1>2, <1>3, <1>4
<1>6. ASSUME NEW n \in 0 + 1 .. N, NEW x \in Good[n - 1]
      PROVE  Step(n, x) \in Good[n] /\ G[n][x] = Step(n, x)
  <2>1. Freeing(x, K, n - 1) /\ x \in Works /\ n \in 1 .. extent
    BY <1>2, <1>6
  <2>2. Freeing(Step(n, x), K, n)
    BY <2>1, FreeingOn
  <2> HIDE DEF Step
  <2>3. Step(n, x) \in Works
    BY <2>2 DEF Freeing
  <2> QED BY <1>2, <2>1, <2>2, <2>3
<1>7. \A n \in 0 + 1 .. N : \A x \in Good[n - 1] : Step(n, x) \in Good[n] /\ G[n][x] = Step(n, x)
  BY <1>6
<1> HIDE DEF Good, G
<1>8. PICK f : FollowsFrom(f, 0, N, base, G) /\ \A n \in 0 .. N : f[n] \in Good[n]
  <2>1. \A n \in 0 + 1 .. N : \A x \in Good[n - 1] : G[n][x] \in Good[n]
    <3> HIDE DEF Step
    <3> QED BY <1>7
  <2>2. 0 \in Nat /\ 0 <= N
    BY <1>2
  <2> HIDE DEF Step, N
  <2> QED BY <1>2, <1>5, <2>1, <2>2, Walk, ZenonT(40)
<1>9. f = Body(f)
  <2>1. \A n \in 0 .. N : (IF n = 0 THEN base ELSE G[n][f[n - 1]]) = (IF n = 0 THEN base ELSE Step(n, f[n - 1]))
    <3>1. \A n \in 0 .. N : n # 0 => n \in 0 + 1 .. N /\ n - 1 \in 0 .. N
      BY <1>2
    <3> HIDE DEF Step
    <3> QED BY <1>7, <1>8, <3>1
  <2>2. f = [n \in 0 .. N |-> IF n = 0 THEN base ELSE Step(n, f[n - 1])]
    <3> HIDE DEF Step
    <3> QED BY <1>8, <2>1 DEF FollowsFrom
  <2> QED BY <2>2, Zenon DEF base, marked
<1>10. freed = Body(freed)
  <2> HIDE DEF Body
  <2> QED BY <1>9
<1>11. FreedAll(K) = freed[extent]
  BY Zenon DEF FreedAll
<1> HIDE DEF freed
<1>12. freed[0] = base /\ \A n \in 0 + 1 .. N : freed[n] = Step(n, freed[n - 1])
  <2>1. \A n \in 0 .. N : freed[n] = IF n = 0 THEN base ELSE Step(n, freed[n - 1])
    <3>1. freed = [n \in 0 .. N |-> IF n = 0 THEN base ELSE Step(n, freed[n - 1])]
      BY <1>10, Zenon DEF base, marked
    <3> HIDE DEF Step
    <3> QED BY <3>1, Zenon
  <2>2. 0 \in 0 .. N /\ \A n \in 0 + 1 .. N : n \in 0 .. N /\ n # 0
    BY <1>2
  <2> HIDE DEF Step
  <2> QED BY <2>1, <2>2
<1>13. freed[N] \in Good[N]
  <2> DEFINE H == {n \in 0 .. N : freed[n] \in Good[n]}
  <2>1. 0 \in H
    BY <1>2, <1>5, <1>12
  <2>2. \A n \in 0 + 1 .. N : n - 1 \in H => n \in H
    <3> HIDE DEF Step
    <3> QED BY <1>2, <1>7, <1>12
  <2>3. \A n \in 0 .. N : n \in H
    <3>1. 0 \in Nat /\ 0 <= N
      BY <1>2
    <3> HIDE DEF H, N
    <3> QED BY <1>2, <2>1, <2>2, <3>1, UpFrom
  <2>4. N \in 0 .. N
    BY <1>2
  <2> QED BY <2>3, <2>4
<1>14. Freeing(freed[extent], K, extent)
  <2>1. N \in 0 .. N
    BY <1>2
  <2> QED BY <1>13, <2>1 DEF Good
<1> QED BY <1>11, <1>14

LEMMA SweptIs ==
    ASSUME TypeOK, SlotsPlaced, BytesPlaced, NEW K \in SUBSET Live, NEW compactBytes \in BOOLEAN
    PROVE  SweptTo(Swept(K, compactBytes), K) /\ Lists(Swept(K, compactBytes).dead, Live \ K)
<1> DEFINE w == FreedAll(K)
           x == SlideSlots(w)
           z == Swept(K, compactBytes)
           P == KeptSlots(K)
           Q == KeptSmall(K)
<1>1. z = IF compactBytes THEN SlideBytes(x) ELSE x
  BY Zenon DEF Swept, FreedAll
<1>2. Freeing(w, K, extent)
  BY FreedAllIs
<1> HIDE DEF w, z
<1>3. SlotsGoing(x, w, K, Len(slots)) /\ SlotsBelow(K, Len(slots)) = P
  BY <1>2, SlideSlotsIs
<1> HIDE DEF x
<1>4. /\ extent \in Nat /\ Handle = 1 .. extent /\ K \subseteq Handle /\ P \subseteq K /\ Q \subseteq K
      /\ Len(bytes) \in Nat
  BY DEF TypeOK, Handle, Live, KeptSlots, KeptSmall
<1>5. FreedDown(K, extent) = Live \ K
  <2>1. \A h \in Live : h \in 1 .. extent
    BY <1>4 DEF Live
  <2>2. \A h \in 1 .. extent : h >= extent + 1 - extent
    BY <1>4
  <2> QED BY <2>1, <2>2 DEF FreedDown
<1>6. /\ w \in Works /\ Len(w.headers) = extent
      /\ \A h \in K : /\ w.headers[h].tag = headers[h].tag /\ w.headers[h].count = headers[h].count
                      /\ w.headers[h].buffer = headers[h].buffer /\ w.headers[h].marked = TRUE
                      /\ w.headers[h].start = headers[h].start
      /\ \A h \in Handle \ K : w.headers[h].tag = "free"
      /\ DeadIn(w, Live \ K, {})
      /\ w.bytes = bytes /\ w.byteCursor = Len(bytes) /\ w.length = 0
  <2>1. \A h \in Handle \ K : h \notin Live \/ h \in FreedDown(K, extent)
    BY <1>5
  <2> QED BY <1>2, <1>5, <2>1 DEF Freeing, CellsKept
<1>7. /\ x \in Works /\ SlotsSlid(x, P, P) /\ CellsAlike(x, w) /\ SameBytes(x, w) /\ SameDead(x, w)
      /\ \A h \in Q : x.headers[h].start = w.headers[h].start
  BY <1>3 DEF SlotsGoing
<1> DEFINE Cells(v) ==
               /\ Len(v.headers) = extent
               /\ \A h \in K : /\ v.headers[h].tag = headers[h].tag /\ v.headers[h].count = headers[h].count
                               /\ v.headers[h].buffer = headers[h].buffer /\ v.headers[h].marked = TRUE
               /\ \A h \in Handle \ K : v.headers[h].tag = "free"
<1>8. Cells(x)
  <2>1. Len(x.headers) = extent /\ \A h \in Handle : /\ x.headers[h].tag = w.headers[h].tag /\ x.headers[h].count = w.headers[h].count
                           /\ x.headers[h].buffer = w.headers[h].buffer /\ x.headers[h].marked = w.headers[h].marked
    BY <1>4, <1>6, <1>7 DEF CellsAlike
  <2> QED BY <1>4, <1>6, <2>1
<1>9. x.bytes = bytes /\ x.byteCursor = Len(bytes) /\ x.length = 0
      /\ \A h \in Q : x.headers[h].start = headers[h].start /\ x.headers[h].count = headers[h].count
  BY <1>4, <1>6, <1>7, <1>8 DEF SameBytes
<1>10. ASSUME NEW v \in Works, Cells(v), SlotsSlid(v, P, P), BytesSlid(v, Q, Q, 0), SameDead(v, w)
       PROVE  SweptTo(v, K) /\ Lists(v.dead, Live \ K)
  <2>1. DeadIn(v, Live \ K, {})
    BY <1>6, <1>10 DEF DeadIn, SameDead
  <2>2. Lists(v.dead \o v.deadAtoms, Live \ K)
    BY <2>1, DeadListed
  <2>3. Lists(v.dead, Live \ K)
    <3>1. (Live \ K) \ {} = Live \ K
      OBVIOUS
    <3> QED BY <2>1, <3>1 DEF DeadIn
  <2>4. \E low \in Nat : BytesSlid(v, K \intersect Tagged("small"), K \intersect Tagged("small"), low)
    BY <1>10 DEF KeptSmall
  <2>5. SlotsSlid(v, K \intersect Tagged("slots"), K \intersect Tagged("slots"))
    BY <1>10 DEF KeptSlots
  <2> QED BY <1>10, <2>2, <2>3, <2>4, <2>5 DEF SweptTo
<1>11. CASE compactBytes
  <2>1. SmallKnown(x, K)
    <3>1. \A h \in Handle : x.headers[h].tag = "small" <=> h \in Q
      BY <1>4, <1>8 DEF KeptSmall, Tagged
    <3> QED BY <1>8, <3>1 DEF SmallKnown
  <2>2. BytesGoing(SlideBytes(x), x, K, Q)
    BY <1>7, <1>9, <2>1, SlideBytesIs
  <2> DEFINE y == SlideBytes(x)
  <2> HIDE DEF y
  <2>3. /\ y \in Works /\ BytesSlid(y, Q, Q, 0) /\ CellsAlike(y, x) /\ SameSlots(y, x) /\ SameDead(y, x)
        /\ \A h \in P : y.headers[h].start = x.headers[h].start
    BY <2>2 DEF BytesGoing, y
  <2>4. Len(y.headers) = extent /\ \A h \in Handle : /\ y.headers[h].tag = x.headers[h].tag /\ y.headers[h].count = x.headers[h].count
                           /\ y.headers[h].buffer = x.headers[h].buffer /\ y.headers[h].marked = x.headers[h].marked
    BY <1>4, <1>8, <2>3 DEF CellsAlike
  <2>5. Cells(y)
    BY <1>4, <1>8, <2>4
  <2>6. SlotsSlid(y, P, P)
    <3>1. Len(y.headers) = Len(x.headers) /\ \A h \in P : y.headers[h].start = x.headers[h].start /\ y.headers[h].count = x.headers[h].count
      BY <1>4, <1>8, <2>3, <2>4
    <3> QED BY <1>7, <2>3, <3>1, SlotsSlidElsewhere
  <2>7. SameDead(y, w)
    BY <1>7, <2>3 DEF SameDead
  <2> HIDE DEF Cells
  <2>8. SweptTo(y, K) /\ Lists(y.dead, Live \ K)
    BY <1>10, <2>3, <2>5, <2>6, <2>7
  <2> QED BY <1>1, <1>11, <2>8 DEF y, z
<1>12. CASE ~compactBytes
  <2>1. BytesFacts(Q)
    BY BytesKnown DEF KeptSmall
  <2>2. \A h \in Q : EndIn(x, h) = headers[h].start + headers[h].count /\ EndIn(x, h) <= Len(bytes)
    BY <1>9, <2>1 DEF BytesFacts, EndIn
  <2>3. BytesRest(x, Q, Q, 0)
    <3>1. \A p \in x.byteCursor + 1 .. Len(bytes) : x.bytes[p] = bytes[p]
      BY <1>9
    <3> QED BY <1>4, <1>8, <1>9, <3>1 DEF BytesRest
  <2>4. BytesDone(x, Q)
    <3>1. \A h \in Q : \A k \in 1 .. headers[h].count : x.bytes[x.headers[h].start + k] = bytes[headers[h].start + k]
      BY <1>9
    <3>2. \A g, h \in Q : NonEmpty(g) /\ NonEmpty(h) => x.headers[g].start = x.headers[h].start \/ ApartIn(x, g, h)
      BY <1>9, <2>1, <2>2 DEF BytesFacts, ApartIn, Apart, End
    <3> QED BY <1>9, <2>2, <3>1, <3>2 DEF BytesDone
  <2>5. BytesRun(x, Q, 0) /\ BytesLow(x, Q, Q, 0)
    BY <1>9 DEF BytesRun, BytesLow
  <2>6. BytesSlid(x, Q, Q, 0)
    BY <2>3, <2>4, <2>5 DEF BytesSlid
  <2> HIDE DEF Cells
  <2>7. SweptTo(x, K) /\ Lists(x.dead, Live \ K)
    BY <1>7, <1>8, <1>10, <2>6
  <2> QED BY <1>1, <1>12, <2>7 DEF z
<1> QED BY <1>11, <1>12

\* The list without what is above the cut.
LEMMA StillListedIs ==
    ASSUME NEW list, NEW D, Lists(list, D), NEW top \in Nat
    PROVE  Lists(StillListed(list, top), {d \in D : d <= top})
<1> DEFINE N == Len(list)
           base == <<>>
           Upto(n) == {list[i] : i \in {j \in 1 .. n : list[j] <= top}}
           Good == [n \in 0 .. N |-> {x \in Seq(Nat) : Lists(x, Upto(n))}]
           Step(n, x) == IF list[n] <= top THEN Append(x, list[n]) ELSE x
           G == [n \in 0 + 1 .. N |-> [x \in Seq(Nat) |-> Step(n, x)]]
           Body(g) == [n \in 0 .. Len(list) |->
                          IF n = 0 THEN <<>>
                          ELSE IF list[n] <= top THEN Append(g[n - 1], list[n]) ELSE g[n - 1]]
           kept == CHOOSE g : g = Body(g)
<1>1. list \in Seq(Nat) /\ \A i, j \in 1 .. N : list[i] = list[j] => i = j
  BY DEF Lists
<1>2. N \in Nat /\ \A n \in 0 + 1 .. N : n \in 1 .. N /\ n - 1 \in 0 .. N /\ n \in 0 .. N /\ list[n] \in Nat
  BY <1>1
<1>3. Upto(0) = {} /\ base \in Seq(Nat)
  OBVIOUS
<1>4. ASSUME NEW n \in 0 + 1 .. N
      PROVE  /\ list[n] <= top => Upto(n) = Upto(n - 1) \union {list[n]} /\ list[n] \notin Upto(n - 1)
             /\ ~ (list[n] <= top) => Upto(n) = Upto(n - 1)
  <2>1. 1 .. n = (1 .. n - 1) \union {n}
    BY <1>2
  <2>2. \A i \in 1 .. n - 1 : i \in 1 .. N /\ i # n
    BY <1>2
  <2>3. \A i \in 1 .. n - 1 : list[i] # list[n]
    BY <1>1, <1>2, <2>2
  <2> HIDE DEF N
  <2> QED BY <2>1, <2>3
<1>5. Good \in [0 .. N -> SUBSET Seq(Nat)] /\ base \in Good[0]
  <2>1. Lists(base, Upto(0))
    BY <1>3, ListsNothing
  <2> HIDE DEF Upto, base
  <2> QED BY <1>2, <1>3, <2>1
<1>6. ASSUME NEW n \in 0 + 1 .. N, NEW x \in Good[n - 1]
      PROVE  Step(n, x) \in Good[n] /\ G[n][x] = Step(n, x)
  <2>1. Lists(x, Upto(n - 1)) /\ x \in Seq(Nat) /\ list[n] \in Nat
    BY <1>2, <1>6
  <2>2. Lists(Step(n, x), Upto(n))
    <3> HIDE DEF Upto
    <3>1. CASE list[n] <= top
      <4>1. Lists(Append(x, list[n]), Upto(n - 1) \union {list[n]})
        BY <1>4, <2>1, <3>1, ListsAppend
      <4> QED BY <1>4, <3>1, <4>1
    <3>2. CASE ~ (list[n] <= top)
      BY <1>4, <2>1, <3>2
    <3> QED BY <3>1, <3>2
  <2> HIDE DEF Step, Upto
  <2>3. Step(n, x) \in Seq(Nat)
    BY <2>2 DEF Lists
  <2> QED BY <1>2, <2>1, <2>2, <2>3
<1>7. \A n \in 0 + 1 .. N : \A x \in Good[n - 1] : Step(n, x) \in Good[n] /\ G[n][x] = Step(n, x)
  BY <1>6
<1> HIDE DEF Good, G
<1>8. PICK f : FollowsFrom(f, 0, N, base, G) /\ \A n \in 0 .. N : f[n] \in Good[n]
  <2>1. \A n \in 0 + 1 .. N : \A x \in Good[n - 1] : G[n][x] \in Good[n]
    <3> HIDE DEF Step
    <3> QED BY <1>7
  <2>2. 0 \in Nat /\ 0 <= N
    BY <1>2
  <2> HIDE DEF Step, N
  <2> QED BY <1>2, <1>5, <2>1, <2>2, Walk, ZenonT(40)
<1>9. f = Body(f)
  <2>1. \A n \in 0 .. N : (IF n = 0 THEN base ELSE G[n][f[n - 1]]) = (IF n = 0 THEN base ELSE Step(n, f[n - 1]))
    <3>1. \A n \in 0 .. N : n # 0 => n \in 0 + 1 .. N /\ n - 1 \in 0 .. N
      BY <1>2
    <3> HIDE DEF Step
    <3> QED BY <1>7, <1>8, <3>1
  <2>2. f = [n \in 0 .. N |-> IF n = 0 THEN base ELSE Step(n, f[n - 1])]
    <3> HIDE DEF Step
    <3> QED BY <1>8, <2>1 DEF FollowsFrom
  <2> QED BY <2>2, Zenon
<1>10. kept = Body(kept)
  <2> HIDE DEF Body
  <2> QED BY <1>9
<1>11. StillListed(list, top) = kept[Len(list)]
  BY Zenon DEF StillListed
<1> HIDE DEF kept
<1>12. kept[0] = base /\ \A n \in 0 + 1 .. N : kept[n] = Step(n, kept[n - 1])
  <2>1. \A n \in 0 .. N : kept[n] = IF n = 0 THEN base ELSE Step(n, kept[n - 1])
    <3>1. kept = [n \in 0 .. N |-> IF n = 0 THEN base ELSE Step(n, kept[n - 1])]
      BY <1>10, Zenon
    <3> HIDE DEF Step
    <3> QED BY <3>1, Zenon
  <2>2. 0 \in 0 .. N /\ \A n \in 0 + 1 .. N : n \in 0 .. N /\ n # 0
    BY <1>2
  <2> HIDE DEF Step
  <2> QED BY <2>1, <2>2
<1>13. kept[N] \in Good[N]
  <2> DEFINE H == {n \in 0 .. N : kept[n] \in Good[n]}
  <2>1. 0 \in H
    BY <1>2, <1>5, <1>12
  <2>2. \A n \in 0 + 1 .. N : n - 1 \in H => n \in H
    <3> HIDE DEF Step
    <3> QED BY <1>2, <1>7, <1>12
  <2>3. \A n \in 0 .. N : n \in H
    <3>1. 0 \in Nat /\ 0 <= N
      BY <1>2
    <3> HIDE DEF H, N
    <3> QED BY <1>2, <2>1, <2>2, <3>1, UpFrom
  <2>4. N \in 0 .. N
    BY <1>2
  <2> QED BY <2>3, <2>4
<1>14. Lists(kept[N], Upto(N))
  <2>1. N \in 0 .. N
    BY <1>2
  <2> HIDE DEF Upto
  <2> QED BY <1>13, <2>1 DEF Good
<1>15. Upto(N) = {d \in D : d <= top}
  BY DEF Lists
<1> HIDE DEF Upto
<1> QED BY <1>11, <1>14, <1>15

\* The table's new end is at the highest survivor or above it.
LEMMA CutIs ==
    ASSUME TypeOK, NEW K \in SUBSET Handle
    PROVE  Cut(K) \in 0 .. extent /\ \A h \in K : h <= Cut(K)
<1> DEFINE highest == IF K = {} THEN 0 ELSE Max(K)
<1>1. extent \in Nat /\ K \subseteq 1 .. extent
  BY DEF TypeOK, Handle
<1>2. highest \in 0 .. extent /\ \A h \in K : h <= highest
  <2>1. CASE K = {}
    BY <1>1, <2>1
  <2>2. CASE K # {}
    <3> DEFINE T == {extent - h : h \in K}
    <3>1. T \in SUBSET Nat /\ T # {}
      <4>1. \A h \in K : extent - h \in Nat
        BY <1>1
      <4> QED BY <2>2, <4>1
    <3>2. PICK low \in T : \A n \in T : low <= n
      <4> HIDE DEF T
      <4> QED BY <3>1, Least
    <3>3. PICK e \in K : low = extent - e
      BY <3>2
    <3>4. ASSUME NEW h \in K PROVE e >= h
      <4>1. extent - e <= extent - h
        BY <3>2, <3>3
      <4> QED BY <1>1, <4>1
    <3>5. \E a \in K : \A b \in K : a >= b
      BY <3>4
    <3>6. Max(K) \in K /\ \A b \in K : Max(K) >= b
      BY <3>5 DEF Max
    <3> DEFINE m == Max(K)
    <3>7. m \in 1 .. extent /\ \A b \in K : b \in Nat /\ m >= b
      <4>1. m \in K /\ \A b \in K : m >= b
        BY <3>6
      <4> HIDE DEF m
      <4> QED BY <1>1, <4>1
    <3>8. highest = m
      BY <2>2
    <3> HIDE DEF m, highest
    <3>9. m \in 0 .. extent /\ \A b \in K : b <= m
      BY <1>1, <3>7
    <3> QED BY <3>8, <3>9
  <2> QED BY <2>1, <2>2
<1>3. Cut(K) = highest \/ Cut(K) = extent
  BY DEF Cut
<1> HIDE DEF highest
<1> QED BY <1>1, <1>2, <1>3

LEMMA FullKeeps ==
    ASSUME Inv, FullCollection
    PROVE  Inv'
<1>1. PICK K \in SUBSET Live, compactBytes \in BOOLEAN :
           EndCollection(Swept(K, compactBytes),
                         StillListed(Listed \o Swept(K, compactBytes).dead, Cut(K)), Cut(K))
  BY DEF FullCollection
<1> DEFINE w == Swept(K, compactBytes)
           top == Cut(K)
           list == StillListed(Listed \o w.dead, top)
<1>2. TypeOK /\ SlotsPlaced /\ BytesPlaced /\ HandlesInv /\ K \in SUBSET Handle
  BY DEF Inv, Live
<1>3. SweptTo(w, K) /\ Lists(w.dead, Live \ K)
  BY <1>2, SweptIs
<1>4. top \in 0 .. extent /\ \A h \in K : h <= top
  BY <1>2, CutIs
<1>5. EndCollection(w, list, top)
  BY <1>1
<1> HIDE DEF w, top
<1>6. Lists(list, (1 .. top) \ K)
  <2>1. Lists(Listed, Handle \ Live)
    BY <1>2 DEF HandlesInv
  <2>2. (Handle \ Live) \intersect (Live \ K) = {} /\ (Handle \ Live) \union (Live \ K) = Handle \ K
    BY <1>2 DEF Live
  <2>3. Lists(Listed \o w.dead, Handle \ K)
    BY <1>3, <2>1, <2>2, ListsConcat
  <2>4. extent \in Nat /\ Handle = 1 .. extent /\ top \in Nat
    BY <1>2, <1>4 DEF TypeOK, Handle
  <2>5. {d \in Handle \ K : d <= top} = (1 .. top) \ K
    BY <1>4, <2>4
  <2>6. Lists(list, {d \in Handle \ K : d <= top})
    BY <2>3, <2>4, StillListedIs
  <2> QED BY <2>5, <2>6
<1> HIDE DEF list
<1> QED BY <1>3, <1>4, <1>5, <1>6, CollectionKeeps
-----------------------------------------------------------------------------
(* Allocation.                                                             *)

LEMMA NextHandleIs ==
    ASSUME TypeOK, HandlesInv
    PROVE  /\ NextHandle \in 1 .. extent + 1 /\ NextHandle \notin Live
           /\ freeCount > 0 => /\ NextHandle = freeHandles[freeCount] /\ NextHandle \in 1 .. extent
                               /\ freeCount \in 1 .. cycle.freeCount /\ extent = cycle.extent
           /\ ~ (freeCount > 0) => NextHandle = extent + 1 /\ freeCount = 0
<1>1. /\ extent \in Nat /\ freeCount \in Nat /\ cycle.freeCount \in Nat /\ cycle.extent \in Nat
      /\ freeCount <= cycle.freeCount /\ cycle.freeCount <= Len(freeHandles) /\ cycle.extent <= extent
      /\ extent > cycle.extent => freeCount = 0
      /\ freeHandles \in Seq(Nat)
  BY DEF TypeOK, Cycles, HandlesInv
<1>2. CASE freeCount > 0
  <2>1. freeCount \in 1 .. cycle.freeCount /\ freeCount \in 0 .. Len(freeHandles) /\ extent = cycle.extent
    BY <1>1, <1>2
  <2>2. NextHandle = freeHandles[freeCount]
    BY <1>2 DEF NextHandle
  <2>3. Len(Listed) = freeCount /\ Listed[freeCount] = freeHandles[freeCount]
    <3>1. /\ Len(SubSeq(freeHandles, 1, freeCount)) = freeCount
          /\ \A i \in 1 .. freeCount : SubSeq(freeHandles, 1, freeCount)[i] = freeHandles[i]
      BY <1>1, <2>1, NatPrefix, Zenon
    <3>2. freeCount \in 1 .. freeCount
      BY <2>1
    <3> QED BY <3>1, <3>2 DEF Listed
  <2>4. freeHandles[freeCount] \in Handle \ Live
    <3>1. freeCount \in 1 .. Len(Listed)
      BY <2>1, <2>3
    <3> QED BY <2>3, <3>1 DEF HandlesInv, Lists
  <2>5. \A h \in 1 .. extent : h \in 1 .. extent + 1
    BY <1>1
  <2> QED BY <1>2, <2>1, <2>2, <2>4, <2>5 DEF Handle
<1>3. CASE ~ (freeCount > 0)
  <2>1. NextHandle = extent + 1 /\ freeCount = 0
    BY <1>1, <1>3 DEF NextHandle
  <2>2. extent + 1 \in 1 .. extent + 1 /\ extent + 1 \notin 1 .. extent
    BY <1>1
  <2> QED BY <1>3, <2>1, <2>2 DEF Live, Handle
<1> QED BY <1>2, <1>3

\* What an allocation of a cell does to the table.
NewCell(cell) == cell \in CellSet /\ cell.tag # "free" /\ cell.marked = FALSE /\ cell.moved = FALSE

Tabled(N, cell, t) ==
    /\ extent' \in Nat /\ Handle' = Handle \union {N} /\ N \notin Live
    /\ headers' \in Seq(CellSet) /\ Len(headers') = extent' /\ headers'[N] = cell
    /\ text' \in Seq(Seq(Nat)) /\ Len(text') = extent' /\ text'[N] = t
    /\ \A h \in Handle : h # N => headers'[h] = headers[h] /\ text'[h] = text[h]
    /\ freeCount' \in Nat /\ freeHandles' = freeHandles /\ cycle' = cycle

LEMMA TabledIs ==
    ASSUME TypeOK, HandlesInv, NEW cell \in CellSet, NEW t \in Seq(Nat), AllocateHandle(cell, t)
    PROVE  Tabled(NextHandle, cell, t)
<1> DEFINE N == NextHandle
<1>1. /\ extent \in Nat /\ freeCount \in Nat /\ headers \in Seq(CellSet) /\ Len(headers) = extent
      /\ text \in Seq(Seq(Nat)) /\ Len(text) = extent
  BY DEF TypeOK
<1>2. /\ headers' = SetAt(headers, N, cell) /\ text' = SetAt(text, N, t)
      /\ extent' = (IF freeCount > 0 THEN extent ELSE extent + 1)
      /\ freeCount' = (IF freeCount > 0 THEN freeCount - 1 ELSE freeCount)
      /\ freeHandles' = freeHandles /\ cycle' = cycle
  BY DEF AllocateHandle
<1>3. /\ N \in 1 .. extent + 1 /\ N \notin Live
      /\ freeCount > 0 => N \in 1 .. extent
      /\ ~ (freeCount > 0) => N = extent + 1
  BY NextHandleIs
<1> HIDE DEF N
<1>4. /\ SetAt(headers, N, cell) \in Seq(CellSet)
      /\ Len(SetAt(headers, N, cell)) = IF N <= extent THEN extent ELSE extent + 1
      /\ SetAt(headers, N, cell)[N] = cell
      /\ \A i \in 1 .. extent : i # N => SetAt(headers, N, cell)[i] = headers[i]
  <2> DEFINE S == CellSet
  <2>1. N \in 1 .. Len(headers) + 1 /\ headers \in Seq(S) /\ cell \in S
    BY <1>1, <1>3
  <2> HIDE DEF S
  <2>2. /\ SetAt(headers, N, cell) \in Seq(S)
        /\ Len(SetAt(headers, N, cell)) = IF N <= Len(headers) THEN Len(headers) ELSE Len(headers) + 1
        /\ SetAt(headers, N, cell)[N] = cell
        /\ \A i \in 1 .. Len(headers) : i # N => SetAt(headers, N, cell)[i] = headers[i]
    BY <2>1, SetAtOf
  <2> QED BY <1>1, <2>2 DEF S
<1>5. /\ SetAt(text, N, t) \in Seq(Seq(Nat))
      /\ Len(SetAt(text, N, t)) = IF N <= extent THEN extent ELSE extent + 1
      /\ SetAt(text, N, t)[N] = t
      /\ \A i \in 1 .. extent : i # N => SetAt(text, N, t)[i] = text[i]
  <2> DEFINE S == Seq(Nat)
  <2>1. N \in 1 .. Len(text) + 1 /\ text \in Seq(S) /\ t \in S
    BY <1>1, <1>3
  <2> HIDE DEF S
  <2>2. /\ SetAt(text, N, t) \in Seq(S)
        /\ Len(SetAt(text, N, t)) = IF N <= Len(text) THEN Len(text) ELSE Len(text) + 1
        /\ SetAt(text, N, t)[N] = t
        /\ \A i \in 1 .. Len(text) : i # N => SetAt(text, N, t)[i] = text[i]
    BY <2>1, SetAtOf
  <2> QED BY <1>1, <2>2 DEF S
<1>6. /\ extent' \in Nat /\ freeCount' \in Nat
      /\ extent' = IF N <= extent THEN extent ELSE extent + 1
      /\ 1 .. extent' = (1 .. extent) \union {N}
  BY <1>1, <1>2, <1>3
<1>7. Handle' = Handle \union {N}
  BY <1>6 DEF Handle
<1>8. \A h \in Handle : h # N => headers'[h] = headers[h] /\ text'[h] = text[h]
  BY <1>2, <1>4, <1>5 DEF Handle
<1>9. headers' \in Seq(CellSet) /\ Len(headers') = extent' /\ headers'[N] = cell
  BY <1>2, <1>4, <1>6
<1>10. text' \in Seq(Seq(Nat)) /\ Len(text') = extent' /\ text'[N] = t
  BY <1>2, <1>5, <1>6
<1>11. Tabled(N, cell, t)
  BY <1>2, <1>3, <1>6, <1>7, <1>8, <1>9, <1>10 DEF Tabled
<1> QED BY <1>11 DEF N

\* The sets of cells after it.
LEMMA TabledSets ==
    ASSUME NEW N, NEW cell, NewCell(cell), NEW t, Tabled(N, cell, t)
    PROVE  /\ Live' = Live \union {N}
           /\ \A tag \in {"slots", "small", "large"} :
                  Tagged(tag)' = Tagged(tag) \union (IF cell.tag = tag THEN {N} ELSE {})
           /\ \A h \in Live : h # N /\ headers'[h] = headers[h] /\ text'[h] = text[h]
           /\ \A h \in Live' : h # N => h \in Live
<1>1. /\ Handle' = Handle \union {N} /\ N \notin Live /\ headers'[N] = cell /\ cell.tag # "free"
      /\ \A h \in Handle : h # N => headers'[h] = headers[h] /\ text'[h] = text[h]
  BY DEF Tabled, NewCell
<1>2. \A h \in Live : h \in Handle /\ h # N /\ headers[h].tag # "free"
  BY <1>1 DEF Live
<1>3. Live' = Live \union {N}
  <2>1. \A h : h \in Live' <=> h \in Handle' /\ headers'[h].tag # "free"
    BY DEF Live
  <2>2. \A h : h \in Live <=> h \in Handle /\ headers[h].tag # "free"
    BY DEF Live
  <2> QED BY <1>1, <2>1, <2>2
<1>4. ASSUME NEW tag \in {"slots", "small", "large"}
      PROVE  Tagged(tag)' = Tagged(tag) \union (IF cell.tag = tag THEN {N} ELSE {})
  <2>1. \A h : h \in Tagged(tag)' <=> h \in Handle' /\ headers'[h].tag = tag
    BY DEF Tagged
  <2>2. \A h : h \in Tagged(tag) <=> h \in Handle /\ headers[h].tag = tag
    BY DEF Tagged
  <2>3. N \notin Tagged(tag)
    BY <1>1, <2>2 DEF Live
  <2> QED BY <1>1, <2>1, <2>2, <2>3
<1> QED BY <1>1, <1>2, <1>3, <1>4

\* The new cell is the youngest.
YoungOnto(N) ==
    /\ YoungCount \in Nat /\ YoungCount' = YoungCount + 1
    /\ \A n \in 1 .. YoungCount : YoungHandle(n)' = YoungHandle(n)
    /\ \A n \in Nat : n = YoungCount + 1 => YoungHandle(n)' = N

LEMMA YoungOntoIs ==
    ASSUME TypeOK, HandlesInv, NEW cell, NEW t, AllocateHandle(cell, t)
    PROVE  YoungOnto(NextHandle)
<1> DEFINE fc == cycle.freeCount
           ec == cycle.extent
           N == NextHandle
<1>1. /\ extent \in Nat /\ freeCount \in Nat /\ fc \in Nat /\ ec \in Nat /\ freeCount <= fc /\ ec <= extent
  BY DEF TypeOK, Cycles, HandlesInv
<1>2. /\ freeCount > 0 => N = freeHandles[freeCount] /\ freeCount \in 1 .. fc /\ extent = ec
      /\ ~ (freeCount > 0) => N = extent + 1 /\ freeCount = 0
  BY NextHandleIs
<1>3. /\ extent' = (IF freeCount > 0 THEN extent ELSE extent + 1)
      /\ freeCount' = (IF freeCount > 0 THEN freeCount - 1 ELSE freeCount)
      /\ freeHandles' = freeHandles /\ cycle' = cycle
  BY DEF AllocateHandle
<1>4. /\ FromList = fc - freeCount /\ YoungCount = FromList + (extent - ec)
      /\ FromList' = fc - freeCount' /\ YoungCount' = FromList' + (extent' - ec)
  BY <1>3 DEF FromList, YoungCount
<1>5. ASSUME NEW n
      PROVE  /\ YoungHandle(n) = IF n <= FromList THEN freeHandles[fc + 1 - n] ELSE ec + (n - FromList)
             /\ YoungHandle(n)' = IF n <= FromList' THEN freeHandles[fc + 1 - n] ELSE ec + (n - FromList')
  BY <1>3 DEF YoungHandle
<1> HIDE DEF fc, ec, N
<1>6. CASE freeCount > 0
  <2>1. /\ FromList' = FromList + 1 /\ YoungCount = FromList /\ YoungCount' = YoungCount + 1 /\ YoungCount \in Nat
        /\ FromList \in Nat /\ extent' = extent /\ fc - FromList = freeCount
    BY <1>1, <1>2, <1>3, <1>4, <1>6
  <2>2. ASSUME NEW n \in 1 .. YoungCount PROVE YoungHandle(n)' = YoungHandle(n)
    <3>1. n <= FromList /\ n <= FromList'
      BY <2>1
    <3> QED BY <1>5, <3>1
  <2>3. ASSUME NEW n \in Nat, n = YoungCount + 1 PROVE YoungHandle(n)' = N
    <3>1. n <= FromList' /\ fc + 1 - n = freeCount
      BY <1>1, <2>1, <2>3
    <3>2. YoungHandle(n)' = freeHandles[fc + 1 - n]
      BY <1>5, <3>1
    <3> QED BY <1>2, <1>6, <3>1, <3>2
  <2> QED BY <2>1, <2>2, <2>3 DEF YoungOnto, N
<1>7. CASE ~ (freeCount > 0)
  <2>1. /\ FromList' = FromList /\ YoungCount' = YoungCount + 1 /\ YoungCount \in Nat /\ FromList \in Nat
        /\ FromList <= YoungCount /\ extent' = extent + 1 /\ ec + (YoungCount + 1 - FromList) = extent + 1
    BY <1>1, <1>2, <1>3, <1>4, <1>7
  <2>2. ASSUME NEW n \in 1 .. YoungCount PROVE YoungHandle(n)' = YoungHandle(n)
    BY <1>5, <2>1
  <2>3. ASSUME NEW n \in Nat, n = YoungCount + 1 PROVE YoungHandle(n)' = N
    <3>1. ~ (n <= FromList') /\ ec + (n - FromList') = extent + 1
      BY <2>1, <2>3
    <3>2. YoungHandle(n)' = ec + (n - FromList')
      BY <1>5, <3>1
    <3> QED BY <1>2, <1>7, <3>1, <3>2
  <2> QED BY <2>1, <2>2, <2>3 DEF YoungOnto, N
<1> QED BY <1>6, <1>7

LEMMA HandlesAllocated ==
    ASSUME TypeOK, HandlesInv, NEW cell, NewCell(cell), NEW t \in Seq(Nat), AllocateHandle(cell, t)
    PROVE  HandlesInv'
<1> DEFINE fc == cycle.freeCount
           ec == cycle.extent
           N == NextHandle
<1>1. /\ extent \in Nat /\ freeCount \in Nat /\ fc \in Nat /\ ec \in Nat /\ freeCount <= fc /\ ec <= extent
      /\ freeHandles \in Seq(Nat) /\ fc <= Len(freeHandles) /\ (extent > ec => freeCount = 0)
      /\ \A i \in 1 .. fc : freeHandles[i] \in 1 .. ec
      /\ \A i, j \in 1 .. fc : freeHandles[i] = freeHandles[j] => i = j
      /\ \A h \in Handle : (h \in Live /\ ~headers[h].marked) <=>
             \/ h > ec
             \/ \E i \in freeCount + 1 .. fc : freeHandles[i] = h
      /\ Lists(Listed, Handle \ Live)
  BY DEF TypeOK, Cycles, HandlesInv
<1>2. /\ N \notin Live
      /\ freeCount > 0 => N = freeHandles[freeCount] /\ N \in 1 .. extent /\ freeCount \in 1 .. fc /\ extent = ec
      /\ ~ (freeCount > 0) => N = extent + 1 /\ freeCount = 0
  BY NextHandleIs
<1>3. /\ extent' = (IF freeCount > 0 THEN extent ELSE extent + 1)
      /\ freeCount' = (IF freeCount > 0 THEN freeCount - 1 ELSE freeCount)
      /\ freeHandles' = freeHandles /\ cycle' = cycle
  BY DEF AllocateHandle
<1>4. Tabled(N, cell, t)
  BY TabledIs DEF NewCell
<1>5. /\ Handle' = Handle \union {N} /\ headers'[N] = cell
      /\ Live' = Live \union {N}
      /\ \A h \in Handle : h # N => headers'[h] = headers[h]
      /\ cell.marked = FALSE
  BY <1>4, TabledSets DEF Tabled, NewCell
<1> HIDE DEF fc, ec, N
<1>6. /\ freeCount' \in Nat /\ freeCount' <= fc /\ ec <= extent' /\ (extent' > ec => freeCount' = 0)
  BY <1>1, <1>2, <1>3
<1>7. Lists(Listed', Handle' \ Live')
  <2>1. CASE freeCount > 0
    <3>1. Listed # <<>> /\ Last(Listed) = N /\ Front(Listed) = Listed'
      <4>1. freeCount \in 0 .. Len(freeHandles) /\ freeCount - 1 \in 0 .. Len(freeHandles) /\ freeCount' = freeCount - 1
        BY <1>1, <1>3, <2>1
      <4>2. /\ Listed \in Seq(Nat) /\ Len(Listed) = freeCount /\ \A i \in 1 .. freeCount : Listed[i] = freeHandles[i]
        <5>1. /\ SubSeq(freeHandles, 1, freeCount) \in Seq(Nat)
              /\ Len(SubSeq(freeHandles, 1, freeCount)) = freeCount
              /\ \A i \in 1 .. freeCount : SubSeq(freeHandles, 1, freeCount)[i] = freeHandles[i]
          BY <1>1, <4>1, NatPrefix, Zenon
        <5> QED BY <5>1 DEF Listed
      <4>3. Listed' = SubSeq(freeHandles, 1, freeCount - 1)
        BY <1>3, <4>1 DEF Listed
      <4>4. /\ Listed' \in Seq(Nat) /\ Len(Listed') = freeCount - 1
            /\ \A i \in 1 .. freeCount - 1 : Listed'[i] = freeHandles[i]
        <5>1. /\ SubSeq(freeHandles, 1, freeCount - 1) \in Seq(Nat)
              /\ Len(SubSeq(freeHandles, 1, freeCount - 1)) = freeCount - 1
              /\ \A i \in 1 .. freeCount - 1 : SubSeq(freeHandles, 1, freeCount - 1)[i] = freeHandles[i]
          BY <1>1, <4>1, NatPrefix, Zenon
        <5> QED BY <4>3, <5>1
      <4> DEFINE s == Listed
                 u == Listed'
      <4>5. s # <<>> /\ Last(s) = N
        <5>1. s[freeCount] = freeHandles[freeCount]
          BY <1>2, <2>1, <4>2
        <5> HIDE DEF s
        <5> QED BY <1>2, <2>1, <4>2, <5>1 DEF Last, s
      <4>6. Front(s) = SubSeq(s, 1, freeCount - 1)
        BY <4>2 DEF Front
      <4>7. /\ SubSeq(s, 1, freeCount - 1) \in Seq(Nat) /\ Len(SubSeq(s, 1, freeCount - 1)) = freeCount - 1
            /\ \A i \in 1 .. freeCount - 1 : SubSeq(s, 1, freeCount - 1)[i] = s[i]
        <5>1. freeCount - 1 \in 0 .. Len(s)
          BY <1>1, <2>1, <4>2
        <5> HIDE DEF s
        <5> QED BY <4>2, <5>1, NatPrefix, Zenon DEF s
      <4>8. \A i \in 1 .. freeCount - 1 : u[i] = Front(s)[i]
        <5>1. \A i \in 1 .. freeCount - 1 : i \in 1 .. freeCount
          BY <1>1
        <5> HIDE DEF s, u
        <5> QED BY <4>2, <4>4, <4>6, <4>7, <5>1 DEF s, u
      <4>9. Front(s) \in Seq(Nat) /\ u \in Seq(Nat) /\ Len(Front(s)) = Len(u) /\ \A i \in 1 .. Len(Front(s)) : Front(s)[i] = u[i]
        BY <4>4, <4>6, <4>7, <4>8
      <4> HIDE DEF s, u
      <4>10. Front(s) = u
        BY <4>9, SameSeq
      <4> QED BY <4>5, <4>10 DEF s, u
    <3>2. Lists(Listed', (Handle \ Live) \ {N})
      BY <1>1, <3>1, ListsFront
    <3>3. Handle' \ Live' = (Handle \ Live) \ {N}
      BY <1>5
    <3> QED BY <3>2, <3>3
  <2>2. CASE ~ (freeCount > 0)
    <3>1. Listed' = Listed
      BY <1>2, <1>3, <2>2 DEF Listed
    <3>2. N \notin Handle
      BY <1>1, <1>2, <2>2 DEF Handle
    <3>3. Handle' \ Live' = Handle \ Live
      BY <1>5, <3>2
    <3> QED BY <1>1, <3>1, <3>3
  <2> QED BY <2>1, <2>2
<1>8. ASSUME NEW h \in Handle'
      PROVE  (h \in Live' /\ ~headers'[h].marked) <=>
                 \/ h > ec
                 \/ \E i \in freeCount' + 1 .. fc : freeHandles[i] = h
  <2>1. CASE h = N
    <3>1. h \in Live' /\ ~headers'[h].marked
      BY <1>5, <2>1
    <3>2. h > ec \/ \E i \in freeCount' + 1 .. fc : freeHandles[i] = h
      <4>1. CASE freeCount > 0
        <5>1. freeCount \in freeCount' + 1 .. fc
          BY <1>1, <1>2, <1>3, <4>1
        <5> QED BY <1>2, <2>1, <4>1, <5>1
      <4>2. CASE ~ (freeCount > 0)
        BY <1>1, <1>2, <2>1, <4>2
      <4> QED BY <4>1, <4>2
    <3> QED BY <3>1, <3>2
  <2>2. CASE h # N
    <3>1. h \in Handle /\ headers'[h] = headers[h] /\ (h \in Live' <=> h \in Live)
      BY <1>5, <2>2
    <3>2. (\E i \in freeCount' + 1 .. fc : freeHandles[i] = h) <=> (\E i \in freeCount + 1 .. fc : freeHandles[i] = h)
      <4>1. CASE freeCount > 0
        <5>1. \A i : i \in freeCount' + 1 .. fc <=> i = freeCount \/ i \in freeCount + 1 .. fc
          BY <1>1, <1>2, <1>3, <4>1
        <5> QED BY <1>2, <2>2, <4>1, <5>1
      <4>2. CASE ~ (freeCount > 0)
        BY <1>3, <4>2
      <4> QED BY <4>1, <4>2
    <3> QED BY <1>1, <3>1, <3>2
  <2> QED BY <2>1, <2>2
<1>9. cycle'.freeCount = fc /\ cycle'.extent = ec
  BY <1>3 DEF fc, ec
<1> QED BY <1>1, <1>3, <1>6, <1>7, <1>8, <1>9 DEF HandlesInv

\* After the allocation of a cell without slots, these are as they were.
LEMMA SlotsKept ==
    ASSUME Inv, NEW N, NEW cell, NewCell(cell), cell.tag # "slots", NEW t, Tabled(N, cell, t), YoungOnto(N),
           slots' = slots, growLog' = growLog
    PROVE  SlotsPlaced' /\ SlotsAged' /\ LogOK'
<1>1. SlotsPlaced /\ SlotsAged /\ LogOK /\ TypeOK /\ cycle' = cycle
  BY DEF Inv, Tabled
<1>2. /\ Tagged("slots")' = Tagged("slots")
      /\ \A h \in Live : h # N /\ headers'[h] = headers[h]
      /\ Tagged("slots") \subseteq Live
  <2>1. Tagged("slots")' = Tagged("slots") \union (IF cell.tag = "slots" THEN {N} ELSE {})
    BY TabledSets
  <2> QED BY <2>1, TabledSets DEF Tagged, Live
<1>3. \A h \in Live : End(h)' = End(h) /\ Unmoved(h)' = Unmoved(h) /\ \A j : Current(j, h)' = Current(j, h)
  BY <1>2 DEF End, Unmoved, Current
<1>4. SlotsPlaced'
  <2>1. \A h \in Tagged("slots") : /\ headers'[h].count >= 1 /\ End(h)' <= Len(slots')
                                   /\ \A k \in 1 .. headers'[h].count : slots'[headers'[h].start + k] = Written(h, k)
    BY <1>1, <1>2, <1>3 DEF SlotsPlaced
  <2>2. \A g, h \in Tagged("slots") : g # h => Apart(g, h)'
    BY <1>1, <1>2, <1>3 DEF SlotsPlaced, Apart
  <2> QED BY <1>2, <2>1, <2>2 DEF SlotsPlaced, Written
<1>5. LogOK'
  <2>1. \A j \in 1 .. Len(growLog) : growLog[j].handle \in Tagged("slots")
    BY <1>1 DEF LogOK
  <2> QED BY <1>1, <1>2, <1>3, <2>1 DEF LogOK
<1>6. SlotsAged'
  <2>1. ASSUME NEW h \in Tagged("slots")
        PROVE  /\ headers'[h].start < cycle'.tail => headers'[h].marked /\ End(h)' <= cycle'.tail
               /\ headers'[h].start >= cycle'.tail => Unmoved(h)' \/ \E j \in 1 .. Len(growLog') : Current(j, h)'
    BY <1>1, <1>2, <1>3 DEF SlotsAged
  <2>2. ASSUME NEW i \in 1 .. YoungCount', NEW j \in 1 .. YoungCount', i < j,
               Unmoved(YoungHandle(i))', Unmoved(YoungHandle(j))'
        PROVE  headers'[YoungHandle(i)'].start < headers'[YoungHandle(j)'].start
    <3>1. ~ Unmoved(N)'
      BY DEF Unmoved, Tabled
    <3>2. i \in 1 .. YoungCount /\ j \in 1 .. YoungCount
      <4>1. \A n \in 1 .. YoungCount' : n \in Nat /\ (n \in 1 .. YoungCount \/ n = YoungCount + 1)
        BY DEF YoungOnto
      <4>2. YoungHandle(i)' # N /\ YoungHandle(j)' # N
        BY <2>2, <3>1 DEF Unmoved
      <4> QED BY <4>1, <4>2 DEF YoungOnto
    <3>3. YoungHandle(i)' = YoungHandle(i) /\ YoungHandle(j)' = YoungHandle(j)
      BY <3>2 DEF YoungOnto
    <3>4. YoungHandle(i) \in Live /\ YoungHandle(j) \in Live
      BY <1>1, <3>2, YoungKnown DEF Inv, YoungAre
    <3>5. Unmoved(YoungHandle(i)) /\ Unmoved(YoungHandle(j))
      BY <1>2, <2>2, <3>3, <3>4 DEF Unmoved
    <3> QED BY <1>1, <1>2, <2>2, <3>2, <3>3, <3>4, <3>5 DEF SlotsAged
  <2> QED BY <1>1, <1>2, <2>1, <2>2 DEF SlotsAged
<1> QED BY <1>4, <1>5, <1>6

\* Nor is the byte arena disturbed by the allocation of a cell that is no
\* small string.
LEMMA BytesKept ==
    ASSUME Inv, NEW N, NEW cell, NewCell(cell), cell.tag # "small", NEW t, Tabled(N, cell, t), YoungOnto(N),
           bytes' = bytes
    PROVE  BytesPlaced' /\ BytesAged'
<1>1. BytesPlaced /\ BytesAged /\ TypeOK /\ cycle' = cycle
  BY DEF Inv, Tabled
<1>2. /\ Tagged("small")' = Tagged("small")
      /\ \A h \in Live : h # N /\ headers'[h] = headers[h] /\ text'[h] = text[h]
      /\ Tagged("small") \subseteq Live
  <2>1. Tagged("small")' = Tagged("small") \union (IF cell.tag = "small" THEN {N} ELSE {})
    BY TabledSets
  <2> QED BY <2>1, TabledSets DEF Tagged, Live
<1>3. \A h \in Live : End(h)' = End(h) /\ NonEmpty(h)' = NonEmpty(h)
  BY <1>2 DEF End, NonEmpty
<1>4. \A h \in Tagged("small") : StorageOf(h)' = StorageOf(h)
  <2>1. \A h \in Tagged("small") : headers[h].tag = "small" /\ headers'[h] = headers[h]
    BY <1>2 DEF Tagged
  <2> QED BY <2>1 DEF StorageOf
<1>5. ~ NonEmpty(N)' /\ \A h \in Handle' : NonEmpty(h)' => h \in Live /\ NonEmpty(h)
  <2>1. headers'[N] = cell /\ \A h \in Live' : h # N => h \in Live
    BY TabledSets DEF Tabled
  <2>2. ~ NonEmpty(N)'
    BY <2>1 DEF NonEmpty
  <2>3. \A h \in Handle' : NonEmpty(h)' => h \in Live'
    BY DEF NonEmpty, Live
  <2> QED BY <1>3, <2>1, <2>2, <2>3
<1>6. BytesPlaced'
  <2>1. \A h \in Tagged("small") : End(h)' <= Len(bytes') /\ StorageOf(h)' = text'[h]
    BY <1>1, <1>2, <1>3, <1>4 DEF BytesPlaced
  <2>2. \A g, h \in Handle' : NonEmpty(g)' /\ NonEmpty(h)' => headers'[g].start = headers'[h].start \/ Apart(g, h)'
    <3>1. \A g, h \in Live : Apart(g, h)' = Apart(g, h)
      BY <1>2, <1>3 DEF Apart
    <3>2. Live \subseteq Handle
      BY DEF Live
    <3> QED BY <1>1, <1>2, <1>5, <3>1, <3>2 DEF BytesPlaced
  <2> QED BY <1>2, <2>1, <2>2 DEF BytesPlaced
<1>7. BytesAged'
  <2>1. \A h \in Tagged("small") : headers'[h].marked => End(h)' <= cycle'.byteTail
    BY <1>1, <1>2, <1>3 DEF BytesAged
  <2>2. ASSUME NEW i \in 1 .. YoungCount', NEW j \in 1 .. YoungCount', i < j,
               NonEmpty(YoungHandle(i))', NonEmpty(YoungHandle(j))'
        PROVE  headers'[YoungHandle(i)'].start <= headers'[YoungHandle(j)'].start
    <3>1. i \in 1 .. YoungCount /\ j \in 1 .. YoungCount
      <4>1. \A n \in 1 .. YoungCount' : n \in Nat /\ (n \in 1 .. YoungCount \/ n = YoungCount + 1)
        BY DEF YoungOnto
      <4>2. YoungHandle(i)' # N /\ YoungHandle(j)' # N
        BY <1>5, <2>2 DEF NonEmpty
      <4> QED BY <4>1, <4>2 DEF YoungOnto
    <3>2. YoungHandle(i)' = YoungHandle(i) /\ YoungHandle(j)' = YoungHandle(j)
      BY <3>1 DEF YoungOnto
    <3>3. YoungHandle(i) \in Live /\ YoungHandle(j) \in Live
      BY <1>1, <3>1, YoungKnown DEF Inv, YoungAre
    <3>4. NonEmpty(YoungHandle(i)) /\ NonEmpty(YoungHandle(j))
      BY <1>2, <2>2, <3>2, <3>3 DEF NonEmpty
    <3> QED BY <1>1, <1>2, <2>2, <3>1, <3>2, <3>3, <3>4 DEF BytesAged
  <2> QED BY <1>1, <1>2, <2>1, <2>2 DEF BytesAged
<1> QED BY <1>6, <1>7

\* Nor are the buffers by that of a cell over none.
LEMMA BuffersKept ==
    ASSUME Inv, NEW N, NEW cell, NewCell(cell), cell.tag # "large", NEW t, Tabled(N, cell, t),
           buffers' = buffers, freeBuffers' = freeBuffers
    PROVE  BuffersInv'
<1>1. BuffersInv
  BY DEF Inv
<1>2. /\ Tagged("large")' = Tagged("large")
      /\ \A h \in Tagged("large") : headers'[h] = headers[h] /\ text'[h] = text[h]
  <2>1. Tagged("large")' = Tagged("large") \union (IF cell.tag = "large" THEN {N} ELSE {})
    BY TabledSets
  <2> QED BY <2>1, TabledSets DEF Tagged, Live
<1>3. \A b : Over(Tagged("large"), b)' = Over(Tagged("large"), b)
  BY <1>2 DEF Over
<1> DEFINE L == Tagged("large")
<1>4. /\ buffers \in Seq(BufferSet)
      /\ \A b \in 1 .. Len(buffers) : buffers[b].refs = Cardinality(Over(L, b))
      /\ Lists(freeBuffers, {b \in 1 .. Len(buffers) : Over(L, b) = {}})
      /\ \A h \in L : /\ headers[h].buffer \in 1 .. Len(buffers)
                      /\ headers[h].count <= Len(buffers[headers[h].buffer].bytes)
                      /\ SubSeq(buffers[headers[h].buffer].bytes, 1, headers[h].count) = text[h]
  BY <1>1 DEF BuffersInv, Counted
<1>5. {b \in 1 .. Len(buffers') : Over(L, b)' = {}} = {b \in 1 .. Len(buffers) : Over(L, b) = {}}
  BY <1>3
<1>6. Lists(freeBuffers', {b \in 1 .. Len(buffers') : Over(L, b)' = {}})
  BY <1>4, <1>5
<1>7. \A b \in 1 .. Len(buffers') : buffers'[b].refs = Cardinality(Over(L, b)')
  BY <1>3, <1>4
<1>8. \A h \in L' : /\ headers'[h].buffer \in 1 .. Len(buffers')
                    /\ headers'[h].count <= Len(buffers'[headers'[h].buffer].bytes)
                    /\ SubSeq(buffers'[headers'[h].buffer].bytes, 1, headers'[h].count) = text'[h]
  BY <1>2, <1>4
<1> HIDE DEF L
<1>9. Counted(buffers, freeBuffers, L)'
  BY <1>4, <1>6, <1>7, <1>8 DEF Counted
<1> QED BY <1>9 DEF BuffersInv, L
LEMMA AllocatedTypes ==
    ASSUME TypeOK, NEW N, NEW cell, NEW t, Tabled(N, cell, t),
           slots' \in Seq(Nat), bytes' \in Seq(Nat), growLog' = growLog,
           buffers' \in Seq(BufferSet), freeBuffers' \in Seq(Nat)
    PROVE  TypeOK'
BY DEF TypeOK, Tabled

\* An allocation of slots is at the arena's top.
Pushed(N, cell) ==
    /\ cell.tag = "slots" /\ cell.start = Len(slots) /\ cell.count \in Nat /\ cell.count >= 1
    /\ slots' \in Seq(Nat) /\ Len(slots') = Len(slots) + cell.count /\ growLog' = growLog
    /\ \A p \in 1 .. Len(slots) : slots'[p] = slots[p]
    /\ \A k \in 1 .. cell.count : slots'[Len(slots) + k] = Written(N, k)

LEMMA SlotsPushed ==
    ASSUME Inv, NEW N, NEW cell, NewCell(cell), Pushed(N, cell), NEW t, Tabled(N, cell, t), YoungOnto(N)
    PROVE  SlotsPlaced' /\ SlotsAged' /\ LogOK'
<1>1. SlotsPlaced /\ SlotsAged /\ LogOK /\ TypeOK /\ cycle' = cycle /\ headers'[N] = cell
  BY DEF Inv, Tabled
<1>2. /\ Tagged("slots")' = Tagged("slots") \union {N} /\ N \notin Tagged("slots")
      /\ \A h \in Live : h # N /\ headers'[h] = headers[h]
      /\ Tagged("slots") \subseteq Live
  <2>1. Tagged("slots")' = Tagged("slots") \union (IF cell.tag = "slots" THEN {N} ELSE {})
    BY TabledSets
  <2>2. Tagged("slots") \subseteq Live
    BY DEF Tagged, Live
  <2> QED BY <2>1, <2>2, TabledSets DEF Pushed
<1>3. \A h \in Live : End(h)' = End(h) /\ Unmoved(h)' = Unmoved(h) /\ \A j : Current(j, h)' = Current(j, h)
  BY <1>2 DEF End, Unmoved, Current, Pushed
<1>4. /\ Len(slots) \in Nat /\ cycle.tail \in Nat /\ cycle.tail <= Len(slots)
      /\ \A h \in Tagged("slots") : headers[h].start \in Nat /\ headers[h].count \in Nat /\ End(h) \in Nat
                                    /\ headers[h].start < End(h)
  <2>1. \A h \in Tagged("slots") : headers[h] \in CellSet
    BY <1>1 DEF TypeOK, Tagged, Handle
  <2>2. \A h \in Tagged("slots") : headers[h].start \in Nat /\ headers[h].count \in Nat /\ headers[h].count >= 1
    BY <1>1, <2>1 DEF CellSet, SlotsPlaced
  <2>3. Len(slots) \in Nat /\ cycle.tail \in Nat /\ cycle.tail <= Len(slots)
    BY <1>1 DEF TypeOK, Cycles, SlotsAged
  <2>4. \A h \in Tagged("slots") : End(h) \in Nat /\ headers[h].start < End(h)
    BY <2>2 DEF End
  <2> QED BY <2>2, <2>3, <2>4
<1>5. End(N)' = Len(slots') /\ headers'[N].start = Len(slots) /\ Unmoved(N)'
  BY <1>1 DEF End, Pushed, NewCell, Unmoved
<1>6. SlotsPlaced'
  <2>1. ASSUME NEW h \in Tagged("slots")
        PROVE  /\ headers'[h].count >= 1 /\ End(h)' <= Len(slots')
               /\ \A k \in 1 .. headers'[h].count : slots'[headers'[h].start + k] = Written(h, k)
    <3>1. /\ headers[h].count >= 1 /\ End(h) <= Len(slots)
          /\ \A k \in 1 .. headers[h].count : slots[headers[h].start + k] = Written(h, k)
      BY <1>1 DEF SlotsPlaced
    <3>2. \A k \in 1 .. headers[h].count : headers[h].start + k \in 1 .. Len(slots)
      BY <1>4, <3>1, SMTT(30) DEF End
    <3>3. \A k \in 1 .. headers[h].count : slots'[headers[h].start + k] = Written(h, k)
      BY <3>1, <3>2 DEF Pushed
    <3> QED BY <1>2, <1>3, <1>4, <3>1, <3>3, SMTT(30) DEF Pushed
  <2>2. /\ headers'[N].count >= 1 /\ End(N)' <= Len(slots')
        /\ \A k \in 1 .. headers'[N].count : slots'[headers'[N].start + k] = Written(N, k)
    <3>1. Len(slots') \in Nat /\ headers'[N].start = Len(slots) /\ headers'[N].count = cell.count
      BY <1>1 DEF Pushed
    <3>2. cell.count >= 1 /\ \A k \in 1 .. cell.count : slots'[Len(slots) + k] = Written(N, k)
      BY DEF Pushed
    <3> QED BY <1>5, <3>1, <3>2
  <2>3. \A g, h \in Tagged("slots") : g # h => Apart(g, h)'
    BY <1>1, <1>2, <1>3 DEF SlotsPlaced, Apart
  <2>4. \A h \in Tagged("slots") : Apart(h, N)' /\ Apart(N, h)'
    <3>1. \A h \in Tagged("slots") : End(h)' <= Len(slots)
      BY <1>1, <1>2, <1>3 DEF SlotsPlaced
    <3> QED BY <1>5, <3>1 DEF Apart
  <2> QED BY <1>2, <2>1, <2>2, <2>3, <2>4 DEF SlotsPlaced, Written
<1>7. LogOK'
  <2>1. \A j \in 1 .. Len(growLog) : growLog[j].handle \in Tagged("slots")
    BY <1>1 DEF LogOK
  <2> QED BY <1>1, <1>2, <1>3, <2>1 DEF LogOK, Pushed
<1>8. SlotsAged'
  <2>1. ASSUME NEW h \in Tagged("slots")
        PROVE  /\ headers'[h].start < cycle'.tail => headers'[h].marked /\ End(h)' <= cycle'.tail
               /\ headers'[h].start >= cycle'.tail => Unmoved(h)' \/ \E j \in 1 .. Len(growLog') : Current(j, h)'
    BY <1>1, <1>2, <1>3 DEF SlotsAged, Pushed
  <2>2. ~ (headers'[N].start < cycle'.tail) /\ Unmoved(N)'
    BY <1>1, <1>4, <1>5
  <2>3. ASSUME NEW i \in 1 .. YoungCount', NEW j \in 1 .. YoungCount', i < j,
               Unmoved(YoungHandle(i))', Unmoved(YoungHandle(j))'
        PROVE  headers'[YoungHandle(i)'].start < headers'[YoungHandle(j)'].start
    <3>1. YoungCount \in Nat /\ YoungCount' = YoungCount + 1
      BY DEF YoungOnto
    <3>2. i \in 1 .. YoungCount
      BY <2>3, <3>1
    <3>3. YoungHandle(i)' = YoungHandle(i) /\ YoungHandle(i) \in Live
      BY <1>1, <3>2, YoungKnown DEF Inv, YoungAre, YoungOnto
    <3>4. Unmoved(YoungHandle(i)) /\ headers'[YoungHandle(i)'].start = headers[YoungHandle(i)].start
      BY <1>2, <2>3, <3>3 DEF Unmoved
    <3>5. YoungHandle(i) \in Tagged("slots")
      BY <3>3, <3>4 DEF Unmoved, Tagged, Live
    <3>6. CASE j \in 1 .. YoungCount
      <4>1. YoungHandle(j)' = YoungHandle(j) /\ YoungHandle(j) \in Live
        BY <1>1, <3>6, YoungKnown DEF Inv, YoungAre, YoungOnto
      <4>2. Unmoved(YoungHandle(j)) /\ headers'[YoungHandle(j)'].start = headers[YoungHandle(j)].start
        BY <1>2, <2>3, <4>1 DEF Unmoved
      <4> QED BY <1>1, <2>3, <3>2, <3>4, <3>6, <4>2 DEF SlotsAged
    <3>7. CASE j = YoungCount + 1
      <4>1. YoungHandle(j)' = N
        BY <3>1, <3>7 DEF YoungOnto
      <4>2. headers[YoungHandle(i)].start < End(YoungHandle(i)) /\ End(YoungHandle(i)) <= Len(slots)
            /\ headers[YoungHandle(i)].start \in Nat /\ End(YoungHandle(i)) \in Nat
        BY <1>1, <1>4, <3>5 DEF SlotsPlaced
      <4> QED BY <1>4, <1>5, <3>4, <4>1, <4>2
    <3> QED BY <3>1, <3>6, <3>7
  <2>4. cycle'.tail <= Len(slots')
    BY <1>1, <1>4 DEF Pushed
  <2> QED BY <1>2, <2>1, <2>2, <2>3, <2>4 DEF SlotsAged
<1> QED BY <1>6, <1>7, <1>8

LEMMA WrittenIs == \A h, k \in Nat : Written(h, k) \in Nat
<1> SUFFICES ASSUME NEW h \in Nat, NEW k \in Nat PROVE Written(h, k) \in Nat
  OBVIOUS
<1>1. MaxCount + 1 \in Nat
  BY BoundsAssumption
<1> DEFINE m == MaxCount + 1
<1>2. h * m + k \in Nat
  <2> HIDE DEF m
  <2> QED BY <1>1 DEF m
<1> QED BY <1>2 DEF Written

LEMMA AllocateKeeps ==
    ASSUME Inv, Allocate
    PROVE  Inv'
<1> DEFINE N == NextHandle
<1>1. TypeOK /\ HandlesInv
  BY DEF Inv
<1>2. PICK count \in 1 .. MaxCount :
          /\ AllocateHandle(Cell("slots", Len(slots), count, 0), <<>>)
          /\ slots' = slots \o [k \in 1 .. count |-> Written(NextHandle, k)]
  BY DEF Allocate
<1>3. growLog' = growLog /\ bytes' = bytes /\ buffers' = buffers /\ freeBuffers' = freeBuffers
  BY DEF Allocate
<1> DEFINE cell == Cell("slots", Len(slots), count, 0)
           added == [k \in 1 .. count |-> Written(N, k)]
<1>4. count \in Nat /\ count >= 1 /\ slots \in Seq(Nat) /\ Len(slots) \in Nat
  BY <1>1, BoundsAssumption DEF TypeOK
<1>5. /\ cell.tag = "slots" /\ cell.start = Len(slots) /\ cell.count = count /\ cell.marked = FALSE
      /\ cell.moved = FALSE
  BY DEF Cell
<1>6. NewCell(cell)
  <2>1. cell \in CellSet
    BY <1>4 DEF Cell, CellSet
  <2> HIDE DEF cell
  <2> QED BY <1>5, <2>1 DEF NewCell
<1>7. <<>> \in Seq(Nat) /\ AllocateHandle(cell, <<>>)
  BY <1>2
<1>8. added \in Seq(Nat) /\ Len(added) = count /\ \A k \in 1 .. count : added[k] = Written(N, k)
  <2>1. N \in Nat
    <3>1. N \in 1 .. extent + 1
      BY <1>1, NextHandleIs
    <3> QED BY <1>1, <3>1 DEF TypeOK
  <2>2. \A k \in 1 .. count : Written(N, k) \in Nat
    <3>1. \A k \in 1 .. count : k \in Nat
      OBVIOUS
    <3> HIDE DEF N
    <3> QED BY <2>1, <3>1, WrittenIs
  <2> HIDE DEF N
  <2>3. added \in [1 .. count -> Nat]
    BY <2>2
  <2> QED BY <1>4, <2>3
<1> HIDE DEF cell
<1>9. Tabled(N, cell, <<>>)
  BY <1>1, <1>6, <1>7, TabledIs DEF NewCell
<1>10. YoungOnto(N)
  BY <1>1, <1>7, YoungOntoIs
<1>11. HandlesInv'
  BY <1>1, <1>6, <1>7, HandlesAllocated
<1>12. Pushed(N, cell)
  <2>1. /\ slots \o added \in Seq(Nat) /\ Len(slots \o added) = Len(slots) + Len(added)
        /\ \A i \in 1 .. Len(slots) : (slots \o added)[i] = slots[i]
        /\ \A i \in 1 .. Len(added) : (slots \o added)[Len(slots) + i] = added[i]
    <3> HIDE DEF added
    <3> QED BY <1>4, <1>8, NatConcat, Zenon
  <2>2. slots' = slots \o added
    BY <1>2
  <2> HIDE DEF added, N
  <2> QED BY <1>3, <1>4, <1>5, <1>8, <2>1, <2>2 DEF Pushed
<1> HIDE DEF N, added
<1>13. SlotsPlaced' /\ SlotsAged' /\ LogOK'
  BY <1>6, <1>9, <1>10, <1>12, SlotsPushed
<1>14. BytesPlaced' /\ BytesAged' /\ BuffersInv'
  <2>1. cell.tag # "small" /\ cell.tag # "large"
    BY <1>5
  <2>2. BytesPlaced' /\ BytesAged'
    BY <1>3, <1>6, <1>9, <1>10, <2>1, BytesKept
  <2>3. BuffersInv'
    BY <1>3, <1>6, <1>9, <2>1, BuffersKept
  <2> QED BY <2>2, <2>3
<1>15. TypeOK'
  <2>1. slots' \in Seq(Nat) /\ bytes' \in Seq(Nat) /\ buffers' \in Seq(BufferSet) /\ freeBuffers' \in Seq(Nat)
    BY <1>1, <1>3, <1>12 DEF Pushed, TypeOK
  <2> QED BY <1>1, <1>3, <1>9, <2>1, AllocatedTypes
<1> QED BY <1>11, <1>13, <1>14, <1>15 DEF Inv

(* Growth.                                                                 *)

\* What growing a cell does to the table.
Regrown(h, start, count, moved) ==
    /\ headers' \in Seq(CellSet) /\ Len(headers') = extent
    /\ \A g \in Handle : g # h => headers'[g] = headers[g]
    /\ headers'[h].tag = "slots" /\ headers'[h].marked = headers[h].marked
    /\ headers'[h].start = start /\ headers'[h].count = count /\ headers'[h].moved = moved

TableStays == UNCHANGED <<extent, freeHandles, freeCount, bytes, buffers, freeBuffers, cycle, text>>

\* Only the cells with slots are disturbed.
LEMMA GrowthLeaves ==
    ASSUME Inv, NEW h \in Tagged("slots"), NEW start, NEW count, NEW moved, Regrown(h, start, count, moved), TableStays
    PROVE  /\ HandlesInv' /\ BytesPlaced' /\ BytesAged' /\ BuffersInv'
           /\ YoungCount' = YoungCount /\ \A n : YoungHandle(n)' = YoungHandle(n)
           /\ \A tag : Tagged(tag)' = Tagged(tag)
<1>1. /\ HandlesInv /\ BytesPlaced /\ BytesAged /\ BuffersInv /\ TypeOK
      /\ extent' = extent /\ freeHandles' = freeHandles /\ freeCount' = freeCount /\ bytes' = bytes
      /\ buffers' = buffers /\ freeBuffers' = freeBuffers /\ cycle' = cycle /\ text' = text
  BY DEF Inv, TableStays
<1>2. /\ Handle' = Handle /\ h \in Handle /\ headers[h].tag = "slots"
      /\ \A g \in Handle : /\ headers'[g].tag = headers[g].tag /\ headers'[g].marked = headers[g].marked
                           /\ g # h => headers'[g] = headers[g]
  BY <1>1 DEF Regrown, Handle, Tagged
<1>3. Live' = Live /\ \A tag : Tagged(tag)' = Tagged(tag)
  BY <1>2 DEF Live, Tagged
<1>4. /\ \A tag \in {"small", "large"} : \A g \in Tagged(tag) : headers'[g] = headers[g]
      /\ \A g \in Handle : NonEmpty(g)' = NonEmpty(g) /\ (NonEmpty(g) => headers'[g] = headers[g])
  <2>1. \A tag \in {"small", "large"} : \A g \in Tagged(tag) : g \in Handle /\ g # h
    BY <1>2 DEF Tagged
  <2>2. ~ NonEmpty(h) /\ ~ NonEmpty(h)'
    BY <1>2 DEF NonEmpty, Regrown
  <2>3. \A g \in Handle : g # h => NonEmpty(g)' = NonEmpty(g)
    BY <1>2 DEF NonEmpty
  <2>4. ASSUME NEW g \in Handle PROVE NonEmpty(g)' = NonEmpty(g) /\ (NonEmpty(g) => headers'[g] = headers[g])
    <3>1. CASE g = h
      BY <2>2, <3>1 DEF NonEmpty
    <3>2. CASE g # h
      BY <1>2, <2>3, <3>2
    <3> QED BY <3>1, <3>2
  <2> QED BY <1>2, <2>1, <2>4
<1>5. HandlesInv'
  <2>1. Lists(Listed', Handle' \ Live')
    BY <1>1, <1>2, <1>3 DEF HandlesInv, Listed
  <2>2. \A g \in Handle' : (g \in Live' /\ ~headers'[g].marked) <=>
            \/ g > cycle'.extent
            \/ \E i \in freeCount' + 1 .. cycle'.freeCount : freeHandles'[i] = g
    BY <1>1, <1>2, <1>3 DEF HandlesInv
  <2>3. /\ freeCount <= cycle.freeCount /\ cycle.freeCount <= Len(freeHandles)
        /\ cycle.extent <= extent
        /\ extent > cycle.extent => freeCount = 0
        /\ \A i \in 1 .. cycle.freeCount : freeHandles[i] \in 1 .. cycle.extent
        /\ \A i, j \in 1 .. cycle.freeCount : freeHandles[i] = freeHandles[j] => i = j
    BY <1>1 DEF HandlesInv
  <2> QED BY <1>1, <2>1, <2>2, <2>3 DEF HandlesInv
<1>6. YoungCount' = YoungCount /\ \A n : YoungHandle(n)' = YoungHandle(n)
  BY <1>1 DEF YoungCount, YoungHandle, FromList
<1>7. BytesPlaced'
  <2>1. \A g \in Tagged("small") : End(g)' = End(g) /\ StorageOf(g)' = StorageOf(g)
    <3>1. \A g \in Tagged("small") : headers[g].tag = "small" /\ headers'[g] = headers[g]
      BY <1>4 DEF Tagged
    <3> QED BY <1>1, <3>1 DEF End, StorageOf
  <2>2. \A f, g \in Handle : NonEmpty(f) /\ NonEmpty(g) => Apart(f, g)' = Apart(f, g)
    BY <1>4 DEF Apart, End
  <2>3. \A g \in Tagged("small") : End(g)' <= Len(bytes') /\ StorageOf(g)' = text'[g]
    BY <1>1, <2>1 DEF BytesPlaced
  <2>4. \A f, g \in Handle : NonEmpty(f)' /\ NonEmpty(g)' => headers'[f].start = headers'[g].start \/ Apart(f, g)'
    BY <1>1, <1>4, <2>2 DEF BytesPlaced
  <2> QED BY <1>2, <1>3, <2>3, <2>4 DEF BytesPlaced
<1>8. BytesAged'
  <2>1. \A g \in Tagged("small") : headers'[g].marked => End(g)' <= cycle'.byteTail
    BY <1>1, <1>4 DEF BytesAged, End
  <2>2. \A n \in 1 .. YoungCount : YoungHandle(n) \in Handle
    BY <1>1, YoungKnown DEF YoungAre
  <2>3. \A i, j \in 1 .. YoungCount :
            i < j /\ NonEmpty(YoungHandle(i))' /\ NonEmpty(YoungHandle(j))'
                => headers'[YoungHandle(i)].start <= headers'[YoungHandle(j)].start
    <3>1. \A n \in 1 .. YoungCount : NonEmpty(YoungHandle(n))' => NonEmpty(YoungHandle(n)) /\ headers'[YoungHandle(n)] = headers[YoungHandle(n)]
      BY <1>4, <1>6, <2>2 DEF NonEmpty
    <3> QED BY <1>1, <3>1 DEF BytesAged
  <2> QED BY <1>1, <1>3, <1>6, <2>1, <2>3 DEF BytesAged
<1>9. BuffersInv'
  <2> DEFINE L == Tagged("large")
  <2>1. /\ buffers \in Seq(BufferSet)
        /\ \A b \in 1 .. Len(buffers) : buffers[b].refs = Cardinality(Over(L, b))
        /\ Lists(freeBuffers, {b \in 1 .. Len(buffers) : Over(L, b) = {}})
        /\ \A g \in L : /\ headers[g].buffer \in 1 .. Len(buffers)
                        /\ headers[g].count <= Len(buffers[headers[g].buffer].bytes)
                        /\ SubSeq(buffers[headers[g].buffer].bytes, 1, headers[g].count) = text[g]
    BY <1>1 DEF BuffersInv, Counted
  <2>2. \A b : Over(L, b)' = Over(L, b)
    BY <1>3, <1>4 DEF Over
  <2>3. {b \in 1 .. Len(buffers') : Over(L, b)' = {}} = {b \in 1 .. Len(buffers) : Over(L, b) = {}}
    BY <1>1, <2>2
  <2>4. Lists(freeBuffers', {b \in 1 .. Len(buffers') : Over(L, b)' = {}})
    BY <1>1, <2>1, <2>3
  <2>5. \A b \in 1 .. Len(buffers') : buffers'[b].refs = Cardinality(Over(L, b)')
    BY <1>1, <2>1, <2>2
  <2>6. \A g \in L' : /\ headers'[g].buffer \in 1 .. Len(buffers')
                      /\ headers'[g].count <= Len(buffers'[headers'[g].buffer].bytes)
                      /\ SubSeq(buffers'[headers'[g].buffer].bytes, 1, headers'[g].count) = text'[g]
    BY <1>1, <1>3, <1>4, <2>1
  <2> HIDE DEF L
  <2>7. Counted(buffers, freeBuffers, L)'
    BY <1>1, <2>1, <2>4, <2>5, <2>6 DEF Counted
  <2> QED BY <2>7 DEF BuffersInv, L
<1> QED BY <1>3, <1>5, <1>6, <1>7, <1>8, <1>9

\* The slots of the others, and where they are, are as they were.
LEMMA SlotsKnown ==
    ASSUME TypeOK, SlotsPlaced, SlotsAged
    PROVE  /\ Len(slots) \in Nat /\ cycle.tail \in Nat /\ cycle.tail <= Len(slots)
           /\ \A h \in Tagged("slots") :
                  /\ h \in Handle /\ h \in Nat /\ headers[h].tag = "slots"
                  /\ headers[h].start \in Nat /\ headers[h].count \in Nat /\ End(h) \in Nat
                  /\ headers[h].marked \in BOOLEAN /\ headers[h].moved \in BOOLEAN
                  /\ headers[h].start < End(h) /\ End(h) = headers[h].start + headers[h].count /\ End(h) <= Len(slots)
<1>1. \A h \in Tagged("slots") : h \in Handle /\ h \in Nat /\ headers[h].tag = "slots" /\ headers[h] \in CellSet
  BY DEF TypeOK, Tagged, Handle
<1>2. \A c \in CellSet : c.start \in Nat /\ c.count \in Nat /\ c.marked \in BOOLEAN /\ c.moved \in BOOLEAN
  BY DEF CellSet
<1>3. \A h \in Tagged("slots") : headers[h].count >= 1 /\ End(h) <= Len(slots)
  BY DEF SlotsPlaced
<1>4. \A h \in Tagged("slots") : End(h) \in Nat /\ headers[h].start < End(h) /\ End(h) = headers[h].start + headers[h].count
  BY <1>1, <1>2, <1>3 DEF End
<1>5. Len(slots) \in Nat /\ cycle.tail \in Nat /\ cycle.tail <= Len(slots)
  BY DEF TypeOK, Cycles, SlotsAged
<1> QED BY <1>1, <1>2, <1>3, <1>4, <1>5
\* A range at the arena's top grows there.
Stretched(h, count) ==
    /\ slots' \in Seq(Nat) /\ Len(slots') = Len(slots) + (count - headers[h].count)
    /\ \A p \in 1 .. Len(slots) : slots'[p] = slots[p]
    /\ \A k \in 1 .. count - headers[h].count : slots'[Len(slots) + k] = Written(h, headers[h].count + k)

LEMMA GrowInPlaceKeeps ==
    ASSUME Inv, NEW h \in Tagged("slots"), NEW count \in Nat, headers[h].count < count, GrowsInPlace(h),
           Regrown(h, headers[h].start, count, headers[h].moved), TableStays, Stretched(h, count), growLog' = growLog
    PROVE  Inv'
<1> DEFINE n == headers[h].count
           s == headers[h].start
<1>1. TypeOK /\ SlotsPlaced /\ SlotsAged /\ LogOK /\ HandlesInv /\ cycle' = cycle
  BY DEF Inv, TableStays
<1>2. /\ HandlesInv' /\ BytesPlaced' /\ BytesAged' /\ BuffersInv'
      /\ YoungCount' = YoungCount /\ \A i : YoungHandle(i)' = YoungHandle(i)
      /\ Tagged("slots")' = Tagged("slots")
  BY GrowthLeaves
<1>3. /\ Len(slots) \in Nat /\ cycle.tail \in Nat /\ cycle.tail <= Len(slots)
      /\ \A g \in Tagged("slots") :
             /\ g \in Handle /\ headers[g].tag = "slots" /\ headers[g].start \in Nat /\ headers[g].count \in Nat
             /\ End(g) \in Nat /\ headers[g].start < End(g) /\ End(g) = headers[g].start + headers[g].count
             /\ End(g) <= Len(slots)
  BY <1>1, SlotsKnown
<1>4. n \in Nat /\ s \in Nat /\ s + n = Len(slots) /\ s >= cycle.tail /\ n < count
  BY <1>3 DEF GrowsInPlace
<1>5. /\ headers'[h].start = s /\ headers'[h].count = count /\ headers'[h].marked = headers[h].marked
      /\ headers'[h].moved = headers[h].moved /\ headers'[h].tag = "slots"
      /\ \A g \in Tagged("slots") : g # h => headers'[g] = headers[g]
  BY <1>3 DEF Regrown
<1>6. /\ \A g \in Tagged("slots") : g # h => End(g)' = End(g) /\ headers'[g].start = headers[g].start
      /\ End(h)' = s + count /\ s + count = Len(slots') /\ Len(slots') \in Nat /\ Len(slots) <= Len(slots')
  <2>1. Len(slots') = Len(slots) + (count - n)
    BY DEF Stretched
  <2> HIDE DEF n, s
  <2> QED BY <1>3, <1>4, <1>5, <2>1, SMTT(30) DEF End
<1>7. \A g \in Handle : Unmoved(g)' = Unmoved(g) /\ \A j : Current(j, g)' = Current(j, g)
  <2>1. \A g \in Handle : /\ headers'[g].tag = headers[g].tag /\ headers'[g].marked = headers[g].marked
                          /\ headers'[g].moved = headers[g].moved /\ headers'[g].start = headers[g].start
    BY <1>3, <1>5 DEF Regrown
  <2> QED BY <2>1 DEF Unmoved, Current
<1> HIDE DEF n, s
<1>8. SlotsPlaced'
  <2>1. ASSUME NEW g \in Tagged("slots"), g # h
        PROVE  /\ headers'[g].count >= 1 /\ End(g)' <= Len(slots')
               /\ \A k \in 1 .. headers'[g].count : slots'[headers'[g].start + k] = Written(g, k)
    <3>1. /\ headers[g].count >= 1 /\ End(g) <= Len(slots)
          /\ \A k \in 1 .. headers[g].count : slots[headers[g].start + k] = Written(g, k)
      BY <1>1 DEF SlotsPlaced
    <3>2. \A k \in 1 .. headers[g].count : headers[g].start + k \in 1 .. Len(slots)
      BY <1>3, <3>1, SMTT(30)
    <3>3. \A k \in 1 .. headers[g].count : slots'[headers[g].start + k] = Written(g, k)
      BY <3>1, <3>2 DEF Stretched
    <3>4. End(g)' = End(g) /\ headers'[g] = headers[g]
      BY <1>5, <1>6, <2>1
    <3>5. End(g)' <= Len(slots')
      BY <1>3, <1>6, <3>1, <3>4
    <3> QED BY <3>1, <3>3, <3>4, <3>5
  <2>2. ASSUME NEW k \in 1 .. count PROVE slots'[s + k] = Written(h, k)
    <3>1. CASE k <= n
      <4>1. k \in 1 .. n /\ s + k \in 1 .. Len(slots)
        BY <1>4, <3>1
      <4>2. slots[s + k] = Written(h, k)
        BY <1>1, <4>1 DEF SlotsPlaced, n, s
      <4> QED BY <4>1, <4>2 DEF Stretched
    <3>2. CASE ~ (k <= n)
      <4>1. k - n \in 1 .. count - n /\ Len(slots) + (k - n) = s + k /\ n + (k - n) = k
        BY <1>4, <3>2
      <4>2. \A i \in 1 .. count - n : slots'[Len(slots) + i] = Written(h, n + i)
        BY DEF Stretched, n
      <4>3. slots'[Len(slots) + (k - n)] = Written(h, n + (k - n))
        BY <4>1, <4>2
      <4> QED BY <4>1, <4>3
    <3> QED BY <3>1, <3>2
  <2>3. /\ headers'[h].count >= 1 /\ End(h)' <= Len(slots')
        /\ \A k \in 1 .. headers'[h].count : slots'[headers'[h].start + k] = Written(h, k)
    <3>1. count >= 1
      BY <1>4
    <3> QED BY <1>5, <1>6, <2>2, <3>1
  <2>4. ASSUME NEW f \in Tagged("slots"), NEW g \in Tagged("slots"), f # g PROVE Apart(f, g)'
    <3>1. \A e \in Tagged("slots") : e # h => End(e) <= s
      <4>1. \A e \in Tagged("slots") : e # h => End(e) <= s \/ Len(slots) <= headers[e].start
        <5>1. End(h) = Len(slots)
          BY <1>4 DEF End, n, s
        <5> QED BY <1>1, <5>1 DEF SlotsPlaced, Apart, s
      <4> QED BY <1>3, <4>1
    <3>2. Apart(f, g)
      BY <1>1, <2>4 DEF SlotsPlaced
    <3>3. CASE f # h /\ g # h
      BY <1>6, <3>2, <3>3 DEF Apart
    <3>4. CASE f = h
      <4>1. End(g)' = End(g) /\ End(g) <= s
        BY <1>6, <2>4, <3>1, <3>4
      <4> QED BY <1>5, <3>4, <4>1 DEF Apart
    <3>5. CASE g = h
      <4>1. End(f)' = End(f) /\ End(f) <= s
        BY <1>6, <2>4, <3>1, <3>5
      <4> QED BY <1>5, <3>5, <4>1 DEF Apart
    <3> QED BY <3>3, <3>4, <3>5
  <2>5. \A g \in Tagged("slots") : /\ headers'[g].count >= 1 /\ End(g)' <= Len(slots')
                                   /\ \A k \in 1 .. headers'[g].count : slots'[headers'[g].start + k] = Written(g, k)
    BY <2>1, <2>3
  <2> QED BY <1>2, <2>4, <2>5 DEF SlotsPlaced, Written
<1>9. LogOK'
  <2>1. \A j \in 1 .. Len(growLog) : growLog[j].handle \in Tagged("slots") /\ growLog[j].handle \in Handle
    BY <1>1, <1>3 DEF LogOK
  <2>2. \A g \in Tagged("slots") : headers'[g].start = headers[g].start
    BY <1>5, <1>6 DEF s
  <2> QED BY <1>1, <1>2, <1>7, <2>1, <2>2 DEF LogOK
<1>10. SlotsAged'
  <2>1. ASSUME NEW g \in Tagged("slots")
        PROVE  /\ headers'[g].start < cycle'.tail => headers'[g].marked /\ End(g)' <= cycle'.tail
               /\ headers'[g].start >= cycle'.tail => Unmoved(g)' \/ \E j \in 1 .. Len(growLog') : Current(j, g)'
    <3>1. /\ headers[g].start < cycle.tail => headers[g].marked /\ End(g) <= cycle.tail
          /\ headers[g].start >= cycle.tail => Unmoved(g) \/ \E j \in 1 .. Len(growLog) : Current(j, g)
      BY <1>1 DEF SlotsAged
    <3>2. headers'[g].start = headers[g].start
      BY <1>5, <1>6 DEF s
    <3>3. g = h => ~ (headers[g].start < cycle.tail)
      BY <1>3, <1>4 DEF s
    <3>4. headers'[g].start < cycle'.tail => headers'[g].marked /\ End(g)' <= cycle'.tail
      BY <1>1, <1>5, <1>6, <3>1, <3>2, <3>3
    <3>5. headers'[g].start >= cycle'.tail => Unmoved(g)' \/ \E j \in 1 .. Len(growLog') : Current(j, g)'
      BY <1>1, <1>3, <1>7, <3>1, <3>2
    <3> QED BY <3>4, <3>5
  <2>2. \A i \in 1 .. YoungCount : YoungHandle(i) \in Handle
    BY <1>1, YoungKnown DEF YoungAre
  <2>3. \A i, j \in 1 .. YoungCount :
            i < j /\ Unmoved(YoungHandle(i))' /\ Unmoved(YoungHandle(j))'
                => headers'[YoungHandle(i)].start < headers'[YoungHandle(j)].start
    <3>1. \A g \in Handle : headers'[g].start = headers[g].start
      BY <1>5 DEF Regrown, s
    <3> QED BY <1>1, <1>2, <1>7, <2>2, <3>1 DEF SlotsAged
  <2>4. cycle'.tail <= Len(slots')
    BY <1>1, <1>3, <1>6
  <2> QED BY <1>2, <2>1, <2>3, <2>4 DEF SlotsAged
<1>11. TypeOK'
  BY <1>1 DEF TypeOK, Regrown, TableStays, Stretched
<1> QED BY <1>2, <1>8, <1>9, <1>10, <1>11 DEF Inv

\* Any other range is copied to the arena's top, and logged.
CopiedUp(h, count) ==
    /\ slots' \in Seq(Nat) /\ Len(slots') = Len(slots) + count
    /\ \A p \in 1 .. Len(slots) : slots'[p] = slots[p]
    /\ \A k \in 1 .. count : slots'[Len(slots) + k] = Written(h, k)

Logged(h) ==
    /\ growLog' \in Seq([start : Nat, handle : Nat]) /\ Len(growLog') = Len(growLog) + 1
    /\ \A j \in 1 .. Len(growLog) : growLog'[j] = growLog[j]
    /\ growLog'[Len(growLog) + 1].start = Len(slots) /\ growLog'[Len(growLog) + 1].handle = h

LEMMA GrowElsewhereKeeps ==
    ASSUME Inv, NEW h \in Tagged("slots"), NEW count \in Nat, headers[h].count < count,
           Regrown(h, Len(slots), count, headers[h].moved \/ ~headers[h].marked), TableStays,
           CopiedUp(h, count), Logged(h)
    PROVE  Inv'
<1>1. TypeOK /\ SlotsPlaced /\ SlotsAged /\ LogOK /\ HandlesInv /\ cycle' = cycle /\ Handle' = Handle
  BY DEF Inv, TableStays, Handle
<1>2. /\ HandlesInv' /\ BytesPlaced' /\ BytesAged' /\ BuffersInv'
      /\ YoungCount' = YoungCount /\ \A i : YoungHandle(i)' = YoungHandle(i)
      /\ Tagged("slots")' = Tagged("slots")
  BY GrowthLeaves
<1>3. /\ Len(slots) \in Nat /\ cycle.tail \in Nat /\ cycle.tail <= Len(slots)
      /\ \A g \in Tagged("slots") :
             /\ g \in Handle /\ headers[g].tag = "slots" /\ headers[g].start \in Nat /\ headers[g].count \in Nat
             /\ End(g) \in Nat /\ headers[g].start < End(g) /\ End(g) = headers[g].start + headers[g].count
             /\ End(g) <= Len(slots)
  BY <1>1, SlotsKnown
<1>4. Len(growLog) \in Nat /\ growLog \in Seq([start : Nat, handle : Nat])
  BY <1>1 DEF TypeOK
<1>5. /\ headers'[h].start = Len(slots) /\ headers'[h].count = count /\ headers'[h].marked = headers[h].marked
      /\ headers'[h].moved = (headers[h].moved \/ ~headers[h].marked) /\ headers'[h].tag = "slots"
      /\ \A g \in Handle : g # h => headers'[g] = headers[g]
  BY <1>3 DEF Regrown
<1>6. /\ \A g \in Tagged("slots") : g # h => End(g)' = End(g) /\ headers'[g] = headers[g]
      /\ End(h)' = Len(slots') /\ Len(slots') \in Nat /\ Len(slots) <= Len(slots') /\ count >= 1
  <2>1. Len(slots') = Len(slots) + count /\ headers[h].count \in Nat
    BY <1>3 DEF CopiedUp
  <2> QED BY <1>3, <1>5, <2>1 DEF End
<1>7. /\ \A g \in Handle : g # h => Unmoved(g)' = Unmoved(g) /\ \A j \in 1 .. Len(growLog) : Current(j, g)' = Current(j, g)
      /\ ~ Unmoved(h)' /\ ~ (headers'[h].moved = FALSE /\ ~ headers'[h].marked)
  <2>1. \A g \in Handle : g # h => Unmoved(g)' = Unmoved(g)
    BY <1>5 DEF Unmoved
  <2>2. \A g \in Handle : g # h => \A j \in 1 .. Len(growLog) : Current(j, g)' = Current(j, g)
    <3>1. \A j \in 1 .. Len(growLog) : growLog'[j] = growLog[j]
      BY DEF Logged
    <3> QED BY <1>5, <3>1 DEF Current
  <2>3. ~ Unmoved(h)' /\ ~ (headers'[h].moved = FALSE /\ ~ headers'[h].marked)
    BY <1>5 DEF Unmoved
  <2> QED BY <2>1, <2>2, <2>3
<1>8. SlotsPlaced'
  <2>1. ASSUME NEW g \in Tagged("slots"), g # h
        PROVE  /\ headers'[g].count >= 1 /\ End(g)' <= Len(slots')
               /\ \A k \in 1 .. headers'[g].count : slots'[headers'[g].start + k] = Written(g, k)
    <3>1. /\ headers[g].count >= 1 /\ End(g) <= Len(slots)
          /\ \A k \in 1 .. headers[g].count : slots[headers[g].start + k] = Written(g, k)
      BY <1>1 DEF SlotsPlaced
    <3>2. \A k \in 1 .. headers[g].count : headers[g].start + k \in 1 .. Len(slots)
      BY <1>3, <3>1, SMTT(30)
    <3>3. \A k \in 1 .. headers[g].count : slots'[headers[g].start + k] = Written(g, k)
      BY <3>1, <3>2 DEF CopiedUp
    <3>4. End(g)' = End(g) /\ headers'[g] = headers[g]
      BY <1>6, <2>1
    <3>5. End(g)' <= Len(slots')
      BY <1>3, <1>6, <3>1, <3>4
    <3> QED BY <3>1, <3>3, <3>4, <3>5
  <2>2. /\ headers'[h].count >= 1 /\ End(h)' <= Len(slots')
        /\ \A k \in 1 .. headers'[h].count : slots'[headers'[h].start + k] = Written(h, k)
    <3>1. \A k \in 1 .. count : slots'[Len(slots) + k] = Written(h, k)
      BY DEF CopiedUp
    <3> QED BY <1>5, <1>6, <3>1
  <2>3. \A g \in Tagged("slots") : /\ headers'[g].count >= 1 /\ End(g)' <= Len(slots')
                                   /\ \A k \in 1 .. headers'[g].count : slots'[headers'[g].start + k] = Written(g, k)
    BY <2>1, <2>2
  <2>4. ASSUME NEW f \in Tagged("slots"), NEW g \in Tagged("slots"), f # g PROVE Apart(f, g)'
    <3>1. \A e \in Tagged("slots") : e # h => End(e)' <= Len(slots)
      BY <1>3, <1>6
    <3>2. CASE f # h /\ g # h
      <4>1. Apart(f, g)
        BY <1>1, <2>4 DEF SlotsPlaced
      <4> QED BY <1>6, <3>2, <4>1 DEF Apart
    <3>3. CASE f = h
      BY <1>5, <2>4, <3>1, <3>3 DEF Apart
    <3>4. CASE g = h
      BY <1>5, <2>4, <3>1, <3>4 DEF Apart
    <3> QED BY <3>2, <3>3, <3>4
  <2> QED BY <1>2, <2>3, <2>4 DEF SlotsPlaced, Written
<1>9. \A j \in 1 .. Len(growLog) :
          /\ growLog[j].handle \in Tagged("slots") /\ growLog[j].start \in Nat
          /\ cycle.tail <= growLog[j].start /\ growLog[j].start <= headers[growLog[j].handle].start
          /\ ~Unmoved(growLog[j].handle) /\ growLog[j].start < Len(slots)
  <2>1. \A j \in 1 .. Len(growLog) : growLog[j].start \in Nat
    BY <1>1, LogIs DEF LogKnown
  <2>2. \A j \in 1 .. Len(growLog) :
            /\ growLog[j].handle \in Tagged("slots")
            /\ cycle.tail <= growLog[j].start /\ growLog[j].start <= headers[growLog[j].handle].start
            /\ ~Unmoved(growLog[j].handle)
    BY <1>1 DEF LogOK
  <2>3. \A j \in 1 .. Len(growLog) : growLog[j].start < Len(slots)
    BY <1>3, <2>1, <2>2
  <2> QED BY <2>1, <2>2, <2>3
<1>10. LogOK'
  <2> DEFINE L == Len(growLog)
  <2>1. /\ Len(growLog') = L + 1 /\ \A j \in 1 .. L : growLog'[j] = growLog[j]
        /\ growLog'[L + 1].start = Len(slots) /\ growLog'[L + 1].handle = h
    BY DEF Logged
  <2>2. \A j \in 1 .. L + 1 : j \in 1 .. L \/ j = L + 1
    BY <1>4
  <2>3. ASSUME NEW j \in 1 .. L, NEW g, g = growLog[j].handle
        PROVE  /\ g \in Tagged("slots") /\ growLog'[j].handle = g /\ cycle'.tail <= growLog'[j].start
               /\ growLog'[j].start <= headers'[g].start /\ ~Unmoved(g)'
    <3>1. /\ g \in Tagged("slots") /\ growLog'[j] = growLog[j] /\ cycle.tail <= growLog[j].start
          /\ growLog[j].start <= headers[g].start /\ ~ Unmoved(g) /\ growLog[j].start < Len(slots)
          /\ growLog[j].start \in Nat /\ g \in Handle
      BY <1>3, <1>9, <2>1, <2>3
    <3>2. growLog[j].start <= headers'[g].start
      BY <1>3, <1>5, <3>1
    <3>3. ~ Unmoved(g)'
      BY <1>7, <3>1
    <3> QED BY <1>1, <2>3, <3>1, <3>2, <3>3
  <2>4. /\ cycle'.tail <= growLog'[L + 1].start /\ growLog'[L + 1].start <= headers'[h].start
        /\ h \in Tagged("slots") /\ growLog'[L + 1].handle = h /\ ~Unmoved(h)'
    BY <1>1, <1>3, <1>5, <1>7, <2>1
  <2>5. ASSUME NEW i \in 1 .. L + 1, NEW j \in 1 .. L + 1, i < j PROVE growLog'[i].start < growLog'[j].start
    <3>1. i \in 1 .. L /\ growLog'[i].start = growLog[i].start /\ growLog[i].start < Len(slots)
      <4>1. i \in 1 .. L
        BY <1>4, <2>5
      <4> QED BY <1>9, <2>1, <4>1
    <3>2. CASE j \in 1 .. L
      BY <1>1, <2>1, <2>5, <3>1, <3>2 DEF LogOK
    <3>3. CASE j = L + 1
      BY <2>1, <3>1, <3>3
    <3> QED BY <2>2, <3>2, <3>3
  <2>6. \A j \in 1 .. Len(growLog') : \E g \in Tagged("slots") :
            /\ growLog'[j].handle = g /\ cycle'.tail <= growLog'[j].start
            /\ growLog'[j].start <= headers'[g].start /\ ~Unmoved(g)'
    <3>1. \A j \in 1 .. L : \E g \in Tagged("slots") :
            /\ growLog'[j].handle = g /\ cycle'.tail <= growLog'[j].start
            /\ growLog'[j].start <= headers'[g].start /\ ~Unmoved(g)'
      BY <2>3
    <3> QED BY <2>1, <2>2, <2>4, <3>1
  <2>7. \A i, j \in 1 .. Len(growLog') : i < j => growLog'[i].start < growLog'[j].start
    BY <2>1, <2>5
  <2> QED BY <1>2, <2>6, <2>7 DEF LogOK, Unmoved
<1>11. SlotsAged'
  <2>1. ASSUME NEW g \in Tagged("slots")
        PROVE  /\ headers'[g].start < cycle'.tail => headers'[g].marked /\ End(g)' <= cycle'.tail
               /\ headers'[g].start >= cycle'.tail => Unmoved(g)' \/ \E j \in 1 .. Len(growLog') : Current(j, g)'
    <3>1. CASE g = h
      <4>1. ~ (headers'[h].start < cycle'.tail)
        BY <1>1, <1>3, <1>5
      <4>2. Len(growLog) + 1 \in 1 .. Len(growLog')
        BY <1>4 DEF Logged
      <4>3. \A j \in Nat : j = Len(growLog) + 1 => Current(j, h)'
        BY <1>5 DEF Current, Logged
      <4>4. PICK j \in Nat : j = Len(growLog) + 1
        BY <1>4
      <4>5. j \in 1 .. Len(growLog') /\ Current(j, h)'
        BY <4>2, <4>3, <4>4
      <4>6. \E i \in 1 .. Len(growLog') : Current(i, h)'
        BY <4>5
      <4> QED BY <3>1, <4>1, <4>6
    <3>2. CASE g # h
      <4>1. /\ headers[g].start < cycle.tail => headers[g].marked /\ End(g) <= cycle.tail
            /\ headers[g].start >= cycle.tail => Unmoved(g) \/ \E j \in 1 .. Len(growLog) : Current(j, g)
        BY <1>1 DEF SlotsAged
      <4>2. \A j \in 1 .. Len(growLog) : j \in 1 .. Len(growLog')
        BY <1>4 DEF Logged
      <4>3. headers'[g] = headers[g] /\ End(g)' = End(g) /\ g \in Handle
        BY <1>3, <1>6, <3>2
      <4>4. headers'[g].start < cycle'.tail => headers'[g].marked /\ End(g)' <= cycle'.tail
        BY <1>1, <4>1, <4>3
      <4>5. headers'[g].start >= cycle'.tail => Unmoved(g)' \/ \E j \in 1 .. Len(growLog') : Current(j, g)'
        BY <1>1, <1>7, <3>2, <4>1, <4>2, <4>3
      <4> QED BY <4>4, <4>5
    <3> QED BY <3>1, <3>2
  <2>2. \A i \in 1 .. YoungCount : YoungHandle(i) \in Handle
    BY <1>1, YoungKnown DEF YoungAre
  <2>3. \A i, j \in 1 .. YoungCount :
            i < j /\ Unmoved(YoungHandle(i))' /\ Unmoved(YoungHandle(j))'
                => headers'[YoungHandle(i)].start < headers'[YoungHandle(j)].start
    <3>1. \A i \in 1 .. YoungCount : Unmoved(YoungHandle(i))' =>
              /\ YoungHandle(i) # h /\ headers'[YoungHandle(i)] = headers[YoungHandle(i)] /\ Unmoved(YoungHandle(i))
      BY <1>2, <1>5, <1>7, <2>2 DEF Unmoved
    <3> QED BY <1>1, <3>1 DEF SlotsAged
  <2>4. cycle'.tail <= Len(slots')
    BY <1>1, <1>3, <1>6
  <2> QED BY <1>2, <2>1, <2>3, <2>4 DEF SlotsAged
<1>12. TypeOK'
  BY <1>1 DEF TypeOK, Regrown, TableStays, CopiedUp, Logged
<1> QED BY <1>2, <1>8, <1>10, <1>11, <1>12 DEF Inv

LEMMA HeaderSet ==
    ASSUME TypeOK, NEW h \in Tagged("slots"), NEW c \in CellSet, headers' = [headers EXCEPT ![h] = c],
           c.tag = "slots", c.marked = headers[h].marked
    PROVE  Regrown(h, c.start, c.count, c.moved)
<1>1. headers \in Seq(CellSet) /\ Len(headers) = extent /\ h \in 1 .. extent /\ extent \in Nat
  BY DEF TypeOK, Tagged, Handle
<1> DEFINE S == CellSet
<1>2. c \in S /\ headers \in Seq(S)
  BY <1>1
<1> HIDE DEF S
<1>3. /\ headers' \in Seq(S) /\ Len(headers') = extent /\ headers'[h] = c
      /\ \A g \in 1 .. extent : g # h => headers'[g] = headers[g]
  BY <1>1, <1>2
<1> QED BY <1>3 DEF Regrown, S, Handle

GrowsTo(h, count) ==
    LET start == headers[h].start
        old == headers[h].count
        more == [k \in 1 .. count - old |-> Written(h, old + k)]
    IN  IF GrowsInPlace(h)
        THEN /\ Len(slots) + count - old <= MaxSlots
             /\ slots' = slots \o more
             /\ headers' = [headers EXCEPT ![h].count = count]
             /\ UNCHANGED growLog
        ELSE /\ Len(slots) + count <= MaxSlots
             /\ slots' = slots \o SubSeq(slots, start + 1, start + old) \o more
             /\ headers' = [headers EXCEPT ![h].start = Len(slots), ![h].count = count,
                                           ![h].moved = @ \/ ~headers[h].marked]
             /\ growLog' = Append(growLog, [start |-> Len(slots), handle |-> h])

LEMMA GrowKeeps ==
    ASSUME Inv, Grow
    PROVE  Inv'
<1>1. TypeOK /\ SlotsPlaced /\ SlotsAged
  BY DEF Inv
<1>2. PICK h \in Tagged("slots") : \E count \in headers[h].count + 1 .. MaxCount : GrowsTo(h, count)
  BY DEF Grow, GrowsTo
<1>2a. PICK count \in headers[h].count + 1 .. MaxCount : GrowsTo(h, count)
  BY <1>2
<1>3. TableStays
  BY DEF Grow, TableStays
<1> DEFINE start == headers[h].start
           old == headers[h].count
           more == [k \in 1 .. count - old |-> Written(h, old + k)]
<1>4. /\ Len(slots) \in Nat /\ h \in Handle /\ h \in Nat /\ headers[h].tag = "slots"
      /\ start \in Nat /\ old \in Nat /\ start + old <= Len(slots)
      /\ headers[h].marked \in BOOLEAN /\ headers[h].moved \in BOOLEAN
  BY <1>1, SlotsKnown
<1>5. count \in Nat /\ old < count /\ count - old \in Nat
  BY <1>4, BoundsAssumption
<1>6. headers[h] \in CellSet /\ slots \in Seq(Nat)
  BY <1>1, <1>4 DEF TypeOK, Handle
<1> HIDE DEF start, old
<1>7. more \in Seq(Nat) /\ Len(more) = count - old /\ \A k \in 1 .. count - old : more[k] = Written(h, old + k)
  <2>1. \A k \in 1 .. count - old : old + k \in Nat
    BY <1>4
  <2>2. \A k \in 1 .. count - old : Written(h, old + k) \in Nat
    BY <1>4, <2>1, WrittenIs
  <2>3. more \in [1 .. count - old -> Nat]
    BY <2>2
  <2> QED BY <1>5, <2>3
<1> HIDE DEF more
<1>8. CASE GrowsInPlace(h)
  <2>1. /\ slots' = slots \o more /\ growLog' = growLog
        /\ headers' = [headers EXCEPT ![h].count = count]
    BY <1>2a, <1>8 DEF GrowsTo, more, old
  <2> DEFINE c == [headers[h] EXCEPT !.count = count]
  <2>2. /\ c \in CellSet /\ c.tag = "slots" /\ c.marked = headers[h].marked /\ c.count = count
        /\ c.start = headers[h].start /\ c.moved = headers[h].moved
    BY <1>4, <1>5, <1>6 DEF CellSet
  <2>3. headers' = [headers EXCEPT ![h] = c]
    BY <2>1
  <2> HIDE DEF c
  <2>4. Regrown(h, headers[h].start, count, headers[h].moved)
    <3>1. Regrown(h, c.start, c.count, c.moved)
      BY <1>1, <2>2, <2>3, HeaderSet
    <3> QED BY <2>2, <3>1
  <2>5. Stretched(h, count)
    <3>1. /\ slots \o more \in Seq(Nat) /\ Len(slots \o more) = Len(slots) + Len(more)
          /\ \A i \in 1 .. Len(slots) : (slots \o more)[i] = slots[i]
          /\ \A i \in 1 .. Len(more) : (slots \o more)[Len(slots) + i] = more[i]
      BY <1>6, <1>7, NatConcat, Zenon
    <3> QED BY <1>7, <2>1, <3>1 DEF Stretched, old
  <2> QED BY <1>3, <1>5, <1>8, <2>1, <2>4, <2>5, GrowInPlaceKeeps DEF old
<1>9. CASE ~ GrowsInPlace(h)
  <2> DEFINE copy == SubSeq(slots, start + 1, start + old)
             e == [start |-> Len(slots), handle |-> h]
  <2>1. /\ slots' = slots \o copy \o more /\ growLog' = Append(growLog, e)
        /\ headers' = [headers EXCEPT ![h].start = Len(slots), ![h].count = count,
                                      ![h].moved = @ \/ ~headers[h].marked]
    BY <1>2a, <1>9 DEF GrowsTo, more, old, start
  <2> DEFINE c == [headers[h] EXCEPT !.start = Len(slots), !.count = count, !.moved = @ \/ ~headers[h].marked]
  <2>2. /\ c \in CellSet /\ c.tag = "slots" /\ c.marked = headers[h].marked /\ c.count = count
        /\ c.start = Len(slots) /\ c.moved = (headers[h].moved \/ ~headers[h].marked)
    BY <1>4, <1>5, <1>6 DEF CellSet
  <2>3. headers' = [headers EXCEPT ![h] = c]
    BY <2>1
  <2> HIDE DEF c
  <2>4. Regrown(h, Len(slots), count, headers[h].moved \/ ~headers[h].marked)
    <3>1. Regrown(h, c.start, c.count, c.moved)
      BY <1>1, <2>2, <2>3, HeaderSet
    <3> QED BY <2>2, <3>1
  <2>5. Logged(h)
    <3> DEFINE E == [start : Nat, handle : Nat]
    <3>1. growLog \in Seq(E) /\ e \in E /\ e.start = Len(slots) /\ e.handle = h
      BY <1>1, <1>4 DEF TypeOK
    <3> HIDE DEF E, e
    <3>2. /\ growLog' \in Seq(E) /\ Len(growLog') = Len(growLog) + 1
          /\ \A j \in 1 .. Len(growLog) : growLog'[j] = growLog[j]
          /\ growLog'[Len(growLog) + 1] = e
      BY <2>1, <3>1
    <3> QED BY <3>1, <3>2 DEF Logged, E
  <2>6. CopiedUp(h, count)
    <3>1. /\ copy \in Seq(Nat) /\ Len(copy) = old /\ \A k \in 1 .. old : copy[k] = slots[start + k]
      BY <1>4, <1>6, SubSeqOf
    <3>2. \A k \in 1 .. old : slots[start + k] = Written(h, k)
      BY <1>1 DEF SlotsPlaced, start, old
    <3> HIDE DEF copy
    <3> DEFINE moved == slots \o copy
    <3>3. /\ moved \in Seq(Nat) /\ Len(moved) = Len(slots) + Len(copy)
          /\ \A i \in 1 .. Len(slots) : moved[i] = slots[i]
          /\ \A i \in 1 .. Len(copy) : moved[Len(slots) + i] = copy[i]
      BY <1>6, <3>1, NatConcat, Zenon
    <3> HIDE DEF moved
    <3> DEFINE all == moved \o more
    <3>4. /\ all \in Seq(Nat) /\ Len(all) = Len(moved) + Len(more)
          /\ \A i \in 1 .. Len(moved) : all[i] = moved[i]
          /\ \A i \in 1 .. Len(more) : all[Len(moved) + i] = more[i]
      BY <1>7, <3>3, NatConcat, Zenon
    <3>5. slots' = all
      BY <2>1 DEF moved
    <3> HIDE DEF all
    <3>6. Len(all) = Len(slots) + count /\ Len(moved) = Len(slots) + old
      BY <1>4, <1>5, <1>7, <3>1, <3>3, <3>4
    <3>7. \A p \in 1 .. Len(slots) : all[p] = slots[p]
      <4>1. \A p \in 1 .. Len(slots) : p \in 1 .. Len(moved)
        BY <1>4, <3>6
      <4> QED BY <3>3, <3>4, <4>1
    <3>8. ASSUME NEW k \in 1 .. count PROVE all[Len(slots) + k] = Written(h, k)
      <4>1. CASE k <= old
        <5>1. k \in 1 .. old /\ Len(slots) + k \in 1 .. Len(moved)
          BY <1>4, <3>6, <4>1
        <5>2. all[Len(slots) + k] = moved[Len(slots) + k]
          BY <3>4, <5>1
        <5>3. moved[Len(slots) + k] = copy[k]
          BY <3>1, <3>3, <5>1
        <5> QED BY <3>1, <3>2, <5>1, <5>2, <5>3
      <4>2. CASE ~ (k <= old)
        <5>1. k - old \in 1 .. count - old /\ Len(moved) + (k - old) = Len(slots) + k /\ old + (k - old) = k
          BY <1>4, <1>5, <3>6, <4>2
        <5>2. all[Len(moved) + (k - old)] = more[k - old]
          BY <1>7, <3>4, <5>1
        <5>3. more[k - old] = Written(h, old + (k - old))
          BY <1>7, <5>1
        <5> QED BY <5>1, <5>2, <5>3
      <4> QED BY <4>1, <4>2
    <3> QED BY <3>4, <3>5, <3>6, <3>7, <3>8 DEF CopiedUp
  <2> QED BY <1>3, <1>5, <2>4, <2>5, <2>6, GrowElsewhereKeeps DEF old
<1> QED BY <1>8, <1>9

(* Strings.                                                                *)

\* A string put at the byte arena's top, or on from one that ends there.
LaidOut(cell, t) ==
    /\ cell.tag = "small" /\ cell.start \in Nat /\ t \in Seq(Nat) /\ cell.count = Len(t)
    /\ bytes' \in Seq(Nat) /\ Len(bytes) <= Len(bytes') /\ cell.start + Len(t) <= Len(bytes')
    /\ \A p \in 1 .. Len(bytes) : bytes'[p] = bytes[p]
    /\ \A k \in 1 .. Len(t) : bytes'[cell.start + k] = t[k]
    /\ \/ cell.start = Len(bytes)
       \/ \E l \in Tagged("small") : headers[l].start = cell.start /\ End(l) = Len(bytes)

LEMMA StringsKnown ==
    ASSUME TypeOK, BytesPlaced, BytesAged
    PROVE  /\ Len(bytes) \in Nat /\ cycle.byteTail \in Nat /\ cycle.byteTail <= Len(bytes) /\ bytes \in Seq(Nat)
           /\ \A h \in Tagged("small") :
                  /\ h \in Handle /\ headers[h].tag = "small"
                  /\ headers[h].start \in Nat /\ headers[h].count \in Nat
                  /\ End(h) \in Nat /\ End(h) = headers[h].start + headers[h].count /\ End(h) <= Len(bytes)
           /\ \A h \in Handle : NonEmpty(h) => h \in Tagged("small") /\ headers[h].start < End(h)
<1>1. \A h \in Tagged("small") : h \in Handle /\ headers[h].tag = "small" /\ headers[h] \in CellSet
  BY DEF TypeOK, Tagged, Handle
<1>2. \A c \in CellSet : c.start \in Nat /\ c.count \in Nat
  BY DEF CellSet
<1>3. \A h \in Tagged("small") : End(h) <= Len(bytes)
  BY DEF BytesPlaced
<1>4. \A h \in Tagged("small") : End(h) \in Nat /\ End(h) = headers[h].start + headers[h].count
  BY <1>1, <1>2 DEF End
<1>5. \A h \in Handle : NonEmpty(h) => h \in Tagged("small") /\ headers[h].count > 0
  BY DEF NonEmpty, Tagged
<1>6. \A h \in Handle : NonEmpty(h) => headers[h].start < End(h)
  BY <1>1, <1>2, <1>4, <1>5
<1>7. Len(bytes) \in Nat /\ cycle.byteTail \in Nat /\ cycle.byteTail <= Len(bytes) /\ bytes \in Seq(Nat)
  BY DEF TypeOK, Cycles, BytesAged
<1> QED BY <1>1, <1>2, <1>3, <1>4, <1>5, <1>6, <1>7

\* A sequence read in two states, its entries the same.
LEMMA SameRange ==
    ASSUME NEW s \in Seq(Nat), NEW u \in Seq(Nat), NEW start \in Nat, NEW count \in Nat,
           start + count <= Len(s), start + count <= Len(u), \A k \in 1 .. count : s[start + k] = u[start + k]
    PROVE  SubSeq(s, start + 1, start + count) = SubSeq(u, start + 1, start + count)
<1> DEFINE a == SubSeq(s, start + 1, start + count)
           b == SubSeq(u, start + 1, start + count)
<1>1. a \in Seq(Nat) /\ Len(a) = count /\ \A i \in 1 .. count : a[i] = s[start + i]
  OBVIOUS
<1>2. b \in Seq(Nat) /\ Len(b) = count /\ \A i \in 1 .. count : b[i] = u[start + i]
  OBVIOUS
<1> HIDE DEF a, b
<1>3. \A i \in 1 .. Len(a) : a[i] = b[i]
  BY <1>1, <1>2
<1>4. a = b
  BY <1>1, <1>2, <1>3, SameSeq
<1> QED BY <1>4 DEF a, b

LEMMA RangeIs ==
    ASSUME NEW s \in Seq(Nat), NEW t \in Seq(Nat), NEW start \in Nat,
           start + Len(t) <= Len(s), \A k \in 1 .. Len(t) : s[start + k] = t[k]
    PROVE  SubSeq(s, start + 1, start + Len(t)) = t
<1> DEFINE a == SubSeq(s, start + 1, start + Len(t))
<1>1. a \in Seq(Nat) /\ Len(a) = Len(t) /\ \A i \in 1 .. Len(t) : a[i] = s[start + i]
  OBVIOUS
<1> HIDE DEF a
<1>2. a = t
  BY <1>1, SameSeq
<1> QED BY <1>2 DEF a

LEMMA BytesLaidOut ==
    ASSUME Inv, NEW N, NEW cell, NewCell(cell), NEW t, LaidOut(cell, t), Tabled(N, cell, t), YoungOnto(N)
    PROVE  BytesPlaced' /\ BytesAged'
<1>1. BytesPlaced /\ BytesAged /\ TypeOK /\ HandlesInv /\ cycle' = cycle /\ headers'[N] = cell /\ text'[N] = t
  BY DEF Inv, Tabled
<1>2. /\ Tagged("small")' = Tagged("small") \union {N}
      /\ \A h \in Live : h # N /\ headers'[h] = headers[h] /\ text'[h] = text[h]
      /\ Tagged("small") \subseteq Live /\ Live' = Live \union {N}
  <2>1. Tagged("small")' = Tagged("small") \union (IF cell.tag = "small" THEN {N} ELSE {})
    BY TabledSets
  <2>2. Tagged("small") \subseteq Live
    BY DEF Tagged, Live
  <2> QED BY <2>1, <2>2, TabledSets DEF LaidOut
<1>3. \A h \in Live : End(h)' = End(h) /\ NonEmpty(h)' = NonEmpty(h)
  BY <1>2 DEF End, NonEmpty
<1>4. /\ Len(bytes) \in Nat /\ cycle.byteTail \in Nat /\ cycle.byteTail <= Len(bytes) /\ bytes \in Seq(Nat)
      /\ \A h \in Tagged("small") :
             /\ h \in Handle /\ headers[h].tag = "small"
             /\ headers[h].start \in Nat /\ headers[h].count \in Nat
             /\ End(h) \in Nat /\ End(h) = headers[h].start + headers[h].count /\ End(h) <= Len(bytes)
      /\ \A h \in Handle : NonEmpty(h) => h \in Tagged("small") /\ headers[h].start < End(h)
  BY <1>1, StringsKnown
<1> DEFINE s == cell.start
<1>5. /\ s \in Nat /\ t \in Seq(Nat) /\ cell.count = Len(t) /\ s + Len(t) <= Len(bytes') /\ bytes' \in Seq(Nat)
      /\ Len(bytes) <= Len(bytes') /\ Len(bytes') \in Nat /\ Len(t) \in Nat /\ cell.tag = "small"
      /\ \A p \in 1 .. Len(bytes) : bytes'[p] = bytes[p]
      /\ \A k \in 1 .. Len(t) : bytes'[s + k] = t[k]
  BY DEF LaidOut
<1> HIDE DEF s
<1>6. /\ headers'[N].start = s /\ headers'[N].count = Len(t) /\ headers'[N].tag = "small"
      /\ ~ headers'[N].marked /\ End(N)' = s + Len(t)
  BY <1>1, <1>5 DEF End, NewCell, s
<1>7. ASSUME NEW g \in Live, NonEmpty(g)
      PROVE  headers[g].start = s \/ End(g) <= s
  <2>1. g \in Tagged("small") /\ End(g) <= Len(bytes) /\ headers[g].start < End(g) /\ g \in Handle
    BY <1>4, <1>7 DEF Live
  <2>2. CASE s = Len(bytes)
    BY <2>1, <2>2
  <2>3. CASE s # Len(bytes)
    <3>1. PICK l \in Tagged("small") : headers[l].start = s /\ End(l) = Len(bytes)
      BY <2>3 DEF LaidOut, s
    <3>2. NonEmpty(l)
      BY <1>4, <2>3, <3>1 DEF NonEmpty
    <3>3. headers[g].start = headers[l].start \/ Apart(g, l)
      BY <1>1, <1>4, <1>7, <2>1, <3>2 DEF BytesPlaced
    <3>4. ~ (End(l) <= headers[g].start)
      BY <1>4, <2>1, <3>1
    <3> QED BY <3>1, <3>3, <3>4 DEF Apart
  <2> QED BY <2>2, <2>3
<1>8. BytesPlaced'
  <2>1. ASSUME NEW h \in Tagged("small") PROVE End(h)' <= Len(bytes') /\ StorageOf(h)' = text'[h]
    <3>1. /\ headers'[h] = headers[h] /\ text'[h] = text[h] /\ StorageOf(h) = text[h] /\ End(h)' = End(h)
          /\ headers[h].tag = "small"
      BY <1>1, <1>2, <1>3, <1>4 DEF BytesPlaced
    <3> DEFINE a == headers[h].start
               n == headers[h].count
    <3>2. a \in Nat /\ n \in Nat /\ a + n <= Len(bytes) /\ a + n <= Len(bytes')
      BY <1>4, <1>5
    <3> HIDE DEF a, n
    <3>3. \A k \in 1 .. n : a + k \in 1 .. Len(bytes)
      BY <1>4, <3>2
    <3>4. \A k \in 1 .. n : bytes'[a + k] = bytes[a + k]
      BY <1>5, <3>3
    <3>5. StorageOf(h) = SubSeq(bytes, a + 1, a + n) /\ StorageOf(h)' = SubSeq(bytes', a + 1, a + n)
      BY <3>1 DEF StorageOf, a, n
    <3>6. SubSeq(bytes', a + 1, a + n) = SubSeq(bytes, a + 1, a + n)
      BY <1>4, <1>5, <3>2, <3>4, SameRange
    <3>7. End(h)' <= Len(bytes')
      BY <1>4, <1>5, <3>1
    <3> QED BY <3>1, <3>5, <3>6, <3>7
  <2>2. End(N)' <= Len(bytes') /\ StorageOf(N)' = text'[N]
    <3>1. SubSeq(bytes', s + 1, s + Len(t)) = t
      BY <1>5, RangeIs
    <3>2. StorageOf(N)' = SubSeq(bytes', s + 1, s + Len(t))
      BY <1>6 DEF StorageOf
    <3> QED BY <1>1, <1>5, <1>6, <3>1, <3>2
  <2>3. ASSUME NEW g \in Handle', NEW h \in Handle', NonEmpty(g)', NonEmpty(h)'
        PROVE  headers'[g].start = headers'[h].start \/ Apart(g, h)'
    <3>1. g \in Live \union {N} /\ h \in Live \union {N}
      <4>1. g \in Live' /\ h \in Live'
        BY <2>3 DEF NonEmpty, Live
      <4> QED BY <1>2, <4>1
    <3>2. CASE g \in Live /\ h \in Live
      <4>1. NonEmpty(g) /\ NonEmpty(h) /\ g \in Handle /\ h \in Handle
        BY <1>3, <2>3, <3>2 DEF Live
      <4>2. headers[g].start = headers[h].start \/ Apart(g, h)
        BY <1>1, <4>1 DEF BytesPlaced
      <4> QED BY <1>2, <1>3, <3>2, <4>2 DEF Apart
    <3>3. CASE g = N /\ h = N
      BY <3>3
    <3>4. CASE g \in Live /\ h = N
      <4>1. headers[g].start = s \/ End(g) <= s
        BY <1>3, <1>7, <2>3, <3>4
      <4> QED BY <1>2, <1>3, <1>6, <3>4, <4>1 DEF Apart
    <3>5. CASE g = N /\ h \in Live
      <4>1. headers[h].start = s \/ End(h) <= s
        BY <1>3, <1>7, <2>3, <3>5
      <4> QED BY <1>2, <1>3, <1>6, <3>5, <4>1 DEF Apart
    <3> QED BY <3>1, <3>2, <3>3, <3>4, <3>5
  <2> QED BY <1>2, <2>1, <2>2, <2>3 DEF BytesPlaced
<1>9. BytesAged'
  <2>1. \A h \in Tagged("small")' : headers'[h].marked => End(h)' <= cycle'.byteTail
    <3>1. \A h \in Tagged("small") : headers'[h].marked => End(h)' <= cycle'.byteTail
      BY <1>1, <1>2, <1>3 DEF BytesAged
    <3> QED BY <1>2, <1>6, <3>1
  <2>2. ASSUME NEW i \in 1 .. YoungCount', NEW j \in 1 .. YoungCount', i < j,
               NonEmpty(YoungHandle(i))', NonEmpty(YoungHandle(j))'
        PROVE  headers'[YoungHandle(i)'].start <= headers'[YoungHandle(j)'].start
    <3>1. YoungCount \in Nat /\ YoungCount' = YoungCount + 1
      BY DEF YoungOnto
    <3>2. i \in 1 .. YoungCount
      BY <2>2, <3>1
    <3>3. YoungHandle(i)' = YoungHandle(i) /\ YoungHandle(i) \in Live
      BY <1>1, <3>2, YoungKnown DEF YoungAre, YoungOnto
    <3>4. NonEmpty(YoungHandle(i)) /\ headers'[YoungHandle(i)'].start = headers[YoungHandle(i)].start
      BY <1>2, <2>2, <3>3 DEF NonEmpty
    <3>5. CASE j \in 1 .. YoungCount
      <4>1. YoungHandle(j)' = YoungHandle(j) /\ YoungHandle(j) \in Live
        BY <1>1, <3>5, YoungKnown DEF YoungAre, YoungOnto
      <4>2. NonEmpty(YoungHandle(j)) /\ headers'[YoungHandle(j)'].start = headers[YoungHandle(j)].start
        BY <1>2, <2>2, <4>1 DEF NonEmpty
      <4> QED BY <1>1, <2>2, <3>2, <3>4, <3>5, <4>2 DEF BytesAged
    <3>6. CASE j = YoungCount + 1
      <4>1. YoungHandle(j)' = N
        BY <3>1, <3>6 DEF YoungOnto
      <4>2. headers[YoungHandle(i)].start = s \/ End(YoungHandle(i)) <= s
        BY <1>7, <3>3, <3>4
      <4>3. /\ YoungHandle(i) \in Tagged("small") /\ headers[YoungHandle(i)].start < End(YoungHandle(i))
            /\ headers[YoungHandle(i)].start \in Nat /\ End(YoungHandle(i)) \in Nat
        BY <1>4, <3>3, <3>4 DEF Live
      <4> QED BY <1>5, <1>6, <3>4, <4>1, <4>2, <4>3, SMTT(30)
    <3> QED BY <3>1, <3>5, <3>6
  <2>3. cycle'.byteTail <= Len(bytes')
    BY <1>1, <1>4, <1>5
  <2> QED BY <2>1, <2>2, <2>3 DEF BytesAged
<1> QED BY <1>8, <1>9
\* A string put over a buffer, one that none is over or one that keeps what
\* the strings over it read.
PutOver(cell, t, index) ==
    LET L == Tagged("large")
        old == buffers[index].bytes
        new == buffers'[index].bytes
    IN  /\ cell.tag = "large" /\ cell.count = Len(t) /\ cell.buffer = index /\ t \in Seq(Nat)
        /\ buffers' \in Seq(BufferSet) /\ Len(buffers) <= Len(buffers')
        /\ 1 .. Len(buffers') = (1 .. Len(buffers)) \union {index}
        /\ \A b \in 1 .. Len(buffers) : b # index => buffers'[b] = buffers[b]
        /\ Len(t) <= Len(new) /\ SubSeq(new, 1, Len(t)) = t
        /\ Over(L, index) # {} => Len(old) <= Len(new) /\ \A p \in 1 .. Len(old) : new[p] = old[p]
        /\ buffers'[index].refs = Cardinality(Over(L, index)) + 1
        /\ Lists(freeBuffers', {b \in 1 .. Len(buffers) : Over(L, b) = {}} \ {index})

LEMMA SamePrefix ==
    ASSUME NEW s \in Seq(Nat), NEW u \in Seq(Nat), NEW n \in 0 .. Len(s), Len(s) <= Len(u),
           \A p \in 1 .. Len(s) : u[p] = s[p]
    PROVE  SubSeq(u, 1, n) = SubSeq(s, 1, n)
<1> DEFINE a == SubSeq(u, 1, n)
           b == SubSeq(s, 1, n)
<1>1. n \in 0 .. Len(u) /\ n \in Nat /\ \A i \in 1 .. n : i \in 1 .. Len(s)
  OBVIOUS
<1>2. a \in Seq(Nat) /\ Len(a) = n /\ \A i \in 1 .. n : a[i] = u[i]
  BY <1>1, NatPrefix, Zenon
<1>3. b \in Seq(Nat) /\ Len(b) = n /\ \A i \in 1 .. n : b[i] = s[i]
  BY NatPrefix, Zenon
<1> HIDE DEF a, b
<1>4. a = b
  BY <1>1, <1>2, <1>3, SameSeq
<1> QED BY <1>4 DEF a, b

LEMMA WholePrefix ==
    ASSUME NEW s \in Seq(Nat)
    PROVE  SubSeq(s, 1, Len(s)) = s
<1> DEFINE a == SubSeq(s, 1, Len(s))
<1>1. a \in Seq(Nat) /\ Len(a) = Len(s) /\ \A i \in 1 .. Len(s) : a[i] = s[i]
  OBVIOUS
<1> HIDE DEF a
<1>2. a = s
  BY <1>1, SameSeq
<1> QED BY <1>2 DEF a

LEMMA BuffersPut ==
    ASSUME Inv, NEW N, NEW cell, NewCell(cell), NEW t, Tabled(N, cell, t), NEW index, PutOver(cell, t, index)
    PROVE  BuffersInv'
<1> DEFINE L == Tagged("large")
<1>1. TypeOK /\ BuffersInv /\ headers'[N] = cell /\ text'[N] = t
  BY DEF Inv, Tabled
<1>2. /\ \A b \in 1 .. Len(buffers) : buffers[b].refs = Cardinality(Over(L, b))
      /\ \A h \in L : /\ headers[h].buffer \in 1 .. Len(buffers)
                      /\ headers[h].count <= Len(buffers[headers[h].buffer].bytes)
                      /\ SubSeq(buffers[headers[h].buffer].bytes, 1, headers[h].count) = text[h]
  BY <1>1 DEF BuffersInv, Counted
<1>3. /\ L' = L \union {N} /\ N \notin L
      /\ \A h \in L : headers'[h] = headers[h] /\ text'[h] = text[h]
  <2>1. Tagged("large")' = Tagged("large") \union (IF cell.tag = "large" THEN {N} ELSE {})
    BY TabledSets
  <2>2. Tagged("large") \subseteq Live /\ cell.tag = "large"
    BY DEF Tagged, Live, PutOver
  <2> QED BY <2>1, <2>2, TabledSets
<1>4. cell.buffer = index /\ cell.count = Len(t)
  BY DEF PutOver
<1>5. L \in SUBSET Handle
  BY DEF Tagged
<1> DEFINE bs == buffers
           new == buffers'
           D == {b \in 1 .. Len(bs) : Over(L, b) = {}}
<1>6. /\ new \in Seq(BufferSet) /\ Len(bs) <= Len(new) /\ 1 .. Len(new) = (1 .. Len(bs)) \union {index}
      /\ \A b \in 1 .. Len(bs) : b # index => new[b] = bs[b]
      /\ Len(t) <= Len(new[index].bytes) /\ SubSeq(new[index].bytes, 1, Len(t)) = t
      /\ new[index].refs = Cardinality(Over(L, index)) + 1
      /\ Lists(freeBuffers', D \ {index})
  BY DEF PutOver
<1>7. Over(L, index) # {} => /\ Len(bs[index].bytes) <= Len(new[index].bytes)
                             /\ \A p \in 1 .. Len(bs[index].bytes) : new[index].bytes[p] = bs[index].bytes[p]
  BY DEF PutOver
<1>8. /\ bs \in Seq(BufferSet) /\ \A b \in 1 .. Len(bs) : bs[b] \in BufferSet
      /\ \A b \in 1 .. Len(new) : new[b] \in BufferSet
  <2>1. bs \in Seq(BufferSet)
    BY <1>1 DEF TypeOK
  <2> DEFINE S == BufferSet
  <2>2. bs \in Seq(S) /\ new \in Seq(S)
    BY <1>6, <2>1
  <2> HIDE DEF S, bs, new
  <2>3. (\A b \in 1 .. Len(bs) : bs[b] \in S) /\ (\A b \in 1 .. Len(new) : new[b] \in S)
    BY <2>2
  <2> QED BY <2>1, <2>3 DEF S
<1>9. \A b : b # index => Over(L, b)' = Over(L, b)
  BY <1>1, <1>3, <1>4 DEF Over
<1>10. Over(L, index)' = Over(L, index) \union {N} /\ N \notin Over(L, index)
  BY <1>1, <1>3, <1>4 DEF Over
<1>11. Cardinality(Over(L, index) \union {N}) = Cardinality(Over(L, index)) + 1
  <2>1. IsFiniteSet(Over(L, index))
    BY <1>1, <1>5, OverFinite
  <2> HIDE DEF L
  <2> QED BY <1>10, <2>1, FS_AddElement
<1>12. \A b \in 1 .. Len(new) : new[b].refs = Cardinality(Over(L, b)')
  BY <1>2, <1>6, <1>9, <1>10, <1>11
<1>13. {b \in 1 .. Len(new) : Over(L, b)' = {}} = D \ {index}
  <2>1. ASSUME NEW b PROVE b \in 1 .. Len(new) /\ Over(L, b)' = {} <=> b \in D \ {index}
    <3>1. CASE b = index
      BY <1>10, <3>1
    <3>2. CASE b # index
      BY <1>6, <1>9, <3>2
    <3> QED BY <3>1, <3>2
  <2> QED BY <2>1
<1>14. Lists(freeBuffers', {b \in 1 .. Len(new) : Over(L, b)' = {}})
  BY <1>6, <1>13
<1>15. ASSUME NEW h \in L
       PROVE  /\ headers'[h].buffer \in 1 .. Len(new)
              /\ headers'[h].count <= Len(new[headers'[h].buffer].bytes)
              /\ SubSeq(new[headers'[h].buffer].bytes, 1, headers'[h].count) = text'[h]
  <2> DEFINE b == headers[h].buffer
             n == headers[h].count
  <2>1. /\ headers'[h].buffer = b /\ headers'[h].count = n /\ text'[h] = text[h]
        /\ b \in 1 .. Len(bs) /\ n <= Len(bs[b].bytes) /\ SubSeq(bs[b].bytes, 1, n) = text[h]
    BY <1>2, <1>3
  <2>2. b \in 1 .. Len(new)
    BY <1>6, <2>1
  <2>3. n \in Nat
    <3>1. headers[h] \in CellSet
      BY <1>1, <1>5 DEF TypeOK, Handle
    <3> QED BY <3>1 DEF CellSet
  <2>4. bs[b].bytes \in Seq(Nat) /\ new[b].bytes \in Seq(Nat)
    <3>1. bs[b] \in BufferSet /\ new[b] \in BufferSet
      BY <1>8, <2>1, <2>2
    <3> QED BY <3>1 DEF BufferSet
  <2>5. Over(L, b) # {}
    BY DEF Over
  <2> HIDE DEF b, n, bs, new
  <2>6. CASE b # index
    BY <1>6, <2>1, <2>2, <2>6
  <2>7. CASE b = index
    <3>1. Len(bs[b].bytes) <= Len(new[b].bytes) /\ \A p \in 1 .. Len(bs[b].bytes) : new[b].bytes[p] = bs[b].bytes[p]
      BY <1>7, <2>5, <2>7
    <3>2. n \in 0 .. Len(bs[b].bytes) /\ n <= Len(new[b].bytes)
      BY <2>1, <2>3, <2>4, <3>1
    <3> DEFINE s == bs[b].bytes
               u == new[b].bytes
    <3>3. s \in Seq(Nat) /\ u \in Seq(Nat) /\ n \in 0 .. Len(s) /\ Len(s) <= Len(u) /\ \A p \in 1 .. Len(s) : u[p] = s[p]
      BY <2>4, <3>1, <3>2
    <3> HIDE DEF s, u
    <3>4. SubSeq(u, 1, n) = SubSeq(s, 1, n)
      BY <3>3, SamePrefix
    <3> QED BY <2>1, <2>2, <3>2, <3>4 DEF s, u
  <2> QED BY <2>6, <2>7
<1>16. /\ headers'[N].buffer \in 1 .. Len(new)
       /\ headers'[N].count <= Len(new[headers'[N].buffer].bytes)
       /\ SubSeq(new[headers'[N].buffer].bytes, 1, headers'[N].count) = text'[N]
  BY <1>1, <1>4, <1>6
<1>17. \A h \in L' : /\ headers'[h].buffer \in 1 .. Len(new)
                     /\ headers'[h].count <= Len(new[headers'[h].buffer].bytes)
                     /\ SubSeq(new[headers'[h].buffer].bytes, 1, headers'[h].count) = text'[h]
  BY <1>3, <1>15, <1>16
<1> HIDE DEF L
<1>18. Counted(buffers, freeBuffers, L)'
  BY <1>6, <1>12, <1>14, <1>17 DEF Counted
<1> QED BY <1>18 DEF BuffersInv, L
\* A string's bytes are its text.
LEMMA StringIs ==
    ASSUME Inv, NEW h \in Tagged("small") \union Tagged("large")
    PROVE  /\ StorageOf(h) = text[h] /\ text[h] \in Seq(Nat) /\ Len(text[h]) = headers[h].count
           /\ h \in Handle /\ headers[h].start \in Nat /\ headers[h].count \in Nat
<1>1. TypeOK /\ BytesPlaced /\ BytesAged /\ BuffersInv
  BY DEF Inv
<1>2. h \in Handle /\ headers[h] \in CellSet /\ text[h] \in Seq(Nat)
  BY <1>1 DEF TypeOK, Tagged, Handle
<1>3. headers[h].start \in Nat /\ headers[h].count \in Nat
  BY <1>2 DEF CellSet
<1>4. CASE h \in Tagged("small")
  <2>1. StorageOf(h) = text[h] /\ headers[h].tag = "small"
    BY <1>1, <1>4 DEF BytesPlaced, Tagged
  <2> DEFINE a == headers[h].start
             n == headers[h].count
  <2>2. a \in Nat /\ a + n \in Nat /\ a + n <= Len(bytes) /\ bytes \in Seq(Nat)
    BY <1>1, <1>4, StringsKnown
  <2>3. StorageOf(h) = SubSeq(bytes, a + 1, a + n)
    BY <2>1 DEF StorageOf
  <2>4. n \in Nat
    BY <1>3
  <2> HIDE DEF a, n
  <2>5. Len(SubSeq(bytes, a + 1, a + n)) = n
    BY <2>2, <2>4, SubSeqOf
  <2> QED BY <1>2, <1>3, <2>1, <2>3, <2>5 DEF n
<1>5. CASE h \in Tagged("large")
  <2> DEFINE b == headers[h].buffer
             n == headers[h].count
             bs == buffers[b].bytes
  <2>1. b \in 1 .. Len(buffers) /\ n <= Len(bs) /\ SubSeq(bs, 1, n) = text[h]
    BY <1>1, <1>5 DEF BuffersInv, Counted
  <2>2. headers[h].tag = "large"
    BY <1>5 DEF Tagged
  <2>3. StorageOf(h) = SubSeq(bs, 1, n)
    BY <2>2 DEF StorageOf
  <2>4. bs \in Seq(Nat)
    <3> DEFINE S == BufferSet
    <3>1. buffers \in Seq(S)
      BY <1>1 DEF TypeOK
    <3> HIDE DEF S
    <3>2. buffers[b] \in S
      BY <2>1, <3>1
    <3> QED BY <3>2 DEF S, BufferSet
  <2>5. n \in Nat
    BY <1>3
  <2> HIDE DEF bs, n
  <2>6. n \in 0 .. Len(bs)
    BY <2>1, <2>4, <2>5
  <2>7. Len(SubSeq(bs, 1, n)) = n
    BY <2>4, <2>6, NatPrefix, Zenon
  <2> QED BY <1>2, <1>3, <2>1, <2>3, <2>7 DEF n
<1> QED BY <1>4, <1>5

LEMMA CellIs ==
    ASSUME NEW tag \in {"slots", "small", "large"}, NEW start \in Nat, NEW count \in Nat, NEW buffer \in Nat
    PROVE  LET c == Cell(tag, start, count, buffer)
           IN  /\ NewCell(c) /\ c.tag = tag /\ c.start = start /\ c.count = count /\ c.buffer = buffer
BY DEF Cell, CellSet, NewCell

LEMMA ArenaStringKeeps ==
    ASSUME Inv, NEW t \in Seq(Nat), NEW start \in Nat, ArenaString(start, t), LaidOut(Cell("small", start, Len(t), 0), t)
    PROVE  Inv'
<1> DEFINE cell == Cell("small", start, Len(t), 0)
           N == NextHandle
<1>1. TypeOK /\ HandlesInv
  BY DEF Inv
<1>2. AllocateHandle(cell, t) /\ slots' = slots /\ growLog' = growLog /\ buffers' = buffers /\ freeBuffers' = freeBuffers
  BY DEF ArenaString
<1>3. NewCell(cell) /\ cell.tag = "small" /\ LaidOut(cell, t)
  <2>1. Len(t) \in Nat /\ 0 \in Nat
    OBVIOUS
  <2> QED BY <2>1, CellIs
<1> HIDE DEF cell
<1>4. Tabled(N, cell, t)
  BY <1>1, <1>2, <1>3, TabledIs DEF NewCell
<1>5. YoungOnto(N)
  BY <1>1, <1>2, YoungOntoIs
<1>6. HandlesInv'
  BY <1>1, <1>2, <1>3, HandlesAllocated
<1> HIDE DEF N
<1>7. SlotsPlaced' /\ SlotsAged' /\ LogOK'
  BY <1>2, <1>3, <1>4, <1>5, SlotsKept
<1>8. BuffersInv'
  BY <1>2, <1>3, <1>4, BuffersKept
<1>9. BytesPlaced' /\ BytesAged'
  BY <1>3, <1>4, <1>5, BytesLaidOut
<1>10. TypeOK'
  <2>1. slots' \in Seq(Nat) /\ bytes' \in Seq(Nat) /\ buffers' \in Seq(BufferSet) /\ freeBuffers' \in Seq(Nat)
    BY <1>1, <1>2, <1>3 DEF LaidOut, TypeOK
  <2> QED BY <1>1, <1>2, <1>4, <2>1, AllocatedTypes
<1> QED BY <1>6, <1>7, <1>8, <1>9, <1>10 DEF Inv

LEMMA PutOverKeeps ==
    ASSUME Inv, NEW t \in Seq(Nat), NEW index \in Nat, AllocateHandle(Cell("large", 0, Len(t), index), t),
           PutOver(Cell("large", 0, Len(t), index), t, index),
           slots' = slots, growLog' = growLog, bytes' = bytes
    PROVE  Inv'
<1> DEFINE cell == Cell("large", 0, Len(t), index)
           N == NextHandle
<1>1. TypeOK /\ HandlesInv
  BY DEF Inv
<1>2. AllocateHandle(cell, t) /\ PutOver(cell, t, index)
  OBVIOUS
<1>3. NewCell(cell) /\ cell.tag = "large"
  <2>1. Len(t) \in Nat /\ 0 \in Nat
    OBVIOUS
  <2> QED BY <2>1, CellIs
<1> HIDE DEF cell
<1>4. Tabled(N, cell, t)
  BY <1>1, <1>2, <1>3, TabledIs DEF NewCell
<1>5. YoungOnto(N)
  BY <1>1, <1>2, YoungOntoIs
<1>6. HandlesInv'
  BY <1>1, <1>2, <1>3, HandlesAllocated
<1> HIDE DEF N
<1>7. SlotsPlaced' /\ SlotsAged' /\ LogOK'
  BY <1>3, <1>4, <1>5, SlotsKept
<1>8. BytesPlaced' /\ BytesAged'
  BY <1>3, <1>4, <1>5, BytesKept
<1>9. BuffersInv'
  BY <1>2, <1>3, <1>4, BuffersPut
<1>10. TypeOK'
  <2>1. /\ slots' \in Seq(Nat) /\ bytes' \in Seq(Nat)
        /\ buffers' \in Seq(BufferSet) /\ freeBuffers' \in Seq(Nat)
    BY <1>1, <1>2 DEF PutOver, Lists, TypeOK
  <2> QED BY <1>1, <1>4, <2>1, AllocatedTypes
<1> QED BY <1>6, <1>7, <1>8, <1>9, <1>10 DEF Inv

\* A buffer of its own, one to use again or a new one.
LEMMA BufferStringKeeps ==
    ASSUME Inv, NEW t \in Seq(Nat), NEW appendable \in BOOLEAN, BufferString(t, appendable, t)
    PROVE  Inv'
<1> DEFINE b == [bytes |-> t, refs |-> 1, appendable |-> appendable]
           index == IF freeBuffers # <<>> THEN Last(freeBuffers) ELSE Len(buffers) + 1
           L == Tagged("large")
           D == {i \in 1 .. Len(buffers) : Over(L, i) = {}}
           rest == IF freeBuffers # <<>> THEN Front(freeBuffers) ELSE freeBuffers
<1>1. TypeOK /\ BuffersInv
  BY DEF Inv
<1>2. /\ AllocateHandle(Cell("large", 0, Len(t), index), t) /\ buffers' = SetAt(buffers, index, b)
      /\ freeBuffers' = rest /\ slots' = slots /\ growLog' = growLog /\ bytes' = bytes
  BY DEF BufferString
<1>3. Lists(freeBuffers, D) /\ \A h \in L : headers[h].buffer \in 1 .. Len(buffers)
  BY <1>1 DEF BuffersInv, Counted
<1>4. buffers \in Seq(BufferSet) /\ Len(buffers) \in Nat
  BY <1>1 DEF TypeOK
<1>5. b \in BufferSet /\ b.bytes = t /\ b.refs = 1
  <2>1. 1 \in Nat
    OBVIOUS
  <2> QED BY <2>1 DEF BufferSet
<1> HIDE DEF D, b
<1>6. index \in 1 .. Len(buffers) + 1 /\ index \in Nat /\ Over(L, index) = {} /\ Lists(rest, D \ {index})
  <2>1. CASE freeBuffers # <<>>
    <3>1. Last(freeBuffers) \in D /\ Last(freeBuffers) \in Nat /\ Lists(Front(freeBuffers), D \ {Last(freeBuffers)})
      BY <1>3, <2>1, ListsFront
    <3>2. index = Last(freeBuffers) /\ rest = Front(freeBuffers)
      BY <2>1
    <3>3. index \in 1 .. Len(buffers) /\ Over(L, index) = {}
      BY <3>1, <3>2 DEF D
    <3>4. index \in 1 .. Len(buffers) + 1
      <4> HIDE DEF index
      <4> QED BY <1>4, <3>3
    <3> QED BY <3>1, <3>2, <3>3, <3>4
  <2>2. CASE freeBuffers = <<>>
    <3>1. index = Len(buffers) + 1 /\ rest = freeBuffers
      BY <2>2
    <3> HIDE DEF index, rest
    <3>2. index \in 1 .. Len(buffers) + 1 /\ index \in Nat /\ index \notin 1 .. Len(buffers)
      BY <1>4, <3>1
    <3>3. Over(L, index) = {}
      BY <1>3, <3>2 DEF Over
    <3>4. D \ {index} = D
      BY <3>2 DEF D
    <3> QED BY <1>3, <3>1, <3>2, <3>3, <3>4
  <2> QED BY <2>1, <2>2
<1> HIDE DEF index, rest, L
<1>7. /\ buffers' \in Seq(BufferSet)
      /\ Len(buffers') = IF index <= Len(buffers) THEN Len(buffers) ELSE Len(buffers) + 1
      /\ buffers'[index] = b
      /\ \A i \in 1 .. Len(buffers) : i # index => buffers'[i] = buffers[i]
  <2> DEFINE S == BufferSet
  <2>1. buffers \in Seq(S) /\ b \in S
    BY <1>4, <1>5
  <2> HIDE DEF S
  <2>2. /\ SetAt(buffers, index, b) \in Seq(S)
        /\ Len(SetAt(buffers, index, b)) = IF index <= Len(buffers) THEN Len(buffers) ELSE Len(buffers) + 1
        /\ SetAt(buffers, index, b)[index] = b
        /\ \A i \in 1 .. Len(buffers) : i # index => SetAt(buffers, index, b)[i] = buffers[i]
    BY <1>6, <2>1, SetAtOf
  <2> QED BY <1>2, <2>2 DEF S
<1>8. Len(buffers) <= Len(buffers') /\ 1 .. Len(buffers') = (1 .. Len(buffers)) \union {index}
  BY <1>4, <1>6, <1>7
<1>9. Cardinality(Over(L, index)) + 1 = 1
  <2>1. Cardinality(Over(L, index)) = 0
    BY <1>6, FS_EmptySet
  <2> QED BY <2>1
<1> DEFINE cell == Cell("large", 0, Len(t), index)
<1>10. cell.tag = "large" /\ cell.count = Len(t) /\ cell.buffer = index
  BY DEF Cell
<1>11. Len(t) <= Len(buffers'[index].bytes) /\ SubSeq(buffers'[index].bytes, 1, Len(t)) = t
  <2>1. buffers'[index].bytes = t /\ Len(t) \in Nat
    BY <1>5, <1>7
  <2> QED BY <2>1, WholePrefix
<1>12. PutOver(cell, t, index)
  <2>1. Lists(freeBuffers', {i \in 1 .. Len(buffers) : Over(L, i) = {}} \ {index})
    BY <1>2, <1>6 DEF D
  <2>2. buffers'[index].refs = Cardinality(Over(L, index)) + 1
    BY <1>5, <1>7, <1>9
  <2> HIDE DEF cell
  <2> QED BY <1>6, <1>7, <1>8, <1>10, <1>11, <2>1, <2>2 DEF PutOver, L
<1> QED BY <1>2, <1>6, <1>12, PutOverKeeps
LEMMA AllocateStringKeeps ==
    ASSUME Inv, AllocateString
    PROVE  Inv'
<1>1. TypeOK /\ HandlesInv
  BY DEF Inv
<1>2. NextHandle \in Nat
  <2>1. NextHandle \in 1 .. extent + 1
    BY <1>1, NextHandleIs
  <2> QED BY <1>1, <2>1 DEF TypeOK
<1>3. PICK t \in {<<>>, <<NextHandle>>, [k \in 1 .. SmallStringBytes + 1 |-> NextHandle]} :
          IF Len(t) <= SmallStringBytes
          THEN /\ Len(bytes) + Len(t) <= MaxBytes
               /\ bytes' = bytes \o t
               /\ ArenaString(Len(bytes), t)
          ELSE BufferString(t, FALSE, t)
  BY DEF AllocateString
<1>4. t \in Seq(Nat)
  <2>1. <<>> \in Seq(Nat) /\ <<NextHandle>> \in Seq(Nat)
    BY <1>2
  <2>2. [k \in 1 .. SmallStringBytes + 1 |-> NextHandle] \in Seq(Nat)
    <3>1. [k \in 1 .. SmallStringBytes + 1 |-> NextHandle] \in [1 .. SmallStringBytes + 1 -> Nat]
      BY <1>2
    <3>2. SmallStringBytes + 1 \in Nat
      BY BoundsAssumption
    <3> QED BY <3>1, <3>2
  <2> QED BY <2>1, <2>2
<1>5. CASE Len(t) <= SmallStringBytes
  <2> DEFINE cell == Cell("small", Len(bytes), Len(t), 0)
  <2>1. bytes' = bytes \o t /\ ArenaString(Len(bytes), t)
    BY <1>3, <1>5
  <2>2. bytes \in Seq(Nat) /\ Len(bytes) \in Nat /\ Len(t) \in Nat /\ 0 \in Nat
    BY <1>1, <1>4 DEF TypeOK
  <2>3. /\ bytes \o t \in Seq(Nat) /\ Len(bytes \o t) = Len(bytes) + Len(t)
        /\ \A i \in 1 .. Len(bytes) : (bytes \o t)[i] = bytes[i]
        /\ \A i \in 1 .. Len(t) : (bytes \o t)[Len(bytes) + i] = t[i]
    BY <1>4, <2>2, NatConcat, Zenon
  <2>4. cell.tag = "small" /\ cell.start = Len(bytes) /\ cell.count = Len(t)
    BY DEF Cell
  <2> HIDE DEF cell
  <2>5. Len(bytes) <= Len(bytes') /\ cell.start + Len(t) <= Len(bytes')
    BY <2>1, <2>2, <2>3, <2>4
  <2>6. LaidOut(cell, t)
    BY <1>4, <2>1, <2>2, <2>3, <2>4, <2>5 DEF LaidOut
  <2> QED BY <1>4, <2>1, <2>2, <2>6, ArenaStringKeeps DEF cell
<1>6. CASE ~ (Len(t) <= SmallStringBytes)
  <2>1. BufferString(t, FALSE, t)
    BY <1>3, <1>6
  <2> QED BY <1>4, <2>1, BufferStringKeeps
<1> QED BY <1>5, <1>6

\* Strings joined, of each kind of result.
JoinedInArena(l, r, t) ==
    LET start == IF EndsArena(l) THEN headers[l].start ELSE Len(bytes)
        added == IF EndsArena(l) THEN StorageOf(r) ELSE t
    IN  /\ bytes' = bytes \o added
        /\ ArenaString(start, t)

JoinedInBuffer(l, r, t) ==
    LET b == headers[l].buffer
    IN  /\ ExtendsBuffer(l, r)
        /\ AllocateHandle(Cell("large", 0, Len(t), b), t)
        /\ buffers' = [buffers EXCEPT ![b].bytes = @ \o StorageOf(r), ![b].refs = @ + 1]
        /\ UNCHANGED <<slots, growLog, bytes, freeBuffers>>

LEMMA ArenaJoinKeeps ==
    ASSUME Inv, NEW l \in Tagged("small") \union Tagged("large"), NEW r \in Tagged("small") \union Tagged("large"),
           JoinedInArena(l, r, text[l] \o text[r])
    PROVE  Inv'
<1> DEFINE a == text[l]
           c == text[r]
           t == a \o c
<1>1. TypeOK /\ BytesPlaced /\ BytesAged
  BY DEF Inv
<1>2. /\ StorageOf(l) = a /\ a \in Seq(Nat) /\ Len(a) = headers[l].count /\ headers[l].start \in Nat
      /\ StorageOf(r) = c /\ c \in Seq(Nat) /\ l \in Handle
  BY StringIs
<1>3. bytes \in Seq(Nat) /\ Len(bytes) \in Nat /\ 0 \in Nat
  BY <1>1 DEF TypeOK
<1> HIDE DEF a, c
<1>4. /\ t \in Seq(Nat) /\ Len(t) = Len(a) + Len(c) /\ Len(t) \in Nat /\ Len(a) \in Nat /\ Len(c) \in Nat
      /\ \A i \in 1 .. Len(a) : t[i] = a[i]
      /\ \A i \in 1 .. Len(c) : t[Len(a) + i] = c[i]
  <2>1. /\ t \in Seq(Nat) /\ Len(t) = Len(a) + Len(c)
        /\ \A i \in 1 .. Len(a) : t[i] = a[i]
        /\ \A i \in 1 .. Len(c) : t[Len(a) + i] = c[i]
    BY <1>2, NatConcat, Zenon
  <2>2. Len(a) \in Nat /\ Len(c) \in Nat
    BY <1>2
  <2> HIDE DEF t
  <2>3. t \in Seq(Nat) => Len(t) \in Nat
    OBVIOUS
  <2> QED BY <2>1, <2>2, <2>3, Zenon
<1>5. JoinedInArena(l, r, t)
  BY DEF a, c
<1> HIDE DEF t
<1>6. CASE EndsArena(l)
  <2> DEFINE s == headers[l].start
             cell == Cell("small", s, Len(t), 0)
  <2>1. bytes' = bytes \o c /\ ArenaString(s, t)
    BY <1>2, <1>5, <1>6 DEF JoinedInArena
  <2>2. headers[l].tag = "small" /\ s + Len(a) = Len(bytes) /\ End(l) = Len(bytes)
    BY <1>2, <1>6 DEF EndsArena, End
  <2>3. l \in Tagged("small")
    BY <1>2, <2>2 DEF Tagged
  <2>4. /\ bytes \o c \in Seq(Nat) /\ Len(bytes \o c) = Len(bytes) + Len(c)
        /\ \A i \in 1 .. Len(bytes) : (bytes \o c)[i] = bytes[i]
        /\ \A i \in 1 .. Len(c) : (bytes \o c)[Len(bytes) + i] = c[i]
    BY <1>2, <1>3, NatConcat, Zenon
  <2>5. cell.tag = "small" /\ cell.start = s /\ cell.count = Len(t)
    BY DEF Cell
  <2>6. a = SubSeq(bytes, s + 1, s + Len(a))
    BY <1>2, <2>2 DEF StorageOf
  <2> HIDE DEF cell, s
  <2>7. s \in Nat
    BY <1>2 DEF s
  <2>8. \A i \in 1 .. Len(a) : a[i] = bytes[s + i]
    <3>1. \A i \in 1 .. Len(a) : SubSeq(bytes, s + 1, s + Len(a))[i] = bytes[s + i]
      <4>1. s + Len(a) \in Nat /\ s + Len(a) <= Len(bytes) /\ s + Len(a) - s = Len(a)
        BY <1>3, <1>4, <2>2, <2>7
      <4> QED BY <1>3, <2>7, <4>1, SubSeqOf
    <3> QED BY <2>6, <3>1
  <2>9. ASSUME NEW k \in 1 .. Len(t) PROVE bytes'[s + k] = t[k]
    <3>1. CASE k <= Len(a)
      <4>1. k \in 1 .. Len(a) /\ s + k \in 1 .. Len(bytes)
        BY <1>3, <1>4, <2>2, <2>7, <3>1
      <4> QED BY <1>4, <2>1, <2>4, <2>8, <4>1
    <3>2. CASE ~ (k <= Len(a))
      <4> DEFINE i == k - Len(a)
      <4>1. i \in 1 .. Len(c) /\ Len(a) + i = k /\ Len(bytes) + i = s + k
        <5>1. /\ Len(a) \in Nat /\ Len(c) \in Nat /\ Len(t) = Len(a) + Len(c) /\ Len(bytes) \in Nat /\ s \in Nat
              /\ s + Len(a) = Len(bytes)
          BY <1>3, <1>4, <2>2, <2>7
        <5> QED BY <3>2, <5>1
      <4> HIDE DEF i
      <4>2. (bytes \o c)[Len(bytes) + i] = c[i] /\ t[Len(a) + i] = c[i]
        BY <1>4, <2>4, <4>1
      <4> QED BY <2>1, <4>1, <4>2
    <3> QED BY <3>1, <3>2
  <2>10. Len(bytes) <= Len(bytes') /\ s + Len(t) <= Len(bytes')
    BY <1>3, <1>4, <2>1, <2>2, <2>4, <2>7
  <2>11. \A p \in 1 .. Len(bytes) : bytes'[p] = bytes[p]
    BY <2>1, <2>4
  <2>12. \E g \in Tagged("small") : headers[g].start = s /\ End(g) = Len(bytes)
    BY <2>2, <2>3 DEF s
  <2>13. LaidOut(cell, t)
    BY <1>4, <2>1, <2>4, <2>5, <2>7, <2>9, <2>10, <2>11, <2>12 DEF LaidOut
  <2> QED BY <1>4, <2>1, <2>7, <2>13, ArenaStringKeeps DEF cell
<1>7. CASE ~ EndsArena(l)
  <2> DEFINE cell == Cell("small", Len(bytes), Len(t), 0)
  <2>1. bytes' = bytes \o t /\ ArenaString(Len(bytes), t)
    BY <1>5, <1>7 DEF JoinedInArena
  <2>2. /\ bytes \o t \in Seq(Nat) /\ Len(bytes \o t) = Len(bytes) + Len(t)
        /\ \A i \in 1 .. Len(bytes) : (bytes \o t)[i] = bytes[i]
        /\ \A i \in 1 .. Len(t) : (bytes \o t)[Len(bytes) + i] = t[i]
    BY <1>3, <1>4, NatConcat, Zenon
  <2>3. cell.tag = "small" /\ cell.start = Len(bytes) /\ cell.count = Len(t)
    BY DEF Cell
  <2> HIDE DEF cell
  <2>4. Len(bytes) <= Len(bytes') /\ cell.start + Len(t) <= Len(bytes')
    BY <1>3, <1>4, <2>1, <2>2, <2>3
  <2>5. LaidOut(cell, t)
    BY <1>3, <1>4, <2>1, <2>2, <2>3, <2>4 DEF LaidOut
  <2> QED BY <1>3, <1>4, <2>1, <2>5, ArenaStringKeeps DEF cell
<1> QED BY <1>6, <1>7
LEMMA BufferJoinKeeps ==
    ASSUME Inv, NEW l \in Tagged("small") \union Tagged("large"), NEW r \in Tagged("small") \union Tagged("large"),
           JoinedInBuffer(l, r, text[l] \o text[r])
    PROVE  Inv'
<1> DEFINE a == text[l]
           c == text[r]
           t == a \o c
           b == headers[l].buffer
           old == buffers[b].bytes
           L == Tagged("large")
           D == {i \in 1 .. Len(buffers) : Over(L, i) = {}}
<1>1. TypeOK /\ BuffersInv
  BY DEF Inv
<1>2. /\ StorageOf(l) = a /\ a \in Seq(Nat) /\ Len(a) = headers[l].count
      /\ StorageOf(r) = c /\ c \in Seq(Nat) /\ l \in Handle
  BY StringIs
<1>3. /\ headers[l].tag = "large" /\ Len(old) = headers[l].count
      /\ AllocateHandle(Cell("large", 0, Len(t), b), t)
      /\ buffers' = [buffers EXCEPT ![b].bytes = old \o c, ![b].refs = buffers[b].refs + 1]
      /\ slots' = slots /\ growLog' = growLog /\ bytes' = bytes /\ freeBuffers' = freeBuffers
  BY <1>2 DEF JoinedInBuffer, ExtendsBuffer
<1>4. l \in L
  BY <1>2, <1>3 DEF Tagged
<1>5. /\ b \in 1 .. Len(buffers) /\ SubSeq(old, 1, headers[l].count) = a
      /\ buffers[b].refs = Cardinality(Over(L, b)) /\ Lists(freeBuffers, D)
  <2>1. b \in 1 .. Len(buffers) /\ SubSeq(old, 1, headers[l].count) = a
    BY <1>1, <1>4 DEF BuffersInv, Counted
  <2>2. (\A i \in 1 .. Len(buffers) : buffers[i].refs = Cardinality(Over(L, i))) /\ Lists(freeBuffers, D)
    BY <1>1 DEF BuffersInv, Counted
  <2> HIDE DEF L, D, b, old, a
  <2> QED BY <2>1, <2>2
<1>6. buffers \in Seq(BufferSet) /\ Len(buffers) \in Nat
  BY <1>1 DEF TypeOK
<1>7. buffers[b] \in BufferSet
  <2> DEFINE S == BufferSet
  <2>1. buffers \in Seq(S)
    BY <1>6
  <2> HIDE DEF S, b
  <2>2. buffers[b] \in S
    BY <1>5, <2>1
  <2> QED BY <2>2 DEF S
<1>8. old \in Seq(Nat) /\ buffers[b].refs \in Nat /\ buffers[b].appendable \in BOOLEAN
  BY <1>7 DEF BufferSet
<1>9. Over(L, b) # {} /\ D \ {b} = D /\ b \in Nat
  <2>1. l \in Over(L, b)
    BY <1>4 DEF Over
  <2>2. b \in Nat
    BY <1>5, <1>6
  <2> QED BY <2>1, <2>2
<1> HIDE DEF a, c, b, L, D
<1>10. old = a
  <2>1. SubSeq(old, 1, Len(old)) = old
    BY <1>8, WholePrefix
  <2> QED BY <1>3, <1>5, <2>1
<1>11. t \in Seq(Nat)
  BY <1>2, NatConcat, Zenon
<1>12. /\ Len(old) \in Nat /\ Len(t) = Len(old) + Len(c) /\ Len(c) \in Nat
       /\ \A p \in 1 .. Len(old) : t[p] = old[p]
  <2>1. /\ Len(t) = Len(a) + Len(c)
        /\ \A i \in 1 .. Len(a) : t[i] = a[i]
    BY <1>2, NatConcat, Zenon
  <2>2. Len(old) \in Nat /\ Len(c) \in Nat
    BY <1>2, <1>8
  <2> HIDE DEF old, t
  <2> QED BY <1>10, <2>1, <2>2
<1> HIDE DEF t
<1> DEFINE e == [buffers[b] EXCEPT !.bytes = t, !.refs = buffers[b].refs + 1]
<1>13. e \in BufferSet /\ e.bytes = t /\ e.refs = buffers[b].refs + 1
  <2> DEFINE n == buffers[b].refs + 1
  <2>1. n \in Nat
    BY <1>8
  <2> HIDE DEF n
  <2>2. /\ [buffers[b] EXCEPT !.bytes = t, !.refs = n] \in BufferSet
        /\ [buffers[b] EXCEPT !.bytes = t, !.refs = n].bytes = t
        /\ [buffers[b] EXCEPT !.bytes = t, !.refs = n].refs = n
    BY <1>7, <1>11, <2>1 DEF BufferSet
  <2> QED BY <2>2 DEF n
<1>14. buffers' = [buffers EXCEPT ![b] = e]
  BY <1>3, <1>10 DEF t
<1> HIDE DEF e
<1>15. /\ buffers' \in Seq(BufferSet) /\ Len(buffers') = Len(buffers) /\ buffers'[b] = e
       /\ \A i \in 1 .. Len(buffers) : i # b => buffers'[i] = buffers[i]
  <2> DEFINE S == BufferSet
  <2>1. buffers \in Seq(S) /\ e \in S
    BY <1>6, <1>13
  <2> HIDE DEF S
  <2>2. /\ buffers' \in Seq(S) /\ Len(buffers') = Len(buffers) /\ buffers'[b] = e
        /\ \A i \in 1 .. Len(buffers) : i # b => buffers'[i] = buffers[i]
    BY <1>5, <1>14, <2>1
  <2> QED BY <2>2 DEF S
<1> DEFINE cell == Cell("large", 0, Len(t), b)
<1>16. cell.tag = "large" /\ cell.count = Len(t) /\ cell.buffer = b
  BY DEF Cell
<1>17. PutOver(cell, t, b)
  <2>1. buffers'[b].bytes = t /\ buffers'[b].refs = Cardinality(Over(L, b)) + 1
    BY <1>5, <1>13, <1>15
  <2>2. Len(t) <= Len(buffers'[b].bytes) /\ SubSeq(buffers'[b].bytes, 1, Len(t)) = t
    <3>1. Len(t) \in Nat
      BY <1>11
    <3> QED BY <1>11, <2>1, <3>1, WholePrefix
  <2>3. Len(old) <= Len(buffers'[b].bytes) /\ \A p \in 1 .. Len(old) : buffers'[b].bytes[p] = old[p]
    <3> HIDE DEF old
    <3> QED BY <1>12, <2>1
  <2>4. Lists(freeBuffers', D \ {b})
    BY <1>3, <1>5, <1>9
  <2>5. 1 .. Len(buffers') = (1 .. Len(buffers)) \union {b} /\ Len(buffers) <= Len(buffers')
    BY <1>5, <1>6, <1>15
  <2> HIDE DEF cell
  <2> QED BY <1>11, <1>15, <1>16, <2>1, <2>2, <2>3, <2>4, <2>5 DEF PutOver, L, D
<1>18. AllocateHandle(cell, t)
  BY <1>3 DEF t
<1> QED BY <1>3, <1>9, <1>11, <1>17, <1>18, PutOverKeeps

LEMMA ConcatenateKeeps ==
    ASSUME Inv, Concatenate
    PROVE  Inv'
<1> DEFINE Strings == Tagged("small") \union Tagged("large")
<1>1. PICK l \in Strings : \E r \in Strings :
          LET joined == StorageOf(l) \o StorageOf(r)
              t == text[l] \o text[r]
              b == headers[l].buffer
          IN  /\ Len(joined) <= MaxText
              /\ IF Len(joined) <= SmallStringBytes
                 THEN LET start == IF EndsArena(l) THEN headers[l].start ELSE Len(bytes)
                          added == IF EndsArena(l) THEN StorageOf(r) ELSE joined
                      IN  /\ Len(bytes) + Len(added) <= MaxBytes
                          /\ bytes' = bytes \o added
                          /\ ArenaString(start, t)
                 ELSE IF ExtendsBuffer(l, r)
                 THEN /\ AllocateHandle(Cell("large", 0, Len(joined), b), t)
                      /\ buffers' = [buffers EXCEPT ![b].bytes = @ \o StorageOf(r),
                                                    ![b].refs = @ + 1]
                      /\ UNCHANGED <<slots, growLog, bytes, freeBuffers>>
                 ELSE BufferString(joined, TRUE, t)
  BY DEF Concatenate
<1>2. PICK r \in Strings :
          LET joined == StorageOf(l) \o StorageOf(r)
              t == text[l] \o text[r]
          IN  \/ JoinedInArena(l, r, t) /\ joined = t
              \/ JoinedInBuffer(l, r, t) /\ joined = t
              \/ BufferString(joined, TRUE, t) /\ joined = t
  <2>1. \A r \in Strings : StorageOf(l) \o StorageOf(r) = text[l] \o text[r]
    BY StringIs
  <2> QED BY <1>1, <2>1 DEF JoinedInArena, JoinedInBuffer
<1>3. text[l] \o text[r] \in Seq(Nat)
  <2>1. text[l] \in Seq(Nat) /\ text[r] \in Seq(Nat)
    BY StringIs
  <2> QED BY <2>1, NatConcat, Zenon
<1> QED BY <1>2, <1>3, ArenaJoinKeeps, BufferJoinKeeps, BufferStringKeeps

-----------------------------------------------------------------------------
(* The invariant, and what it says of the cells and of the tables.         *)

LEMMA InvInit == Init => Inv
<1> SUFFICES ASSUME Init PROVE Inv
  OBVIOUS
<1>1. /\ headers = <<>> /\ extent = 0 /\ freeHandles = <<>> /\ freeCount = 0
      /\ slots = <<>> /\ growLog = <<>> /\ bytes = <<>> /\ buffers = <<>> /\ freeBuffers = <<>> /\ text = <<>>
      /\ cycle.freeCount = 0 /\ cycle.extent = 0 /\ cycle.tail = 0 /\ cycle.byteTail = 0 /\ cycle \in Cycles
  BY DEF Init, Cycles
<1>2. Handle = {} /\ Live = {} /\ \A tag : Tagged(tag) = {}
  BY <1>1 DEF Handle, Live, Tagged
<1>3. FromList = 0 /\ YoungCount = 0
  BY <1>1 DEF FromList, YoungCount
<1>4. \A S : <<>> \in Seq(S) /\ Len(<<>>) = 0
  OBVIOUS
<1>5. TypeOK
  BY <1>1, <1>4 DEF TypeOK
<1>6. HandlesInv
  <2>1. Listed = <<>>
    BY <1>1 DEF Listed
  <2>2. Lists(Listed, Handle \ Live)
    BY <1>2, <2>1, ListsNothing
  <2> QED BY <1>1, <1>2, <2>2 DEF HandlesInv
<1>7. SlotsPlaced /\ SlotsAged /\ LogOK
  BY <1>1, <1>2, <1>3, <1>4 DEF SlotsPlaced, SlotsAged, LogOK
<1>8. BytesPlaced /\ BytesAged
  BY <1>1, <1>2, <1>3, <1>4 DEF BytesPlaced, BytesAged
<1>9. BuffersInv
  <2>1. {b \in 1 .. Len(buffers) : Over(Tagged("large"), b) = {}} = {} /\ 1 .. Len(buffers) = {}
    BY <1>1
  <2>2. Lists(freeBuffers, {b \in 1 .. Len(buffers) : Over(Tagged("large"), b) = {}})
    BY <1>1, <2>1, ListsNothing
  <2> QED BY <1>1, <1>2, <1>4, <2>1, <2>2 DEF BuffersInv, Counted
<1> QED BY <1>5, <1>6, <1>7, <1>8, <1>9 DEF Inv

LEMMA InvStays == Inv /\ UNCHANGED vars => Inv'
<1> SUFFICES ASSUME Inv, UNCHANGED vars PROVE Inv'
  OBVIOUS
<1>1. /\ headers' = headers /\ extent' = extent /\ freeHandles' = freeHandles /\ freeCount' = freeCount
      /\ slots' = slots /\ growLog' = growLog /\ bytes' = bytes /\ buffers' = buffers
      /\ freeBuffers' = freeBuffers /\ cycle' = cycle /\ text' = text
  BY DEF vars
<1>2. TypeOK' = TypeOK
  BY <1>1 DEF TypeOK
<1>3. HandlesInv' = HandlesInv
  BY <1>1 DEF HandlesInv, Listed, Handle, Live
<1>4. SlotsPlaced' = SlotsPlaced
  BY <1>1 DEF SlotsPlaced, Tagged, Handle, End, Apart, Written
<1>5. SlotsAged' = SlotsAged
  BY <1>1 DEF SlotsAged, Tagged, Handle, End, Unmoved, Current, YoungCount, YoungHandle, FromList
<1>6. LogOK' = LogOK
  BY <1>1 DEF LogOK, Tagged, Handle, Unmoved
<1>7. BytesPlaced' = BytesPlaced
  BY <1>1 DEF BytesPlaced, Tagged, Handle, End, Apart, NonEmpty, StorageOf
<1>8. BytesAged' = BytesAged
  BY <1>1 DEF BytesAged, Tagged, Handle, End, NonEmpty, YoungCount, YoungHandle, FromList
<1>9. BuffersInv' = BuffersInv
  BY <1>1 DEF BuffersInv, Counted, Over, Tagged, Handle
<1> QED BY <1>2, <1>3, <1>4, <1>5, <1>6, <1>7, <1>8, <1>9 DEF Inv

LEMMA InvStep == Inv /\ [Next]_vars => Inv'
<1>1. Inv /\ Next => Inv'
  BY AllocateKeeps, GrowKeeps, AllocateStringKeeps, ConcatenateKeeps, MinorKeeps, FullKeeps DEF Next
<1> QED BY <1>1, InvStays

\* What the collections rely on of the arenas' order, the free list's array
\* and the log of grown ranges holds after every operation (allocate,
\* growSlotsWith, concatStorage, finishMinor and sweep of engine/heap.zs).
THEOREM Invariant == Spec => []Inv
BY InvInit, InvStep, PTL DEF Spec

LEMMA InvContents == Inv => ContentsKept
<1> SUFFICES ASSUME Inv, NEW h \in Live
             PROVE  LET c == headers[h]
                    IN  CASE c.tag = "slots" -> /\ c.start + c.count <= Len(slots)
                                                /\ \A k \in 1 .. c.count : slots[c.start + k] = Written(h, k)
                          [] c.tag = "small" -> /\ c.start + c.count <= Len(bytes)
                                                /\ StorageOf(h) = text[h]
                          [] c.tag = "large" -> StorageOf(h) = text[h]
  BY DEF ContentsKept
<1>1. TypeOK /\ SlotsPlaced /\ BytesPlaced
  BY DEF Inv
<1>2. h \in Handle /\ headers[h].tag # "free" /\ headers[h] \in CellSet
  BY <1>1 DEF Live, TypeOK, Handle
<1>3. headers[h].tag \in {"slots", "small", "large"}
  BY <1>2 DEF CellSet
<1>4. CASE headers[h].tag = "slots"
  <2>1. h \in Tagged("slots")
    BY <1>2, <1>4 DEF Tagged
  <2> QED BY <1>1, <1>4, <2>1 DEF SlotsPlaced, End
<1>5. CASE headers[h].tag = "small"
  <2>1. h \in Tagged("small")
    BY <1>2, <1>5 DEF Tagged
  <2> QED BY <1>1, <1>5, <2>1 DEF BytesPlaced, End
<1>6. CASE headers[h].tag = "large"
  <2>1. h \in Tagged("large")
    BY <1>2, <1>6 DEF Tagged
  <2>2. StorageOf(h) = text[h]
    BY <2>1, StringIs
  <2> QED BY <1>6, <2>2
<1> QED BY <1>3, <1>4, <1>5, <1>6

LEMMA InvHandles == Inv => HandlesExact
<1> SUFFICES ASSUME Inv PROVE HandlesExact
  OBVIOUS
<1>1. /\ Lists(Listed, Handle \ Live) /\ extent \in Nat /\ freeCount \in 0 .. Len(freeHandles) /\ freeHandles \in Seq(Nat)
      /\ freeCount \in Nat
  BY DEF Inv, HandlesInv, TypeOK, Cycles
<1>2. Len(Listed) = freeCount /\ \A i \in 1 .. freeCount : Listed[i] = freeHandles[i]
  <2>1. /\ Len(SubSeq(freeHandles, 1, freeCount)) = freeCount
        /\ \A i \in 1 .. freeCount : SubSeq(freeHandles, 1, freeCount)[i] = freeHandles[i]
    BY <1>1, NatPrefix, Zenon
  <2> QED BY <2>1 DEF Listed
<1>3. Cardinality(Handle \ Live) = freeCount
  BY <1>1, <1>2, ListsCount
<1>4. Cardinality(Live) + freeCount = extent
  <2>1. IsFiniteSet(Handle) /\ Cardinality(Handle) = extent
    BY <1>1, FS_Interval DEF Handle
  <2>2. Handle \intersect Live = Live /\ Live \subseteq Handle
    BY DEF Live
  <2>3. Cardinality(Handle \ Live) = Cardinality(Handle) - Cardinality(Handle \intersect Live)
    BY <2>1, FS_Difference
  <2>4. Cardinality(Live) \in Nat
    BY <2>1, <2>2, FS_Subset, FS_CardinalityType
  <2>5. freeCount = extent - Cardinality(Live)
    BY <1>3, <2>1, <2>2, <2>3, Zenon
  <2>6. extent \in Nat /\ freeCount \in Nat
    BY <1>1
  <2> QED BY <2>4, <2>5, <2>6
<1>5. \A i \in 1 .. freeCount : freeHandles[i] \in Handle \ Live
  BY <1>1, <1>2 DEF Lists
<1>6. \A i, j \in 1 .. freeCount : freeHandles[i] = freeHandles[j] => i = j
  BY <1>1, <1>2 DEF Lists
<1> QED BY <1>4, <1>5, <1>6 DEF HandlesExact

LEMMA InvBuffers == Inv => BuffersExact
<1> SUFFICES ASSUME Inv PROVE BuffersExact
  OBVIOUS
<1> DEFINE L == Tagged("large")
           D == {b \in 1 .. Len(buffers) : Over(L, b) = {}}
<1>1. /\ buffers \in Seq(BufferSet)
      /\ \A b \in 1 .. Len(buffers) : buffers[b].refs = Cardinality(Over(L, b))
      /\ Lists(freeBuffers, D)
  BY DEF Inv, BuffersInv, Counted
<1>2. DOMAIN buffers = 1 .. Len(buffers)
  BY <1>1
<1>3. DOMAIN freeBuffers = 1 .. Len(freeBuffers)
  BY <1>1 DEF Lists
<1>4. ASSUME NEW b \in DOMAIN buffers
      PROVE  /\ buffers[b].refs = Cardinality(Over(L, b))
             /\ (Over(L, b) = {}) <=> (\E i \in DOMAIN freeBuffers : freeBuffers[i] = b)
  <2>1. buffers[b].refs = Cardinality(Over(L, b))
    BY <1>1, <1>2
  <2>2. Over(L, b) = {} <=> b \in D
    BY <1>2
  <2> HIDE DEF D
  <2>3. b \in D <=> \E i \in 1 .. Len(freeBuffers) : freeBuffers[i] = b
    BY <1>1 DEF Lists
  <2> QED BY <1>3, <2>1, <2>2, <2>3
<1>5. \A b : {h \in Tagged("large") : headers[h].buffer = b} = Over(L, b)
  BY DEF Over
<1> HIDE DEF D
<1> QED BY <1>4, <1>5 DEF BuffersExact

LEMMA InvYoung == Inv => YoungExact
<1> SUFFICES ASSUME Inv PROVE YoungExact
  OBVIOUS
<1>1. YoungAre
  BY YoungKnown DEF Inv
<1>2. \A h \in {YoungHandle(n) : n \in 1 .. YoungCount} : h \in Live /\ ~headers[h].marked
  BY <1>1 DEF YoungAre
<1>3. \A h \in Live : ~headers[h].marked => h \in {YoungHandle(n) : n \in 1 .. YoungCount}
  BY <1>1 DEF YoungAre
<1>4. {YoungHandle(n) : n \in 1 .. YoungCount} = {h \in Live : ~headers[h].marked}
  BY <1>2, <1>3
<1>5. \A m, n \in 1 .. YoungCount : YoungHandle(m) = YoungHandle(n) => m = n
  BY <1>1 DEF YoungAre
<1> QED BY <1>4, <1>5 DEF YoungExact

\* Whatever is allocated, grown, joined and collected, and whatever either
\* collection moves, a cell's slots hold what was written in them and a
\* string's bytes are its text (slideRange, slideRun and slideGrown of
\* engine/heap.zs).
THEOREM ContentsStayKept == Spec => []ContentsKept
BY Invariant, InvContents, PTL

\* The free list names the handles out of use, each once, a buffer counts
\* the strings over it and is listed when there are none, and the young
\* cells are found from the two tops a collection leaves (trimHandleTable,
\* releaseStringBuffer and youngHandle of engine/heap.zs).
THEOREM TablesStayExact == Spec => []TablesExact
<1>1. Inv => TablesExact
  BY InvHandles, InvBuffers, InvYoung DEF TablesExact
<1> QED BY <1>1, Invariant, PTL
=============================================================================
