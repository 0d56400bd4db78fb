---------------------------- MODULE RegExp_proofs ----------------------------
(***************************************************************************)
(* Proofs about regular expressions: about the matcher, for any programs   *)
(* that are well formed and any texts, and about the executions of objects *)
(* around it, for any patterns, texts and size of the cache.               *)
(***************************************************************************)
EXTENDS RegExpMatcher, RegExpExec, SequenceTheorems, WellFoundedInduction, TLAPS
-----------------------------------------------------------------------------
(* PART ONE: the matcher.  Whatever loops, resets, choices and lookaheads  *)
(* come in between, going back to a frame restores the captures and the    *)
(* registers it was pushed with.                                           *)
-----------------------------------------------------------------------------
(* The invariant.                                                          *)

Code == call.program.code

IsSeq(s) == s \in Seq({s[k] : k \in DOMAIN s})
IsMap(f) == f = [i \in DOMAIN f |-> f[i]]

Undoes(e, i) == e.kind = "undo" /\ e.idx = i

\* The top frame is b of the stack s, undo entries are above it, and the
\* same holds below each frame.
Framed(s, b, top) ==
    /\ b \in 0 .. top
    /\ b # 0 => IsFrame(s[b])
    /\ \A k \in b + 1 .. top : s[k].kind = "undo"

\* Every frame's captures come back, not the top one's alone.
Logged(cap, s, b) ==
    /\ IsMap(cap) /\ IsSeq(s)
    /\ Framed(s, b, Len(s))
    /\ \A k \in 1 .. Len(s) : IsFrame(s[k]) \/ s[k].kind = "undo"
    /\ \A t \in 1 .. Len(s) :
           IsFrame(s[t]) => Framed(s, s[t].bp, t - 1) /\ Restored(cap, s, t) = s[t].was

\* An instruction in the body of a lookahead has that kind of frame to go
\* back to.
Kind(code, k) == IF code[k].negative THEN "negative" ELSE "lookahead"

Within(s, top, at) ==
    /\ at \in DOMAIN Code
    /\ Enclosing(Code, at) # 0 =>
           \E t \in 1 .. top : IsFrame(s[t]) /\ s[t].type = Kind(Code, Enclosing(Code, at))

Resumable(s) == \A t \in 1 .. Len(s) : IsFrame(s[t]) => Within(s, t - 1, s[t].pc)

MInv ==
    /\ \E n \in 1 .. Len(Calls) : call = Calls[n]
    /\ Logged(capture, stack, bp)
    /\ Resumable(stack)
    /\ status = "running" => Within(stack, bp, pc)
-----------------------------------------------------------------------------
(* Sequences, and the extremes of finite sets of numbers.                  *)

LEMMA SeqOver ==
    ASSUME NEW S, NEW s \in Seq(S)
    PROVE  IsSeq(s)
<1>1. DOMAIN s = 1 .. Len(s) /\ Len(s) \in Nat
  OBVIOUS
<1> DEFINE R == {s[k] : k \in DOMAIN s}
<1>2. s \in [1 .. Len(s) -> R]
  BY <1>1
<1>3. s \in Seq(R)
  BY <1>1, <1>2
<1> QED BY <1>3 DEF IsSeq

LEMMA SeqIs ==
    ASSUME NEW s, IsSeq(s)
    PROVE  DOMAIN s = 1 .. Len(s) /\ Len(s) \in Nat
BY DEF IsSeq

\* One sequence is another's first n elements and those of a third.
Joined(r, s, n, u) ==
    /\ IsSeq(r) /\ Len(r) = n + Len(u)
    /\ \A k \in 1 .. n : r[k] = s[k]
    /\ \A k \in 1 .. Len(u) : r[n + k] = u[k]

LEMMA ConcatElements ==
    \A S : \A s, u \in Seq(S) :
        /\ s \o u \in Seq(S) /\ Len(s \o u) = Len(s) + Len(u)
        /\ \A k \in 1 .. Len(s) : (s \o u)[k] = s[k]
        /\ \A k \in 1 .. Len(u) : (s \o u)[Len(s) + k] = u[k]
OBVIOUS

LEMMA PrefixElements ==
    \A S : \A s \in Seq(S) : \A m \in 1 .. Len(s) + 1 : \A n \in m - 1 .. Len(s) :
        /\ SubSeq(s, m, n) \in Seq(S) /\ Len(SubSeq(s, m, n)) = n - m + 1
        /\ \A k \in 1 .. n - m + 1 : SubSeq(s, m, n)[k] = s[m + k - 1]
OBVIOUS

LEMMA ConcatJoined ==
    ASSUME NEW s, IsSeq(s), NEW u, IsSeq(u)
    PROVE  Joined(s \o u, s, Len(s), u)
<1> DEFINE S == {s[k] : k \in DOMAIN s} \union {u[k] : k \in DOMAIN u}
<1>1. s \in Seq(S) /\ u \in Seq(S)
  <2>1. Len(s) \in Nat /\ Len(u) \in Nat /\ DOMAIN s = 1 .. Len(s) /\ DOMAIN u = 1 .. Len(u)
    BY SeqIs
  <2>2. s \in [1 .. Len(s) -> {s[k] : k \in DOMAIN s}] /\ u \in [1 .. Len(u) -> {u[k] : k \in DOMAIN u}]
    BY <2>1 DEF IsSeq
  <2>3. s \in [1 .. Len(s) -> S] /\ u \in [1 .. Len(u) -> S]
    BY <2>1, <2>2
  <2> HIDE DEF S
  <2> QED BY <2>1, <2>3
<1> HIDE DEF S
<1>2. /\ s \o u \in Seq(S) /\ Len(s \o u) = Len(s) + Len(u)
      /\ \A k \in 1 .. Len(s) : (s \o u)[k] = s[k]
      /\ \A k \in 1 .. Len(u) : (s \o u)[Len(s) + k] = u[k]
  BY <1>1, ConcatElements
<1>3. IsSeq(s \o u)
  BY <1>2, SeqOver
<1> QED BY <1>2, <1>3 DEF Joined

LEMMA Part ==
    ASSUME NEW s, IsSeq(s), NEW m \in 1 .. Len(s) + 1, NEW n \in m - 1 .. Len(s)
    PROVE  /\ IsSeq(SubSeq(s, m, n)) /\ Len(SubSeq(s, m, n)) = n - m + 1
           /\ \A k \in 1 .. n - m + 1 : SubSeq(s, m, n)[k] = s[m + k - 1]
<1> DEFINE S == {s[k] : k \in DOMAIN s}
           r == SubSeq(s, m, n)
<1>1. s \in Seq(S)
  BY DEF IsSeq
<1> HIDE DEF S
<1>2. r \in Seq(S) /\ Len(r) = n - m + 1 /\ \A k \in 1 .. n - m + 1 : r[k] = s[m + k - 1]
  BY <1>1, PrefixElements
<1>3. IsSeq(r)
  BY <1>2, SeqOver
<1> QED BY <1>2, <1>3

LEMMA Below ==
    ASSUME NEW s, IsSeq(s), NEW t \in 1 .. Len(s)
    PROVE  /\ IsSeq(SubSeq(s, 1, t - 1)) /\ Len(SubSeq(s, 1, t - 1)) = t - 1
           /\ \A k \in 1 .. t - 1 : SubSeq(s, 1, t - 1)[k] = s[k]
<1>1. Len(s) \in Nat
  BY SeqIs
<1>2. /\ 1 \in 1 .. Len(s) + 1 /\ t - 1 \in 1 - 1 .. Len(s) /\ t - 1 - 1 + 1 = t - 1
      /\ \A k \in 1 .. t - 1 : 1 + k - 1 = k
  BY <1>1
<1> DEFINE n == t - 1
<1>3. /\ IsSeq(SubSeq(s, 1, n)) /\ Len(SubSeq(s, 1, n)) = n - 1 + 1
      /\ \A k \in 1 .. n - 1 + 1 : SubSeq(s, 1, n)[k] = s[1 + k - 1]
  <2> HIDE DEF n
  <2>1. n \in 1 - 1 .. Len(s) /\ 1 \in 1 .. Len(s) + 1
    BY <1>2 DEF n
  <2> QED BY <2>1, Part
<1> QED BY <1>2, <1>3

LEMMA Above ==
    ASSUME NEW s, IsSeq(s), NEW t \in 1 .. Len(s)
    PROVE  /\ IsSeq(SubSeq(s, t + 1, Len(s))) /\ Len(SubSeq(s, t + 1, Len(s))) = Len(s) - t
           /\ \A k \in 1 .. Len(s) - t : SubSeq(s, t + 1, Len(s))[k] = s[t + k]
<1> DEFINE m == t + 1
           n == Len(s)
<1>1. Len(s) \in Nat
  BY SeqIs
<1>2. /\ m \in 1 .. Len(s) + 1 /\ n \in m - 1 .. Len(s) /\ n - m + 1 = Len(s) - t
      /\ \A k \in 1 .. Len(s) - t : m + k - 1 = t + k
  BY <1>1
<1>3. /\ IsSeq(SubSeq(s, m, n)) /\ Len(SubSeq(s, m, n)) = n - m + 1
      /\ \A k \in 1 .. n - m + 1 : SubSeq(s, m, n)[k] = s[m + k - 1]
  <2> HIDE DEF m, n
  <2> QED BY <1>2, Part
<1> QED BY <1>2, <1>3

LEMMA One ==
    ASSUME NEW e
    PROVE  IsSeq(<<e>>) /\ Len(<<e>>) = 1 /\ <<e>>[1] = e
<1>1. <<e>> \in Seq({e})
  OBVIOUS
<1> QED BY <1>1, SeqOver

LEMMA Pushed ==
    ASSUME NEW s, IsSeq(s), NEW e
    PROVE  /\ IsSeq(Append(s, e)) /\ Len(Append(s, e)) = Len(s) + 1 /\ Append(s, e)[Len(s) + 1] = e
           /\ \A k \in 1 .. Len(s) : Append(s, e)[k] = s[k]
<1> DEFINE S == {s[k] : k \in DOMAIN s} \union {e}
           r == Append(s, e)
<1>1. Len(s) \in Nat /\ DOMAIN s = 1 .. Len(s)
  BY SeqIs
<1>2. s \in [1 .. Len(s) -> S]
  BY <1>1 DEF IsSeq
<1>3. s \in Seq(S) /\ e \in S
  BY <1>1, <1>2
<1> HIDE DEF S
<1>4. r \in Seq(S) /\ Len(r) = Len(s) + 1 /\ r[Len(s) + 1] = e /\ \A k \in 1 .. Len(s) : r[k] = s[k]
  BY <1>1, <1>3
<1>5. IsSeq(r)
  BY <1>4, SeqOver
<1> QED BY <1>4, <1>5

LEMMA Least ==
    ASSUME NEW T \in SUBSET Nat, T # {}
    PROVE  Min(T) \in T /\ \A n \in T : Min(T) <= n
<1>1. \E x \in T : \A y \in T : ~ (<<y, x>> \in OpToRel(<, Nat))
  BY NatLessThanWellFounded, WFMin
<1>2. PICK x \in T : \A y \in T : ~ (<<y, x>> \in OpToRel(<, Nat))
  BY <1>1
<1>3. \A y \in T : ~ (y < x)
  BY <1>2 DEF OpToRel
<1>4. \A y \in T : x <= y
  BY <1>3
<1> QED BY <1>4 DEF Min

LEMMA Greatest ==
    ASSUME NEW B \in Nat, NEW T \in SUBSET (0 .. B), T # {}
    PROVE  Max(T) \in T /\ \A n \in T : n <= Max(T)
<1> DEFINE D == {B - n : n \in T}
<1>1. D \in SUBSET Nat /\ D # {}
  <2>1. \A n \in T : B - n \in Nat
    OBVIOUS
  <2> QED BY <2>1
<1>2. Min(D) \in D /\ \A d \in D : Min(D) <= d
  <2> HIDE DEF D
  <2> QED BY <1>1, Least
<1>3. PICK x \in T : Min(D) = B - x
  BY <1>2
<1>4. \A n \in T : n <= x
  <2> SUFFICES ASSUME NEW n \in T PROVE n <= x
    OBVIOUS
  <2>1. B - n \in D
    OBVIOUS
  <2>2. B - x <= B - n
    BY <1>2, <1>3, <2>1
  <2> HIDE DEF D
  <2> QED BY <2>2
<1> QED BY <1>4 DEF Max

\* A set of numbers up to a bound with 0 and with each one's successor has
\* them all.
LEMMA UpTo ==
    ASSUME NEW N \in Nat, NEW H, 0 \in H, \A n \in 1 .. N : n - 1 \in H => n \in H
    PROVE  \A n \in 0 .. N : n \in H
<1> SUFFICES ASSUME \E n \in 0 .. N : n \notin H PROVE FALSE
  OBVIOUS
<1> DEFINE T == {n \in 0 .. N : n \notin H}
<1>1. T \in SUBSET Nat /\ T # {}
  OBVIOUS
<1>2. PICK n \in T : \A m \in T : n <= m
  <2> HIDE DEF T
  <2> QED BY <1>1, Least
<1>3. n # 0 /\ n \in 1 .. N /\ n - 1 \in 0 .. N /\ n - 1 \notin T
  BY <1>2
<1> QED BY <1>2, <1>3

\* A function given at 0, and at each number from its value before.
Follows(f, N, base, G) == f = [n \in 0 .. N |-> IF n = 0 THEN base ELSE G[n][f[n - 1]]]

LEMMA Recursion ==
    ASSUME NEW N \in Nat, NEW S, NEW base \in S, NEW G \in [1 .. N -> [S -> S]]
    PROVE  \E f \in [0 .. N -> S] : Follows(f, N, base, G)
<1> DEFINE Partial(n, f) == f[0] = base /\ \A m \in 1 .. n : f[m] = G[m][f[m - 1]]
           Has(n) == \E f \in [0 .. n -> S] : Partial(n, f)
           H == {n \in 0 .. N : Has(n)}
<1>1. Has(0)
  <2> DEFINE f == [n \in 0 .. 0 |-> base]
  <2>1. f \in [0 .. 0 -> S] /\ Partial(0, f)
    OBVIOUS
  <2> HIDE DEF f
  <2> QED BY <2>1
<1>2. ASSUME NEW n \in 1 .. N, Has(n - 1) PROVE Has(n)
  <2>1. PICK f \in [0 .. n - 1 -> S] : Partial(n - 1, f)
    BY <1>2
  <2> DEFINE v == G[n][f[n - 1]]
             g == [m \in 0 .. n |-> IF m = n THEN v ELSE f[m]]
  <2>2. v \in S
    BY <2>1
  <2>3. g \in [0 .. n -> S]
    BY <2>1, <2>2
  <2>4. \A m \in 0 .. n - 1 : g[m] = f[m]
    OBVIOUS
  <2>5. g[n] = v
    OBVIOUS
  <2>6. Partial(n, g)
    <3>1. g[0] = base
      BY <2>1, <2>4
    <3>2. ASSUME NEW m \in 1 .. n PROVE g[m] = G[m][g[m - 1]]
      <4>1. m - 1 \in 0 .. n - 1 /\ g[m - 1] = f[m - 1]
        BY <2>4
      <4>2. CASE m = n
        BY <4>1, <4>2, <2>5
      <4>3. CASE m # n
        <5>1. m \in 1 .. n - 1
          BY <4>3
        <5> QED BY <5>1, <4>1, <2>4, <2>1
      <4> QED BY <4>2, <4>3
    <3> QED BY <3>1, <3>2
  <2> HIDE DEF g, Partial
  <2> QED BY <2>3, <2>6
<1>3. Has(N)
  <2> HIDE DEF Has
  <2>1. 0 \in H /\ \A n \in 1 .. N : n - 1 \in H => n \in H
    BY <1>1, <1>2
  <2>2. N \in 0 .. N
    OBVIOUS
  <2>3. \A n \in 0 .. N : n \in H
    <3> HIDE DEF H
    <3> QED BY <2>1, UpTo
  <2> QED BY <2>2, <2>3
<1>4. PICK f \in [0 .. N -> S] : Partial(N, f)
  BY <1>3
<1>5. \A n \in 0 .. N : f[n] = IF n = 0 THEN base ELSE G[n][f[n - 1]]
  BY <1>4
<1> QED BY <1>5 DEF Follows
-----------------------------------------------------------------------------
(* What undoing restores.                                                  *)

\* k is the first entry above t that undoes i.
First(s, t, i, k) ==
    /\ k \in t + 1 .. Len(s) /\ Undoes(s[k], i)
    /\ \A m \in t + 1 .. k - 1 : ~ Undoes(s[m], i)
Untouched(s, t, i) == \A k \in t + 1 .. Len(s) : ~ Undoes(s[k], i)

LEMMA FirstOrNone ==
    ASSUME NEW s, IsSeq(s), NEW t \in 0 .. Len(s), NEW i
    PROVE  Untouched(s, t, i) \/ \E k : First(s, t, i, k)
<1> DEFINE T == {k \in t + 1 .. Len(s) : Undoes(s[k], i)}
<1>1. Len(s) \in Nat /\ T \in SUBSET Nat
  BY SeqIs
<1>2. CASE T = {}
  BY <1>2 DEF Untouched
<1>3. CASE T # {}
  <2>1. Min(T) \in T /\ \A n \in T : Min(T) <= n
    <3> HIDE DEF T
    <3> QED BY <1>1, <1>3, Least
  <2>2. PICK k \in T : \A n \in T : k <= n
    BY <2>1
  <2>3. \A m \in t + 1 .. k - 1 : m \in t + 1 .. Len(s) /\ ~ (k <= m)
    BY <1>1, <2>2
  <2>4. \A m \in t + 1 .. k - 1 : ~ Undoes(s[m], i)
    BY <2>2, <2>3
  <2>5. First(s, t, i, k)
    BY <2>2, <2>4 DEF First
  <2> QED BY <2>5
<1> QED BY <1>2, <1>3

LEMMA RestoredFirst ==
    ASSUME NEW cap, NEW s, IsSeq(s), NEW t \in 0 .. Len(s), NEW i \in DOMAIN cap, NEW k, First(s, t, i, k)
    PROVE  Restored(cap, s, t)[i] = s[k].old
<1> DEFINE T == {n \in t + 1 .. Len(s) : s[n].kind = "undo" /\ s[n].idx = i}
<1>1. k \in T /\ Len(s) \in Nat /\ T \in SUBSET Nat
  BY SeqIs DEF First, Undoes
<1>2. Min(T) \in T /\ \A n \in T : Min(T) <= n
  <2> HIDE DEF T
  <2> QED BY <1>1, Least
<1>3. Min(T) = k
  <2>1. Min(T) <= k /\ Min(T) \in t + 1 .. Len(s) /\ k \in t + 1 .. Len(s)
    BY <1>1, <1>2
  <2>2. ASSUME Min(T) < k PROVE FALSE
    <3>1. Min(T) \in t + 1 .. k - 1
      BY <1>1, <2>1, <2>2
    <3> QED BY <1>2, <3>1 DEF First, Undoes
  <2> HIDE DEF T
  <2> QED BY <1>1, <2>1, <2>2
<1>4. Restored(cap, s, t)[i] = IF T = {} THEN cap[i] ELSE s[Min(T)].old
  BY DEF Restored
<1> HIDE DEF T
<1> QED BY <1>1, <1>3, <1>4

LEMMA RestoredUntouched ==
    ASSUME NEW cap, NEW s, NEW t, NEW i \in DOMAIN cap, Untouched(s, t, i)
    PROVE  Restored(cap, s, t)[i] = cap[i]
BY DEF Untouched, Undoes, Restored

LEMMA RestoredMap ==
    ASSUME NEW cap, NEW s, NEW t
    PROVE  /\ DOMAIN Restored(cap, s, t) = DOMAIN cap
           /\ Restored(cap, s, t) = [i \in DOMAIN cap |-> Restored(cap, s, t)[i]]
BY DEF Restored

\* Two stacks restore the same when they agree place by place.
LEMMA RestoredAlike ==
    ASSUME NEW cap, NEW s, NEW t, NEW c, NEW r, NEW u, DOMAIN c = DOMAIN cap,
           \A i \in DOMAIN cap : Restored(c, r, u)[i] = Restored(cap, s, t)[i]
    PROVE  Restored(c, r, u) = Restored(cap, s, t)
<1> DEFINE x == Restored(c, r, u)
           y == Restored(cap, s, t)
<1>1. x = [i \in DOMAIN cap |-> x[i]] /\ y = [i \in DOMAIN cap |-> y[i]]
  BY RestoredMap
<1>2. \A i \in DOMAIN cap : x[i] = y[i]
  OBVIOUS
<1> HIDE DEF x, y
<1>3. [i \in DOMAIN cap |-> x[i]] = [i \in DOMAIN cap |-> y[i]]
  BY <1>2
<1>4. x = y
  BY <1>1, <1>3
<1> QED BY <1>4 DEF x, y

\* Undoing down to a frame, and from there to one below, is undoing at once.
LEMMA RestoredTwice ==
    ASSUME NEW cap, NEW s, IsSeq(s), NEW t \in 1 .. Len(s), IsFrame(s[t]), NEW u \in 0 .. t - 1
    PROVE  Restored(Restored(cap, s, t), SubSeq(s, 1, t - 1), u) = Restored(cap, s, u)
<1> DEFINE c == Restored(cap, s, t)
           r == SubSeq(s, 1, t - 1)
<1>1. Len(s) \in Nat /\ t \in Nat /\ u \in Nat /\ u < t /\ t <= Len(s) /\ t \in 0 .. Len(s) /\ u \in 0 .. Len(s)
  BY SeqIs
<1>2. IsSeq(r) /\ Len(r) = t - 1 /\ \A k \in 1 .. t - 1 : r[k] = s[k]
  BY Below
<1>3. DOMAIN c = DOMAIN cap
  BY RestoredMap
<1> HIDE DEF r, c
<1>4. ASSUME NEW i \in DOMAIN cap PROVE Restored(c, r, u)[i] = Restored(cap, s, u)[i]
  <2>1. CASE \E k : First(r, u, i, k)
    <3>1. PICK k : First(r, u, i, k)
      BY <2>1
    <3>2. k \in u + 1 .. t - 1 /\ Undoes(r[k], i) /\ \A m \in u + 1 .. k - 1 : ~ Undoes(r[m], i)
      BY <1>2, <3>1 DEF First
    <3>3. k \in u + 1 .. Len(s) /\ k \in 1 .. t - 1 /\ \A m \in u + 1 .. k - 1 : m \in 1 .. t - 1
      BY <1>1, <3>2
    <3>4. First(s, u, i, k)
      BY <1>2, <3>2, <3>3 DEF First
    <3>5. Restored(c, r, u)[i] = r[k].old
      <4>1. u \in 0 .. Len(r)
        BY <1>1, <1>2
      <4> QED BY <1>2, <1>3, <3>1, <4>1, RestoredFirst
    <3>6. Restored(cap, s, u)[i] = s[k].old
      BY <1>1, <3>4, RestoredFirst
    <3> QED BY <1>2, <3>3, <3>5, <3>6
  <2>2. CASE Untouched(r, u, i)
    <3>1. \A k \in u + 1 .. t : ~ Undoes(s[k], i)
      <4>1. \A k \in u + 1 .. t - 1 : k \in 1 .. t - 1 /\ k \in u + 1 .. Len(r)
        BY <1>1, <1>2
      <4>2. \A k \in u + 1 .. t - 1 : ~ Undoes(s[k], i)
        BY <1>2, <2>2, <4>1 DEF Untouched
      <4>3. ~ Undoes(s[t], i)
        BY DEF IsFrame, Undoes
      <4>4. \A k \in u + 1 .. t : k = t \/ k \in u + 1 .. t - 1
        BY <1>1
      <4> QED BY <4>2, <4>3, <4>4
    <3>2. Restored(c, r, u)[i] = c[i]
      BY <1>3, <2>2, RestoredUntouched
    <3>3. CASE Untouched(s, t, i)
      <4>1. \A k \in u + 1 .. Len(s) : k \in u + 1 .. t \/ k \in t + 1 .. Len(s)
        BY <1>1
      <4>2. Untouched(s, u, i)
        BY <3>1, <3>3, <4>1 DEF Untouched
      <4>3. c[i] = cap[i]
        BY <3>3, RestoredUntouched DEF c
      <4>4. Restored(cap, s, u)[i] = cap[i]
        BY <4>2, RestoredUntouched
      <4> QED BY <3>2, <4>3, <4>4
    <3>4. CASE \E k : First(s, t, i, k)
      <4>1. PICK k : First(s, t, i, k)
        BY <3>4
      <4>2. k \in t + 1 .. Len(s) /\ Undoes(s[k], i) /\ \A m \in t + 1 .. k - 1 : ~ Undoes(s[m], i)
        BY <4>1 DEF First
      <4>3. k \in u + 1 .. Len(s) /\ \A m \in u + 1 .. k - 1 : m \in u + 1 .. t \/ m \in t + 1 .. k - 1
        BY <1>1, <4>2
      <4>4. First(s, u, i, k)
        BY <3>1, <4>2, <4>3 DEF First
      <4>5. c[i] = s[k].old
        BY <1>1, <4>1, RestoredFirst DEF c
      <4>6. Restored(cap, s, u)[i] = s[k].old
        BY <1>1, <4>4, RestoredFirst
      <4> QED BY <3>2, <4>5, <4>6
    <3> QED BY <1>1, <3>3, <3>4, FirstOrNone
  <2>3. u \in 0 .. Len(r)
    BY <1>1, <1>2
  <2> QED BY <1>2, <2>1, <2>2, <2>3, FirstOrNone
<1>5. Restored(c, r, u) = Restored(cap, s, u)
  BY <1>3, <1>4, RestoredAlike
<1> QED BY <1>5 DEF c, r
-----------------------------------------------------------------------------
(* Frames.                                                                 *)

LEMMA WithinOf ==
    ASSUME NEW s, NEW b, NEW top, Framed(s, b, top), NEW r, \A k \in 1 .. b : r[k] = s[k], NEW at, Within(s, top, at),
           top \in Nat
    PROVE  Within(r, b, at)
<1> SUFFICES ASSUME Enclosing(Code, at) # 0
             PROVE  \E t \in 1 .. b : IsFrame(r[t]) /\ r[t].type = Kind(Code, Enclosing(Code, at))
  BY DEF Within
<1>1. PICK t \in 1 .. top : IsFrame(s[t]) /\ s[t].type = Kind(Code, Enclosing(Code, at))
  BY DEF Within
<1>2. t \in 1 .. b
  <2>1. b \in 0 .. top /\ \A k \in b + 1 .. top : ~ IsFrame(s[k])
    BY DEF Framed, IsFrame
  <2>2. t \in b + 1 .. top \/ t \in 1 .. b
    BY <2>1
  <2> QED BY <1>1, <2>1, <2>2
<1> QED BY <1>1, <1>2

LEMMA WithinMore ==
    ASSUME NEW s, NEW b \in Nat, NEW top \in Nat, b <= top, NEW r, \A k \in 1 .. b : r[k] = s[k],
           NEW at, Within(s, b, at)
    PROVE  Within(r, top, at)
<1>1. \A t \in 1 .. b : t \in 1 .. top
  OBVIOUS
<1> QED BY <1>1 DEF Within

LEMMA WithinSame ==
    ASSUME NEW s, NEW b, NEW r, \A k \in 1 .. b : r[k] = s[k], NEW at, Within(s, b, at)
    PROVE  Within(r, b, at)
BY DEF Within

LEMMA FramedOf ==
    ASSUME NEW s, NEW b, NEW top \in Nat, Framed(s, b, top), NEW r, \A k \in 1 .. top : r[k] = s[k]
    PROVE  Framed(r, b, top)
<1>1. b \in 0 .. top /\ (b # 0 => b \in 1 .. top) /\ \A k \in b + 1 .. top : k \in 1 .. top
  BY DEF Framed
<1> QED BY <1>1 DEF Framed

\* Going back to a frame leaves the stack below it as it was.
LEMMA Truncated ==
    ASSUME NEW cap, NEW s, NEW b, Logged(cap, s, b), Resumable(s), NEW t \in 1 .. Len(s), IsFrame(s[t])
    PROVE  /\ Logged(Restored(cap, s, t), SubSeq(s, 1, t - 1), s[t].bp)
           /\ Resumable(SubSeq(s, 1, t - 1))
           /\ Within(SubSeq(s, 1, t - 1), s[t].bp, s[t].pc)
<1> DEFINE c == Restored(cap, s, t)
           r == SubSeq(s, 1, t - 1)
<1>1. IsSeq(s) /\ Len(s) \in Nat /\ t \in Nat /\ t - 1 \in Nat /\ t <= Len(s)
  BY SeqIs DEF Logged
<1>2. IsSeq(r) /\ Len(r) = t - 1 /\ \A k \in 1 .. t - 1 : r[k] = s[k]
  BY <1>1, Below
<1>3. Framed(s, s[t].bp, t - 1) /\ Restored(cap, s, t) = s[t].was
  BY DEF Logged
<1>4. IsMap(c)
  BY RestoredMap DEF IsMap
<1>5. \A u \in 1 .. t - 1 : u \in 1 .. Len(s) /\ u \in 0 .. t - 1 /\ u - 1 \in Nat /\ u - 1 <= t - 1
                            /\ \A k \in 1 .. u - 1 : k \in 1 .. t - 1
  BY <1>1
<1>6. ASSUME NEW u \in 1 .. t - 1, IsFrame(r[u])
      PROVE  Framed(r, r[u].bp, u - 1) /\ Restored(c, r, u) = r[u].was /\ Within(r, u - 1, r[u].pc)
  <2>1. r[u] = s[u] /\ IsFrame(s[u]) /\ u \in 1 .. Len(s)
    BY <1>2, <1>5, <1>6
  <2>2. Framed(s, s[u].bp, u - 1) /\ Restored(cap, s, u) = s[u].was /\ Within(s, u - 1, s[u].pc)
    BY <2>1 DEF Logged, Resumable
  <2>3. \A k \in 1 .. u - 1 : r[k] = s[k]
    BY <1>2, <1>5
  <2>4. Restored(c, r, u) = Restored(cap, s, u)
    BY <1>1, <1>5, RestoredTwice
  <2> HIDE DEF r, c
  <2>5. Framed(r, s[u].bp, u - 1)
    BY <1>5, <2>2, <2>3, FramedOf
  <2>6. Within(r, u - 1, s[u].pc)
    BY <1>5, <2>2, <2>3, WithinMore
  <2> QED BY <2>1, <2>2, <2>4, <2>5, <2>6
<1> HIDE DEF r, c
<1>7. Framed(r, s[t].bp, t - 1)
  BY <1>1, <1>2, <1>3, FramedOf
<1>8. \A k \in 1 .. t - 1 : IsFrame(r[k]) \/ r[k].kind = "undo"
  BY <1>2, <1>5 DEF Logged
<1>9. Logged(c, r, s[t].bp)
  BY <1>2, <1>4, <1>6, <1>7, <1>8 DEF Logged
<1>10. Resumable(r)
  BY <1>2, <1>6 DEF Resumable
<1>11. Within(r, s[t].bp, s[t].pc)
  <2>1. Within(s, t - 1, s[t].pc)
    BY DEF Resumable
  <2>2. \A k \in 1 .. s[t].bp : r[k] = s[k]
    <3>1. \A k \in 1 .. s[t].bp : k \in 1 .. t - 1
      BY <1>1, <1>3 DEF Framed
    <3> QED BY <1>2, <3>1
  <2> QED BY <1>1, <1>3, <2>1, <2>2, WithinOf
<1> QED BY <1>9, <1>10, <1>11 DEF c, r

\* What is pushed with the values it replaces, of places that are then set,
\* restores them; a place with an entry above the top frame needs no other.
Replaced(cap, s, b, c, u) ==
    /\ IsMap(c) /\ DOMAIN c = DOMAIN cap
    /\ IsSeq(u) /\ \A k \in 1 .. Len(u) : u[k].kind = "undo" /\ u[k].old = cap[u[k].idx]
    /\ \A i \in DOMAIN cap : \/ c[i] = cap[i]
                             \/ \E k \in 1 .. Len(u) : u[k].idx = i
                             \/ \E k \in b + 1 .. Len(s) : s[k].idx = i

LEMMA LoggedSet ==
    ASSUME NEW cap, NEW s, NEW b, Logged(cap, s, b), NEW c, NEW u, Replaced(cap, s, b, c, u),
           NEW r, Joined(r, s, Len(s), u), NEW t \in 1 .. b
    PROVE  Restored(c, r, t) = Restored(cap, s, t)
<1>1. /\ IsSeq(s) /\ IsSeq(u) /\ IsSeq(r) /\ Len(s) \in Nat /\ Len(u) \in Nat /\ Len(r) \in Nat
      /\ Len(r) = Len(s) + Len(u) /\ b \in Nat /\ b <= Len(s) /\ t \in Nat /\ t <= b
      /\ t \in 0 .. Len(s) /\ t \in 0 .. Len(r)
  BY SeqIs DEF Logged, Replaced, Joined, Framed
<1>2. \A k \in 1 .. Len(s) : r[k] = s[k]
  BY DEF Joined
<1>3. ASSUME NEW i \in DOMAIN cap PROVE Restored(c, r, t)[i] = Restored(cap, s, t)[i]
  <2>1. i \in DOMAIN c
    BY DEF Replaced
  <2>2. CASE \E k : First(s, t, i, k)
    <3>1. PICK k : First(s, t, i, k)
      BY <2>2
    <3>2. k \in t + 1 .. Len(s) /\ Undoes(s[k], i) /\ \A m \in t + 1 .. k - 1 : ~ Undoes(s[m], i)
      BY <3>1 DEF First
    <3>3. k \in t + 1 .. Len(r) /\ k \in 1 .. Len(s) /\ \A m \in t + 1 .. k - 1 : m \in 1 .. Len(s)
      BY <1>1, <3>2
    <3>4. First(r, t, i, k)
      BY <1>2, <3>2, <3>3 DEF First
    <3> QED BY <1>1, <1>2, <2>1, <3>1, <3>3, <3>4, RestoredFirst, SMTT(60)
  <2>3. CASE Untouched(s, t, i)
    <3>1. Restored(cap, s, t)[i] = cap[i]
      BY <2>3, RestoredUntouched
    <3>2. CASE \E k : First(r, t, i, k)
      <4>1. PICK k : First(r, t, i, k)
        BY <3>2
      <4>2. k \in t + 1 .. Len(r) /\ Undoes(r[k], i)
        BY <4>1 DEF First
      <4>3. k \notin t + 1 .. Len(s)
        <5>1. SUFFICES ASSUME k \in t + 1 .. Len(s) PROVE FALSE
          OBVIOUS
        <5>2. k \in 1 .. Len(s)
          BY <1>1, <5>1
        <5> QED BY <1>2, <2>3, <4>2, <5>1, <5>2 DEF Untouched
      <4>4. k - Len(s) \in 1 .. Len(u) /\ Len(s) + (k - Len(s)) = k
        BY <1>1, <4>2, <4>3
      <4>5. r[k] = u[k - Len(s)]
        BY <4>4 DEF Joined
      <4>6. r[k].old = cap[i]
        BY <4>2, <4>4, <4>5 DEF Replaced, Undoes
      <4>7. Restored(c, r, t)[i] = r[k].old
        BY <1>1, <2>1, <4>1, RestoredFirst
      <4> QED BY <3>1, <4>6, <4>7
    <3>3. CASE Untouched(r, t, i)
      <4>1. ~ \E k \in 1 .. Len(u) : u[k].idx = i
        <5>1. SUFFICES ASSUME NEW k \in 1 .. Len(u), u[k].idx = i PROVE FALSE
          OBVIOUS
        <5>2. Len(s) + k \in t + 1 .. Len(r)
          BY <1>1
        <5>3. Undoes(r[Len(s) + k], i)
          BY <5>1 DEF Joined, Replaced, Undoes
        <5> QED BY <3>3, <5>2, <5>3 DEF Untouched
      <4>2. ~ \E k \in b + 1 .. Len(s) : s[k].idx = i
        <5>1. SUFFICES ASSUME NEW k \in b + 1 .. Len(s), s[k].idx = i PROVE FALSE
          OBVIOUS
        <5>2. k \in t + 1 .. Len(s)
          BY <1>1
        <5>3. Undoes(s[k], i)
          BY <5>1 DEF Logged, Framed, Undoes
        <5> QED BY <2>3, <5>2, <5>3 DEF Untouched
      <4>3. c[i] = cap[i]
        BY <4>1, <4>2 DEF Replaced
      <4>4. Restored(c, r, t)[i] = c[i]
        BY <2>1, <3>3, RestoredUntouched
      <4> QED BY <3>1, <4>3, <4>4
    <3> QED BY <1>1, <3>2, <3>3, FirstOrNone
  <2> QED BY <1>1, <2>2, <2>3, FirstOrNone
<1> QED BY <1>3, RestoredAlike DEF Replaced

LEMMA FramesBelow ==
    ASSUME NEW cap, NEW s, NEW b, Logged(cap, s, b)
    PROVE  /\ b \in Nat /\ b <= Len(s) /\ Len(s) \in Nat
           /\ \A t \in 1 .. Len(s) : IsFrame(s[t]) => t <= b
           /\ \A t \in 1 .. b : t \in 1 .. Len(s) /\ t - 1 \in Nat /\ \A k \in 1 .. t - 1 : k \in 1 .. Len(s)
<1>1. b \in Nat /\ b <= Len(s) /\ Len(s) \in Nat /\ \A k \in b + 1 .. Len(s) : ~ IsFrame(s[k])
  BY SeqIs DEF Logged, Framed, IsFrame
<1>2. \A t \in 1 .. Len(s) : t <= b \/ t \in b + 1 .. Len(s)
  BY <1>1
<1> QED BY <1>1, <1>2

LEMMA UndosOn ==
    ASSUME NEW cap, NEW s, NEW b, Logged(cap, s, b), Resumable(s), NEW c, NEW u, Replaced(cap, s, b, c, u),
           NEW r, Joined(r, s, Len(s), u)
    PROVE  Logged(c, r, b) /\ Resumable(r) /\ \A at : Within(s, b, at) => Within(r, b, at)
<1>1. /\ b \in Nat /\ b <= Len(s) /\ Len(s) \in Nat
      /\ \A t \in 1 .. Len(s) : IsFrame(s[t]) => t <= b
      /\ \A t \in 1 .. b : t \in 1 .. Len(s) /\ t - 1 \in Nat /\ \A k \in 1 .. t - 1 : k \in 1 .. Len(s)
  BY FramesBelow
<1>2. Len(u) \in Nat /\ Len(r) = Len(s) + Len(u) /\ IsSeq(r) /\ Len(r) \in Nat
  BY <1>1, SeqIs DEF Replaced, Joined
<1>3. /\ \A k \in 1 .. Len(s) : r[k] = s[k]
      /\ \A k \in 1 .. Len(u) : r[Len(s) + k].kind = "undo"
  BY DEF Joined, Replaced
<1>4. \A k \in 1 .. Len(r) : k \in 1 .. Len(s) \/ (k - Len(s) \in 1 .. Len(u) /\ Len(s) + (k - Len(s)) = k)
  BY <1>1, <1>2
<1>5. \A k \in 1 .. Len(r) : (k \in 1 .. Len(s) /\ r[k] = s[k]) \/ r[k].kind = "undo"
  <2>1. SUFFICES ASSUME NEW k \in 1 .. Len(r), k \notin 1 .. Len(s) PROVE r[k].kind = "undo"
    BY <1>3
  <2>2. k - Len(s) \in 1 .. Len(u) /\ Len(s) + (k - Len(s)) = k
    BY <1>4, <2>1
  <2>3. r[Len(s) + (k - Len(s))].kind = "undo"
    BY <1>3, <2>2
  <2> QED BY <2>2, <2>3
<1>6. ASSUME NEW t \in 1 .. Len(r), IsFrame(r[t])
      PROVE  Framed(r, r[t].bp, t - 1) /\ Restored(c, r, t) = r[t].was /\ Within(r, t - 1, r[t].pc)
  <2>1. t \in 1 .. Len(s) /\ r[t] = s[t] /\ IsFrame(s[t])
    BY <1>5, <1>6 DEF IsFrame
  <2>2. t \in 1 .. b
    BY <1>1, <2>1
  <2>3. Framed(s, s[t].bp, t - 1) /\ Restored(cap, s, t) = s[t].was /\ Within(s, t - 1, s[t].pc)
    BY <2>1 DEF Logged, Resumable
  <2>4. t - 1 \in Nat /\ \A k \in 1 .. t - 1 : r[k] = s[k]
    BY <1>1, <1>3, <2>2
  <2>5. Restored(c, r, t) = Restored(cap, s, t)
    BY <2>2, LoggedSet
  <2>6. Framed(r, s[t].bp, t - 1)
    BY <2>3, <2>4, FramedOf
  <2>7. Within(r, t - 1, s[t].pc)
    BY <2>3, <2>4, WithinSame
  <2> QED BY <2>1, <2>3, <2>5, <2>6, <2>7
<1>7. Framed(r, b, Len(r))
  <2>1. b \in 0 .. Len(r) /\ (b # 0 => b \in 1 .. Len(s)) /\ \A k \in b + 1 .. Len(r) : k \in 1 .. Len(r)
    BY <1>1, <1>2
  <2>2. b # 0 => IsFrame(r[b])
    BY <1>3, <2>1 DEF Logged, Framed
  <2>3. ASSUME NEW k \in b + 1 .. Len(r) PROVE r[k].kind = "undo"
    <3>1. k \in 1 .. Len(s) => k \in b + 1 .. Len(s)
      BY <1>1
    <3> QED BY <1>5, <2>1, <3>1 DEF Logged, Framed
  <2> QED BY <2>1, <2>2, <2>3 DEF Framed
<1>8. \A k \in 1 .. Len(r) : IsFrame(r[k]) \/ r[k].kind = "undo"
  BY <1>5 DEF Logged
<1>9. Logged(c, r, b)
  BY <1>2, <1>6, <1>7, <1>8 DEF Logged, Replaced
<1>10. Resumable(r)
  BY <1>6 DEF Resumable
<1>11. ASSUME NEW at, Within(s, b, at) PROVE Within(r, b, at)
  <2>1. \A k \in 1 .. b : r[k] = s[k]
    BY <1>1, <1>3
  <2> QED BY <1>11, <2>1, WithinSame
<1> QED BY <1>9, <1>10, <1>11

\* A frame on top, with the captures as they are.
LEMMA FrameOn ==
    ASSUME NEW cap, NEW s, NEW b, Logged(cap, s, b), Resumable(s),
           NEW f, IsFrame(f), f.was = cap, f.bp = b, Within(s, b, f.pc)
    PROVE  /\ Logged(cap, Append(s, f), Len(s) + 1) /\ Resumable(Append(s, f))
           /\ \A at : Within(s, b, at) => Within(Append(s, f), Len(s) + 1, at)
<1> DEFINE r == Append(s, f)
           n == Len(s) + 1
<1>1. /\ b \in Nat /\ b <= Len(s) /\ Len(s) \in Nat /\ IsSeq(s) /\ IsMap(cap) /\ Framed(s, b, Len(s))
      /\ b <= n - 1 /\ b <= n /\ n \in Nat /\ n - 1 = Len(s) /\ n - 1 \in Nat
  <2>1. b \in Nat /\ b <= Len(s) /\ Len(s) \in Nat
    BY FramesBelow
  <2>2. IsSeq(s) /\ IsMap(cap) /\ Framed(s, b, Len(s))
    BY DEF Logged
  <2>3. b <= n - 1 /\ b <= n /\ n \in Nat /\ n - 1 = Len(s) /\ n - 1 \in Nat
    BY <2>1
  <2> HIDE DEF n
  <2> QED BY <2>1, <2>2, <2>3
<1>2. /\ IsSeq(r) /\ Len(r) = n /\ r[n] = f /\ \A k \in 1 .. Len(s) : r[k] = s[k]
  BY <1>1, Pushed
<1> HIDE DEF r, n
<1>3. \A t \in 1 .. n : t = n \/ (t \in 1 .. Len(s) /\ t - 1 \in Nat /\ \A k \in 1 .. t - 1 : k \in 1 .. Len(s))
  BY <1>1
<1>4. \A k \in 1 .. b : r[k] = s[k]
  BY <1>1, <1>2
<1>5. ASSUME NEW t \in 0 .. Len(s), NEW i \in DOMAIN cap PROVE Restored(cap, r, t)[i] = Restored(cap, s, t)[i]
  <2>1. CASE \E k : First(s, t, i, k)
    <3>1. PICK k : First(s, t, i, k)
      BY <2>1
    <3>2. k \in t + 1 .. Len(s) /\ Undoes(s[k], i) /\ \A m \in t + 1 .. k - 1 : ~ Undoes(s[m], i)
      BY <3>1 DEF First
    <3>3. k \in t + 1 .. n /\ k \in 1 .. Len(s) /\ t \in 0 .. n /\ \A m \in t + 1 .. k - 1 : m \in 1 .. Len(s)
      BY <1>1, <3>2
    <3>4. First(r, t, i, k)
      BY <1>2, <3>2, <3>3 DEF First
    <3> QED BY <1>1, <1>2, <3>1, <3>3, <3>4, RestoredFirst
  <2>2. CASE Untouched(s, t, i)
    <3>1. \A k \in t + 1 .. n : k = n \/ (k \in t + 1 .. Len(s) /\ k \in 1 .. Len(s))
      BY <1>1
    <3>2. ~ Undoes(r[n], i)
      BY <1>2 DEF IsFrame, Undoes
    <3>3. Untouched(r, t, i)
      BY <1>2, <2>2, <3>1, <3>2 DEF Untouched
    <3> QED BY <2>2, <3>3, RestoredUntouched
  <2> QED BY <1>1, <2>1, <2>2, FirstOrNone
<1>6. ASSUME NEW t \in 1 .. n, IsFrame(r[t])
      PROVE  Framed(r, r[t].bp, t - 1) /\ Restored(cap, r, t) = r[t].was /\ Within(r, t - 1, r[t].pc)
  <2>1. CASE t = n
    <3>1. Framed(r, f.bp, t - 1)
      BY <1>1, <1>2, <2>1, FramedOf
    <3>2. Within(r, t - 1, f.pc)
      BY <1>1, <1>4, <2>1, WithinMore
    <3>3. Restored(cap, r, n) = cap
      <4>1. n + 1 .. Len(r) = {}
        BY <1>1, <1>2
      <4>2. \A i \in DOMAIN cap : Untouched(r, n, i)
        BY <4>1 DEF Untouched
      <4>3. \A i \in DOMAIN cap : Restored(cap, r, n)[i] = cap[i]
        BY <4>2, RestoredUntouched
      <4>4. Restored(cap, r, n) = [i \in DOMAIN cap |-> Restored(cap, r, n)[i]]
        BY RestoredMap
      <4>5. cap = [i \in DOMAIN cap |-> cap[i]]
        BY <1>1 DEF IsMap
      <4> QED BY <4>3, <4>4, <4>5
    <3> QED BY <1>2, <2>1, <3>1, <3>2, <3>3
  <2>2. CASE t \in 1 .. Len(s)
    <3>1. r[t] = s[t] /\ IsFrame(s[t]) /\ t - 1 \in Nat /\ t \in 0 .. Len(s) /\ \A k \in 1 .. t - 1 : k \in 1 .. Len(s)
      BY <1>1, <1>2, <1>6, <2>2
    <3>2. Framed(s, s[t].bp, t - 1) /\ Restored(cap, s, t) = s[t].was /\ Within(s, t - 1, s[t].pc)
      BY <2>2, <3>1 DEF Logged, Resumable
    <3>3. \A k \in 1 .. t - 1 : r[k] = s[k]
      BY <1>2, <3>1
    <3>4. Restored(cap, r, t) = Restored(cap, s, t)
      BY <1>5, <3>1, RestoredAlike
    <3>5. Framed(r, s[t].bp, t - 1)
      BY <3>1, <3>2, <3>3, FramedOf
    <3>6. Within(r, t - 1, s[t].pc)
      BY <3>2, <3>3, WithinSame
    <3> QED BY <3>1, <3>2, <3>4, <3>5, <3>6
  <2> QED BY <1>3, <2>1, <2>2
<1>7. Framed(r, n, Len(r))
  <2>1. n \in 0 .. n /\ n + 1 .. n = {}
    BY <1>1
  <2> QED BY <1>2, <2>1 DEF Framed
<1>8. \A k \in 1 .. n : IsFrame(r[k]) \/ r[k].kind = "undo"
  BY <1>2, <1>3 DEF Logged
<1>9. Logged(cap, r, n)
  BY <1>1, <1>2, <1>6, <1>7, <1>8 DEF Logged
<1>10. Resumable(r)
  BY <1>2, <1>6 DEF Resumable
<1>11. ASSUME NEW at, Within(s, b, at) PROVE Within(r, n, at)
  BY <1>1, <1>4, <1>11, WithinMore
<1> QED BY <1>9, <1>10, <1>11 DEF r, n
-----------------------------------------------------------------------------
(* The undo entries a lookahead leaves.                                    *)

Clear(s, n, i) == \A k \in 1 .. n : ~ Undoes(s[k], i)
FirstIn(s, n, i, k) == k \in 1 .. n /\ Undoes(s[k], i) /\ \A l \in 1 .. k - 1 : ~ Undoes(s[l], i)

\* u has undo entries, and each place's first is the first of s's first n.
FirstsAgree(s, n, u, i) ==
    \/ Clear(s, n, i) /\ Clear(u, Len(u), i)
    \/ \E k, m : FirstIn(s, n, i, k) /\ FirstIn(u, Len(u), i, m) /\ u[m].old = s[k].old
Keeps(s, n, u) ==
    /\ IsSeq(u) /\ \A k \in 1 .. Len(u) : u[k].kind = "undo"
    /\ \A i : FirstsAgree(s, n, u, i)

LEMMA KeepsMore ==
    ASSUME NEW s, NEW n \in Nat \ {0}, NEW u, Keeps(s, n - 1, u), IsFrame(s[n]) \/ s[n].kind = "undo"
    PROVE  Keeps(s, n, IF IsFrame(s[n]) THEN u ELSE Append(u, s[n]))
<1>1. IsSeq(u) /\ Len(u) \in Nat /\ (\A k \in 1 .. Len(u) : u[k].kind = "undo") /\ \A i : FirstsAgree(s, n - 1, u, i)
  BY SeqIs DEF Keeps
<1>2. \A k \in 1 .. n : k = n \/ k \in 1 .. n - 1
  OBVIOUS
<1>3. \A i, k : FirstIn(s, n - 1, i, k) => FirstIn(s, n, i, k)
  BY DEF FirstIn
<1>4. CASE IsFrame(s[n])
  <2>1. \A i : ~ Undoes(s[n], i)
    BY <1>4 DEF IsFrame, Undoes
  <2>2. \A i : Clear(s, n - 1, i) => Clear(s, n, i)
    BY <1>2, <2>1 DEF Clear
  <2>3. ASSUME NEW i PROVE FirstsAgree(s, n, u, i)
    <3>1. FirstsAgree(s, n - 1, u, i)
      BY <1>1
    <3> QED BY <1>3, <2>2, <3>1 DEF FirstsAgree
  <2> QED BY <1>1, <1>4, <2>3 DEF Keeps
<1>5. CASE ~ IsFrame(s[n])
  <2> DEFINE y == Append(u, s[n])
             m == Len(u) + 1
  <2>1. IsSeq(y) /\ Len(y) = m /\ y[m] = s[n] /\ \A k \in 1 .. Len(u) : y[k] = u[k]
    BY <1>1, Pushed
  <2>2. m \in Nat /\ m \in 1 .. m /\ n \in 1 .. n /\ \A k \in 1 .. m : k = m \/ k \in 1 .. Len(u)
    BY <1>1
  <2>3. (\A k \in 1 .. m - 1 : k \in 1 .. Len(u)) /\ \A k \in 1 .. Len(u) : k \in 1 .. m /\ \A l \in 1 .. k - 1 : l \in 1 .. Len(u)
    BY <1>1
  <2> HIDE DEF y, m
  <2>4. \A k \in 1 .. m : y[k].kind = "undo"
    BY <1>1, <1>5, <2>1, <2>2
  <2>5. \A i, k : FirstIn(u, Len(u), i, k) => FirstIn(y, m, i, k) /\ y[k].old = u[k].old
    BY <2>1, <2>3 DEF FirstIn
  <2>6. ASSUME NEW i PROVE FirstsAgree(s, n, y, i)
    <3>1. CASE \E k, l : FirstIn(s, n - 1, i, k) /\ FirstIn(u, Len(u), i, l) /\ u[l].old = s[k].old
      <4> PICK k, l : FirstIn(s, n - 1, i, k) /\ FirstIn(u, Len(u), i, l) /\ u[l].old = s[k].old
        BY <3>1
      <4>1. FirstIn(s, n, i, k)
        BY <1>3
      <4>2. FirstIn(y, m, i, l) /\ y[l].old = s[k].old
        BY <2>5
      <4>3. FirstIn(y, Len(y), i, l)
        BY <4>2, <2>1
      <4> QED BY <4>1, <4>2, <4>3 DEF FirstsAgree
    <3>2. CASE Clear(s, n - 1, i) /\ Clear(u, Len(u), i)
      <4>1. CASE Undoes(s[n], i)
        <5>1. FirstIn(s, n, i, n)
          BY <2>2, <3>2, <4>1 DEF FirstIn, Clear
        <5>2. FirstIn(y, m, i, m)
          BY <2>1, <2>2, <2>3, <3>2, <4>1 DEF FirstIn, Clear
        <5> QED BY <2>1, <5>1, <5>2 DEF FirstsAgree
      <4>2. CASE ~ Undoes(s[n], i)
        <5>1. Clear(s, n, i)
          BY <1>2, <3>2, <4>2 DEF Clear
        <5>2. Clear(y, m, i)
          BY <2>1, <2>2, <3>2, <4>2 DEF Clear
        <5> QED BY <2>1, <5>1, <5>2 DEF FirstsAgree
      <4> QED BY <4>1, <4>2
    <3>3. FirstsAgree(s, n - 1, u, i)
      BY <1>1
    <3> QED BY <3>1, <3>2, <3>3 DEF FirstsAgree
  <2>7. Keeps(s, n, y)
    BY <2>1, <2>4, <2>6 DEF Keeps
  <2> QED BY <1>5, <2>7 DEF y
<1> QED BY <1>4, <1>5

LEMMA UndosKeep ==
    ASSUME NEW s, IsSeq(s), \A k \in 1 .. Len(s) : IsFrame(s[k]) \/ s[k].kind = "undo"
    PROVE  Keeps(s, Len(s), Undos(s))
<1> DEFINE N == Len(s)
           R == {s[k] : k \in DOMAIN s}
           S == Seq(R)
           Step(n, x) == IF IsFrame(s[n]) THEN x ELSE Append(x, s[n])
           G == [n \in 1 .. N |-> [x \in S |-> Step(n, x)]]
           Body(g) == [k \in 0 .. Len(s) |->
                          IF k = 0 THEN <<>>
                          ELSE IF IsFrame(s[k]) THEN g[k - 1] ELSE Append(g[k - 1], s[k])]
           kept == CHOOSE g : g = Body(g)
<1>1. N \in Nat /\ DOMAIN s = 1 .. N /\ \A n \in 1 .. N : s[n] \in R
  BY SeqIs
<1>2. <<>> \in S /\ \A n \in 1 .. N : \A x \in S : Step(n, x) \in S
  <2> HIDE DEF R, N
  <2> QED BY <1>1
<1> HIDE DEF S, R
<1>3. G \in [1 .. N -> [S -> S]]
  <2> HIDE DEF Step, N
  <2> QED BY <1>2
<1>4. PICK f \in [0 .. N -> S] : Follows(f, N, <<>>, G)
  <2> HIDE DEF G, N
  <2> QED BY <1>1, <1>2, <1>3, Recursion
<1>5. f = Body(f)
  <2>1. \A n \in 0 .. N : n # 0 => n \in 1 .. N /\ n - 1 \in 0 .. N
    BY <1>1
  <2>2. \A n \in 0 .. N : (IF n = 0 THEN <<>> ELSE G[n][f[n - 1]]) = (IF n = 0 THEN <<>> ELSE Step(n, f[n - 1]))
    <3> HIDE DEF Step, N
    <3> QED BY <1>4, <2>1
  <2>3. f = [n \in 0 .. N |-> IF n = 0 THEN <<>> ELSE Step(n, f[n - 1])]
    <3> HIDE DEF Step, G, N
    <3> QED BY <1>4, <2>2 DEF Follows
  <2> QED BY <2>3, Zenon
<1>6. kept = Body(kept)
  <2> HIDE DEF Body
  <2> QED BY <1>5
<1>7. Undos(s) = kept[Len(s)]
  BY Zenon DEF Undos
<1> HIDE DEF kept
<1>8. kept[0] = <<>> /\ \A n \in 1 .. N : kept[n] = Step(n, kept[n - 1])
  <2>1. \A n \in 0 .. N : kept[n] = IF n = 0 THEN <<>> ELSE Step(n, kept[n - 1])
    <3>1. kept = [n \in 0 .. N |-> IF n = 0 THEN <<>> ELSE Step(n, kept[n - 1])]
      BY <1>6, Zenon
    <3> HIDE DEF Step
    <3> QED BY <3>1, Zenon
  <2>2. 0 \in 0 .. N /\ \A n \in 1 .. N : n \in 0 .. N /\ n # 0
    BY <1>1
  <2> HIDE DEF Step
  <2> QED BY <2>1, <2>2
<1> DEFINE H == {n \in 0 .. N : Keeps(s, n, kept[n])}
<1>9. 0 \in H
  <2>1. IsSeq(<<>>) /\ Len(<<>>) = 0 /\ 1 .. 0 = {}
    <3>1. <<>> \in Seq({})
      OBVIOUS
    <3>2. IsSeq(<<>>)
      BY <3>1, SeqOver
    <3> QED BY <3>2
  <2>2. \A i : FirstsAgree(s, 0, <<>>, i)
    BY <2>1 DEF FirstsAgree, Clear
  <2>3. Keeps(s, 0, <<>>)
    BY <2>1, <2>2 DEF Keeps
  <2> QED BY <1>1, <1>8, <2>3
<1>10. \A n \in 1 .. N : n - 1 \in H => n \in H
  <2> SUFFICES ASSUME NEW n \in 1 .. N, Keeps(s, n - 1, kept[n - 1]) PROVE Keeps(s, n, kept[n])
    BY <1>1
  <2>1. n \in Nat \ {0} /\ (IsFrame(s[n]) \/ s[n].kind = "undo")
    BY <1>1
  <2>2. Keeps(s, n, Step(n, kept[n - 1]))
    BY <2>1, KeepsMore
  <2> HIDE DEF Step
  <2> QED BY <1>8, <2>2
<1>11. N \in H
  <2>1. \A n \in 0 .. N : n \in H
    <3> HIDE DEF H, N
    <3> QED BY <1>1, <1>9, <1>10, UpTo
  <2>2. N \in 0 .. N
    BY <1>1
  <2> QED BY <2>1, <2>2
<1> QED BY <1>7, <1>11

\* They restore what all that was above the lookahead did.
LEMMA RestoredKept ==
    ASSUME NEW cap, NEW s, IsSeq(s), NEW t \in 1 .. Len(s), IsFrame(s[t]),
           NEW w, IsSeq(w), Len(w) = Len(s) - t, \A k \in 1 .. Len(w) : w[k] = s[t + k],
           NEW u, Keeps(w, Len(w), u), NEW r, Joined(r, s, t - 1, u), NEW v \in 1 .. t - 1
    PROVE  Restored(cap, r, v) = Restored(cap, s, v)
<1>1. /\ Len(s) \in Nat /\ Len(u) \in Nat /\ Len(w) \in Nat /\ t \in Nat /\ v \in Nat /\ v <= t - 1 /\ t <= Len(s)
      /\ IsSeq(r) /\ Len(r) = t - 1 + Len(u) /\ v \in 0 .. Len(s) /\ v \in 0 .. Len(r) /\ IsSeq(u)
  BY SeqIs DEF Keeps, Joined
<1>2. /\ \A k \in 1 .. t - 1 : r[k] = s[k]
      /\ \A k \in 1 .. Len(u) : r[t - 1 + k] = u[k]
  BY DEF Joined
<1>3. ASSUME NEW i \in DOMAIN cap PROVE Restored(cap, r, v)[i] = Restored(cap, s, v)[i]
  <2>1. CASE \E k \in v + 1 .. t - 1 : Undoes(s[k], i)
    <3>1. CASE \E k : First(s, v, i, k)
      <4>1. PICK k : First(s, v, i, k)
        BY <3>1
      <4>2. k \in v + 1 .. Len(s) /\ Undoes(s[k], i) /\ \A m \in v + 1 .. k - 1 : ~ Undoes(s[m], i)
        BY <4>1 DEF First
      <4>3. k \in v + 1 .. t - 1
        <5>1. PICK l \in v + 1 .. t - 1 : Undoes(s[l], i)
          BY <2>1
        <5>2. ~ (l < k)
          <6>1. l < k => l \in v + 1 .. k - 1
            BY <1>1, <4>2
          <6> QED BY <4>2, <5>1, <6>1
        <5> QED BY <1>1, <4>2, <5>2
      <4>4. k \in v + 1 .. Len(r) /\ k \in 1 .. t - 1 /\ \A m \in v + 1 .. k - 1 : m \in 1 .. t - 1
        BY <1>1, <4>3
      <4>5. First(r, v, i, k)
        BY <1>2, <4>2, <4>4 DEF First
      <4>6. Restored(cap, r, v)[i] = r[k].old /\ Restored(cap, s, v)[i] = s[k].old
        BY <1>1, <4>1, <4>5, RestoredFirst, SMTT(30)
      <4> QED BY <1>2, <4>4, <4>6
    <3>2. CASE Untouched(s, v, i)
      <4>1. \A k \in v + 1 .. t - 1 : k \in v + 1 .. Len(s)
        BY <1>1
      <4> QED BY <2>1, <3>2, <4>1 DEF Untouched
    <3> QED BY <1>1, <3>1, <3>2, FirstOrNone
  <2>2. CASE \A k \in v + 1 .. t - 1 : ~ Undoes(s[k], i)
    <3>1. \A k \in v + 1 .. t : ~ Undoes(s[k], i)
      <4>1. ~ Undoes(s[t], i)
        BY DEF IsFrame, Undoes
      <4>2. \A k \in v + 1 .. t : k = t \/ k \in v + 1 .. t - 1
        BY <1>1
      <4> QED BY <2>2, <4>1, <4>2
    <3>2. \A k \in v + 1 .. t - 1 : ~ Undoes(r[k], i)
      <4>1. \A k \in v + 1 .. t - 1 : k \in 1 .. t - 1
        BY <1>1
      <4> QED BY <1>2, <2>2, <4>1
    <3>3. CASE Clear(w, Len(w), i) /\ Clear(u, Len(u), i)
      <4>1. Untouched(s, v, i)
        <5>1. SUFFICES ASSUME NEW k \in v + 1 .. Len(s), Undoes(s[k], i) PROVE FALSE
          BY DEF Untouched
        <5>2. k \notin v + 1 .. t
          BY <3>1, <5>1
        <5>3. k - t \in 1 .. Len(w) /\ t + (k - t) = k
          BY <1>1, <5>2
        <5>4. w[k - t] = s[t + (k - t)]
          BY <5>3
        <5>5. ~ Undoes(w[k - t], i)
          BY <3>3, <5>3 DEF Clear
        <5> QED BY <5>1, <5>3, <5>4, <5>5
      <4>2. Untouched(r, v, i)
        <5>1. SUFFICES ASSUME NEW k \in v + 1 .. Len(r), Undoes(r[k], i) PROVE FALSE
          BY DEF Untouched
        <5>2. k \notin v + 1 .. t - 1
          BY <3>2, <5>1
        <5>3. k - (t - 1) \in 1 .. Len(u) /\ t - 1 + (k - (t - 1)) = k
          BY <1>1, <5>2
        <5>4. r[t - 1 + (k - (t - 1))] = u[k - (t - 1)]
          BY <1>2, <5>3
        <5>5. ~ Undoes(u[k - (t - 1)], i)
          BY <3>3, <5>3 DEF Clear
        <5> QED BY <5>1, <5>3, <5>4, <5>5
      <4> QED BY <4>1, <4>2, RestoredUntouched
    <3>4. CASE \E k, m : FirstIn(w, Len(w), i, k) /\ FirstIn(u, Len(u), i, m) /\ u[m].old = w[k].old
      <4>1. PICK k, m : FirstIn(w, Len(w), i, k) /\ FirstIn(u, Len(u), i, m) /\ u[m].old = w[k].old
        BY <3>4
      <4>2. /\ k \in 1 .. Len(w) /\ Undoes(w[k], i) /\ \A l \in 1 .. k - 1 : ~ Undoes(w[l], i)
            /\ m \in 1 .. Len(u) /\ Undoes(u[m], i) /\ \A l \in 1 .. m - 1 : ~ Undoes(u[l], i)
        BY <4>1 DEF FirstIn
      <4> HIDE <3>4
      <4>3. First(s, v, i, t + k)
        <5>1. t + k \in v + 1 .. Len(s) /\ s[t + k] = w[k]
          BY <1>1, <4>2
        <5>2. ASSUME NEW l \in v + 1 .. t + k - 1 PROVE ~ Undoes(s[l], i)
          <6>1. CASE l \in v + 1 .. t
            BY <3>1, <6>1
          <6>2. CASE l \notin v + 1 .. t
            <7>1. l - t \in 1 .. k - 1 /\ t + (l - t) = l /\ l - t \in 1 .. Len(w)
              BY <1>1, <4>2, <6>2
            <7>2. w[l - t] = s[t + (l - t)]
              BY <7>1
            <7>3. ~ Undoes(w[l - t], i)
              BY <4>2, <7>1
            <7> QED BY <7>1, <7>2, <7>3
          <6> QED BY <6>1, <6>2
        <5> QED BY <4>2, <5>1, <5>2 DEF First
      <4>4. First(r, v, i, t - 1 + m)
        <5>1. t - 1 + m \in v + 1 .. Len(r) /\ r[t - 1 + m] = u[m]
          BY <1>1, <1>2, <4>2
        <5>2. ASSUME NEW l \in v + 1 .. t - 1 + m - 1 PROVE ~ Undoes(r[l], i)
          <6>1. CASE l \in v + 1 .. t - 1
            BY <3>2, <6>1
          <6>2. CASE l \notin v + 1 .. t - 1
            <7>1. l - (t - 1) \in 1 .. m - 1 /\ t - 1 + (l - (t - 1)) = l /\ l - (t - 1) \in 1 .. Len(u)
              BY <1>1, <4>2, <6>2
            <7>2. r[t - 1 + (l - (t - 1))] = u[l - (t - 1)]
              BY <1>2, <7>1
            <7>3. ~ Undoes(u[l - (t - 1)], i)
              BY <4>2, <7>1
            <7> QED BY <7>1, <7>2, <7>3
          <6> QED BY <6>1, <6>2
        <5> QED BY <4>2, <5>1, <5>2 DEF First
      <4>5. s[t + k].old = u[m].old /\ r[t - 1 + m] = u[m]
        BY <1>2, <4>1, <4>2
      <4>6. Restored(cap, r, v)[i] = r[t - 1 + m].old /\ Restored(cap, s, v)[i] = s[t + k].old
        BY <1>1, <4>3, <4>4, RestoredFirst
      <4> QED BY <4>5, <4>6
    <3>5. FirstsAgree(w, Len(w), u, i)
      BY DEF Keeps
    <3> QED BY <3>3, <3>4, <3>5 DEF FirstsAgree
  <2> QED BY <2>1, <2>2
<1> QED BY <1>3, RestoredAlike

\* A lookahead's frame and what is above it go, but for the undo entries,
\* and those too when the stack was empty below it.
Left(s, t, u, r) ==
    /\ r = SubSeq(s, 1, t - 1) \o u
    /\ u = IF t = 1 THEN <<>> ELSE Undos(SubSeq(s, t + 1, Len(s)))

LEMMA LookaheadKept ==
    ASSUME NEW cap, NEW s, NEW b, Logged(cap, s, b), Resumable(s), NEW t \in 1 .. Len(s), IsFrame(s[t]),
           NEW u, NEW r, Left(s, t, u, r)
    PROVE  Logged(cap, r, s[t].bp) /\ Resumable(r) /\ Within(r, s[t].bp, s[t].pc)
<1> DEFINE w == SubSeq(s, t + 1, Len(s))
           a == SubSeq(s, 1, t - 1)
<1>1. IsSeq(s) /\ IsMap(cap) /\ Len(s) \in Nat /\ t \in Nat /\ t - 1 \in Nat /\ t <= Len(s)
  <2>1. IsSeq(s) /\ IsMap(cap)
    BY DEF Logged
  <2> QED BY <2>1, SeqIs
<1>2. IsSeq(a) /\ Len(a) = t - 1 /\ \A k \in 1 .. t - 1 : a[k] = s[k]
  BY <1>1, Below
<1>3. IsSeq(w) /\ Len(w) = Len(s) - t /\ \A k \in 1 .. Len(w) : w[k] = s[t + k]
  <2>1. IsSeq(w) /\ Len(w) = Len(s) - t /\ \A k \in 1 .. Len(s) - t : w[k] = s[t + k]
    BY <1>1, Above
  <2> HIDE DEF w
  <2> QED BY <2>1
<1>4. \A k \in 1 .. Len(w) : IsFrame(w[k]) \/ w[k].kind = "undo"
  <2> HIDE DEF w
  <2>1. \A k \in 1 .. Len(w) : t + k \in 1 .. Len(s)
    BY <1>1, <1>3
  <2> QED BY <1>3, <2>1 DEF Logged
<1> HIDE DEF w, a
<1>5. Keeps(w, Len(w), Undos(w))
  BY <1>3, <1>4, UndosKeep
<1>6. IsSeq(u) /\ Len(u) \in Nat /\ (\A k \in 1 .. Len(u) : u[k].kind = "undo") /\ (t # 1 => Keeps(w, Len(w), u))
  <2>1. CASE t = 1
    <3>1. <<>> \in Seq({}) /\ Len(<<>>) = 0
      OBVIOUS
    <3>2. u = <<>> /\ IsSeq(<<>>)
      BY <2>1, <3>1, SeqOver DEF Left
    <3> QED BY <2>1, <3>1, <3>2
  <2>2. CASE t # 1
    <3>1. u = Undos(w)
      BY <2>2 DEF Left, w
    <3> QED BY <1>5, <2>2, <3>1, SeqIs DEF Keeps
  <2> QED BY <2>1, <2>2
<1>7. Joined(r, s, t - 1, u)
  <2>1. Joined(a \o u, a, Len(a), u)
    BY <1>2, <1>6, ConcatJoined
  <2>2. r = a \o u
    BY DEF a, Left
  <2> HIDE DEF a
  <2> QED BY <1>2, <2>1, <2>2 DEF Joined
<1>8. /\ IsSeq(r) /\ Len(r) = t - 1 + Len(u) /\ Len(r) \in Nat /\ \A k \in 1 .. t - 1 : r[k] = s[k]
      /\ \A k \in 1 .. Len(u) : r[t - 1 + k].kind = "undo"
  <2>1. /\ IsSeq(r) /\ Len(r) = t - 1 + Len(u) /\ (\A k \in 1 .. t - 1 : r[k] = s[k])
        /\ \A k \in 1 .. Len(u) : r[t - 1 + k] = u[k]
    BY <1>7 DEF Joined
  <2>2. t - 1 + Len(u) \in Nat
    BY <1>1, <1>6
  <2> QED BY <1>6, <2>1, <2>2
<1>9. ASSUME NEW k \in 1 .. Len(r) PROVE k \in 1 .. t - 1 \/ r[k].kind = "undo"
  <2>1. k \in 1 .. t - 1 \/ (k - (t - 1) \in 1 .. Len(u) /\ t - 1 + (k - (t - 1)) = k)
    <3>1. t - 1 \in Nat /\ t \in Nat /\ Len(u) \in Nat /\ Len(r) = t - 1 + Len(u) /\ k \in 1 .. Len(r)
      BY <1>1, <1>6, <1>8
    <3>2. k \in Nat /\ k >= 1 /\ k <= t - 1 + Len(u)
      BY <3>1
    <3> QED BY <3>1, <3>2
  <2>2. CASE k - (t - 1) \in 1 .. Len(u) /\ t - 1 + (k - (t - 1)) = k
    <3>1. r[t - 1 + (k - (t - 1))].kind = "undo"
      BY <1>8, <2>2
    <3> QED BY <2>2, <3>1
  <2> QED BY <2>1, <2>2
<1>10. \A v \in 1 .. t - 1 : v \in 1 .. Len(s) /\ v - 1 \in Nat /\ \A k \in 1 .. v - 1 : k \in 1 .. t - 1
  BY <1>1
<1>11. ASSUME NEW v \in 1 .. Len(r), IsFrame(r[v])
       PROVE  Framed(r, r[v].bp, v - 1) /\ Restored(cap, r, v) = r[v].was /\ Within(r, v - 1, r[v].pc)
  <2>1. v \in 1 .. t - 1
    BY <1>9, <1>11 DEF IsFrame
  <2>2. r[v] = s[v] /\ IsFrame(s[v]) /\ v \in 1 .. Len(s) /\ v - 1 \in Nat
    BY <1>8, <1>10, <1>11, <2>1
  <2>3. Framed(s, s[v].bp, v - 1) /\ Restored(cap, s, v) = s[v].was /\ Within(s, v - 1, s[v].pc)
    BY <2>2 DEF Logged, Resumable
  <2>4. \A k \in 1 .. v - 1 : r[k] = s[k]
    BY <1>8, <1>10, <2>1
  <2>5. t # 1
    BY <1>1, <2>1
  <2>6. Restored(cap, r, v) = Restored(cap, s, v)
    BY <1>1, <1>3, <1>6, <1>7, <2>1, <2>5, RestoredKept
  <2>7. Framed(r, s[v].bp, v - 1)
    BY <2>2, <2>3, <2>4, FramedOf
  <2>8. Within(r, v - 1, s[v].pc)
    <3>1. Within(s, v - 1, s[v].pc)
      BY <2>3
    <3> QED BY <2>4, <3>1, WithinSame
  <2> QED BY <2>2, <2>3, <2>6, <2>7, <2>8
<1>12. /\ s[t].bp \in 0 .. t - 1 /\ (s[t].bp # 0 => IsFrame(s[s[t].bp]))
       /\ \A k \in s[t].bp + 1 .. t - 1 : s[k].kind = "undo"
  BY DEF Logged, Framed
<1>13. Framed(r, s[t].bp, Len(r))
  <2>1. /\ s[t].bp \in 0 .. Len(r) /\ (s[t].bp # 0 => s[t].bp \in 1 .. t - 1)
        /\ \A k \in s[t].bp + 1 .. Len(r) : k \in 1 .. Len(r) /\ (k \in 1 .. t - 1 => k \in s[t].bp + 1 .. t - 1)
    BY <1>1, <1>6, <1>8, <1>12
  <2>2. \A k \in s[t].bp + 1 .. Len(r) : r[k].kind = "undo"
    BY <1>8, <1>9, <1>12, <2>1
  <2> QED BY <1>8, <1>12, <2>1, <2>2 DEF Framed
<1>14. \A k \in 1 .. Len(r) : IsFrame(r[k]) \/ r[k].kind = "undo"
  BY <1>8, <1>9, <1>10 DEF Logged
<1>15. Logged(cap, r, s[t].bp)
  BY <1>1, <1>8, <1>11, <1>13, <1>14 DEF Logged
<1>16. Resumable(r)
  BY <1>11 DEF Resumable
<1>17. Within(r, s[t].bp, s[t].pc)
  <2>1. Within(s, t - 1, s[t].pc) /\ Framed(s, s[t].bp, t - 1)
    BY DEF Resumable, Logged
  <2>2. \A k \in 1 .. s[t].bp : r[k] = s[k]
    <3>1. \A k \in 1 .. s[t].bp : k \in 1 .. t - 1
      BY <1>1, <1>12
    <3> QED BY <1>8, <3>1
  <2> QED BY <1>1, <2>1, <2>2, WithinOf
<1> QED BY <1>15, <1>16, <1>17
-----------------------------------------------------------------------------
(* The steps.                                                              *)

LEMMA Carry ==
    ASSUME MInv, call' = call, Logged(capture', stack', bp'), Resumable(stack'),
           status' = "running" => Within(stack', bp', pc')
    PROVE  MInv'
BY DEF MInv, Resumable, Within, Code

\* From one instruction to another in the same body.
Flows(k, next) == next \in DOMAIN Code /\ Enclosing(Code, next) = Enclosing(Code, k)

LEMMA FlowWithin ==
    ASSUME NEW s, NEW b, NEW k, Within(s, b, k), NEW next, Flows(k, next)
    PROVE  Within(s, b, next)
BY DEF Within, Flows

LEMMA Running ==
    ASSUME MInv, status = "running"
    PROVE  /\ pc \in DOMAIN Code /\ WellFormed(Code) /\ Code[pc] = Instruction
           /\ Logged(capture, stack, bp) /\ Resumable(stack) /\ Within(stack, bp, pc)
           /\ IsSeq(Code)
<1>1. PICK n \in 1 .. Len(Calls) : call = Calls[n]
  BY DEF MInv
<1>2. Code \in {Calls[m].program.code : m \in 1 .. Len(Calls)}
  BY <1>1 DEF Code
<1>3. WellFormed(Code) /\ IsSeq(Code)
  BY <1>2, CallsAssumption DEF IsSeq
<1> QED BY <1>3 DEF MInv, Within, Instruction, Code

LEMMA NextFlows ==
    ASSUME MInv, status = "running",
           Instruction.op \notin {"goto", "lookahead", "match", "lookahead_match", "negative_lookahead_match"}
    PROVE  Flows(pc, pc + 1)
<1>1. pc + 1 \in Successors(Code, pc)
  <2>1. Code[pc].op \notin {"goto", "lookahead", "match", "lookahead_match", "negative_lookahead_match"}
    BY Running
  <2> QED BY <2>1 DEF Successors
<1> QED BY <1>1, Running DEF WellFormed, Flows

LEMMA JumpFlows ==
    ASSUME MInv, status = "running",
           Instruction.op \in {"goto", "lookahead", "split_next_first", "split_goto_first", "loop", "loop_split"}
    PROVE  Flows(pc, pc + 1 + Instruction.to)
<1>1. Code[pc] = Instruction
  BY Running
<1>2. pc + 1 + Instruction.to \in Successors(Code, pc)
  BY <1>1 DEF Successors
<1> QED BY <1>2, Running DEF WellFormed, Flows

LEMMA FailKeeps ==
    ASSUME MInv, NEW cap, NEW s, NEW b, Logged(cap, s, b), Resumable(s), Fail(cap, s, b)
    PROVE  MInv'
<1> DEFINE T == {t \in 1 .. b : IsFrame(s[t]) /\ s[t].type # "lookahead"}
<1>1. CASE T = {}
  <2>1. status' = "no match" /\ call' = call /\ capture' = capture /\ stack' = stack /\ bp' = bp
    BY <1>1 DEF Fail
  <2>2. Logged(capture', stack', bp') /\ Resumable(stack')
    BY <2>1 DEF MInv
  <2> QED BY <2>1, <2>2, Carry
<1>2. CASE T # {}
  <2>1. PICK t : t = Max(T)
    OBVIOUS
  <2>2. /\ capture' = Restored(cap, s, t) /\ bp' = s[t].bp /\ stack' = SubSeq(s, 1, t - 1)
        /\ pc' = s[t].pc /\ call' = call
    BY <1>2, <2>1 DEF Fail, Poll
  <2>3. b \in Nat /\ b <= Len(s) /\ Len(s) \in Nat
    BY FramesBelow
  <2>4. t \in T
    <3>1. T \in SUBSET (0 .. b)
      BY <2>3
    <3> HIDE DEF T
    <3> QED BY <1>2, <2>1, <2>3, <3>1, Greatest
  <2>5. t \in 1 .. Len(s) /\ IsFrame(s[t])
    BY <2>3, <2>4
  <2>6. /\ Logged(capture', stack', bp') /\ Resumable(stack') /\ Within(stack', bp', pc')
    BY <2>2, <2>5, Truncated
  <2> QED BY <2>2, <2>6, Carry
<1> QED BY <1>1, <1>2

\* The tests, which go on or fail, and the end.
LEMMA StayKeeps ==
    ASSUME MInv, UNCHANGED <<call, capture, stack, bp>>, status' = "running" => Within(stack, bp, pc')
    PROVE  MInv'
<1>1. Logged(capture', stack', bp') /\ Resumable(stack')
  BY DEF MInv
<1>2. status' = "running" => Within(stack', bp', pc')
  OBVIOUS
<1> QED BY <1>1, <1>2, Carry

LEMMA TestKeeps ==
    ASSUME MInv, status = "running",
           Instruction.op \notin {"goto", "lookahead", "match", "lookahead_match", "negative_lookahead_match"},
           NEW p, Advance(p) \/ GotoNoMatch
    PROVE  MInv'
<1>1. CASE Advance(p)
  <2>1. Within(stack, bp, pc + 1)
    BY Running, NextFlows, FlowWithin
  <2> QED BY <1>1, <2>1, StayKeeps DEF Advance, Go
<1>2. CASE GotoNoMatch
  BY <1>2, Running, FailKeeps DEF GotoNoMatch
<1> QED BY <1>1, <1>2

LEMMA RefusedKeeps ==
    ASSUME MInv, Refused
    PROVE  MInv'
BY StayKeeps DEF Refused

\* What sets captures or registers, and goes on somewhere.
Sets(c, u) ==
    /\ stack' = stack \o u /\ capture' = c
    /\ bp' = bp /\ call' = call

LEMMA SetKeeps ==
    ASSUME MInv, status = "running", NEW c, NEW u, Replaced(capture, stack, bp, c, u), Sets(c, u), Flows(pc, pc')
    PROVE  MInv'
<1>1. /\ Logged(capture, stack, bp) /\ Resumable(stack) /\ Within(stack, bp, pc) /\ IsSeq(stack) /\ IsSeq(u)
  BY Running DEF Logged, Replaced
<1>2. Joined(stack', stack, Len(stack), u)
  BY <1>1, ConcatJoined DEF Sets
<1>3. Logged(c, stack', bp) /\ Resumable(stack') /\ \A at : Within(stack, bp, at) => Within(stack', bp, at)
  BY <1>1, <1>2, UndosOn
<1>4. Within(stack', bp, pc')
  BY <1>1, <1>3, FlowWithin
<1> QED BY <1>3, <1>4, Carry DEF Sets

LEMMA SaveReplaces ==
    ASSUME NEW idx, NEW value, IsMap(capture)
    PROVE  Replaced(capture, stack, bp, [capture EXCEPT ![idx] = value], <<Undo(idx, capture[idx])>>)
<1> DEFINE c == [capture EXCEPT ![idx] = value]
           u == <<Undo(idx, capture[idx])>>
<1>1. IsSeq(u) /\ Len(u) = 1 /\ u[1] = Undo(idx, capture[idx])
  BY One
<1>2. u[1].kind = "undo" /\ u[1].idx = idx /\ u[1].old = capture[idx]
  BY <1>1 DEF Undo
<1>3. IsMap(c) /\ DOMAIN c = DOMAIN capture /\ \A i \in DOMAIN capture : i # idx => c[i] = capture[i]
  BY DEF IsMap
<1> HIDE DEF c, u
<1>4. \A k \in 1 .. Len(u) : k = 1
  BY <1>1
<1>5. 1 \in 1 .. Len(u)
  BY <1>1
<1>6. Replaced(capture, stack, bp, c, u)
  BY <1>1, <1>2, <1>3, <1>4, <1>5 DEF Replaced
<1> QED BY <1>6 DEF c, u

LEMMA EntriesReplace ==
    ASSUME NEW idx, NEW value, IsMap(capture)
    PROVE  Replaced(capture, stack, bp, [capture EXCEPT ![idx] = value], Entries(idx))
<1>1. CASE ~ SavedSince(idx)
  BY <1>1, SaveReplaces DEF Entries
<1>2. CASE SavedSince(idx)
  <2> DEFINE c == [capture EXCEPT ![idx] = value]
  <2>1. IsMap(c) /\ DOMAIN c = DOMAIN capture /\ \A i \in DOMAIN capture : i # idx => c[i] = capture[i]
    BY DEF IsMap
  <2> HIDE DEF c
  <2>2. <<>> \in Seq({}) /\ Len(<<>>) = 0 /\ 1 .. 0 = {}
    OBVIOUS
  <2>3. IsSeq(<<>>)
    BY <2>2, SeqOver
  <2>4. \E k \in bp + 1 .. Len(stack) : stack[k].idx = idx
    BY <1>2 DEF SavedSince
  <2>5. Replaced(capture, stack, bp, c, <<>>)
    BY <2>1, <2>2, <2>3, <2>4 DEF Replaced
  <2> QED BY <1>2, <2>5 DEF Entries, c
<1> QED BY <1>1, <1>2

LEMMA SaveKeeps ==
    ASSUME MInv, status = "running",
           Instruction.op \notin {"goto", "lookahead", "match", "lookahead_match", "negative_lookahead_match"},
           NEW idx, NEW value, Save(idx, value)
    PROVE  MInv'
<1>1. CASE Refused
  BY <1>1, RefusedKeeps
<1>2. CASE ~ Refused
  <2> DEFINE e == Undo(idx, capture[idx])
             c == [capture EXCEPT ![idx] = value]
  <2>1. stack' = Append(stack, e) /\ capture' = c /\ pc' = pc + 1 /\ bp' = bp /\ call' = call
    BY <1>2 DEF Save, Go
  <2>2. IsMap(capture) /\ IsSeq(stack) /\ Logged(capture, stack, bp) /\ Resumable(stack) /\ Within(stack, bp, pc)
    BY Running DEF Logged
  <2>3. Replaced(capture, stack, bp, c, <<e>>)
    BY <2>2, SaveReplaces
  <2>4. Joined(stack', stack, Len(stack), <<e>>)
    <3> HIDE DEF e
    <3>1. IsSeq(<<e>>) /\ Len(<<e>>) = 1 /\ <<e>>[1] = e
      BY One
    <3>2. /\ IsSeq(stack') /\ Len(stack') = Len(stack) + 1 /\ stack'[Len(stack) + 1] = e
          /\ \A k \in 1 .. Len(stack) : stack'[k] = stack[k]
      BY <2>1, <2>2, Pushed
    <3>3. \A k \in 1 .. 1 : k = 1
      OBVIOUS
    <3> QED BY <3>1, <3>2, <3>3 DEF Joined
  <2> HIDE DEF e, c
  <2>5. Logged(c, stack', bp) /\ Resumable(stack') /\ \A at : Within(stack, bp, at) => Within(stack', bp, at)
    BY <2>2, <2>3, <2>4, UndosOn
  <2>6. Within(stack', bp, pc')
    BY <2>1, <2>2, <2>5, NextFlows, FlowWithin
  <2> QED BY <2>1, <2>5, <2>6, Carry
<1> QED BY <1>1, <1>2

LEMMA SaveResetKeeps ==
    ASSUME MInv, SaveReset
    PROVE  MInv'
<1> DEFINE first == Place(Instruction.from)
           last == Place(Instruction.last) + 1
           n == last - first + 1
           u == [k \in 1 .. n |-> Undo(first + k - 1, capture[first + k - 1])]
           c == [i \in DOMAIN capture |-> IF i \in first .. last THEN Null ELSE capture[i]]
<1>1. status = "running" /\ Instruction.op = "save_reset"
  BY DEF SaveReset, Is
<1>2. CASE Refused
  BY <1>2, RefusedKeeps
<1>3. CASE ~ Refused
  <2>1. Sets(c, u) /\ pc' = pc + 1
    BY <1>3 DEF SaveReset, Go, Sets
  <2>2. Flows(pc, pc')
    BY <1>1, <2>1, NextFlows
  <2>3. first \in Nat /\ last \in Nat /\ n \in Nat /\ first <= last
    <3>1. Instruction.from \in Nat /\ Instruction.last \in Nat /\ Instruction.from <= Instruction.last
      BY <1>1, Running DEF WellFormed
    <3> QED BY <3>1 DEF Place
  <2>4. IsSeq(u) /\ Len(u) = n
    <3> DEFINE S == {u[k] : k \in 1 .. n}
    <3>1. u \in [1 .. n -> S]
      OBVIOUS
    <3> HIDE DEF u, S
    <3>2. u \in Seq(S) /\ Len(u) = n
      BY <2>3, <3>1
    <3> QED BY <3>2, SeqOver
  <2>5. \A k \in 1 .. n : u[k].kind = "undo" /\ u[k].idx = first + k - 1 /\ u[k].old = capture[first + k - 1]
    BY DEF Undo
  <2>6. IsMap(c) /\ DOMAIN c = DOMAIN capture /\ \A i \in DOMAIN capture : i \notin first .. last => c[i] = capture[i]
    BY DEF IsMap
  <2>7. \A i \in first .. last : i - first + 1 \in 1 .. n /\ first + (i - first + 1) - 1 = i
    BY <2>3
  <2> HIDE DEF u, c, n, first, last
  <2>8. \A i \in first .. last : u[i - first + 1].idx = i
    BY <2>5, <2>7
  <2>9. Replaced(capture, stack, bp, c, u)
    BY <2>4, <2>5, <2>6, <2>7, <2>8 DEF Replaced
  <2> QED BY <1>1, <2>1, <2>2, <2>9, SetKeeps
<1> QED BY <1>2, <1>3

LEMMA SetRegisterKeeps ==
    ASSUME MInv, SetRegister
    PROVE  MInv'
<1> DEFINE idx == Register(Instruction.reg)
           value == IF Instruction.op = "set_i32" THEN Instruction.n ELSE cptr
           c == [capture EXCEPT ![idx] = value]
<1>1. status = "running" /\ Instruction.op \in {"set_i32", "set_char_pos"}
  BY DEF SetRegister
<1>2. CASE Refused
  BY <1>2, RefusedKeeps
<1>3. CASE ~ Refused
  <2>1. Sets(c, Entries(idx)) /\ pc' = pc + 1
    BY <1>3 DEF SetRegister, Go, Sets
  <2>2. Flows(pc, pc')
    BY <1>1, <2>1, NextFlows
  <2>3. Replaced(capture, stack, bp, c, Entries(idx))
    BY <1>1, Running, EntriesReplace DEF Logged
  <2> QED BY <1>1, <2>1, <2>2, <2>3, SetKeeps
<1> QED BY <1>2, <1>3

LEMMA LoopKeeps ==
    ASSUME MInv, Loop
    PROVE  MInv'
<1> DEFINE idx == Register(Instruction.reg)
           left == capture[idx] - 1
           c == [capture EXCEPT ![idx] = left]
<1>1. status = "running" /\ Instruction.op = "loop"
  BY DEF Loop, Is
<1>2. CASE Refused
  BY <1>2, RefusedKeeps
<1>3. CASE ~ Refused
  <2>1. Sets(c, Entries(idx)) /\ (pc' = pc + 1 \/ pc' = pc + 1 + Instruction.to)
    BY <1>3 DEF Loop, Go, Poll, Sets
  <2>2. Flows(pc, pc')
    BY <1>1, <2>1, NextFlows, JumpFlows
  <2>3. Replaced(capture, stack, bp, c, Entries(idx))
    BY <1>1, Running, EntriesReplace DEF Logged
  <2> QED BY <1>1, <2>1, <2>2, <2>3, SetKeeps
<1> QED BY <1>2, <1>3

\* A choice leaves a frame.
LEMMA SplitToKeeps ==
    ASSUME MInv, NEW s, NEW c, Logged(c, s, bp), Resumable(s), NEW first, NEW other,
           Within(s, bp, first), Within(s, bp, other), SplitTo(s, c, first, other),
           capture' = c, call' = call
    PROVE  MInv'
<1> DEFINE f == [Frame("split", other) EXCEPT !.was = c]
<1>1. stack' = Append(s, f) /\ bp' = Len(s) + 1 /\ pc' = first
  BY DEF SplitTo, Go
<1>2. IsFrame(f) /\ f.was = c /\ f.bp = bp /\ f.pc = other
  BY DEF Frame, IsFrame
<1> HIDE DEF f
<1>3. /\ Logged(c, stack', bp') /\ Resumable(stack') /\ \A at : Within(s, bp, at) => Within(stack', bp', at)
  BY <1>1, <1>2, FrameOn
<1>4. Within(stack', bp', pc')
  BY <1>1, <1>3
<1> QED BY <1>3, <1>4, Carry

LEMMA SplitKeeps ==
    ASSUME MInv, Split
    PROVE  MInv'
<1> DEFINE there == pc + 1 + Instruction.to
<1>1. CASE Refused
  BY <1>1, RefusedKeeps
<1>2. CASE ~ Refused
  <2>1. /\ status = "running" /\ Instruction.op \in {"split_next_first", "split_goto_first"}
        /\ SplitTo(stack, capture, pc + 1, there) \/ SplitTo(stack, capture, there, pc + 1)
        /\ capture' = capture /\ call' = call
    BY <1>2 DEF Split, Is
  <2>2. Flows(pc, pc + 1) /\ Flows(pc, there)
    BY <2>1, NextFlows, JumpFlows
  <2> HIDE DEF there
  <2>3. Within(stack, bp, pc + 1) /\ Within(stack, bp, there) /\ Logged(capture, stack, bp) /\ Resumable(stack)
    BY <2>1, <2>2, Running, FlowWithin
  <2> QED BY <2>1, <2>3, SplitToKeeps
<1> QED BY <1>1, <1>2

LEMMA LoopSplitKeeps ==
    ASSUME MInv, LoopSplit
    PROVE  MInv'
<1> DEFINE idx == Register(Instruction.reg)
           left == capture[idx] - 1
           c == [capture EXCEPT ![idx] = left]
           u == Entries(idx)
           saved == stack \o u
           again == pc + 1 + Instruction.to
<1>1. status = "running" /\ Instruction.op = "loop_split"
  BY DEF LoopSplit, Is
<1>2. Flows(pc, pc + 1) /\ Flows(pc, again)
  BY <1>1, NextFlows, JumpFlows
<1>3. /\ Logged(capture, stack, bp) /\ Resumable(stack) /\ Within(stack, bp, pc) /\ IsMap(capture) /\ IsSeq(stack)
  BY <1>1, Running DEF Logged
<1>4. Replaced(capture, stack, bp, c, u)
  BY <1>3, EntriesReplace
<1>5. Joined(saved, stack, Len(stack), u)
  BY <1>3, <1>4, ConcatJoined DEF Replaced
<1>6. \/ Refused
      \/ stack' = saved /\ capture' = c /\ bp' = bp /\ call' = call /\ (pc' = pc + 1 \/ pc' = again)
      \/ Fail(c, saved, bp)
      \/ /\ capture' = c /\ call' = call
         /\ SplitTo(saved, c, again, pc + 1) \/ SplitTo(saved, c, pc + 1, again)
  BY DEF LoopSplit, Poll, Go
<1> HIDE DEF c, u, saved, again
<1>7. Logged(c, saved, bp) /\ Resumable(saved) /\ \A at : Within(stack, bp, at) => Within(saved, bp, at)
  BY <1>3, <1>4, <1>5, UndosOn
<1>8. Within(saved, bp, pc + 1) /\ Within(saved, bp, again)
  BY <1>2, <1>3, <1>7, FlowWithin
<1>9. CASE stack' = saved /\ capture' = c /\ bp' = bp /\ call' = call /\ (pc' = pc + 1 \/ pc' = again)
  BY <1>7, <1>8, <1>9, Carry
<1>10. CASE Fail(c, saved, bp)
  BY <1>7, <1>10, FailKeeps
<1>11. CASE /\ capture' = c /\ call' = call
            /\ SplitTo(saved, c, again, pc + 1) \/ SplitTo(saved, c, pc + 1, again)
  BY <1>7, <1>8, <1>11, SplitToKeeps
<1> QED BY <1>6, <1>9, <1>10, <1>11, RefusedKeeps

LEMMA LookaheadKeeps ==
    ASSUME MInv, Lookahead
    PROVE  MInv'
<1> DEFINE f == Frame(IF Instruction.negative THEN "negative" ELSE "lookahead", pc + 1 + Instruction.to)
<1>1. status = "running" /\ Instruction.op = "lookahead"
  BY DEF Lookahead, Is
<1>2. CASE Refused
  BY <1>2, RefusedKeeps
<1>3. CASE ~ Refused
  <2>1. stack' = Append(stack, f) /\ bp' = Len(stack) + 1 /\ pc' = pc + 1 /\ call' = call /\ capture' = capture
    BY <1>3 DEF Lookahead, Go
  <2>2. /\ IsFrame(f) /\ f.was = capture /\ f.bp = bp /\ f.pc = pc + 1 + Instruction.to
        /\ f.type = IF Instruction.negative THEN "negative" ELSE "lookahead"
    BY DEF Frame, IsFrame
  <2>3. /\ Logged(capture, stack, bp) /\ Resumable(stack) /\ Within(stack, bp, pc) /\ IsSeq(stack)
        /\ pc \in DOMAIN Code /\ WellFormed(Code) /\ Code[pc] = Instruction
    BY <1>1, Running DEF Logged
  <2>4. Within(stack, bp, f.pc)
    BY <1>1, <2>2, <2>3, JumpFlows, FlowWithin
  <2>5. Code[pc].op = "lookahead" => pc + 1 \in DOMAIN Code /\ Enclosing(Code, pc + 1) = pc
    BY <2>3 DEF WellFormed
  <2>6. f.type = Kind(Code, pc)
    BY <2>2, <2>3 DEF Kind
  <2> HIDE DEF f
  <2>7. /\ Logged(capture', stack', bp') /\ Resumable(stack')
    BY <2>1, <2>2, <2>3, <2>4, FrameOn
  <2>8. Len(stack) \in Nat /\ stack'[Len(stack) + 1] = f
    BY <2>1, <2>3, Pushed, SeqIs
  <2>9. Len(stack) + 1 \in 1 .. Len(stack) + 1
    BY <2>8
  <2>10. Within(stack', bp', pc')
    BY <1>1, <2>1, <2>2, <2>3, <2>5, <2>6, <2>8, <2>9 DEF Within
  <2> QED BY <2>1, <2>7, <2>10, Carry
<1> QED BY <1>2, <1>3

\* The end of a lookahead has its frame.
LEMMA EnclosingFrame ==
    ASSUME MInv, status = "running", NEW type,
           \/ Instruction.op = "lookahead_match" /\ type = "lookahead"
           \/ Instruction.op = "negative_lookahead_match" /\ type = "negative",
           NEW t, t = Max({k \in 1 .. bp : IsFrame(stack[k]) /\ stack[k].type = type})
    PROVE  t \in 1 .. Len(stack) /\ IsFrame(stack[t])
<1> DEFINE T == {k \in 1 .. bp : IsFrame(stack[k]) /\ stack[k].type = type}
           e == Enclosing(Code, pc)
<1>1. /\ pc \in DOMAIN Code /\ WellFormed(Code) /\ Code[pc] = Instruction
      /\ Logged(capture, stack, bp) /\ Within(stack, bp, pc)
  BY Running
<1>2. e # 0 /\ (Code[e].negative <=> Instruction.op = "negative_lookahead_match")
  BY <1>1 DEF WellFormed
<1>3. Kind(Code, e) = type
  <2> HIDE DEF e
  <2> QED BY <1>2 DEF Kind
<1>4. T # {}
  BY <1>1, <1>2, <1>3 DEF Within
<1>5. bp \in Nat /\ bp <= Len(stack) /\ Len(stack) \in Nat
  BY <1>1, FramesBelow
<1>6. T \in SUBSET (0 .. bp)
  BY <1>5
<1>7. t \in T
  <2> HIDE DEF T
  <2>1. t = Max(T)
    BY DEF T
  <2> QED BY <1>4, <1>5, <1>6, <2>1, Greatest
<1> QED BY <1>5, <1>7

LEMMA LookaheadMatchKeeps ==
    ASSUME MInv, LookaheadMatch
    PROVE  MInv'
<1>1. PICK t : t = Max({k \in 1 .. bp : IsFrame(stack[k]) /\ stack[k].type = "lookahead"})
  OBVIOUS
<1> DEFINE u == IF t = 1 THEN <<>> ELSE Undos(SubSeq(stack, t + 1, Len(stack)))
<1>2. /\ status = "running" /\ Instruction.op = "lookahead_match"
      /\ bp' = stack[t].bp /\ stack' = SubSeq(stack, 1, t - 1) \o u /\ pc' = stack[t].pc
      /\ call' = call /\ capture' = capture
  BY <1>1 DEF LookaheadMatch, Is, Go
<1>3. t \in 1 .. Len(stack) /\ IsFrame(stack[t])
  BY <1>1, <1>2, EnclosingFrame
<1>4. Left(stack, t, u, stack')
  BY <1>2 DEF Left
<1> HIDE DEF u
<1>5. Logged(capture, stack, bp) /\ Resumable(stack)
  BY DEF MInv
<1>6. Logged(capture', stack', bp') /\ Resumable(stack') /\ Within(stack', bp', pc')
  BY <1>2, <1>3, <1>4, <1>5, LookaheadKept
<1> QED BY <1>2, <1>6, Carry

LEMMA NegativeKeeps ==
    ASSUME MInv, NegativeLookaheadMatch
    PROVE  MInv'
<1>1. PICK t : t = Max({k \in 1 .. bp : IsFrame(stack[k]) /\ stack[k].type = "negative"})
  OBVIOUS
<1>2. /\ status = "running" /\ Instruction.op = "negative_lookahead_match"
      /\ Fail(Restored(capture, stack, t), SubSeq(stack, 1, t - 1), stack[t].bp)
  BY <1>1 DEF NegativeLookaheadMatch, Is
<1>3. t \in 1 .. Len(stack) /\ IsFrame(stack[t])
  BY <1>1, <1>2, EnclosingFrame
<1>4. Logged(capture, stack, bp) /\ Resumable(stack)
  BY DEF MInv
<1>5. Logged(Restored(capture, stack, t), SubSeq(stack, 1, t - 1), stack[t].bp) /\ Resumable(SubSeq(stack, 1, t - 1))
  BY <1>3, <1>4, Truncated
<1> QED BY <1>2, <1>5, FailKeeps

LEMMA GotoKeeps ==
    ASSUME MInv, Goto
    PROVE  MInv'
<1>1. /\ status = "running" /\ Instruction.op = "goto" /\ pc' = pc + 1 + Instruction.to
      /\ UNCHANGED <<call, capture, stack, bp>>
  BY DEF Goto, Is, Poll
<1>2. Within(stack, bp, pc')
  BY <1>1, Running, JumpFlows, FlowWithin
<1> QED BY <1>1, <1>2, StayKeeps

LEMMA MatchKeeps ==
    ASSUME MInv, Match
    PROVE  MInv'
BY StayKeeps DEF Match

LEMMA TestsKeep ==
    ASSUME MInv, Character \/ PrevChar \/ LineStart \/ LineEnd \/ WordBoundary \/ CheckAdvance \/ BackReference
    PROVE  MInv'
<1>1. CASE Character
  <2>1. \E p : Advance(p) \/ GotoNoMatch
    BY <1>1 DEF Character
  <2>2. status = "running" /\ Instruction.op \in {"char", "range", "range32", "dot", "any", "space", "not_space"}
    BY <1>1 DEF Character
  <2> QED BY <2>1, <2>2, TestKeeps
<1>2. CASE PrevChar
  <2>1. (\E p : Advance(p) \/ GotoNoMatch) /\ status = "running" /\ Instruction.op = "prev"
    BY <1>2 DEF PrevChar, Is
  <2> QED BY <2>1, TestKeeps
<1>3. CASE LineStart
  <2>1. (\E p : Advance(p) \/ GotoNoMatch) /\ status = "running" /\ Instruction.op = "line_start"
    BY <1>3 DEF LineStart, Is, Test
  <2> QED BY <2>1, TestKeeps
<1>4. CASE LineEnd
  <2>1. (\E p : Advance(p) \/ GotoNoMatch) /\ status = "running" /\ Instruction.op = "line_end"
    BY <1>4 DEF LineEnd, Is, Test
  <2> QED BY <2>1, TestKeeps
<1>5. CASE WordBoundary
  <2>1. (\E p : Advance(p) \/ GotoNoMatch) /\ status = "running" /\ Instruction.op = "word_boundary"
    BY <1>5 DEF WordBoundary, Is, Test
  <2> QED BY <2>1, TestKeeps
<1>6. CASE CheckAdvance
  <2>1. (\E p : Advance(p) \/ GotoNoMatch) /\ status = "running" /\ Instruction.op = "check_advance"
    BY <1>6 DEF CheckAdvance, Is, Test
  <2> QED BY <2>1, TestKeeps
<1>7. CASE BackReference
  <2>1. (\E p : Advance(p) \/ GotoNoMatch) /\ status = "running" /\ Instruction.op = "back_reference"
    BY <1>7 DEF BackReference, Is
  <2> QED BY <2>1, TestKeeps
<1> QED BY <1>1, <1>2, <1>3, <1>4, <1>5, <1>6, <1>7

LEMMA SavesKeep ==
    ASSUME MInv, SaveStart \/ SaveEnd
    PROVE  MInv'
<1>1. \E idx : Save(idx, cptr) /\ status = "running" /\ Instruction.op \in {"save_start", "save_end"}
  BY DEF SaveStart, SaveEnd, Is
<1> QED BY <1>1, SaveKeeps
-----------------------------------------------------------------------------
(* The theorems.                                                           *)

LEMMA MInit == Init => MInv
<1> SUFFICES ASSUME Init PROVE MInv
  OBVIOUS
<1>1. /\ \E n \in 1 .. Len(Calls) : call = Calls[n]
      /\ pc = 1 /\ stack = <<>> /\ bp = 0
  BY DEF Init
<1>2. WellFormed(Code) /\ IsSeq(Code)
  <2>1. PICK n \in 1 .. Len(Calls) : call = Calls[n]
    BY <1>1
  <2>2. Code \in {Calls[m].program.code : m \in 1 .. Len(Calls)}
    BY <2>1 DEF Code
  <2> QED BY <2>2, CallsAssumption DEF IsSeq
<1>3. IsMap(capture)
  BY DEF Init, IsMap
<1>4. <<>> \in Seq({}) /\ Len(<<>>) = 0 /\ 1 .. 0 = {}
  OBVIOUS
<1>5. IsSeq(<<>>)
  BY <1>4, SeqOver
<1>6. Logged(capture, stack, bp) /\ Resumable(stack)
  BY <1>1, <1>3, <1>4, <1>5 DEF Logged, Framed, Resumable
<1>7. Enclosing(Code, 1) = 0
  BY DEF Enclosing
<1>8. Within(stack, bp, pc)
  BY <1>1, <1>2, <1>7 DEF Within, WellFormed
<1> QED BY <1>1, <1>6, <1>8 DEF MInv

LEMMA MStep == MInv /\ [Next]_vars => MInv'
<1> SUFFICES ASSUME MInv, [Next]_vars PROVE MInv'
  OBVIOUS
<1>1. CASE Next
  BY <1>1, MatchKeeps, LookaheadMatchKeeps, NegativeKeeps, TestsKeep, SavesKeep, SaveResetKeeps,
     SetRegisterKeeps, LoopKeeps, LoopSplitKeeps, GotoKeeps, SplitKeeps, LookaheadKeeps DEF Next
<1>2. CASE UNCHANGED vars
  <2>1. UNCHANGED <<call, capture, stack, bp>> /\ pc' = pc /\ status' = status
    BY <1>2 DEF vars
  <2> QED BY <2>1, StayKeeps DEF MInv
<1> QED BY <1>1, <1>2

\* Every frame of the stack can be gone back to with the captures it was
\* pushed with, and the end of a lookahead finds the lookahead's frame
\* (lre_exec_backtrack of native/quickjs/libregexp.c).
THEOREM MatcherInvariant == Spec => []MInv
BY MInit, MStep, PTL DEF Spec

\* Whatever a match has set since a frame was pushed, in loops, resets and
\* lookaheads, going back to the frame restores the captures and registers
\* (no_match and SAVE_CAPTURE_CHECK of native/quickjs/libregexp.c).
THEOREM BacktrackingRestores == Spec => []UndoRestores
<1>1. MInv => UndoRestores
  <2> SUFFICES ASSUME MInv, bp # 0 PROVE Restored(capture, stack, bp) = stack[bp].was
    BY DEF UndoRestores
  <2>1. Logged(capture, stack, bp) /\ bp \in Nat /\ bp <= Len(stack) /\ Len(stack) \in Nat /\ IsFrame(stack[bp])
    BY FramesBelow DEF MInv, Logged, Framed
  <2>2. bp \in 1 .. Len(stack)
    BY <2>1
  <2> QED BY <2>1, <2>2 DEF Logged
<1> QED BY <1>1, MatcherInvariant, PTL
-----------------------------------------------------------------------------
(* PART TWO: tickets, the cache, the scratch buffer.                       *)
-----------------------------------------------------------------------------

Entry == [pattern : Pattern, handle : Nat, generation : Nat]
RegexRecord ==
    [pattern : Pattern, slot : Nat, ticket : Nat, lastIndex : Nat \union {Valued}, writable : BOOLEAN]
Texts == Subject \union {Unused}

BackendType(b) ==
    /\ b = [entries |-> b.entries, used |-> b.used, generations |-> b.generations,
            compiled |-> b.compiled, loadedTag |-> b.loadedTag, scratch |-> b.scratch]
    /\ b.entries \in Seq(Entry) /\ b.used \in Seq(Nat) /\ b.generations \in Nat
    /\ b.compiled \in [DOMAIN b.compiled -> Pattern]
    /\ b.loadedTag \in {<<>>} \union (Nat \X SubjectCell) /\ b.scratch \in Texts

\* The slots' uses are of slots, each has one, and so the slot the next
\* eviction takes is one.
UsesEach(b) ==
    /\ Len(b.used) = Len(b.entries)
    /\ \A i \in DOMAIN b.used : b.used[i] \in DOMAIN b.entries
    /\ \A s \in DOMAIN b.entries : \E i \in DOMAIN b.used : b.used[i] = s

\* Every entry is of a compilation of its own.
Generations(b) ==
    /\ \A s \in DOMAIN b.entries :
          /\ b.entries[s].generation \in 1 .. b.generations
          /\ b.entries[s].handle = b.entries[s].generation
    /\ \A s, t \in DOMAIN b.entries : b.entries[s].generation = b.entries[t].generation => s = t

Handles(b) == {b.entries[i].handle : i \in DOMAIN b.entries}

Compiled(b) ==
    /\ DOMAIN b.compiled = Handles(b)
    /\ \A i \in DOMAIN b.entries : b.compiled[b.entries[i].handle] = b.entries[i].pattern

BackendInv(b) ==
    BackendType(b) /\ UsesEach(b) /\ Generations(b) /\ Compiled(b) /\ Len(b.entries) <= CacheLimit

\* An object's ticket is of a compilation that was, and while the slot has
\* it, of the object's pattern.
Ticketed(b, o) ==
    /\ o.ticket \in 1 .. b.generations
    /\ o.slot \in DOMAIN b.entries /\ b.entries[o.slot].generation = o.ticket
          => b.entries[o.slot].pattern = o.pattern

\* A tag of now names what the scratch buffer holds.
TagHolds(b) ==
    \A k \in Nat, h \in SubjectCell :
        b.loadedTag = <<k, h>> => k <= sweeps /\ (k = sweeps => subjects[h] = b.scratch /\ b.scratch \in Subject)

TypeInv ==
    /\ regexes \in [Regex -> RegexRecord \union {NoRegex}]
    /\ subjects \in [SubjectCell -> Texts]
    /\ sweeps \in Nat
    /\ execs \in Seq([of : Regex, subject : SubjectCell, known : BOOLEAN])

ObjectsInv == \A r \in Regex : regexes[r] # NoRegex => Ticketed(backend, regexes[r])

WaitingInv ==
    \A i \in DOMAIN execs :
        regexes[execs[i].of] # NoRegex /\ subjects[execs[i].subject] # Unused

IInv == TypeInv /\ BackendInv(backend) /\ ObjectsInv /\ TagHolds(backend) /\ WaitingInv

\* What an execution took to be writable still is.
KnownWritable == \A i \in DOMAIN execs : execs[i].known => regexes[execs[i].of].writable
-----------------------------------------------------------------------------
(* The backend's operations.                                               *)

LEMMA RemoveAtProperties ==
    ASSUME NEW S, NEW s \in Seq(S), NEW at \in DOMAIN s
    PROVE  /\ RemoveAt(s, at) \in Seq(S)
           /\ Len(RemoveAt(s, at)) = Len(s) - 1
           /\ \A i \in 1 .. Len(s) - 1 : RemoveAt(s, at)[i] = IF i < at THEN s[i] ELSE s[i + 1]
<1>1. /\ Len(s) \in Nat /\ DOMAIN s = 1 .. Len(s) /\ at \in 1 .. Len(s)
      /\ \A i \in 1 .. Len(s) : s[i] \in S
  BY LenProperties
<1> DEFINE front == SubSeq(s, 1, at - 1)
           back == SubSeq(s, at + 1, Len(s))
<1>2. /\ front \in Seq(S) /\ Len(front) = at - 1
      /\ \A i \in 1 .. at - 1 : front[i] = s[i]
  BY <1>1, SubSeqProperties
<1>3. /\ back \in Seq(S) /\ Len(back) = Len(s) - at
      /\ \A i \in 1 .. Len(s) - at : back[i] = s[at + i]
  BY <1>1, SubSeqProperties
<1>4. RemoveAt(s, at) = front \o back
  BY DEF RemoveAt
<1> HIDE DEF front, back
<1>5. /\ front \o back \in Seq(S)
      /\ Len(front \o back) = Len(front) + Len(back)
      /\ \A i \in 1 .. Len(front) + Len(back) :
            (front \o back)[i] = IF i <= Len(front) THEN front[i] ELSE back[i - Len(front)]
  BY <1>2, <1>3, ConcatProperties
<1>6. ASSUME NEW i \in 1 .. Len(s) - 1
      PROVE  (front \o back)[i] = IF i < at THEN s[i] ELSE s[i + 1]
  <2>1. CASE i < at
    BY <1>1, <1>2, <1>3, <1>5, <2>1
  <2>2. CASE ~(i < at)
    <3>1. (front \o back)[i] = back[i - (at - 1)]
      <4>1. i \in 1 .. Len(front) + Len(back) /\ ~(i <= Len(front))
        BY <1>1, <1>2, <1>3, <2>2
      <4> QED BY <1>2, <1>5, <4>1
    <3>2. i - (at - 1) \in 1 .. Len(s) - at /\ at + (i - (at - 1)) = i + 1
      BY <1>1, <2>2
    <3>3. back[i - (at - 1)] = s[at + (i - (at - 1))]
      BY <1>3, <3>2
    <3> QED BY <2>2, <3>1, <3>2, <3>3
  <2> QED BY <2>1, <2>2
<1> QED
  BY <1>1, <1>2, <1>3, <1>4, <1>5, <1>6, SMTT(60)

\* A use of a slot changes nothing else, and every slot still has its use.
LEMMA UseProperties ==
    ASSUME NEW b, BackendType(b), UsesEach(b), NEW slot \in DOMAIN b.entries
    PROVE  /\ BackendType(Use(b, slot)) /\ UsesEach(Use(b, slot))
           /\ Use(b, slot).entries = b.entries /\ Use(b, slot).generations = b.generations
           /\ Use(b, slot).compiled = b.compiled
           /\ Use(b, slot).loadedTag = b.loadedTag /\ Use(b, slot).scratch = b.scratch
<1> DEFINE n == Len(b.used)
           at == CHOOSE i \in DOMAIN b.used : b.used[i] = slot
           rest == RemoveAt(b.used, at)
           used == Append(rest, slot)
<1>1. /\ b.used \in Seq(Nat) /\ n \in Nat /\ DOMAIN b.used = 1 .. n
      /\ Len(b.entries) = n /\ DOMAIN b.entries = 1 .. n
  BY LenProperties DEF BackendType, UsesEach
<1>2. at \in DOMAIN b.used /\ b.used[at] = slot
  BY DEF UsesEach
<1> HIDE DEF at
<1>3. /\ rest \in Seq(Nat) /\ Len(rest) = n - 1
      /\ \A i \in 1 .. n - 1 : rest[i] = IF i < at THEN b.used[i] ELSE b.used[i + 1]
  BY <1>1, <1>2, RemoveAtProperties
<1> HIDE DEF rest
<1>4. /\ used \in Seq(Nat) /\ Len(used) = (n - 1) + 1
      /\ \A i \in 1 .. n - 1 : used[i] = rest[i]
      /\ used[(n - 1) + 1] = slot
  BY <1>1, <1>3, AppendProperties
<1>5. Use(b, slot) = [b EXCEPT !.used = used]
  BY DEF Use, used, rest, at
<1>6. Use(b, slot) = [entries |-> b.entries, used |-> used, generations |-> b.generations,
                      compiled |-> b.compiled, loadedTag |-> b.loadedTag, scratch |-> b.scratch]
  BY <1>5 DEF BackendType
<1> HIDE DEF used, n
<1>7. /\ (n - 1) + 1 = n /\ n > 0 /\ slot \in 1 .. n /\ at \in 1 .. n
      /\ DOMAIN used = 1 .. n /\ used[n] = slot
  BY <1>1, <1>2, <1>4, LenProperties
<1>8. \A i \in 1 .. n : used[i] \in 1 .. n
  <2>1. \A i \in 1 .. n : b.used[i] \in 1 .. n
    BY <1>1 DEF UsesEach
  <2>2. ASSUME NEW i \in 1 .. n - 1 PROVE used[i] \in 1 .. n
    <3>1. i \in 1 .. n /\ i + 1 \in 1 .. n
      BY <1>1
    <3>2. rest[i] \in 1 .. n
      BY <1>3, <2>1, <3>1
    <3> QED BY <1>4, <3>2
  <2> QED BY <1>1, <1>7, <2>2
<1>9. ASSUME NEW s \in 1 .. n PROVE \E i \in 1 .. n : used[i] = s
  <2>1. PICK j \in 1 .. n : b.used[j] = s
    BY <1>1 DEF UsesEach
  <2>2. CASE s = slot
    BY <1>1, <1>7, <2>2
  <2>3. CASE s # slot /\ j < at
    <3>1. j \in 1 .. n - 1
      BY <1>1, <1>7, <2>3
    <3>2. used[j] = s
      BY <1>3, <1>4, <2>1, <2>3, <3>1
    <3> QED BY <1>1, <3>1, <3>2
  <2>4. CASE s # slot /\ ~(j < at)
    <3>1. j > at /\ j - 1 \in 1 .. n - 1
      BY <1>1, <1>2, <1>7, <2>1, <2>4, SMTT(60)
    <3>2. used[j - 1] = s
      <4>1. used[j - 1] = b.used[(j - 1) + 1]
        BY <1>1, <1>3, <1>4, <1>7, <3>1
      <4> QED BY <2>1, <4>1
    <3> QED BY <1>1, <3>1, <3>2
  <2> QED BY <2>2, <2>3, <2>4
<1>10. UsesEach(Use(b, slot))
  <2>1. Use(b, slot).used = used /\ Use(b, slot).entries = b.entries
    BY <1>6
  <2> QED BY <1>1, <1>4, <1>7, <1>8, <1>9, <2>1 DEF UsesEach
<1> QED
  BY <1>4, <1>6, <1>10 DEF BackendType

\* A backend come from another by compilations and uses: what a ticket of
\* before names is what it named, or nothing.
Extends(b, c) ==
    /\ b.generations <= c.generations
    /\ \A s \in DOMAIN c.entries :
          c.entries[s].generation <= b.generations
              => s \in DOMAIN b.entries /\ c.entries[s] = b.entries[s]

\* A new entry in a slot, the entries of other slots and their compiled
\* patterns untouched.
LEMMA NewEntry ==
    ASSUME NEW b, BackendInv(b), NEW p \in Pattern, NEW c, NEW slot \in DOMAIN c.entries,
           BackendType(c), c.generations = b.generations + 1,
           c.entries[slot] = [pattern |-> p, handle |-> c.generations, generation |-> c.generations],
           \A s \in DOMAIN c.entries \ {slot} : s \in DOMAIN b.entries /\ c.entries[s] = b.entries[s],
           DOMAIN c.compiled = Handles(c), c.compiled[c.generations] = p,
           \A s \in DOMAIN c.entries \ {slot} :
               c.compiled[b.entries[s].handle] = b.compiled[b.entries[s].handle]
    PROVE  Generations(c) /\ Compiled(c) /\ Extends(b, c)
<1>1. b.generations \in Nat /\ c.generations \in Nat
  BY DEF BackendInv, BackendType
<1>2. /\ c.entries[slot].generation = c.generations /\ c.entries[slot].handle = c.generations
      /\ c.entries[slot].pattern = p
  OBVIOUS
<1>3. ASSUME NEW s \in DOMAIN c.entries \ {slot}
      PROVE  /\ s \in DOMAIN b.entries /\ c.entries[s] = b.entries[s]
             /\ c.entries[s].generation \in 1 .. b.generations
             /\ c.entries[s].handle = c.entries[s].generation
             /\ c.compiled[c.entries[s].handle] = c.entries[s].pattern
  BY DEF BackendInv, Generations, Compiled
<1>4. Generations(c)
  <2>1. ASSUME NEW s \in DOMAIN c.entries
        PROVE  /\ c.entries[s].generation \in 1 .. c.generations
               /\ c.entries[s].handle = c.entries[s].generation
    BY <1>1, <1>2, <1>3
  <2>2. ASSUME NEW s \in DOMAIN c.entries, NEW t \in DOMAIN c.entries,
               c.entries[s].generation = c.entries[t].generation
        PROVE  s = t
    <3>1. CASE s = slot \/ t = slot
      BY <1>1, <1>2, <1>3, <2>2, <3>1
    <3>2. CASE s # slot /\ t # slot
      BY <1>3, <2>2, <3>2 DEF BackendInv, Generations
    <3> QED BY <3>1, <3>2
  <2> QED BY <2>1, <2>2 DEF Generations
<1>5. Compiled(c)
  BY <1>2, <1>3 DEF Compiled
<1>6. Extends(b, c)
  BY <1>1, <1>2, <1>3 DEF Extends
<1> QED BY <1>4, <1>5, <1>6

\* A pattern not in the cache is compiled and takes a slot.
LEMMA EnterProperties ==
    ASSUME NEW b, BackendInv(b), NEW p \in Pattern
    PROVE  LET g == b.generations + 1
               loaded == [b EXCEPT !.loadedTag = <<>>, !.scratch = Unused]
               made == Enter(ReCompile([loaded EXCEPT !.generations = g], g, p),
                             [pattern |-> p, handle |-> g, generation |-> g])
           IN  /\ BackendInv(made) /\ Extends(b, made) /\ SlotHolding(made, p) # {}
               /\ made.loadedTag = <<>>
<1> DEFINE g == b.generations + 1
           n == Len(b.entries)
           entry == [pattern |-> p, handle |-> g, generation |-> g]
           loaded == [b EXCEPT !.loadedTag = <<>>, !.scratch = Unused]
           compiled == [h \in DOMAIN b.compiled \union {g} |-> IF h = g THEN p ELSE b.compiled[h]]
           fresh == ReCompile([loaded EXCEPT !.generations = g], g, p)
           made == Enter(fresh, entry)
<1>1. fresh = [entries |-> b.entries, used |-> b.used, generations |-> g,
               compiled |-> compiled, loadedTag |-> <<>>, scratch |-> Unused]
  <2> DEFINE untagged == [b EXCEPT !.loadedTag = <<>>]
             started == [loaded EXCEPT !.generations = g]
  <2>1. untagged = [entries |-> b.entries, used |-> b.used, generations |-> b.generations,
                    compiled |-> b.compiled, loadedTag |-> <<>>, scratch |-> b.scratch]
    BY DEF BackendInv, BackendType
  <2>2. loaded = [untagged EXCEPT !.scratch = Unused]
    OBVIOUS
  <2> HIDE DEF untagged, loaded
  <2>3. loaded = [entries |-> b.entries, used |-> b.used, generations |-> b.generations,
                  compiled |-> b.compiled, loadedTag |-> <<>>, scratch |-> Unused]
    BY <2>1, <2>2
  <2>4. started = [entries |-> b.entries, used |-> b.used, generations |-> g,
                   compiled |-> b.compiled, loadedTag |-> <<>>, scratch |-> Unused]
    BY <2>3
  <2> HIDE DEF started
  <2>5. ReCompile(started, g, p) = [started EXCEPT !.compiled = compiled]
    BY <2>4 DEF ReCompile
  <2> HIDE DEF compiled
  <2> QED BY <2>4, <2>5 DEF started, loaded
<1>2. /\ b.entries \in Seq(Entry) /\ n \in Nat /\ DOMAIN b.entries = 1 .. n
      /\ b.used \in Seq(Nat) /\ Len(b.used) = n /\ DOMAIN b.used = 1 .. n
      /\ b.generations \in Nat /\ g \in Nat /\ entry \in Entry
  BY LenProperties DEF BackendInv, BackendType, UsesEach, Entry
<1>3. /\ compiled \in [DOMAIN compiled -> Pattern] /\ DOMAIN compiled = Handles(b) \union {g}
      /\ compiled[g] = p /\ \A h \in Handles(b) : h # g => compiled[h] = b.compiled[h]
  BY DEF BackendInv, BackendType, Compiled
<1>4. \A s \in DOMAIN b.entries :
          b.entries[s].handle \in Handles(b) /\ b.entries[s].handle # g
  BY <1>2 DEF BackendInv, Generations, Handles
<1> HIDE DEF compiled, entry, fresh
<1>5. entry.pattern = p /\ entry.handle = g /\ entry.generation = g
  BY DEF entry
<1> SUFFICES BackendInv(made) /\ Extends(b, made) /\ SlotHolding(made, p) # {} /\ made.loadedTag = <<>>
  BY DEF entry, fresh
<1>6. CASE n < CacheLimit
  <2> DEFINE entries == Append(b.entries, entry)
             used == Append(b.used, n + 1)
  <2>1. made = [entries |-> entries, used |-> used, generations |-> g,
                compiled |-> compiled, loadedTag |-> <<>>, scratch |-> Unused]
    <3>1. fresh.entries = b.entries /\ fresh.used = b.used
      BY <1>1
    <3>2. made = [fresh EXCEPT !.entries = entries, !.used = used]
      BY <1>6, <3>1 DEF Enter
    <3> QED BY <1>1, <3>2
  <2>2. /\ entries \in Seq(Entry) /\ Len(entries) = n + 1 /\ DOMAIN entries = 1 .. n + 1
        /\ entries[n + 1] = entry /\ \A i \in 1 .. n : entries[i] = b.entries[i]
    BY <1>2, AppendProperties, LenProperties
  <2>3. /\ used \in Seq(Nat) /\ Len(used) = n + 1 /\ DOMAIN used = 1 .. n + 1
        /\ used[n + 1] = n + 1 /\ \A i \in 1 .. n : used[i] = b.used[i]
    BY <1>2, AppendProperties, LenProperties, SMTT(60)
  <2> HIDE DEF entries, used, made
  <2>4. BackendType(made)
    BY <1>2, <1>3, <2>1, <2>2, <2>3 DEF BackendType, Texts
  <2>5. UsesEach(made)
    <3>1. \A i \in 1 .. n + 1 : used[i] \in 1 .. n + 1
      <4> SUFFICES ASSUME NEW i \in 1 .. n + 1 PROVE used[i] \in 1 .. n + 1
        OBVIOUS
      <4>1. CASE i = n + 1
        BY <1>2, <2>3, <4>1
      <4>2. CASE i \in 1 .. n
        <5>1. b.used[i] \in 1 .. n
          BY <1>2, <4>2 DEF BackendInv, UsesEach
        <5> QED BY <1>2, <2>3, <4>2, <5>1
      <4> QED BY <1>2, <4>1, <4>2
    <3>2. \A s \in 1 .. n + 1 : \E i \in 1 .. n + 1 : used[i] = s
      <4> SUFFICES ASSUME NEW s \in 1 .. n + 1 PROVE \E i \in 1 .. n + 1 : used[i] = s
        OBVIOUS
      <4>1. CASE s = n + 1
        BY <1>2, <2>3, <4>1
      <4>2. CASE s \in 1 .. n
        <5>1. PICK i \in 1 .. n : b.used[i] = s
          BY <1>2, <4>2 DEF BackendInv, UsesEach
        <5> QED BY <1>2, <2>3, <5>1
      <4> QED BY <1>2, <4>1, <4>2, SMTT(60)
    <3> QED BY <2>1, <2>2, <2>3, <3>1, <3>2 DEF UsesEach
  <2>6. /\ made.generations = b.generations + 1 /\ made.entries = entries /\ made.compiled = compiled
        /\ n + 1 \in DOMAIN made.entries
        /\ made.entries[n + 1] = [pattern |-> p, handle |-> made.generations, generation |-> made.generations]
    BY <1>2, <2>1, <2>2 DEF entry
  <2>7. \A s \in DOMAIN made.entries \ {n + 1} : s \in DOMAIN b.entries /\ made.entries[s] = b.entries[s]
    BY <1>2, <2>2, <2>6, SMTT(60)
  <2>8. DOMAIN made.compiled = Handles(made)
    <3>1. Handles(made) \subseteq Handles(b) \union {g}
      BY <1>4, <1>5, <2>2, <2>6, <2>7 DEF Handles
    <3>2. g \in Handles(made)
      BY <1>5, <2>2, <2>6 DEF Handles
    <3>3. Handles(b) \subseteq Handles(made)
      <4> SUFFICES ASSUME NEW s \in DOMAIN b.entries PROVE b.entries[s].handle \in Handles(made)
        BY DEF Handles
      <4>1. s \in DOMAIN made.entries /\ made.entries[s] = b.entries[s]
        BY <1>2, <2>2, <2>6
      <4> QED BY <4>1 DEF Handles
    <3> QED BY <1>3, <2>6, <3>1, <3>2, <3>3
  <2>9. Generations(made) /\ Compiled(made) /\ Extends(b, made)
    <3>1. made.compiled[made.generations] = p
      BY <1>3, <2>6
    <3>2. \A s \in DOMAIN made.entries \ {n + 1} :
              made.compiled[b.entries[s].handle] = b.compiled[b.entries[s].handle]
      BY <1>3, <1>4, <2>6, <2>7
    <3> QED BY <2>4, <2>6, <2>7, <2>8, <3>1, <3>2, NewEntry
  <2>10. SlotHolding(made, p) # {} /\ made.loadedTag = <<>>
    BY <2>1, <2>6 DEF SlotHolding
  <2>11. Len(made.entries) <= CacheLimit
    BY <1>2, <1>6, <2>2, <2>6, RegExpExecAssumption
  <2> QED BY <2>4, <2>5, <2>9, <2>10, <2>11 DEF BackendInv
<1>7. CASE ~(n < CacheLimit)
  <2> DEFINE victim == Head(b.used)
             dead == b.entries[victim].handle
             kept == [h \in DOMAIN compiled \ {dead} |-> compiled[h]]
             entries == [b.entries EXCEPT ![victim] = entry]
             freed == Free(fresh, dead)
             taken == [freed EXCEPT !.entries = entries]
  <2>1. n > 0 /\ victim \in 1 .. n
    <3>1. n > 0
      BY <1>2, <1>7, RegExpExecAssumption
    <3>2. victim = b.used[1]
      BY <1>2, <3>1
    <3> QED BY <1>2, <3>1, <3>2 DEF BackendInv, UsesEach
  <2> HIDE DEF victim
  <2>2. taken = [entries |-> entries, used |-> b.used, generations |-> g,
                 compiled |-> kept, loadedTag |-> <<>>, scratch |-> Unused]
    <3>1. freed = [entries |-> b.entries, used |-> b.used, generations |-> g,
                   compiled |-> kept, loadedTag |-> <<>>, scratch |-> Unused]
      BY <1>1 DEF Free
    <3> HIDE DEF freed, kept, entries
    <3> QED BY <3>1
  <2>3. made = Use(taken, victim)
    <3>1. fresh.entries = b.entries /\ fresh.used = b.used
      BY <1>1
    <3>2. freed.entries = b.entries
      BY <1>1 DEF Free
    <3> QED BY <1>7, <3>1, <3>2 DEF Enter, victim
  <2>4. /\ entries \in Seq(Entry) /\ Len(entries) = n /\ DOMAIN entries = 1 .. n
        /\ \A j \in 1 .. n : entries[j] = IF j = victim THEN entry ELSE b.entries[j]
    BY <1>2, <2>1, ExceptSeq, LenProperties
  <2>5. /\ DOMAIN kept = (Handles(b) \union {g}) \ {dead} /\ kept \in [DOMAIN kept -> Pattern]
        /\ dead \in Handles(b) /\ dead # g
        /\ kept[g] = p /\ \A h \in Handles(b) \ {dead} : kept[h] = b.compiled[h]
    <3>1. dead \in Handles(b) /\ dead # g
      BY <1>2, <1>4, <2>1
    <3> HIDE DEF dead
    <3>2. /\ DOMAIN kept = DOMAIN compiled \ {dead}
          /\ \A h \in DOMAIN compiled \ {dead} : kept[h] = compiled[h] /\ kept[h] \in Pattern
      BY <1>3
    <3>3. kept \in [DOMAIN kept -> Pattern]
      BY <3>2
    <3> HIDE DEF kept
    <3>4. \A h \in Handles(b) : h # g
      BY <1>4 DEF Handles
    <3>5. kept[g] = p
      BY <1>3, <3>1, <3>2
    <3>6. \A h \in Handles(b) \ {dead} : kept[h] = b.compiled[h]
      BY <1>3, <3>2, <3>4
    <3> HIDE DEF kept
    <3> QED BY <1>3, <3>1, <3>2, <3>3, <3>5, <3>6
  <2> HIDE DEF entries, kept, dead, taken, made
  <2>6. BackendType(taken)
    BY <1>2, <2>2, <2>4, <2>5 DEF BackendType, Texts
  <2>7. UsesEach(taken)
    BY <1>2, <2>2, <2>4 DEF BackendInv, UsesEach
  <2>8. /\ BackendType(made) /\ UsesEach(made) /\ made.entries = entries
        /\ made.generations = b.generations + 1 /\ made.compiled = kept
        /\ made.loadedTag = <<>>
    <3>1. /\ victim \in DOMAIN taken.entries /\ taken.entries = entries /\ taken.generations = g
          /\ taken.compiled = kept /\ taken.loadedTag = <<>>
      BY <2>1, <2>2, <2>4
    <3> QED BY <2>3, <2>6, <2>7, <3>1, UseProperties
  <2>9. /\ victim \in DOMAIN made.entries
        /\ made.entries[victim] = [pattern |-> p, handle |-> made.generations, generation |-> made.generations]
    BY <2>1, <2>4, <2>8 DEF entry
  <2>10. \A s \in DOMAIN made.entries \ {victim} :
            /\ s \in DOMAIN b.entries /\ made.entries[s] = b.entries[s]
            /\ b.entries[s].handle \in Handles(b) \ {dead}
    <3> SUFFICES ASSUME NEW s \in 1 .. n, s # victim
                 PROVE  entries[s] = b.entries[s] /\ b.entries[s].handle \in Handles(b) \ {dead}
      BY <1>2, <2>4, <2>8
    <3>1. entries[s] = b.entries[s]
      BY <2>4
    <3>2. b.entries[s].handle # dead
      BY <1>2, <2>1 DEF BackendInv, Generations, dead
    <3> QED BY <1>2, <1>4, <3>1, <3>2
  <2>11. DOMAIN made.compiled = Handles(made)
    <3>1. Handles(made) \subseteq DOMAIN kept
      <4> SUFFICES ASSUME NEW s \in DOMAIN made.entries PROVE made.entries[s].handle \in DOMAIN kept
        BY DEF Handles
      <4>1. CASE s = victim
        BY <2>5, <2>8, <2>9, <4>1
      <4>2. CASE s # victim
        BY <2>5, <2>10, <4>2
      <4> QED BY <4>1, <4>2
    <3>2. g \in Handles(made)
      BY <2>8, <2>9 DEF Handles
    <3>3. Handles(b) \ {dead} \subseteq Handles(made)
      <4> SUFFICES ASSUME NEW s \in DOMAIN b.entries, b.entries[s].handle # dead
                   PROVE  b.entries[s].handle \in Handles(made)
        BY DEF Handles
      <4>1. s \in DOMAIN made.entries \ {victim}
        BY <1>2, <2>4, <2>8 DEF dead
      <4> QED BY <2>10, <4>1 DEF Handles
    <3> QED BY <2>5, <2>8, <3>1, <3>2, <3>3
  <2>12. Generations(made) /\ Compiled(made) /\ Extends(b, made)
    <3>1. made.compiled[made.generations] = p
      BY <2>5, <2>8
    <3>2. \A s \in DOMAIN made.entries \ {victim} :
              made.compiled[b.entries[s].handle] = b.compiled[b.entries[s].handle]
      BY <2>5, <2>8, <2>10
    <3> QED BY <2>8, <2>9, <2>10, <2>11, <3>1, <3>2, NewEntry
  <2>13. SlotHolding(made, p) # {}
    BY <2>9 DEF SlotHolding
  <2>14. Len(made.entries) <= CacheLimit
    BY <2>4, <2>8 DEF BackendInv
  <2> QED BY <2>8, <2>12, <2>13, <2>14 DEF BackendInv
<1> QED BY <1>6, <1>7

\* What a compilation comes to.
CompiledTo(b, p, made) ==
    /\ BackendInv(made.b) /\ Extends(b, made.b)
    /\ made.slot = 0 \/ (made.slot \in DOMAIN made.b.entries /\ made.b.entries[made.slot].pattern = p)
    /\ made.b.loadedTag = <<>> \/ (made.b.loadedTag = b.loadedTag /\ made.b.scratch = b.scratch)

LEMMA ExtendsSame ==
    ASSUME NEW b, BackendInv(b), NEW c, c.entries = b.entries, c.generations = b.generations
    PROVE  Extends(b, c)
BY DEF BackendInv, BackendType, Extends

LEMMA UseKeeps ==
    ASSUME NEW b, BackendInv(b), NEW slot \in DOMAIN b.entries
    PROVE  /\ BackendInv(Use(b, slot)) /\ Extends(b, Use(b, slot))
           /\ Use(b, slot).entries = b.entries
           /\ Use(b, slot).loadedTag = b.loadedTag /\ Use(b, slot).scratch = b.scratch
<1> DEFINE used == Use(b, slot)
<1>1. /\ BackendType(used) /\ UsesEach(used)
      /\ used.entries = b.entries /\ used.generations = b.generations /\ used.compiled = b.compiled
      /\ used.loadedTag = b.loadedTag /\ used.scratch = b.scratch
  BY UseProperties DEF BackendInv
<1> HIDE DEF used
<1>2. BackendInv(used)
  BY <1>1 DEF BackendInv, Generations, Compiled, Handles
<1>3. Extends(b, used)
  BY <1>1, ExtendsSame
<1> QED BY <1>1, <1>2, <1>3 DEF used

\* The scratch buffer written: nothing of the cache changes.
Loaded(b, tag, text) == [b EXCEPT !.loadedTag = tag, !.scratch = text]

LEMMA LoadKeeps ==
    ASSUME NEW b, BackendInv(b), NEW tag \in {<<>>} \union (Nat \X SubjectCell), NEW text \in Texts
    PROVE  /\ BackendInv(Loaded(b, tag, text)) /\ Extends(b, Loaded(b, tag, text))
           /\ Loaded(b, tag, text).entries = b.entries /\ Loaded(b, tag, text).compiled = b.compiled
           /\ Loaded(b, tag, text).loadedTag = tag /\ Loaded(b, tag, text).scratch = text
<1> DEFINE tagged == [b EXCEPT !.loadedTag = tag]
           loaded == Loaded(b, tag, text)
<1>1. tagged = [entries |-> b.entries, used |-> b.used, generations |-> b.generations,
                compiled |-> b.compiled, loadedTag |-> tag, scratch |-> b.scratch]
  BY SMTT(60) DEF BackendInv, BackendType
<1>2. loaded = [tagged EXCEPT !.scratch = text]
  BY DEF Loaded
<1> HIDE DEF tagged, loaded
<1>3. loaded = [entries |-> b.entries, used |-> b.used, generations |-> b.generations,
                compiled |-> b.compiled, loadedTag |-> tag, scratch |-> text]
  BY <1>1, <1>2
<1>4. /\ loaded.entries = b.entries /\ loaded.used = b.used /\ loaded.generations = b.generations
      /\ loaded.compiled = b.compiled /\ loaded.loadedTag = tag /\ loaded.scratch = text
  BY <1>3
<1>5. BackendType(loaded)
  BY <1>3, <1>4 DEF BackendInv, BackendType
<1>6. BackendInv(loaded)
  BY <1>4, <1>5 DEF BackendInv, UsesEach, Generations, Compiled, Handles
<1>7. Extends(b, loaded)
  BY <1>4, ExtendsSame
<1> QED BY <1>4, <1>6, <1>7 DEF loaded

LEMMA CompileProperties ==
    ASSUME NEW b, BackendInv(b), NEW p \in Pattern, NEW made \in Compile(b, p)
    PROVE  CompiledTo(b, p, made)
<1>1. CASE SlotHolding(b, p) # {}
  <2> DEFINE slot == CHOOSE i \in SlotHolding(b, p) : TRUE
  <2>1. made = [b |-> Use(b, slot), slot |-> slot]
    BY <1>1 DEF Compile
  <2>2. slot \in SlotHolding(b, p)
    BY <1>1
  <2> HIDE DEF slot
  <2>3. slot \in DOMAIN b.entries /\ b.entries[slot].pattern = p
    BY <2>2 DEF SlotHolding
  <2>4. made.b = Use(b, slot) /\ made.slot = slot
    BY <2>1
  <2> QED BY <2>3, <2>4, UseKeeps DEF CompiledTo
<1>2. CASE SlotHolding(b, p) = {}
  <2> DEFINE loaded == [b EXCEPT !.loadedTag = <<>>, !.scratch = Unused]
             g == b.generations + 1
             entered == Enter(ReCompile([loaded EXCEPT !.generations = g], g, p),
                              [pattern |-> p, handle |-> g, generation |-> g])
             slot == CHOOSE i \in SlotHolding(entered, p) : TRUE
  <2>1. made \in {[b |-> loaded, slot |-> 0], [b |-> entered, slot |-> slot]}
    BY <1>2 DEF Compile
  <2>2. /\ BackendInv(entered) /\ Extends(b, entered) /\ SlotHolding(entered, p) # {}
        /\ entered.loadedTag = <<>>
    BY EnterProperties
  <2>3. BackendInv(loaded) /\ Extends(b, loaded) /\ loaded.loadedTag = <<>>
    <3>1. <<>> \in {<<>>} \union (Nat \X SubjectCell) /\ Unused \in Texts
      BY DEF Texts
    <3>2. loaded = Loaded(b, <<>>, Unused)
      BY DEF Loaded
    <3> QED BY <3>1, <3>2, LoadKeeps
  <2> HIDE DEF loaded, entered
  <2>4. slot \in DOMAIN entered.entries /\ entered.entries[slot].pattern = p
    BY <2>2 DEF SlotHolding
  <2> HIDE DEF slot
  <2>5. CASE made = [b |-> loaded, slot |-> 0]
    <3>1. made.b = loaded /\ made.slot = 0
      BY <2>5
    <3>2. BackendInv(made.b) /\ Extends(b, made.b) /\ made.b.loadedTag = <<>>
      BY <2>3, <3>1
    <3> QED BY <3>1, <3>2 DEF CompiledTo
  <2>6. CASE made = [b |-> entered, slot |-> slot]
    <3>1. made.b = entered /\ made.slot = slot
      BY <2>6
    <3>2. BackendInv(made.b) /\ Extends(b, made.b) /\ made.b.loadedTag = <<>>
      BY <2>2, <3>1
    <3>3. made.slot \in DOMAIN made.b.entries /\ made.b.entries[made.slot].pattern = p
      BY <2>4, <3>1
    <3> QED BY <3>1, <3>2, <3>3 DEF CompiledTo
  <2> QED BY <2>1, <2>5, <2>6
<1> QED BY <1>1, <1>2

LEMMA RegexpEntryProperties ==
    ASSUME NEW b, BackendInv(b), NEW o, o.pattern \in Pattern, Ticketed(b, o),
           NEW made \in RegexpEntry(b, o)
    PROVE  CompiledTo(b, o.pattern, made)
<1>1. CASE Ticket(b, o.slot) = o.ticket
  <2>1. made = [b |-> b, slot |-> o.slot]
    BY <1>1 DEF RegexpEntry
  <2>2. made.b = b /\ made.slot = o.slot
    BY <2>1
  <2>3. o.slot \in DOMAIN b.entries /\ b.entries[o.slot].pattern = o.pattern
    BY <1>1 DEF Ticketed, Ticket
  <2>4. Extends(b, b)
    BY ExtendsSame
  <2> QED BY <2>2, <2>3, <2>4 DEF CompiledTo
<1>2. CASE Ticket(b, o.slot) # o.ticket
  BY <1>2, CompileProperties DEF RegexpEntry
<1> QED BY <1>1, <1>2
-----------------------------------------------------------------------------
(* An execution.                                                           *)

LEMMA TagKept ==
    ASSUME NEW b, NEW c, TagHolds(b),
           c.loadedTag = <<>> \/ (c.loadedTag = b.loadedTag /\ c.scratch = b.scratch)
    PROVE  TagHolds(c)
<1> SUFFICES ASSUME NEW k \in Nat, NEW h \in SubjectCell, c.loadedTag = <<k, h>>
             PROVE  k <= sweeps /\ (k = sweeps => subjects[h] = c.scratch /\ c.scratch \in Subject)
  BY DEF TagHolds
<1>1. <<k, h>> # <<>>
  OBVIOUS
<1> QED BY <1>1 DEF TagHolds

\* A match is of the object's own pattern on the text given.
Found(o, h, from) ==
    <<[pattern |-> o.pattern, text |-> subjects[h], from |-> from,
       end |-> MatchEnd[o.pattern][subjects[h]][from]]>>

RawOf(o, h, from, raw) ==
    /\ BackendInv(raw.b) /\ Extends(backend, raw.b) /\ TagHolds(raw.b)
    /\ raw.slot # 0 => raw.slot \in DOMAIN raw.b.entries /\ raw.b.entries[raw.slot].pattern = o.pattern
    /\ raw.found = <<>> \/ (raw.slot # 0 /\ raw.found = Found(o, h, from))

LEMMA ExecRawProperties ==
    ASSUME TypeInv, BackendInv(backend), TagHolds(backend),
           NEW o, o.pattern \in Pattern, Ticketed(backend, o),
           NEW h \in SubjectCell, subjects[h] \in Subject, NEW from, NEW raw \in ExecRaw(o, h, from)
    PROVE  RawOf(o, h, from, raw)
<1> DEFINE loaded(e) == IF e.b.loadedTag = Tag(h) THEN e.b ELSE Loaded(e.b, Tag(h), subjects[h])
           ran(e) == {[b |-> Use(loaded(e), e.slot), slot |-> e.slot, found |-> found] :
                         found \in ReExec(loaded(e), e.slot, from)}
           outcomes(e) == IF e.slot = 0 THEN {Raised(e.b, 0)} ELSE {Raised(e.b, e.slot)} \union ran(e)
<1>1. PICK e \in RegexpEntry(backend, o) : raw \in outcomes(e)
  BY DEF ExecRaw, Loaded
<1>2. CompiledTo(backend, o.pattern, e)
  BY RegexpEntryProperties
<1>3. TagHolds(e.b)
  BY <1>2, TagKept DEF CompiledTo
<1>4. CASE raw = Raised(e.b, e.slot)
  <2>1. raw.b = e.b /\ raw.slot = e.slot /\ raw.found = <<>>
    BY <1>4 DEF Raised
  <2> QED BY <1>2, <1>3, <2>1 DEF RawOf, CompiledTo
<1>5. CASE e.slot # 0 /\ raw \in ran(e)
  <2> DEFINE l == loaded(e)
  <2>1. PICK found \in ReExec(l, e.slot, from) : raw = [b |-> Use(l, e.slot), slot |-> e.slot, found |-> found]
    BY <1>5
  <2>2. e.slot \in DOMAIN e.b.entries /\ e.b.entries[e.slot].pattern = o.pattern /\ BackendInv(e.b)
    BY <1>2, <1>5 DEF CompiledTo
  <2>3. Tag(h) = <<sweeps, h>> /\ sweeps \in Nat /\ subjects[h] \in Texts
    BY DEF Tag, TypeInv, Texts
  <2>4. /\ BackendInv(l) /\ Extends(e.b, l) /\ l.entries = e.b.entries
        /\ l.loadedTag = <<sweeps, h>> /\ l.scratch = subjects[h]
    <3>1. CASE e.b.loadedTag = Tag(h)
      <4>1. l = e.b
        BY <3>1
      <4>2. e.b.scratch = subjects[h]
        BY <1>3, <2>3, <3>1 DEF TagHolds
      <4>3. Extends(e.b, e.b)
        BY <2>2, ExtendsSame
      <4> QED BY <2>2, <2>3, <3>1, <4>1, <4>2, <4>3
    <3>2. CASE e.b.loadedTag # Tag(h)
      <4>1. l = Loaded(e.b, Tag(h), subjects[h])
        BY <3>2
      <4>2. Tag(h) \in {<<>>} \union (Nat \X SubjectCell)
        BY <2>3
      <4> QED BY <2>2, <2>3, <4>1, <4>2, LoadKeeps
    <3> QED BY <3>1, <3>2
  <2> HIDE DEF l
  <2>5. TagHolds(l)
    <3> SUFFICES ASSUME NEW k \in Nat, NEW g \in SubjectCell, l.loadedTag = <<k, g>>
                 PROVE  k <= sweeps /\ (k = sweeps => subjects[g] = l.scratch /\ l.scratch \in Subject)
      BY DEF TagHolds
    <3>1. k = sweeps /\ g = h
      BY <2>4
    <3> QED BY <2>3, <2>4, <3>1
  <2> DEFINE u == Use(l, e.slot)
  <2>6. /\ BackendInv(u) /\ Extends(l, u) /\ u.entries = l.entries
        /\ u.loadedTag = l.loadedTag /\ u.scratch = l.scratch
    BY <2>2, <2>4, UseKeeps
  <2> HIDE DEF u
  <2>7. TagHolds(u)
    BY <2>5, <2>6, TagKept
  <2>8. Extends(backend, u)
    <3>1. Extends(backend, e.b)
      BY <1>2 DEF CompiledTo
    <3>2. /\ backend.generations \in Nat /\ e.b.generations \in Nat /\ l.generations \in Nat
          /\ u.generations \in Nat
      BY <2>2, <2>4, <2>6 DEF BackendInv, BackendType
    <3>3. u.entries = e.b.entries
      BY <2>4, <2>6
    <3>4. backend.generations <= u.generations
      BY <2>4, <2>6, <3>1, <3>2 DEF Extends
    <3> QED BY <3>1, <3>3, <3>4 DEF Extends
  <2>9. found = <<>> \/ found = Found(o, h, from)
    <3>1. l.compiled[l.entries[e.slot].handle] = o.pattern
      BY <2>2, <2>4 DEF BackendInv, Compiled
    <3> QED BY <2>4, <3>1 DEF ReExec, Found
  <2>10. raw.b = u /\ raw.slot = e.slot /\ raw.found = found
    BY <2>1 DEF u
  <2> QED BY <1>5, <2>2, <2>4, <2>6, <2>7, <2>8, <2>9, <2>10 DEF RawOf
<1>6. CASE e.slot = 0
  BY <1>1, <1>4, <1>6
<1> QED BY <1>1, <1>4, <1>5, <1>6

LEMMA NoRegexIsNone == \A o \in RegexRecord : o # NoRegex
BY RegExpExecAssumption DEF RegexRecord

SettledAs(settled, r, raw, last) ==
    /\ settled \in [Regex -> RegexRecord \union {NoRegex}]
    /\ \A q \in Regex \ {r} : settled[q] = regexes[q]
    /\ settled[r] \in RegexRecord
    /\ settled[r].pattern = regexes[r].pattern /\ settled[r].writable = regexes[r].writable
    /\ settled[r].lastIndex = last
    /\ settled[r].slot = IF raw.slot = 0 THEN regexes[r].slot ELSE raw.slot
    /\ settled[r].ticket = IF raw.slot = 0 THEN regexes[r].ticket ELSE Ticket(raw.b, raw.slot)

LEMMA SettledProperties ==
    ASSUME regexes \in [Regex -> RegexRecord \union {NoRegex}], NEW r \in Regex, regexes[r] # NoRegex,
           NEW raw, NEW last \in Nat \union {Valued},
           raw.slot # 0 => raw.slot \in Nat /\ Ticket(raw.b, raw.slot) \in Nat
    PROVE  SettledAs(Settled(r, raw, last), r, raw, last)
<1> DEFINE slot == IF raw.slot = 0 THEN regexes[r].slot ELSE raw.slot
           ticket == IF raw.slot = 0 THEN regexes[r].ticket ELSE Ticket(raw.b, raw.slot)
           o == [regexes[r] EXCEPT !.slot = slot, !.ticket = ticket, !.lastIndex = last]
           settled == Settled(r, raw, last)
<1>1. regexes[r] \in RegexRecord
  OBVIOUS
<1>2. slot \in Nat /\ ticket \in Nat
  BY <1>1 DEF RegexRecord
<1>3. settled = [regexes EXCEPT ![r] = o]
  BY DEF Settled
<1> HIDE DEF slot, ticket
<1>4. /\ o \in RegexRecord
      /\ o.pattern = regexes[r].pattern /\ o.writable = regexes[r].writable /\ o.lastIndex = last
      /\ o.slot = slot /\ o.ticket = ticket
  BY <1>1, <1>2 DEF RegexRecord
<1> HIDE DEF o, settled
<1>5. /\ settled \in [Regex -> RegexRecord \union {NoRegex}]
      /\ \A q \in Regex \ {r} : settled[q] = regexes[q]
      /\ settled[r] = o
  BY <1>3, <1>4
<1> QED BY <1>4, <1>5 DEF settled, slot, ticket, SettledAs

\* What an execution with its index comes to: refused, or what the
\* standard has it find and store.  `known` alone can have it store in a
\* read-only lastIndex.
MatchedAs(r, h, known, index) ==
    LET o == regexes[r]
        global == o.pattern \in Global
        from == IF global THEN index ELSE 0
        end == IF from > SubjectLength[subjects[h]] THEN NoMatch ELSE MatchEnd[o.pattern][subjects[h]][from]
        next == IF end = NoMatch THEN 0 ELSE end
    IN  \/ result' = <<"thrown">> /\ regexes'[r].lastIndex = o.lastIndex
        \/ /\ ~global \/ o.writable \/ known
           /\ result' = IF end = NoMatch THEN <<"null">> ELSE <<"match", o.pattern, subjects[h], from>>
           /\ regexes'[r].lastIndex = IF global THEN next ELSE o.lastIndex

ExecutedAs(r, h, known, index) ==
    /\ regexes' \in [Regex -> RegexRecord \union {NoRegex}]
    /\ \A q \in Regex \ {r} : regexes'[q] = regexes[q]
    /\ regexes'[r] \in RegexRecord
    /\ regexes'[r].pattern = regexes[r].pattern /\ regexes'[r].writable = regexes[r].writable
    /\ Ticketed(backend', regexes'[r]) /\ Extends(backend, backend')
    /\ BackendInv(backend') /\ TagHolds(backend')
    /\ MatchedAs(r, h, known, index)

LEMMA BuiltinMatchProperties ==
    ASSUME TypeInv, BackendInv(backend), TagHolds(backend), ObjectsInv,
           NEW r \in Regex, regexes[r] # NoRegex, NEW h \in SubjectCell, subjects[h] # Unused,
           NEW known \in BOOLEAN, NEW index \in Nat, BuiltinMatch(r, h, known, index)
    PROVE  ExecutedAs(r, h, known, index)
<1> DEFINE o == regexes[r]
           global == o.pattern \in Global
           from == IF global THEN index ELSE 0
           text == subjects[h]
           end == MatchEnd[o.pattern][text][from]
<1>1. /\ o \in RegexRecord /\ Ticketed(backend, o) /\ text \in Subject /\ from \in Nat
      /\ regexes \in [Regex -> RegexRecord \union {NoRegex}]
      /\ o.lastIndex \in Nat \union {Valued} /\ o.pattern \in Pattern /\ o.writable \in BOOLEAN
      /\ o.slot \in Nat /\ o.ticket \in Nat
      /\ SubjectLength[text] \in Nat
  BY RegExpExecAssumption DEF TypeInv, ObjectsInv, RegexRecord, Texts
<1>2. CASE from > SubjectLength[text]
  <2>1. backend' = backend /\ Extends(backend, backend)
    BY <1>2, ExtendsSame DEF BuiltinMatch
  <2>2. CASE global /\ ~o.writable
    <3>1. result' = <<"thrown">> /\ regexes' = regexes
      BY <1>2, <2>2 DEF BuiltinMatch, Throws
    <3> QED BY <1>1, <2>1, <3>1 DEF ExecutedAs, MatchedAs
  <2>3. CASE ~(global /\ ~o.writable)
    <3> DEFINE last == IF global THEN 0 ELSE o.lastIndex
               p == [o EXCEPT !.lastIndex = last]
    <3>1. result' = <<"null">> /\ regexes' = [regexes EXCEPT ![r] = p]
      BY <1>2, <2>3 DEF BuiltinMatch
    <3>2. /\ p \in RegexRecord /\ p.pattern = o.pattern /\ p.writable = o.writable
          /\ p.slot = o.slot /\ p.ticket = o.ticket /\ p.lastIndex = last
      BY <1>1 DEF RegexRecord
    <3> HIDE DEF p
    <3>3. /\ regexes'[r] = p /\ \A q \in Regex \ {r} : regexes'[q] = regexes[q]
          /\ regexes' \in [Regex -> RegexRecord \union {NoRegex}]
      BY <1>1, <3>1, <3>2
    <3>4. Ticketed(backend', p)
      BY <1>1, <2>1, <3>2 DEF Ticketed
    <3>5. MatchedAs(r, h, known, index)
      BY <1>2, <2>3, <3>1, <3>2, <3>3 DEF MatchedAs
    <3> QED BY <2>1, <3>2, <3>3, <3>4, <3>5 DEF ExecutedAs
  <2> QED BY <2>2, <2>3
<1>3. CASE ~(from > SubjectLength[text])
  <2>1. PICK raw \in ExecRaw(o, h, from) :
            LET ran == raw.found # <<>>
                matched == ran /\ raw.found[1].end # NoMatch
                stores == ran /\ global /\ (o.writable \/ (known /\ matched))
                next == IF matched THEN raw.found[1].end ELSE 0
            IN  /\ backend' = raw.b
                /\ regexes' = Settled(r, raw, IF stores THEN next ELSE o.lastIndex)
                /\ IF ~ran \/ (global /\ ~stores) THEN result' = <<"thrown">>
                   ELSE result' = IF matched
                                  THEN <<"match", raw.found[1].pattern, raw.found[1].text, raw.found[1].from>>
                                  ELSE <<"null">>
    BY <1>3 DEF BuiltinMatch, Throws
  <2>2. RawOf(o, h, from, raw)
    BY <1>1, ExecRawProperties
  <2>3. end \in Nat \union {NoMatch}
    <3>1. from \in 0 .. SubjectLength[text]
      BY <1>1, <1>3
    <3>2. end \in (from .. SubjectLength[text]) \union {NoMatch}
      BY <1>1, <3>1, RegExpExecAssumption
    <3> QED BY <1>1, <3>2
  <2>4. raw.slot # 0 => /\ raw.slot \in DOMAIN raw.b.entries /\ raw.slot \in Nat
                        /\ raw.b.entries[raw.slot].pattern = o.pattern
                        /\ Ticket(raw.b, raw.slot) = raw.b.entries[raw.slot].generation
                        /\ Ticket(raw.b, raw.slot) \in 1 .. raw.b.generations
                        /\ Ticket(raw.b, raw.slot) \in Nat
    <3> SUFFICES ASSUME raw.slot # 0
                 PROVE  /\ raw.slot \in DOMAIN raw.b.entries /\ raw.slot \in Nat
                        /\ raw.b.entries[raw.slot].pattern = o.pattern
                        /\ Ticket(raw.b, raw.slot) = raw.b.entries[raw.slot].generation
                        /\ Ticket(raw.b, raw.slot) \in 1 .. raw.b.generations
                        /\ Ticket(raw.b, raw.slot) \in Nat
      OBVIOUS
    <3>1. /\ raw.slot \in DOMAIN raw.b.entries /\ raw.b.entries[raw.slot].pattern = o.pattern
          /\ BackendInv(raw.b)
      BY <2>2 DEF RawOf
    <3>2. raw.b.entries \in Seq(Entry) /\ raw.b.generations \in Nat
      BY <3>1 DEF BackendInv, BackendType
    <3>3. raw.slot \in Nat
      BY <3>1, <3>2, LenProperties
    <3>4. raw.b.entries[raw.slot].generation \in 1 .. raw.b.generations
      BY <3>1 DEF BackendInv, Generations
    <3> QED BY <3>1, <3>2, <3>3, <3>4 DEF Ticket
  <2> DEFINE settles(last) ==
          /\ regexes' = Settled(r, raw, last) /\ last \in Nat \union {Valued}
  <2>5. ASSUME NEW last, settles(last)
        PROVE  /\ regexes' \in [Regex -> RegexRecord \union {NoRegex}]
               /\ \A q \in Regex \ {r} : regexes'[q] = regexes[q]
               /\ regexes'[r] \in RegexRecord
               /\ regexes'[r].pattern = o.pattern /\ regexes'[r].writable = o.writable
               /\ regexes'[r].lastIndex = last /\ Ticketed(raw.b, regexes'[r])
    <3>1. /\ regexes' \in [Regex -> RegexRecord \union {NoRegex}]
          /\ \A q \in Regex \ {r} : regexes'[q] = regexes[q]
          /\ regexes'[r] \in RegexRecord
          /\ regexes'[r].pattern = o.pattern /\ regexes'[r].writable = o.writable
          /\ regexes'[r].lastIndex = last
          /\ regexes'[r].slot = IF raw.slot = 0 THEN o.slot ELSE raw.slot
          /\ regexes'[r].ticket = IF raw.slot = 0 THEN o.ticket ELSE Ticket(raw.b, raw.slot)
      <4>1. regexes' = Settled(r, raw, last) /\ last \in Nat \union {Valued}
        BY <2>5
      <4>2. raw.slot # 0 => raw.slot \in Nat /\ Ticket(raw.b, raw.slot) \in Nat
        BY <2>4
      <4>3. SettledAs(Settled(r, raw, last), r, raw, last)
        BY <1>1, <4>1, <4>2, SettledProperties
      <4>4. SettledAs(regexes', r, raw, last)
        BY <4>1, <4>3
      <4> QED BY <4>4 DEF SettledAs
    <3>2. CASE raw.slot = 0
      <4>1. Extends(backend, raw.b) /\ backend.generations \in Nat /\ raw.b.generations \in Nat
        BY <2>2 DEF RawOf, BackendInv, BackendType
      <4> QED BY <1>1, <3>1, <3>2, <4>1 DEF Ticketed, Extends
    <3>3. CASE raw.slot # 0
      BY <2>4, <3>1, <3>3 DEF Ticketed
    <3> QED BY <3>1, <3>2, <3>3
  <2>6. /\ backend' = raw.b /\ Extends(backend, backend') /\ BackendInv(backend') /\ TagHolds(raw.b)
    BY <2>1, <2>2 DEF RawOf
  <2>7. \E last : settles(last) /\ (regexes'[r].lastIndex = last => MatchedAs(r, h, known, index))
    <3>1. CASE raw.found = <<>>
      <4>1. settles(o.lastIndex) /\ result' = <<"thrown">>
        <5>1. regexes' = Settled(r, raw, o.lastIndex)
          BY <2>1, <3>1
        <5>2. result' = <<"thrown">>
          BY <2>1, <3>1
        <5> QED BY <1>1, <5>1, <5>2
      <4> QED BY <4>1 DEF MatchedAs
    <3>2. CASE raw.found # <<>>
      <4>1. /\ raw.found[1].pattern = o.pattern /\ raw.found[1].text = text
            /\ raw.found[1].from = from /\ raw.found[1].end = end
        BY <2>2, <3>2 DEF RawOf, Found
      <4>2. CASE global /\ ~(o.writable \/ (known /\ end # NoMatch))
        <5>1. settles(o.lastIndex) /\ result' = <<"thrown">>
          BY <1>1, <2>1, <3>2, <4>1, <4>2
        <5> QED BY <5>1 DEF MatchedAs
      <4>3. CASE global /\ (o.writable \/ (known /\ end # NoMatch))
        <5> DEFINE last == IF end = NoMatch THEN 0 ELSE end
        <5>1. settles(last) /\ result' = IF end = NoMatch THEN <<"null">> ELSE <<"match", o.pattern, text, from>>
          BY <2>1, <2>3, <3>2, <4>1, <4>3
        <5> QED BY <1>3, <4>3, <5>1 DEF MatchedAs
      <4>4. CASE ~global
        <5>1. /\ settles(o.lastIndex)
              /\ result' = IF end = NoMatch THEN <<"null">> ELSE <<"match", o.pattern, text, from>>
          BY <1>1, <2>1, <3>2, <4>1, <4>4
        <5> QED BY <1>3, <4>4, <5>1 DEF MatchedAs
      <4> QED BY <4>2, <4>3, <4>4
    <3> QED BY <3>1, <3>2
  <2>8. TagHolds(backend')
    BY <2>6
  <2> HIDE DEF settles
  <2> QED BY <2>5, <2>6, <2>7, <2>8 DEF ExecutedAs
<1> QED BY <1>2, <1>3
-----------------------------------------------------------------------------
(* The inductive invariant.                                                *)

LEMMA TicketKept ==
    ASSUME NEW b, BackendInv(b), NEW c, BackendInv(c), Extends(b, c),
           NEW o, Ticketed(b, o)
    PROVE  Ticketed(c, o)
<1>1. b.generations \in Nat /\ c.generations \in Nat /\ b.generations <= c.generations
  BY DEF BackendInv, BackendType, Extends
<1>2. o.ticket \in 1 .. c.generations
  BY <1>1 DEF Ticketed
<1>3. o.slot \in DOMAIN c.entries /\ c.entries[o.slot].generation = o.ticket
          => c.entries[o.slot].pattern = o.pattern
  BY <1>1 DEF Ticketed, Extends
<1> QED BY <1>2, <1>3 DEF Ticketed

LEMMA InitHolds == ExecInit => IInv
<1> SUFFICES ASSUME ExecInit PROVE IInv
  OBVIOUS
<1> USE DEF ExecInit
<1>1. TypeInv
  BY EmptySeq DEF TypeInv, Texts
<1>2. /\ backend = [entries |-> <<>>, used |-> <<>>, generations |-> 0, compiled |-> <<>>,
                    loadedTag |-> <<>>, scratch |-> Unused]
      /\ backend.entries = <<>> /\ backend.used = <<>> /\ backend.generations = 0
      /\ backend.compiled = <<>> /\ backend.loadedTag = <<>> /\ backend.scratch = Unused
  BY DEF EmptyBackend
<1>3. BackendType(backend)
  <2>1. <<>> \in [DOMAIN <<>> -> Pattern]
    OBVIOUS
  <2> QED BY <1>2, <2>1, EmptySeq DEF BackendType, Texts
<1>4. BackendInv(backend)
  <2>1. Handles(backend) = {}
    BY <1>2 DEF Handles
  <2>2. DOMAIN backend.compiled = {} /\ DOMAIN backend.entries = {} /\ DOMAIN backend.used = {}
    BY <1>2
  <2>3. Len(backend.entries) = 0 /\ Len(backend.used) = 0 /\ 0 <= CacheLimit
    BY <1>2, EmptySeq, RegExpExecAssumption
  <2> QED BY <1>3, <2>1, <2>2, <2>3 DEF BackendInv, UsesEach, Generations, Compiled
<1>5. TagHolds(backend)
  <2>1. \A k \in Nat, h \in SubjectCell : <<k, h>> # <<>>
    OBVIOUS
  <2> QED BY <1>2, <2>1 DEF TagHolds
<1>6. ObjectsInv /\ WaitingInv
  BY DEF ObjectsInv, WaitingInv
<1> QED BY <1>1, <1>4, <1>5, <1>6 DEF IInv

\* A fresh or refilled object's part of the invariant.
LEMMA InitializeKeeps ==
    ASSUME IInv, NEW r \in Regex, NEW p \in Pattern, NEW last \in Nat \union {Valued},
           NEW writable \in BOOLEAN, Initialize(r, p, last, writable)
    PROVE  /\ TypeInv' /\ BackendInv(backend') /\ ObjectsInv' /\ TagHolds(backend)'
           /\ \A q \in Regex \ {r} : regexes'[q] = regexes[q]
           /\ \/ /\ regexes'[r] # NoRegex
                 /\ regexes'[r].pattern = p /\ regexes'[r].writable = writable
                 /\ regexes'[r].lastIndex = IF writable THEN 0 ELSE last
                 /\ result' = IF writable THEN <<"none">> ELSE <<"thrown">>
              \/ regexes' = regexes /\ result' = <<"thrown">>
<1>1. PICK made \in Compile(backend, p) :
        /\ backend' = made.b
        /\ IF made.slot = 0 THEN Throws /\ UNCHANGED regexes
           ELSE /\ regexes' = [regexes EXCEPT ![r] =
                                  [pattern |-> p, slot |-> made.slot, ticket |-> Ticket(made.b, made.slot),
                                   lastIndex |-> IF writable THEN 0 ELSE last, writable |-> writable]]
                /\ IF writable THEN result' = <<"none">> ELSE Throws
        /\ UNCHANGED <<subjects, sweeps, execs>>
  BY DEF Initialize
<1>2. BackendInv(backend) /\ CompiledTo(backend, p, made)
  BY CompileProperties DEF IInv
<1>3. BackendInv(backend') /\ Extends(backend, backend')
  BY <1>1, <1>2 DEF CompiledTo
<1>4. TagHolds(backend)'
  <2>1. TagHolds(backend')
    BY <1>1, <1>2, TagKept DEF CompiledTo, IInv
  <2> QED BY <1>1, <2>1 DEF TagHolds
<1>5. \A q \in Regex : regexes[q] # NoRegex => Ticketed(backend', regexes[q])
  BY <1>2, <1>3, TicketKept DEF IInv, ObjectsInv
<1>6. CASE made.slot = 0
  <2>1. regexes' = regexes /\ result' = <<"thrown">>
    BY <1>1, <1>6 DEF Throws
  <2> QED BY <1>1, <1>3, <1>4, <1>5, <2>1 DEF IInv, TypeInv, ObjectsInv
<1>7. CASE made.slot # 0
  <2> DEFINE o == [pattern |-> p, slot |-> made.slot, ticket |-> Ticket(made.b, made.slot),
                   lastIndex |-> IF writable THEN 0 ELSE last, writable |-> writable]
  <2>1. /\ regexes' = [regexes EXCEPT ![r] = o]
        /\ result' = IF writable THEN <<"none">> ELSE <<"thrown">>
    BY <1>1, <1>7 DEF Throws
  <2>2. made.slot \in DOMAIN made.b.entries /\ made.b.entries[made.slot].pattern = p
    BY <1>2, <1>7 DEF CompiledTo
  <2>3. made.b.entries \in Seq(Entry) /\ made.b.generations \in Nat
    BY <1>2 DEF CompiledTo, BackendInv, BackendType
  <2>4. /\ made.slot \in Nat /\ Ticket(made.b, made.slot) = made.b.entries[made.slot].generation
        /\ Ticket(made.b, made.slot) \in 1 .. made.b.generations
        /\ Ticket(made.b, made.slot) \in Nat
    <3>1. made.slot \in Nat
      BY <2>2, <2>3, LenProperties
    <3>2. made.b.entries[made.slot].generation \in 1 .. made.b.generations
      BY <1>2, <2>2 DEF CompiledTo, BackendInv, Generations
    <3> QED BY <2>2, <2>3, <3>1, <3>2 DEF Ticket
  <2>5. /\ o \in RegexRecord /\ o.pattern = p /\ o.writable = writable
        /\ o.lastIndex = IF writable THEN 0 ELSE last
        /\ o.slot = made.slot /\ o.ticket = Ticket(made.b, made.slot)
    BY <2>4 DEF RegexRecord
  <2> HIDE DEF o
  <2>6. Ticketed(backend', o)
    BY <1>1, <2>2, <2>4, <2>5 DEF Ticketed
  <2>7. /\ regexes' \in [Regex -> RegexRecord \union {NoRegex}]
        /\ regexes'[r] = o /\ \A q \in Regex \ {r} : regexes'[q] = regexes[q]
    BY <2>1, <2>5 DEF IInv, TypeInv
  <2>8. TypeInv'
    BY <1>1, <2>7 DEF IInv, TypeInv
  <2>9. ObjectsInv'
    BY <1>5, <2>6, <2>7 DEF ObjectsInv
  <2> QED BY <1>3, <1>4, <2>1, <2>5, <2>7, <2>8, <2>9, NoRegexIsNone
<1> QED BY <1>6, <1>7

LEMMA WaitingTyped ==
    ASSUME TypeInv, NEW i \in DOMAIN execs
    PROVE  execs[i].of \in Regex /\ execs[i].subject \in SubjectCell /\ execs[i].known \in BOOLEAN
<1> DEFINE S == [of : Regex, subject : SubjectCell, known : BOOLEAN]
<1>1. execs \in Seq(S)
  BY DEF TypeInv
<1> HIDE DEF S
<1>2. execs[i] \in S
  BY <1>1, LenProperties
<1> QED BY <1>2 DEF S

\* An execution, begun just now or before, that has its index.
LEMMA ExecutionKeeps ==
    ASSUME IInv, NEW r \in Regex, regexes[r] # NoRegex,
           NEW h \in SubjectCell, subjects[h] # Unused, NEW known \in BOOLEAN, NEW index \in Nat,
           BuiltinMatch(r, h, known, index), UNCHANGED <<subjects, sweeps>>,
           execs' \in Seq([of : Regex, subject : SubjectCell, known : BOOLEAN]),
           \A i \in DOMAIN execs' : i \in DOMAIN execs /\ execs'[i] = execs[i]
    PROVE  IInv'
<1>1. ExecutedAs(r, h, known, index)
  BY BuiltinMatchProperties DEF IInv
<1>2. TypeInv'
  BY <1>1 DEF IInv, TypeInv, ExecutedAs
<1>3. BackendInv(backend') /\ TagHolds(backend)'
  BY <1>1 DEF ExecutedAs, TagHolds
<1>4. ObjectsInv'
  <2>1. \A q \in Regex : regexes[q] # NoRegex => Ticketed(backend', regexes[q])
    BY <1>1, TicketKept DEF IInv, ObjectsInv, ExecutedAs
  <2> QED BY <1>1, <2>1 DEF ExecutedAs, ObjectsInv
<1>5. WaitingInv'
  <2> SUFFICES ASSUME NEW i \in DOMAIN execs'
               PROVE  regexes'[execs'[i].of] # NoRegex /\ subjects'[execs'[i].subject] # Unused
    BY DEF WaitingInv
  <2>1. /\ i \in DOMAIN execs /\ execs'[i] = execs[i]
        /\ regexes[execs[i].of] # NoRegex /\ subjects[execs[i].subject] # Unused
    BY DEF IInv, WaitingInv
  <2>2. execs[i].of \in Regex
    BY <2>1, WaitingTyped DEF IInv
  <2>3. regexes'[execs[i].of] # NoRegex
    BY <1>1, <2>1, <2>2, NoRegexIsNone DEF ExecutedAs
  <2> QED BY <2>1, <2>3
<1> QED BY <1>2, <1>3, <1>4, <1>5 DEF IInv

LEMMA PoppedProperties ==
    ASSUME TypeInv, ExecPopped
    PROVE  /\ Len(execs) \in DOMAIN execs
           /\ execs' \in Seq([of : Regex, subject : SubjectCell, known : BOOLEAN])
           /\ Len(execs') = Len(execs) - 1
           /\ \A i \in DOMAIN execs' : i \in DOMAIN execs /\ i < Len(execs) /\ execs'[i] = execs[i]
<1> DEFINE S == [of : Regex, subject : SubjectCell, known : BOOLEAN]
           n == Len(execs)
<1>1. execs \in Seq(S) /\ execs # <<>> /\ execs' = SubSeq(execs, 1, n - 1)
  BY DEF TypeInv, ExecPopped
<1> SUFFICES /\ n \in DOMAIN execs /\ execs' \in Seq(S) /\ Len(execs') = n - 1
             /\ \A i \in DOMAIN execs' : i \in DOMAIN execs /\ i < n /\ execs'[i] = execs[i]
  OBVIOUS
<1> HIDE DEF S
<1>2. n \in Nat /\ n > 0 /\ DOMAIN execs = 1 .. n /\ \A i \in 1 .. n : execs[i] \in S
  BY <1>1, LenProperties, EmptySeq
<1> HIDE DEF n
<1>3. /\ execs' \in Seq(S) /\ Len(execs') = n - 1
      /\ \A i \in 1 .. n - 1 : execs'[i] = execs[i]
  BY <1>1, <1>2, SubSeqProperties
<1>4. DOMAIN execs' = 1 .. n - 1
  BY <1>3, LenProperties
<1> QED BY <1>2, <1>3, <1>4

LEMMA BegunProperties ==
    ASSUME TypeInv, NEW r \in Regex, NEW h \in SubjectCell, NEW known \in BOOLEAN,
           execs' = Append(execs, [of |-> r, subject |-> h, known |-> known])
    PROVE  /\ execs' \in Seq([of : Regex, subject : SubjectCell, known : BOOLEAN])
           /\ DOMAIN execs = 1 .. Len(execs) /\ Len(execs) \in Nat
           /\ DOMAIN execs' = 1 .. Len(execs) + 1
           /\ \A i \in 1 .. Len(execs) : execs'[i] = execs[i]
           /\ execs'[Len(execs) + 1] = [of |-> r, subject |-> h, known |-> known]
<1> DEFINE S == [of : Regex, subject : SubjectCell, known : BOOLEAN]
           e == [of |-> r, subject |-> h, known |-> known]
<1>1. execs \in Seq(S) /\ e \in S /\ execs' = Append(execs, e)
  BY DEF TypeInv
<1> SUFFICES /\ execs' \in Seq(S) /\ DOMAIN execs = 1 .. Len(execs) /\ Len(execs) \in Nat
             /\ DOMAIN execs' = 1 .. Len(execs) + 1
             /\ \A i \in 1 .. Len(execs) : execs'[i] = execs[i]
             /\ execs'[Len(execs) + 1] = e
  OBVIOUS
<1> HIDE DEF S, e
<1> QED BY <1>1, AppendProperties, LenProperties

LEMMA StepKeeps == IInv /\ [ExecNext]_execVars => IInv'
<1> SUFFICES ASSUME IInv, [ExecNext]_execVars PROVE IInv'
  OBVIOUS
<1>1. ASSUME NEW r \in Regex, NEW p \in Pattern, Make(r, p) PROVE IInv'
  <2>1. /\ TypeInv' /\ BackendInv(backend') /\ ObjectsInv' /\ TagHolds(backend)'
        /\ \A q \in Regex \ {r} : regexes'[q] = regexes[q]
    BY <1>1, InitializeKeeps DEF Make
  <2>2. execs' = execs /\ subjects' = subjects /\ \A i \in DOMAIN execs : execs[i].of # r
    BY <1>1 DEF Make, Initialize, Waiting
  <2>3. WaitingInv'
    BY <2>1, <2>2, WaitingTyped DEF IInv, WaitingInv
  <2> QED BY <2>1, <2>3 DEF IInv
<1>2. ASSUME NEW r \in Regex, NEW p \in Pattern, Refill(r, p) PROVE IInv'
  <2>1. /\ regexes[r] # NoRegex /\ regexes[r] \in RegexRecord
        /\ regexes[r].lastIndex \in Nat \union {Valued} /\ regexes[r].writable \in BOOLEAN
        /\ Initialize(r, p, regexes[r].lastIndex, regexes[r].writable)
    BY <1>2 DEF Refill, IInv, TypeInv, RegexRecord
  <2>2. /\ TypeInv' /\ BackendInv(backend') /\ ObjectsInv' /\ TagHolds(backend)'
        /\ \A q \in Regex : regexes[q] # NoRegex => regexes'[q] # NoRegex
    BY <2>1, InitializeKeeps
  <2>3. execs' = execs /\ subjects' = subjects
    BY <2>1 DEF Initialize
  <2>4. WaitingInv'
    BY <2>2, <2>3, WaitingTyped DEF IInv, WaitingInv
  <2> QED BY <2>2, <2>4 DEF IInv
<1>3. ASSUME NEW r \in Regex, NEW o \in RegexRecord, regexes[r] # NoRegex,
             o.slot = regexes[r].slot, o.ticket = regexes[r].ticket, o.pattern = regexes[r].pattern,
             regexes' = [regexes EXCEPT ![r] = o],
             UNCHANGED <<backend, subjects, sweeps, execs>>
      PROVE  IInv'
  <2>1. /\ regexes' \in [Regex -> RegexRecord \union {NoRegex}]
        /\ regexes'[r] = o /\ \A q \in Regex \ {r} : regexes'[q] = regexes[q]
    BY <1>3 DEF IInv, TypeInv
  <2>2. TypeInv' /\ BackendInv(backend') /\ TagHolds(backend)'
    BY <1>3, <2>1 DEF IInv, TypeInv, TagHolds
  <2>3. ObjectsInv'
    BY <1>3, <2>1 DEF IInv, ObjectsInv, Ticketed
  <2>4. WaitingInv'
    BY <1>3, <2>1, NoRegexIsNone, WaitingTyped DEF IInv, WaitingInv
  <2> QED BY <2>2, <2>3, <2>4 DEF IInv
<1>4. ASSUME NEW r \in Regex, NEW i \in Index \union {Valued}, AssignLastIndex(r, i) PROVE IInv'
  <2> DEFINE o == [regexes[r] EXCEPT !.lastIndex = i]
  <2>1. regexes[r] \in RegexRecord /\ i \in Nat \union {Valued}
    BY <1>4, RegExpExecAssumption DEF AssignLastIndex, IInv, TypeInv
  <2>2. /\ o \in RegexRecord /\ o.slot = regexes[r].slot /\ o.ticket = regexes[r].ticket
        /\ o.pattern = regexes[r].pattern
    BY <2>1 DEF RegexRecord
  <2>3. regexes' = [regexes EXCEPT ![r] = o] /\ UNCHANGED <<backend, subjects, sweeps, execs>>
    BY <1>4 DEF AssignLastIndex
  <2> HIDE DEF o
  <2> QED BY <1>3, <1>4, <2>2, <2>3 DEF AssignLastIndex
<1>5. ASSUME NEW r \in Regex, FreezeRegex(r) PROVE IInv'
  <2> DEFINE o == [regexes[r] EXCEPT !.writable = FALSE]
  <2>1. regexes[r] \in RegexRecord
    BY <1>5 DEF FreezeRegex, IInv, TypeInv
  <2>2. /\ o \in RegexRecord /\ o.slot = regexes[r].slot /\ o.ticket = regexes[r].ticket
        /\ o.pattern = regexes[r].pattern
    BY <2>1 DEF RegexRecord
  <2>3. regexes' = [regexes EXCEPT ![r] = o] /\ UNCHANGED <<backend, subjects, sweeps, execs>>
    BY <1>5 DEF FreezeRegex
  <2> HIDE DEF o
  <2> QED BY <1>3, <1>5, <2>2, <2>3 DEF FreezeRegex
<1>6. ASSUME NEW h \in SubjectCell, NEW s \in Subject, MakeSubject(h, s) PROVE IInv'
  <2>1. /\ subjects[h] = Unused /\ subjects' = [subjects EXCEPT ![h] = s]
        /\ regexes' = regexes /\ backend' = backend /\ sweeps' = sweeps /\ execs' = execs
    BY <1>6 DEF MakeSubject
  <2>2. TypeInv' /\ BackendInv(backend') /\ ObjectsInv'
    BY <2>1 DEF IInv, TypeInv, Texts, ObjectsInv
  <2>3. \A g \in SubjectCell : subjects[g] # Unused => subjects'[g] = subjects[g]
    BY <2>1 DEF IInv, TypeInv
  <2>4. TagHolds(backend)'
    BY <2>1, <2>3, RegExpExecAssumption DEF IInv, TagHolds
  <2>5. WaitingInv'
    BY <2>1, <2>3, WaitingTyped DEF IInv, WaitingInv
  <2> QED BY <2>2, <2>4, <2>5 DEF IInv
<1>7. ASSUME Sweep PROVE IInv'
  <2>1. PICK dead \in SUBSET SubjectCell :
          /\ \A i \in DOMAIN execs : execs[i].subject \notin dead
          /\ subjects' = [h \in SubjectCell |-> IF h \in dead THEN Unused ELSE subjects[h]]
    BY <1>7 DEF Sweep
  <2>2. sweeps' = sweeps + 1 /\ regexes' = regexes /\ backend' = backend /\ execs' = execs
    BY <1>7 DEF Sweep
  <2>3. sweeps \in Nat /\ BackendInv(backend)
    BY DEF IInv, TypeInv
  <2>4. TypeInv' /\ ObjectsInv'
    BY <2>1, <2>2, <2>3 DEF IInv, TypeInv, Texts, ObjectsInv
  <2>5. TagHolds(backend)'
    <3>1. \A k \in Nat, h \in SubjectCell : backend.loadedTag = <<k, h>> => k <= sweeps
      BY DEF IInv, TagHolds
    <3>2. \A k \in Nat, h \in SubjectCell : backend'.loadedTag = <<k, h>> => k <= sweeps' /\ k # sweeps'
      BY <2>2, <2>3, <3>1
    <3> QED BY <3>2 DEF TagHolds
  <2>6. WaitingInv'
    BY <2>1, <2>2, WaitingTyped DEF IInv, WaitingInv
  <2> QED BY <2>2, <2>3, <2>4, <2>5, <2>6 DEF IInv
<1>8. ASSUME NEW r \in Regex, NEW h \in SubjectCell, Exec(r, h) PROVE IInv'
  <2>1. /\ regexes[r] # NoRegex /\ subjects[h] # Unused /\ UNCHANGED <<subjects, sweeps>>
        /\ regexes[r] \in RegexRecord /\ regexes[r].lastIndex \in Nat \union {Valued}
    BY <1>8 DEF Exec, IInv, TypeInv, RegexRecord
  <2>2. PICK known \in MayBeKnown(r) :
          IF regexes[r].lastIndex = Valued
          THEN /\ execs' = Append(execs, [of |-> r, subject |-> h, known |-> known])
               /\ UNCHANGED <<regexes, backend>>
          ELSE BuiltinMatch(r, h, known, regexes[r].lastIndex) /\ UNCHANGED execs
    BY <1>8 DEF Exec
  <2>3. known \in BOOLEAN
    BY DEF MayBeKnown
  <2>4. CASE regexes[r].lastIndex = Valued
    <3>1. /\ execs' = Append(execs, [of |-> r, subject |-> h, known |-> known])
          /\ regexes' = regexes /\ backend' = backend /\ subjects' = subjects /\ sweeps' = sweeps
      BY <2>1, <2>2, <2>4
    <3>2. /\ execs' \in Seq([of : Regex, subject : SubjectCell, known : BOOLEAN])
          /\ DOMAIN execs = 1 .. Len(execs) /\ Len(execs) \in Nat
          /\ DOMAIN execs' = 1 .. Len(execs) + 1
          /\ \A i \in 1 .. Len(execs) : execs'[i] = execs[i]
          /\ execs'[Len(execs) + 1] = [of |-> r, subject |-> h, known |-> known]
      BY <2>3, <3>1, BegunProperties DEF IInv
    <3>3. TypeInv' /\ BackendInv(backend') /\ ObjectsInv' /\ TagHolds(backend)'
      BY <3>1, <3>2 DEF IInv, TypeInv, ObjectsInv, TagHolds
    <3>4. WaitingInv'
      <4> SUFFICES ASSUME NEW i \in 1 .. Len(execs) + 1
                   PROVE  regexes[execs'[i].of] # NoRegex /\ subjects[execs'[i].subject] # Unused
        BY <3>1, <3>2 DEF WaitingInv
      <4>1. CASE i = Len(execs) + 1
        BY <2>1, <3>2, <4>1
      <4>2. CASE i \in 1 .. Len(execs)
        BY <3>2, <4>2 DEF IInv, WaitingInv
      <4> QED BY <3>2, <4>1, <4>2
    <3> QED BY <3>3, <3>4 DEF IInv
  <2>5. CASE regexes[r].lastIndex # Valued
    <3>1. BuiltinMatch(r, h, known, regexes[r].lastIndex) /\ execs' = execs /\ regexes[r].lastIndex \in Nat
      BY <2>1, <2>2, <2>5
    <3>2. execs' \in Seq([of : Regex, subject : SubjectCell, known : BOOLEAN])
      BY <3>1 DEF IInv, TypeInv
    <3>3. \A i \in DOMAIN execs' : i \in DOMAIN execs /\ execs'[i] = execs[i]
      BY <3>1
    <3> QED BY <2>1, <2>3, <3>1, <3>2, <3>3, ExecutionKeeps
  <2> QED BY <2>4, <2>5
<1>9. ASSUME NEW index \in Index, GiveIndex(index) PROVE IInv'
  <2> DEFINE e == execs[Len(execs)]
  <2>1. /\ ExecPopped /\ BuiltinMatch(e.of, e.subject, e.known, index) /\ UNCHANGED <<subjects, sweeps>>
        /\ index \in Nat
    BY <1>9, RegExpExecAssumption DEF GiveIndex, LastExec
  <2>2. /\ Len(execs) \in DOMAIN execs
        /\ execs' \in Seq([of : Regex, subject : SubjectCell, known : BOOLEAN])
        /\ \A i \in DOMAIN execs' : i \in DOMAIN execs /\ execs'[i] = execs[i]
    BY <2>1, PoppedProperties DEF IInv
  <2>3. e.of \in Regex /\ e.subject \in SubjectCell /\ e.known \in BOOLEAN
    BY <2>2, WaitingTyped DEF IInv
  <2>4. regexes[e.of] # NoRegex /\ subjects[e.subject] # Unused
    BY <2>2 DEF IInv, WaitingInv
  <2> HIDE DEF e
  <2> QED BY <2>1, <2>2, <2>3, <2>4, ExecutionKeeps
<1>10. ASSUME ThrowInstead PROVE IInv'
  <2>1. ExecPopped /\ regexes' = regexes /\ backend' = backend /\ subjects' = subjects /\ sweeps' = sweeps
    BY <1>10 DEF ThrowInstead
  <2>2. /\ execs' \in Seq([of : Regex, subject : SubjectCell, known : BOOLEAN])
        /\ \A i \in DOMAIN execs' : i \in DOMAIN execs /\ execs'[i] = execs[i]
    BY <2>1, PoppedProperties DEF IInv
  <2>3. TypeInv' /\ BackendInv(backend') /\ ObjectsInv' /\ TagHolds(backend)' /\ WaitingInv'
    BY <2>1, <2>2 DEF IInv, TypeInv, ObjectsInv, TagHolds, WaitingInv
  <2> QED BY <2>3 DEF IInv
<1>11. CASE UNCHANGED execVars
  <2>1. /\ regexes' = regexes /\ backend' = backend /\ subjects' = subjects /\ sweeps' = sweeps
        /\ execs' = execs
    BY <1>11 DEF execVars
  <2>2. TypeInv' /\ BackendInv(backend') /\ ObjectsInv' /\ TagHolds(backend)' /\ WaitingInv'
    BY <2>1 DEF IInv, TypeInv, ObjectsInv, TagHolds, WaitingInv
  <2> QED BY <2>2 DEF IInv
<1> QED
  BY <1>1, <1>2, <1>4, <1>5, <1>6, <1>7, <1>8, <1>9, <1>10, <1>11 DEF ExecNext

\* The cache, the tickets and the tag agree in every reachable state
\* (RegexBackend, regexpEntry, regexpExecRaw).
THEOREM ExecInvariant == ExecSpec => []IInv
<1>1. ExecInit => IInv
  BY InitHolds
<1>2. IInv /\ [ExecNext]_execVars => IInv'
  BY StepKeeps
<1> QED BY <1>1, <1>2, PTL DEF ExecSpec

\* Whatever the cache evicts, it frees, and only that (the eviction in
\* RegexBackend.compile).
THEOREM NothingLostOrFreed == ExecSpec => []CompiledAreCached
<1>1. IInv => CompiledAreCached
  BY DEF IInv, BackendInv, Compiled, Handles, CompiledAreCached
<1> QED BY <1>1, ExecInvariant, PTL
-----------------------------------------------------------------------------
(* Refinement of RegExpObjects.                                            *)

Viewed(o) == [pattern |-> o.pattern, lastIndex |-> o.lastIndex, writable |-> o.writable]

\* RegExpObjects' variables object and begun.
View ==
    [r \in Regex |-> IF regexes[r] = NoRegex THEN NoRegex
                     ELSE [pattern |-> regexes[r].pattern, lastIndex |-> regexes[r].lastIndex,
                           writable |-> regexes[r].writable]]
Begun == [i \in DOMAIN execs |-> [of |-> execs[i].of, text |-> subjects[execs[i].subject]]]

LEMMA ViewProperties ==
    ASSUME TypeInv
    PROVE  /\ DOMAIN View = Regex
           /\ \A r \in Regex :
                 /\ regexes[r] = NoRegex => View[r] = NoRegex
                 /\ regexes[r] # NoRegex =>
                       /\ View[r] # NoRegex /\ View[r] = Viewed(regexes[r])
                       /\ View[r].pattern = regexes[r].pattern
                       /\ View[r].lastIndex = regexes[r].lastIndex
                       /\ View[r].writable = regexes[r].writable
<1>1. DOMAIN View = Regex
  BY DEF View
<1>2. ASSUME NEW r \in Regex, regexes[r] # NoRegex
      PROVE  /\ View[r] # NoRegex /\ View[r] = Viewed(regexes[r])
             /\ View[r].pattern = regexes[r].pattern
             /\ View[r].lastIndex = regexes[r].lastIndex
             /\ View[r].writable = regexes[r].writable
  <2>1. regexes[r] \in RegexRecord
    BY <1>2 DEF TypeInv
  <2>2. View[r] = Viewed(regexes[r])
    BY <1>2 DEF View, Viewed
  <2>3. Viewed(regexes[r]) \in [pattern : Pattern, lastIndex : Nat \union {Valued}, writable : BOOLEAN]
    BY <2>1 DEF RegexRecord, Viewed
  <2>4. View[r] # NoRegex
    BY <2>2, <2>3, RegExpExecAssumption
  <2> QED BY <2>2, <2>4 DEF Viewed
<1>3. \A r \in Regex : regexes[r] = NoRegex => View[r] = NoRegex
  BY DEF View
<1> QED BY <1>1, <1>2, <1>3

LEMMA ViewChange ==
    ASSUME TypeInv, TypeInv', NEW r \in Regex, regexes'[r] # NoRegex,
           \A q \in Regex \ {r} : regexes'[q] = regexes[q]
    PROVE  View' = [View EXCEPT ![r] = Viewed(regexes'[r])]
<1>1. \A q \in Regex \ {r} : View'[q] = View[q]
  BY DEF View
<1>2. View'[r] = Viewed(regexes'[r])
  BY DEF View, Viewed
<1>3. View = [q \in Regex |-> View[q]] /\ View' = [q \in Regex |-> View'[q]]
  BY DEF View
<1> HIDE DEF View
<1> QED BY <1>1, <1>2, <1>3

\* The view of an object whose lastIndex alone has changed.
LEMMA ViewIndexChange ==
    ASSUME TypeInv, TypeInv', NEW r \in Regex, regexes[r] # NoRegex, regexes'[r] # NoRegex,
           \A q \in Regex \ {r} : regexes'[q] = regexes[q],
           regexes'[r].pattern = regexes[r].pattern, regexes'[r].writable = regexes[r].writable,
           NEW last, regexes'[r].lastIndex = last
    PROVE  View' = [View EXCEPT ![r].lastIndex = last]
<1>1. View' = [View EXCEPT ![r] = Viewed(regexes'[r])]
  BY ViewChange
<1>2. View[r] = Viewed(regexes[r])
  BY ViewProperties
<1>3. Viewed(regexes'[r]) = [Viewed(regexes[r]) EXCEPT !.lastIndex = last]
  BY DEF Viewed
<1> QED BY <1>1, <1>2, <1>3

LEMMA ViewSame ==
    ASSUME TypeInv, TypeInv', NEW r \in Regex, regexes[r] # NoRegex, regexes'[r] # NoRegex,
           \A q \in Regex \ {r} : regexes'[q] = regexes[q],
           regexes'[r].pattern = regexes[r].pattern, regexes'[r].writable = regexes[r].writable,
           regexes'[r].lastIndex = regexes[r].lastIndex
    PROVE  View' = View
BY DEF View

LEMMA NothingKnownFrozen ==
    ASSUME ~FreezesInside, IInv, IInv', KnownWritable, [ExecNext]_execVars
    PROVE  KnownWritable'
<1> SUFFICES ASSUME NEW i \in DOMAIN execs', execs'[i].known
             PROVE  regexes'[execs'[i].of].writable
  BY DEF KnownWritable
<1>1. ASSUME i \in DOMAIN execs, execs'[i] = execs[i],
             \A q \in Regex : Waiting(q) => regexes'[q].writable = regexes[q].writable
      PROVE  regexes'[execs'[i].of].writable
  <2>1. execs[i].of \in Regex
    BY <1>1, WaitingTyped DEF IInv
  <2> QED BY <1>1, <2>1 DEF KnownWritable, Waiting
<1>2. \A q \in Regex : Waiting(q) => regexes[q] # NoRegex
  BY DEF Waiting, IInv, WaitingInv
<1>3. ASSUME NEW r \in Regex, NEW p \in Pattern, Make(r, p) PROVE regexes'[execs'[i].of].writable
  <2>1. \A q \in Regex \ {r} : regexes'[q] = regexes[q]
    BY <1>3, InitializeKeeps DEF Make
  <2>2. ~Waiting(r) /\ execs' = execs
    BY <1>3 DEF Make, Initialize
  <2> QED BY <1>1, <2>1, <2>2
<1>4. ASSUME NEW r \in Regex, NEW p \in Pattern, Refill(r, p) PROVE regexes'[execs'[i].of].writable
  <2>1. /\ regexes[r].lastIndex \in Nat \union {Valued} /\ regexes[r].writable \in BOOLEAN
        /\ Initialize(r, p, regexes[r].lastIndex, regexes[r].writable)
    BY <1>4 DEF Refill, IInv, TypeInv, RegexRecord
  <2>2. \A q \in Regex : regexes'[q].writable = regexes[q].writable
    <3> DEFINE last == regexes[r].lastIndex
               writable == regexes[r].writable
    <3>1. /\ last \in Nat \union {Valued} /\ writable \in BOOLEAN
          /\ Initialize(r, p, last, writable)
      BY <2>1
    <3> HIDE DEF last, writable
    <3>2. /\ \A q \in Regex \ {r} : regexes'[q] = regexes[q]
          /\ regexes'[r].writable = writable \/ regexes' = regexes
      BY <3>1, InitializeKeeps
    <3> QED BY <3>2 DEF writable
  <2>3. execs' = execs
    BY <2>1 DEF Initialize
  <2> QED BY <1>1, <2>2, <2>3
<1>5. ASSUME NEW r \in Regex, NEW j \in Index \union {Valued}, AssignLastIndex(r, j)
      PROVE  regexes'[execs'[i].of].writable
  <2>1. execs' = execs /\ \A q \in Regex : regexes'[q].writable = regexes[q].writable
    BY <1>5 DEF AssignLastIndex, IInv, TypeInv, RegexRecord
  <2> QED BY <1>1, <2>1
<1>6. ASSUME NEW r \in Regex, FreezeRegex(r) PROVE regexes'[execs'[i].of].writable
  <2>1. ~Waiting(r) /\ execs' = execs /\ \A q \in Regex \ {r} : regexes'[q] = regexes[q]
    BY <1>6 DEF FreezeRegex, IInv, TypeInv
  <2> QED BY <1>1, <2>1
<1>7. ASSUME UNCHANGED <<regexes, execs>> PROVE regexes'[execs'[i].of].writable
  BY <1>1, <1>7
<1>8. ASSUME NEW r \in Regex, NEW h \in SubjectCell, NEW known \in BOOLEAN, NEW index \in Nat,
             regexes[r] # NoRegex, subjects[h] # Unused, BuiltinMatch(r, h, known, index),
             i \in DOMAIN execs, execs'[i] = execs[i]
      PROVE  regexes'[execs'[i].of].writable
  <2>1. \A q \in Regex : regexes'[q].writable = regexes[q].writable
    BY <1>8, BuiltinMatchProperties DEF IInv, ExecutedAs
  <2> QED BY <1>1, <1>8, <2>1
<1>9. ASSUME NEW r \in Regex, NEW h \in SubjectCell, Exec(r, h) PROVE regexes'[execs'[i].of].writable
  <2>1. /\ regexes[r] # NoRegex /\ subjects[h] # Unused
        /\ regexes[r] \in RegexRecord /\ regexes[r].lastIndex \in Nat \union {Valued}
    BY <1>9 DEF Exec, IInv, TypeInv, RegexRecord
  <2>2. PICK known \in MayBeKnown(r) :
          IF regexes[r].lastIndex = Valued
          THEN /\ execs' = Append(execs, [of |-> r, subject |-> h, known |-> known])
               /\ UNCHANGED <<regexes, backend>>
          ELSE BuiltinMatch(r, h, known, regexes[r].lastIndex) /\ UNCHANGED execs
    BY <1>9 DEF Exec
  <2>3. known \in BOOLEAN /\ (known => regexes[r].writable)
    BY DEF MayBeKnown
  <2>4. CASE regexes[r].lastIndex = Valued
    <3>1. execs' = Append(execs, [of |-> r, subject |-> h, known |-> known]) /\ regexes' = regexes
      BY <2>2, <2>4
    <3>2. /\ DOMAIN execs = 1 .. Len(execs) /\ Len(execs) \in Nat
          /\ DOMAIN execs' = 1 .. Len(execs) + 1
          /\ \A j \in 1 .. Len(execs) : execs'[j] = execs[j]
          /\ execs'[Len(execs) + 1] = [of |-> r, subject |-> h, known |-> known]
      BY <2>3, <3>1, BegunProperties DEF IInv
    <3>3. CASE i = Len(execs) + 1
      BY <2>3, <3>1, <3>2, <3>3
    <3>4. CASE i \in 1 .. Len(execs)
      BY <1>1, <3>1, <3>2, <3>4
    <3> QED BY <3>2, <3>3, <3>4
  <2>5. CASE regexes[r].lastIndex # Valued
    BY <1>8, <2>1, <2>2, <2>3, <2>5
  <2> QED BY <2>4, <2>5
<1>10. ASSUME NEW index \in Index, GiveIndex(index) PROVE regexes'[execs'[i].of].writable
  <2> DEFINE e == execs[Len(execs)]
  <2>1. ExecPopped /\ BuiltinMatch(e.of, e.subject, e.known, index) /\ index \in Nat
    BY <1>10, RegExpExecAssumption DEF GiveIndex, LastExec
  <2>2. Len(execs) \in DOMAIN execs /\ i \in DOMAIN execs /\ execs'[i] = execs[i]
    BY <2>1, PoppedProperties DEF IInv
  <2>3. /\ e.of \in Regex /\ e.subject \in SubjectCell /\ e.known \in BOOLEAN
        /\ regexes[e.of] # NoRegex /\ subjects[e.subject] # Unused
    BY <2>2, WaitingTyped DEF IInv, WaitingInv
  <2> HIDE DEF e
  <2> QED BY <1>8, <2>1, <2>2, <2>3
<1>11. ASSUME ThrowInstead PROVE regexes'[execs'[i].of].writable
  <2>1. ExecPopped /\ regexes' = regexes
    BY <1>11 DEF ThrowInstead
  <2>2. i \in DOMAIN execs /\ execs'[i] = execs[i]
    BY <2>1, PoppedProperties DEF IInv
  <2> QED BY <1>1, <2>1, <2>2
<1> QED
  BY <1>3, <1>4, <1>5, <1>6, <1>7, <1>9, <1>10, <1>11 DEF ExecNext, execVars, MakeSubject, Sweep

LEMMA BegunSame ==
    ASSUME TypeInv, execs' = execs,
           \A i \in DOMAIN execs : subjects'[execs[i].subject] = subjects[execs[i].subject]
    PROVE  Begun' = Begun
BY DEF Begun

LEMMA BegunPopped ==
    ASSUME TypeInv, ExecPopped, subjects' = subjects
    PROVE  /\ Begun # <<>> /\ Begun' = SubSeq(Begun, 1, Len(Begun) - 1)
           /\ Begun[Len(Begun)] = [of |-> LastExec.of, text |-> subjects[LastExec.subject]]
<1> DEFINE n == Len(execs)
           T == [of : Regex, text : Texts]
<1>1. n \in Nat /\ n > 0 /\ DOMAIN execs = 1 .. n /\ execs \in Seq([of : Regex, subject : SubjectCell, known : BOOLEAN])
  BY PoppedProperties, LenProperties DEF TypeInv
<1>2. ASSUME NEW i \in 1 .. n PROVE Begun[i] = [of |-> execs[i].of, text |-> subjects[execs[i].subject]] /\ Begun[i] \in T
  <2>1. Begun[i] = [of |-> execs[i].of, text |-> subjects[execs[i].subject]]
    BY <1>1 DEF Begun
  <2>2. execs[i].of \in Regex /\ execs[i].subject \in SubjectCell
    BY <1>1, WaitingTyped
  <2> QED BY <2>1, <2>2 DEF TypeInv
<1>3. DOMAIN Begun = 1 .. n /\ Begun = [i \in 1 .. n |-> Begun[i]]
  BY <1>1 DEF Begun
<1> HIDE DEF T
<1>4. Begun \in Seq(T) /\ Len(Begun) = n
  <2>1. Begun \in [1 .. n -> T]
    BY <1>2, <1>3
  <2> QED BY <1>1, <2>1, SeqDef
<1>5. /\ SubSeq(Begun, 1, n - 1) \in Seq(T) /\ Len(SubSeq(Begun, 1, n - 1)) = n - 1
      /\ \A i \in 1 .. n - 1 : SubSeq(Begun, 1, n - 1)[i] = Begun[i]
  BY <1>1, <1>2, <1>4, SubSeqProperties
<1>6. DOMAIN execs' = 1 .. n - 1 /\ \A i \in 1 .. n - 1 : execs'[i] = execs[i]
  <2>1. /\ execs' \in Seq([of : Regex, subject : SubjectCell, known : BOOLEAN])
        /\ Len(execs') = n - 1 /\ \A i \in DOMAIN execs' : execs'[i] = execs[i]
    BY PoppedProperties
  <2> QED BY <2>1, LenProperties
<1>7. \A i \in 1 .. n - 1 : Begun'[i] = Begun[i]
  BY <1>1, <1>2, <1>6 DEF Begun
<1>8. Begun' = [i \in 1 .. n - 1 |-> Begun'[i]]
  BY <1>6 DEF Begun
<1>9. SubSeq(Begun, 1, n - 1) = [i \in 1 .. n - 1 |-> SubSeq(Begun, 1, n - 1)[i]]
  BY <1>5, LenProperties
<1>10. Begun' = SubSeq(Begun, 1, n - 1)
  BY <1>5, <1>7, <1>8, <1>9
<1>11. Begun # <<>>
  BY <1>1, <1>4, EmptySeq
<1>12. Begun[n] = [of |-> LastExec.of, text |-> subjects[LastExec.subject]]
  BY <1>1, <1>2 DEF LastExec
<1> QED BY <1>4, <1>10, <1>11, <1>12

LEMMA BegunMore ==
    ASSUME TypeInv, NEW r \in Regex, NEW h \in SubjectCell, NEW known \in BOOLEAN, subjects' = subjects,
           execs' = Append(execs, [of |-> r, subject |-> h, known |-> known])
    PROVE  Begun' = Append(Begun, [of |-> r, text |-> subjects[h]])
<1> DEFINE n == Len(execs)
           T == [of : Regex, text : Texts]
           e == [of |-> r, text |-> subjects[h]]
<1>1. /\ DOMAIN execs = 1 .. n /\ n \in Nat /\ DOMAIN execs' = 1 .. n + 1
      /\ \A i \in 1 .. n : execs'[i] = execs[i]
      /\ execs'[n + 1] = [of |-> r, subject |-> h, known |-> known]
  BY BegunProperties
<1>2. ASSUME NEW i \in 1 .. n PROVE Begun[i] \in T /\ Begun'[i] = Begun[i]
  <2>1. Begun[i] = [of |-> execs[i].of, text |-> subjects[execs[i].subject]]
    BY <1>1 DEF Begun
  <2>2. execs[i].of \in Regex /\ execs[i].subject \in SubjectCell
    BY <1>1, WaitingTyped
  <2>3. i \in DOMAIN execs' /\ execs'[i] = execs[i]
    BY <1>1
  <2>4. Begun'[i] = [of |-> execs[i].of, text |-> subjects[execs[i].subject]]
    BY <2>3 DEF Begun
  <2> QED BY <2>1, <2>2, <2>4 DEF TypeInv
<1>3. Begun'[n + 1] = e
  BY <1>1 DEF Begun
<1>4. Begun = [i \in 1 .. n |-> Begun[i]] /\ Begun' = [i \in 1 .. n + 1 |-> Begun'[i]]
  BY <1>1 DEF Begun
<1>5. e \in T
  BY DEF TypeInv
<1> HIDE DEF T, e
<1>6. Begun \in Seq(T) /\ Len(Begun) = n
  <2>1. Begun \in [1 .. n -> T]
    BY <1>2, <1>4
  <2> QED BY <1>1, <2>1, SeqDef
<1>7. /\ Append(Begun, e) \in Seq(T) /\ Len(Append(Begun, e)) = n + 1
      /\ \A i \in 1 .. n : Append(Begun, e)[i] = Begun[i]
      /\ Append(Begun, e)[n + 1] = e
  BY <1>5, <1>6, AppendProperties
<1>8. Append(Begun, e) = [i \in 1 .. n + 1 |-> Append(Begun, e)[i]]
  BY <1>7, LenProperties
<1>9. \A i \in 1 .. n + 1 : Begun'[i] = Append(Begun, e)[i]
  BY <1>1, <1>2, <1>3, <1>7
<1> QED BY <1>4, <1>8, <1>9 DEF e

\* An execution's finish, its index given, is RegExpObjects', or is refused.
LEMMA FinishStep ==
    ASSUME TypeInv, TypeInv', NEW r \in Regex, regexes[r] # NoRegex, NEW h \in SubjectCell,
           NEW known \in BOOLEAN, known => regexes[r].writable, NEW index \in Nat,
           ExecutedAs(r, h, known, index)
    PROVE  Objects!Finish(r, subjects[h], index) \/ Objects!Throw
<1> DEFINE o == regexes[r]
           global == o.pattern \in Global
           from == IF global THEN index ELSE 0
           end == IF from > SubjectLength[subjects[h]] THEN NoMatch ELSE MatchEnd[o.pattern][subjects[h]][from]
           next == IF end = NoMatch THEN 0 ELSE end
<1>1. /\ \A q \in Regex \ {r} : regexes'[q] = regexes[q]
      /\ regexes'[r] # NoRegex
      /\ regexes'[r].pattern = o.pattern /\ regexes'[r].writable = o.writable
  BY NoRegexIsNone DEF ExecutedAs
<1>2. View[r].pattern = o.pattern /\ View[r].lastIndex = o.lastIndex /\ View[r].writable = o.writable
  BY ViewProperties
<1>3. CASE result' = <<"thrown">> /\ regexes'[r].lastIndex = o.lastIndex
  <2>1. View' = View
    BY <1>1, <1>3, ViewSame
  <2> QED BY <1>3, <2>1 DEF Objects!Throw, View
<1>4. CASE /\ ~global \/ o.writable \/ known
           /\ result' = IF end = NoMatch THEN <<"null">> ELSE <<"match", o.pattern, subjects[h], from>>
           /\ regexes'[r].lastIndex = IF global THEN next ELSE o.lastIndex
  <2>1. View' = [View EXCEPT ![r].lastIndex = IF global THEN next ELSE o.lastIndex]
    BY <1>1, <1>4, ViewIndexChange
  <2>2. ~(global /\ ~o.writable)
    BY <1>4
  <2>3. View' = [View EXCEPT ![r].lastIndex = IF global THEN next ELSE @]
    BY <1>2, <2>1
  <2> HIDE DEF next, end, from, global
  <2>4. /\ ~(global /\ ~View[r].writable)
        /\ result' = IF end = NoMatch THEN <<"null">> ELSE <<"match", View[r].pattern, subjects[h], from>>
        /\ View' = [View EXCEPT ![r].lastIndex = IF global THEN next ELSE @]
    BY <1>2, <1>4, <2>2, <2>3
  <2>5. /\ global = (View[r].pattern \in Global)
        /\ from = IF View[r].pattern \in Global THEN index ELSE 0
        /\ end = IF from > SubjectLength[subjects[h]] THEN NoMatch ELSE MatchEnd[View[r].pattern][subjects[h]][from]
        /\ next = IF end = NoMatch THEN 0 ELSE end
    BY <1>2 DEF next, end, from, global
  <2> QED BY <2>4, <2>5 DEF Objects!Finish, View
<1> QED BY <1>3, <1>4 DEF ExecutedAs, MatchedAs

ViewKept == View' = View /\ Begun' = Begun /\ result' = result

LEMMA RefinementStep ==
    ASSUME ~FreezesInside, IInv, IInv', KnownWritable, [ExecNext]_execVars
    PROVE  Objects!Next \/ ViewKept
<1> USE DEF IInv
<1>1. ASSUME NEW r \in Regex, NEW p \in Pattern, Make(r, p) PROVE Objects!New(r, p) \/ Objects!Fail
  <2>1. /\ ~Waiting(r) /\ Initialize(r, p, 0, TRUE) /\ execs' = execs /\ subjects' = subjects
    BY <1>1 DEF Make, Initialize
  <2>2. Begun' = Begun
    BY <2>1, BegunSame
  <2>3. /\ \A q \in Regex \ {r} : regexes'[q] = regexes[q]
        /\ \/ /\ regexes'[r] # NoRegex
              /\ regexes'[r].pattern = p /\ regexes'[r].writable = TRUE
              /\ regexes'[r].lastIndex = 0 /\ result' = <<"none">>
           \/ regexes' = regexes /\ result' = <<"thrown">>
    BY <2>1, InitializeKeeps
  <2>4. CASE regexes' = regexes /\ result' = <<"thrown">>
    BY <2>2, <2>4 DEF Objects!Fail, Objects!Throw, View, Begun
  <2>5. CASE /\ regexes'[r] # NoRegex /\ regexes'[r].pattern = p /\ regexes'[r].writable = TRUE
             /\ regexes'[r].lastIndex = 0 /\ result' = <<"none">>
    <3>1. View' = [View EXCEPT ![r] = Viewed(regexes'[r])]
      BY <2>3, <2>5, ViewChange
    <3>2. Viewed(regexes'[r]) = Objects!Fresh(p)
      BY <2>5 DEF Viewed, Objects!Fresh
    <3>3. \A i \in DOMAIN Begun : Begun[i].of # r
      BY <2>1 DEF Begun, Waiting
    <3> QED BY <2>2, <2>5, <3>1, <3>2, <3>3 DEF Objects!New, View, Begun
  <2> QED BY <2>3, <2>4, <2>5
<1>2. ASSUME NEW r \in Regex, NEW p \in Pattern, Refill(r, p) PROVE Objects!Refill(r, p) \/ Objects!Fail
  <2> DEFINE last == regexes[r].lastIndex
             writable == regexes[r].writable
  <2>1. /\ regexes[r] # NoRegex /\ last \in Nat \union {Valued} /\ writable \in BOOLEAN
        /\ Initialize(r, p, last, writable) /\ execs' = execs /\ subjects' = subjects
    BY <1>2 DEF Refill, TypeInv, RegexRecord, Initialize
  <2>2. Begun' = Begun
    BY <2>1, BegunSame
  <2>3. /\ View[r].pattern = regexes[r].pattern /\ View[r].lastIndex = last /\ View[r].writable = writable
        /\ View[r] # NoRegex /\ View[r] = Viewed(regexes[r])
    BY <2>1, ViewProperties
  <2> HIDE DEF last, writable
  <2>4. /\ \A q \in Regex \ {r} : regexes'[q] = regexes[q]
        /\ \/ /\ regexes'[r] # NoRegex
              /\ regexes'[r].pattern = p /\ regexes'[r].writable = writable
              /\ regexes'[r].lastIndex = IF writable THEN 0 ELSE last
              /\ result' = IF writable THEN <<"none">> ELSE <<"thrown">>
           \/ regexes' = regexes /\ result' = <<"thrown">>
    BY <2>1, InitializeKeeps
  <2>5. CASE regexes' = regexes /\ result' = <<"thrown">>
    BY <2>2, <2>5 DEF Objects!Fail, Objects!Throw, View, Begun
  <2>6. CASE /\ regexes'[r] # NoRegex
             /\ regexes'[r].pattern = p /\ regexes'[r].writable = writable
             /\ regexes'[r].lastIndex = IF writable THEN 0 ELSE last
             /\ result' = IF writable THEN <<"none">> ELSE <<"thrown">>
    <3> DEFINE index == IF writable THEN 0 ELSE last
               named == [View EXCEPT ![r].pattern = p]
    <3>1. View' = [View EXCEPT ![r] = Viewed(regexes'[r])]
      BY <2>4, <2>6, ViewChange
    <3> DEFINE before == regexes[r].pattern
    <3>2. View[r] = [pattern |-> before, lastIndex |-> last, writable |-> writable]
      BY <2>3 DEF Viewed, last, writable
    <3>3. r \in DOMAIN View
      BY ViewProperties
    <3>7. Viewed(regexes'[r]) = [pattern |-> p, lastIndex |-> index, writable |-> writable]
      BY <2>6 DEF Viewed
    <3> HIDE DEF index, before
    <3>8. [View[r] EXCEPT !.pattern = p] = [pattern |-> p, lastIndex |-> last, writable |-> writable]
      BY <3>2
    <3>9. named = [View EXCEPT ![r] = [pattern |-> p, lastIndex |-> last, writable |-> writable]]
      BY <3>8
    <3>10. /\ named[r] = [pattern |-> p, lastIndex |-> last, writable |-> writable]
           /\ DOMAIN named = DOMAIN View /\ \A q \in DOMAIN View \ {r} : named[q] = View[q]
      BY <3>3, <3>9
    <3>11. [named[r] EXCEPT !.lastIndex = index] = [pattern |-> p, lastIndex |-> index, writable |-> writable]
      BY <3>10
    <3>12. [named EXCEPT ![r].lastIndex = index]
             = [named EXCEPT ![r] = [pattern |-> p, lastIndex |-> index, writable |-> writable]]
      BY <3>11
    <3> HIDE DEF named
    <3>4. View' = [named EXCEPT ![r].lastIndex = index]
      BY <3>1, <3>3, <3>7, <3>10, <3>12
    <3> USE DEF named
    <3>5. View' = [View EXCEPT ![r].pattern = p, ![r].lastIndex = index]
      BY <3>4
    <3>6. View' = [View EXCEPT ![r].pattern = p, ![r].lastIndex = IF View[r].writable THEN 0 ELSE @]
      BY <2>3, <3>3, <3>4 DEF index
    <3> QED BY <2>2, <2>3, <2>6, <3>6 DEF Objects!Refill, Objects!Exists, View, Begun
  <2> QED BY <2>4, <2>5, <2>6
<1>3. ASSUME NEW r \in Regex, NEW i \in Index \union {Valued}, AssignLastIndex(r, i)
      PROVE  Objects!Assign(r, i)
  <2>1. /\ regexes[r] # NoRegex /\ regexes[r].writable /\ result' = <<"none">>
        /\ execs' = execs /\ subjects' = subjects
        /\ regexes' = [regexes EXCEPT ![r].lastIndex = i] /\ regexes[r] \in RegexRecord
    BY <1>3 DEF AssignLastIndex, TypeInv
  <2>2. /\ \A q \in Regex \ {r} : regexes'[q] = regexes[q]
        /\ regexes'[r] \in RegexRecord /\ regexes'[r].pattern = regexes[r].pattern
        /\ regexes'[r].writable = regexes[r].writable /\ regexes'[r].lastIndex = i
    <3>1. i \in Nat \union {Valued}
      BY RegExpExecAssumption
    <3>2. regexes \in [Regex -> RegexRecord \union {NoRegex}]
      BY DEF TypeInv
    <3> DEFINE o == [regexes[r] EXCEPT !.lastIndex = i]
    <3>3. o \in RegexRecord /\ o.pattern = regexes[r].pattern /\ o.writable = regexes[r].writable /\ o.lastIndex = i
      BY <2>1, <3>1 DEF RegexRecord
    <3> HIDE DEF o
    <3>4. regexes' = [regexes EXCEPT ![r] = o]
      BY <2>1 DEF o
    <3>6. regexes'[r] = o /\ \A q \in Regex \ {r} : regexes'[q] = regexes[q]
      BY <3>2, <3>4
    <3> QED BY <3>3, <3>6
  <2>3. View' = [View EXCEPT ![r].lastIndex = i]
    BY <2>1, <2>2, NoRegexIsNone, ViewIndexChange
  <2>4. Begun' = Begun
    BY <2>1, BegunSame
  <2>5. View[r] # NoRegex /\ View[r].writable = regexes[r].writable
    BY <2>1, ViewProperties
  <2> QED BY <2>1, <2>3, <2>4, <2>5 DEF Objects!Assign, Objects!Exists, View, Begun
<1>4. ASSUME NEW r \in Regex, FreezeRegex(r) PROVE Objects!Freeze(r)
  <2>1. /\ regexes[r] # NoRegex /\ result' = <<"none">> /\ execs' = execs /\ subjects' = subjects
        /\ regexes' = [regexes EXCEPT ![r].writable = FALSE] /\ regexes[r] \in RegexRecord
    BY <1>4 DEF FreezeRegex, TypeInv
  <2>2. /\ \A q \in Regex \ {r} : regexes'[q] = regexes[q]
        /\ regexes'[r] \in RegexRecord /\ Viewed(regexes'[r]) = [Viewed(regexes[r]) EXCEPT !.writable = FALSE]
    <3>1. regexes \in [Regex -> RegexRecord \union {NoRegex}]
      BY DEF TypeInv
    <3> DEFINE o == [regexes[r] EXCEPT !.writable = FALSE]
    <3>2. /\ o \in RegexRecord /\ o.pattern = regexes[r].pattern
          /\ o.lastIndex = regexes[r].lastIndex /\ o.writable = FALSE
      BY <2>1 DEF RegexRecord
    <3> HIDE DEF o
    <3> DEFINE p == regexes[r].pattern
               last == regexes[r].lastIndex
               writable == regexes[r].writable
    <3>6. Viewed(regexes[r]) = [pattern |-> p, lastIndex |-> last, writable |-> writable]
      BY DEF Viewed
    <3>7. Viewed(o) = [pattern |-> p, lastIndex |-> last, writable |-> FALSE]
      BY <3>2 DEF Viewed
    <3> HIDE DEF p, last, writable
    <3>8. [[pattern |-> p, lastIndex |-> last, writable |-> writable] EXCEPT !.writable = FALSE]
            = [pattern |-> p, lastIndex |-> last, writable |-> FALSE]
      <4>1. \A no : [[pattern |-> p, lastIndex |-> last, writable |-> writable] EXCEPT !.writable = no]
                       = [pattern |-> p, lastIndex |-> last, writable |-> no]
        OBVIOUS
      <4> QED BY <4>1, Zenon
    <3>5. Viewed(o) = [Viewed(regexes[r]) EXCEPT !.writable = FALSE]
      BY <3>6, <3>7, <3>8
    <3>3. regexes' = [regexes EXCEPT ![r] = o]
      BY <2>1 DEF o
    <3>4. regexes'[r] = o /\ \A q \in Regex \ {r} : regexes'[q] = regexes[q]
      BY <3>1, <3>3
    <3> QED BY <3>2, <3>4, <3>5
  <2>3. View' = [View EXCEPT ![r] = Viewed(regexes'[r])]
    BY <2>2, NoRegexIsNone, ViewChange
  <2>4. View[r] # NoRegex /\ View[r] = Viewed(regexes[r])
    BY <2>1, ViewProperties
  <2>5. View' = [View EXCEPT ![r].writable = FALSE]
    BY <2>2, <2>3, <2>4
  <2>6. Begun' = Begun
    BY <2>1, BegunSame
  <2> QED BY <2>1, <2>4, <2>5, <2>6 DEF Objects!Freeze, Objects!Exists, View, Begun
<1>5. ASSUME NEW h \in SubjectCell, NEW s \in Subject, MakeSubject(h, s) PROVE ViewKept
  <2>1. /\ subjects[h] = Unused /\ subjects' = [subjects EXCEPT ![h] = s]
        /\ regexes' = regexes /\ execs' = execs /\ result' = result
    BY <1>5 DEF MakeSubject
  <2>2. \A i \in DOMAIN execs : subjects'[execs[i].subject] = subjects[execs[i].subject]
    BY <2>1, WaitingTyped DEF TypeInv, WaitingInv
  <2>3. Begun' = Begun
    BY <2>1, <2>2, BegunSame
  <2> QED BY <2>1, <2>3 DEF ViewKept, View
<1>6. ASSUME Sweep PROVE ViewKept
  <2>1. /\ regexes' = regexes /\ execs' = execs /\ result' = result
        /\ \A i \in DOMAIN execs : subjects'[execs[i].subject] = subjects[execs[i].subject]
    BY <1>6, WaitingTyped DEF Sweep
  <2>2. Begun' = Begun
    BY <2>1, BegunSame
  <2> QED BY <2>1, <2>2 DEF ViewKept, View
<1>7. ASSUME NEW r \in Regex, NEW h \in SubjectCell, Exec(r, h)
      PROVE  Objects!Fail \/ \E text \in Subject : Objects!Exec(r, text)
  <2>1. /\ regexes[r] # NoRegex /\ subjects[h] # Unused /\ subjects' = subjects
        /\ regexes[r] \in RegexRecord /\ regexes[r].lastIndex \in Nat \union {Valued}
        /\ subjects[h] \in Subject
    BY <1>7 DEF Exec, TypeInv, RegexRecord, Texts
  <2>2. PICK known \in MayBeKnown(r) :
          IF regexes[r].lastIndex = Valued
          THEN /\ execs' = Append(execs, [of |-> r, subject |-> h, known |-> known])
               /\ result' = <<"none">> /\ UNCHANGED <<regexes, backend>>
          ELSE BuiltinMatch(r, h, known, regexes[r].lastIndex) /\ UNCHANGED execs
    BY <1>7 DEF Exec
  <2>3. known \in BOOLEAN /\ (known => regexes[r].writable)
    BY DEF MayBeKnown
  <2>4. View[r] # NoRegex /\ View[r].lastIndex = regexes[r].lastIndex
    BY <2>1, ViewProperties
  <2>5. CASE regexes[r].lastIndex = Valued
    <3>1. /\ execs' = Append(execs, [of |-> r, subject |-> h, known |-> known])
          /\ result' = <<"none">> /\ regexes' = regexes
      BY <2>2, <2>5
    <3>2. Begun' = Append(Begun, [of |-> r, text |-> subjects[h]])
      BY <2>1, <2>3, <3>1, BegunMore
    <3>3. View' = View
      BY <3>1 DEF View
    <3> QED BY <2>1, <2>4, <2>5, <3>1, <3>2, <3>3 DEF Objects!Exec, Objects!Exists, View, Begun
  <2>6. CASE regexes[r].lastIndex # Valued
    <3>1. /\ BuiltinMatch(r, h, known, regexes[r].lastIndex) /\ execs' = execs
          /\ regexes[r].lastIndex \in Nat
      BY <2>1, <2>2, <2>6
    <3>2. ExecutedAs(r, h, known, regexes[r].lastIndex)
      BY <2>1, <2>3, <3>1, BuiltinMatchProperties
    <3>5. PICK index \in Nat : index = regexes[r].lastIndex
      BY <3>1
    <3>6. ExecutedAs(r, h, known, index)
      BY <3>2, <3>5
    <3>7. Objects!Finish(r, subjects[h], index) \/ Objects!Throw
      BY <2>1, <2>3, <3>6, FinishStep
    <3>8. PICK text \in Subject : text = subjects[h]
      BY <2>1
    <3>3. Objects!Finish(r, text, View[r].lastIndex) \/ Objects!Throw
      BY <2>4, <3>5, <3>7, <3>8 DEF Objects!Finish
    <3>4. Begun' = Begun
      BY <2>1, <3>1, BegunSame
    <3> QED BY <2>1, <2>4, <2>6, <3>3, <3>4 DEF Objects!Exec, Objects!Exists, Objects!Fail, View, Begun
  <2> QED BY <2>5, <2>6
<1>8. ASSUME NEW index \in Index, GiveIndex(index) PROVE Objects!Continue(index) \/ Objects!Abandon
  <2> DEFINE e == execs[Len(execs)]
  <2>1. /\ ExecPopped /\ BuiltinMatch(e.of, e.subject, e.known, index) /\ subjects' = subjects
        /\ index \in Nat
    BY <1>8, RegExpExecAssumption DEF GiveIndex, LastExec
  <2>2. Len(execs) \in DOMAIN execs
    BY <2>1, PoppedProperties
  <2>3. /\ e.of \in Regex /\ e.subject \in SubjectCell /\ e.known \in BOOLEAN
        /\ regexes[e.of] # NoRegex /\ subjects[e.subject] # Unused
        /\ (e.known => regexes[e.of].writable)
    BY <2>2, WaitingTyped DEF WaitingInv, KnownWritable
  <2>4. /\ Begun # <<>> /\ Begun' = SubSeq(Begun, 1, Len(Begun) - 1)
        /\ Begun[Len(Begun)] = [of |-> e.of, text |-> subjects[e.subject]]
    BY <2>1, BegunPopped DEF LastExec
  <2> HIDE DEF e
  <2>5. ExecutedAs(e.of, e.subject, e.known, index)
    BY <2>1, <2>3, BuiltinMatchProperties
  <2>6. Objects!Finish(e.of, subjects[e.subject], index) \/ Objects!Throw
    BY <2>1, <2>3, <2>5, FinishStep
  <2>7. Begun[Len(Begun)].of = e.of /\ Begun[Len(Begun)].text = subjects[e.subject]
    BY <2>4
  <2> QED BY <2>4, <2>6, <2>7 DEF Objects!Continue, Objects!Abandon, Objects!Pop, Objects!Innermost, Begun
<1>9. ASSUME ThrowInstead PROVE Objects!Abandon
  <2>1. ExecPopped /\ result' = <<"thrown">> /\ regexes' = regexes /\ subjects' = subjects
    BY <1>9 DEF ThrowInstead, Throws
  <2>2. Begun # <<>> /\ Begun' = SubSeq(Begun, 1, Len(Begun) - 1)
    BY <2>1, BegunPopped
  <2> QED BY <2>1, <2>2 DEF Objects!Abandon, Objects!Pop, Objects!Throw, View, Begun
<1>10. CASE UNCHANGED execVars
  BY <1>10 DEF execVars, ViewKept, View, Begun
<1>11. ASSUME NEW r \in Regex, NEW p \in Pattern, Make(r, p) \/ Refill(r, p) PROVE Objects!Next
  BY <1>1, <1>2, <1>11 DEF Objects!Next
<1>12. ASSUME NEW r \in Regex, NEW i \in Index \union {Valued}, AssignLastIndex(r, i) PROVE Objects!Next
  BY <1>3, <1>12 DEF Objects!Next
<1>13. ASSUME NEW r \in Regex, FreezeRegex(r) PROVE Objects!Next
  BY <1>4, <1>13 DEF Objects!Next
<1>14. ASSUME NEW r \in Regex, NEW h \in SubjectCell, Exec(r, h) PROVE Objects!Next
  BY <1>7, <1>14 DEF Objects!Next
<1>15. ASSUME NEW index \in Index, GiveIndex(index) PROVE Objects!Next
  BY <1>8, <1>15 DEF Objects!Next
<1>16. ThrowInstead => Objects!Next
  BY <1>9 DEF Objects!Next
<1> QED
  BY <1>5, <1>6, <1>10, <1>11, <1>12, <1>13, <1>14, <1>15, <1>16 DEF ExecNext

\* Unless the program freezes an object within an execution of it, every
\* execution is of the object's own pattern on the text it was given, and
\* stores what the standard has it store (regexpExecRaw, builtinMatch).
THEOREM Implementation ==
    ASSUME ~FreezesInside
    PROVE  ExecSpec => ImplementsRegExpObjects
<1>1. ExecInit => Objects!Init /\ KnownWritable
  BY DEF ExecInit, Objects!Init, KnownWritable
<1>2. IInv /\ IInv' /\ KnownWritable /\ [ExecNext]_execVars => KnownWritable'
  BY NothingKnownFrozen
<1>3. IInv /\ IInv' /\ KnownWritable /\ [ExecNext]_execVars
          => [Objects!Next]_<<View, Begun, result>>
  BY RefinementStep DEF ViewKept
<1> QED
  BY <1>1, <1>2, <1>3, ExecInvariant, PTL DEF ExecSpec, ImplementsRegExpObjects, Objects!Spec, View, Begun
=============================================================================
