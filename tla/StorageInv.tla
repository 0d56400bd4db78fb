----------------------------- MODULE StorageInv -----------------------------
(***************************************************************************)
(* What holds of the heap's storage between any two operations: that the   *)
(* cells read what was written and the tables are exact (module Storage),  *)
(* and what of the order of the arenas, of the free list's array and of    *)
(* the log of grown ranges the collections rely on for it.  Inv is         *)
(* inductive: Storage_proofs proves it, and TLC checks it here.            *)
(***************************************************************************)
EXTENDS Storage
-----------------------------------------------------------------------------
CellSet == [tag : {"free", "slots", "small", "large"}, marked : BOOLEAN, moved : BOOLEAN,
            start : Nat, count : Nat, buffer : Nat]
BufferSet == [bytes : Seq(Nat), refs : Nat, appendable : BOOLEAN]
Cycles == [freeCount : Nat, extent : Nat, tail : Nat, byteTail : Nat, collections : Nat]

TypeOK ==
    /\ extent \in Nat /\ freeCount \in Nat
    /\ headers \in Seq(CellSet) /\ Len(headers) = extent
    /\ freeHandles \in Seq(Nat)
    /\ slots \in Seq(Nat) /\ bytes \in Seq(Nat)
    /\ growLog \in Seq([start : Nat, handle : Nat])
    /\ buffers \in Seq(BufferSet) /\ freeBuffers \in Seq(Nat)
    /\ cycle \in Cycles
    /\ text \in Seq(Seq(Nat)) /\ Len(text) = extent

\* A sequence that lists the members of a set, each once.
Lists(s, D) ==
    /\ s \in Seq(Nat)
    /\ \A i \in 1 .. Len(s) : s[i] \in D
    /\ \A d \in D : \E i \in 1 .. Len(s) : s[i] = d
    /\ \A i, j \in 1 .. Len(s) : s[i] = s[j] => i = j

\* The list is of the free handles.  What was taken off it since the last
\* collection is still in its array, and with the table's new handles that
\* is what is young.
HandlesInv ==
    /\ freeCount <= cycle.freeCount /\ cycle.freeCount <= Len(freeHandles)
    /\ cycle.extent <= extent
    /\ extent > cycle.extent => freeCount = 0
    /\ Lists(Listed, Handle \ Live)
    /\ \A i \in 1 .. cycle.freeCount : freeHandles[i] \in 1 .. cycle.extent
    /\ \A i, j \in 1 .. cycle.freeCount : freeHandles[i] = freeHandles[j] => i = j
    /\ \A h \in Handle : (h \in Live /\ ~headers[h].marked) <=>
           \/ h > cycle.extent
           \/ \E i \in freeCount + 1 .. cycle.freeCount : freeHandles[i] = h

End(h) == headers[h].start + headers[h].count
Apart(g, h) == End(g) <= headers[h].start \/ End(h) <= headers[g].start

\* Cells' slots are within the arena, hold what was written, and are apart.
SlotsPlaced ==
    /\ \A h \in Tagged("slots") :
           /\ headers[h].count >= 1 /\ End(h) <= Len(slots)
           /\ \A k \in 1 .. headers[h].count : slots[headers[h].start + k] = Written(h, k)
    /\ \A g, h \in Tagged("slots") : g # h => Apart(g, h)

\* Below the tail are old cells only.  A cell above it is young and where it
\* was allocated, in that order, or its range is logged.
Unmoved(h) == headers[h].tag = "slots" /\ ~headers[h].marked /\ ~headers[h].moved

Current(j, h) == growLog[j].handle = h /\ growLog[j].start = headers[h].start

SlotsAged ==
    /\ cycle.tail <= Len(slots)
    /\ \A h \in Tagged("slots") :
           /\ headers[h].start < cycle.tail => headers[h].marked /\ End(h) <= cycle.tail
           /\ headers[h].start >= cycle.tail => Unmoved(h) \/ \E j \in 1 .. Len(growLog) : Current(j, h)
    /\ \A i, j \in 1 .. YoungCount :
           i < j /\ Unmoved(YoungHandle(i)) /\ Unmoved(YoungHandle(j))
               => headers[YoungHandle(i)].start < headers[YoungHandle(j)].start

\* The log's ranges are above the tail, in the order of the arena, each of a
\* cell that is there or has gone further.
LogOK ==
    /\ \A j \in 1 .. Len(growLog) :
           LET h == growLog[j].handle
           IN  /\ cycle.tail <= growLog[j].start /\ growLog[j].start <= headers[h].start
               /\ h \in Tagged("slots") /\ ~Unmoved(h)
    /\ \A i, j \in 1 .. Len(growLog) : i < j => growLog[i].start < growLog[j].start

\* Small strings' bytes are their text.  Strings share them from the first,
\* or not at all.
NonEmpty(h) == headers[h].tag = "small" /\ headers[h].count > 0

BytesPlaced ==
    /\ \A h \in Tagged("small") : End(h) <= Len(bytes) /\ StorageOf(h) = text[h]
    /\ \A g, h \in Handle :
           NonEmpty(g) /\ NonEmpty(h) => headers[g].start = headers[h].start \/ Apart(g, h)

\* Old strings end at or before the byte tail, and young ones were allocated
\* in the order of the arena.
BytesAged ==
    /\ cycle.byteTail <= Len(bytes)
    /\ \A h \in Tagged("small") : headers[h].marked => End(h) <= cycle.byteTail
    /\ \A i, j \in 1 .. YoungCount :
           i < j /\ NonEmpty(YoungHandle(i)) /\ NonEmpty(YoungHandle(j))
               => headers[YoungHandle(i)].start <= headers[YoungHandle(j)].start

\* Buffers are over, for the strings of a set, and count them.
Over(L, b) == {h \in L : headers[h].buffer = b}

Counted(bs, free, L) ==
    /\ bs \in Seq(BufferSet)
    /\ \A b \in 1 .. Len(bs) : bs[b].refs = Cardinality(Over(L, b))
    /\ Lists(free, {b \in 1 .. Len(bs) : Over(L, b) = {}})
    /\ \A h \in L : /\ headers[h].buffer \in 1 .. Len(bs)
                    /\ headers[h].count <= Len(bs[headers[h].buffer].bytes)
                    /\ SubSeq(bs[headers[h].buffer].bytes, 1, headers[h].count) = text[h]

BuffersInv == Counted(buffers, freeBuffers, Tagged("large"))

Inv ==
    /\ TypeOK /\ HandlesInv
    /\ SlotsPlaced /\ SlotsAged /\ LogOK
    /\ BytesPlaced /\ BytesAged
    /\ BuffersInv
=============================================================================
