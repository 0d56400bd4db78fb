------------------------------ MODULE Storage ------------------------------
(***************************************************************************)
(* Where the heap keeps what its cells hold (engine/heap.zs): the handle   *)
(* table with its free list, the arena of slots, the arena of small        *)
(* strings' bytes, and the buffers of large strings, through allocation,   *)
(* growth, concatenation and both kinds of collection.                     *)
(*                                                                         *)
(* Which cells are reachable is the collector's matter (module Collector): *)
(* here any cells may survive, save that a minor collection keeps the old  *)
(* ones.  A slot is given a value that tells its cell and its index, a     *)
(* string's bytes tell the handle they were first written for, and a       *)
(* string carries its text, so that what a cell reads can be compared with *)
(* what was written.                                                       *)
(***************************************************************************)
EXTENDS Integers, FiniteSets, SequencesExt, FiniteSetsExt

CONSTANTS
    MaxHandles,         \* bounds: entries of the handle table,
    MaxSlots,           \* slots of the arena,
    MaxBytes,           \* bytes of the byte arena,
    MaxText,            \* bytes of a string,
    MaxCount,           \* slots of a cell,
    MaxCollections,     \* and collections
    SmallStringBytes,   \* SMALL_STRING_BYTES
    CutAt, CutFactor    \* HANDLE_TABLE_CUT_AT, and the fourfold shrinking

ASSUME BoundsAssumption ==
    /\ MaxHandles \in Nat /\ MaxSlots \in Nat /\ MaxBytes \in Nat
    /\ MaxText \in Nat /\ MaxCount \in Nat /\ MaxCollections \in Nat
    /\ SmallStringBytes \in Nat
    /\ CutAt \in Nat \ {0} /\ CutFactor \in Nat \ {0}

VARIABLES
    headers,            \* the handle table; what a cut leaves past it is not kept
    extent,             \* its length: headerCount - 1
    freeHandles,        \* the free list's array, entries past freeCount left over
    freeCount,          \* freeHandleCount
    slots,              \* the slot arena
    growLog,            \* the ranges growSlots took since the last collection
    bytes,              \* the byte arena, smallBytes
    buffers,            \* large strings' buffers, with how many strings are over each
    freeBuffers,        \* buffers to use again, the next last
    cycle,              \* the tops the last collection left, and how many there were
    text                \* the text of every string, by its handle

vars == <<headers, extent, freeHandles, freeCount, slots, growLog, bytes,
          buffers, freeBuffers, cycle, text>>

\* A cell with slots has its range of the arena at start and count.  A small
\* string's bytes are at start in the byte arena and a large one's in a
\* buffer, both count bytes long.  moved is the header's `remembered`, as
\* growSlots sets it on a young cell.
Cell(tag, start, count, buffer) ==
    [tag |-> tag, marked |-> FALSE, moved |-> FALSE, start |-> start, count |-> count,
     buffer |-> buffer]
FreeCell == Cell("free", 0, 0, 0)

NoBuffer == [bytes |-> <<>>, refs |-> 0, appendable |-> FALSE]

Handle == 1 .. extent
Live == {h \in Handle : headers[h].tag # "free"}
Tagged(tag) == {h \in Handle : headers[h].tag = tag}

\* What is in a cell's slot, as it was written.
Written(h, k) == h * (MaxCount + 1) + k

Init ==
    /\ headers = <<>> /\ extent = 0
    /\ freeHandles = <<>> /\ freeCount = 0
    /\ slots = <<>> /\ growLog = <<>> /\ bytes = <<>>
    /\ buffers = <<>> /\ freeBuffers = <<>>
    /\ cycle = [freeCount |-> 0, extent |-> 0, tail |-> 0, byteTail |-> 0, collections |-> 0]
    /\ text = <<>>
-----------------------------------------------------------------------------
(* Allocation *)

\* The handle allocate takes: the free list's last, or past the list the
\* table's next, whether or not a cut left an entry there.
NextHandle == IF freeCount > 0 THEN freeHandles[freeCount] ELSE extent + 1

\* s with its entry at n set, n being at most one past its end.
SetAt(s, n, e) == IF n <= Len(s) THEN [s EXCEPT ![n] = e] ELSE Append(s, e)

AllocateHandle(cell, t) ==
    /\ NextHandle <= MaxHandles
    /\ headers' = SetAt(headers, NextHandle, cell)
    /\ text' = SetAt(text, NextHandle, t)
    /\ extent' = IF freeCount > 0 THEN extent ELSE extent + 1
    /\ freeCount' = IF freeCount > 0 THEN freeCount - 1 ELSE freeCount
    /\ UNCHANGED <<freeHandles, cycle>>

\* allocate, its slots filled: at the arena's top.
Allocate ==
    /\ \E count \in 1 .. MaxCount :
          /\ Len(slots) + count <= MaxSlots
          /\ AllocateHandle(Cell("slots", Len(slots), count, 0), <<>>)
          /\ slots' = slots \o [k \in 1 .. count |-> Written(NextHandle, k)]
    /\ UNCHANGED <<growLog, bytes, buffers, freeBuffers>>

\* growSlotsWith, the new slots written.  A range at the arena's top, of
\* this cycle, grows where it is; any other moves there and is logged.
\* Variant: whether the range is of this cycle is not asked.
GrowsInPlaceAnyCycle(h) == headers[h].start + headers[h].count = Len(slots)

GrowsInPlace(h) ==
    /\ headers[h].start >= cycle.tail
    /\ headers[h].start + headers[h].count = Len(slots)

Grow ==
    /\ \E h \in Tagged("slots") : \E count \in headers[h].count + 1 .. MaxCount :
          LET start == headers[h].start
              old == headers[h].count
              more == [k \in 1 .. count - old |-> Written(h, old + k)]
          IN  IF GrowsInPlace(h)
              THEN /\ Len(slots) + count - old <= MaxSlots
                   /\ slots' = slots \o more
                   /\ headers' = [headers EXCEPT ![h].count = count]
                   /\ UNCHANGED growLog
              ELSE /\ Len(slots) + count <= MaxSlots
                   /\ slots' = slots \o SubSeq(slots, start + 1, start + old) \o more
                   /\ headers' = [headers EXCEPT ![h].start = Len(slots), ![h].count = count,
                                                 ![h].moved = @ \/ ~headers[h].marked]
                   /\ growLog' = Append(growLog, [start |-> Len(slots), handle |-> h])
    /\ UNCHANGED <<extent, freeHandles, freeCount, bytes, buffers, freeBuffers, cycle, text>>

\* storageByte, for each of a string's bytes.
StorageOf(h) ==
    IF headers[h].tag = "small"
    THEN SubSeq(bytes, headers[h].start + 1, headers[h].start + headers[h].count)
    ELSE SubSeq(buffers[headers[h].buffer].bytes, 1, headers[h].count)

\* allocateArenaString, over bytes that end at the arena's top.
ArenaString(start, t) ==
    /\ AllocateHandle(Cell("small", start, Len(t), 0), t)
    /\ UNCHANGED <<slots, growLog, buffers, freeBuffers>>

\* adoptBuffer and allocateStringOver.
BufferString(joined, appendable, t) ==
    LET b == [bytes |-> joined, refs |-> 1, appendable |-> appendable]
        index == IF freeBuffers # <<>> THEN Last(freeBuffers) ELSE Len(buffers) + 1
    IN  /\ AllocateHandle(Cell("large", 0, Len(joined), index), t)
        /\ buffers' = SetAt(buffers, index, b)
        /\ freeBuffers' = IF freeBuffers # <<>> THEN Front(freeBuffers) ELSE freeBuffers
        /\ UNCHANGED <<slots, growLog, bytes>>

\* allocateStorage of a string no longer than a letter, and of one too long
\* for the arena.
AllocateString ==
    \E t \in {<<>>, <<NextHandle>>, [k \in 1 .. SmallStringBytes + 1 |-> NextHandle]} :
        IF Len(t) <= SmallStringBytes
        THEN /\ Len(bytes) + Len(t) <= MaxBytes
             /\ bytes' = bytes \o t
             /\ ArenaString(Len(bytes), t)
        ELSE BufferString(t, FALSE, t)

\* endsArena: what follows can be appended there and shared.
EndsArena(h) == headers[h].tag = "small" /\ headers[h].start + headers[h].count = Len(bytes)

\* A large string extends its left side's buffer where that is the newest
\* over a buffer a concatenation made.
\* Variant: whether it is the newest is not asked.
ExtendsBufferOfAny(l, r) ==
    /\ headers[l].tag = "large" /\ buffers[headers[l].buffer].appendable
    /\ ~(headers[r].tag = "large" /\ headers[r].buffer = headers[l].buffer)

ExtendsBuffer(l, r) ==
    /\ headers[l].tag = "large" /\ buffers[headers[l].buffer].appendable
    /\ ~(headers[r].tag = "large" /\ headers[r].buffer = headers[l].buffer)
    /\ Len(buffers[headers[l].buffer].bytes) = headers[l].count

\* concatStorage.
Concatenate ==
    \E l, r \in Tagged("small") \union Tagged("large") :
        LET joined == StorageOf(l) \o StorageOf(r)
            t == text[l] \o text[r]
            b == headers[l].buffer
        IN  /\ Len(joined) <= MaxText
            /\ IF Len(joined) <= SmallStringBytes
               THEN LET start == IF EndsArena(l) THEN headers[l].start ELSE Len(bytes)
                        added == IF EndsArena(l) THEN StorageOf(r) ELSE joined
                    IN  /\ Len(bytes) + Len(added) <= MaxBytes
                        /\ bytes' = bytes \o added
                        /\ ArenaString(start, t)
               ELSE IF ExtendsBuffer(l, r)
               THEN /\ AllocateHandle(Cell("large", 0, Len(joined), b), t)
                    /\ buffers' = [buffers EXCEPT ![b].bytes = @ \o StorageOf(r),
                                                  ![b].refs = @ + 1]
                    /\ UNCHANGED <<slots, growLog, bytes, freeBuffers>>
               ELSE BufferString(joined, TRUE, t)
-----------------------------------------------------------------------------
(* Collection *)

\* A range of an arena moved down to the cursor.
SlidTo(arena, start, count, cursor) ==
    SubSeq(arena, 1, cursor) \o SubSeq(arena, start + 1, start + count)
        \o SubSeq(arena, cursor + count + 1, Len(arena))

\* slideRange: the cell's slots go to the cursor.
SlideRange(w, h) ==
    LET c == w.headers[h]
    IN  [w EXCEPT !.slots = SlidTo(w.slots, c.start, c.count, w.cursor),
                  !.headers[h].start = w.cursor,
                  !.cursor = w.cursor + c.count]

\* slideGrown: a logged range, if it is still the cell's and the cell lives.
SlideGrown(w, entry) ==
    LET c == w.headers[entry.handle]
    IN  IF c.tag # "free" /\ c.marked /\ c.start = entry.start
        THEN SlideRange(w, entry.handle) ELSE w

\* A small string's bytes.  Strings that share a start are a run that
\* concatenation made: the first of it to come takes the cursor, and each
\* other copies only the bytes it adds.
InRun(w, c) == c.start = w.origin /\ w.length > 0

\* Variant: what the run has by now is copied again at the cursor.
SlideRunAfresh(w, h) ==
    LET c == w.headers[h]
    IN  [w EXCEPT !.bytes = SlidTo(@, c.start, c.count, w.byteCursor),
                  !.origin = c.start, !.target = w.byteCursor, !.length = c.count,
                  !.byteCursor = @ + c.count,
                  !.headers[h].start = w.byteCursor]

SlideRun(w, h) ==
    LET c == w.headers[h]
        target == IF InRun(w, c) THEN w.target ELSE w.byteCursor
        copied == IF InRun(w, c) THEN w.length ELSE 0
        length == IF c.count > copied THEN c.count ELSE copied
    IN  [w EXCEPT !.bytes = SlidTo(@, c.start + copied, length - copied, target + copied),
                  !.origin = c.start, !.target = target, !.length = length,
                  !.byteCursor = IF target + length > @ THEN target + length ELSE @,
                  !.headers[h].start = target]

\* A run that began before this cycle stays where it is.
KeepRun(w, h) ==
    LET c == w.headers[h]
        before == IF c.start = w.origin /\ w.target = c.start THEN w.length ELSE 0
    IN  [w EXCEPT !.origin = c.start, !.target = c.start,
                  !.length = IF c.count > before THEN c.count ELSE before,
                  !.byteCursor = IF c.start + c.count > @ THEN c.start + c.count ELSE @]

\* What a sweep works on, its marks made: the survivors are old.  (A
\* sequence appended to nothing is a value TLC has evaluated, which EXCEPT
\* needs here.)
Survivor(h, moved) == [headers[h] EXCEPT !.marked = TRUE, !.moved = moved]

Work(marked, cursor, byteCursor) ==
    [headers |-> <<>> \o marked, slots |-> slots, cursor |-> cursor, grown |-> 0,
     bytes |-> bytes, byteCursor |-> byteCursor, origin |-> 0, target |-> 0, length |-> 0,
     dead |-> <<>>, deadAtoms |-> <<>>]

\* Dead atoms are listed after the other dead (deadYoung, deadAtoms).
Freed(w, h, atoms) ==
    [w EXCEPT !.headers[h] = FreeCell,
              !.dead = IF h \in atoms THEN @ ELSE Append(@, h),
              !.deadAtoms = IF h \in atoms THEN Append(@, h) ELSE @]

\* releaseStringBuffer: the buffer goes with the last string over it.
ReleaseBuffer(b, h) ==
    LET index == headers[h].buffer
        left == b.buffers[index].refs - 1
    IN  IF headers[h].tag # "large" THEN b
        ELSE IF left > 0 THEN [b EXCEPT !.buffers[index].refs = left]
        ELSE [buffers |-> [b.buffers EXCEPT ![index] = NoBuffer], free |-> Append(b.free, index)]

\* releaseCell of the dead, in their order.
Released(dead) ==
    LET after[n \in 0 .. Len(dead)] ==
            IF n = 0 THEN [buffers |-> buffers, free |-> freeBuffers]
            ELSE ReleaseBuffer(after[n - 1], dead[n])
    IN  after[Len(dead)]

\* What endCycle leaves, the table cut at top.
EndCollection(w, list, top) ==
    LET released == Released(w.dead \o w.deadAtoms)
    IN  /\ headers' = SubSeq(w.headers, 1, top)
        /\ extent' = top
        /\ freeHandles' = list /\ freeCount' = Len(list)
        /\ slots' = SubSeq(w.slots, 1, w.cursor)
        /\ bytes' = SubSeq(w.bytes, 1, w.byteCursor)
        /\ growLog' = <<>>
        /\ buffers' = released.buffers /\ freeBuffers' = released.free
        /\ cycle' = [freeCount |-> Len(list), extent |-> top,
                     tail |-> w.cursor, byteTail |-> w.byteCursor,
                     collections |-> cycle.collections + 1]
        /\ text' = [h \in 1 .. top |-> IF w.headers[h].tag = "free" THEN <<>> ELSE text[h]]

Listed == SubSeq(freeHandles, 1, freeCount)

\* youngHandle, from 1: the young cells in the order of their allocation,
\* the handles taken off the free list since the last collection and then
\* the table's new ones.
FromList == cycle.freeCount - freeCount
YoungCount == FromList + (extent - cycle.extent)
YoungHandle(n) ==
    IF n <= FromList THEN freeHandles[cycle.freeCount + 1 - n] ELSE cycle.extent + (n - FromList)

\* The log's entries up to one, from the next.
SlideGrownTo(w, last) ==
    LET slid[n \in w.grown .. last] ==
            IF n = w.grown THEN w ELSE SlideGrown(slid[n - 1], growLog[n])
    IN  [slid[last] EXCEPT !.grown = last]

\* The logged ranges below start, which go before what is there.
\* Variant: they go when the young cells are done.
SlideGrownAtEnd(w, start) == w

SlideGrownBelow(w, start) ==
    SlideGrownTo(w, CHOOSE last \in w.grown .. Len(growLog) :
                        /\ \A n \in w.grown + 1 .. last : growLog[n].start < start
                        /\ last = Len(growLog) \/ growLog[last + 1].start >= start)

\* sweepYoung's walk, at one young cell.
SweepYoungCell(w, h, atoms) ==
    LET c == w.headers[h]
        settled == [w EXCEPT !.headers[h].moved = FALSE]
    IN  IF ~c.marked THEN Freed(w, h, atoms)
        ELSE IF c.tag = "large" THEN settled
        ELSE IF c.tag = "small"
        THEN IF c.count = 0 THEN [settled EXCEPT !.headers[h].start = w.byteCursor]
             ELSE IF c.start < cycle.byteTail THEN KeepRun(settled, h)
             ELSE SlideRun(settled, h)
        ELSE IF c.moved THEN settled
        ELSE SlideRange(SlideGrownBelow(settled, c.start), h)

\* sweepYoung and finishMinor: the old cells stay.
SweptYoung(survivors, atoms) ==
    LET marked == [h \in 1 .. extent |-> IF h \in survivors THEN Survivor(h, headers[h].moved) ELSE headers[h]]
        walked[n \in 0 .. YoungCount] ==
            IF n = 0 THEN Work(marked, cycle.tail, cycle.byteTail)
            ELSE SweepYoungCell(walked[n - 1], YoungHandle(n), atoms)
    IN  SlideGrownTo(walked[YoungCount], Len(growLog))

MinorCollection ==
    /\ cycle.collections < MaxCollections
    /\ LET young == {h \in Live : ~headers[h].marked}
       IN  \E survivors \in SUBSET young :
           \E atoms \in SUBSET {h \in young \ survivors : headers[h].tag # "slots"} :
               LET w == SweptYoung(survivors, atoms)
               IN  EndCollection(w, Listed \o w.dead \o w.deadAtoms, extent)

\* slideSlots: what survives, in the order of its arena.  No two cells'
\* slots are at one place.
SlideSlots(w) ==
    LET at(start) == {h \in Handle : w.headers[h].tag = "slots" /\ headers[h].start = start}
        slid[n \in 0 .. Len(slots)] ==
            IF n = 0 THEN w
            ELSE IF at(n - 1) = {} THEN slid[n - 1]
            ELSE SlideRange(slid[n - 1], CHOOSE h \in at(n - 1) : TRUE)
    IN  slid[Len(slots)]

\* slideBytes: the strings at one place by their handles.  Empty ones keep
\* no bytes.
SlideRunAt(w, start) ==
    LET slid[h \in 0 .. extent] ==
            IF h = 0 THEN w
            ELSE IF w.headers[h].tag # "small" \/ headers[h].start # start THEN slid[h - 1]
            ELSE IF headers[h].count = 0 THEN [slid[h - 1] EXCEPT !.headers[h].start = 0]
            ELSE SlideRun(slid[h - 1], h)
    IN  slid[extent]

SlideBytes(w) ==
    LET slid[n \in 0 .. Len(bytes) + 1] ==
            IF n = 0 THEN [w EXCEPT !.byteCursor = 0] ELSE SlideRunAt(slid[n - 1], n - 1)
    IN  slid[Len(bytes) + 1]

\* trimHandleTable: what was listed above the cut leaves the list.
\* Variant: it stays.
StillListedAll(list, top) == list

StillListed(list, top) ==
    LET kept[n \in 0 .. Len(list)] ==
            IF n = 0 THEN <<>>
            ELSE IF list[n] <= top THEN Append(kept[n - 1], list[n]) ELSE kept[n - 1]
    IN  kept[Len(list)]

\* sweep: the dead from the table's end down, then the slides.
Swept(survivors, compactBytes) ==
    LET marked == [h \in 1 .. extent |-> IF h \in survivors THEN Survivor(h, FALSE) ELSE headers[h]]
        freed[n \in 0 .. extent] ==
            IF n = 0 THEN Work(marked, 0, Len(bytes))
            ELSE IF extent + 1 - n \in Live \ survivors THEN Freed(freed[n - 1], extent + 1 - n, {})
            ELSE freed[n - 1]
        slid == SlideSlots(freed[extent])
    IN  IF compactBytes THEN SlideBytes(slid) ELSE slid

\* The table is cut back to its highest survivor where that shrinks it far.
Cut(survivors) ==
    LET highest == IF survivors = {} THEN 0 ELSE Max(survivors)
    IN  IF extent + 1 >= CutAt /\ (highest + 1) * CutFactor < extent + 1 THEN highest ELSE extent

FullCollection ==
    /\ cycle.collections < MaxCollections
    /\ \E survivors \in SUBSET Live, compactBytes \in BOOLEAN :
           LET w == Swept(survivors, compactBytes)
           IN  EndCollection(w, StillListed(Listed \o w.dead, Cut(survivors)), Cut(survivors))
-----------------------------------------------------------------------------
Next ==
    \/ Allocate \/ Grow \/ AllocateString \/ Concatenate
    \/ MinorCollection \/ FullCollection

Spec == Init /\ [][Next]_vars
-----------------------------------------------------------------------------
(* Properties *)

\* A cell reads what was written in it, whatever moved since: its slots are
\* in its range of the arena, and a string's bytes are its text, whichever
\* strings share them.
ContentsKept ==
    \A h \in Live :
        LET c == headers[h]
        IN  CASE c.tag = "slots" -> /\ c.start + c.count <= Len(slots)
                                    /\ \A k \in 1 .. c.count : slots[c.start + k] = Written(h, k)
              [] c.tag = "small" -> /\ c.start + c.count <= Len(bytes)
                                    /\ StorageOf(h) = text[h]
              [] c.tag = "large" -> StorageOf(h) = text[h]

\* Every handle of the table is in use or listed free, once, and the list
\* names no other.
HandlesExact ==
    /\ \A i \in 1 .. freeCount : freeHandles[i] \in Handle \ Live
    /\ \A i, j \in 1 .. freeCount : freeHandles[i] = freeHandles[j] => i = j
    /\ Cardinality(Live) + freeCount = extent

\* A buffer counts the strings over it, and is free when there are none.
BuffersExact ==
    \A b \in DOMAIN buffers :
        LET over == {h \in Tagged("large") : headers[h].buffer = b}
        IN  /\ buffers[b].refs = Cardinality(over)
            /\ (over = {}) <=> (\E i \in DOMAIN freeBuffers : freeBuffers[i] = b)

\* The young cells, which no list names, are those allocated since the last
\* collection: none of the old ones, and none twice.
YoungExact ==
    /\ {YoungHandle(n) : n \in 1 .. YoungCount} = {h \in Live : ~headers[h].marked}
    /\ \A m, n \in 1 .. YoungCount : YoungHandle(m) = YoungHandle(n) => m = n

TablesExact == HandlesExact /\ BuffersExact /\ YoungExact
=============================================================================
