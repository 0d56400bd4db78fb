------------------------------ MODULE JobQueue ------------------------------
(***************************************************************************)
(* The runtime's queue of promise jobs (engine/runtime.zs): an array that  *)
(* is written over from the front, with a cursor at the next job to take   *)
(* and the end of the jobs added.  A place here is one job, four of the    *)
(* array's values.                                                         *)
(***************************************************************************)
EXTENDS Naturals, Sequences

CONSTANTS
    CompactAt,      \* JOB_COMPACT_AT, in jobs
    StorageKept     \* JOB_STORAGE_KEPT, in jobs

ASSUME CompactAtAssumption == CompactAt \in Nat \ {0}
ASSUME StorageKeptAssumption == StorageKept \in Nat

\* What a place holds once its job has been taken.
Cleared == [kind |-> "cleared"]

EmptyQueue == [jobs |-> <<>>, cursor |-> 0, end |-> 0]

\* The jobs not taken yet, the next first.
Waiting(q) == SubSeq(q.jobs, q.cursor + 1, q.end)

\* enqueueJob for each of these in turn: over the places left by earlier
\* jobs first, and at the array's end when there are none (queueValue).
Enqueued(q, added) ==
    LET end == q.end + Len(added)
        size == IF end > Len(q.jobs) THEN end ELSE Len(q.jobs)
    IN  [jobs |-> [i \in 1 .. size |->
                      IF i \in q.end + 1 .. end THEN added[i - q.end] ELSE q.jobs[i]],
         cursor |-> q.cursor,
         end |-> end]

\* compactJobs: the jobs waiting move to the front of the same array.
\* Variant: the end stays where it was.
CompactedKeepingEnd(q) ==
    [jobs |-> [i \in 1 .. Len(q.jobs) |->
                  IF i <= q.end - q.cursor THEN q.jobs[q.cursor + i] ELSE q.jobs[i]],
     cursor |-> 0,
     end |-> q.end]

Compacted(q) ==
    [jobs |-> [i \in 1 .. Len(q.jobs) |->
                  IF i <= q.end - q.cursor THEN q.jobs[q.cursor + i] ELSE q.jobs[i]],
     cursor |-> 0,
     end |-> q.end - q.cursor]

\* The next job is read and its place cleared.
NextJob(q) == q.jobs[q.cursor + 1]
AfterNext(q) ==
    [jobs |-> [q.jobs EXCEPT ![q.cursor + 1] = Cleared], cursor |-> q.cursor + 1, end |-> q.end]

\* The front of a long queue is dropped when it is at least half of it.
Taken(q) ==
    LET after == AfterNext(q)
    IN  IF after.cursor >= CompactAt /\ after.cursor * 2 >= after.end
        THEN Compacted(after) ELSE after

\* The end of runJobs: no job waits, whether or not all were taken, and
\* storage that a burst left large is given up.
Drained(q) ==
    [jobs |-> IF Len(q.jobs) > StorageKept THEN <<>> ELSE q.jobs,
     cursor |-> 0,
     end |-> 0]
=============================================================================
