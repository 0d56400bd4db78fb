-------------------------- MODULE Promises_proofs ---------------------------
(***************************************************************************)
(* Proofs about module Promises, for any number of promises, reactions,    *)
(* calls and evaluations: every promise has at most one thing that can     *)
(* settle it, its reactions run in order and once, the job queue is first- *)
(* in first-out through its compactions, and nothing of the program's runs *)
(* between the interrupt handler's "stop" and the embedder.                *)
(***************************************************************************)
EXTENDS Promises, SequenceTheorems, FiniteSetTheorems, TLAPS

\* The queue's storage around the jobs that wait.
QueueInv(q) ==
    /\ q = [jobs |-> q.jobs, cursor |-> q.cursor, end |-> q.end]
    /\ q.jobs \in Seq(Job \union {Cleared})
    /\ q.cursor \in Nat /\ q.end \in q.cursor .. Len(q.jobs)
    /\ \A i \in q.cursor + 1 .. q.end : q.jobs[i] \in Job

\* What a promise, a shared record, a reaction, a job and a call can be
\* when there are np promises, nr reactions, ns shared records and na async
\* functions.
PromiseType == [state : {"pending", "fulfilled", "rejected"}, result : 0 .. Object, waiting : Seq(Nat)]
SharedType(np) == [promise : 1 .. np, called : BOOLEAN, given : BOOLEAN]
ReactionType(np, ns, na) ==
    {r \in [kind : {"handler", "adopt", "async"}, on : 0 .. np, of : Nat,
            handlers : SUBSET {"fulfilled", "rejected"}, status : {"waiting", "ran", "dropped"}] :
        /\ r.kind = "handler" => r.of \in 1 .. np
        /\ r.kind = "adopt" => r.of \in 1 .. ns
        /\ r.kind = "async" => r.of \in 1 .. na}
JobType(np, nr) ==
    {j \in Job :
        /\ j.kind = "thenable" => j.on \in 1 .. np /\ (j.native => j.value \in 1 .. np)
        /\ j.kind = "reaction" => j.on \in 1 .. nr}
CallType(np, ns, na) ==
    {c \in [at : {"script", "executor", "handler", "then", "thenable", "adopt", "async",
                  "constructor", "await"}, on : Nat, of : 0 .. Object] :
        /\ c.at \in {"executor", "thenable", "adopt"} => c.on \in 1 .. ns
        /\ c.at \in {"then", "handler"} => c.on \in 1 .. np
        /\ c.at \in {"async", "constructor", "await"} => c.on \in 1 .. na
        /\ c.at \in {"adopt", "constructor", "await"} => c.of \in 1 .. np}

\* The invariant is about a state in the middle of a step too: of promises
\* pr, reactions re, shared records sh, async functions as, jobs w, calls st.
Typed(pr, re, sh, as, w, st) ==
    /\ pr \in Seq(PromiseType) /\ Len(pr) <= MaxPromises
    /\ re \in Seq(ReactionType(Len(pr), Len(sh), Len(as)))
    /\ sh \in Seq(SharedType(Len(pr)))
    /\ as \in Seq(1 .. Len(pr))
    /\ w \in Seq(JobType(Len(pr), Len(re)))
    /\ st \in Seq(CallType(Len(pr), Len(sh), Len(as)))

\* A pending promise's reactions stand on its record, a settled one's have
\* jobs with its outcome: all those that wait, each in one place, in order,
\* behind all that have run.
OnRecord(pr, re) ==
    /\ \A p \in DOMAIN pr : pr[p].state # "pending" => pr[p].waiting = <<>>
    /\ \A p \in DOMAIN pr : \A k \in DOMAIN pr[p].waiting :
          LET r == pr[p].waiting[k]
          IN  r \in DOMAIN re /\ re[r].on = p /\ re[r].status = "waiting"
    /\ \A p \in DOMAIN pr : \A k, l \in DOMAIN pr[p].waiting :
          k < l => pr[p].waiting[k] < pr[p].waiting[l]
InJob(pr, re, w) ==
    /\ \A i \in DOMAIN w : w[i].kind = "reaction" =>
          /\ re[w[i].on].status = "waiting"
          /\ re[w[i].on].on # 0 =>
                /\ w[i].value = pr[re[w[i].on].on].result
                /\ pr[re[w[i].on].on].state = IF w[i].rejected THEN "rejected" ELSE "fulfilled"
    /\ \A i, j \in DOMAIN w :
          w[i].kind = "reaction" /\ w[j].kind = "reaction" /\ i < j =>
              /\ w[i].on # w[j].on
              /\ re[w[i].on].on = re[w[j].on].on /\ re[w[i].on].on # 0 => w[i].on < w[j].on
Stands(r, pr, re, w) ==
    \/ re[r].on # 0 /\ \E k \in DOMAIN pr[re[r].on].waiting : pr[re[r].on].waiting[k] = r
    \/ \E i \in DOMAIN w : w[i].kind = "reaction" /\ w[i].on = r
Lines(pr, re, w) ==
    /\ OnRecord(pr, re) /\ InJob(pr, re, w)
    /\ \A r \in DOMAIN re : re[r].status = "waiting" => Stands(r, pr, re, w)
    /\ \A r, s \in DOMAIN re :
          re[r].on = re[s].on /\ re[r].on # 0 /\ re[r].status = "ran" /\ re[s].status = "waiting" => r < s

\* What can settle promise p: Settlers(p), by kind and number.
Kind == {"pair", "job", "reaction", "call"}
Derives(r, as, p) ==
    /\ r.status = "waiting"
    /\ \/ r.kind = "handler" /\ r.of = p
       \/ r.kind = "async" /\ as[r.of] = p
Drives(c, as, p) ==
    \/ c.at \in {"then", "handler"} /\ c.on = p
    \/ c.at \in {"async", "constructor", "await"} /\ as[c.on] = p
PairSettles(n, p, sh) == n \in DOMAIN sh /\ sh[n].promise = p /\ ~sh[n].called
JobSettles(n, p, w) == n \in DOMAIN w /\ w[n].kind = "thenable" /\ w[n].on = p
ReactionSettles(n, p, re, as) == n \in DOMAIN re /\ Derives(re[n], as, p)
CallSettles(n, p, as, st) == n \in DOMAIN st /\ Drives(st[n], as, p)
Settles(a, n, p, re, sh, as, w, st) ==
    \/ a = "pair" /\ PairSettles(n, p, sh)
    \/ a = "job" /\ JobSettles(n, p, w)
    \/ a = "reaction" /\ ReactionSettles(n, p, re, as)
    \/ a = "call" /\ CallSettles(n, p, as, st)
Sole(pr, re, sh, as, w, st) ==
    \A p \in DOMAIN pr, a \in Kind, m \in Nat :
        Settles(a, m, p, re, sh, as, w, st) =>
            /\ pr[p].state = "pending"
            /\ \A b \in Kind, n \in Nat : Settles(b, n, p, re, sh, as, w, st) => a = b /\ m = n
\* A pending promise that nothing settles at the moment: what did is at it.
Free(p, pr, re, sh, as, w, st) ==
    /\ p \in DOMAIN pr /\ pr[p].state = "pending"
    /\ \A a \in Kind, n \in Nat : ~Settles(a, n, p, re, sh, as, w, st)

Good(pr, re, sh, as, w, st) ==
    Typed(pr, re, sh, as, w, st) /\ Lines(pr, re, w) /\ Sole(pr, re, sh, as, w, st)

IInv ==
    /\ QueueInv(queue)
    /\ Good(promises, reactions, shareds, asyncs, Waiting(queue), stack)
    /\ phase \in {"embedder", "script", "jobs"} /\ terminating \in BOOLEAN
    /\ phase = "embedder" => stack = <<>>
-----------------------------------------------------------------------------
(* The job queue.                                                          *)

LEMMA WaitingProperties ==
    ASSUME NEW q, QueueInv(q)
    PROVE  /\ Waiting(q) \in Seq(Job) /\ Len(Waiting(q)) = q.end - q.cursor
           /\ DOMAIN Waiting(q) = 1 .. q.end - q.cursor
           /\ \A i \in 1 .. q.end - q.cursor : Waiting(q)[i] = q.jobs[q.cursor + i]
<1>1. /\ Len(q.jobs) \in Nat /\ q.cursor \in Nat /\ q.end \in Nat
      /\ q.cursor <= q.end /\ q.end <= Len(q.jobs)
  BY LenProperties DEF QueueInv
<1>2. /\ SubSeq(q.jobs, q.cursor + 1, q.end) \in Seq(Job)
      /\ Len(SubSeq(q.jobs, q.cursor + 1, q.end)) =
            IF q.cursor + 1 <= q.end THEN q.end - (q.cursor + 1) + 1 ELSE 0
      /\ \A i \in 1 .. q.end - (q.cursor + 1) + 1 :
            SubSeq(q.jobs, q.cursor + 1, q.end)[i] = q.jobs[q.cursor + 1 + i - 1]
  BY <1>1, SubSeqProperties DEF QueueInv
<1>3. \A i \in 1 .. q.end - q.cursor :
         i \in 1 .. q.end - (q.cursor + 1) + 1 /\ q.cursor + 1 + i - 1 = q.cursor + i
  BY <1>1
<1>4. Waiting(q) \in Seq(Job) /\ Len(Waiting(q)) = q.end - q.cursor
  BY <1>1, <1>2 DEF Waiting
<1>5. \A i \in 1 .. q.end - q.cursor : Waiting(q)[i] = q.jobs[q.cursor + i]
  <2> SUFFICES ASSUME NEW i \in 1 .. q.end - q.cursor
               PROVE  Waiting(q)[i] = q.jobs[q.cursor + i]
    OBVIOUS
  <2>1. i \in 1 .. q.end - (q.cursor + 1) + 1 /\ q.cursor + 1 + i - 1 = q.cursor + i
    BY <1>3
  <2>2. SubSeq(q.jobs, q.cursor + 1, q.end)[i] = q.jobs[q.cursor + 1 + i - 1]
    BY <1>2, <2>1, Zenon
  <2> QED BY <2>1, <2>2, Zenon DEF Waiting
<1> QED BY <1>4, <1>5, LenProperties

\* Two queues that hold the same jobs wait for the same.
LEMMA SameWaiting ==
    ASSUME NEW q, QueueInv(q), NEW w \in Seq(Job), Len(w) = q.end - q.cursor,
           \A i \in 1 .. q.end - q.cursor : q.jobs[q.cursor + i] = w[i]
    PROVE  Waiting(q) = w
<1>1. Waiting(q) \in Seq(Job) /\ Len(Waiting(q)) = Len(w)
  BY WaitingProperties
<1>2. \A i \in 1 .. Len(Waiting(q)) : Waiting(q)[i] = w[i]
  BY WaitingProperties
<1> QED BY <1>1, <1>2, SeqEqual

LEMMA NoneWaiting ==
    ASSUME NEW q, QueueInv(q), q.cursor = q.end
    PROVE  Waiting(q) = <<>>
BY SubSeqEmpty DEF Waiting, QueueInv

LEMMA EmptyQueueProperties == QueueInv(EmptyQueue) /\ Waiting(EmptyQueue) = <<>>
<1>1. QueueInv(EmptyQueue)
  BY EmptySeq DEF QueueInv, EmptyQueue
<1>2. EmptyQueue.end = EmptyQueue.cursor
  BY DEF EmptyQueue
<1> QED BY <1>1, <1>2, NoneWaiting

LEMMA DrainedProperties ==
    ASSUME NEW q, QueueInv(q)
    PROVE  QueueInv(Drained(q)) /\ Waiting(Drained(q)) = <<>> /\ Drained(q).end = 0
<1>1. Drained(q).jobs \in Seq(Job \union {Cleared}) /\ Drained(q).cursor = 0 /\ Drained(q).end = 0
  BY EmptySeq DEF QueueInv, Drained
<1>2. Len(Drained(q).jobs) \in Nat
  BY <1>1, LenProperties
<1>3. QueueInv(Drained(q))
  BY <1>1, <1>2 DEF QueueInv, Drained
<1> QED BY <1>1, <1>3, NoneWaiting

\* Jobs added stand behind those that wait, whatever places they are
\* written to.
LEMMA EnqueuedProperties ==
    ASSUME NEW q, QueueInv(q), NEW added \in Seq(Job)
    PROVE  QueueInv(Enqueued(q, added)) /\ Waiting(Enqueued(q, added)) = Waiting(q) \o added
<1> DEFINE T == Job \union {Cleared}
           end == q.end + Len(added)
           size == IF end > Len(q.jobs) THEN end ELSE Len(q.jobs)
           jobs == [i \in 1 .. size |-> IF i \in q.end + 1 .. end THEN added[i - q.end] ELSE q.jobs[i]]
           later == Enqueued(q, added)
<1>1. /\ Len(q.jobs) \in Nat /\ q.cursor \in Nat /\ q.end \in Nat /\ Len(added) \in Nat
      /\ q.cursor <= q.end /\ q.end <= Len(q.jobs)
      /\ \A i \in 1 .. Len(q.jobs) : q.jobs[i] \in T
      /\ \A i \in 1 .. Len(added) : added[i] \in Job
  BY LenProperties DEF QueueInv
<1>2. later.jobs = jobs /\ later.cursor = q.cursor /\ later.end = end
  BY DEF Enqueued
<1>3. end \in Nat /\ size \in Nat /\ end <= size /\ Len(q.jobs) <= size
  BY <1>1
<1>4. ASSUME NEW i \in 1 .. size PROVE jobs[i] \in T
  <2>1. CASE i \in q.end + 1 .. end
    <3>1. i - q.end \in 1 .. Len(added)
      BY <1>1, <2>1
    <3> QED BY <1>1, <2>1, <3>1
  <2>2. CASE i \notin q.end + 1 .. end
    <3>1. i \in 1 .. Len(q.jobs)
      BY <1>1, <2>2
    <3> QED BY <1>1, <2>2, <3>1
  <2> QED BY <2>1, <2>2
<1>5. \A i \in q.cursor + 1 .. q.end : jobs[i] = q.jobs[i]
  BY <1>1, <1>3
<1>6. \A i \in 1 .. Len(added) : jobs[q.end + i] = added[i]
  BY <1>1, <1>3
<1> HIDE DEF T
<1>7. jobs \in Seq(T) /\ Len(jobs) = size
  <2>1. jobs \in [1 .. size -> T]
    BY <1>4
  <2> HIDE DEF jobs, size
  <2> QED BY <1>3, <2>1, SeqDef
<1> HIDE DEF jobs, size
<1>8. \A i \in q.cursor + 1 .. end : jobs[i] \in Job
  <2> SUFFICES ASSUME NEW i \in q.cursor + 1 .. end PROVE jobs[i] \in Job
    OBVIOUS
  <2>1. CASE i \in q.cursor + 1 .. q.end
    BY <1>5, <2>1 DEF QueueInv
  <2>2. CASE i \notin q.cursor + 1 .. q.end
    <3>1. i - q.end \in 1 .. Len(added) /\ q.end + (i - q.end) = i
      BY <1>1, <2>2
    <3> QED BY <1>1, <1>6, <3>1
  <2> QED BY <2>1, <2>2
<1>9. QueueInv(later)
  BY <1>1, <1>2, <1>3, <1>7, <1>8 DEF QueueInv, T, Enqueued, jobs, size
<1>10. /\ Waiting(q) \in Seq(Job) /\ Len(Waiting(q)) = q.end - q.cursor
       /\ \A i \in 1 .. q.end - q.cursor : Waiting(q)[i] = q.jobs[q.cursor + i]
  BY WaitingProperties
<1> DEFINE w == Waiting(q) \o added
<1>11. /\ w \in Seq(Job) /\ Len(w) = q.end - q.cursor + Len(added)
       /\ \A i \in 1 .. q.end - q.cursor + Len(added) :
             w[i] = IF i <= q.end - q.cursor THEN Waiting(q)[i] ELSE added[i - (q.end - q.cursor)]
  <2> DEFINE front == Waiting(q)
  <2>1. front \in Seq(Job)
    BY <1>10
  <2> HIDE DEF front
  <2>2. /\ front \o added \in Seq(Job)
        /\ Len(front \o added) = Len(front) + Len(added)
        /\ \A i \in 1 .. Len(front) + Len(added) :
              (front \o added)[i] = IF i <= Len(front) THEN front[i] ELSE added[i - Len(front)]
    BY <2>1, ConcatProperties
  <2> QED BY <1>10, <2>2 DEF front
<1> HIDE DEF w, later
<1>12. ASSUME NEW i \in 1 .. end - q.cursor PROVE jobs[q.cursor + i] = w[i]
  <2>1. CASE i <= q.end - q.cursor
    <3>1. i \in 1 .. q.end - q.cursor + Len(added) /\ i \in 1 .. q.end - q.cursor
      BY <1>1, <2>1
    <3>2. w[i] = q.jobs[q.cursor + i]
      BY <1>10, <1>11, <2>1, <3>1
    <3>3. q.cursor + i \in q.cursor + 1 .. q.end
      BY <1>1, <3>1
    <3> QED BY <1>5, <3>2, <3>3
  <2>2. CASE ~(i <= q.end - q.cursor)
    <3>4. i \in 1 .. q.end - q.cursor + Len(added)
      BY <1>1 DEF end
    <3> DEFINE n == q.end - q.cursor
    <3>5. n \in Nat /\ q.end = n + q.cursor /\ i \in Nat /\ i > n /\ i <= n + Len(added)
      BY <1>1, <2>2, <3>4
    <3>6. i - n \in 1 .. Len(added) /\ q.end + (i - n) = q.cursor + i
      <4> HIDE DEF n
      <4> QED BY <1>1, <3>5
    <3>1. /\ i - (q.end - q.cursor) \in 1 .. Len(added)
          /\ q.end + (i - (q.end - q.cursor)) = q.cursor + i
      BY <3>6
    <3>2. w[i] = added[i - (q.end - q.cursor)]
      BY <1>11, <2>2, <3>4
    <3> QED BY <1>6, <3>1, <3>2
  <2> QED BY <2>1, <2>2
<1>13. Len(w) = end - q.cursor
  BY <1>1, <1>11
<1>14. Waiting(later) = w
  BY <1>2, <1>9, <1>11, <1>12, <1>13, SameWaiting
<1> QED BY <1>9, <1>14 DEF later, w

LEMMA CompactedProperties ==
    ASSUME NEW q, QueueInv(q)
    PROVE  QueueInv(Compacted(q)) /\ Waiting(Compacted(q)) = Waiting(q)
<1> DEFINE T == Job \union {Cleared}
           n == q.end - q.cursor
           jobs == [i \in 1 .. Len(q.jobs) |-> IF i <= n THEN q.jobs[q.cursor + i] ELSE q.jobs[i]]
           later == Compacted(q)
<1>1. /\ Len(q.jobs) \in Nat /\ q.cursor \in Nat /\ q.end \in Nat /\ n \in Nat
      /\ q.cursor <= q.end /\ q.end <= Len(q.jobs)
      /\ \A i \in 1 .. Len(q.jobs) : q.jobs[i] \in T
  BY LenProperties DEF QueueInv
<1>2. later.jobs = jobs /\ later.cursor = 0 /\ later.end = n
  BY DEF Compacted
<1>15. \A i \in 1 .. n : i \in 1 .. Len(q.jobs) /\ i <= n /\ q.cursor + i \in q.cursor + 1 .. q.end
                            /\ q.cursor + i \in 1 .. Len(q.jobs)
  BY <1>1
<1>16. \A i \in 1 .. Len(q.jobs) : i <= n => i \in 1 .. n
  BY <1>1
<1> HIDE DEF T, n
<1>3. \A i \in 1 .. Len(q.jobs) : jobs[i] \in T
  <2> SUFFICES ASSUME NEW i \in 1 .. Len(q.jobs) PROVE jobs[i] \in T
    OBVIOUS
  <2>1. jobs[i] = IF i <= n THEN q.jobs[q.cursor + i] ELSE q.jobs[i]
    OBVIOUS
  <2>2. CASE i <= n
    BY <1>1, <1>15, <1>16, <2>1, <2>2, Zenon
  <2>3. CASE ~ (i <= n)
    BY <1>1, <2>1, <2>3, Zenon
  <2> QED BY <2>2, <2>3
<1>4. \A i \in 1 .. n : jobs[i] = q.jobs[q.cursor + i]
  BY <1>15
<1>5. jobs \in Seq(T) /\ Len(jobs) = Len(q.jobs)
  <2>1. jobs \in [1 .. Len(q.jobs) -> T]
    BY <1>3
  <2> HIDE DEF jobs
  <2> QED BY <1>1, <2>1, SeqDef
<1> HIDE DEF jobs
<1>6. \A i \in 1 .. n : jobs[i] \in Job
  <2>1. \A i \in q.cursor + 1 .. q.end : q.jobs[i] \in Job
    BY DEF QueueInv
  <2> QED BY <1>4, <1>15, <2>1, Zenon
<1>7. QueueInv(later)
  BY <1>1, <1>2, <1>5, <1>6 DEF QueueInv, T, Compacted, jobs, n
<1>8. /\ Waiting(q) \in Seq(Job) /\ Len(Waiting(q)) = n
      /\ \A i \in 1 .. n : Waiting(q)[i] = q.jobs[q.cursor + i]
  BY WaitingProperties DEF n
<1>9. ASSUME NEW i \in 1 .. later.end - later.cursor PROVE later.jobs[later.cursor + i] = Waiting(q)[i]
  <2>1. i \in 1 .. n /\ later.cursor + i = i
    BY <1>1, <1>2
  <2> QED BY <1>2, <1>4, <1>8, <2>1
<1>10. Len(Waiting(q)) = later.end - later.cursor
  BY <1>1, <1>2, <1>8
<1> HIDE DEF later
<1>11. Waiting(later) = Waiting(q)
  BY <1>7, <1>8, <1>9, <1>10, SameWaiting
<1> QED BY <1>7, <1>11 DEF later

\* A job taken is the first that waits, and the others wait as they did.
LEMMA TakenProperties ==
    ASSUME NEW q, QueueInv(q), q.cursor < q.end
    PROVE  /\ Waiting(q) # <<>> /\ NextJob(q) = Waiting(q)[1]
           /\ QueueInv(Taken(q)) /\ Waiting(Taken(q)) = Tail(Waiting(q))
<1> DEFINE T == Job \union {Cleared}
           n == q.end - q.cursor
           after == AfterNext(q)
           jobs == [q.jobs EXCEPT ![q.cursor + 1] = Cleared]
           w == Waiting(q)
<1>1. /\ Len(q.jobs) \in Nat /\ q.cursor \in Nat /\ q.end \in Nat /\ n \in Nat /\ n > 0
      /\ q.cursor <= q.end /\ q.end <= Len(q.jobs) /\ q.jobs \in Seq(T) /\ Cleared \in T
  BY LenProperties DEF QueueInv
<1>2. after.jobs = jobs /\ after.cursor = q.cursor + 1 /\ after.end = q.end
  BY DEF AfterNext
<1> HIDE DEF T
<1>3. /\ jobs \in Seq(T) /\ Len(jobs) = Len(q.jobs)
      /\ \A i \in 1 .. Len(q.jobs) : jobs[i] = IF i = q.cursor + 1 THEN Cleared ELSE q.jobs[i]
  BY <1>1, ExceptSeq
<1> HIDE DEF jobs
<1>4. \A i \in q.cursor + 2 .. q.end : jobs[i] = q.jobs[i]
  BY <1>1, <1>3
<1>5. QueueInv(after)
  BY <1>1, <1>2, <1>3, <1>4 DEF QueueInv, T, AfterNext, jobs
<1>6. /\ w \in Seq(Job) /\ Len(w) = n
      /\ \A i \in 1 .. n : w[i] = q.jobs[q.cursor + i]
  BY WaitingProperties
<1> HIDE DEF w
<1>7. w # <<>> /\ NextJob(q) = w[1]
  BY <1>1, <1>6, EmptySeq DEF NextJob
<1>8. /\ Tail(w) \in Seq(Job) /\ Len(Tail(w)) = n - 1
      /\ \A i \in 1 .. n - 1 : Tail(w)[i] = w[i + 1]
  BY <1>6, <1>7, HeadTailProperties
<1>9. ASSUME NEW i \in 1 .. after.end - after.cursor PROVE after.jobs[after.cursor + i] = Tail(w)[i]
  <2>3. after.end - after.cursor = n - 1
    <3> HIDE DEF after
    <3> QED BY <1>1, <1>2
  <2>1. i \in 1 .. n - 1 /\ i + 1 \in 1 .. n /\ q.cursor + 1 + i = q.cursor + (i + 1)
    <3> HIDE DEF after
    <3> QED BY <1>1, <2>3
  <2>2. q.cursor + (i + 1) \in q.cursor + 2 .. q.end
    BY <1>1, <2>1
  <2> QED BY <1>2, <1>4, <1>6, <1>8, <2>1, <2>2
<1>12. Len(Tail(w)) = after.end - after.cursor
  BY <1>1, <1>2, <1>8
<1> HIDE DEF after
<1>10. Waiting(after) = Tail(w)
  BY <1>5, <1>8, <1>9, <1>12, SameWaiting
<1>11. QueueInv(Taken(q)) /\ Waiting(Taken(q)) = Tail(w)
  BY <1>5, <1>10, CompactedProperties DEF Taken, after
<1> QED BY <1>7, <1>11 DEF w
-----------------------------------------------------------------------------
(* The invariant's parts, of any state in the middle of a step.            *)

LEMMA PromiseElements ==
    ASSUME NEW pr, NEW re, NEW sh, NEW as, NEW w, NEW st, Typed(pr, re, sh, as, w, st)
    PROVE  /\ pr \in Seq(PromiseType)
           /\ Len(pr) \in Nat /\ DOMAIN pr = 1 .. Len(pr)
           /\ \A x \in DOMAIN pr : pr[x] \in PromiseType
BY LenProperties DEF Typed

LEMMA ReactionElements ==
    ASSUME NEW pr, NEW re, NEW sh, NEW as, NEW w, NEW st, Typed(pr, re, sh, as, w, st)
    PROVE  /\ re \in Seq(ReactionType(Len(pr), Len(sh), Len(as)))
           /\ Len(re) \in Nat /\ DOMAIN re = 1 .. Len(re)
           /\ \A x \in DOMAIN re : re[x] \in ReactionType(Len(pr), Len(sh), Len(as))
BY LenProperties DEF Typed

LEMMA SharedElements ==
    ASSUME NEW pr, NEW re, NEW sh, NEW as, NEW w, NEW st, Typed(pr, re, sh, as, w, st)
    PROVE  /\ sh \in Seq(SharedType(Len(pr)))
           /\ Len(sh) \in Nat /\ DOMAIN sh = 1 .. Len(sh)
           /\ \A x \in DOMAIN sh : sh[x] \in SharedType(Len(pr))
BY LenProperties DEF Typed

LEMMA AsyncElements ==
    ASSUME NEW pr, NEW re, NEW sh, NEW as, NEW w, NEW st, Typed(pr, re, sh, as, w, st)
    PROVE  /\ as \in Seq(1 .. Len(pr))
           /\ Len(as) \in Nat /\ DOMAIN as = 1 .. Len(as)
           /\ \A x \in DOMAIN as : as[x] \in 1 .. Len(pr)
BY LenProperties DEF Typed

LEMMA JobElements ==
    ASSUME NEW pr, NEW re, NEW sh, NEW as, NEW w, NEW st, Typed(pr, re, sh, as, w, st)
    PROVE  /\ w \in Seq(JobType(Len(pr), Len(re)))
           /\ Len(w) \in Nat /\ DOMAIN w = 1 .. Len(w)
           /\ \A x \in DOMAIN w : w[x] \in JobType(Len(pr), Len(re))
BY LenProperties DEF Typed

LEMMA CallElements ==
    ASSUME NEW pr, NEW re, NEW sh, NEW as, NEW w, NEW st, Typed(pr, re, sh, as, w, st)
    PROVE  /\ st \in Seq(CallType(Len(pr), Len(sh), Len(as)))
           /\ Len(st) \in Nat /\ DOMAIN st = 1 .. Len(st)
           /\ \A x \in DOMAIN st : st[x] \in CallType(Len(pr), Len(sh), Len(as))
BY LenProperties DEF Typed

\* What there is stays what it is as more is made.
LEMMA GrowsTyped ==
    ASSUME NEW pr, NEW re, NEW sh, NEW as, NEW w, NEW st, Typed(pr, re, sh, as, w, st),
           NEW mp \in Nat, NEW mr \in Nat, NEW ms \in Nat, NEW ma \in Nat,
           Len(pr) <= mp, Len(re) <= mr, Len(sh) <= ms, Len(as) <= ma
    PROVE  /\ re \in Seq(ReactionType(mp, ms, ma)) /\ sh \in Seq(SharedType(mp)) /\ as \in Seq(1 .. mp)
           /\ w \in Seq(JobType(mp, mr)) /\ st \in Seq(CallType(mp, ms, ma))
<1> DEFINE np == Len(pr)
           nr == Len(re)
           ns == Len(sh)
           na == Len(as)
<1>1. /\ np \in Nat /\ nr \in Nat /\ ns \in Nat /\ na \in Nat
      /\ np <= mp /\ nr <= mr /\ ns <= ms /\ na <= ma
  BY PromiseElements, ReactionElements, SharedElements, AsyncElements, JobElements, CallElements
<1>2. /\ re \in Seq(ReactionType(np, ns, na)) /\ sh \in Seq(SharedType(np)) /\ as \in Seq(1 .. np)
      /\ w \in Seq(JobType(np, nr)) /\ st \in Seq(CallType(np, ns, na))
  BY DEF Typed
<1> HIDE DEF np, nr, ns, na
<1>3. /\ 1 .. np \subseteq 1 .. mp
      /\ SharedType(np) \subseteq SharedType(mp)
      /\ ReactionType(np, ns, na) \subseteq ReactionType(mp, ms, ma)
      /\ JobType(np, nr) \subseteq JobType(mp, mr)
      /\ CallType(np, ns, na) \subseteq CallType(mp, ms, ma)
  <2>1. /\ 1 .. np \subseteq 1 .. mp /\ 1 .. nr \subseteq 1 .. mr /\ 1 .. ns \subseteq 1 .. ms
        /\ 1 .. na \subseteq 1 .. ma /\ 0 .. np \subseteq 0 .. mp
    BY <1>1
  <2>2. SharedType(np) \subseteq SharedType(mp)
    BY <2>1 DEF SharedType
  <2>3. ReactionType(np, ns, na) \subseteq ReactionType(mp, ms, ma)
    BY <2>1 DEF ReactionType
  <2>4. JobType(np, nr) \subseteq JobType(mp, mr)
    BY <2>1 DEF JobType
  <2>5. CallType(np, ns, na) \subseteq CallType(mp, ms, ma)
    BY <2>1 DEF CallType
  <2> QED BY <2>1, <2>2, <2>3, <2>4, <2>5
<1>4. \A S, T : S \subseteq T => \A s \in Seq(S) : s \in Seq(T)
  BY SeqMonotonic
<1> QED BY <1>2, <1>3, <1>4

\* Nothing that settles a promise comes, or one thing for a free promise.
Fewer(pr, re, sh, as, w, st, pr2, re2, sh2, as2, w2, st2) ==
    \A p \in DOMAIN pr2, a \in Kind, n \in Nat :
        Settles(a, n, p, re2, sh2, as2, w2, st2) =>
            p \in DOMAIN pr /\ pr2[p].state = pr[p].state /\ Settles(a, n, p, re, sh, as, w, st)
OneMore(k, m, pr, re, sh, as, w, st, pr2, re2, sh2, as2, w2, st2) ==
    \A p \in DOMAIN pr2, a \in Kind, n \in Nat :
        Settles(a, n, p, re2, sh2, as2, w2, st2) =>
            /\ p \in DOMAIN pr /\ pr2[p].state = pr[p].state
            /\ \/ Settles(a, n, p, re, sh, as, w, st)
               \/ a = k /\ n = m /\ Free(p, pr, re, sh, as, w, st)

LEMMA SoleFewer ==
    ASSUME NEW pr, NEW re, NEW sh, NEW as, NEW w, NEW st, Sole(pr, re, sh, as, w, st),
           NEW pr2, NEW re2, NEW sh2, NEW as2, NEW w2, NEW st2,
           Fewer(pr, re, sh, as, w, st, pr2, re2, sh2, as2, w2, st2)
    PROVE  Sole(pr2, re2, sh2, as2, w2, st2)
<1> SUFFICES ASSUME NEW p \in DOMAIN pr2, NEW a \in Kind, NEW m \in Nat,
                    Settles(a, m, p, re2, sh2, as2, w2, st2)
             PROVE  /\ pr2[p].state = "pending"
                    /\ \A b \in Kind, n \in Nat :
                          Settles(b, n, p, re2, sh2, as2, w2, st2) => a = b /\ m = n
  BY DEF Sole
<1>1. p \in DOMAIN pr /\ pr2[p].state = pr[p].state /\ Settles(a, m, p, re, sh, as, w, st)
  BY DEF Fewer
<1>2. /\ pr[p].state = "pending"
      /\ \A b \in Kind, n \in Nat : Settles(b, n, p, re, sh, as, w, st) => a = b /\ m = n
  BY <1>1 DEF Sole
<1> QED BY <1>1, <1>2 DEF Fewer

LEMMA SoleMore ==
    ASSUME NEW pr, NEW re, NEW sh, NEW as, NEW w, NEW st, Sole(pr, re, sh, as, w, st),
           NEW pr2, NEW re2, NEW sh2, NEW as2, NEW w2, NEW st2, NEW k, NEW m,
           OneMore(k, m, pr, re, sh, as, w, st, pr2, re2, sh2, as2, w2, st2)
    PROVE  Sole(pr2, re2, sh2, as2, w2, st2)
<1> SUFFICES ASSUME NEW p \in DOMAIN pr2, NEW a \in Kind, NEW x \in Nat,
                    Settles(a, x, p, re2, sh2, as2, w2, st2)
             PROVE  /\ pr2[p].state = "pending"
                    /\ \A b \in Kind, n \in Nat :
                          Settles(b, n, p, re2, sh2, as2, w2, st2) => a = b /\ x = n
  BY DEF Sole
<1>1. /\ p \in DOMAIN pr /\ pr2[p].state = pr[p].state
      /\ \/ Settles(a, x, p, re, sh, as, w, st)
         \/ a = k /\ x = m /\ Free(p, pr, re, sh, as, w, st)
  BY DEF OneMore
<1>2. CASE Free(p, pr, re, sh, as, w, st)
  <2>1. pr[p].state = "pending" /\ \A b \in Kind, n \in Nat : ~Settles(b, n, p, re, sh, as, w, st)
    BY <1>2 DEF Free
  <2>2. \A b \in Kind, n \in Nat : Settles(b, n, p, re2, sh2, as2, w2, st2) => b = k /\ n = m
    BY <2>1 DEF OneMore
  <2> QED BY <1>1, <2>1, <2>2
<1>3. CASE ~Free(p, pr, re, sh, as, w, st)
  <2>1. \A b \in Kind, n \in Nat :
           Settles(b, n, p, re2, sh2, as2, w2, st2) => Settles(b, n, p, re, sh, as, w, st)
    BY <1>3 DEF OneMore
  <2>2. /\ pr[p].state = "pending"
        /\ \A b \in Kind, n \in Nat : Settles(b, n, p, re, sh, as, w, st) => a = b /\ x = n
    BY <1>1, <1>3 DEF Sole
  <2> QED BY <1>1, <2>1, <2>2
<1> QED BY <1>2, <1>3

\* A call is pushed that settles nothing, or a promise nothing else does.
LEMMA PushKeeps ==
    ASSUME NEW pr, NEW re, NEW sh, NEW as, NEW w, NEW st, Good(pr, re, sh, as, w, st),
           NEW c \in CallType(Len(pr), Len(sh), Len(as)),
           \A p \in DOMAIN pr : Drives(c, as, p) => Free(p, pr, re, sh, as, w, st)
    PROVE  /\ Good(pr, re, sh, as, w, Append(st, c))
           /\ \A p : Free(p, pr, re, sh, as, w, st) /\ ~Drives(c, as, p)
                        => Free(p, pr, re, sh, as, w, Append(st, c))
<1> DEFINE T == CallType(Len(pr), Len(sh), Len(as))
           later == Append(st, c)
<1>0. Typed(pr, re, sh, as, w, st)
  BY DEF Good
<1>1. st \in Seq(T) /\ Len(st) \in Nat /\ DOMAIN st = 1 .. Len(st) /\ c \in T
  <2>1. Len(st) \in Nat /\ DOMAIN st = 1 .. Len(st)
    BY <1>0, PromiseElements, ReactionElements, SharedElements, AsyncElements, JobElements, CallElements
  <2> QED BY <1>0, <2>1 DEF Typed
<1> HIDE DEF T
<1>2. /\ later \in Seq(T) /\ Len(later) = Len(st) + 1
      /\ \A i \in 1 .. Len(st) : later[i] = st[i]
      /\ later[Len(st) + 1] = c
  BY <1>1, AppendProperties
<1> HIDE DEF later
<1>3. DOMAIN later = 1 .. Len(st) + 1
  BY <1>2, LenProperties
<1>4. Typed(pr, re, sh, as, w, later)
  BY <1>0, <1>2 DEF Typed, T
<1>5. ASSUME NEW p, NEW a, NEW n \in Nat, Settles(a, n, p, re, sh, as, w, later)
      PROVE  Settles(a, n, p, re, sh, as, w, st) \/ (a = "call" /\ n = Len(st) + 1 /\ Drives(c, as, p))
  <2>1. CASE CallSettles(n, p, as, later)
    <3>1. n \in 1 .. Len(st) + 1 /\ Drives(later[n], as, p)
      BY <1>3, <2>1 DEF CallSettles
    <3>2. CASE n = Len(st) + 1
      BY <1>2, <1>5, <3>1, <3>2 DEF Settles
    <3>3. CASE n # Len(st) + 1
      <4>1. n \in 1 .. Len(st)
        BY <1>1, <3>1, <3>3
      <4>2. CallSettles(n, p, as, st)
        BY <1>1, <1>2, <3>1, <4>1 DEF CallSettles
      <4> QED BY <1>5, <4>2 DEF Settles
    <3> QED BY <3>2, <3>3
  <2>2. CASE ~CallSettles(n, p, as, later)
    BY <1>5, <2>2 DEF Settles
  <2> QED BY <2>1, <2>2
<1>6. Sole(pr, re, sh, as, w, later)
  <2>1. OneMore("call", Len(st) + 1, pr, re, sh, as, w, st, pr, re, sh, as, w, later)
    <3> SUFFICES ASSUME NEW p \in DOMAIN pr, NEW a \in Kind, NEW n \in Nat,
                        Settles(a, n, p, re, sh, as, w, later)
                 PROVE  \/ Settles(a, n, p, re, sh, as, w, st)
                        \/ a = "call" /\ n = Len(st) + 1 /\ Free(p, pr, re, sh, as, w, st)
      BY DEF OneMore
    <3>1. \/ Settles(a, n, p, re, sh, as, w, st)
          \/ a = "call" /\ n = Len(st) + 1 /\ Drives(c, as, p)
      BY <1>5, Zenon
    <3> QED BY <3>1
  <2>2. Sole(pr, re, sh, as, w, st)
    BY DEF Good
  <2> QED BY <2>1, <2>2, SoleMore
<1>7. ASSUME NEW p, Free(p, pr, re, sh, as, w, st), ~Drives(c, as, p)
      PROVE  Free(p, pr, re, sh, as, w, later)
  BY <1>5, <1>7 DEF Free
<1> QED BY <1>4, <1>6, <1>7 DEF Good, later

\* The last call is done, and what it settled is free.
LEMMA PopKeeps ==
    ASSUME NEW pr, NEW re, NEW sh, NEW as, NEW w, NEW st, Good(pr, re, sh, as, w, st), st # <<>>
    PROVE  /\ st[Len(st)] \in CallType(Len(pr), Len(sh), Len(as))
           /\ Len(SubSeq(st, 1, Len(st) - 1)) < Len(st)
           /\ Good(pr, re, sh, as, w, SubSeq(st, 1, Len(st) - 1))
           /\ \A p \in DOMAIN pr : Drives(st[Len(st)], as, p)
                        => Free(p, pr, re, sh, as, w, SubSeq(st, 1, Len(st) - 1))
<1> DEFINE T == CallType(Len(pr), Len(sh), Len(as))
           below == SubSeq(st, 1, Len(st) - 1)
<1>0. Typed(pr, re, sh, as, w, st) /\ Sole(pr, re, sh, as, w, st)
  BY DEF Good
<1>1. /\ st \in Seq(T) /\ Len(st) \in Nat /\ DOMAIN st = 1 .. Len(st)
      /\ \A i \in DOMAIN st : st[i] \in T
  <2>1. Len(st) \in Nat /\ DOMAIN st = 1 .. Len(st) /\ \A i \in DOMAIN st : st[i] \in T
    <3> HIDE DEF T
    <3>1. st \in Seq(T)
      BY <1>0 DEF Typed, T
    <3> QED BY <3>1, LenProperties
  <2> QED BY <1>0, <2>1 DEF Typed
<1> HIDE DEF T
<1>2. Len(st) > 0 /\ Len(st) \in DOMAIN st
  BY <1>1, EmptySeq
<1>3. /\ below \in Seq(T) /\ Len(below) = Len(st) - 1
      /\ \A i \in 1 .. Len(st) - 1 : below[i] = st[i]
  BY <1>1, <1>2, SubSeqProperties
<1> HIDE DEF below
<1>4. DOMAIN below = 1 .. Len(st) - 1
  BY <1>3, LenProperties
<1>5. Typed(pr, re, sh, as, w, below)
  BY <1>0, <1>3 DEF Typed, T
<1>6. ASSUME NEW p, NEW a, NEW n \in Nat, Settles(a, n, p, re, sh, as, w, below)
      PROVE  Settles(a, n, p, re, sh, as, w, st) /\ (a = "call" => n < Len(st))
  <2>1. ASSUME CallSettles(n, p, as, below) PROVE CallSettles(n, p, as, st) /\ n < Len(st)
    <3>1. n \in 1 .. Len(st) - 1 /\ Drives(below[n], as, p)
      BY <1>4, <2>1 DEF CallSettles
    <3>3. n \in DOMAIN st /\ n < Len(st)
      BY <1>1, <3>1
    <3>2. below[n] = st[n]
      BY <1>3, <3>1
    <3> QED BY <3>1, <3>2, <3>3 DEF CallSettles
  <2> QED BY <1>1, <1>6, <2>1 DEF Settles
<1>7. Sole(pr, re, sh, as, w, below)
  <2>1. Fewer(pr, re, sh, as, w, st, pr, re, sh, as, w, below)
    BY <1>6 DEF Fewer
  <2> QED BY <1>0, <2>1, SoleFewer
<1>8. ASSUME NEW p \in DOMAIN pr, Drives(st[Len(st)], as, p)
      PROVE  Free(p, pr, re, sh, as, w, below)
  <2>1. Settles("call", Len(st), p, re, sh, as, w, st) /\ "call" \in Kind
    BY <1>2, <1>8 DEF Settles, CallSettles, Kind
  <2>2. /\ pr[p].state = "pending"
        /\ \A b \in Kind, n \in Nat : Settles(b, n, p, re, sh, as, w, st) => "call" = b /\ Len(st) = n
    BY <1>0, <1>1, <2>1 DEF Sole
  <2>3. ASSUME NEW b \in Kind, NEW n \in Nat, Settles(b, n, p, re, sh, as, w, below) PROVE FALSE
    <3>1. Settles(b, n, p, re, sh, as, w, st) /\ (b = "call" => n < Len(st))
      BY <1>6, <2>3
    <3>2. "call" = b /\ Len(st) = n
      BY <2>2, <3>1
    <3> QED BY <1>1, <3>1, <3>2
  <2> QED BY <2>2, <2>3 DEF Free
<1>9. st[Len(st)] \in T /\ Len(below) < Len(st)
  BY <1>1, <1>2, <1>3
<1>10. Lines(pr, re, w)
  BY DEF Good
<1>11. Good(pr, re, sh, as, w, below)
  BY <1>5, <1>7, <1>10 DEF Good
<1> QED BY <1>8, <1>9, <1>11 DEF T, below

\* The stack of an evaluation's end, or of one that has thrown.
LEMMA NoCallsKeeps ==
    ASSUME NEW pr, NEW re, NEW sh, NEW as, NEW w, NEW st, Good(pr, re, sh, as, w, st)
    PROVE  Good(pr, re, sh, as, w, <<>>)
<1> DEFINE none == <<>>
<1>1. Typed(pr, re, sh, as, w, none) /\ DOMAIN none = {}
  <2>1. \A T : none \in Seq(T) /\ Len(none) = 0
    BY EmptySeq
  <2>2. DOMAIN none = 1 .. 0
    BY <2>1, LenProperties
  <2> HIDE DEF none
  <2>3. Typed(pr, re, sh, as, w, none)
    BY <2>1 DEF Good, Typed
  <2> QED BY <2>2, <2>3
<1> HIDE DEF none
<1>2. \A p, a, n : Settles(a, n, p, re, sh, as, w, none) => Settles(a, n, p, re, sh, as, w, st)
  BY <1>1 DEF Settles, CallSettles
<1>3. Sole(pr, re, sh, as, w, none)
  <2>1. Sole(pr, re, sh, as, w, st)
    BY DEF Good
  <2>2. Fewer(pr, re, sh, as, w, st, pr, re, sh, as, w, none)
    BY <1>2 DEF Fewer
  <2> QED BY <2>1, <2>2, SoleFewer
<1> QED BY <1>1, <1>3 DEF Good, none

\* What settles something settles a promise there is.
LEMMA SettlesOne ==
    ASSUME NEW pr, NEW re, NEW sh, NEW as, NEW w, NEW st, Typed(pr, re, sh, as, w, st),
           NEW a, NEW n, NEW p, Settles(a, n, p, re, sh, as, w, st)
    PROVE  p \in DOMAIN pr
<1>1. /\ Len(pr) \in Nat /\ DOMAIN pr = 1 .. Len(pr)
      /\ \A r \in DOMAIN re : re[r] \in ReactionType(Len(pr), Len(sh), Len(as))
      /\ \A s \in DOMAIN sh : sh[s] \in SharedType(Len(pr))
      /\ DOMAIN as = 1 .. Len(as) /\ \A x \in DOMAIN as : as[x] \in 1 .. Len(pr)
      /\ \A i \in DOMAIN w : w[i] \in JobType(Len(pr), Len(re))
      /\ \A i \in DOMAIN st : st[i] \in CallType(Len(pr), Len(sh), Len(as))
  BY PromiseElements, ReactionElements, SharedElements, AsyncElements, JobElements, CallElements
<1>2. CASE PairSettles(n, p, sh)
  BY <1>1, <1>2 DEF PairSettles, SharedType
<1>3. CASE JobSettles(n, p, w)
  BY <1>1, <1>3 DEF JobSettles, JobType
<1>4. CASE ReactionSettles(n, p, re, as)
  <2>1. n \in DOMAIN re /\ Derives(re[n], as, p)
    BY <1>4 DEF ReactionSettles
  <2>2. /\ re[n].kind = "handler" => re[n].of \in 1 .. Len(pr)
        /\ re[n].kind = "async" => re[n].of \in DOMAIN as
    BY <1>1, <2>1 DEF ReactionType
  <2> QED BY <1>1, <2>1, <2>2 DEF Derives
<1>5. CASE CallSettles(n, p, as, st)
  BY <1>1, <1>5 DEF CallSettles, Drives, CallType
<1> QED BY <1>2, <1>3, <1>4, <1>5 DEF Settles

LEMMA NewPromiseKeeps ==
    ASSUME NEW pr, NEW re, NEW sh, NEW as, NEW w, NEW st, Good(pr, re, sh, as, w, st), Len(pr) < MaxPromises
    PROVE  /\ Good(Append(pr, NewPromise), re, sh, as, w, st)
           /\ Free(Len(pr) + 1, Append(pr, NewPromise), re, sh, as, w, st)
           /\ \A p : Free(p, pr, re, sh, as, w, st) => Free(p, Append(pr, NewPromise), re, sh, as, w, st)
           /\ Len(Append(pr, NewPromise)) = Len(pr) + 1
           /\ DOMAIN pr \subseteq DOMAIN Append(pr, NewPromise)
<1> DEFINE later == Append(pr, NewPromise)
           N == Len(pr)
<1>0. Typed(pr, re, sh, as, w, st) /\ Sole(pr, re, sh, as, w, st) /\ Lines(pr, re, w)
  BY DEF Good
<1>1. NewPromise \in PromiseType /\ NewPromise.state = "pending" /\ NewPromise.waiting = <<>>
  BY EmptySeq, BoundsAssumption DEF NewPromise, PromiseType, Plain, Object
<1>2. pr \in Seq(PromiseType) /\ N \in Nat /\ DOMAIN pr = 1 .. N
  BY <1>0, PromiseElements
<1>3. /\ later \in Seq(PromiseType) /\ Len(later) = N + 1
      /\ \A p \in 1 .. N : later[p] = pr[p]
      /\ later[N + 1] = NewPromise
  BY <1>1, <1>2, AppendProperties
<1> HIDE DEF later
<1>4. DOMAIN later = 1 .. N + 1
  BY <1>3, LenProperties
<1>5. Typed(later, re, sh, as, w, st)
  <2>1. Len(re) \in Nat /\ Len(sh) \in Nat /\ Len(as) \in Nat
    BY <1>0, PromiseElements, ReactionElements, SharedElements, AsyncElements, JobElements, CallElements
  <2>5. \A i \in Nat : i + 1 \in Nat /\ i <= i + 1 /\ i <= i
    OBVIOUS
  <2> DEFINE mp == N + 1
             mr == Len(re)
             ms == Len(sh)
             ma == Len(as)
  <2>2. /\ mp \in Nat /\ mr \in Nat /\ ms \in Nat /\ ma \in Nat
        /\ Len(pr) <= mp /\ Len(re) <= mr /\ Len(sh) <= ms /\ Len(as) <= ma
    BY <1>2, <2>1, <2>5, Zenon
  <2> HIDE DEF mp, mr, ms, ma
  <2>3. /\ re \in Seq(ReactionType(mp, ms, ma)) /\ sh \in Seq(SharedType(mp)) /\ as \in Seq(1 .. mp)
        /\ w \in Seq(JobType(mp, mr)) /\ st \in Seq(CallType(mp, ms, ma))
    BY <1>0, <2>2, GrowsTyped
  <2>4. Len(later) = mp /\ mp <= MaxPromises
    BY <1>2, <1>3, BoundsAssumption DEF mp
  <2> QED BY <1>3, <2>3, <2>4 DEF Typed, mr, ms, ma
<1>6. Lines(later, re, w)
  <2>1. /\ \A r \in DOMAIN re : re[r].on \in 0 .. N /\ (re[r].on # 0 => later[re[r].on] = pr[re[r].on])
        /\ \A i \in DOMAIN w : w[i].kind = "reaction" => w[i].on \in DOMAIN re
    <3>1. /\ \A r \in DOMAIN re : re[r] \in ReactionType(N, Len(sh), Len(as))
          /\ \A i \in DOMAIN w : w[i] \in JobType(N, Len(re))
          /\ DOMAIN re = 1 .. Len(re)
      BY <1>0, PromiseElements, ReactionElements, SharedElements, AsyncElements, JobElements, CallElements
    <3>2. \A r \in DOMAIN re : re[r].on \in 0 .. N
      BY <3>1 DEF ReactionType
    <3>3. \A i \in DOMAIN w : w[i].kind = "reaction" => w[i].on \in DOMAIN re
      BY <3>1 DEF JobType
    <3> QED BY <1>2, <1>3, <3>2, <3>3
  <2>2. DOMAIN <<>> = {}
    OBVIOUS
  <2>3. OnRecord(later, re)
    <3>1. \A p \in DOMAIN later : (p \in DOMAIN pr /\ later[p] = pr[p]) \/ later[p] = NewPromise
      BY <1>2, <1>3, <1>4
    <3> QED BY <1>0, <1>1, <2>2, <3>1 DEF Lines, OnRecord
  <2>4. InJob(later, re, w)
    BY <1>0, <2>1 DEF Lines, InJob
  <2>5. \A r \in DOMAIN re : Stands(r, pr, re, w) => Stands(r, later, re, w)
    BY <2>1 DEF Stands
  <2> QED BY <1>0, <2>3, <2>4, <2>5 DEF Lines
<1>7. Fewer(pr, re, sh, as, w, st, later, re, sh, as, w, st)
  BY <1>0, <1>2, <1>3, SettlesOne DEF Fewer
<1>8. Sole(later, re, sh, as, w, st)
  BY <1>0, <1>7, SoleFewer
<1>9. Free(N + 1, later, re, sh, as, w, st)
  <2>1. N + 1 \in DOMAIN later /\ later[N + 1].state = "pending" /\ N + 1 \notin DOMAIN pr
    BY <1>1, <1>2, <1>3, <1>4
  <2> QED BY <1>0, <2>1, SettlesOne DEF Free
<1>10. ASSUME NEW p, Free(p, pr, re, sh, as, w, st) PROVE Free(p, later, re, sh, as, w, st)
  <2>1. p \in DOMAIN pr /\ p \in DOMAIN later /\ later[p] = pr[p]
    BY <1>2, <1>3, <1>4, <1>10 DEF Free
  <2> QED BY <1>10, <2>1 DEF Free
<1>11. DOMAIN pr \subseteq DOMAIN later
  BY <1>2, <1>4
<1> QED BY <1>3, <1>5, <1>6, <1>8, <1>9, <1>10, <1>11 DEF Good, later

\* A pair of resolving functions is called: what it settled is free.
LEMMA CalledKeeps ==
    ASSUME NEW pr, NEW re, NEW sh, NEW as, NEW w, NEW st, Good(pr, re, sh, as, w, st),
           NEW s \in DOMAIN sh, ~sh[s].called
    PROVE  /\ Good(pr, re, [sh EXCEPT ![s].called = TRUE], as, w, st)
           /\ Free(sh[s].promise, pr, re, [sh EXCEPT ![s].called = TRUE], as, w, st)
<1> DEFINE T == SharedType(Len(pr))
           o == [sh[s] EXCEPT !.called = TRUE]
           later == [sh EXCEPT ![s].called = TRUE]
<1>0. Typed(pr, re, sh, as, w, st) /\ Sole(pr, re, sh, as, w, st) /\ Lines(pr, re, w)
  BY DEF Good
<1>1. /\ sh \in Seq(T) /\ Len(sh) \in Nat /\ DOMAIN sh = 1 .. Len(sh) /\ sh[s] \in T
      /\ DOMAIN pr = 1 .. Len(pr) /\ Len(as) \in Nat
  <2>1. /\ Len(sh) \in Nat /\ DOMAIN sh = 1 .. Len(sh) /\ sh[s] \in T
        /\ DOMAIN pr = 1 .. Len(pr) /\ Len(as) \in Nat
    BY <1>0, PromiseElements, ReactionElements, SharedElements, AsyncElements, JobElements, CallElements
  <2> QED BY <1>0, <2>1 DEF Typed
<1>2. o \in T /\ o.promise = sh[s].promise /\ o.called /\ sh[s].promise \in 1 .. Len(pr)
  BY <1>1 DEF SharedType
<1>3. later = [sh EXCEPT ![s] = o]
  OBVIOUS
<1> HIDE DEF T, o, later
<1>4. /\ later \in Seq(T) /\ Len(later) = Len(sh)
      /\ \A x \in 1 .. Len(sh) : later[x] = IF x = s THEN o ELSE sh[x]
  BY <1>1, <1>2, <1>3, ExceptSeq
<1>5. DOMAIN later = DOMAIN sh
  BY <1>1, <1>4, LenProperties
<1>6. Typed(pr, re, later, as, w, st)
  BY <1>0, <1>4 DEF Typed, T
<1>7. ASSUME NEW p, NEW a, NEW n \in Nat, Settles(a, n, p, re, later, as, w, st)
      PROVE  Settles(a, n, p, re, sh, as, w, st) /\ (a = "pair" => n # s)
  <2>1. PairSettles(n, p, later) => PairSettles(n, p, sh) /\ n # s
    BY <1>1, <1>2, <1>4, <1>5 DEF PairSettles
  <2> QED BY <1>7, <2>1 DEF Settles
<1>8. Sole(pr, re, later, as, w, st)
  <2>1. Fewer(pr, re, sh, as, w, st, pr, re, later, as, w, st)
    BY <1>7 DEF Fewer
  <2> QED BY <1>0, <2>1, SoleFewer
<1>9. Free(sh[s].promise, pr, re, later, as, w, st)
  <2> DEFINE p == sh[s].promise
  <2>1. p \in DOMAIN pr /\ s \in Nat
    BY <1>1, <1>2
  <2>2. Settles("pair", s, p, re, sh, as, w, st) /\ "pair" \in Kind
    BY DEF Settles, PairSettles, Kind
  <2> HIDE DEF p
  <2>3. /\ pr[p].state = "pending"
        /\ \A b \in Kind, n \in Nat : Settles(b, n, p, re, sh, as, w, st) => "pair" = b /\ s = n
    BY <1>0, <2>1, <2>2 DEF Sole
  <2>4. ASSUME NEW b \in Kind, NEW n \in Nat, Settles(b, n, p, re, later, as, w, st) PROVE FALSE
    <3>1. Settles(b, n, p, re, sh, as, w, st) /\ (b = "pair" => n # s)
      BY <1>7, <2>4
    <3> QED BY <2>3, <3>1
  <2>5. Free(p, pr, re, later, as, w, st)
    BY <2>1, <2>3, <2>4 DEF Free
  <2> QED BY <2>5 DEF p
<1> QED BY <1>0, <1>6, <1>8, <1>9 DEF Good, later

\* A new pair is made for a promise nothing else settles.
LEMMA NewSharedKeeps ==
    ASSUME NEW pr, NEW re, NEW sh, NEW as, NEW w, NEW st, Good(pr, re, sh, as, w, st),
           NEW p, Free(p, pr, re, sh, as, w, st), NEW given \in BOOLEAN
    PROVE  /\ Good(pr, re, Append(sh, NewShared(p, given)), as, w, st)
           /\ Len(sh) \in Nat /\ Len(Append(sh, NewShared(p, given))) = Len(sh) + 1
<1> DEFINE T == SharedType(Len(pr))
           o == NewShared(p, given)
           later == Append(sh, o)
           N == Len(sh)
<1>0. Typed(pr, re, sh, as, w, st) /\ Sole(pr, re, sh, as, w, st) /\ Lines(pr, re, w)
  BY DEF Good
<1>1. sh \in Seq(T) /\ N \in Nat /\ DOMAIN sh = 1 .. N
  BY <1>0, SharedElements
<1>2. o \in T /\ o.promise = p
  BY <1>0, PromiseElements DEF Free, NewShared, SharedType
<1> HIDE DEF T, o
<1>3. /\ later \in Seq(T) /\ Len(later) = N + 1
      /\ \A x \in 1 .. N : later[x] = sh[x]
      /\ later[N + 1] = o
  BY <1>1, <1>2, AppendProperties
<1> HIDE DEF later
<1>4. DOMAIN later = 1 .. N + 1
  BY <1>3, LenProperties
<1>5. Typed(pr, re, later, as, w, st)
  <2>1. Len(pr) \in Nat /\ Len(re) \in Nat /\ Len(as) \in Nat
    BY <1>0, PromiseElements, ReactionElements, AsyncElements
  <2>2. \A i \in Nat : i + 1 \in Nat /\ i <= i + 1 /\ i <= i
    OBVIOUS
  <2> DEFINE mp == Len(pr)
             mr == Len(re)
             ms == N + 1
             ma == Len(as)
  <2>3. /\ mp \in Nat /\ mr \in Nat /\ ms \in Nat /\ ma \in Nat
        /\ Len(pr) <= mp /\ Len(re) <= mr /\ Len(sh) <= ms /\ Len(as) <= ma
    BY <1>1, <2>1, <2>2, Zenon
  <2> HIDE DEF mp, mr, ms, ma
  <2>4. re \in Seq(ReactionType(mp, ms, ma)) /\ st \in Seq(CallType(mp, ms, ma))
    BY <1>0, <2>3, GrowsTyped
  <2>5. Len(later) = ms
    BY <1>3 DEF ms
  <2> QED BY <1>0, <1>3, <2>4, <2>5 DEF Typed, mp, mr, ma, T
<1>6. ASSUME NEW q, NEW a, NEW n \in Nat, Settles(a, n, q, re, later, as, w, st)
      PROVE  Settles(a, n, q, re, sh, as, w, st) \/ (a = "pair" /\ n = N + 1 /\ q = p)
  <2>1. PairSettles(n, q, later) => PairSettles(n, q, sh) \/ (n = N + 1 /\ q = p)
    <3> SUFFICES ASSUME PairSettles(n, q, later) PROVE PairSettles(n, q, sh) \/ (n = N + 1 /\ q = p)
      OBVIOUS
    <3> HIDE DEF N
    <3>1. n \in 1 .. N + 1 /\ later[n].promise = q /\ ~later[n].called
      BY <1>4 DEF PairSettles
    <3>2. CASE n = N + 1
      BY <1>2, <1>3, <3>1, <3>2
    <3>3. CASE n # N + 1
      <4>1. n \in 1 .. N
        BY <1>1, <3>1, <3>3
      <4> QED BY <1>1, <1>3, <3>1, <4>1 DEF PairSettles
    <3> QED BY <3>2, <3>3
  <2> HIDE DEF N
  <2> QED BY <1>6, <2>1 DEF Settles
<1>7. Sole(pr, re, later, as, w, st)
  <2> HIDE DEF N
  <2>1. OneMore("pair", N + 1, pr, re, sh, as, w, st, pr, re, later, as, w, st)
    <3> SUFFICES ASSUME NEW q \in DOMAIN pr, NEW a \in Kind, NEW n \in Nat,
                        Settles(a, n, q, re, later, as, w, st)
                 PROVE  \/ Settles(a, n, q, re, sh, as, w, st)
                        \/ a = "pair" /\ n = N + 1 /\ Free(q, pr, re, sh, as, w, st)
      BY DEF OneMore
    <3>1. Settles(a, n, q, re, sh, as, w, st) \/ (a = "pair" /\ n = N + 1 /\ q = p)
      BY <1>6, Zenon
    <3> QED BY <3>1, Zenon
  <2> QED BY <1>0, <2>1, SoleMore
<1> QED BY <1>0, <1>1, <1>3, <1>5, <1>7 DEF Good, later, o

\* A new async function settles nothing before its body is called.
LEMMA NewAsyncKeeps ==
    ASSUME NEW pr, NEW re, NEW sh, NEW as, NEW w, NEW st, Good(pr, re, sh, as, w, st), NEW p \in DOMAIN pr
    PROVE  /\ Good(pr, re, sh, Append(as, p), w, st)
           /\ \A q : Free(q, pr, re, sh, as, w, st) => Free(q, pr, re, sh, Append(as, p), w, st)
           /\ Len(as) \in Nat /\ Len(Append(as, p)) = Len(as) + 1 /\ Append(as, p)[Len(as) + 1] = p
<1> DEFINE T == 1 .. Len(pr)
           later == Append(as, p)
           N == Len(as)
<1>0. Typed(pr, re, sh, as, w, st) /\ Sole(pr, re, sh, as, w, st) /\ Lines(pr, re, w)
  BY DEF Good
<1>1. as \in Seq(T) /\ N \in Nat /\ DOMAIN as = 1 .. N /\ p \in T
  BY <1>0, AsyncElements, PromiseElements
<1> HIDE DEF T
<1>2. /\ later \in Seq(T) /\ Len(later) = N + 1
      /\ \A x \in 1 .. N : later[x] = as[x]
      /\ later[N + 1] = p
  <2> HIDE DEF N
  <2>1. Len(as) \in Nat
    BY <1>1 DEF N
  <2>2. /\ later \in Seq(T) /\ Len(later) = Len(as) + 1
        /\ \A x \in 1 .. Len(as) : later[x] = as[x]
        /\ later[Len(as) + 1] = p
    <3>1. \A seq \in Seq(T), e \in T :
             /\ Append(seq, e) \in Seq(T) /\ Len(Append(seq, e)) = Len(seq) + 1
             /\ \A x \in 1 .. Len(seq) : Append(seq, e)[x] = seq[x]
             /\ Append(seq, e)[Len(seq) + 1] = e
      BY AppendProperties
    <3> QED BY <1>1, <3>1
  <2> HIDE DEF later
  <2> QED BY <2>2 DEF N
<1> HIDE DEF later
<1>3. Typed(pr, re, sh, later, w, st)
  <2>1. Len(pr) \in Nat /\ Len(re) \in Nat /\ Len(sh) \in Nat
    BY <1>0, PromiseElements, ReactionElements, SharedElements
  <2>2. \A i \in Nat : i + 1 \in Nat /\ i <= i + 1 /\ i <= i
    OBVIOUS
  <2> DEFINE mp == Len(pr)
             mr == Len(re)
             ms == Len(sh)
             ma == N + 1
  <2>3. /\ mp \in Nat /\ mr \in Nat /\ ms \in Nat /\ ma \in Nat
        /\ Len(pr) <= mp /\ Len(re) <= mr /\ Len(sh) <= ms /\ Len(as) <= ma
    BY <1>1, <2>1, <2>2, Zenon
  <2> HIDE DEF mp, mr, ms, ma
  <2>4. re \in Seq(ReactionType(mp, ms, ma)) /\ st \in Seq(CallType(mp, ms, ma))
    BY <1>0, <2>3, GrowsTyped
  <2>5. Len(later) = ma
    BY <1>2 DEF ma
  <2> QED BY <1>0, <1>2, <2>4, <2>5 DEF Typed, mp, mr, ms, T
<1>4. ASSUME NEW q, NEW a, NEW n \in Nat, Settles(a, n, q, re, sh, later, w, st)
      PROVE  Settles(a, n, q, re, sh, as, w, st)
  <2>1. ASSUME ReactionSettles(n, q, re, later) PROVE ReactionSettles(n, q, re, as)
    <3>1. n \in DOMAIN re /\ re[n].kind = "async" => re[n].of \in 1 .. N
      BY <1>0, ReactionElements DEF ReactionType
    <3> QED BY <1>2, <2>1, <3>1 DEF ReactionSettles, Derives
  <2>2. ASSUME CallSettles(n, q, later, st) PROVE CallSettles(n, q, as, st)
    <3>1. n \in DOMAIN st /\ st[n].at \in {"async", "constructor", "await"} => st[n].on \in 1 .. N
      BY <1>0, CallElements DEF CallType
    <3> QED BY <1>2, <2>2, <3>1 DEF CallSettles, Drives
  <2> QED BY <1>4, <2>1, <2>2 DEF Settles
<1>5. Sole(pr, re, sh, later, w, st)
  <2>1. Fewer(pr, re, sh, as, w, st, pr, re, sh, later, w, st)
    BY <1>4 DEF Fewer
  <2> QED BY <1>0, <2>1, SoleFewer
<1>6. ASSUME NEW q, Free(q, pr, re, sh, as, w, st) PROVE Free(q, pr, re, sh, later, w, st)
  BY <1>4, <1>6 DEF Free
<1> QED BY <1>0, <1>1, <1>2, <1>3, <1>5, <1>6 DEF Good, later

\* The others of a sequence without its first.
LEMMA TailElements ==
    ASSUME NEW T, NEW w \in Seq(T), w # <<>>
    PROVE  /\ Tail(w) \in Seq(T) /\ 1 \in DOMAIN w
           /\ \A i \in DOMAIN Tail(w) : i \in Nat /\ i + 1 \in DOMAIN w /\ Tail(w)[i] = w[i + 1]
           /\ \A i \in DOMAIN w : i > 1 => i - 1 \in DOMAIN Tail(w) /\ Tail(w)[i - 1] = w[i]
<1> DEFINE later == Tail(w)
<1>1. w \in Seq(T) /\ Len(w) \in Nat /\ DOMAIN w = 1 .. Len(w)
  BY LenProperties
<1>2. Len(w) > 0
  BY <1>1, EmptySeq
<1>3. /\ later \in Seq(T) /\ Len(later) = Len(w) - 1
      /\ \A i \in 1 .. Len(later) : later[i] = w[i + 1]
  BY <1>1, HeadTailProperties
<1> HIDE DEF later
<1>4. DOMAIN later = 1 .. Len(w) - 1
  BY <1>3, LenProperties
<1>5. \A i \in DOMAIN later : i \in Nat /\ i + 1 \in DOMAIN w /\ later[i] = w[i + 1]
  BY <1>1, <1>2, <1>3, <1>4
<1>6. \A i \in DOMAIN w : i > 1 => i - 1 \in DOMAIN later /\ later[i - 1] = w[i]
  <2> SUFFICES ASSUME NEW i \in DOMAIN w, i > 1 PROVE i - 1 \in DOMAIN later /\ later[i - 1] = w[i]
    OBVIOUS
  <2>1. i \in Nat /\ i - 1 \in DOMAIN later /\ i - 1 + 1 = i
    BY <1>1, <1>2, <1>4
  <2> QED BY <1>5, <2>1
<1>7. 1 \in DOMAIN w
  BY <1>1, <1>2
<1> QED BY <1>3, <1>5, <1>6, <1>7 DEF later

\* Whatever settles a promise once the first job is taken did so before, and
\* was not that job.
FewerReactions(re2, re, as) == \A n, p : ReactionSettles(n, p, re2, as) => ReactionSettles(n, p, re, as)
InRest(pr, re2, re, sh, as, w, st) ==
    \A p \in DOMAIN pr, a \in Kind, n \in Nat :
        Settles(a, n, p, re2, sh, as, Tail(w), st) =>
            \/ a = "job" /\ \E m \in Nat : m > 1 /\ m = n + 1 /\ Settles("job", m, p, re, sh, as, w, st)
            \/ a # "job" /\ Settles(a, n, p, re, sh, as, w, st)
               /\ (a = "reaction" => ReactionSettles(n, p, re2, as))
LEMMA TailSole ==
    ASSUME NEW pr, NEW re, NEW sh, NEW as, NEW w, NEW st, Good(pr, re, sh, as, w, st), w # <<>>,
           NEW re2, FewerReactions(re2, re, as)
    PROVE  /\ Sole(pr, re2, sh, as, Tail(w), st)
           /\ InRest(pr, re2, re, sh, as, w, st)
<1> DEFINE later == Tail(w)
<1>1. \A i \in DOMAIN later : i \in Nat /\ i + 1 \in DOMAIN w /\ later[i] = w[i + 1]
  <2>1. w \in Seq(JobType(Len(pr), Len(re)))
    BY JobElements DEF Good
  <2> QED BY <2>1, TailElements
<1> HIDE DEF later
<1>2. ASSUME NEW p, NEW a, NEW n \in Nat, Settles(a, n, p, re2, sh, as, later, st)
      PROVE  \/ a = "job" /\ \E m \in Nat : m > 1 /\ m = n + 1 /\ Settles("job", m, p, re, sh, as, w, st)
             \/ a # "job" /\ Settles(a, n, p, re, sh, as, w, st)
                /\ (a = "reaction" => ReactionSettles(n, p, re2, as))
  <2>1. CASE a = "job"
    <3>1. n \in DOMAIN later /\ later[n].kind = "thenable" /\ later[n].on = p
      BY <1>2, <2>1 DEF Settles, JobSettles
    <3>2. n \in Nat /\ n + 1 > 1 /\ JobSettles(n + 1, p, w)
      BY <1>1, <3>1 DEF JobSettles
    <3> QED BY <2>1, <3>2 DEF Settles
  <2>2. CASE a # "job"
    BY <1>2, <2>2 DEF Settles, FewerReactions
  <2> QED BY <2>1, <2>2
<1>3. Sole(pr, re2, sh, as, later, st)
  <2> SUFFICES ASSUME NEW p \in DOMAIN pr, NEW a \in Kind, NEW m \in Nat,
                      Settles(a, m, p, re2, sh, as, later, st)
               PROVE  /\ pr[p].state = "pending"
                      /\ \A b \in Kind, n \in Nat :
                            Settles(b, n, p, re2, sh, as, later, st) => a = b /\ m = n
    BY DEF Sole
  <2>1. PICK x \in Nat : /\ Settles(a, x, p, re, sh, as, w, st)
                         /\ x = IF a = "job" THEN m + 1 ELSE m
    <3>1. m + 1 \in Nat
      OBVIOUS
    <3> QED BY <1>2, <3>1
  <2>2. /\ pr[p].state = "pending"
        /\ \A b \in Kind, n \in Nat : Settles(b, n, p, re, sh, as, w, st) => a = b /\ x = n
    BY <2>1 DEF Sole, Good
  <2>3. ASSUME NEW b \in Kind, NEW n \in Nat, Settles(b, n, p, re2, sh, as, later, st)
        PROVE  a = b /\ m = n
    <3>1. PICK y \in Nat : /\ Settles(b, y, p, re, sh, as, w, st)
                           /\ y = IF b = "job" THEN n + 1 ELSE n
      <4>1. n + 1 \in Nat
        OBVIOUS
      <4> QED BY <1>2, <2>3, <4>1
    <3>2. a = b /\ x = y
      BY <2>2, <3>1
    <3> QED BY <2>1, <3>1, <3>2
  <2> QED BY <2>2, <2>3
<1> QED BY <1>2, <1>3 DEF later, InRest

\* The thenable's job that is taken leaves its promise free.
LEMMA TakeThenableKeeps ==
    ASSUME NEW pr, NEW re, NEW sh, NEW as, NEW w, NEW st, Good(pr, re, sh, as, w, st), w # <<>>,
           w[1].kind = "thenable"
    PROVE  /\ Good(pr, re, sh, as, Tail(w), st)
           /\ Free(w[1].on, pr, re, sh, as, Tail(w), st)
<1> DEFINE later == Tail(w)
<1>0. Typed(pr, re, sh, as, w, st) /\ Sole(pr, re, sh, as, w, st) /\ Lines(pr, re, w)
  BY DEF Good
<1>1. /\ later \in Seq(JobType(Len(pr), Len(re))) /\ 1 \in DOMAIN w
      /\ \A i \in DOMAIN later : i \in Nat /\ i + 1 \in DOMAIN w /\ later[i] = w[i + 1]
      /\ \A i \in DOMAIN w : i > 1 => i - 1 \in DOMAIN later /\ later[i - 1] = w[i]
  <2>1. w \in Seq(JobType(Len(pr), Len(re)))
    BY <1>0, JobElements
  <2> QED BY <2>1, TailElements
<1>2. /\ Sole(pr, re, sh, as, later, st)
      /\ \A p \in DOMAIN pr, a \in Kind, n \in Nat :
            Settles(a, n, p, re, sh, as, later, st) =>
               \/ a = "job" /\ \E m \in Nat : m > 1 /\ m = n + 1 /\ Settles("job", m, p, re, sh, as, w, st)
               \/ a # "job" /\ Settles(a, n, p, re, sh, as, w, st)
  <2>1. FewerReactions(re, re, as)
    BY DEF FewerReactions
  <2>2. Sole(pr, re, sh, as, later, st) /\ InRest(pr, re, re, sh, as, w, st)
    BY <2>1, TailSole
  <2> QED BY <2>2 DEF InRest
<1> HIDE DEF later
<1>3. Typed(pr, re, sh, as, later, st)
  BY <1>0, <1>1 DEF Typed
<1>4. Lines(pr, re, later)
  <2>1. \A i \in DOMAIN w : i \in Nat /\ i >= 1
    BY <1>0, JobElements
  <2>2. InJob(pr, re, later)
    <3>1. ASSUME NEW i \in DOMAIN later, NEW j \in DOMAIN later,
                 later[i].kind = "reaction", later[j].kind = "reaction", i < j
          PROVE  /\ later[i].on # later[j].on
                 /\ re[later[i].on].on = re[later[j].on].on /\ re[later[i].on].on # 0
                       => later[i].on < later[j].on
      <4>1. i + 1 < j + 1 /\ i + 1 \in DOMAIN w /\ j + 1 \in DOMAIN w
        BY <1>1, <3>1
      <4> QED BY <1>0, <1>1, <3>1, <4>1 DEF Lines, InJob
    <3>2. ASSUME NEW i \in DOMAIN later, later[i].kind = "reaction"
          PROVE  /\ re[later[i].on].status = "waiting"
                 /\ re[later[i].on].on # 0 =>
                       /\ later[i].value = pr[re[later[i].on].on].result
                       /\ pr[re[later[i].on].on].state = IF later[i].rejected THEN "rejected" ELSE "fulfilled"
      BY <1>0, <1>1, <3>2 DEF Lines, InJob
    <3> QED BY <3>1, <3>2 DEF InJob
  <2>3. ASSUME NEW r \in DOMAIN re, Stands(r, pr, re, w) PROVE Stands(r, pr, re, later)
    <3>1. CASE \E i \in DOMAIN w : w[i].kind = "reaction" /\ w[i].on = r
      <4>1. PICK i \in DOMAIN w : w[i].kind = "reaction" /\ w[i].on = r
        BY <3>1
      <4>2. i > 1
        BY <2>1, <4>1
      <4> QED BY <1>1, <4>1, <4>2 DEF Stands
    <3>2. CASE ~\E i \in DOMAIN w : w[i].kind = "reaction" /\ w[i].on = r
      BY <2>3, <3>2 DEF Stands
    <3> QED BY <3>1, <3>2
  <2> QED BY <1>0, <2>2, <2>3 DEF Lines
<1>5. Free(w[1].on, pr, re, sh, as, later, st)
  <2> DEFINE p == w[1].on
  <2>1. p \in DOMAIN pr
    BY <1>0, <1>1, JobElements, PromiseElements DEF JobType
  <2>2. Settles("job", 1, p, re, sh, as, w, st) /\ "job" \in Kind /\ 1 \in Nat
    BY <1>1 DEF Settles, JobSettles, Kind
  <2> HIDE DEF p
  <2>3. /\ pr[p].state = "pending"
        /\ \A b \in Kind, n \in Nat : Settles(b, n, p, re, sh, as, w, st) => "job" = b /\ 1 = n
    BY <1>0, <2>1, <2>2 DEF Sole
  <2>4. ASSUME NEW b \in Kind, NEW n \in Nat, Settles(b, n, p, re, sh, as, later, st) PROVE FALSE
    <3>2. \/ b = "job" /\ \E m \in Nat : m > 1 /\ m = n + 1 /\ Settles("job", m, p, re, sh, as, w, st)
          \/ b # "job" /\ Settles(b, n, p, re, sh, as, w, st)
      BY <1>2, <2>1, <2>4
    <3>3. CASE b # "job"
      BY <2>3, <3>2, <3>3
    <3>4. CASE b = "job"
      <4>1. PICK m \in Nat : m > 1 /\ Settles("job", m, p, re, sh, as, w, st)
        BY <3>2, <3>4
      <4>2. 1 = m
        BY <2>2, <2>3, <4>1
      <4> QED BY <4>1, <4>2
    <3> QED BY <3>3, <3>4
  <2>5. Free(p, pr, re, sh, as, later, st)
    BY <2>1, <2>3, <2>4 DEF Free
  <2> QED BY <2>5 DEF p
<1> QED BY <1>2, <1>3, <1>4, <1>5 DEF Good, later

\* A reaction is marked as run, which is all that changes.
Marked(re2, re, r) ==
    /\ Len(re2) = Len(re) /\ DOMAIN re2 = DOMAIN re
    /\ \A x \in DOMAIN re :
          /\ re2[x].kind = re[x].kind /\ re2[x].on = re[x].on /\ re2[x].of = re[x].of
          /\ re2[x].status = IF x = r THEN "ran" ELSE re[x].status
LEMMA RanElements ==
    ASSUME NEW np, NEW ns, NEW na, NEW re \in Seq(ReactionType(np, ns, na)), NEW r \in DOMAIN re
    PROVE  /\ [re EXCEPT ![r].status = "ran"] \in Seq(ReactionType(np, ns, na))
           /\ Marked([re EXCEPT ![r].status = "ran"], re, r)
<1> DEFINE T == ReactionType(np, ns, na)
           o == [re[r] EXCEPT !.status = "ran"]
           later == [re EXCEPT ![r].status = "ran"]
<1>1. re \in Seq(T) /\ Len(re) \in Nat /\ DOMAIN re = 1 .. Len(re) /\ re[r] \in T /\ r \in 1 .. Len(re)
  BY LenProperties
<1>2. o \in T /\ o.kind = re[r].kind /\ o.on = re[r].on /\ o.of = re[r].of /\ o.status = "ran"
  BY <1>1 DEF ReactionType
<1>3. later = [re EXCEPT ![r] = o]
  OBVIOUS
<1> HIDE DEF o, later, T
<1>4. /\ later \in Seq(T) /\ Len(later) = Len(re)
      /\ \A x \in 1 .. Len(re) : later[x] = IF x = r THEN o ELSE re[x]
  BY <1>1, <1>2, <1>3, ExceptSeq
<1>5. DOMAIN later = DOMAIN re
  BY <1>1, <1>4, LenProperties
<1>6. ASSUME NEW x \in DOMAIN re
      PROVE  /\ later[x].kind = re[x].kind /\ later[x].on = re[x].on /\ later[x].of = re[x].of
             /\ later[x].status = IF x = r THEN "ran" ELSE re[x].status
  BY <1>1, <1>2, <1>4
<1> QED BY <1>4, <1>5, <1>6 DEF later, Marked, T

\* The reaction's job that is taken leaves what it derives free, and the
\* line it headed in order.
RanFrees(r, pr, re, re2, sh, as, w2, st) ==
    \A p \in DOMAIN pr : Derives(re[r], as, p) => Free(p, pr, re2, sh, as, w2, st)
LEMMA TakeReactionKeeps ==
    ASSUME NEW pr, NEW re, NEW sh, NEW as, NEW w, NEW st, Good(pr, re, sh, as, w, st), w # <<>>,
           w[1].kind = "reaction"
    PROVE  /\ w[1].on \in DOMAIN re
           /\ re[w[1].on].status = "waiting"
           /\ Good(pr, [re EXCEPT ![w[1].on].status = "ran"], sh, as, Tail(w), st)
           /\ RanFrees(w[1].on, pr, re, [re EXCEPT ![w[1].on].status = "ran"], sh, as, Tail(w), st)
<1> DEFINE later == Tail(w)
           head == w[1].on
           re2 == [re EXCEPT ![head].status = "ran"]
<1>0. Typed(pr, re, sh, as, w, st) /\ Sole(pr, re, sh, as, w, st) /\ Lines(pr, re, w)
  BY DEF Good
<1>1. /\ later \in Seq(JobType(Len(pr), Len(re))) /\ 1 \in DOMAIN w
      /\ \A i \in DOMAIN later : i \in Nat /\ i + 1 \in DOMAIN w /\ later[i] = w[i + 1]
      /\ \A i \in DOMAIN w : i > 1 => i - 1 \in DOMAIN later /\ later[i - 1] = w[i]
  <2>1. w \in Seq(JobType(Len(pr), Len(re)))
    BY <1>0, JobElements
  <2> QED BY <2>1, TailElements
<1>2. \A i \in DOMAIN w : i \in Nat /\ i >= 1 /\ (w[i].kind = "reaction" => w[i].on \in DOMAIN re)
  <2>1. /\ DOMAIN w = 1 .. Len(w) /\ \A i \in DOMAIN w : w[i] \in JobType(Len(pr), Len(re))
        /\ DOMAIN re = 1 .. Len(re) /\ Len(w) \in Nat
    BY <1>0, JobElements, ReactionElements
  <2> QED BY <2>1 DEF JobType
<1>3. head \in DOMAIN re
  BY <1>1, <1>2
<1>4. /\ re2 \in Seq(ReactionType(Len(pr), Len(sh), Len(as))) /\ Len(re2) = Len(re) /\ DOMAIN re2 = DOMAIN re
      /\ \A x \in DOMAIN re :
            /\ re2[x].kind = re[x].kind /\ re2[x].on = re[x].on /\ re2[x].of = re[x].of
            /\ re2[x].status = IF x = head THEN "ran" ELSE re[x].status
  <2>1. re \in Seq(ReactionType(Len(pr), Len(sh), Len(as)))
    BY <1>0, ReactionElements
  <2> HIDE DEF head
  <2>2. re2 \in Seq(ReactionType(Len(pr), Len(sh), Len(as))) /\ Marked(re2, re, head)
    BY <1>3, <2>1, RanElements
  <2> QED BY <2>2 DEF Marked
<1>5. /\ \A i \in DOMAIN w : w[i].kind = "reaction" =>
             /\ re[w[i].on].status = "waiting"
             /\ re[w[i].on].on # 0 =>
                   /\ w[i].value = pr[re[w[i].on].on].result
                   /\ pr[re[w[i].on].on].state = IF w[i].rejected THEN "rejected" ELSE "fulfilled"
      /\ \A i, j \in DOMAIN w :
             w[i].kind = "reaction" /\ w[j].kind = "reaction" /\ i < j =>
                 /\ w[i].on # w[j].on
                 /\ re[w[i].on].on = re[w[j].on].on /\ re[w[i].on].on # 0 => w[i].on < w[j].on
  BY <1>0 DEF Lines, InJob
<1>6. head # 0 /\ re[head].status = "waiting"
      /\ (re[head].on # 0 => pr[re[head].on].state # "pending")
  BY <1>0, <1>1, <1>3, <1>5, ReactionElements
<1>7. \A i \in DOMAIN later : later[i].kind = "reaction" => later[i].on # head /\ later[i].on \in DOMAIN re
  <2> SUFFICES ASSUME NEW i \in DOMAIN later, later[i].kind = "reaction"
               PROVE  later[i].on # head /\ later[i].on \in DOMAIN re
    OBVIOUS
  <2> HIDE DEF later
  <2>1. i + 1 \in DOMAIN w /\ later[i] = w[i + 1] /\ 1 < i + 1
    BY <1>1
  <2> QED BY <1>1, <1>2, <1>5, <2>1
<1> HIDE DEF later, head, re2
<1>8. Typed(pr, re2, sh, as, later, st)
  BY <1>0, <1>1, <1>4 DEF Typed
<1>9. \A p \in DOMAIN pr : pr[p].state # "pending" => \A k : k \notin DOMAIN pr[p].waiting
  <2>1. DOMAIN <<>> = {}
    OBVIOUS
  <2> QED BY <1>0, <2>1 DEF Lines, OnRecord
<1>10. \A r \in DOMAIN re : re[r].on # 0 => re[r].on \in DOMAIN pr
  <2>1. \A r \in DOMAIN re : re[r].on \in 0 .. Len(pr)
    BY <1>0, ReactionElements DEF ReactionType
  <2> QED BY <1>0, <2>1, PromiseElements
<1>11. Lines(pr, re2, later)
  <2>1. OnRecord(pr, re2)
    <3>1. ASSUME NEW p \in DOMAIN pr, NEW k \in DOMAIN pr[p].waiting
          PROVE  /\ pr[p].waiting[k] \in DOMAIN re /\ re[pr[p].waiting[k]].on = p
                 /\ re[pr[p].waiting[k]].status = "waiting" /\ pr[p].waiting[k] # head
      <4>1. /\ pr[p].waiting[k] \in DOMAIN re /\ re[pr[p].waiting[k]].on = p
            /\ re[pr[p].waiting[k]].status = "waiting"
        BY <1>0 DEF Lines, OnRecord
      <4>2. ASSUME pr[p].waiting[k] = head PROVE FALSE
        <5>1. p # 0
          <6>1. \A n : p \in 1 .. n => p # 0
            OBVIOUS
          <6>2. DOMAIN pr = 1 .. Len(pr)
            BY <1>0, PromiseElements
          <6> QED BY <6>1, <6>2
        <5> QED BY <1>6, <1>9, <4>1, <4>2, <5>1
      <4> QED BY <4>1, <4>2
    <3> QED BY <1>0, <1>4, <3>1 DEF Lines, OnRecord
  <2>2. InJob(pr, re2, later)
    <3>1. ASSUME NEW i \in DOMAIN later, NEW j \in DOMAIN later,
                 later[i].kind = "reaction", later[j].kind = "reaction", i < j
          PROVE  /\ later[i].on # later[j].on
                 /\ re[later[i].on].on = re[later[j].on].on /\ re[later[i].on].on # 0
                       => later[i].on < later[j].on
      <4>1. i + 1 < j + 1 /\ i + 1 \in DOMAIN w /\ j + 1 \in DOMAIN w
        BY <1>1, <3>1
      <4> QED BY <1>1, <1>5, <3>1, <4>1
    <3>2. ASSUME NEW i \in DOMAIN later, later[i].kind = "reaction"
          PROVE  /\ re[later[i].on].status = "waiting"
                 /\ re[later[i].on].on # 0 =>
                       /\ later[i].value = pr[re[later[i].on].on].result
                       /\ pr[re[later[i].on].on].state = IF later[i].rejected THEN "rejected" ELSE "fulfilled"
      BY <1>1, <1>5, <3>2
    <3> QED BY <1>4, <1>7, <3>1, <3>2 DEF InJob
  <2>3. ASSUME NEW r \in DOMAIN re, r # head, Stands(r, pr, re, w) PROVE Stands(r, pr, re2, later)
    <3>1. CASE \E i \in DOMAIN w : w[i].kind = "reaction" /\ w[i].on = r
      <4>1. PICK i \in DOMAIN w : w[i].kind = "reaction" /\ w[i].on = r
        BY <3>1
      <4>2. i # 1
        BY <2>3, <4>1 DEF head
      <4>3. i > 1
        BY <1>2, <4>2
      <4> QED BY <1>1, <4>1, <4>3 DEF Stands
    <3>2. CASE ~\E i \in DOMAIN w : w[i].kind = "reaction" /\ w[i].on = r
      BY <1>4, <2>3, <3>2 DEF Stands
    <3> QED BY <3>1, <3>2
  <2>4. \A r \in DOMAIN re2 : re2[r].status = "waiting" => Stands(r, pr, re2, later)
    <3> SUFFICES ASSUME NEW r \in DOMAIN re, re2[r].status = "waiting" PROVE Stands(r, pr, re2, later)
      BY <1>4
    <3>1. r # head /\ re[r].status = "waiting"
      BY <1>4
    <3> QED BY <1>0, <2>3, <3>1 DEF Lines
  <2>5. ASSUME NEW r \in DOMAIN re, NEW s \in DOMAIN re,
               re[r].on = re[s].on, re[r].on # 0, re2[r].status = "ran", re2[s].status = "waiting"
        PROVE  r < s
    <3>1. s # head /\ re[s].status = "waiting"
      BY <1>4, <2>5
    <3>2. CASE r # head
      <4>1. re[r].status = "ran"
        BY <1>4, <2>5, <3>2
      <4> QED BY <1>0, <2>5, <3>1, <4>1 DEF Lines
    <3>3. CASE r = head
      <4>1. Stands(s, pr, re, w)
        BY <1>0, <3>1 DEF Lines
      <4>2. pr[re[s].on].state # "pending" /\ re[s].on \in DOMAIN pr
        BY <1>6, <1>10, <2>5, <3>3
      <4>3. PICK i \in DOMAIN w : w[i].kind = "reaction" /\ w[i].on = s
        BY <1>9, <4>1, <4>2 DEF Stands
      <4>4. i # 1
        BY <3>1, <4>3 DEF head
      <4>5. 1 < i
        BY <1>2, <4>4
      <4>6. w[1].on = head
        BY DEF head
      <4> QED BY <1>1, <1>5, <2>5, <3>3, <4>3, <4>5, <4>6
    <3> QED BY <3>2, <3>3
  <2> QED BY <1>4, <2>1, <2>2, <2>4, <2>5 DEF Lines
<1>12. FewerReactions(re2, re, as) /\ \A n, p : ReactionSettles(n, p, re2, as) => n # head
  <2> SUFFICES ASSUME NEW n, NEW p, ReactionSettles(n, p, re2, as)
               PROVE  ReactionSettles(n, p, re, as) /\ n # head
    BY DEF FewerReactions
  <2> QED BY <1>4 DEF ReactionSettles, Derives
<1>13. Sole(pr, re2, sh, as, later, st) /\ InRest(pr, re2, re, sh, as, w, st)
  BY <1>12, TailSole DEF later
<1>14. RanFrees(head, pr, re, re2, sh, as, later, st)
  <2> SUFFICES ASSUME NEW p \in DOMAIN pr, Derives(re[head], as, p)
               PROVE  Free(p, pr, re2, sh, as, later, st)
    BY DEF RanFrees
  <2>1. Settles("reaction", head, p, re, sh, as, w, st) /\ "reaction" \in Kind /\ head \in Nat
    <3>1. head \in Nat
      BY <1>0, <1>3, ReactionElements
    <3> QED BY <1>3, <3>1 DEF Settles, ReactionSettles, Kind
  <2>2. /\ pr[p].state = "pending"
        /\ \A b \in Kind, n \in Nat : Settles(b, n, p, re, sh, as, w, st) => "reaction" = b /\ head = n
    BY <1>0, <2>1 DEF Sole
  <2>3. ASSUME NEW b \in Kind, NEW n \in Nat, Settles(b, n, p, re2, sh, as, later, st) PROVE FALSE
    <3>1. \/ b = "job" /\ \E m \in Nat : m > 1 /\ m = n + 1 /\ Settles("job", m, p, re, sh, as, w, st)
          \/ b # "job" /\ Settles(b, n, p, re, sh, as, w, st)
             /\ (b = "reaction" => ReactionSettles(n, p, re2, as))
      BY <1>13, <2>3 DEF InRest, later
    <3>2. CASE b = "job"
      BY <2>2, <3>1, <3>2 DEF Kind
    <3>3. CASE b # "job"
      <4>1. b = "reaction" /\ n = head
        BY <2>2, <3>1, <3>3
      <4> QED BY <1>12, <3>1, <3>3, <4>1
    <3> QED BY <3>2, <3>3
  <2> QED BY <2>2, <2>3 DEF Free
<1> QED BY <1>3, <1>6, <1>8, <1>11, <1>13, <1>14 DEF Good, later, head, re2

\* A job is added behind the others.
Behind(later, w, job) ==
    /\ DOMAIN later = DOMAIN w \union {Len(w) + 1}
    /\ later[Len(w) + 1] = job
    /\ \A i \in DOMAIN w : i \in Nat /\ i < Len(w) + 1 /\ later[i] = w[i]
LEMMA BehindElements ==
    ASSUME NEW T, NEW w \in Seq(T), NEW job \in T
    PROVE  /\ Append(w, job) \in Seq(T) /\ w \o <<job>> = Append(w, job)
           /\ Len(w) \in Nat /\ Len(Append(w, job)) = Len(w) + 1
           /\ Behind(Append(w, job), w, job)
<1> DEFINE later == Append(w, job)
<1>1. Len(w) \in Nat /\ DOMAIN w = 1 .. Len(w)
  BY LenProperties
<1>2. /\ later \in Seq(T) /\ Len(later) = Len(w) + 1
      /\ \A x \in 1 .. Len(w) : later[x] = w[x]
      /\ later[Len(w) + 1] = job
  BY AppendProperties
<1>3. w \o <<job>> = later
  BY AppendIsConcat
<1> HIDE DEF later
<1>4. DOMAIN later = 1 .. Len(w) + 1
  BY <1>2, LenProperties
<1>5. 1 .. Len(w) + 1 = 1 .. Len(w) \union {Len(w) + 1}
  BY <1>1
<1>6. \A i \in DOMAIN w : i \in Nat /\ i < Len(w) + 1 /\ later[i] = w[i]
  BY <1>1, <1>2
<1> QED BY <1>1, <1>2, <1>3, <1>4, <1>5, <1>6 DEF Behind, later

LEMMA AddThenableKeeps ==
    ASSUME NEW pr, NEW re, NEW sh, NEW as, NEW w, NEW st, Good(pr, re, sh, as, w, st),
           NEW p, Free(p, pr, re, sh, as, w, st), NEW value \in 0 .. Object, NEW native \in BOOLEAN,
           native => value \in DOMAIN pr
    PROVE  /\ <<ThenableJob(p, value, native)>> \in Seq(Job)
           /\ Good(pr, re, sh, as, w \o <<ThenableJob(p, value, native)>>, st)
<1> DEFINE T == JobType(Len(pr), Len(re))
           job == ThenableJob(p, value, native)
           later == Append(w, job)
           N == Len(w) + 1
<1>0. Typed(pr, re, sh, as, w, st) /\ Sole(pr, re, sh, as, w, st) /\ Lines(pr, re, w)
  BY DEF Good
<1>1. w \in Seq(T)
  BY <1>0, JobElements
<1>2. job \in T /\ job.kind = "thenable" /\ job.on = p /\ job \in Job
  <2>1. p \in 1 .. Len(pr) /\ DOMAIN pr = 1 .. Len(pr)
    BY <1>0, PromiseElements DEF Free
  <2> QED BY <2>1 DEF ThenableJob, JobType, Job
<1> HIDE DEF T, job
<1>3. /\ later \in Seq(T) /\ w \o <<job>> = later /\ N \in Nat
      /\ Behind(later, w, job) /\ <<job>> \in Seq(Job)
  <2>1. /\ Append(w, job) \in Seq(T) /\ w \o <<job>> = Append(w, job)
        /\ Len(w) \in Nat /\ Behind(Append(w, job), w, job)
    BY <1>1, <1>2, BehindElements
  <2>2. <<job>> \in Seq(Job)
    BY <1>2
  <2> QED BY <2>1, <2>2
<1> HIDE DEF later
<1>4. /\ DOMAIN later = DOMAIN w \union {N} /\ later[N] = job
      /\ \A i \in DOMAIN w : i \in Nat /\ i < N /\ later[i] = w[i]
  BY <1>3 DEF Behind
<1> HIDE DEF N
<1>5. Typed(pr, re, sh, as, later, st)
  BY <1>0, <1>3 DEF Typed, T
<1>6. \A i \in DOMAIN later : later[i].kind = "reaction" => i \in DOMAIN w /\ later[i] = w[i]
  BY <1>2, <1>4
<1>7. Lines(pr, re, later)
  <2>1. InJob(pr, re, later)
    <3>1. InJob(pr, re, w)
      BY <1>0 DEF Lines
    <3> QED BY <1>6, <3>1 DEF InJob
  <2>2. \A r : Stands(r, pr, re, w) => Stands(r, pr, re, later)
    BY <1>4 DEF Stands
  <2> QED BY <1>0, <2>1, <2>2 DEF Lines
<1>8. Sole(pr, re, sh, as, later, st)
  <2>1. OneMore("job", N, pr, re, sh, as, w, st, pr, re, sh, as, later, st)
    <3> SUFFICES ASSUME NEW q \in DOMAIN pr, NEW a \in Kind, NEW n \in Nat,
                        Settles(a, n, q, re, sh, as, later, st)
                 PROVE  \/ Settles(a, n, q, re, sh, as, w, st)
                        \/ a = "job" /\ n = N /\ Free(q, pr, re, sh, as, w, st)
      BY DEF OneMore
    <3>1. JobSettles(n, q, later) => JobSettles(n, q, w) \/ (n = N /\ q = p)
      BY <1>2, <1>4 DEF JobSettles
    <3> QED BY <3>1 DEF Settles
  <2> QED BY <1>0, <2>1, SoleMore
<1>9. Good(pr, re, sh, as, later, st)
  BY <1>5, <1>7, <1>8 DEF Good
<1> QED BY <1>3, <1>9 DEF job

\* A new reaction, the last of all, which waits on its promise's record or
\* has a job at once.
NewReaction(r, n, pr, re, sh, as, w, st) ==
    /\ r \in ReactionType(Len(pr), Len(sh), Len(as)) /\ r.status = "waiting" /\ n = Len(re) + 1
    /\ \A p \in DOMAIN pr : Derives(r, as, p) => Free(p, pr, re, sh, as, w, st)

\* What it settles, wherever it stands.
SameStates(pr2, pr) ==
    DOMAIN pr2 = DOMAIN pr
    /\ \A p \in DOMAIN pr : pr2[p].state = pr[p].state /\ pr2[p].result = pr[p].result
FewerJobs(w2, w) == \A i, p : JobSettles(i, p, w2) => JobSettles(i, p, w)
LEMMA NewReactionSole ==
    ASSUME NEW pr, NEW re, NEW sh, NEW as, NEW w, NEW st, Good(pr, re, sh, as, w, st),
           NEW r, NEW n, NewReaction(r, n, pr, re, sh, as, w, st),
           NEW pr2, SameStates(pr2, pr), NEW w2, FewerJobs(w2, w)
    PROVE  /\ Append(re, r) \in Seq(ReactionType(Len(pr), Len(sh), Len(as)))
           /\ n \in Nat /\ Len(Append(re, r)) = n /\ Behind(Append(re, r), re, r)
           /\ Sole(pr2, Append(re, r), sh, as, w2, st)
<1> DEFINE T == ReactionType(Len(pr), Len(sh), Len(as))
           later == Append(re, r)
<1>0. Typed(pr, re, sh, as, w, st) /\ Sole(pr, re, sh, as, w, st) /\ Lines(pr, re, w)
  BY DEF Good
<1>1. re \in Seq(T) /\ r \in T /\ Len(re) \in Nat
  BY <1>0, ReactionElements DEF NewReaction
<1> HIDE DEF T
<1>2. later \in Seq(T) /\ Len(later) = Len(re) + 1 /\ Behind(later, re, r)
  BY <1>1, BehindElements
<1>3. n = Len(re) + 1 /\ n \in Nat
  BY <1>1 DEF NewReaction
<1> HIDE DEF later
<1>4. /\ DOMAIN later = DOMAIN re \union {n} /\ later[n] = r
      /\ \A i \in DOMAIN re : later[i] = re[i]
  BY <1>2, <1>3 DEF Behind
<1>5. Sole(pr2, later, sh, as, w2, st)
  <2>1. OneMore("reaction", n, pr, re, sh, as, w, st, pr2, later, sh, as, w2, st)
    <3> SUFFICES ASSUME NEW q \in DOMAIN pr, NEW a \in Kind, NEW m \in Nat,
                        Settles(a, m, q, later, sh, as, w2, st)
                 PROVE  \/ Settles(a, m, q, re, sh, as, w, st)
                        \/ a = "reaction" /\ m = n /\ Free(q, pr, re, sh, as, w, st)
      BY DEF OneMore, SameStates
    <3>1. ReactionSettles(m, q, later, as) => ReactionSettles(m, q, re, as) \/ (m = n /\ Derives(r, as, q))
      BY <1>4 DEF ReactionSettles
    <3>2. q \in DOMAIN pr
      BY DEF SameStates
    <3> QED BY <3>1, <3>2 DEF Settles, NewReaction, FewerJobs
  <2> QED BY <1>0, <2>1, SoleMore
<1> QED BY <1>2, <1>3, <1>5 DEF T, later

LEMMA NewReactionJobKeeps ==
    ASSUME NEW pr, NEW re, NEW sh, NEW as, NEW w, NEW st, Good(pr, re, sh, as, w, st),
           NEW r, NEW n, NewReaction(r, n, pr, re, sh, as, w, st),
           NEW value \in 0 .. Object, NEW rejected \in BOOLEAN,
           r.on # 0 => /\ value = pr[r.on].result
                       /\ pr[r.on].state = IF rejected THEN "rejected" ELSE "fulfilled"
    PROVE  /\ <<ReactionJob(n, value, rejected)>> \in Seq(Job)
           /\ Good(pr, Append(re, r), sh, as, w \o <<ReactionJob(n, value, rejected)>>, st)
<1> DEFINE T == JobType(Len(pr), n)
           job == ReactionJob(n, value, rejected)
           later == Append(w, job)
           re2 == Append(re, r)
           N == Len(w) + 1
<1>0. Typed(pr, re, sh, as, w, st) /\ Sole(pr, re, sh, as, w, st) /\ Lines(pr, re, w)
  BY DEF Good
<1>1. w \in Seq(T) /\ n \in Nat /\ n = Len(re) + 1 /\ Len(re) \in Nat /\ DOMAIN re = 1 .. Len(re)
      /\ \A i \in DOMAIN w : w[i].kind = "reaction" => w[i].on \in DOMAIN re
  <2>1. n = Len(re) + 1 /\ Len(re) \in Nat /\ DOMAIN re = 1 .. Len(re)
        /\ \A i \in DOMAIN w : w[i] \in JobType(Len(pr), Len(re))
    BY <1>0, ReactionElements, JobElements DEF NewReaction
  <2>2. n \in Nat /\ Len(re) <= n
    BY <2>1
  <2>3. w \in Seq(T)
    <3>1. Len(pr) \in Nat /\ Len(sh) \in Nat /\ Len(as) \in Nat
      BY <1>0, PromiseElements, SharedElements, AsyncElements
    <3> DEFINE mp == Len(pr)
               ms == Len(sh)
               ma == Len(as)
    <3>2. \A i \in Nat : i <= i
      OBVIOUS
    <3>3. /\ mp \in Nat /\ ms \in Nat /\ ma \in Nat
          /\ Len(pr) <= mp /\ Len(sh) <= ms /\ Len(as) <= ma
      BY <3>1, <3>2, Zenon
    <3> HIDE DEF mp, ms, ma
    <3>4. w \in Seq(JobType(mp, n))
      BY <1>0, <2>2, <3>3, GrowsTyped
    <3> QED BY <3>4 DEF mp
  <2>4. \A i \in DOMAIN w : w[i].kind = "reaction" => w[i].on \in DOMAIN re
    BY <2>1 DEF JobType
  <2> QED BY <2>1, <2>2, <2>3, <2>4
<1>2. job \in T /\ job.kind = "reaction" /\ job.on = n /\ job \in Job /\ job.value = value /\ job.rejected = rejected
  <2>1. n \in 1 .. n
    BY <1>1
  <2> QED BY <1>1, <2>1 DEF ReactionJob, JobType, Job
<1> HIDE DEF T, job
<1>3. /\ later \in Seq(T) /\ w \o <<job>> = later /\ N \in Nat
      /\ Behind(later, w, job) /\ <<job>> \in Seq(Job)
  <2>1. /\ Append(w, job) \in Seq(T) /\ w \o <<job>> = Append(w, job)
        /\ Len(w) \in Nat /\ Behind(Append(w, job), w, job)
    BY <1>1, <1>2, BehindElements
  <2>2. <<job>> \in Seq(Job)
    BY <1>2
  <2> QED BY <2>1, <2>2
<1> HIDE DEF later
<1>4. /\ DOMAIN later = DOMAIN w \union {N} /\ later[N] = job
      /\ \A i \in DOMAIN w : i \in Nat /\ i < N /\ later[i] = w[i]
  BY <1>3 DEF Behind
<1> HIDE DEF N
<1>5. FewerJobs(later, w) /\ SameStates(pr, pr)
  <2>1. \A i, p : JobSettles(i, p, later) => JobSettles(i, p, w)
    BY <1>2, <1>4 DEF JobSettles
  <2> QED BY <2>1 DEF FewerJobs, SameStates
<1>6. /\ re2 \in Seq(ReactionType(Len(pr), Len(sh), Len(as)))
      /\ n \in Nat /\ Len(re2) = n /\ Behind(re2, re, r)
      /\ Sole(pr, re2, sh, as, later, st)
  BY <1>5, NewReactionSole
<1> HIDE DEF re2
<1>7. /\ DOMAIN re2 = DOMAIN re \union {n} /\ re2[n] = r
      /\ \A i \in DOMAIN re : re2[i] = re[i] /\ i < n
  BY <1>1, <1>6 DEF Behind
<1>8. Typed(pr, re2, sh, as, later, st)
  BY <1>0, <1>3, <1>6 DEF Typed, T
<1>9. r.status = "waiting" /\ n \notin DOMAIN re
  <2>1. r.status = "waiting"
    BY DEF NewReaction
  <2>2. n \notin 1 .. Len(re)
    BY <1>1
  <2> QED BY <1>1, <2>1, <2>2
<1>10. Lines(pr, re2, later)
  <2>1. OnRecord(pr, re2)
    BY <1>0, <1>7 DEF Lines, OnRecord
  <2>2. InJob(pr, re2, later)
    <3>1. ASSUME NEW i \in DOMAIN later, later[i].kind = "reaction"
          PROVE  /\ re2[later[i].on].status = "waiting"
                 /\ re2[later[i].on].on # 0 =>
                       /\ later[i].value = pr[re2[later[i].on].on].result
                       /\ pr[re2[later[i].on].on].state = IF later[i].rejected THEN "rejected" ELSE "fulfilled"
      <4>1. CASE i \in DOMAIN w
        <5>1. later[i] = w[i] /\ re2[w[i].on] = re[w[i].on]
          BY <1>1, <1>4, <1>7, <3>1, <4>1
        <5> QED BY <1>0, <3>1, <4>1, <5>1 DEF Lines, InJob
      <4>2. CASE i = N
        BY <1>2, <1>4, <1>7, <1>9, <4>2
      <4> QED BY <1>4, <4>1, <4>2
    <3>2. ASSUME NEW i \in DOMAIN later, NEW j \in DOMAIN later,
                 later[i].kind = "reaction", later[j].kind = "reaction", i < j
          PROVE  /\ later[i].on # later[j].on
                 /\ re2[later[i].on].on = re2[later[j].on].on /\ re2[later[i].on].on # 0
                       => later[i].on < later[j].on
      <4>1. i \in DOMAIN w
        BY <1>3, <1>4, <3>2
      <4>2. CASE j \in DOMAIN w
        <5>1. /\ later[i] = w[i] /\ re2[w[i].on] = re[w[i].on]
              /\ later[j] = w[j] /\ re2[w[j].on] = re[w[j].on]
          BY <1>1, <1>4, <1>7, <3>2, <4>1, <4>2
        <5> QED BY <1>0, <3>2, <4>1, <4>2, <5>1 DEF Lines, InJob
      <4>3. CASE j = N
        <5>1. later[j].on = n /\ later[i].on \in DOMAIN re
          BY <1>1, <1>2, <1>4, <3>2, <4>1, <4>3
        <5> QED BY <1>7, <1>9, <5>1
      <4> QED BY <1>4, <4>2, <4>3
    <3> QED BY <3>1, <3>2 DEF InJob
  <2>3. \A x \in DOMAIN re2 : re2[x].status = "waiting" => Stands(x, pr, re2, later)
    <3> SUFFICES ASSUME NEW x \in DOMAIN re2, re2[x].status = "waiting" PROVE Stands(x, pr, re2, later)
      OBVIOUS
    <3>1. CASE x \in DOMAIN re
      <4>1. Stands(x, pr, re, w) /\ re2[x] = re[x]
        BY <1>0, <1>7, <3>1 DEF Lines
      <4> QED BY <1>4, <4>1 DEF Stands
    <3>2. CASE x = n
      BY <1>2, <1>4, <3>2 DEF Stands
    <3> QED BY <1>7, <3>1, <3>2
  <2>4. \A x, y \in DOMAIN re2 :
           re2[x].on = re2[y].on /\ re2[x].on # 0 /\ re2[x].status = "ran" /\ re2[y].status = "waiting" => x < y
    BY <1>0, <1>7, <1>9 DEF Lines
  <2> QED BY <2>1, <2>2, <2>3, <2>4 DEF Lines
<1>11. Good(pr, re2, sh, as, later, st)
  BY <1>6, <1>8, <1>10 DEF Good
<1> QED BY <1>3, <1>11 DEF job, re2

\* A reaction's number is put behind the others on a promise's record.
Lengthened(pr2, pr, p, n) ==
    /\ Len(pr2) = Len(pr) /\ SameStates(pr2, pr)
    /\ \A q \in DOMAIN pr : q # p => pr2[q].waiting = pr[q].waiting
    /\ Behind(pr2[p].waiting, pr[p].waiting, n)
LEMMA RecordElements ==
    ASSUME NEW pr \in Seq(PromiseType), NEW p \in DOMAIN pr, NEW n \in Nat
    PROVE  /\ [pr EXCEPT ![p].waiting = Append(@, n)] \in Seq(PromiseType)
           /\ Lengthened([pr EXCEPT ![p].waiting = Append(@, n)], pr, p, n)
<1> DEFINE T == PromiseType
           old == pr[p].waiting
           o == [pr[p] EXCEPT !.waiting = Append(@, n)]
           later == [pr EXCEPT ![p].waiting = Append(@, n)]
<1>1. pr \in Seq(T) /\ Len(pr) \in Nat /\ DOMAIN pr = 1 .. Len(pr) /\ pr[p] \in T /\ p \in 1 .. Len(pr)
  BY LenProperties
<1>2. old \in Seq(Nat)
  BY <1>1 DEF PromiseType
<1>3. Append(old, n) \in Seq(Nat) /\ Behind(Append(old, n), old, n)
  <2> HIDE DEF old
  <2> QED BY <1>2, BehindElements
<1>4. o \in T /\ o.state = pr[p].state /\ o.result = pr[p].result /\ o.waiting = Append(old, n)
  BY <1>1, <1>3 DEF PromiseType
<1>5. later = [pr EXCEPT ![p] = o]
  OBVIOUS
<1> HIDE DEF o, later, T, old
<1>6. /\ later \in Seq(T) /\ Len(later) = Len(pr)
      /\ \A x \in 1 .. Len(pr) : later[x] = IF x = p THEN o ELSE pr[x]
  BY <1>1, <1>4, <1>5, ExceptSeq
<1>7. DOMAIN later = DOMAIN pr
  BY <1>1, <1>6, LenProperties
<1>8. SameStates(later, pr)
  BY <1>1, <1>4, <1>6, <1>7 DEF SameStates
<1>9. later[p].waiting = Append(old, n) /\ \A q \in DOMAIN pr : q # p => later[q].waiting = pr[q].waiting
  BY <1>1, <1>4, <1>6
<1> QED BY <1>3, <1>6, <1>8, <1>9 DEF Lengthened, T, later, old

LEMMA NewReactionRecordKeeps ==
    ASSUME NEW pr, NEW re, NEW sh, NEW as, NEW w, NEW st, Good(pr, re, sh, as, w, st),
           NEW r, NEW n, NewReaction(r, n, pr, re, sh, as, w, st),
           r.on \in DOMAIN pr, pr[r.on].state = "pending"
    PROVE  Good([pr EXCEPT ![r.on].waiting = Append(@, n)], Append(re, r), sh, as, w, st)
<1> DEFINE p == r.on
           pr2 == [pr EXCEPT ![p].waiting = Append(@, n)]
           re2 == Append(re, r)
<1>0. Typed(pr, re, sh, as, w, st) /\ Sole(pr, re, sh, as, w, st) /\ Lines(pr, re, w)
  BY DEF Good
<1>1. n = Len(re) + 1 /\ Len(re) \in Nat /\ DOMAIN re = 1 .. Len(re) /\ pr \in Seq(PromiseType)
      /\ n \in Nat /\ DOMAIN pr = 1 .. Len(pr)
      /\ \A i \in DOMAIN w : w[i].kind = "reaction" => w[i].on \in DOMAIN re
  <2>1. n = Len(re) + 1 /\ Len(re) \in Nat /\ DOMAIN re = 1 .. Len(re) /\ pr \in Seq(PromiseType)
        /\ \A i \in DOMAIN w : w[i] \in JobType(Len(pr), Len(re))
        /\ DOMAIN pr = 1 .. Len(pr)
    BY <1>0, PromiseElements, ReactionElements, JobElements DEF NewReaction
  <2>2. \A i \in DOMAIN w : w[i].kind = "reaction" => w[i].on \in DOMAIN re
    BY <2>1 DEF JobType
  <2> QED BY <2>1, <2>2
<1> HIDE DEF p
<1>2. p \in DOMAIN pr /\ pr[p].state = "pending" /\ p # 0
  <2>1. p \in DOMAIN pr /\ pr[p].state = "pending"
    BY DEF p
  <2>2. \A x : p \in 1 .. x => p # 0
    OBVIOUS
  <2> QED BY <1>1, <2>1, <2>2
<1>3. pr2 \in Seq(PromiseType) /\ Lengthened(pr2, pr, p, n)
  BY <1>1, <1>2, RecordElements
<1> HIDE DEF pr2
<1>4. /\ Len(pr2) = Len(pr) /\ SameStates(pr2, pr)
      /\ DOMAIN pr2 = DOMAIN pr
      /\ \A q \in DOMAIN pr : pr2[q].state = pr[q].state /\ pr2[q].result = pr[q].result
      /\ \A q \in DOMAIN pr : q # p => pr2[q].waiting = pr[q].waiting
  BY <1>3 DEF Lengthened, SameStates
<1> DEFINE old == pr[p].waiting
           new == pr2[p].waiting
           N == Len(old) + 1
<1>5. /\ DOMAIN new = DOMAIN old \union {N} /\ new[N] = n /\ N \in Nat
      /\ \A k \in DOMAIN old : k \in Nat /\ k < N /\ new[k] = old[k]
  <2>1. old \in Seq(Nat)
    BY <1>0, <1>2, PromiseElements DEF PromiseType
  <2>2. N \in Nat
    <3> HIDE DEF old
    <3> QED BY <2>1, LenProperties
  <2> QED BY <1>3, <2>2 DEF Lengthened, Behind
<1> HIDE DEF N
<1>6. FewerJobs(w, w)
  BY DEF FewerJobs
<1>7. /\ re2 \in Seq(ReactionType(Len(pr), Len(sh), Len(as)))
      /\ n \in Nat /\ Len(re2) = n /\ Behind(re2, re, r)
      /\ Sole(pr2, re2, sh, as, w, st)
  BY <1>4, <1>6, NewReactionSole
<1> HIDE DEF re2
<1>8. /\ DOMAIN re2 = DOMAIN re \union {n} /\ re2[n] = r
      /\ \A i \in DOMAIN re : re2[i] = re[i] /\ i < n
  BY <1>1, <1>7 DEF Behind
<1>9. Typed(pr2, re2, sh, as, w, st)
  <2>1. w \in Seq(JobType(Len(pr), n))
    <3>1. Len(pr) \in Nat /\ Len(sh) \in Nat /\ Len(as) \in Nat
      BY <1>0, PromiseElements, SharedElements, AsyncElements
    <3> DEFINE mp == Len(pr)
               ms == Len(sh)
               ma == Len(as)
    <3>2. \A i \in Nat : i <= i
      OBVIOUS
    <3>3. /\ mp \in Nat /\ ms \in Nat /\ ma \in Nat
          /\ Len(pr) <= mp /\ Len(sh) <= ms /\ Len(as) <= ma
      BY <3>1, <3>2, Zenon
    <3> HIDE DEF mp, ms, ma
    <3>5. Len(re) <= n
      BY <1>1
    <3>4. w \in Seq(JobType(mp, n))
      BY <1>0, <1>1, <3>3, <3>5, GrowsTyped
    <3> QED BY <3>4 DEF mp
  <2>2. Len(re2) = n
    BY <1>7
  <2> QED BY <1>0, <1>3, <1>4, <1>7, <2>1, <2>2 DEF Typed
<1>10. r.status = "waiting" /\ n \notin DOMAIN re /\ r.on = p
  <2>1. r.status = "waiting"
    BY DEF NewReaction
  <2>2. n \notin 1 .. Len(re)
    BY <1>1
  <2> QED BY <1>1, <2>1, <2>2 DEF p
<1>11. /\ \A q \in DOMAIN pr : \A k \in DOMAIN pr[q].waiting :
              /\ pr[q].waiting[k] \in DOMAIN re /\ re[pr[q].waiting[k]].on = q
              /\ re[pr[q].waiting[k]].status = "waiting"
       /\ \A q \in DOMAIN pr : \A k, l \in DOMAIN pr[q].waiting :
              k < l => pr[q].waiting[k] < pr[q].waiting[l]
       /\ \A q \in DOMAIN pr : pr[q].state # "pending" => pr[q].waiting = <<>>
  BY <1>0 DEF Lines, OnRecord
<1>12. OnRecord(pr2, re2)
  <2>1. \A q \in DOMAIN pr2 : pr2[q].state # "pending" => pr2[q].waiting = <<>>
    BY <1>2, <1>4, <1>11
  <2>2. ASSUME NEW q \in DOMAIN pr2, NEW k \in DOMAIN pr2[q].waiting
        PROVE  LET x == pr2[q].waiting[k]
               IN  x \in DOMAIN re2 /\ re2[x].on = q /\ re2[x].status = "waiting"
    <3>1. CASE q # p
      BY <1>4, <1>8, <1>11, <2>2, <3>1
    <3>2. CASE q = p /\ k = N
      BY <1>5, <1>8, <1>10, <3>2
    <3>3. CASE q = p /\ k # N
      <4>1. k \in DOMAIN old /\ new[k] = old[k]
        BY <1>5, <2>2, <3>3
      <4>2. old[k] \in DOMAIN re /\ re[old[k]].on = p /\ re[old[k]].status = "waiting"
        BY <1>2, <1>11, <4>1
      <4> QED BY <1>8, <3>3, <4>1, <4>2
    <3> QED BY <3>1, <3>2, <3>3
  <2>3. ASSUME NEW q \in DOMAIN pr2, NEW k \in DOMAIN pr2[q].waiting, NEW l \in DOMAIN pr2[q].waiting, k < l
        PROVE  pr2[q].waiting[k] < pr2[q].waiting[l]
    <3>1. CASE q # p
      BY <1>4, <1>11, <2>3, <3>1
    <3>2. CASE q = p
      <4>1. k \in DOMAIN old /\ new[k] = old[k]
        BY <1>5, <2>3, <3>2
      <4>2. CASE l = N
        <5>1. old[k] \in DOMAIN re
          BY <1>2, <1>11, <4>1
        <5> QED BY <1>5, <1>8, <3>2, <4>1, <4>2, <5>1
      <4>3. CASE l # N
        <5>1. l \in DOMAIN old /\ new[l] = old[l]
          BY <1>5, <2>3, <3>2, <4>3
        <5> QED BY <1>2, <1>11, <2>3, <3>2, <4>1, <5>1
      <4> QED BY <4>2, <4>3
    <3> QED BY <3>1, <3>2
  <2> QED BY <2>1, <2>2, <2>3 DEF OnRecord
<1>13. /\ \A x \in DOMAIN re : re[x].on # 0 => re[x].on \in DOMAIN pr
  <2>1. \A x \in DOMAIN re : re[x].on \in 0 .. Len(pr)
    BY <1>0, ReactionElements DEF ReactionType
  <2> QED BY <1>0, <2>1, PromiseElements
<1>14. InJob(pr2, re2, w)
  <2>1. \A i \in DOMAIN w : w[i].kind = "reaction" => re2[w[i].on] = re[w[i].on] /\ w[i].on \in DOMAIN re
    BY <1>1, <1>8
  <2> QED BY <1>0, <1>4, <1>13, <2>1 DEF Lines, InJob
<1>15. \A x \in DOMAIN re2 : re2[x].status = "waiting" => Stands(x, pr2, re2, w)
  <2> SUFFICES ASSUME NEW x \in DOMAIN re2, re2[x].status = "waiting" PROVE Stands(x, pr2, re2, w)
    OBVIOUS
  <2>1. CASE x = n
    BY <1>2, <1>5, <1>8, <1>10, <2>1 DEF Stands
  <2>2. CASE x \in DOMAIN re
    <3>1. Stands(x, pr, re, w) /\ re2[x] = re[x]
      BY <1>0, <1>8, <2>2 DEF Lines
    <3>2. CASE re[x].on = p
      BY <1>5, <3>1, <3>2 DEF Stands
    <3>3. CASE re[x].on # p
      BY <1>4, <1>13, <2>2, <3>1, <3>3 DEF Stands
    <3> QED BY <3>2, <3>3
  <2> QED BY <1>8, <2>1, <2>2
<1>16. \A x, y \in DOMAIN re2 :
          re2[x].on = re2[y].on /\ re2[x].on # 0 /\ re2[x].status = "ran" /\ re2[y].status = "waiting" => x < y
  BY <1>0, <1>8, <1>10 DEF Lines
<1>17. Good(pr2, re2, sh, as, w, st)
  BY <1>7, <1>9, <1>12, <1>14, <1>15, <1>16 DEF Good, Lines
<1> QED BY <1>17 DEF pr2, re2, p

\* Jobs are added behind the others: what is where in w \o jobs.
Joined(later, w, jobs) ==
    /\ \A i \in DOMAIN w : i \in DOMAIN later /\ later[i] = w[i] /\ i \in Nat /\ i <= Len(w)
    /\ \A k \in DOMAIN jobs : k \in Nat /\ k >= 1 /\ Len(w) + k \in DOMAIN later /\ later[Len(w) + k] = jobs[k]
    /\ \A i \in DOMAIN later : i \in DOMAIN w \/ \E k \in DOMAIN jobs : i = Len(w) + k
LEMMA JoinedElements ==
    ASSUME NEW T, NEW w \in Seq(T), NEW jobs \in Seq(T)
    PROVE  w \o jobs \in Seq(T) /\ Len(w) \in Nat /\ Joined(w \o jobs, w, jobs)
<1> DEFINE later == w \o jobs
<1>1. /\ Len(w) \in Nat /\ DOMAIN w = 1 .. Len(w) /\ Len(jobs) \in Nat /\ DOMAIN jobs = 1 .. Len(jobs)
  BY LenProperties
<1>2. /\ later \in Seq(T) /\ Len(later) = Len(w) + Len(jobs)
      /\ \A i \in 1 .. Len(w) + Len(jobs) : later[i] = IF i <= Len(w) THEN w[i] ELSE jobs[i - Len(w)]
  BY ConcatProperties
<1> HIDE DEF later
<1>3. DOMAIN later = 1 .. Len(w) + Len(jobs)
  BY <1>2, LenProperties
<1>4. \A i \in DOMAIN w : i \in DOMAIN later /\ later[i] = w[i] /\ i \in Nat /\ i <= Len(w)
  BY <1>1, <1>2, <1>3
<1>5. ASSUME NEW k \in DOMAIN jobs
      PROVE  k \in Nat /\ k >= 1 /\ Len(w) + k \in DOMAIN later /\ later[Len(w) + k] = jobs[k]
  <2>1. /\ k \in Nat /\ k >= 1 /\ Len(w) + k \in 1 .. Len(w) + Len(jobs)
        /\ ~(Len(w) + k <= Len(w)) /\ Len(w) + k - Len(w) = k
    BY <1>1
  <2> QED BY <1>2, <1>3, <2>1
<1>6. ASSUME NEW i \in DOMAIN later, i \notin DOMAIN w PROVE \E k \in DOMAIN jobs : i = Len(w) + k
  <2>1. i - Len(w) \in 1 .. Len(jobs) /\ i = Len(w) + (i - Len(w))
    BY <1>1, <1>3, <1>6
  <2> QED BY <1>1, <2>1
<1> QED BY <1>1, <1>2, <1>4, <1>5, <1>6 DEF Joined, later

\* The jobs of a promise's settling, and its record after.
Outcome(state, value) == [state |-> state, result |-> value, waiting |-> <<>>]
JobsFor(waiting, state, value) ==
    [i \in 1 .. Len(waiting) |-> ReactionJob(waiting[i], value, state = "rejected")]

LEMMA SettleKeeps ==
    ASSUME NEW pr, NEW re, NEW sh, NEW as, NEW w, NEW st, Good(pr, re, sh, as, w, st),
           NEW p, Free(p, pr, re, sh, as, w, st),
           NEW state \in {"fulfilled", "rejected"}, NEW value \in 0 .. Object
    PROVE  /\ JobsFor(pr[p].waiting, state, value) \in Seq(Job)
           /\ Good([pr EXCEPT ![p] = Outcome(state, value)], re, sh, as,
                   w \o JobsFor(pr[p].waiting, state, value), st)
<1> DEFINE T == JobType(Len(pr), Len(re))
           old == pr[p].waiting
           jobs == JobsFor(old, state, value)
           later == w \o jobs
           o == Outcome(state, value)
           pr2 == [pr EXCEPT ![p] = o]
           N == Len(w)
<1>0. Typed(pr, re, sh, as, w, st) /\ Sole(pr, re, sh, as, w, st) /\ Lines(pr, re, w)
  BY DEF Good
<1>1. /\ pr \in Seq(PromiseType) /\ p \in DOMAIN pr /\ pr[p].state = "pending" /\ DOMAIN pr = 1 .. Len(pr)
      /\ w \in Seq(T) /\ Len(re) \in Nat /\ DOMAIN re = 1 .. Len(re)
      /\ \A i \in DOMAIN w : w[i].kind = "reaction" => w[i].on \in DOMAIN re
  <2>1. /\ pr \in Seq(PromiseType) /\ p \in DOMAIN pr /\ pr[p].state = "pending" /\ DOMAIN pr = 1 .. Len(pr)
        /\ w \in Seq(T) /\ Len(re) \in Nat /\ DOMAIN re = 1 .. Len(re)
        /\ \A i \in DOMAIN w : w[i] \in JobType(Len(pr), Len(re))
    BY <1>0, PromiseElements, ReactionElements, JobElements DEF Free
  <2>2. \A i \in DOMAIN w : w[i].kind = "reaction" => w[i].on \in DOMAIN re
    BY <2>1 DEF JobType
  <2> QED BY <2>1, <2>2
<1>2. /\ \A q \in DOMAIN pr : pr[q].state # "pending" => pr[q].waiting = <<>>
      /\ \A q \in DOMAIN pr : \A k \in DOMAIN pr[q].waiting :
            /\ pr[q].waiting[k] \in DOMAIN re /\ re[pr[q].waiting[k]].on = q
            /\ re[pr[q].waiting[k]].status = "waiting"
      /\ \A q \in DOMAIN pr : \A k, l \in DOMAIN pr[q].waiting :
            k < l => pr[q].waiting[k] < pr[q].waiting[l]
  BY <1>0 DEF Lines, OnRecord
<1>3. old \in Seq(Nat) /\ Len(old) \in Nat /\ DOMAIN old = 1 .. Len(old)
  <2>1. old \in Seq(Nat)
    BY <1>0, <1>1, PromiseElements DEF PromiseType
  <2> HIDE DEF old
  <2> QED BY <2>1, LenProperties
<1>4. p # 0
  <2>2. \A x : p \in 1 .. x => p # 0
    OBVIOUS
  <2> QED BY <1>1, <2>2
<1>5. /\ DOMAIN jobs = DOMAIN old /\ jobs \in Seq(T) /\ jobs \in Seq(Job)
      /\ \A k \in DOMAIN old :
            /\ jobs[k].kind = "reaction" /\ jobs[k].on = old[k] /\ jobs[k].value = value
            /\ jobs[k].rejected = (state = "rejected")
  <2>1. jobs = [k \in 1 .. Len(old) |-> ReactionJob(old[k], value, state = "rejected")]
    BY DEF JobsFor
  <2>2. ASSUME NEW k \in DOMAIN old
        PROVE  LET j == ReactionJob(old[k], value, state = "rejected")
               IN  /\ j.kind = "reaction" /\ j.on = old[k] /\ j.value = value
                   /\ j.rejected = (state = "rejected") /\ j \in T /\ j \in Job
    <3>1. old[k] \in DOMAIN re
      BY <1>1, <1>2
    <3> HIDE DEF old
    <3>2. (state = "rejected") \in BOOLEAN /\ old[k] \in Nat
      BY <1>1, <3>1
    <3> QED BY <1>1, <3>1, <3>2 DEF ReactionJob, JobType, Job
  <2> HIDE DEF old, jobs, T
  <2>3. DOMAIN jobs = DOMAIN old
    BY <1>3, <2>1
  <2>4. \A k \in DOMAIN old : jobs[k] = ReactionJob(old[k], value, state = "rejected")
    BY <1>3, <2>1
  <2>5. /\ \A k \in 1 .. Len(old) : jobs[k] \in T
        /\ \A k \in 1 .. Len(old) : jobs[k] \in Job
    BY <1>3, <2>2, <2>4
  <2>6. jobs \in [1 .. Len(old) -> T] /\ jobs \in [1 .. Len(old) -> Job]
    BY <2>1, <2>5
  <2>7. jobs \in Seq(T) /\ jobs \in Seq(Job)
    <3>1. \A S, f, n : n \in Nat /\ f \in [1 .. n -> S] => f \in Seq(S)
      BY SeqDef
    <3> QED BY <1>3, <2>6, <3>1
  <2> QED BY <2>2, <2>3, <2>4, <2>7
<1> HIDE DEF T, jobs
<1>6. later \in Seq(T) /\ N \in Nat /\ Joined(later, w, jobs)
  BY <1>1, <1>5, JoinedElements
<1> HIDE DEF later, N
<1>7. /\ \A i \in DOMAIN w : i \in DOMAIN later /\ later[i] = w[i] /\ i \in Nat /\ i <= N
      /\ \A k \in DOMAIN old : k \in Nat /\ k >= 1 /\ N + k \in DOMAIN later /\ later[N + k] = jobs[k]
      /\ \A i \in DOMAIN later : i \in DOMAIN w \/ \E k \in DOMAIN old : i = N + k
  BY <1>5, <1>6 DEF Joined, N
<1>8. o \in PromiseType /\ o.state # "pending" /\ o.waiting = <<>> /\ o.result = value /\ o.state = state
  BY EmptySeq DEF Outcome, PromiseType
<1> HIDE DEF o
<1>9. /\ pr2 \in Seq(PromiseType) /\ Len(pr2) = Len(pr) /\ DOMAIN pr2 = DOMAIN pr
      /\ \A q \in DOMAIN pr : pr2[q] = IF q = p THEN o ELSE pr[q]
  <2>1. /\ pr2 \in Seq(PromiseType) /\ Len(pr2) = Len(pr)
        /\ \A q \in 1 .. Len(pr) : pr2[q] = IF q = p THEN o ELSE pr[q]
    BY <1>1, <1>8, ExceptSeq
  <2> HIDE DEF pr2
  <2>2. DOMAIN pr2 = 1 .. Len(pr2)
    BY <2>1, LenProperties
  <2> QED BY <1>1, <2>1, <2>2
<1> HIDE DEF pr2
<1>10. Typed(pr2, re, sh, as, later, st)
  BY <1>0, <1>6, <1>9 DEF Typed, T
<1>11. \A k : k \notin DOMAIN o.waiting
  <2>1. DOMAIN <<>> = {}
    OBVIOUS
  <2> QED BY <1>8, <2>1
<1>12. OnRecord(pr2, re)
  BY <1>2, <1>8, <1>9, <1>11 DEF OnRecord
<1>13. \A x \in DOMAIN re : re[x].on # 0 => re[x].on \in DOMAIN pr
  <2>1. \A x \in DOMAIN re : re[x].on \in 0 .. Len(pr)
    BY <1>0, ReactionElements DEF ReactionType
  <2> QED BY <1>0, <2>1, PromiseElements
<1>14. \A k \in DOMAIN old : old[k] \in DOMAIN re /\ re[old[k]].on = p /\ re[old[k]].status = "waiting"
  BY <1>1, <1>2
<1>15. /\ \A i \in DOMAIN w : w[i].kind = "reaction" =>
              /\ re[w[i].on].status = "waiting" /\ re[w[i].on].on # p
              /\ re[w[i].on].on # 0 =>
                    /\ w[i].value = pr[re[w[i].on].on].result
                    /\ pr[re[w[i].on].on].state = IF w[i].rejected THEN "rejected" ELSE "fulfilled"
       /\ \A i, j \in DOMAIN w :
              w[i].kind = "reaction" /\ w[j].kind = "reaction" /\ i < j =>
                  /\ w[i].on # w[j].on
                  /\ re[w[i].on].on = re[w[j].on].on /\ re[w[i].on].on # 0 => w[i].on < w[j].on
  BY <1>0, <1>1, <1>4 DEF Lines, InJob
<1>16. InJob(pr2, re, later)
  <2>1. ASSUME NEW i \in DOMAIN later, later[i].kind = "reaction"
        PROVE  /\ re[later[i].on].status = "waiting"
               /\ re[later[i].on].on # 0 =>
                     /\ later[i].value = pr2[re[later[i].on].on].result
                     /\ pr2[re[later[i].on].on].state = IF later[i].rejected THEN "rejected" ELSE "fulfilled"
    <3>1. CASE i \in DOMAIN w
      BY <1>1, <1>7, <1>9, <1>13, <1>15, <2>1, <3>1
    <3>2. CASE i \notin DOMAIN w
      <4>1. PICK k \in DOMAIN old : i = N + k
        BY <1>7, <3>2
      <4>2. later[i] = jobs[k]
        BY <1>7, <4>1
      <4>3. /\ later[i].on = old[k] /\ later[i].value = value /\ later[i].rejected = (state = "rejected")
            /\ re[old[k]].on = p /\ re[old[k]].status = "waiting" /\ pr2[p] = o
        BY <1>1, <1>5, <1>9, <1>14, <4>2
      <4> QED BY <1>8, <4>3
    <3> QED BY <3>1, <3>2
  <2>2. ASSUME NEW i \in DOMAIN later, NEW j \in DOMAIN later,
               later[i].kind = "reaction", later[j].kind = "reaction", i < j
        PROVE  /\ later[i].on # later[j].on
               /\ re[later[i].on].on = re[later[j].on].on /\ re[later[i].on].on # 0
                     => later[i].on < later[j].on
    <3>1. CASE i \in DOMAIN w /\ j \in DOMAIN w
      BY <1>7, <1>15, <2>2, <3>1
    <3>2. CASE i \in DOMAIN w /\ j \notin DOMAIN w
      <4>1. PICK l \in DOMAIN old : j = N + l
        BY <1>7, <3>2
      <4>2. later[j].on = old[l] /\ re[old[l]].on = p
        BY <1>5, <1>7, <1>14, <4>1
      <4>3. later[i].on = w[i].on /\ re[w[i].on].on # p
        BY <1>7, <1>15, <2>2, <3>2
      <4> QED BY <4>2, <4>3
    <3>3. CASE i \notin DOMAIN w
      <4>1. PICK k \in DOMAIN old : i = N + k
        BY <1>7, <3>3
      <4>2. j \notin DOMAIN w
        BY <1>6, <1>7, <2>2, <4>1
      <4>3. PICK l \in DOMAIN old : j = N + l
        BY <1>7, <4>2
      <4>4. k < l
        BY <1>6, <1>7, <2>2, <4>1, <4>3
      <4>5. old[k] < old[l]
        BY <1>1, <1>2, <4>4
      <4>6. later[i].on = old[k] /\ later[j].on = old[l] /\ old[k] \in Nat /\ old[l] \in Nat
        <5>1. old[k] \in DOMAIN re /\ old[l] \in DOMAIN re
          BY <1>14
        <5> QED BY <1>1, <1>5, <1>7, <4>1, <4>3, <5>1
      <4> QED BY <4>5, <4>6
    <3> QED BY <3>1, <3>2, <3>3
  <2> QED BY <2>1, <2>2 DEF InJob
<1>17. \A x \in DOMAIN re : re[x].status = "waiting" => Stands(x, pr2, re, later)
  <2> SUFFICES ASSUME NEW x \in DOMAIN re, Stands(x, pr, re, w) PROVE Stands(x, pr2, re, later)
    BY <1>0 DEF Lines
  <2>1. CASE \E i \in DOMAIN w : w[i].kind = "reaction" /\ w[i].on = x
    BY <1>7, <2>1 DEF Stands
  <2>2. CASE re[x].on # 0 /\ \E k \in DOMAIN pr[re[x].on].waiting : pr[re[x].on].waiting[k] = x
    <3>1. CASE re[x].on = p
      <4>1. PICK k \in DOMAIN old : old[k] = x
        BY <2>2, <3>1
      <4>2. N + k \in DOMAIN later /\ later[N + k].kind = "reaction" /\ later[N + k].on = x
        BY <1>5, <1>7, <4>1
      <4> QED BY <4>2 DEF Stands
    <3>2. CASE re[x].on # p
      BY <1>9, <1>13, <2>2, <3>2 DEF Stands
    <3> QED BY <3>1, <3>2
  <2> QED BY <2>1, <2>2 DEF Stands
<1>18. Lines(pr2, re, later)
  BY <1>0, <1>12, <1>16, <1>17 DEF Lines
<1>19. Sole(pr2, re, sh, as, later, st)
  <2>1. ASSUME NEW n, NEW q, JobSettles(n, q, later) PROVE JobSettles(n, q, w)
    <3>1. CASE n \in DOMAIN w
      BY <1>7, <2>1, <3>1 DEF JobSettles
    <3>2. CASE n \notin DOMAIN w
      <4>1. PICK k \in DOMAIN old : n = N + k
        BY <1>7, <2>1, <3>2 DEF JobSettles
      <4>2. later[n].kind = "reaction"
        BY <1>5, <1>7, <4>1
      <4> QED BY <2>1, <4>2 DEF JobSettles
    <3> QED BY <3>1, <3>2
  <2>2. Fewer(pr, re, sh, as, w, st, pr2, re, sh, as, later, st)
    <3> SUFFICES ASSUME NEW q \in DOMAIN pr2, NEW a \in Kind, NEW n \in Nat,
                        Settles(a, n, q, re, sh, as, later, st)
                 PROVE  q \in DOMAIN pr /\ pr2[q].state = pr[q].state /\ Settles(a, n, q, re, sh, as, w, st)
      BY DEF Fewer
    <3>1. Settles(a, n, q, re, sh, as, w, st)
      BY <2>1 DEF Settles
    <3>2. q # p
      BY <3>1 DEF Free
    <3> QED BY <1>9, <3>1, <3>2
  <2> QED BY <1>0, <2>2, SoleFewer
<1>20. Good(pr2, re, sh, as, later, st)
  BY <1>10, <1>18, <1>19 DEF Good
<1> QED BY <1>5, <1>20 DEF pr2, later, jobs, o

\* The jobs a termination leaves are dropped, and their reactions with them.
AreReactionsOf(D, w) == \A r : r \in D <=> \E i \in DOMAIN w : w[i].kind = "reaction" /\ w[i].on = r
LEMMA DropKeeps ==
    ASSUME NEW pr, NEW re, NEW sh, NEW as, NEW w, NEW st, Good(pr, re, sh, as, w, st),
           NEW D, AreReactionsOf(D, w)
    PROVE  Good(pr, [r \in DOMAIN re |-> IF r \in D THEN [re[r] EXCEPT !.status = "dropped"] ELSE re[r]],
                sh, as, <<>>, st)
<1> DEFINE T == ReactionType(Len(pr), Len(sh), Len(as))
           re2 == [r \in DOMAIN re |-> IF r \in D THEN [re[r] EXCEPT !.status = "dropped"] ELSE re[r]]
           none == <<>>
<1>0. Typed(pr, re, sh, as, w, st) /\ Sole(pr, re, sh, as, w, st) /\ Lines(pr, re, w)
  BY DEF Good
<1>1. Len(re) \in Nat /\ DOMAIN re = 1 .. Len(re) /\ \A x \in DOMAIN re : re[x] \in T
  BY <1>0, ReactionElements
<1>2. \A x \in DOMAIN re :
         /\ re2[x] \in T /\ re2[x].kind = re[x].kind /\ re2[x].on = re[x].on /\ re2[x].of = re[x].of
         /\ re2[x].status = IF x \in D THEN "dropped" ELSE re[x].status
  <2> SUFFICES ASSUME NEW x \in DOMAIN re
               PROVE  /\ re2[x] \in T /\ re2[x].kind = re[x].kind /\ re2[x].on = re[x].on
                      /\ re2[x].of = re[x].of
                      /\ re2[x].status = IF x \in D THEN "dropped" ELSE re[x].status
    OBVIOUS
  <2> DEFINE o == [re[x] EXCEPT !.status = "dropped"]
  <2>1. re[x] \in T
    BY <1>1
  <2>2. o \in T /\ o.kind = re[x].kind /\ o.on = re[x].on /\ o.of = re[x].of /\ o.status = "dropped"
    BY <2>1 DEF ReactionType
  <2>3. re2[x] = IF x \in D THEN o ELSE re[x]
    OBVIOUS
  <2> HIDE DEF o, T, re2
  <2> QED BY <2>1, <2>2, <2>3
<1>3. DOMAIN re2 = DOMAIN re /\ re2 \in [1 .. Len(re) -> T]
  <2>1. \A x \in DOMAIN re : re2[x] \in T
    BY <1>2
  <2> HIDE DEF T
  <2>2. DOMAIN re2 = DOMAIN re /\ re2 = [x \in DOMAIN re |-> re2[x]]
    OBVIOUS
  <2> HIDE DEF re2
  <2> QED BY <1>1, <2>1, <2>2
<1> HIDE DEF T, re2
<1>4. re2 \in Seq(T) /\ Len(re2) = Len(re)
  BY <1>1, <1>3, SeqDef
<1>5. (\A S : none \in Seq(S)) /\ \A i : i \notin DOMAIN none
  BY EmptySeq
<1> HIDE DEF none
<1>6. Typed(pr, re2, sh, as, none, st)
  BY <1>0, <1>4, <1>5 DEF Typed, T
<1>7. \A r \in DOMAIN re : r \notin D /\ re[r].status = "waiting" =>
         re[r].on # 0 /\ \E k \in DOMAIN pr[re[r].on].waiting : pr[re[r].on].waiting[k] = r
  BY <1>0 DEF Lines, Stands, AreReactionsOf
<1>8. \A p \in DOMAIN pr : pr[p].state # "pending" => \A k : k \notin DOMAIN pr[p].waiting
  <2>1. DOMAIN <<>> = {}
    OBVIOUS
  <2> QED BY <1>0, <2>1 DEF Lines, OnRecord
<1>9. OnRecord(pr, re2)
  <2>1. ASSUME NEW p \in DOMAIN pr, NEW k \in DOMAIN pr[p].waiting
        PROVE  /\ pr[p].waiting[k] \in DOMAIN re /\ re[pr[p].waiting[k]].on = p
               /\ re[pr[p].waiting[k]].status = "waiting" /\ pr[p].waiting[k] \notin D
    <3> DEFINE r == pr[p].waiting[k]
    <3>1. r \in DOMAIN re /\ re[r].on = p /\ re[r].status = "waiting"
      BY <1>0 DEF Lines, OnRecord
    <3>2. ASSUME r \in D PROVE FALSE
      <4>1. PICK i \in DOMAIN w : w[i].kind = "reaction" /\ w[i].on = r
        BY <3>2 DEF AreReactionsOf
      <4>2. p # 0
        <5>1. \A n : p \in 1 .. n => p # 0
          OBVIOUS
        <5>2. DOMAIN pr = 1 .. Len(pr)
          BY <1>0, PromiseElements
        <5> QED BY <5>1, <5>2
      <4> HIDE DEF r
      <4>3. pr[p].state # "pending"
        BY <1>0, <3>1, <4>1, <4>2 DEF Lines, InJob
      <4> QED BY <1>8, <4>3
    <3> QED BY <3>1, <3>2
  <2> QED BY <1>0, <1>2, <1>3, <2>1 DEF Lines, OnRecord
<1>10. InJob(pr, re2, none)
  BY <1>5 DEF InJob
<1>11. \A r \in DOMAIN re2 : re2[r].status = "waiting" => Stands(r, pr, re2, none)
  BY <1>2, <1>3, <1>7 DEF Stands
<1>12. \A r, s \in DOMAIN re2 :
          re2[r].on = re2[s].on /\ re2[r].on # 0 /\ re2[r].status = "ran" /\ re2[s].status = "waiting" => r < s
  <2> SUFFICES ASSUME NEW r \in DOMAIN re, NEW s \in DOMAIN re, re2[r].on = re2[s].on, re2[r].on # 0,
                      re2[r].status = "ran", re2[s].status = "waiting"
               PROVE  r < s
    BY <1>3
  <2>1. re[r].on = re[s].on /\ re[r].on # 0 /\ re[r].status = "ran" /\ re[s].status = "waiting"
    BY <1>2
  <2> QED BY <1>0, <2>1 DEF Lines
<1>13. Sole(pr, re2, sh, as, none, st)
  <2>1. Fewer(pr, re, sh, as, w, st, pr, re2, sh, as, none, st)
    <3> SUFFICES ASSUME NEW p, NEW a, NEW n, Settles(a, n, p, re2, sh, as, none, st)
                 PROVE  Settles(a, n, p, re, sh, as, w, st)
      BY DEF Fewer
    <3>1. ReactionSettles(n, p, re2, as) => ReactionSettles(n, p, re, as)
      BY <1>2, <1>3 DEF ReactionSettles, Derives
    <3> QED BY <1>5, <3>1 DEF Settles, JobSettles
  <2> QED BY <1>0, <2>1, SoleFewer
<1>14. Good(pr, re2, sh, as, none, st)
  BY <1>6, <1>9, <1>10, <1>11, <1>12, <1>13 DEF Good, Lines
<1> QED BY <1>14 DEF none, re2
-----------------------------------------------------------------------------
(* The model's own steps.                                                  *)

\* Jobs may have been added behind these.
Grown(later, w) == \E added \in Seq(Job) : later = w \o added

LEMMA GrownBySelf == ASSUME NEW w \in Seq(Job) PROVE Grown(w, w)
<1>1. <<>> \in Seq(Job) /\ w = w \o <<>>
  BY EmptySeq, ConcatEmptySeq
<1> QED BY <1>1 DEF Grown

\* A promise nothing else settles is settled.
LEMMA SettleStep ==
    ASSUME NEW q, QueueInv(q), NEW re, NEW sh, NEW as, NEW st, NEW p,
           Good(promises, re, sh, as, Waiting(q), st), Free(p, promises, re, sh, as, Waiting(q), st),
           NEW state \in {"fulfilled", "rejected"}, NEW value \in 0 .. Object,
           Settle(q, p, state, value)
    PROVE  QueueInv(queue') /\ Grown(Waiting(queue'), Waiting(q))
           /\ Good(promises', re, sh, as, Waiting(queue'), st)
<1> DEFINE jobs == JobsFor(promises[p].waiting, state, value)
<1>1. promises[p].state = "pending"
  BY DEF Free
<1>2. promises' = [promises EXCEPT ![p] = Outcome(state, value)] /\ queue' = Enqueued(q, jobs)
  BY <1>1 DEF Settle, SettledRecord, Outcome, JobsOf, JobsFor
<1>3. /\ jobs \in Seq(Job)
      /\ Good([promises EXCEPT ![p] = Outcome(state, value)], re, sh, as, Waiting(q) \o jobs, st)
  BY SettleKeeps
<1> HIDE DEF jobs
<1>4. QueueInv(queue') /\ Waiting(queue') = Waiting(q) \o jobs
  BY <1>2, <1>3, EnqueuedProperties
<1> QED BY <1>2, <1>3, <1>4 DEF Grown

\* Calls about a promise: the reading of a `then`, and a handler.
LEMMA DrivingCalls ==
    ASSUME NEW np \in Nat, NEW ns, NEW na, NEW p \in 1 .. np, NEW value \in 0 .. Object
    PROVE  /\ Call("then", p, value) \in CallType(np, ns, na)
           /\ Call("handler", p, value) \in CallType(np, ns, na)
BY DEF Call, CallType

LEMMA ResolveStep ==
    ASSUME NEW q, QueueInv(q), NEW re, NEW sh, NEW as, NEW st, NEW p,
           Good(promises, re, sh, as, Waiting(q), st), Free(p, promises, re, sh, as, Waiting(q), st),
           NEW value \in 0 .. Object, Resolve(q, st, p, value)
    PROVE  QueueInv(queue') /\ Grown(Waiting(queue'), Waiting(q))
           /\ Good(promises', re, sh, as, Waiting(queue'), stack')
<1>1. CASE value = p /\ Reject(q, p) /\ stack' = st
  <2>1. Settle(q, p, "rejected", Plain) /\ Plain \in 0 .. Object
    BY <1>1, BoundsAssumption DEF Reject, Plain, Object
  <2> QED BY <1>1, <2>1, SettleStep
<1>2. CASE value = Plain /\ Fulfill(q, p, value) /\ stack' = st
  <2>1. Settle(q, p, "fulfilled", value)
    BY <1>2 DEF Fulfill
  <2> QED BY <1>2, <2>1, SettleStep
<1>3. CASE stack' = Append(st, Call("then", p, value)) /\ queue' = q /\ UNCHANGED promises
  <2>1. /\ Call("then", p, value) \in CallType(Len(promises), Len(sh), Len(as))
        /\ \A x : Drives(Call("then", p, value), as, x) => x = p
    <3>1. Len(promises) \in Nat /\ p \in 1 .. Len(promises)
      BY PromiseElements DEF Free, Good
    <3>2. Call("then", p, value) \in CallType(Len(promises), Len(sh), Len(as))
      BY <3>1, DrivingCalls
    <3>3. \A x : Drives(Call("then", p, value), as, x) => x = p
      BY DEF Call, Drives
    <3> QED BY <3>2, <3>3
  <2>2. Good(promises, re, sh, as, Waiting(q), Append(st, Call("then", p, value)))
    BY <2>1, PushKeeps
  <2>3. Grown(Waiting(q), Waiting(q))
    BY WaitingProperties, GrownBySelf
  <2> QED BY <1>3, <2>2, <2>3
<1> QED BY <1>1, <1>2, <1>3 DEF Resolve

LEMMA SettleDestinationStep ==
    ASSUME NEW q, QueueInv(q), NEW re, NEW sh, NEW as, NEW st, NEW p,
           Good(promises, re, sh, as, Waiting(q), st), Free(p, promises, re, sh, as, Waiting(q), st),
           NEW value \in 0 .. Object, NEW rejected, SettleDestination(q, st, p, value, rejected)
    PROVE  QueueInv(queue') /\ Grown(Waiting(queue'), Waiting(q))
           /\ Good(promises', re, sh, as, Waiting(queue'), stack')
<1>1. CASE rejected
  <2>1. Settle(q, p, "rejected", Plain) /\ Plain \in 0 .. Object /\ stack' = st
    BY <1>1, BoundsAssumption DEF SettleDestination, Reject, Plain, Object
  <2> QED BY <2>1, SettleStep
<1>2. CASE ~rejected
  <2>1. Resolve(q, st, p, value)
    BY <1>2 DEF SettleDestination
  <2> QED BY <2>1, ResolveStep
<1> QED BY <1>1, <1>2

\* A resolving function is called, for the first time or another.
LEMMA SettleThroughStep ==
    ASSUME NEW q, QueueInv(q), NEW re, NEW as, NEW st, NEW s \in DOMAIN shareds,
           Good(promises, re, shareds, as, Waiting(q), st),
           NEW value \in 0 .. Object, NEW rejected, SettleThrough(q, st, s, value, rejected)
    PROVE  QueueInv(queue') /\ Grown(Waiting(queue'), Waiting(q))
           /\ Good(promises', re, shareds', as, Waiting(queue'), stack')
<1>1. CASE shareds[s].called
  <2>1. queue' = q /\ stack' = st /\ promises' = promises /\ shareds' = shareds
    BY <1>1 DEF SettleThrough
  <2>2. Grown(Waiting(q), Waiting(q))
    BY WaitingProperties, GrownBySelf
  <2> QED BY <2>1, <2>2
<1>2. CASE ~shareds[s].called
  <2> DEFINE sh == [shareds EXCEPT ![s].called = TRUE]
             p == shareds[s].promise
  <2>1. shareds' = sh /\ SettleDestination(q, st, p, value, rejected)
    BY <1>2 DEF SettleThrough
  <2>2. Good(promises, re, sh, as, Waiting(q), st) /\ Free(p, promises, re, sh, as, Waiting(q), st)
    BY <1>2, CalledKeeps
  <2> HIDE DEF sh, p
  <2> QED BY <2>1, <2>2, SettleDestinationStep
<1> QED BY <1>1, <1>2

\* A reaction is attached to a promise, new or not.
LEMMA AttachStep ==
    ASSUME NEW ps, NEW st, NEW r, QueueInv(queue), Good(ps, reactions, shareds, asyncs, Waiting(queue), st),
           NewReaction(r, Len(reactions) + 1, ps, reactions, shareds, asyncs, Waiting(queue), st),
           r.on \in DOMAIN ps, Attach(ps, r)
    PROVE  QueueInv(queue') /\ Grown(Waiting(queue'), Waiting(queue))
           /\ Good(promises', reactions', shareds, asyncs, Waiting(queue'), st)
<1> DEFINE n == Len(reactions) + 1
           p == r.on
<1>1. CASE ps[p].state = "pending"
  <2>1. /\ promises' = [ps EXCEPT ![p].waiting = Append(@, n)]
        /\ reactions' = Append(reactions, r) /\ queue' = queue
    BY <1>1 DEF Attach
  <2>2. Good([ps EXCEPT ![p].waiting = Append(@, n)], Append(reactions, r), shareds, asyncs, Waiting(queue), st)
    BY <1>1, NewReactionRecordKeeps
  <2>3. Grown(Waiting(queue), Waiting(queue))
    BY WaitingProperties, GrownBySelf
  <2> QED BY <2>1, <2>2, <2>3
<1>2. CASE ps[p].state # "pending"
  <2> DEFINE value == ps[p].result
             rejected == (ps[p].state = "rejected")
             job == ReactionJob(n, value, rejected)
  <2>1. promises' = ps /\ reactions' = Append(reactions, r) /\ queue' = Enqueued(queue, <<job>>)
    BY <1>2 DEF Attach
  <2>2. ps[p] \in PromiseType
    BY PromiseElements DEF Good
  <2>3. /\ value \in 0 .. Object /\ rejected \in BOOLEAN
        /\ ps[p].state = IF rejected THEN "rejected" ELSE "fulfilled"
    BY <1>2, <2>2 DEF PromiseType
  <2> HIDE DEF rejected
  <2>4. /\ <<job>> \in Seq(Job)
        /\ Good(ps, Append(reactions, r), shareds, asyncs, Waiting(queue) \o <<job>>, st)
    <3> HIDE DEF n
    <3>1. NewReaction(r, n, ps, reactions, shareds, asyncs, Waiting(queue), st)
      BY DEF n
    <3> QED BY <2>3, <3>1, NewReactionJobKeeps
  <2> HIDE DEF job
  <2>5. QueueInv(queue') /\ Waiting(queue') = Waiting(queue) \o <<job>>
    BY <2>1, <2>4, EnqueuedProperties
  <2> QED BY <2>1, <2>4, <2>5 DEF Grown
<1> QED BY <1>1, <1>2

\* The calls that settle nothing, and those of an async function's body.
LEMMA PushPlain ==
    ASSUME NEW pr, NEW re, NEW sh, NEW as, NEW w, NEW st, Good(pr, re, sh, as, w, st),
           NEW at \in {"script", "executor", "thenable", "adopt"}, NEW on \in Nat, NEW of \in 0 .. Object,
           at # "script" => on \in DOMAIN sh, at = "adopt" => of \in DOMAIN pr
    PROVE  Good(pr, re, sh, as, w, Append(st, Call(at, on, of)))
<1> DEFINE c == Call(at, on, of)
<1>1. DOMAIN sh = 1 .. Len(sh) /\ DOMAIN pr = 1 .. Len(pr)
  BY SharedElements, PromiseElements DEF Good
<1>2. c \in CallType(Len(pr), Len(sh), Len(as))
  BY <1>1 DEF Call, CallType
<1>3. \A p : ~Drives(c, as, p)
  BY DEF Call, Drives
<1> HIDE DEF c
<1>4. Good(pr, re, sh, as, w, Append(st, c))
  BY <1>2, <1>3, PushKeeps
<1> QED BY <1>4 DEF c

LEMMA PushBody ==
    ASSUME NEW pr, NEW re, NEW sh, NEW as, NEW w, NEW st, Good(pr, re, sh, as, w, st),
           NEW at \in {"async", "constructor", "await"}, NEW on \in DOMAIN as, NEW of \in 0 .. Object,
           at # "async" => of \in DOMAIN pr, Free(as[on], pr, re, sh, as, w, st)
    PROVE  /\ Good(pr, re, sh, as, w, Append(st, Call(at, on, of)))
           /\ \A p : Free(p, pr, re, sh, as, w, st) /\ p # as[on]
                        => Free(p, pr, re, sh, as, w, Append(st, Call(at, on, of)))
<1> DEFINE c == Call(at, on, of)
<1>1. DOMAIN as = 1 .. Len(as) /\ DOMAIN pr = 1 .. Len(pr) /\ Len(as) \in Nat
  BY AsyncElements, PromiseElements DEF Good
<1>2. c \in CallType(Len(pr), Len(sh), Len(as))
  <2>1. on \in Nat /\ on \in 1 .. Len(as)
    <3>1. on \in 1 .. Len(as)
      BY <1>1
    <3>2. \A n \in Nat : on \in 1 .. n => on \in Nat
      OBVIOUS
    <3> QED BY <1>1, <3>1, <3>2
  <2> QED BY <1>1, <2>1 DEF Call, CallType
<1>3. \A p : Drives(c, as, p) => p = as[on]
  BY DEF Call, Drives
<1> HIDE DEF c
<1>4. \A p \in DOMAIN pr : Drives(c, as, p) => Free(p, pr, re, sh, as, w, st)
  BY <1>3
<1>5. Good(pr, re, sh, as, w, Append(st, c))
      /\ \A p : Free(p, pr, re, sh, as, w, st) /\ ~Drives(c, as, p)
                   => Free(p, pr, re, sh, as, w, Append(st, c))
  BY <1>2, <1>4, PushKeeps
<1> QED BY <1>3, <1>5 DEF c

\* What a state has, and what the call that returns leaves.
LEMMA StateProperties ==
    ASSUME IInv
    PROVE  /\ QueueInv(queue) /\ Good(promises, reactions, shareds, asyncs, Waiting(queue), stack)
           /\ Grown(Waiting(queue), Waiting(queue))
           /\ Plain \in 0 .. Object /\ Values \subseteq 0 .. Object
           /\ Promise = 1 .. Len(promises) /\ Len(promises) \in Nat
           /\ DOMAIN promises = 1 .. Len(promises)
<1>1. QueueInv(queue) /\ Good(promises, reactions, shareds, asyncs, Waiting(queue), stack)
  BY DEF IInv
<1>2. Grown(Waiting(queue), Waiting(queue))
  BY <1>1, WaitingProperties, GrownBySelf
<1>3. Len(promises) \in Nat /\ DOMAIN promises = 1 .. Len(promises) /\ Len(promises) <= MaxPromises
  <2>1. Typed(promises, reactions, shareds, asyncs, Waiting(queue), stack)
    BY <1>1 DEF Good
  <2>2. Len(promises) <= MaxPromises
    BY <2>1 DEF Typed
  <2> QED BY <2>1, <2>2, PromiseElements
<1>4. Plain \in 0 .. Object /\ Values \subseteq 0 .. Object
  BY <1>3, BoundsAssumption DEF Plain, Values, Object, Promise
<1> QED BY <1>1, <1>2, <1>3, <1>4 DEF Promise

LEMMA TopProperties ==
    ASSUME IInv, stack # <<>>
    PROVE  /\ Good(promises, reactions, shareds, asyncs, Waiting(queue), Below)
           /\ Top.on \in Nat /\ Top.of \in 0 .. Object /\ Len(Below) < Len(stack)
           /\ Top.at \in {"executor", "thenable", "adopt"} => Top.on \in DOMAIN shareds
           /\ Top.at \in {"then", "handler"} =>
                 Free(Top.on, promises, reactions, shareds, asyncs, Waiting(queue), Below)
           /\ Top.at \in {"async", "constructor", "await"} =>
                 /\ Top.on \in DOMAIN asyncs /\ asyncs[Top.on] \in DOMAIN promises
                 /\ Free(asyncs[Top.on], promises, reactions, shareds, asyncs, Waiting(queue), Below)
           /\ Top.at \in {"adopt", "constructor", "await"} => Top.of \in DOMAIN promises
<1> DEFINE w == Waiting(queue)
           c == Top
<1>1. /\ c \in CallType(Len(promises), Len(shareds), Len(asyncs)) /\ Len(Below) < Len(stack)
      /\ Good(promises, reactions, shareds, asyncs, w, Below)
      /\ \A p \in DOMAIN promises : Drives(c, asyncs, p)
                   => Free(p, promises, reactions, shareds, asyncs, w, Below)
  <2>1. Good(promises, reactions, shareds, asyncs, w, stack)
    BY StateProperties
  <2> HIDE DEF w
  <2> QED BY <2>1, PopKeeps DEF Top, Below
<1>2. /\ DOMAIN promises = 1 .. Len(promises) /\ DOMAIN shareds = 1 .. Len(shareds)
      /\ DOMAIN asyncs = 1 .. Len(asyncs) /\ \A x \in DOMAIN asyncs : asyncs[x] \in 1 .. Len(promises)
  <2>1. Typed(promises, reactions, shareds, asyncs, w, stack)
    BY DEF IInv, Good
  <2> HIDE DEF w
  <2> QED BY <2>1, PromiseElements, SharedElements, AsyncElements
<1> HIDE DEF w, c
<1>3. /\ c.on \in Nat /\ c.of \in 0 .. Object
      /\ c.at \in {"executor", "thenable", "adopt"} => c.on \in 1 .. Len(shareds)
      /\ c.at \in {"then", "handler"} => c.on \in 1 .. Len(promises)
      /\ c.at \in {"async", "constructor", "await"} => c.on \in 1 .. Len(asyncs)
      /\ c.at \in {"adopt", "constructor", "await"} => c.of \in 1 .. Len(promises)
  BY <1>1 DEF CallType
<1>4. ASSUME c.at \in {"then", "handler"}
      PROVE  Free(c.on, promises, reactions, shareds, asyncs, w, Below)
  BY <1>1, <1>2, <1>3, <1>4 DEF Drives
<1>5. ASSUME c.at \in {"async", "constructor", "await"}
      PROVE  /\ c.on \in DOMAIN asyncs /\ asyncs[c.on] \in DOMAIN promises
             /\ Free(asyncs[c.on], promises, reactions, shareds, asyncs, w, Below)
  BY <1>1, <1>2, <1>3, <1>5 DEF Drives
<1> QED BY <1>1, <1>2, <1>3, <1>4, <1>5 DEF w, c
-----------------------------------------------------------------------------
(* The actions: each is one of these steps or a few in turn.               *)

Kept ==
    /\ QueueInv(queue')
    /\ Good(promises', reactions', shareds', asyncs', Waiting(queue'), stack')

LEMMA EvaluateKeeps ==
    ASSUME IInv, Evaluate
    PROVE  Kept /\ Grown(Waiting(queue'), Waiting(queue))
<1>1. stack' = Append(stack, Call("script", 0, Plain))
      /\ UNCHANGED <<promises, reactions, shareds, asyncs, queue>>
  BY DEF Evaluate
<1>2. Good(promises, reactions, shareds, asyncs, Waiting(queue), Append(stack, Call("script", 0, Plain)))
  BY StateProperties, PushPlain
<1> QED BY <1>1, <1>2, StateProperties DEF Kept

\* A new promise, its functions and the call of its executor.
LEMMA ConstructPromiseKeeps ==
    ASSUME IInv, ConstructPromise
    PROVE  Kept /\ Grown(Waiting(queue'), Waiting(queue))
<1> DEFINE p == Len(promises) + 1
           s == Len(shareds) + 1
           ps == Append(promises, NewPromise)
           sh == Append(shareds, NewShared(p, TRUE))
           c == Call("executor", s, Plain)
<1>1. /\ promises' = ps /\ shareds' = sh /\ stack' = Append(stack, c)
      /\ UNCHANGED <<reactions, asyncs, queue>> /\ Len(promises) < MaxPromises
  <2>1. Len(promises) < MaxPromises
    BY StateProperties, BoundsAssumption DEF ConstructPromise, RoomFor
  <2> QED BY <2>1 DEF ConstructPromise
<1>2. /\ Good(ps, reactions, shareds, asyncs, Waiting(queue), stack)
      /\ Free(p, ps, reactions, shareds, asyncs, Waiting(queue), stack)
  BY <1>1, StateProperties, NewPromiseKeeps
<1> HIDE DEF p, ps
<1>3. /\ Good(ps, reactions, sh, asyncs, Waiting(queue), stack)
      /\ Len(shareds) \in Nat /\ Len(sh) = Len(shareds) + 1
  <2>1. \A given \in BOOLEAN :
           /\ Good(ps, reactions, Append(shareds, NewShared(p, given)), asyncs, Waiting(queue), stack)
           /\ Len(shareds) \in Nat /\ Len(Append(shareds, NewShared(p, given))) = Len(shareds) + 1
    BY <1>2, NewSharedKeeps
  <2> QED BY <2>1, Zenon
<1> HIDE DEF sh
<1>4. s \in Nat /\ s \in DOMAIN sh
  <2>1. DOMAIN sh = 1 .. Len(sh)
    BY <1>3, SharedElements DEF Good
  <2> QED BY <1>3, <2>1
<1> HIDE DEF s
<1>5. Good(ps, reactions, sh, asyncs, Waiting(queue), Append(stack, c))
  BY <1>3, <1>4, StateProperties, PushPlain
<1> QED BY <1>1, <1>5, StateProperties DEF Kept

LEMMA CallResolvingFunctionKeeps ==
    ASSUME IInv, CallResolvingFunction
    PROVE  Kept /\ Grown(Waiting(queue'), Waiting(queue))
<1>1. PICK s \in DOMAIN shareds, value \in Values, rejected \in BOOLEAN :
         SettleThrough(queue, stack, s, value, rejected)
  BY DEF CallResolvingFunction
<1>2. reactions' = reactions /\ asyncs' = asyncs
  BY DEF CallResolvingFunction
<1>3. value \in 0 .. Object /\ QueueInv(queue)
      /\ Good(promises, reactions, shareds, asyncs, Waiting(queue), stack)
  BY StateProperties
<1>4. QueueInv(queue') /\ Grown(Waiting(queue'), Waiting(queue))
      /\ Good(promises', reactions, shareds', asyncs, Waiting(queue'), stack')
  BY <1>1, <1>3, SettleThroughStep
<1> QED BY <1>2, <1>4 DEF Kept

\* A handler's reaction derives a new promise.
LEMMA ThenKeeps ==
    ASSUME IInv, Then
    PROVE  Kept /\ Grown(Waiting(queue'), Waiting(queue))
<1> DEFINE n == Len(promises) + 1
           ps == Append(promises, NewPromise)
<1>1. PICK p \in Promise, handled \in {"fulfilled", "rejected"} :
         Attach(ps, Reaction("handler", p, n, {handled}))
  BY DEF Then
<1> DEFINE r == Reaction("handler", p, n, {handled})
<1>2. UNCHANGED <<shareds, asyncs, stack>> /\ Len(promises) < MaxPromises
  <2>1. Len(promises) < MaxPromises
    BY StateProperties, BoundsAssumption DEF Then, RoomFor
  <2> QED BY <2>1 DEF Then
<1>3. /\ Good(ps, reactions, shareds, asyncs, Waiting(queue), stack)
      /\ Free(n, ps, reactions, shareds, asyncs, Waiting(queue), stack)
      /\ Len(ps) = n /\ DOMAIN promises \subseteq DOMAIN ps
  BY <1>2, StateProperties, NewPromiseKeeps
<1> HIDE DEF ps
<1>4. DOMAIN ps = 1 .. Len(ps) /\ Len(ps) \in Nat
  BY <1>3, PromiseElements DEF Good
<1>5. r \in ReactionType(Len(ps), Len(shareds), Len(asyncs)) /\ r.on = p /\ r.status = "waiting"
  <2>1. p \in DOMAIN ps
    BY <1>3 DEF Promise
  <2>2. n \in 1 .. Len(ps) /\ n \in Nat /\ p \in 0 .. Len(ps)
    BY <1>3, <1>4, <2>1, StateProperties
  <2> HIDE DEF n
  <2> QED BY <2>2 DEF Reaction, ReactionType
<1>6. \A q : Derives(r, asyncs, q) => q = n
  BY DEF Reaction, Derives
<1> HIDE DEF n, r
<1>7. NewReaction(r, Len(reactions) + 1, ps, reactions, shareds, asyncs, Waiting(queue), stack)
  BY <1>3, <1>5, <1>6 DEF NewReaction
<1>8. r.on \in DOMAIN ps
  BY <1>3, <1>5 DEF Promise
<1>9. QueueInv(queue') /\ Grown(Waiting(queue'), Waiting(queue))
      /\ Good(promises', reactions', shareds, asyncs, Waiting(queue'), stack)
  BY <1>1, <1>3, <1>7, <1>8, StateProperties, AttachStep DEF r
<1> QED BY <1>2, <1>9 DEF Kept

LEMMA CallAsyncKeeps ==
    ASSUME IInv, CallAsync
    PROVE  Kept /\ Grown(Waiting(queue'), Waiting(queue))
<1> DEFINE p == Len(promises) + 1
           n == Len(asyncs) + 1
           ps == Append(promises, NewPromise)
           as == Append(asyncs, p)
           c == Call("async", n, Plain)
<1>1. /\ promises' = ps /\ asyncs' = as /\ stack' = Append(stack, c)
      /\ UNCHANGED <<reactions, shareds, queue>> /\ Len(promises) < MaxPromises
  <2>1. Len(promises) < MaxPromises
    BY StateProperties, BoundsAssumption DEF CallAsync, RoomFor
  <2> QED BY <2>1 DEF CallAsync
<1>2. /\ Good(ps, reactions, shareds, asyncs, Waiting(queue), stack)
      /\ Free(p, ps, reactions, shareds, asyncs, Waiting(queue), stack)
  BY <1>1, StateProperties, NewPromiseKeeps
<1> HIDE DEF p, ps
<1>3. p \in DOMAIN ps
  BY <1>2 DEF Free
<1>4. /\ Good(ps, reactions, shareds, as, Waiting(queue), stack)
      /\ Free(p, ps, reactions, shareds, as, Waiting(queue), stack)
      /\ Len(asyncs) \in Nat /\ Len(as) = Len(asyncs) + 1 /\ as[Len(asyncs) + 1] = p
  BY <1>2, <1>3, NewAsyncKeeps
<1> HIDE DEF as
<1>5. n \in DOMAIN as /\ as[n] = p
  <2>1. DOMAIN as = 1 .. Len(as)
    BY <1>4, AsyncElements DEF Good
  <2> QED BY <1>4, <2>1
<1> HIDE DEF n
<1>6. Good(ps, reactions, shareds, as, Waiting(queue), Append(stack, c))
  BY <1>4, <1>5, StateProperties, PushBody
<1> QED BY <1>1, <1>6, StateProperties DEF Kept

LEMMA ProgramKeeps ==
    ASSUME IInv, Program
    PROVE  Kept /\ Grown(Waiting(queue'), Waiting(queue))
<1>1. CASE Interrupt
  BY <1>1, StateProperties DEF Interrupt, Kept
<1> QED BY <1>1, ConstructPromiseKeeps, CallResolvingFunctionKeeps, ThenKeeps, CallAsyncKeeps DEF Program

\* The program returns to the engine, and nothing more is done, or the
\* promise the call was about is settled.
LEMMA ReturnsKeeps ==
    ASSUME IInv, stack # <<>>, stack' = Below, UNCHANGED <<promises, reactions, shareds, asyncs, queue>>
    PROVE  Kept /\ Grown(Waiting(queue'), Waiting(queue))
BY StateProperties, TopProperties DEF Kept

LEMMA SettlesThroughKeeps ==
    ASSUME IInv, stack # <<>>, Top.at \in {"executor", "thenable", "adopt"},
           SettleThrough(queue, Below, Top.on, Plain, TRUE), UNCHANGED <<reactions, asyncs>>
    PROVE  Kept /\ Grown(Waiting(queue'), Waiting(queue))
<1>1. Top.on \in DOMAIN shareds /\ Plain \in 0 .. Object /\ QueueInv(queue)
      /\ Good(promises, reactions, shareds, asyncs, Waiting(queue), Below)
  BY StateProperties, TopProperties
<1>2. QueueInv(queue') /\ Grown(Waiting(queue'), Waiting(queue))
      /\ Good(promises', reactions, shareds', asyncs, Waiting(queue'), stack')
  BY <1>1, SettleThroughStep
<1> QED BY <1>2 DEF Kept

LEMMA DestinationKeeps ==
    ASSUME IInv, stack # <<>>, Top.at = "handler", NEW value \in 0 .. Object, NEW rejected,
           SettleDestination(queue, Below, Top.on, value, rejected), UNCHANGED <<reactions, shareds, asyncs>>
    PROVE  Kept /\ Grown(Waiting(queue'), Waiting(queue))
<1>1. /\ Good(promises, reactions, shareds, asyncs, Waiting(queue), Below) /\ QueueInv(queue)
      /\ Free(Top.on, promises, reactions, shareds, asyncs, Waiting(queue), Below)
  BY StateProperties, TopProperties
<1>2. QueueInv(queue') /\ Grown(Waiting(queue'), Waiting(queue))
      /\ Good(promises', reactions, shareds, asyncs, Waiting(queue'), stack')
  BY <1>1, SettleDestinationStep
<1> QED BY <1>2 DEF Kept

LEMMA SettlesKeeps ==
    ASSUME IInv, NEW p, Free(p, promises, reactions, shareds, asyncs, Waiting(queue), Below),
           stack # <<>>, stack' = Below, UNCHANGED <<reactions, shareds, asyncs>>,
           NEW state \in {"fulfilled", "rejected"}, NEW value \in 0 .. Object,
           Settle(queue, p, state, value)
    PROVE  Kept /\ Grown(Waiting(queue'), Waiting(queue))
<1>1. Good(promises, reactions, shareds, asyncs, Waiting(queue), Below) /\ QueueInv(queue)
  BY StateProperties, TopProperties
<1>2. QueueInv(queue') /\ Grown(Waiting(queue'), Waiting(queue))
      /\ Good(promises', reactions, shareds, asyncs, Waiting(queue'), Below)
  BY <1>1, SettleStep
<1> QED BY <1>2 DEF Kept

\* A thenable's job.
LEMMA ThenCallableKeeps ==
    ASSUME IInv, ThenCallable
    PROVE  Kept /\ Grown(Waiting(queue'), Waiting(queue))
<1> DEFINE p == Top.on
           value == Top.of
<1>1. stack # <<>> /\ Top.at = "then" /\ stack' = Below /\ UNCHANGED <<promises, reactions, shareds, asyncs>>
  BY DEF ThenCallable, Returns, TopIs
<1>2. PICK native \in BOOLEAN : /\ native => value \in DOMAIN promises
                                /\ queue' = Enqueued(queue, <<ThenableJob(p, value, native)>>)
  BY DEF ThenCallable, Promise
<1> HIDE DEF p, value
<1>3. /\ Good(promises, reactions, shareds, asyncs, Waiting(queue), Below) /\ QueueInv(queue)
      /\ Free(p, promises, reactions, shareds, asyncs, Waiting(queue), Below)
      /\ value \in 0 .. Object
  BY <1>1, StateProperties, TopProperties DEF p, value
<1> DEFINE job == ThenableJob(p, value, native)
<1>4. /\ <<job>> \in Seq(Job)
      /\ Good(promises, reactions, shareds, asyncs, Waiting(queue) \o <<job>>, Below)
  BY <1>2, <1>3, AddThenableKeeps
<1> HIDE DEF job
<1>5. QueueInv(queue') /\ Waiting(queue') = Waiting(queue) \o <<job>>
  BY <1>2, <1>3, <1>4, EnqueuedProperties DEF job
<1> QED BY <1>1, <1>4, <1>5 DEF Kept, Grown

\* The reaction a native `then` attaches.
LEMMA AdoptReturnsKeeps ==
    ASSUME IInv, AdoptReturns
    PROVE  Kept /\ Grown(Waiting(queue'), Waiting(queue))
<1> DEFINE p == Top.of
           s == Top.on
           r == Reaction("adopt", p, s, {"fulfilled", "rejected"})
<1>1. /\ stack # <<>> /\ Top.at = "adopt" /\ stack' = Below /\ UNCHANGED <<shareds, asyncs>>
      /\ Attach(promises, r)
  BY DEF AdoptReturns, Returns, TopIs
<1>2. /\ Good(promises, reactions, shareds, asyncs, Waiting(queue), Below) /\ QueueInv(queue)
      /\ s \in DOMAIN shareds /\ p \in DOMAIN promises
  BY <1>1, StateProperties, TopProperties
<1> HIDE DEF p, s
<1>3. /\ DOMAIN promises = 1 .. Len(promises) /\ Len(promises) \in Nat
      /\ DOMAIN shareds = 1 .. Len(shareds) /\ Len(shareds) \in Nat
  BY <1>2, PromiseElements, SharedElements DEF Good
<1>4. r \in ReactionType(Len(promises), Len(shareds), Len(asyncs)) /\ r.on = p /\ r.status = "waiting"
  <2>1. p \in 0 .. Len(promises) /\ s \in Nat /\ s \in 1 .. Len(shareds)
    BY <1>2, <1>3
  <2> QED BY <2>1 DEF Reaction, ReactionType
<1>5. \A q : ~Derives(r, asyncs, q)
  BY DEF Reaction, Derives
<1> HIDE DEF r
<1>6. NewReaction(r, Len(reactions) + 1, promises, reactions, shareds, asyncs, Waiting(queue), Below)
  BY <1>4, <1>5 DEF NewReaction
<1>7. r.on \in DOMAIN promises
  BY <1>2, <1>4
<1>8. QueueInv(queue') /\ Grown(Waiting(queue'), Waiting(queue))
      /\ Good(promises', reactions', shareds, asyncs, Waiting(queue'), Below)
  BY <1>1, <1>2, <1>6, <1>7, AttachStep
<1> QED BY <1>1, <1>8 DEF Kept

\* The reaction of an await.
LEMMA NewAwait ==
    ASSUME IInv, stack # <<>>, Top.at \in {"async", "constructor", "await"},
           NEW p \in 0 .. Len(promises)
    PROVE  LET r == Reaction("async", p, Top.on, {})
           IN  /\ NewReaction(r, Len(reactions) + 1, promises, reactions, shareds, asyncs, Waiting(queue), Below)
               /\ r.on = p
<1> DEFINE x == Top.on
           r == Reaction("async", p, x, {})
<1>1. /\ Good(promises, reactions, shareds, asyncs, Waiting(queue), Below)
      /\ x \in DOMAIN asyncs
      /\ Free(asyncs[x], promises, reactions, shareds, asyncs, Waiting(queue), Below)
  BY TopProperties
<1> HIDE DEF x
<1>2. DOMAIN asyncs = 1 .. Len(asyncs) /\ Len(asyncs) \in Nat
  BY <1>1, AsyncElements DEF Good
<1>3. r \in ReactionType(Len(promises), Len(shareds), Len(asyncs)) /\ r.on = p /\ r.status = "waiting"
  <2>1. x \in Nat /\ x \in 1 .. Len(asyncs)
    BY <1>1, <1>2
  <2> QED BY <2>1 DEF Reaction, ReactionType
<1>4. \A q : Derives(r, asyncs, q) => q = asyncs[x]
  BY DEF Reaction, Derives
<1> HIDE DEF r
<1>5. NewReaction(r, Len(reactions) + 1, promises, reactions, shareds, asyncs, Waiting(queue), Below)
  BY <1>1, <1>3, <1>4 DEF NewReaction
<1> QED BY <1>3, <1>5 DEF r, x

LEMMA AwaitAttachesKeeps ==
    ASSUME IInv, stack # <<>>, Top.at \in {"constructor", "await"},
           Attach(promises, Reaction("async", Top.of, Top.on, {})),
           stack' = Below, UNCHANGED <<shareds, asyncs>>
    PROVE  Kept /\ Grown(Waiting(queue'), Waiting(queue))
<1> DEFINE r == Reaction("async", Top.of, Top.on, {})
<1>1. /\ Good(promises, reactions, shareds, asyncs, Waiting(queue), Below) /\ QueueInv(queue)
      /\ Top.of \in DOMAIN promises /\ Top.of \in 0 .. Len(promises)
  BY StateProperties, TopProperties
<1>2. /\ NewReaction(r, Len(reactions) + 1, promises, reactions, shareds, asyncs, Waiting(queue), Below)
      /\ r.on \in DOMAIN promises
  BY <1>1, NewAwait
<1> HIDE DEF r
<1>3. Attach(promises, r)
  BY DEF r
<1>4. QueueInv(queue') /\ Grown(Waiting(queue'), Waiting(queue))
      /\ Good(promises', reactions', shareds, asyncs, Waiting(queue'), Below)
  BY <1>1, <1>2, <1>3, AttachStep
<1> QED BY <1>4 DEF Kept

LEMMA AsyncAwaitsPlainKeeps ==
    ASSUME IInv, AsyncAwaitsPlain
    PROVE  Kept /\ Grown(Waiting(queue'), Waiting(queue))
<1> DEFINE n == Len(reactions) + 1
           r == Reaction("async", 0, Top.on, {})
           job == ReactionJob(n, Plain, FALSE)
<1>1. /\ stack # <<>> /\ Top.at = "async" /\ stack' = Below /\ UNCHANGED <<promises, shareds, asyncs>>
      /\ reactions' = Append(reactions, r) /\ queue' = Enqueued(queue, <<job>>)
  BY DEF AsyncAwaitsPlain, Returns, TopIs
<1>2. /\ Good(promises, reactions, shareds, asyncs, Waiting(queue), Below) /\ QueueInv(queue)
      /\ Plain \in 0 .. Object
  BY <1>1, StateProperties, TopProperties
<1>3. NewReaction(r, n, promises, reactions, shareds, asyncs, Waiting(queue), Below) /\ r.on = 0
  <2>1. 0 \in 0 .. Len(promises)
    BY StateProperties
  <2> QED BY <1>1, <2>1, NewAwait
<1> HIDE DEF n, r
<1>4. /\ <<job>> \in Seq(Job)
      /\ Good(promises, Append(reactions, r), shareds, asyncs, Waiting(queue) \o <<job>>, Below)
  <2>1. \A rejected \in BOOLEAN :
           /\ <<ReactionJob(n, Plain, rejected)>> \in Seq(Job)
           /\ Good(promises, Append(reactions, r), shareds, asyncs,
                   Waiting(queue) \o <<ReactionJob(n, Plain, rejected)>>, Below)
    BY <1>2, <1>3, NewReactionJobKeeps
  <2> QED BY <2>1, Zenon
<1> HIDE DEF job
<1>5. QueueInv(queue') /\ Waiting(queue') = Waiting(queue) \o <<job>>
  BY <1>1, <1>2, <1>4, EnqueuedProperties
<1> QED BY <1>1, <1>4, <1>5 DEF Kept, Grown

\* The body waits for a call about it.
LEMMA BodyCallKeeps ==
    ASSUME IInv, stack # <<>>, Top.at \in {"async", "constructor", "await"},
           NEW at \in {"async", "constructor", "await"}, NEW of \in 0 .. Object,
           at # "async" => of \in DOMAIN promises,
           stack' = Append(Below, Call(at, Top.on, of)),
           UNCHANGED <<promises, reactions, shareds, asyncs, queue>>
    PROVE  Kept /\ Grown(Waiting(queue'), Waiting(queue))
<1> DEFINE x == Top.on
           c == Call(at, x, of)
<1>1. /\ Good(promises, reactions, shareds, asyncs, Waiting(queue), Below)
      /\ x \in DOMAIN asyncs
      /\ Free(asyncs[x], promises, reactions, shareds, asyncs, Waiting(queue), Below)
  BY TopProperties
<1>2. stack' = Append(Below, c)
  OBVIOUS
<1> HIDE DEF x
<1>3. Good(promises, reactions, shareds, asyncs, Waiting(queue), Append(Below, c))
  BY <1>1, PushBody
<1> QED BY <1>2, <1>3, StateProperties DEF Kept

\* It waits for the reading of a value's `then`, the value being resolved
\* into a new promise.
LEMMA AwaitsAsNewKeeps ==
    ASSUME IInv, stack # <<>>, Top.at \in {"async", "constructor"},
           NEW value \in 0 .. Object, AwaitsAsNew(value)
    PROVE  Kept /\ Grown(Waiting(queue'), Waiting(queue))
<1> DEFINE x == Top.on
           p == Len(promises) + 1
           ps == Append(promises, NewPromise)
           c == Call("await", x, p)
           d == Call("then", p, value)
           st == Append(Below, c)
<1>1. /\ promises' = ps /\ stack' = Append(st, d)
      /\ UNCHANGED <<reactions, shareds, asyncs, queue>> /\ Len(promises) < MaxPromises
  <2>1. Len(promises) < MaxPromises
    BY StateProperties, BoundsAssumption DEF AwaitsAsNew, RoomFor
  <2> QED BY <2>1 DEF AwaitsAsNew
<1>2. /\ Good(promises, reactions, shareds, asyncs, Waiting(queue), Below)
      /\ x \in DOMAIN asyncs /\ asyncs[x] \in DOMAIN promises
      /\ Free(asyncs[x], promises, reactions, shareds, asyncs, Waiting(queue), Below)
  BY TopProperties
<1>3. p \notin DOMAIN promises /\ p \in 0 .. Object
  BY <1>1, StateProperties, BoundsAssumption DEF Object
<1>4. /\ Good(ps, reactions, shareds, asyncs, Waiting(queue), Below)
      /\ Free(p, ps, reactions, shareds, asyncs, Waiting(queue), Below)
      /\ Free(asyncs[x], ps, reactions, shareds, asyncs, Waiting(queue), Below)
  BY <1>1, <1>2, NewPromiseKeeps
<1> HIDE DEF x, p, ps
<1>5. p \in DOMAIN ps /\ p # asyncs[x] /\ DOMAIN ps = 1 .. Len(ps) /\ Len(ps) \in Nat
  BY <1>2, <1>3, <1>4, PromiseElements DEF Free, Good
<1>6. /\ Good(ps, reactions, shareds, asyncs, Waiting(queue), st)
      /\ Free(p, ps, reactions, shareds, asyncs, Waiting(queue), st)
  BY <1>2, <1>3, <1>4, <1>5, PushBody
<1> HIDE DEF st
<1>7. Good(ps, reactions, shareds, asyncs, Waiting(queue), Append(st, d))
  <2>1. d \in CallType(Len(ps), Len(shareds), Len(asyncs))
    BY <1>5, DrivingCalls
  <2>2. \A q : Drives(d, asyncs, q) => q = p
    BY DEF Call, Drives
  <2> HIDE DEF d
  <2> QED BY <1>6, <2>1, <2>2, PushKeeps
<1> QED BY <1>1, <1>7, StateProperties DEF Kept

LEMMA ProgramEndsKeeps ==
    ASSUME IInv, ProgramEnds
    PROVE  Kept /\ Grown(Waiting(queue'), Waiting(queue))
<1> USE DEF Returns, Throws, TopIs
<1>1. CASE ScriptEnds
  <2>1. Good(promises, reactions, shareds, asyncs, Waiting(queue), <<>>)
    BY StateProperties, NoCallsKeeps
  <2> QED BY <1>1, <2>1, StateProperties DEF ScriptEnds, Kept
<1>2. CASE ExecutorReturns
  BY <1>2, ReturnsKeeps DEF ExecutorReturns
<1>3. CASE ExecutorThrows
  BY <1>3, SettlesThroughKeeps DEF ExecutorThrows
<1>4. CASE HandlerReturns
  <2>1. PICK value \in Values : SettleDestination(queue, Below, Top.on, value, FALSE)
    BY <1>4 DEF HandlerReturns
  <2>2. value \in 0 .. Object
    BY StateProperties
  <2> QED BY <1>4, <2>1, <2>2, DestinationKeeps DEF HandlerReturns
<1>5. CASE HandlerThrows
  BY <1>5, StateProperties, DestinationKeeps DEF HandlerThrows
<1>6. CASE ThenThrows
  <2>1. Free(Top.on, promises, reactions, shareds, asyncs, Waiting(queue), Below)
    BY <1>6, TopProperties DEF ThenThrows
  <2> QED BY <1>6, <2>1, StateProperties, SettlesKeeps DEF ThenThrows, Reject
<1>7. CASE ThenNotCallable
  <2>1. /\ Free(Top.on, promises, reactions, shareds, asyncs, Waiting(queue), Below)
        /\ Top.of \in 0 .. Object
    BY <1>7, TopProperties DEF ThenNotCallable
  <2> QED BY <1>7, <2>1, SettlesKeeps DEF ThenNotCallable, Fulfill
<1>8. CASE ThenableReturns
  BY <1>8, ReturnsKeeps DEF ThenableReturns
<1>9. CASE ThenableThrows
  BY <1>9, SettlesThroughKeeps DEF ThenableThrows
<1>10. CASE AsyncAwaitsPromise
  <2>1. PICK p \in Promise : stack' = Append(Below, Call("constructor", Top.on, p))
    BY <1>10 DEF AsyncAwaitsPromise
  <2>2. p \in 0 .. Object /\ p \in DOMAIN promises
    BY StateProperties DEF Values, Promise
  <2> QED BY <1>10, <2>1, <2>2, BodyCallKeeps DEF AsyncAwaitsPromise
<1>11. CASE AsyncAwaitsObject
  <2>1. Object \in 0 .. Object
    BY BoundsAssumption DEF Object
  <2> QED BY <1>11, <2>1, AwaitsAsNewKeeps DEF AsyncAwaitsObject
<1>12. CASE ConstructorForeign
  <2>1. Top.of \in 0 .. Object
    BY <1>12, TopProperties DEF ConstructorForeign
  <2> QED BY <1>12, <2>1, AwaitsAsNewKeeps DEF ConstructorForeign
<1>13. CASE ConstructorIntrinsic
  BY <1>13, AwaitAttachesKeeps DEF ConstructorIntrinsic
<1>14. CASE ConstructorThrows
  BY <1>14, StateProperties, BodyCallKeeps DEF ConstructorThrows
<1> QED BY <1>1, <1>2, <1>3, <1>4, <1>5, <1>6, <1>7, <1>8, <1>9, <1>10, <1>11, <1>12, <1>13, <1>14,
           ThenCallableKeeps, AdoptReturnsKeeps, AsyncAwaitsPlainKeeps DEF ProgramEnds

LEMMA BodyEndsKeeps ==
    ASSUME IInv, BodyEnds
    PROVE  Kept /\ Grown(Waiting(queue'), Waiting(queue))
<1> USE DEF Returns, Throws, TopIs
<1>0. BodyEnds => stack # <<>> /\ Top.at = "async"
  BY DEF BodyEnds, AsyncReturns, AsyncThrows
<1> DEFINE p == asyncs[Top.on]
<1>1. /\ Good(promises, reactions, shareds, asyncs, Waiting(queue), Below) /\ QueueInv(queue)
      /\ Free(p, promises, reactions, shareds, asyncs, Waiting(queue), Below)
  BY <1>0, StateProperties, TopProperties
<1> HIDE DEF p
<1>2. CASE AsyncReturns
  <2>1. PICK value \in Values : Resolve(queue, Below, p, value)
    BY <1>2 DEF AsyncReturns, p
  <2>2. value \in 0 .. Object
    BY StateProperties
  <2>3. QueueInv(queue') /\ Grown(Waiting(queue'), Waiting(queue))
        /\ Good(promises', reactions, shareds, asyncs, Waiting(queue'), stack')
    BY <1>1, <2>1, <2>2, ResolveStep
  <2> QED BY <1>2, <2>3 DEF AsyncReturns, Kept
<1>3. CASE AsyncThrows
  <2>1. Settle(queue, p, "rejected", Plain) /\ stack' = Below /\ UNCHANGED <<reactions, shareds, asyncs>>
    BY <1>3 DEF AsyncThrows, Reject, p
  <2> QED BY <1>0, <1>1, <2>1, StateProperties, SettlesKeeps
<1> QED BY <1>2, <1>3 DEF BodyEnds

LEMMA AwaitEndsKeeps ==
    ASSUME IInv, AwaitStopped \/ AwaitAttaches
    PROVE  Kept /\ Grown(Waiting(queue'), Waiting(queue))
<1> USE DEF Returns, Throws, TopIs, StillRaised
<1>1. CASE AwaitStopped
  <2> DEFINE p == asyncs[Top.on]
  <2>1. Free(p, promises, reactions, shareds, asyncs, Waiting(queue), Below)
    BY <1>1, TopProperties DEF AwaitStopped
  <2>2. Settle(queue, p, "rejected", Plain) /\ stack' = Below /\ UNCHANGED <<reactions, shareds, asyncs>>
        /\ stack # <<>>
    BY <1>1 DEF AwaitStopped, Reject
  <2> HIDE DEF p
  <2> QED BY <2>1, <2>2, StateProperties, SettlesKeeps
<1>2. CASE AwaitAttaches
  BY <1>2, AwaitAttachesKeeps DEF AwaitAttaches
<1> QED BY <1>1, <1>2

\* The next job is a reaction's, which is marked as run and derives nothing
\* any more.
LEMMA ReactionTaken ==
    ASSUME IInv, TakesJob("reaction")
    PROVE  LET job == NextJob(queue)
               w == Waiting(Taken(queue))
               r == reactions[job.on]
           IN  /\ Waiting(queue) # <<>> /\ job = Waiting(queue)[1] /\ w = Tail(Waiting(queue))
               /\ job.kind = "reaction" /\ job.value \in 0 .. Object /\ job.on \in DOMAIN reactions
               /\ QueueInv(Taken(queue)) /\ Ran(job.on)[job.on].status = "ran"
               /\ Good(promises, Ran(job.on), shareds, asyncs, w, stack)
               /\ r.kind = "handler" => Free(r.of, promises, Ran(job.on), shareds, asyncs, w, stack)
               /\ r.kind = "adopt" => r.of \in DOMAIN shareds
               /\ r.kind = "async" =>
                     /\ r.of \in DOMAIN asyncs
                     /\ Free(asyncs[r.of], promises, Ran(job.on), shareds, asyncs, w, stack)
<1> DEFINE w == Waiting(queue)
           job == NextJob(queue)
           n == job.on
           later == Tail(w)
           re == [reactions EXCEPT ![n].status = "ran"]
<1>1. QueueInv(queue) /\ Good(promises, reactions, shareds, asyncs, w, stack)
      /\ queue.cursor < queue.end /\ job.kind = "reaction"
  BY StateProperties DEF TakesJob
<1>2. /\ w # <<>> /\ job = w[1]
      /\ QueueInv(Taken(queue)) /\ Waiting(Taken(queue)) = later
  BY <1>1, TakenProperties
<1> HIDE DEF w, job
<1>3. /\ n \in DOMAIN reactions /\ reactions[n].status = "waiting"
      /\ Good(promises, re, shareds, asyncs, later, stack)
      /\ RanFrees(n, promises, reactions, re, shareds, asyncs, later, stack)
  BY <1>1, <1>2, TakeReactionKeeps
<1>4. job.value \in 0 .. Object
  <2>1. w \in Seq(Job)
    BY <1>1, WaitingProperties DEF w
  <2>2. 1 \in DOMAIN w
    BY <1>2, <2>1, TailElements
  <2>3. job \in Job
    BY <1>2, <2>1, <2>2, LenProperties
  <2> QED BY <2>3 DEF Job
<1>5. /\ reactions \in Seq(ReactionType(Len(promises), Len(shareds), Len(asyncs)))
      /\ \A x \in DOMAIN reactions : reactions[x] \in ReactionType(Len(promises), Len(shareds), Len(asyncs))
      /\ DOMAIN promises = 1 .. Len(promises) /\ DOMAIN shareds = 1 .. Len(shareds)
      /\ DOMAIN asyncs = 1 .. Len(asyncs)
      /\ \A x \in DOMAIN asyncs : asyncs[x] \in 1 .. Len(promises)
  BY <1>1, PromiseElements, ReactionElements, SharedElements, AsyncElements DEF Good
<1> DEFINE r == reactions[n]
<1> HIDE DEF n
<1>6. /\ r.kind = "handler" => r.of \in 1 .. Len(promises)
      /\ r.kind = "adopt" => r.of \in 1 .. Len(shareds)
      /\ r.kind = "async" => r.of \in 1 .. Len(asyncs)
  BY <1>3, <1>5 DEF ReactionType
<1>7. re[n].status = "ran"
  <2>1. Marked(re, reactions, n)
    BY <1>3, <1>5, RanElements
  <2> QED BY <1>3, <2>1 DEF Marked
<1> HIDE DEF re, later
<1>8. ASSUME r.kind = "handler" PROVE Free(r.of, promises, re, shareds, asyncs, later, stack)
  <2>1. Derives(r, asyncs, r.of) /\ r.of \in DOMAIN promises
    BY <1>3, <1>5, <1>6, <1>8 DEF Derives
  <2> HIDE DEF r
  <2> QED BY <1>3, <2>1 DEF RanFrees, r
<1>9. ASSUME r.kind = "async" PROVE Free(asyncs[r.of], promises, re, shareds, asyncs, later, stack)
  <2>1. Derives(r, asyncs, asyncs[r.of]) /\ asyncs[r.of] \in DOMAIN promises
    BY <1>3, <1>5, <1>6, <1>9 DEF Derives
  <2> QED BY <1>3, <2>1 DEF RanFrees
<1>10. re = Ran(n)
  BY DEF re, Ran
<1> QED BY <1>1, <1>2, <1>3, <1>4, <1>5, <1>6, <1>7, <1>8, <1>9, <1>10 DEF n, job, w, later

\* A job is taken; if it adds others it is a reaction's, which has run.
JobTaken ==
    /\ Waiting(queue) # <<>> /\ Grown(Waiting(queue'), Tail(Waiting(queue)))
    /\ \/ Waiting(queue') = Tail(Waiting(queue))
       \/ /\ Waiting(queue)[1].kind = "reaction"
          /\ reactions'[Waiting(queue)[1].on].status = "ran"

LEMMA RunHandlerKeeps == ASSUME IInv, RunHandler PROVE Kept /\ JobTaken
<1> DEFINE job == NextJob(queue)
           q == Taken(queue)
           w == Waiting(q)
           n == job.on
           re == Ran(n)
           of == reactions[n].of
<1>1. TakesJob("reaction") /\ reactions[n].kind = "handler" /\ reactions' = re
      /\ UNCHANGED <<shareds, asyncs>>
  BY DEF RunHandler
<1>2. /\ Waiting(queue) # <<>> /\ job = Waiting(queue)[1] /\ w = Tail(Waiting(queue))
      /\ job.kind = "reaction" /\ job.value \in 0 .. Object
      /\ QueueInv(q) /\ re[n].status = "ran"
      /\ Good(promises, re, shareds, asyncs, w, stack)
      /\ Free(of, promises, re, shareds, asyncs, w, stack)
  BY <1>1, ReactionTaken
<1>3. CASE /\ stack' = Append(stack, Call("handler", of, Plain))
           /\ queue' = q /\ UNCHANGED promises
  <2> DEFINE c == Call("handler", of, Plain)
  <2>1. c \in CallType(Len(promises), Len(shareds), Len(asyncs))
    <3>1. of \in 1 .. Len(promises) /\ Len(promises) \in Nat
      BY <1>2, StateProperties DEF Free
    <3> HIDE DEF of
    <3> QED BY <3>1, StateProperties, DrivingCalls
  <2>2. \A x : Drives(c, asyncs, x) => x = of
    BY DEF Call, Drives
  <2> HIDE DEF c, w, re, of
  <2>3. Good(promises, re, shareds, asyncs, w, Append(stack, c))
    BY <1>2, <2>1, <2>2, PushKeeps
  <2>4. Grown(w, w)
    BY <1>2, WaitingProperties, GrownBySelf DEF w
  <2> QED BY <1>1, <1>2, <1>3, <2>3, <2>4 DEF Kept, JobTaken, w, c, of, re
<1>4. CASE SettleDestination(q, stack, of, job.value, job.rejected)
  <2> DEFINE value == job.value
             rejected == job.rejected
  <2> HIDE DEF q, re, of, value, rejected
  <2>1. Good(promises, re, shareds, asyncs, Waiting(q), stack)
        /\ Free(of, promises, re, shareds, asyncs, Waiting(q), stack) /\ QueueInv(q)
        /\ value \in 0 .. Object /\ SettleDestination(q, stack, of, value, rejected)
    BY <1>2, <1>4 DEF value, rejected
  <2>2. QueueInv(queue') /\ Grown(Waiting(queue'), Waiting(q))
        /\ Good(promises', re, shareds, asyncs, Waiting(queue'), stack')
    BY <2>1, SettleDestinationStep
  <2> QED BY <1>1, <1>2, <2>2 DEF Kept, JobTaken
<1> QED BY <1>3, <1>4 DEF RunHandler

LEMMA RunAdoptKeeps == ASSUME IInv, RunAdopt PROVE Kept /\ JobTaken
<1> DEFINE job == NextJob(queue)
           q == Taken(queue)
           n == job.on
           re == Ran(n)
           s == reactions[n].of
           value == job.value
           rejected == job.rejected
<1>1. TakesJob("reaction") /\ reactions[n].kind = "adopt" /\ reactions' = re /\ asyncs' = asyncs
      /\ SettleThrough(q, stack, s, value, rejected)
  BY DEF RunAdopt
<1>2. /\ Waiting(queue) # <<>> /\ job = Waiting(queue)[1] /\ Waiting(q) = Tail(Waiting(queue))
      /\ job.kind = "reaction" /\ value \in 0 .. Object
      /\ QueueInv(q) /\ re[n].status = "ran"
      /\ Good(promises, re, shareds, asyncs, Waiting(q), stack)
      /\ s \in DOMAIN shareds
  BY <1>1, ReactionTaken
<1> HIDE DEF q, re, s, value, rejected
<1>3. QueueInv(queue') /\ Grown(Waiting(queue'), Waiting(q))
      /\ Good(promises', re, shareds', asyncs, Waiting(queue'), stack')
  BY <1>1, <1>2, SettleThroughStep
<1> QED BY <1>1, <1>2, <1>3 DEF Kept, JobTaken

LEMMA RunAsyncKeeps == ASSUME IInv, RunAsync PROVE Kept /\ JobTaken
<1> DEFINE job == NextJob(queue)
           q == Taken(queue)
           n == job.on
           re == Ran(n)
           x == reactions[n].of
           w == Waiting(q)
<1>1. /\ TakesJob("reaction") /\ reactions[n].kind = "async" /\ reactions' = re /\ queue' = q
      /\ stack' = Append(stack, Call("async", x, Plain)) /\ UNCHANGED <<promises, shareds, asyncs>>
  BY DEF RunAsync
<1>2. /\ Waiting(queue) # <<>> /\ job = Waiting(queue)[1] /\ w = Tail(Waiting(queue))
      /\ job.kind = "reaction" /\ QueueInv(q) /\ re[n].status = "ran"
      /\ Good(promises, re, shareds, asyncs, w, stack)
      /\ x \in DOMAIN asyncs /\ Free(asyncs[x], promises, re, shareds, asyncs, w, stack)
  BY <1>1, ReactionTaken
<1>3. Grown(w, w)
  BY <1>2, WaitingProperties, GrownBySelf
<1> HIDE DEF q, re, x, w
<1>4. Good(promises, re, shareds, asyncs, w, Append(stack, Call("async", x, Plain)))
  BY <1>2, StateProperties, PushBody
<1> QED BY <1>1, <1>2, <1>3, <1>4 DEF Kept, JobTaken, w

LEMMA RunThenableKeeps == ASSUME IInv, RunThenable PROVE Kept /\ JobTaken
<1> DEFINE job == NextJob(queue)
           q == Taken(queue)
           p == job.on
           w == Waiting(q)
           given == ~job.native
           at == IF job.native THEN "adopt" ELSE "thenable"
           s == Len(shareds) + 1
           sh == Append(shareds, NewShared(p, given))
<1>1. /\ queue.cursor < queue.end /\ job.kind = "thenable" /\ shareds' = sh /\ queue' = q
      /\ stack' = Append(stack, Call(at, s, job.value)) /\ UNCHANGED <<promises, reactions, asyncs>>
  BY DEF RunThenable, TakesJob
<1>2. QueueInv(queue) /\ Good(promises, reactions, shareds, asyncs, Waiting(queue), stack)
  BY StateProperties
<1>3. /\ Waiting(queue) # <<>> /\ job = Waiting(queue)[1] /\ QueueInv(q) /\ w = Tail(Waiting(queue))
  BY <1>1, <1>2, TakenProperties
<1>4. job \in JobType(Len(promises), Len(reactions))
  <2> DEFINE old == Waiting(queue)
  <2>1. old \in Seq(JobType(Len(promises), Len(reactions))) /\ old # <<>> /\ job = old[1]
    BY <1>2, <1>3, JobElements DEF Good
  <2> HIDE DEF old, job
  <2>2. 1 \in DOMAIN old
    BY <2>1, TailElements
  <2> QED BY <2>1, <2>2, LenProperties
<1>5. /\ Good(promises, reactions, shareds, asyncs, Tail(Waiting(queue)), stack)
      /\ Free(Waiting(queue)[1].on, promises, reactions, shareds, asyncs, Tail(Waiting(queue)), stack)
  BY <1>1, <1>2, <1>3, TakeThenableKeeps
<1>6. /\ Good(promises, reactions, shareds, asyncs, w, stack)
      /\ Free(p, promises, reactions, shareds, asyncs, w, stack)
  BY <1>3, <1>5
<1>7. Grown(w, w)
  BY <1>3, WaitingProperties, GrownBySelf
<1>8. given \in BOOLEAN /\ job.value \in 0 .. Object
      /\ (at = "adopt" => job.value \in DOMAIN promises) /\ at \in {"script", "executor", "thenable", "adopt"}
  <2>1. job.native \in BOOLEAN /\ job.value \in 0 .. Object /\ (job.native => job.value \in 1 .. Len(promises))
    BY <1>1, <1>4 DEF JobType, Job
  <2>2. DOMAIN promises = 1 .. Len(promises)
    BY StateProperties
  <2> HIDE DEF job
  <2> QED BY <2>1, <2>2
<1> HIDE DEF given, p, w, q
<1>9. /\ Good(promises, reactions, sh, asyncs, w, stack)
      /\ Len(shareds) \in Nat /\ Len(sh) = Len(shareds) + 1
  <2>1. \A g \in BOOLEAN :
           /\ Good(promises, reactions, Append(shareds, NewShared(p, g)), asyncs, w, stack)
           /\ Len(shareds) \in Nat /\ Len(Append(shareds, NewShared(p, g))) = Len(shareds) + 1
    BY <1>6, NewSharedKeeps
  <2> QED BY <1>8, <2>1, Zenon
<1> HIDE DEF sh
<1>10. s \in Nat /\ s \in DOMAIN sh
  <2>1. DOMAIN sh = 1 .. Len(sh)
    BY <1>9, SharedElements DEF Good
  <2> QED BY <1>9, <2>1
<1> DEFINE of == job.value
<1> HIDE DEF s, at, of
<1>11. Good(promises, reactions, sh, asyncs, w, Append(stack, Call(at, s, of)))
  BY <1>8, <1>9, <1>10, PushPlain DEF of
<1> QED BY <1>1, <1>3, <1>7, <1>11 DEF Kept, JobTaken, w, of

\* The end of an evaluation finds no job, or drops what a termination left.
LEMMA EvaluateEndsKeeps ==
    ASSUME IInv, EvaluateEnds
    PROVE  Kept /\ Waiting(queue') = <<>> /\ (terminating \/ Waiting(queue) = <<>>)
           /\ queue'.end = 0
<1> DEFINE D == Dropped
           w == Waiting(queue)
           re == [r \in DOMAIN reactions |->
                    IF r \in D THEN [reactions[r] EXCEPT !.status = "dropped"] ELSE reactions[r]]
<1>1. /\ reactions' = re /\ UNCHANGED <<promises, shareds, asyncs, stack>>
      /\ queue' = (IF terminating THEN EmptyQueue ELSE Drained(queue))
      /\ queue.cursor = queue.end \/ terminating
  BY DEF EvaluateEnds
<1>2. AreReactionsOf(D, w)
  BY DEF Dropped, JobsOfKind, AreReactionsOf
<1>3. QueueInv(queue) /\ Good(promises, reactions, shareds, asyncs, w, stack)
  BY StateProperties
<1> HIDE DEF D, w
<1>4. Good(promises, re, shareds, asyncs, <<>>, stack)
  BY <1>2, <1>3, DropKeeps
<1>5. QueueInv(queue') /\ Waiting(queue') = <<>> /\ queue'.end = 0
  BY <1>1, <1>3, EmptyQueueProperties, DrainedProperties DEF EmptyQueue
<1>6. terminating \/ w = <<>>
  BY <1>1, <1>3, NoneWaiting DEF w
<1> HIDE DEF re
<1>7. Kept
  BY <1>1, <1>4, <1>5 DEF Kept
<1> QED BY <1>5, <1>6, <1>7 DEF w

\* What a step does to the jobs that wait.
JobsMove ==
    \/ Grown(Waiting(queue'), Waiting(queue))
    \/ JobTaken
    \/ Waiting(queue') = <<>> /\ (terminating \/ Waiting(queue) = <<>>)

LEMMA NextKeeps == ASSUME IInv, Next PROVE Kept /\ JobsMove
<1>1. CASE Engine
  BY <1>1, AwaitEndsKeeps, RunHandlerKeeps, RunAdoptKeeps, RunAsyncKeeps, RunThenableKeeps,
     EvaluateEndsKeeps DEF Engine, JobsMove
<1>2. CASE Evaluate \/ Program \/ ProgramEnds \/ BodyEnds
  BY <1>2, EvaluateKeeps, ProgramKeeps, ProgramEndsKeeps, BodyEndsKeeps DEF JobsMove
<1> QED BY <1>1, <1>2 DEF Next

\* Who is in control.
Control ==
    /\ phase \in {"embedder", "script", "jobs"} /\ terminating \in BOOLEAN
    /\ phase = "embedder" => stack = <<>>

LEMMA NextControl == ASSUME Control, Next PROVE Control'
<1> USE DEF Control, Returns, Throws, TopIs, ProgramRuns, TakesJob
<1>1. CASE Evaluate
  BY <1>1 DEF Evaluate
<1>2. CASE Program
  BY <1>2 DEF Program, ConstructPromise, CallResolvingFunction, Then, CallAsync, Interrupt
<1>3. CASE ProgramEnds
  <2>1. CASE ScriptEnds \/ ExecutorReturns \/ ExecutorThrows \/ HandlerReturns \/ HandlerThrows
    BY <2>1 DEF ScriptEnds, ExecutorReturns, ExecutorThrows, HandlerReturns, HandlerThrows
  <2>2. CASE ThenThrows \/ ThenNotCallable \/ ThenCallable \/ ThenableReturns \/ AdoptReturns \/ ThenableThrows
    BY <2>2 DEF ThenThrows, ThenNotCallable, ThenCallable, ThenableReturns, AdoptReturns, ThenableThrows
  <2>3. CASE AsyncAwaitsPlain \/ AsyncAwaitsPromise \/ AsyncAwaitsObject
    BY <2>3 DEF AsyncAwaitsPlain, AsyncAwaitsPromise, AsyncAwaitsObject, AwaitsAsNew
  <2>4. CASE ConstructorForeign \/ ConstructorIntrinsic \/ ConstructorThrows
    BY <2>4 DEF ConstructorForeign, ConstructorIntrinsic, ConstructorThrows, AwaitsAsNew
  <2> QED BY <1>3, <2>1, <2>2, <2>3, <2>4 DEF ProgramEnds
<1>4. CASE BodyEnds
  BY <1>4 DEF BodyEnds, AsyncReturns, AsyncThrows
<1>5. CASE Engine
  BY <1>5 DEF Engine, AwaitStopped, AwaitAttaches, RunHandler, RunAdopt, RunAsync, RunThenable, EvaluateEnds
<1> QED BY <1>1, <1>2, <1>3, <1>4, <1>5 DEF Next

LEMMA InitEstablishes == Init => IInv
<1> SUFFICES ASSUME Init PROVE IInv
  OBVIOUS
<1>1. /\ promises = <<>> /\ reactions = <<>> /\ shareds = <<>> /\ asyncs = <<>> /\ stack = <<>>
      /\ queue = EmptyQueue /\ phase = "embedder" /\ terminating = FALSE
  BY DEF Init
<1>2. QueueInv(queue) /\ Waiting(queue) = <<>>
  BY <1>1, EmptyQueueProperties
<1> DEFINE none == <<>>
<1>3. (\A S : none \in Seq(S) /\ Len(none) = 0) /\ DOMAIN none = {}
  BY EmptySeq
<1> HIDE DEF none
<1>4. Typed(none, none, none, none, none, none)
  BY <1>3, BoundsAssumption DEF Typed
<1>5. Lines(none, none, none)
  BY <1>3 DEF Lines, OnRecord, InJob
<1>6. Sole(none, none, none, none, none, none)
  BY <1>3 DEF Sole
<1> QED BY <1>1, <1>2, <1>4, <1>5, <1>6 DEF IInv, Good, none

LEMMA StepPreserves == IInv /\ [Next]_vars => IInv'
<1> SUFFICES ASSUME IInv, [Next]_vars PROVE IInv'
  OBVIOUS
<1>1. CASE Next
  <2>1. Kept
    BY <1>1, NextKeeps
  <2>2. Control
    BY DEF IInv, Control
  <2>3. Control'
    BY <1>1, <2>2, NextControl
  <2> QED BY <2>1, <2>3 DEF Kept, Control, IInv
<1>2. CASE UNCHANGED vars
  BY <1>2 DEF vars, IInv
<1> QED BY <1>1, <1>2

\* The inductive invariant: the records have their types, a promise's
\* reactions stand in line, and each promise has one thing at most that can
\* settle it.
THEOREM Invariant == Spec => []IInv
BY InitEstablishes, StepPreserves, PTL DEF Spec
-----------------------------------------------------------------------------
(* The properties.                                                         *)

LEMMA SettlersSettle ==
    ASSUME IInv, NEW p, NEW x \in Settlers(p)
    PROVE  \E a \in Kind, n \in Nat :
              x = <<a, n>> /\ Settles(a, n, p, reactions, shareds, asyncs, Waiting(queue), stack)
<1> DEFINE w == Waiting(queue)
<1>1. /\ DOMAIN shareds \subseteq Nat /\ DOMAIN reactions \subseteq Nat
      /\ DOMAIN w \subseteq Nat /\ DOMAIN stack \subseteq Nat
  <2>1. Typed(promises, reactions, shareds, asyncs, w, stack)
    BY DEF IInv, Good
  <2> HIDE DEF w
  <2>2. /\ DOMAIN shareds = 1 .. Len(shareds) /\ Len(shareds) \in Nat
        /\ DOMAIN reactions = 1 .. Len(reactions) /\ Len(reactions) \in Nat
        /\ DOMAIN w = 1 .. Len(w) /\ Len(w) \in Nat
        /\ DOMAIN stack = 1 .. Len(stack) /\ Len(stack) \in Nat
    BY <2>1, SharedElements, ReactionElements, JobElements, CallElements
  <2> QED BY <2>2
<1> USE DEF Kind, Settles
<1>2. CASE \E s \in DOMAIN shareds : x = <<"pair", s>> /\ shareds[s].promise = p /\ ~shareds[s].called
  BY <1>1, <1>2 DEF PairSettles
<1>3. CASE \E i \in DOMAIN w : x = <<"job", i>> /\ w[i].kind = "thenable" /\ w[i].on = p
  BY <1>1, <1>3 DEF JobSettles
<1>4. CASE \E r \in DOMAIN reactions : x = <<"reaction", r>> /\ Derives(reactions[r], asyncs, p)
  BY <1>1, <1>4 DEF ReactionSettles
<1>5. CASE \E i \in DOMAIN stack : x = <<"call", i>> /\ Drives(stack[i], asyncs, p)
  BY <1>1, <1>5 DEF CallSettles
<1> QED BY <1>2, <1>3, <1>4, <1>5 DEF Settlers, JobsOfKind, Derives, Drives

LEMMA InvariantGivesOneSettler == IInv => OneSettler
<1> SUFFICES ASSUME IInv, NEW p \in Promise
             PROVE  /\ Cardinality(Settlers(p)) <= 1
                    /\ promises[p].state # "pending" => Settlers(p) = {}
  BY DEF OneSettler
<1>1. ASSUME NEW a \in Kind, NEW n \in Nat,
             Settles(a, n, p, reactions, shareds, asyncs, Waiting(queue), stack)
      PROVE  /\ promises[p].state = "pending"
             /\ \A b \in Kind, m \in Nat :
                   Settles(b, m, p, reactions, shareds, asyncs, Waiting(queue), stack) => a = b /\ n = m
  BY <1>1 DEF IInv, Good, Sole, Promise
<1>2. ASSUME NEW x \in Settlers(p), NEW y \in Settlers(p) PROVE x = y /\ promises[p].state = "pending"
  <2>1. PICK a \in Kind, n \in Nat :
           x = <<a, n>> /\ Settles(a, n, p, reactions, shareds, asyncs, Waiting(queue), stack)
    BY SettlersSettle
  <2>2. PICK b \in Kind, m \in Nat :
           y = <<b, m>> /\ Settles(b, m, p, reactions, shareds, asyncs, Waiting(queue), stack)
    BY SettlersSettle
  <2> QED BY <1>1, <2>1, <2>2
<1>3. CASE Settlers(p) = {}
  BY <1>3, FS_EmptySet
<1>4. CASE Settlers(p) # {}
  <2>1. PICK x : x \in Settlers(p)
    BY <1>4
  <2>2. Settlers(p) = {x} /\ promises[p].state = "pending"
    BY <1>2, <2>1
  <2>3. Cardinality({x}) = 1
    BY FS_Singleton
  <2> QED BY <2>2, <2>3
<1> QED BY <1>3, <1>4

\* A promise is settled by one thing, and once: while it is pending no more
\* than one pair of functions, job, reaction or call can settle it, and then
\* none can.
THEOREM OneSettlerAlways == Spec => []OneSettler
BY Invariant, InvariantGivesOneSettler, PTL

LEMMA InvariantGivesOrder == IInv => ReactionsRunInOrder
<1> SUFFICES ASSUME IInv, NEW p \in Promise
             PROVE  LET jobs == Waiting(queue) waiting == promises[p].waiting
                    IN  /\ \A i, j \in ReactionJobsOf(p) : i < j => jobs[i].on < jobs[j].on
                        /\ \A i, j \in DOMAIN waiting : i < j => waiting[i] < waiting[j]
                        /\ \A i \in ReactionJobsOf(p), j \in DOMAIN waiting : jobs[i].on < waiting[j]
                        /\ \A r \in {r \in DOMAIN reactions : reactions[r].on = p} :
                              /\ reactions[r].status = "waiting" <=> r \in Line(p)
                              /\ reactions[r].status = "ran" => \A later \in Line(p) : r < later
                        /\ \A i \in ReactionJobsOf(p) :
                              /\ jobs[i].value = promises[p].result
                              /\ promises[p].state = IF jobs[i].rejected THEN "rejected" ELSE "fulfilled"
  BY DEF ReactionsRunInOrder
<1> DEFINE w == Waiting(queue)
           waiting == promises[p].waiting
<1>1. Lines(promises, reactions, w) /\ Typed(promises, reactions, shareds, asyncs, w, stack)
  BY DEF IInv, Good
<1>2. p \in DOMAIN promises /\ p # 0
  <2>1. \A n : p \in 1 .. n => p # 0
    OBVIOUS
  <2>2. DOMAIN promises = 1 .. Len(promises)
    BY StateProperties
  <2> QED BY <2>1, <2>2 DEF Promise
<1>3. \A i : i \in ReactionJobsOf(p) <=> i \in DOMAIN w /\ w[i].kind = "reaction" /\ reactions[w[i].on].on = p
  BY DEF ReactionJobsOf, JobsOfKind
<1>4. \A r : r \in Line(p) <=> (\E i \in ReactionJobsOf(p) : w[i].on = r) \/ \E k \in DOMAIN waiting : waiting[k] = r
  BY DEF Line, Range
<1> HIDE DEF w
<1>5. \A i \in DOMAIN w : w[i].kind = "reaction" => w[i].on \in DOMAIN reactions
  BY <1>1, JobElements, ReactionElements DEF JobType
<1>6. /\ \A i \in ReactionJobsOf(p) :
            /\ w[i].on \in DOMAIN reactions /\ reactions[w[i].on].status = "waiting"
            /\ w[i].value = promises[p].result
            /\ promises[p].state = IF w[i].rejected THEN "rejected" ELSE "fulfilled"
      /\ \A i, j \in ReactionJobsOf(p) : i < j => w[i].on < w[j].on
  BY <1>1, <1>2, <1>3, <1>5 DEF Lines, InJob
<1>7. /\ \A k \in DOMAIN waiting :
            waiting[k] \in DOMAIN reactions /\ reactions[waiting[k]].on = p
            /\ reactions[waiting[k]].status = "waiting"
      /\ \A k, l \in DOMAIN waiting : k < l => waiting[k] < waiting[l]
      /\ promises[p].state # "pending" => waiting = <<>>
  BY <1>1, <1>2 DEF Lines, OnRecord
<1>8. ASSUME NEW i \in ReactionJobsOf(p), NEW k \in DOMAIN waiting PROVE FALSE
  <2>1. promises[p].state # "pending"
    BY <1>6
  <2>2. DOMAIN <<>> = {}
    OBVIOUS
  <2> QED BY <1>7, <2>1, <2>2
<1>9. ASSUME NEW r \in DOMAIN reactions, reactions[r].on = p
      PROVE  /\ reactions[r].status = "waiting" <=> r \in Line(p)
             /\ reactions[r].status = "ran" => \A later \in Line(p) : r < later
  <2>1. reactions[r].status = "waiting" => r \in Line(p)
    BY <1>1, <1>2, <1>3, <1>4, <1>9 DEF Lines, Stands
  <2>2. \A s \in Line(p) : s \in DOMAIN reactions /\ reactions[s].status = "waiting" /\ reactions[s].on = p
    BY <1>3, <1>4, <1>6, <1>7
  <2>3. reactions[r].status = "ran" => \A later \in Line(p) : r < later
    BY <1>1, <1>2, <1>9, <2>2 DEF Lines
  <2> QED BY <2>1, <2>2, <2>3
<1> QED BY <1>6, <1>7, <1>8, <1>9 DEF w

\* A promise's reactions run in the order they were attached, each once,
\* with the promise's outcome: those that have not run stand in line on its
\* record or in jobs, behind all that have.
THEOREM OrderAlways == Spec => []ReactionsRunInOrder
BY Invariant, InvariantGivesOrder, PTL

\* What a step may make of the promises there are while it is stopping.
OnlyRejected == \A p \in Promise : promises'[p].state \in {promises[p].state, "rejected"}

LEMMA RejectOnlyRejects ==
    ASSUME NEW q, NEW p, Reject(q, p)
    PROVE  OnlyRejected
<1>1. promises' = [promises EXCEPT ![p] = SettledRecord(p, "rejected", Plain)]
  BY DEF Reject, Settle
<1>2. SettledRecord(p, "rejected", Plain).state \in {promises[p].state, "rejected"}
  BY DEF SettledRecord
<1> QED BY <1>1, <1>2 DEF OnlyRejected, Promise

LEMMA NothingRejected == UNCHANGED promises => OnlyRejected
BY DEF OnlyRejected

\* An unwinding call is left, and its promise at most rejected.
LEMMA RejectionsLeave ==
    ASSUME NEW q, NEW st, NEW s, NEW p
    PROVE  /\ SettleThrough(q, st, s, Plain, TRUE) => stack' = st /\ OnlyRejected
           /\ SettleDestination(q, st, p, Plain, TRUE) => stack' = st /\ OnlyRejected
           /\ Reject(q, p) => OnlyRejected
<1>1. \A k : Reject(q, k) => OnlyRejected
  BY RejectOnlyRejects
<1>2. \A k : SettleDestination(q, st, k, Plain, TRUE) => stack' = st /\ OnlyRejected
  BY <1>1 DEF SettleDestination
<1>3. SettleThrough(q, st, s, Plain, TRUE) => stack' = st /\ OnlyRejected
  BY <1>2, NothingRejected DEF SettleThrough
<1> QED BY <1>1, <1>2, <1>3

LEMMA StoppedStep ==
    ASSUME IInv, Next
    PROVE  /\ terminating =>
                /\ Len(stack') < Len(stack) \/ phase' # phase
                /\ DOMAIN reactions' = DOMAIN reactions
                /\ OnlyRejected
           /\ phase' = "embedder" => queue'.end = 0 /\ ~terminating'
<1>1. stack # <<>> => Len(Below) < Len(stack) /\ Len(stack) > 0 /\ phase # "embedder"
  <2>1. ASSUME stack # <<>> PROVE Len(Below) < Len(stack) /\ Len(stack) > 0
    <3>1. stack \in Seq(CallType(Len(promises), Len(shareds), Len(asyncs)))
      BY CallElements DEF IInv, Good
    <3>2. Len(stack) > 0
      <4> DEFINE T == CallType(Len(promises), Len(shareds), Len(asyncs))
      <4> HIDE DEF T
      <4>1. stack \in Seq(T)
        BY <3>1 DEF T
      <4> QED BY <2>1, <4>1, EmptySeq
    <3> QED BY <2>1, <3>2, TopProperties
  <2>2. stack # <<>> => phase # "embedder"
    BY DEF IInv
  <2> QED BY <2>1, <2>2
<1>2. Len(<<>>) = 0
  OBVIOUS
<1> USE DEF Returns, Throws, TopIs, ProgramRuns, TakesJob, StillRaised
<1>3. CASE Evaluate
  BY <1>3, NothingRejected DEF Evaluate
<1>4. CASE Program
  BY <1>1, <1>4 DEF Program, ConstructPromise, CallResolvingFunction, Then, CallAsync, Interrupt
<1>5. CASE ProgramEnds
  <2>1. CASE ScriptEnds
    BY <1>1, <1>2, <2>1, NothingRejected DEF ScriptEnds
  <2>2. CASE ExecutorThrows \/ HandlerThrows \/ ThenThrows \/ ThenableThrows
    BY <1>1, <2>2, RejectionsLeave DEF ExecutorThrows, HandlerThrows, ThenThrows, ThenableThrows
  <2>3. CASE ExecutorReturns \/ HandlerReturns \/ ThenNotCallable \/ ThenCallable \/ ThenableReturns \/ AdoptReturns
    BY <1>1, <2>3 DEF ExecutorReturns, HandlerReturns, ThenNotCallable, ThenCallable, ThenableReturns, AdoptReturns
  <2>4. CASE AsyncAwaitsPlain \/ AsyncAwaitsPromise \/ AsyncAwaitsObject
    BY <1>1, <2>4 DEF AsyncAwaitsPlain, AsyncAwaitsPromise, AsyncAwaitsObject, AwaitsAsNew
  <2>5. CASE ConstructorForeign \/ ConstructorIntrinsic \/ ConstructorThrows
    BY <1>1, <2>5 DEF ConstructorForeign, ConstructorIntrinsic, ConstructorThrows, AwaitsAsNew
  <2> QED BY <1>5, <2>1, <2>2, <2>3, <2>4, <2>5 DEF ProgramEnds
<1>6. CASE BodyEnds
  BY <1>1, <1>6, RejectOnlyRejects DEF BodyEnds, AsyncReturns, AsyncThrows
<1>7. CASE AwaitStopped \/ AwaitAttaches
  BY <1>1, <1>7, RejectOnlyRejects DEF AwaitStopped, AwaitAttaches
<1>8. CASE RunHandler \/ RunAdopt \/ RunAsync \/ RunThenable
  BY <1>8 DEF RunHandler, RunAdopt, RunAsync, RunThenable
<1>9. CASE EvaluateEnds
  <2>1. queue'.end = 0
    BY <1>9, EvaluateEndsKeeps
  <2> QED BY <1>9, <2>1, NothingRejected DEF EvaluateEnds
<1> QED BY <1>3, <1>4, <1>5, <1>6, <1>7, <1>8, <1>9 DEF Next, Engine

\* Once the interrupt handler has said stop, the calls under way are only
\* left and promises only rejected: no code of the program's is entered, no
\* job is begun, no reaction attached and no promise fulfilled until the
\* embedder has control, and it then finds no job and nothing stopped.
THEOREM NothingEntered == Spec => NothingEnteredOnceStopped
<1>1. IInv /\ [Next]_vars =>
        [/\ terminating =>
              /\ Len(stack') < Len(stack) \/ phase' # phase
              /\ DOMAIN reactions' = DOMAIN reactions
              /\ \A p \in Promise : promises'[p].state \in {promises[p].state, "rejected"}
         /\ phase' = "embedder" => queue'.end = 0 /\ ~terminating']_vars
  BY StoppedStep DEF OnlyRejected
<1> QED BY <1>1, Invariant, PTL DEF Spec, NothingEnteredOnceStopped

\* No job waits twice.
Apart(w) == \A i, j \in DOMAIN w : i < j => w[i] # w[j]
LEMMA JobsApart ==
    ASSUME NEW pr, NEW re, NEW sh, NEW as, NEW w, NEW st, Good(pr, re, sh, as, w, st)
    PROVE  Apart(w)
<1> SUFFICES ASSUME NEW i \in DOMAIN w, NEW j \in DOMAIN w, i < j, w[i] = w[j] PROVE FALSE
  BY DEF Apart
<1>0. Typed(pr, re, sh, as, w, st) /\ Sole(pr, re, sh, as, w, st) /\ Lines(pr, re, w)
  BY DEF Good
<1>1. /\ DOMAIN w = 1 .. Len(w) /\ Len(w) \in Nat /\ w[i] \in JobType(Len(pr), Len(re))
      /\ DOMAIN pr = 1 .. Len(pr)
  BY <1>0, PromiseElements, JobElements
<1>2. CASE w[i].kind = "reaction"
  BY <1>0, <1>2 DEF Lines, InJob
<1>3. CASE w[i].kind = "thenable"
  <2> DEFINE p == w[i].on
  <2>1. p \in DOMAIN pr /\ i \in Nat /\ j \in Nat
    BY <1>1, <1>3 DEF JobType
  <2>2. /\ Settles("job", i, p, re, sh, as, w, st) /\ Settles("job", j, p, re, sh, as, w, st)
        /\ "job" \in Kind
    BY <1>3 DEF Settles, JobSettles, Kind
  <2> HIDE DEF p
  <2>3. i = j
    BY <1>0, <2>1, <2>2 DEF Sole
  <2> QED BY <2>1, <2>3
<1> QED BY <1>1, <1>2, <1>3 DEF JobType, Job

\* Jobs that come behind others are none of those.
LEMMA GrownExtends ==
    ASSUME NEW w \in Seq(Job), NEW later, Grown(later, w), Apart(later)
    PROVE  /\ later \in Seq(Job) /\ Len(later) \in Nat /\ Len(w) \in Nat /\ Len(later) >= Len(w)
           /\ DOMAIN later = 1 .. Len(later) /\ DOMAIN w = 1 .. Len(w)
           /\ \A i \in 1 .. Len(w) : i \in DOMAIN later /\ later[i] = w[i]
           /\ \A i \in DOMAIN later : i > Len(w) => later[i] \in Job /\ \A k \in DOMAIN w : w[k] # later[i]
<1>1. PICK added \in Seq(Job) : later = w \o added
  BY DEF Grown
<1>2. /\ later \in Seq(Job) /\ Len(later) = Len(w) + Len(added)
      /\ \A i \in 1 .. Len(w) + Len(added) : later[i] = IF i <= Len(w) THEN w[i] ELSE added[i - Len(w)]
  BY <1>1, ConcatProperties
<1>3. /\ Len(w) \in Nat /\ Len(added) \in Nat /\ DOMAIN later = 1 .. Len(later)
      /\ DOMAIN w = 1 .. Len(w) /\ \A i \in DOMAIN later : later[i] \in Job
  BY <1>2, LenProperties
<1>4. \A i \in 1 .. Len(w) : i \in DOMAIN later /\ later[i] = w[i]
  BY <1>2, <1>3
<1>5. ASSUME NEW i \in DOMAIN later, i > Len(w), NEW k \in DOMAIN w PROVE w[k] # later[i]
  <2>1. k \in DOMAIN later /\ later[k] = w[k] /\ k < i
    BY <1>3, <1>4, <1>5
  <2> QED BY <2>1 DEF Apart
<1> QED BY <1>2, <1>3, <1>4, <1>5

LEMMA GrownAdds ==
    ASSUME IInv, Kept, Grown(Waiting(queue'), Waiting(queue))
    PROVE  Fifo!Add
<1> DEFINE w == Waiting(queue)
           later == Waiting(queue')
<1>1. w \in Seq(Job) /\ Apart(later) /\ Grown(later, w)
  BY StateProperties, WaitingProperties, JobsApart DEF Kept
<1> HIDE DEF w, later
<1>2. /\ Len(later) >= Len(w) /\ Len(w) \in Nat /\ DOMAIN later = 1 .. Len(later) /\ DOMAIN w = 1 .. Len(w)
      /\ Len(later) \in Nat
      /\ \A i \in 1 .. Len(w) : i \in DOMAIN later /\ later[i] = w[i]
      /\ \A i \in DOMAIN later : i > Len(w) => later[i] \in Job /\ \A k \in DOMAIN w : w[k] # later[i]
  BY <1>1, GrownExtends
<1>3. ASSUME NEW i \in DOMAIN later
      PROVE  IF i <= Len(w) THEN later[i] = w[i]
             ELSE later[i] \in Job /\ \A k \in DOMAIN w : w[k] # later[i]
  BY <1>2
<1> QED BY <1>2, <1>3 DEF Fifo!Add, Fifo!Extends, Fifo!Comes, w, later

LEMMA TakenTakes ==
    ASSUME IInv, Kept, JobTaken
    PROVE  Fifo!Take
<1> DEFINE w == Waiting(queue)
           later == Waiting(queue')
           rest == Tail(w)
<1>1. w \in Seq(Job) /\ Apart(later) /\ w # <<>> /\ Grown(later, rest)
      /\ (later = rest \/ (w[1].kind = "reaction" /\ reactions'[w[1].on].status = "ran"))
      /\ InJob(promises', reactions', later)
  <2>1. w \in Seq(Job) /\ Apart(later)
    BY StateProperties, WaitingProperties, JobsApart DEF Kept
  <2>2. InJob(promises', reactions', later)
    <3>1. Good(promises', reactions', shareds', asyncs', later, stack')
      BY DEF Kept
    <3> HIDE DEF later
    <3> QED BY <3>1 DEF Good, Lines
  <2>3. w # <<>> /\ Grown(later, rest)
        /\ (later = rest \/ (w[1].kind = "reaction" /\ reactions'[w[1].on].status = "ran"))
    BY DEF JobTaken
  <2> HIDE DEF w, later, rest
  <2> QED BY <2>1, <2>2, <2>3
<1> HIDE DEF w, later
<1>2. /\ rest \in Seq(Job)
      /\ \A i \in DOMAIN w : i > 1 => i - 1 \in DOMAIN rest /\ rest[i - 1] = w[i]
  BY <1>1, TailElements
<1> HIDE DEF rest
<1>3. /\ Len(later) >= Len(rest) /\ Len(rest) \in Nat /\ DOMAIN later = 1 .. Len(later)
      /\ DOMAIN rest = 1 .. Len(rest) /\ Len(later) \in Nat
      /\ \A i \in 1 .. Len(rest) : i \in DOMAIN later /\ later[i] = rest[i]
      /\ \A i \in DOMAIN later : i > Len(rest) => later[i] \in Job /\ \A k \in DOMAIN rest : rest[k] # later[i]
  BY <1>1, <1>2, GrownExtends
<1>4. ASSUME NEW i \in DOMAIN later, ~(i <= Len(rest)), NEW k \in DOMAIN w PROVE w[k] # later[i]
  <2>1. k \in 1 .. Len(w) /\ Len(w) \in Nat
    BY <1>1, LenProperties
  <2>2. i > Len(rest)
    BY <1>3, <1>4
  <2>3. CASE k > 1
    BY <1>2, <1>3, <2>2, <2>3
  <2>4. CASE ~(k > 1)
    <3>1. k = 1
      BY <2>1, <2>4
    <3>2. later # rest
      BY <1>3, <1>4
    <3>3. w[1].kind = "reaction" /\ reactions'[w[1].on].status = "ran"
      BY <1>1, <3>2
    <3> QED BY <1>1, <3>1, <3>3 DEF InJob
  <2> QED BY <2>3, <2>4
<1>5. ASSUME NEW i \in DOMAIN later
      PROVE  IF i <= Len(rest) THEN later[i] = rest[i]
             ELSE later[i] \in Job /\ \A k \in DOMAIN w : w[k] # later[i]
  BY <1>3, <1>4
<1> QED BY <1>1, <1>3, <1>5 DEF Fifo!Take, Fifo!Extends, Fifo!Comes, w, later, rest

LEMMA NextImplements == IInv /\ [Next]_vars => [Fifo!Next]_<<Waiting(queue), terminating>>
<1> SUFFICES ASSUME IInv, [Next]_vars PROVE [Fifo!Next]_<<Waiting(queue), terminating>>
  OBVIOUS
<1>1. CASE Next
  <2>1. Kept /\ JobsMove
    BY <1>1, NextKeeps
  <2>2. terminating' \in BOOLEAN
    BY StepPreserves DEF IInv
  <2>3. CASE Grown(Waiting(queue'), Waiting(queue))
    BY <2>1, <2>2, <2>3, GrownAdds DEF Fifo!Next
  <2>4. CASE JobTaken
    BY <2>1, <2>2, <2>4, TakenTakes DEF Fifo!Next
  <2>5. CASE Waiting(queue') = <<>> /\ terminating
    BY <2>2, <2>5 DEF Fifo!Next, Fifo!Drop
  <2>6. CASE Waiting(queue') = <<>> /\ Waiting(queue) = <<>>
    <3>1. Grown(Waiting(queue'), Waiting(queue))
      BY <2>6, StateProperties
    <3> QED BY <2>1, <2>2, <3>1, GrownAdds DEF Fifo!Next
  <2> QED BY <2>1, <2>3, <2>4, <2>5, <2>6 DEF JobsMove
<1>2. CASE UNCHANGED vars
  BY <1>2 DEF vars
<1> QED BY <1>1, <1>2

LEMMA InitImplements == Init => Fifo!Init
BY EmptyQueueProperties DEF Init, Fifo!Init

\* The job queue is a first-in first-out queue through its compactions: a
\* job leaves it once, in the order it came, and none is lost but when the
\* evaluation is being stopped.
THEOREM Implementation == Spec => ImplementsFifo
BY Invariant, InitImplements, NextImplements, PTL DEF Spec, ImplementsFifo, Fifo!Spec
=============================================================================
