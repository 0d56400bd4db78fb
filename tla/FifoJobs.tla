------------------------------ MODULE FifoJobs ------------------------------
(***************************************************************************)
(* What the job queue promises, whatever its storage does: jobs leave it   *)
(* one at a time in the order they came, none twice, and none is lost save *)
(* when the evaluation they belong to is being stopped.                    *)
(***************************************************************************)
EXTENDS Naturals, Sequences

CONSTANT Job    \* the jobs there can be

VARIABLES
    waiting,    \* the jobs not taken yet, the next first
    stopping    \* the evaluation is being stopped

Init == waiting = <<>> /\ stopping = FALSE

\* Some jobs, or none, come behind those that are there, and none of them
\* is one that is waiting already.
Comes(job) == job \in Job /\ \A i \in DOMAIN waiting : waiting[i] # job
Extends(later, earlier) ==
    /\ Len(later) >= Len(earlier)
    /\ \A i \in DOMAIN later :
          IF i <= Len(earlier) THEN later[i] = earlier[i] ELSE Comes(later[i])

Add == Extends(waiting', waiting)

\* Running a job may add others at once.
Take == waiting # <<>> /\ Extends(waiting', Tail(waiting))

Drop == stopping /\ waiting' = <<>>

Next ==
    /\ Add \/ Take \/ Drop
    /\ stopping' \in BOOLEAN

Spec == Init /\ [][Next]_<<waiting, stopping>>
=============================================================================
