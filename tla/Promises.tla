------------------------------ MODULE Promises ------------------------------
(***************************************************************************)
(* Promises, async functions and the jobs that drive them (engine/         *)
(* runtime.zs, engine/builtins/promise.zs), through any number of          *)
(* evaluations, any of which the embedder's interrupt handler may stop.    *)
(*                                                                         *)
(* The engine calls the program from its middle, and goes on when the      *)
(* program returns: stack has the calls under way, the innermost last.     *)
(* The program may do anything a program can in every one of them: make    *)
(* promises, call `then`, call the resolving functions it was given, call  *)
(* async functions, return or throw.                                       *)
(*                                                                         *)
(* A value is Plain (no object), Object (an object of the program's, which *)
(* may have any `then`) or a promise, by its number.                       *)
(***************************************************************************)
EXTENDS JobQueue, FiniteSets, Functions

CONSTANTS
    MaxPromises,    \* bounds on what the program does: promises made,
    MaxReactions,   \* reactions attached,
    MaxShareds,     \* pairs of resolving functions,
    MaxMade,        \* promises and pairs together,
    MaxAsyncs,      \* calls of async functions,
    MaxEvals        \* evaluations

ASSUME BoundsAssumption ==
    /\ MaxPromises \in Nat /\ MaxReactions \in Nat /\ MaxShareds \in Nat
    /\ MaxMade \in Nat /\ MaxAsyncs \in Nat /\ MaxEvals \in Nat

VARIABLES
    promises,       \* the promises' records, by number
    reactions,      \* the reactions attached, in order
    shareds,        \* the records the pairs of resolving functions share
    asyncs,         \* the promises of the async functions called
    queue,          \* the job queue
    phase,          \* who is in control: the embedder, a script or the jobs
    stack,          \* the calls under way
    terminating,    \* the interrupt handler said to stop
    evals           \* evaluations so far

vars == <<promises, reactions, shareds, asyncs, queue, phase, stack, terminating, evals>>

Plain == 0
Object == MaxPromises + 1
Promise == DOMAIN promises
Values == {Plain, Object} \union Promise

\* newPromise.
NewPromise == [state |-> "pending", result |-> Plain, waiting |-> <<>>]

\* newResolvingShared; its functions are given to the program, or to a
\* native `then` the engine calls.
NewShared(p, given) == [promise |-> p, called |-> FALSE, given |-> given]

\* A reaction of promise `on`; `of` is the promise derived (handler), the
\* shared record (adopt: the reaction a native `then` attaches for a pair of
\* resolving functions), or the async function.  Its status is followed only
\* to say what becomes of it.
Reaction(kind, on, of, handlers) ==
    [kind |-> kind, on |-> on, of |-> of, handlers |-> handlers, status |-> "waiting"]

ReactionJob(r, value, rejected) ==
    [kind |-> "reaction", on |-> r, value |-> value, rejected |-> rejected, native |-> FALSE]
ThenableJob(p, thenable, native) ==
    [kind |-> "thenable", on |-> p, value |-> thenable, rejected |-> FALSE, native |-> native]

\* A call under way: `on` is what goes on when it returns, `of` the value it
\* is about.
Call(at, on, of) == [at |-> at, on |-> on, of |-> of]

Init ==
    /\ promises = <<>> /\ reactions = <<>> /\ shareds = <<>> /\ asyncs = <<>>
    /\ queue = EmptyQueue
    /\ phase = "embedder" /\ stack = <<>>
    /\ terminating = FALSE /\ evals = 0

Top == stack[Len(stack)]
TopIs(at) == stack # <<>> /\ Top.at = at
Below == SubSeq(stack, 1, Len(stack) - 1)

\* Every call is the program's but promiseResolveValue's own, which waits
\* for the reading of a value's `then`.
ProgramRuns == stack # <<>> /\ Top.at # "await" /\ ~terminating

\* The places in the queue of the jobs of each kind.
JobsOfKind(kind) == {i \in DOMAIN Waiting(queue) : Waiting(queue)[i].kind = kind}
RoomFor(morePromises, moreShareds) ==
    LET made == Len(promises) + morePromises
        pairs == Len(shareds) + Cardinality(JobsOfKind("thenable")) + moreShareds
    IN  made <= MaxPromises /\ pairs <= MaxShareds /\ made + pairs <= MaxMade
-----------------------------------------------------------------------------
(* Settling *)

\* settlePromise: the record, and a job for every reaction that waited.
SettledRecord(p, state, value) ==
    IF promises[p].state # "pending" THEN promises[p]
    ELSE [state |-> state, result |-> value, waiting |-> <<>>]

\* Variant: the last reaction's first.
JobsOfLastFirst(p, state, value) ==
    [i \in 1 .. Len(promises[p].waiting) |->
        ReactionJob(promises[p].waiting[Len(promises[p].waiting) + 1 - i], value, state = "rejected")]

JobsOf(p, state, value) ==
    [i \in 1 .. Len(promises[p].waiting) |->
        ReactionJob(promises[p].waiting[i], value, state = "rejected")]

\* fulfillPromise and rejectPromise, the queue being q by then.
Settle(q, p, state, value) ==
    /\ promises' = [promises EXCEPT ![p] = SettledRecord(p, state, value)]
    /\ queue' = Enqueued(q, JobsOf(p, state, value))

Fulfill(q, p, value) == Settle(q, p, "fulfilled", value)
Reject(q, p) == Settle(q, p, "rejected", Plain)

\* resolvePromise: an object's `then` is read, which may run the program.
Resolve(q, below, p, value) ==
    \/ /\ value = p
       /\ Reject(q, p) /\ stack' = below
    \/ /\ value = Plain
       /\ Fulfill(q, p, value) /\ stack' = below
    \/ /\ value \notin {p, Plain}
       /\ stack' = Append(below, Call("then", p, value))
       /\ queue' = q /\ UNCHANGED promises

\* settleDestination of an engine promise.
SettleDestination(q, below, p, value, rejected) ==
    IF rejected THEN Reject(q, p) /\ stack' = below
    ELSE Resolve(q, below, p, value)

\* promiseResolveFunction and promiseRejectFunction, called by the program
\* or by a reaction that a native `then` attached.
SettleThrough(q, below, s, value, rejected) ==
    IF shareds[s].called
    THEN /\ queue' = q /\ stack' = below
         /\ UNCHANGED <<promises, shareds>>
    ELSE /\ shareds' = [shareds EXCEPT ![s].called = TRUE]
         /\ SettleDestination(q, below, shareds[s].promise, value, rejected)

\* attachReaction: behind the others of a pending promise, or a job at once.
\* Variant: behind the others of any promise.
AttachToAny(ps, r) ==
    /\ reactions' = Append(reactions, r)
    /\ promises' = [ps EXCEPT ![r.on].waiting = Append(@, Len(reactions) + 1)]
    /\ UNCHANGED queue

Attach(ps, r) ==
    LET p == r.on
        n == Len(reactions) + 1
    IN  /\ reactions' = Append(reactions, r)
        /\ IF ps[p].state = "pending"
           THEN /\ promises' = [ps EXCEPT ![p].waiting = Append(@, n)]
                /\ UNCHANGED queue
           ELSE /\ promises' = ps
                /\ queue' = Enqueued(queue, <<ReactionJob(n, ps[p].result, ps[p].state = "rejected")>>)
-----------------------------------------------------------------------------
(* The program *)

\* ContextState.evaluate: the script's own code.
Evaluate ==
    /\ phase = "embedder" /\ evals < MaxEvals
    /\ evals' = evals + 1
    /\ phase' = "script"
    /\ stack' = Append(stack, Call("script", 0, Plain))
    /\ UNCHANGED <<promises, reactions, shareds, asyncs, queue, terminating>>

\* constructPromise, as far as the call of the executor.
ConstructPromise ==
    /\ ProgramRuns /\ RoomFor(1, 1)
    /\ promises' = Append(promises, NewPromise)
    /\ shareds' = Append(shareds, NewShared(Len(promises) + 1, TRUE))
    /\ stack' = Append(stack, Call("executor", Len(shareds) + 1, Plain))
    /\ UNCHANGED <<reactions, asyncs, queue, phase, terminating, evals>>

\* The program calls a resolving function it was given, at any time after
\* and however often.
CallResolvingFunction ==
    /\ ProgramRuns
    /\ \E s \in DOMAIN shareds, value \in Values, rejected \in BOOLEAN :
          /\ shareds[s].given
          /\ rejected => value = Plain
          /\ SettleThrough(queue, stack, s, value, rejected)
    /\ UNCHANGED <<reactions, asyncs, phase, terminating, evals>>

\* promiseThen, called with a handler for one outcome or the other; the
\* derived promise is an engine one.
Then ==
    /\ ProgramRuns /\ RoomFor(1, 0) /\ Len(reactions) < MaxReactions
    /\ \E p \in Promise, handled \in {"fulfilled", "rejected"} :
          Attach(Append(promises, NewPromise),
                 Reaction("handler", p, Len(promises) + 1, {handled}))
    /\ UNCHANGED <<shareds, asyncs, phase, stack, terminating, evals>>

\* generatorStart of an async function: its body runs to its first await.
CallAsync ==
    /\ ProgramRuns /\ RoomFor(1, 0) /\ Len(asyncs) < MaxAsyncs
    /\ promises' = Append(promises, NewPromise)
    /\ asyncs' = Append(asyncs, Len(promises) + 1)
    /\ stack' = Append(stack, Call("async", Len(asyncs) + 1, Plain))
    /\ UNCHANGED <<reactions, shareds, queue, phase, terminating, evals>>

\* pollInterrupt: the handler says stop.
Interrupt ==
    /\ ProgramRuns
    /\ terminating' = TRUE
    /\ UNCHANGED <<promises, reactions, shareds, asyncs, queue, phase, stack, evals>>
-----------------------------------------------------------------------------
(* The program returns to the engine; while terminating it only throws, *)
(* being unwound.                                                        *)

Returns(at) == TopIs(at) /\ ~terminating
Throws(at) == TopIs(at)

\* The script is done or has thrown: its jobs run either way.
ScriptEnds ==
    /\ Throws("script")
    /\ phase' = "jobs" /\ stack' = <<>>
    /\ UNCHANGED <<promises, reactions, shareds, asyncs, queue, terminating, evals>>

\* constructPromise after the executor.
ExecutorReturns ==
    /\ Returns("executor")
    /\ stack' = Below
    /\ UNCHANGED <<promises, reactions, shareds, asyncs, queue, phase, terminating, evals>>

ExecutorThrows ==
    /\ Throws("executor")
    /\ SettleThrough(queue, Below, Top.on, Plain, TRUE)
    /\ UNCHANGED <<reactions, asyncs, phase, terminating, evals>>

\* runReaction after the handler.
HandlerReturns ==
    /\ Returns("handler")
    /\ \E value \in Values : SettleDestination(queue, Below, Top.on, value, FALSE)
    /\ UNCHANGED <<reactions, shareds, asyncs, phase, terminating, evals>>

HandlerThrows ==
    /\ Throws("handler")
    /\ SettleDestination(queue, Below, Top.on, Plain, TRUE)
    /\ UNCHANGED <<reactions, shareds, asyncs, phase, terminating, evals>>

\* resolvePromise after the reading of `then`.
ThenThrows ==
    /\ Throws("then")
    /\ Reject(queue, Top.on) /\ stack' = Below
    /\ UNCHANGED <<reactions, shareds, asyncs, phase, terminating, evals>>

ThenNotCallable ==
    /\ Returns("then")
    /\ Fulfill(queue, Top.on, Top.of) /\ stack' = Below
    /\ UNCHANGED <<reactions, shareds, asyncs, phase, terminating, evals>>

ThenCallable ==
    /\ Returns("then") /\ RoomFor(0, 1)
    /\ \E native \in BOOLEAN :
          /\ native => Top.of \in Promise
          /\ queue' = Enqueued(queue, <<ThenableJob(Top.on, Top.of, native)>>)
    /\ stack' = Below
    /\ UNCHANGED <<promises, reactions, shareds, asyncs, phase, terminating, evals>>

\* runJobs after a thenable's own `then`, or one that is promiseThen: the
\* latter reads the promise's `constructor`, which may run the program,
\* before it attaches.
ThenableReturns ==
    /\ Returns("thenable")
    /\ stack' = Below
    /\ UNCHANGED <<promises, reactions, shareds, asyncs, queue, phase, terminating, evals>>

AdoptReturns ==
    /\ Returns("adopt")
    /\ Attach(promises, Reaction("adopt", Top.of, Top.on, {"fulfilled", "rejected"}))
    /\ stack' = Below
    /\ UNCHANGED <<shareds, asyncs, phase, terminating, evals>>

\* Variant: a throw rejects the promise though the functions were called.
ThenableThrowsAlways ==
    /\ Throws("thenable") \/ Throws("adopt")
    /\ shareds' = [shareds EXCEPT ![Top.on].called = TRUE]
    /\ Reject(queue, shareds[Top.on].promise) /\ stack' = Below
    /\ UNCHANGED <<reactions, asyncs, phase, terminating, evals>>

ThenableThrows ==
    /\ Throws("thenable") \/ Throws("adopt")
    /\ SettleThrough(queue, Below, Top.on, Plain, TRUE)
    /\ UNCHANGED <<reactions, asyncs, phase, terminating, evals>>

\* asyncStep after the body has run.
AsyncReturns ==
    /\ Returns("async")
    /\ \E value \in Values : Resolve(queue, Below, asyncs[Top.on], value)
    /\ UNCHANGED <<reactions, shareds, asyncs, phase, terminating, evals>>

AsyncThrows ==
    /\ Throws("async")
    /\ Reject(queue, asyncs[Top.on]) /\ stack' = Below
    /\ UNCHANGED <<reactions, shareds, asyncs, phase, terminating, evals>>

\* awaitPlainValue: the continuation's job, on no promise.
AsyncAwaitsPlain ==
    /\ Returns("async") /\ Len(reactions) < MaxReactions
    /\ reactions' = Append(reactions, Reaction("async", 0, Top.on, {}))
    /\ queue' = Enqueued(queue, <<ReactionJob(Len(reactions) + 1, Plain, FALSE)>>)
    /\ stack' = Below
    /\ UNCHANGED <<promises, shareds, asyncs, phase, terminating, evals>>

\* The value is an object.  A promise's `constructor` is read, which may
\* run the program (promiseResolveValue).
AsyncAwaitsPromise ==
    /\ Returns("async") /\ Len(reactions) < MaxReactions
    /\ \E p \in Promise : stack' = Append(Below, Call("constructor", Top.on, p))
    /\ UNCHANGED <<promises, reactions, shareds, asyncs, queue, phase, terminating, evals>>

\* Any object but a promise of the intrinsic constructor is resolved into a
\* new promise, which is awaited once its `then` has been read.
AwaitsAsNew(value) ==
    /\ RoomFor(1, 0)
    /\ promises' = Append(promises, NewPromise)
    /\ stack' = Append(Append(Below, Call("await", Top.on, Len(promises) + 1)),
                       Call("then", Len(promises) + 1, value))
    /\ UNCHANGED <<reactions, shareds, asyncs, queue, phase, terminating, evals>>

AsyncAwaitsObject ==
    /\ Returns("async") /\ Len(reactions) < MaxReactions
    /\ AwaitsAsNew(Object)

ConstructorForeign ==
    /\ Returns("constructor") /\ AwaitsAsNew(Top.of)

ConstructorIntrinsic ==
    /\ Returns("constructor")
    /\ Attach(promises, Reaction("async", Top.of, Top.on, {}))
    /\ stack' = Below
    /\ UNCHANGED <<shareds, asyncs, phase, terminating, evals>>

\* The body is resumed with the throw; while terminating it only unwinds,
\* which rejects its promise.
ConstructorThrows ==
    /\ Throws("constructor") /\ ~terminating
    /\ stack' = Append(Below, Call("async", Top.on, Plain))
    /\ UNCHANGED <<promises, reactions, shareds, asyncs, queue, phase, terminating, evals>>

\* Variant: a termination is cleared by who takes it, as resolvePromise does
\* when the reading of the awaited object's `then` is stopped.
RaisedUnlessTaken == terminating /\ Top.at # "await"

\* takePending leaves a termination raised (1385): pendingThrow is set still
\* when resolvePromise, having taken it, returns.
StillRaised == terminating

\* asyncStep's test after promiseResolveValue, for a stopped `constructor`
\* (which nobody took) and for a stopped `then` (which has rejected the new
\* promise): the body is unwound, and nothing is attached.
AwaitStopped ==
    /\ Throws("constructor") \/ Throws("await")
    /\ StillRaised
    /\ Reject(queue, asyncs[Top.on]) /\ stack' = Below
    /\ UNCHANGED <<reactions, shareds, asyncs, phase, terminating, evals>>

AwaitAttaches ==
    /\ TopIs("await") /\ ~StillRaised
    /\ Attach(promises, Reaction("async", Top.of, Top.on, {}))
    /\ stack' = Below
    /\ UNCHANGED <<shareds, asyncs, phase, terminating, evals>>
-----------------------------------------------------------------------------
(* The jobs *)

\* runJobs takes the next job.
TakesJob(kind) ==
    /\ phase = "jobs" /\ stack = <<>> /\ ~terminating
    /\ queue.cursor < queue.end
    /\ NextJob(queue).kind = kind

Ran(r) == [reactions EXCEPT ![r].status = "ran"]

\* runReaction: a handler for this outcome is called, and without one the
\* outcome passes to the derived promise.
RunHandler ==
    LET job == NextJob(queue) r == reactions[job.on]
    IN  /\ TakesJob("reaction") /\ r.kind = "handler"
        /\ reactions' = Ran(job.on)
        /\ IF (IF job.rejected THEN "rejected" ELSE "fulfilled") \in r.handlers
           THEN /\ stack' = Append(stack, Call("handler", r.of, Plain))
                /\ queue' = Taken(queue) /\ UNCHANGED promises
           ELSE SettleDestination(Taken(queue), stack, r.of, job.value, job.rejected)
        /\ UNCHANGED <<shareds, asyncs, phase, terminating, evals>>

\* The reaction a native `then` attached calls a resolving function.
RunAdopt ==
    LET job == NextJob(queue) r == reactions[job.on]
    IN  /\ TakesJob("reaction") /\ r.kind = "adopt"
        /\ reactions' = Ran(job.on)
        /\ SettleThrough(Taken(queue), stack, r.of, job.value, job.rejected)
        /\ UNCHANGED <<asyncs, phase, terminating, evals>>

\* asyncStep: the body goes on after its await.
RunAsync ==
    LET job == NextJob(queue) r == reactions[job.on]
    IN  /\ TakesJob("reaction") /\ r.kind = "async"
        /\ reactions' = Ran(job.on)
        /\ stack' = Append(stack, Call("async", r.of, Plain))
        /\ queue' = Taken(queue)
        /\ UNCHANGED <<promises, shareds, asyncs, phase, terminating, evals>>

\* A thenable's `then` is called with a new pair of functions.
RunThenable ==
    LET job == NextJob(queue)
    IN  /\ TakesJob("thenable")
        /\ shareds' = Append(shareds, NewShared(job.on, ~job.native))
        /\ stack' = Append(stack, Call(IF job.native THEN "adopt" ELSE "thenable", Len(shareds) + 1, job.value))
        /\ queue' = Taken(queue)
        /\ UNCHANGED <<promises, reactions, asyncs, phase, terminating, evals>>

\* The end of runJobs and of the evaluation (endTermination).  A
\* termination drops the jobs it left.
Dropped == {Waiting(queue)[i].on : i \in JobsOfKind("reaction")}

EvaluateEnds ==
    /\ phase = "jobs" /\ stack = <<>>
    /\ queue.cursor = queue.end \/ terminating
    /\ queue' = IF terminating THEN EmptyQueue ELSE Drained(queue)
    /\ reactions' = [r \in DOMAIN reactions |->
                        IF r \in Dropped THEN [reactions[r] EXCEPT !.status = "dropped"]
                        ELSE reactions[r]]
    /\ terminating' = FALSE
    /\ phase' = "embedder"
    /\ UNCHANGED <<promises, shareds, asyncs, stack, evals>>
-----------------------------------------------------------------------------
Program ==
    \/ ConstructPromise \/ CallResolvingFunction \/ Then \/ CallAsync \/ Interrupt

ProgramEnds ==
    \/ ScriptEnds \/ ExecutorReturns \/ ExecutorThrows
    \/ HandlerReturns \/ HandlerThrows
    \/ ThenThrows \/ ThenNotCallable \/ ThenCallable
    \/ ThenableReturns \/ AdoptReturns \/ ThenableThrows
    \/ AsyncAwaitsPlain \/ AsyncAwaitsPromise \/ AsyncAwaitsObject
    \/ ConstructorForeign \/ ConstructorIntrinsic \/ ConstructorThrows

BodyEnds == AsyncReturns \/ AsyncThrows

Engine ==
    \/ AwaitStopped \/ AwaitAttaches
    \/ RunHandler \/ RunAdopt \/ RunAsync \/ RunThenable
    \/ EvaluateEnds

Next == Evaluate \/ Program \/ ProgramEnds \/ BodyEnds \/ Engine

\* The program never runs forever: every call of it ends, and a body that
\* is resumed again and again is left.
Fairness == WF_vars(ProgramEnds \/ BodyEnds \/ Engine) /\ SF_vars(BodyEnds)

Spec == Init /\ [][Next]_vars /\ Fairness
-----------------------------------------------------------------------------
(* Properties *)

\* What can still settle a promise: a pair of functions not called yet, a
\* thenable's job, the reading of `then`, a reaction (or its handler's run)
\* that derives it, the await or the run of an async function's body, and
\* the engine's making of an await's promise.
Settlers(p) ==
    {<<"pair", s>> : s \in {s \in DOMAIN shareds : shareds[s].promise = p /\ ~shareds[s].called}}
    \union {<<"job", i>> : i \in {i \in JobsOfKind("thenable") : Waiting(queue)[i].on = p}}
    \union {<<"reaction", r>> : r \in {r \in DOMAIN reactions :
                /\ reactions[r].status = "waiting"
                /\ \/ reactions[r].kind = "handler" /\ reactions[r].of = p
                   \/ reactions[r].kind = "async" /\ asyncs[reactions[r].of] = p}}
    \union {<<"call", i>> : i \in {i \in DOMAIN stack :
                \/ stack[i].at \in {"then", "handler"} /\ stack[i].on = p
                \/ stack[i].at \in {"async", "constructor", "await"} /\ asyncs[stack[i].on] = p}}

\* A promise is settled by one thing, and once: while it is pending no more
\* than one thing can settle it, and afterwards nothing can.  The test of
\* the state in settlePromise is never what keeps a promise settled.
OneSettler ==
    \A p \in Promise :
        /\ Cardinality(Settlers(p)) <= 1
        /\ promises[p].state # "pending" => Settlers(p) = {}

\* The places in the queue of a promise's reactions, and their numbers
\* with those that still wait on its record.
ReactionJobsOf(p) ==
    {i \in JobsOfKind("reaction") : reactions[Waiting(queue)[i].on].on = p}
Line(p) ==
    {Waiting(queue)[i].on : i \in ReactionJobsOf(p)} \union Range(promises[p].waiting)

\* A promise's reactions run in the order they were attached, each once:
\* those not run (and not dropped by a termination) stand in line once, in
\* order, behind all that have run, and the jobs of those whose turn has
\* come carry the promise's outcome.
ReactionsRunInOrder ==
    \A p \in Promise :
        LET jobs == Waiting(queue) waiting == promises[p].waiting
        IN  /\ \A i, j \in ReactionJobsOf(p) : i < j => jobs[i].on < jobs[j].on
            /\ \A i, j \in DOMAIN waiting : i < j => waiting[i] < waiting[j]
            /\ \A i \in ReactionJobsOf(p), j \in DOMAIN waiting : jobs[i].on < waiting[j]
            /\ \A r \in {r \in DOMAIN reactions : reactions[r].on = p} :
                  /\ reactions[r].status = "waiting" <=> r \in Line(p)
                  /\ reactions[r].status = "ran" => \A later \in Line(p) : r < later
            /\ \A i \in ReactionJobsOf(p) :
                  /\ jobs[i].value = promises[p].result
                  /\ promises[p].state = IF jobs[i].rejected THEN "rejected" ELSE "fulfilled"

\* Once the interrupt handler has said stop, the engine's own error paths
\* take the termination for a throw of the program's, and go on.  Whatever
\* they make of it, until the embedder has control they only leave calls
\* and reject promises: no code of the program's is entered, no job begun,
\* no reaction attached and no promise fulfilled.  The embedder then finds
\* no job.
NothingEnteredOnceStopped ==
    [][/\ terminating =>
            /\ Len(stack') < Len(stack) \/ phase' # phase
            /\ DOMAIN reactions' = DOMAIN reactions
            /\ \A p \in Promise : promises'[p].state \in {promises[p].state, "rejected"}
       /\ phase' = "embedder" => queue'.end = 0 /\ ~terminating']_vars

\* The jobs there can be.
Job ==
    [kind : {"reaction", "thenable"}, on : Nat, value : 0 .. Object,
     rejected : BOOLEAN, native : BOOLEAN]

\* The job queue is a first-in first-out queue, through its compaction and
\* the storage kept from one evaluation to the next.
Fifo == INSTANCE FifoJobs WITH waiting <- Waiting(queue), stopping <- terminating
ImplementsFifo == Fifo!Spec

\* A reaction whose promise is settled gets its run, or is dropped by a
\* termination.
EveryReactionRuns ==
    \A n \in 1 .. MaxReactions :
        (/\ n \in DOMAIN reactions
         /\ reactions[n].on # 0 => promises[reactions[n].on].state # "pending")
        ~> (n \in DOMAIN reactions /\ reactions[n].status \in {"ran", "dropped"})
=============================================================================
