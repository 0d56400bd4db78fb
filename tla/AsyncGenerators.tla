-------------------------- MODULE AsyncGenerators --------------------------
(***************************************************************************)
(* An async generator and its driver (engine/runtime.zs).  The program     *)
(* calls next, throw and return, each call a request with a promise of its *)
(* own; the front request drives the body, and is answered when the body   *)
(* yields or ends.                                                         *)
(*                                                                         *)
(* The driver runs program code in its middle: the body, the reading of an *)
(* awaited value's `constructor` (promiseResolveValue), and the reading of *)
(* the answer's `then` (resolvePromise), which finds nothing to run unless *)
(* the program has put an accessor on Object.prototype.  Any of these may  *)
(* call the generator again, so that the driver is entered while it is     *)
(* under way: stack has its activations, the innermost last.               *)
(*                                                                         *)
(* One generator; the values it is sent and answers with are left out.     *)
(***************************************************************************)
EXTENDS Naturals, Sequences

CONSTANTS
    MaxRequests,    \* a bound on the program's calls
    MaxStops,       \* a bound on the yields and awaits of the body
    ThenCalls       \* Object.prototype has a `then` accessor

ASSUME BoundsAssumption == MaxRequests \in Nat /\ MaxStops \in Nat
ASSUME ThenCallsAssumption == ThenCalls \in BOOLEAN

VARIABLES
    state,      \* the record's state, GEN_*
    kind,       \* its suspension kind: how the body last stopped
    queue,      \* its requests not answered yet, by the number of the call
    requests,   \* the mode of every request made
    reactions,  \* how many awaits of each kind have yet to settle and run
    stack,      \* the driver's activations
    stops,      \* how often the body has stopped
    answers,    \* the requests answered, in order
    drives      \* the requests that drove the body, in order

vars == <<state, kind, queue, requests, reactions, stack, stops, answers, drives>>

Modes == {"next", "throw", "return"}
States == {"yielded", "running", "completed", "awaiting", "awaitingReturn"}
Kinds == {"unstarted", "yield", "await", "delegate"}

\* REACTION_ASYNC_GEN_*
Reactions == {"await", "yield", "returnDone", "resumeReturn"}

\* Where an activation is: at the top of asyncGeneratorResumeNext's loop,
\* in the body, in the reading of `then` or of `constructor`.
Activation(place, request, reaction) == [at |-> place, request |-> request, reaction |-> reaction]
ResumeNextActivation == Activation("resumeNext", 0, "none")
BodyActivation == Activation("body", 0, "none")
ThenActivation(r) == Activation("then", r, "none")
ConstructorActivation(k) == Activation("constructor", 0, k)

\* createGenerator and generatorStart: the body has not run.
Init ==
    /\ state = "yielded" /\ kind = "unstarted"
    /\ queue = <<>> /\ requests = <<>>
    /\ reactions = [k \in Reactions |-> 0]
    /\ stack = <<>>
    /\ stops = 0 /\ answers = <<>> /\ drives = <<>>

Top == stack[Len(stack)]
TopIs(place) == stack # <<>> /\ Top.at = place
Below == SubSeq(stack, 1, Len(stack) - 1)
Enter(below, activation) == stack' = Append(below, activation)
-----------------------------------------------------------------------------
\* The program runs between jobs, and where the driver runs its code.
ProgramRuns ==
    \/ stack = <<>>
    \/ TopIs("body") \/ TopIs("constructor")
    \/ ThenCalls /\ TopIs("then")

\* Variants: a request is served at once in a state it should wait in.
BusyNotReturning == {"running", "awaiting"}
BusyNotAwaiting == {"running", "awaitingReturn"}

Busy == {"running", "awaiting", "awaitingReturn"}

\* asyncGeneratorEnqueue.
Request(mode) ==
    /\ ProgramRuns /\ Len(requests) < MaxRequests
    /\ requests' = Append(requests, mode)
    /\ queue' = Append(queue, Len(requests) + 1)
    /\ IF state \in Busy THEN UNCHANGED stack ELSE Enter(stack, ResumeNextActivation)
    /\ UNCHANGED <<state, kind, reactions, stops, answers, drives>>

\* Variant: the queue is taken for drained one request early.
PoppedEarly == IF Len(queue) <= 2 THEN <<>> ELSE Tail(queue)

\* asyncGeneratorPop.
Popped == IF queue = <<>> THEN <<>> ELSE Tail(queue)

\* The request r is answered, and the front one popped.  A promise that
\* is settled already is left as it is (settlePromise).
Answered(r) == \E i \in DOMAIN answers : answers[i] = r
AnswerAndPop(r) ==
    /\ answers' = IF Answered(r) THEN answers ELSE Append(answers, r)
    /\ queue' = Popped

\* An answer with a result: resolvePromise reads its `then` first.
Resolve(below) ==
    /\ Enter(below, IF queue = <<>> THEN ResumeNextActivation ELSE ThenActivation(Head(queue)))
    /\ UNCHANGED <<queue, answers>>

\* An answer with a throw.
Reject(below) ==
    /\ IF queue = <<>> THEN UNCHANGED <<queue, answers>> ELSE AnswerAndPop(Head(queue))
    /\ Enter(below, ResumeNextActivation)

\* The body has thrown, or returned: asyncGeneratorStep.
AfterThrow(below) == state' = "completed" /\ Reject(below)
AfterReturn(below) == state' = "completed" /\ Resolve(below)

\* generatorResume, for asyncGeneratorStep: the body runs, or it cannot.
Resume(below, mode) ==
    IF state = "running" \/ (state = "completed" /\ mode = "throw")
    THEN AfterThrow(below)
    ELSE IF state = "completed" \/ (mode = "return" /\ kind = "unstarted")
         THEN AfterReturn(below)
         ELSE /\ state' = "running"
              /\ Enter(below, BodyActivation)
              /\ UNCHANGED <<queue, answers>>

\* A value is awaited: its reaction is attached at once, or once the
\* program's code for its `constructor` (a promise's) or its `then` (any
\* other object's) has run.
Await(below, k) ==
    \/ stack' = below /\ reactions' = [reactions EXCEPT ![k] = @ + 1]
    \/ Enter(below, ConstructorActivation(k)) /\ UNCHANGED reactions
-----------------------------------------------------------------------------
\* asyncGeneratorResumeNext: one turn of its loop.
ResumeNext ==
    /\ TopIs("resumeNext")
    /\ UNCHANGED <<kind, requests, stops>>
    /\ \/ /\ queue = <<>>
          /\ stack' = Below
          /\ UNCHANGED <<state, queue, reactions, answers, drives>>
       \/ /\ queue # <<>>
          /\ LET front == Head(queue)
                 mode == requests[front]
                 ended == state = "completed" \/ (kind = "unstarted" /\ mode # "next")
             IN  \/ /\ ended /\ mode = "return"         \* asyncGeneratorAwaitReturn
                    /\ state' = "awaitingReturn"
                    /\ Await(Below, "returnDone")
                    /\ UNCHANGED <<queue, answers, drives>>
                 \/ /\ ended /\ mode = "throw"
                    /\ AfterThrow(Below)
                    /\ UNCHANGED <<reactions, drives>>
                 \/ /\ ended /\ mode = "next"
                    /\ AfterReturn(Below)
                    /\ UNCHANGED <<reactions, drives>>
                 \/ /\ ~ended /\ mode = "return"        \* asyncGeneratorAwaitResumeReturn
                    /\ state' = "awaiting"
                    /\ Await(Below, "resumeReturn")
                    /\ drives' = Append(drives, front)
                    /\ UNCHANGED <<queue, answers>>
                 \/ /\ ~ended /\ mode # "return"
                    /\ Resume(Below, mode)
                    /\ drives' = Append(drives, front)
                    /\ UNCHANGED reactions

\* resolvePromise, after the reading of `then`: settlePromise, then the
\* answered request is popped and the next one looked at.
ThenRead ==
    /\ TopIs("then")
    /\ AnswerAndPop(Top.request)
    /\ Enter(Below, ResumeNextActivation)
    /\ UNCHANGED <<state, kind, requests, reactions, stops, drives>>

\* promiseResolveValue has returned a promise,
ConstructorRead ==
    /\ TopIs("constructor")
    /\ reactions' = [reactions EXCEPT ![Top.reaction] = @ + 1]
    /\ stack' = Below
    /\ UNCHANGED <<state, kind, queue, requests, stops, answers, drives>>

\* or has thrown: into the body, or at the request.
ConstructorThrew ==
    /\ TopIs("constructor")
    /\ IF Top.reaction = "returnDone" THEN AfterThrow(Below) ELSE Resume(Below, "throw")
    /\ UNCHANGED <<kind, requests, reactions, stops, drives>>
-----------------------------------------------------------------------------
\* The body ends (completeGenerator).
BodyThrows ==
    /\ TopIs("body")
    /\ AfterThrow(Below)
    /\ UNCHANGED <<kind, requests, reactions, stops, drives>>

BodyReturns ==
    /\ TopIs("body")
    /\ AfterReturn(Below)
    /\ UNCHANGED <<kind, requests, reactions, stops, drives>>

\* yieldOp and awaitOp, with the rest of asyncGeneratorStep: what is
\* yielded is awaited before it answers.
Suspend(k) ==
    /\ TopIs("body") /\ stops < MaxStops
    /\ kind' = k /\ stops' = stops + 1
    /\ state' = "awaiting"
    /\ Await(Below, k)
    /\ UNCHANGED <<queue, requests, answers, drives>>

\* yieldDelegate: a delegate's value answers as it is.
Delegate ==
    /\ TopIs("body") /\ stops < MaxStops
    /\ kind' = "delegate" /\ stops' = stops + 1
    /\ state' = "yielded"
    /\ Resolve(Below)
    /\ UNCHANGED <<requests, reactions, drives>>
-----------------------------------------------------------------------------
\* Variant: once answered, a return looks at no further request.
ReturnDoneAlone(rejected) ==
    /\ state' = "completed"
    /\ IF rejected
       THEN AnswerAndPop(Head(queue)) /\ stack' = <<>>
       ELSE Resolve(<<>>)

\* runReaction, for each kind of reaction.
ReturnDone(rejected) ==
    /\ state' = "completed"
    /\ IF rejected THEN Reject(<<>>) ELSE Resolve(<<>>)

Yielded(rejected) ==
    IF rejected THEN Resume(<<>>, "throw") ELSE state' = "yielded" /\ Resolve(<<>>)

RunReaction(k, rejected) ==
    /\ stack = <<>> /\ reactions[k] > 0
    /\ reactions' = [reactions EXCEPT ![k] = @ - 1]
    /\ CASE k = "await" -> Resume(<<>>, IF rejected THEN "throw" ELSE "next")
         [] k = "resumeReturn" -> Resume(<<>>, IF rejected THEN "throw" ELSE "return")
         [] k = "returnDone" -> ReturnDone(rejected)
         [] k = "yield" -> Yielded(rejected)
    /\ UNCHANGED <<kind, requests, stops, drives>>

Driver == ResumeNext \/ ThenRead \/ ConstructorRead \/ ConstructorThrew
Body == BodyThrows \/ BodyReturns \/ Suspend("yield") \/ Suspend("await") \/ Delegate
Job == \E k \in Reactions, rejected \in BOOLEAN : RunReaction(k, rejected)

Next == Driver \/ Body \/ Job \/ \E mode \in Modes : Request(mode)

Spec == Init /\ [][Next]_vars

\* The driver goes on, the body stops whenever it runs, and what is
\* awaited settles (the last two are the program's to do).
FairSpec == Spec /\ WF_vars(Driver) /\ WF_vars(Body) /\ WF_vars(Job)
-----------------------------------------------------------------------------
\* A reaction of each kind is outstanding once at most.
TypeOK ==
    /\ state \in States /\ kind \in Kinds
    /\ queue \in Seq(1..MaxRequests)
    /\ requests \in Seq(Modes) /\ Len(requests) <= MaxRequests
    /\ reactions \in [Reactions -> 0..1]
    /\ stack \in Seq([at : {"resumeNext", "body", "then", "constructor"},
                      request : 0..MaxRequests, reaction : Reactions \cup {"none"}])
    /\ stops \in 0..MaxStops
    /\ answers \in Seq(1..MaxRequests) /\ drives \in Seq(1..MaxRequests)

\* Requests are answered in the order they were made, each once, and none
\* is dropped from the queue unanswered (asyncGeneratorPop,
\* asyncGeneratorResumeNext).
AnsweredInOrder == answers \o queue = [i \in 1..Len(requests) |-> i]

\* No request drives the body twice, or after a later one
\* (asyncGeneratorEnqueue's test of the state).
DrivenOnce == \A i, j \in DOMAIN drives : i < j => drives[i] < drives[j]

\* Between jobs, a generator that awaits has the one reaction that will
\* wake it, of the kind it stopped for, and one that does not has no
\* request left to serve.
Outstanding == {k \in Reactions : reactions[k] > 0}
OneWaker ==
    stack = <<>> =>
        \/ state \in {"yielded", "completed"} /\ queue = <<>> /\ Outstanding = {}
        \/ /\ state = "awaiting" /\ queue # <<>>
           /\ \E k \in {"await", "yield", "resumeReturn"} : Outstanding = {k} /\ reactions[k] = 1
           /\ \A k \in Outstanding \cap {"await", "yield"} : kind = k
        \/ /\ state = "awaitingReturn" /\ queue # <<>>
           /\ Outstanding = {"returnDone"} /\ reactions["returnDone"] = 1

\* Every request is answered.
EveryRequestAnswered ==
    \A r \in 1..MaxRequests : Len(requests) >= r ~> Answered(r)
-----------------------------------------------------------------------------
(***************************************************************************)
(* The inductive invariant of a program without such an accessor.          *)
(***************************************************************************)
Idle == state \in {"yielded", "completed"}

\* The driver is entered once, and never while something is awaited.
DriverInv == stack # <<>> =>
    /\ Len(stack) = 1 /\ Outstanding = {}
    /\ Top.at = "resumeNext" => Idle
    /\ Top.at = "body" => state = "running" /\ queue # <<>>
    /\ Top.at = "then" => Idle /\ queue # <<>> /\ Top.request = Head(queue)
    /\ Top.at = "constructor" =>
          /\ queue # <<>> /\ Top.reaction \in Reactions
          /\ state = IF Top.reaction = "returnDone" THEN "awaitingReturn" ELSE "awaiting"
          /\ Top.reaction \in {"await", "yield"} => kind = Top.reaction

\* The answered requests, then the queue, number the requests made.
QueueInv ==
    /\ Len(answers) + Len(queue) = Len(requests)
    /\ \A i \in 1..Len(answers) : answers[i] = i
    /\ \A i \in 1..Len(queue) : queue[i] = Len(answers) + i

\* Only the front request may have driven the body and be unanswered, and
\* it has not when the driver is about to look at it.
DrivesInv ==
    /\ \A i \in DOMAIN drives : drives[i] <= Len(answers) + 1
    /\ TopIs("resumeNext") \/ (stack = <<>> /\ Idle) =>
          \A i \in DOMAIN drives : drives[i] <= Len(answers)

Inv == TypeOK /\ DrivenOnce /\ OneWaker /\ DriverInv /\ QueueInv /\ DrivesInv
=============================================================================
