------------------------------ MODULE Modules ------------------------------
(***************************************************************************)
(* The evaluation of module graphs (engine/modules.zs): the depth-first    *)
(* walk that evaluates a graph, the modules of a cycle finishing together, *)
(* the modules that await and those that wait for them, and the promise of *)
(* every evaluation, with several evaluations of overlapping graphs begun  *)
(* one after another while earlier ones wait.                              *)
(*                                                                         *)
(* Only the program's order is free: which graph there is, which module is *)
(* imported when, which bodies throw and when an awaiting body ends.       *)
(* Linking gives every new module of a graph its environment or leaves the *)
(* graph as it was; only graphs that link are imported here.               *)
(***************************************************************************)
EXTENDS Naturals, Sequences, SequencesExt

CONSTANTS
    Module,         \* the modules of the program
    Graphs,         \* what each requests, in order, and which have an await
    NoError,        \* no module's error, and no module
    MaxStarts       \* bound: evaluations begun

ASSUME ModulesAssumption ==
    /\ NoError \notin Module
    /\ \A g \in Graphs : /\ g.requested \in [Module -> Seq(Module)]
                         /\ g.hasAwait \subseteq Module
    /\ MaxStarts \in Nat

VARIABLES
    graph,          \* the program's graph
    modules,        \* runtime.modules: every module's record
    asyncOrder,     \* runtime.moduleAsyncOrder
    frames,         \* evaluateFrom's calls: a module and its next request
    stack,          \* the walk's stack of modules
    index,          \* the walk's next index
    gathering,      \* gatherAncestors' calls: a module and its next parent
    ready,          \* what is left of asyncModuleFulfilled's list
    running,        \* the awaiting bodies that have begun and not ended
    jobs,           \* queued moduleFulfilled and moduleRejected
    starts,         \* how often each module's body has begun
    begun           \* evaluations begun

vars == <<graph, modules, asyncOrder, frames, stack, index, gathering, ready, running, jobs, starts,
          begun>>

\* A promise is none, pending, fulfilled or rejected with a module's error;
\* an error is named by the module whose body threw it.
Promise(state, e) == [state |-> state, error |-> e]
None == Promise("none", NoError)
Pending == Promise("pending", NoError)
Fulfilled == Promise("fulfilled", NoError)

NewRecord(m) ==
    [status |-> "new", error |-> NoError, dfsIndex |-> 0, dfsAncestor |-> 0,
     asyncEvaluation |-> FALSE, asyncOrder |-> 0, pendingAsync |-> 0, asyncParents |-> <<>>,
     cycleRoot |-> m, capability |-> None]

Requested(m) == graph.requested[m]
HasAwait(m) == m \in graph.hasAwait
Status(m) == modules[m].status

Init ==
    /\ graph \in Graphs
    /\ modules = [m \in Module |-> NewRecord(m)]
    /\ asyncOrder = 0
    /\ frames = <<>> /\ stack = <<>> /\ index = 0
    /\ gathering = <<>> /\ ready = {} /\ running = {} /\ jobs = <<>>
    /\ starts = [m \in Module |-> 0]
    /\ begun = 0

\* The engine runs nothing: the next job, or the host's next call, may come.
Idle == frames = <<>> /\ gathering = <<>> /\ ready = {}

\* Which modules come from which along edges, a set of modules for each: the
\* members of every set with the first that no edge leaves.
Closed(edges) == {T \in SUBSET Module : \A m \in T : edges[m] \subseteq T}
Connected(edges) ==
    LET closed == Closed(edges)
    IN  {pair \in Module \X Module : \A T \in closed : pair[1] \in T => pair[2] \in T}
From(m, edges) ==
    LET closed == {T \in Closed(edges) : m \in T}
    IN  {n \in Module : \A T \in closed : n \in T}

Imports == [m \in Module |-> Range(Requested(m))]
-----------------------------------------------------------------------------
(* Beginning an evaluation *)

\* graphMembers, of the new modules.
GraphMembers(m) ==
    IF Status(m) # "new" THEN {}
    ELSE From(m, [k \in Module |-> {n \in Range(Requested(k)) : Status(n) = "new"}])

\* What linkGraph leaves.
Linked(start) ==
    LET members == GraphMembers(start)
    IN  [m \in Module |-> IF m \in members THEN [modules[m] EXCEPT !.status = "linked"]
                          ELSE modules[m]]

\* evaluateFrom's entry to a linked module.
Entered(records, m, at) ==
    [records EXCEPT ![m].status = "evaluating", ![m].dfsIndex = at, ![m].dfsAncestor = at,
                    ![m].pendingAsync = 0]

Enter(records, m, at) ==
    /\ modules' = Entered(records, m, at)
    /\ frames' = Append(frames, [module |-> m, next |-> 1])
    /\ stack' = Append(stack, m)
    /\ index' = at + 1

\* The module whose promise an evaluation from start shares.
EvaluationRoot(start) ==
    IF Status(start) \in {"async", "evaluated", "failed"} THEN modules[start].cycleRoot ELSE start

\* runModule, or importContinue's job: linkGraph, then evaluateRoot as far
\* as its walk.
Start(start) ==
    /\ Idle /\ begun < MaxStarts
    /\ begun' = begun + 1
    /\ LET root == EvaluationRoot(start)
           promised == [Linked(start) EXCEPT ![root].capability = Pending]
           known == modules[root]
       IN  IF known.capability # None
           THEN UNCHANGED <<modules, frames, stack, index>>
           ELSE IF known.status \in {"new", "linked"} THEN Enter(promised, root, 0)
           ELSE /\ modules' = [modules EXCEPT ![root].capability =
                                IF known.status = "failed" THEN Promise("rejected", known.error)
                                ELSE IF known.asyncEvaluation THEN Pending ELSE Fulfilled]
                /\ UNCHANGED <<frames, stack, index>>
    /\ UNCHANGED <<graph, asyncOrder, gathering, ready, running, jobs, starts>>
-----------------------------------------------------------------------------
(* The walk *)

Frame == Last(frames)
AtRequest == frames # <<>> /\ Frame.next <= Len(Requested(Frame.module))
Required == Requested(Frame.module)[Frame.next]

\* A throw ends the walk: every module still on its stack fails with it,
\* and the promise of the walk's root is rejected.
FailWalk(e) ==
    /\ modules' = [m \in Module |->
           [modules[m] EXCEPT
               !.status = IF Contains(stack, m) THEN "failed" ELSE @,
               !.error = IF Contains(stack, m) THEN e ELSE @,
               !.capability = IF m = frames[1].module THEN Promise("rejected", e) ELSE @]]
    /\ frames' = <<>> /\ stack' = <<>> /\ index' = 0

WalkInto ==
    /\ AtRequest /\ Status(Required) = "linked"
    /\ Enter(modules, Required, index)
    /\ UNCHANGED <<graph, asyncOrder, gathering, ready, running, jobs, starts, begun>>

\* The module a required one's state is read from: itself while it is being
\* walked, and then its cycle's root.
\* Variant: a cycle's member speaks for itself.
WaitedOnItself(required) == required

WaitedOn(required) ==
    IF Status(required) = "evaluating" THEN required ELSE modules[required].cycleRoot

\* A request whose module needs no walk, or has had it.
Require ==
    /\ AtRequest /\ Status(Required) # "linked"
    /\ LET m == Frame.module
           waited == WaitedOn(Required)
           low == IF Status(Required) = "evaluating"
                     /\ modules[Required].dfsAncestor < modules[m].dfsAncestor
                  THEN modules[Required].dfsAncestor ELSE modules[m].dfsAncestor
           lowered == [modules EXCEPT ![m].dfsAncestor = low]
       IN  IF Status(Required) = "failed" THEN FailWalk(modules[Required].error)
           ELSE IF Status(waited) = "failed" THEN FailWalk(modules[waited].error)
           ELSE /\ modules' = IF modules[waited].asyncEvaluation
                              THEN [lowered EXCEPT ![m].pendingAsync = @ + 1,
                                                   ![waited].asyncParents = Append(@, m)]
                              ELSE lowered
                /\ frames' = [frames EXCEPT ![Len(frames)].next = @ + 1]
                /\ UNCHANGED <<stack, index>>
    /\ UNCHANGED <<graph, asyncOrder, gathering, ready, running, jobs, starts, begun>>

\* A cycle's root takes its members off the stack, itself the last.
Place(m) == CHOOSE k \in DOMAIN stack : stack[k] = m
IsRoot(m) == modules[m].dfsAncestor = modules[m].dfsIndex
Component(m) == IF IsRoot(m) THEN {stack[k] : k \in Place(m) .. Len(stack)} ELSE {}

\* evaluateFrom's return, and at the root's evaluateRoot's.
Return(records, m) ==
    LET component == Component(m)
        closed == [n \in Module |->
            IF n \in component
            THEN [records[n] EXCEPT !.status = IF records[n].asyncEvaluation
                                               THEN "async" ELSE "evaluated",
                                    !.cycleRoot = m]
            ELSE records[n]]
    IN  /\ modules' = IF Len(frames) = 1 /\ ~records[m].asyncEvaluation
                      THEN [closed EXCEPT ![m].capability = Fulfilled] ELSE closed
        /\ frames' = Front(frames)
        /\ stack' = IF IsRoot(m) THEN SubSeq(stack, 1, Place(m) - 1) ELSE stack
        /\ index' = IF Len(frames) = 1 THEN 0 ELSE index

AtEnd == frames # <<>> /\ Frame.next > Len(Requested(Frame.module))

\* A module that awaits, or waits: it turns async, and runs now if it waits
\* for nothing.
TurnAsync ==
    /\ AtEnd
    /\ LET m == Frame.module
           turned == [modules EXCEPT ![m].asyncEvaluation = TRUE, ![m].asyncOrder = asyncOrder]
           runs == modules[m].pendingAsync = 0
       IN  /\ modules[m].pendingAsync > 0 \/ HasAwait(m)
           /\ asyncOrder' = asyncOrder + 1
           /\ running' = IF runs THEN running \union {m} ELSE running
           /\ starts' = IF runs THEN [starts EXCEPT ![m] = @ + 1] ELSE starts
           /\ Return(turned, m)
    /\ UNCHANGED <<graph, gathering, ready, jobs, begun>>

\* Any other runs, and may throw.
Execute ==
    /\ AtEnd
    /\ LET m == Frame.module
       IN  /\ modules[m].pendingAsync = 0 /\ ~HasAwait(m)
           /\ starts' = [starts EXCEPT ![m] = @ + 1]
           /\ FailWalk(m) \/ Return(modules, m)
    /\ UNCHANGED <<graph, asyncOrder, gathering, ready, running, jobs, begun>>
-----------------------------------------------------------------------------
(* Modules that await *)

\* An awaiting body ends or throws, and the job for it is queued.  One may
\* as soon as it begins; but jobs run when nothing else does, so that only
\* the order of these ends counts.
BodyEnds(m) ==
    /\ Idle /\ m \in running
    /\ running' = running \ {m}
    /\ \E throws \in BOOLEAN : jobs' = Append(jobs, [module |-> m, throws |-> throws])
    /\ UNCHANGED <<graph, modules, asyncOrder, frames, stack, index, gathering, ready, starts, begun>>

\* finishEvaluation.
Finished(m) ==
    [modules EXCEPT ![m].asyncEvaluation = FALSE, ![m].status = "evaluated",
                    ![m].capability = IF @ = None THEN @ ELSE Fulfilled]

\* asyncModuleFulfilled, as far as the call of gatherAncestors.
ModuleFulfilled ==
    /\ Idle /\ jobs # <<>> /\ ~Head(jobs).throws
    /\ LET m == Head(jobs).module
       IN  IF Status(m) # "async" THEN UNCHANGED <<modules, gathering>>
           ELSE modules' = Finished(m) /\ gathering' = <<[module |-> m, next |-> 1]>>
    /\ jobs' = Tail(jobs)
    /\ UNCHANGED <<graph, asyncOrder, frames, stack, index, ready, running, starts, begun>>

\* Variant: all of a finished module's parents are listed.
AvailableAtOnce(pending) == TRUE

Available(pending) == pending = 0

Gatherer == Last(gathering)
Parents == modules[Gatherer.module].asyncParents
NextGathered == [gathering EXCEPT ![Len(gathering)].next = @ + 1]

\* gatherAncestors: those waiting on a module that now wait on nothing else
\* are listed, and at once, unless they await, theirs.
CountParent ==
    /\ gathering # <<>> /\ Gatherer.next <= Len(Parents)
    /\ LET parent == Parents[Gatherer.next]
           pending == modules[parent].pendingAsync - 1
       IN  IF \/ parent \in ready
              \/ Status(modules[parent].cycleRoot) = "failed"
              \/ modules[parent].pendingAsync = 0
           THEN gathering' = NextGathered /\ UNCHANGED <<modules, ready>>
           ELSE /\ modules' = [modules EXCEPT ![parent].pendingAsync = pending]
                /\ ready' = IF Available(pending) THEN ready \union {parent} ELSE ready
                /\ gathering' = IF Available(pending) /\ ~HasAwait(parent)
                                THEN Append(NextGathered, [module |-> parent, next |-> 1])
                                ELSE NextGathered
    /\ UNCHANGED <<graph, asyncOrder, frames, stack, index, running, jobs, starts, begun>>

ParentsCounted ==
    /\ gathering # <<>> /\ Gatherer.next > Len(Parents)
    /\ gathering' = Front(gathering)
    /\ UNCHANGED <<graph, modules, asyncOrder, frames, stack, index, ready, running, jobs, starts, begun>>

\* asyncModuleRejected: m and what waits on it fail.
\* Variant: only what waits on m itself, and not what waits on that.
RejectedNearby(m) == {m} \union Range(modules[m].asyncParents)

Rejected(m) ==
    IF Status(m) = "failed" THEN {}
    ELSE From(m, [k \in Module |-> {p \in Range(modules[k].asyncParents) : Status(p) # "failed"}])

Reject(m, e) ==
    LET failing == Rejected(m)
    IN  modules' = [n \in Module |->
            IF n \in failing
            THEN [modules[n] EXCEPT !.status = "failed", !.error = e,
                                    !.capability = IF @ = None THEN @ ELSE Promise("rejected", e)]
            ELSE modules[n]]

ModuleRejected ==
    /\ Idle /\ jobs # <<>> /\ Head(jobs).throws
    /\ Reject(Head(jobs).module, Head(jobs).module)
    /\ jobs' = Tail(jobs)
    /\ UNCHANGED <<graph, asyncOrder, frames, stack, index, gathering, ready, running, starts, begun>>

\* The next of the list, which is in the order in which they turned async:
\* skipped when it has failed meanwhile.
RunReady ==
    /\ gathering = <<>>
    /\ \E m \in ready :
           /\ \A n \in ready : modules[m].asyncOrder <= modules[n].asyncOrder
           /\ ready' = ready \ {m}
           /\ IF Status(m) = "failed" THEN UNCHANGED <<modules, running, starts>>
              ELSE /\ starts' = [starts EXCEPT ![m] = @ + 1]
                   /\ IF HasAwait(m)
                      THEN running' = running \union {m} /\ UNCHANGED modules
                      ELSE /\ Reject(m, m) \/ modules' = Finished(m)
                           /\ UNCHANGED running
    /\ UNCHANGED <<graph, asyncOrder, frames, stack, index, gathering, jobs, begun>>
-----------------------------------------------------------------------------
Engine == \/ WalkInto \/ Require \/ TurnAsync \/ Execute
          \/ ModuleFulfilled \/ CountParent \/ ParentsCounted \/ ModuleRejected \/ RunReady

Next ==
    \/ \E m \in Module : Start(m) \/ BodyEnds(m)
    \/ Engine

\* The engine runs whatever it has to, and every body ends: a program whose
\* module awaits what never comes keeps its importers waiting.
Fairness == WF_vars(Engine) /\ \A m \in Module : WF_vars(BodyEnds(m))

Spec == Init /\ [][Next]_vars /\ Fairness
-----------------------------------------------------------------------------
(* Properties *)

\* A module's body begins once, and only when each module it requests that
\* does not wait for it in turn, with all that one reaches, has been
\* evaluated: whichever evaluation began it and however many bodies had to
\* be awaited.
DependenciesFirst ==
    LET reaches == Connected(Imports)
    IN  \A m \in Module :
            /\ starts[m] <= 1
            /\ starts[m] = 1 =>
                   \A n \in Range(Requested(m)) :
                       \/ <<n, m>> \in reaches
                       \/ \A k \in Module : <<n, k>> \in reaches => Status(k) = "evaluated"

\* An evaluation's promise is fulfilled only when all its graph has been
\* evaluated, and rejected only with what a module of the graph threw.
SettledTruly ==
    LET reaches == Connected(Imports)
    IN  \A m \in Module :
            LET promise == modules[m].capability
            IN  /\ promise.state = "fulfilled" =>
                       \A n \in Module : <<m, n>> \in reaches => Status(n) = "evaluated"
                /\ promise.state = "rejected" =>
                       <<m, promise.error>> \in reaches /\ Status(promise.error) = "failed"

\* Every evaluation's promise settles when the bodies it waits for end.
EveryEvaluationSettles ==
    \A m \in Module : modules[m].capability.state = "pending"
                          ~> modules[m].capability.state # "pending"
=============================================================================
