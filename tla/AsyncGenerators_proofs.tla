----------------------- MODULE AsyncGenerators_proofs -----------------------
(***************************************************************************)
(* AsyncGenerators, for any number of requests and of stops, and a program *)
(* without a `then` accessor on Object.prototype.                          *)
(***************************************************************************)
EXTENDS AsyncGenerators, SequenceTheorems, TLAPS

Activations == [at : {"resumeNext", "body", "then", "constructor"},
                request : 0..MaxRequests, reaction : Reactions \cup {"none"}]

LEMMA InitInv == Init => Inv
  BY BoundsAssumption DEF Init, Inv, TypeOK, DrivenOnce, OneWaker, DriverInv, QueueInv, DrivesInv,
     States, Kinds, Modes, Reactions, Outstanding, TopIs

\* The one activation, and what is below it.
LEMMA OneActivation ==
  ASSUME Inv, stack # <<>>
  PROVE  Len(stack) = 1 /\ Top = stack[1] /\ Below = <<>>
  <1>1. Len(stack) = 1 BY DEF Inv, DriverInv
  <1>2. stack \in Seq(Activations) BY DEF Inv, TypeOK, Activations
  <1>3. SubSeq(stack, 1, 0) = <<>> BY <1>2, SubSeqProperties, EmptySeq
  <1> QED BY <1>1, <1>3 DEF Top, Below

\* The answered requests and the queue, laid end to end.
LEMMA QueueIsRest == ASSUME Inv PROVE AnsweredInOrder
  <1> USE DEF Inv, TypeOK, QueueInv
  <1>1. answers \o queue \in Seq(1..MaxRequests) /\ Len(answers \o queue) = Len(requests)
    BY ConcatProperties
  <1>2. \A i \in 1..Len(requests) : (answers \o queue)[i] = i
    <2> TAKE i \in 1..Len(requests)
    <2>1. CASE i <= Len(answers)
      <3>1. (answers \o queue)[i] = answers[i] BY <2>1, ConcatProperties
      <3> QED BY <2>1, <3>1
    <2>2. CASE i > Len(answers)
      <3>1. i - Len(answers) \in 1..Len(queue) BY <2>2
      <3>2. (answers \o queue)[i] = queue[i - Len(answers)] BY <2>2, ConcatProperties
      <3> QED BY <3>1, <3>2
    <2> QED BY <2>1, <2>2
  <1>3. answers \o queue = [i \in 1..Len(answers \o queue) |-> (answers \o queue)[i]]
    BY <1>1, LenProperties
  <1> QED BY <1>1, <1>2, <1>3 DEF AnsweredInOrder

\* A request joins the queue.
LEMMA Enqueued ==
  ASSUME Inv, NEW mode \in Modes, Len(requests) < MaxRequests,
         requests' = Append(requests, mode), queue' = Append(queue, Len(requests) + 1),
         UNCHANGED answers
  PROVE  /\ QueueInv' /\ queue' # <<>>
         /\ queue' \in Seq(1..MaxRequests) /\ requests' \in Seq(Modes) /\ Len(requests') <= MaxRequests
         /\ queue # <<>> => Head(queue') = Head(queue)
  <1> USE DEF Inv, TypeOK, QueueInv
  <1>1. Len(requests) + 1 \in 1..MaxRequests BY BoundsAssumption
  <1>2. queue' \in Seq(1..MaxRequests) /\ Len(queue') = Len(queue) + 1
        /\ \A i \in 1..Len(queue') : queue'[i] = IF i <= Len(queue) THEN queue[i] ELSE Len(requests) + 1
    BY <1>1, AppendProperties
  <1>3. requests' \in Seq(Modes) /\ Len(requests') = Len(requests) + 1 BY AppendProperties
  <1>4. QueueInv'
    <2>1. Len(answers) + Len(queue) = Len(requests) OBVIOUS
    <2>2. Len(answers') + Len(queue') = Len(requests') BY <1>2, <1>3, <2>1
    <2>3. \A i \in 1..Len(queue') : queue'[i] = Len(answers') + i
      <3> TAKE i \in 1..Len(queue')
      <3>1. CASE i <= Len(queue)
        <4>1. i \in 1..Len(queue) BY <3>1, <1>2
        <4>2. queue'[i] = queue[i] BY <3>1, <1>2
        <4> QED BY <4>1, <4>2
      <3>2. CASE i > Len(queue)
        <4>1. i = Len(queue) + 1 BY <3>2, <1>2
        <4>2. queue'[i] = Len(requests) + 1 BY <3>2, <1>2
        <4> QED BY <4>1, <4>2, <2>1
      <3> QED BY <1>2, <3>1, <3>2
    <2> QED BY <2>2, <2>3
  <1>5. queue # <<>> => Head(queue') = Head(queue) BY <1>1, HeadTailAppend
  <1>6. queue' # <<>> BY <1>2, EmptySeq
  <1>7. Len(requests') <= MaxRequests BY <1>3, BoundsAssumption
  <1> QED BY <1>2, <1>3, <1>4, <1>5, <1>6, <1>7

\* The front request is answered and popped.
LEMMA FrontAnswered ==
  ASSUME Inv, queue # <<>>, AnswerAndPop(Head(queue)), UNCHANGED requests
  PROVE  /\ QueueInv' /\ Len(answers') = Len(answers) + 1
         /\ queue' \in Seq(1..MaxRequests) /\ answers' \in Seq(1..MaxRequests)
  <1> USE DEF Inv, TypeOK, QueueInv
  <1>2. Head(queue) = queue[1] /\ 1 \in 1..Len(queue) BY EmptySeq
  <1>3. Len(Tail(queue)) = Len(queue) - 1 /\ Tail(queue) \in Seq(1..MaxRequests)
        /\ \A i \in 1..Len(queue) - 1 : Tail(queue)[i] = queue[i + 1]
    BY HeadTailProperties
  <1>4. Head(queue) = Len(answers) + 1 /\ Head(queue) \in 1..MaxRequests BY <1>2, HeadTailProperties
  <1>7. ~Answered(Head(queue))
    <2>1. DOMAIN answers = 1..Len(answers) /\ Len(answers) \in Nat BY LenProperties
    <2>2. \A i \in DOMAIN answers : answers[i] = i /\ i <= Len(answers) BY <2>1
    <2> QED BY <1>4, <2>1, <2>2 DEF Answered
  <1>1. queue' = Tail(queue) /\ answers' = Append(answers, Head(queue))
    BY <1>7 DEF AnswerAndPop, Popped
  <1>5. answers' \in Seq(1..MaxRequests) /\ Len(answers') = Len(answers) + 1
        /\ \A i \in 1..Len(answers') : answers'[i] = IF i <= Len(answers) THEN answers[i] ELSE Head(queue)
    BY <1>1, <1>4, AppendProperties
  <1>6. QueueInv' BY <1>1, <1>3, <1>4, <1>5
  <1> QED BY <1>1, <1>3, <1>5, <1>6
-----------------------------------------------------------------------------
(***************************************************************************)
(* What the driver does next, from an empty stack.                         *)
(***************************************************************************)
LEMMA Entered ==
  ASSUME NEW a \in Activations, Enter(<<>>, a)
  PROVE  /\ stack' \in Seq(Activations) /\ Len(stack') = 1 /\ stack' # <<>> /\ Top' = a
         /\ \A place : TopIs(place)' <=> a.at = place
  <1>1. stack' = <<a>> BY DEF Enter
  <1>2. Len(stack') = 1 /\ stack'[1] = a BY <1>1
  <1>3. stack' # <<>> BY <1>2
  <1>4. Top' = a BY <1>2 DEF Top
  <1>5. \A place : TopIs(place)' <=> a.at = place BY <1>3, <1>4 DEF TopIs
  <1> QED BY <1>1, <1>2, <1>3, <1>4, <1>5

\* The front request is about to be answered with a result.
LEMMA ResolveInv ==
  ASSUME Inv, queue # <<>>, Resolve(<<>>), state' \in {"yielded", "completed"},
         kind' \in Kinds, stops' \in 0..MaxStops, reactions' \in [Reactions -> 0..1],
         Outstanding' = {}, UNCHANGED <<requests, drives>>
  PROVE  Inv'
  <1> DEFINE a == ThenActivation(Head(queue))
  <1>1. Head(queue) \in 1..MaxRequests BY HeadTailProperties DEF Inv, TypeOK
  <1>2. a \in Activations /\ a.at = "then" /\ a.request = Head(queue)
    BY <1>1, BoundsAssumption DEF Activations, ThenActivation, Activation
  <1>3. Enter(<<>>, a) /\ UNCHANGED <<queue, answers>> BY DEF Resolve
  <1> HIDE DEF a
  <1>4. /\ stack' \in Seq(Activations) /\ Len(stack') = 1 /\ stack' # <<>> /\ Top' = a
        /\ \A place : TopIs(place)' <=> a.at = place
    BY <1>2, <1>3, Entered
  <1>5. TypeOK' BY <1>3, <1>4 DEF Inv, TypeOK, States, Activations
  <1>6. OneWaker' BY <1>4 DEF OneWaker
  <1>7. DriverInv' BY <1>2, <1>3, <1>4 DEF DriverInv, Idle
  <1>8. QueueInv' BY <1>3 DEF Inv, QueueInv
  <1>9. DrivesInv' BY <1>2, <1>3, <1>4 DEF Inv, DrivesInv
  <1>10. DrivenOnce' BY DEF Inv, DrivenOnce
  <1> QED BY <1>5, <1>6, <1>7, <1>8, <1>9, <1>10 DEF Inv

LEMMA ResumeNextEntered ==
  ASSUME Enter(<<>>, ResumeNextActivation)
  PROVE  /\ stack' \in Seq(Activations) /\ Len(stack') = 1 /\ stack' # <<>>
         /\ Top' = ResumeNextActivation /\ Top'.at = "resumeNext"
         /\ \A place : TopIs(place)' <=> place = "resumeNext"
  <1>1. ResumeNextActivation \in Activations /\ ResumeNextActivation.at = "resumeNext"
    BY BoundsAssumption DEF Activations, ResumeNextActivation, Activation
  <1> QED BY <1>1, Entered

\* The front request has been answered: the next one is looked at.
LEMMA AnsweredInv ==
  ASSUME Inv, queue # <<>>, AnswerAndPop(Head(queue)), Enter(<<>>, ResumeNextActivation),
         state' \in {"yielded", "completed"}, reactions' \in [Reactions -> 0..1],
         Outstanding' = {}, UNCHANGED <<kind, requests, stops, drives>>
  PROVE  Inv'
  <1>1. /\ QueueInv' /\ Len(answers') = Len(answers) + 1
        /\ queue' \in Seq(1..MaxRequests) /\ answers' \in Seq(1..MaxRequests)
    BY FrontAnswered
  <1>2. /\ stack' \in Seq(Activations) /\ Len(stack') = 1 /\ stack' # <<>>
        /\ Top'.at = "resumeNext"
    BY ResumeNextEntered
  <1>3. TypeOK' BY <1>1, <1>2 DEF Inv, TypeOK, States, Activations
  <1>4. OneWaker' BY <1>2 DEF OneWaker
  <1>5. DriverInv' BY <1>2 DEF DriverInv, Idle
  <1>6. DrivesInv'
    <2>1. \A i \in DOMAIN drives' : drives'[i] <= Len(answers') BY <1>1 DEF Inv, DrivesInv
    <2>2. drives \in Seq(1..MaxRequests) BY DEF Inv, TypeOK
    <2>3. DOMAIN drives = 1..Len(drives) /\ drives \in [1..Len(drives) -> 1..MaxRequests]
      BY <2>2, LenProperties
    <2>4. \A i \in DOMAIN drives : drives[i] \in Nat BY <2>3
    <2> QED BY <1>1, <2>1, <2>4 DEF Inv, TypeOK, DrivesInv
  <1>7. DrivenOnce' BY DEF Inv, DrivenOnce
  <1> QED BY <1>1, <1>3, <1>4, <1>5, <1>6, <1>7 DEF Inv

\* The body runs, for the front request or after an await.
LEMMA BodyRunsInv ==
  ASSUME Inv, queue # <<>>, state' = "running", Enter(<<>>, BodyActivation),
         UNCHANGED <<queue, answers, kind, requests, stops>>, drives' \in Seq(1..MaxRequests),
         DrivenOnce', \A i \in DOMAIN drives' : drives'[i] <= Len(answers) + 1,
         reactions' \in [Reactions -> 0..1], Outstanding' = {}
  PROVE  Inv'
  <1>1. BodyActivation \in Activations /\ BodyActivation.at = "body"
    BY BoundsAssumption DEF Activations, BodyActivation, Activation
  <1>2. /\ stack' \in Seq(Activations) /\ Len(stack') = 1 /\ stack' # <<>>
        /\ Top'.at = "body" /\ \A place : TopIs(place)' <=> place = "body"
    BY <1>1, Entered
  <1>3. TypeOK' BY <1>2 DEF Inv, TypeOK, States, Activations
  <1>4. OneWaker' BY <1>2 DEF OneWaker
  <1>5. DriverInv' BY <1>2 DEF DriverInv
  <1>6. QueueInv' BY DEF Inv, QueueInv
  <1>7. DrivesInv' BY <1>2 DEF DrivesInv
  <1> QED BY <1>3, <1>4, <1>5, <1>6, <1>7 DEF Inv

\* A value is awaited on behalf of the front request.
LEMMA AwaitInv ==
  ASSUME Inv, queue # <<>>, NEW k \in Reactions, Await(<<>>, k), Outstanding = {},
         state' = IF k = "returnDone" THEN "awaitingReturn" ELSE "awaiting",
         kind' \in Kinds, k \in {"await", "yield"} => kind' = k, stops' \in 0..MaxStops,
         UNCHANGED <<queue, answers, requests>>, drives' \in Seq(1..MaxRequests),
         DrivenOnce', \A i \in DOMAIN drives' : drives'[i] <= Len(answers) + 1
  PROVE  Inv'
  <1>1. \A j \in Reactions : reactions[j] = 0 BY DEF Outstanding, Inv, TypeOK
  <1>2. state' \in States /\ ~Idle' BY DEF States, Idle
  <1>3. QueueInv' BY DEF Inv, QueueInv
  <1>4. CASE stack' = <<>> /\ reactions' = [reactions EXCEPT ![k] = @ + 1]
    <2>1. reactions' \in [Reactions -> 0..1] /\ reactions'[k] = 1 /\ Outstanding' = {k}
      BY <1>1, <1>4 DEF Inv, TypeOK, Outstanding
    <2>2. stack' \in Seq(Activations) BY <1>4, EmptySeq
    <2>3. TypeOK' BY <1>2, <2>1, <2>2 DEF Inv, TypeOK, Activations
    <2>4. OneWaker' BY <2>1 DEF OneWaker, Reactions
    <2>5. DriverInv' BY <1>4 DEF DriverInv
    <2>6. DrivesInv' BY <1>2, <1>4 DEF DrivesInv, TopIs
    <2> QED BY <1>3, <2>3, <2>4, <2>5, <2>6 DEF Inv
  <1>5. CASE Enter(<<>>, ConstructorActivation(k)) /\ UNCHANGED reactions
    <2> DEFINE a == ConstructorActivation(k)
    <2>1. a \in Activations /\ a.at = "constructor" /\ a.reaction = k
      BY BoundsAssumption DEF Activations, ConstructorActivation, Activation
    <2> HIDE DEF a
    <2>2. /\ stack' \in Seq(Activations) /\ Len(stack') = 1 /\ stack' # <<>> /\ Top' = a
          /\ \A place : TopIs(place)' <=> place = "constructor"
      BY <1>5, <2>1, Entered DEF a
    <2>3. TypeOK' BY <1>2, <1>5, <2>2 DEF Inv, TypeOK, Activations
    <2>4. OneWaker' BY <2>2 DEF OneWaker
    <2>5. DriverInv' BY <1>5, <2>1, <2>2 DEF DriverInv, Outstanding
    <2>6. DrivesInv' BY <2>2 DEF DrivesInv
    <2> QED BY <1>3, <2>3, <2>4, <2>5, <2>6 DEF Inv
  <1> QED BY <1>4, <1>5 DEF Await

\* The body has thrown, or returned; or it is resumed, or cannot be.
LEMMA AfterInv ==
  ASSUME Inv, queue # <<>>, AfterThrow(<<>>) \/ AfterReturn(<<>>),
         reactions' \in [Reactions -> 0..1], Outstanding' = {},
         UNCHANGED <<kind, requests, stops, drives>>
  PROVE  Inv'
  <1>1. kind' \in Kinds /\ stops' \in 0..MaxStops BY DEF Inv, TypeOK
  <1>2. CASE AfterThrow(<<>>) BY <1>2, AnsweredInv DEF AfterThrow, Reject
  <1>3. CASE AfterReturn(<<>>) BY <1>1, <1>3, ResolveInv DEF AfterReturn
  <1> QED BY <1>2, <1>3

LEMMA ResumeInv ==
  ASSUME Inv, queue # <<>>, NEW mode \in Modes, Resume(<<>>, mode),
         reactions' \in [Reactions -> 0..1], Outstanding' = {},
         UNCHANGED <<kind, requests, stops, drives>>
  PROVE  Inv'
  <1>1. CASE AfterThrow(<<>>) \/ AfterReturn(<<>>) BY <1>1, AfterInv
  <1>2. CASE state' = "running" /\ Enter(<<>>, BodyActivation) /\ UNCHANGED <<queue, answers>>
    <2>1. drives' \in Seq(1..MaxRequests) /\ DrivenOnce'
          /\ \A i \in DOMAIN drives' : drives'[i] <= Len(answers) + 1
      BY DEF Inv, TypeOK, DrivenOnce, DrivesInv
    <2> QED BY <1>2, <2>1, BodyRunsInv
  <1> QED BY <1>1, <1>2 DEF Resume
-----------------------------------------------------------------------------
(***************************************************************************)
(* One lemma for each action.                                              *)
(***************************************************************************)
LEMMA RequestInv ==
  ASSUME Inv, ~ThenCalls, NEW mode \in Modes, Request(mode)
  PROVE  Inv'
  <1> USE DEF Request
  <1>1. /\ QueueInv' /\ queue' # <<>>
        /\ queue' \in Seq(1..MaxRequests) /\ requests' \in Seq(Modes) /\ Len(requests') <= MaxRequests
        /\ queue # <<>> => Head(queue') = Head(queue)
    BY Enqueued
  <1>2. DrivenOnce' BY DEF Inv, DrivenOnce
  <1>3. CASE state \in Busy
    <2>1. UNCHANGED stack BY <1>3
    <2>2. TypeOK' BY <1>1, <2>1 DEF Inv, TypeOK
    <2>3. OneWaker' BY <1>1, <1>3, <2>1 DEF Inv, OneWaker, Outstanding, Busy
    <2>4. DriverInv' BY <1>1, <1>3, <2>1 DEF Inv, DriverInv, Outstanding, Top, Idle
    <2>5. DrivesInv' BY <1>3, <2>1 DEF Inv, DrivesInv, TopIs, Idle, Top
    <2> QED BY <1>1, <1>2, <2>2, <2>3, <2>4, <2>5 DEF Inv
  <1>4. CASE state \notin Busy
    <2>1. Idle BY <1>4 DEF Inv, TypeOK, States, Busy, Idle
    <2>2. stack = <<>> BY <1>4 DEF ProgramRuns, TopIs, Inv, DriverInv, Busy
    <2>3. /\ stack' \in Seq(Activations) /\ Len(stack') = 1 /\ stack' # <<>>
          /\ Top'.at = "resumeNext"
      BY <1>4, <2>2, ResumeNextEntered
    <2>4. TypeOK' BY <1>1, <2>3 DEF Inv, TypeOK, Activations
    <2>5. OneWaker' BY <2>3 DEF OneWaker
    <2>6. DriverInv'
      <3>1. Outstanding' = {} BY <2>1, <2>2 DEF Inv, OneWaker, Idle, Outstanding
      <3> QED BY <2>1, <2>3, <3>1 DEF DriverInv, Idle
    <2>7. DrivesInv' BY <2>1, <2>2 DEF Inv, DrivesInv
    <2> QED BY <1>1, <1>2, <2>4, <2>5, <2>6, <2>7 DEF Inv
  <1> QED BY <1>3, <1>4

\* The actions of the driver and the body start from its one activation.
LEMMA ThenReadInv == ASSUME Inv, ThenRead PROVE Inv'
  <1>1. Len(stack) = 1 /\ Top = stack[1] /\ Below = <<>> /\ Top.at = "then"
    BY OneActivation DEF ThenRead, TopIs
  <1>2. Idle /\ queue # <<>> /\ Top.request = Head(queue) /\ Outstanding = {}
    BY <1>1 DEF Inv, DriverInv, ThenRead, TopIs
  <1>3. reactions' \in [Reactions -> 0..1] /\ Outstanding' = {}
    BY <1>2 DEF Inv, TypeOK, ThenRead, Outstanding
  <1> QED BY <1>1, <1>2, <1>3, AnsweredInv DEF ThenRead, Idle

LEMMA ConstructorInv == ASSUME Inv, ConstructorRead \/ ConstructorThrew PROVE Inv'
  <1>1. TopIs("constructor") BY DEF ConstructorRead, ConstructorThrew
  <1>2. Top = stack[1] /\ Below = <<>> /\ Top.at = "constructor" /\ stack # <<>>
    BY <1>1, OneActivation DEF TopIs
  <1> DEFINE k == Top.reaction
  <1>3. /\ queue # <<>> /\ k \in Reactions /\ Outstanding = {}
        /\ state = IF k = "returnDone" THEN "awaitingReturn" ELSE "awaiting"
        /\ k \in {"await", "yield"} => kind = k
    BY <1>2 DEF Inv, DriverInv
  <1>4. CASE ConstructorRead
    <2>1. Await(<<>>, k) BY <1>2, <1>4 DEF Await, ConstructorRead
    <2>2. drives' \in Seq(1..MaxRequests) /\ DrivenOnce'
          /\ \A i \in DOMAIN drives' : drives'[i] <= Len(answers) + 1
      BY <1>4 DEF Inv, TypeOK, DrivenOnce, DrivesInv, ConstructorRead
    <2>3. kind' \in Kinds /\ kind' = kind /\ stops' \in 0..MaxStops /\ state' = state
          /\ UNCHANGED <<queue, answers, requests>>
      BY <1>4 DEF Inv, TypeOK, ConstructorRead
    <2> HIDE DEF k
    <2> QED BY <1>3, <2>1, <2>2, <2>3, AwaitInv
  <1>5. CASE ConstructorThrew
    <2>1. reactions' \in [Reactions -> 0..1] /\ Outstanding' = {}
      BY <1>3, <1>5 DEF Inv, TypeOK, ConstructorThrew, Outstanding
    <2>2. AfterThrow(<<>>) \/ Resume(<<>>, "throw") BY <1>2, <1>5 DEF ConstructorThrew
    <2>3. "throw" \in Modes BY DEF Modes
    <2> QED BY <1>3, <1>5, <2>1, <2>2, <2>3, AfterInv, ResumeInv DEF ConstructorThrew
  <1> QED BY <1>4, <1>5

LEMMA ResumeNextInv == ASSUME Inv, ResumeNext PROVE Inv'
  <1>1. Below = <<>> /\ Top.at = "resumeNext" /\ stack # <<>> /\ TopIs("resumeNext")
    BY OneActivation DEF ResumeNext, TopIs
  <1>2. Idle /\ Outstanding = {} BY <1>1 DEF Inv, DriverInv
  <1>3. UNCHANGED <<kind, requests, stops>> /\ kind' \in Kinds /\ stops' \in 0..MaxStops
    BY DEF ResumeNext, Inv, TypeOK
  <1>4. CASE queue = <<>>
    <2>1. stack' = <<>> /\ UNCHANGED <<state, queue, reactions, answers, drives>>
      BY <1>1, <1>4 DEF ResumeNext
    <2>2. TypeOK' BY <1>3, <2>1, EmptySeq DEF Inv, TypeOK
    <2>3. OneWaker' BY <1>2, <1>4, <2>1 DEF OneWaker, Idle, Outstanding
    <2>4. DriverInv' BY <2>1 DEF DriverInv
    <2>5. QueueInv' BY <1>3, <2>1 DEF Inv, QueueInv
    <2>6. DrivesInv' BY <1>1, <2>1 DEF Inv, DrivesInv
    <2>7. DrivenOnce' BY <2>1 DEF Inv, DrivenOnce
    <2> QED BY <2>2, <2>3, <2>4, <2>5, <2>6, <2>7 DEF Inv
  <1>5. CASE queue # <<>>
    <2> DEFINE front == Head(queue)
               mode == requests[front]
               ended == state = "completed" \/ (kind = "unstarted" /\ mode # "next")
    <2>1. front = Len(answers) + 1 /\ front \in 1..MaxRequests /\ mode \in Modes
      <3> queue \in Seq(1..MaxRequests) BY DEF Inv, TypeOK
      <3>1. front = queue[1] /\ 1 \in 1..Len(queue) /\ front \in 1..MaxRequests
        <4>1. 1 \in 1..Len(queue) BY <1>5, EmptySeq
        <4>2. front = queue[1] BY <1>5
        <4> QED BY <4>1, <4>2, ElementOfSeq
      <3>2. front = Len(answers) + 1 /\ front \in 1..Len(requests)
        BY <3>1 DEF Inv, TypeOK, QueueInv
      <3> QED BY <3>1, <3>2, ElementOfSeq DEF Inv, TypeOK
    <2>2. \A i \in DOMAIN drives : drives[i] \in Nat /\ drives[i] <= Len(answers)
      <3>1. DOMAIN drives = 1..Len(drives) /\ drives \in [1..Len(drives) -> 1..MaxRequests]
        BY LenProperties DEF Inv, TypeOK
      <3> QED BY <1>1, <3>1 DEF Inv, DrivesInv
    <2>3. ASSUME drives' = drives
          PROVE  drives' \in Seq(1..MaxRequests) /\ DrivenOnce'
                 /\ \A i \in DOMAIN drives' : drives'[i] <= Len(answers) + 1
      BY <2>3 DEF Inv, TypeOK, DrivenOnce, DrivesInv
    <2>4. ASSUME drives' = Append(drives, front)
          PROVE  drives' \in Seq(1..MaxRequests) /\ DrivenOnce'
                 /\ \A i \in DOMAIN drives' : drives'[i] <= Len(answers) + 1
      <3>1. /\ drives' \in Seq(1..MaxRequests) /\ DOMAIN drives' = 1..Len(drives) + 1
            /\ \A i \in 1..Len(drives) + 1 : drives'[i] = IF i <= Len(drives) THEN drives[i] ELSE front
        <4>1. drives \in Seq(1..MaxRequests) /\ Len(drives) \in Nat BY LenProperties DEF Inv, TypeOK
        <4> HIDE DEF front
        <4>2. /\ drives' \in Seq(1..MaxRequests) /\ Len(drives') = Len(drives) + 1
              /\ \A i \in 1..Len(drives) + 1 : drives'[i] = IF i <= Len(drives) THEN drives[i] ELSE front
          BY <2>1, <2>4, <4>1, AppendProperties
        <4>3. DOMAIN drives' = 1..Len(drives') BY <4>2, LenProperties
        <4> QED BY <4>2, <4>3
      <3>2. DOMAIN drives = 1..Len(drives) /\ Len(drives) \in Nat BY LenProperties DEF Inv, TypeOK
      <3> HIDE DEF front
      <3>3. \A i \in DOMAIN drives' : drives'[i] <= Len(answers) + 1
        BY <2>1, <2>2, <3>1, <3>2 DEF Inv, TypeOK
      <3>4. DrivenOnce'
        <4> SUFFICES ASSUME NEW i \in DOMAIN drives', NEW j \in DOMAIN drives', i < j
                     PROVE  drives'[i] < drives'[j]
          BY DEF DrivenOnce
        <4>1. i \in DOMAIN drives /\ drives'[i] = drives[i] BY <3>1, <3>2
        <4>2. CASE j <= Len(drives)
          <5>1. j \in DOMAIN drives /\ drives'[j] = drives[j] BY <3>1, <3>2, <4>2
          <5> QED BY <4>1, <5>1 DEF Inv, DrivenOnce
        <4>3. CASE j > Len(drives)
          <5>1. drives'[j] = front BY <3>1, <3>2, <4>3
          <5> QED BY <2>1, <2>2, <4>1, <5>1 DEF Inv, TypeOK
        <4> QED BY <3>1, <3>2, <4>2, <4>3
      <3> QED BY <3>1, <3>3, <3>4
    <2>5. CASE ended /\ mode = "return"
      <3>1. /\ state' = "awaitingReturn" /\ Await(<<>>, "returnDone")
            /\ UNCHANGED <<queue, answers, drives>>
        BY <1>1, <1>5, <2>5 DEF ResumeNext
      <3> QED BY <1>2, <1>3, <1>5, <2>3, <3>1, AwaitInv DEF Reactions
    <2>6. CASE ended /\ mode # "return"
      <3>1. (AfterThrow(<<>>) \/ AfterReturn(<<>>)) /\ UNCHANGED <<reactions, drives>>
        BY <1>1, <1>5, <2>1, <2>6 DEF ResumeNext, Modes
      <3>2. reactions' \in [Reactions -> 0..1] /\ Outstanding' = {}
        BY <1>2, <3>1 DEF Inv, TypeOK, Outstanding
      <3> QED BY <1>3, <1>5, <3>1, <3>2, AfterInv
    <2>7. CASE ~ended /\ mode = "return"
      <3>1. /\ state' = "awaiting" /\ Await(<<>>, "resumeReturn")
            /\ drives' = Append(drives, front) /\ UNCHANGED <<queue, answers>>
        BY <1>1, <1>5, <2>7 DEF ResumeNext
      <3> QED BY <1>2, <1>3, <1>5, <2>4, <3>1, AwaitInv DEF Reactions
    <2>8. CASE ~ended /\ mode # "return"
      <3>1. Resume(<<>>, mode) /\ drives' = Append(drives, front) /\ UNCHANGED reactions
        BY <1>1, <1>5, <2>8 DEF ResumeNext
      <3>2. state' = "running" /\ Enter(<<>>, BodyActivation) /\ UNCHANGED <<queue, answers>>
        BY <1>2, <2>8, <3>1 DEF Resume, Idle
      <3>3. reactions' \in [Reactions -> 0..1] /\ Outstanding' = {}
        BY <1>2, <3>1 DEF Inv, TypeOK, Outstanding
      <3> QED BY <1>3, <1>5, <2>4, <3>1, <3>2, <3>3, BodyRunsInv
    <2> QED BY <2>5, <2>6, <2>7, <2>8
  <1> QED BY <1>4, <1>5

LEMMA BodyInv == ASSUME Inv, Body PROVE Inv'
  <1>1. TopIs("body") BY DEF Body, BodyThrows, BodyReturns, Suspend, Delegate
  <1>2. Below = <<>> /\ Top.at = "body" /\ stack # <<>> BY <1>1, OneActivation DEF TopIs
  <1>3. queue # <<>> /\ Outstanding = {} BY <1>2 DEF Inv, DriverInv
  <1>4. ASSUME reactions' = reactions
        PROVE  reactions' \in [Reactions -> 0..1] /\ Outstanding' = {}
    BY <1>3, <1>4 DEF Inv, TypeOK, Outstanding
  <1>5. ASSUME stops < MaxStops, stops' = stops + 1 PROVE stops' \in 0..MaxStops
    BY <1>5, BoundsAssumption DEF Inv, TypeOK
  <1>6. CASE BodyThrows \/ BodyReturns
    BY <1>2, <1>3, <1>4, <1>6, AfterInv DEF BodyThrows, BodyReturns
  <1>7. ASSUME NEW k \in {"yield", "await"}, Suspend(k) PROVE Inv'
    <2>1. Await(<<>>, k) /\ state' = "awaiting" /\ kind' = k /\ k \in Reactions /\ k \in Kinds
          /\ k # "returnDone" /\ stops' \in 0..MaxStops /\ UNCHANGED <<queue, answers, requests>>
      BY <1>2, <1>5, <1>7 DEF Suspend, Reactions, Kinds
    <2>2. drives' \in Seq(1..MaxRequests) /\ DrivenOnce'
          /\ \A i \in DOMAIN drives' : drives'[i] <= Len(answers) + 1
      BY <1>7 DEF Inv, TypeOK, DrivenOnce, DrivesInv, Suspend
    <2> QED BY <1>3, <2>1, <2>2, AwaitInv
  <1>8. CASE Delegate
    <2>1. Resolve(<<>>) /\ state' = "yielded" /\ kind' \in Kinds /\ stops' \in 0..MaxStops
          /\ UNCHANGED <<requests, reactions, drives>>
      BY <1>2, <1>5, <1>8 DEF Delegate, Kinds
    <2> QED BY <1>3, <1>4, <2>1, ResolveInv
  <1> QED BY <1>6, <1>7, <1>8 DEF Body

LEMMA RunReactionInv ==
  ASSUME Inv, NEW k \in Reactions, NEW rejected \in BOOLEAN, RunReaction(k, rejected)
  PROVE  Inv'
  <1>1. stack = <<>> /\ reactions[k] = 1 /\ k \in Outstanding
    BY DEF RunReaction, Inv, TypeOK, Outstanding
  <1>2. queue # <<>> /\ Outstanding = {k} BY <1>1 DEF Inv, OneWaker
  <1>3. reactions' \in [Reactions -> 0..1] /\ Outstanding' = {}
    BY <1>1, <1>2 DEF RunReaction, Inv, TypeOK, Outstanding
  <1>4. UNCHANGED <<kind, requests, stops, drives>> /\ kind' \in Kinds /\ stops' \in 0..MaxStops
    BY DEF RunReaction, Inv, TypeOK
  <1>5. ASSUME NEW mode \in Modes, Resume(<<>>, mode) PROVE Inv'
    BY <1>2, <1>3, <1>4, <1>5, ResumeInv
  <1>6. ASSUME state' \in {"yielded", "completed"}, Resolve(<<>>) \/ Reject(<<>>) PROVE Inv'
    BY <1>2, <1>3, <1>4, <1>6, ResolveInv, AnsweredInv DEF Reject
  <1>7. CASE k = "await" \/ k = "resumeReturn" BY <1>5, <1>7 DEF RunReaction, Modes
  <1>8. CASE k = "returnDone" BY <1>6, <1>8 DEF RunReaction, ReturnDone
  <1>9. CASE k = "yield" BY <1>5, <1>6, <1>9 DEF RunReaction, Yielded, Modes
  <1> QED BY <1>7, <1>8, <1>9 DEF Reactions

LEMMA StutterInv == ASSUME Inv, UNCHANGED vars PROVE Inv'
  BY DEF vars, Inv, TypeOK, DrivenOnce, OneWaker, Outstanding, DriverInv, Top, TopIs, Idle, QueueInv,
     DrivesInv
-----------------------------------------------------------------------------
\* The invariant: the driver is entered once, and one thing wakes it.
THEOREM Invariant == ~ThenCalls => (Spec => []Inv)
  <1> SUFFICES ASSUME ~ThenCalls PROVE Spec => []Inv OBVIOUS
  <1>1. ASSUME Inv, [Next]_vars PROVE Inv'
    <2>1. CASE Driver BY <1>1, <2>1, ResumeNextInv, ThenReadInv, ConstructorInv DEF Driver
    <2>2. CASE Body BY <1>1, <2>2, BodyInv
    <2>3. CASE Job BY <1>1, <2>3, RunReactionInv DEF Job
    <2>4. CASE \E mode \in Modes : Request(mode) BY <1>1, <2>4, RequestInv
    <2>5. CASE UNCHANGED vars BY <1>1, <2>5, StutterInv
    <2> QED BY <1>1, <2>1, <2>2, <2>3, <2>4, <2>5 DEF Next
  <1> QED BY <1>1, InitInv, PTL DEF Spec

\* Requests are answered in order, each once, none dropped, when the
\* program cannot call from the middle of an answer (AnsweredInOrder).
THEOREM InOrder == ~ThenCalls => (Spec => []AnsweredInOrder)
  BY Invariant, QueueIsRest, PTL

\* No request drives the body twice, or after a later one (DrivenOnce).
THEOREM EachDrivesOnce == ~ThenCalls => (Spec => []DrivenOnce)
  <1>1. Inv => DrivenOnce BY DEF Inv
  <1> QED BY <1>1, Invariant, PTL

\* Between jobs a generator that awaits has its one reaction, and one that
\* does not has no request left (OneWaker): it is never stuck.
THEOREM NeverStuck == ~ThenCalls => (Spec => []OneWaker)
  <1>1. Inv => OneWaker BY DEF Inv
  <1> QED BY <1>1, Invariant, PTL

\* TypeOK, with at most one reaction of each kind outstanding.
THEOREM TypeCorrect == ~ThenCalls => (Spec => []TypeOK)
  <1>1. Inv => TypeOK BY DEF Inv
  <1> QED BY <1>1, Invariant, PTL
=============================================================================
