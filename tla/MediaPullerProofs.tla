-------------------------- MODULE MediaPullerProofs --------------------------
(* Proofs about MediaPuller, for any number of pause() and resume() calls  *)
(* and any number of images.                                               *)
EXTENDS MediaPuller, TLAPS

(* The queue of the PullThread only ever holds messages of its handler.    *)
LEMMA TypeInit == Init => TypeOK
<1> USE MaxCallsAssumption, ImagesAssumption DEF MaxCallsAssumption, ImagesAssumption
<1> SUFFICES ASSUME Init PROVE TypeOK OBVIOUS
<1>a. queue \in Seq(Messages) BY DEF Init
<1>b. calls \in 0..MaxCalls BY DEF Init
<1> QED BY <1>a, <1>b DEF Init, TypeOK

(* The steps that leave the looper and its messages alone.                 *)
Others ==
    \/ CallShutdownAsync
    \/ Acquire
    \/ ConverterThread
    \/ ListenerThread
    \/ Crash

(* What is known of these steps: they only move the PullThread on inside   *)
(* doPull().                                                               *)
LEMMA OthersKeepLoop ==
  ASSUME Others
  PROVE  UNCHANGED loop
         /\ (pulling' = pulling \/ (pulling = "acquire" /\ pulling' = "take"))
BY DEF Others, CallShutdownAsync, Acquire, ConverterThread, ConverterEncodes, ConverterReleases,
   ConverterReleased, ListenerThread, OnImageAvailable, OnImageReleased, Crash

LEMMA TypeStep == TypeOK /\ [Next]_vars => TypeOK'
<1> USE MaxCallsAssumption, ImagesAssumption DEF MaxCallsAssumption, ImagesAssumption
<1> SUFFICES ASSUME TypeOK, [Next]_vars
             PROVE  TypeOK'
  OBVIOUS
<1> USE DEF TypeOK, images
<1>a. \A w \in {"START", "STOP", "PAUSE", "RESUME"} : [what |-> w] \in Messages
  BY DEF Messages
<1>b. PullMessage \in Messages
  BY DEF Messages, PullMessage
<1>c. queue # <<>> => Tail(queue) \in Seq(Messages)
  OBVIOUS
<1>1. CASE CallStart
  BY <1>1, <1>a DEF CallStart, Posted
<1>2. CASE CallStopAsync
  BY <1>2, <1>a DEF CallStopAsync, Posted
<1>3. ASSUME NEW what \in {"PAUSE", "RESUME"}, CallPauseOrResume(what)
      PROVE  TypeOK'
  BY <1>3, <1>a DEF CallPauseOrResume, Posted
<1>4. CASE OnStart
  BY <1>4, <1>b, <1>c DEF OnStart, Received
<1>5. CASE OnStop
  BY <1>5, <1>c DEF OnStop, Received
<1>6. CASE StopReturns
  BY <1>6 DEF StopReturns
<1>7. CASE OnPull
  BY <1>7, <1>c DEF OnPull, Received
<1>d. ASSUME NEW ok \in BOOLEAN, PullReturns(ok)
      PROVE  /\ queue' \in Seq(Messages) /\ pulling' = "looper"
             /\ announced' \in BOOLEAN /\ pullErr' \in BOOLEAN
             /\ UNCHANGED <<quit, mPullGeneration, mPaused, started, stopping, stopNotified,
                            calls, converter, mIsAudio, crashed>>
  <2>1. announced' = TRUE \/ announced' = announced
    BY <1>d DEF PullReturns
  <2>2. pullErr' = TRUE \/ pullErr' = pullErr
    BY <1>d DEF PullReturns
  <2>3. queue' \in Seq(Messages)
    BY <1>d, <1>b DEF PullReturns
  <2>4. pulling' = "looper"
        /\ UNCHANGED <<quit, mPullGeneration, mPaused, started, stopping, stopNotified,
                       calls, converter, mIsAudio, crashed>>
    BY <1>d DEF PullReturns
  <2> QED
    BY <2>1, <2>2, <2>3, <2>4
<1>8. CASE TakeAndCopy
  <2>1. PullReturns(TRUE)
    BY <1>8 DEF TakeAndCopy
  <2>2. permits' \in Nat /\ pending' \in Nat /\ inCodec' \in Nat
        /\ repeat' = TRUE /\ picture' = FALSE
    BY <1>8 DEF TakeAndCopy
  <2> QED
    BY <2>1, <2>2, <1>d
<1>9. ASSUME NEW ok \in BOOLEAN, PullAudio(ok)
      PROVE  TypeOK'
  <2>1. PullReturns(ok)
    BY <1>9 DEF PullAudio
  <2>2. permits' \in Nat /\ pending' \in Nat /\ inCodec' \in Nat
        /\ repeat' = repeat /\ picture' = picture
    BY <1>9 DEF PullAudio
  <2> QED
    BY <2>1, <2>2, <1>d
<1>10. CASE OnPause
  BY <1>10, <1>c DEF OnPause, Received
<1>11. CASE OnResume
  BY <1>11, <1>c DEF OnResume, Received
<1>12. CASE Others
  <2> USE DEF loop
  <2>1. CASE CallShutdownAsync \/ ConverterReleases \/ ConverterReleased
    BY <2>1 DEF CallShutdownAsync, ConverterReleases, ConverterReleased
  <2>2. CASE Acquire
    BY <2>2 DEF Acquire
  <2>3. ASSUME NEW drop \in BOOLEAN, ConverterEncodes(drop)
        PROVE  TypeOK'
    BY <2>3 DEF ConverterEncodes
  <2>4. CASE ListenerThread
    <3>1. CASE OnImageAvailable
      BY <3>1 DEF OnImageAvailable
    <3>2. CASE OnImageReleased
      <4>1. inCodec' \in Nat /\ permits' \in Nat
        BY <3>2 DEF OnImageReleased
      <4> QED
        BY <3>2, <4>1 DEF OnImageReleased
    <3> QED
      BY <2>4, <3>1, <3>2 DEF ListenerThread
  <2>5. CASE Crash
    BY <2>5 DEF Crash
  <2> QED
    BY <1>12, <2>1, <2>2, <2>3, <2>4, <2>5 DEF Others, ConverterThread
<1>13. CASE UNCHANGED vars
  BY <1>13 DEF vars, loop
<1> QED
  BY <1>1, <1>2, <1>3, <1>4, <1>5, <1>6, <1>7, <1>8, <1>9, <1>10, <1>11, <1>12, <1>13
     DEF Next, PullThread, WFDThread, Others

(* The PullThread only ever holds messages its handler knows, and its      *)
(* fields keep their types, whatever calls come from the WFD thread.       *)
THEOREM TypeCorrect == Spec => []TypeOK
BY TypeInit, TypeStep, PTL DEF Spec

-----------------------------------------------------------------------------
(* What the handlers rely on.  STARTs are counted by position: there is    *)
(* one while start() waits and none otherwise.  A PULL is of the current   *)
(* generation, since only STOP changes the generation and it discards the  *)
(* queue.  A looper that has quit has no messages, and the stop has been   *)
(* announced exactly when it has quit.  The PullThread is out of its       *)
(* looper only after start() and before the stop.                          *)
StartsPending == {i \in 1..Len(queue) : queue[i].what = "START"}

StartWaits ==
    IF started = "waiting" THEN \E i \in StartsPending : StartsPending = {i}
                           ELSE StartsPending = {}
PullsAreCurrent ==
    \A i \in 1..Len(queue) : queue[i].what = "PULL" => queue[i].generation = mPullGeneration
QuitIsFinal ==
    /\ quit => queue = <<>> /\ started = "done" /\ pulling = "looper"
    /\ quit <=> stopNotified > 0
StopFollowsStart ==
    /\ \A i \in 1..Len(queue) : queue[i].what = "STOP" => started = "done"
    /\ converter # "open" => started = "done"
PullFollowsStart ==
    /\ pulling # "looper" => started = "done"
    /\ pulling \in {"acquire", "take"} => ~pullErr

ErrFollowsStart == pullErr => started = "done"

IInv ==
    /\ TypeOK
    /\ OnePullChain
    /\ StartWaits
    /\ PullsAreCurrent
    /\ QuitIsFinal
    /\ StopFollowsStart
    /\ PullFollowsStart
    /\ ErrFollowsStart

(* Which messages of one kind wait, before and after posting one.          *)
Waiting(q, w) == {i \in 1..Len(q) : q[i].what = w}

LEMMA AppendWaiting ==
  ASSUME NEW q \in Seq(Messages), NEW m \in Messages, NEW w
  PROVE  Waiting(Append(q, m), w)
           = IF m.what = w THEN Waiting(q, w) \cup {Len(q) + 1} ELSE Waiting(q, w)
BY DEF Waiting

(* Taking the head away moves the others up by one.                        *)
LEMMA TailWaiting ==
  ASSUME NEW q \in Seq(Messages), q # <<>>, NEW w
  PROVE  /\ Waiting(Tail(q), w) = {i - 1 : i \in Waiting(q, w) \ {1}}
         /\ 1 \in Waiting(q, w) <=> Head(q).what = w
         /\ Waiting(q, w) \subseteq Nat
BY DEF Waiting

LEMMA PullWaiting ==
  ASSUME NEW q \in Seq(Messages), NEW m \in Messages, NEW r, m.what = "PULL", r = Append(q, m)
  PROVE  /\ Waiting(r, "START") = Waiting(q, "START")
         /\ Waiting(r, "PULL") = Waiting(q, "PULL") \cup {Len(q) + 1}
BY AppendWaiting

(* The messages of a queue after posting one, and after taking the head.   *)
LEMMA AppendMessages ==
  ASSUME NEW q \in Seq(Messages), NEW m \in Messages,
         NEW i \in 1..Len(Append(q, m))
  PROVE  (i \in 1..Len(q) /\ Append(q, m)[i] = q[i]) \/ Append(q, m)[i] = m
OBVIOUS

LEMMA TailMessages ==
  ASSUME NEW q \in Seq(Messages), q # <<>>, NEW i \in 1..Len(Tail(q))
  PROVE  i + 1 \in 1..Len(q) /\ Tail(q)[i] = q[i + 1]
OBVIOUS

(* A set with one position still has one when all move up.                 *)
LEMMA MoveUp ==
  ASSUME NEW S \in SUBSET Nat
  PROVE  /\ S = {} => {i - 1 : i \in S} = {}
         /\ (\E i \in S : S = {i})
              => \E j \in {i - 1 : i \in S} : {i - 1 : i \in S} = {j}
<1>1. ASSUME NEW i \in S, S = {i}
      PROVE  {k - 1 : k \in S} = {i - 1}
  BY <1>1
<1> QED
  BY <1>1

(* A call that posts a message which is neither START nor PULL.            *)
LEMMA PostKeepsPending ==
  ASSUME TypeOK, NEW m \in Messages, queue' = Posted(queue, m)
  PROVE  /\ m.what # "PULL" => PullsPending' = PullsPending
         /\ m.what # "START" => StartsPending' = StartsPending
BY AppendWaiting DEF Posted, PullsPending, StartsPending, Waiting, TypeOK

(* Every step keeps the invariant.                                         *)
LEMMA Inductive == IInv /\ [Next]_vars => IInv'
<1> SUFFICES ASSUME IInv, [Next]_vars
             PROVE  IInv'
  OBVIOUS
<1>t. TypeOK /\ TypeOK'
  BY TypeStep DEF IInv
<1>m. /\ queue \in Seq(Messages) /\ PullMessage \in Messages
      /\ \A w \in {"START", "STOP", "PAUSE", "RESUME"} : [what |-> w] \in Messages
  BY <1>t DEF TypeOK, Messages, PullMessage
<1>p. /\ PullsPending = Waiting(queue, "PULL") /\ PullsPending' = Waiting(queue', "PULL")
      /\ StartsPending = Waiting(queue, "START") /\ StartsPending' = Waiting(queue', "START")
  BY DEF PullsPending, StartsPending, Waiting
<1> USE DEF IInv, OnePullChain, StartWaits, QuitIsFinal, ErrFollowsStart, PullFollowsStart
<1>1. CASE CallStart
  <2>1. ~quit /\ StartsPending = {} /\ queue' = Append(queue, [what |-> "START"])
    BY <1>1 DEF CallStart, Posted
  <2>2. PullsPending' = PullsPending /\ StartsPending' = {Len(queue) + 1}
    BY <2>1, <1>m, <1>p, AppendWaiting
  <2>3. PullsAreCurrent' /\ StopFollowsStart'
    <3>1. ASSUME NEW i \in 1..Len(queue'), queue'[i].what \in {"PULL", "STOP"}
          PROVE  i \in 1..Len(queue) /\ queue'[i] = queue[i]
      BY <3>1, <2>1, <1>m, AppendMessages
    <3> QED
      BY <1>1, <3>1 DEF CallStart, PullsAreCurrent, StopFollowsStart
  <2> QED
    BY <1>1, <1>t, <2>1, <2>2, <2>3 DEF CallStart
<1>2. CASE CallStopAsync
  <2>1. PullsPending' = PullsPending /\ StartsPending' = StartsPending
    BY <1>2, <1>m, <1>t, PostKeepsPending DEF CallStopAsync
  <2>2. PullsAreCurrent' /\ StopFollowsStart'
    BY <1>2, <1>m DEF CallStopAsync, Posted, PullsAreCurrent, StopFollowsStart
  <2> QED
    BY <1>2, <1>t, <2>1, <2>2 DEF CallStopAsync, Posted
<1>3. ASSUME NEW what \in {"PAUSE", "RESUME"}, CallPauseOrResume(what)
      PROVE  IInv'
  <2>1. PullsPending' = PullsPending /\ StartsPending' = StartsPending
    BY <1>3, <1>m, <1>t, PostKeepsPending DEF CallPauseOrResume
  <2>2. PullsAreCurrent' /\ StopFollowsStart'
    BY <1>3, <1>m DEF CallPauseOrResume, Posted, PullsAreCurrent, StopFollowsStart
  <2> QED
    BY <1>3, <1>t, <2>1, <2>2 DEF CallPauseOrResume, Posted
<1>4. CASE OnStart
  <2>1. Tail(queue) \in Seq(Messages) /\ queue # <<>> /\ Head(queue).what = "START"
    BY <1>4, <1>m DEF OnStart, Received
  <2>2. StartsPending = {1} /\ started = "waiting" /\ ~quit /\ pulling = "looper"
    BY <1>4, <2>1, <1>m, <1>p, TailWaiting DEF StartsPending, OnStart, Received
  <2>3. Waiting(Tail(queue), "START") = {} /\ Waiting(Tail(queue), "PULL") = {}
    BY <2>1, <2>2, <1>m, <1>p, TailWaiting
  <2>4. StartsPending' = {} /\ PullsPending' = {Len(Tail(queue)) + 1}
    <3>1. queue' = Append(Tail(queue), PullMessage) /\ PullMessage.what = "PULL"
      BY <1>4 DEF OnStart, PullMessage
    <3>2. /\ Waiting(queue', "START") = Waiting(Tail(queue), "START")
          /\ Waiting(queue', "PULL") = Waiting(Tail(queue), "PULL") \cup {Len(Tail(queue)) + 1}
      BY ONLY <3>1, <2>1, <1>m, PullWaiting, Zenon
    <3> QED
      BY <3>2, <2>3, <1>p
  <2>5. PullsAreCurrent' /\ StopFollowsStart'
    <3>1. ASSUME NEW i \in 1..Len(queue')
          PROVE  (i + 1 \in 1..Len(queue) /\ queue'[i] = queue[i + 1]) \/ queue'[i] = PullMessage
      BY <1>4, <2>1, <1>m, AppendMessages, TailMessages DEF OnStart
    <3>2. PullMessage.generation = mPullGeneration /\ started' = "done"
          /\ mPullGeneration' = mPullGeneration
      BY <1>4 DEF PullMessage, OnStart
    <3> QED
      <4>1. ASSUME NEW i \in 1..Len(queue'), queue'[i].what = "PULL"
            PROVE  queue'[i].generation = mPullGeneration
        BY <3>1, <3>2, <4>1 DEF PullsAreCurrent
      <4> QED
        BY <3>2, <4>1 DEF PullsAreCurrent, StopFollowsStart
  <2>6. PullsPending' # {} /\ started' = "done" /\ ~quit'
        /\ UNCHANGED <<stopNotified, pullErr, pulling>>
        /\ \E i \in PullsPending' : PullsPending' = {i}
    BY <1>4, <2>2, <2>4 DEF OnStart
  <2>7. ~pullErr
    BY <2>2
  <2> QED
    BY <1>t, <2>2, <2>4, <2>5, <2>6, <2>7
<1>5. CASE StopReturns
  <2>1. /\ queue' = <<>> /\ quit' /\ stopNotified' > 0 /\ started' = started
        /\ pulling' = "looper" /\ converter' = converter /\ started = "done"
        /\ pullErr' = pullErr
    BY <1>5, <1>t DEF StopReturns, TypeOK
  <2>3. PullsPending' = {} /\ StartsPending' = {} /\ PullsAreCurrent' /\ StopFollowsStart'
    BY <2>1 DEF PullsPending, StartsPending, PullsAreCurrent, StopFollowsStart
  <2> QED
    BY <1>t, <2>1, <2>3
<1>6. CASE OnPull
  <2>1. /\ Tail(queue) \in Seq(Messages) /\ queue # <<>> /\ Head(queue).what = "PULL"
        /\ queue' = Tail(queue) /\ pulling = "looper"
    BY <1>6, <1>m DEF OnPull, Received
  <2>2. PullsPending = {1} /\ started = "done" /\ ~pullErr /\ ~quit
    BY <2>1, <1>m, <1>p, TailWaiting DEF PullsPending
  <2>3. Head(queue).generation = mPullGeneration
    BY <2>1, <1>m DEF PullsAreCurrent
  <2>4. StartsPending' = {} /\ PullsPending' = {}
    BY <2>1, <2>2, <1>m, <1>p, TailWaiting
  <2>5. PullsAreCurrent' /\ StopFollowsStart'
    BY <1>6, <2>1, <1>m, TailMessages DEF PullsAreCurrent, StopFollowsStart, OnPull
  <2>6. pulling' = "acquire" /\ UNCHANGED <<quit, started, stopNotified, pullErr>>
    BY <1>6, <2>3 DEF OnPull
  <2> QED
    BY <1>t, <2>2, <2>4, <2>5, <2>6
<1>7. ASSUME NEW ok \in BOOLEAN, PullReturns(ok), pulling \in {"acquire", "take"}
      PROVE  IInv'
  <2>1. started = "done" /\ ~pullErr /\ ~quit /\ PullsPending = {} /\ StartsPending = {}
    BY <1>7
  <2>2. queue' = (IF mPaused \/ ok THEN Append(queue, PullMessage) ELSE queue)
        /\ pulling' = "looper" /\ pullErr' = (~mPaused /\ ~ok)
        /\ UNCHANGED <<quit, started, stopNotified, mPullGeneration, converter>>
    BY <1>7, <2>1, <1>t DEF PullReturns, TypeOK
  <2>3. StartsPending' = {}
        /\ PullsPending' = IF mPaused \/ ok THEN {Len(queue) + 1} ELSE {}
    <3>1. PullMessage.what = "PULL"
      BY DEF PullMessage
    <3>2. ASSUME mPaused \/ ok
          PROVE  /\ Waiting(queue', "START") = Waiting(queue, "START")
                 /\ Waiting(queue', "PULL") = Waiting(queue, "PULL") \cup {Len(queue) + 1}
      <4>1. queue' = Append(queue, PullMessage)
        BY <3>2, <2>2
      <4> QED
        BY ONLY <4>1, <3>1, <1>m, PullWaiting, Zenon
    <3> QED
      BY <3>2, <2>1, <2>2, <1>p
  <2>4. PullsAreCurrent' /\ StopFollowsStart'
    <3>1. ASSUME NEW i \in 1..Len(queue')
          PROVE  (i \in 1..Len(queue) /\ queue'[i] = queue[i]) \/ queue'[i] = PullMessage
      BY <2>2, <1>m, AppendMessages
    <3>2. PullMessage.generation = mPullGeneration
      BY DEF PullMessage
    <3> QED
      <4>1. ASSUME NEW i \in 1..Len(queue'), queue'[i].what = "PULL"
            PROVE  queue'[i].generation = mPullGeneration
        BY <3>1, <3>2, <4>1 DEF PullsAreCurrent
      <4> QED
        BY <2>1, <2>2, <4>1 DEF PullsAreCurrent, StopFollowsStart
  <2> QED
    BY <1>t, <2>1, <2>2, <2>3, <2>4 DEF TypeOK
<1>8. CASE TakeAndCopy \/ \E ok \in BOOLEAN : PullAudio(ok)
  BY <1>7, <1>8 DEF TakeAndCopy, PullAudio
<1>9. CASE OnPause \/ OnResume \/ OnStop
  <2>1. queue # <<>> /\ Head(queue).what \in {"PAUSE", "RESUME", "STOP"} /\ queue' = Tail(queue)
        /\ UNCHANGED <<quit, started, stopNotified, pullErr, mPullGeneration, converter>>
        /\ pulling = "looper"
        /\ (pulling' = "looper" \/ (pulling' = "stop" /\ Head(queue).what = "STOP"))
    BY <1>9 DEF OnPause, OnResume, OnStop, Received
  <2>2. /\ PullsPending' = {i - 1 : i \in PullsPending}
        /\ StartsPending' = {i - 1 : i \in StartsPending}
    BY <2>1, <1>m, <1>p, TailWaiting
  <2>3. PullsAreCurrent' /\ StopFollowsStart'
    BY <2>1, <1>m DEF PullsAreCurrent, StopFollowsStart
  <2>4. ~quit /\ (pulling' = "stop" => started = "done")
    BY <2>1, <1>m DEF StopFollowsStart
  <2> QED
    <3>1. PullsPending \in SUBSET Nat /\ StartsPending \in SUBSET Nat
      BY DEF PullsPending, StartsPending
    <3>2. OnePullChain'
      BY <2>1, <2>2, <3>1, MoveUp
    <3>3. StartWaits'
      BY <2>1, <2>2, <3>1, MoveUp
    <3> QED
      BY <1>t, <2>1, <2>3, <2>4, <3>2, <3>3
<1>10. CASE Others
  <2>1. /\ UNCHANGED <<queue, quit, mPullGeneration, started, stopNotified, pullErr>>
        /\ pulling' = pulling \/ (pulling = "acquire" /\ pulling' = "take")
    BY <1>10, OthersKeepLoop DEF loop
  <2>2. converter' # "open" => started = "done"
    BY <1>10 DEF StopFollowsStart, Others, CallShutdownAsync, Acquire, ConverterThread,
       ConverterEncodes, ConverterReleases, ConverterReleased, ListenerThread, OnImageAvailable,
       OnImageReleased, Crash
  <2> QED
    BY <1>t, <1>p, <2>1, <2>2 DEF PullsAreCurrent, StopFollowsStart
<1>11. CASE UNCHANGED vars
  BY <1>11, <1>t, <1>p DEF vars, loop, PullsAreCurrent, StopFollowsStart
<1> QED
  BY <1>1, <1>2, <1>3, <1>4, <1>5, <1>6, <1>8, <1>9, <1>10, <1>11
     DEF Next, PullThread, WFDThread, Others

(* Between start() and the stop exactly one PULL is queued or one doPull() *)
(* is under way, until a read fails: neither pause() and resume() nor a    *)
(* failed doPull() doubles or restarts the chain that schedulePull() keeps *)
(* going.                                                                  *)
THEOREM OneChain == Spec => []OnePullChain
<1>1. Init => IInv
  BY TypeInit DEF Init, IInv, OnePullChain, StartWaits, PullsAreCurrent, QuitIsFinal,
     StopFollowsStart, PullFollowsStart, ErrFollowsStart, PullsPending, StartsPending
<1>2. IInv => OnePullChain
  BY DEF IInv
<1> QED
  BY <1>1, <1>2, Inductive, PTL DEF Spec

(* After STOP was handled no message can reach the PullThread, so it       *)
(* neither reads from the encoder nor announces the stop again.            *)
THEOREM StopIsSilent == Spec => SilentAfterStop
<1>1. Init => IInv
  BY TypeInit DEF Init, IInv, OnePullChain, StartWaits, PullsAreCurrent, QuitIsFinal,
     StopFollowsStart, PullFollowsStart, ErrFollowsStart, PullsPending, StartsPending
<1>2. IInv /\ [Next]_vars
        => [stopNotified > 0 => pulling' = pulling /\ stopNotified' = stopNotified]_vars
  <2> SUFFICES ASSUME IInv, [Next]_vars, stopNotified > 0
               PROVE  pulling' = pulling /\ stopNotified' = stopNotified
    OBVIOUS
  <2>1. queue = <<>> /\ pulling = "looper"
    BY DEF IInv, QuitIsFinal
  <2>2. CASE Others
    BY <2>1, <2>2, OthersKeepLoop DEF loop
  <2> QED
    BY <2>1, <2>2 DEF Others, Next, PullThread, WFDThread, OnStart, OnStop, StopReturns, OnPull, TakeAndCopy,
       PullAudio, OnPause, OnResume, Received, CallStart, CallStopAsync, CallPauseOrResume, vars, loop
<1> QED
  BY <1>1, <1>2, Inductive, PTL DEF Spec, SilentAfterStop
=============================================================================
