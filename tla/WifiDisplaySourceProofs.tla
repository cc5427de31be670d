----------------------- MODULE WifiDisplaySourceProofs -----------------------
(***************************************************************************)
(* Proofs about WifiDisplaySource, for any number of connections, messages *)
(* and outstanding requests, and for every set of requests.                *)
(***************************************************************************)
EXTENDS WifiDisplaySource, TLAPS

AppCalls == {"START", "STOP", "PAUSE", "RESUME"}
CallerOf(what) == CASE what = "START"  -> "starting"
                    [] what = "STOP"   -> "stopping"
                    [] what = "PAUSE"  -> "pausing"
                    [] what = "RESUME" -> "resuming"

HaveSession == HaveSetup \cup {"AWAITING_CLIENT_TEARDOWN", "STOPPING"}

(* The application thread blocks: at most one of its calls is in the queue, *)
(* it is the one it waits for, and none is while a stop() waits for the     *)
(* shutdown.                                                                *)
OneCall ==
    /\ \A i \in DOMAIN queue : queue[i].what \in AppCalls =>
          caller = CallerOf(queue[i].what) /\ ~mStopReplyTo
    /\ \A i, j \in DOMAIN queue :
          queue[i].what \in AppCalls /\ queue[j].what \in AppCalls => i = j

StopReply ==
    /\ mStopReplyTo <=> mState \in {"AWAITING_CLIENT_TEARDOWN", "STOPPING"}
    /\ mStopReplyTo => caller = "stopping"

(* The playback session exists from SETUP to SESSION_DESTROYED.             *)
SessionExists ==
    /\ mPlaybackSession <=> mState \in HaveSession
    /\ mPlaybackSession => mPlaybackSessionID # -1

Beginning ==
    /\ caller \in {"new", "starting"} => mState = "INITIALIZED"
    /\ mState = "STOPPED" => caller \in {"stopped", "disposed"}
    /\ mClientSessionID # 0 => mState \notin {"INITIALIZED", "STOPPED"}

(* SESSION_DESTROYED only comes while the source waits for it.              *)
Destruction ==
    /\ playback = "destroying" => mState = "STOPPING"
    /\ \A i \in DOMAIN queue : queue[i].what = "SESSION_DESTROYED" =>
          mState = "STOPPING" /\ playback = "destroyed"
    /\ \A i, j \in DOMAIN queue :
          queue[i].what = "SESSION_DESTROYED" /\ queue[j].what = "SESSION_DESTROYED" => i = j

IInv == TypeOK /\ OneCall /\ StopReply /\ SessionExists /\ Beginning /\ Destruction

-----------------------------------------------------------------------------
(* A message that is about a network session names one, and an answer is   *)
(* one to a known request.                                                 *)
LEMMA MessageFields ==
    ASSUME NEW m \in Messages
    PROVE  /\ m.what \in {"CLIENT_CONNECTED", "ERROR", "REQUEST", "RESPONSE"} => m.session \in Sessions
           /\ m.what = "RESPONSE" => m.to \in Handlers
  BY DEF Messages, Timers

(* The messages that are posted are messages of the looper.                *)
LEMMA PostedMessages ==
    /\ \A w \in AppCalls \cup Timers \cup
             {"SESSION_ESTABLISHED", "SESSION_DEAD", "SESSION_DESTROYED"} :
          [what |-> w] \in Messages
    /\ \A s \in Sessions, local \in BOOLEAN :
          [what |-> "CLIENT_CONNECTED", session |-> s, local |-> local] \in Messages
    /\ \A s \in Sessions : [what |-> "ERROR", session |-> s] \in Messages
    /\ \A s \in Sessions, r \in AllRequests :
          [what |-> "REQUEST", session |-> s, method |-> r] \in Messages
    /\ \A s \in Sessions, h \in Handlers, a \in Answers :
          [what |-> "RESPONSE", session |-> s, to |-> h, answer |-> a] \in Messages
  BY DEF Messages, AppCalls

(* Taking the first message off the queue.                                 *)
LEMMA TakeFirst ==
    ASSUME NEW q \in Seq(Messages), q # <<>>
    PROVE  /\ Head(q) \in Messages /\ Tail(q) \in Seq(Messages)
           /\ 1 \in DOMAIN q /\ Head(q) = q[1]
           /\ \A i \in DOMAIN Tail(q) : i + 1 \in DOMAIN q /\ i + 1 # 1 /\ Tail(q)[i] = q[i + 1]
  OBVIOUS

(* Posting a message.                                                      *)
LEMMA Post ==
    ASSUME NEW q \in Seq(Messages), NEW m \in Messages
    PROVE  /\ Append(q, m) \in Seq(Messages)
           /\ \A i \in DOMAIN Append(q, m) :
                 \/ i \in DOMAIN q /\ Append(q, m)[i] = q[i]
                 \/ i = Len(q) + 1 /\ i \notin DOMAIN q /\ Append(q, m)[i] = m
  OBVIOUS

(* destroySession keeps the table of sessions well-formed, and a request   *)
(* that is sent adds to the unanswered ones.                               *)
LEMMA TableTypes ==
    ASSUME TypeOK
    PROVE  /\ \A s \in 0..MaxSessions :
                 Destroy(s) \in [Sessions -> {"unused", "open", "failing", "failed",
                                             "closing", "closed"}]
           /\ \A f \in [Sessions -> [Handlers -> Nat]], s \in 0..MaxSessions, h \in Handlers :
                 Register(f, s, h) \in [Sessions -> [Handlers -> Nat]]
<1> USE BoundsAssumption DEF BoundsAssumption, TypeOK
<1>1. ASSUME NEW s \in 0..MaxSessions
      PROVE  Destroy(s) \in [Sessions -> {"unused", "open", "failing", "failed",
                                         "closing", "closed"}]
  BY DEF Destroy
<1>2. ASSUME NEW f \in [Sessions -> [Handlers -> Nat]], NEW s \in 0..MaxSessions,
             NEW h \in Handlers
      PROVE  Register(f, s, h) \in [Sessions -> [Handlers -> Nat]]
  <2>1. CASE ~InMap(s)
    BY <2>1 DEF Register
  <2>2. CASE InMap(s)
    <3>1. s \in Sessions BY <2>2 DEF InMap, Sessions
    <3>2. [f[s] EXCEPT ![h] = @ + 1] \in [Handlers -> Nat] BY <3>1
    <3>3. Register(f, s, h) = [f EXCEPT ![s] = [f[s] EXCEPT ![h] = @ + 1]]
      BY <2>2, <3>1 DEF Register
    <3> QED BY <3>1, <3>2, <3>3
  <2> QED BY <2>1, <2>2
<1> QED BY <1>1, <1>2

(* Taking a message off the queue keeps its type.                          *)
LEMMA ReceivedType ==
    ASSUME TypeOK, NEW what, Received(what)
    PROVE  /\ queue' \in Seq(Messages)
           /\ msg \in Messages /\ msg.what = what
           /\ what \in {"CLIENT_CONNECTED", "ERROR", "REQUEST", "RESPONSE"} =>
                 msg.session \in Sessions /\ msg.session \in 0..MaxSessions
           /\ what = "RESPONSE" => msg.to \in Handlers
<1>1. queue \in Seq(Messages) /\ queue # <<>> BY DEF TypeOK, Received, Handling
<1>2. msg \in Messages /\ Tail(queue) \in Seq(Messages) BY <1>1, TakeFirst DEF msg
<1> QED
  BY <1>2, MessageFields, BoundsAssumption DEF Received, Sessions, BoundsAssumption

(* finishStop keeps the types.                                             *)
LEMMA FinishStopType ==
    ASSUME TypeOK, FinishStop, queue' \in Seq(Messages)
    PROVE  TypeOK'
<1> USE BoundsAssumption DEF BoundsAssumption
<1>1. Destroy(mClientSessionID) \in [Sessions -> {"unused", "open", "failing", "failed",
                                                  "closing", "closed"}]
  BY TableTypes DEF TypeOK
<1>2. CASE mPlaybackSession
  BY <1>2 DEF TypeOK, FinishStop, DestroyPlaybackAsync, State
<1>3. CASE ~mPlaybackSession
  <2>1. DisconnectClient2 BY <1>3 DEF FinishStop
  <2>2. /\ mSessionID' \in 0..1 /\ mClientSessionID' \in 0..MaxSessions
        /\ net' \in [Sessions -> {"unused", "open", "failing", "failed", "closing", "closed"}]
        /\ mState' \in State
    BY <1>1, <2>1 DEF DisconnectClient2, State
  <2>3. /\ caller' = "stopped" /\ playback' = playback
        /\ mPlaybackSession' = FALSE /\ mStopReplyTo' = FALSE
    BY <2>1 DEF DisconnectClient2
  <2> QED
    BY <2>2, <2>3 DEF TypeOK, FinishStop
<1> QED
  BY <1>2, <1>3 DEF TypeOK

(* Every step keeps the types.                                             *)
LEMMA TypeStep == TypeOK /\ [Next]_vars => TypeOK'
<1> SUFFICES ASSUME TypeOK, [Next]_vars PROVE TypeOK'
  OBVIOUS
<1> USE BoundsAssumption DEF BoundsAssumption
<1>q. queue \in Seq(Messages) BY DEF TypeOK
<1>n. net \in [Sessions -> {"unused", "open", "failing", "failed", "closing", "closed"}]
  BY DEF TypeOK
<1>c. \A m \in Messages : Append(queue, m) \in Seq(Messages)
  BY <1>q, Post
<1>1. CASE Application
  <2>1. ASSUME NEW from, NEW to \in {"starting", "pausing", "resuming", "stopping"},
               NEW what \in AppCalls, Call(from, to, what)
        PROVE  TypeOK'
    <3>1. [what |-> what] \in Messages BY PostedMessages
    <3> QED BY <2>1, <3>1, <1>c DEF Call, TypeOK, sourceVars
  <2>2. CASE Dispose
    BY <2>2 DEF Dispose, TypeOK, sourceVars
  <2> QED
    BY <1>1, <2>1, <2>2
       DEF Application, CallStart, CallPause, CallResume, CallStop, AppCalls
<1>2. CASE Network
  <2>1. ASSUME NEW s \in Sessions, NEW local \in BOOLEAN, Accept(s, local) PROVE TypeOK'
    <3>1. [what |-> "CLIENT_CONNECTED", session |-> s, local |-> local] \in Messages
      BY PostedMessages
    <3> QED BY <2>1, <3>1, <1>c DEF Accept, TypeOK, sourceVars
  <2>2. ASSUME NEW s \in Sessions, NEW m \in Messages, Receive(s, m) PROVE TypeOK'
    <3>1. net' \in [Sessions -> {"unused", "open", "failing", "failed", "closing", "closed"}]
      BY <2>2, <1>n DEF Receive
    <3>2. queue' \in Seq(Messages)
      BY <2>2, <1>c DEF Receive
    <3> QED BY <2>2, <3>1, <3>2 DEF Receive, TypeOK, sourceVars
  <2>3. ASSUME NEW s \in Sessions, NEW method \in Requests, ReceiveRequest(s, method)
        PROVE  TypeOK'
    <3>1. [what |-> "REQUEST", session |-> s, method |-> method] \in Messages
      BY PostedMessages
    <3> QED BY <2>3, <3>1, <2>2 DEF ReceiveRequest
  <2>4. ASSUME NEW s \in Sessions, NEW h \in Handlers, NEW answer \in Answers,
               ReceiveResponse(s, h, answer)
        PROVE  TypeOK'
    <3>1. [what |-> "RESPONSE", session |-> s, to |-> h, answer |-> answer] \in Messages
      BY PostedMessages
    <3> QED BY <2>4, <3>1, <2>2 DEF ReceiveResponse
  <2>5. ASSUME NEW s \in Sessions, ReportError(s) PROVE TypeOK'
    <3>1. queue' \in Seq(Messages)
      BY <2>5, <1>c, PostedMessages DEF ReportError
    <3>2. net' \in [Sessions -> {"unused", "open", "failing", "failed", "closing", "closed"}]
      BY <2>5, <1>n DEF ReportError
    <3> QED BY <2>5, <3>1, <3>2 DEF ReportError, TypeOK, sourceVars
  <2> QED
    BY <1>2, <2>1, <2>3, <2>4, <2>5 DEF Network
<1>3. ASSUME NEW t \in Timers, Fire(t) PROVE TypeOK'
  <2>1. [what |-> t] \in Messages BY PostedMessages
  <2> QED BY <1>3, <2>1, <1>c DEF Fire, TypeOK, sourceVars
<1>4. CASE Playback
  <2>1. /\ [what |-> "SESSION_ESTABLISHED"] \in Messages
        /\ [what |-> "SESSION_DEAD"] \in Messages
        /\ [what |-> "SESSION_DESTROYED"] \in Messages
    BY PostedMessages
  <2>2. CASE PlaybackEstablished
    BY <2>2, <2>1, <1>c DEF PlaybackEstablished, Notify, TypeOK, sourceVars
  <2>3. CASE PlaybackDead
    BY <2>3, <2>1, <1>c DEF PlaybackDead, Notify, TypeOK, sourceVars
  <2>4. CASE PlaybackDestroyed
    BY <2>4, <2>1, <1>c DEF PlaybackDestroyed, Notify, TypeOK, sourceVars
  <2> QED
    BY <1>4, <2>2, <2>3, <2>4 DEF Playback
<1>5. CASE WFDThread
  <2>a. /\ \A s \in 0..MaxSessions :
              Destroy(s) \in [Sessions -> {"unused", "open", "failing", "failed",
                                          "closing", "closed"}]
        /\ \A f \in [Sessions -> [Handlers -> Nat]], s \in 0..MaxSessions, h \in Handlers :
              Register(f, s, h) \in [Sessions -> [Handlers -> Nat]]
    BY TableTypes
  <2>b. /\ mClientSessionID \in 0..MaxSessions
        /\ mResponseHandlers \in [Sessions -> [Handlers -> Nat]]
        /\ {"M1", "M3", "M4", "M5", "M16"} \subseteq Handlers
    BY DEF TypeOK, Handlers
  <2>1. CASE OnStart
    BY <2>1, ReceivedType DEF OnStart, TypeOK, State
  <2>2. CASE OnError
    <3>1. queue' \in Seq(Messages) /\ msg.session \in 0..MaxSessions
      BY <2>2, ReceivedType DEF OnError
    <3>2. net' \in [Sessions -> {"unused", "open", "failing", "failed", "closing", "closed"}]
      BY <2>2, <3>1, <2>a DEF OnError
    <3>3. mClientSessionID' \in 0..MaxSessions
      BY <2>2 DEF OnError, TypeOK
    <3> QED BY <2>2, <3>1, <3>2, <3>3 DEF OnError, TypeOK
  <2>3. CASE OnClientRejected
    <3>1. queue' \in Seq(Messages) /\ msg.session \in 0..MaxSessions
      BY <2>3, ReceivedType DEF OnClientRejected
    <3>2. net' \in [Sessions -> {"unused", "open", "failing", "failed", "closing", "closed"}]
      BY <2>3, <3>1, <2>a DEF OnClientRejected
    <3> QED BY <2>3, <3>1, <3>2 DEF OnClientRejected, TypeOK, sourceVars
  <2>4. CASE OnClientConnected
    <3>1. queue' \in Seq(Messages) /\ msg.session \in 0..MaxSessions
      BY <2>4, ReceivedType DEF OnClientConnected
    <3>2. mResponseHandlers' \in [Sessions -> [Handlers -> Nat]]
      BY <2>4, <3>1, <2>a, <2>b DEF OnClientConnected
    <3> QED BY <2>4, <3>1, <3>2 DEF OnClientConnected, TypeOK, State
  <2>5. CASE OnStopTrigger
    <3>1. queue' \in Seq(Messages)
      BY <2>5, ReceivedType DEF OnStopTrigger, TriggerTeardown
    <3>2. mResponseHandlers' \in [Sessions -> [Handlers -> Nat]]
      BY <2>5, <2>a, <2>b DEF OnStopTrigger, TriggerTeardown
    <3> QED
      BY <2>5, <3>1, <3>2 DEF OnStopTrigger, TriggerTeardown, TypeOK, State, Timers
  <2>6. CASE OnStopNow
    BY <2>6, ReceivedType, FinishStopType DEF OnStopNow
  <2>7. CASE OnTeardownTimedOut
    <3>1. queue' \in Seq(Messages) BY <2>7, ReceivedType DEF OnTeardownTimedOut
    <3>2. CASE mState = "AWAITING_CLIENT_TEARDOWN"
      BY <2>7, <3>1, <3>2, FinishStopType DEF OnTeardownTimedOut
    <3>3. CASE mState # "AWAITING_CLIENT_TEARDOWN"
      BY <2>7, <3>1, <3>3 DEF OnTeardownTimedOut, TypeOK, sourceVars
    <3> QED BY <3>2, <3>3
  <2>8. CASE OnPause
    <3>1. queue' \in Seq(Messages) BY <2>8, ReceivedType DEF OnPause
    <3>2. mResponseHandlers' \in [Sessions -> [Handlers -> Nat]]
      BY <2>8, <2>a, <2>b DEF OnPause
    <3> QED BY <2>8, <3>1, <3>2 DEF OnPause, TypeOK, State
  <2>9. CASE OnResume
    <3>1. queue' \in Seq(Messages) BY <2>9, ReceivedType DEF OnResume
    <3>2. mResponseHandlers' \in [Sessions -> [Handlers -> Nat]]
      BY <2>9, <2>a, <2>b DEF OnResume
    <3> QED BY <2>9, <3>1, <3>2 DEF OnResume, TypeOK, State
  <2>10. CASE OnReapDeadClients
    <3>1. queue' \in Seq(Messages) BY <2>10, ReceivedType DEF OnReapDeadClients
    <3>2. /\ net' \in [Sessions -> {"unused", "open", "failing", "failed", "closing", "closed"}]
          /\ mClientSessionID' \in 0..MaxSessions
      BY <2>10, <2>a, <2>b, <1>n DEF OnReapDeadClients
    <3>3. mReaperPending' \in BOOLEAN /\ timers' \subseteq Timers
      BY <2>10 DEF OnReapDeadClients, TypeOK, Timers
    <3> QED BY <2>10, <3>1, <3>2, <3>3 DEF OnReapDeadClients, TypeOK
  <2>11. CASE OnKeepAlive
    <3>1. queue' \in Seq(Messages) BY <2>11, ReceivedType DEF OnKeepAlive
    <3>2. mResponseHandlers' \in [Sessions -> [Handlers -> Nat]]
      <4>1. Register(mResponseHandlers, mClientSessionID, "M16")
              \in [Sessions -> [Handlers -> Nat]]
        BY <2>a, <2>b
      <4> QED BY <2>11, <4>1, <2>b DEF OnKeepAlive
    <3>3. timers' \subseteq Timers
      BY <2>11 DEF OnKeepAlive, TypeOK, Timers
    <3> QED BY <2>11, <3>1, <3>2, <3>3 DEF OnKeepAlive, TypeOK
  <2>12. CASE OnSessionEstablished
    <3>1. queue' \in Seq(Messages) BY <2>12, ReceivedType DEF OnSessionEstablished
    <3> QED BY <2>12, <3>1 DEF OnSessionEstablished, TypeOK, State
  <2>13. CASE OnSessionDead
    <3>1. queue' \in Seq(Messages) BY <2>13, ReceivedType DEF OnSessionDead
    <3> QED BY <2>13, <3>1 DEF OnSessionDead, TypeOK, sourceVars
  <2>14. CASE OnSessionDestroyed
    <3>1. queue' \in Seq(Messages) BY <2>14, ReceivedType DEF OnSessionDestroyed
    <3>2. /\ mSessionID' \in 0..1 /\ mClientSessionID' \in 0..MaxSessions
          /\ net' \in [Sessions -> {"unused", "open", "failing", "failed", "closing", "closed"}]
          /\ mState' \in State
      BY <2>14, <2>a, <2>b DEF OnSessionDestroyed, DisconnectClient2, State
    <3>3. /\ caller' = "stopped" /\ playback' = playback
          /\ mPlaybackSession' = FALSE /\ mStopReplyTo' = FALSE
      BY <2>14 DEF OnSessionDestroyed, DisconnectClient2
    <3> QED BY <2>14, <3>1, <3>2, <3>3 DEF OnSessionDestroyed, TypeOK
  <2>15. CASE OnResponse
    <3>1. /\ queue' \in Seq(Messages) /\ msg.session \in Sessions
          /\ msg.session \in 0..MaxSessions /\ msg.to \in Handlers
      BY <2>15, ReceivedType DEF OnResponse
    <3>2. ASSUME mResponseHandlers[msg.session][msg.to] # 0
          PROVE  Answered \in [Sessions -> [Handlers -> Nat]]
      <4> DEFINE f == mResponseHandlers[msg.session]
      <4>1. f \in [Handlers -> Nat] BY <3>1 DEF TypeOK
      <4>2. f[msg.to] - 1 \in Nat BY <3>1, <3>2, <4>1
      <4>3. [f EXCEPT ![msg.to] = @ - 1] \in [Handlers -> Nat]
        BY <4>1, <4>2, <3>1
      <4>4. Answered = [mResponseHandlers EXCEPT ![msg.session] = [f EXCEPT ![msg.to] = @ - 1]]
        BY <3>1 DEF Answered, TypeOK
      <4> HIDE DEF f
      <4> QED BY <3>1, <4>3, <4>4 DEF TypeOK
    <3>3. mResponseHandlers' \in [Sessions -> [Handlers -> Nat]]
      <4>1. CASE mResponseHandlers[msg.session][msg.to] = 0
        BY <2>15, <4>1, <2>b DEF OnResponse
      <4>2. CASE mResponseHandlers[msg.session][msg.to] # 0
        <5>1. /\ Answered \in [Sessions -> [Handlers -> Nat]]
              /\ \A h \in Handlers :
                    Register(Answered, msg.session, h) \in [Sessions -> [Handlers -> Nat]]
          BY <4>2, <3>1, <3>2, <2>a
        <5> QED BY <2>15, <4>2, <5>1, <2>b DEF OnResponse
      <4> QED BY <4>1, <4>2
    <3>4. mSinkSupportsVideo' \in BOOLEAN
      BY <2>15 DEF OnResponse, TypeOK
    <3> QED BY <2>15, <3>1, <3>3, <3>4 DEF OnResponse, TypeOK
  <2>16. CASE OnOptionsRequest
    <3>1. queue' \in Seq(Messages) /\ msg.session \in 0..MaxSessions
      BY <2>16, ReceivedType DEF OnOptionsRequest, Requested
    <3>2. mResponseHandlers' \in [Sessions -> [Handlers -> Nat]]
      BY <2>16, <3>1, <2>a, <2>b DEF OnOptionsRequest
    <3> QED BY <2>16, <3>1, <3>2 DEF OnOptionsRequest, TypeOK
  <2>17. CASE OnHarmlessRequest
    <3>1. queue' \in Seq(Messages) BY <2>17, ReceivedType DEF OnHarmlessRequest, Requested
    <3> QED BY <2>17, <3>1 DEF OnHarmlessRequest, TypeOK, sourceVars
  <2>18. ASSUME NEW initOK \in BOOLEAN, OnSetupRequest(initOK) PROVE TypeOK'
    <3>1. queue' \in Seq(Messages) /\ msg.session \in Sessions
      BY <2>18, ReceivedType DEF OnSetupRequest, Requested
    <3>2. /\ timers' \subseteq Timers /\ mState' \in State
          /\ mPlaybackSessionID' \in {-1, 0} \cup Sessions
          /\ mPlaybackSession' \in BOOLEAN /\ mReaperPending' \in BOOLEAN
          /\ playback' \in {"none", "live", "destroying", "destroyed"}
      BY <2>18, <3>1 DEF OnSetupRequest, Timers, State, TypeOK
    <3> QED BY <2>18, <3>1, <3>2 DEF OnSetupRequest, TypeOK
  <2>19. CASE OnPlayRequest
    <3>1. queue' \in Seq(Messages)
      BY <2>19, ReceivedType DEF OnPlayRequest, PlayRequest, Requested
    <3>2. mState' \in State
      BY <2>19 DEF OnPlayRequest, PlayRequest, TypeOK, State
    <3> QED BY <2>19, <3>1, <3>2 DEF OnPlayRequest, PlayRequest, TypeOK
  <2>20. CASE OnPauseRequest
    <3>1. queue' \in Seq(Messages) BY <2>20, ReceivedType DEF OnPauseRequest, Requested
    <3> QED BY <2>20, <3>1 DEF OnPauseRequest, TypeOK, State
  <2>21. CASE OnTeardownRequest
    <3>1. queue' \in Seq(Messages) BY <2>21, ReceivedType DEF OnTeardownRequest, Requested
    <3>2. CASE FindPlaybackSession /\ mState = "AWAITING_CLIENT_TEARDOWN"
      BY <2>21, <3>1, <3>2, FinishStopType DEF OnTeardownRequest
    <3>3. CASE ~(FindPlaybackSession /\ mState = "AWAITING_CLIENT_TEARDOWN")
      BY <2>21, <3>1, <3>3 DEF OnTeardownRequest, TypeOK, sourceVars
    <3> QED BY <3>2, <3>3
  <2>22. CASE Crash
    <3>1. crashed' \in {"no"} \cup Checks BY <2>22 DEF Crash, FailedCheck, Checks
    <3> QED BY <2>22, <3>1 DEF Crash, TypeOK, sourceVars
  <2> QED
    BY <1>5, <2>1, <2>2, <2>3, <2>4, <2>5, <2>6, <2>7, <2>8, <2>9, <2>10, <2>11,
       <2>12, <2>13, <2>14, <2>15, <2>16, <2>17, <2>18, <2>19, <2>20, <2>21, <2>22
       DEF WFDThread
<1>6. CASE UNCHANGED vars
  BY <1>6 DEF vars, sourceVars, TypeOK
<1> QED
  BY <1>1, <1>2, <1>3, <1>4, <1>5, <1>6 DEF Next

-----------------------------------------------------------------------------
(* What a handler may count on: the check it would have failed holds.      *)
LEMMA ChecksPassed ==
    ASSUME FailedCheck = "no"
    PROVE  /\ msg.what = "CLIENT_CONNECTED" /\ mClientSessionID = 0 =>
                 mState = "AWAITING_CLIENT_CONNECTION"
           /\ msg.what = "STOP" => mState \notin Stopping
           /\ msg.what = "REQUEST" /\ msg.method = "SETUP" => msg.session = mClientSessionID
  BY DEF FailedCheck

(* What is left in the queue after the first message was in it before.     *)
LEMMA QueueShrinks ==
    ASSUME TypeOK, NEW what, Received(what)
    PROVE  /\ 1 \in DOMAIN queue /\ queue[1].what = what
           /\ \A i \in DOMAIN queue' :
                 i \in Nat /\ i + 1 \in DOMAIN queue /\ i + 1 # 1 /\ queue'[i] = queue[i + 1]
<1>1. queue \in Seq(Messages) /\ queue # <<>> /\ queue' = Tail(queue) /\ msg.what = what
  BY DEF TypeOK, Received, Handling
<1>2. \A i \in DOMAIN Tail(queue) : i \in Nat
  BY <1>1
<1> QED BY <1>1, <1>2, TakeFirst DEF msg

(* Nothing of the application is queued once its call has been taken, or   *)
(* while a stop() waits for the shutdown.                                  *)
LEMMA NoCallQueued ==
    ASSUME IInv, NEW what, Received(what), what \in AppCalls \/ mStopReplyTo
    PROVE  \A i \in DOMAIN queue' : queue'[i].what \notin AppCalls
<1>1. TypeOK /\ OneCall BY DEF IInv
<1>2. /\ 1 \in DOMAIN queue /\ queue[1].what = what
      /\ \A i \in DOMAIN queue' :
            i \in Nat /\ i + 1 \in DOMAIN queue /\ i + 1 # 1 /\ queue'[i] = queue[i + 1]
  BY <1>1, QueueShrinks
<1>3. CASE what \in AppCalls
  BY <1>1, <1>2, <1>3 DEF OneCall
<1>4. CASE mStopReplyTo
  BY <1>1, <1>2, <1>4 DEF OneCall
<1> QED BY <1>3, <1>4

(* SESSION_DESTROYED is queued only while the source is STOPPING, and only *)
(* once.                                                                   *)
LEMMA NoDestroyedQueued ==
    ASSUME IInv, NEW what, Received(what), what = "SESSION_DESTROYED" \/ mState # "STOPPING"
    PROVE  \A i \in DOMAIN queue' : queue'[i].what # "SESSION_DESTROYED"
<1>1. TypeOK /\ Destruction BY DEF IInv
<1>2. /\ 1 \in DOMAIN queue /\ queue[1].what = what
      /\ \A i \in DOMAIN queue' :
            i \in Nat /\ i + 1 \in DOMAIN queue /\ i + 1 # 1 /\ queue'[i] = queue[i + 1]
  BY <1>1, QueueShrinks
<1>3. CASE what = "SESSION_DESTROYED"
  BY <1>1, <1>2, <1>3 DEF Destruction
<1>4. CASE mState # "STOPPING"
  BY <1>1, <1>2, <1>4 DEF Destruction
<1> QED BY <1>3, <1>4

(* A handler that leaves the shutdown, the playback session and the        *)
(* application alone, and moves at most among the states with a session.   *)
LEMMA QuietHandler ==
    ASSUME IInv, TypeOK', NEW what, Received(what),
           UNCHANGED <<caller, mStopReplyTo, mPlaybackSession, mPlaybackSessionID, playback>>,
           mClientSessionID' \in {0, mClientSessionID},
           mState' = mState \/ (mState \in HaveSetup /\ mState' \in HaveSetup)
    PROVE  IInv'
<1>1. TypeOK /\ OneCall /\ StopReply /\ SessionExists /\ Beginning /\ Destruction BY DEF IInv
<1>2. \A i \in DOMAIN queue' :
        i \in Nat /\ i + 1 \in DOMAIN queue /\ i + 1 # 1 /\ queue'[i] = queue[i + 1]
  BY <1>1, QueueShrinks
<1>3. OneCall'
  <2>1. \A i \in DOMAIN queue' : queue'[i].what \in AppCalls =>
          caller' = CallerOf(queue'[i].what) /\ ~mStopReplyTo'
    BY <1>1, <1>2 DEF OneCall, CallerOf
  <2>2. ASSUME NEW i \in DOMAIN queue', NEW j \in DOMAIN queue',
               queue'[i].what \in AppCalls, queue'[j].what \in AppCalls
        PROVE  i = j
    <3>1. i + 1 = j + 1 BY <2>2, <1>1, <1>2 DEF OneCall
    <3> QED BY <3>1, <1>2
  <2> QED BY <2>1, <2>2 DEF OneCall
<1>4. StopReply'
  BY <1>1 DEF StopReply, HaveSetup
<1>5. SessionExists'
  BY <1>1 DEF SessionExists, HaveSession
<1>6. Beginning'
  BY <1>1 DEF Beginning, HaveSetup
<1>7. Destruction'
  <2>1. playback' = "destroying" => mState' = "STOPPING"
    BY <1>1 DEF Destruction, HaveSetup
  <2>2. \A i \in DOMAIN queue' : queue'[i].what = "SESSION_DESTROYED" =>
          mState' = "STOPPING" /\ playback' = "destroyed"
    BY <1>1, <1>2 DEF Destruction, HaveSetup
  <2>3. ASSUME NEW i \in DOMAIN queue', NEW j \in DOMAIN queue',
               queue'[i].what = "SESSION_DESTROYED", queue'[j].what = "SESSION_DESTROYED"
        PROVE  i = j
    <3>1. i + 1 = j + 1 BY <2>3, <1>1, <1>2 DEF Destruction
    <3> QED BY <3>1, <1>2
  <2> QED BY <2>1, <2>2, <2>3 DEF Destruction
<1> QED BY <1>3, <1>4, <1>5, <1>6, <1>7 DEF IInv

(* Another thread posts a message that is neither a call of the            *)
(* application nor SESSION_DESTROYED.                                      *)
LEMMA QuietPost ==
    ASSUME IInv, TypeOK', NEW m \in Messages, queue' = Append(queue, m),
           m.what \notin AppCalls \cup {"SESSION_DESTROYED"},
           UNCHANGED <<caller, mState, mStopReplyTo, mPlaybackSession, mPlaybackSessionID,
                       mClientSessionID, playback>>
    PROVE  IInv'
<1>1. TypeOK /\ OneCall /\ StopReply /\ SessionExists /\ Beginning /\ Destruction BY DEF IInv
<1>2. \A i \in DOMAIN queue' : queue'[i].what \in AppCalls \cup {"SESSION_DESTROYED"} =>
        i \in DOMAIN queue /\ queue'[i] = queue[i]
  BY <1>1, Post DEF TypeOK
<1>3. OneCall'
  BY <1>1, <1>2 DEF OneCall, CallerOf
<1>4. StopReply' /\ SessionExists' /\ Beginning'
  BY <1>1 DEF StopReply, SessionExists, Beginning
<1>5. Destruction'
  BY <1>1, <1>2 DEF Destruction
<1> QED BY <1>3, <1>4, <1>5 DEF IInv

(* The application, which is not waiting, makes a call.                    *)
LEMMA CallPosts ==
    ASSUME IInv, TypeOK', NEW what \in AppCalls, NEW from \in {"new", "idle"},
           Call(from, CallerOf(what), what),
           from = "new" <=> what = "START"
    PROVE  IInv'
<1>1. TypeOK /\ OneCall /\ StopReply /\ SessionExists /\ Beginning /\ Destruction BY DEF IInv
<1>2. /\ caller = from /\ caller' = CallerOf(what)
      /\ queue' = Append(queue, [what |-> what])
      /\ UNCHANGED <<mState, mStopReplyTo, mPlaybackSession, mPlaybackSessionID,
                     mClientSessionID, playback>>
  BY DEF Call, sourceVars
<1>3. [what |-> what] \in Messages BY PostedMessages
<1>4. ~mStopReplyTo BY <1>1, <1>2 DEF StopReply
<1>5. \A i \in DOMAIN queue : queue[i].what \notin AppCalls
  BY <1>1, <1>2 DEF OneCall, AppCalls, CallerOf
<1>6. \A i \in DOMAIN queue' :
        \/ i \in DOMAIN queue /\ queue'[i] = queue[i]
        \/ i = Len(queue) + 1 /\ queue'[i] = [what |-> what]
  BY <1>1, <1>2, <1>3, Post DEF TypeOK
<1>7. OneCall'
  BY <1>2, <1>4, <1>5, <1>6 DEF OneCall
<1>8. StopReply' /\ SessionExists'
  BY <1>1, <1>2, <1>4 DEF StopReply, SessionExists
<1>9. Beginning'
  BY <1>1, <1>2 DEF Beginning, AppCalls, CallerOf
<1>10. Destruction'
  <2>1. \A i \in DOMAIN queue' : queue'[i].what = "SESSION_DESTROYED" =>
          i \in DOMAIN queue /\ queue'[i] = queue[i]
    BY <1>6 DEF AppCalls
  <2> QED BY <1>1, <1>2, <2>1 DEF Destruction
<1> QED BY <1>7, <1>8, <1>9, <1>10 DEF IInv

(* finishStop, called by the handler of a message that is a call of the    *)
(* application or comes while a stop() waits.                              *)
LEMMA FinishStopStep ==
    ASSUME IInv, TypeOK', NEW what, Received(what), FinishStop,
           mState # "STOPPING", mState # "STOPPED",
           what = "STOP" \/ mState = "AWAITING_CLIENT_TEARDOWN"
    PROVE  IInv'
<1>1. TypeOK /\ OneCall /\ StopReply /\ SessionExists /\ Beginning /\ Destruction BY DEF IInv
<1>2. 1 \in DOMAIN queue /\ queue[1].what = what BY <1>1, QueueShrinks
<1>3. caller = "stopping"
  BY <1>1, <1>2 DEF OneCall, StopReply, AppCalls, CallerOf
<1>4. \A i \in DOMAIN queue' : queue'[i].what \notin AppCalls
  BY <1>1, NoCallQueued DEF StopReply, AppCalls
<1>5. \A i \in DOMAIN queue' : queue'[i].what # "SESSION_DESTROYED"
  BY NoDestroyedQueued
<1>6. OneCall' BY <1>4 DEF OneCall
<1>7. mPlaybackSessionID' = mPlaybackSessionID BY DEF FinishStop
<1>8. CASE mPlaybackSession
  <2>1. /\ mState' = "STOPPING" /\ playback' = "destroying" /\ mStopReplyTo' = TRUE
        /\ UNCHANGED <<mClientSessionID, mPlaybackSession, caller>>
    BY <1>8 DEF FinishStop, DestroyPlaybackAsync
  <2>2. StopReply' /\ SessionExists' /\ Beginning'
    <3>1. StopReply' BY <1>3, <2>1 DEF StopReply
    <3>2. mPlaybackSession' /\ mPlaybackSessionID' # -1
      BY <1>1, <1>7, <1>8, <2>1 DEF SessionExists
    <3>3. SessionExists' BY <2>1, <3>2 DEF SessionExists, HaveSession
    <3>4. Beginning' BY <1>3, <2>1 DEF Beginning
    <3> QED BY <3>1, <3>3, <3>4
  <2>3. Destruction' BY <1>5, <2>1 DEF Destruction
  <2> QED BY <1>6, <2>2, <2>3 DEF IInv
<1>9. CASE ~mPlaybackSession
  <2>1. /\ mState' = "STOPPED" /\ mPlaybackSession' = FALSE /\ mClientSessionID' = 0
        /\ mStopReplyTo' = FALSE /\ caller' = "stopped" /\ playback' = playback
    BY <1>9 DEF FinishStop, DisconnectClient2
  <2>2. playback # "destroying" BY <1>1 DEF Destruction
  <2>3. StopReply' /\ SessionExists' /\ Beginning'
    BY <2>1 DEF StopReply, SessionExists, Beginning, HaveSession, HaveSetup
  <2>4. Destruction' BY <1>5, <2>1, <2>2 DEF Destruction
  <2> QED BY <1>6, <2>3, <2>4 DEF IInv
<1> QED BY <1>8, <1>9, <1>1 DEF TypeOK

(* Every step keeps the invariant.                                         *)
LEMMA InvStep == IInv /\ [Next]_vars => IInv'
<1> SUFFICES ASSUME IInv, [Next]_vars PROVE IInv'
  OBVIOUS
<1>t. TypeOK' BY TypeStep DEF IInv
<1>i. TypeOK /\ OneCall /\ StopReply /\ SessionExists /\ Beginning /\ Destruction BY DEF IInv
<1>1. CASE Application
  <2>1. CASE CallStart
    BY <2>1, <1>t, CallPosts DEF CallStart, AppCalls, CallerOf
  <2>2. CASE CallPause
    BY <2>2, <1>t, CallPosts DEF CallPause, AppCalls, CallerOf
  <2>3. CASE CallResume
    BY <2>3, <1>t, CallPosts DEF CallResume, AppCalls, CallerOf
  <2>4. CASE CallStop
    BY <2>4, <1>t, CallPosts DEF CallStop, AppCalls, CallerOf
  <2>5. CASE Dispose
    <3>1. /\ queue' = <<>> /\ caller = "stopped" /\ caller' = "disposed"
          /\ UNCHANGED <<mState, mStopReplyTo, mPlaybackSession, mPlaybackSessionID,
                         mClientSessionID, playback>>
      BY <2>5 DEF Dispose, sourceVars
    <3>2. DOMAIN queue' = {} BY <3>1
    <3>3. StopReply' BY <1>i, <3>1 DEF StopReply
    <3>4. SessionExists' /\ Beginning' BY <1>i, <3>1 DEF SessionExists, Beginning
    <3>5. OneCall' BY <3>2 DEF OneCall
    <3>6. Destruction' BY <1>i, <3>1, <3>2 DEF Destruction
    <3> QED BY <1>t, <3>3, <3>4, <3>5, <3>6 DEF IInv
  <2> QED BY <1>1, <2>1, <2>2, <2>3, <2>4, <2>5 DEF Application
<1>2. CASE Network
  <2>1. ASSUME NEW s \in Sessions, NEW local \in BOOLEAN, Accept(s, local) PROVE IInv'
    <3>1. [what |-> "CLIENT_CONNECTED", session |-> s, local |-> local] \in Messages
      BY PostedMessages
    <3> QED BY <2>1, <3>1, <1>t, QuietPost DEF Accept, sourceVars, AppCalls
  <2>2. ASSUME NEW s \in Sessions, NEW method \in Requests, ReceiveRequest(s, method)
        PROVE  IInv'
    <3>1. [what |-> "REQUEST", session |-> s, method |-> method] \in Messages
      BY PostedMessages, BoundsAssumption DEF BoundsAssumption
    <3> QED BY <2>2, <3>1, <1>t, QuietPost DEF ReceiveRequest, Receive, sourceVars, AppCalls
  <2>3. ASSUME NEW s \in Sessions, NEW h \in Handlers, NEW answer \in Answers,
               ReceiveResponse(s, h, answer)
        PROVE  IInv'
    <3>1. [what |-> "RESPONSE", session |-> s, to |-> h, answer |-> answer] \in Messages
      BY PostedMessages
    <3> QED BY <2>3, <3>1, <1>t, QuietPost DEF ReceiveResponse, Receive, sourceVars, AppCalls
  <2>4. ASSUME NEW s \in Sessions, ReportError(s) PROVE IInv'
    <3>1. [what |-> "ERROR", session |-> s] \in Messages BY PostedMessages
    <3> QED BY <2>4, <3>1, <1>t, QuietPost DEF ReportError, sourceVars, AppCalls
  <2> QED BY <1>2, <2>1, <2>2, <2>3, <2>4 DEF Network
<1>3. ASSUME NEW t \in Timers, Fire(t) PROVE IInv'
  <2>1. [what |-> t] \in Messages BY PostedMessages
  <2> QED BY <1>3, <2>1, <1>t, QuietPost DEF Fire, sourceVars, AppCalls, Timers
<1>4. CASE Playback
  <2>1. /\ [what |-> "SESSION_ESTABLISHED"] \in Messages
        /\ [what |-> "SESSION_DEAD"] \in Messages
        /\ [what |-> "SESSION_DESTROYED"] \in Messages
    BY PostedMessages
  <2>2. CASE PlaybackEstablished
    BY <2>2, <2>1, <1>t, QuietPost DEF PlaybackEstablished, Notify, sourceVars, AppCalls
  <2>3. CASE PlaybackDead
    BY <2>3, <2>1, <1>t, QuietPost DEF PlaybackDead, Notify, sourceVars, AppCalls
  <2>4. CASE PlaybackDestroyed
    <3>1. /\ queue' = Append(queue, [what |-> "SESSION_DESTROYED"])
          /\ playback = "destroying" /\ playback' = "destroyed"
          /\ UNCHANGED <<caller, mState, mStopReplyTo, mPlaybackSession, mPlaybackSessionID,
                         mClientSessionID>>
      BY <2>4 DEF PlaybackDestroyed, Notify, sourceVars
    <3>2. mState = "STOPPING" /\ \A i \in DOMAIN queue : queue[i].what # "SESSION_DESTROYED"
      BY <1>i, <3>1 DEF Destruction
    <3>3. \A i \in DOMAIN queue' :
            \/ i \in DOMAIN queue /\ queue'[i] = queue[i]
            \/ i = Len(queue) + 1 /\ queue'[i] = [what |-> "SESSION_DESTROYED"]
      BY <1>i, <3>1, <2>1, Post DEF TypeOK
    <3>4. \A i \in DOMAIN queue' : queue'[i].what \in AppCalls =>
            i \in DOMAIN queue /\ queue'[i] = queue[i]
      BY <3>3 DEF AppCalls
    <3>5. OneCall' BY <1>i, <3>1, <3>4 DEF OneCall, CallerOf
    <3>6. StopReply' /\ SessionExists' /\ Beginning'
      BY <1>i, <3>1 DEF StopReply, SessionExists, Beginning
    <3>7. Destruction' BY <3>1, <3>2, <3>3 DEF Destruction
    <3> QED BY <1>t, <3>5, <3>6, <3>7 DEF IInv
  <2> QED BY <1>4, <2>2, <2>3, <2>4 DEF Playback
<1>5. CASE WFDThread
  <2>1. CASE OnStart
    <3>1. Received("START") BY <2>1 DEF OnStart
    <3>2. caller = "starting" /\ ~mStopReplyTo /\ mState = "INITIALIZED"
      BY <1>i, <3>1, QueueShrinks DEF OneCall, AppCalls, CallerOf, Beginning
    <3>3. /\ mState' = "AWAITING_CLIENT_CONNECTION" /\ caller' = "idle"
          /\ UNCHANGED <<mStopReplyTo, mPlaybackSession, mPlaybackSessionID,
                         mClientSessionID, playback>>
      BY <2>1 DEF OnStart
    <3>4. \A i \in DOMAIN queue' : queue'[i].what \notin AppCalls
      BY <3>1, NoCallQueued DEF AppCalls
    <3>5. \A i \in DOMAIN queue' : queue'[i].what # "SESSION_DESTROYED"
      BY <3>1, <3>2, NoDestroyedQueued
    <3>6. OneCall' BY <3>4 DEF OneCall
    <3>7. StopReply' BY <1>i, <3>2, <3>3 DEF StopReply
    <3>8. SessionExists' BY <1>i, <3>2, <3>3 DEF SessionExists, HaveSession, HaveSetup
    <3>9. Beginning' BY <1>i, <3>2, <3>3 DEF Beginning
    <3>10. Destruction' BY <1>i, <3>2, <3>3, <3>5 DEF Destruction
    <3> QED BY <1>t, <3>6, <3>7, <3>8, <3>9, <3>10 DEF IInv
  <2>2. CASE OnError
    BY <2>2, <1>t, QuietHandler DEF OnError
  <2>3. CASE OnClientRejected
    BY <2>3, <1>t, QuietHandler DEF OnClientRejected, sourceVars
  <2>4. CASE OnClientConnected
    <3>1. Received("CLIENT_CONNECTED") BY <2>4 DEF OnClientConnected
    <3>2. mState = "AWAITING_CLIENT_CONNECTION"
      BY <2>4, ChecksPassed DEF OnClientConnected, Received
    <3>3. /\ mState' = "AWAITING_CLIENT_SETUP" /\ mPlaybackSessionID' = -1
          /\ UNCHANGED <<caller, mStopReplyTo, mPlaybackSession, playback>>
      BY <2>4 DEF OnClientConnected
    <3>4. \A i \in DOMAIN queue' :
            i \in Nat /\ i + 1 \in DOMAIN queue /\ i + 1 # 1 /\ queue'[i] = queue[i + 1]
      BY <3>1, <1>i, QueueShrinks
    <3>5. \A i \in DOMAIN queue' : queue'[i].what # "SESSION_DESTROYED"
      BY <3>1, <3>2, NoDestroyedQueued
    <3>6. OneCall'
      <4>1. \A i \in DOMAIN queue' : queue'[i].what \in AppCalls =>
              caller' = CallerOf(queue'[i].what) /\ ~mStopReplyTo'
        BY <1>i, <3>3, <3>4 DEF OneCall, CallerOf
      <4>2. ASSUME NEW i \in DOMAIN queue', NEW j \in DOMAIN queue',
                   queue'[i].what \in AppCalls, queue'[j].what \in AppCalls
            PROVE  i = j
        <5>1. i + 1 = j + 1 BY <4>2, <1>i, <3>4 DEF OneCall
        <5> QED BY <5>1, <3>4
      <4> QED BY <4>1, <4>2 DEF OneCall
    <3>7. StopReply' BY <1>i, <3>2, <3>3 DEF StopReply
    <3>8. SessionExists' BY <1>i, <3>2, <3>3 DEF SessionExists, HaveSession, HaveSetup
    <3>9. Beginning' BY <1>i, <3>2, <3>3 DEF Beginning
    <3>10. Destruction' BY <1>i, <3>2, <3>3, <3>5 DEF Destruction
    <3> QED BY <1>t, <3>6, <3>7, <3>8, <3>9, <3>10 DEF IInv
  <2>5. CASE OnStopTrigger
    <3>1. Received("STOP") /\ mState \in HaveSetup
      BY <2>5 DEF OnStopTrigger, TriggerTeardown, CanTrigger
    <3>2. /\ mState' = "AWAITING_CLIENT_TEARDOWN" /\ mStopReplyTo' = TRUE
          /\ UNCHANGED <<caller, mPlaybackSession, mPlaybackSessionID, mClientSessionID, playback>>
      BY <2>5 DEF OnStopTrigger, TriggerTeardown
    <3>3. caller = "stopping"
      BY <1>i, <3>1, QueueShrinks DEF OneCall, AppCalls, CallerOf
    <3>4. \A i \in DOMAIN queue' : queue'[i].what \notin AppCalls
      BY <3>1, NoCallQueued DEF AppCalls
    <3>5. \A i \in DOMAIN queue' : queue'[i].what # "SESSION_DESTROYED"
      BY <3>1, NoDestroyedQueued DEF HaveSetup
    <3>6. OneCall' BY <3>4 DEF OneCall
    <3>7. StopReply' BY <3>2, <3>3 DEF StopReply
    <3>8. SessionExists' BY <1>i, <3>1, <3>2 DEF SessionExists, HaveSession
    <3>9. Beginning' BY <3>2, <3>3 DEF Beginning
    <3>10. Destruction' BY <1>i, <3>1, <3>2, <3>5 DEF Destruction, HaveSetup
    <3> QED BY <1>t, <3>6, <3>7, <3>8, <3>9, <3>10 DEF IInv
  <2>6. CASE OnStopNow
    <3>1. Received("STOP") /\ FinishStop BY <2>6 DEF OnStopNow
    <3>2. mState \notin Stopping BY <3>1, ChecksPassed DEF Received
    <3> QED BY <3>1, <3>2, <1>t, FinishStopStep DEF Stopping
  <2>7. CASE OnTeardownTimedOut
    <3>1. Received("TEARDOWN_TRIGGER_TIMED_OUT") BY <2>7 DEF OnTeardownTimedOut
    <3>2. CASE mState = "AWAITING_CLIENT_TEARDOWN"
      BY <2>7, <3>1, <3>2, <1>t, FinishStopStep DEF OnTeardownTimedOut
    <3>3. CASE mState # "AWAITING_CLIENT_TEARDOWN"
      BY <2>7, <3>1, <3>3, <1>t, QuietHandler DEF OnTeardownTimedOut, sourceVars
    <3> QED BY <3>2, <3>3
  <2>8. ASSUME NEW what \in {"PAUSE", "RESUME"}, Received(what), caller' = "idle",
               UNCHANGED <<mStopReplyTo, mPlaybackSession, mPlaybackSessionID,
                           mClientSessionID, playback>>,
               mState' = mState \/ (mState \in HaveSetup /\ mState' \in HaveSetup)
        PROVE  IInv'
    <3>1. caller \in {"pausing", "resuming"} /\ ~mStopReplyTo
      BY <1>i, <2>8, QueueShrinks DEF OneCall, AppCalls, CallerOf
    <3>2. \A i \in DOMAIN queue' : queue'[i].what \notin AppCalls
      BY <2>8, NoCallQueued DEF AppCalls
    <3>3. mState # "STOPPING" BY <1>i, <3>1 DEF StopReply
    <3>4. \A i \in DOMAIN queue' : queue'[i].what # "SESSION_DESTROYED"
      BY <2>8, <3>3, NoDestroyedQueued
    <3>5. OneCall' BY <3>2 DEF OneCall
    <3>6. StopReply' BY <1>i, <2>8, <3>1 DEF StopReply, HaveSetup
    <3>7. SessionExists' BY <1>i, <2>8 DEF SessionExists, HaveSession
    <3>8. Beginning' BY <1>i, <2>8, <3>1 DEF Beginning, HaveSetup
    <3>9. Destruction' BY <1>i, <2>8, <3>3, <3>4 DEF Destruction
    <3> QED BY <1>t, <3>5, <3>6, <3>7, <3>8, <3>9 DEF IInv
  <2>9. CASE OnPause
    BY <2>9, <2>8 DEF OnPause, HaveSetup
  <2>10. CASE OnResume
    BY <2>10, <2>8 DEF OnResume, HaveSetup
  <2>11. CASE OnReapDeadClients
    BY <2>11, <1>t, QuietHandler DEF OnReapDeadClients
  <2>12. CASE OnKeepAlive
    BY <2>12, <1>t, QuietHandler DEF OnKeepAlive
  <2>13. CASE OnSessionEstablished
    BY <2>13, <1>t, QuietHandler DEF OnSessionEstablished, HaveSetup
  <2>14. CASE OnSessionDead
    BY <2>14, <1>t, QuietHandler DEF OnSessionDead, sourceVars
  <2>15. CASE OnSessionDestroyed
    <3>1. Received("SESSION_DESTROYED") BY <2>15 DEF OnSessionDestroyed
    <3>2. mState = "STOPPING" /\ playback = "destroyed" /\ mStopReplyTo
      BY <1>i, <3>1, QueueShrinks DEF Destruction, StopReply
    <3>3. \A i \in DOMAIN queue' : queue'[i].what \notin AppCalls
      BY <3>1, <3>2, NoCallQueued
    <3>4. \A i \in DOMAIN queue' : queue'[i].what # "SESSION_DESTROYED"
      BY <3>1, NoDestroyedQueued
    <3>5. /\ mState' = "STOPPED" /\ mPlaybackSession' = FALSE /\ mClientSessionID' = 0
          /\ mStopReplyTo' = FALSE /\ caller' = "stopped" /\ playback' = playback
      BY <2>15 DEF OnSessionDestroyed, DisconnectClient2
    <3>6. OneCall' BY <3>3 DEF OneCall
    <3>7. StopReply' /\ SessionExists' /\ Beginning'
      BY <3>5 DEF StopReply, SessionExists, Beginning, HaveSession, HaveSetup
    <3>8. Destruction' BY <3>2, <3>4, <3>5 DEF Destruction
    <3> QED BY <1>t, <3>6, <3>7, <3>8 DEF IInv
  <2>16. CASE OnResponse
    BY <2>16, <1>t, QuietHandler DEF OnResponse
  <2>17. CASE OnOptionsRequest
    BY <2>17, <1>t, QuietHandler DEF OnOptionsRequest, Requested
  <2>18. CASE OnHarmlessRequest
    <3>1. Received("REQUEST") BY <2>18 DEF OnHarmlessRequest, Requested
    <3> QED BY <2>18, <3>1, <1>t, QuietHandler DEF OnHarmlessRequest, sourceVars
  <2>19. ASSUME NEW initOK \in BOOLEAN, OnSetupRequest(initOK) PROVE IInv'
    <3>1. Received("REQUEST") /\ msg.method = "SETUP" /\ mPlaybackSessionID = -1
      BY <2>19 DEF OnSetupRequest, Requested
    <3>2. CASE ~initOK
      BY <2>19, <3>1, <3>2, <1>t, QuietHandler DEF OnSetupRequest
    <3>3. CASE initOK
      <4>1. /\ mPlaybackSessionID' = msg.session /\ mPlaybackSession' = TRUE
            /\ playback' = "live" /\ mState' = "AWAITING_CLIENT_PLAY"
            /\ UNCHANGED <<mClientSessionID, mStopReplyTo, caller>>
        BY <2>19, <3>3 DEF OnSetupRequest
      <4>2. msg.session = mClientSessionID /\ msg.session \in Sessions
        BY <3>1, <1>i, ChecksPassed, ReceivedType DEF Received
      <4>3. mClientSessionID # 0 /\ mClientSessionID # -1
        BY <4>2, BoundsAssumption DEF Sessions, BoundsAssumption
      <4>4. ~mPlaybackSession /\ mState \notin HaveSession
        BY <3>1, <1>i DEF SessionExists
      <4>5. ~mStopReplyTo BY <4>4, <1>i DEF StopReply, HaveSession
      <4>7. mState \notin {"INITIALIZED", "STOPPED"} BY <1>i, <4>3 DEF Beginning
      <4>8. \A i \in DOMAIN queue' :
              i \in Nat /\ i + 1 \in DOMAIN queue /\ i + 1 # 1 /\ queue'[i] = queue[i + 1]
        BY <3>1, <1>i, QueueShrinks
      <4>9. \A i \in DOMAIN queue' : queue'[i].what # "SESSION_DESTROYED"
        BY <3>1, <4>4, NoDestroyedQueued DEF HaveSession
      <4>10. OneCall'
        <5>1. \A i \in DOMAIN queue' : queue'[i].what \in AppCalls =>
                caller' = CallerOf(queue'[i].what) /\ ~mStopReplyTo'
          BY <1>i, <4>1, <4>8 DEF OneCall, CallerOf
        <5>2. ASSUME NEW i \in DOMAIN queue', NEW j \in DOMAIN queue',
                     queue'[i].what \in AppCalls, queue'[j].what \in AppCalls
              PROVE  i = j
          <6>1. i + 1 = j + 1 BY <5>2, <1>i, <4>8 DEF OneCall
          <6> QED BY <6>1, <4>8
        <5> QED BY <5>1, <5>2 DEF OneCall
      <4>11. StopReply' BY <4>1, <4>5 DEF StopReply
      <4>12. SessionExists' BY <4>1, <4>2, <4>3 DEF SessionExists, HaveSession, HaveSetup
      <4>13. Beginning' BY <1>i, <4>1, <4>7 DEF Beginning
      <4>14. Destruction' BY <4>1, <4>9 DEF Destruction
      <4> QED BY <1>t, <4>10, <4>11, <4>12, <4>13, <4>14 DEF IInv
    <3> QED BY <3>2, <3>3
  <2>20. CASE OnPlayRequest
    <3>1. mState' = mState \/ (mState \in HaveSetup /\ mState' \in HaveSetup)
      BY <2>20 DEF OnPlayRequest, PlayRequest, PlayAllowed, HaveSetup
    <3> QED BY <2>20, <3>1, <1>t, QuietHandler DEF OnPlayRequest, PlayRequest, Requested
  <2>21. CASE OnPauseRequest
    BY <2>21, <1>t, QuietHandler DEF OnPauseRequest, Requested, HaveSetup
  <2>22. CASE OnTeardownRequest
    <3>1. Received("REQUEST") BY <2>22 DEF OnTeardownRequest, Requested
    <3>2. CASE FindPlaybackSession /\ mState = "AWAITING_CLIENT_TEARDOWN"
      BY <2>22, <3>1, <3>2, <1>t, FinishStopStep DEF OnTeardownRequest
    <3>3. CASE ~(FindPlaybackSession /\ mState = "AWAITING_CLIENT_TEARDOWN")
      BY <2>22, <3>1, <3>3, <1>t, QuietHandler DEF OnTeardownRequest, sourceVars
    <3> QED BY <3>2, <3>3
  <2>23. CASE Crash
    <3>1. /\ queue' = <<>>
          /\ UNCHANGED <<mState, mStopReplyTo, mPlaybackSession, mPlaybackSessionID,
                         mClientSessionID, caller, playback>>
      BY <2>23 DEF Crash, sourceVars
    <3>2. DOMAIN queue' = {} BY <3>1
    <3>3. StopReply' /\ SessionExists' /\ Beginning'
      <4>1. StopReply' BY <1>i, <3>1 DEF StopReply
      <4>2. SessionExists' BY <1>i, <3>1 DEF SessionExists
      <4>3. Beginning' BY <1>i, <3>1 DEF Beginning
      <4> QED BY <4>1, <4>2, <4>3
    <3>4. OneCall' BY <3>2 DEF OneCall
    <3>5. Destruction' BY <1>i, <3>1, <3>2 DEF Destruction
    <3> QED BY <1>t, <3>3, <3>4, <3>5 DEF IInv
  <2> QED
    BY <1>5, <2>1, <2>2, <2>3, <2>4, <2>5, <2>6, <2>7, <2>9, <2>10, <2>11, <2>12,
       <2>13, <2>14, <2>15, <2>16, <2>17, <2>18, <2>19, <2>20, <2>21, <2>22, <2>23
       DEF WFDThread
<1>6. CASE UNCHANGED vars
  BY <1>6, <1>i, <1>t DEF vars, sourceVars, IInv, OneCall, StopReply, SessionExists,
     Beginning, Destruction, CallerOf
<1> QED
  BY <1>1, <1>2, <1>3, <1>4, <1>5, <1>6 DEF Next

(* The invariant holds when the source is created.                         *)
LEMMA InvInit == Init => IInv
<1> SUFFICES ASSUME Init PROVE IInv OBVIOUS
<1> USE BoundsAssumption DEF BoundsAssumption, Init
<1>1. queue \in Seq(Messages) /\ DOMAIN queue = {} OBVIOUS
<1>2. mClientSessionID \in 0..MaxSessions OBVIOUS
<1>3. mResponseHandlers \in [Sessions -> [Handlers -> Nat]] OBVIOUS
<1>a. net \in [Sessions -> {"unused", "open", "failing", "failed", "closing", "closed"}]
  OBVIOUS
<1>b. mPlaybackSessionID \in {-1, 0} \cup Sessions /\ mSessionID \in 0..1 OBVIOUS
<1>c. mState \in State BY DEF State
<1>4. TypeOK BY <1>1, <1>2, <1>3, <1>a, <1>b, <1>c DEF TypeOK
<1>5. OneCall BY <1>1 DEF OneCall
<1>6. StopReply /\ SessionExists /\ Beginning
  BY DEF StopReply, SessionExists, Beginning, HaveSession, HaveSetup
<1>7. Destruction BY <1>1 DEF Destruction
<1> QED BY <1>4, <1>5, <1>6, <1>7 DEF IInv

(* The inductive invariant is one.                                         *)
THEOREM Invariance == Spec => []IInv
  BY InvInit, InvStep, PTL DEF Spec

(* Whatever the sink sends, the fields of the source keep their types.     *)
THEOREM TypeCorrect == Spec => []TypeOK
<1>1. IInv => TypeOK BY DEF IInv
<1> QED BY <1>1, Invariance, PTL

(* A stop() waits for its answer exactly while the shutdown is under way,  *)
(* for every interleaving of STOP, TEARDOWN, the teardown timeout,         *)
(* SESSION_DESTROYED and lost connections.                                 *)
THEOREM StopReplySafe == Spec => []StopReplyMatchesState
<1>1. IInv => StopReplyMatchesState BY DEF IInv, StopReply, StopReplyMatchesState
<1> QED BY <1>1, Invariance, PTL

-----------------------------------------------------------------------------
(* The states in which media flows, and what made them reachable.          *)
FlowStates == {"PLAYING", "PLAYING_TO_PAUSED", "PAUSED", "PAUSED_TO_PLAYING"}

(* A step enters them only with an established session, and nothing takes  *)
(* the mark of the session away.                                           *)
LEMMA FlowStep ==
    ASSUME [Next]_vars, mState \in FlowStates => mPlaybackSessionEstablished
    PROVE  mState' \in FlowStates => mPlaybackSessionEstablished'
<1> USE DEF FlowStates
<1>1. CASE Application
  BY <1>1 DEF Application, CallStart, CallPause, CallResume, CallStop, Call, Dispose, sourceVars
<1>2. CASE Network
  <2>1. UNCHANGED sourceVars
    BY <1>2, Zenon DEF Network, Accept, ReceiveRequest, ReceiveResponse, Receive, ReportError
  <2> QED BY <2>1 DEF sourceVars
<1>3. CASE \E t \in Timers : Fire(t)
  BY <1>3 DEF Fire, sourceVars
<1>4. CASE Playback
  BY <1>4 DEF Playback, PlaybackEstablished, PlaybackDead, PlaybackDestroyed, sourceVars
<1>5. CASE WFDThread
  <2>0. CASE FinishStop
    BY <2>0 DEF FinishStop, DestroyPlaybackAsync, DisconnectClient2
  <2>1. CASE OnStart BY <2>1 DEF OnStart
  <2>2. CASE OnError BY <2>2 DEF OnError
  <2>3. CASE OnClientRejected BY <2>3 DEF OnClientRejected, sourceVars
  <2>4. CASE OnClientConnected BY <2>4 DEF OnClientConnected
  <2>5. CASE OnStopTrigger BY <2>5 DEF OnStopTrigger, TriggerTeardown
  <2>6. CASE OnStopNow BY <2>6, <2>0 DEF OnStopNow
  <2>7. CASE OnTeardownTimedOut BY <2>7, <2>0 DEF OnTeardownTimedOut, sourceVars
  <2>8. CASE OnPause BY <2>8 DEF OnPause
  <2>9. CASE OnResume BY <2>9 DEF OnResume
  <2>10. CASE OnReapDeadClients BY <2>10 DEF OnReapDeadClients
  <2>11. CASE OnKeepAlive BY <2>11 DEF OnKeepAlive
  <2>12. CASE OnSessionEstablished BY <2>12 DEF OnSessionEstablished
  <2>13. CASE OnSessionDead BY <2>13 DEF OnSessionDead, sourceVars
  <2>14. CASE OnSessionDestroyed BY <2>14 DEF OnSessionDestroyed, DisconnectClient2
  <2>15. CASE OnResponse BY <2>15 DEF OnResponse
  <2>16. CASE OnOptionsRequest BY <2>16 DEF OnOptionsRequest
  <2>17. CASE OnHarmlessRequest BY <2>17 DEF OnHarmlessRequest, sourceVars
  <2>18. CASE \E initOK \in BOOLEAN : OnSetupRequest(initOK) BY <2>18 DEF OnSetupRequest
  <2>19. CASE OnPlayRequest BY <2>19 DEF OnPlayRequest, PlayRequest
  <2>20. CASE OnPauseRequest BY <2>20 DEF OnPauseRequest
  <2>21. CASE OnTeardownRequest BY <2>21, <2>0 DEF OnTeardownRequest, sourceVars
  <2>22. CASE Crash BY <2>22 DEF Crash, sourceVars
  <2> QED
    BY <1>5, <2>1, <2>2, <2>3, <2>4, <2>5, <2>6, <2>7, <2>8, <2>9, <2>10, <2>11,
       <2>12, <2>13, <2>14, <2>15, <2>16, <2>17, <2>18, <2>19, <2>20, <2>21, <2>22
       DEF WFDThread
<1>6. CASE UNCHANGED vars
  BY <1>6 DEF vars, sourceVars
<1> QED
  BY <1>1, <1>2, <1>3, <1>4, <1>5, <1>6 DEF Next

(* Media flows only through an established playback session, whatever      *)
(* order PLAY, SESSION_ESTABLISHED, pause() and the sink's PAUSE come in.  *)
THEOREM PlayingSafe == Spec => []PlayingIsEstablished
<1> DEFINE Flow == mState \in FlowStates => mPlaybackSessionEstablished
<1>1. Init => Flow BY DEF Init, FlowStates
<1>2. Flow /\ [Next]_vars => Flow' BY FlowStep
<1>3. Spec => []Flow
  <2> HIDE DEF Flow
  <2> QED BY <1>1, <1>2, PTL DEF Spec
<1>4. IInv /\ Flow => PlayingIsEstablished
  BY DEF IInv, SessionExists, HaveSession, HaveSetup, FlowStates, PlayingIsEstablished
<1> HIDE DEF Flow
<1> QED BY <1>3, <1>4, Invariance, PTL

-----------------------------------------------------------------------------
(* The moves that a source which is shutting down may make.                *)
ShutdownMove ==
    <<mState, mState'>> \in {<<mState, mState>>, <<"STOPPING", "STOPPED">>,
                            <<"AWAITING_CLIENT_TEARDOWN", "STOPPING">>}

(* No step takes a source that is shutting down anywhere else.             *)
LEMMA ShutdownStep ==
    ASSUME IInv, [Next]_vars, mState \in Stopping
    PROVE  ShutdownMove
<1> USE DEF ShutdownMove
<1>i. TypeOK /\ OneCall /\ StopReply /\ SessionExists /\ Beginning /\ Destruction BY DEF IInv
<1>1. CASE Application
  BY <1>1 DEF Application, CallStart, CallPause, CallResume, CallStop, Call, Dispose, sourceVars
<1>2. CASE Network
  <2>1. UNCHANGED sourceVars
    BY <1>2, Zenon DEF Network, Accept, ReceiveRequest, ReceiveResponse, Receive, ReportError
  <2> QED BY <2>1 DEF sourceVars
<1>3. CASE \E t \in Timers : Fire(t)
  BY <1>3 DEF Fire, sourceVars
<1>4. CASE Playback
  BY <1>4 DEF Playback, PlaybackEstablished, PlaybackDead, PlaybackDestroyed, sourceVars
<1>5. CASE WFDThread
  <2>0. ASSUME FinishStop, mState = "AWAITING_CLIENT_TEARDOWN" PROVE ShutdownMove
    <3>1. mPlaybackSession BY <2>0, <1>i DEF SessionExists, HaveSession
    <3> QED BY <2>0, <3>1 DEF FinishStop, DestroyPlaybackAsync
  <2>1. CASE OnStart
    <3>1. mState = "INITIALIZED"
      BY <2>1, <1>i, QueueShrinks DEF OnStart, OneCall, AppCalls, CallerOf, Beginning
    <3> QED BY <3>1 DEF Stopping
  <2>2. CASE OnError BY <2>2 DEF OnError
  <2>3. CASE OnClientRejected BY <2>3 DEF OnClientRejected, sourceVars
  <2>4. CASE OnClientConnected
    <3>1. mState = "AWAITING_CLIENT_CONNECTION"
      BY <2>4, ChecksPassed DEF OnClientConnected, Received
    <3> QED BY <3>1 DEF Stopping
  <2>5. CASE OnStopTrigger
    BY <2>5, ChecksPassed DEF OnStopTrigger, TriggerTeardown, Received
  <2>6. CASE OnStopNow
    BY <2>6, ChecksPassed DEF OnStopNow, Received
  <2>7. CASE OnTeardownTimedOut BY <2>7, <2>0 DEF OnTeardownTimedOut, sourceVars
  <2>8. CASE OnPause BY <2>8 DEF OnPause, Stopping
  <2>9. CASE OnResume BY <2>9 DEF OnResume, Stopping
  <2>10. CASE OnReapDeadClients BY <2>10 DEF OnReapDeadClients
  <2>11. CASE OnKeepAlive BY <2>11 DEF OnKeepAlive
  <2>12. CASE OnSessionEstablished BY <2>12 DEF OnSessionEstablished, Stopping
  <2>13. CASE OnSessionDead BY <2>13 DEF OnSessionDead, sourceVars
  <2>14. CASE OnSessionDestroyed
    <3>1. mState = "STOPPING"
      BY <2>14, <1>i, QueueShrinks DEF OnSessionDestroyed, Destruction
    <3> QED BY <2>14, <3>1 DEF OnSessionDestroyed, DisconnectClient2
  <2>15. CASE OnResponse BY <2>15 DEF OnResponse
  <2>16. CASE OnOptionsRequest BY <2>16 DEF OnOptionsRequest
  <2>17. CASE OnHarmlessRequest BY <2>17 DEF OnHarmlessRequest, sourceVars
  <2>18. ASSUME NEW initOK \in BOOLEAN, OnSetupRequest(initOK) PROVE ShutdownMove
    <3>1. Received("REQUEST") /\ msg.method = "SETUP" /\ mPlaybackSessionID = -1
      BY <2>18 DEF OnSetupRequest, Requested
    <3>2. mState \notin HaveSession BY <3>1, <1>i DEF SessionExists
    <3>3. msg.session = mClientSessionID /\ msg.session \in Sessions
      BY <3>1, <1>i, ChecksPassed, ReceivedType DEF Received
    <3>4. mState # "STOPPED"
      BY <3>3, <1>i, BoundsAssumption DEF Sessions, BoundsAssumption, Beginning
    <3> QED BY <3>2, <3>4 DEF Stopping, HaveSession
  <2>19. CASE OnPlayRequest
    BY <2>19 DEF OnPlayRequest, PlayRequest, PlayAllowed, Stopping
  <2>20. CASE OnPauseRequest BY <2>20 DEF OnPauseRequest, Stopping
  <2>21. CASE OnTeardownRequest BY <2>21, <2>0 DEF OnTeardownRequest, sourceVars
  <2>22. CASE Crash BY <2>22 DEF Crash, sourceVars
  <2> QED
    BY <1>5, <2>1, <2>2, <2>3, <2>4, <2>5, <2>6, <2>7, <2>8, <2>9, <2>10, <2>11,
       <2>12, <2>13, <2>14, <2>15, <2>16, <2>17, <2>18, <2>19, <2>20, <2>21, <2>22
       DEF WFDThread
<1>6. CASE UNCHANGED vars
  BY <1>6 DEF vars, sourceVars
<1> QED
  BY <1>1, <1>2, <1>3, <1>4, <1>5, <1>6 DEF Next

(* A shutdown is never undone: no late START, CLIENT_CONNECTED, SETUP,     *)
(* PLAY, PAUSE or SESSION_ESTABLISHED takes the source back.               *)
THEOREM ShutdownSafe == Spec => ShutdownIsOneWay
<1>1. IInv /\ [Next]_vars =>
        [(mState \in Stopping) =>
           <<mState, mState'>> \in {<<mState, mState>>, <<"STOPPING", "STOPPED">>,
                                   <<"AWAITING_CLIENT_TEARDOWN", "STOPPING">>}]_vars
  BY ShutdownStep DEF ShutdownMove
<1> QED BY <1>1, Invariance, PTL DEF Spec, ShutdownIsOneWay

-----------------------------------------------------------------------------
(* Every CLIENT_CONNECTED in the queue is of a connection the network      *)
(* thread still keeps and that is not the client's, and it comes before    *)
(* every error of that connection; only accepted connections are named.    *)
Arrivals ==
    /\ \A i \in DOMAIN queue : queue[i].what = "CLIENT_CONNECTED" =>
          InMap(queue[i].session) /\ queue[i].session # mClientSessionID
    /\ \A i, j \in DOMAIN queue :
          /\ queue[i].what = "CLIENT_CONNECTED"
          /\ queue[j].what \in {"CLIENT_CONNECTED", "ERROR"}
          /\ queue[i].session = queue[j].session
          => i <= j
    /\ \A i \in DOMAIN queue : queue[i].what \in {"CLIENT_CONNECTED", "ERROR"} =>
          net[queue[i].session] # "unused"
    /\ mClientSessionID # 0 => net[mClientSessionID] # "unused"

(* A step that leaves the connections of the source as they are, and one   *)
(* that closes the client's, whatever message it handles.                  *)
KeepsClient(what) ==
    Received(what) /\ what # "CLIENT_CONNECTED" /\ UNCHANGED <<net, mClientSessionID>>
DropsClient(what) ==
    /\ Received(what) /\ what # "CLIENT_CONNECTED"
    /\ net' = Destroy(mClientSessionID) /\ mClientSessionID' = 0

(* What the handlers do to the connections.                                *)
LEMMA HandlerEffect ==
    ASSUME WFDThread
    PROVE  \/ Crash \/ OnError \/ OnClientRejected \/ OnClientConnected
           \/ \E what : KeepsClient(what) \/ DropsClient(what)
<1> USE DEF KeepsClient, DropsClient
<1>0. ASSUME NEW what, Received(what), what # "CLIENT_CONNECTED", FinishStop
      PROVE  KeepsClient(what) \/ DropsClient(what)
  <2>1. CASE mPlaybackSession
    BY <1>0, <2>1 DEF FinishStop, DestroyPlaybackAsync
  <2>2. CASE ~mPlaybackSession
    BY <1>0, <2>2 DEF FinishStop, DisconnectClient2
  <2> QED BY <2>1, <2>2
<1>1. CASE OnStart BY <1>1 DEF OnStart
<1>2. CASE OnStopTrigger BY <1>2 DEF OnStopTrigger, TriggerTeardown
<1>3. CASE OnStopNow BY <1>3, <1>0 DEF OnStopNow
<1>4. CASE OnTeardownTimedOut BY <1>4, <1>0 DEF OnTeardownTimedOut, sourceVars
<1>5. CASE OnPause BY <1>5 DEF OnPause
<1>6. CASE OnResume BY <1>6 DEF OnResume
<1>7. CASE OnReapDeadClients BY <1>7 DEF OnReapDeadClients
<1>8. CASE OnKeepAlive BY <1>8 DEF OnKeepAlive
<1>9. CASE OnSessionEstablished BY <1>9 DEF OnSessionEstablished
<1>10. CASE OnSessionDead BY <1>10 DEF OnSessionDead, sourceVars
<1>11. CASE OnSessionDestroyed BY <1>11 DEF OnSessionDestroyed, DisconnectClient2
<1>12. CASE OnResponse BY <1>12 DEF OnResponse
<1>13. CASE OnOptionsRequest BY <1>13 DEF OnOptionsRequest, Requested
<1>14. CASE OnHarmlessRequest BY <1>14 DEF OnHarmlessRequest, Requested, sourceVars
<1>15. CASE \E initOK \in BOOLEAN : OnSetupRequest(initOK)
  BY <1>15 DEF OnSetupRequest, Requested
<1>16. CASE OnPlayRequest BY <1>16 DEF OnPlayRequest, PlayRequest, Requested
<1>17. CASE OnPauseRequest BY <1>17 DEF OnPauseRequest, Requested
<1>18. CASE OnTeardownRequest BY <1>18, <1>0 DEF OnTeardownRequest, Requested, sourceVars
<1> QED
  BY <1>1, <1>2, <1>3, <1>4, <1>5, <1>6, <1>7, <1>8, <1>9, <1>10, <1>11, <1>12, <1>13,
     <1>14, <1>15, <1>16, <1>17, <1>18 DEF WFDThread

(* A message is posted by another thread that opens no connection and      *)
(* takes none out of the table; an error is one of an accepted connection. *)
LEMMA ArrivalsPost ==
    ASSUME TypeOK, Arrivals, NEW m \in Messages, queue' = Append(queue, m),
           m.what # "CLIENT_CONNECTED", m.what = "ERROR" => net[m.session] # "unused",
           UNCHANGED mClientSessionID,
           \A s \in Sessions : net[s] # "unused" => net'[s] # "unused",
           \A s \in Sessions : InMap(s) => InMap(s)'
    PROVE  Arrivals'
<1>1. queue \in Seq(Messages) BY DEF TypeOK
<1>2. \A i \in DOMAIN queue' :
        \/ i \in DOMAIN queue /\ queue'[i] = queue[i]
        \/ i = Len(queue) + 1 /\ i \notin DOMAIN queue /\ queue'[i] = m
  BY <1>1, Post
<1>3. \A i \in DOMAIN queue : i \in Nat /\ i <= Len(queue) /\ queue[i] \in Messages
  BY <1>1
<1>l. Len(queue) \in Nat BY <1>1
<1>4. \A i \in DOMAIN queue :
        queue[i].what \in {"CLIENT_CONNECTED", "ERROR"} => queue[i].session \in Sessions
  BY <1>3, MessageFields
<1>5. m.what = "ERROR" => m.session \in Sessions BY MessageFields
<1>6. \A i \in DOMAIN queue' : queue'[i].what = "CLIENT_CONNECTED" =>
        (InMap(queue[i].session) /\ queue[i].session # mClientSessionID)'
  BY <1>2, <1>4 DEF Arrivals, InMap
<1>7. ASSUME NEW i \in DOMAIN queue', NEW j \in DOMAIN queue',
             queue'[i].what = "CLIENT_CONNECTED",
             queue'[j].what \in {"CLIENT_CONNECTED", "ERROR"},
             queue'[i].session = queue'[j].session
      PROVE  i <= j
  <2>1. i \in DOMAIN queue /\ queue'[i] = queue[i] BY <1>2, <1>7
  <2>2. CASE j \in DOMAIN queue /\ queue'[j] = queue[j]
    BY <1>7, <2>1, <2>2 DEF Arrivals
  <2>3. CASE j = Len(queue) + 1
    BY <2>1, <2>3, <1>3, <1>l
  <2> QED BY <1>2, <2>2, <2>3
<1>8. \A i \in DOMAIN queue' : queue'[i].what \in {"CLIENT_CONNECTED", "ERROR"} =>
        net'[queue'[i].session] # "unused"
  BY <1>2, <1>4, <1>5 DEF Arrivals
<1>9. mClientSessionID' # 0 => net'[mClientSessionID'] # "unused"
  BY BoundsAssumption DEF Arrivals, TypeOK, Sessions, BoundsAssumption
<1> QED BY <1>6, <1>7, <1>8, <1>9 DEF Arrivals, InMap

(* A message is handled that takes at most the connection `gone` out of    *)
(* the table, when no CLIENT_CONNECTED of it is left in the queue.         *)
LEMMA ArrivalsTake ==
    ASSUME TypeOK, Arrivals, NEW what, Received(what), NEW gone \in 0..MaxSessions,
           net' = net \/ net' = Destroy(gone),
           \A i \in DOMAIN queue' : queue'[i].what = "CLIENT_CONNECTED" =>
               queue'[i].session # gone /\ queue'[i].session # mClientSessionID',
           mClientSessionID' # 0 => net'[mClientSessionID'] # "unused"
    PROVE  Arrivals'
<1>1. \A i \in DOMAIN queue' :
        i \in Nat /\ i + 1 \in DOMAIN queue /\ queue'[i] = queue[i + 1]
  BY QueueShrinks
<1>2. \A i \in DOMAIN queue :
        queue[i].what \in {"CLIENT_CONNECTED", "ERROR"} => queue[i].session \in Sessions
  BY MessageFields DEF TypeOK
<1>3. \A s \in Sessions : net[s] # "unused" => net'[s] # "unused"
  BY DEF Destroy, InMap, TypeOK
<1>4. \A s \in Sessions : InMap(s) /\ s # gone => InMap(s)'
  BY DEF Destroy, InMap, TypeOK
<1>5. \A i \in DOMAIN queue' : queue'[i].what = "CLIENT_CONNECTED" =>
        (InMap(queue[i].session) /\ queue[i].session # mClientSessionID)'
  BY <1>1, <1>2, <1>4 DEF Arrivals, InMap
<1>6. ASSUME NEW i \in DOMAIN queue', NEW j \in DOMAIN queue',
             queue'[i].what = "CLIENT_CONNECTED",
             queue'[j].what \in {"CLIENT_CONNECTED", "ERROR"},
             queue'[i].session = queue'[j].session
      PROVE  i <= j
  <2>1. i + 1 <= j + 1 BY <1>6, <1>1 DEF Arrivals
  <2> QED BY <2>1, <1>1
<1>7. \A i \in DOMAIN queue' : queue'[i].what \in {"CLIENT_CONNECTED", "ERROR"} =>
        net'[queue'[i].session] # "unused"
  BY <1>1, <1>2, <1>3 DEF Arrivals
<1> QED BY <1>5, <1>6, <1>7 DEF Arrivals, InMap

(* Nothing of a connection whose CLIENT_CONNECTED or error is handled is   *)
(* announced in the rest of the queue.                                     *)
LEMMA AnnouncedOnce ==
    ASSUME TypeOK, Arrivals, NEW what \in {"CLIENT_CONNECTED", "ERROR"}, Received(what)
    PROVE  /\ msg.session \in Sessions /\ net[msg.session] # "unused"
           /\ \A i \in DOMAIN queue' : queue'[i].what = "CLIENT_CONNECTED" =>
                 queue'[i].session # msg.session
<1>1. /\ 1 \in DOMAIN queue /\ queue[1].what = what
      /\ \A i \in DOMAIN queue' :
            i \in Nat /\ i + 1 \in DOMAIN queue /\ i + 1 # 1 /\ queue'[i] = queue[i + 1]
  BY QueueShrinks
<1>2. msg = queue[1] BY TakeFirst DEF msg, TypeOK, Received, Handling
<1>3. msg.session \in Sessions BY ReceivedType
<1>4. ASSUME NEW i \in DOMAIN queue', queue'[i].what = "CLIENT_CONNECTED",
             queue'[i].session = msg.session
      PROVE  FALSE
  <2>1. i + 1 <= 1 BY <1>1, <1>2, <1>4 DEF Arrivals
  <2> QED BY <2>1, <1>1
<1> QED BY <1>1, <1>2, <1>3, <1>4 DEF Arrivals

(* Every step keeps the announcements in order.                            *)
LEMMA ArrivalsStep ==
    ASSUME TypeOK, Arrivals, [Next]_vars
    PROVE  Arrivals'
<1>q. queue \in Seq(Messages) BY DEF TypeOK
<1>c. mClientSessionID \in 0..MaxSessions BY DEF TypeOK
<1>1. CASE Application
  <2>1. ASSUME NEW from, NEW to, NEW what \in AppCalls, Call(from, to, what)
        PROVE  Arrivals'
    <3>1. [what |-> what] \in Messages BY PostedMessages
    <3>2. queue' = Append(queue, [what |-> what]) /\ UNCHANGED <<mClientSessionID, net>>
      BY <2>1 DEF Call, sourceVars
    <3> QED BY <3>1, <3>2, ArrivalsPost DEF AppCalls, InMap
  <2>2. CASE Dispose
    <3>1. DOMAIN queue' = {} /\ UNCHANGED <<mClientSessionID, net>>
      BY <2>2 DEF Dispose, sourceVars
    <3> QED BY <3>1 DEF Arrivals
  <2> QED
    BY <1>1, <2>1, <2>2
       DEF Application, CallStart, CallPause, CallResume, CallStop, AppCalls
<1>2. CASE Network
  <2>1. ASSUME NEW s \in Sessions, NEW local \in BOOLEAN, Accept(s, local) PROVE Arrivals'
    <3> DEFINE m == [what |-> "CLIENT_CONNECTED", session |-> s, local |-> local]
    <3>1. m \in Messages BY PostedMessages
    <3>2. /\ queue' = Append(queue, m) /\ net[s] = "unused"
          /\ net' = [net EXCEPT ![s] = "open"] /\ UNCHANGED mClientSessionID
      BY <2>1 DEF Accept, sourceVars
    <3>3. \A i \in DOMAIN queue' :
            \/ i \in DOMAIN queue /\ queue'[i] = queue[i]
            \/ i = Len(queue) + 1 /\ i \notin DOMAIN queue /\ queue'[i] = m
      BY <1>q, <3>1, <3>2, Post
    <3>4. \A i \in DOMAIN queue : i \in Nat /\ i <= Len(queue) /\ Len(queue) \in Nat
      BY <1>q
    <3>5. \A i \in DOMAIN queue : queue[i].what \in {"CLIENT_CONNECTED", "ERROR"} =>
            queue[i].session \in Sessions /\ queue[i].session # s
      BY <3>2, <1>q, MessageFields DEF Arrivals
    <3>6. mClientSessionID # s /\ s # 0
      <4>1. s # 0 BY DEF Sessions
      <4> QED BY <4>1, <3>2 DEF Arrivals
    <3>7. \A t \in Sessions : t # s => net'[t] = net[t]
      BY <3>2 DEF TypeOK
    <3>8. net'[s] = "open" BY <3>2 DEF TypeOK
    <3>9. \A i \in DOMAIN queue' : queue'[i].what = "CLIENT_CONNECTED" =>
            (InMap(queue[i].session) /\ queue[i].session # mClientSessionID)'
      <4>1. m.session = s OBVIOUS
      <4> QED BY <3>2, <3>3, <3>5, <3>6, <3>7, <3>8, <4>1 DEF Arrivals, InMap
    <3>10. ASSUME NEW i \in DOMAIN queue', NEW j \in DOMAIN queue',
                  queue'[i].what = "CLIENT_CONNECTED",
                  queue'[j].what \in {"CLIENT_CONNECTED", "ERROR"},
                  queue'[i].session = queue'[j].session
           PROVE  i <= j
      <4>1. CASE j = Len(queue) + 1 BY <4>1, <3>3, <3>4
      <4>2. CASE j \in DOMAIN queue /\ queue'[j] = queue[j]
        <5>1. queue'[i].session # s BY <4>2, <3>10, <3>5
        <5>2. i \in DOMAIN queue /\ queue'[i] = queue[i] BY <5>1, <3>3
        <5> QED BY <4>2, <5>2, <3>10 DEF Arrivals
      <4> QED BY <4>1, <4>2, <3>3
    <3>11. \A i \in DOMAIN queue' : queue'[i].what \in {"CLIENT_CONNECTED", "ERROR"} =>
             net'[queue'[i].session] # "unused"
      <4>1. m.session = s OBVIOUS
      <4> QED BY <3>3, <3>5, <3>7, <3>8, <4>1 DEF Arrivals
    <3>12. mClientSessionID' # 0 => net'[mClientSessionID'] # "unused"
      BY <3>2, <3>6, <3>7, <1>c, BoundsAssumption DEF Arrivals, Sessions, BoundsAssumption
    <3> QED BY <3>9, <3>10, <3>11, <3>12 DEF Arrivals
  <2>2. ASSUME NEW s \in Sessions, NEW m \in Messages, Receive(s, m),
               m.what \notin {"CLIENT_CONNECTED", "ERROR"}
        PROVE  Arrivals'
    <3>1. /\ \A t \in Sessions : net[t] # "unused" => net'[t] # "unused"
          /\ \A t \in Sessions : InMap(t) => InMap(t)'
      BY <2>2 DEF Receive, InMap, TypeOK
    <3> QED BY <2>2, <3>1, ArrivalsPost DEF Receive, sourceVars
  <2>3. ASSUME NEW s \in Sessions, NEW method \in Requests, ReceiveRequest(s, method)
        PROVE  Arrivals'
    <3>1. [what |-> "REQUEST", session |-> s, method |-> method] \in Messages
      BY PostedMessages, BoundsAssumption DEF BoundsAssumption
    <3> QED BY <2>3, <3>1, <2>2 DEF ReceiveRequest
  <2>4. ASSUME NEW s \in Sessions, NEW h \in Handlers, NEW answer \in Answers,
               ReceiveResponse(s, h, answer)
        PROVE  Arrivals'
    <3>1. [what |-> "RESPONSE", session |-> s, to |-> h, answer |-> answer] \in Messages
      BY PostedMessages
    <3> QED BY <2>4, <3>1, <2>2 DEF ReceiveResponse
  <2>5. ASSUME NEW s \in Sessions, ReportError(s) PROVE Arrivals'
    <3> DEFINE m == [what |-> "ERROR", session |-> s]
    <3>1. m \in Messages /\ m.what = "ERROR" /\ m.session = s BY PostedMessages
    <3>2. queue' = Append(queue, m) /\ UNCHANGED mClientSessionID /\ net[s] # "unused"
      BY <2>5 DEF ReportError, sourceVars
    <3>3. /\ \A t \in Sessions : net[t] # "unused" => net'[t] # "unused"
          /\ \A t \in Sessions : InMap(t) => InMap(t)'
      BY <2>5 DEF ReportError, InMap, TypeOK
    <3> HIDE DEF m
    <3> QED BY <3>1, <3>2, <3>3, ArrivalsPost
  <2> QED BY <1>2, <2>1, <2>3, <2>4, <2>5 DEF Network
<1>3. ASSUME NEW t \in Timers, Fire(t) PROVE Arrivals'
  <2>1. [what |-> t] \in Messages BY PostedMessages
  <2>2. queue' = Append(queue, [what |-> t]) /\ UNCHANGED <<mClientSessionID, net>>
    BY <1>3 DEF Fire, sourceVars
  <2> QED BY <2>1, <2>2, ArrivalsPost DEF Timers, InMap
<1>4. CASE Playback
  <2>1. PICK what \in {"SESSION_ESTABLISHED", "SESSION_DEAD", "SESSION_DESTROYED"} :
          queue' = Append(queue, [what |-> what]) /\ UNCHANGED <<mClientSessionID, net>>
    BY <1>4 DEF Playback, PlaybackEstablished, PlaybackDead, PlaybackDestroyed, Notify,
       sourceVars
  <2>2. [what |-> what] \in Messages BY PostedMessages
  <2> QED BY <2>1, <2>2, ArrivalsPost DEF InMap
<1>5. CASE WFDThread
  <2>1. CASE Crash
    <3>1. DOMAIN queue' = {} /\ UNCHANGED <<mClientSessionID, net>>
      BY <2>1 DEF Crash, sourceVars
    <3> QED BY <3>1 DEF Arrivals
  <2>2. CASE OnError
    <3>1. Received("ERROR") /\ net' = Destroy(msg.session)
      BY <2>2 DEF OnError
    <3>2. /\ msg.session \in Sessions /\ net[msg.session] # "unused"
          /\ \A i \in DOMAIN queue' : queue'[i].what = "CLIENT_CONNECTED" =>
                queue'[i].session # msg.session
      BY <3>1, AnnouncedOnce
    <3>3. mClientSessionID' \in {0, mClientSessionID} BY <2>2 DEF OnError
    <3>4. \A i \in DOMAIN queue' : queue'[i].what = "CLIENT_CONNECTED" =>
            queue'[i].session # mClientSessionID /\ queue'[i].session \in Sessions
      BY <3>1, QueueShrinks, MessageFields, <1>q DEF Arrivals
    <3>5. \A i \in DOMAIN queue' : queue'[i].what = "CLIENT_CONNECTED" =>
            queue'[i].session # mClientSessionID'
      BY <3>3, <3>4 DEF Sessions
    <3>6. mClientSessionID' # 0 => net'[mClientSessionID'] # "unused"
      <4>1. \A s \in Sessions : net[s] # "unused" => net'[s] # "unused"
        BY <3>1 DEF Destroy, InMap, TypeOK
      <4> QED BY <3>3, <4>1, <1>c, BoundsAssumption DEF Arrivals, Sessions, BoundsAssumption
    <3>7. msg.session \in 0..MaxSessions BY <3>2 DEF Sessions
    <3> QED BY <3>1, <3>2, <3>5, <3>6, <3>7, ArrivalsTake
  <2>3. CASE OnClientRejected
    <3>1. Received("CLIENT_CONNECTED") /\ net' = Destroy(msg.session) /\ UNCHANGED mClientSessionID
      BY <2>3 DEF OnClientRejected, sourceVars
    <3>2. /\ msg.session \in Sessions
          /\ \A i \in DOMAIN queue' : queue'[i].what = "CLIENT_CONNECTED" =>
                queue'[i].session # msg.session
      BY <3>1, AnnouncedOnce
    <3>4. \A i \in DOMAIN queue' : queue'[i].what = "CLIENT_CONNECTED" =>
            queue'[i].session # mClientSessionID'
      BY <3>1, QueueShrinks DEF Arrivals
    <3>6. mClientSessionID' # 0 => net'[mClientSessionID'] # "unused"
      <4>1. \A s \in Sessions : net[s] # "unused" => net'[s] # "unused"
        BY <3>1 DEF Destroy, InMap, TypeOK
      <4> QED BY <3>1, <4>1, <1>c, BoundsAssumption DEF Arrivals, Sessions, BoundsAssumption
    <3>7. msg.session \in 0..MaxSessions BY <3>2 DEF Sessions
    <3> QED BY <3>1, <3>2, <3>4, <3>6, <3>7, ArrivalsTake
  <2>4. CASE OnClientConnected
    <3>1. /\ Received("CLIENT_CONNECTED") /\ UNCHANGED net
          /\ mClientSessionID = 0 /\ mClientSessionID' = msg.session
      BY <2>4 DEF OnClientConnected
    <3>2. /\ msg.session \in Sessions /\ net[msg.session] # "unused"
          /\ \A i \in DOMAIN queue' : queue'[i].what = "CLIENT_CONNECTED" =>
                queue'[i].session # msg.session
      BY <3>1, AnnouncedOnce
    <3>7. msg.session \in 0..MaxSessions BY <3>2 DEF Sessions
    <3> QED BY <3>1, <3>2, <3>7, ArrivalsTake
  <2>5. ASSUME NEW what, KeepsClient(what) \/ DropsClient(what) PROVE Arrivals'
    <3>1. Received(what) BY <2>5 DEF KeepsClient, DropsClient
    <3>2. \A i \in DOMAIN queue' : queue'[i].what = "CLIENT_CONNECTED" =>
            queue'[i].session # mClientSessionID /\ queue'[i].session \in Sessions
      BY <3>1, QueueShrinks, MessageFields, <1>q DEF Arrivals
    <3>3. CASE KeepsClient(what)
      BY <3>1, <3>2, <3>3, <1>c, ArrivalsTake DEF KeepsClient, Arrivals
    <3>4. CASE DropsClient(what)
      <4>1. \A i \in DOMAIN queue' : queue'[i].what = "CLIENT_CONNECTED" =>
              queue'[i].session # mClientSessionID'
        BY <3>2, <3>4 DEF DropsClient, Sessions
      <4> QED BY <3>1, <3>2, <3>4, <4>1, <1>c, ArrivalsTake DEF DropsClient
    <3> QED BY <2>5, <3>3, <3>4
  <2> QED BY <1>5, <2>1, <2>2, <2>3, <2>4, <2>5, HandlerEffect
<1>6. CASE UNCHANGED vars
  BY <1>6 DEF vars, sourceVars, Arrivals, InMap
<1> QED
  BY <1>1, <1>2, <1>3, <1>4, <1>5, <1>6 DEF Next

(* A step fails a check only if the check fails, and these do not.         *)
LEMMA ChecksStep ==
    ASSUME IInv, Arrivals, mState \in FlowStates => mPlaybackSessionEstablished,
           ChecksThatHold, [Next]_vars
    PROVE  ChecksThatHold'
<1>i. TypeOK /\ OneCall /\ StopReply /\ SessionExists /\ Beginning /\ Destruction BY DEF IInv
<1>1. CASE Crash
  <2>1. /\ 1 \in DOMAIN queue /\ msg = queue[1] /\ crashed' = FailedCheck
    BY <1>1, <1>i, TakeFirst DEF Crash, Handling, msg, TypeOK
  <2>2. ~(msg.what = "CLIENT_CONNECTED" /\ ~InMap(msg.session))
    BY <2>1 DEF Arrivals
  <2>3. ~(msg.what = "STOP" /\ mState \in Stopping)
    BY <2>1, <1>i DEF OneCall, AppCalls, CallerOf, StopReply, Beginning, Stopping
  <2>4. ~(msg.what = "SESSION_DESTROYED" /\ ~mStopReplyTo)
    BY <2>1, <1>i DEF Destruction, StopReply
  <2>5. ~(~mStopReplyTo /\ mState = "AWAITING_CLIENT_TEARDOWN")
    BY <1>i DEF StopReply
  <2>6. ~(mState = "PAUSED" /\ ~mPlaybackSessionEstablished)
    BY DEF FlowStates
  <2>7. FailedCheck \notin {"connect: sendM1", "stop: mState", "finishStop2: null reply",
                           "timeout: mStopReplyTo", "play: mState",
                           "teardown: mStopReplyTo"}
    BY <2>2, <2>3, <2>4, <2>5, <2>6 DEF FailedCheck
  <2> QED BY <2>1, <2>7 DEF ChecksThatHold
<1>2. CASE ~Crash
  <2>1. UNCHANGED crashed
    <3>1. CASE Application
      BY <3>1 DEF Application, CallStart, CallPause, CallResume, CallStop, Call, Dispose
    <3>2. CASE Network
      BY <3>2, Zenon DEF Network, Accept, ReceiveRequest, ReceiveResponse, Receive, ReportError
    <3>3. CASE \E t \in Timers : Fire(t) BY <3>3 DEF Fire
    <3>4. CASE Playback
      BY <3>4 DEF Playback, PlaybackEstablished, PlaybackDead, PlaybackDestroyed
    <3>5. CASE WFDThread
      <4>1. CASE FinishStop BY <4>1 DEF FinishStop
      <4>2. CASE OnStart \/ OnError \/ OnClientRejected \/ OnClientConnected
        BY <4>2 DEF OnStart, OnError, OnClientRejected, OnClientConnected
      <4>3. CASE OnStopTrigger \/ OnStopNow \/ OnTeardownTimedOut
        BY <4>1, <4>3 DEF OnStopTrigger, TriggerTeardown, OnStopNow, OnTeardownTimedOut
      <4>4. CASE OnPause \/ OnResume \/ OnReapDeadClients \/ OnKeepAlive
        BY <4>4 DEF OnPause, OnResume, OnReapDeadClients, OnKeepAlive
      <4>5. CASE OnSessionEstablished \/ OnSessionDead \/ OnSessionDestroyed
        BY <4>5 DEF OnSessionEstablished, OnSessionDead, OnSessionDestroyed
      <4>6. CASE OnResponse \/ OnOptionsRequest \/ OnHarmlessRequest
        BY <4>6 DEF OnResponse, OnOptionsRequest, OnHarmlessRequest
      <4>7. CASE \E initOK \in BOOLEAN : OnSetupRequest(initOK)
        BY <4>7 DEF OnSetupRequest
      <4>8. CASE OnPlayRequest \/ OnPauseRequest \/ OnTeardownRequest
        BY <4>1, <4>8 DEF OnPlayRequest, PlayRequest, OnPauseRequest, OnTeardownRequest
      <4> QED BY <1>2, <3>5, <4>2, <4>3, <4>4, <4>5, <4>6, <4>7, <4>8 DEF WFDThread
    <3>6. CASE UNCHANGED vars BY <3>6 DEF vars
    <3> QED BY <3>1, <3>2, <3>3, <3>4, <3>5, <3>6 DEF Next
  <2> QED BY <2>1 DEF ChecksThatHold
<1> QED BY <1>1, <1>2

(* These checks of the source never fail, for any sink, any number of      *)
(* connections and any schedule: a connection whose CLIENT_CONNECTED is    *)
(* handled is still there to take the M1, STOP is never handled twice,     *)
(* SESSION_DESTROYED and the end of a teardown always find the waiting     *)
(* stop(), and PLAY in the state PAUSED finds an established session.      *)
THEOREM ChecksSafe == Spec => []ChecksThatHold
<1> DEFINE Flow == mState \in FlowStates => mPlaybackSessionEstablished
           All == IInv /\ Arrivals /\ Flow /\ ChecksThatHold
<1>1. Init => All
  <2>1. Init => IInv BY InvInit
  <2>2. Init => Arrivals /\ Flow /\ ChecksThatHold
    <3> SUFFICES ASSUME Init PROVE Arrivals /\ Flow /\ ChecksThatHold OBVIOUS
    <3>1. DOMAIN queue = {} /\ mClientSessionID = 0 BY DEF Init
    <3>2. Arrivals BY <3>1 DEF Arrivals
    <3> QED BY <3>2 DEF Init, FlowStates, ChecksThatHold
  <2> QED BY <2>1, <2>2
<1>2. All /\ [Next]_vars => All'
  <2> SUFFICES ASSUME All, [Next]_vars PROVE All' OBVIOUS
  <2>1. IInv' BY InvStep
  <2>2. Arrivals' BY ArrivalsStep DEF IInv
  <2>3. Flow' BY FlowStep
  <2>4. ChecksThatHold' BY ChecksStep
  <2> QED BY <2>1, <2>2, <2>3, <2>4
<1>3. All => ChecksThatHold OBVIOUS
<1> HIDE DEF All
<1> QED BY <1>1, <1>2, <1>3, PTL DEF Spec

-----------------------------------------------------------------------------
(* Every connection in the table is the client's or is still announced.    *)
Announced(s) ==
    \E i \in DOMAIN queue : queue[i].what = "CLIENT_CONNECTED" /\ queue[i].session = s

(* Posting a message, and handling one that is not a CLIENT_CONNECTED,     *)
(* loses no announcement.                                                  *)
LEMMA AnnouncedStays ==
    ASSUME TypeOK, NEW s,
           \/ \E m \in Messages : queue' = Append(queue, m)
           \/ \E what : Received(what) /\ what # "CLIENT_CONNECTED",
           Announced(s)
    PROVE  Announced(s)'
<1>1. PICK i \in DOMAIN queue : queue[i].what = "CLIENT_CONNECTED" /\ queue[i].session = s
  BY DEF Announced
<1>q. queue \in Seq(Messages) BY DEF TypeOK
<1>2. ASSUME NEW m \in Messages, queue' = Append(queue, m) PROVE Announced(s)'
  <2>1. i \in DOMAIN queue' /\ queue'[i] = queue[i] BY <1>2, <1>q
  <2> QED BY <1>1, <2>1 DEF Announced
<1>3. ASSUME NEW what, Received(what), what # "CLIENT_CONNECTED" PROVE Announced(s)'
  <2>1. queue' = Tail(queue) /\ queue # <<>> /\ i # 1
    BY <1>1, <1>3, <1>q, QueueShrinks DEF Received, Handling
  <2>2. i - 1 \in DOMAIN queue' /\ queue'[i - 1] = queue[i]
    BY <2>1, <1>q
  <2> QED BY <1>1, <2>2 DEF Announced
<1> QED BY <1>2, <1>3

(* Taking the announcement of one connection loses that of no other.       *)
LEMMA OthersAnnounced ==
    ASSUME TypeOK, NEW s, Received("CLIENT_CONNECTED"), s # msg.session, Announced(s)
    PROVE  Announced(s)'
<1>1. PICK i \in DOMAIN queue : queue[i].what = "CLIENT_CONNECTED" /\ queue[i].session = s
  BY DEF Announced
<1>q. queue \in Seq(Messages) BY DEF TypeOK
<1>2. queue' = Tail(queue) /\ queue # <<>> BY DEF Received, Handling
<1>3. i # 1 BY <1>1, <1>2, <1>q, TakeFirst DEF msg
<1>4. i - 1 \in DOMAIN queue' /\ queue'[i - 1] = queue[i] BY <1>2, <1>3, <1>q
<1> QED BY <1>1, <1>4 DEF Announced

(* Every step keeps every connection accounted for.                        *)
LEMMA OrphanStep ==
    ASSUME TypeOK, NoOrphanSession, [Next]_vars
    PROVE  NoOrphanSession'
<1> SUFFICES ASSUME crashed' = "no", NEW s \in Sessions, InMap(s)'
             PROVE  s = mClientSessionID' \/ caller' = "disposed" \/ Announced(s)'
  BY DEF NoOrphanSession, Announced
<1>o. crashed = "no" /\ InMap(s) => s = mClientSessionID \/ caller = "disposed" \/ Announced(s)
  BY DEF NoOrphanSession, Announced
<1>1. CASE Application
  <2>1. ASSUME NEW from, NEW to, NEW what \in AppCalls, Call(from, to, what)
        PROVE  s = mClientSessionID' \/ caller' = "disposed" \/ Announced(s)'
    <3>1. [what |-> what] \in Messages BY PostedMessages
    <3>2. /\ queue' = Append(queue, [what |-> what]) /\ UNCHANGED <<mClientSessionID, net>>
          /\ crashed = "no" /\ caller # "disposed"
      BY <2>1 DEF Call, sourceVars, Running
    <3> QED BY <3>1, <3>2, <1>o, AnnouncedStays DEF InMap
  <2>2. CASE Dispose
    BY <2>2 DEF Dispose
  <2> QED
    BY <1>1, <2>1, <2>2
       DEF Application, CallStart, CallPause, CallResume, CallStop, AppCalls
<1>2. CASE Network
  <2>1. ASSUME NEW t \in Sessions, NEW local \in BOOLEAN, Accept(t, local)
        PROVE  s = mClientSessionID' \/ caller' = "disposed" \/ Announced(s)'
    <3> DEFINE m == [what |-> "CLIENT_CONNECTED", session |-> t, local |-> local]
    <3>1. m \in Messages BY PostedMessages
    <3>2. /\ queue' = Append(queue, m) /\ net' = [net EXCEPT ![t] = "open"]
          /\ UNCHANGED mClientSessionID /\ crashed = "no" /\ caller # "disposed"
      BY <2>1 DEF Accept, sourceVars, Running
    <3>3. CASE s = t
      <4>1. Len(queue) + 1 \in DOMAIN queue' /\ queue'[Len(queue) + 1] = m
        BY <3>1, <3>2 DEF TypeOK
      <4> QED BY <3>3, <4>1 DEF Announced
    <3>4. CASE s # t
      <4>1. InMap(s) BY <3>2, <3>4 DEF InMap, TypeOK
      <4> QED BY <3>1, <3>2, <4>1, <1>o, AnnouncedStays
    <3> QED BY <3>3, <3>4
  <2>2. ASSUME NEW t \in Sessions, NEW m \in Messages, Receive(t, m)
        PROVE  s = mClientSessionID' \/ caller' = "disposed" \/ Announced(s)'
    <3>1. InMap(s) BY <2>2 DEF Receive, InMap, TypeOK
    <3> QED BY <2>2, <3>1, <1>o, AnnouncedStays DEF Receive, sourceVars, Running
  <2>3. ASSUME NEW t \in Sessions, NEW method \in Requests, ReceiveRequest(t, method)
        PROVE  s = mClientSessionID' \/ caller' = "disposed" \/ Announced(s)'
    <3>1. [what |-> "REQUEST", session |-> t, method |-> method] \in Messages
      BY PostedMessages, BoundsAssumption DEF BoundsAssumption
    <3> QED BY <2>3, <3>1, <2>2 DEF ReceiveRequest
  <2>4. ASSUME NEW t \in Sessions, NEW h \in Handlers, NEW answer \in Answers,
               ReceiveResponse(t, h, answer)
        PROVE  s = mClientSessionID' \/ caller' = "disposed" \/ Announced(s)'
    <3>1. [what |-> "RESPONSE", session |-> t, to |-> h, answer |-> answer] \in Messages
      BY PostedMessages
    <3> QED BY <2>4, <3>1, <2>2 DEF ReceiveResponse
  <2>5. ASSUME NEW t \in Sessions, ReportError(t)
        PROVE  s = mClientSessionID' \/ caller' = "disposed" \/ Announced(s)'
    <3>1. [what |-> "ERROR", session |-> t] \in Messages BY PostedMessages
    <3>2. InMap(s) BY <2>5 DEF ReportError, InMap, TypeOK
    <3> QED BY <2>5, <3>1, <3>2, <1>o, AnnouncedStays DEF ReportError, sourceVars, Running
  <2> QED BY <1>2, <2>1, <2>3, <2>4, <2>5 DEF Network
<1>3. ASSUME NEW t \in Timers, Fire(t)
      PROVE  s = mClientSessionID' \/ caller' = "disposed" \/ Announced(s)'
  <2>1. [what |-> t] \in Messages BY PostedMessages
  <2>2. /\ queue' = Append(queue, [what |-> t]) /\ UNCHANGED <<mClientSessionID, net>>
        /\ crashed = "no" /\ caller # "disposed"
    BY <1>3 DEF Fire, sourceVars, Running
  <2> QED BY <2>1, <2>2, <1>o, AnnouncedStays DEF InMap
<1>4. CASE Playback
  <2>1. PICK what \in {"SESSION_ESTABLISHED", "SESSION_DEAD", "SESSION_DESTROYED"} :
          /\ queue' = Append(queue, [what |-> what]) /\ UNCHANGED <<mClientSessionID, net>>
          /\ crashed = "no" /\ caller # "disposed"
    BY <1>4 DEF Playback, PlaybackEstablished, PlaybackDead, PlaybackDestroyed, Notify,
       sourceVars, Running
  <2>2. [what |-> what] \in Messages BY PostedMessages
  <2> QED BY <2>1, <2>2, <1>o, AnnouncedStays DEF InMap
<1>5. CASE WFDThread
  <2>1. CASE Crash BY <2>1 DEF Crash
  <2>2. CASE OnError
    <3>1. /\ Received("ERROR") /\ net' = Destroy(msg.session) /\ crashed = "no"
          /\ caller # "disposed"
          /\ mClientSessionID' = IF msg.session = mClientSessionID THEN 0 ELSE mClientSessionID
      BY <2>2 DEF OnError, Received, Handling, Running
    <3>2. msg.session \in Sessions BY <3>1, ReceivedType
    <3>3. InMap(s) /\ s # msg.session
      BY <3>1, <3>2 DEF Destroy, InMap, TypeOK
    <3> QED BY <3>1, <3>3, <1>o, AnnouncedStays
  <2>3. CASE OnClientRejected
    <3>1. /\ Received("CLIENT_CONNECTED") /\ net' = Destroy(msg.session)
          /\ crashed = "no" /\ caller # "disposed" /\ UNCHANGED mClientSessionID
      BY <2>3 DEF OnClientRejected, sourceVars, Received, Handling, Running
    <3>2. msg.session \in Sessions BY <3>1, ReceivedType
    <3>3. InMap(s) /\ s # msg.session
      BY <3>1, <3>2 DEF Destroy, InMap, TypeOK
    <3> QED BY <3>1, <3>3, <1>o, OthersAnnounced
  <2>4. CASE OnClientConnected
    <3>1. /\ Received("CLIENT_CONNECTED") /\ UNCHANGED net
          /\ crashed = "no" /\ caller # "disposed"
          /\ mClientSessionID = 0 /\ mClientSessionID' = msg.session
      BY <2>4 DEF OnClientConnected, Received, Handling, Running
    <3>2. InMap(s) /\ s # 0 BY <3>1 DEF InMap
    <3> QED BY <3>1, <3>2, <1>o, OthersAnnounced
  <2>5. ASSUME NEW what, KeepsClient(what) \/ DropsClient(what)
        PROVE  s = mClientSessionID' \/ caller' = "disposed" \/ Announced(s)'
    <3>1. Received(what) /\ what # "CLIENT_CONNECTED" /\ crashed = "no" /\ caller # "disposed"
      BY <2>5 DEF KeepsClient, DropsClient, Received, Handling, Running
    <3>2. CASE KeepsClient(what)
      BY <3>1, <3>2, <1>o, AnnouncedStays DEF KeepsClient, InMap
    <3>3. CASE DropsClient(what)
      <4>1. InMap(s) /\ s # mClientSessionID
        BY <3>3 DEF DropsClient, Destroy, InMap, TypeOK
      <4> QED BY <3>1, <4>1, <1>o, AnnouncedStays
    <3> QED BY <2>5, <3>2, <3>3
  <2> QED BY <1>5, <2>1, <2>2, <2>3, <2>4, <2>5, HandlerEffect
<1>6. CASE UNCHANGED vars
  BY <1>6, <1>o DEF vars, sourceVars, InMap, Announced
<1> QED
  BY <1>1, <1>2, <1>3, <1>4, <1>5, <1>6 DEF Next

(* No connection is orphaned: as long as the looper lives, a connection    *)
(* the network thread keeps is the client's or its CLIENT_CONNECTED has    *)
(* not been handled, however errors, rejections, the reaper and the        *)
(* shutdown interleave.                                                    *)
THEOREM OrphanSafe == Spec => []NoOrphanSession
<1>1. Init => NoOrphanSession BY DEF Init, NoOrphanSession, InMap
<1>2. TypeOK /\ NoOrphanSession /\ [Next]_vars => NoOrphanSession' BY OrphanStep
<1> QED BY <1>1, <1>2, TypeCorrect, PTL DEF Spec

-----------------------------------------------------------------------------
(* The life of the playback session, as the source sees it: there is none  *)
(* before a SETUP is served, and it lives while the source plays.          *)
Life ==
    /\ mPlaybackSessionID = -1 => playback = "none"
    /\ mState \in {"INITIALIZED", "AWAITING_CLIENT_CONNECTION"} => playback = "none"
    /\ mState \in HaveSetup \cup {"AWAITING_CLIENT_TEARDOWN"} => playback = "live"

(* Every step keeps it, and is a step of PlaybackLifecycle or none.        *)
LEMMA LifeStep ==
    ASSUME IInv, Life, [Next]_vars
    PROVE  Life' /\ [Lifecycle!Next]_(Lifecycle!vars)
<1> DEFINE Same == UNCHANGED <<playback, established, crashed>>
<1>i. TypeOK /\ OneCall /\ StopReply /\ SessionExists /\ Beginning /\ Destruction BY DEF IInv
<1>s. Same => [Lifecycle!Next]_(Lifecycle!vars) BY DEF Lifecycle!vars
<1>q. ASSUME Same, UNCHANGED mPlaybackSessionID,
             mState' = mState \/ (mState \in HaveSetup /\ mState' \in HaveSetup)
      PROVE  Life' /\ [Lifecycle!Next]_(Lifecycle!vars)
  BY <1>q, <1>s DEF Life, HaveSetup
<1>1. CASE Application
  BY <1>1, <1>q DEF Application, CallStart, CallPause, CallResume, CallStop, Call, Dispose,
     sourceVars
<1>2. CASE Network
  <2>1. UNCHANGED sourceVars /\ Same
    BY <1>2, Zenon DEF Network, Accept, ReceiveRequest, ReceiveResponse, Receive, ReportError
  <2> QED BY <2>1, <1>q DEF sourceVars
<1>3. CASE \E t \in Timers : Fire(t)
  BY <1>3, <1>q DEF Fire, sourceVars
<1>4. CASE Playback
  <2>1. CASE PlaybackEstablished
    <3>1. Lifecycle!SessionEstablished
      BY <2>1 DEF PlaybackEstablished, Lifecycle!SessionEstablished, Running
    <3>2. UNCHANGED <<playback, mState, mPlaybackSessionID>>
      BY <2>1 DEF PlaybackEstablished, sourceVars
    <3> QED BY <3>1, <3>2 DEF Lifecycle!Next, Life
  <2>2. CASE PlaybackDead
    BY <2>2, <1>q DEF PlaybackDead, sourceVars
  <2>3. CASE PlaybackDestroyed
    <3>1. Lifecycle!SessionDestroyed
      BY <2>3 DEF PlaybackDestroyed, Lifecycle!SessionDestroyed, Running
    <3>2. playback = "destroying" /\ UNCHANGED <<mState, mPlaybackSessionID>>
      BY <2>3 DEF PlaybackDestroyed, sourceVars
    <3>3. Life' BY <3>2 DEF Life, HaveSetup
    <3> QED BY <3>1, <3>3 DEF Lifecycle!Next
  <2> QED BY <1>4, <2>1, <2>2, <2>3 DEF Playback
<1>5. CASE WFDThread
  <2>0. ASSUME NEW what, Received(what), FinishStop, mState \notin {"STOPPING", "STOPPED"}
        PROVE  Life' /\ [Lifecycle!Next]_(Lifecycle!vars)
    <3>1. CASE mPlaybackSession
      <4>1. playback = "live"
        BY <2>0, <3>1, <1>i DEF SessionExists, HaveSession, Life
      <4>2. /\ mState' = "STOPPING" /\ playback' = "destroying" /\ crashed = "no"
            /\ UNCHANGED <<established, crashed, mPlaybackSessionID>>
        BY <2>0, <3>1 DEF FinishStop, DestroyPlaybackAsync, Received, Handling, Running
      <4>3. Lifecycle!DestroyAsync BY <4>1, <4>2 DEF Lifecycle!DestroyAsync
      <4>4. Life' BY <3>1, <4>2, <1>i DEF Life, SessionExists, HaveSetup
      <4> QED BY <4>3, <4>4 DEF Lifecycle!Next
    <3>2. CASE ~mPlaybackSession
      <4>1. mState' = "STOPPED" /\ Same /\ UNCHANGED mPlaybackSessionID
        BY <2>0, <3>2 DEF FinishStop, DisconnectClient2
      <4> QED BY <4>1, <1>s DEF Life, HaveSetup
    <3> QED BY <3>1, <3>2
  <2>1. CASE OnStart
    <3>1. mState = "INITIALIZED"
      BY <2>1, <1>i, QueueShrinks DEF OnStart, OneCall, AppCalls, CallerOf, Beginning
    <3>2. Same /\ UNCHANGED mPlaybackSessionID /\ mState' = "AWAITING_CLIENT_CONNECTION"
      BY <2>1 DEF OnStart
    <3> QED BY <3>1, <3>2, <1>s DEF Life, HaveSetup
  <2>2. CASE OnError BY <2>2, <1>q DEF OnError
  <2>3. CASE OnClientRejected BY <2>3, <1>q DEF OnClientRejected, sourceVars
  <2>4. CASE OnClientConnected
    <3>1. mState = "AWAITING_CLIENT_CONNECTION"
      BY <2>4, ChecksPassed DEF OnClientConnected, Received
    <3>2. Same /\ mState' = "AWAITING_CLIENT_SETUP"
      BY <2>4 DEF OnClientConnected
    <3> QED BY <3>1, <3>2, <1>s DEF Life, HaveSetup
  <2>5. CASE OnStopTrigger
    <3>1. /\ mState \in HaveSetup /\ mState' = "AWAITING_CLIENT_TEARDOWN"
          /\ Same /\ UNCHANGED mPlaybackSessionID
      BY <2>5 DEF OnStopTrigger, TriggerTeardown, CanTrigger
    <3> QED BY <3>1, <1>s DEF Life, HaveSetup
  <2>6. CASE OnStopNow
    BY <2>6, <2>0, ChecksPassed DEF OnStopNow, Received, Stopping
  <2>7. CASE OnTeardownTimedOut
    BY <2>7, <2>0, <1>q DEF OnTeardownTimedOut, sourceVars
  <2>8. CASE OnPause BY <2>8, <1>q DEF OnPause, HaveSetup
  <2>9. CASE OnResume BY <2>9, <1>q DEF OnResume, HaveSetup
  <2>10. CASE OnReapDeadClients BY <2>10, <1>q DEF OnReapDeadClients
  <2>11. CASE OnKeepAlive BY <2>11, <1>q DEF OnKeepAlive
  <2>12. CASE OnSessionEstablished BY <2>12, <1>q DEF OnSessionEstablished, HaveSetup
  <2>13. CASE OnSessionDead BY <2>13, <1>q DEF OnSessionDead, sourceVars
  <2>14. CASE OnSessionDestroyed
    <3>1. mState' = "STOPPED" /\ Same /\ UNCHANGED mPlaybackSessionID
      BY <2>14 DEF OnSessionDestroyed, DisconnectClient2
    <3> QED BY <3>1, <1>s DEF Life, HaveSetup
  <2>15. CASE OnResponse BY <2>15, <1>q DEF OnResponse
  <2>16. CASE OnOptionsRequest BY <2>16, <1>q DEF OnOptionsRequest
  <2>17. CASE OnHarmlessRequest BY <2>17, <1>q DEF OnHarmlessRequest, sourceVars
  <2>18. ASSUME NEW initOK \in BOOLEAN, OnSetupRequest(initOK)
         PROVE  Life' /\ [Lifecycle!Next]_(Lifecycle!vars)
    <3>1. CASE ~initOK BY <2>18, <3>1, <1>q DEF OnSetupRequest
    <3>2. CASE initOK
      <4>1. /\ mPlaybackSessionID = -1 /\ mPlaybackSessionID' = msg.session
            /\ playback' = "live" /\ mState' = "AWAITING_CLIENT_PLAY"
            /\ UNCHANGED <<established, crashed>> /\ crashed = "no" /\ Received("REQUEST")
        BY <2>18, <3>2 DEF OnSetupRequest, Requested, Received, Handling, Running
      <4>2. playback = "none" BY <4>1 DEF Life
      <4>3. msg.session \in Sessions BY <4>1, <1>i, ReceivedType
      <4>4. msg.session # -1 BY <4>3 DEF Sessions
      <4>5. Lifecycle!Create BY <4>1, <4>2 DEF Lifecycle!Create
      <4>6. Life' BY <4>1, <4>4 DEF Life
      <4> QED BY <4>5, <4>6 DEF Lifecycle!Next
    <3> QED BY <3>1, <3>2
  <2>19. CASE OnPlayRequest
    BY <2>19, <1>q DEF OnPlayRequest, PlayRequest, PlayAllowed, HaveSetup
  <2>20. CASE OnPauseRequest BY <2>20, <1>q DEF OnPauseRequest, HaveSetup
  <2>21. CASE OnTeardownRequest
    BY <2>21, <2>0, <1>q DEF OnTeardownRequest, Requested, sourceVars
  <2>22. CASE Crash
    <3>1. /\ crashed = "no" /\ crashed' # "no"
          /\ UNCHANGED <<playback, established, mState, mPlaybackSessionID>>
      BY <2>22 DEF Crash, Handling, Running, sourceVars
    <3>2. Lifecycle!ProcessEnds BY <3>1 DEF Lifecycle!ProcessEnds
    <3> QED BY <3>1, <3>2 DEF Lifecycle!Next, Life
  <2> QED
    BY <1>5, <2>1, <2>2, <2>3, <2>4, <2>5, <2>6, <2>7, <2>8, <2>9, <2>10, <2>11,
       <2>12, <2>13, <2>14, <2>15, <2>16, <2>17, <2>18, <2>19, <2>20, <2>21, <2>22
       DEF WFDThread
<1>6. CASE UNCHANGED vars
  BY <1>6, <1>q DEF vars, sourceVars
<1> QED
  BY <1>1, <1>2, <1>3, <1>4, <1>5, <1>6 DEF Next

(* The source implements its side of PlaybackLifecycle, the contract with  *)
(* the playback session: a session is created at most once, destroyAsync() *)
(* is called at most once and only while it lives, however STOP, TEARDOWN, *)
(* the teardown timeout and lost connections interleave.                   *)
THEOREM LifecycleKept == Spec => KeepsLifecycle
<1>1. Init => Life /\ Lifecycle!Init
  BY DEF Init, Life, HaveSetup, Lifecycle!Init
<1>2. IInv /\ Life /\ [Next]_vars => Life' /\ [Lifecycle!Next]_(Lifecycle!vars)
  BY LifeStep
<1>3. Spec => []Life
  <2>1. IInv /\ Life /\ [Next]_vars => Life' BY <1>2
  <2> QED BY <1>1, <2>1, Invariance, PTL DEF Spec
<1>4. Spec => [][Lifecycle!Next]_(Lifecycle!vars)
  BY <1>2, <1>3, Invariance, PTL DEF Spec
<1> QED BY <1>1, <1>4, PTL DEF Spec, KeepsLifecycle, Lifecycle!Usage
=============================================================================
