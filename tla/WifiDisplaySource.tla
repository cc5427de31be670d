-------------------------- MODULE WifiDisplaySource --------------------------
(***************************************************************************)
(* WifiDisplaySource, the RTSP state machine of the Wi-Fi Display source,  *)
(* with the threads that drive it:                                         *)
(*   - the WFD looper thread, which handles one message of `queue` at a    *)
(*     time (every On... action is one whole handler);                     *)
(*   - the application thread inside RemoteDisplay: start(), pause(),      *)
(*     resume() and dispose(), each blocking for its answer;               *)
(*   - the network thread, which accepts connections, delivers parsed RTSP *)
(*     messages and reports errors by posting to `queue`;                  *)
(*   - the delayed messages (reaper, keep-alive, teardown timeout);        *)
(*   - the PlaybackSession, here only by what it promises: see             *)
(*     PlaybackLifecycle.                                                  *)
(* The sink is not trusted to follow the protocol: it may send any request *)
(* and answer any outstanding request, in any order, at any time.          *)
(*                                                                         *)
(* A failing CheckUtils.check or a null dereference on the WFD thread ends *)
(* the process; `crashed` names the failing check.                         *)
(***************************************************************************)
EXTENDS Integers, Sequences

CONSTANTS
    MaxSessions,      \* bound: TCP connections accepted
    MaxQueue,         \* bound: messages waiting in the WFD looper
    MaxOutstanding,   \* bound: unanswered requests of one kind per session
    Unsolicited,      \* bound: whether answers come that nobody waits for
    Requests,         \* the kinds of RTSP data the sink sends (subset of AllRequests)
    LateInit          \* RTP over TCP: the sender may connect after the teardown

(* What the sink sends.  REJECTED stands for every request that is answered *)
(* with an error before any state is looked at (no CSeq, wrong version,     *)
(* unknown method, unknown Session header); SET_PARAMETER for it and        *)
(* GET_PARAMETER, which only prove the client alive.  A SETUP is            *)
(* well-formed, malformed or asks for interleaved transport.  BINARY_DATA   *)
(* is no request: an interleaved frame, which starts with a '$'.            *)
AllRequests == {"REJECTED", "OPTIONS", "SETUP", "SETUP_BAD", "SETUP_INTERLEAVED",
                "PLAY", "PAUSE", "TEARDOWN", "SET_PARAMETER", "BINARY_DATA"}

ASSUME BoundsAssumption ==
    /\ MaxSessions \in Nat \ {0}
    /\ MaxQueue \in Nat \ {0}
    /\ MaxOutstanding \in Nat \ {0}
    /\ Requests \subseteq AllRequests
    /\ Unsolicited \in BOOLEAN /\ LateInit \in BOOLEAN

VARIABLES
    mState,
    mSessionID,                  \* the RTSP server session is open (0 or 1)
    mClientSessionID,            \* 0 or the network session of the client
    mPlaybackSessionID,          \* 0, -1, or the session it was set up for
    mPlaybackSession,            \* mClientInfo.mPlaybackSession # null
    mPlaybackSessionEstablished,
    mStopReplyTo,                \* a stop() waits for its answer
    mReaperPending,
    mSinkSupportsVideo,
    mResponseHandlers,           \* [session][handler]: unanswered requests
    queue,                       \* messages posted to the WFD looper
    timers,                      \* delayed messages not yet due
    net,                         \* the network sessions, by id
    caller,                      \* the application thread
    playback,                    \* life of the PlaybackSession
    established,                 \* it has posted SESSION_ESTABLISHED
    crashed                      \* "no", or the check that failed

sourceVars == <<mState, mSessionID, mClientSessionID, mPlaybackSessionID,
                mPlaybackSession, mPlaybackSessionEstablished, mStopReplyTo,
                mReaperPending, mSinkSupportsVideo, mResponseHandlers>>

vars == <<sourceVars, queue, timers, net, caller, playback, established, crashed>>

State == {"INITIALIZED", "AWAITING_CLIENT_CONNECTION", "AWAITING_CLIENT_SETUP",
          "AWAITING_CLIENT_PLAY", "ABOUT_TO_PLAY", "PLAYING",
          "PLAYING_TO_PAUSED", "PAUSED", "PAUSED_TO_PLAYING",
          "AWAITING_CLIENT_TEARDOWN", "STOPPING", "STOPPED"}

HaveSetup == {"AWAITING_CLIENT_PLAY", "ABOUT_TO_PLAY", "PLAYING",
              "PLAYING_TO_PAUSED", "PAUSED", "PAUSED_TO_PLAYING"}
Stopping  == {"AWAITING_CLIENT_TEARDOWN", "STOPPING", "STOPPED"}

Sessions == 1..MaxSessions
Handlers == {"M1", "M3", "M4", "M5", "M16"}

(* The answer to an M3 is refused, names no usable video, names video that  *)
(* cannot be parsed or matched, or is good; the other answers are refused   *)
(* or good.                                                                 *)
Answers == {"refused", "novideo", "badvideo", "good"}

Timers == {"REAP_DEAD_CLIENTS", "KEEP_ALIVE", "TEARDOWN_TRIGGER_TIMED_OUT"}

(* The checks and null dereferences that a handler may run into.           *)
Checks == {"connect: mState", "connect: sendM1", "stop: mState",
           "finishPlay: null session", "finishStop2: null reply",
           "timeout: mStopReplyTo", "sendM4: sessionID", "M16: sessionID",
           "setup: sessionID", "setup: no video, no audio", "setup: interleaved",
           "play: mState", "teardown: mStopReplyTo", "TRESPASS"}

Messages ==
    [what : {"START", "STOP", "PAUSE", "RESUME"}]
    \cup [what : Timers]
    \cup [what : {"CLIENT_CONNECTED"}, session : Sessions, local : BOOLEAN]
    \cup [what : {"ERROR"}, session : Sessions]
    \cup [what : {"REQUEST"}, session : Sessions, method : AllRequests]
    \cup [what : {"RESPONSE"}, session : Sessions, to : Handlers, answer : Answers]
    \cup [what : {"SESSION_ESTABLISHED", "SESSION_DEAD", "SESSION_DESTROYED"}]

TypeOK ==
    /\ mState \in State
    /\ mSessionID \in 0..1
    /\ mClientSessionID \in 0..MaxSessions
    /\ mPlaybackSessionID \in {-1, 0} \cup Sessions
    /\ mPlaybackSession \in BOOLEAN
    /\ mPlaybackSessionEstablished \in BOOLEAN
    /\ mStopReplyTo \in BOOLEAN
    /\ mReaperPending \in BOOLEAN
    /\ mSinkSupportsVideo \in BOOLEAN
    /\ mResponseHandlers \in [Sessions -> [Handlers -> Nat]]
    /\ queue \in Seq(Messages)
    /\ timers \subseteq Timers
    /\ net \in [Sessions -> {"unused", "open", "failing", "failed", "closing", "closed"}]
    /\ caller \in {"new", "starting", "idle", "pausing", "resuming", "stopping",
                   "stopped", "disposed"}
    /\ playback \in {"none", "live", "destroying", "destroyed"}
    /\ established \in BOOLEAN
    /\ crashed \in {"no"} \cup Checks

Init ==
    /\ mState = "INITIALIZED"
    /\ mSessionID = 0
    /\ mClientSessionID = 0
    /\ mPlaybackSessionID = 0
    /\ mPlaybackSession = FALSE
    /\ mPlaybackSessionEstablished = FALSE
    /\ mStopReplyTo = FALSE
    /\ mReaperPending = FALSE
    /\ mSinkSupportsVideo = FALSE
    /\ mResponseHandlers = [s \in Sessions |-> [h \in Handlers |-> 0]]
    /\ queue = <<>>
    /\ timers = {}
    /\ net = [s \in Sessions |-> "unused"]
    /\ caller = "new"
    /\ playback = "none"
    /\ established = FALSE
    /\ crashed = "no"

-----------------------------------------------------------------------------
(* The application thread (RemoteDisplay).                                 *)

Running == crashed = "no" /\ caller # "disposed"

Call(from, to, what) ==
    /\ Running
    /\ caller = from
    /\ what \in {"PAUSE", "RESUME"} =>
         \A s \in Sessions : mResponseHandlers[s]["M5"] < MaxOutstanding
    /\ caller' = to
    /\ queue' = Append(queue, [what |-> what])
    /\ UNCHANGED <<sourceVars, timers, net, playback, established, crashed>>

CallStart  == Call("new", "starting", "START")
CallPause  == Call("idle", "pausing", "PAUSE")
CallResume == Call("idle", "resuming", "RESUME")
CallStop   == Call("idle", "stopping", "STOP")

(* dispose(), once stop() has returned: the looper quits with whatever is  *)
(* still queued, and the network thread ends.                              *)
Dispose ==
    /\ Running
    /\ caller = "stopped"
    /\ caller' = "disposed"
    /\ queue' = <<>>
    /\ timers' = {}
    /\ UNCHANGED <<sourceVars, net, playback, established, crashed>>

-----------------------------------------------------------------------------
(* The network thread (ANetworkSession, external to this module).  A       *)
(* session is in mSessions from its acceptance to destroySession().  It    *)
(* reports at most one receive and one send failure; destroySession()      *)
(* closes the channel outside the lock, so that one more message of the    *)
(* session may be posted after it.                                         *)

InMap(s) == s # 0 /\ net[s] \in {"open", "failing", "failed"}

Destroy(s) == IF InMap(s) THEN [net EXCEPT ![s] = "closing"] ELSE net

Accept(s, local) ==
    /\ Running
    /\ mSessionID # 0
    /\ Len(queue) < MaxQueue
    /\ net[s] = "unused"
    /\ \A t \in Sessions : t < s => net[t] # "unused"
    /\ net' = [net EXCEPT ![s] = "open"]
    /\ queue' = Append(queue, [what |-> "CLIENT_CONNECTED", session |-> s, local |-> local])
    /\ UNCHANGED <<sourceVars, timers, caller, playback, established, crashed>>

Receive(s, m) ==
    /\ Running
    /\ Len(queue) < MaxQueue
    /\ net[s] \in {"open", "failing", "closing"}
    /\ queue' = Append(queue, m)
    /\ net' = IF net[s] = "closing" THEN [net EXCEPT ![s] = "closed"] ELSE net
    /\ UNCHANGED <<sourceVars, timers, caller, playback, established, crashed>>

ReceiveRequest(s, method) ==
    /\ method = "OPTIONS" =>
         \A h \in {"M3", "M4", "M5"} : mResponseHandlers[s][h] < MaxOutstanding
    /\ Receive(s, [what |-> "REQUEST", session |-> s, method |-> method])

ReceiveResponse(s, h, answer) ==
    /\ mResponseHandlers[s][h] > 0 \/ Unsolicited
    /\ answer \in IF h = "M3" THEN Answers ELSE {"refused", "good"}
    /\ Receive(s, [what |-> "RESPONSE", session |-> s, to |-> h, answer |-> answer])

ReportError(s) ==
    /\ Running
    /\ Len(queue) < MaxQueue
    /\ net[s] \in {"open", "failing", "closing"}
    /\ net' = [net EXCEPT ![s] = CASE @ = "open" -> "failing"
                                   [] @ = "failing" -> "failed"
                                   [] OTHER -> "closed"]
    /\ queue' = Append(queue, [what |-> "ERROR", session |-> s])
    /\ UNCHANGED <<sourceVars, timers, caller, playback, established, crashed>>

-----------------------------------------------------------------------------
(* The delayed messages.                                                   *)

Fire(t) ==
    /\ Running
    /\ t \in timers
    /\ t = "KEEP_ALIVE" => \A s \in Sessions : mResponseHandlers[s]["M16"] < MaxOutstanding
    /\ timers' = timers \ {t}
    /\ queue' = Append(queue, [what |-> t])
    /\ UNCHANGED <<sourceVars, net, caller, playback, established, crashed>>

-----------------------------------------------------------------------------
(* The PlaybackSession: what PlaybackLifecycle promises.                   *)

Notify(what) == queue' = Append(queue, [what |-> what])

PlaybackEstablished ==
    /\ Running
    /\ playback # "none"
    /\ ~established
    /\ playback = "destroyed" => LateInit
    /\ established' = TRUE
    /\ Notify("SESSION_ESTABLISHED")
    /\ UNCHANGED <<sourceVars, timers, net, caller, playback, crashed>>

PlaybackDead ==
    /\ Running
    /\ playback # "none"
    /\ Len(queue) < MaxQueue
    /\ Notify("SESSION_DEAD")
    /\ UNCHANGED <<sourceVars, timers, net, caller, playback, established, crashed>>

PlaybackDestroyed ==
    /\ Running
    /\ playback = "destroying"
    /\ playback' = "destroyed"
    /\ Notify("SESSION_DESTROYED")
    /\ UNCHANGED <<sourceVars, timers, net, caller, established, crashed>>

-----------------------------------------------------------------------------
(* The WFD thread: onMessageReceived.                                      *)

msg == Head(queue)

(* findPlaybackSession: a request without a Session header, or with the    *)
(* right one, is for the playback session, if there is one.                *)
FindPlaybackSession == mPlaybackSession

(* The check, or the null dereference, that handling msg runs into.  *)
FailedCheck ==
    CASE msg.what = "CLIENT_CONNECTED" /\ mClientSessionID = 0
         /\ mState # "AWAITING_CLIENT_CONNECTION"       -> "connect: mState"
      [] msg.what = "CLIENT_CONNECTED" /\ mClientSessionID = 0 /\ ~msg.local
         /\ mState = "AWAITING_CLIENT_CONNECTION"
         /\ ~InMap(msg.session)                           -> "connect: sendM1"
      [] msg.what = "STOP" /\ mState \in Stopping         -> "stop: mState"
      [] msg.what = "SESSION_ESTABLISHED"
         /\ ~mPlaybackSession                           -> "finishPlay: null session"
      [] msg.what = "SESSION_DESTROYED" /\ ~mStopReplyTo  -> "finishStop2: null reply"
      [] msg.what = "TEARDOWN_TRIGGER_TIMED_OUT" /\ ~mStopReplyTo
         /\ mState = "AWAITING_CLIENT_TEARDOWN"         -> "timeout: mStopReplyTo"
      [] msg.what = "RESPONSE" /\ msg.to = "M3" /\ msg.answer = "good"
         /\ mResponseHandlers[msg.session]["M3"] > 0
         /\ msg.session # mClientSessionID                -> "sendM4: sessionID"
      [] msg.what = "RESPONSE" /\ msg.to = "M16"
         /\ mResponseHandlers[msg.session]["M16"] > 0
         /\ msg.session # mClientSessionID                -> "M16: sessionID"
      [] msg.what = "REQUEST"
         /\ msg.method \in {"SETUP", "SETUP_BAD", "SETUP_INTERLEAVED"}
         /\ msg.session # mClientSessionID                -> "setup: sessionID"
      [] msg.what = "REQUEST" /\ msg.method \in {"SETUP", "SETUP_INTERLEAVED"}
         /\ msg.session = mClientSessionID
         /\ mPlaybackSessionID = -1
         /\ ~mSinkSupportsVideo                         -> "setup: no video, no audio"
      [] msg.what = "REQUEST" /\ msg.method = "SETUP_INTERLEAVED"
         /\ msg.session = mClientSessionID
         /\ mPlaybackSessionID = -1
         /\ mSinkSupportsVideo                          -> "setup: interleaved"
      [] msg.what = "REQUEST" /\ msg.method = "PLAY" /\ mState = "PAUSED"
         /\ FindPlaybackSession /\ InMap(msg.session)
         /\ ~mPlaybackSessionEstablished                -> "play: mState"
      [] msg.what = "REQUEST" /\ msg.method = "TEARDOWN" /\ ~mStopReplyTo
         /\ FindPlaybackSession
         /\ mState = "AWAITING_CLIENT_TEARDOWN"         -> "teardown: mStopReplyTo"
      [] msg.what = "REQUEST" /\ msg.method = "BINARY_DATA" -> "TRESPASS"
      [] OTHER                                          -> "no"

Handling == Running /\ queue # <<>>

(* An uncaught exception ends the process.                                 *)
Crash ==
    /\ Handling
    /\ FailedCheck # "no"
    /\ crashed' = FailedCheck
    /\ queue' = <<>>
    /\ timers' = {}
    /\ UNCHANGED <<sourceVars, net, caller, playback, established>>

Received(what) ==
    /\ Handling
    /\ msg.what = what
    /\ FailedCheck = "no"
    /\ queue' = Tail(queue)

(* sendRequest succeeds iff the session is known to the network thread;    *)
(* only then is the response handler registered.                           *)
Register(handlers, s, h) ==
    IF InMap(s) THEN [handlers EXCEPT ![s][h] = @ + 1] ELSE handlers

OnStart ==
    /\ Received("START")
    /\ mSessionID' \in {0, 1}        \* createRTSPServer may fail
    /\ mState' = "AWAITING_CLIENT_CONNECTION"
    /\ caller' = "idle"
    /\ UNCHANGED <<mClientSessionID, mPlaybackSessionID, mPlaybackSession,
                   mPlaybackSessionEstablished, mStopReplyTo, mReaperPending,
                   mSinkSupportsVideo, mResponseHandlers, timers, net,
                   playback, established, crashed>>

(* An error of the client's session forgets the client and nothing else.   *)
OnError ==
    /\ Received("ERROR")
    /\ net' = Destroy(msg.session)
    /\ mClientSessionID' = IF msg.session = mClientSessionID THEN 0 ELSE mClientSessionID
    /\ UNCHANGED <<mState, mSessionID, mPlaybackSessionID, mPlaybackSession,
                   mPlaybackSessionEstablished, mStopReplyTo, mReaperPending,
                   mSinkSupportsVideo, mResponseHandlers, timers, caller,
                   playback, established, crashed>>

(* Mutant of OnClientRejected: the unwanted connection is left open.       *)
OnClientRejectedKept ==
    /\ Received("CLIENT_CONNECTED")
    /\ mClientSessionID > 0 \/ msg.local
    /\ UNCHANGED <<sourceVars, net, timers, caller, playback, established, crashed>>

(* A second client, and one on the local interface, are turned away.       *)
OnClientRejected ==
    /\ Received("CLIENT_CONNECTED")
    /\ mClientSessionID > 0 \/ msg.local
    /\ net' = Destroy(msg.session)
    /\ UNCHANGED <<sourceVars, timers, caller, playback, established, crashed>>

OnClientConnected ==
    /\ Received("CLIENT_CONNECTED")
    /\ mClientSessionID = 0 /\ ~msg.local
    /\ mPlaybackSessionID' = -1
    /\ mClientSessionID' = msg.session
    /\ mState' = "AWAITING_CLIENT_SETUP"
    /\ mResponseHandlers' = Register(mResponseHandlers, msg.session, "M1")
    /\ UNCHANGED <<mSessionID, mPlaybackSession, mPlaybackSessionEstablished,
                   mStopReplyTo, mReaperPending, mSinkSupportsVideo, timers,
                   net, caller, playback, established, crashed>>

(* Mutant of DisconnectClient2: mStopReplyTo is not reset.                 *)
DisconnectClient2Unanswered ==
    /\ mState' = "STOPPED"
    /\ mPlaybackSession' = FALSE
    /\ net' = Destroy(mClientSessionID)
    /\ mClientSessionID' = 0
    /\ mSessionID' = 0
    /\ caller' = "stopped"
    /\ UNCHANGED <<mStopReplyTo, playback>>

(* disconnectClient2 and finishStop2: the client and the server sessions   *)
(* go, and the waiting stop() gets its answer.                             *)
DisconnectClient2 ==
    /\ mState' = "STOPPED"
    /\ mPlaybackSession' = FALSE
    /\ net' = Destroy(mClientSessionID)
    /\ mClientSessionID' = 0
    /\ mSessionID' = 0
    /\ mStopReplyTo' = FALSE
    /\ caller' = "stopped"
    /\ UNCHANGED playback

DestroyPlaybackAsync ==
    /\ mState' = "STOPPING"
    /\ playback' = "destroying"
    /\ mStopReplyTo' = TRUE
    /\ UNCHANGED <<mSessionID, mClientSessionID, mPlaybackSession, net, caller>>

(* finishStop and disconnectClientAsync.                                   *)
FinishStop ==
    /\ IF mPlaybackSession THEN DestroyPlaybackAsync ELSE DisconnectClient2
    /\ UNCHANGED <<mPlaybackSessionID, mPlaybackSessionEstablished, mReaperPending,
                   mSinkSupportsVideo, mResponseHandlers, timers, established,
                   crashed>>

(* With a session set up and a reachable client stop() first asks for the  *)
(* client's TEARDOWN.                                                      *)
CanTrigger == mState \in HaveSetup /\ InMap(mClientSessionID)

TriggerTeardown(reply, timeout) ==
    /\ Received("STOP")
    /\ CanTrigger
    /\ mStopReplyTo' = reply
    /\ mResponseHandlers' = Register(mResponseHandlers, mClientSessionID, "M5")
    /\ mState' = "AWAITING_CLIENT_TEARDOWN"
    /\ timers' = timers \cup timeout
    /\ UNCHANGED <<mSessionID, mClientSessionID, mPlaybackSessionID,
                   mPlaybackSession, mPlaybackSessionEstablished,
                   mReaperPending, mSinkSupportsVideo, net, caller,
                   playback, established, crashed>>

(* Mutants of OnStopTrigger: the caller is forgotten; no timeout is set.   *)
OnStopTriggerNoReply   == TriggerTeardown(FALSE, {"TEARDOWN_TRIGGER_TIMED_OUT"})
OnStopTriggerNoTimeout == TriggerTeardown(TRUE, {})

OnStopTrigger == TriggerTeardown(TRUE, {"TEARDOWN_TRIGGER_TIMED_OUT"})

OnStopNow ==
    /\ Received("STOP")
    /\ ~CanTrigger
    /\ FinishStop

(* Mutant of OnTeardownTimedOut: the timeout acts in every state.          *)
OnTeardownTimedOutAlways == Received("TEARDOWN_TRIGGER_TIMED_OUT") /\ FinishStop

OnTeardownTimedOut ==
    /\ Received("TEARDOWN_TRIGGER_TIMED_OUT")
    /\ IF mState = "AWAITING_CLIENT_TEARDOWN" THEN FinishStop
       ELSE UNCHANGED <<sourceVars, timers, net, caller, playback, established, crashed>>

(* pause() and resume(): the state changes even if the trigger cannot be   *)
(* sent, and the answer does not wait for the client.                      *)
OnPause ==
    /\ Received("PAUSE")
    /\ IF mState = "PLAYING"
       THEN /\ mState' = "PLAYING_TO_PAUSED"
            /\ mResponseHandlers' = Register(mResponseHandlers, mClientSessionID, "M5")
       ELSE UNCHANGED <<mState, mResponseHandlers>>
    /\ caller' = "idle"
    /\ UNCHANGED <<mSessionID, mClientSessionID, mPlaybackSessionID,
                   mPlaybackSession, mPlaybackSessionEstablished, mStopReplyTo,
                   mReaperPending, mSinkSupportsVideo, timers, net, playback,
                   established, crashed>>

OnResume ==
    /\ Received("RESUME")
    /\ IF mState = "PAUSED"
       THEN /\ mState' = "PAUSED_TO_PLAYING"
            /\ mResponseHandlers' = Register(mResponseHandlers, mClientSessionID, "M5")
       ELSE UNCHANGED <<mState, mResponseHandlers>>
    /\ caller' = "idle"
    /\ UNCHANGED <<mSessionID, mClientSessionID, mPlaybackSessionID,
                   mPlaybackSession, mPlaybackSessionEstablished, mStopReplyTo,
                   mReaperPending, mSinkSupportsVideo, timers, net, playback,
                   established, crashed>>

(* The reaper looks at the clock, which is not modelled here: a client     *)
(* with a playback session is either timed out or looked at again later.   *)
OnReapDeadClients ==
    /\ Received("REAP_DEAD_CLIENTS")
    /\ \/ /\ mClientSessionID = 0 \/ ~mPlaybackSession
          /\ mReaperPending' = FALSE
          /\ UNCHANGED <<mClientSessionID, net, timers>>
       \/ /\ mClientSessionID # 0 /\ mPlaybackSession
          /\ net' = Destroy(mClientSessionID)
          /\ mClientSessionID' = 0
          /\ mReaperPending' = FALSE
          /\ UNCHANGED timers
       \/ /\ mClientSessionID # 0 /\ mPlaybackSession
          /\ mReaperPending' = TRUE
          /\ timers' = timers \cup {"REAP_DEAD_CLIENTS"}
          /\ UNCHANGED <<mClientSessionID, net>>
    /\ UNCHANGED <<mState, mSessionID, mPlaybackSessionID, mPlaybackSession,
                   mPlaybackSessionEstablished, mStopReplyTo, mSinkSupportsVideo,
                   mResponseHandlers, caller, playback, established, crashed>>

(* The message carries the session that was set up; it is obsolete once    *)
(* that is no longer the client's.  sendM16 schedules the next keep-alive. *)
OnKeepAlive ==
    /\ Received("KEEP_ALIVE")
    /\ IF mClientSessionID = mPlaybackSessionID /\ InMap(mClientSessionID)
       THEN /\ mResponseHandlers' = Register(mResponseHandlers, mClientSessionID, "M16")
            /\ timers' = timers \cup {"KEEP_ALIVE"}
       ELSE UNCHANGED <<mResponseHandlers, timers>>
    /\ UNCHANGED <<mState, mSessionID, mClientSessionID, mPlaybackSessionID,
                   mPlaybackSession, mPlaybackSessionEstablished, mStopReplyTo,
                   mReaperPending, mSinkSupportsVideo, net, caller, playback,
                   established, crashed>>

(* WHAT_PLAYBACK_SESSION_NOTIFY.                                           *)
OnSessionEstablished ==
    /\ Received("SESSION_ESTABLISHED")
    /\ mPlaybackSessionEstablished' = TRUE
    /\ mState' = IF mState = "ABOUT_TO_PLAY" THEN "PLAYING" ELSE mState
    /\ UNCHANGED <<mSessionID, mClientSessionID, mPlaybackSessionID,
                   mPlaybackSession, mStopReplyTo, mReaperPending,
                   mSinkSupportsVideo, mResponseHandlers, timers, net, caller,
                   playback, established, crashed>>

OnSessionDead ==
    /\ Received("SESSION_DEAD")
    /\ UNCHANGED <<sourceVars, timers, net, caller, playback, established, crashed>>

OnSessionDestroyed ==
    /\ Received("SESSION_DESTROYED")
    /\ DisconnectClient2
    /\ UNCHANGED <<mPlaybackSessionID, mPlaybackSessionEstablished, mReaperPending,
                   mSinkSupportsVideo, mResponseHandlers, timers, established,
                   crashed>>

-----------------------------------------------------------------------------
(* onReceiveClientData: responses of the sink.                             *)

Answered == [mResponseHandlers EXCEPT ![msg.session][msg.to] = @ - 1]

(* Mutant of OnResponse: an answer nobody waits for is counted too.        *)
OnResponseUnsolicited ==
    /\ Received("RESPONSE")
    /\ mResponseHandlers' = Answered
    /\ UNCHANGED <<mState, mSessionID, mClientSessionID, mPlaybackSessionID,
                   mPlaybackSession, mPlaybackSessionEstablished, mStopReplyTo,
                   mReaperPending, mSinkSupportsVideo, timers, net, caller,
                   playback, established, crashed>>

(* A good M3 answer is followed by an M4, a good M4 answer by the trigger  *)
(* of the client's SETUP.                                                  *)
OnResponse ==
    /\ Received("RESPONSE")
    /\ IF mResponseHandlers[msg.session][msg.to] = 0
       THEN UNCHANGED <<mResponseHandlers, mSinkSupportsVideo>>
       ELSE /\ mResponseHandlers' =
                  IF msg.to \in {"M3", "M4"} /\ msg.answer = "good"
                  THEN Register(Answered, msg.session, IF msg.to = "M3" THEN "M4" ELSE "M5")
                  ELSE Answered
            /\ mSinkSupportsVideo' =
                  IF msg.to = "M3" /\ msg.answer # "refused"
                  THEN msg.answer # "novideo" ELSE mSinkSupportsVideo
    /\ UNCHANGED <<mState, mSessionID, mClientSessionID, mPlaybackSessionID,
                   mPlaybackSession, mPlaybackSessionEstablished, mStopReplyTo,
                   mReaperPending, timers, net, caller, playback, established,
                   crashed>>

-----------------------------------------------------------------------------
(* onReceiveClientData: requests of the sink.                              *)

Requested(method) == Received("REQUEST") /\ msg.method = method

OnOptionsRequest ==
    /\ Requested("OPTIONS")
    /\ mResponseHandlers' = Register(mResponseHandlers, msg.session, "M3")
    /\ UNCHANGED <<mState, mSessionID, mClientSessionID, mPlaybackSessionID,
                   mPlaybackSession, mPlaybackSessionEstablished, mStopReplyTo,
                   mReaperPending, mSinkSupportsVideo, timers, net, caller,
                   playback, established, crashed>>

(* GET_PARAMETER and SET_PARAMETER, and whatever is answered with an error.*)
OnHarmlessRequest ==
    /\ \/ \E r \in {"REJECTED", "SET_PARAMETER", "SETUP_BAD"} : Requested(r)
       \/ Requested("SETUP") /\ mPlaybackSessionID # -1
       \/ Requested("SETUP_INTERLEAVED")
    /\ UNCHANGED <<sourceVars, timers, net, caller, playback, established, crashed>>

(* The only SETUP that is served; PlaybackSession.init may still fail.     *)
OnSetupRequest(initOK) ==
    /\ Requested("SETUP")
    /\ mPlaybackSessionID = -1
    /\ IF initOK
       THEN /\ mPlaybackSessionID' = msg.session
            /\ mPlaybackSession' = TRUE
            /\ playback' = "live"
            /\ mState' = "AWAITING_CLIENT_PLAY"
            /\ mReaperPending' = TRUE
            /\ timers' = timers \cup {"KEEP_ALIVE"}
                                \cup (IF mReaperPending THEN {} ELSE {"REAP_DEAD_CLIENTS"})
       ELSE UNCHANGED <<mPlaybackSessionID, mPlaybackSession, playback, mState,
                        mReaperPending, timers>>
    /\ UNCHANGED <<mSessionID, mClientSessionID, mPlaybackSessionEstablished,
                   mStopReplyTo, mSinkSupportsVideo, mResponseHandlers, net,
                   caller, established, crashed>>

PlayAllowed == mState \in {"AWAITING_CLIENT_PLAY", "PAUSED_TO_PLAYING", "PAUSED"}

PlayRequest(state) ==
    /\ Requested("PLAY")
    /\ mState' = state
    /\ UNCHANGED <<mSessionID, mClientSessionID, mPlaybackSessionID,
                   mPlaybackSession, mPlaybackSessionEstablished, mStopReplyTo,
                   mReaperPending, mSinkSupportsVideo, mResponseHandlers, timers,
                   net, caller, playback, established, crashed>>

(* Mutants of OnPlayRequest: it plays before the session is established;   *)
(* it does not look at mState.                                             *)
OnPlayRequestAtOnce ==
    PlayRequest(IF FindPlaybackSession /\ PlayAllowed THEN "PLAYING" ELSE mState)
OnPlayRequestAnyState ==
    PlayRequest(IF ~(FindPlaybackSession /\ InMap(msg.session)) THEN mState
                ELSE IF mPlaybackSessionEstablished THEN "PLAYING" ELSE "ABOUT_TO_PLAY")

OnPlayRequest ==
    PlayRequest(
        IF ~(FindPlaybackSession /\ PlayAllowed /\ InMap(msg.session)) THEN mState
        ELSE IF mState = "PAUSED_TO_PLAYING" \/ mPlaybackSessionEstablished THEN "PLAYING"
        ELSE "ABOUT_TO_PLAY")

OnPauseRequest ==
    /\ Requested("PAUSE")
    /\ mState' = IF /\ FindPlaybackSession
                    /\ mState \in {"PLAYING_TO_PAUSED", "PLAYING"}
                    /\ InMap(msg.session)
                 THEN "PAUSED" ELSE mState
    /\ UNCHANGED <<mSessionID, mClientSessionID, mPlaybackSessionID,
                   mPlaybackSession, mPlaybackSessionEstablished, mStopReplyTo,
                   mReaperPending, mSinkSupportsVideo, mResponseHandlers, timers,
                   net, caller, playback, established, crashed>>

OnTeardownRequest ==
    /\ Requested("TEARDOWN")
    /\ IF FindPlaybackSession /\ mState = "AWAITING_CLIENT_TEARDOWN" THEN FinishStop
       ELSE UNCHANGED <<sourceVars, timers, net, caller, playback, established, crashed>>

-----------------------------------------------------------------------------
WFDThread ==
    \/ OnStart \/ OnError \/ OnClientRejected \/ OnClientConnected
    \/ OnStopTrigger \/ OnStopNow \/ OnTeardownTimedOut
    \/ OnPause \/ OnResume \/ OnReapDeadClients \/ OnKeepAlive
    \/ OnSessionEstablished \/ OnSessionDead \/ OnSessionDestroyed
    \/ OnResponse
    \/ OnOptionsRequest \/ OnHarmlessRequest
    \/ \E initOK \in BOOLEAN : OnSetupRequest(initOK)
    \/ OnPlayRequest \/ OnPauseRequest \/ OnTeardownRequest
    \/ Crash

Application == CallStart \/ CallPause \/ CallResume \/ CallStop \/ Dispose

Network ==
    \E s \in Sessions :
        \/ \E local \in BOOLEAN : Accept(s, local)
        \/ \E method \in Requests : ReceiveRequest(s, method)
        \/ \E h \in Handlers, answer \in Answers : ReceiveResponse(s, h, answer)
        \/ ReportError(s)

Playback == PlaybackEstablished \/ PlaybackDead \/ PlaybackDestroyed

Next == WFDThread \/ Application \/ Network \/ Playback \/ \E t \in Timers : Fire(t)

(* The looper thread runs, a delayed message is delivered in the end, and  *)
(* a PlaybackSession that is told to destroy itself reports back.  Nothing *)
(* is assumed of the sink, of the network or of the application.           *)
Fairness ==
    /\ WF_vars(WFDThread)
    /\ WF_vars(Fire("TEARDOWN_TRIGGER_TIMED_OUT"))
    /\ WF_vars(PlaybackDestroyed)

Spec == Init /\ [][Next]_vars /\ Fairness

-----------------------------------------------------------------------------
(* Properties                                                              *)

(* A stop() waits exactly while the shutdown is under way: its reply is    *)
(* neither lost (the application thread would hang in dispose()) nor given *)
(* twice (finishStop2 would dereference null).                             *)
StopReplyMatchesState ==
    crashed = "no" =>
        /\ mStopReplyTo <=> mState \in {"AWAITING_CLIENT_TEARDOWN", "STOPPING"}
        /\ mStopReplyTo => caller = "stopping"

(* No connection is orphaned: every session the network thread keeps is    *)
(* the client's, or its CLIENT_CONNECTED has not been handled yet.         *)
NoOrphanSession ==
    crashed = "no" =>
        \A s \in Sessions : InMap(s) =>
            \/ s = mClientSessionID
            \/ caller = "disposed"
            \/ \E i \in DOMAIN queue : /\ queue[i].what = "CLIENT_CONNECTED"
                                       /\ queue[i].session = s

(* The states in which media flows are only entered with an established    *)
(* playback session behind them, whatever order PLAY, SESSION_ESTABLISHED, *)
(* pause() and the sink's PAUSE came in.                                   *)
PlayingIsEstablished ==
    mState \in {"PLAYING", "PLAYING_TO_PAUSED", "PAUSED", "PAUSED_TO_PLAYING"}
        => mPlaybackSession /\ mPlaybackSessionEstablished

(* These checks of the source never fail, for any sink and any schedule.   *)
ChecksThatHold ==
    crashed \notin {"connect: sendM1", "stop: mState", "finishStop2: null reply",
                    "timeout: mStopReplyTo", "play: mState",
                    "teardown: mStopReplyTo"}

(* Once stop() has been accepted the source only moves towards STOPPED: no *)
(* late PLAY, PAUSE, SETUP or SESSION_ESTABLISHED takes it back to playing.*)
ShutdownIsOneWay ==
    [][(mState \in Stopping) =>
         <<mState, mState'>> \in {<<mState, mState>>, <<"STOPPING", "STOPPED">>,
                                 <<"AWAITING_CLIENT_TEARDOWN", "STOPPING">>}]_vars

(* The source uses its PlaybackSession as agreed: it creates one, calls    *)
(* destroyAsync() on it at most once and only while it lives, however STOP,*)
(* TEARDOWN, the teardown timeout and lost connections interleave.         *)
Lifecycle == INSTANCE PlaybackLifecycle WITH hangs <- FALSE
KeepsLifecycle == Lifecycle!Usage

(* stop() returns, even if the sink never answers the TEARDOWN trigger and *)
(* keeps sending other requests.                                           *)
StopReturns == caller = "stopping" ~> caller = "stopped" \/ crashed # "no"

=============================================================================
