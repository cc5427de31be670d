--------------------------- MODULE PlaybackSession ---------------------------
(***************************************************************************)
(* PlaybackSession with its Tracks, its MediaSender and its RTPSender.     *)
(* All of them are handlers of the one WFD looper, so their messages wait  *)
(* in one queue; every track has a puller thread and a converter with an   *)
(* output thread of its own that post to it.  WifiDisplaySource, a handler *)
(* of the same looper, calls play(), pause(), destroyAsync() and           *)
(* requestIDRFrame() between two messages and drops the session once it    *)
(* has handled SESSION_DESTROYED.                                          *)
(*                                                                         *)
(* RemoteDisplay passes no media path: the MediaExtractor branch is never  *)
(* taken.  Nothing in the encoders ends a stream or calls notifyError, so  *)
(* the converter reports neither WHAT_EOS nor WHAT_ERROR, and              *)
(* ANetworkSession never reports a network stall.                          *)
(*                                                                         *)
(* A null dereference or a failing check on the WFD thread or on the       *)
(* thread of a puller ends the process; `crashed` names it.                *)
(***************************************************************************)
EXTENDS Integers, Sequences, SequencesExt, FiniteSets

CONSTANTS
    Tracks,          \* the tracks that init() adds
    VideoTrack,      \* mVideoTrackIndex
    MaxQueue         \* bound: messages in the looper before more are posted from outside

ASSUME TracksAssumption ==
    /\ IsFiniteSet(Tracks) /\ VideoTrack \in Tracks
    /\ MaxQueue \in Nat \ {0}

VARIABLES
    queue,           \* the WFD looper: messages to MediaSender, session and tracks
    mTracks,         \* the tracks the session still has
    mStarted,        \* Track.mStarted
    mConverter,      \* tracks whose mConverter is not null
    converter,       \* "open", "closing" (SHUTDOWN posted) or "closed"
    puller,          \* "idle", "running", "stopping" (STOP posted) or "stopped"
    hung,            \* pullers that wait in doPull() for ever
    mPaused,
    mWeAreDead,
    mMediaSender,    \* mMediaSender # null
    mInitDoneCount,  \* of the MediaSender: reports it still waits for
    mGeneration,     \* of the MediaSender: 0, or 1 after a failed initialization
    mRTPMode,        \* "UDP", or "TCP", which connects after init(), as SETUP asks
    mRTCPMode,       \* "UDP" or "NONE", as the client's SETUP asks
    mRTPConnected,
    down,            \* network sessions ("RTP", "RTCP") destroyed after an error
    playback,        \* "none", "live", "destroying" (destroyAsync called), "destroyed"
    established,     \* SESSION_ESTABLISHED posted
    released,        \* WifiDisplaySource has dropped the session
    lateStart,       \* tracks started after destroyAsync()
    crashed

trackVars  == <<mTracks, mStarted, mConverter>>
threadVars == <<converter, puller, hung>>
senderVars == <<mMediaSender, mInitDoneCount, mGeneration, mRTPMode, mRTCPMode,
                mRTPConnected, down>>
lifeVars   == <<playback, established, released>>
vars == <<queue, trackVars, threadVars, senderVars, lifeVars, mPaused,
          mWeAreDead, lateStart, crashed>>

Messages ==
    [to : {"MediaSender", "PlaybackSession"}, what : {"INIT_DONE"}, ok : BOOLEAN]
    \cup [to : {"MediaSender", "PlaybackSession"}, what : {"ERROR", "INFORM_SENDER"}]
    \cup [to : {"PlaybackSession"}, what : {"PAUSE", "RESUME"}]
    \cup [to : {"PlaybackSession"}, what : {"ACCESS_UNIT", "STOPPED"}, track : Tracks]
    \cup [to : {"Track"}, what : {"MEDIA_PULLER_STOPPED"}, track : Tracks]

TypeOK ==
    /\ queue \in Seq(Messages)
    /\ mTracks \subseteq Tracks /\ mStarted \subseteq Tracks /\ mConverter \subseteq Tracks
    /\ converter \in [Tracks -> {"open", "closing", "closed"}]
    /\ puller \in [Tracks -> {"idle", "running", "stopping", "stopped"}]
    /\ hung \subseteq Tracks
    /\ mPaused \in BOOLEAN /\ mWeAreDead \in BOOLEAN
    /\ mMediaSender \in BOOLEAN /\ mInitDoneCount \in Int /\ mGeneration \in 0..1
    /\ mRTPMode \in {"UNDEFINED", "UDP", "TCP"}
    /\ mRTCPMode \in {"UNDEFINED", "UDP", "NONE"} /\ mRTPConnected \in BOOLEAN
    /\ down \subseteq {"RTP", "RTCP"}
    /\ playback \in {"none", "live", "destroying", "destroyed"}
    /\ established \in BOOLEAN /\ released \in BOOLEAN
    /\ lateStart \in BOOLEAN
    /\ crashed \in {"no", "start: mStarted", "access unit: null", "feedback: null track",
                    "IDR: null converter", "stopped: null", "NACK", "no input buffer",
                    "encoder released"}

(* A session object before init(): its fields have the constructor's values. *)
Init ==
    /\ queue = <<>>
    /\ mTracks = {} /\ mStarted = {} /\ mConverter = {}
    /\ converter = [t \in Tracks |-> "open"]
    /\ puller = [t \in Tracks |-> "idle"] /\ hung = {}
    /\ mPaused = FALSE /\ mWeAreDead = FALSE
    /\ mMediaSender = FALSE /\ mInitDoneCount = 0 /\ mGeneration = 0
    /\ mRTPMode = "UNDEFINED" /\ mRTCPMode = "UNDEFINED" /\ mRTPConnected = FALSE /\ down = {}
    /\ playback = "none" /\ established = FALSE /\ released = FALSE
    /\ lateStart = FALSE
    /\ crashed = "no"

Running == crashed = "no"

Room == Len(queue) < MaxQueue

ToSender(what)       == [to |-> "MediaSender", what |-> what]
ToSession(what)      == [to |-> "PlaybackSession", what |-> what]
InitDone(to, ok)     == [to |-> to, what |-> "INIT_DONE", ok |-> ok]
OfTrack(to, what, t) == [to |-> to, what |-> what, track |-> t]

(* Handler.removeCallbacksAndMessages(null): the messages that wait for a  *)
(* handler are taken out of the looper's queue.  A recursive function, for *)
(* the proofs: they cannot open SelectSeq.                                 *)
HandlerOf(m) == IF m.to = "Track" THEN <<"Track", m.track>> ELSE <<m.to>>

removeCallbacksAndMessages(q, handler) ==
    LET kept[n \in 0..Len(q)] ==
            IF n = 0 THEN <<>>
            ELSE IF HandlerOf(q[n]) = handler THEN kept[n - 1]
            ELSE Append(kept[n - 1], q[n])
    IN  kept[Len(q)]

-----------------------------------------------------------------------------
(* Calls of WifiDisplaySource.                                             *)

(* init() that succeeds: the tracks are added, and with UDP the RTPSender  *)
(* reports itself initialized before init() returns.  After a failed       *)
(* init() the object is thrown away.                                       *)
CallInit ==
    /\ playback = "none"
    /\ playback' = "live"
    /\ mTracks' = Tracks /\ mConverter' = Tracks
    /\ mMediaSender' = TRUE /\ mInitDoneCount' = 1
    /\ mRTPMode' \in {"UDP", "TCP"} /\ mRTCPMode' \in {"UDP", "NONE"}
    /\ IF mRTPMode' = "UDP"
       THEN mRTPConnected' = TRUE /\ queue' = <<InitDone("MediaSender", TRUE)>>
       ELSE UNCHANGED <<mRTPConnected, queue>>
    /\ UNCHANGED <<mStarted, threadVars, mGeneration, down, mPaused, mWeAreDead,
                   established, released, lateStart, crashed>>

InUse == Running /\ playback # "none" /\ ~released

CallPlayOrPause(what) ==
    /\ InUse /\ Room
    /\ queue' = Append(queue, ToSession(what))
    /\ UNCHANGED <<trackVars, threadVars, senderVars, lifeVars, mPaused,
                   mWeAreDead, lateStart, crashed>>

(* Every video track forwards the request to its converter, which only     *)
(* posts a message to itself.                                              *)
CallRequestIDRFrame ==
    /\ InUse
    /\ VideoTrack \in mTracks \ mConverter
    /\ crashed' = "IDR: null converter"
    /\ UNCHANGED <<queue, trackVars, threadVars, senderVars, lifeVars, mPaused,
                   mWeAreDead, lateStart>>

(* Mutant of CallDestroyAsync: the else of stopAsync is missing.           *)
CallDestroyAsyncTwice ==
    /\ Running
    /\ playback = "live"
    /\ playback' = "destroying"
    /\ converter' = [t \in Tracks |-> IF t \in mTracks \cap mConverter
                                      THEN "closing" ELSE converter[t]]
    /\ puller' = [t \in Tracks |-> IF t \in mTracks \cap mStarted
                                   THEN "stopping" ELSE puller[t]]
    /\ queue' = queue \o SetToSeq({OfTrack("Track", "MEDIA_PULLER_STOPPED", t) :
                                        t \in mTracks})
    /\ UNCHANGED <<trackVars, hung, senderVars, mPaused, mWeAreDead, established,
                   released, lateStart, crashed>>

(* Mutant of CallDestroyAsync: the pullers are not told.                   *)
CallDestroyAsyncNoPullers ==
    /\ Running
    /\ playback = "live"
    /\ playback' = "destroying"
    /\ converter' = [t \in Tracks |-> IF t \in mTracks \cap mConverter
                                      THEN "closing" ELSE converter[t]]
    /\ queue' = queue \o SetToSeq({OfTrack("Track", "MEDIA_PULLER_STOPPED", t) :
                                        t \in mTracks})
    /\ UNCHANGED <<trackVars, puller, hung, senderVars, mPaused, mWeAreDead,
                   established, released, lateStart, crashed>>

(* Track.stopAsync of every track: a started one waits for its puller, one *)
(* that was not started posts MEDIA_PULLER_STOPPED itself.                 *)
CallDestroyAsync ==
    /\ Running
    /\ playback = "live"
    /\ playback' = "destroying"
    /\ converter' = [t \in Tracks |-> IF t \in mTracks \cap mConverter
                                      THEN "closing" ELSE converter[t]]
    /\ puller' = [t \in Tracks |-> IF t \in mTracks \cap mStarted
                                   THEN "stopping" ELSE puller[t]]
    /\ queue' = queue \o SetToSeq({OfTrack("Track", "MEDIA_PULLER_STOPPED", t) :
                                        t \in mTracks \ mStarted})
    /\ UNCHANGED <<trackVars, hung, senderVars, mPaused, mWeAreDead, established,
                   released, lateStart, crashed>>

(* disconnectClient2, on SESSION_DESTROYED: the session's own messages are *)
(* removed, those on their way to its MediaSender are not.                 *)
Release ==
    /\ Running
    /\ playback = "destroyed" /\ ~released
    /\ released' = TRUE
    /\ queue' = removeCallbacksAndMessages(queue, <<"PlaybackSession">>)
    /\ UNCHANGED <<trackVars, threadVars, senderVars, playback, established,
                   mPaused, mWeAreDead, lateStart, crashed>>

-----------------------------------------------------------------------------
(* RTPSender.onNetNotify: the RTP connection and the sink's RTCP feedback. *)
(* Nothing destroys its network sessions when the playback session goes.   *)

mRTCPConnected == mRTCPMode = "UDP"

NetSessions == IF mRTCPMode = "NONE" THEN {"RTP"} ELSE {"RTP", "RTCP"}

OnConnected ==
    /\ Running
    /\ playback # "none" /\ ~mRTPConnected /\ "RTP" \notin down
    /\ mRTPConnected' = TRUE
    /\ queue' = Append(queue, InitDone("MediaSender", TRUE))
    /\ UNCHANGED <<trackVars, threadVars, mMediaSender, mInitDoneCount, mGeneration,
                   mRTPMode, mRTCPMode, down, lifeVars, mPaused, mWeAreDead,
                   lateStart, crashed>>

(* The condition looks at mRTPMode where mRTCPMode is meant: without RTCP  *)
(* every error is reported as one of the initialization.                   *)
OnNetError(s) ==
    /\ Running /\ Room
    /\ playback # "none" /\ s \in NetSessions \ down
    /\ down' = down \cup {s}
    /\ queue' = Append(queue, IF ~mRTPConnected \/ ~mRTCPConnected
                              THEN InitDone("MediaSender", FALSE)
                              ELSE ToSender("ERROR"))
    /\ UNCHANGED <<trackVars, threadVars, mMediaSender, mInitDoneCount, mGeneration,
                   mRTPMode, mRTCPMode, mRTPConnected, lifeVars, mPaused, mWeAreDead,
                   lateStart, crashed>>

OnSinkLatency ==
    /\ Running /\ Room
    /\ playback # "none" /\ "RTCP" \in NetSessions \ down
    /\ queue' = Append(queue, ToSender("INFORM_SENDER"))
    /\ UNCHANGED <<trackVars, threadVars, senderVars, lifeVars, mPaused,
                   mWeAreDead, lateStart, crashed>>

(* parseTSFB: a packet that is to be sent again must go out, and the       *)
(* message about one that is no longer in mHistory formats a boolean with  *)
(* %d; both throw.  A NACK that is answered in full changes nothing.       *)
OnSinkNack ==
    /\ Running
    /\ playback # "none" /\ "RTCP" \in NetSessions \ down
    /\ crashed' = "NACK"
    /\ UNCHANGED <<queue, trackVars, threadVars, senderVars, lifeVars, mPaused,
                   mWeAreDead, lateStart>>

-----------------------------------------------------------------------------
(* The puller and converter threads: MediaPuller has them in detail.       *)

PullerStops(t) ==
    /\ Running
    /\ puller[t] = "stopping" /\ t \notin hung
    /\ puller' = [puller EXCEPT ![t] = "stopped"]
    /\ queue' = Append(queue, OfTrack("Track", "MEDIA_PULLER_STOPPED", t))
    /\ UNCHANGED <<trackVars, converter, hung, senderVars, lifeVars, mPaused,
                   mWeAreDead, lateStart, crashed>>

ConverterShutsDown(t) ==
    /\ Running
    /\ converter[t] = "closing"
    /\ converter' = [converter EXCEPT ![t] = "closed"]
    /\ UNCHANGED <<queue, trackVars, puller, hung, senderVars, lifeVars, mPaused,
                   mWeAreDead, lateStart, crashed>>

Pulls(t) == puller[t] \in {"running", "stopping"}

(* doPull() of the VideoEncoder waits for a permit or for the first        *)
(* picture, and nobody gives it one: the permits were lost while paused,   *)
(* or the converter has released the encoder with its listener thread.     *)
PullerHangs ==
    /\ Running
    /\ Pulls(VideoTrack) /\ VideoTrack \notin hung
    /\ hung' = hung \cup {VideoTrack}
    /\ UNCHANGED <<queue, trackVars, converter, puller, senderVars, lifeVars,
                   mPaused, mWeAreDead, lateStart, crashed>>

(* doPull() of the AudioEncoder does not wait for an input buffer, and     *)
(* neither encoder may be used while the converter releases it or after.   *)
PullerCrashes(t) ==
    /\ Running
    /\ Pulls(t)
    /\ \/ t # VideoTrack /\ crashed' = "no input buffer"
       \/ converter[t] # "open" /\ crashed' = "encoder released"
    /\ UNCHANGED <<queue, trackVars, threadVars, senderVars, lifeVars, mPaused,
                   mWeAreDead, lateStart>>

(* The encoder's output thread, until the converter has shut down.         *)
OutputAvailable(t) ==
    /\ Running /\ Room
    /\ puller[t] # "idle" /\ converter[t] # "closed"
    /\ queue' = Append(queue, OfTrack("PlaybackSession", "ACCESS_UNIT", t))
    /\ UNCHANGED <<trackVars, threadVars, senderVars, lifeVars, mPaused,
                   mWeAreDead, lateStart, crashed>>

-----------------------------------------------------------------------------
(* The WFD thread.                                                         *)

msg == Head(queue)

Received(to, what) ==
    /\ Running
    /\ queue # <<>> /\ msg.to = to /\ msg.what = what

Fail(check) ==
    /\ crashed' = check
    /\ queue' = Tail(queue)
    /\ UNCHANGED <<trackVars, threadVars, senderVars, lifeVars, mPaused,
                   mWeAreDead, lateStart>>

(* MediaSender.onSenderNotify.  Messages of an earlier generation are      *)
(* dropped; an error is passed on at once, OK when the last report is in:  *)
(* mInitDoneCount is 1 for transport stream muxing.                        *)
OnSenderInitDone ==
    LET current == mGeneration = 0
        last    == mInitDoneCount = 1 IN
    /\ Received("MediaSender", "INIT_DONE")
    /\ mInitDoneCount' = IF current THEN mInitDoneCount - 1 ELSE mInitDoneCount
    /\ queue' = Tail(queue) \o
                (IF current /\ (msg.ok => last)
                 THEN <<InitDone("PlaybackSession", msg.ok)>> ELSE <<>>)
    /\ mGeneration' = IF msg.ok THEN mGeneration ELSE 1
    /\ UNCHANGED <<trackVars, threadVars, mMediaSender, mRTPMode, mRTCPMode, mRTPConnected,
                   down, lifeVars, mPaused, mWeAreDead, lateStart, crashed>>

OnSenderNotify(what) ==
    /\ Received("MediaSender", what)
    /\ queue' = Tail(queue) \o (IF mGeneration = 0 THEN <<ToSession(what)>> ELSE <<>>)
    /\ UNCHANGED <<trackVars, threadVars, senderVars, lifeVars, mPaused,
                   mWeAreDead, lateStart, crashed>>

(* onMediaSenderInitialized: every track is started; Track.start waits for *)
(* the puller thread's answer.                                             *)
OnMediaSenderInitialized ==
    /\ Received("PlaybackSession", "INIT_DONE") /\ msg.ok
    /\ IF mTracks \cap mStarted # {} THEN Fail("start: mStarted")
       ELSE /\ mStarted' = mStarted \cup mTracks
            /\ puller' = [t \in Tracks |-> IF t \in mTracks THEN "running" ELSE puller[t]]
            /\ lateStart' = (playback # "live" /\ mTracks # {})
            /\ established' = TRUE
            /\ queue' = Tail(queue)
            /\ UNCHANGED <<mTracks, mConverter, converter, hung, senderVars, playback,
                           released, mPaused, mWeAreDead, crashed>>

(* Mutant of OnSessionDead: the session lets go of its sender at once,     *)
(* instead of when its last track has stopped.                             *)
OnSessionDeadReleasesSender ==
    /\ \/ Received("PlaybackSession", "INIT_DONE") /\ ~msg.ok
       \/ Received("PlaybackSession", "ERROR")
    /\ mWeAreDead' = TRUE
    /\ mMediaSender' = FALSE
    /\ queue' = Tail(queue)
    /\ UNCHANGED <<trackVars, threadVars, mInitDoneCount, mGeneration, mRTPMode,
                   mRTCPMode, mRTPConnected, down, lifeVars, mPaused, lateStart,
                   crashed>>

(* notifySessionDead, after a failed initialization or a network error.    *)
OnSessionDead ==
    /\ \/ Received("PlaybackSession", "INIT_DONE") /\ ~msg.ok
       \/ Received("PlaybackSession", "ERROR")
    /\ mWeAreDead' = TRUE
    /\ queue' = Tail(queue)
    /\ UNCHANGED <<trackVars, threadVars, senderVars, lifeVars, mPaused,
                   lateStart, crashed>>

(* onSinkFeedback: tunes the encoder of the video track, which may be      *)
(* released although the converter is still there.                         *)
OnSinkFeedback ==
    /\ Received("PlaybackSession", "INFORM_SENDER")
    /\ IF VideoTrack \notin mTracks THEN Fail("feedback: null track")
       ELSE \/ VideoTrack \in mConverter /\ converter[VideoTrack] # "open"
               /\ Fail("encoder released")
            \/ /\ queue' = Tail(queue)
               /\ UNCHANGED <<trackVars, threadVars, senderVars, lifeVars, mPaused,
                              mWeAreDead, lateStart, crashed>>

(* WHAT_CONVERTER_NOTIFY.  queueAccessUnit fails when it has something to  *)
(* send and the RTP session is gone.                                       *)
OnAccessUnit ==
    /\ Received("PlaybackSession", "ACCESS_UNIT")
    /\ IF ~mWeAreDead /\ (msg.track \notin mTracks \/ ~mMediaSender)
       THEN Fail("access unit: null")
       ELSE /\ mWeAreDead' \in IF "RTP" \notin down THEN {mWeAreDead} ELSE {mWeAreDead, TRUE}
            /\ queue' = Tail(queue)
            /\ UNCHANGED <<trackVars, threadVars, senderVars, lifeVars, mPaused,
                           lateStart, crashed>>

OnPauseOrResume ==
    /\ Received("PlaybackSession", "PAUSE") \/ Received("PlaybackSession", "RESUME")
    /\ mPaused' = (msg.what = "PAUSE")
    /\ queue' = Tail(queue)
    /\ UNCHANGED <<trackVars, threadVars, senderVars, lifeVars, mWeAreDead,
                   lateStart, crashed>>

(* Track.onMessageReceived.                                                *)
OnMediaPullerStopped ==
    /\ Received("Track", "MEDIA_PULLER_STOPPED")
    /\ mConverter' = mConverter \ {msg.track}
    /\ mStarted' = mStarted \ {msg.track}
    /\ queue' = Append(Tail(queue), OfTrack("PlaybackSession", "STOPPED", msg.track))
    /\ UNCHANGED <<mTracks, threadVars, senderVars, lifeVars, mPaused, mWeAreDead,
                   lateStart, crashed>>

(* A track that goes takes its messages along.                             *)
WithoutTrack(t) == removeCallbacksAndMessages(Tail(queue), <<"Track", t>>)

(* Mutant: whether it is the last track is tested before it is removed.    *)
OnTrackStoppedTestsFirst ==
    /\ Received("PlaybackSession", "STOPPED")
    /\ IF msg.track \notin mTracks \/ ~mMediaSender THEN Fail("stopped: null")
       ELSE /\ mTracks' = mTracks \ {msg.track}
            /\ IF mTracks # {}
               THEN queue' = WithoutTrack(msg.track) /\ UNCHANGED <<mMediaSender, playback>>
               ELSE /\ queue' = removeCallbacksAndMessages(WithoutTrack(msg.track),
                                                           <<"MediaSender">>)
                    /\ mMediaSender' = FALSE
                    /\ playback' = "destroyed"
            /\ UNCHANGED <<mStarted, mConverter, threadVars, mInitDoneCount, mGeneration,
                           mRTPMode, mRTCPMode, mRTPConnected, down, established,
                           released, mPaused, mWeAreDead, lateStart, crashed>>

(* WHAT_TRACK_NOTIFY: the last track takes the MediaSender, with the       *)
(* messages waiting for it, along.                                         *)
OnTrackStopped ==
    /\ Received("PlaybackSession", "STOPPED")
    /\ IF msg.track \notin mTracks \/ ~mMediaSender THEN Fail("stopped: null")
       ELSE /\ mTracks' = mTracks \ {msg.track}
            /\ IF mTracks' # {}
               THEN queue' = WithoutTrack(msg.track) /\ UNCHANGED <<mMediaSender, playback>>
               ELSE /\ queue' = removeCallbacksAndMessages(WithoutTrack(msg.track),
                                                           <<"MediaSender">>)
                    /\ mMediaSender' = FALSE
                    /\ playback' = "destroyed"
            /\ UNCHANGED <<mStarted, mConverter, threadVars, mInitDoneCount, mGeneration,
                           mRTPMode, mRTCPMode, mRTPConnected, down, established,
                           released, mPaused, mWeAreDead, lateStart, crashed>>

-----------------------------------------------------------------------------
WFDThread ==
    \/ OnSenderInitDone
    \/ \E what \in {"ERROR", "INFORM_SENDER"} : OnSenderNotify(what)
    \/ OnMediaSenderInitialized \/ OnSessionDead \/ OnSinkFeedback
    \/ OnAccessUnit \/ OnPauseOrResume \/ OnMediaPullerStopped \/ OnTrackStopped

Calls ==
    \/ CallInit \/ CallRequestIDRFrame \/ CallDestroyAsync \/ Release
    \/ \E what \in {"PAUSE", "RESUME"} : CallPlayOrPause(what)

Net ==
    \/ OnConnected \/ OnSinkLatency \/ OnSinkNack
    \/ \E s \in {"RTP", "RTCP"} : OnNetError(s)

Threads ==
    \/ PullerHangs
    \/ \E t \in Tracks : \/ PullerStops(t) \/ PullerCrashes(t)
                        \/ ConverterShutsDown(t) \/ OutputAvailable(t)

Next == WFDThread \/ Calls \/ Net \/ Threads

(* The looper runs, and a puller that does not hang in doPull() handles    *)
(* STOP (MediaPuller, StopIsAnnounced).  Nothing is assumed of the sink,   *)
(* the network, the encoders or WifiDisplaySource.                         *)
Fairness == WF_vars(WFDThread) /\ \A t \in Tracks : WF_vars(PullerStops(t))

Spec == Init /\ [][Next]_vars /\ Fairness

-----------------------------------------------------------------------------
(* Properties                                                              *)

(* The session keeps the promise WifiDisplaySource's stop() waits for:     *)
(* SESSION_DESTROYED is posted once, after destroyAsync(), when the last   *)
(* track has stopped, and it is posted in the end however long the pullers *)
(* take, unless one of them hangs; SESSION_ESTABLISHED is posted at most   *)
(* once and, with UDP, never after SESSION_DESTROYED.                      *)
Lifecycle ==
    INSTANCE PlaybackLifecycle WITH LateInit <- (mRTPMode = "TCP"), hangs <- (hung # {})
KeepsLifecycle == Lifecycle!Spec

(* Until destroyAsync() no late frame, no reported latency, no IDR request *)
(* and no network error meets a null reference or starts a track twice:    *)
(* only a NACK of the sink and an AudioEncoder without an input buffer end *)
(* the process.  Afterwards the released encoder, late frames, feedback    *)
(* and IDR requests can, but no second STOPPED of a track and no second    *)
(* start.                                                                  *)
NoCrashWhileLive ==
    /\ playback = "live" => crashed \in {"no", "NACK", "no input buffer"}
    /\ crashed \notin {"start: mStarted", "stopped: null"}

(* A destroyed session leaves no puller thread pulling, unless its sender  *)
(* finished initializing after destroyAsync() had found the tracks not     *)
(* started.                                                                *)
PullersStopped ==
    \A t \in Tracks : t \notin mTracks /\ puller[t] = "running" => lateStart

(* Every track that is being stopped has exactly one notice of its end     *)
(* under way: at its puller, in the queue as MEDIA_PULLER_STOPPED, or in   *)
(* the queue as STOPPED.                                                   *)
StopNotices(t) ==
    Cardinality({i \in DOMAIN queue :
        queue[i].what \in {"MEDIA_PULLER_STOPPED", "STOPPED"} /\ queue[i].track = t})
OneStopNotice ==
    playback = "destroying" /\ crashed = "no" =>
        \A t \in mTracks :
            StopNotices(t) + (IF puller[t] = "stopping" THEN 1 ELSE 0) = 1

=============================================================================
