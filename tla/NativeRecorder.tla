--------------------------- MODULE NativeRecorder ---------------------------
(***************************************************************************)
(* The native casting device (encoder half of MediaCodec.cpp, send_data()  *)
(* of MediaClient.cpp, driven by MyJni.cpp and MediaClientService.java):   *)
(* the service's thread J starts and stops, the listener's thread L        *)
(* announces rotations (and destroys the service), encoder threads drain   *)
(* the codec of the orientation and send.                                  *)
(*                                                                         *)
(* Two locks: the monitor of the Java service and the native mutex1, which *)
(* sendData() holds while it writes, for as long as the receiver does not  *)
(* read, and while it tells Java that the connection is gone.  The flags,  *)
(* the key frame gates and the codecs are not guarded.                     *)
(* `causes' remembers the windows that have been hit, `harm' what became   *)
(* of it:                                                                  *)
(*   "restart"  a session is prepared before the last encoder has ended    *)
(*   "overtake" a frame of the new orientation is sent before its notice   *)
(*   "gate"     a rotation closes the gate behind a frame still to be sent *)
(*   "cross"    everything is released while a rotation is under way       *)
(*   "failed"   the start went on after its connection had broken          *)
(*   "destroy"  the service is destroyed while an encoder runs             *)
(***************************************************************************)
EXTENDS Integers, FiniteSets

CONSTANTS Starts,       \* bound: sessions
          Rotations     \* bound: rotations

ASSUME BoundsAssumption == Starts \in Nat /\ Rotations \in Nat

J == -1                             \* the service
L == -2                             \* the listener
Encoders == 1 .. Starts             \* each session starts one
Threads  == {J, L} \cup Encoders
None == 0
Orientation == {1, 2}
Other(o) == 3 - o

VARIABLES
  monitor, mutex,   \* who holds them
  projection,       \* mMediaProjection is not null
  allow,            \* mAllowSendOrientation
  recording,        \* isRecording
  playing, gate,    \* isPlaying1/2, isKeyFrameWrite1/2
  codec,            \* generation of codec1 and codec2, 0 when deleted
  conn,             \* server_sock_fd: "none", "up", "broken"
  ori,              \* mPreOrientation
  thr,              \* the threads: place, place after sendData(), frame
  used,             \* sessions, rotations
  wire,             \* what the receiver knows: orientation, key frame since
  causes, harm

flags == <<recording, playing, gate>>
locks == <<monitor, mutex>>
java  == <<projection, allow, ori>>
track == <<causes, harm>>
vars  == <<locks, java, flags, codec, conn, thr, used, wire, track>>

NoThr == [pc |-> "idle", then |-> "idle", o |-> 1, key |-> FALSE, gen |-> 0]
Off   == [o \in Orientation |-> FALSE]
Only(o) == [p \in Orientation |-> p = o]
Mark(c, b) == IF b THEN {c} ELSE {}

Init ==
  /\ monitor = None /\ mutex = None
  /\ projection = FALSE /\ allow = FALSE /\ ori = 1
  /\ recording = FALSE /\ playing = Off /\ gate = Off
  /\ codec = 0 /\ conn = "none"
  /\ thr = [t \in Threads |-> NoThr]
  /\ used = [starts |-> 0, rotations |-> 0, destroyed |-> FALSE]
  /\ wire = [o |-> 1, key |-> FALSE]
  /\ causes = {} /\ harm = {}

Go(t, pc) == thr' = [thr EXCEPT ![t].pc = pc]
Runs(e) == thr[e].pc \notin {"idle", "dead"}
EncoderRuns == \E e \in Encoders : Runs(e)
Rotating == thr[L].pc \in {"create", "flags", "gate", "notice", "write", "error", "rotated"}

(* releaseAll() *)
ReleaseAll ==
  /\ projection' = FALSE /\ allow' = FALSE
  /\ UNCHANGED ori
Crossed == Mark("cross", Rotating)
-----------------------------------------------------------------------------
(* sendData(): what is sent, under the mutex. *)

(* A frame of another orientation than announced is passed over there. *)
Receive(m) ==
  CASE m.kind = "sps"    -> wire
    [] m.kind = "notice" -> [wire EXCEPT !.o = m.o, !.key = FALSE]
    [] m.kind = "frame"  -> [wire EXCEPT !.key = @ \/ (m.key /\ m.o = wire.o)]
Hurt(m) == Mark("torn", m.kind = "frame" /\ m.o = wire.o /\ ~m.key /\ ~wire.key)
Overtakes(m) == m.kind = "frame" /\ m.o # wire.o /\ Rotating /\ m.o = thr[L].o

Message(t) ==
  CASE t = J -> [kind |-> "sps"]
    [] t = L -> [kind |-> "notice", o |-> thr[L].o]
    [] OTHER -> [kind |-> "frame", o |-> thr[t].o, key |-> thr[t].key]

Written(m) ==
  /\ wire' = Receive(m)
  /\ harm' = harm \cup Hurt(m)
  /\ causes' = causes \cup Mark("overtake", Overtakes(m))

(* write() takes what it is given, or blocks because the receiver does not *)
(* read, or fails because the connection has ended.                        *)
sendData(t, next) ==
  /\ mutex = None
  /\ \/ /\ ~recording
        /\ Go(t, next)
        /\ UNCHANGED <<locks, flags, wire, track>>
     \/ /\ recording /\ conn = "up"
        /\ Written(Message(t))
        /\ Go(t, next)
        /\ UNCHANGED <<locks, flags>>
     \/ /\ recording /\ conn = "up"
        /\ mutex' = t
        /\ thr' = [thr EXCEPT ![t].pc = "write", ![t].then = next]
        /\ UNCHANGED <<monitor, flags, wire, track>>
     \/ /\ recording /\ conn # "up"
        /\ recording' = FALSE /\ playing' = Off
        /\ mutex' = t
        /\ thr' = [thr EXCEPT ![t].pc = "error", ![t].then = next]
        /\ UNCHANGED <<monitor, gate, wire, track>>
  /\ UNCHANGED <<java, codec, conn, used>>

(* The receiver reads again, or is gone.  client_disconnect() closes the   *)
(* descriptor without shutdown(), which does not wake a write().           *)
WriteReturns(t) ==
  /\ thr[t].pc = "write"
  /\ \/ /\ Written(Message(t))
        /\ mutex' = None
        /\ thr' = [thr EXCEPT ![t].pc = thr[t].then, ![t].then = "idle"]
        /\ UNCHANGED flags
     \/ /\ recording' = FALSE /\ playing' = Off
        /\ Go(t, "error")
        /\ UNCHANGED <<mutex, gate, wire, track>>
  /\ UNCHANGED <<monitor, java, codec, conn, used>>

(* sendDataError() calls Java, synchronously, which takes the monitor. *)
sendDataError(t) ==
  /\ thr[t].pc = "error" /\ monitor \in {None, t}
  /\ ReleaseAll
  /\ causes' = causes \cup (IF t = L THEN {} ELSE Crossed) \cup Mark("failed", t = J)
  /\ mutex' = None
  /\ thr' = [thr EXCEPT ![t].pc = thr[t].then, ![t].then = "idle"]
  /\ UNCHANGED <<monitor, flags, codec, conn, used, wire, harm>>

(* The receiver closes the connection. *)
PeerGone ==
  /\ conn = "up"
  /\ conn' = "broken"
  /\ UNCHANGED <<locks, java, flags, codec, thr, used, wire, track>>
-----------------------------------------------------------------------------
(* startRecordScreenForJni(), stopRecordScreenForJni() *)

StartLock ==
  /\ thr[J].pc = "idle" /\ used.starts < Starts /\ ~used.destroyed /\ monitor = None
  /\ monitor' = J
  /\ projection' = TRUE                      \* MainActivity has set it
  /\ \E o \in Orientation : ori' = o
  /\ used' = [used EXCEPT !.starts = @ + 1]
  /\ causes' = causes \cup Mark("restart", allow \/ recording) \cup Crossed
  /\ Go(J, "prepare")
  /\ UNCHANGED <<mutex, allow, flags, codec, conn, wire, harm>>

(* Formats, codecs and surfaces are made anew, the old ones deleted. *)
createEncoder == codec' = used.starts

(* createEncoder...(), client_connect() *)
Prepare ==
  /\ thr[J].pc = "prepare"
  /\ createEncoder
  /\ causes' = causes \cup Mark("restart", EncoderRuns) \cup Crossed
  /\ \/ conn' = "up"
        /\ wire' = [o |-> ori, key |-> FALSE]
        /\ allow' = FALSE
        /\ Go(J, "test")
        /\ UNCHANGED <<monitor, projection, ori>>
     \/ conn' = "none"                       \* no connection: releaseAll()
        /\ ReleaseAll
        /\ monitor' = None
        /\ Go(J, "idle")
        /\ UNCHANGED wire
  /\ UNCHANGED <<mutex, flags, used, harm>>

(* startRecordScreen() *)
StartTest ==
  /\ thr[J].pc = "test"
  /\ recording' = TRUE
  /\ Go(J, IF recording THEN "started" ELSE "flags")
  /\ UNCHANGED <<locks, java, playing, gate, codec, conn, used, wire, track>>

StartFlags ==
  /\ thr[J].pc = "flags"
  /\ IF codec = 0                            \* the orientation went with it
       THEN UNCHANGED <<playing, gate>> /\ Go(J, "spawn")
       ELSE /\ playing' = Only(ori)
            /\ gate' = [gate EXCEPT ![ori] = FALSE]
            /\ Go(J, "sps1")
  /\ UNCHANGED <<locks, java, recording, codec, conn, used, wire, track>>

StartSend ==
  \/ thr[J].pc = "sps1" /\ sendData(J, "sps2")
  \/ thr[J].pc = "sps2" /\ sendData(J, "spawn")

StartSpawn ==
  /\ thr[J].pc = "spawn"
  /\ thr' = [thr EXCEPT ![J].pc = "started", ![used.starts].pc = "top"]
  /\ UNCHANGED <<locks, java, flags, codec, conn, used, wire, track>>

StartEnd ==
  /\ thr[J].pc = "started"
  /\ allow' = TRUE
  /\ monitor' = None
  /\ Go(J, "idle")
  /\ UNCHANGED <<mutex, projection, ori, flags, codec, conn, used, wire, track>>

StopLock ==
  /\ thr[J].pc = "idle" /\ used.starts > 0 /\ monitor = None
  /\ monitor' = J
  /\ Go(J, "stop")
  /\ UNCHANGED <<mutex, java, flags, codec, conn, used, wire, track>>

(* client_disconnect() *)
StopDisconnect ==
  /\ thr[J].pc = "stop"
  /\ conn' = "none"
  /\ Go(J, "stopflags")
  /\ UNCHANGED <<locks, java, flags, codec, used, wire, track>>

(* Mutants: the codecs go with the stop; the stop takes the native mutex.   *)
StopDeletes ==
  /\ thr[J].pc = "stopflags"
  /\ codec' = 0
  /\ recording' = FALSE /\ playing' = Off
  /\ Go(J, "stopped")
  /\ UNCHANGED <<locks, java, gate, conn, used, wire, track>>

StopUnderMutex ==
  /\ thr[J].pc = "stopflags" /\ mutex = None
  /\ recording' = FALSE /\ playing' = Off
  /\ Go(J, "stopped")
  /\ UNCHANGED <<locks, java, gate, codec, conn, used, wire, track>>

(* stopRecordScreen(false) *)
stopRecordScreen ==
  /\ thr[J].pc = "stopflags"
  /\ recording' = FALSE /\ playing' = Off
  /\ Go(J, "stopped")
  /\ UNCHANGED <<locks, java, gate, codec, conn, used, wire, track>>

StopEnd ==
  /\ thr[J].pc = "stopped"
  /\ ReleaseAll
  /\ causes' = causes \cup Crossed
  /\ monitor' = None
  /\ Go(J, "idle")
  /\ UNCHANGED <<mutex, flags, codec, conn, used, wire, harm>>
-----------------------------------------------------------------------------
(* The listener: fromPortraitToLandscape(), fromLandscapeToPortrait() *)

(* Mutant: without the test of mAllowSendOrientation. *)
RotateAnytime ==
  /\ thr[L].pc = "idle" /\ used.rotations < Rotations /\ ~used.destroyed
  /\ used' = [used EXCEPT !.rotations = @ + 1]
  /\ thr' = [thr EXCEPT ![L].pc = "create", ![L].o = Other(ori)]
  /\ UNCHANGED <<locks, java, flags, codec, conn, wire, track>>

Rotate ==
  /\ thr[L].pc = "idle" /\ allow /\ used.rotations < Rotations /\ ~used.destroyed
  /\ used' = [used EXCEPT !.rotations = @ + 1]
  /\ thr' = [thr EXCEPT ![L].pc = "create", ![L].o = Other(ori)]
  /\ UNCHANGED <<locks, java, flags, codec, conn, wire, track>>

(* The virtual display of the new orientation, made from mMediaProjection. *)
RotateCreate ==
  /\ thr[L].pc = "create"
  /\ harm' = harm \cup Mark("null", ~projection)
  /\ Go(L, "flags")
  /\ UNCHANGED <<locks, java, flags, codec, conn, used, wire, causes>>

RotateFlags ==
  /\ thr[L].pc = "flags"
  /\ playing' = Only(thr[L].o)
  /\ Go(L, "gate")
  /\ UNCHANGED <<locks, java, recording, gate, codec, conn, used, wire, track>>

PassedGate(o) == \E e \in Encoders : thr[e].pc = "send" /\ thr[e].o = o /\ ~thr[e].key
(* Mutant: the gate is left open. *)
LeaveGate ==
  /\ thr[L].pc = "gate"
  /\ Go(L, "notice")
  /\ UNCHANGED <<locks, java, flags, codec, conn, used, wire, track>>

RotateGate ==
  /\ thr[L].pc = "gate"
  /\ gate' = [gate EXCEPT ![thr[L].o] = FALSE]
  /\ causes' = causes \cup Mark("gate", PassedGate(thr[L].o))
  /\ Go(L, "notice")
  /\ UNCHANGED <<locks, java, recording, playing, codec, conn, used, wire, harm>>

RotateNotice ==
  /\ thr[L].pc = "notice"
  /\ sendData(L, "rotated")

RotateEnd ==
  /\ thr[L].pc = "rotated"
  /\ ori' = thr[L].o
  /\ Go(L, "idle")
  /\ UNCHANGED <<locks, projection, allow, flags, codec, conn, used, wire, track>>

(* onDestroy(), on the same thread: releaseAll(), stopRecordScreen(true). *)
Destroy ==
  /\ thr[L].pc = "idle" /\ monitor = None /\ ~used.destroyed
  /\ ReleaseAll
  /\ used' = [used EXCEPT !.destroyed = TRUE]
  /\ Go(L, "destroy")
  /\ UNCHANGED <<locks, flags, codec, conn, wire, track>>

DestroyStop ==
  /\ thr[L].pc = "destroy"
  /\ recording' = FALSE /\ playing' = Off
  /\ Go(L, "release")
  /\ UNCHANGED <<locks, java, gate, codec, conn, used, wire, track>>

(* release1(), release2(), under the mutex *)
Release ==
  /\ mutex = None
  /\ codec' = 0 /\ playing' = Off /\ gate' = Off

DestroyRelease ==
  /\ thr[L].pc = "release"
  /\ Release
  /\ causes' = causes \cup Mark("destroy", EncoderRuns \/ thr[J].pc # "idle")
  /\ Go(L, "idle")
  /\ UNCHANGED <<locks, java, recording, conn, used, wire, harm>>
-----------------------------------------------------------------------------
(* startEncoder() *)

(* Mutant: the loop is left when nothing plays. *)
TopWhilePlaying(e) ==
  /\ thr[e].pc = "top"
  /\ \/ ~recording /\ playing = Off /\ Go(e, "end")
     \/ \E o \in Orientation :
          /\ playing[o] /\ (o = 2 => ~playing[1])
          /\ thr' = [thr EXCEPT ![e].pc = "drain", ![e].o = o, ![e].gen = codec]
  /\ UNCHANGED <<locks, java, flags, codec, conn, used, wire, track>>

EncTop(e) ==
  /\ thr[e].pc = "top"
  /\ \/ ~recording /\ Go(e, "end")
     \/ \E o \in Orientation :
          /\ recording /\ playing[o] /\ (o = 2 => ~playing[1])
          /\ thr' = [thr EXCEPT ![e].pc = "drain", ![e].o = o, ![e].gen = codec]
  /\ UNCHANGED <<locks, java, flags, codec, conn, used, wire, track>>

(* drainOutputBufferForEncoder() *)
EncDrain(e) ==
  /\ thr[e].pc = "drain"
  /\ Go(e, IF playing[thr[e].o] THEN "dequeue" ELSE "top")
  /\ UNCHANGED <<locks, java, flags, codec, conn, used, wire, track>>

EncNothing(e) ==
  /\ thr[e].pc = "dequeue"
  /\ Go(e, "top")
  /\ harm' = harm \cup Mark("uaf", thr[e].gen # codec)
  /\ UNCHANGED <<locks, java, flags, codec, conn, used, wire, causes>>

(* A frame, and handleOutputBufferImpl(): nothing before a key frame. *)
EncFrame(e) ==
  /\ thr[e].pc = "dequeue"
  /\ LET o == thr[e].o
     IN  \E key \in BOOLEAN :
           /\ gate' = [gate EXCEPT ![o] = @ \/ key]
           /\ thr' = [thr EXCEPT ![e].pc = IF gate'[o] THEN "send" ELSE "drain", ![e].key = key]
  /\ harm' = harm \cup Mark("uaf", thr[e].gen # codec)
  /\ UNCHANGED <<locks, java, recording, playing, codec, conn, used, wire, causes>>

EncSend(e) ==
  /\ thr[e].pc = "send"
  /\ sendData(e, "drain")

EncEnd(e) ==
  /\ thr[e].pc = "end"
  /\ Release
  /\ recording' = FALSE
  /\ thr' = [thr EXCEPT ![e] = [NoThr EXCEPT !.pc = "dead"]]
  /\ UNCHANGED <<locks, java, conn, used, wire, track>>
-----------------------------------------------------------------------------
Crashed == harm \cap {"null", "uaf"} # {}

Service  == StartLock \/ StopLock
ServiceGoesOn == Prepare \/ StartTest \/ StartFlags \/ StartSend \/ StartSpawn \/ StartEnd
                 \/ StopDisconnect \/ stopRecordScreen \/ StopEnd
Listener == Rotate \/ Destroy
ListenerGoesOn == RotateCreate \/ RotateFlags \/ RotateGate \/ RotateNotice \/ RotateEnd
                  \/ DestroyStop \/ DestroyRelease
Encode(e) == EncTop(e) \/ EncDrain(e) \/ EncNothing(e) \/ EncFrame(e) \/ EncSend(e) \/ EncEnd(e)

Next ==
  /\ ~Crashed
  /\ \/ Service \/ ServiceGoesOn \/ Listener \/ ListenerGoesOn \/ PeerGone
     \/ \E e \in Encoders : Encode(e)
     \/ \E t \in Threads : WriteReturns(t) \/ sendDataError(t)

(* Every thread runs; the error handler gets the monitor although stops    *)
(* may go on taking it; without a virtual display the codec runs dry.      *)
(* Nothing makes a blocked write() return.                                 *)
Fairness ==
  /\ WF_vars(~Crashed /\ ServiceGoesOn) /\ WF_vars(~Crashed /\ ListenerGoesOn)
  /\ \A e \in Encoders : WF_vars(~Crashed /\ Encode(e))
  /\ SF_vars(~Crashed /\ \E t \in Threads : sendDataError(t))
  /\ SF_vars(~Crashed /\ ~projection /\ \E e \in Encoders : EncNothing(e))

Spec == Init /\ [][Next]_vars /\ Fairness
-----------------------------------------------------------------------------
(* The locks, the flags, the codecs' generation and what was sent. *)
TypeOK ==
  /\ monitor \in Threads \cup {None} /\ mutex \in Threads \cup {None}
  /\ playing \in [Orientation -> BOOLEAN] /\ gate \in [Orientation -> BOOLEAN]
  /\ codec \in 0 .. Starts /\ ori \in Orientation
  /\ wire \in [o : Orientation, key : BOOLEAN]

Lifecycle == {"restart", "cross", "failed", "destroy"}
OnlyAfter(h, cs) == h \in harm => causes \cap cs # {}

(* startEncoder() passes the codec it read to the drain loop: nobody       *)
(* deletes it meanwhile unless a session is restarted over a running       *)
(* encoder or the service destroyed, neither of which waits for it.        *)
CodecAlive == OnlyAfter("uaf", {"restart", "destroy"})

(* mMediaProjection.createVirtualDisplay() never meets null, unless a      *)
(* release crosses the rotation or a start went on after its error.        *)
ProjectionThere == OnlyAfter("null", {"cross", "failed"})

(* After a start or a rotation the first frame the receiver takes is a key *)
(* frame: isKeyFrameWrite1/2, a flag the encoder and the listener write    *)
(* without a lock.                                                         *)
Decodable == OnlyAfter("torn", {"restart", "cross", "overtake", "gate"})

(* The monitor is held while sendData() takes the mutex, and the mutex     *)
(* while sendDataError() takes the monitor: the service and an encoder or  *)
(* the listener wait for each other only when sessions overlap.            *)
Stuck ==
  /\ monitor = J /\ ~ENABLED (ServiceGoesOn \/ sendDataError(J))
  /\ mutex # None /\ thr[mutex].pc = "error"
NoDeadlock == Stuck => causes \cap {"restart", "cross"} # {}

(* Once isRecording is off the encoder ends and releases, even when a late *)
(* rotation has set isPlaying1/2 again behind the stop: unless a write()   *)
(* to a receiver that has stopped reading blocks for good, which no stop   *)
(* ends.                                                                   *)
Blocked == \E t \in Threads : thr[t].pc = "write"
EncoderEnds ==
  \A e \in Encoders :
    (Runs(e) /\ ~recording) ~> (~Runs(e) \/ causes \cap Lifecycle # {} \/ []Blocked)
=============================================================================
