---------------------------- MODULE ScreenRecord ----------------------------
(***************************************************************************)
(* The screenrecord command: recordScreen() and runEncoder() on the main   *)
(* thread (screenrecord.cpp), the overlay thread between the virtual       *)
(* display and the encoder (Overlay.cpp), the reader of plain frames       *)
(* (FrameOutput.cpp), the display that queues frames, and the signals.     *)
(*                                                                         *)
(* Overlay::mMutex is held by the overlay thread except in its wait, so    *)
(* that a callback or stop() runs only then.  `shown' counts the frames in *)
(* the surface behind the overlay: the encoder's input, or FrameOutput's   *)
(* queue.  `causes' remembers                                              *)
(*   "coalesced"  a frame was announced before the last one was fetched    *)
(*   "abandoned"  recordScreen() returned with the overlay running         *)
(***************************************************************************)
EXTENDS Integers

CONSTANTS Frames,      \* bound: frames of the display
          Buffers      \* of a surface's queue

ASSUME BoundsAssumption == Frames \in Nat /\ Buffers \in Nat \ {0}

VARIABLES
  opt,        \* gOutputFormat ("mux", "raw", "frames"), gWantFrameTime
  main,       \* where recordScreen() is
  err,        \* its status
  stop,       \* gStopRequested
  hit,        \* a signal was caught, the handlers are restored
  expired,    \* the time limit is over
  encoder, muxer, display,
  format,     \* the encoder has announced its format
  state, result,    \* Overlay::mState, mThreadResult
  thread,     \* where threadLoop() is; "unrun" when run() has failed
  signalled,  \* mEventCond
  available,  \* Overlay::mFrameAvailable
  queued,     \* frames in the overlay's queue
  shown,
  copied,     \* FrameOutput::mFrameAvailable
  calling,    \* onFrameAvailable() is to be called for a queued frame
  produced,   \* frames so far
  causes

recorder == <<err, encoder, muxer, display, format>>
overlay  == <<state, result, thread, signalled, available, queued>>
surface  == <<shown, copied>>
source   == <<calling, produced>>
request  == <<stop, hit, expired>>
vars == <<opt, main, recorder, overlay, surface, source, request, causes>>

Init ==
  /\ opt \in [format : {"mux", "raw", "frames"}, overlay : BOOLEAN]
  /\ main = "prepare" /\ err = FALSE
  /\ stop = FALSE /\ hit = FALSE /\ expired = FALSE
  /\ encoder = "none" /\ muxer = "none" /\ display = FALSE /\ format = FALSE
  /\ state = "UNINITIALIZED" /\ result = FALSE /\ thread = "none"
  /\ signalled = FALSE /\ available = FALSE /\ queued = 0
  /\ shown = 0 /\ copied = FALSE /\ calling = FALSE /\ produced = 0
  /\ causes = {}

Mark(c, b) == IF b THEN {c} ELSE {}
Final == {"done", "aborted", "killed"}
MutexFree == thread \in {"none", "unrun", "wait", "ended"}
HasEncoder == opt.format # "frames"
Return(e) == main' = "done" /\ err' = e
-----------------------------------------------------------------------------
(* recordScreen(), up to the loop *)

(* It releases what it made when it fails. *)
prepareEncoder(ok) == encoder' = IF ok /\ HasEncoder THEN "running" ELSE "none"

(* prepareEncoder(), with one retry at the fallback size, or                *)
(* FrameOutput::createInputSurface().                                      *)
Prepare ==
  /\ main \in {"prepare", "retry"}
  /\ \/ prepareEncoder(TRUE) /\ main' = "overlay" /\ UNCHANGED err
     \/ /\ main = "prepare" /\ HasEncoder
        /\ prepareEncoder(FALSE) /\ main' = "retry" /\ UNCHANGED err
     \/ prepareEncoder(FALSE) /\ Return(TRUE)
  /\ UNCHANGED <<opt, muxer, display, format, overlay, surface, source, request, causes>>

(* Overlay::start(): run() under the mutex, then the wait, whatever run()  *)
(* returns.                                                                *)
OverlayStart ==
  /\ main = "overlay"
  /\ IF opt.overlay
       THEN state' = "INIT" /\ thread' \in {"setup", "unrun"} /\ main' = "starting"
       ELSE main' = "display" /\ UNCHANGED <<state, thread>>
  /\ UNCHANGED <<opt, recorder, result, signalled, available, queued,
                 surface, source, request, causes>>

(* Mutant: mThreadResult is not looked at. *)
StartedAnyhow ==
  /\ main = "starting" /\ state # "INIT" /\ MutexFree
  /\ main' = "display"
  /\ UNCHANGED <<opt, recorder, overlay, surface, source, request, causes>>

OverlayStarted ==
  /\ main = "starting" /\ state # "INIT" /\ MutexFree
  /\ IF result
       THEN /\ encoder' = IF HasEncoder THEN "released" ELSE "none"
            /\ Return(TRUE)
       ELSE main' = "display" /\ UNCHANGED <<encoder, err>>
  /\ UNCHANGED <<opt, muxer, display, format, overlay, surface, source, request, causes>>

prepareVirtualDisplay ==
  /\ main = "display"
  /\ display' = TRUE
  /\ main' = "output"
  /\ UNCHANGED <<opt, err, encoder, muxer, format, overlay, surface,
                 source, request, causes>>

(* The file: abort() for the muxer, a plain return for the others. *)
PrepareOutput ==
  /\ main = "output"
  /\ \/ /\ main' = "loop"
        /\ muxer' = IF opt.format = "mux" THEN "new" ELSE "none"
        /\ UNCHANGED <<err, encoder, causes>>
     \/ /\ opt.format = "mux" /\ main' = "aborted"
        /\ UNCHANGED <<err, encoder, muxer, causes>>
     \/ /\ opt.format # "mux"
        /\ encoder' = IF HasEncoder THEN "released" ELSE "none"
        /\ Return(TRUE)
        /\ causes' = causes \cup Mark("abandoned", opt.overlay)
        /\ UNCHANGED muxer
  /\ UNCHANGED <<opt, display, format, overlay, surface, source, request>>
-----------------------------------------------------------------------------
(* runEncoder() *)

Recording == main = "loop" /\ ~stop
Encoding  == Recording /\ HasEncoder /\ ~expired

(* INFO_FORMAT_CHANGED: the track is added and the muxer started. *)
FormatChanged ==
  /\ Encoding /\ ~format
  /\ format' = TRUE
  /\ \/ /\ muxer' = IF muxer = "new" THEN "started" ELSE muxer
        /\ UNCHANGED <<main, err>>
     \/ /\ muxer = "new"
        /\ main' = "destroy" /\ err' = TRUE
        /\ UNCHANGED muxer
  /\ UNCHANGED <<opt, encoder, display, overlay, surface, source, request, causes>>

(* A buffer: written and released, perhaps the last one. *)
DequeueFrame ==
  /\ Encoding /\ format /\ shown > 0
  /\ shown' = shown - 1
  /\ \/ /\ stop' \in {stop, TRUE}
        /\ UNCHANGED <<main, err>>
     \/ /\ main' = "destroy" /\ err' = TRUE
        /\ UNCHANGED stop
  /\ UNCHANGED <<opt, encoder, muxer, display, format, overlay, copied, source,
                 hit, expired, causes>>

(* INVALID_OPERATION and other results of dequeueOutputBuffer() *)
DequeueError ==
  /\ Encoding
  /\ main' = "destroy" /\ err' = TRUE
  /\ UNCHANGED <<opt, encoder, muxer, display, format, overlay, surface, source, request, causes>>

(* The signal or the time limit; the metadata of an MP4 file. *)
LeaveEncoder ==
  /\ main = "loop" /\ HasEncoder /\ (stop \/ expired)
  /\ main' = "destroy"
  /\ err' \in {FALSE, muxer = "started"}
  /\ UNCHANGED <<opt, encoder, muxer, display, format, overlay, surface, source, request, causes>>

(* The loop over copyFrame(): a frame, an error, or nothing in time. *)
copyFrame ==
  /\ Recording /\ ~HasEncoder /\ copied
  /\ copied' = FALSE
  /\ shown' = IF shown > 0 THEN shown - 1 ELSE 0
  /\ \/ err' = FALSE /\ UNCHANGED main
     \/ main' = "destroy" /\ err' = TRUE
  /\ UNCHANGED <<opt, encoder, muxer, display, format, overlay, source, request, causes>>

(* Mutant: copyFrame() waits without a timeout. *)
LeaveWithFrame ==
  /\ main = "loop" /\ ~HasEncoder /\ stop /\ copied
  /\ main' = "destroy"
  /\ UNCHANGED <<opt, recorder, overlay, surface, source, request, causes>>

LeaveFrames ==
  /\ main = "loop" /\ ~HasEncoder /\ stop
  /\ main' = "destroy"
  /\ UNCHANGED <<opt, recorder, overlay, surface, source, request, causes>>

TimeLimit ==
  /\ main = "loop" /\ ~expired
  /\ expired' = TRUE
  /\ UNCHANGED <<opt, main, recorder, overlay, surface, source, stop, hit, causes>>
-----------------------------------------------------------------------------
(* recordScreen(), shutting down *)

DestroyDisplay ==
  /\ main = "destroy"
  /\ display' = FALSE
  /\ main' = "stop overlay"
  /\ UNCHANGED <<opt, err, encoder, muxer, format, overlay, surface,
                 source, request, causes>>

(* Mutant: stop() without the signal. *)
StopSilently ==
  /\ main = "stop overlay"
  /\ IF opt.overlay THEN MutexFree /\ state' = "STOPPING" ELSE UNCHANGED state
  /\ main' = "stop encoder"
  /\ UNCHANGED <<opt, recorder, result, thread, signalled, available, queued, surface,
                 source, request, causes>>

(* Overlay::stop() *)
OverlayStop ==
  /\ main = "stop overlay"
  /\ IF opt.overlay
       THEN MutexFree /\ state' = "STOPPING" /\ signalled' = TRUE
       ELSE UNCHANGED <<state, signalled>>
  /\ main' = "stop encoder"
  /\ UNCHANGED <<opt, recorder, result, thread, available, queued, surface,
                 source, request, causes>>

StopEncoder ==
  /\ main = "stop encoder"
  /\ encoder' = IF HasEncoder THEN "stopped" ELSE "none"
  /\ main' = "stop muxer"
  /\ UNCHANGED <<opt, err, muxer, display, format, overlay, surface,
                 source, request, causes>>

(* AMediaMuxer_stop() fails for a muxer that was never started; its status *)
(* is the one that recordScreen() returns, also in the place of an error.  *)
StopMuxer ==
  /\ main = "stop muxer"
  /\ IF muxer = "none" THEN UNCHANGED <<muxer, err>>
     ELSE err' \in (IF muxer = "started" THEN BOOLEAN ELSE {TRUE}) /\ muxer' = "stopped"
  /\ main' = "release"
  /\ UNCHANGED <<opt, encoder, display, format, overlay, surface,
                 source, request, causes>>

ReleaseEncoder ==
  /\ main = "release"
  /\ encoder' = IF HasEncoder THEN "released" ELSE "none"
  /\ main' = "done"
  /\ UNCHANGED <<opt, err, muxer, display, format, overlay, surface,
                 source, request, causes>>
-----------------------------------------------------------------------------
(* Overlay::threadLoop() *)

Setup ==
  /\ thread = "setup"
  /\ \/ state' = "RUNNING" /\ thread' = "wait" /\ UNCHANGED result
     \/ state' = "STOPPED" /\ thread' = "ended" /\ result' = TRUE
  /\ UNCHANGED <<opt, main, recorder, signalled, available, queued, surface,
                 source, request, causes>>

(* The loop's test, then the wait or release_l(). *)
LoopTest ==
  IF state = "RUNNING"
    THEN thread' = "wait" /\ UNCHANGED state
    ELSE thread' = "ended" /\ state' = "STOPPED"

Wake ==
  /\ thread = "wait" /\ signalled
  /\ signalled' = FALSE
  /\ IF available
       THEN /\ queued' = IF queued > 0 THEN queued - 1 ELSE 0
            /\ available' = FALSE
            /\ thread' = "swap" /\ UNCHANGED state
       ELSE LoopTest /\ UNCHANGED <<queued, available>>
  /\ UNCHANGED <<opt, main, recorder, result, surface, source, request, causes>>

(* swapBuffers() waits for a free buffer, with mMutex held, and fails once *)
(* the reader of the surface is gone; the frame is announced to            *)
(* FrameOutput on this thread.                                             *)
ReaderGone == encoder \in {"stopped", "released"} \/ main = "done"

Swap ==
  /\ thread = "swap"
  /\ \/ /\ ~ReaderGone /\ shown < Buffers
        /\ shown' = shown + 1
        /\ copied' = ~HasEncoder
        /\ causes' = causes \cup Mark("coalesced", copied)
     \/ ReaderGone /\ UNCHANGED <<surface, causes>>
  /\ LoopTest
  /\ UNCHANGED <<opt, main, recorder, result, signalled, available, queued, source, request>>
-----------------------------------------------------------------------------
(* The virtual display, and onFrameAvailable() on its thread. *)

QueueFrame ==
  /\ display /\ ~calling /\ produced < Frames
  /\ produced' = produced + 1
  /\ IF opt.overlay
       THEN queued < Buffers /\ queued' = queued + 1 /\ UNCHANGED shown
       ELSE shown < Buffers /\ shown' = shown + 1 /\ UNCHANGED queued
  /\ calling' = (opt.overlay \/ ~HasEncoder)
  /\ UNCHANGED <<opt, main, recorder, state, result, thread, signalled, available,
                 copied, request, causes>>

(* Mutant: the overlay is not woken. *)
FlagOnly ==
  /\ calling
  /\ calling' = FALSE
  /\ IF opt.overlay
       THEN /\ MutexFree
            /\ available' = TRUE
            /\ causes' = causes \cup Mark("coalesced", available)
            /\ UNCHANGED copied
       ELSE /\ copied' = TRUE
            /\ causes' = causes \cup Mark("coalesced", copied)
            /\ UNCHANGED available
  /\ UNCHANGED <<opt, main, recorder, state, result, thread, signalled, queued, shown,
                 produced, request>>

onFrameAvailable ==
  /\ calling
  /\ calling' = FALSE
  /\ IF opt.overlay
       THEN /\ MutexFree
            /\ available' = TRUE /\ signalled' = TRUE
            /\ causes' = causes \cup Mark("coalesced", available)
            /\ UNCHANGED copied
       ELSE /\ copied' = TRUE
            /\ causes' = causes \cup Mark("coalesced", copied)
            /\ UNCHANGED <<available, signalled>>
  /\ UNCHANGED <<opt, main, recorder, state, result, thread, queued, shown, produced, request>>

(* signalCatcher(): the second signal meets the original handler. *)
Signal ==
  /\ main \notin Final
  /\ hit' = TRUE
  /\ IF hit THEN main' = "killed" /\ UNCHANGED stop ELSE stop' = TRUE /\ UNCHANGED main
  /\ UNCHANGED <<opt, recorder, overlay, surface, source, expired, causes>>
-----------------------------------------------------------------------------
MainThread ==
  \/ Prepare \/ OverlayStart \/ OverlayStarted \/ prepareVirtualDisplay \/ PrepareOutput
  \/ FormatChanged \/ DequeueFrame \/ DequeueError \/ LeaveEncoder
  \/ copyFrame \/ LeaveFrames
  \/ DestroyDisplay \/ OverlayStop \/ StopEncoder \/ StopMuxer \/ ReleaseEncoder
OverlayThread == Setup \/ Wake \/ Swap
Alive == main \notin {"killed", "aborted"}

Next ==
  /\ Alive
  /\ MainThread \/ OverlayThread \/ TimeLimit \/ QueueFrame \/ onFrameAvailable \/ Signal

(* The threads run; the encoder's errors, the frames and the signals come  *)
(* or do not.                                                              *)
Fairness ==
  /\ WF_vars(Alive /\ MainThread) /\ WF_vars(Alive /\ OverlayThread)
  /\ WF_vars(Alive /\ onFrameAvailable)

Spec == Init /\ [][Next]_vars /\ Fairness
-----------------------------------------------------------------------------
(* Statuses, states and queues have their values and bounds. *)
TypeOK ==
  /\ main \in Final \cup {"prepare", "retry", "overlay", "starting", "display", "output", "loop",
                          "destroy", "stop overlay", "stop encoder", "stop muxer", "release"}
  /\ encoder \in {"none", "running", "stopped", "released"}
  /\ muxer \in {"none", "new", "started", "stopped"}
  /\ state \in {"UNINITIALIZED", "INIT", "RUNNING", "STOPPING", "STOPPED"}
  /\ thread \in {"none", "setup", "unrun", "wait", "swap", "ended"}
  /\ queued \in 0 .. Buffers /\ shown \in 0 .. Buffers /\ produced \in 0 .. Frames

(* The steps that mState may take.                                         *)
StateSteps == {<<"UNINITIALIZED", "INIT">>, <<"INIT", "RUNNING">>, <<"INIT", "STOPPED">>,
               <<"RUNNING", "STOPPING">>, <<"STOPPING", "STOPPED">>}
Advances == state' = state \/ <<state, state'>> \in StateSteps

(* Overlay::mState only ever advances.  In particular stop() never puts a  *)
(* thread that has ended back to STOPPING, where ~Overlay() would assert,  *)
(* and nothing revives an overlay whose setup failed.                      *)
StatesAdvance == [][Advances]_vars

(* Everyone waits: the overlay thread for a buffer with the mutex held,    *)
(* stop() for the mutex, and nobody reads the surface any more.            *)
Stuck == thread = "swap" /\ shown = Buffers /\ main \in {"destroy", "stop overlay"}

(* start() waits for a thread that run() could not make: a second signal   *)
(* is the only way out.                                                    *)
Unstarted == main = "starting" /\ thread = "unrun"

(* "Recording continues until Ctrl-C is hit or the time limit is reached": *)
(* then recordScreen() returns, with an encoder for the time limit, unless *)
(* the shutdown meets the overlay thread in a full surface or the overlay  *)
(* has no thread.                                                          *)
Finishes == (stop \/ (expired /\ HasEncoder)) ~> (main \in Final \/ Stuck \/ Unstarted)

(* The overlay thread ends after recordScreen() has returned, although     *)
(* nobody joins it, and ~Overlay() finds it STOPPED.                       *)
OverlayEnds ==
  (main = "done") ~> (state \in {"UNINITIALIZED", "STOPPED"} \/ "abandoned" \in causes)

(* The frames the display has queued are drawn while the overlay runs,     *)
(* unless two were announced at once: one stays behind for good then.      *)
FramesDrawn ==
  (state = "RUNNING" /\ queued > 0)
    ~> (queued = 0 \/ state # "RUNNING" \/ "coalesced" \in causes \/ Stuck \/ ~Alive)
=============================================================================
