-------------------------- MODULE ScreenRecordProofs --------------------------
(***************************************************************************)
(* Proofs about ScreenRecord, for any number of frames and any size of the *)
(* surfaces' queues.                                                       *)
(***************************************************************************)
EXTENDS ScreenRecord, TLAPS

(* What stands behind a flag: a frame of the display's queue for           *)
(* Overlay::mFrameAvailable, one of the surface for FrameOutput's, and one  *)
(* more for a call of onFrameAvailable() that is still to come.            *)
FlagsCovered ==
  /\ queued \in Nat /\ shown \in Nat
  /\ available => opt.overlay /\ queued >= 1
  /\ calling /\ opt.overlay => queued >= 1
  /\ calling /\ opt.overlay /\ available => queued >= 2
  /\ calling => opt.overlay \/ ~HasEncoder
  /\ copied => ~HasEncoder /\ shown >= 1
  /\ calling /\ ~opt.overlay => shown >= 1
  /\ calling /\ ~opt.overlay /\ copied => shown >= 2

LEMMA FlagsStep == FlagsCovered /\ [Next]_vars => FlagsCovered'
<1> SUFFICES ASSUME FlagsCovered, [Next]_vars
             PROVE  FlagsCovered'
  OBVIOUS
<1> USE DEF FlagsCovered, HasEncoder
<1>1. CASE UNCHANGED <<opt, queued, shown, available, copied, calling>>
  BY <1>1
<1>2. CASE DequeueFrame
  BY <1>2 DEF DequeueFrame, Encoding, source, overlay
<1>3. CASE copyFrame
  BY <1>3 DEF copyFrame, source, overlay
<1>4. CASE Wake
  BY <1>4 DEF Wake, source, surface
<1>5. CASE Swap
  <2>1. UNCHANGED <<opt, queued, available, calling>>
    BY <1>5 DEF Swap, source
  <2>2. \/ shown' = shown + 1 /\ (copied' => ~HasEncoder)
        \/ UNCHANGED <<shown, copied>>
    BY <1>5 DEF Swap, surface
  <2> QED
    BY <2>1, <2>2
<1>6. CASE QueueFrame
  <2>1. UNCHANGED <<opt, available, copied>> /\ ~calling /\ (calling' => opt.overlay \/ ~HasEncoder)
    BY <1>6 DEF QueueFrame
  <2>2. CASE opt.overlay
    BY <1>6, <2>1, <2>2 DEF QueueFrame
  <2>3. CASE ~opt.overlay
    BY <1>6, <2>1, <2>3 DEF QueueFrame
  <2> QED
    BY <2>2, <2>3
<1>7. CASE onFrameAvailable
  BY <1>7 DEF onFrameAvailable
<1>8. CASE Prepare \/ OverlayStart \/ OverlayStarted \/ prepareVirtualDisplay \/ PrepareOutput
  BY <1>1, <1>8 DEF Prepare, OverlayStart, OverlayStarted, prepareVirtualDisplay, PrepareOutput,
     overlay, surface, source
<1>9. CASE FormatChanged \/ DequeueError \/ LeaveEncoder \/ LeaveFrames \/ DestroyDisplay
  BY <1>1, <1>9 DEF FormatChanged, DequeueError, LeaveEncoder, LeaveFrames, DestroyDisplay,
     overlay, surface, source
<1>10. CASE OverlayStop \/ StopEncoder \/ StopMuxer \/ ReleaseEncoder
  BY <1>1, <1>10 DEF OverlayStop, StopEncoder, StopMuxer, ReleaseEncoder,
     overlay, surface, source
<1>11. CASE Setup \/ TimeLimit \/ Signal \/ UNCHANGED vars
  BY <1>1, <1>11 DEF Setup, TimeLimit, Signal, vars, overlay, surface, source
<1> QED
  BY <1>2, <1>3, <1>4, <1>5, <1>6, <1>7, <1>8, <1>9, <1>10, <1>11
     DEF Next, MainThread, OverlayThread

(* updateTexImage() of the overlay and the copy of FrameOutput always find *)
(* the frame that their flag announced: frames are lost to coalesced       *)
(* announcements, but no announcement is ever without a frame.             *)
FlagMeansFrame == (available => queued > 0) /\ (copied => shown > 0)

(* Overlay::threadLoop() and copyFrame() never take from an empty queue.   *)
THEOREM FlagSafe == Spec => []FlagMeansFrame
<1>1. Init => FlagsCovered
  BY DEF Init, FlagsCovered
<1>2. FlagsCovered => FlagMeansFrame
  BY DEF FlagsCovered, FlagMeansFrame
<1> QED
  BY <1>1, <1>2, FlagsStep, PTL DEF Spec
-----------------------------------------------------------------------------
(* The overlay's thread and its state.  recordScreen() waits in start()    *)
(* for the setup; a failed setup ends in an error, and the thread ends     *)
(* only after the one stop().                                              *)
ThreadState ==
  /\ state \in {"UNINITIALIZED", "INIT", "RUNNING", "STOPPING", "STOPPED"}
  /\ thread \in {"none", "setup", "unrun", "wait", "swap", "ended"}
  /\ state = "UNINITIALIZED" <=> thread = "none"
  /\ state = "INIT" <=> thread \in {"setup", "unrun"}
  /\ state = "STOPPED" <=> thread = "ended"
  /\ opt.overlay \/ thread = "none"
  /\ main \in {"prepare", "retry", "overlay"} => thread = "none"
  /\ main = "starting" => /\ state \in {"INIT", "RUNNING", "STOPPED"}
                          /\ state = "STOPPED" => result = TRUE
  /\ main \in {"display", "output", "loop", "destroy", "stop overlay"}
       => state = IF opt.overlay THEN "RUNNING" ELSE "UNINITIALIZED"

LEMMA ThreadStep == ThreadState /\ [Next]_vars => ThreadState' /\ Advances
<1> SUFFICES ASSUME ThreadState, [Next]_vars
             PROVE  ThreadState' /\ Advances
  OBVIOUS
<1> USE DEF ThreadState, Advances, StateSteps
<1>1. ASSUME UNCHANGED <<opt, state, thread, result>>,
             \/ main' = main
             \/ main' \in {"retry", "done", "aborted", "killed", "stop encoder", "stop muxer", "release"}
             \/ main \in {"prepare", "retry"} /\ main' = "overlay"
             \/ main = "overlay" /\ main' = "display" /\ ~opt.overlay
             \/ main \in {"display", "output", "loop", "destroy"}
                /\ main' \in {"output", "loop", "destroy", "stop overlay"},
             main' # "retry" \/ main = "prepare"
      PROVE  ThreadState' /\ Advances
  BY <1>1
<1>2. CASE Prepare
  BY <1>1, <1>2 DEF Prepare, Return, overlay
<1>3. CASE OverlayStart
  <2>1. CASE opt.overlay
    BY <1>3, <2>1 DEF OverlayStart
  <2>2. CASE ~opt.overlay
    BY <1>3, <2>2 DEF OverlayStart
  <2> QED
    BY <2>1, <2>2
<1>4. CASE OverlayStarted
  <2>1. CASE result
    BY <1>1, <1>4, <2>1 DEF OverlayStarted, Return, overlay
  <2>2. CASE ~result
    <3>1. main = "starting" /\ main' = "display" /\ UNCHANGED <<opt, state, thread, result>>
          /\ state # "INIT"
      BY <1>4, <2>2 DEF OverlayStarted, overlay
    <3>2. state = "RUNNING" /\ opt.overlay
      BY <3>1, <2>2
    <3> QED
      BY <3>1, <3>2
  <2> QED
    BY <2>1, <2>2
<1>5. CASE prepareVirtualDisplay \/ PrepareOutput
  BY <1>1, <1>5 DEF prepareVirtualDisplay, PrepareOutput, Return, overlay
<1>6. CASE FormatChanged \/ DequeueFrame \/ DequeueError
  BY <1>1, <1>6 DEF FormatChanged, DequeueFrame, DequeueError, Encoding, Recording, overlay
<1>7. CASE LeaveEncoder \/ copyFrame \/ LeaveFrames \/ DestroyDisplay
  BY <1>1, <1>7 DEF LeaveEncoder, copyFrame, Recording, LeaveFrames, DestroyDisplay, overlay
<1>8. CASE OverlayStop
  <2>1. CASE opt.overlay
    BY <1>8, <2>1 DEF OverlayStop, MutexFree
  <2>2. CASE ~opt.overlay
    BY <1>8, <2>2 DEF OverlayStop
  <2> QED
    BY <2>1, <2>2
<1>9. CASE StopEncoder \/ StopMuxer \/ ReleaseEncoder
  BY <1>1, <1>9 DEF StopEncoder, StopMuxer, ReleaseEncoder, overlay
<1>10. CASE Setup
  BY <1>10 DEF Setup
<1>11. CASE Wake
  BY <1>11 DEF Wake, LoopTest
<1>12. CASE Swap
  BY <1>12 DEF Swap, LoopTest
<1>13. CASE TimeLimit \/ QueueFrame \/ onFrameAvailable
  BY <1>1, <1>13 DEF TimeLimit, QueueFrame, onFrameAvailable, overlay
<1>14. CASE Signal
  BY <1>1, <1>14 DEF Signal, overlay
<1>15. CASE UNCHANGED vars
  BY <1>1, <1>15 DEF vars, overlay
<1> QED
  BY <1>2, <1>3, <1>4, <1>5, <1>6, <1>7, <1>8, <1>9, <1>10, <1>11, <1>12, <1>13,
     <1>14, <1>15 DEF Next, MainThread, OverlayThread

(* Overlay::mState only advances, whoever stops the overlay and when.      *)
THEOREM StateSafe == Spec => StatesAdvance
<1>1. Init => ThreadState
  BY DEF Init, ThreadState
<1> QED
  BY <1>1, ThreadStep, PTL DEF Spec, StatesAdvance
-----------------------------------------------------------------------------
(* recordScreen() never returns with a codec that it still holds: every    *)
(* early return releases the encoder that the path has made, and the loop  *)
(* leads to the release whichever way it ends.                             *)
EncoderReleased == main = "done" => encoder \in {"none", "released"}

(* recordScreen() keeps no encoder when it returns.                        *)
THEOREM EncoderSafe == Spec => []EncoderReleased
<1>1. Init => EncoderReleased
  BY DEF Init, EncoderReleased
<1>2. EncoderReleased /\ [Next]_vars => EncoderReleased'
  <2> SUFFICES ASSUME EncoderReleased, [Next]_vars
               PROVE  EncoderReleased'
    OBVIOUS
  <2> USE DEF EncoderReleased, recorder
  <2>1. CASE Prepare \/ OverlayStart \/ OverlayStarted \/ prepareVirtualDisplay \/ PrepareOutput
    BY <2>1 DEF Prepare, prepareEncoder, OverlayStart, OverlayStarted, prepareVirtualDisplay,
       PrepareOutput, Return
  <2>2. CASE FormatChanged \/ DequeueFrame \/ DequeueError \/ LeaveEncoder \/ copyFrame
             \/ LeaveFrames
    BY <2>2 DEF FormatChanged, DequeueFrame, DequeueError, LeaveEncoder, copyFrame, LeaveFrames,
       Encoding, Recording
  <2>3. CASE DestroyDisplay \/ OverlayStop \/ StopEncoder \/ StopMuxer \/ ReleaseEncoder
    BY <2>3 DEF DestroyDisplay, OverlayStop, StopEncoder, StopMuxer, ReleaseEncoder
  <2>4. CASE OverlayThread \/ TimeLimit \/ QueueFrame \/ onFrameAvailable \/ Signal
    BY <2>4 DEF OverlayThread, Setup, Wake, Swap, TimeLimit, QueueFrame, onFrameAvailable, Signal
  <2>5. CASE UNCHANGED vars
    BY <2>5 DEF vars
  <2> QED
    BY <2>1, <2>2, <2>3, <2>4, <2>5 DEF Next, MainThread
<1> QED
  BY <1>1, <1>2, PTL DEF Spec
=============================================================================
