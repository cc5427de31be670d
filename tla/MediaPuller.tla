----------------------------- MODULE MediaPuller -----------------------------
(***************************************************************************)
(* MediaPuller runs on a looper thread of its own (PullThread) and pulls   *)
(* frames out of a MediaEncoder from start() to stopAsync().  The WFD      *)
(* thread talks to it through messages only: start() blocks for the        *)
(* answer, stopAsync(), pause() and resume() do not.                       *)
(*                                                                         *)
(* The encoder is shared by three threads.  The PullThread fills images in *)
(* doPull(), the converter's thread hands them to the codec in doEncode()  *)
(* and releases the encoder on SHUTDOWN, and the ImageListenerThread       *)
(* passes on the pictures of the display and the images the codec gives    *)
(* back.  doPull() of the VideoEncoder waits for both of these, STOP       *)
(* releases the encoder too, and neither release waits for the other       *)
(* threads.                                                                *)
(*                                                                         *)
(* The looper queue is a sequence whose head is handled next.              *)
(* Looper.quit() discards the queue, and a message posted to a looper that *)
(* has quit is dropped.  An exception on any of the threads ends the       *)
(* process (crashed).                                                      *)
(***************************************************************************)
EXTENDS Naturals, Sequences, SequencesExt

CONSTANTS
    MaxCalls,          \* bound on the pause() and resume() calls
    MAX_IMAGES,        \* images of the ImageWriter, and permits for them
    WriterCapacity     \* of mWriterImageQueue

ASSUME MaxCallsAssumption == MaxCalls \in Nat
ASSUME ImagesAssumption == MAX_IMAGES \in Nat /\ WriterCapacity \in Nat \ {0}

VARIABLES
    queue,             \* messages posted to the PullThread looper
    quit,              \* mLooper.quit() was called
    mPullGeneration,
    mPaused,
    started,           \* start() of the WFD thread: "no", "waiting", "done"
    stopping,          \* stopAsync() was called
    stopNotified,      \* times the stop notification was posted back
    pullErr,           \* doPull() failed while not paused: pulling ended
    calls,             \* pause() and resume() calls made so far
    pulling,           \* the PullThread: in its looper, at "acquire" or "take"
                       \* of doPull(), or in mSource.stop()
    converter,         \* its thread: "open", SHUTDOWN posted, in release()
                       \* ("closing"), "closed"
    announced,         \* there may be PULL_SUCCESS messages at the converter
    mIsAudio,          \* the source is the AudioEncoder
    permits,           \* mAvailableWriterImageCount
    pending,           \* frames pulled, not yet encoded: mWriterImageQueue,
                       \* mPendingInputBuffer of the AudioEncoder
    inCodec,           \* images the codec has not given back
    picture,           \* mReaderImageQueue holds a picture of the display
    repeat,            \* mRepeatReaderImage # null
    crashed            \* an exception ended the process

loop == <<queue, quit, mPullGeneration, mPaused, started, stopping,
          stopNotified, pullErr, calls>>
images == <<permits, pending, inCodec, picture, repeat>>
vars == <<loop, pulling, converter, announced, mIsAudio, images, crashed>>

Messages == [what : {"START", "STOP", "PAUSE", "RESUME"}]
            \cup [what : {"PULL"}, generation : Nat]

TypeOK ==
    /\ queue \in Seq(Messages)
    /\ quit \in BOOLEAN
    /\ mPullGeneration \in Nat
    /\ mPaused \in BOOLEAN
    /\ started \in {"no", "waiting", "done"}
    /\ stopping \in BOOLEAN
    /\ stopNotified \in Nat
    /\ pullErr \in BOOLEAN
    /\ calls \in 0..MaxCalls
    /\ pulling \in {"looper", "acquire", "take", "stop"}
    /\ converter \in {"open", "shutdown", "closing", "closed"}
    /\ announced \in BOOLEAN
    /\ mIsAudio \in BOOLEAN
    /\ permits \in Nat /\ pending \in Nat /\ inCodec \in Nat
    /\ picture \in BOOLEAN
    /\ repeat \in BOOLEAN
    /\ crashed \in BOOLEAN

Init ==
    /\ queue = <<>>
    /\ quit = FALSE
    /\ mPullGeneration = 0
    /\ mPaused = FALSE
    /\ started = "no"
    /\ stopping = FALSE
    /\ stopNotified = 0
    /\ pullErr = FALSE
    /\ calls = 0
    /\ pulling = "looper"
    /\ converter = "open"
    /\ announced = FALSE
    /\ mIsAudio \in BOOLEAN
    /\ permits = MAX_IMAGES
    /\ pending = 0
    /\ inCodec = 0
    /\ picture = FALSE
    /\ repeat = FALSE
    /\ crashed = FALSE

(* release() has begun on some thread, or has been run through by one.     *)
Released == converter = "closed" \/ quit
Releasing == converter = "closing" \/ pulling = "stop" \/ Released

-----------------------------------------------------------------------------
(* The WFD thread.  Track.start() calls start() once; Track.stopAsync()    *)
(* posts SHUTDOWN to the converter and then STOP to the puller             *)
(* (Track.mStarted).  While start() waits the WFD thread makes no call.    *)

Posted(q, m) == IF quit THEN q ELSE Append(q, m)

CallStart ==
    /\ started = "no"
    /\ queue' = Posted(queue, [what |-> "START"])
    /\ started' = "waiting"
    /\ UNCHANGED <<quit, mPullGeneration, mPaused, stopping, stopNotified,
                   pullErr, calls, pulling, converter, announced, mIsAudio,
                   images, crashed>>

CallShutdownAsync ==
    /\ started = "done"
    /\ converter = "open"
    /\ converter' = "shutdown"
    /\ UNCHANGED <<loop, pulling, announced, mIsAudio, images, crashed>>

CallStopAsync ==
    /\ converter # "open"
    /\ ~stopping
    /\ queue' = Posted(queue, [what |-> "STOP"])
    /\ stopping' = TRUE
    /\ UNCHANGED <<quit, mPullGeneration, mPaused, started, stopNotified,
                   pullErr, calls, pulling, converter, announced, mIsAudio,
                   images, crashed>>

CallPauseOrResume(what) ==
    /\ started # "waiting"
    /\ calls < MaxCalls
    /\ calls' = calls + 1
    /\ queue' = Posted(queue, [what |-> what])
    /\ UNCHANGED <<quit, mPullGeneration, mPaused, started, stopping,
                   stopNotified, pullErr, pulling, converter, announced,
                   mIsAudio, images, crashed>>

-----------------------------------------------------------------------------
(* The PullThread: onMessageReceived.                                      *)

PullMessage == [what |-> "PULL", generation |-> mPullGeneration]

Received(what) ==
    pulling = "looper" /\ queue # <<>> /\ Head(queue).what = what

OnStart ==
    /\ Received("START")
    /\ queue' = Append(Tail(queue), PullMessage)
    /\ started' = "done"
    /\ UNCHANGED <<quit, mPullGeneration, mPaused, stopping, stopNotified,
                   pullErr, calls, pulling, converter, announced, mIsAudio,
                   images, crashed>>

(* STOP releases the encoder; its looper is not back before that returns.  *)
OnStop ==
    /\ Received("STOP")
    /\ queue' = Tail(queue)
    /\ pulling' = "stop"
    /\ UNCHANGED <<quit, mPullGeneration, mPaused, started, stopping,
                   stopNotified, pullErr, calls, converter, announced,
                   mIsAudio, images, crashed>>

(* Mutant: STOP leaves the looper and the pull generation alone.           *)
StopReturnsWithoutQuit ==
    /\ pulling = "stop"
    /\ pulling' = "looper"
    /\ stopNotified' = stopNotified + 1
    /\ UNCHANGED <<queue, quit, mPullGeneration, mPaused, started, stopping,
                   pullErr, calls, converter, announced, mIsAudio, images,
                   crashed>>

(* Mutant: STOP forgets to post the notification it was given.             *)
StopReturnsWithoutNotify ==
    /\ pulling = "stop"
    /\ pulling' = "looper"
    /\ mPullGeneration' = mPullGeneration + 1
    /\ quit' = TRUE
    /\ queue' = <<>>
    /\ UNCHANGED <<mPaused, started, stopping, stopNotified, pullErr, calls,
                   converter, announced, mIsAudio, images, crashed>>

StopReturns ==
    /\ pulling = "stop"
    /\ pulling' = "looper"
    /\ mPullGeneration' = mPullGeneration + 1
    /\ stopNotified' = stopNotified + 1
    /\ quit' = TRUE
    /\ queue' = <<>>
    /\ UNCHANGED <<mPaused, started, stopping, pullErr, calls, converter,
                   announced, mIsAudio, images, crashed>>

(* A PULL of an older generation is dropped, another one calls doPull().   *)
OnPull ==
    /\ Received("PULL")
    /\ queue' = Tail(queue)
    /\ pulling' = IF Head(queue).generation = mPullGeneration
                  THEN "acquire" ELSE "looper"
    /\ UNCHANGED <<quit, mPullGeneration, mPaused, started, stopping,
                   stopNotified, pullErr, calls, converter, announced,
                   mIsAudio, images, crashed>>

(* What PULL does with doPull()'s result, which it does not look at while  *)
(* paused: only then does a failed read not end the chain, and only then   *)
(* is the converter not told of the frame.                                 *)
PullReturns(ok) ==
    /\ pulling' = "looper"
    /\ queue' = IF mPaused \/ ok THEN Append(queue, PullMessage) ELSE queue
    /\ pullErr' = IF mPaused \/ ok THEN pullErr ELSE TRUE
    /\ announced' = IF ~mPaused /\ ok THEN TRUE ELSE announced
    /\ UNCHANGED <<quit, mPullGeneration, mPaused, started, stopping,
                   stopNotified, calls, converter, mIsAudio, crashed>>

(* doPull() of the VideoEncoder: a permit and a writer image first.  There *)
(* is no image to dequeue once the encoder is released.                    *)
Acquire ==
    /\ pulling = "acquire" /\ ~mIsAudio
    /\ permits > 0
    /\ ~Released
    /\ permits' = permits - 1
    /\ pulling' = "take"
    /\ UNCHANGED <<loop, converter, announced, mIsAudio, pending, inCodec,
                   picture, repeat, crashed>>

(* Then a picture: the first is waited for, later the last one is repeated *)
(* when there is no new one.  A full mWriterImageQueue gives up its oldest *)
(* image, and that image's permit is not given back.                       *)
TakeAndCopy ==
    /\ pulling = "take"
    /\ repeat \/ picture
    /\ ~Released
    /\ repeat' = TRUE
    /\ picture' = FALSE
    /\ pending' = IF pending < WriterCapacity THEN pending + 1 ELSE pending
    /\ PullReturns(TRUE)
    /\ UNCHANGED <<permits, inCodec>>

(* doPull() of the AudioEncoder keeps one pending buffer and may fail.     *)
PullAudio(ok) ==
    /\ pulling = "acquire" /\ mIsAudio
    /\ ~Released
    /\ pending' = IF ok THEN 1 ELSE pending
    /\ PullReturns(ok)
    /\ UNCHANGED <<permits, inCodec, picture, repeat>>

OnPause ==
    /\ Received("PAUSE")
    /\ queue' = Tail(queue)
    /\ mPaused' = TRUE
    /\ UNCHANGED <<quit, mPullGeneration, started, stopping, stopNotified,
                   pullErr, calls, pulling, converter, announced, mIsAudio,
                   images, crashed>>

(* Mutant: RESUME restarts the pulling that a pause never ended.           *)
OnResumeAndSchedule ==
    /\ Received("RESUME")
    /\ queue' = Append(Tail(queue), PullMessage)
    /\ mPaused' = FALSE
    /\ UNCHANGED <<quit, mPullGeneration, started, stopping, stopNotified,
                   pullErr, calls, pulling, converter, announced, mIsAudio,
                   images, crashed>>

OnResume ==
    /\ Received("RESUME")
    /\ queue' = Tail(queue)
    /\ mPaused' = FALSE
    /\ UNCHANGED <<quit, mPullGeneration, started, stopping, stopNotified,
                   pullErr, calls, pulling, converter, announced, mIsAudio,
                   images, crashed>>

-----------------------------------------------------------------------------
(* The converter's thread.  It is told of frames, not how many: doEncode() *)
(* takes all there are, and a message that is to be dropped (dropAFrame)   *)
(* leaves them.  How many messages wait is not counted, so `announced'     *)
(* may stay TRUE, and SHUTDOWN may overtake them.                          *)

ConverterEncodes(drop) ==
    /\ announced /\ converter \in {"open", "shutdown"}
    /\ pending = 0 \/ drop \/ ~Released
    /\ announced' \in BOOLEAN
    /\ pending' = IF drop THEN pending ELSE 0
    /\ inCodec' = IF drop \/ mIsAudio THEN inCodec ELSE inCodec + pending
    /\ UNCHANGED <<loop, pulling, converter, mIsAudio, permits, picture,
                   repeat, crashed>>

ConverterReleases ==
    /\ converter = "shutdown"
    /\ converter' = "closing"
    /\ UNCHANGED <<loop, pulling, announced, mIsAudio, images, crashed>>

ConverterReleased ==
    /\ converter = "closing"
    /\ converter' = "closed"
    /\ UNCHANGED <<loop, pulling, announced, mIsAudio, images, crashed>>

-----------------------------------------------------------------------------
(* The ImageListenerThread, which release() makes quit first: a picture of *)
(* the display replaces the one not taken yet, and an image the codec is   *)
(* done with frees a permit.                                               *)

OnImageAvailable ==
    /\ ~mIsAudio /\ ~Releasing
    /\ picture' = TRUE
    /\ UNCHANGED <<loop, pulling, converter, announced, mIsAudio, permits,
                   pending, inCodec, repeat, crashed>>

OnImageReleased ==
    /\ inCodec > 0 /\ ~Releasing
    /\ inCodec' = inCodec - 1
    /\ permits' = permits + 1
    /\ UNCHANGED <<loop, pulling, converter, announced, mIsAudio, pending,
                   picture, repeat, crashed>>

-----------------------------------------------------------------------------
(* Exceptions nobody catches.  getFirst() of an empty mInputBuffers.       *)

NoInputBuffer == pulling = "acquire" /\ mIsAudio

(* What release() closes and sets to null is used by the PullThread, ...   *)
PullsReleased ==
    /\ Releasing
    /\ \/ pulling = "acquire" /\ (mIsAudio \/ permits > 0)
       \/ pulling = "take" /\ (repeat \/ picture)

(* ... by a doEncode() that finds a frame, ...                             *)
EncodesReleased ==
    /\ Releasing
    /\ announced /\ converter \in {"open", "shutdown"} /\ pending > 0

(* ... by a request for a key frame that waits in front of SHUTDOWN, ...   *)
RequestsReleased == Releasing /\ ~mIsAudio /\ converter = "shutdown"

(* ... by the other release(), and by a callback of the listener thread    *)
(* that was running when it was told to quit.                              *)
ReleaseRaces ==
    \/ converter = "closing" /\ pulling = "stop"
    \/ (converter = "closing" \/ pulling = "stop") /\ ~mIsAudio

Crash ==
    /\ \/ NoInputBuffer \/ PullsReleased \/ EncodesReleased
       \/ RequestsReleased \/ ReleaseRaces
    /\ crashed' = TRUE
    /\ UNCHANGED <<loop, pulling, converter, announced, mIsAudio, images>>

-----------------------------------------------------------------------------
PullThread ==
    \/ OnStart
    \/ OnStop
    \/ StopReturns
    \/ OnPull
    \/ Acquire
    \/ TakeAndCopy
    \/ \E ok \in BOOLEAN : PullAudio(ok)
    \/ OnPause
    \/ OnResume

ConverterThread ==
    \/ \E drop \in BOOLEAN : ConverterEncodes(drop)
    \/ ConverterReleases
    \/ ConverterReleased

WFDThread ==
    \/ CallStart
    \/ CallShutdownAsync
    \/ CallStopAsync
    \/ \E what \in {"PAUSE", "RESUME"} : CallPauseOrResume(what)

ListenerThread == OnImageAvailable \/ OnImageReleased

Next ==
    /\ ~crashed
    /\ PullThread \/ ConverterThread \/ WFDThread \/ ListenerThread \/ Crash

(* The PullThread takes every step it can take, which in doPull() it often *)
(* cannot: nothing is assumed of the display, the codec or the other       *)
(* threads that it would ever get a picture or a permit.  The converter's  *)
(* looper handles SHUTDOWN, and a thread that must meet an exception does. *)
Fairness ==
    /\ WF_vars(~crashed /\ (PullThread \/ (PullsReleased /\ Crash)))
    /\ WF_vars(~crashed /\ (ConverterReleases \/ ConverterReleased))

Spec == Init /\ [][Next]_vars /\ Fairness

-----------------------------------------------------------------------------
(* Properties                                                              *)

PullsPending == {i \in 1..Len(queue) : queue[i].what = "PULL"}

(* One pull chain: between start() and the stop there is exactly one PULL  *)
(* message or one doPull() under way, whatever pause(), resume() and       *)
(* failing reads came in between, until a read fails; two chains would     *)
(* double the frame rate and none would freeze the picture (schedulePull   *)
(* is called in START and PULL).                                           *)
OnePullChain ==
    IF started = "done" /\ ~pullErr /\ ~quit /\ pulling \notin {"acquire", "take"}
      THEN \E i \in PullsPending : PullsPending = {i}
      ELSE PullsPending = {}

(* Once the encoder is stopped and its stop was announced, the PullThread  *)
(* never reads from it again and never announces the stop a second time.   *)
SilentAfterStop ==
    [][stopNotified > 0 => pulling' = pulling /\ stopNotified' = stopNotified]_vars

(* The PullThread waits in doPull() for what nobody gives it any more: the *)
(* listener thread of the released encoder has quit.                       *)
NeverWakes ==
    /\ Releasing
    /\ \/ pulling = "acquire" /\ permits = 0
       \/ pulling = "take" /\ ~repeat /\ ~picture

(* stopAsync() is answered, which PlaybackSession waits for, even though   *)
(* the pull chain re-posts itself for ever and pauses may be queued in     *)
(* between, in all but two cases.  The encoder that the converter releases *)
(* at the same time may be in use, which ends the process; or the          *)
(* PullThread waits in doPull(), for a permit or for the first picture,    *)
(* and the release takes away the thread that would wake it.               *)
StopIsAnnounced == stopping ~> stopNotified = 1 \/ crashed \/ NeverWakes

=============================================================================
