# A TLA+ model of MirrorCast

MirrorCast is an Android application that shows the screen of one device on
another. It holds three systems:

1. **The Wi-Fi Display (Miracast) source** in `src/rtplib`: an RTSP server that
   negotiates with a sink, a playback session that captures, encodes and
   packetizes the screen, and RTP over UDP or TCP. It is a Java port of
   Android's native `libstagefright` Wi-Fi display source: message loopers,
   handlers, and callbacks between threads.
2. **The screen cast between two phones** in `src/app`: a client that encodes
   its screen and sends it over UDP in numbered datagrams, and a server that
   reassembles frames, queues them and decodes them. It exists a second time
   in C++ over TCP (`src/app/src/main/cpp/socket`): the library is built and
   loaded, and three constants of `MyJni` (`USE_TRANSMISSION_FOR_JNI`, `USE_TCP`,
   `USE_MEDIACODEC_FOR_JNI`, all false at this commit) choose between the two.
3. **`screenrecord`** in `src/app/src/main/cpp/screenrecord`: a copy of the
   Android tool, with the platform headers it needs, kept beside the native
   cast and commented out in its build file.

This directory models what is hard in them (threads, callbacks, loss, shutdown),
checks it with TLC on small instances and proves part of it with TLAPS.
`PROJECT.json` maps every modelling definition to the lines it stands for.

## 1. Inventory

### Wi-Fi Display source

| component | state it keeps | operations | what makes it correct |
|---|---|---|---|
| `WifiDisplaySource`, driven by `RemoteDisplay` | `mState` (12 states from INITIALIZED to STOPPED), the current client and its `PlaybackSession`, the pending stop reply, response handlers by CSeq, three timers | start, pause, resume, stop; network notifications; RTSP requests OPTIONS, SETUP, PLAY, PAUSE, TEARDOWN, GET/SET_PARAMETER; answers to M1, M3, M4, M5, M16; SESSION_ESTABLISHED, DEAD, DESTROYED | media flows only through an established session; a shutdown is never undone; `stop()` is answered exactly once and in the end; the session is destroyed once; no connection is forgotten; its own `CheckUtils` checks hold |
| `PlaybackSession` with its `Track`s | tracks with puller and converter, paused, dead, the media sender | init, play, pause, requestIDRFrame, destroyAsync; messages of converters, pullers, media sender, tracks | SESSION_DESTROYED follows `destroyAsync()` once, after every track has stopped; which calls end the process while the session lives; no puller left behind |
| `MediaPuller` and the encoder it shares | pull generation, paused flag, its own thread; permits and image queues | start, stopAsync, pause, resume, PULL; encode, release | exactly one pull chain; silence after stop; in which cases a stop is not announced |
| `MediaSender`, `RTPSender` | initialization count and generation; network sessions, RTP sequence number, history ring | initAsync, queueAccessUnit, network notifications, retransmission | initialization reported once; access units merged in time order; a retransmitted packet is the one asked for |
| `ANetworkSession` | selector, sessions, receive and send buffers | create, accept, send, destroy; framing of RTSP | messages are neither cut nor merged; no notice from a session after its end is acted upon |
| `AMessage`, `AHandler` | a pool of messages kept without locks; replies | obtain, recycle, post, postAndAwaitResponse | no message is in use twice; an awaited response arrives |
| `Converter`, `VideoEncoder`, `AudioEncoder` | codec, image queues, output thread | feed, output, shutdown, IDR | no use of a codec after release |
| `RTPReceiver`, `RTPAssembler`, `TimeSyncer` | extended sequence numbers, packet list | receive, assemble, report | loss and reordering leave whole units |
| `TSPacketizer`, text and bit helpers | continuity counters | packetize, parse | counters advance by one per packet |

Everything that has a handler runs on one *WFD looper* thread, one message at a
time. Other threads post to it: the network selector thread, the application
(blocking in `postAndAwaitResponse`), one puller thread per track, one output
thread per converter, one listener thread per video encoder. So a handler is
atomic, and the difficulty is what happens *between* two messages: the notice of a
thread is acted upon after the state it was about has changed. The encoder is
the exception: puller, converter and listener thread call into it directly.

### Screen cast over UDP

| component | state it keeps | operations | what makes it correct |
|---|---|---|---|
| sender: `MediaClientService`, `MediaClient` | key frame gate, orientation, two encoder threads with conditions | set-up, encode, fragment, send, rotate | no frame is sent before a key frame; fragments of a frame are numbered 1..n |
| receiver: `MediaServer` | `count`, `tempLength`, `tempData`, `needToAbandon` | set-up by position, reassembly, dropping of damaged groups of pictures | what is queued is a frame the encoder put out; a damaged group is dropped whole |
| play queue and player: `MyJni`, `PlayerActivity` | `mPlayQueue1`, `mTakeCount1`, window and decoder | set_info, putData, getData with both `drainFrame`, prepare, decode | SPS and PPS reach the decoder first; frames in order; dropping keeps groups of pictures intact |

Threads: the client's encoder thread, the server's receive thread, the event
bus thread (`Phone`) that creates the queue and the player, the decode thread.
They share the play queue, an `ArrayBlockingQueue` with compound operations that
are not atomic.

### The native cast, and `screenrecord`

| component | state it keeps | operations | what makes it correct |
|---|---|---|---|
| receiver, connections: `MediaServer.cpp`, `MediaClient.cpp` | listening socket, two slots for a client's descriptor, `server_is_live` | accept, replace, receive, close by the user, stop | a thread reads and closes its own connection; descriptors are given back; Java's windows follow the connections; stop ends the accept loop |
| receiver, decoder: `MediaData.cpp`, half of `MediaCodec.cpp` | per slot: codec, format, surface, parameter sets, list of frames, current and previous orientation | set-up, putData, getData with drainFrame, rotation, start from two threads, release | one decoder thread per slot; no codec is used after it is deleted; a frame follows the one it builds on and the parameter sets of its orientation; the codec is released in the end |
| sender: other half of `MediaCodec.cpp`, `MyJni.cpp`, `MediaClientService` | two codecs, two flags, two key frame gates, the projection; the Java monitor and `mutex1` | prepare, start, rotate, send, error callback, stop, destroy | parameter sets first, key frame first, no deadlock between the two locks, what keeps the encoder from ending |
| `screenrecord.cpp`, `Overlay.cpp`, `FrameOutput.cpp` | encoder, muxer, virtual display; the overlay's state, mutex and flag | prepare, run, shut down; overlay thread; frame callbacks; signals | the encoder is released on every path; the overlay's state only advances; a stop ends main and overlay thread; frames are drawn |

Threads: the accept loop, a receive thread per connection, a decoder thread per
slot, an encoder thread, the Java threads that call in; in `screenrecord` the
main thread, the overlay thread, SurfaceFlinger's callbacks and the signal
handler. The socket code shares most of its variables without a lock.

### Hard behaviours

The hazards, each with its source line and the properties that watch it, are
listed in `PROJECT.json`. In short: notices queued behind the change that makes
them stale (answers to keep-alives, SETUP of a rejected connection); a timeout
racing the answer it stands for (TEARDOWN trigger); shutdown while a
connection is still coming up (RTP over TCP); the message pool's unlocked list;
counters that survive a lost datagram; check-then-act on the play queue; a
set-up that assumes another thread has finished; a blocking call of the pull thread
whose wake-up another thread takes away; a frame of one datagram whose loss
nothing shows; in the native code, descriptor
numbers and codecs that another thread closes and replaces, a condition waited
for without a loop, a stop that wakes `accept()` with a connection that may
fail, two locks taken in both orders, a write under a lock, and a shutdown that waits
for a mutex held by a thread that waits for the shutdown's reader.

## 2. The modules

| module | models | kind |
|---|---|---|
| `WifiDisplaySource` | the RTSP state machine with application, network, timers | detailed |
| `PlaybackLifecycle` | the contract between the source and a playback session | abstract |
| `PlaybackSession`, `MCPlaybackSession` | session, tracks, media sender, RTP sender's notices | detailed |
| `MediaPuller` | the pull loop of one track, with the encoder it shares | detailed |
| `UdpCast`, `MCUdpCast` | client, network, receive thread, queue and player of the UDP cast | detailed |
| `NativeServer`, `MCNativeServer` | accept loop, slots, receive threads and stop of the native receiver | detailed |
| `NativeDecoder`, `MCNativeDecoder` | the decoder of one slot of the native receiver | detailed |
| `NativeRecorder`, `MCNativeRecorder` | the native casting device | detailed |
| `ScreenRecord` | the recording tool with its overlay thread | detailed |
| `WifiDisplaySourceProofs`, `PlaybackSessionProofs`, `MediaPullerProofs`, `NativeServerProofs`, `NativeDecoderProofs`, `NativeRecorderProofs`, `ScreenRecordProofs`, `UdpCastProofs` | theorems about the module each is named after | proofs |

`PlaybackLifecycle` joins two components: `WifiDisplaySource` is shown to *use* a
session as the contract allows (`KeepsLifecycle == Lifecycle!Usage`) and takes
its notices only from it; `PlaybackSession` is shown to *implement* it with its
liveness (`KeepsLifecycle == Lifecycle!Spec`). Both instantiate it with
variables of the same names, so the refinement mapping is the identity on
`playback`, `established` and `crashed`; `LateInit`, whether the sender may
connect late, is `mRTPMode = "TCP"` in the session and a constant in the source.
The contract owes SESSION_DESTROYED unless a thread of the session waits for
ever (`hangs`), which is `hung # {}` in the session: a puller can wait so, see
`MediaPuller`, and then `stop()` does not return. The source is checked against
a session that keeps its promise (`hangs <- FALSE`).

### `WifiDisplaySource`

Variables that begin with `m` are the fields of the class; `queue` is the WFD
looper, `timers` the delayed messages, `net` the sessions `ANetworkSession` keeps
(by id), `caller` the application thread in `RemoteDisplay`, `playback` and
`established` the playback session seen from outside. Every `On...` action is one
whole handler, including the helper methods it calls (`disconnectClient2`,
`finishStop`, `scheduleReaper`, `scheduleKeepAlive`). An uncaught exception on
the looper ends the process: `FailedCheck` says which check the message at the
head of the queue would fail and `Crash` records it in `crashed`; other
handlers are guarded by its absence. The text of RTSP messages is abstracted:
a request is its method, with SETUP split by what the handler tells apart, and
an answer is *refused*, without video, with unusable video, or good. The sink
is not assumed to follow the protocol.

The periods of the timers are not modelled: a timer may expire at any time
after it is set. The code passes microseconds to a method that takes
milliseconds, so the periods in its comments are not those of the program
either (planned, see below).

### `PlaybackSession`, `MediaPuller`

One queue stands for the looper; `puller[t]` and `converter[t]` are the other
threads as the session meets them. `lateStart` is a history variable: the tracks
were started by an INIT_DONE handled after `destroyAsync()`. A puller may hang for
good (`PullerHangs`) or meet an exception (`PullerCrashes`), as `MediaPuller` says;
one that does neither handles STOP. The sink's feedback is two actions: a reported
latency, and a NACK (`OnSinkNack`), which may end the process.

`MediaPuller` is the puller's own thread with its generation counter, and the
encoder that three threads share. The PullThread stops twice inside `doPull()` of
the `VideoEncoder`: at `acquire` for one of `MAX_IMAGES` permits, at `take` for the
first picture of the display; `mSource.stop()` is a step of its own. The converter's
thread encodes what is pending and releases the encoder on SHUTDOWN; the
ImageListenerThread passes on pictures and gives permits back. An image dropped
from the full `mWriterImageQueue` keeps its permit, so that while paused, when
nothing is encoded, the permits run out. Both releases (SHUTDOWN and STOP) make
the listener thread quit and close what the other threads use. What that leads to
is `crashed`, or a PullThread in `NeverWakes`; `StopIsAnnounced` says that a stop
is answered in all other cases.

### `UdpCast`

`net` is the sequence of datagrams on their way; the network may lose,
repeat and exchange them, `MaxFaults` times. A datagram carries what the
trailer of the code's packet does: key flag, frame length, number of the part.
The content of a buffer is a sequence of `<<frame, part>>` pairs, so a frame
assembled from the wrong bytes is visible. The server tells frames apart by their
size: `mixed` remembers the frames for which it counted a part of another frame of
the same size, and the properties except these and no others. `phase` is the position of
`receiveDataForUDP()`; the set-up takes its first three datagrams for what their
*position* says they are, as the code does. `PutData` blocks while the queue is
full and drops the item while the queue does not exist. `player` is the position
of the decode thread: `Drain`, `Check` and `Drain2` are separate steps because
`drainFrame(queue, takeCount)` walks the queue more than once without a lock
while the receive thread appends.

### How the native modules state their properties

The native code has races that really go wrong: a property that ignored them
would be false, and one that excluded them by assumption would say nothing. So
each of these modules has a history variable `causes`. An action adds a name to
it exactly when it opens one of the windows the module's header lists (a slot
given away under a running thread, a rotation between two reads of the same
flag, ...). `harm` in `NativeDecoder` and `NativeRecorder` records, in the same
way, what then became of it (a deleted codec used, a frame without its
predecessor). A property reads "this harm comes only after one of these
causes": it names the *complete* list of ways in which it can happen. Each name
in each list is needed: the property fails without it. `causes` and `harm` are
never read by a guard, except that a crash ends the behaviour.

### `NativeServer`

`open` is the kernel's table of descriptor numbers, with the lowest free number
given out first; `slot` is `client_sock_fd1` and `client_sock_fd2`; `thr[c]` is the
receive thread created for connection `c`, which holds a *number* and, while it
is blocked in `read()`, the connection itself. `which` is the accept loop's local
whose address the threads get. Close and reset of a slot are two steps
everywhere: in the receive thread, in the user's calls, in the replacement and at
the end of the accept loop. The windows are six: `arg`, the loop changes `which`
before the thread has read it; `overrun`, a slot is given away under a running
thread; `reuse`, a number is given away while somebody goes by it; `reclose`, a
second thread closes a number between another's close and reset; `lost`, a stop
comes before the server sets itself live; `unwoken`, the connection of a stop fails
while `accept()` waits. `server_close()` connects to the server through `Self`, and puts
its socket into the variable of the listening one, as `client_connect()` does; its
`socket()` and `connect()` may fail. The connection that ends the wait of a stop is
accepted and never closed: `LosesOnlyLast` says that it is the only descriptor
that stays open.

### `NativeDecoder`

One slot, as the code of the other repeats it. The receive thread sets up codec
and format and appends frames; the window's thread calls `setSurface()`; both
call `startMediaCodec()`, which tests, configures and starts the codec, which may
fail, and tests `isPlaying1` once more before it creates the thread (`StartTest`,
`StartGo`, `StartThread`). Two threads stop the decoder: the receive thread at its
end (`RxStop`, `RxSignal`) and `close_all_clients()` of the window (`UiStop`,
`UiSignal`); each resets the flag first and signals in a second step. The decoder thread is cut at every read of a variable another thread
writes: `isPlaying1`, the list under its mutex, `isCurPortrait1` four times.
`fed` is what each codec was given last. A device sends a key frame first and
after each rotation, as `NativeRecorder` has it (`Decodable`).

### `NativeRecorder`

The service's thread `J`, the orientation listener `L` and one encoder thread per
session. `monitor` is Java's `synchronized`, `mutex` is `mutex1`. `sendData` either
sends, finds `isRecording` off, or fails and then holds the mutex until Java has
released everything (`sendDataError`). Its `write()` may block with the mutex held for
as long as the receiver does not read (`WriteReturns`); a stop disconnects
(`StopDisconnect`) and then resets the flags (`stopRecordScreen`), which ends no
blocked `write()`: the stop itself returns, but the encoder does not end, and the next
start, rotation or error waits for the mutex. `wire` is what the receiver knows.

### `ScreenRecord`

`main` is the position of `recordScreen()`, `thread` that of the overlay thread;
`mMutex` is held in all but three of its places (`MutexFree`). A condition is a
flag (`signalled`) because it is only signalled with the mutex held. `queued` and
`shown` are the buffers of the two surfaces: the producer of a full surface
waits. Every call whose result the code looks at fails in some behaviour. So does
`run("overlay")`, whose result it does not look at: then there is no thread (`unrun`),
and `start()` waits for one. No property is about the exit status or the contents of
the file: `fwrite()` and `fflush()` (`screenrecord.cpp:505-512`) and `fclose()` (l.888) go
unchecked, and the status of `AMediaMuxer_stop()` replaces an earlier error, so that
"OK" does not mean that the recording is there.

## 3. Runs

| run | question | result |
|---|---|---|
| `wds` | Do the source's safety properties hold with one connection and a sink that sends anything? | hold |
| `wds_two` | With a second connection arriving while the first is served or after it is lost: is every refused connection closed? | hold |
| `wds_live` | Does `stop()` return although the sink never answers, and is the playback session used as agreed while TEARDOWN, its timeout and lost connections race? | hold |
| `playback` | Does the session keep the contract, over UDP and TCP, with pullers that may hang or fail? What ends the process while it lives? One stop notice per track? | hold, up to a puller that hangs, a NACK and an audio encoder without a buffer |
| `media_puller` | On an encoder shared by three threads: is there one pull chain, silence after stop, an announced stop? | hold, but for a stop that meets the released encoder or a wait nobody ends |
| `udp_reliable` | Without faults and with a player that keeps up, is every frame decoded after its predecessor, and in the end? | hold |
| `udp_network` | After each kind of fault, with a late player and frames of equal size, which frames are whole, and do copies stay inside their frame? | hold, but for mixed frames |
| `native_server` | With devices that come, go and are replaced while the user closes and stops: does each thread read, close and show what is its own, which descriptor stays open, does the stop end the loop? | hold, up to the windows named |
| `native_decoder` | Over two sessions with rotations, a busy or failing codec: what is fed, in which order, to which codec, and is it released? | hold, except after the causes named |
| `native_recorder` | With starts, stops, rotations, a connection that breaks or a receiver that stops reading: does the receiver get what it can decode, can the two locks deadlock, does the encoder end? | hold, except after the causes named |
| `screen_record` | In every format, with every failure and signals at any time: the overlay's states, end of both threads, frames drawn? | hold, except in the cases named |
| `udp_drain_frame` | Does the comment at `MyJni.java:478` hold? | violated |

`udp_network` checks several statements at once: the variable `faults` counts each
kind of fault, and a property says after which kinds it is claimed (`Only`).
`WholeFrames` is claimed when datagrams were only lost; `KeyFramesWhole` says that
every part of a key frame is in its place or left out, whatever happened, and
that none is left out when datagrams were only repeated; `CopyInside` is claimed
for every kind of fault. None of the three is claimed for a frame in `mixed`, for which
a part of another frame of the same size was counted: those may be mixed, have
holes, or make the last copy run over the buffer.

Every detailed module states its type invariant `TypeOK`. The run `wds` checks that
of `WifiDisplaySource`; the others hold on the instances of their runs too (add
`TypeOK` to the configuration). Each proof module proves the types its inductive
invariant needs.

### What the runs show of the code's defects

`udp_drain_frame` is a disagreement between the code and its own comment:
`drainFrame()` removes by a growing index from a shrinking list, throws with two
or more frames behind the last key frame, and drops none of them.

The models hold more of the kind, marked by the conditions of the properties and
by `FailedCheck`:

* A client may connect when `mState` is not AWAITING_CLIENT_CONNECTION, since a lost
  client and a stop leave the listening socket open: the check at
  `WifiDisplaySource.java:337` ends the process. So do the queued answer to a
  keep-alive whose client is gone (l.939), a SETUP from a connection that is not
  the client (l.1063), a SETUP before the capabilities are known, which
  finds neither audio nor video (`PlaybackSession.java:415`), and an interleaved `$`
  frame of the sink (l.377).
* `PlaybackSession`: a NACK of the sink ends the process: a packet of the history that
  cannot be sent again fails a check (`RTPSender.java:779`), one that has left the
  history meets `%d` with a boolean (l.793). Behind `destroyAsync()` a late access
  unit, feedback or IDR request meets what has been removed.
* `MediaPuller`: images dropped while paused keep their permits
  (`VideoEncoder.java:342`), after which `acquire()` (l.314) waits for good, the STOP
  behind it is not handled and `stop()` of the display never returns; the same
  happens when the release makes the listener thread quit (l.211) under a wait for
  the first picture. Converter and puller release one encoder at the same time
  (`PlaybackSession.java:737`, `VideoEncoder.java:209`), under the calls of the other
  threads. `AudioEncoder` takes the first of an empty list (`AudioEncoder.java:141`).
* `UdpCast`: two cut frames of one size can be mixed after a loss
  (`MediaServer.java:466`); a repeated part can close the hole of a lost one in a
  key frame because a part thrown away is counted (l.470), and reordering alone
  does the same: of the parts 1, 3, 2, 4 the two in the middle are thrown away,
  the last is in step with the count again, and the key frame is put out with two
  holes, although the comment at l.464 takes an equal count for a proof that
  nothing is missing; a
  part counted for another frame of the same size, after a repetition or a reordering,
  makes the length of the last part negative and the copy throws (l.484); the loss
  of a frame of one datagram is unnoticed (l.420); `drainFrame()` clears a queue that still
  holds SPS/PPS (`MyJni.java:474`); SPS/PPS received before the queue exists are
  dropped (l.428); with a player that falls behind, a frame that arrives
  between the two passes of `drainFrame(queue, takeCount)` is dropped and its
  successors are decoded (l.533).
* `NativeServer`: the six windows of its header. After a stop the listening
  socket stays open, because the variable holds another one by then, and so does
  the connection that ended the wait (`MediaServer.cpp:286`). When `socket()` or
  `connect()` of the stop fails (`MediaClient.cpp:72`, `94`) nothing wakes `accept()`.
* `NativeDecoder`: a stop signalled between the test of `isPlaying1` and the wait
  is missed and the decoder stays; two threads may both start a decoder; a start
  between the reset and the signal of `close_all_clients()` (`MediaServer.cpp:676`) lets
  the woken decoder take the front of an empty list; a
  session that overlaps the clean-up of the last loses its codec. The second
  pass of the native `drainFrame()` drops nothing.
* `NativeRecorder`: monitor and mutex are taken in both orders, and a restart or
  a rotation that crosses a stop does deadlock; the encoder thread is not
  waited for by a restart or by the destruction of the service. A receiver that
  stops reading blocks `write()` under `mutex1` (`MediaClient.cpp:131`) for good.
* `ScreenRecord`: the shutdown can meet the overlay thread in `swapBuffers()` with
  the mutex held and nobody reading the surface; a failing output file leaves
  the overlay running; when `run("overlay")` fails `start()` waits for ever; the muxer's status replaces an error; a frame whose
  announcement coalesced with another stays in the queue; raw frames are
  recorded past the time limit.

### Bounds, and why they are enough

* `MaxSessions`: 1 is enough for everything about one client, as a client that
  is gone is never taken back; 2 adds the refused connection and the next
  client. `MaxQueue = 1` bounds only what *outside* threads post; the handlers'
  own messages and the callers' go in on top of it, so that two and more
  messages are in the queue when a stale one matters. `MaxOutstanding = 1`: request handlers do not look at how many
  are outstanding. `Requests` is complete in `wds`; with two sessions it
  keeps what sets a session up, in `wds_live` also what tears it down. `Unsolicited` adds answers to which no handler is
  registered. `LateInit` is RTP over TCP, see `PlaybackLifecycle`.
* `PlaybackSession`: two tracks, one of each kind, the most `init()` can create. `MaxQueue = 2`
  lets one notice of each track wait.
* `MediaPuller`: `MaxCalls = 3` calls of pause and resume: a pause, a resume and one
  more of either. `MAX_IMAGES = 4` permits and `WriterCapacity = 2` images in the
  queue: the queue fills up and gives images away before the permits run out,
  and the codec may hold the rest.
* `UdpCast`: `LimitData = 2` stands for 60 000 bytes; frames of 1 to 7 bytes then
  have one to four parts, with a full and a partial last part. Four parts are
  needed: with a first, one middle and a last part an exchange of two datagrams
  never brings the count back into step. Four frames hold a key frame, its
  successor and the next group. `AnySizes` lets every frame be
  cut or whole with one size for each; `MixedSizes` has frames that are cut with equal
  and with different sizes, so that parts are taken for another frame's and not. `QueueLength` (50) and `DrainAfter` (10 takes) are scaled to the
  number of frames: 2 and 2 let the queue fill up and the player drop,
  `DrainAfter = 9` means that the player never drops. `MaxFaults = 2`: the end
  of one frame and the start of the next are lost, or one part is repeated
  twice. `DelaySuffices` says that the client's sleep of 2 s outlasts the
  server's set-up, which the code assumes; `udp_network` does not.

* `NativeServer`: two devices and the server's own connection fill both slots and
  replace one; one call of the user; `SetUpReads = 1` of the three reads of the
  set-up, which all fail in the same way. One of the two devices connects
  first, as they are interchangeable. TLC goes on from a state only while no window
  of the descriptors has been hit (`Clear`), beyond which nothing is claimed.
* `NativeDecoder`: two sessions and decoder threads, two calls of `setSurface()` and
  `close_all_clients()`, three frames and two
  rotations in all: a group of pictures and the next key frame, there and back
  again. TLC goes on while there is at most one kind of cause and none of the
  life cycle (after those nothing is claimed), and takes a second device after at
  most one rotation.
* `NativeRecorder`: two sessions, two rotations, and the same bound on causes.
* `ScreenRecord`: five frames through surfaces of two buffers, so that both fill up.

Deadlock is not checked (`CHECK_DEADLOCK FALSE`): all these systems may end
(STOPPED, a closed window, a dead process, the last frame).

### Fairness

* Looper threads run: `WF(WFDThread)`. A posted message is handled unless the
  process ends or, at the puller, a handler does not come back.
* The PullThread takes every step it *can* take. In `doPull()` it often cannot, and
  nothing is assumed of the display, the codec or the other threads that it would
  ever get a picture or a permit. The converter's thread handles SHUTDOWN.
* A delayed message is delivered: weak fairness of the teardown timeout only,
  the one timer on which `stop()` depends.
* `WF(PlaybackDestroyed)` in `WifiDisplaySource` is not an assumption about the
  world: it is the liveness part of `PlaybackLifecycle!Spec`, which the run
  `playback` derives for `PlaybackSession` from the fairness
  of its threads: `WFDThread`, and a puller that does not hang and meets no exception
  stops when it is told to, which `media_puller` derives from its own threads. When
  one does hang, and the code lets it, the contract is not kept and `stop()` waits:
  `StopReturns` of `wds_live` holds under the contract, not without it.
* In `UdpCast` the receive, event and player threads run.
* In the native modules every thread runs (weak fairness of each), as far as its calls
  return: `accept()` returns when there is a connection, the `connect()` of a stop
  succeeds or fails, and nothing makes a blocked `write()` of the recorder return. Strong
  fairness is assumed in three places: a receive thread whose device has gone
  gets to the end of what was sent before (`ReadEnds`); the thread that reports a
  send error gets Java's monitor although others go on taking it; an encoder
  whose virtual display was released has at some time nothing to put out.

Otherwise nothing is assumed of the sink, the network or the user, in particular not
that a receiver reads. Of the encoders and codecs two things are assumed: a codec
call returns, with a result or without; and, as said, an encoder without a display
runs dry. Of what a device sent before it left only so much can be read.

## 4. Proofs

Each theorem holds for every value of the constants that satisfies the module's
assumptions: any number of connections, devices, tracks, sessions, frames,
rotations and calls, and any bound on the queues. The assumptions are the types
of the bounds and that the sets of devices and tracks are finite. `GopSafe` of
`UdpCast` has one hypothesis more, on one race of the decode thread, see there.

All proofs have the same shape: an inductive invariant `IInv` (checked with TLC on
the instance of the run first, but for the first one of `UdpCast`, whose witnesses
range over all numbers), a lemma per action that it is kept, the theorem
that it always holds, and the properties as its consequences. Action properties
are proved from `IInv` step by step. Lemmas about queues come first: what
appending, taking the first message and removing the messages of a kind do to
the positions of the others.

### `WifiDisplaySourceProofs`

* `TypeCorrect` — the fields keep their types whatever the sink sends;
* `StopReplySafe` — a `stop()` waits for its reply exactly while the source is
  shutting down: it is neither lost nor given twice;
* `PlayingSafe` — the states in which media flows have an established session;
* `ShutdownSafe` — an accepted shutdown is never undone (an action property);
* `ChecksSafe` — the `CheckUtils` checks that are claimed to hold do;
* `OrphanSafe` — no connection is left open and forgotten;
* `LifecycleKept` — every step is a step or a stutter of `PlaybackLifecycle`.

`StopReplyMatchesState` is not inductive: a STOP message that is already in the
queue when a stop is pending would overwrite the reply, and a SESSION_DESTROYED
that came at another time would reply to nobody. `IInv` therefore adds what
excludes those messages:

* `OneCall` — the application blocks, so at most one of its calls is queued, it
  is the one it waits for, and none is queued while a stop waits;
* `StopReply` — the property itself, also in a process that has crashed;
* `SessionExists` — the playback session exists exactly from SETUP to
  SESSION_DESTROYED, and an id of -1 means there is none;
* `Beginning` — before `start()` returns and after the stop there is no client;
* `Destruction` — SESSION_DESTROYED is queued at most once and only in STOPPING.

`PlayingSafe` and `ShutdownSafe` add a step lemma each (`FlowStep`, `ShutdownStep`) on
top of `IInv`. `ChecksSafe` and `OrphanSafe` need the order of the messages: the
CLIENT_CONNECTED of a connection is ahead of everything else about it, an ERROR
of it is the last word, and a connection the network thread still keeps is the
client's or announced by a message in the queue.

### `PlaybackSessionProofs`

* `TypeCorrect` — the looper only ever holds messages a handler knows;
* `CrashSafe` — before `destroyAsync()` no null reference is met and no check fails but
  for a NACK of the sink and an audio encoder without an input buffer; no track is
  started or reported stopped twice, then or later;
* `PullersSafe` — a released session leaves no puller behind, unless its sender
  was ready only after `destroyAsync()`;
* `NoticeSafe` — a track being stopped has exactly one notice of its end under way;
* `UsageKept` — the safety half of `KeepsLifecycle`: each step is one of
  `PlaybackLifecycle` or a stutter.

`OneStopNotice` counts, which no prover here does; `Notices` says the same with
positions (there is one, and any two are the same), and the count is derived.
`OneInit` does the same for INIT_DONE, since a second one would start the tracks
again. `Ready` is what `UsageKept` needs with UDP: INIT_DONE is posted in `init()`,
so it is ahead of every notice of an end, on both its hops. `Whole` says what the
session has in each part of its life, `Pulling` who pulls. For the proof
`removeCallbacksAndMessages` is written as a recursive function over the queue.

### `MediaPullerProofs`

* `TypeCorrect` — for any number of calls, images and places in the image queue;
* `OneChain` — between `start()` and the stop exactly one PULL is queued or one
  `doPull()` under way, whatever pause and resume do, until a read fails, and
  otherwise none is queued;
* `StopIsSilent` — once the encoder is stopped and its stop announced the puller
  never reads again and announces nothing a second time.

`IInv` adds that one START is queued while `start()` waits and none otherwise, that
STOP comes only after it, that a queued PULL has the current generation (only STOP
changes it, and discards the queue), that a looper that has quit has no
messages, and that `doPull()`, a failed read and STOP come only after START. The
other two threads take no part in this (`OthersKeepLoop`).

### The native modules

The properties are conditions on `causes`, and so are the parts of the invariant:
each holds as long as no cause has occurred that a property excludes.

* `NativeServerProofs`: `TypeCorrect` (in particular `accept()` always finds a free
  descriptor number, by a counting argument on the finite set of devices),
  `ReadsOwnSafe`, `LastSafe`, `WindowSafe`, `ClosesOwnSafe`. The invariant `OwnedUntil`
  says of each descriptor number who owns it: a slot, a thread on its way out, or
  the accept loop. That no two own the same is what all four properties rest on.
* `NativeDecoderProofs`: `CodecSafe`, `FrontSafe` (with both stoppers in the model: an
  empty list only after a spurious return or one of the five life cycle windows),
  `GopSafe`, `ParametersSafe`. `Life`
  says there is one decoder thread and which session's codec it holds; `Queue` that
  the list is a run of consecutive frames up to the last one received; `Chain` relates the
  frame in the decoder's hand, the one fed last and the head of the list at each
  of its places; `Parameters` the orientation the codec was last told.
* `NativeRecorderProofs`: `CodecSafe`, `ProjectionSafe`, `DecodableSafe`, `LockOrder`.
  `Gates` is the core of `DecodableSafe`: whatever an encoder has in its hand when a
  notice of a start or rotation goes out has passed the gate of that
  orientation. `LockOrder` is the safety behind `NoDeadlock`: no `sendDataError()` holds
  the mutex while a start sends under the monitor.
* `ScreenRecordProofs`: `FlagSafe` (an announced frame is there, though
  announcements coalesce); `StateSafe` (`StatesAdvance`: the overlay's state only advances);
  `EncoderSafe` (no way out of `recordScreen()` keeps an encoder).

### `UdpCastProofs`

* `CopySafe` — no copy of a part runs over the buffer of its frame, whatever the
  network loses, repeats and reorders;
* `WholeSafe` — while the network only loses, every frame in the play queue or the
  decoder has all the parts of one encoded frame, each in its place;
* `KeyFramesSafe` — the parts of a key frame are in their own places, whatever the
  network does, and all there while it only repeats;
* `GopSafe` — while the network does nothing, a frame that refers to the one before
  it is fed to the decoder only right behind that one, whatever the decode thread
  drops, unless the second pass of its `drainFrame()` is late.

The first three hold for any number and any sizes of frames, equal ones included, any
size of a datagram and of the queue, and any number and order of faults. What they
except is a frame for which a part of *another frame of the same size* was counted
(`mixed`): the code tells frames apart by their size alone, and section 3 says what
becomes of such a frame.

Two facts about the datagrams on their way carry the proof (`NetInv`): loss and
repetition keep the parts of a frame in the order of their numbers (`NetOrdered`),
strictly so for loss; and repetition leaves no part out of a frame whose first
part is still to come (`NetGapless`). A fault that a property excludes ends what
the invariant says about it, which is why its parts are conditions on `faults`.

The frame that is put together is `Tracked` as long as it is not in `mixed`: beside the count the code keeps, the
proof has the number `p` of the part received last, which the code does not keep.
With losses only, `p` is at least the count and every part to come is greater than
`p`; so once they differ they stay apart, and the frame is never finished, because
the number that would have to arrive last exceeds the number of parts. With
repetitions only, the count is at least `p` and grows at least as fast, so once
they differ every later part of a key frame is out of step. While they are equal
the first `count` parts are in place (`Filled`). For frames that are not key frames
the count stays below the number of parts, and a key frame's part is copied only when its number
is the count: the copy is inside the buffer (`RoomForPart`). The rest are lemmas about
sequences: the three faults as maps of positions (`Origin`), and the queues of which
every step keeps a selection of the frames (`Comes`).

`GopSafe` needs nothing of the sizes: equal frames are told apart by their order. It
covers what the run `udp_reliable` leaves out, a player that falls behind and drops
(`DrainAfter` is arbitrary), and faults that come later, since `GopIntact` is about
the time before the first of them. Its hypothesis `[][~SecondPassLate]_vars` names
the one step that breaks the property, and the property does fail without it: the
first pass of `drainFrame(queue, takeCount)` leaves a single key frame at the end of
the queue, the receive thread puts its successor behind it, and the second pass
(`MyJni.java:533`), which drops what lies between the first key frame and the next,
drops the successor, while the frame after it is put and decoded. TLC
finds this with five frames of one datagram and `DrainAfter = 2`.

Its invariant `GInv` has two halves. `Base` holds on any network: types, how far
the set-up of the player has come (`Stages`), and that the key frame gate is shut
until frames are sent. `Undisturbed` holds until the first fault. It follows the
stream from end to end with one witness the code does not keep, the datagram `w`
received last: the datagrams on their way follow `w` and each other without a gap
(`Flowing`: the next part of the same frame, or the first part of the next frame,
or a key frame behind the set-up); the sender is at the end of that stream
(`ClientAt`) and the assembly at its start (`ServerAt`); the frame put last is the
one `w` ended or the one before it (`LastPut`); and what was fed and what is queued
form one chain, in which a frame that is not a key frame has its predecessor
before it (`Chained`, `InOrder`). The set-up is by position, so `Placed` counts its three
datagrams, and the chain is claimed for a queue whose first two blocks are the
SPS/PPS (`Lead`). A part that fits nothing, an abandoned part and the receive
thread's `drainFrame()` are then impossible. For the passes of the player's
`drainFrame()` the lemmas `FromKeyChained` and `KeptChained` show that what is kept is a chain
behind *any* frame and ends in the same frame: it begins with a key frame, and a
frame that is kept and is no key frame is kept with its predecessor (`KeptBefore`). TLC
checked `GInv`, with the late second pass removed, on five frames of one or two
datagrams, a player that drops and one loss (243 800 states).

### Only model-checked

* `TypeOK` where no theorem names it.
* All liveness (`StopReturns`, `StopIsAnnounced`, `FramesArrive`, `ThreadEnds`,
  `Released`, `EncoderEnds`, what `ScreenRecord` promises in the end, and the
  fair half of `PlaybackSession`'s `KeepsLifecycle`) and `NoDeadlock`, which is about
  which steps are enabled: fairness and ENABLED are outside the prover's reach.

## 5. Not modelled, and why

* Of the native cast: the UDP half of `MediaServer.cpp` and `MediaClient.cpp`, which
  repeats the Java one; the slot of client 2, which repeats client 1; `handleSpsPps`
  and `getSpsPps`, which look for SPS and PPS in blocks of bytes; the JNI
  conversions.
* The TCP cast: its `putData` is an empty method, nothing is played.
* Parsers, bit readers, video format tables: functions of bytes without state
  between calls. What callers do with their outcomes is modelled.
* Of the recorder's service: the messages RELEASE and SET_MEDIAPROJECTION with null,
  which come only when the user has refused the projection
  (`MainActivity.java:797-806`).
* Activities, services, codec enumeration, `p2pLib`, `baseLib`: platform glue.
* Of `screenrecord`: GL drawing, fonts, the command line. Nine tenths of the C and
  C++ lines of the repository are the platform's headers beside it (OpenMAX,
  binder, stagefright, a font bitmap): declarations without behaviour, which
  no module can model.
* The media extractor path of `PlaybackSession`: no caller passes a path.

## 6. Plan

1. *(done)* `MediaPuller`, `PlaybackLifecycle`, `PlaybackSession`,
   `WifiDisplaySource` with the theorems above; `UdpCast`.
2. *(done)* The native cast in three modules (connections, decoder, recorder) and
   `ScreenRecord`.
3. *(done)* Theorems: every safety property the runs check of `WifiDisplaySource`,
   `PlaybackSession`, `MediaPuller`, `NativeServer`, `NativeDecoder`,
   `NativeRecorder` and `ScreenRecord`, but for the deadlock of the recorder's
   locks, and both sides of `PlaybackLifecycle`; `CopyInside`, `WholeFrames` and
   `KeyFramesWhole` of `UdpCast` for any sizes, and its `GopIntact` but for the late
   second pass.
4. `RotatingEncoder`: the two encode threads of `MediaClientService`, their
   conditions (a signal sent before the wait is lost), the key frame gate
   across a rotation, and the rotation notice the server should receive.
5. `MessagePool`: `AMessage.obtain` and `recycle` without locks (a recycled
   message whose successor is stale), `postAndAwaitResponse`.
6. `NetworkSession`: the selector loop, RTSP framing with partial reads and
   writes, destroy against a notice under way; refines what `WifiDisplaySource`
   sees of it (`Accept`, `Receive`, `ReportError`).
7. `RtpStream`: `MediaSender.queueAccessUnit`, packetization, 16-bit sequence
   numbers and the history ring with retransmission, against `RTPReceiver` and
   `RTPAssembler`; `TSPacketizer`'s counters; `TimeSyncer`, the timers of `WifiDisplaySource` in time.
