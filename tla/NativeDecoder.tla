--------------------------- MODULE NativeDecoder ---------------------------
(***************************************************************************)
(* One slot of the native receiver (MediaServer.cpp receive_data(),        *)
(* MediaData.cpp and the decoder half of MediaCodec.cpp): the receive      *)
(* thread fills the list of frames and creates the codec, the user         *)
(* interface's thread hands in the surface, whichever comes last starts    *)
(* the decoder thread, which feeds the codec and releases everything.      *)
(*                                                                         *)
(* The list is guarded by a mutex; isPlaying, the orientation, the codec   *)
(* and the surface are not.  `causes' remembers the windows that have been *)
(* hit, `harm' what became of it:                                          *)
(*   "double"  what startMediaCodec() tested is no longer so when it starts*)
(*   "late"    the surface starts the codec of a device that has gone      *)
(*   "restart" it is started while its decoder still runs, or in the midst *)
(*             of another start or of a stop from the user interface       *)
(*   "overlap" a session begins while the last one's decoder still runs    *)
(*   "stale"   a session begins with frames of the last one in the list    *)
(*   "missed"  the decoder waits although it has been stopped              *)
(*   "spurious" pthread_cond_wait() returns without a signal               *)
(*   "busy"    the codec had no room, what was to be fed is dropped        *)
(*   "turn"    a rotation arrives while the decoder has a frame in hand    *)
(*   "early"   a rotation arrives before the decoder has begun             *)
(*   "again"   a rotation goes back to an orientation still queued         *)
(*   "nosps"   the device left before it had sent its parameter sets       *)
(***************************************************************************)
EXTENDS Integers, SequencesExt

CONSTANTS Sessions,     \* bound: connections, one after the other
          Frames,       \* bound: frames
          Rotations,    \* bound: rotations
          Surfaces,     \* bound: calls of setSurface() and close_all_clients()
          Decoders      \* bound: decoder threads

ASSUME BoundsAssumption ==
  Sessions \in Nat /\ Frames \in Nat /\ Rotations \in Nat /\ Surfaces \in Nat /\ Decoders \in Nat

Orientation == {1, 2}               \* portrait, landscape
Other(o) == 3 - o
NoFrame == [n |-> 0, key |-> FALSE, o |-> 1]
Starters == {"rx", "ui"}

VARIABLES
  dev,          \* the device: orientation, is a key frame due, has it left
  sent,         \* frames and rotations so far
  rx,           \* the receive thread
  session,      \* its connection
  surfaces,     \* calls of setSurface() and close_all_clients()
  starter,      \* where the two threads are in startMediaCodec()
  surface, codec, format, sps,      \* surface1, codec1, format1, sps_pps_*1
  playing,      \* isPlaying1
  list,         \* list1
  cur, pre,     \* isCurPortrait1, isPrePortrait1
  dec,          \* the decoder threads
  alive,        \* codecs not yet deleted
  fed,          \* per codec: last frame, and the orientation of its parameters
  causes, harm

params == <<surface, codec, format, sps>>
device == <<dev, sent>>
shared == <<params, playing, list, cur, pre>>
track  == <<alive, fed, causes, harm>>
vars   == <<device, rx, session, surfaces, starter, shared, dec, track>>

NoDec == [pc |-> "none", codec |-> 0, frame |-> NoFrame]

Init ==
  /\ dev = [o |-> 1, due |-> TRUE, gone |-> TRUE]
  /\ sent = [frames |-> 0, rotations |-> 0]
  /\ rx = "idle" /\ session = 0 /\ surfaces = 0
  /\ starter = [t \in Starters |-> "out"]
  /\ surface = FALSE /\ codec = 0 /\ format = FALSE /\ sps = {}
  /\ playing = FALSE /\ list = <<>> /\ cur = 1 /\ pre = 1
  /\ dec = [d \in 1 .. Decoders |-> NoDec]
  /\ alive = {} /\ fed = [i \in 0 .. Sessions |-> [n |-> 0, o |-> 0]]
  /\ causes = {} /\ harm = {}
-----------------------------------------------------------------------------
(* drainFrame(): what precedes the first key frame is dropped.  If that     *)
(* was something and there is a second key frame further on, frames are    *)
(* dropped once more, up to a key frame: but the list begins with one.     *)
Keys(l) == {i \in DOMAIN l : l[i].key}

DropToKey(l) == SubSeq(l, Min(Keys(l)), Len(l))
(* Mutant: of two frames the older one goes. *)
DropOldest(l) == IF Len(l) > 1 THEN Tail(l) ELSE l

drainFrame(l) ==
  IF Keys(l) = {} \/ 1 \in Keys(l) THEN l
  ELSE LET m == DropToKey(l)
       IN  IF Keys(m) \ {1} # {} /\ 2 \notin Keys(m) THEN DropToKey(m) ELSE m

Running(d) == dec[d].pc \notin {"none", "dead"}
Waiting    == {d \in 1 .. Decoders : dec[d].pc = "wait"}
Free       == {d \in 1 .. Decoders : dec[d].pc = "none"}

(* pthread_cond_signal() wakes one waiter, if there is one. *)
Signal ==
  IF Waiting = {} THEN UNCHANGED dec
  ELSE \E d \in Waiting : dec' = [dec EXCEPT ![d].pc = "woken"]

Mark(c, b) == IF b THEN {c} ELSE {}

putData(f) == list' = Append(list, f) /\ Signal

setOrientation(o) == cur' = o

(* What feedInputBuffer() and drainOutputBuffer() come to: the codec has   *)
(* taken the buffer, it has no room (which counts as success), or it fails.*)
FeedResults == {"fed", "busy", "failed"}
-----------------------------------------------------------------------------
(* receive_data() *)

(* The first k parameter sets of a device that starts in orientation o. *)
setSpsPps(o, k) == sps \cup {p \in Orientation : k > 1 \/ (k = 1 /\ p = o)}

(* A device connects; both parameter sets, the first or none arrive before *)
(* the connection ends.  A failing read is not an error here.              *)
RxConnect ==
  /\ rx = "idle" /\ session < Sessions
  /\ session' = session + 1
  /\ \E o \in Orientation, k \in 0 .. 2 :
       /\ dev' = [o |-> o, due |-> TRUE, gone |-> k < 2]
       /\ setOrientation(o)
       /\ sps' = setSpsPps(o, k)
       /\ causes' = causes \cup Mark("nosps", k < 2)
                           \cup Mark("overlap", \E d \in 1 .. Decoders : Running(d))
                           \cup Mark("stale", list # <<>>)
  /\ rx' = "codec"
  /\ UNCHANGED <<sent, surfaces, starter, surface, codec, format, playing, list, pre, dec, alive, fed, harm>>

createMediaCodec ==
  /\ rx = "codec"
  /\ codec' = session
  /\ alive' = (alive \ {codec}) \cup {session}
  /\ rx' = "format"
  /\ UNCHANGED <<device, session, surfaces, starter, surface, format, sps, playing, list, cur, pre, dec, fed, causes, harm>>

(* The parameter sets of the device's orientation go into the format.       *)
(* Nothing tests that they are there: video/hevc passes them on, video/avc *)
(* looks into them.                                                        *)
createMediaFormat ==
  /\ rx = "format"
  /\ format' = TRUE
  /\ fed' = [fed EXCEPT ![session].o = IF dev.o \in sps THEN dev.o ELSE 0]
  /\ \E mime \in {"video/hevc", "video/avc"} :
       harm' = harm \cup Mark("null", mime = "video/avc" /\ dev.o \notin sps)
  /\ rx' = "start"
  /\ starter' = [starter EXCEPT !["rx"] = "test"]
  /\ UNCHANGED <<device, session, surfaces, surface, codec, sps, playing, list, cur, pre, dec, alive, causes>>

RxFrame ==
  /\ rx = "loop" /\ sent.frames < Frames /\ ~dev.gone
  /\ \E k \in {TRUE, dev.due} : putData([n |-> sent.frames + 1, key |-> k, o |-> dev.o])
  /\ dev' = [dev EXCEPT !.due = FALSE]
  /\ sent' = [sent EXCEPT !.frames = @ + 1]
  /\ UNCHANGED <<rx, session, surfaces, starter, params, playing, cur, pre, track>>

(* 255 or 254: the device has rotated, its next frame is a key frame. *)
InHand == {d \in 1 .. Decoders : dec[d].pc \in {"compare", "sps", "mark", "feed"}}
Queued(o) ==
  \/ \E i \in DOMAIN list : list[i].o = o
  \/ \E d \in 1 .. Decoders : dec[d].pc = "filter" /\ dec[d].frame.o = o

RxNotice ==
  /\ rx = "loop" /\ sent.rotations < Rotations /\ ~dev.gone
  /\ LET o == Other(dev.o)
     IN  /\ dev' = [dev EXCEPT !.o = o, !.due = TRUE]
         /\ setOrientation(o)
         /\ causes' = causes
              \cup Mark("turn", InHand # {})
              \cup Mark("early", \A d \in 1 .. Decoders : dec[d].pc \in {"none", "begin", "dead"})
              \cup Mark("again", Queued(o))
  /\ sent' = [sent EXCEPT !.rotations = @ + 1]
  /\ UNCHANGED <<rx, session, surfaces, starter, params, playing, list, pre, dec, alive, fed, harm>>

(* Mutant: the receive thread deletes the codec itself. *)
RxStopDeletes ==
  /\ rx = "loop"
  /\ playing' = FALSE
  /\ alive' = alive \ {codec} /\ codec' = 0
  /\ rx' = "signal"
  /\ UNCHANGED <<device, session, surfaces, starter, surface, format, sps, list, cur, pre, dec, fed, causes, harm>>

(* The connection ends.  isPlaying is reset first, the signal comes after. *)
RxStop ==
  /\ rx = "loop"
  /\ playing' = FALSE
  /\ rx' = "signal"
  /\ UNCHANGED <<device, session, surfaces, starter, params, list, cur, pre, dec, track>>

(* Mutant: nobody is woken. *)
RxNoSignal ==
  /\ rx = "signal"
  /\ rx' = "idle"
  /\ UNCHANGED <<device, session, surfaces, starter, shared, dec, track>>

RxSignal ==
  /\ rx = "signal"
  /\ Signal
  /\ rx' = "idle"
  /\ UNCHANGED <<device, session, surfaces, starter, shared, track>>
-----------------------------------------------------------------------------
(* setSurface(), startMediaCodec() *)

setSurface ==
  /\ starter["ui"] = "out" /\ surfaces < Surfaces /\ session > 0
  /\ surface' = TRUE
  /\ surfaces' = surfaces + 1
  /\ starter' = [starter EXCEPT !["ui"] = "test"]
  /\ UNCHANGED <<device, rx, session, codec, format, sps, playing, list, cur, pre, dec, track>>

(* Mutant: close_all_clients() signals without the reset. *)
UiStopKeeps ==
  /\ starter["ui"] = "out" /\ surfaces < Surfaces /\ session > 0
  /\ surfaces' = surfaces + 1
  /\ starter' = [starter EXCEPT !["ui"] = "signal"]
  /\ UNCHANGED <<device, rx, session, shared, dec, track>>

(* close_all_clients(): the window has gone, the decoder is to end.  Its   *)
(* connection is closed too (NativeServer), which RxStop sees some time.   *)
UiStop ==
  /\ starter["ui"] = "out" /\ surfaces < Surfaces /\ session > 0
  /\ playing' = FALSE
  /\ surfaces' = surfaces + 1
  /\ starter' = [starter EXCEPT !["ui"] = "signal"]
  /\ UNCHANGED <<device, rx, session, params, list, cur, pre, dec, track>>

UiSignal ==
  /\ starter["ui"] = "signal"
  /\ Signal
  /\ starter' = [starter EXCEPT !["ui"] = "out"]
  /\ UNCHANGED <<device, rx, session, surfaces, shared, track>>

After(t) == rx' = IF t = "rx" THEN "loop" ELSE rx

Startable == ~playing /\ codec # 0 /\ format /\ surface

StartTest(t) ==
  /\ starter[t] = "test"
  /\ IF Startable
     THEN starter' = [starter EXCEPT ![t] = "go"] /\ UNCHANGED rx
     ELSE starter' = [starter EXCEPT ![t] = "out"] /\ After(t)
  /\ UNCHANGED <<device, session, surfaces, shared, dec, track>>

(* configure, start and isPlaying = true.  Nobody looks at what the codec   *)
(* answers: one that did not start never has room ("busy").                *)
StartGo(t) ==
  /\ starter[t] = "go"
  /\ playing' = TRUE
  /\ causes' = causes \cup Mark("double", ~Startable)
                      \cup Mark("late", codec # session \/ rx \in {"signal", "idle"})
                      \cup Mark("restart", \/ \E d \in 1 .. Decoders : Running(d)
                                          \/ \E u \in Starters : starter[u] \in {"check", "signal"})
  /\ starter' = [starter EXCEPT ![t] = "check"]
  /\ UNCHANGED <<device, rx, session, surfaces, params, list, cur, pre, dec, alive, fed, harm>>

(* isPlaying is read once more, and the thread is created. *)
StartThread(t) ==
  /\ starter[t] = "check" /\ (playing => Free # {})
  /\ dec' = IF playing THEN [dec EXCEPT ![Min(Free)] = [NoDec EXCEPT !.pc = "begin"]] ELSE dec
  /\ starter' = [starter EXCEPT ![t] = "out"]
  /\ After(t)
  /\ UNCHANGED <<device, session, surfaces, shared, track>>
-----------------------------------------------------------------------------
(* startDecoder() *)

At(d, pc, next) == dec[d].pc = pc /\ dec' = [dec EXCEPT ![d].pc = next]

DecBegin(d) ==
  /\ dec[d].pc = "begin"
  /\ pre' = cur
  /\ dec' = [dec EXCEPT ![d].pc = "while", ![d].codec = codec]
  /\ UNCHANGED <<device, rx, session, surfaces, starter, params, playing, list, cur, track>>

DecWhile(d) ==
  /\ At(d, "while", IF playing THEN "get" ELSE "free")
  /\ UNCHANGED <<device, rx, session, surfaces, starter, shared, track>>

Take(d, l) ==
  /\ dec' = [dec EXCEPT ![d].pc = "filter", ![d].frame = Head(l)]
  /\ list' = Tail(l)

(* getData(): the frames are thinned out, and an empty list is waited for   *)
(* once, without looking at isPlaying before.                              *)
DecGet(d) ==
  /\ dec[d].pc = "get"
  /\ LET l == drainFrame(list)
     IN  IF l # <<>> THEN Take(d, l) /\ UNCHANGED causes
         ELSE /\ dec' = [dec EXCEPT ![d].pc = "wait"]
              /\ causes' = causes \cup Mark("missed", ~playing)
              /\ UNCHANGED list
  /\ UNCHANGED <<device, rx, session, surfaces, starter, params, playing, cur, pre, alive, fed, harm>>

Spurious(d) ==
  /\ At(d, "wait", "woken")
  /\ causes' = causes \cup {"spurious"}
  /\ UNCHANGED <<device, rx, session, surfaces, starter, shared, alive, fed, harm>>

DecWoken(d) ==
  /\ dec[d].pc = "woken"
  /\ IF ~playing THEN dec' = [dec EXCEPT ![d].pc = "free"] /\ UNCHANGED <<list, harm>>
     ELSE IF list = <<>> THEN harm' = harm \cup {"front"} /\ UNCHANGED <<dec, list>>
     ELSE Take(d, list) /\ UNCHANGED harm
  /\ UNCHANGED <<device, rx, session, surfaces, starter, params, playing, cur, pre, alive, fed, causes>>

(* A frame of the other orientation is passed over. *)
DecFilter(d) ==
  /\ dec[d].pc = "filter"
  /\ dec' = [dec EXCEPT ![d] = IF @.frame.o # cur THEN [@ EXCEPT !.pc = "while", !.frame = NoFrame]
                               ELSE [@ EXCEPT !.pc = "compare"]]
  /\ UNCHANGED <<device, rx, session, surfaces, starter, shared, track>>

(* Mutant: the parameter sets are not written again. *)
DecCompareNever(d) ==
  /\ At(d, "compare", "feed")
  /\ UNCHANGED <<device, rx, session, surfaces, starter, shared, track>>

DecCompare(d) ==
  /\ At(d, "compare", IF pre # cur THEN "sps" ELSE "feed")
  /\ UNCHANGED <<device, rx, session, surfaces, starter, shared, track>>

(* After a rotation the parameter sets are written, and the orientation is *)
(* read once more to remember it.                                          *)
DecSps(d) ==
  /\ At(d, "sps", "mark")
  /\ harm' = harm \cup Mark("uaf", dec[d].codec \notin alive)
  /\ \E r \in FeedResults :
       /\ fed' = [fed EXCEPT ![dec[d].codec].o = IF r = "fed" /\ cur \in sps THEN cur ELSE @]
       /\ causes' = causes \cup Mark("busy", r # "fed")
  /\ UNCHANGED <<device, rx, session, surfaces, starter, shared, alive>>

DecMark(d) ==
  /\ At(d, "mark", "feed")
  /\ pre' = cur
  /\ UNCHANGED <<device, rx, session, surfaces, starter, params, playing, list, cur, track>>

(* An error ends the thread. *)
DecFeed(d) ==
  LET f == dec[d].frame
      c == dec[d].codec
  IN /\ dec[d].pc = "feed"
     /\ \E r \in FeedResults :
          /\ dec' = [dec EXCEPT ![d].pc = IF r = "failed" THEN "free" ELSE "while",
                                ![d].frame = NoFrame]
          /\ fed' = [fed EXCEPT ![c].n = IF r = "fed" THEN f.n ELSE @]
          /\ causes' = causes \cup Mark("busy", r = "busy")
          /\ harm' = harm \cup Mark("uaf", c \notin alive)
                          \cup Mark("torn", r = "fed" /\ ~(IF f.key THEN fed[c].n < f.n ELSE fed[c].n = f.n - 1))
                          \cup Mark("config", r = "fed" /\ fed[c].o # f.o)
     /\ UNCHANGED <<device, rx, session, surfaces, starter, shared, alive>>

(* free1(): release1(true), then the list and the orientations.  What is   *)
(* left in the list is freed by the address of a local, which is undefined *)
(* when there is something; here it goes on.                               *)
DecFree(d) ==
  /\ At(d, "free", "clear")
  /\ playing' = FALSE
  /\ surface' = FALSE /\ format' = FALSE /\ codec' = 0 /\ sps' = {}
  /\ alive' = alive \ {codec}
  /\ UNCHANGED <<device, rx, session, surfaces, starter, list, cur, pre, fed, causes, harm>>

DecClear(d) ==
  /\ dec[d].pc = "clear"
  /\ dec' = [dec EXCEPT ![d] = [NoDec EXCEPT !.pc = "dead"]]
  /\ list' = <<>> /\ cur' = 1 /\ pre' = 1
  /\ UNCHANGED <<device, rx, session, surfaces, starter, params, playing, track>>
-----------------------------------------------------------------------------
Crashed == harm \cap {"null", "front", "uaf"} # {}

Decode(d) ==
  \/ DecBegin(d) \/ DecWhile(d) \/ DecGet(d) \/ DecWoken(d) \/ DecFilter(d)
  \/ DecCompare(d) \/ DecSps(d) \/ DecMark(d) \/ DecFeed(d) \/ DecFree(d) \/ DecClear(d)
Receive == RxConnect \/ createMediaCodec \/ createMediaFormat
           \/ RxFrame \/ RxNotice \/ RxStop \/ RxSignal
Start(t) == StartTest(t) \/ StartGo(t) \/ StartThread(t)

Next ==
  /\ ~Crashed
  /\ \/ Receive
     \/ setSurface \/ UiStop \/ UiSignal
     \/ \E t \in Starters : Start(t)
     \/ \E d \in 1 .. Decoders : Decode(d) \/ Spurious(d)

Fairness ==
  /\ WF_vars(RxSignal /\ ~Crashed)
  /\ \A d \in 1 .. Decoders : WF_vars(Decode(d) /\ ~Crashed)

Spec == Init /\ [][Next]_vars /\ Fairness
-----------------------------------------------------------------------------
(* Properties. *)

(* The variables of the slot have their types. *)
TypeOK ==
  /\ rx \in {"idle", "codec", "format", "start", "loop", "signal"}
  /\ codec \in 0 .. Sessions /\ alive \subseteq 1 .. Sessions
  /\ sps \subseteq Orientation /\ cur \in Orientation /\ pre \in Orientation
  /\ \A i \in DOMAIN list : list[i].n \in 1 .. Frames /\ list[i].o \in Orientation

Lifecycle == {"double", "late", "restart", "overlap", "stale"}

OnlyAfter(h, cs) == h \in harm => causes \cap cs # {}

(* startDecoder() keeps a copy of codec1: the codec it feeds has not been   *)
(* deleted, unless two starts or two sessions got in each other's way.     *)
CodecAlive == OnlyAfter("uaf", Lifecycle)

(* getData() takes list1.front() after one wait, without a loop: the list   *)
(* is not empty then, unless the wait returned for no reason or two         *)
(* decoders or sessions share the list.                                    *)
FrontExists == OnlyAfter("front", Lifecycle \cup {"spurious"})

(* drainFrame(), the orientation filter and the rotation never feed the     *)
(* codec a frame twice, out of order or without the one it builds on,      *)
(* unless the codec was busy, or two rotations overtook queued frames.     *)
GopIntact == OnlyAfter("torn", Lifecycle \cup {"busy", "again"})

(* A frame is fed when the parameter sets of its own orientation were the   *)
(* last the codec was given, unless the rotation came between the tests of *)
(* isCurPortrait or before the decoder began, or the codec was busy.       *)
RightParameters == OnlyAfter("config", Lifecycle \cup {"turn", "early", "busy"})

(* "5. release()": when the device has gone, the decoder thread ends and    *)
(* the codec is deleted, unless the decoder missed the signal.             *)
Released ==
  rx = "idle" /\ (\E d \in 1 .. Decoders : Running(d))
    ~> \/ alive = {} /\ \A d \in 1 .. Decoders : ~Running(d)
       \/ causes \cap (Lifecycle \cup {"missed"}) # {} \/ Crashed
=============================================================================
