------------------------- MODULE NativeRecorderProofs -------------------------
(***************************************************************************)
(* Proofs about NativeRecorder, for any number of sessions and rotations.  *)
(***************************************************************************)
EXTENDS NativeRecorder, TLAPS

ServicePc  == {"idle", "prepare", "test", "flags", "sps1", "sps2", "spawn", "started", "stop",
               "stopflags", "stopped", "write", "error"}
ListenerPc == {"idle", "create", "flags", "gate", "notice", "rotated", "destroy", "release",
               "write", "error"}
EncoderPc  == {"idle", "top", "drain", "dequeue", "send", "end", "dead", "write", "error"}
ThrRec == [pc : ServicePc \cup ListenerPc \cup EncoderPc,
           then : {"idle", "sps2", "spawn", "rotated", "drain"},
           o : Orientation, key : BOOLEAN, gen : Nat]

Types ==
  /\ thr \in [Threads -> ThrRec]
  /\ thr[J].pc \in ServicePc /\ thr[L].pc \in ListenerPc
  /\ \A e \in Encoders : thr[e].pc \in EncoderPc
  /\ thr[J].pc \in {"write", "error"} => thr[J].then \in {"sps2", "spawn"}
  /\ thr[L].pc \in {"write", "error"} => thr[L].then = "rotated"
  /\ \A e \in Encoders : thr[e].pc \in {"write", "error"} => thr[e].then = "drain"
  /\ used.starts \in 0 .. Starts
  /\ thr[J].pc # "idle" => used.starts \in 1 .. Starts
  /\ playing \in [Orientation -> BOOLEAN] /\ gate \in [Orientation -> BOOLEAN]
  /\ wire \in [o : Orientation, key : BOOLEAN]
  /\ codec \in Nat /\ ori \in Orientation

(* Who holds the locks: the monitor is the service's from its entry to its *)
(* return, the mutex belongs to a sendData() that writes or has met an     *)
(* error.                                                                  *)
Locks ==
  /\ monitor = IF thr[J].pc = "idle" THEN None ELSE J
  /\ mutex # None => mutex \in Threads
  /\ \A t \in Threads : thr[t].pc \in {"write", "error"} <=> mutex = t

(* The thread of a session does not exist before StartSpawn.               *)
Starting ==
  thr[J].pc \in {"test", "flags", "sps1", "sps2", "spawn", "write", "error"}
Unborn ==
  \A e \in Encoders :
    e > used.starts \/ (e = used.starts /\ (Starting \/ thr[J].pc = "prepare")) => thr[e].pc = "idle"

(* Without an overlap of sessions there is one encoder, and none while a   *)
(* session is being started.                                               *)
OneEncoder ==
  /\ \A e, f \in Encoders : Runs(e) /\ Runs(f) => e = f
  /\ Starting => ~EncoderRuns
SafeCodec ==
  /\ "uaf" \notin harm
  /\ \A e \in Encoders : thr[e].pc \in {"drain", "dequeue", "send", "write", "error"} => thr[e].gen = codec

(* The projection is there from the start to the release.                  *)
Entered == Starting \/ thr[J].pc \in {"prepare", "started"}
SafeProjection ==
  /\ "null" \notin harm
  /\ allow \/ Entered \/ thr[L].pc = "create" => projection

(* A session is entered when none is recording and no rotation under way.  *)
Calm ==
  /\ Entered => ~Rotating /\ ~allow
  /\ thr[J].pc \in {"prepare", "test"} => ~recording
  /\ thr[L].pc = "error" => ~recording

(* Frames and gates, while isRecording is on: what is in flight before the *)
(* notice of a rotation, and after it.                                     *)
InFlight(e) == thr[e].pc \in {"send", "write"}
KeyInFlight(o) == \E e \in Encoders : InFlight(e) /\ thr[e].o = o /\ thr[e].key
Orientations ==
  /\ thr[J].pc \in {"test", "flags"} => wire.o = ori
  /\ recording =>
       IF thr[L].pc \in {"create", "flags", "gate", "notice", "write"} THEN wire.o = ori /\ thr[L].o = Other(ori)
       ELSE IF thr[L].pc = "rotated" THEN wire.o = thr[L].o ELSE wire.o = ori
Flow ==
  /\ \A e \in Encoders : InFlight(e) /\ thr[e].o = wire.o => thr[e].key \/ wire.key
  /\ thr[J].pc # "flags" /\ gate[wire.o] => wire.key \/ KeyInFlight(wire.o)
  /\ thr[L].pc \in {"notice", "write"} =>
       /\ \A e \in Encoders : thr[e].pc = "send" /\ thr[e].o = thr[L].o => thr[e].key
       /\ gate[thr[L].o] => KeyInFlight(thr[L].o)
NewGates == thr[J].pc \in {"test", "flags"} /\ codec = 0 => gate = Off
(* A frame that waits in write() goes out even after isRecording is off.   *)
WriteFlow == \A e \in Encoders : thr[e].pc = "write" /\ thr[e].o = wire.o => thr[e].key \/ wire.key
Gates == "torn" \notin harm /\ (recording => Flow) /\ WriteFlow /\ NewGates

Clean(cs) == causes \cap cs = {}
IInv ==
  /\ Types /\ Locks /\ Unborn
  /\ Clean({"restart"}) => OneEncoder
  /\ Clean({"restart", "destroy"}) => SafeCodec
  /\ Clean({"cross", "failed"}) => SafeProjection
  /\ Clean({"restart", "cross"}) => Calm
  /\ Clean({"restart", "cross"}) => Orientations
  /\ Clean({"restart", "cross", "overtake", "gate"}) => Gates
-----------------------------------------------------------------------------
(* The threads, and what a step makes of their places.                     *)
LEMMA ThreadFacts ==
  /\ J \in Threads /\ L \in Threads /\ J # L /\ None \notin Threads /\ Encoders \subseteq Threads
  /\ \A e \in Encoders : e # J /\ e # L
  /\ \A t \in Threads : t = J \/ t = L \/ t \in Encoders
BY BoundsAssumption DEF J, L, None, Threads, Encoders

LEMMA NoThrRecord == NoThr \in ThrRec
BY DEF NoThr, ThrRec, Orientation, ServicePc

(* Only the place of thread t changes.                                     *)
Moves(t, p) ==
  \A u \in Threads :
    /\ thr'[u].pc = IF u = t THEN p ELSE thr[u].pc
    /\ thr'[u].o = thr[u].o /\ thr'[u].key = thr[u].key /\ thr'[u].gen = thr[u].gen
    /\ u # t => thr'[u].then = thr[u].then

Pcs == ServicePc \cup ListenerPc \cup EncoderPc

LEMMA GoMoves ==
  ASSUME Types, NEW t \in Threads, NEW p \in Pcs, Go(t, p)
  PROVE  Moves(t, p) /\ thr' \in [Threads -> ThrRec] /\ thr'[t].then = thr[t].then
<1>1. thr \in [Threads -> ThrRec] /\ thr' = [thr EXCEPT ![t].pc = p]
  BY DEF Types, Go
<1>2. [thr[t] EXCEPT !.pc = p] \in ThrRec
  BY <1>1 DEF ThrRec, Pcs
<1>3. \A u \in Threads : thr'[u] = IF u = t THEN [thr[t] EXCEPT !.pc = p] ELSE thr[u]
  BY <1>1
<1>4. thr' \in [Threads -> ThrRec]
  BY <1>1, <1>2
<1>5. thr[t] \in ThrRec
  BY <1>1
<1>6. Moves(t, p) /\ thr'[t].then = thr[t].then
  BY <1>3, <1>5 DEF Moves, ThrRec
<1> QED
  BY <1>4, <1>6

LEMMA ErrorMoves ==
  ASSUME Types, NEW t \in Threads, NEW p \in Pcs,
         NEW q \in {"idle", "sps2", "spawn", "rotated", "drain"},
         thr' = [thr EXCEPT ![t].pc = p, ![t].then = q]
  PROVE  Moves(t, p) /\ thr' \in [Threads -> ThrRec] /\ thr'[t].then = q
<1>1. thr \in [Threads -> ThrRec] /\ thr[t] \in ThrRec
  BY DEF Types
<1>2. \A u \in Threads : thr'[u] = IF u = t THEN [thr[t] EXCEPT !.pc = p, !.then = q] ELSE thr[u]
  BY <1>1
<1>3. [thr[t] EXCEPT !.pc = p, !.then = q] \in ThrRec
  BY <1>1 DEF ThrRec, Pcs
<1>4. thr' \in [Threads -> ThrRec]
  BY <1>1, <1>2, <1>3
<1>5. Moves(t, p) /\ thr'[t].then = q
  BY <1>1, <1>2 DEF Moves, ThrRec
<1> QED
  BY <1>4, <1>5

SendSkips(t, next) ==
  ~recording /\ Moves(t, next) /\ UNCHANGED <<mutex, recording, playing, wire, causes, harm>>
SendSends(t, next) ==
  /\ recording /\ conn = "up" /\ Moves(t, next)
  /\ Written(Message(t))
  /\ UNCHANGED <<mutex, recording, playing>>
SendBlocks(t, next) ==
  /\ recording /\ conn = "up" /\ Moves(t, "write") /\ thr'[t].then = next
  /\ mutex' = t
  /\ UNCHANGED <<recording, playing, wire, causes, harm>>
SendFails(t, next) ==
  /\ recording /\ Moves(t, "error") /\ thr'[t].then = next
  /\ mutex' = t /\ recording' = FALSE /\ playing' = Off
  /\ UNCHANGED <<wire, causes, harm>>

LEMMA SendEffect ==
  ASSUME Types, NEW t \in Threads, NEW next \in {"sps2", "spawn", "rotated", "drain"},
         sendData(t, next)
  PROVE  /\ mutex = None /\ UNCHANGED <<monitor, projection, allow, ori, gate, codec, conn, used>>
         /\ thr' \in [Threads -> ThrRec]
         /\ SendSkips(t, next) \/ SendSends(t, next) \/ SendBlocks(t, next) \/ SendFails(t, next)
<1>1. mutex = None /\ UNCHANGED <<monitor, projection, allow, ori, gate, codec, conn, used>>
  BY DEF sendData, locks, java, flags
<1>p. next \in Pcs /\ "error" \in Pcs /\ "write" \in Pcs
  BY DEF Pcs, ServicePc, ListenerPc, EncoderPc
<1>2. CASE ~recording /\ Go(t, next) /\ UNCHANGED <<locks, flags, wire, track>>
  BY <1>1, <1>2, <1>p, GoMoves DEF SendSkips, locks, flags, track
<1>3. CASE /\ recording /\ conn = "up"
           /\ Written(Message(t))
           /\ Go(t, next)
           /\ UNCHANGED <<locks, flags>>
  BY <1>1, <1>3, <1>p, GoMoves DEF SendSends, locks, flags
<1>5. CASE /\ recording /\ conn = "up"
           /\ mutex' = t
           /\ thr' = [thr EXCEPT ![t].pc = "write", ![t].then = next]
           /\ UNCHANGED <<monitor, flags, wire, track>>
  <2>1. Moves(t, "write") /\ thr' \in [Threads -> ThrRec] /\ thr'[t].then = next
    BY <1>5, <1>p, ErrorMoves
  <2> QED
    BY <1>1, <1>5, <2>1 DEF SendBlocks, track, flags
<1>4. CASE /\ recording /\ conn # "up"
           /\ recording' = FALSE /\ playing' = Off
           /\ mutex' = t
           /\ thr' = [thr EXCEPT ![t].pc = "error", ![t].then = next]
           /\ UNCHANGED <<monitor, gate, wire, track>>
  <2>1. Moves(t, "error") /\ thr' \in [Threads -> ThrRec] /\ thr'[t].then = next
    BY <1>4, <1>p, ErrorMoves
  <2> QED
    BY <1>1, <1>4, <2>1 DEF SendFails, track
<1> QED
  BY <1>2, <1>3, <1>4, <1>5 DEF sendData

(* What each thread sends.                                                 *)
LEMMA Messages ==
  /\ Message(J) = [kind |-> "sps"]
  /\ Message(L) = [kind |-> "notice", o |-> thr[L].o]
  /\ \A e \in Encoders : Message(e) = [kind |-> "frame", o |-> thr[e].o, key |-> thr[e].key]
BY ThreadFacts DEF Message

WriteDone(t) ==
  /\ Moves(t, thr[t].then) /\ Written(Message(t)) /\ mutex' = None
  /\ UNCHANGED <<recording, playing, gate>>
WriteFails(t) ==
  /\ Moves(t, "error") /\ thr'[t].then = thr[t].then
  /\ recording' = FALSE /\ playing' = Off
  /\ UNCHANGED <<mutex, gate, wire, causes, harm>>
WriteResult(t) ==
  /\ thr[t].pc = "write"
  /\ thr' \in [Threads -> ThrRec]
  /\ thr[t].then \in {"sps2", "spawn", "rotated", "drain"}
  /\ UNCHANGED <<monitor, projection, allow, ori, codec, conn, used>>
  /\ WriteDone(t) \/ WriteFails(t)

LEMMA WriteEffect ==
  ASSUME Types, NEW t \in Threads, WriteReturns(t)
  PROVE  WriteResult(t)
<1>1. thr[t].then \in {"sps2", "spawn", "rotated", "drain"} /\ thr[t].then \in Pcs /\ "error" \in Pcs
  BY ThreadFacts DEF WriteReturns, Types, Pcs, ServicePc, ListenerPc, EncoderPc
<1>2. CASE /\ Written(Message(t))
           /\ mutex' = None
           /\ thr' = [thr EXCEPT ![t].pc = thr[t].then, ![t].then = "idle"]
           /\ UNCHANGED flags
  <2>1. thr' \in [Threads -> ThrRec] /\ Moves(t, thr[t].then)
    BY <1>1, <1>2, ErrorMoves
  <2> QED
    BY <1>1, <1>2, <2>1 DEF WriteReturns, WriteResult, WriteDone, flags, java
<1>3. CASE /\ recording' = FALSE /\ playing' = Off
           /\ Go(t, "error")
           /\ UNCHANGED <<mutex, gate, wire, track>>
  <2>1. thr' \in [Threads -> ThrRec] /\ Moves(t, "error") /\ thr'[t].then = thr[t].then
    BY <1>1, <1>3, GoMoves
  <2> QED
    BY <1>1, <1>3, <2>1 DEF WriteReturns, WriteResult, WriteFails, track, java
<1> QED
  BY <1>2, <1>3 DEF WriteReturns

ErrorResult(t) ==
  /\ thr[t].pc = "error" /\ monitor \in {None, t} /\ mutex' = None
  /\ projection' = FALSE /\ allow' = FALSE
  /\ causes' = causes \cup (IF t = L THEN {} ELSE Crossed) \cup Mark("failed", t = J)
  /\ UNCHANGED <<monitor, ori, recording, playing, gate, codec, conn, used, wire, harm>>
  /\ thr' \in [Threads -> ThrRec] /\ Moves(t, thr[t].then)
  /\ thr[t].then \in {"sps2", "spawn", "rotated", "drain"}

LEMMA ErrorEffect ==
  ASSUME Types, Locks, NEW t \in Threads, sendDataError(t)
  PROVE  ErrorResult(t)
<1>1. thr[t].then \in {"sps2", "spawn", "rotated", "drain"} /\ thr[t].then \in Pcs
  BY ThreadFacts DEF sendDataError, Types, Pcs, ServicePc, ListenerPc, EncoderPc
<1>2. thr' \in [Threads -> ThrRec] /\ Moves(t, thr[t].then)
  BY <1>1, ErrorMoves DEF sendDataError
<1> QED
  BY <1>1, <1>2 DEF sendDataError, ReleaseAll, flags, ErrorResult

(* The steps that write more of a thread's record than its place.          *)
LEMMA SpawnEffect ==
  ASSUME Types, StartSpawn
  PROVE  /\ thr' \in [Threads -> ThrRec]
         /\ used.starts \in Encoders /\ thr'[J].pc = "started" /\ thr'[used.starts].pc = "top"
         /\ \A u \in Threads : u \notin {J, used.starts} => thr'[u] = thr[u]
         /\ \A u \in Threads : thr'[u].then = thr[u].then /\ thr'[u].o = thr[u].o
                                /\ thr'[u].key = thr[u].key /\ thr'[u].gen = thr[u].gen
<1>1. used.starts \in Encoders /\ used.starts \in Threads /\ J \in Threads /\ J # used.starts
  BY ThreadFacts DEF StartSpawn, Types, Encoders
<1>2. thr \in [Threads -> ThrRec] /\ thr[J] \in ThrRec /\ thr[used.starts] \in ThrRec
  BY <1>1 DEF Types
<1>3. \A u \in Threads :
         thr'[u] = IF u = J THEN [thr[J] EXCEPT !.pc = "started"]
                   ELSE IF u = used.starts THEN [thr[used.starts] EXCEPT !.pc = "top"] ELSE thr[u]
  BY <1>1, <1>2 DEF StartSpawn
<1>4. [thr[J] EXCEPT !.pc = "started"] \in ThrRec /\ [thr[used.starts] EXCEPT !.pc = "top"] \in ThrRec
  BY <1>2 DEF ThrRec, ServicePc, EncoderPc
<1>5. thr' \in [Threads -> ThrRec]
  <2>1. thr' = [u \in Threads |-> thr'[u]]
    BY <1>2 DEF StartSpawn
  <2> QED
    BY <1>2, <1>3, <1>4, <2>1
<1> QED
  BY <1>1, <1>2, <1>3, <1>5 DEF ThrRec

LEMMA RotateEffect ==
  ASSUME Types, Rotate
  PROVE  /\ thr' \in [Threads -> ThrRec]
         /\ thr'[L].pc = "create" /\ thr'[L].o = Other(ori) /\ thr'[L].then = thr[L].then
         /\ \A u \in Threads : u # L => thr'[u] = thr[u]
<1>1. thr \in [Threads -> ThrRec] /\ thr[L] \in ThrRec /\ L \in Threads
  BY ThreadFacts DEF Types
<1>2. Other(ori) \in Orientation
  BY DEF Types, Other, Orientation
<1>3. \A u \in Threads :
         thr'[u] = IF u = L THEN [thr[L] EXCEPT !.pc = "create", !.o = Other(ori)] ELSE thr[u]
  BY <1>1 DEF Rotate
<1>4. [thr[L] EXCEPT !.pc = "create", !.o = Other(ori)] \in ThrRec
  BY <1>1, <1>2 DEF ThrRec, ListenerPc
<1>5. thr' \in [Threads -> ThrRec]
  BY <1>1, <1>3, <1>4 DEF Rotate
<1> QED
  BY <1>1, <1>3, <1>5 DEF ThrRec

TopResult(e) ==
  /\ thr' \in [Threads -> ThrRec]
  /\ thr'[e].pc \in {"end", "drain"}
  /\ thr'[e].pc = "drain" => thr'[e].gen = codec
  /\ \A u \in Threads : u # e => thr'[u] = thr[u]

LEMMA TopEffect ==
  ASSUME Types, NEW e \in Encoders, EncTop(e)
  PROVE  TopResult(e)
<1>1. thr \in [Threads -> ThrRec] /\ thr[e] \in ThrRec /\ e \in Threads /\ codec \in Nat
  BY ThreadFacts DEF Types
<1>2. CASE Go(e, "end")
  <2>1. Moves(e, "end") /\ thr' \in [Threads -> ThrRec]
    BY <1>1, <1>2, GoMoves DEF Pcs, EncoderPc
  <2>2. \A u \in Threads : u # e => thr'[u] = thr[u]
    BY <1>1, <1>2 DEF Go
  <2> QED
    BY <1>1, <2>1, <2>2 DEF Moves, TopResult
<1>3. ASSUME NEW o \in Orientation,
             thr' = [thr EXCEPT ![e].pc = "drain", ![e].o = o, ![e].gen = codec]
      PROVE  /\ thr' \in [Threads -> ThrRec]
             /\ thr'[e].pc = "drain" /\ thr'[e].gen = codec
             /\ \A u \in Threads : u # e => thr'[u] = thr[u]
  <2>1. \A u \in Threads : thr'[u] = IF u = e THEN [thr[e] EXCEPT !.pc = "drain", !.o = o, !.gen = codec]
                                              ELSE thr[u]
    BY <1>1, <1>3
  <2>2. [thr[e] EXCEPT !.pc = "drain", !.o = o, !.gen = codec] \in ThrRec
    BY <1>1 DEF ThrRec, EncoderPc
  <2>3. thr' \in [Threads -> ThrRec]
    BY <1>1, <1>3, <2>1, <2>2
  <2> QED
    BY <1>1, <2>1, <2>3 DEF ThrRec
<1> QED
  BY <1>2, <1>3 DEF EncTop, TopResult

FrameResult(e) ==
  /\ thr' \in [Threads -> ThrRec]
  /\ thr'[e].o = thr[e].o /\ thr'[e].gen = thr[e].gen
  /\ gate' \in [Orientation -> BOOLEAN]
  /\ \A o \in Orientation : gate'[o] = IF o = thr[e].o THEN gate[o] \/ thr'[e].key ELSE gate[o]
  /\ thr'[e].pc = IF gate'[thr[e].o] THEN "send" ELSE "drain"
  /\ \A u \in Threads : u # e => thr'[u] = thr[u]

LEMMA FrameEffect ==
  ASSUME Types, NEW e \in Encoders, EncFrame(e)
  PROVE  FrameResult(e)
<1>1. thr \in [Threads -> ThrRec] /\ thr[e] \in ThrRec /\ e \in Threads /\ thr[e].o \in Orientation
  BY ThreadFacts DEF Types, ThrRec
<1>2. PICK key \in BOOLEAN :
         /\ gate' = [gate EXCEPT ![thr[e].o] = @ \/ key]
         /\ thr' = [thr EXCEPT ![e].pc = IF gate'[thr[e].o] THEN "send" ELSE "drain", ![e].key = key]
  BY DEF EncFrame
<1>3. \E p \in {"send", "drain"} : p = IF gate'[thr[e].o] THEN "send" ELSE "drain"
  OBVIOUS
<1>4. PICK p \in {"send", "drain"} : p = IF gate'[thr[e].o] THEN "send" ELSE "drain"
  BY <1>3
<1>5. \A u \in Threads : thr'[u] = IF u = e THEN [thr[e] EXCEPT !.pc = p, !.key = key] ELSE thr[u]
  BY <1>1, <1>2, <1>4
<1>6. [thr[e] EXCEPT !.pc = p, !.key = key] \in ThrRec
  BY <1>1 DEF ThrRec, EncoderPc
<1>7. thr' \in [Threads -> ThrRec]
  BY <1>1, <1>2, <1>4, <1>5, <1>6
<1>8. /\ gate' \in [Orientation -> BOOLEAN]
      /\ \A o \in Orientation : gate'[o] = IF o = thr[e].o THEN gate[o] \/ key ELSE gate[o]
  BY <1>1, <1>2 DEF Types
<1>9. thr'[e].o = thr[e].o /\ thr'[e].gen = thr[e].gen /\ thr'[e].key = key /\ thr'[e].pc = p
  BY <1>1, <1>5 DEF ThrRec
<1> QED
  BY <1>4, <1>5, <1>7, <1>8, <1>9 DEF FrameResult

EndResult(e) ==
  /\ thr' \in [Threads -> ThrRec] /\ thr'[e].pc = "dead"
  /\ \A u \in Threads : u # e => thr'[u] = thr[u]

LEMMA EndEffect ==
  ASSUME Types, NEW e \in Encoders, EncEnd(e)
  PROVE  EndResult(e)
<1>1. [NoThr EXCEPT !.pc = "dead"] \in ThrRec /\ [NoThr EXCEPT !.pc = "dead"].pc = "dead"
  BY NoThrRecord DEF ThrRec, EncoderPc
<1> QED
  BY <1>1, ThreadFacts DEF EncEnd, Types, EndResult

(* A step Go(t, p) of any thread, as the actions use it.                   *)
Step(t, p) == Moves(t, p) /\ thr' \in [Threads -> ThrRec] /\ thr'[t].then = thr[t].then

LEMMA Steps ==
  ASSUME Types
  PROVE  /\ \A p \in ServicePc : Go(J, p) => Step(J, p)
         /\ \A p \in ListenerPc : Go(L, p) => Step(L, p)
         /\ \A e \in Encoders : \A p \in EncoderPc : Go(e, p) => Step(e, p)
<1>1. \A t \in Threads : \A p \in Pcs : Go(t, p) => Step(t, p)
  BY GoMoves DEF Step
<1> QED
  BY <1>1, ThreadFacts DEF Pcs
-----------------------------------------------------------------------------
(* The types and the locks.                                                *)
LEMMA TypesStep ==
  ASSUME Types, Locks, Unborn, [Next]_vars
  PROVE  Types' /\ Locks'
<1> USE ThreadFacts
<1>a. ASSUME StartLock PROVE Types' /\ Locks'
  <2>1. Step(J, "prepare")
    BY <1>a, Steps DEF StartLock, ServicePc
  <2>2. used'.starts \in 1 .. Starts
    BY <1>a, BoundsAssumption DEF StartLock, Types
  <2>3. Types'
    BY <1>a, <2>1, <2>2 DEF StartLock, Types, Step, Moves, flags, ServicePc
  <2>4. Locks'
    BY <1>a, <2>1 DEF StartLock, Locks, Step, Moves
  <2> QED
    BY <2>3, <2>4
<1>b. ASSUME StopLock PROVE Types' /\ Locks'
  <2>1. Step(J, "stop")
    BY <1>b, Steps DEF StopLock, ServicePc
  <2>3. Types'
    BY <1>b, <2>1 DEF StopLock, Types, Step, Moves, flags, java, ServicePc
  <2>4. Locks'
    BY <1>b, <2>1 DEF StopLock, Locks, Step, Moves
  <2> QED
    BY <2>3, <2>4
<1>c. ASSUME Prepare PROVE Types' /\ Locks'
  <2>a. codec' \in Nat /\ used.starts \in 1 .. Starts /\ ori' = ori
    BY <1>c, BoundsAssumption DEF Prepare, Types, createEncoder, ReleaseAll
  <2>b. wire' = [o |-> ori, key |-> FALSE] \/ wire' = wire
    BY <1>c DEF Prepare
  <2>1. /\ codec' \in Nat /\ used.starts \in 1 .. Starts /\ ori' \in Orientation
        /\ wire' \in [o : Orientation, key : BOOLEAN]
    <3>1. ori \in Orientation /\ wire \in [o : Orientation, key : BOOLEAN]
      BY DEF Types
    <3>2. [o |-> ori, key |-> FALSE] \in [o : Orientation, key : BOOLEAN]
      BY <3>1
    <3>3. wire' \in [o : Orientation, key : BOOLEAN]
      BY <2>b, <3>1, <3>2
    <3> QED
      BY <2>a, <3>1, <3>3
  <2>2. CASE Go(J, "test") /\ monitor' = monitor
    <3>1. Step(J, "test")
      BY <2>2, Steps DEF ServicePc
    <3>2. Types'
      BY <1>c, <2>1, <3>1 DEF Prepare, Types, Step, Moves, flags, ServicePc
    <3>3. Locks'
      BY <1>c, <2>2, <3>1 DEF Prepare, Locks, Step, Moves
    <3> QED
      BY <3>2, <3>3
  <2>3. CASE Go(J, "idle") /\ monitor' = None
    <3>1. Step(J, "idle")
      BY <2>3, Steps DEF ServicePc
    <3>2. Types'
      BY <1>c, <2>1, <3>1 DEF Prepare, Types, Step, Moves, flags, ServicePc
    <3>3. Locks'
      BY <1>c, <2>3, <3>1 DEF Prepare, Locks, Step, Moves
    <3> QED
      BY <3>2, <3>3
  <2> QED
    BY <1>c, <2>2, <2>3 DEF Prepare
<1>d. ASSUME StartTest PROVE Types' /\ Locks'
  <2>1. Step(J, "started") \/ Step(J, "flags")
    BY <1>d, Steps DEF StartTest, ServicePc
  <2>3. Types'
    BY <1>d, <2>1 DEF StartTest, Types, Step, Moves, java, ServicePc
  <2>4. Locks'
    BY <1>d, <2>1 DEF StartTest, Locks, Step, Moves, locks
  <2> QED
    BY <2>3, <2>4
<1>e. ASSUME StartFlags PROVE Types' /\ Locks'
  <2>1. Step(J, "spawn") \/ Step(J, "sps1")
    BY <1>e, Steps DEF StartFlags, ServicePc
  <2>2. playing' \in [Orientation -> BOOLEAN] /\ gate' \in [Orientation -> BOOLEAN]
    <3>1. CASE UNCHANGED <<playing, gate>>
      BY <3>1 DEF Types
    <3>2. CASE playing' = Only(ori) /\ gate' = [gate EXCEPT ![ori] = FALSE]
      BY <3>2 DEF Types, Only
    <3> QED
      BY <1>e, <3>1, <3>2 DEF StartFlags
  <2>3. Types'
    BY <1>e, <2>1, <2>2 DEF StartFlags, Types, Step, Moves, java, ServicePc
  <2>4. Locks'
    BY <1>e, <2>1 DEF StartFlags, Locks, Step, Moves, locks
  <2> QED
    BY <2>3, <2>4
<1>w. ASSUME NEW t \in Threads, Written(Message(t)) PROVE wire' \in [o : Orientation, key : BOOLEAN]
  <2>1. wire \in [o : Orientation, key : BOOLEAN] /\ thr[t].o \in Orientation /\ thr[t].key \in BOOLEAN
    BY DEF Types, ThrRec
  <2>2. CASE t = J
    <3>1. wire' = wire
      BY <1>w, <2>2, Messages DEF Written, Receive
    <3> QED
      BY <2>1, <3>1
  <2>3. CASE t = L
    <3>1. wire' = [wire EXCEPT !.o = thr[t].o, !.key = FALSE]
      BY <1>w, <2>3, Messages DEF Written, Receive
    <3> QED
      BY <2>1, <3>1
  <2>4. CASE t \in Encoders
    <3>1. wire' = [wire EXCEPT !.key = wire.key \/ (thr[t].key /\ thr[t].o = wire.o)]
      BY <1>w, <2>4, Messages DEF Written, Receive
    <3> QED
      BY <2>1, <3>1
  <2> QED
    BY <2>2, <2>3, <2>4
<1>s. ASSUME NEW t \in Threads, NEW next \in {"sps2", "spawn", "rotated", "drain"},
             sendData(t, next), thr[t].pc # "idle",
             t = J => next \in {"sps2", "spawn"}, t = L => next = "rotated",
             t \in Encoders => next = "drain"
      PROVE  Types' /\ Locks'
  <2>0. /\ mutex = None /\ UNCHANGED <<monitor, projection, allow, ori, gate, codec, conn, used>>
        /\ thr' \in [Threads -> ThrRec]
        /\ SendSkips(t, next) \/ SendSends(t, next) \/ SendBlocks(t, next) \/ SendFails(t, next)
    BY <1>s, SendEffect
  <2>1. Off \in [Orientation -> BOOLEAN]
    BY DEF Off
  <2>2. playing' \in [Orientation -> BOOLEAN] /\ wire' \in [o : Orientation, key : BOOLEAN]
    BY <1>s, <1>w, <2>0, <2>1 DEF Types, SendSkips, SendSends, SendBlocks, SendFails
  <2>3. \/ Moves(t, next) /\ mutex' = None
        \/ /\ Moves(t, "write") \/ Moves(t, "error")
           /\ thr'[t].then = next /\ mutex' = t
    <3>1. CASE SendSkips(t, next)
      <4>1. Moves(t, next) /\ mutex' = mutex
        BY <3>1 DEF SendSkips
      <4> QED
        BY <2>0, <4>1
    <3>2. CASE SendSends(t, next)
      <4>1. Moves(t, next) /\ mutex' = mutex
        BY <3>2 DEF SendSends
      <4> QED
        BY <2>0, <4>1
    <3>3. CASE SendBlocks(t, next) \/ SendFails(t, next)
      BY <3>3 DEF SendBlocks, SendFails
    <3> QED
      BY <2>0, <3>1, <3>2, <3>3
  <2>4. Types'
    BY <1>s, <2>0, <2>2, <2>3 DEF Types, Moves, ServicePc, ListenerPc, EncoderPc
  <2>5. Locks'
    BY <1>s, <2>0, <2>3 DEF Locks, Moves
  <2> QED
    BY <2>4, <2>5
<1>f. ASSUME StartSend PROVE Types' /\ Locks'
  BY <1>f, <1>s DEF StartSend
<1>g. ASSUME StartSpawn PROVE Types' /\ Locks'
  <2>1. Types'
    BY <1>g, SpawnEffect DEF StartSpawn, Types, flags, java, ServicePc, EncoderPc
  <2>2. used.starts \in Encoders /\ thr[used.starts].pc = "idle"
    BY <1>g, SpawnEffect DEF StartSpawn, Unborn, Starting
  <2>3. Locks'
    BY <1>g, <2>2, SpawnEffect DEF StartSpawn, Locks, locks
  <2> QED
    BY <2>1, <2>3
<1>h. ASSUME StartEnd PROVE Types' /\ Locks'
  <2>1. Step(J, "idle")
    BY <1>h, Steps DEF StartEnd, ServicePc
  <2>3. Types'
    BY <1>h, <2>1 DEF StartEnd, Types, Step, Moves, flags, ServicePc
  <2>4. Locks'
    BY <1>h, <2>1 DEF StartEnd, Locks, Step, Moves
  <2> QED
    BY <2>3, <2>4
<1>o. Off \in [Orientation -> BOOLEAN]
  BY DEF Off
<1>ia. ASSUME StopDisconnect PROVE Types' /\ Locks'
  <2>1. Step(J, "stopflags")
    BY <1>ia, Steps DEF StopDisconnect, ServicePc
  <2>3. Types'
    BY <1>ia, <2>1 DEF StopDisconnect, Types, Step, Moves, java, flags, ServicePc
  <2>4. Locks'
    BY <1>ia, <2>1 DEF StopDisconnect, Locks, Step, Moves, locks
  <2> QED
    BY <2>3, <2>4
<1>i. ASSUME stopRecordScreen PROVE Types' /\ Locks'
  <2>1. Step(J, "stopped")
    BY <1>i, Steps DEF stopRecordScreen, ServicePc
  <2>3. Types'
    BY <1>i, <1>o, <2>1 DEF stopRecordScreen, Types, Step, Moves, java, ServicePc
  <2>4. Locks'
    BY <1>i, <2>1 DEF stopRecordScreen, Locks, Step, Moves, locks
  <2> QED
    BY <2>3, <2>4
<1>j. ASSUME StopEnd PROVE Types' /\ Locks'
  <2>1. Step(J, "idle")
    BY <1>j, Steps DEF StopEnd, ServicePc
  <2>3. Types'
    BY <1>j, <2>1 DEF StopEnd, Types, Step, Moves, flags, ReleaseAll, ServicePc
  <2>4. Locks'
    BY <1>j, <2>1 DEF StopEnd, Locks, Step, Moves
  <2> QED
    BY <2>3, <2>4
<1>k. ASSUME Rotate PROVE Types' /\ Locks'
  <2>1. used'.starts = used.starts
    BY <1>k DEF Rotate
  <2>2. Types'
    BY <1>k, <2>1, RotateEffect DEF Rotate, Types, flags, java, ListenerPc
  <2>3. Locks'
    BY <1>k, RotateEffect DEF Rotate, Locks, locks
  <2> QED
    BY <2>2, <2>3
<1>l. ASSUME Destroy PROVE Types' /\ Locks'
  <2>1. Step(L, "destroy") /\ used'.starts = used.starts
    BY <1>l, Steps DEF Destroy, ListenerPc
  <2>3. Types'
    BY <1>l, <2>1 DEF Destroy, Types, Step, Moves, flags, ReleaseAll, ListenerPc
  <2>4. Locks'
    BY <1>l, <2>1 DEF Destroy, Locks, Step, Moves, locks
  <2> QED
    BY <2>3, <2>4
<1>m. ASSUME RotateCreate PROVE Types' /\ Locks'
  <2>1. Step(L, "flags")
    BY <1>m, Steps DEF RotateCreate, ListenerPc
  <2>3. Types'
    BY <1>m, <2>1 DEF RotateCreate, Types, Step, Moves, flags, java, ListenerPc
  <2>4. Locks'
    BY <1>m, <2>1 DEF RotateCreate, Locks, Step, Moves, locks
  <2> QED
    BY <2>3, <2>4
<1>n. ASSUME RotateFlags PROVE Types' /\ Locks'
  <2>1. Step(L, "gate") /\ playing' \in [Orientation -> BOOLEAN]
    BY <1>n, Steps DEF RotateFlags, ListenerPc, Only
  <2>3. Types'
    BY <1>n, <2>1 DEF RotateFlags, Types, Step, Moves, java, ListenerPc
  <2>4. Locks'
    BY <1>n, <2>1 DEF RotateFlags, Locks, Step, Moves, locks
  <2> QED
    BY <2>3, <2>4
<1>p. ASSUME RotateGate PROVE Types' /\ Locks'
  <2>1. Step(L, "notice")
    BY <1>p, Steps DEF RotateGate, ListenerPc
  <2>2. gate' \in [Orientation -> BOOLEAN]
    BY <1>p DEF RotateGate, Types
  <2>3. Types'
    BY <1>p, <2>1, <2>2 DEF RotateGate, Types, Step, Moves, java, ListenerPc
  <2>4. Locks'
    BY <1>p, <2>1 DEF RotateGate, Locks, Step, Moves, locks
  <2> QED
    BY <2>3, <2>4
<1>q. ASSUME RotateNotice PROVE Types' /\ Locks'
  BY <1>q, <1>s DEF RotateNotice
<1>r. ASSUME RotateEnd PROVE Types' /\ Locks'
  <2>1. Step(L, "idle") /\ thr[L].o \in Orientation
    BY <1>r, Steps DEF RotateEnd, ListenerPc, Types, ThrRec
  <2>3. Types'
    BY <1>r, <2>1 DEF RotateEnd, Types, Step, Moves, flags, ListenerPc
  <2>4. Locks'
    BY <1>r, <2>1 DEF RotateEnd, Locks, Step, Moves, locks
  <2> QED
    BY <2>3, <2>4
<1>t. ASSUME DestroyStop PROVE Types' /\ Locks'
  <2>1. Step(L, "release")
    BY <1>t, Steps DEF DestroyStop, ListenerPc
  <2>3. Types'
    BY <1>t, <1>o, <2>1 DEF DestroyStop, Types, Step, Moves, java, ListenerPc
  <2>4. Locks'
    BY <1>t, <2>1 DEF DestroyStop, Locks, Step, Moves, locks
  <2> QED
    BY <2>3, <2>4
<1>u. ASSUME DestroyRelease PROVE Types' /\ Locks'
  <2>1. Step(L, "idle")
    BY <1>u, Steps DEF DestroyRelease, ListenerPc
  <2>3. Types'
    BY <1>u, <1>o, <2>1 DEF DestroyRelease, Release, Types, Step, Moves, java, ListenerPc
  <2>4. Locks'
    BY <1>u, <2>1 DEF DestroyRelease, Locks, Step, Moves, locks
  <2> QED
    BY <2>3, <2>4
<1>v. ASSUME PeerGone PROVE Types' /\ Locks'
  BY <1>v DEF PeerGone, Types, Locks, locks, flags, java
<1>x. ASSUME NEW e \in Encoders, EncTop(e) PROVE Types' /\ Locks'
  <2>1. TopResult(e)
    BY <1>x, TopEffect
  <2>2. UNCHANGED <<locks, java, flags, codec, used, wire>> /\ thr[e].pc = "top"
    BY <1>x DEF EncTop
  <2>3. Types'
    BY <2>1, <2>2 DEF TopResult, Types, flags, java, EncoderPc
  <2>4. Locks'
    BY <2>1, <2>2 DEF TopResult, Locks, locks
  <2> QED
    BY <2>3, <2>4
<1>y. ASSUME NEW e \in Encoders, EncDrain(e) \/ EncNothing(e) PROVE Types' /\ Locks'
  <2>1. Step(e, "dequeue") \/ Step(e, "top")
    BY <1>y, Steps DEF EncDrain, EncNothing, EncoderPc
  <2>3. Types'
    BY <1>y, <2>1 DEF EncDrain, EncNothing, Types, Step, Moves, flags, java, EncoderPc
  <2>4. Locks'
    BY <1>y, <2>1 DEF EncDrain, EncNothing, Locks, Step, Moves, locks
  <2> QED
    BY <2>3, <2>4
<1>z. ASSUME NEW e \in Encoders, EncFrame(e) PROVE Types' /\ Locks'
  <2>1. FrameResult(e)
    BY <1>z, FrameEffect
  <2>2. UNCHANGED <<locks, java, recording, playing, codec, conn, used, wire>> /\ thr[e].pc = "dequeue"
    BY <1>z DEF EncFrame
  <2>3. Types'
    BY <2>1, <2>2 DEF FrameResult, Types, java, EncoderPc
  <2>4. Locks'
    BY <2>1, <2>2 DEF FrameResult, Locks, locks
  <2> QED
    BY <2>3, <2>4
<1>aa. ASSUME NEW e \in Encoders, EncSend(e) PROVE Types' /\ Locks'
  BY <1>aa, <1>s DEF EncSend
<1>ab. ASSUME NEW e \in Encoders, EncEnd(e) PROVE Types' /\ Locks'
  <2>1. EndResult(e)
    BY <1>ab, EndEffect
  <2>3. Types'
    BY <1>ab, <1>o, <2>1 DEF EncEnd, EndResult, Release, Types, java, EncoderPc
  <2>4. Locks'
    BY <1>ab, <2>1 DEF EncEnd, EndResult, Locks, locks
  <2> QED
    BY <2>3, <2>4
<1>ac. ASSUME NEW t \in Threads, sendDataError(t) PROVE Types' /\ Locks'
  <2>1. ErrorResult(t)
    BY <1>ac, ErrorEffect
  <2>3. Types'
    BY <2>1 DEF ErrorResult, Types, Moves, ServicePc, ListenerPc, EncoderPc
  <2>4. Locks'
    BY <2>1 DEF ErrorResult, Locks, Moves
  <2> QED
    BY <2>3, <2>4
<1>ae. ASSUME NEW t \in Threads, WriteReturns(t) PROVE Types' /\ Locks'
  <2>1. WriteResult(t)
    BY <1>ae, WriteEffect
  <2>2. CASE WriteDone(t)
    <3>1. wire' \in [o : Orientation, key : BOOLEAN]
      BY <1>w, <2>2 DEF WriteDone
    <3>2. Types'
      BY <2>1, <2>2, <3>1 DEF WriteResult, WriteDone, Types, Moves, ServicePc, ListenerPc, EncoderPc
    <3>3. Locks'
      BY <2>1, <2>2 DEF WriteResult, WriteDone, Locks, Moves
    <3> QED
      BY <3>2, <3>3
  <2>3. CASE WriteFails(t)
    <3>1. Types'
      BY <1>o, <2>1, <2>3 DEF WriteResult, WriteFails, Types, Moves, ServicePc, ListenerPc, EncoderPc
    <3>2. Locks'
      BY <2>1, <2>3 DEF WriteResult, WriteFails, Locks, Moves
    <3> QED
      BY <3>1, <3>2
  <2> QED
    BY <2>1, <2>2, <2>3 DEF WriteResult
<1>ad. ASSUME UNCHANGED vars PROVE Types' /\ Locks'
  BY <1>ad DEF vars, Types, Locks, locks, flags, java
<1> QED
  BY <1>a, <1>b, <1>c, <1>d, <1>e, <1>f, <1>g, <1>h, <1>ia, <1>i, <1>j, <1>k, <1>l, <1>m, <1>n, <1>p,
     <1>q, <1>r, <1>t, <1>u, <1>v, <1>x, <1>y, <1>z, <1>aa, <1>ab, <1>ac, <1>ae, <1>ad
     DEF Next, Service, ServiceGoesOn, Listener, ListenerGoesOn, Encode
-----------------------------------------------------------------------------
(* Every step is a step of one thread.                                     *)
Alone(t) == \A u \in Threads : u # t => thr'[u] = thr[u]
ServiceActs == StartLock \/ StopLock \/ Prepare \/ StartTest \/ StartFlags \/ StartSend \/ StartEnd
               \/ StopDisconnect \/ stopRecordScreen \/ StopEnd

LEMMA WhoMoves ==
  ASSUME Types
  PROVE  /\ ServiceActs => Alone(J)
         /\ Listener \/ ListenerGoesOn => Alone(L)
         /\ \A e \in Encoders : Encode(e) => Alone(e)
         /\ \A t \in Threads : WriteReturns(t) \/ sendDataError(t) => Alone(t)
         /\ PeerGone => thr' = thr
<1> USE ThreadFacts
<1>0. thr \in [Threads -> ThrRec]
  BY DEF Types
<1>1. ASSUME NEW t \in Threads, NEW p, Go(t, p) PROVE Alone(t)
  BY <1>0, <1>1 DEF Go, Alone
<1>2. ASSUME NEW t \in Threads, NEW p, NEW q, thr' = [thr EXCEPT ![t].pc = p, ![t].then = q]
      PROVE  Alone(t)
  BY <1>0, <1>2 DEF Alone
<1>3. ASSUME NEW t \in Threads, NEW n, sendData(t, n) PROVE Alone(t)
  BY <1>1, <1>2, <1>3 DEF sendData
<1>4. ServiceActs => Alone(J)
  <2>1. StartLock \/ StopLock \/ StartTest \/ StartEnd \/ StopDisconnect \/ stopRecordScreen \/ StopEnd
        => Alone(J)
    BY <1>1 DEF StartLock, StopLock, StartTest, StartEnd, StopDisconnect, stopRecordScreen, StopEnd
  <2>2. Prepare \/ StartFlags => Alone(J)
    BY <1>1 DEF Prepare, StartFlags
  <2>3. StartSend => Alone(J)
    BY <1>3 DEF StartSend
  <2> QED
    BY <2>1, <2>2, <2>3 DEF ServiceActs
<1>5. Listener \/ ListenerGoesOn => Alone(L)
  <2>1. Destroy \/ RotateCreate \/ RotateFlags \/ RotateGate \/ RotateEnd \/ DestroyStop \/ DestroyRelease
        => Alone(L)
    BY <1>1 DEF Destroy, RotateCreate, RotateFlags, RotateGate, RotateEnd, DestroyStop, DestroyRelease
  <2>2. RotateNotice => Alone(L)
    BY <1>3 DEF RotateNotice
  <2>3. Rotate => Alone(L)
    BY RotateEffect DEF Alone
  <2> QED
    BY <2>1, <2>2, <2>3 DEF Listener, ListenerGoesOn
<1>6. ASSUME NEW e \in Encoders, Encode(e) PROVE Alone(e)
  <2>1. EncDrain(e) \/ EncNothing(e) => Alone(e)
    BY <1>1 DEF EncDrain, EncNothing
  <2>2. EncSend(e) => Alone(e)
    BY <1>3 DEF EncSend
  <2>3. EncTop(e) => Alone(e)
    BY TopEffect DEF TopResult, Alone
  <2>4. EncFrame(e) => Alone(e)
    BY FrameEffect DEF FrameResult, Alone
  <2>5. EncEnd(e) => Alone(e)
    BY EndEffect DEF EndResult, Alone
  <2> QED
    BY <1>6, <2>1, <2>2, <2>3, <2>4, <2>5 DEF Encode
<1>7. ASSUME NEW t \in Threads, WriteReturns(t) \/ sendDataError(t) PROVE Alone(t)
  BY <1>1, <1>2, <1>7 DEF WriteReturns, sendDataError
<1> QED
  BY <1>4, <1>5, <1>6, <1>7 DEF PeerGone

(* What has been hit is not forgotten.                                     *)
LEMMA CausesGrow ==
  ASSUME Types, Locks, [Next]_vars
  PROVE  causes \subseteq causes'
<1>1. ASSUME NEW t, NEW n, sendData(t, n) PROVE causes \subseteq causes'
  BY <1>1 DEF sendData, Written, track
<1>2. Service \/ ServiceGoesOn => causes \subseteq causes'
  <2>1. StartSend => causes \subseteq causes'
    BY <1>1 DEF StartSend
  <2> QED
    BY <2>1 DEF Service, ServiceGoesOn, StartLock, StopLock, Prepare, StartTest, StartFlags, StartSpawn,
                StartEnd, StopDisconnect, stopRecordScreen, StopEnd, track
<1>3. Listener \/ ListenerGoesOn => causes \subseteq causes'
  <2>1. RotateNotice => causes \subseteq causes'
    BY <1>1 DEF RotateNotice
  <2> QED
    BY <2>1 DEF Listener, ListenerGoesOn, Rotate, Destroy, RotateCreate, RotateFlags, RotateGate,
                RotateEnd, DestroyStop, DestroyRelease, track
<1>4. ASSUME NEW e \in Encoders, Encode(e) PROVE causes \subseteq causes'
  <2>1. EncSend(e) => causes \subseteq causes'
    BY <1>1 DEF EncSend
  <2> QED
    BY <1>4, <2>1 DEF Encode, EncTop, EncDrain, EncNothing, EncFrame, EncEnd, track
<1>5. ASSUME NEW t \in Threads, WriteReturns(t) \/ sendDataError(t) PROVE causes \subseteq causes'
  BY <1>5 DEF WriteReturns, Written, track, sendDataError
<1>6. PeerGone \/ UNCHANGED vars => causes \subseteq causes'
  BY DEF PeerGone, vars, track
<1> QED
  BY <1>2, <1>3, <1>4, <1>5, <1>6 DEF Next

(* The thread of a session is new when it is started.                      *)
LEMMA UnbornStep ==
  ASSUME Types, Locks, Unborn, [Next]_vars
  PROVE  Unborn'
<1> USE ThreadFacts
<1> DEFINE Before(pc) == pc \in {"prepare", "test", "flags", "sps1", "sps2", "spawn", "write", "error"}
<1>0. Unborn <=> \A e \in Encoders :
         e > used.starts \/ (e = used.starts /\ Before(thr[J].pc)) => thr[e].pc = "idle"
  BY DEF Unborn, Starting
<1>0n. Unborn' <=> \A e \in Encoders :
         e > used'.starts \/ (e = used'.starts /\ Before(thr'[J].pc)) => thr'[e].pc = "idle"
  BY DEF Unborn, Starting
<1>n. used.starts \in 0 .. Starts
  BY DEF Types
<1>s. ASSUME used'.starts = used.starts, Before(thr'[J].pc) => Before(thr[J].pc),
             \A e \in Encoders : thr[e].pc = "idle" => thr'[e].pc = "idle"
      PROVE  Unborn'
  BY <1>0, <1>0n, <1>s
<1>a. ASSUME StartLock PROVE Unborn'
  <2>1. used'.starts = used.starts + 1
    BY <1>a DEF StartLock
  <2>2. \A e \in Encoders : thr'[e].pc = thr[e].pc
    BY <1>a, WhoMoves DEF ServiceActs, Alone
  <2> QED
    BY <1>0, <1>0n, <1>n, <2>1, <2>2, BoundsAssumption DEF Encoders
<1>b. ASSUME StartSpawn PROVE Unborn'
  <2>1. used' = used
    BY <1>b DEF StartSpawn
  <2> QED
    BY <1>b, <1>0, <1>0n, <1>n, <2>1, SpawnEffect, BoundsAssumption DEF Encoders
<1>c. ASSUME ServiceActs, ~StartLock PROVE Unborn'
  <2>1. \A e \in Encoders : thr'[e].pc = thr[e].pc
    BY <1>c, WhoMoves DEF Alone
  <2>2. used' = used
    BY <1>c DEF ServiceActs, StopLock, Prepare, StartTest, StartFlags, StartSend, sendData, StartEnd,
                StopDisconnect, stopRecordScreen, StopEnd
  <2>3. Before(thr'[J].pc) => Before(thr[J].pc)
    <3>1. Before(thr[J].pc) \/ StopLock \/ StartEnd \/ StopDisconnect \/ stopRecordScreen \/ StopEnd
      BY <1>c DEF ServiceActs, Prepare, StartTest, StartFlags, StartSend
    <3>2. StopLock => Step(J, "stop")
      BY Steps DEF StopLock, ServicePc
    <3>3. StartEnd \/ StopEnd => Step(J, "idle")
      BY Steps DEF StartEnd, StopEnd, ServicePc
    <3>4. stopRecordScreen => Step(J, "stopped")
      BY Steps DEF stopRecordScreen, ServicePc
    <3>5. StopDisconnect => Step(J, "stopflags")
      BY Steps DEF StopDisconnect, ServicePc
    <3> QED
      BY <3>1, <3>2, <3>3, <3>4, <3>5 DEF Step, Moves
  <2> QED
    BY <1>s, <2>1, <2>2, <2>3
<1>d. ASSUME Listener \/ ListenerGoesOn PROVE Unborn'
  <2>1. \A u \in Threads : u # L => thr'[u] = thr[u]
    BY <1>d, WhoMoves DEF Alone
  <2>2. used'.starts = used.starts
    <3>1. RotateNotice => used' = used
      BY DEF RotateNotice, sendData
    <3>2. Rotate => used'.starts = used.starts
      BY DEF Rotate
    <3>4. Destroy => used'.starts = used.starts
      BY DEF Destroy
    <3>3. RotateCreate \/ RotateFlags \/ RotateGate \/ RotateEnd \/ DestroyStop \/ DestroyRelease
          => used' = used
      BY DEF RotateCreate, RotateFlags, RotateGate, RotateEnd, DestroyStop, DestroyRelease
    <3> QED
      BY <1>d, <3>1, <3>2, <3>3, <3>4 DEF Listener, ListenerGoesOn
  <2> QED
    BY <1>s, <2>1, <2>2
<1>e. ASSUME NEW e \in Encoders, Encode(e) PROVE Unborn'
  <2>1. Alone(e)
    BY <1>e, WhoMoves
  <2>2. used' = used /\ thr[e].pc # "idle"
    BY <1>e DEF Encode, EncTop, EncDrain, EncNothing, EncFrame, EncSend, sendData, EncEnd
  <2> QED
    BY <1>s, <2>1, <2>2 DEF Alone
<1>f. ASSUME NEW t \in Threads, sendDataError(t) PROVE Unborn'
  <2>1. ErrorResult(t) /\ Alone(t)
    BY <1>f, ErrorEffect, WhoMoves
  <2> QED
    BY <1>s, <2>1 DEF Alone, ErrorResult
<1>w. ASSUME NEW t \in Threads, WriteReturns(t) PROVE Unborn'
  <2>1. WriteResult(t) /\ Alone(t)
    BY <1>w, WriteEffect, WhoMoves
  <2> QED
    BY <1>s, <2>1 DEF Alone, WriteResult
<1>g. ASSUME PeerGone \/ UNCHANGED vars PROVE Unborn'
  BY <1>g, <1>s DEF PeerGone, vars
<1> QED
  BY <1>a, <1>b, <1>c, <1>d, <1>e, <1>f, <1>w, <1>g DEF Next, Service, ServiceGoesOn, ServiceActs
-----------------------------------------------------------------------------
(* One encoder, as long as no session was started over a running one.      *)
LEMMA CleanBefore ==
  ASSUME Types, Locks, [Next]_vars, NEW cs, Clean(cs)'
  PROVE  Clean(cs)
BY CausesGrow DEF Clean

(* The states of the service between its entry and the spawn.              *)
LEMMA StartingSteps ==
  ASSUME Types
  PROVE  /\ ServiceActs /\ Starting' => Starting \/ Prepare
         /\ StartSpawn => Starting /\ ~Starting'
<1>1. StartLock => Step(J, "prepare")
  BY Steps DEF StartLock, ServicePc
<1>2. StopLock => Step(J, "stop")
  BY Steps DEF StopLock, ServicePc
<1>3. StartEnd \/ StopEnd => Step(J, "idle")
  BY Steps DEF StartEnd, StopEnd, ServicePc
<1>4. stopRecordScreen => Step(J, "stopped")
  BY Steps DEF stopRecordScreen, ServicePc
<1>8. StopDisconnect => Step(J, "stopflags")
  BY Steps DEF StopDisconnect, ServicePc
<1>5. StartTest \/ StartFlags \/ StartSend => Starting
  BY DEF StartTest, StartFlags, StartSend, Starting
<1>6. StartSpawn => Starting /\ ~Starting'
  BY SpawnEffect DEF StartSpawn, Starting
<1>7. ~Starting' <=> thr'[J].pc \notin {"test", "flags", "sps1", "sps2", "spawn", "write", "error"}
  BY DEF Starting
<1> QED
  BY <1>1, <1>2, <1>3, <1>4, <1>5, <1>6, <1>7, <1>8, ThreadFacts DEF ServiceActs, Step, Moves

LEMMA OneEncoderStep ==
  ASSUME Types, Locks, Unborn, Clean({"restart"}) => OneEncoder, [Next]_vars, Clean({"restart"})'
  PROVE  OneEncoder'
<1> USE ThreadFacts
<1>c. OneEncoder
  BY CleanBefore
<1>1. ASSUME \A e \in Encoders : Runs(e)' => Runs(e), Starting' => Starting PROVE OneEncoder'
  BY <1>c, <1>1 DEF OneEncoder, EncoderRuns
<1>a. ASSUME ServiceActs PROVE OneEncoder'
  <2>1. \A e \in Encoders : Runs(e)' <=> Runs(e)
    BY <1>a, WhoMoves DEF Alone, Runs
  <2>2. CASE Prepare
    <3>1. ~EncoderRuns
      BY <2>2 DEF Prepare, Clean, Mark
    <3> QED
      BY <2>1, <3>1 DEF OneEncoder, EncoderRuns
  <2>3. CASE ~Prepare
    BY <1>1, <1>a, <2>1, <2>3, StartingSteps
  <2> QED
    BY <2>2, <2>3
<1>b. ASSUME StartSpawn PROVE OneEncoder'
  <2>1. ~EncoderRuns /\ ~Starting'
    BY <1>b, <1>c, StartingSteps DEF OneEncoder
  <2>2. \A e \in Encoders : e # used.starts => ~Runs(e)'
    BY <1>b, <2>1, SpawnEffect DEF EncoderRuns, Runs
  <2> QED
    BY <2>1, <2>2 DEF OneEncoder
<1>d. ASSUME Listener \/ ListenerGoesOn PROVE OneEncoder'
  <2>1. \A u \in Threads : u # L => thr'[u] = thr[u]
    BY <1>d, WhoMoves DEF Alone
  <2> QED
    BY <1>1, <2>1 DEF Runs, Starting
<1>e. ASSUME NEW e \in Encoders, Encode(e) PROVE OneEncoder'
  <2>1. Alone(e)
    BY <1>e, WhoMoves
  <2>2. Runs(e)
    BY <1>e DEF Encode, EncTop, EncDrain, EncNothing, EncFrame, EncSend, EncEnd, Runs
  <2> QED
    BY <1>1, <2>1, <2>2 DEF Alone, Runs, Starting
<1>f. ASSUME NEW t \in Threads, sendDataError(t) PROVE OneEncoder'
  <2>1. ErrorResult(t) /\ Alone(t)
    BY <1>f, ErrorEffect, WhoMoves
  <2> QED
    BY <1>1, <2>1 DEF Alone, ErrorResult, Runs, Starting
<1>w. ASSUME NEW t \in Threads, WriteReturns(t) PROVE OneEncoder'
  <2>1. WriteResult(t) /\ Alone(t)
    BY <1>w, WriteEffect, WhoMoves
  <2> QED
    BY <1>1, <2>1 DEF Alone, WriteResult, Runs, Starting
<1>g. ASSUME PeerGone \/ UNCHANGED vars PROVE OneEncoder'
  BY <1>g, <1>1 DEF PeerGone, vars, Runs, Starting
<1> QED
  BY <1>a, <1>b, <1>d, <1>e, <1>f, <1>w, <1>g DEF Next, Service, ServiceGoesOn, ServiceActs

(* Who does harm, and when.                                                *)
TornBy(e) ==
  /\ (EncSend(e) /\ recording) \/ WriteReturns(e)
  /\ thr[e].o = wire.o /\ ~thr[e].key /\ ~wire.key

LEMMA HarmBy ==
  ASSUME Types, [Next]_vars
  PROVE  /\ "uaf" \in harm' => "uaf" \in harm \/ \E e \in Encoders : thr[e].pc = "dequeue" /\ thr[e].gen # codec
         /\ "null" \in harm' => "null" \in harm \/ (RotateCreate /\ ~projection)
         /\ "torn" \in harm' => "torn" \in harm \/ \E e \in Encoders : TornBy(e)
<1> DEFINE Kept(h) == h \in harm' => h \in harm
<1> DEFINE Tears(t) == /\ Message(t).kind = "frame" /\ Message(t).o = wire.o
                       /\ ~Message(t).key /\ ~wire.key
<1>0. ASSUME NEW t, Written(Message(t)) PROVE Kept("uaf") /\ Kept("null") /\ (Kept("torn") \/ Tears(t))
  BY <1>0 DEF Written, Hurt, Mark
<1>m. ~Tears(J) /\ ~Tears(L) /\ \A e \in Encoders : Tears(e) => thr[e].o = wire.o /\ ~thr[e].key /\ ~wire.key
  BY Messages
<1> HIDE DEF Tears
<1>1. ASSUME NEW t, NEW n, sendData(t, n)
      PROVE  Kept("uaf") /\ Kept("null") /\ (Kept("torn") \/ (recording /\ Tears(t)))
  BY <1>0, <1>1 DEF sendData, track
<1>2. Service \/ ServiceGoesOn => Kept("uaf") /\ Kept("null") /\ Kept("torn")
  <2>1. StartSend => Kept("uaf") /\ Kept("null") /\ Kept("torn")
    BY <1>1, <1>m DEF StartSend
  <2>2. Service \/ ServiceGoesOn => StartSend \/ harm' = harm
    BY DEF Service, ServiceGoesOn, StartLock, StopLock, Prepare, StartTest, StartFlags, StartSpawn,
           StartEnd, StopDisconnect, stopRecordScreen, StopEnd, track
  <2> QED
    BY <2>1, <2>2
<1>3. Listener \/ ListenerGoesOn => /\ Kept("uaf") /\ Kept("torn")
                                    /\ Kept("null") \/ (RotateCreate /\ ~projection)
  <2>1. RotateNotice => Kept("uaf") /\ Kept("null") /\ Kept("torn")
    BY <1>1, <1>m DEF RotateNotice
  <2>2. RotateCreate => /\ Kept("uaf") /\ Kept("torn")
                        /\ Kept("null") \/ ~projection
    BY DEF RotateCreate, Mark
  <2>3. Listener \/ ListenerGoesOn => RotateNotice \/ RotateCreate \/ harm' = harm
    BY DEF Listener, ListenerGoesOn, Rotate, Destroy, RotateFlags, RotateGate,
           RotateEnd, DestroyStop, DestroyRelease, track
  <2> QED
    BY <2>1, <2>2, <2>3
<1>4. ASSUME NEW e \in Encoders, Encode(e)
      PROVE  /\ Kept("uaf") \/ (thr[e].pc = "dequeue" /\ thr[e].gen # codec)
             /\ Kept("null")
             /\ Kept("torn") \/ TornBy(e)
  <2>1. EncSend(e) => Kept("uaf") /\ Kept("null") /\ (Kept("torn") \/ TornBy(e))
    BY <1>1, <1>m DEF EncSend, TornBy
  <2>2. EncNothing(e) \/ EncFrame(e) => /\ Kept("null") /\ Kept("torn")
                                        /\ Kept("uaf") \/ (thr[e].pc = "dequeue" /\ thr[e].gen # codec)
    BY DEF EncNothing, EncFrame, Mark
  <2>3. EncSend(e) \/ EncNothing(e) \/ EncFrame(e) \/ harm' = harm
    BY <1>4 DEF Encode, EncTop, EncDrain, EncEnd, track
  <2> QED
    BY <2>1, <2>2, <2>3
<1>5. ASSUME NEW t \in Threads, sendDataError(t) PROVE harm' = harm
  BY <1>5 DEF sendDataError
<1>7. ASSUME NEW t \in Threads, WriteReturns(t)
      PROVE  /\ Kept("uaf") /\ Kept("null")
             /\ Kept("torn") \/ \E e \in Encoders : TornBy(e)
  <2>1. Kept("uaf") /\ Kept("null") /\ (Kept("torn") \/ Tears(t))
    BY <1>0, <1>7 DEF WriteReturns, track
  <2>2. Tears(t) => \E e \in Encoders : TornBy(e)
    BY <1>7, <1>m, ThreadFacts DEF TornBy
  <2> QED
    BY <2>1, <2>2
<1>6. PeerGone \/ UNCHANGED vars => harm' = harm
  BY DEF PeerGone, vars, track
<1> QED
  BY <1>2, <1>3, <1>4, <1>5, <1>6, <1>7 DEF Next

(* The codec an encoder drains is the present one.                         *)
LEMMA SafeCodecStep ==
  ASSUME Types, Locks, Unborn, Clean({"restart"}) => OneEncoder,
         Clean({"restart", "destroy"}) => SafeCodec, [Next]_vars, Clean({"restart", "destroy"})'
  PROVE  SafeCodec'
<1> USE ThreadFacts
<1> DEFINE Holding(p) == p \in {"drain", "dequeue", "send", "write", "error"}
<1>c. SafeCodec /\ OneEncoder
  <2>1. Clean({"restart", "destroy"})
    BY CleanBefore
  <2> QED
    BY <2>1 DEF Clean
<1>h. "uaf" \notin harm'
  BY <1>c, HarmBy DEF SafeCodec
<1>1. ASSUME \A e \in Encoders : Holding(thr'[e].pc) => thr'[e].gen = codec' PROVE SafeCodec'
  BY <1>1, <1>h DEF SafeCodec
<1>2. ASSUME codec' = codec,
             \A e \in Encoders : Holding(thr'[e].pc) => Holding(thr[e].pc) /\ thr'[e].gen = thr[e].gen
      PROVE  SafeCodec'
  BY <1>1, <1>2, <1>c DEF SafeCodec
<1>3. ASSUME \A e \in Encoders : ~Runs(e)' PROVE SafeCodec'
  BY <1>1, <1>3 DEF Runs
<1>a. ASSUME ServiceActs PROVE SafeCodec'
  <2>1. \A e \in Encoders : thr'[e] = thr[e]
    BY <1>a, WhoMoves DEF Alone
  <2>2. CASE Prepare
    <3>1. ~EncoderRuns
      BY <2>2 DEF Prepare, Clean, Mark
    <3> QED
      BY <1>3, <2>1, <3>1 DEF EncoderRuns, Runs
  <2>3. CASE ~Prepare
    <3>1. codec' = codec
      BY <1>a, <2>3 DEF ServiceActs, StartLock, StopLock, StartTest, StartFlags, StartSend, sendData,
                        StartEnd, StopDisconnect, stopRecordScreen, StopEnd
    <3> QED
      BY <1>2, <2>1, <3>1
  <2> QED
    BY <2>2, <2>3
<1>b. ASSUME StartSpawn PROVE SafeCodec'
  <2>1. codec' = codec
    BY <1>b DEF StartSpawn
  <2>2. \A e \in Encoders : Holding(thr'[e].pc) => Holding(thr[e].pc) /\ thr'[e].gen = thr[e].gen
    BY <1>b, SpawnEffect
  <2> QED
    BY <1>2, <2>1, <2>2
<1>d. ASSUME Listener \/ ListenerGoesOn PROVE SafeCodec'
  <2>1. \A e \in Encoders : thr'[e] = thr[e]
    BY <1>d, WhoMoves DEF Alone
  <2>2. CASE DestroyRelease
    <3>1. ~EncoderRuns
      BY <2>2 DEF DestroyRelease, Clean, Mark
    <3> QED
      BY <1>3, <2>1, <3>1 DEF EncoderRuns, Runs
  <2>3. CASE ~DestroyRelease
    <3>1. codec' = codec
      BY <1>d, <2>3 DEF Listener, ListenerGoesOn, Rotate, Destroy, RotateCreate, RotateFlags, RotateGate,
                        RotateNotice, sendData, RotateEnd, DestroyStop
    <3> QED
      BY <1>2, <2>1, <3>1
  <2> QED
    BY <2>2, <2>3
<1>e. ASSUME NEW e \in Encoders, Encode(e) PROVE SafeCodec'
  <2>1. \A u \in Threads : u # e => thr'[u] = thr[u]
    BY <1>e, WhoMoves DEF Alone
  <2>2. CASE EncTop(e)
    <3>1. TopResult(e) /\ codec' = codec
      BY <2>2, TopEffect DEF EncTop
    <3>2. Holding(thr'[e].pc) => thr'[e].gen = codec'
      BY <3>1 DEF TopResult
    <3> QED
      BY <1>1, <1>c, <2>1, <3>1, <3>2 DEF SafeCodec
  <2>3. CASE EncDrain(e) \/ EncNothing(e)
    <3>1. Step(e, "dequeue") \/ Step(e, "top")
      BY <2>3, Steps DEF EncDrain, EncNothing, EncoderPc
    <3>2. codec' = codec /\ Holding(thr[e].pc)
      BY <2>3 DEF EncDrain, EncNothing
    <3> QED
      BY <1>2, <2>1, <3>1, <3>2 DEF Step, Moves
  <2>4. CASE EncFrame(e)
    <3>1. FrameResult(e)
      BY <2>4, FrameEffect
    <3>2. codec' = codec /\ Holding(thr[e].pc)
      BY <2>4 DEF EncFrame
    <3> QED
      BY <1>2, <2>1, <3>1, <3>2 DEF FrameResult
  <2>5. CASE EncSend(e)
    <3>1. codec' = codec /\ Holding(thr[e].pc)
      BY <2>5 DEF EncSend, sendData
    <3>2. thr'[e].gen = thr[e].gen
      <4>1. sendData(e, "drain")
        BY <2>5 DEF EncSend
      <4>2. SendSkips(e, "drain") \/ SendSends(e, "drain") \/ SendBlocks(e, "drain") \/ SendFails(e, "drain")
        BY <4>1, SendEffect
      <4> QED
        BY <4>2 DEF SendSkips, SendSends, SendBlocks, SendFails, Moves
    <3> QED
      BY <1>2, <2>1, <3>1, <3>2
  <2>6. CASE EncEnd(e)
    <3>1. EndResult(e) /\ Runs(e)
      BY <2>6, EndEffect DEF EncEnd, Runs
    <3>2. \A f \in Encoders : ~Runs(f)'
      BY <1>c, <2>1, <3>1 DEF OneEncoder, EndResult, Runs
    <3> QED
      BY <1>3, <3>2
  <2> QED
    BY <1>e, <2>2, <2>3, <2>4, <2>5, <2>6 DEF Encode
<1>f. ASSUME NEW t \in Threads, sendDataError(t) PROVE SafeCodec'
  <2>1. ErrorResult(t) /\ Alone(t)
    BY <1>f, ErrorEffect, WhoMoves
  <2> QED
    BY <1>2, <2>1 DEF Alone, ErrorResult, Moves
<1>w. ASSUME NEW t \in Threads, WriteReturns(t) PROVE SafeCodec'
  <2>1. WriteResult(t) /\ Alone(t)
    BY <1>w, WriteEffect, WhoMoves
  <2> QED
    BY <1>2, <2>1 DEF Alone, WriteResult, WriteDone, WriteFails, Moves
<1>g. ASSUME PeerGone \/ UNCHANGED vars PROVE SafeCodec'
  BY <1>g, <1>2 DEF PeerGone, vars
<1> QED
  BY <1>a, <1>b, <1>d, <1>e, <1>f, <1>w, <1>g DEF Next, Service, ServiceGoesOn, ServiceActs

(* The projection is there while it may be needed.                         *)
LEMMA SafeProjectionStep ==
  ASSUME Types, Locks, Clean({"cross", "failed"}) => SafeProjection, [Next]_vars,
         Clean({"cross", "failed"})'
  PROVE  SafeProjection'
<1> USE ThreadFacts
<1> DEFINE In(p) == p \in {"test", "flags", "sps1", "sps2", "spawn", "write", "error", "prepare", "started"}
<1>c. SafeProjection
  BY CleanBefore
<1>h. "null" \notin harm'
  BY <1>c, HarmBy DEF SafeProjection, RotateCreate
<1>e0. (Entered <=> In(thr[J].pc)) /\ (Entered' <=> In(thr'[J].pc))
  BY DEF Entered, Starting
<1>1. ASSUME allow' \/ In(thr'[J].pc) \/ thr'[L].pc = "create" => projection' PROVE SafeProjection'
  BY <1>1, <1>e0, <1>h DEF SafeProjection
<1>2. ASSUME projection' = projection, allow' => allow \/ In(thr[J].pc), In(thr'[J].pc) => In(thr[J].pc),
             thr'[L].pc = "create" => thr[L].pc = "create" \/ allow
      PROVE  SafeProjection'
  BY <1>1, <1>2, <1>c, <1>e0 DEF SafeProjection
<1>3. ASSUME ~allow', ~In(thr'[J].pc), thr'[L].pc # "create" PROVE SafeProjection'
  BY <1>1, <1>3
<1>a. ASSUME ServiceActs PROVE SafeProjection'
  <2>1. thr'[L] = thr[L]
    BY <1>a, WhoMoves DEF Alone
  <2>2. CASE StartLock
    BY <1>1, <2>2 DEF StartLock
  <2>3. CASE StopLock
    <3>1. Step(J, "stop") /\ UNCHANGED <<projection, allow>>
      BY <2>3, Steps DEF StopLock, ServicePc, java
    <3> QED
      BY <1>2, <2>1, <3>1 DEF Step, Moves
  <2>4. CASE Prepare
    <3>2. CASE Go(J, "test") /\ allow' = FALSE /\ projection' = projection
      BY <1>2, <2>1, <2>4, <3>2 DEF Prepare
    <3>3. CASE Go(J, "idle") /\ ReleaseAll
      <4>1. Step(J, "idle")
        BY <3>3, Steps DEF ServicePc
      <4>2. thr[L].pc # "create"
        BY <2>4 DEF Prepare, Crossed, Mark, Rotating, Clean
      <4> QED
        BY <1>3, <2>1, <3>3, <4>1, <4>2 DEF Step, Moves, ReleaseAll
    <3> QED
      BY <2>4, <3>2, <3>3 DEF Prepare
  <2>5. CASE StartTest \/ StartFlags
    <3>1. UNCHANGED <<projection, allow>> /\ In(thr[J].pc)
      BY <2>5 DEF StartTest, StartFlags, java
    <3> QED
      BY <1>2, <2>1, <3>1
  <2>6. CASE StartSend
    <3>1. UNCHANGED <<projection, allow>> /\ In(thr[J].pc)
      BY <2>6 DEF StartSend, sendData, java
    <3> QED
      BY <1>2, <2>1, <3>1
  <2>7. CASE StartEnd
    <3>1. Step(J, "idle") /\ UNCHANGED projection /\ In(thr[J].pc)
      BY <2>7, Steps DEF StartEnd, ServicePc
    <3> QED
      BY <1>2, <2>1, <3>1 DEF Step, Moves
  <2>8. CASE StopDisconnect \/ stopRecordScreen
    <3>1. Step(J, "stopflags") \/ Step(J, "stopped")
      BY <2>8, Steps DEF StopDisconnect, stopRecordScreen, ServicePc
    <3>2. UNCHANGED <<projection, allow>>
      BY <2>8 DEF StopDisconnect, stopRecordScreen, java
    <3> QED
      BY <1>2, <2>1, <3>1, <3>2 DEF Step, Moves
  <2>9. CASE StopEnd
    <3>1. Step(J, "idle") /\ ~allow'
      BY <2>9, Steps DEF StopEnd, ServicePc, ReleaseAll
    <3>2. thr[L].pc # "create"
      BY <2>9 DEF StopEnd, Crossed, Mark, Rotating, Clean
    <3> QED
      BY <1>3, <2>1, <3>1, <3>2 DEF Step, Moves
  <2> QED
    BY <1>a, <2>2, <2>3, <2>4, <2>5, <2>6, <2>7, <2>8, <2>9 DEF ServiceActs
<1>b. ASSUME StartSpawn PROVE SafeProjection'
  <2>1. UNCHANGED <<projection, allow>> /\ In(thr[J].pc) /\ thr'[L] = thr[L]
    BY <1>b, SpawnEffect DEF StartSpawn, java
  <2> QED
    BY <1>2, <2>1
<1>d. ASSUME Listener \/ ListenerGoesOn PROVE SafeProjection'
  <2>1. thr'[J] = thr[J]
    BY <1>d, WhoMoves DEF Alone
  <2>2. CASE Rotate
    <3>1. UNCHANGED <<projection, allow>> /\ allow
      BY <2>2 DEF Rotate, java
    <3> QED
      BY <1>2, <2>1, <3>1
  <2>3. CASE Destroy
    <3>1. Step(L, "destroy") /\ ~allow'
      BY <2>3, Steps DEF Destroy, ListenerPc, ReleaseAll
    <3>2. thr[J].pc = "idle"
      BY <2>3 DEF Destroy, Locks
    <3> QED
      BY <1>3, <2>1, <3>1, <3>2 DEF Step, Moves
  <2>4. CASE RotateCreate \/ RotateFlags \/ RotateGate \/ RotateEnd \/ DestroyStop \/ DestroyRelease
    <3>1. UNCHANGED <<projection, allow>>
      BY <2>4 DEF RotateCreate, RotateFlags, RotateGate, RotateEnd, DestroyStop, DestroyRelease, java
    <3>2. \E p \in ListenerPc \ {"create"} : Go(L, p)
      BY <2>4 DEF RotateCreate, RotateFlags, RotateGate, RotateEnd, DestroyStop, DestroyRelease, ListenerPc
    <3>3. thr'[L].pc # "create"
      BY <3>2, Steps DEF Step, Moves
    <3> QED
      BY <1>2, <2>1, <3>1, <3>3
  <2>5. CASE RotateNotice
    <3>1. sendData(L, "rotated")
      BY <2>5 DEF RotateNotice
    <3>2. /\ UNCHANGED <<projection, allow>>
          /\ SendSkips(L, "rotated") \/ SendSends(L, "rotated") \/ SendBlocks(L, "rotated") \/ SendFails(L, "rotated")
      BY <3>1, SendEffect
    <3>3. thr'[L].pc # "create"
      BY <3>2 DEF SendSkips, SendSends, SendBlocks, SendFails, Moves
    <3> QED
      BY <1>2, <2>1, <3>2, <3>3
  <2> QED
    BY <1>d, <2>2, <2>3, <2>4, <2>5 DEF Listener, ListenerGoesOn
<1>e. ASSUME NEW e \in Encoders, Encode(e) PROVE SafeProjection'
  <2>1. thr'[J] = thr[J] /\ thr'[L] = thr[L]
    BY <1>e, WhoMoves DEF Alone
  <2>2. UNCHANGED <<projection, allow>>
    BY <1>e DEF Encode, EncTop, EncDrain, EncNothing, EncFrame, EncSend, sendData, EncEnd, java
  <2> QED
    BY <1>2, <2>1, <2>2
<1>f. ASSUME NEW t \in Threads, sendDataError(t) PROVE SafeProjection'
  <2>1. ErrorResult(t) /\ Alone(t)
    BY <1>f, ErrorEffect, WhoMoves
  <2>2. t # J
    BY <2>1 DEF ErrorResult, Mark, Clean
  <2>3. thr[J].pc = "idle" /\ thr'[J] = thr[J]
    BY <2>1, <2>2 DEF ErrorResult, Locks, Alone
  <2>4. thr'[L].pc # "create"
    <3>1. CASE t = L
      BY <2>1, <3>1 DEF ErrorResult, Moves
    <3>2. CASE t # L
      BY <2>1, <3>2 DEF ErrorResult, Alone, Crossed, Rotating, Mark, Clean
    <3> QED
      BY <3>1, <3>2
  <2> QED
    BY <1>3, <2>1, <2>3, <2>4 DEF ErrorResult
<1>w. ASSUME NEW t \in Threads, WriteReturns(t) PROVE SafeProjection'
  <2>1. WriteResult(t) /\ Alone(t)
    BY <1>w, WriteEffect, WhoMoves
  <2>2. In(thr'[J].pc) => In(thr[J].pc)
    BY <2>1 DEF WriteResult, Alone
  <2>3. thr'[L].pc = "create" => thr[L].pc = "create"
    BY <2>1 DEF WriteResult, WriteDone, WriteFails, Moves
  <2> QED
    BY <1>2, <2>1, <2>2, <2>3 DEF WriteResult
<1>g. ASSUME PeerGone \/ UNCHANGED vars PROVE SafeProjection'
  BY <1>g, <1>2 DEF PeerGone, vars, java
<1> QED
  BY <1>a, <1>b, <1>d, <1>e, <1>f, <1>w, <1>g DEF Next, Service, ServiceGoesOn, ServiceActs
-----------------------------------------------------------------------------
(* isRecording is set by the service alone, the orientation of the receiver*)
(* by a connection and a notice, mPreOrientation by a start and the end of *)
(* a rotation, mAllowSendOrientation by the end of a start.                *)
LEMMA Writers ==
  ASSUME Types, [Next]_vars
  PROVE  /\ recording' => recording \/ StartTest
         /\ wire'.o = wire.o \/ Prepare \/ RotateNotice \/ WriteReturns(L)
         /\ ori' = ori \/ StartLock \/ RotateEnd
         /\ allow' => allow \/ StartEnd
<1>1. ASSUME NEW t, NEW n, sendData(t, n)
      PROVE  (recording' => recording) /\ UNCHANGED <<ori, allow>>
  BY <1>1 DEF sendData, flags, java
<1>w. ASSUME NEW t \in Threads, t # L, Written(Message(t)) PROVE wire'.o = wire.o
  <2>1. wire \in [o : Orientation, key : BOOLEAN]
    BY DEF Types
  <2>2. wire' = wire \/ wire' = [wire EXCEPT !.key = wire.key \/ (thr[t].key /\ thr[t].o = wire.o)]
    BY <1>w, Messages, ThreadFacts DEF Written, Receive
  <2> QED
    BY <2>1, <2>2
<1>2. ASSUME NEW t \in Threads, t # L, NEW n, sendData(t, n) PROVE wire'.o = wire.o
  BY <1>2, <1>w DEF sendData
<1>3. Service \/ ServiceGoesOn => /\ recording' => recording \/ StartTest
                                  /\ wire'.o = wire.o \/ Prepare
                                  /\ ori' = ori \/ StartLock
                                  /\ allow' => allow \/ StartEnd
  <2>1. StartSend => (recording' => recording) /\ wire'.o = wire.o /\ UNCHANGED <<ori, allow>>
    BY <1>1, <1>2, ThreadFacts DEF StartSend
  <2>2. Service \/ ServiceGoesOn => StartSend \/ StartTest \/ (recording' => recording)
    BY DEF Service, ServiceGoesOn, StartLock, StopLock, Prepare, StartFlags, StartSpawn, StartEnd,
           StopDisconnect, stopRecordScreen, StopEnd, flags
  <2>3. Service \/ ServiceGoesOn => StartSend \/ Prepare \/ wire' = wire
    BY DEF Service, ServiceGoesOn, StartLock, StopLock, StartTest, StartFlags, StartSpawn, StartEnd,
           StopDisconnect, stopRecordScreen, StopEnd
  <2>4. Service \/ ServiceGoesOn => StartSend \/ StartLock \/ ori' = ori
    BY DEF Service, ServiceGoesOn, StopLock, Prepare, StartTest, StartFlags, StartSpawn, StartEnd,
           StopDisconnect, stopRecordScreen, StopEnd, java, ReleaseAll
  <2>5. Service \/ ServiceGoesOn => StartSend \/ StartEnd \/ (allow' => allow)
    BY DEF Service, ServiceGoesOn, StartLock, StopLock, Prepare, StartTest, StartFlags, StartSpawn,
           StopDisconnect, stopRecordScreen, StopEnd, java, ReleaseAll
  <2> QED
    BY <2>1, <2>2, <2>3, <2>4, <2>5
<1>4. Listener \/ ListenerGoesOn => /\ recording' => recording
                                    /\ wire'.o = wire.o \/ RotateNotice
                                    /\ ori' = ori \/ RotateEnd
                                    /\ allow' => allow
  <2>1. RotateNotice => (recording' => recording) /\ UNCHANGED <<ori, allow>>
    BY <1>1 DEF RotateNotice
  <2>2. Listener \/ ListenerGoesOn => RotateNotice \/ ((recording' => recording) /\ wire' = wire)
    BY DEF Listener, ListenerGoesOn, Rotate, Destroy, RotateCreate, RotateFlags, RotateGate, RotateEnd,
           DestroyStop, DestroyRelease, flags
  <2>3. Listener \/ ListenerGoesOn => RotateNotice \/ ((allow' => allow) /\ (ori' = ori \/ RotateEnd))
    BY DEF Listener, ListenerGoesOn, Rotate, Destroy, RotateCreate, RotateFlags, RotateGate, RotateEnd,
           DestroyStop, DestroyRelease, java, ReleaseAll
  <2> QED
    BY <2>1, <2>2, <2>3
<1>5. ASSUME NEW e \in Encoders, Encode(e)
      PROVE  (recording' => recording) /\ wire'.o = wire.o /\ UNCHANGED <<ori, allow>>
  <2>1. EncSend(e) => (recording' => recording) /\ wire'.o = wire.o /\ UNCHANGED <<ori, allow>>
    BY <1>1, <1>2, ThreadFacts DEF EncSend
  <2>2. EncSend(e) \/ ((recording' => recording) /\ UNCHANGED <<wire, ori, allow>>)
    BY <1>5 DEF Encode, EncTop, EncDrain, EncNothing, EncFrame, EncEnd, flags, java
  <2> QED
    BY <2>1, <2>2
<1>6. ASSUME NEW t \in Threads, sendDataError(t)
      PROVE  UNCHANGED <<recording, wire, ori>> /\ ~allow'
  BY <1>6 DEF sendDataError, flags, ReleaseAll
<1>8. ASSUME NEW t \in Threads, WriteReturns(t)
      PROVE  (recording' => recording) /\ UNCHANGED <<ori, allow>> /\ (t = L \/ wire'.o = wire.o)
  BY <1>8, <1>w DEF WriteReturns, flags, java
<1>7. PeerGone \/ UNCHANGED vars => UNCHANGED <<recording, wire, ori, allow>>
  BY DEF PeerGone, vars, flags, java
<1> QED
  BY <1>3, <1>4, <1>5, <1>6, <1>7, <1>8 DEF Next

(* How the service enters and the listener begins to rotate.               *)
LEMMA Entering ==
  ASSUME Types, Locks, [Next]_vars
  PROVE  /\ Entered' => Entered \/ StartLock
         /\ Rotating' => Rotating \/ Rotate
         /\ thr'[J].pc = "prepare" => thr[J].pc = "prepare" \/ StartLock
         /\ thr'[J].pc = "test" => thr[J].pc = "test" \/ Prepare
         /\ thr'[L].pc = "error" => thr[L].pc = "error" \/ ~recording'
<1> USE ThreadFacts
<1> DEFINE In(p) == p \in {"test", "flags", "sps1", "sps2", "spawn", "write", "error", "prepare", "started"}
           Rot(p) == p \in {"create", "flags", "gate", "notice", "write", "error", "rotated"}
           Goal == /\ In(thr'[J].pc) => In(thr[J].pc) \/ StartLock
                   /\ Rot(thr'[L].pc) => Rot(thr[L].pc) \/ Rotate
                   /\ thr'[J].pc = "prepare" => thr[J].pc = "prepare" \/ StartLock
                   /\ thr'[J].pc = "test" => thr[J].pc = "test" \/ Prepare
                   /\ thr'[L].pc = "error" => thr[L].pc = "error" \/ ~recording'
<1>0. (Entered <=> In(thr[J].pc)) /\ (Entered' <=> In(thr'[J].pc))
      /\ (Rotating <=> Rot(thr[L].pc)) /\ (Rotating' <=> Rot(thr'[L].pc))
  BY DEF Entered, Starting, Rotating
<1>a. ASSUME ServiceActs PROVE Goal
  <2>1. thr'[L] = thr[L]
    BY <1>a, WhoMoves DEF Alone
  <2>2. CASE StopLock \/ StartEnd \/ StopDisconnect \/ stopRecordScreen \/ StopEnd
    <3>1. \E p \in {"stop", "idle", "stopflags", "stopped"} : Go(J, p)
      BY <2>2 DEF StopLock, StartEnd, StopDisconnect, stopRecordScreen, StopEnd
    <3>2. thr'[J].pc \in {"stop", "idle", "stopflags", "stopped"}
      BY <3>1, Steps DEF Step, Moves, ServicePc
    <3> QED
      BY <2>1, <3>2
  <2>3. CASE Prepare
    <3>1. Step(J, "test") \/ Step(J, "idle")
      BY <2>3, Steps DEF Prepare, ServicePc
    <3> QED
      BY <2>1, <2>3, <3>1 DEF Step, Moves, Prepare
  <2>4. CASE StartTest \/ StartFlags
    <3>1. In(thr[J].pc)
      BY <2>4 DEF StartTest, StartFlags
    <3>2. \E p \in {"started", "flags", "spawn", "sps1"} : Go(J, p)
      BY <2>4 DEF StartTest, StartFlags
    <3>3. thr'[J].pc \in {"started", "flags", "spawn", "sps1"}
      BY <3>2, Steps DEF Step, Moves, ServicePc
    <3> QED
      BY <2>1, <3>1, <3>3
  <2>5. CASE StartSend
    <3>1. In(thr[J].pc)
      BY <2>5 DEF StartSend
    <3>2. PICK n \in {"sps2", "spawn"} : sendData(J, n)
      BY <2>5 DEF StartSend
    <3>3. sendData(J, n)
      BY <3>2
    <3>4. SendSkips(J, n) \/ SendSends(J, n) \/ SendBlocks(J, n) \/ SendFails(J, n)
      BY <3>3, SendEffect
    <3>5. thr'[J].pc \in {"sps2", "spawn", "write", "error"}
      BY <3>4 DEF SendSkips, SendSends, SendBlocks, SendFails, Moves
    <3> QED
      BY <2>1, <3>1, <3>5
  <2>6. CASE StartLock
    <3>1. Step(J, "prepare")
      BY <2>6, Steps DEF StartLock, ServicePc
    <3> QED
      BY <2>1, <2>6, <3>1 DEF Step, Moves
  <2> QED
    BY <1>a, <2>2, <2>3, <2>4, <2>5, <2>6 DEF ServiceActs
<1>b. ASSUME StartSpawn PROVE Goal
  BY <1>b, SpawnEffect DEF StartSpawn
<1>d. ASSUME Listener \/ ListenerGoesOn PROVE Goal
  <2>1. thr'[J] = thr[J]
    BY <1>d, WhoMoves DEF Alone
  <2>2. CASE Rotate
    BY <2>1, <2>2, RotateEffect
  <2>3. CASE Destroy \/ DestroyStop \/ DestroyRelease \/ RotateEnd
    <3>1. \E p \in {"destroy", "release", "idle"} : Go(L, p)
      BY <2>3 DEF Destroy, DestroyStop, DestroyRelease, RotateEnd
    <3>2. thr'[L].pc \in {"destroy", "release", "idle"}
      BY <3>1, Steps DEF Step, Moves, ListenerPc
    <3> QED
      BY <2>1, <3>2
  <2>4. CASE RotateCreate \/ RotateFlags \/ RotateGate
    <3>1. Rot(thr[L].pc)
      BY <2>4 DEF RotateCreate, RotateFlags, RotateGate
    <3>2. \E p \in {"flags", "gate", "notice"} : Go(L, p)
      BY <2>4 DEF RotateCreate, RotateFlags, RotateGate
    <3>3. thr'[L].pc \in {"flags", "gate", "notice"}
      BY <3>2, Steps DEF Step, Moves, ListenerPc
    <3> QED
      BY <2>1, <3>1, <3>3
  <2>5. CASE RotateNotice
    <3>1. sendData(L, "rotated")
      BY <2>5 DEF RotateNotice
    <3>2. SendSkips(L, "rotated") \/ SendSends(L, "rotated") \/ SendBlocks(L, "rotated") \/ SendFails(L, "rotated")
      BY <3>1, SendEffect
    <3>3. thr'[L].pc = "error" => ~recording'
      BY <3>2 DEF SendSkips, SendSends, SendBlocks, SendFails, Moves
    <3>4. Rot(thr[L].pc)
      BY <2>5 DEF RotateNotice
    <3> QED
      BY <2>1, <2>5, <3>3, <3>4
  <2> QED
    BY <1>d, <2>2, <2>3, <2>4, <2>5 DEF Listener, ListenerGoesOn
<1>e. ASSUME NEW e \in Encoders, Encode(e) PROVE Goal
  <2>1. thr'[J] = thr[J] /\ thr'[L] = thr[L]
    BY <1>e, WhoMoves DEF Alone
  <2> QED
    BY <2>1
<1>f. ASSUME NEW t \in Threads, sendDataError(t) PROVE Goal
  <2>1. ErrorResult(t) /\ Alone(t)
    BY <1>f, ErrorEffect, WhoMoves
  <2> QED
    BY <2>1 DEF Alone, ErrorResult, Moves
<1>w. ASSUME NEW t \in Threads, WriteReturns(t) PROVE Goal
  <2>1. WriteResult(t) /\ Alone(t)
    BY <1>w, WriteEffect, WhoMoves
  <2>2. In(thr'[J].pc) => In(thr[J].pc)
    BY <2>1 DEF WriteResult, Alone
  <2>3. Rot(thr'[L].pc) => Rot(thr[L].pc)
    BY <2>1 DEF WriteResult, Alone
  <2>4. thr'[J].pc \notin {"prepare", "test"} \/ thr'[J].pc = thr[J].pc
    BY <2>1 DEF WriteResult, WriteDone, WriteFails, Moves
  <2>5. thr'[L].pc = "error" => thr[L].pc = "error" \/ ~recording'
    BY <2>1 DEF WriteResult, WriteDone, WriteFails, Moves
  <2> QED
    BY <2>2, <2>3, <2>4, <2>5
<1>g. ASSUME PeerGone \/ UNCHANGED vars PROVE Goal
  BY <1>g DEF PeerGone, vars
<1>h. Goal
  BY <1>a, <1>b, <1>d, <1>e, <1>f, <1>w, <1>g DEF Next, Service, ServiceGoesOn, ServiceActs
<1> QED
  BY <1>0, <1>h

(* A session begins when nothing is recorded and nothing rotates.          *)
LEMMA CalmStep ==
  ASSUME Types, Locks, Clean({"restart", "cross"}) => Calm, [Next]_vars, Clean({"restart", "cross"})'
  PROVE  Calm'
<1> USE ThreadFacts
<1>c. Calm
  BY CleanBefore
<1>1. CASE StartLock
  <2>1. ~allow' /\ ~recording' /\ ~Rotating
    BY <1>1 DEF StartLock, flags, Mark, Crossed, Clean
  <2>2. thr'[L] = thr[L]
    BY <1>1, WhoMoves DEF ServiceActs, Alone
  <2> QED
    BY <2>1, <2>2 DEF Calm, Rotating
<1>2. CASE Rotate
  <2>1. allow /\ ~Entered /\ UNCHANGED recording
    BY <1>c, <1>2 DEF Rotate, Calm, flags
  <2>2. thr'[J] = thr[J]
    BY <1>2, RotateEffect
  <2>3. ~Entered'
    BY <2>1, <2>2 DEF Entered, Starting
  <2>4. thr'[L].pc = "create"
    BY <1>2, RotateEffect
  <2> QED
    BY <2>3, <2>4 DEF Calm, Entered, Starting
<1>3. CASE ~StartLock /\ ~Rotate
  <2>1. Entered' => ~Rotating'
    BY <1>3, <1>c, Entering DEF Calm
  <2>2. Entered' => ~allow'
    <3>1. CASE StartEnd
      <4>1. Step(J, "idle")
        BY <3>1, Steps DEF StartEnd, ServicePc
      <4> QED
        BY <4>1 DEF Step, Moves, Entered, Starting
    <3>2. CASE ~StartEnd
      BY <1>3, <1>c, <3>2, Entering, Writers DEF Calm
    <3> QED
      BY <3>1, <3>2
  <2>3. CASE StartTest
    <3>1. Step(J, "started") \/ Step(J, "flags")
      BY <2>3, Steps DEF StartTest, ServicePc
    <3>2. thr'[J].pc \notin {"prepare", "test"}
      BY <3>1 DEF Step, Moves
    <3>3. thr'[L] = thr[L]
      BY <2>3, WhoMoves DEF ServiceActs, Alone
    <3>4. ~Rotating
      BY <1>c, <2>3 DEF Calm, StartTest, Entered, Starting
    <3> QED
      BY <2>1, <2>2, <3>2, <3>3, <3>4 DEF Calm, Rotating
  <2>4. CASE ~StartTest
    <3>1. recording' => recording
      BY <2>4, Writers
    <3>2. thr'[J].pc \in {"prepare", "test"} => ~recording'
      <4>1. Prepare => thr[J].pc = "prepare"
        BY DEF Prepare
      <4> QED
        BY <1>3, <1>c, <3>1, <4>1, Entering DEF Calm
    <3>3. thr'[L].pc = "error" => ~recording'
      BY <1>c, <3>1, Entering DEF Calm
    <3> QED
      BY <2>1, <2>2, <3>2, <3>3 DEF Calm
  <2> QED
    BY <2>3, <2>4
<1> QED
  BY <1>1, <1>2, <1>3

(* What the receiver was told is mPreOrientation, or the orientation of    *)
(* the rotation whose notice it has had.                                   *)
LEMMA OrientationsStep ==
  ASSUME Types, Locks, Clean({"restart", "cross"}) => Calm, Clean({"restart", "cross"}) => Orientations,
         [Next]_vars, Clean({"restart", "cross"})'
  PROVE  Orientations'
<1> USE ThreadFacts
<1>c. Calm /\ Orientations
  BY CleanBefore
<1> DEFINE Early(p) == p \in {"create", "flags", "gate", "notice", "write"}
           Agree(p, lo, wo, or) == IF Early(p) THEN wo = or /\ lo = Other(or)
                                   ELSE IF p = "rotated" THEN wo = lo ELSE wo = or
<1>0. /\ Orientations <=> /\ thr[J].pc \in {"test", "flags"} => wire.o = ori
                          /\ recording => Agree(thr[L].pc, thr[L].o, wire.o, ori)
      /\ Orientations' <=> /\ thr'[J].pc \in {"test", "flags"} => wire'.o = ori'
                           /\ recording' => Agree(thr'[L].pc, thr'[L].o, wire'.o, ori')
  BY DEF Orientations
<1> HIDE DEF Agree
<1>1. ASSUME thr'[J].pc \in {"test", "flags"} => thr[J].pc \in {"test", "flags"}, recording' => recording,
             wire'.o = wire.o, ori' = ori, thr'[L].pc = thr[L].pc, thr'[L].o = thr[L].o
      PROVE  Orientations'
  BY <1>0, <1>1, <1>c
<1>e. Entered <=> thr[J].pc \in {"test", "flags", "sps1", "sps2", "spawn", "write", "error", "prepare", "started"}
  BY DEF Entered, Starting
<1>a. ASSUME ServiceActs PROVE Orientations'
  <2>1. thr'[L] = thr[L]
    BY <1>a, WhoMoves DEF Alone
  <2>2. CASE StartLock
    <3>1. ~recording' /\ Step(J, "prepare")
      BY <2>2, Steps DEF StartLock, ServicePc, flags, Mark, Clean
    <3> QED
      BY <1>0, <3>1 DEF Step, Moves
  <2>3. CASE Prepare
    <3>1. ~recording'
      BY <1>c, <2>3 DEF Prepare, Calm, flags
    <3>2. CASE wire' = [o |-> ori, key |-> FALSE] /\ ori' = ori
      BY <1>0, <3>1, <3>2
    <3>3. CASE Go(J, "idle")
      <4>1. Step(J, "idle")
        BY <3>3, Steps DEF ServicePc
      <4> QED
        BY <1>0, <3>1, <4>1 DEF Step, Moves
    <3> QED
      BY <2>3, <3>2, <3>3 DEF Prepare
  <2>4. CASE StartTest
    <3>1. wire'.o = ori' /\ wire.o = ori
      BY <1>0, <1>c, <2>4 DEF StartTest, java
    <3>2. thr[L].pc \notin {"create", "flags", "gate", "notice", "write", "rotated"}
      BY <1>c, <1>e, <2>4 DEF StartTest, Calm, Rotating
    <3>3. Agree(thr'[L].pc, thr'[L].o, wire'.o, ori')
      BY <2>1, <3>1, <3>2 DEF Agree
    <3> QED
      BY <1>0, <3>1, <3>3
  <2>5. CASE ~StartLock /\ ~Prepare /\ ~StartTest
    <3>0. ~RotateNotice /\ ~RotateEnd /\ ~WriteReturns(L)
      <4>2. CASE Rotating
        <5>1. ~Entered
          BY <1>c, <4>2 DEF Calm
        <5>2. StopLock \/ StopDisconnect \/ stopRecordScreen \/ StopEnd
          BY <1>a, <1>e, <2>5, <5>1 DEF ServiceActs, StartFlags, StartSend, StartEnd
        <5>3. thr'[J].pc # thr[J].pc
          <6>1. StopLock => Step(J, "stop") /\ thr[J].pc = "idle"
            BY Steps DEF StopLock, ServicePc
          <6>2. stopRecordScreen => Step(J, "stopped") /\ thr[J].pc = "stopflags"
            BY Steps DEF stopRecordScreen, ServicePc
          <6>4. StopDisconnect => Step(J, "stopflags") /\ thr[J].pc = "stop"
            BY Steps DEF StopDisconnect, ServicePc
          <6>3. StopEnd => Step(J, "idle") /\ thr[J].pc = "stopped"
            BY Steps DEF StopEnd, ServicePc
          <6> QED
            BY <5>2, <6>1, <6>2, <6>3, <6>4 DEF Step, Moves
        <5> QED
          BY <5>3, WhoMoves DEF ListenerGoesOn, Alone
      <4>3. CASE ~Rotating
        BY <4>3 DEF Rotating, RotateNotice, RotateEnd, WriteReturns
      <4> QED
        BY <4>2, <4>3
    <3>1. (recording' => recording) /\ wire'.o = wire.o /\ ori' = ori
      BY <2>5, <3>0, Writers
    <3>2. thr'[J].pc \in {"test", "flags"} => thr[J].pc \in {"test", "flags"}
      <4>1. StopLock \/ StartEnd \/ StopDisconnect \/ stopRecordScreen \/ StopEnd
            => \E p \in {"stop", "idle", "stopflags", "stopped"} : Go(J, p)
        BY DEF StopLock, StartEnd, StopDisconnect, stopRecordScreen, StopEnd
      <4>2. StopLock \/ StartEnd \/ StopDisconnect \/ stopRecordScreen \/ StopEnd
            => thr'[J].pc \in {"stop", "idle", "stopflags", "stopped"}
        BY <4>1, Steps DEF Step, Moves, ServicePc
      <4>3. StartFlags => thr[J].pc = "flags"
        BY DEF StartFlags
      <4>4. ASSUME StartSend PROVE thr'[J].pc \in {"sps2", "spawn", "write", "error"}
        <5>1. PICK n \in {"sps2", "spawn"} : sendData(J, n)
          BY <4>4 DEF StartSend
        <5>2. sendData(J, n)
          BY <5>1
        <5>3. SendSkips(J, n) \/ SendSends(J, n) \/ SendBlocks(J, n) \/ SendFails(J, n)
          BY <5>2, SendEffect
        <5> QED
          BY <5>3 DEF SendSkips, SendSends, SendBlocks, SendFails, Moves
      <4> QED
        BY <1>a, <2>5, <4>2, <4>3, <4>4 DEF ServiceActs
    <3> QED
      BY <1>1, <2>1, <3>1, <3>2
  <2> QED
    BY <2>2, <2>3, <2>4, <2>5
<1>b. ASSUME StartSpawn PROVE Orientations'
  BY <1>b, <1>1, SpawnEffect DEF StartSpawn, flags, java
<1>d. ASSUME Listener \/ ListenerGoesOn PROVE Orientations'
  <2>1. thr'[J] = thr[J]
    BY <1>d, WhoMoves DEF Alone
  <2>r. thr[L].o \in Orientation
    BY DEF Types, ThrRec
  <2>2. CASE Rotate
    <3>1. UNCHANGED <<recording, wire, ori>> /\ thr[L].pc = "idle"
      BY <2>2 DEF Rotate, flags, java
    <3>2. recording => wire.o = ori
      BY <1>0, <1>c, <3>1 DEF Agree
    <3>3. recording' => Agree(thr'[L].pc, thr'[L].o, wire'.o, ori')
      BY <2>2, <3>1, <3>2, RotateEffect DEF Agree
    <3> QED
      BY <1>0, <1>c, <2>1, <3>1, <3>3
  <2>3. CASE RotateCreate \/ RotateFlags \/ RotateGate
    <3>1. UNCHANGED <<recording, wire, ori>> /\ Early(thr[L].pc)
      BY <2>3 DEF RotateCreate, RotateFlags, RotateGate, flags, java
    <3>2. \E p \in {"flags", "gate", "notice"} : Go(L, p)
      BY <2>3 DEF RotateCreate, RotateFlags, RotateGate
    <3>3. Early(thr'[L].pc) /\ thr'[L].o = thr[L].o
      BY <3>2, Steps DEF Step, Moves, ListenerPc
    <3>4. recording' => Agree(thr'[L].pc, thr'[L].o, wire'.o, ori')
      BY <1>0, <1>c, <3>1, <3>3 DEF Agree
    <3> QED
      BY <1>0, <1>c, <2>1, <3>1, <3>4
  <2>4. CASE RotateNotice
    <3>1. sendData(L, "rotated") /\ thr[L].pc = "notice"
      BY <2>4 DEF RotateNotice
    <3>2. /\ ori' = ori
          /\ \/ SendSkips(L, "rotated") \/ SendSends(L, "rotated")
             \/ SendBlocks(L, "rotated") \/ SendFails(L, "rotated")
      BY <3>1, SendEffect
    <3>3. ~Entered
      BY <1>c, <3>1 DEF Calm, Rotating
    <3>4. thr'[J].pc \notin {"test", "flags"}
      BY <1>e, <2>1, <3>3
    <3>5. CASE SendSkips(L, "rotated") \/ SendFails(L, "rotated")
      BY <1>0, <3>4, <3>5 DEF SendSkips, SendFails
    <3>6. CASE SendSends(L, "rotated")
      <4>1. wire' = [wire EXCEPT !.o = thr[L].o, !.key = FALSE]
        BY <3>6, Messages DEF SendSends, Written, Receive
      <4>2. wire'.o = thr[L].o /\ thr'[L].o = thr[L].o /\ thr'[L].pc = "rotated"
        BY <3>6, <4>1 DEF SendSends, Moves, Types
      <4> QED
        BY <1>0, <3>4, <4>2 DEF Agree
    <3>7. CASE SendBlocks(L, "rotated")
      <4>1. /\ UNCHANGED <<recording, wire>> /\ Early(thr[L].pc) /\ Early(thr'[L].pc)
            /\ thr'[L].o = thr[L].o
        BY <3>1, <3>7 DEF SendBlocks, Moves
      <4>2. recording' => Agree(thr'[L].pc, thr'[L].o, wire'.o, ori')
        BY <1>0, <1>c, <3>2, <4>1 DEF Agree
      <4> QED
        BY <1>0, <3>4, <4>2
    <3> QED
      BY <3>2, <3>5, <3>6, <3>7
  <2>5. CASE RotateEnd
    <3>1. UNCHANGED <<recording, wire>> /\ thr[L].pc = "rotated" /\ ori' = thr[L].o /\ Step(L, "idle")
      BY <2>5, Steps DEF RotateEnd, flags, ListenerPc
    <3>2. ~Entered
      BY <1>c, <3>1 DEF Calm, Rotating
    <3>3. thr'[J].pc \notin {"test", "flags"}
      BY <1>e, <2>1, <3>2
    <3>4. recording' => wire'.o = ori'
      BY <1>0, <1>c, <3>1 DEF Agree
    <3> QED
      BY <1>0, <3>1, <3>3, <3>4 DEF Agree, Step, Moves
  <2>6. CASE Destroy \/ DestroyStop \/ DestroyRelease
    <3>1. UNCHANGED <<wire, ori>> /\ (recording' => recording) /\ thr[L].pc \in {"idle", "destroy", "release"}
      BY <2>6 DEF Destroy, DestroyStop, DestroyRelease, flags, java, ReleaseAll
    <3>2. \E p \in {"destroy", "release", "idle"} : Go(L, p)
      BY <2>6 DEF Destroy, DestroyStop, DestroyRelease
    <3>3. thr'[L].pc \in {"destroy", "release", "idle"}
      BY <3>2, Steps DEF Step, Moves, ListenerPc
    <3>4. recording' => Agree(thr'[L].pc, thr'[L].o, wire'.o, ori')
      BY <1>0, <1>c, <3>1, <3>3 DEF Agree
    <3> QED
      BY <1>0, <1>c, <2>1, <3>1, <3>4
  <2> QED
    BY <1>d, <2>2, <2>3, <2>4, <2>5, <2>6 DEF Listener, ListenerGoesOn
<1>f. ASSUME NEW e \in Encoders, Encode(e) PROVE Orientations'
  <2>1. thr'[J] = thr[J] /\ thr'[L] = thr[L]
    BY <1>f, WhoMoves DEF Alone
  <2>2. (recording' => recording) /\ ori' = ori
    <3>1. EncSend(e) => (recording' => recording) /\ ori' = ori
      BY DEF EncSend, sendData, flags, java
    <3>2. EncSend(e) \/ ((recording' => recording) /\ ori' = ori)
      BY <1>f DEF Encode, EncTop, EncDrain, EncNothing, EncFrame, EncEnd, flags, java
    <3> QED
      BY <3>1, <3>2
  <2>3. wire'.o = wire.o
    <3>1. EncSend(e) => wire'.o = wire.o
      <4>1. wire \in [o : Orientation, key : BOOLEAN]
        BY DEF Types
      <4>2. EncSend(e) =>
              wire' = wire \/ wire' = [wire EXCEPT !.key = wire.key \/ (thr[e].key /\ thr[e].o = wire.o)]
        BY Messages DEF EncSend, sendData, Written, Receive
      <4> QED
        BY <4>1, <4>2
    <3>2. EncSend(e) \/ wire' = wire
      BY <1>f DEF Encode, EncTop, EncDrain, EncNothing, EncFrame, EncEnd
    <3> QED
      BY <3>1, <3>2
  <2> QED
    BY <1>1, <2>1, <2>2, <2>3
<1>g. ASSUME NEW t \in Threads, sendDataError(t) PROVE Orientations'
  <2>1. ErrorResult(t) /\ Alone(t)
    BY <1>g, ErrorEffect, WhoMoves
  <2>2. CASE t = L
    <3>1. ~recording' /\ thr'[J] = thr[J]
      BY <1>c, <2>1, <2>2 DEF ErrorResult, Calm, Alone
    <3> QED
      BY <1>0, <1>c, <2>1, <3>1 DEF ErrorResult
  <2>3. CASE t # L
    <3>1. thr'[L] = thr[L] /\ UNCHANGED <<recording, wire, ori>>
      BY <2>1, <2>3 DEF ErrorResult, Alone
    <3>2. thr'[J].pc \in {"test", "flags"} => thr[J].pc \in {"test", "flags"}
      BY <2>1 DEF ErrorResult, Moves
    <3> QED
      BY <1>1, <3>1, <3>2
  <2> QED
    BY <2>2, <2>3
<1>w. ASSUME NEW t \in Threads, WriteReturns(t) PROVE Orientations'
  <2>1. WriteResult(t) /\ Alone(t)
    BY <1>w, WriteEffect, WhoMoves
  <2>2. thr'[J].pc \in {"test", "flags"} => thr[J].pc \in {"test", "flags"}
    BY <2>1 DEF WriteResult, WriteDone, WriteFails, Moves
  <2>3. CASE t = L
    <3>1. thr[L].pc = "write" /\ thr[L].then = "rotated" /\ ori' = ori
      BY <2>1, <2>3 DEF WriteResult, Types
    <3>2. ~Entered
      BY <1>c, <3>1 DEF Calm, Rotating
    <3>3. thr'[J].pc \notin {"test", "flags"}
      BY <1>e, <2>2, <3>2
    <3>4. CASE WriteDone(L)
      <4>1. wire' = [wire EXCEPT !.o = thr[L].o, !.key = FALSE]
        BY <3>4, Messages DEF WriteDone, Written, Receive
      <4>2. wire'.o = thr[L].o /\ thr'[L].o = thr[L].o /\ thr'[L].pc = "rotated"
        BY <3>1, <3>4, <4>1 DEF WriteDone, Moves, Types
      <4> QED
        BY <1>0, <3>3, <4>2 DEF Agree
    <3>5. CASE WriteFails(L)
      BY <1>0, <3>3, <3>5 DEF WriteFails
    <3> QED
      BY <2>1, <2>3, <3>4, <3>5 DEF WriteResult
  <2>4. CASE t # L
    <3>1. thr'[L] = thr[L] /\ ori' = ori /\ (recording' => recording)
      BY <2>1, <2>4 DEF WriteResult, WriteDone, WriteFails, Alone
    <3>2. wire'.o = wire.o
      <4>1. wire \in [o : Orientation, key : BOOLEAN]
        BY DEF Types
      <4>2. wire' = wire \/ wire' = [wire EXCEPT !.key = wire.key \/ (thr[t].key /\ thr[t].o = wire.o)]
        BY <2>1, <2>4, Messages DEF WriteResult, WriteDone, WriteFails, Written, Receive
      <4> QED
        BY <4>1, <4>2
    <3> QED
      BY <1>1, <2>2, <3>1, <3>2
  <2> QED
    BY <2>3, <2>4
<1>h. ASSUME PeerGone \/ UNCHANGED vars PROVE Orientations'
  BY <1>h, <1>1 DEF PeerGone, vars, flags, java
<1> QED
  BY <1>a, <1>b, <1>d, <1>f, <1>g, <1>w, <1>h DEF Next, Service, ServiceGoesOn, ServiceActs

(* Frames and gates.  What follows needs every earlier part: one encoder   *)
(* (its own frame in flight is the only one), calm (no rotation during a   *)
(* start), and the orientations (the gate that is closed is not the one of *)
(* the orientation the receiver shows).                                    *)
LEMMA NewGatesStep ==
  ASSUME Types, Locks, OneEncoder, Calm, NewGates, [Next]_vars
  PROVE  NewGates'
<1> USE ThreadFacts
<1>e. thr[J].pc \in {"test", "flags"} => Starting /\ Entered
  BY DEF Entered, Starting
<1>0. ASSUME gate' = Off PROVE NewGates'
  BY <1>0 DEF NewGates, Off
<1>1. ASSUME thr'[J].pc \in {"test", "flags"} => thr[J].pc \in {"test", "flags"} /\ codec' = codec /\ gate' = gate
      PROVE  NewGates'
  BY <1>1 DEF NewGates, Off
<1>a. ASSUME ServiceActs PROVE NewGates'
  <2>1. CASE Prepare
    <3>1. codec' # 0
      BY <2>1 DEF Prepare, createEncoder, Types
    <3> QED
      BY <3>1 DEF NewGates
  <2>2. CASE StartTest
    BY <1>1, <2>2 DEF StartTest
  <2>3. CASE StartFlags
    <3>1. Step(J, "spawn") \/ Step(J, "sps1")
      BY <2>3, Steps DEF StartFlags, ServicePc
    <3> QED
      BY <1>1, <3>1 DEF Step, Moves
  <2>4. CASE StartSend
    <3>1. PICK n \in {"sps2", "spawn"} : sendData(J, n)
      BY <2>4 DEF StartSend
    <3>2. sendData(J, n)
      BY <3>1
    <3>3. SendSkips(J, n) \/ SendSends(J, n) \/ SendBlocks(J, n) \/ SendFails(J, n)
      BY <3>2, SendEffect
    <3>4. thr'[J].pc \in {"sps2", "spawn", "write", "error"}
      BY <3>3 DEF SendSkips, SendSends, SendBlocks, SendFails, Moves
    <3> QED
      BY <1>1, <3>4
  <2>5. CASE StartLock \/ StopLock \/ StartEnd \/ StopDisconnect \/ stopRecordScreen \/ StopEnd
    <3>1. \E p \in {"prepare", "stop", "idle", "stopflags", "stopped"} : Go(J, p)
      BY <2>5 DEF StartLock, StopLock, StartEnd, StopDisconnect, stopRecordScreen, StopEnd
    <3>2. thr'[J].pc \in {"prepare", "stop", "idle", "stopflags", "stopped"}
      BY <3>1, Steps DEF Step, Moves, ServicePc
    <3> QED
      BY <1>1, <3>2
  <2> QED
    BY <1>a, <2>1, <2>2, <2>3, <2>4, <2>5 DEF ServiceActs
<1>b. ASSUME StartSpawn PROVE NewGates'
  BY <1>b, <1>1, SpawnEffect
<1>d. ASSUME Listener \/ ListenerGoesOn PROVE NewGates'
  <2>1. thr'[J] = thr[J]
    BY <1>d, WhoMoves DEF Alone
  <2>2. CASE DestroyRelease
    BY <1>0, <2>2 DEF DestroyRelease, Release
  <2>3. CASE RotateGate
    <3>1. thr[J].pc \notin {"test", "flags"}
      BY <1>e, <2>3 DEF RotateGate, Calm, Rotating
    <3> QED
      BY <1>1, <2>1, <3>1
  <2>4. CASE ~DestroyRelease /\ ~RotateGate
    <3>1. RotateNotice => UNCHANGED <<codec, gate>>
      BY DEF RotateNotice, sendData, flags
    <3>2. RotateNotice \/ UNCHANGED <<codec, gate>>
      BY <1>d, <2>4 DEF Listener, ListenerGoesOn, Rotate, Destroy, RotateCreate, RotateFlags, RotateEnd,
                        DestroyStop, flags
    <3> QED
      BY <1>1, <2>1, <3>1, <3>2
  <2> QED
    BY <2>2, <2>3, <2>4
<1>f. ASSUME NEW e \in Encoders, Encode(e) PROVE NewGates'
  <2>1. thr'[J] = thr[J]
    BY <1>f, WhoMoves DEF Alone
  <2>2. Runs(e)
    BY <1>f DEF Encode, EncTop, EncDrain, EncNothing, EncFrame, EncSend, EncEnd, Runs
  <2>3. thr[J].pc \notin {"test", "flags"}
    BY <1>e, <2>2 DEF OneEncoder, EncoderRuns
  <2> QED
    BY <1>1, <2>1, <2>3
<1>g. ASSUME NEW t \in Threads, sendDataError(t) PROVE NewGates'
  <2>1. ErrorResult(t)
    BY <1>g, ErrorEffect
  <2> QED
    BY <1>1, <2>1 DEF ErrorResult, Moves
<1>w. ASSUME NEW t \in Threads, WriteReturns(t) PROVE NewGates'
  <2>1. WriteResult(t)
    BY <1>w, WriteEffect
  <2> QED
    BY <1>1, <2>1 DEF WriteResult, WriteDone, WriteFails, Moves
<1>h. ASSUME PeerGone \/ UNCHANGED vars PROVE NewGates'
  BY <1>h, <1>1 DEF PeerGone, vars, flags
<1> QED
  BY <1>a, <1>b, <1>d, <1>f, <1>g, <1>w, <1>h DEF Next, Service, ServiceGoesOn, ServiceActs

(* A step that sends nothing, passes no gate and moves no listener to the  *)
(* notice leaves the flow as it is.                                        *)
Told(p) == p \in {"notice", "write"}
Same(e) ==
  /\ InFlight(e)' = InFlight(e)
  /\ thr'[e].pc = "send" => thr[e].pc = "send"
  /\ InFlight(e) => thr'[e].o = thr[e].o /\ thr'[e].key = thr[e].key

LEMMA FlowKept ==
  ASSUME Flow, Types, Types', wire' = wire, gate' = gate \/ gate' = Off,
         thr'[J].pc # "flags" => thr[J].pc # "flags",
         Told(thr'[L].pc) => Told(thr[L].pc) /\ thr'[L].o = thr[L].o,
         \A e \in Encoders : Same(e)
  PROVE  Flow'
<1>2. wire.o \in Orientation /\ thr[L].o \in Orientation
  BY ThreadFacts DEF Types, ThrRec
<1>3. \A o \in Orientation : gate'[o] => gate[o]
  BY DEF Off
<1>4. KeyInFlight(wire.o)' <=> KeyInFlight(wire.o)
  BY DEF KeyInFlight, Same
<1>5. Told(thr'[L].pc) => (KeyInFlight(thr[L].o) => KeyInFlight(thr[L].o)')
  BY DEF KeyInFlight, Same
<1>6. thr'[L].pc \in {"notice", "write"} => thr[L].pc \in {"notice", "write"} /\ thr'[L].o = thr[L].o
  BY DEF Told
<1>7. /\ \A e \in Encoders : InFlight(e)' /\ thr'[e].o = wire'.o => thr'[e].key \/ wire'.key
      /\ \A e \in Encoders : thr'[e].pc = "send" =>
            thr[e].pc = "send" /\ thr'[e].o = thr[e].o /\ thr'[e].key = thr[e].key
  BY DEF Flow, Same, InFlight
<1> QED
  BY <1>2, <1>3, <1>4, <1>5, <1>6, <1>7 DEF Flow, Told

Torn == {"restart", "cross", "overtake", "gate"}

(* What a frame in flight means, when the encoder is the only one.         *)
LEMMA FrameFlow ==
  ASSUME Types, Types', OneEncoder, Flow, NEW e \in Encoders, EncFrame(e)
  PROVE  Flow'
<1> USE ThreadFacts
<1> DEFINE o == thr[e].o
<1>1. FrameResult(e)
  BY FrameEffect
<1>2. wire' = wire /\ thr[e].pc = "dequeue" /\ Runs(e)
  BY DEF EncFrame, Runs
<1>3. \A f \in Encoders : f # e => ~InFlight(f) /\ thr'[f] = thr[f]
  BY <1>1, <1>2 DEF OneEncoder, Runs, InFlight, FrameResult
<1>4. \A p \in Orientation : ~KeyInFlight(p)
  BY <1>2, <1>3 DEF KeyInFlight, InFlight
<1>5. wire.o \in Orientation /\ thr[L].o \in Orientation /\ o \in Orientation
  BY DEF Types, ThrRec
<1>6. thr[J].pc # "flags" /\ thr'[J] = thr[J] /\ thr'[L] = thr[L]
  BY <1>1, <1>2 DEF OneEncoder, EncoderRuns, Starting, FrameResult
<1>7. gate[wire.o] => wire.key
  BY <1>4, <1>5, <1>6 DEF Flow
<1>8. thr[L].pc \in {"notice", "write"} => ~gate[thr[L].o]
  BY <1>4, <1>5 DEF Flow
<1>9. thr'[e].o = o /\ (thr'[e].pc = "send" <=> gate'[o]) /\ (gate'[o] <=> gate[o] \/ thr'[e].key)
  BY <1>1, <1>5 DEF FrameResult
<1>10. \A p \in Orientation : p # o => gate'[p] = gate[p]
  BY <1>1 DEF FrameResult
<1>11. \A f \in Encoders : InFlight(f)' => f = e /\ thr'[e].pc = "send"
  BY <1>1, <1>3 DEF InFlight, FrameResult
<1>13. \A p \in Orientation : gate'[p] /\ ~gate[p] =>
          \E f \in Encoders : InFlight(f)' /\ thr'[f].o = p /\ thr'[f].key
  BY <1>9, <1>10 DEF InFlight
<1>14. /\ \A f \in Encoders : InFlight(f)' /\ thr'[f].o = wire.o => thr'[f].key \/ wire.key
       /\ gate'[wire.o] => wire.key \/ KeyInFlight(wire.o)'
  BY <1>2, <1>5, <1>7, <1>9, <1>11, <1>13 DEF KeyInFlight
<1>15. ASSUME thr[L].pc \in {"notice", "write"}
       PROVE  /\ \A f \in Encoders : thr'[f].pc = "send" /\ thr'[f].o = thr[L].o => thr'[f].key
              /\ gate'[thr[L].o] => \E f \in Encoders : InFlight(f)' /\ thr'[f].o = thr[L].o /\ thr'[f].key
  BY <1>5, <1>8, <1>9, <1>11, <1>13, <1>15 DEF InFlight
<1> QED
  BY <1>2, <1>6, <1>14, <1>15 DEF Flow, KeyInFlight

(* A frame is written: the receiver has its key frame after it.            *)
LEMMA GoneFlow ==
  ASSUME Types, Types', Orientations, Flow, recording, Clean(Torn)', NEW e \in Encoders, InFlight(e),
         Moves(e, "drain"), Written(Message(e)), gate' = gate
  PROVE  Flow'
<1> USE ThreadFacts
<1>5. wire' = [wire EXCEPT !.key = wire.key \/ (thr[e].key /\ thr[e].o = wire.o)]
  BY Messages DEF Written, Receive
<1>6. wire \in [o : Orientation, key : BOOLEAN] /\ thr[e].o \in Orientation /\ thr[L].o \in Orientation
  BY DEF Types, ThrRec
<1>7. wire'.o = wire.o /\ (wire'.key <=> wire.key \/ (thr[e].key /\ thr[e].o = wire.o))
  BY <1>5, <1>6
<1>8. thr'[J].pc = thr[J].pc /\ thr'[L].pc = thr[L].pc /\ thr'[L].o = thr[L].o
  BY DEF Moves
<1>9. \A f \in Encoders : /\ InFlight(f)' <=> InFlight(f) /\ f # e
                          /\ thr'[f].pc = "send" => thr[f].pc = "send"
                          /\ thr'[f].o = thr[f].o /\ thr'[f].key = thr[f].key
  BY DEF Moves, InFlight
<1>10. thr[e].o = wire.o => wire'.key
  BY <1>7 DEF Flow
<1>11. thr[L].pc \in {"notice", "write"} => thr[e].o = wire.o /\ thr[L].o # wire.o
  <2>1. "overtake" \notin causes'
    BY DEF Clean, Torn
  <2>2. ~Overtakes(Message(e))
    BY <2>1 DEF Written, Mark
  <2>3. thr[L].pc \in {"notice", "write"} => thr[e].o = wire.o \/ thr[e].o # thr[L].o
    BY <2>2, Messages DEF Overtakes, Rotating
  <2>4. thr[L].pc \in {"notice", "write"} => wire.o = ori /\ thr[L].o = Other(ori)
    BY DEF Orientations
  <2> QED
    BY <1>6, <2>3, <2>4 DEF Other, Orientation, Types
<1>12. /\ \A f \in Encoders : InFlight(f)' /\ thr'[f].o = wire.o => thr'[f].key \/ wire'.key
       /\ thr[J].pc # "flags" /\ gate[wire.o] =>
            wire'.key \/ \E f \in Encoders : InFlight(f)' /\ thr'[f].o = wire.o /\ thr'[f].key
  BY <1>7, <1>9, <1>10 DEF Flow, KeyInFlight
<1>13. thr[L].pc \in {"notice", "write"} =>
         /\ \A f \in Encoders : thr'[f].pc = "send" /\ thr'[f].o = thr[L].o => thr'[f].key
         /\ gate[thr[L].o] => \E f \in Encoders : InFlight(f)' /\ thr'[f].o = thr[L].o /\ thr'[f].key
  BY <1>9, <1>11 DEF Flow, KeyInFlight
<1> QED
  BY <1>7, <1>8, <1>12, <1>13 DEF Flow, KeyInFlight

(* The notice is written: what is in flight of the new orientation has     *)
(* passed its gate.                                                        *)
LEMMA NoticeFlow ==
  ASSUME Types, Types', Flow, Told(thr[L].pc), Written(Message(L)), gate' = gate,
         thr'[L].pc = "rotated", \A u \in Threads : u # L => thr'[u] = thr[u],
         \A e \in Encoders : thr[e].pc # "write"
  PROVE  Flow'
<1> USE ThreadFacts
<1>1. wire' = [wire EXCEPT !.o = thr[L].o, !.key = FALSE]
  BY Messages DEF Written, Receive
<1>2. wire'.o = thr[L].o
  BY <1>1 DEF Types
<1>3. \A e \in Encoders : thr'[e] = thr[e] /\ (InFlight(e)' <=> InFlight(e)) /\ (InFlight(e) <=> thr[e].pc = "send")
  BY DEF InFlight
<1> QED
  BY <1>2, <1>3 DEF Flow, KeyInFlight, Told

LEMMA FlowStep ==
  ASSUME Types, Types', Locks, OneEncoder, Calm, Orientations, NewGates, recording => Flow,
         [Next]_vars, Clean(Torn)'
  PROVE  recording' => Flow'
<1> USE ThreadFacts
<1>1. ASSUME recording' => recording, wire' = wire, gate' = gate \/ gate' = Off,
             thr'[J].pc # "flags" => thr[J].pc # "flags",
             Told(thr'[L].pc) => Told(thr[L].pc) /\ thr'[L].o = thr[L].o,
             \A e \in Encoders : Same(e)
      PROVE  recording' => Flow'
  BY <1>1, FlowKept
<1>e. thr[J].pc \in {"test", "flags"} => Starting /\ Entered
  BY DEF Entered, Starting
<1>n. ASSUME \A e \in Encoders : ~Runs(e)', ~Told(thr'[L].pc), thr'[J].pc = "flags" \/ ~gate'[wire'.o]
      PROVE  Flow'
  <2>1. \A e \in Encoders : ~InFlight(e)' /\ thr'[e].pc # "send"
    BY <1>n DEF InFlight, Runs
  <2> QED
    BY <1>n, <2>1 DEF Flow, KeyInFlight, Told
<1>m. \A e \in Encoders : thr'[e] = thr[e] => Same(e)
  BY DEF Same, InFlight
<1>a. ASSUME ServiceActs PROVE recording' => Flow'
  <2>1. \A u \in Threads : u # J => thr'[u] = thr[u]
    BY <1>a, WhoMoves DEF Alone
  <2>2. \A e \in Encoders : Same(e)
    BY <1>m, <2>1
  <2>3. CASE StartLock
    BY <2>3 DEF StartLock, flags, Mark, Clean, Torn
  <2>4. CASE Prepare
    BY <2>4 DEF Prepare, Calm, flags
  <2>5. CASE StartTest
    <3>1. ~recording /\ Starting /\ Entered
      BY <1>e, <2>5 DEF StartTest, Calm
    <3>2. Step(J, "flags")
      BY <2>5, <3>1, Steps DEF StartTest, ServicePc
    <3>3. ~Told(thr'[L].pc)
      BY <2>1, <3>1 DEF Calm, Rotating, Told
    <3>4. \A e \in Encoders : ~Runs(e)'
      BY <2>1, <3>1 DEF OneEncoder, EncoderRuns, Runs
    <3> QED
      BY <1>n, <3>2, <3>3, <3>4 DEF Step, Moves
  <2>6. CASE StartFlags
    <3>1. thr[J].pc = "flags" /\ Starting /\ Entered /\ wire' = wire
      BY <1>e, <2>6 DEF StartFlags
    <3>2. ~Told(thr'[L].pc)
      BY <2>1, <3>1 DEF Calm, Rotating, Told
    <3>3. \A e \in Encoders : ~Runs(e)'
      BY <2>1, <3>1 DEF OneEncoder, EncoderRuns, Runs
    <3>4. wire.o = ori /\ ori \in Orientation /\ gate \in [Orientation -> BOOLEAN]
      BY <3>1 DEF Orientations, Types
    <3>5. ~gate'[ori]
      <4>1. CASE codec = 0
        <5>1. gate = Off /\ gate' = gate
          BY <2>6, <3>1, <4>1 DEF StartFlags, NewGates
        <5> QED
          BY <3>4, <5>1 DEF Off
      <4>2. CASE codec # 0
        <5>1. gate' = [gate EXCEPT ![ori] = FALSE]
          BY <2>6, <4>2 DEF StartFlags
        <5> QED
          BY <3>4, <5>1
      <4> QED
        BY <4>1, <4>2
    <3> QED
      BY <1>n, <3>1, <3>2, <3>3, <3>4, <3>5
  <2>7. CASE StartSend
    <3>1. PICK n \in {"sps2", "spawn"} : sendData(J, n)
      BY <2>7 DEF StartSend
    <3>2. /\ gate' = gate
          /\ SendSkips(J, n) \/ SendSends(J, n) \/ SendBlocks(J, n) \/ SendFails(J, n)
      BY <3>1, SendEffect
    <3>3. wire' = wire /\ (recording' => recording)
      BY <3>2, Messages DEF SendSkips, SendSends, SendBlocks, SendFails, Written, Receive
    <3>4. thr[J].pc # "flags"
      BY <2>7 DEF StartSend
    <3> QED
      BY <1>1, <2>1, <2>2, <3>2, <3>3, <3>4
  <2>8. CASE StopLock \/ StartEnd \/ StopDisconnect \/ stopRecordScreen \/ StopEnd
    <3>1. wire' = wire /\ gate' = gate /\ (recording' => recording) /\ thr[J].pc # "flags"
      BY <2>8 DEF StopLock, StartEnd, StopDisconnect, stopRecordScreen, StopEnd, flags
    <3> QED
      BY <1>1, <2>1, <2>2, <3>1
  <2> QED
    BY <1>a, <2>3, <2>4, <2>5, <2>6, <2>7, <2>8 DEF ServiceActs
<1>b. ASSUME StartSpawn PROVE recording' => Flow'
  <2>1. UNCHANGED <<recording, wire, gate>> /\ thr[J].pc = "spawn"
    BY <1>b DEF StartSpawn, flags
  <2>2. \A e \in Encoders : ~InFlight(e) /\ ~InFlight(e)' /\ thr'[e].pc # "send"
    BY <1>b, <2>1, SpawnEffect DEF OneEncoder, EncoderRuns, Runs, Starting, InFlight
  <2>3. thr'[L] = thr[L]
    BY <1>b, SpawnEffect
  <2> QED
    BY <1>1, <1>b, <2>1, <2>2, <2>3, SpawnEffect DEF Same, InFlight
<1>d. ASSUME Listener \/ ListenerGoesOn PROVE recording' => Flow'
  <2>1. \A u \in Threads : u # L => thr'[u] = thr[u]
    BY <1>d, WhoMoves DEF Alone
  <2>2. \A e \in Encoders : Same(e)
    BY <1>m, <2>1
  <2>3. CASE Rotate
    BY <1>1, <2>1, <2>2, <2>3, RotateEffect DEF Rotate, flags, Told
  <2>4. CASE Destroy \/ RotateCreate \/ RotateFlags \/ RotateEnd \/ DestroyStop \/ DestroyRelease
    <3>1. wire' = wire /\ (gate' = gate \/ gate' = Off) /\ (recording' => recording)
      BY <2>4 DEF Destroy, RotateCreate, RotateFlags, RotateEnd, DestroyStop, DestroyRelease, Release, flags
    <3>2. \E p \in {"destroy", "flags", "gate", "idle", "release"} : Go(L, p)
      BY <2>4 DEF Destroy, RotateCreate, RotateFlags, RotateEnd, DestroyStop, DestroyRelease
    <3>3. ~Told(thr'[L].pc)
      BY <3>2, Steps DEF Step, Moves, ListenerPc, Told
    <3> QED
      BY <1>1, <2>1, <2>2, <3>1, <3>3
  <2>5. CASE RotateGate
    <3> SUFFICES ASSUME recording' PROVE Flow'
      OBVIOUS
    <3>1. recording /\ wire' = wire /\ gate' = [gate EXCEPT ![thr[L].o] = FALSE] /\ thr[L].pc = "gate"
      BY <2>5 DEF RotateGate
    <3>2. Step(L, "notice")
      BY <2>5, Steps DEF RotateGate, ListenerPc
    <3>3. wire.o = ori /\ thr[L].o = Other(ori) /\ wire.o # thr[L].o
      BY <3>1 DEF Orientations, Other, Types, Orientation
    <3>4. ~PassedGate(thr[L].o)
      <4>1. "gate" \notin causes'
        BY DEF Clean, Torn
      <4> QED
        BY <2>5, <4>1 DEF RotateGate, Mark
    <3>5. thr[L].o \in Orientation /\ wire.o \in Orientation /\ gate \in [Orientation -> BOOLEAN]
      BY DEF Types, ThrRec
    <3>6. ~gate'[thr[L].o] /\ gate'[wire.o] = gate[wire.o]
      BY <3>1, <3>3, <3>5
    <3>7. thr'[L].pc = "notice" /\ thr'[L].o = thr[L].o /\ thr'[J] = thr[J]
      BY <2>1, <3>2 DEF Step, Moves
    <3>8. \A e \in Encoders : thr'[e] = thr[e]
      BY <2>1
    <3>9. \A e \in Encoders : thr[e].pc = "send" /\ thr[e].o = thr[L].o => thr[e].key
      BY <3>4 DEF PassedGate
    <3> QED
      BY <3>1, <3>6, <3>7, <3>8, <3>9 DEF Flow, KeyInFlight, InFlight
  <2>6. CASE RotateNotice
    <3>1. sendData(L, "rotated") /\ thr[L].pc = "notice"
      BY <2>6 DEF RotateNotice
    <3>2. /\ mutex = None /\ gate' = gate
          /\ \/ SendSkips(L, "rotated") \/ SendSends(L, "rotated")
             \/ SendBlocks(L, "rotated") \/ SendFails(L, "rotated")
      BY <3>1, SendEffect
    <3>3. CASE SendSkips(L, "rotated") \/ SendFails(L, "rotated")
      BY <3>3 DEF SendSkips, SendFails
    <3>4. CASE SendSends(L, "rotated")
      <4>1. recording /\ Written(Message(L)) /\ thr'[L].pc = "rotated"
        BY <3>4 DEF SendSends, Moves
      <4>2. \A e \in Encoders : thr[e].pc # "write"
        BY <3>2 DEF Locks
      <4> QED
        BY <2>1, <3>1, <3>2, <4>1, <4>2, NoticeFlow DEF Told
    <3>5. CASE SendBlocks(L, "rotated")
      BY <1>1, <2>1, <2>2, <3>1, <3>2, <3>5 DEF SendBlocks, Moves, Told
    <3> QED
      BY <3>2, <3>3, <3>4, <3>5
  <2> QED
    BY <1>d, <2>3, <2>4, <2>5, <2>6 DEF Listener, ListenerGoesOn
<1>f. ASSUME NEW e \in Encoders, Encode(e) PROVE recording' => Flow'
  <2>1. \A u \in Threads : u # e => thr'[u] = thr[u]
    BY <1>f, WhoMoves DEF Alone
  <2>2. CASE EncTop(e)
    <3>1. UNCHANGED <<recording, wire, gate>> /\ thr[e].pc = "top"
      BY <2>2 DEF EncTop, flags
    <3>2. thr'[e].pc \in {"end", "drain"}
      BY <2>2, TopEffect DEF TopResult
    <3>3. Same(e)
      BY <3>1, <3>2 DEF Same, InFlight
    <3> QED
      BY <1>1, <1>m, <2>1, <3>1, <3>3
  <2>3. CASE EncDrain(e) \/ EncNothing(e)
    <3>1. Step(e, "dequeue") \/ Step(e, "top")
      BY <2>3, Steps DEF EncDrain, EncNothing, EncoderPc
    <3>2. UNCHANGED <<recording, wire, gate>> /\ thr[e].pc \in {"drain", "dequeue"}
      BY <2>3 DEF EncDrain, EncNothing, flags
    <3>3. Same(e)
      BY <3>1, <3>2 DEF Step, Moves, Same, InFlight
    <3> QED
      BY <1>1, <1>m, <2>1, <3>2, <3>3
  <2>4. CASE EncFrame(e)
    <3>1. recording' = recording
      BY <2>4 DEF EncFrame
    <3> QED
      BY <2>4, <3>1, FrameFlow
  <2>5. CASE EncSend(e)
    <3>1. sendData(e, "drain") /\ thr[e].pc = "send"
      BY <2>5 DEF EncSend
    <3>2. /\ gate' = gate
          /\ \/ SendSkips(e, "drain") \/ SendSends(e, "drain")
             \/ SendBlocks(e, "drain") \/ SendFails(e, "drain")
      BY <3>1, SendEffect
    <3>3. CASE SendSkips(e, "drain") \/ SendFails(e, "drain")
      BY <3>3 DEF SendSkips, SendFails
    <3>4. CASE SendSends(e, "drain")
      BY <3>1, <3>2, <3>4, GoneFlow DEF SendSends, InFlight
    <3>5. CASE SendBlocks(e, "drain")
      <4>1. Same(e)
        BY <3>1, <3>5 DEF SendBlocks, Moves, Same, InFlight
      <4> QED
        BY <1>1, <1>m, <2>1, <3>2, <3>5, <4>1 DEF SendBlocks
    <3> QED
      BY <3>2, <3>3, <3>4, <3>5
  <2>6. CASE EncEnd(e)
    BY <2>6 DEF EncEnd
  <2> QED
    BY <1>f, <2>2, <2>3, <2>4, <2>5, <2>6 DEF Encode
<1>g. ASSUME NEW t \in Threads, sendDataError(t) PROVE recording' => Flow'
  <2>1. ErrorResult(t) /\ Alone(t)
    BY <1>g, ErrorEffect, WhoMoves
  <2>2. /\ UNCHANGED <<recording, wire, gate>>
        /\ thr[t].pc = "error" /\ thr'[t].pc \in {"sps2", "spawn", "rotated", "drain"}
    BY <2>1 DEF ErrorResult, Moves
  <2>3. \A e \in Encoders : Same(e)
    <3> TAKE e \in Encoders
    <3>1. CASE e = t
      BY <2>2, <3>1 DEF Same, InFlight
    <3>2. CASE e # t
      BY <1>m, <2>1, <3>2 DEF Alone
    <3> QED
      BY <3>1, <3>2
  <2> QED
    BY <1>1, <2>1, <2>2, <2>3 DEF Alone, Told
<1>w. ASSUME NEW t \in Threads, WriteReturns(t) PROVE recording' => Flow'
  <2>1. WriteResult(t) /\ Alone(t)
    BY <1>w, WriteEffect, WhoMoves
  <2>2. CASE WriteFails(t)
    BY <2>2 DEF WriteFails
  <2>3. CASE WriteDone(t)
    <3>1. UNCHANGED <<recording, gate>> /\ Written(Message(t)) /\ Moves(t, thr[t].then) /\ thr[t].pc = "write"
      BY <2>1, <2>3 DEF WriteDone, WriteResult
    <3>2. CASE t = J
      <4>1. wire' = wire
        BY <3>1, <3>2, Messages DEF Written, Receive
      <4>2. thr[J].pc # "flags"
        BY <3>1, <3>2
      <4>3. \A u \in Threads : u # J => thr'[u] = thr[u]
        BY <2>1, <3>2 DEF Alone
      <4> QED
        BY <1>1, <1>m, <3>1, <4>1, <4>2, <4>3
    <3>3. CASE t = L
      <4>1. thr'[L].pc = "rotated"
        BY <3>1, <3>3 DEF Moves, Types
      <4>2. \A e \in Encoders : thr[e].pc # "write"
        BY <3>1, <3>3 DEF Locks
      <4> QED
        BY <2>1, <3>1, <3>3, <4>1, <4>2, NoticeFlow DEF Alone, Told
    <3>4. CASE t \in Encoders
      <4>1. Moves(t, "drain") /\ InFlight(t)
        BY <3>1, <3>4 DEF Types, InFlight
      <4> QED
        BY <3>1, <3>4, <4>1, GoneFlow
    <3> QED
      BY <3>2, <3>3, <3>4
  <2> QED
    BY <2>1, <2>2, <2>3 DEF WriteResult
<1>h. ASSUME PeerGone \/ UNCHANGED vars PROVE recording' => Flow'
  BY <1>h, <1>1, <1>m DEF PeerGone, vars, flags
<1> QED
  BY <1>a, <1>b, <1>d, <1>f, <1>g, <1>w, <1>h DEF Next, Service, ServiceGoesOn, ServiceActs

(* The receiver's state changes only under the mutex, or over no encoder:  *)
(* a frame that waits in write() is still what it was when it got there.   *)
LEMMA WriteFlowStep ==
  ASSUME Types, Locks, OneEncoder, recording => Flow, WriteFlow, [Next]_vars, Clean(Torn)'
  PROVE  WriteFlow'
<1> USE ThreadFacts
<1> SUFFICES ASSUME NEW e \in Encoders, thr'[e].pc = "write", thr'[e].o = wire'.o
             PROVE  thr'[e].key \/ wire'.key
  BY DEF WriteFlow
<1>1. ASSUME thr'[e] = thr[e], wire' = wire PROVE thr'[e].key \/ wire'.key
  BY <1>1 DEF WriteFlow
<1>2. ASSUME thr'[e] = thr[e] PROVE mutex = e /\ Runs(e)
  BY <1>2 DEF Locks, Runs
<1>a. ASSUME ServiceActs PROVE thr'[e].key \/ wire'.key
  <2>1. thr'[e] = thr[e] /\ mutex # None /\ Runs(e)
    BY <1>a, <1>2, WhoMoves DEF Alone
  <2>2. ~Prepare
    BY <2>1 DEF Prepare, Clean, Torn, Mark, EncoderRuns
  <2>3. ~StartSend
    BY <2>1 DEF StartSend, sendData
  <2>4. wire' = wire
    BY <1>a, <2>2, <2>3 DEF ServiceActs, StartLock, StopLock, StartTest, StartFlags, StartEnd,
                            StopDisconnect, stopRecordScreen, StopEnd
  <2> QED
    BY <1>1, <2>1, <2>4
<1>b. ASSUME StartSpawn PROVE thr'[e].key \/ wire'.key
  <2>1. thr'[e] = thr[e] /\ wire' = wire
    BY <1>b, SpawnEffect DEF StartSpawn
  <2> QED
    BY <1>1, <2>1
<1>d. ASSUME Listener \/ ListenerGoesOn PROVE thr'[e].key \/ wire'.key
  <2>1. thr'[e] = thr[e] /\ mutex # None
    BY <1>d, <1>2, WhoMoves DEF Alone
  <2>2. ~RotateNotice
    BY <2>1 DEF RotateNotice, sendData
  <2>3. wire' = wire
    BY <1>d, <2>2 DEF Listener, ListenerGoesOn, Rotate, Destroy, RotateCreate, RotateFlags, RotateGate,
                      RotateEnd, DestroyStop, DestroyRelease
  <2> QED
    BY <1>1, <2>1, <2>3
<1>f. ASSUME NEW f \in Encoders, Encode(f) PROVE thr'[e].key \/ wire'.key
  <2>1. Runs(f) /\ thr[f].pc # "write"
    BY <1>f DEF Encode, EncTop, EncDrain, EncNothing, EncFrame, EncSend, EncEnd, Runs
  <2>2. f = e
    <3>1. f # e => thr'[e] = thr[e] /\ Runs(e)
      BY <1>f, <1>2, WhoMoves DEF Alone
    <3> QED
      BY <2>1, <3>1 DEF OneEncoder
  <2>3. EncSend(e)
    <3>1. ~EncTop(e)
      BY TopEffect DEF TopResult
    <3>2. ~EncDrain(e) /\ ~EncNothing(e)
      <4>1. EncDrain(e) \/ EncNothing(e) => \E p \in {"dequeue", "top"} : Go(e, p)
        BY DEF EncDrain, EncNothing
      <4> QED
        BY <4>1, Steps DEF Step, Moves, EncoderPc
    <3>3. ~EncFrame(e)
      BY FrameEffect DEF FrameResult
    <3>4. ~EncEnd(e)
      BY EndEffect DEF EndResult
    <3> QED
      BY <1>f, <2>2, <3>1, <3>2, <3>3, <3>4 DEF Encode
  <2>4. sendData(e, "drain") /\ thr[e].pc = "send"
    BY <2>3 DEF EncSend
  <2>5. SendBlocks(e, "drain")
    <3>1. SendSkips(e, "drain") \/ SendSends(e, "drain") \/ SendBlocks(e, "drain") \/ SendFails(e, "drain")
      BY <2>4, SendEffect
    <3> QED
      BY <3>1 DEF SendSkips, SendSends, SendFails, Moves
  <2>6. recording /\ wire' = wire /\ thr'[e].o = thr[e].o /\ thr'[e].key = thr[e].key
    BY <2>5 DEF SendBlocks, Moves
  <2> QED
    BY <2>4, <2>6 DEF Flow, InFlight
<1>g. ASSUME NEW t \in Threads, sendDataError(t) PROVE thr'[e].key \/ wire'.key
  <2>1. ErrorResult(t) /\ Alone(t)
    BY <1>g, ErrorEffect, WhoMoves
  <2>2. t # e
    BY <2>1 DEF ErrorResult, Moves
  <2> QED
    BY <1>1, <2>1, <2>2 DEF ErrorResult, Alone
<1>w. ASSUME NEW t \in Threads, WriteReturns(t) PROVE thr'[e].key \/ wire'.key
  <2>1. WriteResult(t) /\ Alone(t)
    BY <1>w, WriteEffect, WhoMoves
  <2>2. t # e
    BY <2>1 DEF WriteResult, WriteDone, WriteFails, Moves
  <2>3. mutex = t /\ mutex = e
    BY <1>2, <2>1, <2>2 DEF WriteResult, Alone, Locks
  <2> QED
    BY <2>2, <2>3
<1>h. ASSUME PeerGone \/ UNCHANGED vars PROVE thr'[e].key \/ wire'.key
  BY <1>h, <1>1 DEF PeerGone, vars
<1> QED
  BY <1>a, <1>b, <1>d, <1>f, <1>g, <1>w, <1>h DEF Next, Service, ServiceGoesOn, ServiceActs

LEMMA GatesStep ==
  ASSUME IInv, Types', [Next]_vars, Clean(Torn)'
  PROVE  Gates'
<1>1. Types /\ Locks /\ Unborn
  BY DEF IInv
<1>2. Clean(Torn)
  BY <1>1, CleanBefore
<1>3. OneEncoder /\ Calm /\ Orientations /\ Gates
  BY <1>2 DEF IInv, Clean, Torn
<1>4. NewGates' /\ (recording' => Flow')
  BY <1>1, <1>3, NewGatesStep, FlowStep DEF Gates
<1>6. WriteFlow'
  BY <1>1, <1>3, WriteFlowStep DEF Gates
<1>5. "torn" \notin harm'
  <2>1. \A e \in Encoders : ~TornBy(e)
    BY <1>3 DEF TornBy, EncSend, WriteReturns, Gates, Flow, InFlight, WriteFlow
  <2> QED
    BY <1>1, <1>3, <2>1, HarmBy DEF Gates
<1> QED
  BY <1>4, <1>5, <1>6 DEF Gates
-----------------------------------------------------------------------------
LEMMA Initially == Init => IInv
<1> SUFFICES ASSUME Init PROVE IInv
  OBVIOUS
<1> USE ThreadFacts
<1>1. \A t \in Threads : thr[t] = NoThr
  BY DEF Init
<1>2. thr \in [Threads -> ThrRec]
  BY NoThrRecord DEF Init
<1>3. \A t \in Threads : thr[t].pc = "idle"
  BY <1>1 DEF NoThr
<1>4. Off \in [Orientation -> BOOLEAN] /\ [o |-> 1, key |-> FALSE] \in [o : Orientation, key : BOOLEAN]
  BY DEF Off, Orientation
<1>5. used.starts \in 0 .. Starts /\ ori \in Orientation
  BY BoundsAssumption DEF Init, Orientation
<1>6. Types
  BY <1>2, <1>3, <1>4, <1>5 DEF Init, Types, ServicePc, ListenerPc, EncoderPc
<1>7. Locks /\ Unborn
  BY <1>3 DEF Init, Locks, Unborn
<1>8. OneEncoder /\ SafeCodec /\ SafeProjection
  BY <1>3 DEF Init, OneEncoder, Runs, EncoderRuns, Starting, SafeCodec, SafeProjection, Entered
<1>9. Calm /\ Orientations /\ Gates
  BY <1>3 DEF Init, Calm, Entered, Starting, Rotating, Orientations, Gates, WriteFlow, NewGates
<1> QED
  BY <1>6, <1>7, <1>8, <1>9 DEF IInv

LEMMA Inductive ==
  ASSUME IInv, [Next]_vars
  PROVE  IInv'
<1>1. Types /\ Locks /\ Unborn
  BY DEF IInv
<1>2. Types' /\ Locks' /\ Unborn'
  BY <1>1, TypesStep, UnbornStep
<1>3. Clean({"restart"})' => OneEncoder'
  BY <1>1, OneEncoderStep DEF IInv
<1>4. Clean({"restart", "destroy"})' => SafeCodec'
  BY <1>1, SafeCodecStep DEF IInv
<1>5. Clean({"cross", "failed"})' => SafeProjection'
  BY <1>1, SafeProjectionStep DEF IInv
<1>6. Clean({"restart", "cross"})' => Calm'
  BY <1>1, CalmStep DEF IInv
<1>7. Clean({"restart", "cross"})' => Orientations'
  BY <1>1, OrientationsStep DEF IInv
<1>8. Clean(Torn)' => Gates'
  BY <1>2, GatesStep
<1> QED
  BY <1>2, <1>3, <1>4, <1>5, <1>6, <1>7, <1>8 DEF IInv, Torn

LEMMA Always == Spec => []IInv
<1>1. Init => IInv
  BY Initially
<1>2. IInv /\ [Next]_vars => IInv'
  BY Inductive
<1> QED
  BY <1>1, <1>2, PTL DEF Spec

(* startEncoder() drains a codec that exists: for any number of sessions   *)
(* and rotations, the codec goes from under it only where a session is     *)
(* prepared over a running encoder or the service destroyed.               *)
THEOREM CodecSafe == Spec => []CodecAlive
<1>1. IInv => CodecAlive
  BY DEF IInv, SafeCodec, CodecAlive, OnlyAfter, Clean
<1> QED
  BY <1>1, Always, PTL

(* createVirtualDisplay() meets a projection, unless a release crosses the *)
(* rotation or a start goes on after sendDataError() has released it: the  *)
(* monitor keeps every other release from falling into a start.            *)
THEOREM ProjectionSafe == Spec => []ProjectionThere
<1>1. IInv => ProjectionThere
  BY DEF IInv, SafeProjection, ProjectionThere, OnlyAfter, Clean
<1> QED
  BY <1>1, Always, PTL

(* The first frame the receiver takes after a start or a rotation is a key *)
(* frame: whatever is in flight when a notice is sent has passed the new   *)
(* gate, unless one of the four named windows is hit.                      *)
THEOREM DecodableSafe == Spec => []Decodable
<1>1. IInv => Decodable
  BY DEF IInv, Gates, Decodable, OnlyAfter, Clean
<1> QED
  BY <1>1, Always, PTL

(* The service waits for mutex1, with the monitor in its hand, only in the *)
(* two sends of a start.                                                   *)
MutexFree == thr[J].pc \in {"sps1", "sps2"} /\ mutex # None => causes \cap {"restart", "cross"} # {}

(* The order of the locks: startRecordScreen() holds the monitor and takes *)
(* mutex1, sendDataError() holds mutex1 and takes the monitor, and yet no  *)
(* sendDataError() and no blocked write() of another thread is under way   *)
(* while a start sends, unless sessions overlap: this is what keeps the    *)
(* two from waiting for each other.                                        *)
THEOREM LockOrder == Spec => []MutexFree
<1>1. IInv => MutexFree
  <2> SUFFICES ASSUME IInv, thr[J].pc \in {"sps1", "sps2"}, mutex # None, Clean({"restart", "cross"})
               PROVE  FALSE
    BY DEF MutexFree, Clean
  <2>1. OneEncoder /\ Calm /\ Locks /\ Types
    BY DEF IInv, Clean
  <2>2. mutex \in Threads /\ thr[mutex].pc \in {"write", "error"}
    BY <2>1 DEF Locks
  <2>3. Starting /\ Entered
    BY DEF Starting, Entered
  <2>4. mutex # J
    BY <2>2
  <2>5. mutex # L
    BY <2>1, <2>2, <2>3 DEF Calm, Rotating
  <2>6. mutex \in Encoders /\ Runs(mutex)
    BY <2>2, <2>4, <2>5, ThreadFacts DEF Runs
  <2> QED
    BY <2>1, <2>3, <2>6 DEF OneEncoder, EncoderRuns
<1> QED
  BY <1>1, Always, PTL
=============================================================================
