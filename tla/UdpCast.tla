------------------------------- MODULE UdpCast -------------------------------
(***************************************************************************)
(* The screen cast over UDP between two phones, the transport the build    *)
(* selects (MyJni: USE_TRANSMISSION_FOR_JNI = USE_TCP = FALSE).            *)
(*                                                                         *)
(* MediaClientService encodes frames; MediaClient cuts a frame larger than *)
(* LIMIT_DATA into datagrams numbered from 1; MediaServer's receive thread *)
(* puts them together again and hands whole frames to MyJni's play queue;  *)
(* PlayerActivity's decode thread takes them, dropping frames when it is   *)
(* late.  A set-up by position precedes the frames: the client's info,     *)
(* then two SPS/PPS blocks.  The network loses, repeats and reorders.      *)
(*                                                                         *)
(* The bytes of a frame are the pairs <<frame, part>> of its datagrams.    *)
(* The server tells frames apart by their size alone; `mixed' is a history *)
(* of the frames for which it counted a part of another frame of the size. *)
(* The phone keeps its orientation here.  The answers the server sends for *)
(* key frames are left out: nobody reads them (MediaClient's reader is     *)
(* commented out).                                                         *)
(***************************************************************************)
EXTENDS Integers, Sequences, FiniteSets

CONSTANTS
    LimitData,      \* LIMIT_DATA, the bytes of a frame that fit in a datagram
    Lengths,        \* Lengths[i], the sizes frame i of the encoder may have
    QueueLength,    \* QUEUE_LENGTH of the play queue (50 in the code)
    DrainAfter,     \* takes after which getData() drops frames (10 in the code)
    DelaySuffices,  \* the 2 s sleep outlasts the server's set-up
    MaxInFlight,    \* bound: datagrams in the network
    Faults,         \* what the network does: "lose", "duplicate", "reorder"
    MaxFaults       \* bound: how often it does it

FaultKinds == {"lose", "duplicate", "reorder"}

ASSUME UdpCastAssumption ==
    /\ {LimitData, QueueLength, MaxInFlight} \subseteq Nat \ {0}
    /\ {DrainAfter, MaxFaults} \subseteq Nat /\ DrainAfter >= 2
    /\ Lengths \in Seq(SUBSET (Nat \ {0}))
    /\ DelaySuffices \in BOOLEAN
    /\ Faults \subseteq FaultKinds

VARIABLES
    client,         \* "info", "sps", "pps", "sleep", "frames" or "closed"
    encoded,        \* frames the encoder has put out
    mIsKeyFrameWrite, \* a key frame has been sent
    net,            \* the datagrams on their way, in order
    faults,         \* how often the network did each kind
    phase,          \* where receiveDataForUDP() is
    needToAbandon, count, tempLength, tempData, list,
    mixed,          \* frames that another frame of the same size ran into
    setInfo,        \* the set_info event on its way to MyJni: "none", "good", "bad"
    mime,           \* VIDEO_MIME1 is known
    queueOpen,      \* mPlayQueue1 # null
    mPlayQueue1, mTakeCount1,
    player,         \* PlayerActivity's window and decode thread
    size1,          \* the local of drainFrame(queue, takeCount)
    config,         \* what prepare1() took for the two SPS/PPS blocks
    decoded         \* the frames fed to the decoder

clientVars == <<client, encoded, mIsKeyFrameWrite>>
assemblyVars == <<count, tempLength, tempData, mixed>>
serverVars == <<phase, needToAbandon, assemblyVars, list>>
jniVars == <<setInfo, mime, queueOpen, mPlayQueue1, mTakeCount1>>
playerVars == <<player, size1, config, decoded>>
vars == <<clientVars, net, faults, serverVars, jniVars, playerVars>>

-----------------------------------------------------------------------------
(* Datagrams and frames *)

Complete == 60040       \* the count field of a frame that fits in a datagram

Parts(length) == length \div LimitData + (IF length % LimitData # 0 THEN 1 ELSE 0)

MaxFrames == Len(Lengths)
AllLengths == UNION {Lengths[i] : i \in 1..MaxFrames}
MaxParts == LET most == {Parts(n) : n \in AllLengths}
            IN  CHOOSE m \in most \cup {1} : \A n \in most : n <= m

Datagram == [kind : {"info", "config", "frame"}, id : 0..MaxFrames, key : BOOLEAN,
             length : AllLengths \cup {1}, count : 0..MaxParts \cup {Complete}]

(* A byte range of a buffer: the frame and part it came from; <<0, 0>> is a *)
(* range that nothing was copied to.                                        *)
Chunk == (0..MaxFrames) \X (0..MaxParts)

(* What the play queue holds.  A block put by the set-up has no trailer: it *)
(* never looks like a key frame.                                            *)
Item == [kind : {"info", "config", "frame", "raw"}, key : BOOLEAN,
         length : AllLengths \cup {1}, parts : Seq(Chunk)]

SetupDatagram(kind) ==
    [kind |-> kind, id |-> 0, key |-> FALSE, length |-> 1, count |-> 0]

Datagrams(id, key, length) ==
    LET datagram(c) == [kind |-> "frame", id |-> id, key |-> key,
                        length |-> length, count |-> c]
    IN  IF length <= LimitData THEN <<datagram(Complete)>>
        ELSE [c \in 1..Parts(length) |-> datagram(c)]

TypeOK ==
    /\ client \in {"info", "sps", "pps", "sleep", "frames", "closed"}
    /\ encoded \in 0..MaxFrames
    /\ mIsKeyFrameWrite \in BOOLEAN
    /\ net \in Seq(Datagram)
    /\ faults \in [FaultKinds -> 0..MaxFaults]
    /\ phase \in {"info", "sps", "pps", "loop", "drain", "closed", "thrown", "crashed"}
    /\ needToAbandon \in BOOLEAN
    /\ count \in Nat
    /\ tempLength \in AllLengths \cup {0}
    /\ tempData \in Seq(Chunk)
    /\ list \in Seq(Item)
    /\ mixed \subseteq 1..MaxFrames
    /\ setInfo \in {"none", "good", "bad"}
    /\ mime \in BOOLEAN /\ queueOpen \in BOOLEAN
    /\ mPlayQueue1 \in Seq(Item) /\ Len(mPlayQueue1) <= QueueLength
    /\ mTakeCount1 \in 0..DrainAfter
    /\ player \in {"none", "prepare", "prepare2", "start", "drain", "check",
                   "drain2", "take", "failed", "closed"}
    /\ size1 \in Nat
    /\ config \in Seq(Item)
    /\ decoded \in Seq(Item)

Init ==
    /\ client = "info" /\ encoded = 0 /\ mIsKeyFrameWrite = FALSE
    /\ net = <<>> /\ faults = [kind \in FaultKinds |-> 0]
    /\ phase = "info" /\ needToAbandon = FALSE
    /\ count = 0 /\ tempLength = 0 /\ tempData = <<>> /\ list = <<>>
    /\ mixed = {}
    /\ setInfo = "none" /\ mime = FALSE
    /\ queueOpen = FALSE /\ mPlayQueue1 = <<>> /\ mTakeCount1 = 0
    /\ player = "none" /\ size1 = 0 /\ config = <<>> /\ decoded = <<>>

-----------------------------------------------------------------------------
(* The client.  sendDataForUDP() is synchronized, so the datagrams of a    *)
(* frame are sent together; a send that fails closes the client.           *)

After(c) == CASE c = "info" -> "sps" [] c = "sps" -> "pps" [] c = "pps" -> "sleep"

SendSetup ==
    /\ client \in {"info", "sps", "pps"}
    /\ Len(net) < MaxInFlight
    /\ net' = Append(net, SetupDatagram(IF client = "info" THEN "info" ELSE "config"))
    /\ client' = After(client)
    /\ UNCHANGED <<encoded, mIsKeyFrameWrite, faults, serverVars, jniVars, playerVars>>

SleepEnds ==
    /\ client = "sleep"
    /\ DelaySuffices => queueOpen
    /\ client' = "frames"
    /\ UNCHANGED <<encoded, mIsKeyFrameWrite, net, faults, serverVars, jniVars, playerVars>>

(* Mutant: frames are sent from the first one on. *)
EncodeUngated(key, length) ==
    /\ client = "frames"
    /\ encoded < MaxFrames /\ length \in Lengths[encoded + 1]
    /\ encoded' = encoded + 1
    /\ Len(net) + Parts(length) <= MaxInFlight
    /\ mIsKeyFrameWrite' = TRUE
    /\ net' = net \o Datagrams(encoded', key, length)
    /\ UNCHANGED <<client, faults, serverVars, jniVars, playerVars>>

Encode(key, length) ==
    /\ client = "frames"
    /\ encoded < MaxFrames /\ length \in Lengths[encoded + 1]
    /\ encoded' = encoded + 1
    /\ IF mIsKeyFrameWrite \/ key
         THEN /\ Len(net) + Parts(length) <= MaxInFlight
              /\ mIsKeyFrameWrite' = TRUE
              /\ net' = net \o Datagrams(encoded', key, length)
         ELSE UNCHANGED <<mIsKeyFrameWrite, net>>
    /\ UNCHANGED <<client, faults, serverVars, jniVars, playerVars>>

SendFails(key, length, sent) ==
    /\ client = "frames" /\ (mIsKeyFrameWrite \/ key)
    /\ encoded < MaxFrames /\ length \in Lengths[encoded + 1]
    /\ Len(net) + sent <= MaxInFlight
    /\ encoded' = encoded + 1
    /\ mIsKeyFrameWrite' = TRUE
    /\ net' = net \o SubSeq(Datagrams(encoded', key, length), 1, sent)
    /\ client' = "closed"
    /\ UNCHANGED <<faults, serverVars, jniVars, playerVars>>

-----------------------------------------------------------------------------
(* The network *)

Fault(kind) ==
    /\ kind \in Faults
    /\ faults["lose"] + faults["duplicate"] + faults["reorder"] < MaxFaults
    /\ faults' = [faults EXCEPT ![kind] = @ + 1]
    /\ UNCHANGED <<clientVars, serverVars, jniVars, playerVars>>

Lose(i) ==
    /\ Fault("lose")
    /\ net' = SubSeq(net, 1, i - 1) \o SubSeq(net, i + 1, Len(net))

Duplicate(i) ==
    /\ Fault("duplicate") /\ Len(net) < MaxInFlight
    /\ net' = SubSeq(net, 1, i) \o SubSeq(net, i, Len(net))

Reorder(i) ==
    /\ Fault("reorder") /\ i < Len(net)
    /\ net' = [net EXCEPT ![i] = net[i + 1], ![i + 1] = net[i]]

-----------------------------------------------------------------------------
(* The server's receive thread.  It parses by position until it has        *)
(* received three datagrams, whatever they are; a block longer than a      *)
(* datagram then overruns the buffer, and only IOException is caught.      *)

Received(p) ==
    /\ phase = p /\ net # <<>>
    /\ net' = Tail(net)
    /\ UNCHANGED <<clientVars, faults>>

datagram == Head(net)

(* MyJni.putData() waits while the queue is full and drops the frame when   *)
(* there is no queue yet, or no more.                                       *)
PutData(item) ==
    IF queueOpen
      THEN Len(mPlayQueue1) < QueueLength /\ mPlayQueue1' = Append(mPlayQueue1, item)
      ELSE UNCHANGED mPlayQueue1

ReceiveInfo ==
    /\ Received("info")
    /\ IF datagram.length > LimitData
         THEN phase' = "crashed" /\ UNCHANGED setInfo
         ELSE phase' = "sps" /\ setInfo' = IF datagram.kind = "info" THEN "good" ELSE "bad"
    /\ UNCHANGED <<needToAbandon, assemblyVars, list, mime, queueOpen, mPlayQueue1,
                   mTakeCount1, playerVars>>

(* connected: the outcome of connect(), which opens the TCP connection for  *)
(* the answers after the second block.                                      *)
ReceiveConfig(p, connected) ==
    /\ Received(p)
    /\ IF datagram.length > LimitData
         THEN phase' = "crashed" /\ UNCHANGED mPlayQueue1
         ELSE /\ phase' = CASE p = "sps" -> "pps"
                            [] p = "pps" -> IF connected THEN "loop" ELSE "closed"
              /\ PutData([kind |-> IF datagram.kind = "config" THEN "config" ELSE "raw",
                          key |-> FALSE, length |-> datagram.length,
                          parts |-> <<<<datagram.id, 1>>>>])
    /\ UNCHANGED <<needToAbandon, assemblyVars, list, setInfo, mime, queueOpen,
                   mTakeCount1, playerVars>>

Abandoning == needToAbandon /\ ~datagram.key

Abandon ==
    /\ Received("loop") /\ Abandoning
    /\ UNCHANGED <<serverVars, jniVars, playerVars>>

(* Any datagram that is not abandoned ends the abandoning. *)
Accepted ==
    /\ Received("loop") /\ ~Abandoning
    /\ needToAbandon' = FALSE
    /\ UNCHANGED <<setInfo, mime, queueOpen, mTakeCount1, playerVars>>

(* Mutant: the assembly is not reset when the frame is complete. *)
ResetAssemblyForgotten == count' = count + 1 /\ UNCHANGED <<tempLength, tempData>>

(* tempData is not written again before a first part replaces it. *)
ResetAssembly == count' = 0 /\ tempLength' = 0 /\ tempData' = <<>>

ReceiveWhole ==
    /\ Accepted /\ datagram.length <= LimitData
    /\ PutData([kind |-> datagram.kind, key |-> datagram.key, length |-> datagram.length,
                parts |-> <<<<datagram.id, 1>>>>])
    /\ ResetAssembly
    /\ UNCHANGED <<phase, list, mixed>>

IsFirst == datagram.length > LimitData /\ datagram.count = 1

ReceiveFirst ==
    /\ Accepted /\ IsFirst
    /\ tempLength' = datagram.length
    /\ count' = 1
    /\ tempData' = [i \in 1..Parts(datagram.length) |->
                        IF i = 1 THEN <<datagram.id, 1>> ELSE <<0, 0>>]
    /\ UNCHANGED <<phase, list, mixed, mPlayQueue1>>

IsLater == datagram.length > LimitData /\ datagram.count # 1

Fits == tempLength # 0 /\ tempLength = datagram.length

(* Mutant: the datagram's own number is taken for the count. *)
CountedAsNumbered == count' = datagram.count

Counted == count' = count + 1

(* The frame that is put together is the one whose first part came last.   *)
Owner == tempData[1][1]

(* History: the part that is counted is another frame's.                   *)
Mixing ==
    mixed' = mixed \cup
        IF datagram.id # Owner /\ datagram.length = tempLength THEN {Owner} ELSE {}

CopyTo(n) == [tempData EXCEPT ![n] = <<datagram.id, datagram.count>>]

(* Mutant: the number of a key frame's datagram is not compared. *)
OutOfStepNever == FALSE

(* The number in a key frame's datagram is not the one counted here: the    *)
(* datagram is thrown away, and still counted.                              *)
OutOfStep == datagram.key /\ count + 1 # datagram.count

ReceiveOutOfStep ==
    /\ Accepted /\ IsLater /\ Fits /\ OutOfStep
    /\ Counted /\ Mixing
    /\ UNCHANGED <<phase, tempLength, tempData, list, mPlayQueue1>>

ReceiveNext ==
    /\ Accepted /\ IsLater /\ Fits /\ ~OutOfStep
    /\ count + 1 < Parts(tempLength)
    /\ Counted /\ Mixing
    /\ tempData' = CopyTo(count + 1)
    /\ UNCHANGED <<phase, tempLength, list, mPlayQueue1>>

(* The last part.  When more were counted than the frame has, len is       *)
(* negative and the copy throws: the server closes; a len of 0 copies      *)
(* nothing.                                                                *)
ReceiveLast ==
    /\ Accepted /\ IsLater /\ Fits /\ ~OutOfStep
    /\ count + 1 >= Parts(tempLength)
    /\ LET len  == tempLength - count * LimitData
           data == IF len > 0 THEN CopyTo(count + 1) ELSE tempData
       IN  IF len < 0
             THEN /\ phase' = "thrown" /\ Counted
                  /\ UNCHANGED <<tempLength, tempData, mPlayQueue1>>
             ELSE /\ PutData([kind |-> "frame", key |-> datagram.key,
                              length |-> tempLength, parts |-> data])
                  /\ ResetAssembly
                  /\ UNCHANGED phase
    /\ Mixing /\ UNCHANGED list

(* A part that fits nothing.  For a key frame the client is told (and does *)
(* not listen); otherwise the rest of the group of pictures is given up,   *)
(* and drainFrame() begins by copying the queue.                           *)
ReceiveStray ==
    /\ Received("loop") /\ ~Abandoning
    /\ IsLater /\ ~Fits
    /\ needToAbandon' = ~datagram.key
    /\ IF ~datagram.key /\ queueOpen /\ mPlayQueue1 # <<>>
         THEN phase' = "drain" /\ list' = mPlayQueue1
         ELSE UNCHANGED <<phase, list>>
    /\ UNCHANGED <<assemblyVars, jniVars, playerVars>>

(* The rest of drainFrame(), when the player may have taken frames since    *)
(* the copy was made.  Frames behind the last key frame are removed from    *)
(* the copy by index while it shrinks: with two or more of them the index   *)
(* runs over the end, the exception is swallowed and the queue stays as it  *)
(* is.                                                                      *)
DrainFrame ==
    /\ phase = "drain"
    /\ phase' = "loop" /\ list' = <<>>
    /\ LET keys == {i \in 1..Len(list) : list[i].key}
           index == CHOOSE i \in keys : \A j \in keys : j <= i
       IN  mPlayQueue1' = IF ~queueOpen THEN mPlayQueue1
                          ELSE IF keys = {} THEN <<>>
                          ELSE IF Len(list) - index >= 2 THEN mPlayQueue1
                          ELSE SubSeq(list, 1, index)
    /\ UNCHANGED <<clientVars, net, faults, needToAbandon, assemblyVars, setInfo, mime,
                   queueOpen, mTakeCount1, playerVars>>

-----------------------------------------------------------------------------
(* MyJni and the player *)

(* Mutant: the player is not started. *)
OnSetInfoNoPlayer ==
    /\ setInfo # "none"
    /\ setInfo' = "none"
    /\ mime' = (setInfo = "good")
    /\ queueOpen' = TRUE /\ mTakeCount1' = 0
    /\ UNCHANGED <<clientVars, net, faults, serverVars, mPlayQueue1, playerVars>>

(* onEvent(set_info) on the event thread: the queue is made, the player is  *)
(* started, the info is parsed (and throws if it is not one).               *)
OnSetInfo ==
    /\ setInfo # "none"
    /\ setInfo' = "none"
    /\ mime' = (setInfo = "good")
    /\ queueOpen' = TRUE /\ mTakeCount1' = 0
    /\ player' = "prepare"
    /\ UNCHANGED <<clientVars, net, faults, serverVars, mPlayQueue1, size1, config, decoded>>

PlayerStep ==
    UNCHANGED <<clientVars, net, faults, serverVars, setInfo, mime>>

Taken == IF mTakeCount1 < DrainAfter THEN mTakeCount1 + 1 ELSE mTakeCount1

PrepareFails ==
    /\ player = "prepare" /\ ~mime
    /\ player' = "failed"
    /\ PlayerStep /\ UNCHANGED <<queueOpen, mPlayQueue1, mTakeCount1, size1, config, decoded>>

(* prepare1() takes two blocks for the SPS/PPS.  These takes are the first, *)
(* so getData() drops nothing.                                              *)
PrepareTakes ==
    /\ \/ player = "prepare" /\ mime /\ player' = "prepare2"
       \/ player = "prepare2" /\ player' = "start"
    /\ mPlayQueue1 # <<>>
    /\ config' = Append(config, Head(mPlayQueue1))
    /\ mPlayQueue1' = Tail(mPlayQueue1)
    /\ mTakeCount1' = Taken
    /\ PlayerStep /\ UNCHANGED <<queueOpen, size1, decoded>>

(* handleSpsPps(), configure() and start() of the decoder may fail. *)
PlayerStarts ==
    /\ player = "start"
    /\ player' \in {"drain", "failed"}
    /\ PlayerStep /\ UNCHANGED <<queueOpen, mPlayQueue1, mTakeCount1, size1, config, decoded>>

(* surfaceDestroyed() *)
PlayerCloses ==
    /\ player \in {"drain", "check", "drain2", "take"}
    /\ player' = "closed"
    /\ queueOpen' = FALSE /\ mPlayQueue1' = <<>> /\ mTakeCount1' = 0
    /\ PlayerStep /\ UNCHANGED <<size1, config, decoded>>

(* getData() in the decode thread: drainFrame(queue, takeCount) and take().  *)
(* The receive thread may put frames between the steps.                      *)

KeysOf(q) == {i \in 1..Len(q) : q[i].key}
FirstKey(q) == CHOOSE i \in KeysOf(q) : \A j \in KeysOf(q) : i <= j

(* The frames before the first key frame are dropped. *)
Drain ==
    /\ player = "drain"
    /\ mTakeCount1' = Taken
    /\ size1' = Len(mPlayQueue1)
    /\ IF mTakeCount1 >= DrainAfter /\ KeysOf(mPlayQueue1) # {} /\ FirstKey(mPlayQueue1) > 1
         THEN /\ mPlayQueue1' = SubSeq(mPlayQueue1, FirstKey(mPlayQueue1), Len(mPlayQueue1))
              /\ player' = "check"
         ELSE player' = "take" /\ UNCHANGED mPlayQueue1
    /\ PlayerStep /\ UNCHANGED <<queueOpen, config, decoded>>

(* Is there a second key frame?  The loop also answers yes when the only    *)
(* key frame is the last frame in the queue.                                *)
Check ==
    /\ player = "check"
    /\ LET keys == KeysOf(mPlayQueue1)
       IN  player' = IF /\ size1 > Len(mPlayQueue1)
                        /\ \/ Cardinality(keys) >= 2
                           \/ keys # {} /\ mPlayQueue1[Len(mPlayQueue1)].key
                     THEN "drain2" ELSE "take"
    /\ PlayerStep /\ UNCHANGED <<queueOpen, mPlayQueue1, mTakeCount1, size1, config, decoded>>

(* The frames between the first key frame and the second, or the end of     *)
(* what the queue holds by now, are dropped.                                *)
Drain2 ==
    /\ player = "drain2"
    /\ LET keysUpTo(i) == Cardinality({k \in KeysOf(mPlayQueue1) : k <= i})
           kept == {i \in 1..Len(mPlayQueue1) : mPlayQueue1[i].key \/ keysUpTo(i) >= 2}
           nth(n) == CHOOSE i \in kept : Cardinality({j \in kept : j <= i}) = n
       IN  mPlayQueue1' = [n \in 1..Cardinality(kept) |-> mPlayQueue1[nth(n)]]
    /\ player' = "take"
    /\ PlayerStep /\ UNCHANGED <<queueOpen, mTakeCount1, size1, config, decoded>>

(* take(), and the decoder is fed, which may fail. *)
Take ==
    /\ player = "take" /\ mPlayQueue1 # <<>>
    /\ decoded' = Append(decoded, Head(mPlayQueue1))
    /\ mPlayQueue1' = Tail(mPlayQueue1)
    /\ player' \in {"drain", "failed"}
    /\ PlayerStep /\ UNCHANGED <<queueOpen, mTakeCount1, size1, config>>

-----------------------------------------------------------------------------
Client ==
    \/ SendSetup \/ SleepEnds
    \/ \E key \in BOOLEAN, length \in AllLengths :
           \/ Encode(key, length)
           \/ \E sent \in 0..(Parts(length) - 1) : SendFails(key, length, sent)

Network == \E i \in 1..Len(net) : Lose(i) \/ Duplicate(i) \/ Reorder(i)

Server ==
    \/ ReceiveInfo
    \/ \E p \in {"sps", "pps"}, connected \in BOOLEAN : ReceiveConfig(p, connected)
    \/ Abandon \/ ReceiveWhole \/ ReceiveFirst \/ ReceiveOutOfStep \/ ReceiveNext
    \/ ReceiveLast \/ ReceiveStray \/ DrainFrame

DecodeThread == Drain \/ Check \/ Drain2 \/ Take

Player == PrepareFails \/ PrepareTakes \/ PlayerStarts \/ DecodeThread

Next == Client \/ Network \/ Server \/ OnSetInfo \/ Player \/ PlayerCloses

(* The receive thread, the event thread and the player's threads run; the   *)
(* client and the network owe nothing.                                      *)
Fairness == WF_vars(Server) /\ WF_vars(OnSetInfo) /\ WF_vars(Player)

Spec == Init /\ [][Next]_vars /\ Fairness

-----------------------------------------------------------------------------
(* Properties *)

Whole(item) ==
    /\ Len(item.parts) = Parts(item.length)
    /\ \A i \in 1..Len(item.parts) : item.parts[i] = <<item.parts[1][1], i>>

InPlace(item) ==
    /\ Len(item.parts) = Parts(item.length)
    /\ \A i \in 1..Len(item.parts) : item.parts[i] \in {<<item.parts[1][1], i>>, <<0, 0>>}

FrameIn(q, i) == i \in 1..Len(q) /\ q[i].kind = "frame"
IdOf(item) == item.parts[1][1]

(* The network did nothing but what is in kinds. *)
Only(kinds) == \A kind \in FaultKinds \ kinds : faults[kind] = 0

(* A frame that was put together, and no other frame of its size ran into.  *)
Unmixed(q, i) == FrameIn(q, i) /\ IdOf(q[i]) \notin mixed

(* receiveDataForUDP() puts a frame together from all the parts of one      *)
(* frame the encoder put out, each in its place, whatever is lost on the    *)
(* way, unless it counted a part of another frame of the same size.         *)
WholeFrames ==
    Only({"lose"}) =>
        \A q \in {mPlayQueue1, decoded} : \A i \in 1..Len(q) : Unmixed(q, i) => Whole(q[i])

(* Of key frames the datagrams' numbers are compared with the ones counted: *)
(* whatever the network does, a part is copied to its own place or left     *)
(* out, and when datagrams are only repeated none is left out, unless a     *)
(* part of another frame of the same size was counted.                      *)
KeyFramesWhole ==
    \A q \in {mPlayQueue1, decoded} : \A i \in 1..Len(q) :
        Unmixed(q, i) /\ q[i].key => InPlace(q[i]) /\ (Only({"duplicate"}) => Whole(q[i]))

(* The copy of the last part never runs over the frame's buffer, which ends *)
(* the cast, unless a part of another frame of the same size was counted:   *)
(* losses, repetitions and exchanges within a frame never do it.            *)
CopyInside == phase = "thrown" => Owner \in mixed

Configured == \A i \in 1..Len(config) : config[i].kind = "config"

(* A frame that refers to the one before it is fed to the decoder only      *)
(* right after that one: while the network does nothing, a frame of a group *)
(* of pictures that is missing takes the rest of the group with it (the     *)
(* purpose of the key frame gate in MediaClientService and of the decode    *)
(* thread's drainFrame()).                                                  *)
GopIntact ==
    Configured /\ Only({}) => \A i \in 1..Len(decoded) :
        FrameIn(decoded, i) /\ ~decoded[i].key =>
            FrameIn(decoded, i - 1) /\ IdOf(decoded[i - 1]) = IdOf(decoded[i]) - 1

Ended == \/ client = "closed" \/ phase \in {"closed", "thrown", "crashed"}
         \/ player \in {"failed", "closed"} \/ ~Configured

(* On a network that loses nothing every frame the client sends reaches the *)
(* decoder, unless an end of the cast fails.                                *)
FramesArrive ==
    \A id \in 1..MaxFrames :
        (\E i \in 1..Len(net) : net[i].id = id)
            ~> (Ended \/ \E i \in 1..Len(decoded) : IdOf(decoded[i]) = id)

-----------------------------------------------------------------------------
(* What a comment in the code says, and the code does not do *)

(* MyJni.java:478: "index之后的帧都是非关键帧,与被丢失的帧是同一个GOP,       *)
(* 需要都主动抛弃".  When drainFrame() is done no frame is queued behind the *)
(* last key frame.                                                          *)
DrainsWholeGop ==
    [][phase = "drain" /\ phase' = "loop" =>
        (mPlayQueue1' = <<>> \/ mPlayQueue1'[Len(mPlayQueue1')].key)]_vars

=============================================================================
