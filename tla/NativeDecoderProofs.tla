-------------------------- MODULE NativeDecoderProofs --------------------------
(***************************************************************************)
(* Proofs about NativeDecoder, for any number of connections, frames,      *)
(* rotations, surfaces and decoder threads.                                *)
(***************************************************************************)
EXTENDS NativeDecoder, FiniteSetTheorems, WellFoundedInduction, TLAPS

D == 1 .. Decoders
Frame == [n : Nat, key : BOOLEAN, o : Orientation]
Pcs == {"none", "begin", "while", "get", "wait", "woken", "filter", "compare", "sps", "mark", "feed",
        "free", "clear", "dead"}
Places == {"out", "test", "go", "check", "signal"}
DecRec == [pc : Pcs, codec : 0 .. Sessions, frame : Frame]

Types ==
  /\ dev \in [o : Orientation, due : BOOLEAN, gone : BOOLEAN]
  /\ sent \in [frames : Nat, rotations : Nat]
  /\ rx \in {"idle", "codec", "format", "start", "loop", "signal"}
  /\ session \in 0 .. Sessions /\ codec \in 0 .. Sessions
  /\ starter \in [Starters -> Places]
  /\ starter["rx"] # "out" <=> rx = "start"
  /\ starter["rx"] # "signal"
  /\ playing \in BOOLEAN
  /\ list \in Seq(Frame) /\ cur \in Orientation /\ pre \in Orientation
  /\ dec \in [D -> DecRec]
  /\ fed \in [0 .. Sessions -> [n : Nat, o : {0} \cup Orientation]]

(* One decoder at a time, and the codec it was given is the session's.     *)
Over == rx \in {"signal", "idle"}
Life ==
  /\ "uaf" \notin harm
  /\ codec <= session /\ (codec # 0 => codec \in alive)
  /\ rx = "codec" => codec # session /\ \A d \in D : ~Running(d)
  /\ rx \notin {"idle"} => session > 0
  /\ \A d, e \in D : Running(d) /\ Running(e) => d = e
  /\ \A d \in D : dec[d].pc = "clear" => codec = 0
  /\ \A d \in D : Running(d) /\ dec[d].pc # "clear" =>
       /\ codec = session /\ codec # 0
       /\ dec[d].pc # "begin" => dec[d].codec = codec
  /\ Over => ~playing
  /\ \A t, u \in Starters : starter[t] = "check" /\ starter[u] = "check" => t = u
  /\ \A t \in Starters : starter[t] = "check" =>
       /\ \A d \in D : ~Running(d)
       /\ playing => codec = session /\ codec # 0 /\ ~Over
  /\ starter["ui"] = "signal" => ~playing

(* Before the receive loop nothing is queued.                              *)
Quiet ==
  rx \in {"codec", "format", "start"} =>
    /\ list = <<>> /\ dev.due
    /\ \A d \in D : dec[d].pc \in {"none", "dead", "begin", "while", "get", "wait", "woken", "free", "clear"}

(* A decoder is woken when there is a frame, or nothing more to do.        *)
Woken ==
  /\ "front" \notin harm
  /\ \A d \in D : dec[d].pc = "woken" => list # <<>> \/ ~playing

(* The frame in hand and the list are the last frames sent, in order; a    *)
(* frame that is no key frame has the orientation of the one before it.    *)
Has(d) == dec[d].pc \in {"filter", "compare", "sps", "mark", "feed"}
Queue ==
  /\ \A i \in 1 .. Len(list) : list[i].n = sent.frames - Len(list) + i
  /\ \A i \in 2 .. Len(list) : ~list[i].key => list[i].o = list[i - 1].o
  /\ \A d \in D : Has(d) => /\ dec[d].frame.n = sent.frames - Len(list)
                            /\ list # <<>> /\ ~list[1].key => list[1].o = dec[d].frame.o
                            /\ list = <<>> /\ ~dev.due => dec[d].frame.o = dev.o
  /\ list # <<>> /\ ~dev.due => list[Len(list)].o = dev.o

(* What was fed last is what the next frame to be fed builds on.           *)
Feeding == codec # 0 /\ codec = session /\ \A d \in D : dec[d].pc # "free"
Ready ==
  /\ fed[codec].n <= sent.frames - Len(list)
  /\ \A d \in D : Has(d) =>
       /\ fed[codec].n < dec[d].frame.n
       /\ ~dec[d].frame.key => \/ fed[codec].n = dec[d].frame.n - 1
                               \/ dec[d].pc = "filter" /\ dec[d].frame.o # cur
  /\ (\A d \in D : ~Has(d)) =>
       /\ list # <<>> /\ ~list[1].key => fed[codec].n = list[1].n - 1 \/ list[1].o # cur
       /\ list = <<>> /\ ~dev.due => fed[codec].n = sent.frames
Chain ==
  /\ "torn" \notin harm
  /\ \A s \in 0 .. Sessions : s > session \/ (s = session /\ rx = "codec") => fed[s].n = 0
  /\ rx = "codec" \/ Feeding => cur = dev.o
  /\ Feeding => Ready

(* The parameter sets the codec has are those of isPrePortrait1, once the  *)
(* decoder has begun.                                                      *)
Begun(d) == dec[d].pc \notin {"none", "begin", "free", "clear", "dead"}
InUse(d) == dec[d].pc \in {"compare", "sps", "mark", "feed"}
Configured ==
  /\ \A d \in D : Begun(d) => fed[codec].o = IF dec[d].pc = "mark" THEN cur ELSE pre
  /\ (\A d \in D : ~Begun(d)) => fed[codec].o = dev.o
  /\ \A d \in D : InUse(d) => dec[d].frame.o = cur
  /\ \A d \in D : dec[d].pc = "feed" => pre = cur
Stocked == IF dev.gone THEN list = <<>> /\ \A d \in D : ~Has(d) ELSE Orientation \subseteq sps
Parameters ==
  /\ "config" \notin harm
  /\ rx = "codec" \/ Feeding => cur = dev.o /\ Stocked
  /\ Feeding /\ rx = "format" => \A d \in D : Begun(d) => pre = dev.o
  /\ Feeding /\ rx # "format" /\ ~dev.gone => Configured

Clean(cs) == causes \cap cs = {}
IInv ==
  /\ Types
  /\ Clean(Lifecycle) => Life /\ Quiet /\ Queue
  /\ Clean(Lifecycle \cup {"spurious"}) => Woken
  /\ Clean(Lifecycle \cup {"busy", "again"}) => Chain
  /\ Clean(Lifecycle \cup {"turn", "early", "busy"}) => Parameters
-----------------------------------------------------------------------------
(* The minimum of a set of numbers is one of them, and the least.          *)
LEMMA MinOfNats ==
  ASSUME NEW T \in SUBSET Nat, T # {}
  PROVE  Min(T) \in T /\ \A y \in T : Min(T) <= y
<1>1. \E x \in T : \A y \in T : ~ (<<y, x>> \in OpToRel(<, Nat))
  <2>1. IsWellFoundedOn(OpToRel(<, Nat), Nat)
    BY NatLessThanWellFounded
  <2> HIDE DEF OpToRel
  <2> QED
    BY <2>1, WFMin
<1>2. PICK x \in T : \A y \in T : ~ (<<y, x>> \in OpToRel(<, Nat))
  BY <1>1
<1>3. \A y \in T : x =< y
  <2> TAKE y \in T
  <2>1. <<y, x>> \notin OpToRel(<, Nat)
    BY <1>2
  <2>2. ~ (y < x)
    BY <2>1 DEF OpToRel
  <2> QED
    BY <2>2
<1> QED
  BY <1>3 DEF Min

(* drainFrame() leaves the end of the list, from its head or from a key    *)
(* frame on; in particular it never empties a list.                        *)
LEMMA DrainLeaves ==
  ASSUME NEW l \in Seq(Frame), l # <<>>
  PROVE  \E k \in 1 .. Len(l) : (k = 1 \/ l[k].key) /\ drainFrame(l) = SubSeq(l, k, Len(l))
<1>0. Len(l) \in Nat /\ Len(l) >= 1 /\ DOMAIN l = 1 .. Len(l)
  OBVIOUS
<1>1. CASE Keys(l) = {} \/ 1 \in Keys(l)
  <2>1. drainFrame(l) = l
    BY <1>1 DEF drainFrame
  <2>2. l = SubSeq(l, 1, Len(l))
    OBVIOUS
  <2> QED
    BY <1>0, <2>1, <2>2
<1>2. CASE Keys(l) # {} /\ 1 \notin Keys(l)
  <2> DEFINE k == Min(Keys(l))
             m == DropToKey(l)
  <2>1. Keys(l) \in SUBSET Nat
    BY <1>0 DEF Keys
  <2>2. k \in Keys(l)
    BY <1>2, <2>1, MinOfNats
  <2>3. k \in 1 .. Len(l) /\ l[k].key
    BY <1>0, <2>2 DEF Keys
  <2> HIDE DEF k
  <2>4. m = SubSeq(l, k, Len(l))
    BY DEF DropToKey, k
  <2>5. m \in Seq(Frame) /\ Len(m) = Len(l) - k + 1 /\ m[1] = l[k] /\ Len(m) >= 1
    BY <1>0, <2>3, <2>4
  <2> HIDE DEF m
  <2>6. 1 \in Keys(m) /\ Keys(m) \in SUBSET Nat /\ \A i \in Keys(m) : i >= 1
    BY <2>3, <2>5 DEF Keys
  <2>7. Min(Keys(m)) = 1
    <3>1. Min(Keys(m)) \in Keys(m) /\ Min(Keys(m)) <= 1
      BY <2>6, MinOfNats
    <3> QED
      BY <2>6, <3>1
  <2>8. DropToKey(m) = m
    BY <2>5, <2>7 DEF DropToKey
  <2>9. drainFrame(l) = m
    BY <1>2, <2>8 DEF drainFrame, m
  <2> QED
    BY <2>3, <2>4, <2>9
<1> QED
  BY <1>1, <1>2

LEMMA NoFrameIsFrame == NoFrame \in Frame
BY DEF NoFrame, Frame, Orientation

(* A step changes the record of one decoder.                               *)
Touch(d, p, c, f) ==
  /\ dec' \in [D -> DecRec]
  /\ \A e \in D : e # d => dec'[e] = dec[e]
  /\ dec'[d].pc = p /\ dec'[d].codec = c /\ dec'[d].frame = f
Keep(d, p) == Touch(d, p, dec[d].codec, dec[d].frame)

LEMMA Touches ==
  ASSUME Types, NEW d \in D, NEW p \in Pcs
  PROVE  /\ dec' = [dec EXCEPT ![d].pc = p] => Keep(d, p)
         /\ \A c \in 0 .. Sessions :
              dec' = [dec EXCEPT ![d].pc = p, ![d].codec = c] => Touch(d, p, c, dec[d].frame)
         /\ \A f \in Frame :
              dec' = [dec EXCEPT ![d].pc = p, ![d].frame = f] => Touch(d, p, dec[d].codec, f)
         /\ dec' = [dec EXCEPT ![d] = [NoDec EXCEPT !.pc = p]] => Touch(d, p, 0, NoFrame)
<1>1. dec \in [D -> DecRec] /\ dec[d] \in DecRec
  BY DEF Types
<1>2. ASSUME dec' = [dec EXCEPT ![d].pc = p] PROVE Keep(d, p)
  <2>1. [dec[d] EXCEPT !.pc = p] \in DecRec
    BY <1>1 DEF DecRec
  <2>2. \A e \in D : dec'[e] = IF e = d THEN [dec[d] EXCEPT !.pc = p] ELSE dec[e]
    BY <1>1, <1>2
  <2>3. dec' \in [D -> DecRec]
    BY <1>1, <1>2, <2>1
  <2> QED
    BY <1>1, <2>2, <2>3 DEF Keep, Touch, DecRec
<1>3. ASSUME NEW c \in 0 .. Sessions, dec' = [dec EXCEPT ![d].pc = p, ![d].codec = c]
      PROVE  Touch(d, p, c, dec[d].frame)
  <2>1. [dec[d] EXCEPT !.pc = p, !.codec = c] \in DecRec
    BY <1>1 DEF DecRec
  <2>2. \A e \in D : dec'[e] = IF e = d THEN [dec[d] EXCEPT !.pc = p, !.codec = c] ELSE dec[e]
    BY <1>1, <1>3
  <2>3. dec' \in [D -> DecRec]
    BY <1>1, <1>3, <2>1, <2>2
  <2> QED
    BY <1>1, <2>2, <2>3 DEF Touch, DecRec
<1>4. ASSUME NEW f \in Frame, dec' = [dec EXCEPT ![d].pc = p, ![d].frame = f]
      PROVE  Touch(d, p, dec[d].codec, f)
  <2>1. [dec[d] EXCEPT !.pc = p, !.frame = f] \in DecRec
    BY <1>1 DEF DecRec
  <2>2. \A e \in D : dec'[e] = IF e = d THEN [dec[d] EXCEPT !.pc = p, !.frame = f] ELSE dec[e]
    BY <1>1, <1>4
  <2>3. dec' \in [D -> DecRec]
    BY <1>1, <1>4, <2>1, <2>2
  <2> QED
    BY <1>1, <2>2, <2>3 DEF Touch, DecRec
<1>5. ASSUME dec' = [dec EXCEPT ![d] = [NoDec EXCEPT !.pc = p]] PROVE Touch(d, p, 0, NoFrame)
  <2>1. [NoDec EXCEPT !.pc = p] = [pc |-> p, codec |-> 0, frame |-> NoFrame]
    BY DEF NoDec
  <2>2. [pc |-> p, codec |-> 0, frame |-> NoFrame] \in DecRec
    BY NoFrameIsFrame, BoundsAssumption DEF DecRec
  <2>3. \A e \in D : dec'[e] = IF e = d THEN [pc |-> p, codec |-> 0, frame |-> NoFrame] ELSE dec[e]
    BY <1>1, <1>5, <2>1
  <2>4. dec' \in [D -> DecRec]
    BY <1>1, <1>5, <2>1, <2>2
  <2> QED
    BY <2>3, <2>4 DEF Touch
<1> QED
  BY <1>2, <1>3, <1>4, <1>5

(* What the steps of startDecoder() make of their decoder's record.        *)
Same(d) == dec[d].codec
FilterResult(d) ==
  \/ dec[d].frame.o # cur /\ Touch(d, "while", Same(d), NoFrame)
  \/ dec[d].frame.o = cur /\ Keep(d, "compare")

LEMMA DecSteps ==
  ASSUME Types, NEW d \in D
  PROVE  /\ DecBegin(d) => Touch(d, "while", codec, dec[d].frame)
         /\ DecWhile(d) => Keep(d, IF playing THEN "get" ELSE "free")
         /\ Spurious(d) => Keep(d, "woken")
         /\ DecCompare(d) => Keep(d, IF pre # cur THEN "sps" ELSE "feed")
         /\ DecSps(d) => Keep(d, "mark")
         /\ DecMark(d) => Keep(d, "feed")
         /\ DecFree(d) => Keep(d, "clear")
         /\ DecFilter(d) => FilterResult(d)
         /\ DecClear(d) => Touch(d, "dead", 0, NoFrame)
<1>p. Pcs = {"none", "begin", "while", "get", "wait", "woken", "filter", "compare", "sps", "mark", "feed",
             "free", "clear", "dead"}
  BY DEF Pcs
<1>a. ASSUME NEW p, NEW q \in Pcs, At(d, p, q) PROVE Keep(d, q)
  BY <1>a, Touches DEF At
<1>1. DecBegin(d) => Touch(d, "while", codec, dec[d].frame)
  BY <1>p, Touches DEF DecBegin, Types
<1>2. DecWhile(d) => Keep(d, IF playing THEN "get" ELSE "free")
  BY <1>p, <1>a DEF DecWhile
<1>3. DecCompare(d) => Keep(d, IF pre # cur THEN "sps" ELSE "feed")
  BY <1>p, <1>a DEF DecCompare
<1>4. /\ Spurious(d) => Keep(d, "woken")
      /\ DecSps(d) => Keep(d, "mark")
      /\ DecMark(d) => Keep(d, "feed")
      /\ DecFree(d) => Keep(d, "clear")
  BY <1>p, <1>a DEF Spurious, DecSps, DecMark, DecFree
<1>5. ASSUME DecFilter(d) PROVE FilterResult(d)
  <2>0. dec \in [D -> DecRec] /\ dec[d] \in DecRec
    BY DEF Types
  <2>1. CASE dec[d].frame.o # cur
    <3>1. dec' = [dec EXCEPT ![d] = [@ EXCEPT !.pc = "while", !.frame = NoFrame]]
      BY <1>5, <2>1 DEF DecFilter
    <3>2. dec' = [dec EXCEPT ![d].pc = "while", ![d].frame = NoFrame]
      BY <2>0, <3>1
    <3> QED
      BY <1>p, <2>1, <3>2, Touches, NoFrameIsFrame DEF FilterResult, Same
  <2>2. CASE dec[d].frame.o = cur
    <3>1. dec' = [dec EXCEPT ![d] = [@ EXCEPT !.pc = "compare"]]
      BY <1>5, <2>2 DEF DecFilter
    <3>2. dec' = [dec EXCEPT ![d].pc = "compare"]
      BY <3>1
    <3> QED
      BY <1>p, <2>2, <3>2, Touches DEF FilterResult
  <2> QED
    BY <2>1, <2>2
<1>6. DecClear(d) => Touch(d, "dead", 0, NoFrame)
  BY <1>p, Touches DEF DecClear
<1> QED
  BY <1>1, <1>2, <1>3, <1>4, <1>5, <1>6

(* The k-th frame of the list is taken, those before it are dropped.       *)
Takes(d, k) ==
  /\ Touch(d, "filter", Same(d), list[k])
  /\ list' \in Seq(Frame) /\ Len(list') = Len(list) - k
  /\ \A i \in 1 .. Len(list') : list'[i] = list[i + k]

LEMMA TakeEffect ==
  ASSUME Types, NEW d \in D, NEW k \in 1 .. Len(list), Take(d, SubSeq(list, k, Len(list)))
  PROVE  Takes(d, k)
<1> DEFINE l == SubSeq(list, k, Len(list))
<1>1. list \in Seq(Frame) /\ Len(list) \in Nat
  BY DEF Types
<1>2. l \in Seq(Frame) /\ Len(l) = Len(list) - k + 1 /\ \A i \in 1 .. Len(l) : l[i] = list[k + i - 1]
  BY <1>1
<1> HIDE DEF l
<1>3. l # <<>> /\ Head(l) = list[k] /\ list[k] \in Frame
  BY <1>1, <1>2
<1>4. dec' = [dec EXCEPT ![d].pc = "filter", ![d].frame = list[k]] /\ list' = Tail(l)
  BY <1>3 DEF Take, l
<1>5. Touch(d, "filter", Same(d), list[k])
  BY <1>3, <1>4, Touches DEF Pcs, Same
<1>6. list' \in Seq(Frame) /\ Len(list') = Len(list) - k /\ \A i \in 1 .. Len(list') : list'[i] = list[i + k]
  BY <1>1, <1>2, <1>3, <1>4
<1> QED
  BY <1>5, <1>6 DEF Takes

GetResult(d) ==
  \/ \E k \in 1 .. Len(list) : (k = 1 \/ list[k].key) /\ Takes(d, k) /\ UNCHANGED causes
  \/ list = <<>> /\ Keep(d, "wait") /\ UNCHANGED list /\ causes' = causes \cup Mark("missed", ~playing)

LEMMA GetEffect ==
  ASSUME Types, NEW d \in D, DecGet(d)
  PROVE  GetResult(d)
<1>1. list \in Seq(Frame)
  BY DEF Types
<1>2. CASE list = <<>>
  <2>1. Keys(list) = {}
    BY <1>2 DEF Keys
  <2>2. drainFrame(list) = <<>>
    BY <1>2, <2>1 DEF drainFrame
  <2>3. dec' = [dec EXCEPT ![d].pc = "wait"] /\ UNCHANGED list /\ causes' = causes \cup Mark("missed", ~playing)
    BY <2>2 DEF DecGet
  <2> QED
    BY <1>2, <2>3, Touches DEF GetResult, Pcs
<1>3. CASE list # <<>>
  <2>1. PICK k \in 1 .. Len(list) : (k = 1 \/ list[k].key) /\ drainFrame(list) = SubSeq(list, k, Len(list))
    BY <1>1, <1>3, DrainLeaves
  <2>2. SubSeq(list, k, Len(list)) # <<>>
    <3>1. Len(SubSeq(list, k, Len(list))) = Len(list) - k + 1 /\ Len(list) \in Nat
      BY <1>1
    <3>2. Len(SubSeq(list, k, Len(list))) # 0 /\ Len(<<>>) = 0
      BY <3>1
    <3> QED
      BY <3>2
  <2>3. Take(d, SubSeq(list, k, Len(list))) /\ UNCHANGED causes
    BY <2>1, <2>2 DEF DecGet
  <2> QED
    BY <2>1, <2>3, TakeEffect DEF GetResult
<1> QED
  BY <1>2, <1>3

WokenResult(d) ==
  \/ ~playing /\ Keep(d, "free") /\ UNCHANGED <<list, harm>>
  \/ playing /\ list = <<>> /\ harm' = harm \cup {"front"} /\ UNCHANGED <<dec, list>>
  \/ playing /\ list # <<>> /\ 1 \in 1 .. Len(list) /\ Takes(d, 1) /\ UNCHANGED harm

LEMMA WokenEffect ==
  ASSUME Types, NEW d \in D, DecWoken(d)
  PROVE  WokenResult(d)
<1>1. list \in Seq(Frame)
  BY DEF Types
<1>2. CASE ~playing
  BY <1>2, Touches DEF DecWoken, WokenResult, Pcs
<1>3. CASE playing /\ list = <<>>
  BY <1>3 DEF DecWoken, WokenResult
<1>4. CASE playing /\ list # <<>>
  <2>1. list = SubSeq(list, 1, Len(list)) /\ 1 \in 1 .. Len(list)
    BY <1>1, <1>4
  <2>2. Take(d, SubSeq(list, 1, Len(list))) /\ UNCHANGED harm
    BY <1>4, <2>1 DEF DecWoken
  <2> QED
    BY <1>4, <2>1, <2>2, TakeEffect DEF WokenResult
<1> QED
  BY <1>2, <1>3, <1>4

FeedTo(d, r) ==
  /\ Touch(d, IF r = "failed" THEN "free" ELSE "while", Same(d), NoFrame)
  /\ fed' = [fed EXCEPT ![Same(d)].n = IF r = "fed" THEN dec[d].frame.n ELSE @]
  /\ causes' = causes \cup Mark("busy", r = "busy")
  /\ harm' = harm \cup Mark("uaf", Same(d) \notin alive)
                  \cup Mark("torn", r = "fed" /\ ~(IF dec[d].frame.key THEN fed[Same(d)].n < dec[d].frame.n
                                                   ELSE fed[Same(d)].n = dec[d].frame.n - 1))
                  \cup Mark("config", r = "fed" /\ fed[Same(d)].o # dec[d].frame.o)

LEMMA FeedEffect ==
  ASSUME Types, NEW d \in D, DecFeed(d)
  PROVE  \E r \in FeedResults : FeedTo(d, r)
<1>1. PICK r \in FeedResults :
        /\ dec' = [dec EXCEPT ![d].pc = IF r = "failed" THEN "free" ELSE "while", ![d].frame = NoFrame]
        /\ fed' = [fed EXCEPT ![Same(d)].n = IF r = "fed" THEN dec[d].frame.n ELSE @]
        /\ causes' = causes \cup Mark("busy", r = "busy")
        /\ harm' = harm \cup Mark("uaf", Same(d) \notin alive)
                  \cup Mark("torn", r = "fed" /\ ~(IF dec[d].frame.key THEN fed[Same(d)].n < dec[d].frame.n
                                                   ELSE fed[Same(d)].n = dec[d].frame.n - 1))
                  \cup Mark("config", r = "fed" /\ fed[Same(d)].o # dec[d].frame.o)
  BY DEF DecFeed, Same
<1>2. (IF r = "failed" THEN "free" ELSE "while") \in Pcs
  BY DEF Pcs
<1>3. Touch(d, IF r = "failed" THEN "free" ELSE "while", Same(d), NoFrame)
  BY <1>1, <1>2, Touches, NoFrameIsFrame DEF Same
<1> QED
  BY <1>1, <1>3 DEF FeedTo

(* pthread_cond_signal(), and the start of a decoder.                      *)
Woke == dec' = dec \/ \E d \in D : dec[d].pc = "wait" /\ Keep(d, "woken")

LEMMA SignalEffect ==
  ASSUME Types, Signal
  PROVE  Woke
BY Touches DEF Signal, Woke, Waiting, D, Pcs

LEMMA GoEffect ==
  ASSUME Types, NEW t \in Starters, StartThread(t), playing
  PROVE  \E d \in D : dec[d].pc = "none" /\ Touch(d, "begin", 0, NoFrame)
<1>1. Free \in SUBSET Nat /\ Free # {}
  BY DEF StartThread, Free
<1>2. Min(Free) \in Free
  BY <1>1, MinOfNats
<1>3. Min(Free) \in D /\ dec[Min(Free)].pc = "none"
  BY <1>2 DEF Free, D
<1>4. Touch(Min(Free), "begin", 0, NoFrame)
  BY <1>3, Touches DEF StartThread, Pcs
<1> QED
  BY <1>3, <1>4
-----------------------------------------------------------------------------
(* Types                                                                   *)
LEMMA TypesStep ==
  ASSUME Types, [Next]_vars
  PROVE  Types'
<1>d. dev \in [o : Orientation, due : BOOLEAN, gone : BOOLEAN] /\ sent \in [frames : Nat, rotations : Nat]
  BY DEF Types
<1>f. fed \in [0 .. Sessions -> [n : Nat, o : {0} \cup Orientation]]
  BY DEF Types
<1>l. list \in Seq(Frame) /\ <<>> \in Seq(Frame)
  BY DEF Types
<1>t. ASSUME NEW d, NEW p, NEW c, NEW f, Touch(d, p, c, f) PROVE dec' \in [D -> DecRec]
  BY <1>t DEF Touch
<1>w. Woke => dec' \in [D -> DecRec]
  BY <1>t DEF Woke, Keep, Types
<1>1. CASE RxConnect
  <2>1. PICK o \in Orientation, k \in 0 .. 2 :
          dev' = [o |-> o, due |-> TRUE, gone |-> k < 2] /\ cur' = o
    BY <1>1 DEF RxConnect, setOrientation
  <2>2. dev' \in [o : Orientation, due : BOOLEAN, gone : BOOLEAN] /\ cur' \in Orientation
    BY <2>1
  <2>3. session' \in 0 .. Sessions
    BY <1>1, BoundsAssumption DEF RxConnect, Types
  <2> QED
    BY <1>1, <2>2, <2>3 DEF RxConnect, Types
<1>2. CASE createMediaCodec
  BY <1>2 DEF createMediaCodec, Types, device
<1>3. CASE createMediaFormat
  <2>1. starter' \in [Starters -> Places] /\ starter'["rx"] = "test"
    BY <1>3 DEF createMediaFormat, Types, Starters, Places
  <2>2. session \in 0 .. Sessions /\ fed[session] \in [n : Nat, o : {0} \cup Orientation]
    BY DEF Types
  <2>3. \E o \in {0} \cup Orientation : fed' = [fed EXCEPT ![session].o = o]
    BY <1>3, <1>d DEF createMediaFormat
  <2>4. fed' \in [0 .. Sessions -> [n : Nat, o : {0} \cup Orientation]]
    <3>1. PICK o \in {0} \cup Orientation : fed' = [fed EXCEPT ![session].o = o]
      BY <2>3
    <3>2. [fed[session] EXCEPT !.o = o] \in [n : Nat, o : {0} \cup Orientation]
      BY <2>2
    <3> QED
      BY <1>f, <2>2, <3>1, <3>2
  <2> QED
    BY <1>3, <2>1, <2>4 DEF createMediaFormat, Types, device
<1>4. CASE RxFrame
  <2>1. PICK k \in {TRUE, dev.due} : putData([n |-> sent.frames + 1, key |-> k, o |-> dev.o])
    BY <1>4 DEF RxFrame
  <2>2. [n |-> sent.frames + 1, key |-> k, o |-> dev.o] \in Frame
    <3>1. dev.due \in BOOLEAN /\ dev.o \in Orientation /\ sent.frames + 1 \in Nat
      BY <1>d
    <3>2. k \in BOOLEAN
      BY <3>1
    <3> QED
      BY <3>1, <3>2 DEF Frame
  <2>3. list' \in Seq(Frame) /\ dec' \in [D -> DecRec]
    BY <1>l, <1>w, <2>1, <2>2, SignalEffect DEF putData
  <2>4. dev' \in [o : Orientation, due : BOOLEAN, gone : BOOLEAN]
    BY <1>4, <1>d DEF RxFrame
  <2>5. sent' \in [frames : Nat, rotations : Nat]
    BY <1>4, <1>d DEF RxFrame
  <2> QED
    BY <1>4, <2>3, <2>4, <2>5 DEF RxFrame, Types, params, track
<1>5. CASE RxNotice
  <2>1. Other(dev.o) \in Orientation
    BY <1>d DEF Other, Orientation
  <2>2. dev' \in [o : Orientation, due : BOOLEAN, gone : BOOLEAN] /\ cur' \in Orientation
    BY <1>5, <1>d, <2>1 DEF RxNotice, setOrientation
  <2>3. sent' \in [frames : Nat, rotations : Nat]
    BY <1>5, <1>d DEF RxNotice
  <2> QED
    BY <1>5, <2>2, <2>3 DEF RxNotice, Types, params
<1>6. CASE RxStop
  BY <1>6 DEF RxStop, Types, device, params, track
<1>7. CASE RxSignal
  BY <1>7, <1>w, SignalEffect DEF RxSignal, Types, device, shared, params, track
<1>8. CASE setSurface \/ UiStop \/ UiSignal
  <2>1. starter' \in [Starters -> Places] /\ starter'["rx"] = starter["rx"]
    BY <1>8 DEF setSurface, UiStop, UiSignal, Types, Starters, Places
  <2>2. dec' \in [D -> DecRec]
    BY <1>8, <1>w, SignalEffect DEF setSurface, UiStop, UiSignal, Types
  <2> QED
    BY <1>8, <2>1, <2>2 DEF setSurface, UiStop, UiSignal, Types, device, shared, params, track
<1>9. ASSUME NEW t \in Starters, Start(t) PROVE Types'
  <2>0. /\ "rx" \in Starters /\ starter \in [Starters -> Places] /\ (starter["rx"] # "out" <=> rx = "start")
        /\ starter["rx"] # "signal"
    BY DEF Types, Starters
  <2>1. \/ \E p \in {"go", "check"} : starter' = [starter EXCEPT ![t] = p] /\ rx' = rx /\ starter[t] # "out"
        \/ starter' = [starter EXCEPT ![t] = "out"] /\ rx' = IF t = "rx" THEN "loop" ELSE rx
    BY <1>9 DEF Start, StartTest, StartGo, StartThread, After
  <2>2. starter' \in [Starters -> Places]
    BY <2>0, <2>1 DEF Places
  <2>3. (starter'["rx"] # "out" <=> rx' = "start") /\ starter'["rx"] # "signal"
    BY <2>0, <2>1
  <2>4. rx' \in {"idle", "codec", "format", "start", "loop", "signal"}
    BY <2>1 DEF Types
  <2>5. CASE StartTest(t)
    BY <2>2, <2>3, <2>4, <2>5 DEF StartTest, Types, device, shared, params, track
  <2>6. CASE StartGo(t)
    BY <2>2, <2>3, <2>4, <2>6 DEF StartGo, Types, device, params
  <2>7. CASE StartThread(t)
    <3>1. dec' \in [D -> DecRec]
      <4>1. CASE playing
        BY <1>t, <2>7, <4>1, GoEffect
      <4>2. CASE ~playing
        BY <2>7, <4>2 DEF StartThread, Types
      <4> QED
        BY <4>1, <4>2
    <3> QED
      BY <2>2, <2>3, <2>4, <2>7, <3>1 DEF StartThread, Types, device, shared, params, track
  <2> QED
    BY <1>9, <2>5, <2>6, <2>7 DEF Start
<1>10. ASSUME NEW d \in D, Decode(d) \/ Spurious(d) PROVE Types'
  <2>c. dec[d] \in DecRec /\ Same(d) \in 0 .. Sessions /\ dec[d].frame.n \in Nat
    BY DEF Types, DecRec, Same, Frame
  <2>1. CASE DecBegin(d)
    <3>1. dec' \in [D -> DecRec]
      BY <2>1, <1>t, DecSteps
    <3> QED
      BY <2>1, <3>1 DEF DecBegin, Types, device, params, track
  <2>2. CASE DecWhile(d) \/ DecCompare(d) \/ DecFilter(d)
    <3>1. dec' \in [D -> DecRec]
      BY <2>2, <1>t, DecSteps DEF Keep, FilterResult
    <3> QED
      BY <2>2, <3>1 DEF DecWhile, DecCompare, DecFilter, Types, device, shared, params, track
  <2>3. CASE DecGet(d)
    <3>1. GetResult(d)
      BY <2>3, GetEffect
    <3>2. dec' \in [D -> DecRec] /\ list' \in Seq(Frame)
      BY <1>l, <1>t, <3>1 DEF GetResult, Takes, Keep
    <3> QED
      BY <2>3, <3>2 DEF DecGet, Types, device, params
  <2>4. CASE Spurious(d)
    <3>1. dec' \in [D -> DecRec]
      BY <2>4, <1>t, DecSteps DEF Keep
    <3> QED
      BY <2>4, <3>1 DEF Spurious, Types, device, shared, params
  <2>5. CASE DecWoken(d)
    <3>1. WokenResult(d)
      BY <2>5, WokenEffect
    <3>2. dec' \in [D -> DecRec] /\ list' \in Seq(Frame)
      BY <1>l, <1>t, <3>1 DEF WokenResult, Takes, Keep, Types
    <3> QED
      BY <2>5, <3>2 DEF DecWoken, Types, device, params
  <2>6. CASE DecSps(d)
    <3>1. dec' \in [D -> DecRec]
      BY <2>6, <1>t, DecSteps DEF Keep
    <3>2. \E o \in {0} \cup Orientation : fed' = [fed EXCEPT ![Same(d)].o = o]
      <4>1. fed[Same(d)].o \in {0} \cup Orientation /\ cur \in Orientation
        BY <1>f, <2>c DEF Types
      <4>2. \E r \in FeedResults : fed' = [fed EXCEPT ![Same(d)].o = IF r = "fed" /\ cur \in sps THEN cur ELSE @]
        BY <2>6 DEF DecSps, Same
      <4>3. fed' = [fed EXCEPT ![Same(d)].o = cur] \/ fed' = [fed EXCEPT ![Same(d)].o = fed[Same(d)].o]
        BY <1>f, <2>c, <4>2
      <4> QED
        BY <4>1, <4>3
    <3>3. fed' \in [0 .. Sessions -> [n : Nat, o : {0} \cup Orientation]]
      <4>1. PICK o \in {0} \cup Orientation : fed' = [fed EXCEPT ![Same(d)].o = o]
        BY <3>2
      <4>2. [fed[Same(d)] EXCEPT !.o = o] \in [n : Nat, o : {0} \cup Orientation]
        BY <1>f, <2>c
      <4> QED
        BY <1>f, <2>c, <4>1, <4>2
    <3> QED
      BY <2>6, <3>1, <3>3 DEF DecSps, Types, device, shared, params
  <2>7. CASE DecMark(d)
    <3>1. dec' \in [D -> DecRec]
      BY <2>7, <1>t, DecSteps DEF Keep
    <3> QED
      BY <2>7, <3>1 DEF DecMark, Types, device, params, track
  <2>8. CASE DecFeed(d)
    <3>1. PICK r \in FeedResults : FeedTo(d, r)
      BY <2>8, FeedEffect
    <3>2. dec' \in [D -> DecRec]
      BY <3>1, <1>t DEF FeedTo
    <3>3. fed[Same(d)] \in [n : Nat, o : {0} \cup Orientation]
      BY <1>f, <2>c
    <3>4. fed' = [fed EXCEPT ![Same(d)].n = dec[d].frame.n] \/ fed' = fed
      BY <1>f, <2>c, <3>1, <3>3 DEF FeedTo
    <3>5. [fed[Same(d)] EXCEPT !.n = dec[d].frame.n] \in [n : Nat, o : {0} \cup Orientation]
      BY <2>c, <3>3
    <3>6. fed' \in [0 .. Sessions -> [n : Nat, o : {0} \cup Orientation]]
      BY <1>f, <2>c, <3>4, <3>5
    <3> QED
      BY <2>8, <3>2, <3>6 DEF DecFeed, Types, device, shared, params
  <2>9. CASE DecFree(d)
    <3>1. dec' \in [D -> DecRec]
      BY <2>9, <1>t, DecSteps DEF Keep
    <3> QED
      <4>1. 0 \in 0 .. Sessions /\ UNCHANGED <<dev, sent, rx, session, starter, list, cur, pre, fed>>
            /\ playing' = FALSE /\ codec' = 0
        BY <2>9, BoundsAssumption DEF DecFree, device
      <4> QED
        BY <3>1, <4>1 DEF Types
  <2>10. CASE DecClear(d)
    <3>1. dec' \in [D -> DecRec]
      BY <2>10, <1>t, DecSteps
    <3> QED
      BY <2>10, <1>l, <3>1 DEF DecClear, Types, device, params, track, Orientation
  <2> QED
    BY <1>10, <2>1, <2>2, <2>3, <2>4, <2>5, <2>6, <2>7, <2>8, <2>9, <2>10 DEF Decode
<1>11. CASE UNCHANGED vars
  BY <1>11 DEF vars, Types, device, shared, params, track
<1> QED
  BY <1>1, <1>2, <1>3, <1>4, <1>5, <1>6, <1>7, <1>8, <1>9, <1>10, <1>11 DEF Next, Receive, Start, D
-----------------------------------------------------------------------------
(* What has been hit is not forgotten.                                     *)
LEMMA CausesGrow ==
  ASSUME Types, [Next]_vars
  PROVE  causes \subseteq causes'
<1>1. Receive \/ setSurface \/ UiStop \/ UiSignal => causes \subseteq causes'
  BY DEF Receive, RxConnect, createMediaCodec, createMediaFormat, RxFrame, RxNotice, RxStop, RxSignal,
         setSurface, UiStop, UiSignal, track
<1>2. ASSUME NEW t \in Starters, Start(t) PROVE causes \subseteq causes'
  BY <1>2 DEF Start, StartTest, StartGo, StartThread, track
<1>3. ASSUME NEW d \in D, Decode(d) \/ Spurious(d) PROVE causes \subseteq causes'
  <2>1. DecGet(d) => causes \subseteq causes'
    BY DEF DecGet
  <2>2. DecSps(d) => causes \subseteq causes'
    BY DEF DecSps
  <2>3. DecFeed(d) => causes \subseteq causes'
    BY DEF DecFeed
  <2>4. DecGet(d) \/ DecSps(d) \/ DecFeed(d) \/ causes \subseteq causes'
    BY <1>3 DEF Decode, Spurious, DecBegin, DecWhile, DecWoken, DecFilter, DecCompare, DecMark, DecFree,
                DecClear, track
  <2> QED
    BY <2>1, <2>2, <2>3, <2>4
<1>4. UNCHANGED vars => causes \subseteq causes'
  BY DEF vars, track
<1> QED
  BY <1>1, <1>2, <1>3, <1>4 DEF Next, D

LEMMA CleanBefore ==
  ASSUME Types, [Next]_vars, NEW cs, Clean(cs)'
  PROVE  Clean(cs)
BY CausesGrow DEF Clean

(* The two starts that mark nothing.                                       *)
LEMMA CleanStarts ==
  ASSUME Clean(Lifecycle)'
  PROVE  /\ RxConnect => list = <<>> /\ \A d \in D : ~Running(d)
         /\ \A t \in Starters : StartGo(t) =>
              /\ Startable /\ codec = session /\ ~Over
              /\ (\A d \in D : ~Running(d)) /\ \A u \in Starters : starter[u] \notin {"check", "signal"}
<1>0. "double" \notin causes' /\ "late" \notin causes' /\ "restart" \notin causes'
      /\ "overlap" \notin causes' /\ "stale" \notin causes'
  BY DEF Clean, Lifecycle
<1>1. RxConnect => list = <<>> /\ \A d \in D : ~Running(d)
  BY <1>0 DEF RxConnect, Mark, D
<1>2. ASSUME NEW t \in Starters, StartGo(t)
      PROVE  /\ Startable /\ codec = session /\ ~Over
             /\ (\A d \in D : ~Running(d)) /\ \A u \in Starters : starter[u] \notin {"check", "signal"}
  <2> DEFINE B == \/ \E d \in 1 .. Decoders : Running(d)
                  \/ \E u \in Starters : starter[u] \in {"check", "signal"}
  <2>1. causes' = causes \cup Mark("double", ~Startable)
                         \cup Mark("late", codec # session \/ rx \in {"signal", "idle"})
                         \cup Mark("restart", B)
    BY <1>2 DEF StartGo
  <2>2. Startable /\ codec = session /\ rx \notin {"signal", "idle"} /\ ~B
    <3> HIDE DEF B
    <3> QED
      BY <1>0, <2>1 DEF Mark
  <2> QED
    BY <2>2 DEF Over, D
<1> QED
  BY <1>1, <1>2

(* A step of a decoder that neither frees nor begins over again.           *)
Follows(d) ==
  /\ Running(d)' => Running(d)
  /\ dec'[d].pc = "clear" => dec[d].pc = "clear"
  /\ Running(d)' /\ dec'[d].pc # "clear" => dec[d].pc # "clear"
  /\ Running(d)' /\ dec'[d].pc # "begin" =>
       dec'[d].codec = codec \/ (dec'[d].codec = dec[d].codec /\ dec[d].pc # "begin")

LEMMA LifeKept ==
  ASSUME Types, Life, UNCHANGED <<session, codec, alive, playing>>, "uaf" \notin harm',
         Over' <=> Over, rx' = "codec" => rx = "codec", rx' # "idle" => rx # "idle" \/ session > 0,
         \A d \in D : Follows(d),
         \A t \in Starters : starter'[t] \in {"check", "signal"} => starter'[t] = starter[t]
  PROVE  Life'
<1>0. "ui" \in Starters
  BY DEF Starters
<1>1. \A d \in D : (Running(d)' => Running(d)) /\ (dec'[d].pc = "clear" => dec[d].pc = "clear")
  BY DEF Follows
<1>2. \A d \in D : Running(d)' /\ dec'[d].pc # "clear" => Running(d) /\ dec[d].pc # "clear"
  BY DEF Follows
<1>3. \A d \in D : Running(d)' /\ dec'[d].pc # "clear" /\ dec'[d].pc # "begin" => dec'[d].codec = codec
  BY <1>2 DEF Follows, Life
<1>4. \A t \in Starters : starter'[t] = "check" => starter[t] = "check" /\ \A d \in D : ~Running(d)'
  BY <1>1 DEF Life
<1>5. starter'["ui"] = "signal" => ~playing'
  BY <1>0 DEF Life
<1> QED
  BY <1>1, <1>2, <1>3, <1>4, <1>5 DEF Life

LEMMA TouchFollows ==
  ASSUME Types, NEW d \in D, NEW p, NEW c, NEW f, Touch(d, p, c, f),
         Running(d), p \notin {"clear", "begin"},
         p # "dead" => dec[d].pc # "clear" /\ (c = codec \/ (c = dec[d].codec /\ dec[d].pc # "begin"))
  PROVE  \A e \in D : Follows(e)
<1>1. \A e \in D : e # d => Follows(e)
  <2>1. \A e \in D : e # d => dec'[e] = dec[e]
    BY DEF Touch
  <2> QED
    BY <2>1 DEF Follows, Running
<1>2. Follows(d)
  BY DEF Touch, Follows, Running
<1> QED
  BY <1>1, <1>2

LEMMA LifeStep ==
  ASSUME Types, Types', Life, [Next]_vars, Clean(Lifecycle)'
  PROVE  Life'
<1>n. session \in Nat /\ codec \in Nat
  BY BoundsAssumption DEF Types
<1>s. ASSUME dec' = dec PROVE \A d \in D : Follows(d)
  BY <1>s DEF Follows, Running
<1>w. ASSUME Woke PROVE \A d \in D : Follows(d)
  <2>1. ASSUME NEW d \in D, dec[d].pc = "wait", Keep(d, "woken") PROVE \A e \in D : Follows(e)
    BY <2>1, TouchFollows DEF Keep, Running
  <2> QED
    BY <1>s, <1>w, <2>1 DEF Woke
<1>1. CASE RxConnect
  <2>1. \A d \in D : ~Running(d) /\ dec'[d] = dec[d]
    BY <1>1, CleanStarts DEF RxConnect
  <2>2. /\ session' = session + 1 /\ codec' = codec /\ alive' = alive /\ harm' = harm /\ rx' = "codec"
        /\ UNCHANGED <<playing, starter>> /\ ~playing
    BY <1>1 DEF RxConnect, Life, Over
  <2>3. \A d \in D : ~Running(d)'
    BY <2>1 DEF Running
  <2>4. \A d \in D : dec'[d].pc # "clear"
    BY <2>3 DEF Running
  <2> QED
    BY <1>n, <2>2, <2>3, <2>4 DEF Life, Over
<1>2. CASE createMediaCodec
  <2>1. \A d \in D : ~Running(d) /\ dec'[d] = dec[d]
    BY <1>2 DEF createMediaCodec, Life
  <2>2. /\ session' = session /\ codec' = session /\ session \in alive' /\ harm' = harm /\ rx' = "format"
        /\ UNCHANGED <<playing, starter>>
    BY <1>2 DEF createMediaCodec
  <2>3. \A d \in D : ~Running(d)'
    BY <2>1 DEF Running
  <2>4. \A d \in D : dec'[d].pc # "clear"
    BY <2>3 DEF Running
  <2>5. session > 0 /\ \A t \in Starters : starter[t] = "check" => ~playing
    BY <1>2 DEF createMediaCodec, Life
  <2> QED
    BY <1>n, <2>2, <2>3, <2>4, <2>5 DEF Life, Over
<1>3. CASE createMediaFormat \/ RxNotice \/ setSurface
  <2>1. UNCHANGED <<session, codec, alive, playing, dec>> /\ "uaf" \notin harm'
    BY <1>3 DEF createMediaFormat, RxNotice, setSurface, params, track, Mark, Life
  <2>2. (Over' <=> Over) /\ (rx' = "codec" => rx = "codec") /\ (rx' # "idle" => rx # "idle" \/ session > 0)
    BY <1>3 DEF createMediaFormat, RxNotice, setSurface, Over, Life
  <2>3. \A t \in Starters : starter'[t] \in {"check", "signal"} => starter'[t] = starter[t]
    BY <1>3 DEF createMediaFormat, RxNotice, setSurface, Types
  <2> QED
    BY <1>s, <2>1, <2>2, <2>3, LifeKept
<1>4. CASE RxFrame
  <2>1. Woke
    BY <1>4, SignalEffect DEF RxFrame, putData
  <2> QED
    BY <1>4, <1>w, <2>1, LifeKept DEF RxFrame, params, track, Life, Over
<1>5. CASE RxStop
  <2>1. UNCHANGED <<session, codec, alive, dec, harm, starter>> /\ ~playing' /\ rx' = "signal" /\ rx = "loop"
    BY <1>5 DEF RxStop, params, track
  <2> QED
    BY <2>1 DEF Life, Over, Running
<1>6. CASE RxSignal
  <2>1. Woke /\ UNCHANGED <<session, codec, alive, playing, harm, starter>> /\ rx = "signal" /\ rx' = "idle"
    BY <1>6, SignalEffect DEF RxSignal, shared, params, track
  <2> QED
    BY <1>w, <2>1, LifeKept DEF Over, Life
<1>u. CASE UiStop
  <2>1. UNCHANGED <<session, codec, alive, dec, harm, rx>> /\ ~playing'
    BY <1>u DEF UiStop, params, track
  <2>2. \A t \in Starters : starter'[t] = "check" => starter[t] = "check"
    BY <1>u DEF UiStop, Types
  <2> QED
    BY <2>1, <2>2 DEF Life, Over, Running
<1>v. CASE UiSignal
  <2>1. Woke /\ UNCHANGED <<session, codec, alive, playing, harm, rx>>
    BY <1>v, SignalEffect DEF UiSignal, shared, params, track
  <2>2. \A t \in Starters : starter'[t] \in {"check", "signal"} => starter'[t] = starter[t]
    BY <1>v DEF UiSignal, Types
  <2> QED
    BY <1>w, <2>1, <2>2, LifeKept DEF Over, Life
<1>r. ASSUME NEW t \in Starters, StartTest(t) \/ StartThread(t)
      PROVE  rx' = rx \/ (rx = "start" /\ rx' = "loop")
  <2>1. t = "rx" => rx = "start"
    BY <1>r DEF StartTest, StartThread, Types
  <2> QED
    BY <1>r, <2>1 DEF StartTest, StartThread, After
<1>7. ASSUME NEW t \in Starters, StartTest(t) PROVE Life'
  <2>1. UNCHANGED <<session, codec, alive, playing, dec, harm>>
    BY <1>7 DEF StartTest, shared, params, track
  <2>2. rx' = rx \/ (rx = "start" /\ rx' = "loop")
    BY <1>7, <1>r
  <2>3. (Over' <=> Over) /\ (rx' = "codec" => rx = "codec") /\ (rx' # "idle" => rx # "idle")
    BY <2>2 DEF Over
  <2>4. \A u \in Starters : starter'[u] \in {"check", "signal"} => starter'[u] = starter[u]
    BY <1>7 DEF StartTest, Types
  <2> QED
    BY <1>s, <2>1, <2>3, <2>4, LifeKept DEF Life
<1>8. ASSUME NEW t \in Starters, StartGo(t) PROVE Life'
  <2>1. /\ Startable /\ codec = session /\ ~Over
        /\ (\A e \in D : ~Running(e)) /\ \A u \in Starters : starter[u] \notin {"check", "signal"}
    BY <1>8, CleanStarts
  <2>2. UNCHANGED <<session, codec, alive, dec, harm, rx>> /\ playing'
    BY <1>8 DEF StartGo, params
  <2>3. starter' = [starter EXCEPT ![t] = "check"] /\ "ui" \in Starters
    BY <1>8 DEF StartGo, Starters
  <2>4. \A u \in Starters : starter'[u] = "check" => u = t
    BY <2>1, <2>3 DEF Types
  <2>5. starter'["ui"] # "signal"
    BY <2>1, <2>3 DEF Types
  <2>6. codec # 0 /\ rx # "codec"
    BY <2>1 DEF Startable, Life
  <2> QED
    BY <2>1, <2>2, <2>4, <2>5, <2>6 DEF Life, Over, Running
<1>9t. ASSUME NEW t \in Starters, StartThread(t) PROVE Life'
  <2>1. UNCHANGED <<session, codec, alive, playing, harm>>
    BY <1>9t DEF StartThread, shared, params, track
  <2>2. rx' = rx \/ (rx = "start" /\ rx' = "loop")
    BY <1>9t, <1>r
  <2>3. (Over' <=> Over) /\ (rx' = "codec" => rx = "codec") /\ (rx' # "idle" => rx # "idle")
    BY <2>2 DEF Over
  <2>4. starter[t] = "check" /\ starter' = [starter EXCEPT ![t] = "out"]
    BY <1>9t DEF StartThread
  <2>5. \A u \in Starters : starter'[u] \in {"check", "signal"} => u # t /\ starter'[u] = starter[u]
    BY <2>4 DEF Types
  <2>6. CASE ~playing
    <3>1. dec' = dec
      BY <1>9t, <2>6 DEF StartThread
    <3> QED
      BY <1>s, <2>1, <2>3, <2>5, <3>1, LifeKept DEF Life
  <2>7. CASE playing
    <3>1. codec = session /\ codec # 0 /\ ~Over /\ \A e \in D : ~Running(e)
      BY <2>4, <2>7 DEF Life
    <3>2. PICK d \in D : dec[d].pc = "none" /\ Touch(d, "begin", 0, NoFrame)
      BY <1>9t, <2>7, GoEffect
    <3>3. \A e \in D : Running(e)' => e = d
      BY <3>1, <3>2 DEF Touch, Running
    <3>4. \A e \in D : dec'[e].pc # "clear"
      BY <3>1, <3>2 DEF Touch, Running
    <3>5. \A e \in D : Running(e)' => dec'[e].pc = "begin"
      BY <3>2, <3>3 DEF Touch
    <3>6. \A u \in Starters : starter'[u] # "check"
      BY <2>4, <2>5 DEF Life
    <3>7. starter'["ui"] # "signal"
      BY <2>5, <2>7 DEF Life, Starters
    <3>8. rx # "codec"
      BY <3>1 DEF Life
    <3> QED
      BY <2>1, <2>2, <3>1, <3>3, <3>4, <3>5, <3>6, <3>7, <3>8 DEF Life, Over
  <2> QED
    BY <2>6, <2>7 DEF Types
<1>9. ASSUME NEW d \in D, Decode(d) \/ Spurious(d) PROVE Life'
  <2>s. starter' = starter
    BY <1>9 DEF Decode, Spurious, DecBegin, DecWhile, DecGet, DecWoken, DecFilter, DecCompare, DecSps,
                DecMark, DecFeed, DecFree, DecClear
  <2>0. ASSUME NEW p, NEW c, NEW f, Touch(d, p, c, f), p \notin {"clear", "begin"}, Running(d),
               p # "dead" => dec[d].pc # "clear" /\ (c = codec \/ (c = dec[d].codec /\ dec[d].pc # "begin")),
               UNCHANGED <<session, codec, alive, playing, rx>>, "uaf" \notin harm'
        PROVE  Life'
    BY <2>0, <2>s, TouchFollows, LifeKept DEF Over
  <2>h. "uaf" \notin harm
    BY DEF Life
  <2>1. CASE DecBegin(d)
    <3>1. Touch(d, "while", codec, dec[d].frame)
      BY <2>1, DecSteps
    <3> QED
      BY <2>0, <2>1, <2>h, <3>1 DEF DecBegin, params, track, Running
  <2>2. CASE DecWhile(d)
    <3>1. Keep(d, "get") \/ Keep(d, "free")
      BY <2>2, DecSteps
    <3>2. UNCHANGED <<session, codec, alive, playing, rx, harm>> /\ dec[d].pc = "while"
      BY <2>2 DEF DecWhile, At, shared, params, track
    <3> QED
      BY <2>0, <2>h, <3>1, <3>2 DEF Keep, Running
  <2>3. CASE DecGet(d)
    <3>1. (\E k \in 1 .. Len(list) : Takes(d, k)) \/ Keep(d, "wait")
      BY <2>3, GetEffect DEF GetResult
    <3>2. UNCHANGED <<session, codec, alive, playing, rx, harm>> /\ dec[d].pc = "get"
      BY <2>3 DEF DecGet, params
    <3> QED
      BY <2>0, <2>h, <3>1, <3>2 DEF Keep, Takes, Same, Running
  <2>4. CASE Spurious(d)
    <3>1. Keep(d, "woken")
      BY <2>4, DecSteps
    <3>2. UNCHANGED <<session, codec, alive, playing, rx, harm>> /\ dec[d].pc = "wait"
      BY <2>4 DEF Spurious, At, shared, params
    <3> QED
      BY <2>0, <2>h, <3>1, <3>2 DEF Keep, Running
  <2>5. CASE DecWoken(d)
    <3>1. Keep(d, "free") \/ dec' = dec \/ Takes(d, 1)
      BY <2>5, WokenEffect DEF WokenResult
    <3>2. UNCHANGED <<session, codec, alive, playing, rx>> /\ dec[d].pc = "woken" /\ "uaf" \notin harm'
      BY <2>5, <2>h DEF DecWoken, params
    <3>3. dec' = dec => Life'
      BY <1>s, <2>s, <3>2, LifeKept DEF Over
    <3> QED
      BY <2>0, <3>1, <3>2, <3>3 DEF Keep, Takes, Same, Running
  <2>6. CASE DecFilter(d)
    <3>1. Touch(d, "while", Same(d), NoFrame) \/ Keep(d, "compare")
      BY <2>6, DecSteps DEF FilterResult
    <3>2. UNCHANGED <<session, codec, alive, playing, rx, harm>> /\ dec[d].pc = "filter"
      BY <2>6 DEF DecFilter, shared, params, track
    <3> QED
      BY <2>0, <2>h, <3>1, <3>2 DEF Keep, Same, Running
  <2>7. CASE DecCompare(d)
    <3>1. Keep(d, "sps") \/ Keep(d, "feed")
      BY <2>7, DecSteps
    <3>2. UNCHANGED <<session, codec, alive, playing, rx, harm>> /\ dec[d].pc = "compare"
      BY <2>7 DEF DecCompare, At, shared, params, track
    <3> QED
      BY <2>0, <2>h, <3>1, <3>2 DEF Keep, Running
  <2>8. CASE DecSps(d)
    <3>1. Keep(d, "mark")
      BY <2>8, DecSteps
    <3>2. UNCHANGED <<session, codec, alive, playing, rx>> /\ dec[d].pc = "sps"
      BY <2>8 DEF DecSps, At, shared, params
    <3>3. dec[d].codec \in alive
      BY <3>2 DEF Life, Running
    <3>4. "uaf" \notin harm'
      BY <2>8, <2>h, <3>3 DEF DecSps, Mark
    <3> QED
      BY <2>0, <3>1, <3>2, <3>4 DEF Keep, Running
  <2>9. CASE DecMark(d)
    <3>1. Keep(d, "feed")
      BY <2>9, DecSteps
    <3>2. UNCHANGED <<session, codec, alive, playing, rx, harm>> /\ dec[d].pc = "mark"
      BY <2>9 DEF DecMark, At, params, track
    <3> QED
      BY <2>0, <2>h, <3>1, <3>2 DEF Keep, Running
  <2>10. CASE DecFeed(d)
    <3>1. PICK r \in FeedResults : FeedTo(d, r)
      BY <2>10, FeedEffect
    <3>2. UNCHANGED <<session, codec, alive, playing, rx>> /\ dec[d].pc = "feed"
      BY <2>10 DEF DecFeed, shared, params
    <3>3. Same(d) \in alive
      BY <3>2 DEF Life, Running, Same
    <3>4. "uaf" \notin harm'
      BY <2>h, <3>1, <3>3 DEF FeedTo, Mark
    <3>5. \E p \in {"free", "while"} : Touch(d, p, Same(d), NoFrame)
      BY <3>1 DEF FeedTo
    <3> QED
      BY <2>0, <3>2, <3>4, <3>5 DEF Same, Running
  <2>11. CASE DecFree(d)
    <3>1. Keep(d, "clear")
      BY <2>11, DecSteps
    <3>2. /\ UNCHANGED <<session, rx, harm>> /\ dec[d].pc = "free"
          /\ playing' = FALSE /\ codec' = 0
      BY <2>11 DEF DecFree, At
    <3>3. Running(d)
      BY <3>2 DEF Running
    <3>4. \A e \in D : Running(e)' => e = d
      BY <3>1, <3>3 DEF Keep, Touch, Running, Life
    <3>5. dec'[d].pc = "clear" /\ Running(d)'
      BY <3>1 DEF Keep, Touch, Running
    <3>6. rx # "codec"
      BY <3>3 DEF Life
    <3>7. \A t \in Starters : starter'[t] # "check"
      BY <2>s, <3>3 DEF Life
    <3> QED
      BY <1>n, <2>h, <2>s, <3>2, <3>4, <3>5, <3>6, <3>7 DEF Life, Over
  <2>12. CASE DecClear(d)
    <3>1. Touch(d, "dead", 0, NoFrame)
      BY <2>12, DecSteps
    <3>2. UNCHANGED <<session, codec, alive, playing, rx, harm>> /\ dec[d].pc = "clear"
      BY <2>12 DEF DecClear, params, track
    <3> QED
      BY <2>0, <2>h, <3>1, <3>2 DEF Running
  <2> QED
    BY <1>9, <2>1, <2>2, <2>3, <2>4, <2>5, <2>6, <2>7, <2>8, <2>9, <2>10, <2>11, <2>12 DEF Decode
<1>10. CASE UNCHANGED vars
  BY <1>10, <1>s, LifeKept DEF vars, shared, params, track, Over, Life
<1> QED
  BY <1>1, <1>2, <1>3, <1>4, <1>5, <1>6, <1>u, <1>v, <1>7, <1>8, <1>9t, <1>9, <1>10 DEF Next, Receive, Start, D
-----------------------------------------------------------------------------
LEMMA QuietStep ==
  ASSUME Types, Life, Quiet, [Next]_vars, Clean(Lifecycle)'
  PROVE  Quiet'
<1> DEFINE Before(r) == r \in {"codec", "format", "start"}
           Idle(p) == p \in {"none", "dead", "begin", "while", "get", "wait", "woken", "free", "clear"}
<1>1. ASSUME Before(rx'), Before(rx), list' = list, dev' = dev,
             \A d \in D : Idle(dec[d].pc) => Idle(dec'[d].pc)
      PROVE  Quiet'
  BY <1>1 DEF Quiet
<1>2. ASSUME ~Before(rx') PROVE Quiet'
  BY <1>2 DEF Quiet
<1>a. CASE RxConnect
  <2>1. list' = <<>> /\ \A d \in D : dec'[d].pc \in {"none", "dead"}
    BY <1>a, CleanStarts DEF RxConnect, Running
  <2>2. dev'.due
    BY <1>a DEF RxConnect
  <2> QED
    BY <2>1, <2>2 DEF Quiet
<1>b. CASE createMediaCodec \/ createMediaFormat
  BY <1>b, <1>1 DEF createMediaCodec, createMediaFormat, device
<1>c. CASE RxFrame \/ RxNotice \/ RxStop \/ RxSignal
  BY <1>c, <1>2 DEF RxFrame, RxNotice, RxStop, RxSignal
<1>d. CASE setSurface \/ UiStop
  <2>1. UNCHANGED <<rx, list, dev, dec>>
    BY <1>d DEF setSurface, UiStop, device
  <2> QED
    BY <1>1, <1>2, <2>1
<1>i. CASE UiSignal
  <2>1. Woke /\ UNCHANGED <<rx, list, dev>>
    BY <1>i, SignalEffect DEF UiSignal, device, shared
  <2>2. \A d \in D : Idle(dec[d].pc) => Idle(dec'[d].pc)
    BY <2>1 DEF Woke, Keep, Touch
  <2> QED
    BY <1>1, <1>2, <2>1, <2>2
<1>e. ASSUME NEW t \in Starters, StartTest(t) PROVE Quiet'
  <2>1. UNCHANGED <<list, dev, dec>> /\ (rx' = rx \/ rx' = "loop")
    BY <1>e DEF StartTest, After, device, shared
  <2> QED
    BY <1>1, <1>2, <2>1
<1>f. ASSUME NEW t \in Starters, StartGo(t) PROVE Quiet'
  <2>1. UNCHANGED <<rx, list, dev, dec>>
    BY <1>f DEF StartGo, device
  <2> QED
    BY <1>1, <1>2, <2>1
<1>j. ASSUME NEW t \in Starters, StartThread(t) PROVE Quiet'
  <2>1. UNCHANGED <<list, dev>> /\ (rx' = rx \/ rx' = "loop")
    BY <1>j DEF StartThread, After, device, shared
  <2>2. CASE playing
    <3>1. PICK d \in D : Touch(d, "begin", 0, NoFrame)
      BY <1>j, <2>2, GoEffect
    <3> QED
      BY <1>1, <1>2, <2>1, <3>1 DEF Touch
  <2>3. CASE ~playing
    <3>1. dec' = dec
      BY <1>j, <2>3 DEF StartThread
    <3> QED
      BY <1>1, <1>2, <2>1, <3>1
  <2> QED
    BY <2>2, <2>3
<1>g. ASSUME NEW d \in D, Decode(d) \/ Spurious(d) PROVE Quiet'
  <2>0. rx' = rx
    BY <1>g DEF Decode, Spurious, DecBegin, DecWhile, DecGet, DecWoken, DecFilter, DecCompare, DecSps,
                DecMark, DecFeed, DecFree, DecClear
  <2> SUFFICES ASSUME Before(rx) PROVE Quiet'
    BY <1>2, <2>0
  <2>1. list = <<>> /\ Idle(dec[d].pc)
    BY DEF Quiet
  <2>3. ASSUME list' = list, dev' = dev, NEW p, NEW c, NEW f, Touch(d, p, c, f), Idle(p) PROVE Quiet'
    BY <1>1, <2>0, <2>3 DEF Touch
  <2>4. CASE DecBegin(d)
    BY <2>3, <2>4, DecSteps DEF DecBegin, device
  <2>5. CASE DecWhile(d)
    <3>1. Keep(d, "get") \/ Keep(d, "free")
      BY <2>5, DecSteps
    <3>2. UNCHANGED <<list, dev>>
      BY <2>5 DEF DecWhile, device, shared
    <3> QED
      BY <2>3, <3>1, <3>2 DEF Keep
  <2>6. CASE DecGet(d)
    <3>1. Keep(d, "wait") /\ list' = list
      <4>1. Len(list) = 0
        BY <2>1
      <4> QED
        BY <2>6, <4>1, GetEffect DEF GetResult
    <3>2. dev' = dev
      BY <2>6 DEF DecGet, device
    <3> QED
      BY <2>3, <3>1, <3>2 DEF Keep
  <2>7. CASE DecWoken(d)
    <3>1. (Keep(d, "free") /\ list' = list) \/ UNCHANGED <<dec, list>>
      BY <2>1, <2>7, WokenEffect DEF WokenResult
    <3>2. dev' = dev
      BY <2>7 DEF DecWoken, device
    <3> QED
      BY <1>1, <2>0, <2>3, <3>1, <3>2 DEF Keep
  <2>8. CASE Spurious(d)
    <3>1. Keep(d, "woken") /\ UNCHANGED <<list, dev>>
      BY <2>8, DecSteps DEF Spurious, device, shared
    <3> QED
      BY <2>3, <3>1 DEF Keep
  <2>9. ~DecFilter(d) /\ ~DecCompare(d) /\ ~DecSps(d) /\ ~DecMark(d) /\ ~DecFeed(d)
    BY <2>1 DEF DecFilter, DecCompare, DecSps, DecMark, DecFeed, At
  <2>10. CASE DecFree(d)
    <3>1. Keep(d, "clear") /\ UNCHANGED <<list, dev>>
      BY <2>10, DecSteps DEF DecFree, device
    <3> QED
      BY <2>3, <3>1 DEF Keep
  <2>11. CASE DecClear(d)
    <3>1. Touch(d, "dead", 0, NoFrame) /\ list' = list /\ dev' = dev
      BY <2>1, <2>11, DecSteps DEF DecClear, device
    <3> QED
      BY <2>3, <3>1
  <2> QED
    BY <1>g, <2>4, <2>5, <2>6, <2>7, <2>8, <2>9, <2>10, <2>11 DEF Decode
<1>h. CASE UNCHANGED vars
  BY <1>h, <1>1, <1>2 DEF vars, device, shared
<1> QED
  BY <1>a, <1>b, <1>c, <1>d, <1>e, <1>f, <1>g, <1>h, <1>i, <1>j DEF Next, Receive, Start, D

(* The frames in hand, by the steps that take none.                        *)
HandsKept == \A d \in D : Has(d)' => Has(d) /\ dec'[d].frame = dec[d].frame
Passive(d) == DecBegin(d) \/ DecWhile(d) \/ Spurious(d) \/ DecFilter(d) \/ DecCompare(d) \/ DecSps(d)
              \/ DecMark(d) \/ DecFeed(d) \/ DecFree(d)

LEMMA HandKept ==
  ASSUME Types, NEW d \in D, Passive(d)
  PROVE  HandsKept
<1>1. ASSUME NEW p, NEW c, NEW f, Touch(d, p, c, f),
             p \in {"compare", "sps", "mark", "feed", "filter"} => Has(d) /\ f = dec[d].frame
      PROVE  HandsKept
  BY <1>1 DEF Touch, HandsKept, Has
<1>2. CASE DecBegin(d)
  <2>1. Touch(d, "while", codec, dec[d].frame)
    BY <1>2, DecSteps
  <2> QED
    BY <1>1, <2>1
<1>3. CASE DecWhile(d) \/ Spurious(d) \/ DecFree(d)
  <2>1. \E p \in {"get", "free", "woken", "clear"} : Touch(d, p, dec[d].codec, dec[d].frame)
    BY <1>3, DecSteps DEF Keep
  <2> QED
    BY <1>1, <2>1
<1>4. CASE DecFilter(d)
  <2>1. Touch(d, "while", Same(d), NoFrame) \/ Touch(d, "compare", dec[d].codec, dec[d].frame)
    BY <1>4, DecSteps DEF FilterResult, Keep
  <2>2. Has(d)
    BY <1>4 DEF DecFilter, Has
  <2> QED
    BY <1>1, <2>1, <2>2
<1>5. CASE DecCompare(d) \/ DecSps(d) \/ DecMark(d)
  <2>1. \E p \in {"sps", "feed", "mark"} : Touch(d, p, dec[d].codec, dec[d].frame)
    BY <1>5, DecSteps DEF Keep
  <2>2. Has(d)
    BY <1>5 DEF DecCompare, DecSps, DecMark, At, Has
  <2> QED
    BY <1>1, <2>1, <2>2
<1>6. CASE DecFeed(d)
  <2>1. PICK r \in FeedResults : FeedTo(d, r)
    BY <1>6, FeedEffect
  <2>2. \E p \in {"free", "while"} : Touch(d, p, Same(d), NoFrame)
    BY <2>1 DEF FeedTo
  <2> QED
    BY <1>1, <2>2
<1> QED
  BY <1>2, <1>3, <1>4, <1>5, <1>6 DEF Passive

LEMMA WokeHands ==
  ASSUME Types, Woke
  PROVE  HandsKept /\ \A d \in D : Has(d) => Has(d)'
<1>1. CASE dec' = dec
  BY <1>1 DEF HandsKept, Has
<1>2. ASSUME NEW d \in D, dec[d].pc = "wait", Keep(d, "woken")
      PROVE  HandsKept /\ \A e \in D : Has(e) => Has(e)'
  BY <1>2 DEF Keep, Touch, HandsKept, Has
<1> QED
  BY <1>1, <1>2 DEF Woke

LEMMA QueueKept ==
  ASSUME Types, Queue, HandsKept, list' = list, sent'.frames = sent.frames,
         dev'.due \/ (dev'.o = dev.o /\ ~dev.due)
  PROVE  Queue'
<1>1. \A d \in D : Has(d)' => /\ dec'[d].frame.n = sent.frames - Len(list)
                              /\ list # <<>> /\ ~list[1].key => list[1].o = dec'[d].frame.o
                              /\ list = <<>> /\ ~dev'.due => dec'[d].frame.o = dev'.o
  BY DEF Queue, HandsKept
<1>2. list # <<>> /\ ~dev'.due => list[Len(list)].o = dev'.o
  BY DEF Queue
<1> QED
  BY <1>1, <1>2 DEF Queue

(* Taking a frame, when there is one decoder.                              *)
LEMMA QueueTaken ==
  ASSUME Types, Queue, NEW d \in D, NEW k \in 1 .. Len(list), Takes(d, k),
         \A e \in D : e # d => ~Has(e), UNCHANGED <<dev, sent>>
  PROVE  Queue'
<1>0. list \in Seq(Frame) /\ Len(list) \in Nat /\ sent.frames \in Nat
  BY DEF Types
<1>1. list' \in Seq(Frame) /\ Len(list') = Len(list) - k /\ (\A i \in 1 .. Len(list') : list'[i] = list[i + k])
      /\ Len(list') \in Nat
  BY <1>0 DEF Takes
<1>2. \A e \in D : Has(e)' => e = d
  BY DEF Takes, Touch, Has
<1>3. dec'[d].frame = list[k]
  BY DEF Takes, Touch
<1>4. \A i \in 1 .. Len(list') : list'[i].n = sent.frames - Len(list') + i
  <2> TAKE i \in 1 .. Len(list')
  <2>1. i + k \in 1 .. Len(list) /\ list'[i] = list[i + k]
    BY <1>0, <1>1
  <2>2. list[i + k].n = sent.frames - Len(list) + (i + k)
    BY <2>1 DEF Queue
  <2> QED
    BY <1>0, <1>1, <2>1, <2>2
<1>5. \A i \in 2 .. Len(list') : ~list'[i].key => list'[i].o = list'[i - 1].o
  <2> TAKE i \in 2 .. Len(list')
  <2>1. i + k \in 2 .. Len(list) /\ list'[i] = list[i + k] /\ list'[i - 1] = list[(i + k) - 1]
    BY <1>0, <1>1
  <2>2. ~list[i + k].key => list[i + k].o = list[(i + k) - 1].o
    BY <2>1 DEF Queue
  <2> QED
    BY <2>1, <2>2
<1>6. list[k].n = sent.frames - Len(list')
  <2>1. list[k].n = sent.frames - Len(list) + k
    BY DEF Queue
  <2> QED
    BY <1>0, <1>1, <2>1
<1>7. list' # <<>> /\ ~list'[1].key => list'[1].o = list[k].o
  <2> SUFFICES ASSUME list' # <<>>, ~list'[1].key PROVE list'[1].o = list[k].o
    OBVIOUS
  <2>1. 1 + k \in 2 .. Len(list) /\ list'[1] = list[1 + k] /\ (1 + k) - 1 = k
    BY <1>0, <1>1
  <2> QED
    BY <2>1 DEF Queue
<1>8. list # <<>> /\ Len(list) >= 1
  BY <1>0
<1>9. ~dev.due => list[Len(list)].o = dev.o
  BY <1>8 DEF Queue
<1>10. list' = <<>> /\ ~dev.due => list[k].o = dev.o
  <2>1. list' = <<>> => k = Len(list)
    BY <1>0, <1>1
  <2> QED
    BY <1>9, <2>1
<1>11. list' # <<>> /\ ~dev.due => list'[Len(list')].o = dev.o
  <2>1. list' # <<>> => Len(list') \in 1 .. Len(list') /\ Len(list') + k = Len(list)
    BY <1>0, <1>1
  <2>2. list' # <<>> => list'[Len(list')] = list[Len(list)]
    BY <1>1, <2>1
  <2> QED
    BY <1>9, <2>2
<1>12. \A e \in D : Has(e)' => /\ dec'[e].frame.n = sent'.frames - Len(list')
                               /\ list' # <<>> /\ ~list'[1].key => list'[1].o = dec'[e].frame.o
                               /\ list' = <<>> /\ ~dev'.due => dec'[e].frame.o = dev'.o
  BY <1>2, <1>3, <1>6, <1>7, <1>10
<1> QED
  BY <1>4, <1>5, <1>11, <1>12 DEF Queue

(* A frame arrives.                                                        *)
LEMMA FrameEffect ==
  ASSUME Types, RxFrame
  PROVE  /\ Woke /\ rx = "loop" /\ ~dev.gone
         /\ \E k \in {TRUE, dev.due} : list' = Append(list, [n |-> sent.frames + 1, key |-> k, o |-> dev.o])
         /\ sent'.frames = sent.frames + 1
         /\ dev'.due = FALSE /\ dev'.o = dev.o /\ dev'.gone = dev.gone
         /\ UNCHANGED <<rx, session, codec, sps, playing, cur, pre, fed, causes, harm, alive>>
<1>1. Woke /\ \E k \in {TRUE, dev.due} : list' = Append(list, [n |-> sent.frames + 1, key |-> k, o |-> dev.o])
  BY SignalEffect DEF RxFrame, putData
<1>2. sent'.frames = sent.frames + 1 /\ dev'.due = FALSE /\ dev'.o = dev.o /\ dev'.gone = dev.gone
  BY DEF RxFrame, Types
<1> QED
  BY <1>1, <1>2 DEF RxFrame, params, track

LEMMA QueueFrame ==
  ASSUME Types, Queue, RxFrame
  PROVE  Queue'
<1>0. list \in Seq(Frame) /\ Len(list) \in Nat /\ sent.frames \in Nat
  BY DEF Types
<1>1. PICK k \in {TRUE, dev.due} : list' = Append(list, [n |-> sent.frames + 1, key |-> k, o |-> dev.o])
  BY FrameEffect
<1>2. sent'.frames = sent.frames + 1 /\ dev'.due = FALSE /\ dev'.o = dev.o /\ HandsKept
  BY FrameEffect, WokeHands
<1> DEFINE N == Len(list)
           f == [n |-> sent.frames + 1, key |-> k, o |-> dev.o]
<1>k. f.n = sent.frames + 1 /\ f.o = dev.o /\ (~f.key => ~dev.due)
  OBVIOUS
<1>3. Len(list') = N + 1 /\ (\A i \in 1 .. N : list'[i] = list[i]) /\ list'[N + 1] = f /\ list' # <<>>
  BY <1>0, <1>1
<1> HIDE DEF f
<1>4. \A i \in 1 .. Len(list') : list'[i].n = sent'.frames - Len(list') + i
  <2> TAKE i \in 1 .. Len(list')
  <2>1. CASE i \in 1 .. N
    <3>1. list[i].n = sent.frames - N + i
      BY <2>1 DEF Queue
    <3> QED
      BY <1>0, <1>2, <1>3, <2>1, <3>1
  <2>2. CASE i = N + 1
    BY <1>0, <1>2, <1>3, <1>k, <2>2
  <2> QED
    BY <1>0, <1>3, <2>1, <2>2
<1>5. \A i \in 2 .. Len(list') : ~list'[i].key => list'[i].o = list'[i - 1].o
  <2> TAKE i \in 2 .. Len(list')
  <2>1. CASE i \in 2 .. N
    <3>1. i \in 1 .. N /\ i - 1 \in 1 .. N
      BY <1>0, <2>1
    <3> QED
      BY <1>3, <2>1, <3>1 DEF Queue
  <2>2. CASE i = N + 1
    <3>1. N \in 1 .. N /\ i - 1 = N /\ list # <<>>
      BY <1>0, <2>2
    <3>2. ~dev.due => list[N].o = dev.o
      BY <3>1 DEF Queue
    <3> QED
      BY <1>3, <1>k, <2>2, <3>1, <3>2
  <2> QED
    BY <1>0, <1>3, <2>1, <2>2
<1>6. ASSUME NEW d \in D, Has(d)'
      PROVE  dec'[d].frame.n = sent'.frames - Len(list') /\ (~list'[1].key => list'[1].o = dec'[d].frame.o)
  <2>1. Has(d) /\ dec'[d].frame = dec[d].frame
    BY <1>2, <1>6 DEF HandsKept
  <2>2. dec[d].frame.n = sent.frames - N
    BY <2>1 DEF Queue
  <2>3. CASE list = <<>>
    <3>1. N + 1 = 1 /\ list'[1] = f
      BY <1>3, <2>3
    <3>2. ~dev.due => dec[d].frame.o = dev.o
      BY <2>1, <2>3 DEF Queue
    <3> QED
      BY <1>0, <1>2, <1>3, <1>k, <2>1, <2>2, <3>1, <3>2
  <2>4. CASE list # <<>>
    <3>1. 1 \in 1 .. N /\ list'[1] = list[1]
      BY <1>0, <1>3, <2>4
    <3>2. ~list[1].key => list[1].o = dec[d].frame.o
      BY <2>1, <2>4 DEF Queue
    <3> QED
      BY <1>0, <1>2, <1>3, <2>1, <2>2, <3>1, <3>2
  <2> QED
    BY <2>3, <2>4
<1>7. list'[Len(list')].o = dev'.o
  BY <1>2, <1>3, <1>k
<1> QED
  BY <1>2, <1>3, <1>4, <1>5, <1>6, <1>7 DEF Queue

LEMMA OneHand ==
  ASSUME Life, NEW d \in D, Running(d)
  PROVE  \A e \in D : e # d => ~Running(e) /\ ~Has(e)
BY DEF Life, Running, Has

(* The steps of a decoder leave what the receive thread owns.              *)
LEMMA DecodeOwns ==
  ASSUME NEW d \in D, Decode(d) \/ Spurious(d)
  PROVE  UNCHANGED <<dev, sent, rx, session>> /\ Running(d) /\ (DecClear(d) \/ UNCHANGED cur)
<1>1. UNCHANGED <<dev, sent, rx, session>> /\ (DecClear(d) \/ UNCHANGED cur)
  BY DEF Decode, Spurious, DecBegin, DecWhile, DecGet, DecWoken, DecFilter, DecCompare, DecSps,
         DecMark, DecFeed, DecFree, DecClear, device, shared
<1>2. Running(d)
  BY DEF Decode, Spurious, DecBegin, DecWhile, DecGet, DecWoken, DecFilter, DecCompare, DecSps,
         DecMark, DecFeed, DecFree, DecClear, At, Running
<1> QED
  BY <1>1, <1>2

LEMMA QueueStep ==
  ASSUME Types, Life, Queue, [Next]_vars, Clean(Lifecycle)'
  PROVE  Queue'
<1>s. ASSUME dec' = dec PROVE HandsKept
  BY <1>s DEF HandsKept, Has
<1>b. dev.due \in BOOLEAN
  BY DEF Types
<1>1. CASE RxConnect
  <2>1. list = <<>> /\ list' = <<>> /\ \A d \in D : ~Running(d) /\ dec'[d] = dec[d]
    BY <1>1, CleanStarts DEF RxConnect
  <2>2. \A d \in D : ~Has(d)'
    BY <2>1 DEF Has, Running
  <2>3. Len(list') = 0
    BY <2>1
  <2> QED
    BY <2>1, <2>2, <2>3 DEF Queue
<1>2. CASE createMediaCodec \/ createMediaFormat \/ RxStop \/ setSurface \/ UiStop
  <2>1. UNCHANGED <<list, dec, sent, dev>>
    BY <1>2 DEF createMediaCodec, createMediaFormat, RxStop, setSurface, UiStop, device
  <2> QED
    BY <1>b, <1>s, <2>1, QueueKept
<1>3. CASE RxFrame
  BY <1>3, QueueFrame
<1>4. CASE RxNotice
  <2>1. UNCHANGED <<list, dec>> /\ sent'.frames = sent.frames /\ dev'.due
    BY <1>4 DEF RxNotice, Types
  <2> QED
    BY <1>s, <2>1, QueueKept
<1>5. CASE RxSignal \/ UiSignal
  <2>1. Woke /\ UNCHANGED <<list, sent, dev>>
    BY <1>5, SignalEffect DEF RxSignal, UiSignal, device, shared
  <2> QED
    BY <1>b, <2>1, WokeHands, QueueKept
<1>6. ASSUME NEW t \in Starters, StartTest(t) \/ StartGo(t) PROVE Queue'
  <2>1. UNCHANGED <<list, dec, sent, dev>>
    BY <1>6 DEF StartTest, StartGo, device, shared
  <2> QED
    BY <1>b, <1>s, <2>1, QueueKept
<1>7. ASSUME NEW t \in Starters, StartThread(t) PROVE Queue'
  <2>1. UNCHANGED <<list, sent, dev>>
    BY <1>7 DEF StartThread, device, shared
  <2>2. HandsKept
    <3>1. CASE playing
      <4>1. PICK d \in D : Touch(d, "begin", 0, NoFrame)
        BY <1>7, <3>1, GoEffect
      <4> QED
        BY <4>1 DEF Touch, HandsKept, Has
    <3>2. CASE ~playing
      BY <1>7, <1>s, <3>2 DEF StartThread
    <3> QED
      BY <3>1, <3>2
  <2> QED
    BY <1>b, <2>1, <2>2, QueueKept
<1>8. ASSUME NEW d \in D, Decode(d) \/ Spurious(d) PROVE Queue'
  <2>1. UNCHANGED <<dev, sent>> /\ Running(d)
    BY <1>8, DecodeOwns
  <2>2. \A e \in D : e # d => ~Running(e) /\ ~Has(e)
    BY <2>1, OneHand
  <2>3. ASSUME list' = list, HandsKept PROVE Queue'
    BY <1>b, <2>1, <2>3, QueueKept
  <2>4. ASSUME NEW p, NEW c, NEW f, Touch(d, p, c, f), p \in {"wait", "free", "dead"} PROVE HandsKept
    BY <2>4 DEF Touch, HandsKept, Has
  <2>5. CASE DecGet(d)
    <3>1. GetResult(d)
      BY <2>5, GetEffect
    <3>2. CASE \E k \in 1 .. Len(list) : Takes(d, k)
      BY <2>1, <2>2, <3>2, QueueTaken
    <3>3. CASE Keep(d, "wait") /\ list' = list
      BY <2>3, <2>4, <3>3 DEF Keep
    <3> QED
      BY <3>1, <3>2, <3>3 DEF GetResult
  <2>6. CASE DecWoken(d)
    <3>1. WokenResult(d)
      BY <2>6, WokenEffect
    <3>2. CASE 1 \in 1 .. Len(list) /\ Takes(d, 1)
      BY <2>1, <2>2, <3>2, QueueTaken
    <3>3. CASE Keep(d, "free") /\ list' = list
      BY <2>3, <2>4, <3>3 DEF Keep
    <3>4. CASE UNCHANGED <<dec, list>>
      BY <1>s, <2>3, <3>4
    <3> QED
      BY <3>1, <3>2, <3>3, <3>4 DEF WokenResult
  <2>7. CASE DecClear(d)
    <3>1. list' = <<>> /\ Touch(d, "dead", 0, NoFrame)
      BY <2>7, DecSteps DEF DecClear
    <3>2. \A e \in D : ~Has(e)'
      BY <2>2, <3>1 DEF Touch, Has
    <3>3. Len(list') = 0
      BY <3>1
    <3> QED
      BY <3>1, <3>2, <3>3 DEF Queue
  <2>8. CASE Passive(d)
    <3>1. HandsKept
      BY <2>8, HandKept
    <3>2. list' = list
      BY <2>8 DEF Passive, DecBegin, DecWhile, Spurious, DecFilter, DecCompare, DecSps, DecMark, DecFeed,
                  DecFree, shared
    <3> QED
      BY <2>3, <3>1, <3>2
  <2> QED
    BY <1>8, <2>5, <2>6, <2>7, <2>8 DEF Decode, Passive
<1>9. CASE UNCHANGED vars
  <2>1. UNCHANGED <<list, dec, sent, dev>>
    BY <1>9 DEF vars, device, shared
  <2> QED
    BY <1>b, <1>s, <2>1, QueueKept
<1> QED
  BY <1>1, <1>2, <1>3, <1>4, <1>5, <1>6, <1>7, <1>8, <1>9 DEF Next, Receive, Start, D
-----------------------------------------------------------------------------
(* Nobody is woken in vain, except by a wait that returns by itself.       *)
LEMMA WokenStep ==
  ASSUME Types, Life, Woken, [Next]_vars, Clean(Lifecycle \cup {"spurious"})'
  PROVE  Woken'
<1>c. Clean(Lifecycle)' /\ "spurious" \notin causes'
  BY DEF Clean
<1>h. "front" \notin harm
  BY DEF Woken
<1>l. list \in Seq(Frame) /\ playing \in BOOLEAN
  BY DEF Types
<1>1. ASSUME dec' = dec, list' = list, playing' => playing, "front" \notin harm' PROVE Woken'
  BY <1>1, <1>l DEF Woken
<1>2. ASSUME \A d \in D : dec'[d].pc # "woken", "front" \notin harm' PROVE Woken'
  BY <1>2 DEF Woken
<1>a. CASE RxConnect \/ createMediaCodec \/ createMediaFormat \/ RxNotice \/ RxStop \/ setSurface \/ UiStop
  <2>1. UNCHANGED <<dec, list>> /\ (playing' = playing \/ ~playing')
    BY <1>a DEF RxConnect, createMediaCodec, createMediaFormat, RxNotice, RxStop, setSurface, UiStop
  <2>2. "front" \notin harm'
    BY <1>a, <1>h DEF RxConnect, createMediaCodec, createMediaFormat, RxNotice, RxStop, setSurface, UiStop, track, Mark
  <2> QED
    BY <1>1, <2>1, <2>2
<1>b. CASE RxFrame
  <2>1. list' # <<>> /\ harm' = harm
    <3>1. PICK k \in {TRUE, dev.due} : list' = Append(list, [n |-> sent.frames + 1, key |-> k, o |-> dev.o])
      BY <1>b, FrameEffect
    <3>2. [n |-> sent.frames + 1, key |-> k, o |-> dev.o] \in Frame
      <4>1. dev.due \in BOOLEAN /\ dev.o \in Orientation /\ sent.frames + 1 \in Nat
        BY DEF Types
      <4>2. k \in BOOLEAN
        BY <4>1
      <4> QED
        BY <4>1, <4>2 DEF Frame
    <3>3. Len(list') = Len(list) + 1 /\ Len(list) \in Nat
      BY <1>l, <3>1, <3>2
    <3>4. Len(list') # Len(<<>>)
      BY <3>3
    <3> QED
      BY <1>b, <3>4, FrameEffect
  <2> QED
    BY <1>h, <2>1 DEF Woken
<1>d. CASE RxSignal \/ UiSignal
  <2>1. ~playing /\ playing' = playing /\ harm' = harm
    BY <1>d DEF RxSignal, UiSignal, shared, track, Life, Over
  <2> QED
    BY <1>h, <2>1 DEF Woken
<1>e. ASSUME NEW t \in Starters, StartTest(t) PROVE Woken'
  BY <1>1, <1>e, <1>h DEF StartTest, shared, track
<1>f. ASSUME NEW t \in Starters, StartGo(t) PROVE Woken'
  <2>1. \A e \in D : ~Running(e) /\ dec'[e] = dec[e]
    BY <1>c, <1>f, CleanStarts DEF StartGo
  <2>2. \A e \in D : dec'[e].pc # "woken"
    BY <2>1 DEF Running
  <2>3. harm' = harm
    BY <1>f DEF StartGo
  <2> QED
    BY <1>2, <1>h, <2>2, <2>3
<1>t. ASSUME NEW t \in Starters, StartThread(t) PROVE Woken'
  <2>1. UNCHANGED <<list, playing, harm>>
    BY <1>t DEF StartThread, shared, track
  <2>2. CASE playing
    <3>1. PICK d \in D : Touch(d, "begin", 0, NoFrame)
      BY <1>t, <2>2, GoEffect
    <3>2. \A e \in D : ~Running(e)
      BY <1>t DEF StartThread, Life
    <3>3. \A e \in D : dec'[e].pc # "woken"
      BY <3>1, <3>2 DEF Touch, Running
    <3> QED
      BY <1>2, <1>h, <2>1, <3>3
  <2>3. CASE ~playing
    BY <1>1, <1>h, <1>t, <2>1, <2>3 DEF StartThread
  <2> QED
    BY <2>2, <2>3
<1>g. ASSUME NEW d \in D, Decode(d) \/ Spurious(d) PROVE Woken'
  <2>1. Running(d)
    BY <1>g, DecodeOwns
  <2>2. \A e \in D : e # d => dec[e].pc # "woken"
    <3>1. \A e \in D : e # d => ~Running(e)
      BY <2>1, OneHand
    <3> QED
      BY <3>1 DEF Running
  <2>3. ~Spurious(d)
    BY <1>c DEF Spurious
  <2>4. ASSUME NEW p, NEW c, NEW f, Touch(d, p, c, f), p # "woken", "front" \notin harm' PROVE Woken'
    BY <1>2, <2>2, <2>4 DEF Touch
  <2>5. CASE DecBegin(d)
    BY <1>h, <2>4, <2>5, DecSteps DEF DecBegin, track
  <2>6. CASE DecWhile(d) \/ DecCompare(d) \/ DecMark(d) \/ DecFree(d)
    <3>1. \E p \in {"get", "free", "sps", "feed", "clear"} : Touch(d, p, dec[d].codec, dec[d].frame)
      BY <2>6, DecSteps DEF Keep
    <3>2. harm' = harm
      BY <2>6 DEF DecWhile, DecCompare, DecMark, DecFree, track
    <3> QED
      BY <1>h, <2>4, <3>1, <3>2
  <2>7. CASE DecGet(d)
    <3>1. GetResult(d)
      BY <2>7, GetEffect
    <3>2. Keep(d, "wait") \/ \E k \in 1 .. Len(list) : Takes(d, k)
      BY <3>1 DEF GetResult
    <3>3. harm' = harm
      BY <2>7 DEF DecGet
    <3> QED
      BY <1>h, <2>4, <3>2, <3>3 DEF Keep, Takes
  <2>8. CASE DecWoken(d)
    <3>1. WokenResult(d) /\ dec[d].pc = "woken"
      BY <2>8, WokenEffect DEF DecWoken
    <3>2. list # <<>> \/ ~playing
      BY <3>1 DEF Woken
    <3>3. (Keep(d, "free") \/ Takes(d, 1)) /\ harm' = harm
      BY <3>1, <3>2 DEF WokenResult
    <3> QED
      BY <1>h, <2>4, <3>3 DEF Keep, Takes
  <2>9. CASE DecFilter(d)
    <3>1. FilterResult(d) /\ harm' = harm
      BY <2>9, DecSteps DEF DecFilter, track
    <3> QED
      BY <1>h, <2>4, <3>1 DEF FilterResult, Keep
  <2>10. CASE DecSps(d)
    <3>1. Keep(d, "mark") /\ "front" \notin harm'
      BY <1>h, <2>10, DecSteps DEF DecSps, Mark
    <3> QED
      BY <2>4, <3>1 DEF Keep
  <2>11. CASE DecFeed(d)
    <3>1. PICK r \in FeedResults : FeedTo(d, r)
      BY <2>11, FeedEffect
    <3>2. "front" \notin harm'
      BY <1>h, <3>1 DEF FeedTo, Mark
    <3>3. \E p \in {"free", "while"} : Touch(d, p, Same(d), NoFrame)
      BY <3>1 DEF FeedTo
    <3> QED
      BY <2>4, <3>2, <3>3
  <2>12. CASE DecClear(d)
    BY <1>h, <2>4, <2>12, DecSteps DEF DecClear, track
  <2> QED
    BY <1>g, <2>3, <2>5, <2>6, <2>7, <2>8, <2>9, <2>10, <2>11, <2>12 DEF Decode
<1>i. CASE UNCHANGED vars
  BY <1>1, <1>h, <1>i DEF vars, shared, track
<1> QED
  BY <1>a, <1>b, <1>d, <1>e, <1>f, <1>g, <1>t, <1>i DEF Next, Receive, Start, D
-----------------------------------------------------------------------------
(* A step that leaves the frames in hand where they are, or past the       *)
(* filter when they have the orientation.                                  *)
Counts == \A s \in 0 .. Sessions : fed'[s].n = fed[s].n
HandsSame ==
  /\ \A d \in D : (Has(d)' <=> Has(d)) /\ (dec[d].pc = "free" => dec'[d].pc = "free")
  /\ \A d \in D : Has(d) => /\ dec'[d].frame = dec[d].frame
                            /\ dec[d].pc = "filter" => dec'[d].pc = "filter" \/ dec[d].frame.o = cur

LEMMA TouchHands ==
  ASSUME Types, NEW d \in D, NEW p, NEW c, NEW f, Touch(d, p, c, f), dec[d].pc # "free",
         p \in {"filter", "compare", "sps", "mark", "feed"} <=> Has(d),
         Has(d) => f = dec[d].frame /\ (dec[d].pc = "filter" => dec[d].frame.o = cur)
  PROVE  HandsSame
<1>1. \A e \in D : e # d => dec'[e] = dec[e]
  BY DEF Touch
<1>2. dec'[d].pc = p /\ dec'[d].frame = f
  BY DEF Touch
<1> QED
  BY <1>1, <1>2 DEF HandsSame, Has

LEMMA WokeSame ==
  ASSUME Types, Woke
  PROVE  HandsSame
<1>1. CASE dec' = dec
  BY <1>1 DEF HandsSame, Has
<1>2. ASSUME NEW d \in D, dec[d].pc = "wait", Keep(d, "woken")
      PROVE  HandsSame
  BY <1>2, TouchHands DEF Keep, Has
<1> QED
  BY <1>1, <1>2 DEF Woke

LEMMA FeedingBefore ==
  ASSUME HandsSame, UNCHANGED <<codec, session>>, Feeding'
  PROVE  Feeding
BY DEF HandsSame, Feeding

LEMMA ChainKept ==
  ASSUME Types, Chain, HandsSame, UNCHANGED <<session, codec, cur, list>>, sent'.frames = sent.frames,
         dev'.o = dev.o, dev'.due = dev.due, Counts, rx' = "codec" => rx = "codec", "torn" \notin harm'
  PROVE  Chain'
<1>1. \A s \in 0 .. Sessions : s > session' \/ (s = session' /\ rx' = "codec") => fed'[s].n = 0
  BY DEF Chain, Counts
<1>2. Feeding' => Feeding
  BY FeedingBefore
<1>3. rx' = "codec" \/ Feeding' => cur' = dev'.o
  BY <1>2 DEF Chain
<1>4. ASSUME Feeding' PROVE Ready'
  <2>1. Ready /\ fed'[codec].n = fed[codec].n
    BY <1>2, <1>4 DEF Chain, Counts, Types
  <2>2. ASSUME NEW d \in D, Has(d)'
        PROVE  /\ fed'[codec].n < dec'[d].frame.n
               /\ ~dec'[d].frame.key => \/ fed'[codec].n = dec'[d].frame.n - 1
                                        \/ dec'[d].pc = "filter" /\ dec'[d].frame.o # cur
    <3>1. /\ Has(d) /\ dec'[d].frame = dec[d].frame
          /\ dec[d].pc = "filter" => dec'[d].pc = "filter" \/ dec[d].frame.o = cur
      BY <2>2 DEF HandsSame
    <3> QED
      BY <2>1, <3>1 DEF Ready
  <2>3. (\A d \in D : ~Has(d)') => (\A d \in D : ~Has(d))
    BY DEF HandsSame
  <2> QED
    BY <2>1, <2>2, <2>3 DEF Ready
<1> QED
  BY <1>1, <1>3, <1>4 DEF Chain

LEMMA ChainIdle ==
  ASSUME Chain, ~Feeding', rx' # "codec", session' = session, Counts, "torn" \notin harm'
  PROVE  Chain'
BY DEF Chain, Counts

LEMMA ChainTaken ==
  ASSUME Types, Life, Queue, Chain, NEW d \in D, Running(d), ~Has(d), dec[d].pc # "free",
         NEW k \in 1 .. Len(list), k = 1 \/ list[k].key, Takes(d, k),
         UNCHANGED <<dev, sent, session, codec, cur, rx, fed, harm>>
  PROVE  Chain'
<1>0. list \in Seq(Frame) /\ Len(list) \in Nat /\ sent.frames \in Nat /\ codec \in 0 .. Sessions
  BY DEF Types
<1>1. \A e \in D : ~Has(e)
  BY OneHand
<1>2. Touch(d, "filter", Same(d), list[k]) /\ Len(list') = Len(list) - k
  BY DEF Takes
<1>3. \A e \in D : (Has(e)' <=> e = d) /\ (dec[e].pc = "free" => dec'[e].pc = "free")
  BY <1>1, <1>2 DEF Touch, Has
<1>4. Feeding' => Feeding
  BY <1>3 DEF Feeding
<1>5. ASSUME Feeding' PROVE Ready'
  <2>1. Ready
    BY <1>4, <1>5 DEF Chain
  <2>2. fed[codec].n \in Nat /\ fed[codec].n <= sent.frames - Len(list)
    BY <1>0, <2>1 DEF Types, Ready
  <2>3. list[k].n = sent.frames - Len(list) + k
    BY DEF Queue
  <2>4. ~list[k].key => fed[codec].n = list[k].n - 1 \/ list[k].o # cur
    <3>1. list # <<>>
      BY <1>0
    <3> QED
      BY <1>1, <2>1, <3>1 DEF Ready
  <2>5. dec'[d].frame = list[k] /\ dec'[d].pc = "filter"
    BY <1>2 DEF Touch
  <2>6. fed[codec].n < list[k].n
    BY <1>0, <2>2, <2>3
  <2>7. fed[codec].n <= sent.frames - Len(list')
    BY <1>0, <1>2, <2>2
  <2> QED
    BY <1>3, <2>4, <2>5, <2>6, <2>7 DEF Ready
<1> QED
  BY <1>4, <1>5 DEF Chain

LEMMA ChainFrame ==
  ASSUME Types, Chain, RxFrame
  PROVE  Chain'
<1>0. list \in Seq(Frame) /\ Len(list) \in Nat /\ sent.frames \in Nat /\ codec \in 0 .. Sessions
  BY DEF Types
<1>1. PICK k \in {TRUE, dev.due} : list' = Append(list, [n |-> sent.frames + 1, key |-> k, o |-> dev.o])
  BY FrameEffect
<1>2. /\ sent'.frames = sent.frames + 1 /\ dev'.due = FALSE /\ dev'.o = dev.o /\ rx = "loop" /\ Woke
      /\ UNCHANGED <<rx, session, codec, cur, fed, harm>>
  BY FrameEffect
<1>h. HandsSame
  BY <1>2, WokeSame
<1>3. Feeding' => Feeding
  BY <1>2, <1>h, FeedingBefore
<1> DEFINE f == [n |-> sent.frames + 1, key |-> k, o |-> dev.o]
<1>k. f.n = sent.frames + 1 /\ (~f.key => ~dev.due)
  OBVIOUS
<1>4. /\ Len(list') = Len(list) + 1 /\ list' # <<>>
      /\ list = <<>> => list'[1] = f
      /\ list # <<>> => list'[1] = list[1]
  BY <1>0, <1>1
<1> HIDE DEF f
<1>5. ASSUME Feeding' PROVE Ready'
  <2>1. Ready
    BY <1>3, <1>5 DEF Chain
  <2>2. fed[codec].n <= sent'.frames - Len(list')
    BY <1>0, <1>2, <1>4, <2>1 DEF Ready
  <2>3. ASSUME NEW d \in D, Has(d)'
        PROVE  /\ fed[codec].n < dec'[d].frame.n
               /\ ~dec'[d].frame.key => \/ fed[codec].n = dec'[d].frame.n - 1
                                        \/ dec'[d].pc = "filter" /\ dec'[d].frame.o # cur
    <3>1. /\ Has(d) /\ dec'[d].frame = dec[d].frame
          /\ dec[d].pc = "filter" => dec'[d].pc = "filter" \/ dec[d].frame.o = cur
      BY <1>h, <2>3 DEF HandsSame
    <3> QED
      BY <2>1, <3>1 DEF Ready
  <2>4. ASSUME \A d \in D : ~Has(d)', ~list'[1].key
        PROVE  fed[codec].n = list'[1].n - 1 \/ list'[1].o # cur
    <3>1. \A d \in D : ~Has(d)
      BY <1>h, <2>4 DEF HandsSame
    <3>2. CASE list = <<>>
      <4>1. fed[codec].n = sent.frames
        BY <1>4, <1>k, <2>1, <2>4, <3>1, <3>2 DEF Ready
      <4> QED
        BY <1>0, <1>4, <1>k, <3>2, <4>1
    <3>3. CASE list # <<>>
      BY <1>4, <2>1, <2>4, <3>1, <3>3 DEF Ready
    <3> QED
      BY <3>2, <3>3
  <2> QED
    BY <1>2, <1>4, <2>2, <2>3, <2>4 DEF Ready
<1> QED
  BY <1>2, <1>3, <1>5 DEF Chain

LEMMA ChainNotice ==
  ASSUME Types, Chain, RxNotice, "again" \notin causes'
  PROVE  Chain'
<1>1. /\ UNCHANGED <<rx, session, codec, list, dec, fed, harm>> /\ rx = "loop"
      /\ sent'.frames = sent.frames
      /\ dev'.due /\ cur' = Other(dev.o) /\ dev'.o = Other(dev.o)
  BY DEF RxNotice, setOrientation, params, Types
<1>2. ~Queued(cur')
  BY <1>1 DEF RxNotice, Mark
<1>3. list \in Seq(Frame)
  BY DEF Types
<1>4. list # <<>> => list[1].o # cur'
  <2>1. list # <<>> => 1 \in DOMAIN list
    BY <1>3
  <2> QED
    BY <1>2, <2>1 DEF Queued
<1>5. \A d \in D : dec[d].pc = "filter" => dec[d].frame.o # cur'
  BY <1>2 DEF Queued, D
<1>6. ASSUME Feeding' PROVE Ready'
  <2>1. Ready
    BY <1>1, <1>6 DEF Chain, Feeding
  <2>2. \A d \in D : Has(d)' <=> Has(d)
    BY <1>1 DEF Has
  <2>3. \A d \in D : Has(d) =>
       /\ fed[codec].n < dec[d].frame.n
       /\ ~dec[d].frame.key => \/ fed[codec].n = dec[d].frame.n - 1
                               \/ dec[d].pc = "filter" /\ dec[d].frame.o # cur'
    BY <1>5, <2>1 DEF Ready
  <2> QED
    BY <1>1, <1>4, <2>1, <2>2, <2>3 DEF Ready
<1> QED
  BY <1>1, <1>6 DEF Chain

LEMMA ChainFilter ==
  ASSUME Types, Life, Queue, Chain, NEW d \in D, DecFilter(d)
  PROVE  Chain'
<1>0. list \in Seq(Frame) /\ codec \in 0 .. Sessions
  BY DEF Types
<1>1. FilterResult(d)
  BY DecSteps
<1>2. UNCHANGED <<dev, sent, rx, session, codec, list, cur, fed, harm>> /\ dec[d].pc = "filter"
  BY DEF DecFilter, device, shared, params, track
<1>3. Has(d) /\ Running(d) /\ dec[d].pc # "free"
  BY <1>2 DEF Has, Running
<1>h. Counts /\ "torn" \notin harm'
  BY <1>2 DEF Counts, Chain
<1>4. CASE dec[d].frame.o = cur /\ Keep(d, "compare")
  <2>1. HandsSame
    BY <1>2, <1>3, <1>4, TouchHands DEF Keep
  <2> QED
    BY <1>2, <1>h, <2>1, ChainKept
<1>5. CASE dec[d].frame.o # cur /\ Touch(d, "while", Same(d), NoFrame)
  <2>1. \A e \in D : ~Has(e)' /\ (dec[e].pc = "free" => dec'[e].pc = "free")
    BY <1>2, <1>3, <1>5, OneHand DEF Touch, Has
  <2>2. Feeding' => Feeding
    BY <1>2, <2>1 DEF Feeding
  <2>3. ASSUME Feeding' PROVE Ready'
    <3>1. Ready /\ cur = dev.o
      BY <2>2, <2>3 DEF Chain
    <3>2. list # <<>> /\ ~list[1].key => list[1].o # cur
      BY <1>3, <1>5 DEF Queue
    <3>3. list = <<>> => dev.due
      BY <1>3, <1>5, <3>1 DEF Queue
    <3> QED
      BY <1>2, <2>1, <3>1, <3>2, <3>3 DEF Ready
  <2> QED
    BY <1>2, <2>2, <2>3 DEF Chain
<1> QED
  BY <1>1, <1>4, <1>5 DEF FilterResult

(* A decoder past its start feeds the session's codec.                     *)
LEMMA RunningFeeds ==
  ASSUME Types, Life, NEW d \in D, dec[d].pc \in {"sps", "mark", "feed"}
  PROVE  /\ Feeding /\ Same(d) = codec /\ codec = session /\ rx # "codec"
         /\ codec \in 0 .. Sessions
<1>1. Running(d) /\ dec[d].pc # "clear" /\ dec[d].pc # "begin" /\ dec[d].pc # "free"
  BY DEF Running
<1>2. codec = session /\ codec # 0 /\ dec[d].codec = codec /\ rx # "codec"
  BY <1>1 DEF Life
<1>3. \A e \in D : dec[e].pc # "free"
  BY <1>1, OneHand DEF Running
<1> QED
  BY <1>2, <1>3 DEF Feeding, Same, Types

LEMMA ChainFeed ==
  ASSUME Types, Life, Queue, Chain, NEW d \in D, DecFeed(d), "busy" \notin causes'
  PROVE  Chain'
<1>0. list \in Seq(Frame) /\ codec \in 0 .. Sessions /\ sent.frames \in Nat /\ Len(list) \in Nat
  BY DEF Types
<1>f. fed \in [0 .. Sessions -> [n : Nat, o : {0} \cup Orientation]]
  BY DEF Types
<1>1. PICK r \in FeedResults : FeedTo(d, r)
  BY FeedEffect
<1>2. UNCHANGED <<dev, sent, rx, session, codec, list, cur>> /\ dec[d].pc = "feed"
  BY DEF DecFeed, device, shared, params
<1>3. Feeding /\ Same(d) = codec /\ codec = session /\ rx # "codec"
  BY <1>2, RunningFeeds
<1>4. Ready /\ Has(d) /\ Running(d)
  BY <1>2, <1>3 DEF Chain, Has, Running
<1>5. fed[codec].n < dec[d].frame.n /\ (~dec[d].frame.key => fed[codec].n = dec[d].frame.n - 1)
  BY <1>2, <1>4 DEF Ready
<1>6. "torn" \notin harm'
  BY <1>1, <1>3, <1>5 DEF FeedTo, Mark, Chain
<1>7. r # "busy"
  BY <1>1 DEF FeedTo, Mark
<1>8. CASE r = "failed"
  <2>1. dec'[d].pc = "free" /\ fed' = fed
    BY <1>1, <1>8, <1>3, <1>0, <1>f DEF FeedTo, Touch
  <2> QED
    BY <1>2, <1>3, <1>6, <2>1, ChainIdle DEF Counts, Feeding
<1>9. CASE r = "fed"
  <2>1. Touch(d, "while", Same(d), NoFrame)
    BY <1>1, <1>9 DEF FeedTo
  <2>2. \A e \in D : ~Has(e)'
    BY <1>4, <2>1, OneHand DEF Touch, Has
  <2>3. fed'[codec].n = dec[d].frame.n /\ \A s \in 0 .. Sessions : s # codec => fed'[s].n = fed[s].n
    BY <1>0, <1>1, <1>3, <1>9, <1>f DEF FeedTo
  <2>4. dec[d].frame.n = sent.frames - Len(list)
    BY <1>4 DEF Queue
  <2>5. list # <<>> => list[1].n - 1 = sent.frames - Len(list)
    <3>1. list # <<>> => 1 \in 1 .. Len(list)
      BY <1>0
    <3>2. list # <<>> => list[1].n = sent.frames - Len(list) + 1
      BY <3>1 DEF Queue
    <3> QED
      BY <1>0, <3>2
  <2>6. list = <<>> => sent.frames - Len(list) = sent.frames
    BY <1>0
  <2>7. Ready'
    BY <1>0, <1>2, <2>2, <2>3, <2>4, <2>5, <2>6 DEF Ready
  <2>8. \A s \in 0 .. Sessions : s > session \/ (s = session /\ rx = "codec") => fed'[s].n = 0
    <3>1. session \in Nat
      BY BoundsAssumption DEF Types
    <3> QED
      BY <1>3, <2>3, <3>1 DEF Chain
  <2> QED
    BY <1>2, <1>3, <1>6, <2>7, <2>8 DEF Chain
<1> QED
  BY <1>7, <1>8, <1>9 DEF FeedResults

LEMMA ChainStep ==
  ASSUME Types, Life, Quiet, Queue, Chain, [Next]_vars, Clean(Lifecycle \cup {"busy", "again"})'
  PROVE  Chain'
<1>c. Clean(Lifecycle)' /\ "busy" \notin causes' /\ "again" \notin causes'
  BY DEF Clean
<1>h. "torn" \notin harm
  BY DEF Chain
<1>n. session \in Nat /\ codec \in 0 .. Sessions /\ session \in 0 .. Sessions /\ sent.frames \in Nat
  BY BoundsAssumption DEF Types
<1>s. dec' = dec => HandsSame
  BY DEF HandsSame, Has
<1>1. CASE RxConnect
  <2>1. /\ session' = session + 1 /\ rx' = "codec" /\ cur' = dev'.o /\ UNCHANGED <<codec, fed, harm>>
    BY <1>1 DEF RxConnect, setOrientation
  <2>2. ~Feeding'
    BY <1>n, <2>1 DEF Life, Feeding
  <2>3. \A s \in 0 .. Sessions : s > session + 1 \/ s = session + 1 => fed[s].n = 0
    BY <1>n DEF Chain
  <2> QED
    BY <1>h, <2>1, <2>2, <2>3 DEF Chain
<1>2. CASE createMediaCodec
  <2>1. /\ codec' = session /\ rx' = "format" /\ rx = "codec"
        /\ UNCHANGED <<session, cur, dev, sent, list, dec, fed, harm>>
    BY <1>2 DEF createMediaCodec, device
  <2>2. list = <<>> /\ dev.due /\ (\A d \in D : ~Running(d)) /\ fed[session].n = 0 /\ cur = dev.o
    BY <1>n, <2>1 DEF Life, Quiet, Chain
  <2>3. \A d \in D : ~Has(d)'
    BY <2>1, <2>2 DEF Has, Running
  <2>4. sent.frames - Len(list) = sent.frames
    BY <1>n, <2>2
  <2>5. Ready'
    BY <1>n, <2>1, <2>2, <2>3, <2>4 DEF Ready
  <2> QED
    BY <1>h, <2>1, <2>2, <2>5 DEF Chain
<1>3. CASE createMediaFormat
  <2>1. /\ rx' = "start" /\ UNCHANGED <<session, codec, cur, dev, sent, list, dec>> /\ "torn" \notin harm'
    BY <1>3, <1>h DEF createMediaFormat, device, Mark
  <2>2. Counts
    BY <1>3 DEF createMediaFormat, Counts, Types
  <2> QED
    BY <1>s, <2>1, <2>2, ChainKept
<1>4. CASE RxFrame
  BY <1>4, ChainFrame
<1>5. CASE RxNotice
  BY <1>5, <1>c, ChainNotice
<1>6. CASE RxStop \/ setSurface \/ UiStop
  <2>1. UNCHANGED <<session, codec, cur, dev, sent, list, dec, fed, harm>> /\ (rx' = "signal" \/ rx' = rx)
    BY <1>6 DEF RxStop, setSurface, UiStop, device, params, track
  <2> QED
    BY <1>h, <1>s, <2>1, ChainKept DEF Counts
<1>7. CASE RxSignal \/ UiSignal
  <2>1. UNCHANGED <<session, codec, cur, dev, sent, list, fed, harm>> /\ (rx' = "idle" \/ rx' = rx) /\ Woke
    BY <1>7, SignalEffect DEF RxSignal, UiSignal, device, shared, params, track
  <2> QED
    BY <1>h, <2>1, WokeSame, ChainKept DEF Counts
<1>8. ASSUME NEW t \in Starters, Start(t) PROVE Chain'
  <2>1. UNCHANGED <<session, codec, cur, dev, sent, list, fed, harm>> /\ (rx' = rx \/ rx' = "loop")
    BY <1>8 DEF Start, StartTest, StartGo, StartThread, After, device, shared, params, track
  <2>2. HandsSame
    <3>1. CASE dec' = dec
      BY <1>s, <3>1
    <3>2. CASE StartThread(t) /\ playing
      <4>1. PICK d \in D : dec[d].pc = "none" /\ Touch(d, "begin", 0, NoFrame)
        BY <3>2, GoEffect
      <4> QED
        BY <4>1, TouchHands DEF Has
    <3> QED
      BY <1>8, <3>1, <3>2 DEF Start, StartTest, StartGo, StartThread
  <2> QED
    BY <1>h, <2>1, <2>2, ChainKept DEF Counts
<1>9. ASSUME NEW d \in D, Decode(d) \/ Spurious(d) PROVE Chain'
  <2>0. UNCHANGED <<dev, sent, rx, session>> /\ Running(d) /\ rx # "codec"
    BY <1>9, DecodeOwns DEF Life
  <2>1. CASE DecBegin(d) \/ DecWhile(d) \/ Spurious(d)
    <3>1. \E p \in {"while", "get", "free", "woken"}, c \in {codec, dec[d].codec} : Touch(d, p, c, dec[d].frame)
      BY <2>1, DecSteps DEF Keep
    <3>2. UNCHANGED <<codec, cur, list, fed, harm>> /\ dec[d].pc \in {"begin", "while", "wait"}
      BY <2>1 DEF DecBegin, DecWhile, Spurious, At, shared, params, track
    <3>3. HandsSame
      BY <3>1, <3>2, TouchHands DEF Has
    <3> QED
      BY <1>h, <2>0, <3>2, <3>3, ChainKept DEF Counts
  <2>2. CASE DecGet(d)
    <3>1. GetResult(d)
      BY <2>2, GetEffect
    <3>2. UNCHANGED <<codec, cur, fed, harm>> /\ dec[d].pc = "get" /\ ~Has(d)
      BY <2>2 DEF DecGet, params, Has
    <3>3. CASE \E k \in 1 .. Len(list) : (k = 1 \/ list[k].key) /\ Takes(d, k)
      BY <2>0, <3>2, <3>3, ChainTaken
    <3>4. CASE Keep(d, "wait") /\ list' = list
      <4>1. HandsSame
        BY <3>2, <3>4, TouchHands DEF Keep
      <4> QED
        BY <1>h, <2>0, <3>2, <3>4, <4>1, ChainKept DEF Counts
    <3> QED
      BY <3>1, <3>3, <3>4 DEF GetResult
  <2>3. CASE DecWoken(d)
    <3>1. WokenResult(d)
      BY <2>3, WokenEffect
    <3>2. UNCHANGED <<codec, cur, fed>> /\ dec[d].pc = "woken" /\ ~Has(d) /\ "torn" \notin harm'
      BY <1>h, <2>3 DEF DecWoken, params, Has
    <3>3. CASE 1 \in 1 .. Len(list) /\ Takes(d, 1) /\ UNCHANGED harm
      BY <2>0, <3>2, <3>3, ChainTaken
    <3>4. CASE Keep(d, "free") /\ list' = list
      <4>1. HandsSame
        BY <3>2, <3>4, TouchHands DEF Keep
      <4> QED
        BY <2>0, <3>2, <3>4, <4>1, ChainKept DEF Counts
    <3>5. CASE UNCHANGED <<dec, list>>
      BY <1>s, <2>0, <3>2, <3>5, ChainKept DEF Counts
    <3> QED
      BY <3>1, <3>3, <3>4, <3>5 DEF WokenResult
  <2>4. CASE DecFilter(d)
    BY <2>4, ChainFilter
  <2>5. CASE DecCompare(d) \/ DecMark(d)
    <3>1. \E p \in {"sps", "feed"} : Touch(d, p, dec[d].codec, dec[d].frame)
      BY <2>5, DecSteps DEF Keep
    <3>2. UNCHANGED <<codec, cur, list, fed, harm>> /\ dec[d].pc \in {"compare", "mark"}
      BY <2>5 DEF DecCompare, DecMark, At, shared, params, track
    <3>3. HandsSame
      BY <3>1, <3>2, TouchHands DEF Has
    <3> QED
      BY <1>h, <2>0, <3>2, <3>3, ChainKept DEF Counts
  <2>6. CASE DecSps(d)
    <3>1. Keep(d, "mark")
      BY <2>6, DecSteps
    <3>2. UNCHANGED <<codec, cur, list>> /\ dec[d].pc = "sps" /\ "torn" \notin harm'
      BY <1>h, <2>6 DEF DecSps, At, shared, params, Mark
    <3>3. Counts
      <4>1. Same(d) \in 0 .. Sessions /\ fed \in [0 .. Sessions -> [n : Nat, o : {0} \cup Orientation]]
        BY DEF Types, Same, DecRec
      <4>2. \E r \in FeedResults : fed' = [fed EXCEPT ![Same(d)].o = IF r = "fed" /\ cur \in sps THEN cur ELSE @]
        BY <2>6 DEF DecSps, Same
      <4> QED
        BY <4>1, <4>2 DEF Counts
    <3>4. HandsSame
      BY <3>1, <3>2, TouchHands DEF Has, Keep
    <3> QED
      BY <2>0, <3>2, <3>3, <3>4, ChainKept
  <2>7. CASE DecFeed(d)
    BY <1>c, <2>7, ChainFeed
  <2>8. CASE DecFree(d)
    <3>1. codec' = 0 /\ UNCHANGED <<fed, harm>>
      BY <2>8 DEF DecFree
    <3> QED
      BY <1>h, <2>0, <3>1, ChainIdle DEF Feeding, Counts
  <2>9. CASE DecClear(d)
    <3>1. codec' = 0 /\ UNCHANGED <<fed, harm>>
      BY <2>9 DEF DecClear, params, track, Life
    <3> QED
      BY <1>h, <2>0, <3>1, ChainIdle DEF Feeding, Counts
  <2> QED
    BY <1>9, <2>1, <2>2, <2>3, <2>4, <2>5, <2>6, <2>7, <2>8, <2>9 DEF Decode
<1>10. CASE UNCHANGED vars
  BY <1>10, <1>h, <1>s, ChainKept DEF vars, device, shared, params, track, Counts
<1> QED
  BY <1>1, <1>2, <1>3, <1>4, <1>5, <1>6, <1>7, <1>8, <1>9, <1>10 DEF Next, Receive, Start, D
-----------------------------------------------------------------------------
(* A step of a decoder that changes no parameters.                         *)
Stage(d) ==
  /\ Begun(d)' <=> Begun(d)
  /\ dec[d].pc = "free" => dec'[d].pc = "free"
  /\ dec'[d].pc = "mark" <=> dec[d].pc = "mark"
  /\ Has(d)' => Has(d) \/ ~dev.gone
  /\ InUse(d)' => dec'[d].frame = dec[d].frame /\ (InUse(d) \/ dec[d].frame.o = cur)
  /\ dec'[d].pc = "feed" => dec[d].pc = "feed" \/ pre = cur

LEMMA TouchStage ==
  ASSUME Types, NEW d \in D, NEW p, NEW c, NEW f, Touch(d, p, c, f), Begun(d), dec[d].pc # "mark",
         p \in {"while", "get", "wait", "woken", "filter", "compare", "sps", "feed"},
         p = "filter" => ~dev.gone,
         p \in {"compare", "sps", "feed"} => Has(d) /\ f = dec[d].frame /\ (InUse(d) \/ dec[d].frame.o = cur),
         p = "feed" => pre = cur
  PROVE  \A e \in D : Stage(e)
<1>1. \A e \in D : e # d => dec'[e] = dec[e]
  BY DEF Touch
<1>2. \A e \in D : e # d => Stage(e)
  BY <1>1 DEF Stage, Begun, Has, InUse
<1>3. dec'[d].pc = p /\ dec'[d].frame = f
  BY DEF Touch
<1>4. (Begun(d)' <=> Begun(d)) /\ dec[d].pc # "free" /\ dec'[d].pc # "mark"
  BY <1>3 DEF Begun
<1>5. Has(d)' => Has(d) \/ ~dev.gone
  BY <1>3 DEF Has
<1>6. InUse(d)' => dec'[d].frame = dec[d].frame /\ (InUse(d) \/ dec[d].frame.o = cur)
  BY <1>3 DEF InUse
<1>7. Stage(d)
  BY <1>3, <1>4, <1>5, <1>6 DEF Stage
<1> QED
  BY <1>2, <1>7

LEMMA SameStages ==
  ASSUME dec' = dec
  PROVE  \A d \in D : Stage(d)
BY DEF Stage, Begun, Has, InUse

LEMMA WokeStage ==
  ASSUME Types, Woke
  PROVE  \A d \in D : Stage(d)
<1>1. ASSUME NEW d \in D, dec[d].pc = "wait", Keep(d, "woken")
      PROVE  \A e \in D : Stage(e)
  BY <1>1, TouchStage DEF Keep, Begun
<1> QED
  BY <1>1, SameStages DEF Woke

LEMMA ParametersKept ==
  ASSUME Types, Parameters, UNCHANGED <<session, codec, cur, pre, sps>>, dev'.o = dev.o, dev'.gone = dev.gone,
         dev.gone => list' = list, fed'[codec].o = fed[codec].o,
         rx' = "format" <=> rx = "format", rx' = "codec" => rx = "codec", "config" \notin harm',
         \A d \in D : Stage(d)
  PROVE  Parameters'
<1>1. Feeding' => Feeding
  BY DEF Feeding, Stage
<1>2. rx' = "codec" \/ Feeding' => cur' = dev'.o
  BY <1>1 DEF Parameters
<1>3. ASSUME Stocked PROVE Stocked'
  <2>1. dev.gone => \A d \in D : ~Has(d)'
    BY <1>3 DEF Stocked, Stage
  <2> QED
    BY <1>3, <2>1 DEF Stocked
<1>4. Feeding' /\ rx' = "format" => \A d \in D : Begun(d)' => pre' = dev'.o
  BY <1>1 DEF Parameters, Stage
<1>5. ASSUME Configured PROVE Configured'
  <2>1. \A d \in D : Begun(d)' => fed'[codec].o = IF dec'[d].pc = "mark" THEN cur ELSE pre
    BY <1>5 DEF Configured, Stage
  <2>2. (\A d \in D : ~Begun(d)') => fed'[codec].o = dev'.o
    BY <1>5 DEF Configured, Stage
  <2>3. \A d \in D : InUse(d)' => dec'[d].frame.o = cur
    BY <1>5 DEF Configured, Stage
  <2>4. \A d \in D : dec'[d].pc = "feed" => pre = cur
    BY <1>5 DEF Configured, Stage
  <2> QED
    BY <2>1, <2>2, <2>3, <2>4 DEF Configured
<1> QED
  BY <1>1, <1>2, <1>3, <1>4, <1>5 DEF Parameters

LEMMA ParametersIdle ==
  ASSUME ~Feeding', rx' # "codec", "config" \notin harm'
  PROVE  Parameters'
BY DEF Parameters

LEMMA ParametersNotice ==
  ASSUME Types, Life, Parameters, RxNotice, "turn" \notin causes', "early" \notin causes'
  PROVE  Parameters'
<1>1. /\ UNCHANGED <<rx, session, codec, sps, list, pre, dec, fed, harm>> /\ rx = "loop" /\ ~dev.gone
      /\ cur' = Other(dev.o) /\ dev'.o = Other(dev.o) /\ dev'.gone = dev.gone
  BY DEF RxNotice, setOrientation, params, Types
<1>2. InHand = {} /\ ~(\A d \in 1 .. Decoders : dec[d].pc \in {"none", "begin", "dead"})
  <2>1. causes' = causes \cup Mark("turn", InHand # {})
              \cup Mark("early", \A d \in 1 .. Decoders : dec[d].pc \in {"none", "begin", "dead"})
              \cup Mark("again", Queued(Other(dev.o)))
    BY DEF RxNotice
  <2> QED
    BY <2>1 DEF Mark
<1>3. \A d \in D : ~InUse(d)
  BY <1>2 DEF InHand, InUse, D
<1>4. PICK d \in D : dec[d].pc \notin {"none", "begin", "dead"}
  BY <1>2 DEF D
<1>5. Feeding => Begun(d)
  BY <1>4 DEF Feeding, Begun, Life
<1>6. (Feeding' <=> Feeding) /\ \A e \in D : (Has(e)' <=> Has(e)) /\ (Begun(e)' <=> Begun(e))
  BY <1>1 DEF Feeding, Has, Begun
<1>7. ASSUME Feeding PROVE Stocked' /\ Configured'
  <2>1. Stocked /\ Configured /\ Begun(d)
    BY <1>1, <1>5, <1>7 DEF Parameters
  <2>2. Stocked'
    BY <1>1, <1>6, <2>1 DEF Stocked
  <2>3. \A e \in D : dec[e].pc # "mark" /\ dec[e].pc # "feed"
    BY <1>3 DEF InUse
  <2>4. \A e \in D : ~InUse(e)'
    BY <1>1, <1>3 DEF InUse
  <2>5. \A e \in D : Begun(e)' => fed[codec].o = pre
    BY <1>6, <2>1, <2>3 DEF Configured
  <2> QED
    BY <1>1, <1>6, <2>1, <2>2, <2>3, <2>4, <2>5 DEF Configured
<1> QED
  BY <1>1, <1>6, <1>7 DEF Parameters

(* A decoder begins with the orientation the format was made for.          *)
LEMMA ParametersBegin ==
  ASSUME Types, Life, Parameters, NEW d \in D, DecBegin(d)
  PROVE  Parameters'
<1>1. UNCHANGED <<dev, rx, session, codec, sps, list, cur, fed, harm>> /\ dec[d].pc = "begin" /\ pre' = cur
  BY DEF DecBegin, device, params, track
<1>2. Touch(d, "while", codec, dec[d].frame)
  BY DecSteps
<1>3. Running(d)
  BY <1>1 DEF Running
<1>4. \A e \in D : e # d => ~Running(e)
  BY <1>3, OneHand
<1>5. \A e \in D : ~Begun(e)
  BY <1>1, <1>4 DEF Begun, Running
<1>6. \A e \in D : ~Has(e)' /\ ~InUse(e)' /\ dec'[e].pc # "feed" /\ dec'[e].pc # "mark"
  BY <1>2, <1>4 DEF Touch, Has, InUse, Running
<1>7. Feeding' => Feeding
  BY <1>1, <1>2 DEF Feeding, Touch
<1>8. Stocked => Stocked'
  BY <1>1, <1>6 DEF Stocked
<1>9. Begun(d)'
  BY <1>2 DEF Touch, Begun
<1>10. Feeding /\ rx # "format" /\ ~dev.gone => Configured'
  <2>1. Feeding /\ rx # "format" /\ ~dev.gone => fed[codec].o = dev.o /\ cur = dev.o
    BY <1>5 DEF Parameters, Configured
  <2> QED
    BY <1>1, <1>6, <1>9, <2>1 DEF Configured
<1> QED
  BY <1>1, <1>7, <1>8, <1>10 DEF Parameters

(* A decoder with a frame in hand, once there are parameters.              *)
LEMMA InHandFacts ==
  ASSUME Types, Life, Quiet, Parameters, NEW d \in D, dec[d].pc \in {"sps", "mark", "feed"}
  PROVE  /\ Feeding /\ Same(d) = codec /\ codec \in 0 .. Sessions /\ rx \notin {"codec", "format"}
         /\ cur = dev.o /\ Stocked /\ ~dev.gone /\ Orientation \subseteq sps /\ Configured
         /\ \A e \in D : e # d => ~Running(e)
<1>1. Feeding /\ Same(d) = codec /\ codec \in 0 .. Sessions /\ rx # "codec"
  BY RunningFeeds
<1>2. rx # "format"
  BY DEF Quiet
<1>3. cur = dev.o /\ Stocked
  BY <1>1 DEF Parameters
<1>4. Has(d) /\ Running(d)
  BY DEF Has, Running
<1>5. ~dev.gone /\ Orientation \subseteq sps
  BY <1>3, <1>4 DEF Stocked
<1> QED
  BY <1>1, <1>2, <1>3, <1>4, <1>5, OneHand DEF Parameters

LEMMA ParametersSps ==
  ASSUME Types, Life, Quiet, Parameters, NEW d \in D, DecSps(d), "busy" \notin causes'
  PROVE  Parameters'
<1>1. UNCHANGED <<dev, rx, session, codec, sps, list, cur, pre>> /\ dec[d].pc = "sps" /\ "config" \notin harm'
  BY DEF DecSps, At, device, shared, params, Mark, Parameters
<1>2. /\ Feeding /\ Same(d) = codec /\ codec \in 0 .. Sessions /\ rx \notin {"codec", "format"}
      /\ cur = dev.o /\ Stocked /\ ~dev.gone /\ Orientation \subseteq sps /\ Configured
      /\ \A e \in D : e # d => ~Running(e)
  BY <1>1, InHandFacts
<1>3. Keep(d, "mark")
  BY DecSteps
<1>4. fed'[codec].o = cur
  <2>1. PICK r \in FeedResults :
          /\ fed' = [fed EXCEPT ![Same(d)].o = IF r = "fed" /\ cur \in sps THEN cur ELSE @]
          /\ causes' = causes \cup Mark("busy", r # "fed")
    BY DEF DecSps, Same
  <2>2. r = "fed" /\ cur \in sps
    BY <1>2, <2>1 DEF Mark, Types
  <2>3. fed[codec] \in [n : Nat, o : {0} \cup Orientation]
    BY <1>2 DEF Types
  <2> QED
    BY <1>2, <2>1, <2>2, <2>3 DEF Types
<1>5. \A e \in D : Begun(e)' => e = d
  BY <1>2, <1>3 DEF Keep, Touch, Begun, Running
<1>6. \A e \in D : InUse(e)' => e = d
  BY <1>2, <1>3 DEF Keep, Touch, InUse, Running
<1>7. dec'[d].pc = "mark" /\ dec'[d].frame = dec[d].frame /\ Begun(d)' /\ dec[d].frame.o = cur
  BY <1>1, <1>2, <1>3 DEF Keep, Touch, Begun, Configured, InUse
<1>8. \A e \in D : dec'[e].pc # "feed"
  BY <1>2, <1>3 DEF Keep, Touch, Running
<1>9. Configured'
  BY <1>1, <1>4, <1>5, <1>6, <1>7, <1>8 DEF Configured
<1>10. Stocked'
  BY <1>1, <1>2 DEF Stocked
<1> QED
  BY <1>1, <1>2, <1>9, <1>10 DEF Parameters

LEMMA ParametersMark ==
  ASSUME Types, Life, Quiet, Parameters, NEW d \in D, DecMark(d)
  PROVE  Parameters'
<1>1. UNCHANGED <<dev, rx, session, codec, sps, list, cur, fed, harm>> /\ dec[d].pc = "mark" /\ pre' = cur
  BY DEF DecMark, At, device, params, track
<1>2. /\ Feeding /\ rx \notin {"codec", "format"}
      /\ cur = dev.o /\ Stocked /\ ~dev.gone /\ Orientation \subseteq sps /\ Configured
      /\ \A e \in D : e # d => ~Running(e)
  BY <1>1, InHandFacts
<1>3. Keep(d, "feed")
  BY DecSteps
<1>4. fed[codec].o = cur
  BY <1>1, <1>2 DEF Configured, Begun
<1>5. \A e \in D : (Begun(e)' => e = d) /\ (InUse(e)' => e = d)
  BY <1>2, <1>3 DEF Keep, Touch, Begun, InUse, Running
<1>6. dec'[d].pc = "feed" /\ dec'[d].frame = dec[d].frame /\ Begun(d)' /\ dec[d].frame.o = cur
  BY <1>1, <1>2, <1>3 DEF Keep, Touch, Begun, Configured, InUse
<1>7. Configured'
  BY <1>1, <1>4, <1>5, <1>6 DEF Configured
<1>8. Stocked'
  BY <1>1, <1>2 DEF Stocked
<1> QED
  BY <1>1, <1>2, <1>7, <1>8 DEF Parameters

LEMMA ParametersFeed ==
  ASSUME Types, Life, Quiet, Parameters, NEW d \in D, DecFeed(d)
  PROVE  Parameters'
<1>1. UNCHANGED <<dev, rx, session, codec, sps, list, cur, pre>> /\ dec[d].pc = "feed"
  BY DEF DecFeed, device, shared, params
<1>2. /\ Feeding /\ Same(d) = codec /\ codec \in 0 .. Sessions /\ rx \notin {"codec", "format"} /\ Configured
  BY <1>1, InHandFacts
<1>3. PICK r \in FeedResults : FeedTo(d, r)
  BY FeedEffect
<1>4. fed[codec].o = dec[d].frame.o
  BY <1>1, <1>2 DEF Configured, Begun, InUse
<1>5. "config" \notin harm'
  BY <1>2, <1>3, <1>4 DEF FeedTo, Mark, Parameters
<1>6. fed'[codec].o = fed[codec].o
  <2>1. fed \in [0 .. Sessions -> [n : Nat, o : {0} \cup Orientation]]
    BY DEF Types
  <2> QED
    BY <1>2, <1>3, <2>1 DEF FeedTo
<1>7. CASE r = "failed"
  <2>1. dec'[d].pc = "free"
    BY <1>3, <1>7 DEF FeedTo, Touch
  <2> QED
    BY <1>1, <1>2, <1>5, <2>1, ParametersIdle DEF Feeding
<1>8. CASE r # "failed"
  <2>1. Touch(d, "while", Same(d), NoFrame)
    BY <1>3, <1>8 DEF FeedTo
  <2>2. Begun(d)
    BY <1>1 DEF Begun
  <2>3. \A e \in D : Stage(e)
    BY <1>1, <2>1, <2>2, TouchStage
  <2> QED
    BY <1>1, <1>2, <1>5, <1>6, <2>3, ParametersKept
<1> QED
  BY <1>7, <1>8

LEMMA ParametersStep ==
  ASSUME Types, Life, Quiet, Parameters, [Next]_vars, Clean(Lifecycle \cup {"turn", "early", "busy"})'
  PROVE  Parameters'
<1>c. Clean(Lifecycle)' /\ "turn" \notin causes' /\ "early" \notin causes' /\ "busy" \notin causes'
  BY DEF Clean
<1>h. "config" \notin harm
  BY DEF Parameters
<1>n. session \in Nat /\ codec \in 0 .. Sessions /\ session \in 0 .. Sessions
  BY BoundsAssumption DEF Types
<1>1. CASE RxConnect
  <2>1. PICK o \in Orientation, k \in 0 .. 2 :
          /\ dev' = [o |-> o, due |-> TRUE, gone |-> k < 2] /\ cur' = o /\ sps' = setSpsPps(o, k)
    BY <1>1 DEF RxConnect, setOrientation
  <2>2. session' = session + 1 /\ UNCHANGED <<codec, harm>> /\ rx' = "codec"
    BY <1>1 DEF RxConnect
  <2>3. ~Feeding'
    BY <1>n, <2>2 DEF Life, Feeding
  <2>4. list' = <<>> /\ \A d \in D : ~Has(d)'
    BY <1>1, <1>c, CleanStarts DEF RxConnect, Has, Running
  <2>5. ~dev'.gone => Orientation \subseteq sps'
    <3>1. k < 2 => dev'.gone
      <4>1. k < 2 => (k < 2) = TRUE
        OBVIOUS
      <4> QED
        BY <2>1, <4>1, Zenon
    <3>2. ~dev'.gone => k > 1
      BY <3>1
    <3>3. k > 1 => Orientation \subseteq setSpsPps(o, k)
      BY DEF setSpsPps
    <3> QED
      BY <2>1, <3>2, <3>3
  <2>6. Stocked' /\ cur' = dev'.o
    BY <2>1, <2>4, <2>5 DEF Stocked
  <2> QED
    BY <1>h, <2>2, <2>3, <2>6 DEF Parameters
<1>2. CASE createMediaCodec
  <2>1. /\ codec' = session /\ rx' = "format" /\ rx = "codec"
        /\ UNCHANGED <<session, cur, dev, sps, list, dec, harm>>
    BY <1>2 DEF createMediaCodec, device
  <2>2. (\A d \in D : ~Running(d)) /\ cur = dev.o /\ Stocked
    BY <2>1 DEF Life, Parameters
  <2>3. \A d \in D : ~Begun(d)' /\ (Has(d)' <=> Has(d))
    BY <2>1, <2>2 DEF Begun, Running, Has
  <2>4. Stocked'
    BY <2>1, <2>2, <2>3 DEF Stocked
  <2> QED
    BY <1>h, <2>1, <2>2, <2>3, <2>4 DEF Parameters
<1>3. CASE createMediaFormat
  <2>1. /\ rx = "format" /\ rx' = "start" /\ "config" \notin harm'
        /\ UNCHANGED <<session, codec, cur, pre, dev, sps, list, dec>>
    BY <1>3, <1>h DEF createMediaFormat, device, Mark
  <2>2. fed'[session].o = IF dev.o \in sps THEN dev.o ELSE 0
    BY <1>3, <1>n DEF createMediaFormat, Types
  <2>3. /\ (Feeding' <=> Feeding)
        /\ \A d \in D : (Begun(d)' <=> Begun(d)) /\ (Has(d)' <=> Has(d)) /\ ~InUse(d)' /\ dec'[d].pc # "feed"
    BY <2>1 DEF Feeding, Begun, Has, InUse, Quiet
  <2>4. \A d \in D : dec'[d].pc # "mark"
    BY <2>1 DEF Quiet
  <2>5. ASSUME Feeding PROVE Stocked' /\ cur' = dev'.o /\ (~dev'.gone => Configured')
    <3>1. Stocked /\ cur = dev.o /\ \A d \in D : Begun(d) => pre = dev.o
      BY <2>1, <2>5 DEF Parameters
    <3>2. Stocked'
      BY <2>1, <2>3, <3>1 DEF Stocked
    <3>3. ~dev.gone => fed'[codec].o = dev.o
      BY <2>2, <2>5, <3>1 DEF Stocked, Feeding, Types
    <3>4. ~dev'.gone => Configured'
      BY <2>1, <2>3, <2>4, <3>1, <3>3 DEF Configured
    <3> QED
      BY <2>1, <3>1, <3>2, <3>4
  <2> QED
    BY <2>1, <2>3, <2>5 DEF Parameters
<1>4. CASE RxFrame
  <2>1. /\ Woke /\ ~dev.gone /\ dev'.o = dev.o /\ dev'.gone = dev.gone
        /\ UNCHANGED <<rx, session, codec, sps, cur, pre, fed, harm>>
    BY <1>4, FrameEffect
  <2> QED
    BY <1>h, <2>1, WokeStage, ParametersKept
<1>5. CASE RxNotice
  BY <1>5, <1>c, ParametersNotice
<1>6. CASE RxStop \/ setSurface \/ UiStop
  <2>1. /\ UNCHANGED <<session, codec, cur, pre, sps, dev, list, dec, fed, harm>>
        /\ (rx = "loop" /\ rx' = "signal") \/ rx' = rx
    BY <1>6 DEF RxStop, setSurface, UiStop, device, params, track
  <2> QED
    BY <1>h, <2>1, SameStages, ParametersKept
<1>7. CASE RxSignal \/ UiSignal
  <2>1. /\ UNCHANGED <<session, codec, cur, pre, sps, dev, list, fed, harm>> /\ Woke
        /\ (rx = "signal" /\ rx' = "idle") \/ rx' = rx
    BY <1>7, SignalEffect DEF RxSignal, UiSignal, device, shared, params, track
  <2> QED
    BY <1>h, <2>1, WokeStage, ParametersKept
<1>8. ASSUME NEW t \in Starters, Start(t) PROVE Parameters'
  <2>1. UNCHANGED <<session, codec, cur, pre, sps, dev, list, fed, harm>>
    BY <1>8 DEF Start, StartTest, StartGo, StartThread, device, shared, params, track
  <2>2. rx' = rx \/ (rx = "start" /\ rx' = "loop")
    <3>1. t = "rx" => rx = "start"
      BY <1>8 DEF Start, StartTest, StartGo, StartThread, Types
    <3> QED
      BY <1>8, <3>1 DEF Start, StartTest, StartGo, StartThread, After
  <2>3. \A d \in D : Stage(d)
    <3>1. CASE dec' = dec
      BY <3>1, SameStages
    <3>2. CASE StartThread(t) /\ playing
      <4>1. PICK d \in D : dec[d].pc = "none" /\ Touch(d, "begin", 0, NoFrame)
        BY <3>2, GoEffect
      <4>2. \A e \in D : e # d => dec'[e] = dec[e]
        BY <4>1 DEF Touch
      <4> QED
        BY <4>1, <4>2 DEF Touch, Stage, Begun, Has, InUse
    <3> QED
      BY <1>8, <3>1, <3>2 DEF Start, StartTest, StartGo, StartThread
  <2> QED
    BY <1>h, <2>1, <2>2, <2>3, ParametersKept
<1>9. ASSUME NEW d \in D, Decode(d) \/ Spurious(d) PROVE Parameters'
  <2>0. UNCHANGED <<dev, sent, rx, session>> /\ Running(d) /\ rx # "codec"
    BY <1>9, DecodeOwns DEF Life
  <2>f. dec[d].pc \notin {"begin", "free", "clear"} => Feeding
    <3>1. dec[d].pc \notin {"begin", "free", "clear"} => \A e \in D : dec[e].pc # "free"
      BY <2>0, OneHand DEF Running
    <3> QED
      BY <2>0, <3>1 DEF Life, Feeding
  <2>k. ASSUME UNCHANGED <<codec, cur, pre, sps, fed>>, dev.gone => list' = list, "config" \notin harm',
               \A e \in D : Stage(e)
        PROVE  Parameters'
    BY <2>0, <2>k, ParametersKept
  <2>1. CASE DecBegin(d)
    BY <2>1, ParametersBegin
  <2>2. CASE DecWhile(d)
    <3>1. UNCHANGED <<codec, cur, pre, sps, fed, list, harm>> /\ dec[d].pc = "while" /\ Begun(d)
      BY <2>2 DEF DecWhile, At, shared, params, track, Begun
    <3>2. CASE Keep(d, "free")
      BY <1>h, <2>0, <3>1, <3>2, ParametersIdle DEF Feeding, Keep, Touch
    <3>3. CASE Keep(d, "get")
      BY <1>h, <2>k, <3>1, <3>3, TouchStage DEF Keep
    <3> QED
      BY <2>2, <3>2, <3>3, DecSteps
  <2>3. CASE Spurious(d)
    <3>1. UNCHANGED <<codec, cur, pre, sps, fed, list, harm>> /\ dec[d].pc = "wait" /\ Begun(d)
      BY <2>3 DEF Spurious, At, shared, params, Begun
    <3>2. Keep(d, "woken")
      BY <2>3, DecSteps
    <3> QED
      BY <1>h, <2>k, <3>1, <3>2, TouchStage DEF Keep
  <2>t. ASSUME NEW k \in 1 .. Len(list), Takes(d, k), dec[d].pc \in {"get", "woken"},
               UNCHANGED <<codec, cur, pre, sps, fed, harm>>
        PROVE  Parameters'
    <3>1. Begun(d) /\ Stocked
      BY <2>f, <2>t DEF Begun, Parameters
    <3>2. ~dev.gone
      <4>1. list # <<>>
        BY <2>t DEF Types
      <4> QED
        BY <3>1, <4>1 DEF Stocked
    <3>3. \A e \in D : Stage(e)
      BY <2>t, <3>1, <3>2, TouchStage DEF Takes
    <3> QED
      BY <1>h, <2>k, <2>t, <3>2, <3>3
  <2>4. CASE DecGet(d)
    <3>1. GetResult(d)
      BY <2>4, GetEffect
    <3>2. UNCHANGED <<codec, cur, pre, sps, fed, harm>> /\ dec[d].pc = "get" /\ Begun(d)
      BY <2>4 DEF DecGet, params, Begun
    <3>3. CASE \E k \in 1 .. Len(list) : Takes(d, k)
      BY <2>t, <3>2, <3>3
    <3>4. CASE Keep(d, "wait") /\ list' = list
      BY <1>h, <2>k, <3>2, <3>4, TouchStage DEF Keep
    <3> QED
      BY <3>1, <3>3, <3>4 DEF GetResult
  <2>5. CASE DecWoken(d)
    <3>1. WokenResult(d)
      BY <2>5, WokenEffect
    <3>2. UNCHANGED <<codec, cur, pre, sps, fed>> /\ dec[d].pc = "woken" /\ "config" \notin harm'
      BY <1>h, <2>5 DEF DecWoken, params
    <3>3. CASE 1 \in 1 .. Len(list) /\ Takes(d, 1) /\ UNCHANGED harm
      BY <2>t, <3>2, <3>3
    <3>4. CASE Keep(d, "free")
      BY <2>0, <3>2, <3>4, ParametersIdle DEF Feeding, Keep, Touch
    <3>5. CASE UNCHANGED <<dec, list>>
      BY <2>k, <3>2, <3>5, SameStages
    <3> QED
      BY <3>1, <3>3, <3>4, <3>5 DEF WokenResult
  <2>6. CASE DecFilter(d)
    <3>1. UNCHANGED <<codec, cur, pre, sps, fed, list, harm>> /\ dec[d].pc = "filter" /\ Begun(d) /\ Has(d)
      BY <2>6 DEF DecFilter, shared, params, track, Begun, Has
    <3>2. CASE Touch(d, "while", Same(d), NoFrame)
      BY <1>h, <2>k, <3>1, <3>2, TouchStage
    <3>3. CASE dec[d].frame.o = cur /\ Keep(d, "compare")
      BY <1>h, <2>k, <3>1, <3>3, TouchStage DEF Keep
    <3> QED
      BY <2>6, <3>2, <3>3, DecSteps DEF FilterResult
  <2>7. CASE DecCompare(d)
    <3>1. UNCHANGED <<codec, cur, pre, sps, fed, list, harm>> /\ dec[d].pc = "compare" /\ Begun(d) /\ Has(d) /\ InUse(d)
      BY <2>7 DEF DecCompare, At, shared, params, track, Begun, Has, InUse
    <3>2. CASE pre # cur /\ Keep(d, "sps")
      BY <1>h, <2>k, <3>1, <3>2, TouchStage DEF Keep
    <3>3. CASE pre = cur /\ Keep(d, "feed")
      BY <1>h, <2>k, <3>1, <3>3, TouchStage DEF Keep
    <3> QED
      BY <2>7, <3>2, <3>3, DecSteps
  <2>8. CASE DecSps(d)
    BY <1>c, <2>8, ParametersSps
  <2>9. CASE DecMark(d)
    BY <2>9, ParametersMark
  <2>10. CASE DecFeed(d)
    BY <2>10, ParametersFeed
  <2>11. CASE DecFree(d)
    BY <1>h, <2>0, <2>11, ParametersIdle DEF DecFree, Feeding
  <2>12. CASE DecClear(d)
    BY <1>h, <2>0, <2>12, ParametersIdle DEF DecClear, params, track, Life, Feeding
  <2> QED
    BY <1>9, <2>1, <2>2, <2>3, <2>4, <2>5, <2>6, <2>7, <2>8, <2>9, <2>10, <2>11, <2>12 DEF Decode
<1>10. CASE UNCHANGED vars
  BY <1>10, <1>h, SameStages, ParametersKept DEF vars, device, shared, params, track
<1> QED
  BY <1>1, <1>2, <1>3, <1>4, <1>5, <1>6, <1>7, <1>8, <1>9, <1>10 DEF Next, Receive, Start, D
-----------------------------------------------------------------------------
LEMMA Initially == Init => IInv
<1> SUFFICES ASSUME Init PROVE IInv
  OBVIOUS
<1>1. dec = [d \in D |-> [pc |-> "none", codec |-> 0, frame |-> NoFrame]]
  BY DEF Init, NoDec, D
<1>2. [pc |-> "none", codec |-> 0, frame |-> NoFrame] \in DecRec
  BY NoFrameIsFrame, BoundsAssumption DEF DecRec, Pcs
<1>3. Types
  <2>1. dec \in [D -> DecRec]
    BY <1>1, <1>2
  <2>2. /\ dev \in [o : Orientation, due : BOOLEAN, gone : BOOLEAN]
        /\ sent \in [frames : Nat, rotations : Nat]
        /\ list \in Seq(Frame) /\ cur \in Orientation /\ pre \in Orientation
    BY DEF Init, Orientation
  <2>3. /\ starter \in [Starters -> Places] /\ (starter["rx"] # "out" <=> rx = "start")
        /\ starter["rx"] # "signal"
    BY DEF Init, Starters, Places
  <2>4. fed \in [0 .. Sessions -> [n : Nat, o : {0} \cup Orientation]]
    BY DEF Init
  <2>5. rx = "idle" /\ session = 0 /\ codec = 0 /\ playing = FALSE /\ 0 \in 0 .. Sessions
    BY BoundsAssumption DEF Init
  <2> QED
    BY <2>1, <2>2, <2>3, <2>4, <2>5 DEF Types
<1>4. \A d \in D : dec[d].pc = "none" /\ ~Running(d) /\ ~Has(d) /\ ~Begun(d)
  BY <1>1 DEF Running, Has, Begun
<1>5. /\ rx = "idle" /\ session = 0 /\ codec = 0 /\ harm = {} /\ ~playing /\ list = <<>> /\ dev.due /\ dev.gone
      /\ \A s \in 0 .. Sessions : fed[s].n = 0
  BY DEF Init
<1>6. Life /\ Quiet /\ Woken
  <2>1. \A t \in Starters : starter[t] = "out"
    BY DEF Init
  <2>2. starter["ui"] # "signal"
    BY <2>1 DEF Starters
  <2> QED
    BY <1>4, <1>5, <2>1, <2>2 DEF Life, Quiet, Woken, Over
<1>7. Queue
  BY <1>4, <1>5 DEF Queue
<1>8. ~Feeding
  BY <1>5 DEF Feeding
<1>9. Chain /\ Parameters
  BY <1>5, <1>8 DEF Chain, Parameters
<1> QED
  BY <1>3, <1>6, <1>7, <1>9 DEF IInv

LEMMA Inductive == IInv /\ [Next]_vars => IInv'
<1> SUFFICES ASSUME IInv, [Next]_vars PROVE IInv'
  OBVIOUS
<1>1. Types /\ Types'
  BY TypesStep DEF IInv
<1>2. ASSUME Clean(Lifecycle)' PROVE Life /\ Quiet /\ Queue /\ Life' /\ Quiet' /\ Queue'
  <2>1. Life /\ Quiet /\ Queue
    BY <1>1, <1>2, CleanBefore DEF IInv
  <2> QED
    BY <1>1, <1>2, <2>1, LifeStep, QuietStep, QueueStep
<1>s. \A cs : Clean(Lifecycle \cup cs)' => Clean(Lifecycle)'
  BY DEF Clean
<1>3. ASSUME Clean(Lifecycle \cup {"spurious"})' PROVE Woken'
  <2>1. Woken /\ Life
    BY <1>1, <1>2, <1>3, <1>s, CleanBefore DEF IInv
  <2> QED
    BY <1>1, <1>3, <2>1, WokenStep
<1>4. ASSUME Clean(Lifecycle \cup {"busy", "again"})' PROVE Chain'
  <2>1. Chain /\ Life /\ Quiet /\ Queue
    BY <1>1, <1>2, <1>4, <1>s, CleanBefore DEF IInv
  <2> QED
    BY <1>1, <1>4, <2>1, ChainStep
<1>5. ASSUME Clean(Lifecycle \cup {"turn", "early", "busy"})' PROVE Parameters'
  <2>1. Parameters /\ Life /\ Quiet
    BY <1>1, <1>2, <1>5, <1>s, CleanBefore DEF IInv
  <2> QED
    BY <1>1, <1>5, <2>1, ParametersStep
<1> QED
  BY <1>1, <1>2, <1>3, <1>4, <1>5 DEF IInv

LEMMA Always == Spec => []IInv
BY Initially, Inductive, PTL DEF Spec

(* The codec a decoder thread copied from codec1 when it began is alive     *)
(* whenever it is fed, unless a start or a session overlapped another:     *)
(* one decoder runs at a time, and free1() is its own last act.            *)
THEOREM CodecSafe == Spec => []CodecAlive
<1>1. IInv => CodecAlive
  BY DEF IInv, Life, CodecAlive, OnlyAfter, Clean
<1> QED
  BY Always, <1>1, PTL

(* getData() finds a frame after its one wait, because only putData() and   *)
(* the signals after isPlaying was reset, of receive_data() and of         *)
(* close_all_clients(), can wake it: unless a start raced (double, late,   *)
(* restart), a session overlapped (overlap, stale) or the wait returned    *)
(* by itself (spurious).                                                   *)
THEOREM FrontSafe == Spec => []FrontExists
<1>1. IInv => FrontExists
  BY DEF IInv, Woken, FrontExists, OnlyAfter, Clean
<1> QED
  BY Always, <1>1, PTL

(* drainFrame(), the orientation filter and the rotation keep groups of     *)
(* pictures whole, for any number of frames, rotations and sessions: what  *)
(* was fed last is what the next frame to be fed builds on.                *)
THEOREM GopSafe == Spec => []GopIntact
<1>1. IInv => GopIntact
  BY DEF IInv, Chain, GopIntact, OnlyAfter, Clean
<1> QED
  BY Always, <1>1, PTL

(* A frame reaches the codec after the parameter sets of its orientation:   *)
(* isPrePortrait1 always tells which ones the codec has.                   *)
THEOREM ParametersSafe == Spec => []RightParameters
<1>1. IInv => RightParameters
  BY DEF IInv, Parameters, RightParameters, OnlyAfter, Clean
<1> QED
  BY Always, <1>1, PTL
=============================================================================
