------------------------ MODULE PlaybackSessionProofs ------------------------
(***************************************************************************)
(* Proofs about PlaybackSession, for any finite set of tracks and any      *)
(* number of messages in the looper.                                       *)
(***************************************************************************)
EXTENDS PlaybackSession, FiniteSetTheorems, WellFoundedInduction, TLAPS

-----------------------------------------------------------------------------
(* Lemmas about the looper's queue.                                        *)

(* The step from the messages kept among the first n - 1 to those kept     *)
(* among the first n.                                                      *)
Keep(r, m, handler) == IF HandlerOf(m) = handler THEN r ELSE Append(r, m)

KeptTable(f, q, handler) ==
    f = [n \in 0..Len(q) |-> IF n = 0 THEN <<>> ELSE Keep(f[n - 1], q[n], handler)]

(* removeCallbacksAndMessages is the last entry of such a table.           *)
LEMMA RemoveUnfolded ==
    ASSUME NEW q, NEW handler
    PROVE  removeCallbacksAndMessages(q, handler) = (CHOOSE f : KeptTable(f, q, handler))[Len(q)]
  BY DEF removeCallbacksAndMessages, KeptTable, Keep

(* Induction over the natural numbers, for a set.                          *)
LEMMA InductionOverSet ==
    ASSUME NEW S \in SUBSET Nat, 0 \in S, \A n \in S : n + 1 \in S
    PROVE  \A n \in Nat : n \in S
<1> DEFINE T == Nat \ S
<1> SUFFICES ASSUME T # {} PROVE FALSE OBVIOUS
<1>1. \E x \in T : \A y \in T : ~(<<y, x>> \in OpToRel(<, Nat))
  <2>1. IsWellFoundedOn(OpToRel(<, Nat), Nat) BY NatLessThanWellFounded
  <2> HIDE DEF OpToRel
  <2> QED BY <2>1, WFMin
<1>2. PICK x \in T : \A y \in T : ~(<<y, x>> \in OpToRel(<, Nat)) BY <1>1
<1>3. \A y \in T : ~(y < x) BY <1>2 DEF OpToRel
<1>4. x # 0 /\ x - 1 \in Nat /\ x - 1 < x OBVIOUS
<1>5. x - 1 \in S BY <1>3, <1>4
<1> QED BY <1>4, <1>5

(* A table for the first n messages.                                       *)
KeptUpTo(f, q, handler, n) ==
    /\ f \in [0..n -> Seq(Messages)]
    /\ f[0] = <<>>
    /\ \A i \in 1..n : f[i] = Keep(f[i - 1], q[i], handler)

(* Every queue has its table.                                              *)
LEMMA KeptExists ==
    ASSUME NEW q \in Seq(Messages), NEW handler
    PROVE  \E f : KeptTable(f, q, handler)
<1> DEFINE S == {n \in Nat : n <= Len(q) => \E f : KeptUpTo(f, q, handler, n)}
<1>0. Len(q) \in Nat OBVIOUS
<1>1. 0 \in S
  <2>1. KeptUpTo([i \in 0..0 |-> <<>>], q, handler, 0) BY DEF KeptUpTo
  <2> QED BY <2>1
<1>2. ASSUME NEW n \in S PROVE n + 1 \in S
  <2> SUFFICES ASSUME n + 1 <= Len(q) PROVE \E f : KeptUpTo(f, q, handler, n + 1) OBVIOUS
  <2>1. PICK f : KeptUpTo(f, q, handler, n) BY <1>0
  <2> DEFINE g == [i \in 0..(n + 1) |-> IF i = n + 1 THEN Keep(f[n], q[n + 1], handler) ELSE f[i]]
  <2>2. q[n + 1] \in Messages OBVIOUS
  <2>3. f[n] \in Seq(Messages) BY <2>1 DEF KeptUpTo
  <2>4. Keep(f[n], q[n + 1], handler) \in Seq(Messages) BY <2>2, <2>3 DEF Keep
  <2>5. g \in [0..(n + 1) -> Seq(Messages)] /\ g[0] = <<>> BY <2>1, <2>4 DEF KeptUpTo
  <2>6. ASSUME NEW i \in 1..(n + 1) PROVE g[i] = Keep(g[i - 1], q[i], handler)
    <3>1. g[i - 1] = f[i - 1] OBVIOUS
    <3>2. CASE i = n + 1 BY <3>1, <3>2
    <3>3. CASE i # n + 1
      <4>1. i \in 1..n BY <3>3
      <4> QED BY <3>1, <3>3, <4>1, <2>1 DEF KeptUpTo
    <3> QED BY <3>2, <3>3
  <2> HIDE DEF g
  <2>7. KeptUpTo(g, q, handler, n + 1) BY <2>5, <2>6 DEF KeptUpTo
  <2> QED BY <2>7
<1>3. \A n \in Nat : n \in S
  <2> HIDE DEF S
  <2>1. S \in SUBSET Nat BY DEF S
  <2> QED BY <1>1, <1>2, <2>1, InductionOverSet
<1>4. PICK f : KeptUpTo(f, q, handler, Len(q)) BY <1>0, <1>3
<1>5. f = [n \in 0..Len(q) |-> IF n = 0 THEN <<>> ELSE Keep(f[n - 1], q[n], handler)]
  <2>1. f \in [0..Len(q) -> Seq(Messages)] BY <1>4 DEF KeptUpTo
  <2>2. \A n \in 0..Len(q) : f[n] = IF n = 0 THEN <<>> ELSE Keep(f[n - 1], q[n], handler)
    BY <1>0, <1>4 DEF KeptUpTo
  <2> HIDE DEF S
  <2> QED BY <2>1, <2>2
<1> QED BY <1>5 DEF KeptTable

(* What is left of a queue: the messages for other handlers, each once.    *)
Places(at, q, r, handler, n) ==
    /\ at \in [DOMAIN r -> 1..n]
    /\ \A i \in DOMAIN r : r[i] = q[at[i]] /\ HandlerOf(r[i]) # handler
    /\ \A i, j \in DOMAIN r : at[i] = at[j] => i = j
    /\ \A k \in 1..n : HandlerOf(q[k]) # handler => \E i \in DOMAIN r : at[i] = k

FilteredUpTo(q, r, handler, n) ==
    r \in Seq(Messages) /\ \E at : Places(at, q, r, handler, n)

Filtered(q, r, handler) == FilteredUpTo(q, r, handler, Len(q))

(* A message of another handler is appended to what is left.               *)
LEMMA FilterAppends ==
    ASSUME NEW q \in Seq(Messages), NEW handler, NEW n \in Nat, n + 1 <= Len(q),
           NEW r, FilteredUpTo(q, r, handler, n)
    PROVE  FilteredUpTo(q, Keep(r, q[n + 1], handler), handler, n + 1)
<1>r. r \in Seq(Messages) BY DEF FilteredUpTo
<1>a. PICK at : Places(at, q, r, handler, n) BY DEF FilteredUpTo
<1>1. /\ at \in [DOMAIN r -> 1..n]
      /\ \A i \in DOMAIN r : r[i] = q[at[i]] /\ HandlerOf(r[i]) # handler
      /\ \A i, j \in DOMAIN r : at[i] = at[j] => i = j
      /\ \A k \in 1..n : HandlerOf(q[k]) # handler => \E i \in DOMAIN r : at[i] = k
  BY <1>a DEF Places
<1>m. q[n + 1] \in Messages OBVIOUS
<1>2. CASE HandlerOf(q[n + 1]) = handler
  <2>1. Keep(r, q[n + 1], handler) = r BY <1>2 DEF Keep
  <2>2. at \in [DOMAIN r -> 1..(n + 1)] BY <1>1
  <2>3. \A k \in 1..(n + 1) : HandlerOf(q[k]) # handler => k \in 1..n BY <1>2
  <2>4. \A k \in 1..(n + 1) : HandlerOf(q[k]) # handler => \E i \in DOMAIN r : at[i] = k
    BY <1>1, <2>3
  <2>5. Places(at, q, r, handler, n + 1) BY <1>1, <2>2, <2>4 DEF Places
  <2> QED BY <1>r, <2>1, <2>5 DEF FilteredUpTo
<1>3. CASE HandlerOf(q[n + 1]) # handler
  <2> DEFINE p == Append(r, q[n + 1])
             at2 == [i \in DOMAIN p |-> IF i = Len(r) + 1 THEN n + 1 ELSE at[i]]
  <2>1. Keep(r, q[n + 1], handler) = p BY <1>3 DEF Keep
  <2>2. p \in Seq(Messages) BY <1>r, <1>m
  <2>3. /\ DOMAIN p = 1..(Len(r) + 1) /\ DOMAIN r = 1..Len(r) /\ Len(r) \in Nat
        /\ p[Len(r) + 1] = q[n + 1] /\ \A i \in DOMAIN r : p[i] = r[i]
    BY <1>r, <1>m
  <2> HIDE DEF p
  <2>4. /\ at2[Len(r) + 1] = n + 1
        /\ \A i \in DOMAIN r : at2[i] = at[i] /\ at[i] \in 1..n
        /\ \A i \in DOMAIN p : i \in DOMAIN r \/ i = Len(r) + 1
        /\ DOMAIN r \subseteq DOMAIN p /\ Len(r) + 1 \in DOMAIN p
    BY <2>3, <1>1
  <2>5. at2 \in [DOMAIN p -> 1..(n + 1)]
    <3>1. \A i \in DOMAIN r : at[i] \in 1..(n + 1)
      <4>1. \A x \in 1..n : x \in 1..(n + 1) OBVIOUS
      <4> QED BY <1>1, <4>1
    <3>2. \A i \in DOMAIN p : (IF i = Len(r) + 1 THEN n + 1 ELSE at[i]) \in 1..(n + 1)
      BY <2>4, <3>1
    <3> QED BY <3>2
  <2> HIDE DEF at2
  <2>6. \A i \in DOMAIN p : p[i] = q[at2[i]] /\ HandlerOf(p[i]) # handler
    BY <1>1, <1>3, <2>3, <2>4
  <2>7. ASSUME NEW i \in DOMAIN p, NEW j \in DOMAIN p, at2[i] = at2[j] PROVE i = j
    BY <1>1, <2>4, <2>7
  <2>8. ASSUME NEW k \in 1..(n + 1), HandlerOf(q[k]) # handler
        PROVE  \E i \in DOMAIN p : at2[i] = k
    <3>1. CASE k = n + 1 BY <3>1, <2>4
    <3>2. CASE k # n + 1
      <4>1. PICK i \in DOMAIN r : at[i] = k BY <1>1, <2>8, <3>2
      <4> QED BY <4>1, <2>4
    <3> QED BY <3>1, <3>2
  <2>9. Places(at2, q, p, handler, n + 1) BY <2>5, <2>6, <2>7, <2>8 DEF Places
  <2> QED BY <2>1, <2>2, <2>9 DEF FilteredUpTo
<1> QED BY <1>2, <1>3

(* Removing the messages of a handler from the looper's queue leaves the   *)
(* others, each once.                                                      *)
LEMMA RemoveFilters ==
    ASSUME NEW q \in Seq(Messages), NEW handler
    PROVE  Filtered(q, removeCallbacksAndMessages(q, handler), handler)
<1> DEFINE f == CHOOSE g : KeptTable(g, q, handler)
           S == {n \in Nat : n <= Len(q) => FilteredUpTo(q, f[n], handler, n)}
<1>0. Len(q) \in Nat OBVIOUS
<1>1. KeptTable(f, q, handler) BY KeptExists
<1>2. \A n \in 0..Len(q) : f[n] = IF n = 0 THEN <<>> ELSE Keep(f[n - 1], q[n], handler)
  BY <1>1 DEF KeptTable
<1>3. removeCallbacksAndMessages(q, handler) = f[Len(q)] BY RemoveUnfolded
<1> HIDE DEF f
<1>4. 0 \in S
  <2>1. f[0] = <<>> BY <1>0, <1>2
  <2>2. FilteredUpTo(q, <<>>, handler, 0)
    <3>1. <<>> \in Seq(Messages) /\ DOMAIN <<>> = {} OBVIOUS
    <3>2. [i \in {} |-> 0] \in [DOMAIN <<>> -> 1..0] BY <3>1
    <3>3. 1..0 = {} OBVIOUS
    <3>4. Places([i \in {} |-> 0], q, <<>>, handler, 0) BY <3>1, <3>2, <3>3 DEF Places
    <3> QED BY <3>1, <3>4 DEF FilteredUpTo
  <2> QED BY <2>1, <2>2
<1>5. ASSUME NEW n \in S PROVE n + 1 \in S
  <2> SUFFICES ASSUME n + 1 <= Len(q) PROVE FilteredUpTo(q, f[n + 1], handler, n + 1) OBVIOUS
  <2>1. FilteredUpTo(q, f[n], handler, n) BY <1>0
  <2>2. f[n + 1] = Keep(f[n], q[n + 1], handler) BY <1>0, <1>2
  <2> QED BY <2>1, <2>2, FilterAppends
<1>6. \A n \in Nat : n \in S
  <2>1. S \in SUBSET Nat OBVIOUS
  <2> HIDE DEF S
  <2> QED BY <1>4, <1>5, <2>1, InductionOverSet
<1> QED BY <1>0, <1>3, <1>6 DEF Filtered

-----------------------------------------------------------------------------
(* The inductive invariant.                                                *)

(* The messages that announce an initialized sender, and those that tell   *)
(* of the end of a track.                                                  *)
IsOK(m) == m.what = "INIT_DONE" /\ m.ok
Notice(m, t) == m.what \in {"MEDIA_PULLER_STOPPED", "STOPPED"} /\ m.track = t

(* What may end the process while the session lives.                       *)
Accidents == {"no", "NACK", "no input buffer"}

(* The session is whole while it lives and has nothing left when it is     *)
(* destroyed.                                                              *)
Whole ==
    /\ playback = "none" => /\ queue = <<>> /\ mTracks = {} /\ crashed = "no"
                            /\ ~mRTPConnected
    /\ playback = "live" => mTracks = Tracks /\ mConverter = Tracks /\ crashed \in Accidents
    /\ playback \in {"none", "live"} => \A t \in Tracks : converter[t] = "open"
    /\ playback = "destroyed" => mTracks = {}
    /\ mMediaSender <=> playback \in {"live", "destroying"}
    /\ crashed \notin {"start: mStarted", "stopped: null"}

(* The sender reports its initialization once, and nothing is started      *)
(* before.                                                                 *)
OneInit ==
    /\ \A i \in DOMAIN queue : IsOK(queue[i]) => mRTPConnected /\ ~established
    /\ \A i, j \in DOMAIN queue : IsOK(queue[i]) /\ IsOK(queue[j]) => i = j
    /\ established => mRTPConnected
    /\ ~established => mStarted = {} /\ ~lateStart /\ \A t \in Tracks : puller[t] = "idle"

(* A track that is being stopped has one notice of its end: at its puller  *)
(* or in the queue.                                                        *)
Notices ==
    /\ \A i \in DOMAIN queue, t \in Tracks : Notice(queue[i], t) =>
          playback = "destroying" /\ t \in mTracks /\ puller[t] # "stopping"
    /\ \A i, j \in DOMAIN queue, t \in Tracks :
          Notice(queue[i], t) /\ Notice(queue[j], t) => i = j
    /\ \A t \in Tracks : puller[t] = "stopping" => playback = "destroying" /\ t \in mTracks
    /\ playback = "destroying" /\ crashed = "no" =>
          \A t \in mTracks :
              puller[t] = "stopping" \/ \E i \in DOMAIN queue : Notice(queue[i], t)

(* Only a started track pulls, and once destroyAsync() has been called     *)
(* only one that was started late.                                         *)
Pulling ==
    \A t \in Tracks : puller[t] = "running" =>
        /\ playback = "live" => t \in mStarted
        /\ playback # "live" => lateStart

(* With UDP the sender is ready before anything else happens, and its      *)
(* report stays ahead of the end of every track.                           *)
Ready ==
    mRTPMode = "UDP" =>
        /\ mRTPConnected
        /\ playback = "destroyed" => \A i \in DOMAIN queue : ~IsOK(queue[i])
        /\ \A i, j \in DOMAIN queue :
              IsOK(queue[i]) =>
                  /\ queue[j].what = "STOPPED" => i < j /\ queue[i].to = "PlaybackSession"
                  /\ queue[j].what = "MEDIA_PULLER_STOPPED" /\ queue[i].to = "MediaSender" => i < j

IInv == TypeOK /\ Whole /\ OneInit /\ Notices /\ Pulling /\ Ready

-----------------------------------------------------------------------------
(* Messages.                                                               *)

(* What a message of the looper carries.                                   *)
LEMMA MessageFields ==
    ASSUME NEW m \in Messages
    PROVE  /\ m.what \in {"ACCESS_UNIT", "STOPPED", "MEDIA_PULLER_STOPPED"} => m.track \in Tracks
           /\ m.what = "INIT_DONE" =>
                 m.ok \in BOOLEAN /\ m.to \in {"MediaSender", "PlaybackSession"}
           /\ m.what = "MEDIA_PULLER_STOPPED" => m.to = "Track"
           /\ m.what = "STOPPED" => m.to = "PlaybackSession"
  BY DEF Messages

(* The messages that are posted are messages of the looper.                *)
LEMMA PostedMessages ==
    /\ \A to \in {"MediaSender", "PlaybackSession"}, ok \in BOOLEAN :
          /\ InitDone(to, ok) \in Messages
          /\ InitDone(to, ok).what = "INIT_DONE" /\ InitDone(to, ok).ok = ok
          /\ InitDone(to, ok).to = to
    /\ \A what \in {"ERROR", "INFORM_SENDER"} :
          ToSender(what) \in Messages /\ ToSender(what).what = what
    /\ \A what \in {"ERROR", "INFORM_SENDER", "PAUSE", "RESUME"} :
          ToSession(what) \in Messages /\ ToSession(what).what = what
    /\ \A what \in {"ACCESS_UNIT", "STOPPED"}, t \in Tracks :
          /\ OfTrack("PlaybackSession", what, t) \in Messages
          /\ OfTrack("PlaybackSession", what, t).what = what
          /\ OfTrack("PlaybackSession", what, t).track = t
          /\ OfTrack("PlaybackSession", what, t).to = "PlaybackSession"
    /\ \A t \in Tracks :
          /\ OfTrack("Track", "MEDIA_PULLER_STOPPED", t) \in Messages
          /\ OfTrack("Track", "MEDIA_PULLER_STOPPED", t).what = "MEDIA_PULLER_STOPPED"
          /\ OfTrack("Track", "MEDIA_PULLER_STOPPED", t).track = t
          /\ OfTrack("Track", "MEDIA_PULLER_STOPPED", t).to = "Track"
  BY DEF Messages, InitDone, ToSender, ToSession, OfTrack

(* Posting a message, and taking the first one.                            *)
LEMMA Post ==
    ASSUME NEW q \in Seq(Messages), NEW m \in Messages
    PROVE  /\ Append(q, m) \in Seq(Messages)
           /\ Len(q) \in Nat /\ Len(q) + 1 \in DOMAIN Append(q, m) /\ Append(q, m)[Len(q) + 1] = m
           /\ \A i \in DOMAIN q : /\ i \in Nat /\ i <= Len(q) /\ i \in DOMAIN Append(q, m)
                                  /\ Append(q, m)[i] = q[i]
           /\ \A i \in DOMAIN Append(q, m) :
                 i \in Nat /\ (i \in DOMAIN q \/ i = Len(q) + 1)
  OBVIOUS

LEMMA Take ==
    ASSUME NEW q \in Seq(Messages), q # <<>>
    PROVE  /\ Tail(q) \in Seq(Messages) /\ Head(q) \in Messages
           /\ 1 \in DOMAIN q /\ Head(q) = q[1]
           /\ \A i \in DOMAIN Tail(q) :
                 i \in Nat /\ i + 1 \in DOMAIN q /\ i + 1 # 1 /\ Tail(q)[i] = q[i + 1]
           /\ \A i \in DOMAIN q : /\ i \in Nat
                                  /\ i # 1 => i - 1 \in DOMAIN Tail(q) /\ Tail(q)[i - 1] = q[i]
  OBVIOUS

(* A queue of one message.                                                 *)
LEMMA Single ==
    ASSUME NEW M, NEW m \in M
    PROVE  /\ <<m>> \in Seq(M)
           /\ \A i \in DOMAIN <<m>> : i = 1 /\ <<m>>[i] = m
<1>1. DOMAIN <<m>> = 1..1 /\ <<m>>[1] = m OBVIOUS
<1>2. <<m>> \in [1..1 -> M] OBVIOUS
<1>3. \A i \in 1..1 : i = 1 OBVIOUS
<1> QED BY <1>1, <1>2, <1>3

(* Posting a sequence of one message or none.                              *)
LEMMA PostMaybe ==
    ASSUME NEW q \in Seq(Messages), NEW m \in Messages
    PROVE  q \o <<m>> = Append(q, m) /\ q \o <<>> = q
  OBVIOUS

(* The message that is handled.                                            *)
LEMMA Handled ==
    ASSUME TypeOK, NEW to, NEW what, Received(to, what)
    PROVE  /\ queue \in Seq(Messages) /\ queue # <<>> /\ msg \in Messages
           /\ msg = queue[1] /\ 1 \in DOMAIN queue /\ msg.to = to /\ msg.what = what
           /\ Tail(queue) \in Seq(Messages) /\ crashed = "no"
  BY Take DEF TypeOK, Received, Running, msg

(* destroyAsync() posts the end of every track of a set once.              *)
Ends(T) == SetToSeq({OfTrack("Track", "MEDIA_PULLER_STOPPED", t) : t \in T})

LEMMA EndsPosted ==
    ASSUME NEW T \in SUBSET Tracks
    PROVE  /\ Ends(T) \in Seq(Messages)
           /\ \A i \in DOMAIN Ends(T) :
                 \E t \in T : Ends(T)[i] = OfTrack("Track", "MEDIA_PULLER_STOPPED", t)
           /\ \A i, j \in DOMAIN Ends(T) : Ends(T)[i] = Ends(T)[j] => i = j
           /\ \A t \in T : \E i \in DOMAIN Ends(T) :
                 Ends(T)[i] = OfTrack("Track", "MEDIA_PULLER_STOPPED", t)
<1> DEFINE End(t) == OfTrack("Track", "MEDIA_PULLER_STOPPED", t)
           S == {End(t) : t \in T}
           f == [t \in T |-> End(t)]
           n == Cardinality(S)
<1>1. IsFiniteSet(T) BY TracksAssumption, FS_Subset DEF TracksAssumption
<1>2. f \in Surjection(T, S) BY DEF Surjection
<1>3. IsFiniteSet(S)
  <2> HIDE DEF S, f
  <2> QED BY <1>1, <1>2, FS_Surjection
<1>4. S \subseteq Messages BY PostedMessages
<1>5. n \in Nat /\ ExistsBijection(1..n, S)
  <2> HIDE DEF S
  <2> QED BY <1>3, FS_CardinalityType
<1>6. Ends(T) = CHOOSE g \in [1..n -> S] : IsInjective(g)
  BY DEF Ends, SetToSeq
<1> HIDE DEF n
<1>7. \E g \in [1..n -> S] : IsInjective(g)
  <2> HIDE DEF S
  <2> QED BY <1>5 DEF ExistsBijection, Bijection, Injection
<1>8. Ends(T) \in [1..n -> S] /\ IsInjective(Ends(T))
  <2> HIDE DEF S
  <2> QED BY <1>6, <1>7
<1>9. Ends(T) \in Surjection(1..n, S)
  <2> HIDE DEF S
  <2>1. Ends(T) \in Injection(1..n, S) BY <1>8 DEF Injection
  <2>2. Cardinality(1..n) = n BY <1>5, FS_Interval
  <2> QED BY <2>1, <2>2, <1>3, FS_Injection DEF n
<1>10. Ends(T) \in Seq(Messages) /\ DOMAIN Ends(T) = 1..n
  <2> HIDE DEF S
  <2> QED BY <1>4, <1>5, <1>8
<1>11. \A i \in DOMAIN Ends(T) : \E t \in T : Ends(T)[i] = End(t)
  BY <1>8, <1>10
<1>12. \A i, j \in DOMAIN Ends(T) : Ends(T)[i] = Ends(T)[j] => i = j
  BY <1>8 DEF IsInjective
<1>13. \A t \in T : \E i \in DOMAIN Ends(T) : Ends(T)[i] = End(t)
  BY <1>9, <1>10 DEF Surjection
<1> QED BY <1>10, <1>11, <1>12, <1>13

-----------------------------------------------------------------------------
(* Every step keeps the types.                                             *)

FailureNames == {"start: mStarted", "access unit: null", "feedback: null track",
                 "IDR: null converter", "stopped: null", "NACK", "no input buffer",
                 "encoder released"}

TrackTypes == mTracks \subseteq Tracks /\ mStarted \subseteq Tracks /\ mConverter \subseteq Tracks
ThreadTypes ==
    /\ converter \in [Tracks -> {"open", "closing", "closed"}]
    /\ puller \in [Tracks -> {"idle", "running", "stopping", "stopped"}]
    /\ hung \subseteq Tracks
SenderTypes ==
    /\ mMediaSender \in BOOLEAN /\ mInitDoneCount \in Int /\ mGeneration \in 0..1
    /\ mRTPMode \in {"UNDEFINED", "UDP", "TCP"} /\ mRTCPMode \in {"UNDEFINED", "UDP", "NONE"}
    /\ mRTPConnected \in BOOLEAN /\ down \subseteq {"RTP", "RTCP"}
LifeTypes ==
    /\ playback \in {"none", "live", "destroying", "destroyed"}
    /\ established \in BOOLEAN /\ released \in BOOLEAN
FlagTypes == mPaused \in BOOLEAN /\ mWeAreDead \in BOOLEAN /\ lateStart \in BOOLEAN
CrashTypes == crashed \in {"no"} \cup FailureNames

(* The type invariant, by groups of variables.                             *)
LEMMA TypeParts ==
    TypeOK <=> /\ queue \in Seq(Messages) /\ TrackTypes /\ ThreadTypes /\ SenderTypes
               /\ LifeTypes /\ FlagTypes /\ CrashTypes
  BY DEF TypeOK, TrackTypes, ThreadTypes, SenderTypes, LifeTypes, FlagTypes, CrashTypes,
     FailureNames

LEMMA TypePartsNext ==
    ASSUME queue' \in Seq(Messages), TrackTypes', ThreadTypes', SenderTypes',
           LifeTypes', FlagTypes', CrashTypes'
    PROVE  TypeOK'
  BY DEF TypeOK, TrackTypes, ThreadTypes, SenderTypes, LifeTypes, FlagTypes, CrashTypes,
     FailureNames

(* A group that a step leaves alone keeps its types.                       *)
LEMMA TypeFrames ==
    ASSUME TypeOK
    PROVE  /\ UNCHANGED trackVars => TrackTypes'
           /\ UNCHANGED threadVars => ThreadTypes'
           /\ UNCHANGED senderVars => SenderTypes'
           /\ UNCHANGED lifeVars => LifeTypes'
           /\ UNCHANGED <<mPaused, mWeAreDead, lateStart>> => FlagTypes'
           /\ UNCHANGED crashed => CrashTypes'
<1>1. UNCHANGED trackVars => TrackTypes' BY TypeParts DEF trackVars, TrackTypes
<1>2. UNCHANGED threadVars => ThreadTypes' BY TypeParts DEF threadVars, ThreadTypes
<1>3. UNCHANGED senderVars => SenderTypes' BY TypeParts DEF senderVars, SenderTypes
<1>4. UNCHANGED lifeVars => LifeTypes' BY TypeParts DEF lifeVars, LifeTypes
<1>5. UNCHANGED <<mPaused, mWeAreDead, lateStart>> => FlagTypes' BY TypeParts DEF FlagTypes
<1>6. UNCHANGED crashed => CrashTypes' BY TypeParts DEF CrashTypes
<1> QED BY <1>1, <1>2, <1>3, <1>4, <1>5, <1>6

(* A handler that ends the process.                                        *)
LEMMA FailType ==
    ASSUME TypeOK, NEW check \in FailureNames, NEW to, NEW what, Received(to, what), Fail(check)
    PROVE  TypeOK'
<1>1. queue' \in Seq(Messages) BY Handled DEF Fail
<1>2. CrashTypes' BY DEF Fail, CrashTypes
<1> QED BY <1>1, <1>2, TypeFrames, TypePartsNext DEF Fail

LEMMA TypeStep == TypeOK /\ [Next]_vars => TypeOK'
<1> SUFFICES ASSUME TypeOK, [Next]_vars PROVE TypeOK' OBVIOUS
<1>q. queue \in Seq(Messages) /\ \A m \in Messages : Append(queue, m) \in Seq(Messages)
  BY Post DEF TypeOK
<1>1. CASE Calls
  <2>1. CASE CallInit
    <3>1. queue' \in Seq(Messages) /\ mRTPConnected' \in BOOLEAN
      <4>0. InitDone("MediaSender", TRUE) \in Messages BY PostedMessages
      <4>1. <<InitDone("MediaSender", TRUE)>> \in Seq(Messages) BY <4>0, Single
      <4> QED BY <2>1, <4>1, <1>q DEF CallInit, TypeOK
    <3>2. TrackTypes' BY <2>1, TypeParts DEF CallInit, TrackTypes
    <3>3. SenderTypes'
      <4>1. /\ UNCHANGED <<mGeneration, down>>
            /\ mMediaSender' = TRUE /\ mInitDoneCount' = 1
        BY <2>1 DEF CallInit
      <4>2. mRTPMode' \in {"UDP", "TCP"} /\ mRTCPMode' \in {"UDP", "NONE"} BY <2>1 DEF CallInit
      <4> QED BY <3>1, <4>1, <4>2, TypeParts DEF SenderTypes
    <3>4. LifeTypes' BY <2>1, TypeParts DEF CallInit, LifeTypes
    <3> QED BY <2>1, <3>1, <3>2, <3>3, <3>4, TypeFrames, TypePartsNext DEF CallInit
  <2>2. CASE CallRequestIDRFrame
    <3>1. CrashTypes' BY <2>2 DEF CallRequestIDRFrame, CrashTypes, FailureNames
    <3>2. queue' \in Seq(Messages) BY <2>2, <1>q DEF CallRequestIDRFrame
    <3> QED BY <2>2, <3>1, <3>2, TypeFrames, TypePartsNext DEF CallRequestIDRFrame
  <2>3. CASE CallDestroyAsync
    <3>1. queue' \in Seq(Messages)
      <4>1. mTracks \ mStarted \in SUBSET Tracks BY DEF TypeOK
      <4>2. queue' = queue \o Ends(mTracks \ mStarted) BY <2>3 DEF CallDestroyAsync, Ends
      <4> QED BY <4>1, <4>2, <1>q, EndsPosted
    <3>2. ThreadTypes' BY <2>3, TypeParts DEF CallDestroyAsync, ThreadTypes
    <3>3. LifeTypes' BY <2>3, TypeParts DEF CallDestroyAsync, LifeTypes
    <3> QED BY <2>3, <3>1, <3>2, <3>3, TypeFrames, TypePartsNext DEF CallDestroyAsync
  <2>4. CASE Release
    <3>1. queue' \in Seq(Messages)
      BY <2>4, <1>q, RemoveFilters DEF Release, Filtered, FilteredUpTo
    <3>2. LifeTypes' BY <2>4, TypeParts DEF Release, LifeTypes
    <3> QED BY <2>4, <3>1, <3>2, TypeFrames, TypePartsNext DEF Release
  <2>5. ASSUME NEW what \in {"PAUSE", "RESUME"}, CallPlayOrPause(what) PROVE TypeOK'
    <3>1. queue' \in Seq(Messages) BY <2>5, <1>q, PostedMessages DEF CallPlayOrPause
    <3> QED BY <2>5, <3>1, TypeFrames, TypePartsNext DEF CallPlayOrPause
  <2> QED BY <1>1, <2>1, <2>2, <2>3, <2>4, <2>5 DEF Calls
<1>2. CASE Net
  <2>1. CASE OnConnected
    <3>1. queue' \in Seq(Messages) BY <2>1, <1>q, PostedMessages DEF OnConnected
    <3>2. SenderTypes'
      <4>1. UNCHANGED <<mMediaSender, mInitDoneCount, mGeneration, mRTPMode, mRTCPMode, down>>
            /\ mRTPConnected' = TRUE
        BY <2>1 DEF OnConnected
      <4> QED BY <4>1, TypeParts DEF SenderTypes
    <3> QED BY <2>1, <3>1, <3>2, TypeFrames, TypePartsNext DEF OnConnected
  <2>2. CASE OnSinkLatency
    <3>1. queue' \in Seq(Messages) BY <2>2, <1>q, PostedMessages DEF OnSinkLatency
    <3> QED BY <2>2, <3>1, TypeFrames, TypePartsNext DEF OnSinkLatency
  <2>3. ASSUME NEW s \in {"RTP", "RTCP"}, OnNetError(s) PROVE TypeOK'
    <3>1. queue' \in Seq(Messages) BY <2>3, <1>q, PostedMessages DEF OnNetError
    <3>2. SenderTypes'
      <4>1. UNCHANGED <<mMediaSender, mInitDoneCount, mGeneration, mRTPMode, mRTCPMode,
                        mRTPConnected>>
            /\ down' = down \cup {s}
        BY <2>3 DEF OnNetError
      <4> QED BY <4>1, TypeParts DEF SenderTypes
    <3> QED BY <2>3, <3>1, <3>2, TypeFrames, TypePartsNext DEF OnNetError
  <2>4. CASE OnSinkNack
    <3>1. CrashTypes' BY <2>4 DEF OnSinkNack, CrashTypes, FailureNames
    <3>2. queue' \in Seq(Messages) BY <2>4, <1>q DEF OnSinkNack
    <3> QED BY <2>4, <3>1, <3>2, TypeFrames, TypePartsNext DEF OnSinkNack
  <2> QED BY <1>2, <2>1, <2>2, <2>3, <2>4 DEF Net
<1>3. CASE Threads
  <2>1. ASSUME NEW t \in Tracks, PullerStops(t) PROVE TypeOK'
    <3>1. queue' \in Seq(Messages) BY <2>1, <1>q, PostedMessages DEF PullerStops
    <3>2. ThreadTypes' BY <2>1, TypeParts DEF PullerStops, ThreadTypes
    <3> QED BY <2>1, <3>1, <3>2, TypeFrames, TypePartsNext DEF PullerStops
  <2>2. ASSUME NEW t \in Tracks, ConverterShutsDown(t) PROVE TypeOK'
    <3>1. ThreadTypes' BY <2>2, TypeParts DEF ConverterShutsDown, ThreadTypes
    <3>2. queue' \in Seq(Messages) BY <2>2, <1>q DEF ConverterShutsDown
    <3> QED BY <2>2, <3>1, <3>2, TypeFrames, TypePartsNext DEF ConverterShutsDown
  <2>3. ASSUME NEW t \in Tracks, OutputAvailable(t) PROVE TypeOK'
    <3>1. queue' \in Seq(Messages) BY <2>3, <1>q, PostedMessages DEF OutputAvailable
    <3> QED BY <2>3, <3>1, TypeFrames, TypePartsNext DEF OutputAvailable
  <2>4. CASE PullerHangs
    <3>1. ThreadTypes' BY <2>4, TypeParts, TracksAssumption
        DEF PullerHangs, ThreadTypes, TracksAssumption
    <3>2. queue' \in Seq(Messages) BY <2>4, <1>q DEF PullerHangs
    <3> QED BY <2>4, <3>1, <3>2, TypeFrames, TypePartsNext DEF PullerHangs
  <2>5. ASSUME NEW t \in Tracks, PullerCrashes(t) PROVE TypeOK'
    <3>1. CrashTypes' BY <2>5 DEF PullerCrashes, CrashTypes, FailureNames
    <3>2. queue' \in Seq(Messages) BY <2>5, <1>q DEF PullerCrashes
    <3> QED BY <2>5, <3>1, <3>2, TypeFrames, TypePartsNext DEF PullerCrashes
  <2> QED BY <1>3, <2>1, <2>2, <2>3, <2>4, <2>5 DEF Threads
<1>4. CASE WFDThread
  <2> USE DEF FailureNames
  <2>1. CASE OnSenderInitDone
    <3>1. Received("MediaSender", "INIT_DONE") BY <2>1 DEF OnSenderInitDone
    <3>2. Tail(queue) \in Seq(Messages) /\ msg \in Messages /\ msg.what = "INIT_DONE"
      BY <3>1, Handled
    <3>3. InitDone("PlaybackSession", msg.ok) \in Messages
      BY <3>2, MessageFields, PostedMessages
    <3>4. queue' \in Seq(Messages)
      BY <2>1, <3>2, <3>3 DEF OnSenderInitDone
    <3>5. SenderTypes'
      <4>1. /\ mGeneration' \in {mGeneration, 1}
            /\ mInitDoneCount' \in {mInitDoneCount, mInitDoneCount - 1}
            /\ UNCHANGED <<mMediaSender, mRTPMode, mRTCPMode, mRTPConnected, down>>
        BY <2>1 DEF OnSenderInitDone
      <4> QED BY <4>1, TypeParts DEF SenderTypes
    <3> QED BY <2>1, <3>4, <3>5, TypeFrames, TypePartsNext DEF OnSenderInitDone
  <2>2. ASSUME NEW what \in {"ERROR", "INFORM_SENDER"}, OnSenderNotify(what) PROVE TypeOK'
    <3>1. Tail(queue) \in Seq(Messages) BY <2>2, Handled DEF OnSenderNotify
    <3>2. queue' \in Seq(Messages) BY <2>2, <3>1, PostedMessages DEF OnSenderNotify
    <3> QED BY <2>2, <3>2, TypeFrames, TypePartsNext DEF OnSenderNotify
  <2>3. CASE OnMediaSenderInitialized
    <3>1. Received("PlaybackSession", "INIT_DONE") BY <2>3 DEF OnMediaSenderInitialized
    <3>2. CASE mTracks \cap mStarted # {}
      BY <2>3, <3>1, <3>2, FailType DEF OnMediaSenderInitialized
    <3>3. CASE mTracks \cap mStarted = {}
      <4>1. ThreadTypes' BY <2>3, <3>3, TypeParts DEF OnMediaSenderInitialized, ThreadTypes
      <4>2. FlagTypes' BY <2>3, <3>3, TypeParts DEF OnMediaSenderInitialized, FlagTypes
      <4>3. queue' \in Seq(Messages)
        BY <2>3, <3>1, <3>3, Handled DEF OnMediaSenderInitialized
      <4>4. TrackTypes' BY <2>3, <3>3, TypeParts DEF OnMediaSenderInitialized, TrackTypes
      <4>5. LifeTypes' BY <2>3, <3>3, TypeParts DEF OnMediaSenderInitialized, LifeTypes
      <4> QED
        BY <2>3, <3>3, <4>1, <4>2, <4>3, <4>4, <4>5, TypeFrames, TypePartsNext
           DEF OnMediaSenderInitialized
    <3> QED BY <3>2, <3>3
  <2>4. CASE OnSessionDead
    <3>1. queue' \in Seq(Messages) BY <2>4, Handled DEF OnSessionDead
    <3>2. FlagTypes' BY <2>4, TypeParts DEF OnSessionDead, FlagTypes
    <3> QED BY <2>4, <3>1, <3>2, TypeFrames, TypePartsNext DEF OnSessionDead
  <2>5. CASE OnSinkFeedback
    <3>1. Received("PlaybackSession", "INFORM_SENDER") BY <2>5 DEF OnSinkFeedback
    <3>2. CASE VideoTrack \notin mTracks
      BY <2>5, <3>1, <3>2, FailType DEF OnSinkFeedback
    <3>3. CASE VideoTrack \in mTracks
      <4>1. CASE Fail("encoder released") BY <4>1, <3>1, FailType
      <4>2. CASE ~Fail("encoder released")
        <5>1. queue' \in Seq(Messages) BY <2>5, <3>1, <3>3, <4>2, Handled DEF OnSinkFeedback
        <5> QED BY <2>5, <3>3, <4>2, <5>1, TypeFrames, TypePartsNext DEF OnSinkFeedback
      <4> QED BY <4>1, <4>2
    <3> QED BY <3>2, <3>3
  <2>6. CASE OnAccessUnit
    <3>1. Received("PlaybackSession", "ACCESS_UNIT") BY <2>6 DEF OnAccessUnit
    <3>2. CASE ~mWeAreDead /\ (msg.track \notin mTracks \/ ~mMediaSender)
      BY <2>6, <3>1, <3>2, FailType DEF OnAccessUnit
    <3>3. CASE ~(~mWeAreDead /\ (msg.track \notin mTracks \/ ~mMediaSender))
      <4>1. queue' \in Seq(Messages) BY <2>6, <3>1, <3>3, Handled DEF OnAccessUnit
      <4>2. mWeAreDead' \in {mWeAreDead, TRUE} /\ UNCHANGED <<mPaused, lateStart>>
        BY <2>6, <3>3 DEF OnAccessUnit
      <4>3. FlagTypes' BY <4>2, TypeParts DEF FlagTypes
      <4> QED BY <2>6, <3>3, <4>1, <4>3, TypeFrames, TypePartsNext DEF OnAccessUnit
    <3> QED BY <3>2, <3>3
  <2>7. CASE OnPauseOrResume
    <3>1. queue' \in Seq(Messages) BY <2>7, Handled DEF OnPauseOrResume
    <3>2. FlagTypes' BY <2>7, TypeParts DEF OnPauseOrResume, FlagTypes
    <3> QED BY <2>7, <3>1, <3>2, TypeFrames, TypePartsNext DEF OnPauseOrResume
  <2>8. CASE OnMediaPullerStopped
    <3>1. Received("Track", "MEDIA_PULLER_STOPPED") BY <2>8 DEF OnMediaPullerStopped
    <3>2. Tail(queue) \in Seq(Messages) /\ msg.track \in Tracks
      BY <3>1, Handled, MessageFields
    <3>3. queue' \in Seq(Messages)
      BY <2>8, <3>2, PostedMessages, Post DEF OnMediaPullerStopped
    <3>4. TrackTypes' BY <2>8, TypeParts DEF OnMediaPullerStopped, TrackTypes
    <3> QED BY <2>8, <3>3, <3>4, TypeFrames, TypePartsNext DEF OnMediaPullerStopped
  <2>9. CASE OnTrackStopped
    <3>1. Received("PlaybackSession", "STOPPED") BY <2>9 DEF OnTrackStopped
    <3>2. CASE msg.track \notin mTracks \/ ~mMediaSender
      BY <2>9, <3>1, <3>2, FailType DEF OnTrackStopped
    <3>3. CASE ~(msg.track \notin mTracks \/ ~mMediaSender)
      <4>1. WithoutTrack(msg.track) \in Seq(Messages)
        BY <3>1, Handled, RemoveFilters DEF WithoutTrack, Filtered, FilteredUpTo
      <4>2. removeCallbacksAndMessages(WithoutTrack(msg.track), <<"MediaSender">>) \in Seq(Messages)
        BY <4>1, RemoveFilters DEF Filtered, FilteredUpTo
      <4>3. queue' \in Seq(Messages)
        BY <2>9, <3>3, <4>1, <4>2 DEF OnTrackStopped
      <4>4. /\ mMediaSender' \in {mMediaSender, FALSE}
            /\ UNCHANGED <<mInitDoneCount, mGeneration, mRTPMode, mRTCPMode, mRTPConnected,
                           down>>
        BY <2>9, <3>3 DEF OnTrackStopped
      <4>5. SenderTypes' BY <4>4, TypeParts DEF SenderTypes
      <4>6. playback' \in {playback, "destroyed"} /\ UNCHANGED <<established, released>>
        BY <2>9, <3>3 DEF OnTrackStopped
      <4>7. LifeTypes' BY <4>6, TypeParts DEF LifeTypes
      <4>8. TrackTypes' BY <2>9, <3>3, TypeParts DEF OnTrackStopped, TrackTypes
      <4> QED
        BY <2>9, <3>3, <4>3, <4>5, <4>7, <4>8, TypeFrames, TypePartsNext DEF OnTrackStopped
    <3> QED BY <3>2, <3>3
  <2> QED BY <1>4, <2>1, <2>2, <2>3, <2>4, <2>5, <2>6, <2>7, <2>8, <2>9 DEF WFDThread
<1>5. CASE UNCHANGED vars BY <1>5, <1>q, TypeFrames, TypePartsNext DEF vars
<1> QED BY <1>1, <1>2, <1>3, <1>4, <1>5 DEF Next

-----------------------------------------------------------------------------
(* The steps that neither announce nor end anything: the messages that do  *)
(* only move by d places.                                                  *)
Telling(m) == IsOK(m) \/ m.what \in {"MEDIA_PULLER_STOPPED", "STOPPED"}

Shift(d) ==
    /\ \A i \in DOMAIN queue' : Telling(queue'[i]) =>
          i \in Nat /\ i + d \in DOMAIN queue /\ queue'[i] = queue[i + d]
    /\ \A i \in DOMAIN queue : queue[i].what \in {"MEDIA_PULLER_STOPPED", "STOPPED"} =>
          i - d \in DOMAIN queue' /\ queue'[i - d] = queue[i]

LEMMA PlacesMove ==
    \A d \in {0, 1} : \A a, b \in Nat : (a + d = b + d => a = b) /\ (a + d < b + d => a < b)
  OBVIOUS

LEMMA PostShifts ==
    ASSUME TypeOK, NEW m \in Messages, ~Telling(m), queue' = Append(queue, m)
    PROVE  Shift(0)
<1>1. queue \in Seq(Messages) BY DEF TypeOK
<1>2. \A i \in DOMAIN queue : i \in Nat /\ i + 0 = i /\ i - 0 = i BY <1>1
<1> QED BY <1>1, <1>2, Post DEF Shift

LEMMA StayShifts ==
    ASSUME TypeOK, UNCHANGED queue
    PROVE  Shift(0)
<1>1. queue \in Seq(Messages) BY DEF TypeOK
<1>2. \A i \in DOMAIN queue : i \in Nat /\ i + 0 = i /\ i - 0 = i BY <1>1
<1> QED BY <1>2 DEF Shift

LEMMA TakeShifts ==
    ASSUME TypeOK, queue # <<>>, queue' = Tail(queue),
           Head(queue).what \notin {"MEDIA_PULLER_STOPPED", "STOPPED"}
    PROVE  Shift(1)
<1>1. queue \in Seq(Messages) BY DEF TypeOK
<1> QED BY <1>1, Take DEF Shift

LEMMA TakeAndPostShifts ==
    ASSUME TypeOK, queue # <<>>, NEW m \in Messages, ~Telling(m), queue' = Append(Tail(queue), m),
           Head(queue).what \notin {"MEDIA_PULLER_STOPPED", "STOPPED"}
    PROVE  Shift(1)
<1> DEFINE q == Tail(queue)
<1>1. queue \in Seq(Messages) /\ q \in Seq(Messages) BY Take DEF TypeOK
<1>2. /\ \A i \in DOMAIN q : i \in Nat /\ i + 1 \in DOMAIN queue /\ q[i] = queue[i + 1]
      /\ \A i \in DOMAIN queue : i # 1 => i - 1 \in DOMAIN q /\ q[i - 1] = queue[i]
      /\ Head(queue) = queue[1]
  BY <1>1, Take
<1> HIDE DEF q
<1>3. queue' = Append(q, m) BY DEF q
<1>4. /\ \A i \in DOMAIN q : i \in DOMAIN queue' /\ queue'[i] = q[i]
      /\ \A i \in DOMAIN queue' : i \in DOMAIN q \/ queue'[i] = m
  BY <1>1, <1>3, Post
<1> QED BY <1>2, <1>4 DEF Shift

(* Such a step keeps the invariant, if it leaves the tracks, the pullers   *)
(* and the life of the session alone and ends the process, while the       *)
(* session lives, by an accident only.                                     *)
LEMMA QuietStep ==
    ASSUME IInv, TypeOK', NEW d \in {0, 1}, Shift(d), playback # "none" \/ UNCHANGED queue,
           UNCHANGED <<mTracks, mStarted, mConverter, puller>>,
           UNCHANGED converter \/ playback \notin {"none", "live"},
           UNCHANGED <<mMediaSender, mRTPMode, mRTPConnected>>,
           UNCHANGED <<playback, established, lateStart>>,
           \/ UNCHANGED crashed
           \/ /\ crashed = "no" /\ playback # "none"
              /\ crashed' \in IF playback = "live" THEN Accidents
                              ELSE FailureNames \ {"start: mStarted", "stopped: null"}
    PROVE  IInv'
<1>i. TypeOK /\ Whole /\ OneInit /\ Notices /\ Pulling /\ Ready BY DEF IInv
<1>1. /\ \A i \in DOMAIN queue' : Telling(queue'[i]) =>
            i \in Nat /\ i + d \in DOMAIN queue /\ queue'[i] = queue[i + d]
      /\ \A i \in DOMAIN queue : queue[i].what \in {"MEDIA_PULLER_STOPPED", "STOPPED"} =>
            i - d \in DOMAIN queue' /\ queue'[i - d] = queue[i]
  BY DEF Shift
<1>d. \A a, b \in Nat : (a + d = b + d => a = b) /\ (a + d < b + d => a < b)
  BY PlacesMove
<1>2. \A i \in DOMAIN queue' : IsOK(queue'[i]) =>
        i \in Nat /\ i + d \in DOMAIN queue /\ queue'[i] = queue[i + d]
  BY <1>1 DEF Telling
<1>3. \A i \in DOMAIN queue', t \in Tracks : Notice(queue'[i], t) =>
        i \in Nat /\ i + d \in DOMAIN queue /\ queue'[i] = queue[i + d]
  BY <1>1 DEF Telling, Notice
<1>4. Whole'
  <2>1. CASE UNCHANGED crashed
    <3>1. CASE playback # "none" BY <2>1, <3>1, <1>i DEF Whole
    <3>2. CASE UNCHANGED queue BY <2>1, <3>2, <1>i DEF Whole
    <3> QED BY <3>1, <3>2
  <2>2. CASE /\ crashed = "no" /\ playback # "none"
             /\ crashed' \in IF playback = "live" THEN Accidents
                             ELSE FailureNames \ {"start: mStarted", "stopped: null"}
    BY <2>2, <1>i DEF Whole, Accidents
  <2> QED BY <2>1, <2>2
<1>5. OneInit'
  <2>1. \A i \in DOMAIN queue' : IsOK(queue'[i]) => mRTPConnected' /\ ~established'
    BY <1>i, <1>2 DEF OneInit
  <2>2. ASSUME NEW i \in DOMAIN queue', NEW j \in DOMAIN queue',
               IsOK(queue'[i]), IsOK(queue'[j])
        PROVE  i = j
    <3>1. i + d = j + d BY <1>i, <1>2, <2>2 DEF OneInit
    <3> QED BY <3>1, <1>2, <2>2, <1>d
  <2>3. (established => mRTPConnected)' BY <1>i DEF OneInit
  <2>4. (~established => mStarted = {} /\ ~lateStart /\ \A t \in Tracks : puller[t] = "idle")'
    BY <1>i DEF OneInit
  <2> QED BY <2>1, <2>2, <2>3, <2>4 DEF OneInit
<1>6. Notices'
  <2>1. \A i \in DOMAIN queue', t \in Tracks : Notice(queue'[i], t) =>
          playback' = "destroying" /\ t \in mTracks' /\ puller'[t] # "stopping"
    BY <1>i, <1>3 DEF Notices
  <2>2. ASSUME NEW i \in DOMAIN queue', NEW j \in DOMAIN queue', NEW t \in Tracks,
               Notice(queue'[i], t), Notice(queue'[j], t)
        PROVE  i = j
    <3>1. i + d = j + d BY <1>i, <1>3, <2>2 DEF Notices
    <3> QED BY <3>1, <1>3, <2>2, <1>d
  <2>3. \A t \in Tracks : puller'[t] = "stopping" => playback' = "destroying" /\ t \in mTracks'
    BY <1>i DEF Notices
  <2>4. ASSUME playback' = "destroying", crashed' = "no", NEW t \in mTracks'
        PROVE  puller'[t] = "stopping" \/ \E i \in DOMAIN queue' : Notice(queue'[i], t)
    <3>1. puller[t] = "stopping" \/ \E i \in DOMAIN queue : Notice(queue[i], t)
      BY <1>i, <2>4 DEF Notices
    <3>2. ASSUME NEW i \in DOMAIN queue, Notice(queue[i], t)
          PROVE  \E k \in DOMAIN queue' : Notice(queue'[k], t)
      BY <3>2, <1>1 DEF Notice
    <3> QED BY <3>1, <3>2
  <2> QED BY <2>1, <2>2, <2>3, <2>4 DEF Notices
<1>7. Pulling' BY <1>i DEF Pulling
<1>8. Ready'
  <2> SUFFICES ASSUME mRTPMode = "UDP"
               PROVE  /\ mRTPConnected'
                      /\ playback' = "destroyed" => \A i \in DOMAIN queue' : ~IsOK(queue'[i])
                      /\ \A i, j \in DOMAIN queue' :
                            IsOK(queue'[i]) =>
                              /\ queue'[j].what = "STOPPED" =>
                                    i < j /\ queue'[i].to = "PlaybackSession"
                              /\ queue'[j].what = "MEDIA_PULLER_STOPPED"
                                 /\ queue'[i].to = "MediaSender" => i < j
    BY DEF Ready
  <2>1. mRTPConnected' /\ (playback' = "destroyed" => \A i \in DOMAIN queue' : ~IsOK(queue'[i]))
    BY <1>i, <1>2 DEF Ready
  <2>2. ASSUME NEW i \in DOMAIN queue', NEW j \in DOMAIN queue', IsOK(queue'[i]),
               queue'[j].what \in {"MEDIA_PULLER_STOPPED", "STOPPED"}
        PROVE  /\ i \in Nat /\ i + d \in DOMAIN queue /\ queue'[i] = queue[i + d]
               /\ j \in Nat /\ j + d \in DOMAIN queue /\ queue'[j] = queue[j + d]
               /\ i + d < j + d => i < j
    <3>1. /\ i \in Nat /\ i + d \in DOMAIN queue /\ queue'[i] = queue[i + d]
          /\ j \in Nat /\ j + d \in DOMAIN queue /\ queue'[j] = queue[j + d]
      BY <1>1, <2>2 DEF Telling
    <3> QED BY <3>1, <1>d
  <2>3. ASSUME NEW i \in DOMAIN queue', NEW j \in DOMAIN queue', IsOK(queue'[i]),
               queue'[j].what = "STOPPED"
        PROVE  i < j /\ queue'[i].to = "PlaybackSession"
    <3>0. IsOK(queue[i + d]) /\ queue[j + d].what = "STOPPED" BY <2>2, <2>3
    <3>1. i + d < j + d /\ queue[i + d].to = "PlaybackSession"
      BY <1>i, <2>2, <2>3, <3>0 DEF Ready
    <3> QED BY <3>1, <2>2, <2>3
  <2>4. ASSUME NEW i \in DOMAIN queue', NEW j \in DOMAIN queue', IsOK(queue'[i]),
               queue'[j].what = "MEDIA_PULLER_STOPPED", queue'[i].to = "MediaSender"
        PROVE  i < j
    <3>1. i + d < j + d BY <1>i, <2>2, <2>4 DEF Ready
    <3> QED BY <3>1, <2>2, <2>4
  <2> QED BY <2>1, <2>3, <2>4
<1> QED BY <1>4, <1>5, <1>6, <1>7, <1>8 DEF IInv

(* What the removal of messages leaves comes from the queue, each message  *)
(* from a place of its own.                                                *)
From(g, q, r) ==
    /\ g \in [DOMAIN r -> DOMAIN q]
    /\ \A i \in DOMAIN r : r[i] = q[g[i]]
    /\ \A i, j \in DOMAIN r : g[i] = g[j] => i = j

Left(q, r, handler) ==
    /\ r \in Seq(Messages)
    /\ \E g : From(g, q, r)
    /\ \A k \in DOMAIN q : HandlerOf(q[k]) # handler => \E i \in DOMAIN r : r[i] = q[k]

LEMMA RemoveFrom ==
    ASSUME NEW q \in Seq(Messages), NEW handler, NEW r,
           r = removeCallbacksAndMessages(q, handler)
    PROVE  Left(q, r, handler)
<1>1. Filtered(q, r, handler) BY RemoveFilters
<1>2. PICK g : Places(g, q, r, handler, Len(q)) BY <1>1 DEF Filtered, FilteredUpTo
<1>3. DOMAIN q = 1..Len(q) OBVIOUS
<1>4. From(g, q, r) BY <1>2, <1>3 DEF From, Places
<1>5. \A k \in DOMAIN q : HandlerOf(q[k]) # handler => \E i \in DOMAIN r : r[i] = q[k]
  BY <1>2, <1>3 DEF Places
<1> QED BY <1>1, <1>4, <1>5 DEF Filtered, FilteredUpTo, Left

LEMMA FromTwice ==
    ASSUME NEW p, NEW q, NEW r, NEW f, NEW g, From(f, p, q), From(g, q, r)
    PROVE  From([i \in DOMAIN r |-> f[g[i]]], p, r)
<1> DEFINE h == [i \in DOMAIN r |-> f[g[i]]]
<1>1. \A i \in DOMAIN r : g[i] \in DOMAIN q /\ f[g[i]] \in DOMAIN p /\ h[i] = f[g[i]]
  BY DEF From
<1>2. h \in [DOMAIN r -> DOMAIN p] BY <1>1
<1>3. \A i \in DOMAIN r : r[i] = p[h[i]] BY <1>1 DEF From
<1>4. \A i, j \in DOMAIN r : h[i] = h[j] => i = j BY <1>1 DEF From
<1> QED BY <1>2, <1>3, <1>4 DEF From

LEMMA TailFrom ==
    ASSUME NEW q \in Seq(Messages), q # <<>>
    PROVE  \E g : From(g, q, Tail(q)) /\ \A i \in DOMAIN Tail(q) : g[i] # 1
<1> DEFINE g == [i \in DOMAIN Tail(q) |-> i + 1]
<1>1. \A i \in DOMAIN Tail(q) :
        i \in Nat /\ i + 1 \in DOMAIN q /\ i + 1 # 1 /\ Tail(q)[i] = q[i + 1] /\ g[i] = i + 1
  BY Take
<1>2. g \in [DOMAIN Tail(q) -> DOMAIN q] BY <1>1
<1>3. \A i, j \in DOMAIN Tail(q) : g[i] = g[j] => i = j
  <2> SUFFICES ASSUME NEW i \in DOMAIN Tail(q), NEW j \in DOMAIN Tail(q), g[i] = g[j]
               PROVE  i = j
    OBVIOUS
  <2>1. i + 1 = j + 1 /\ i \in Nat /\ j \in Nat BY <1>1
  <2> QED BY <2>1
<1> HIDE DEF g
<1>4. From(g, q, Tail(q)) BY <1>1, <1>2, <1>3 DEF From
<1> QED BY <1>1, <1>4

-----------------------------------------------------------------------------
(* The steps that change the life of the session, one by one.              *)

LEMMA InitStep ==
    ASSUME IInv, TypeOK', CallInit
    PROVE  IInv'
<1>i. TypeOK /\ Whole /\ OneInit /\ Notices /\ Pulling /\ Ready BY DEF IInv
<1>1. /\ playback = "none" /\ queue = <<>> /\ crashed = "no" /\ ~established
      /\ \A t \in Tracks : puller[t] = "idle"
  BY <1>i DEF CallInit, Whole, OneInit
<1>2. /\ playback' = "live" /\ mTracks' = Tracks /\ mConverter' = Tracks /\ mMediaSender' = TRUE
      /\ UNCHANGED <<mStarted, converter, puller, established, lateStart, crashed>>
  BY DEF CallInit, threadVars
<1>3. \/ queue' = <<InitDone("MediaSender", TRUE)>> /\ mRTPConnected' = TRUE
      \/ queue' = <<>> /\ mRTPMode' # "UDP"
  BY <1>1 DEF CallInit
<1>m. /\ InitDone("MediaSender", TRUE) \in Messages
      /\ InitDone("MediaSender", TRUE).what = "INIT_DONE"
  BY PostedMessages
<1>4. \A i \in DOMAIN queue' : /\ i = 1 /\ queue'[i].what = "INIT_DONE"
                               /\ mRTPConnected' = TRUE
  <2>1. CASE queue' = <<InitDone("MediaSender", TRUE)>> /\ mRTPConnected' = TRUE
    BY <2>1, <1>m, Single
  <2>2. CASE queue' = <<>>
    <3>1. DOMAIN queue' = {} BY <2>2
    <3> QED BY <3>1
  <2> QED BY <2>1, <2>2, <1>3
<1>5. Whole' BY <1>1, <1>2, <1>i DEF Whole, Accidents
<1>6. OneInit'
  <2>1. established' = FALSE BY <1>1, <1>2, <1>i DEF TypeOK
  <2> QED BY <1>i, <1>1, <1>2, <1>4, <2>1 DEF OneInit
<1>7. Notices' BY <1>1, <1>2, <1>4 DEF Notices, Notice
<1>8. Pulling' BY <1>1, <1>2 DEF Pulling
<1>9. Ready'
  <2>1. mRTPMode' = "UDP" => mRTPConnected' BY <1>3
  <2> QED BY <1>2, <1>4, <2>1 DEF Ready
<1> QED BY <1>5, <1>6, <1>7, <1>8, <1>9 DEF IInv

(* What a sequence that is appended does to the places in a queue.         *)
LEMMA Concat ==
    ASSUME NEW q \in Seq(Messages), NEW e \in Seq(Messages)
    PROVE  /\ Len(q) \in Nat
           /\ \A i \in DOMAIN q : /\ i \in Nat /\ i <= Len(q) /\ i \in DOMAIN (q \o e)
                                  /\ (q \o e)[i] = q[i]
           /\ \A k \in DOMAIN e : Len(q) + k \in DOMAIN (q \o e) /\ (q \o e)[Len(q) + k] = e[k]
           /\ \A i \in DOMAIN (q \o e) :
                 \/ i \in DOMAIN q
                 \/ /\ i - Len(q) \in DOMAIN e /\ (q \o e)[i] = e[i - Len(q)]
                    /\ i \in Nat /\ i > Len(q)
  OBVIOUS

LEMMA DestroyStep ==
    ASSUME IInv, TypeOK', CallDestroyAsync
    PROVE  IInv'
<1>i. TypeOK /\ Whole /\ OneInit /\ Notices /\ Pulling /\ Ready BY DEF IInv
<1> DEFINE T == mTracks \ mStarted
           e == Ends(T)
<1>1. /\ playback = "live" /\ playback' = "destroying" /\ crashed = "no"
      /\ queue' = queue \o e
      /\ UNCHANGED <<mTracks, mStarted, mConverter, mMediaSender, mRTPMode, mRTPConnected,
                     established, lateStart, crashed>>
  BY DEF CallDestroyAsync, Running, trackVars, senderVars, Ends
<1>2. \A t \in Tracks : puller'[t] = IF t \in mTracks \cap mStarted THEN "stopping" ELSE puller[t]
  BY DEF CallDestroyAsync
<1>3. T \in SUBSET Tracks /\ mTracks = Tracks BY <1>1, <1>i DEF Whole
<1>4. /\ e \in Seq(Messages)
      /\ \A i \in DOMAIN e : \E t \in T : e[i] = OfTrack("Track", "MEDIA_PULLER_STOPPED", t)
      /\ \A i, j \in DOMAIN e : e[i] = e[j] => i = j
      /\ \A t \in T : \E i \in DOMAIN e : e[i] = OfTrack("Track", "MEDIA_PULLER_STOPPED", t)
  BY <1>3, EndsPosted
<1>p. \A t \in Tracks :
          /\ OfTrack("Track", "MEDIA_PULLER_STOPPED", t).what = "MEDIA_PULLER_STOPPED"
          /\ OfTrack("Track", "MEDIA_PULLER_STOPPED", t).track = t
  BY PostedMessages
<1> HIDE DEF e
<1>5. \A i \in DOMAIN e, t \in Tracks : Notice(e[i], t) =>
        t \in T /\ e[i] = OfTrack("Track", "MEDIA_PULLER_STOPPED", t)
  BY <1>3, <1>4, <1>p DEF Notice
<1>6. \A i \in DOMAIN e : e[i].what = "MEDIA_PULLER_STOPPED" BY <1>3, <1>4, <1>p
<1>7. queue \in Seq(Messages) BY <1>i DEF TypeOK
<1>8. /\ Len(queue) \in Nat
      /\ \A i \in DOMAIN queue : /\ i \in Nat /\ i <= Len(queue) /\ i \in DOMAIN queue'
                                 /\ queue'[i] = queue[i]
      /\ \A k \in DOMAIN e : Len(queue) + k \in DOMAIN queue' /\ queue'[Len(queue) + k] = e[k]
      /\ \A i \in DOMAIN queue' :
            \/ i \in DOMAIN queue
            \/ /\ i - Len(queue) \in DOMAIN e /\ queue'[i] = e[i - Len(queue)]
               /\ i \in Nat /\ i > Len(queue)
  BY <1>1, <1>4, <1>7, Concat
<1>9. \A i \in DOMAIN queue : queue[i].what \notin {"MEDIA_PULLER_STOPPED", "STOPPED"}
  <2> SUFFICES ASSUME NEW i \in DOMAIN queue,
                      queue[i].what \in {"MEDIA_PULLER_STOPPED", "STOPPED"}
               PROVE  FALSE
    OBVIOUS
  <2>1. queue[i] \in Messages BY <1>7
  <2>2. queue[i].track \in Tracks BY <2>1, MessageFields
  <2> QED BY <1>1, <1>i, <2>2 DEF Notices, Notice
<1>10. \A i \in DOMAIN queue' : IsOK(queue'[i]) => i \in DOMAIN queue /\ queue'[i] = queue[i]
  BY <1>6, <1>8 DEF IsOK
<1>11. \A i \in DOMAIN queue' : queue'[i].what \in {"MEDIA_PULLER_STOPPED", "STOPPED"} =>
         /\ i - Len(queue) \in DOMAIN e /\ queue'[i] = e[i - Len(queue)]
         /\ i \in Nat /\ i > Len(queue)
  BY <1>8, <1>9
<1>12. Whole' BY <1>1, <1>i DEF Whole
<1>13. OneInit'
  <2>1. ~established => \A t \in Tracks : puller'[t] = "idle" BY <1>2, <1>i DEF OneInit
  <2> QED BY <1>1, <1>10, <2>1, <1>i DEF OneInit
<1>14. Notices'
  <2>1. ASSUME NEW i \in DOMAIN queue', NEW t \in Tracks, Notice(queue'[i], t)
        PROVE  playback' = "destroying" /\ t \in mTracks' /\ puller'[t] # "stopping"
    <3>1. t \in T BY <2>1, <1>5, <1>11 DEF Notice
    <3>2. puller[t] # "stopping" BY <1>1, <1>i DEF Notices
    <3> QED BY <1>1, <1>2, <3>1, <3>2
  <2>2. ASSUME NEW i \in DOMAIN queue', NEW j \in DOMAIN queue', NEW t \in Tracks,
               Notice(queue'[i], t), Notice(queue'[j], t)
        PROVE  i = j
    <3>1. /\ i - Len(queue) \in DOMAIN e /\ queue'[i] = e[i - Len(queue)] /\ i \in Nat
          /\ j - Len(queue) \in DOMAIN e /\ queue'[j] = e[j - Len(queue)] /\ j \in Nat
      BY <2>2, <1>11 DEF Notice
    <3>2. i - Len(queue) = j - Len(queue) BY <2>2, <3>1, <1>4, <1>5
    <3> QED BY <3>1, <3>2, <1>8
  <2>3. \A t \in Tracks : puller'[t] = "stopping" => playback' = "destroying" /\ t \in mTracks'
    BY <1>1, <1>2, <1>3
  <2>4. ASSUME NEW t \in mTracks'
        PROVE  puller'[t] = "stopping" \/ \E i \in DOMAIN queue' : Notice(queue'[i], t)
    <3>1. t \in mTracks /\ t \in Tracks BY <1>1, <1>3, <2>4
    <3>2. CASE t \in mStarted BY <3>1, <3>2, <1>2
    <3>3. CASE t \notin mStarted
      <4>1. PICK k \in DOMAIN e : e[k] = OfTrack("Track", "MEDIA_PULLER_STOPPED", t)
        BY <3>1, <3>3, <1>4
      <4>2. Notice(e[k], t) BY <4>1, <3>1, <1>p DEF Notice
      <4> QED BY <4>2, <1>8
    <3> QED BY <3>2, <3>3
  <2> QED BY <2>1, <2>2, <2>3, <2>4 DEF Notices
<1>15. Pulling'
  <2>1. \A t \in Tracks : puller'[t] # "running" BY <1>1, <1>2, <1>3, <1>i DEF Pulling
  <2> QED BY <2>1 DEF Pulling
<1>16. Ready'
  <2> SUFFICES ASSUME mRTPMode = "UDP"
               PROVE  /\ mRTPConnected'
                      /\ \A i, j \in DOMAIN queue' :
                            IsOK(queue'[i]) =>
                              /\ queue'[j].what # "STOPPED"
                              /\ queue'[j].what = "MEDIA_PULLER_STOPPED" => i < j
    BY <1>1 DEF Ready
  <2>1. mRTPConnected' BY <1>1, <1>i DEF Ready
  <2>2. \A j \in DOMAIN queue' : queue'[j].what # "STOPPED" BY <1>6, <1>11
  <2>3. ASSUME NEW i \in DOMAIN queue', NEW j \in DOMAIN queue', IsOK(queue'[i]),
               queue'[j].what = "MEDIA_PULLER_STOPPED"
        PROVE  i < j
    <3>1. i \in Nat /\ i <= Len(queue) /\ j \in Nat /\ j > Len(queue) /\ Len(queue) \in Nat
      BY <2>3, <1>8, <1>10, <1>11
    <3> QED BY <3>1
  <2> QED BY <2>1, <2>2, <2>3
<1> QED BY <1>12, <1>13, <1>14, <1>15, <1>16 DEF IInv

(* Only a session that is being destroyed has a notice in its queue.       *)
LEMMA NoticeTells ==
    ASSUME IInv, NEW i \in DOMAIN queue, queue[i].what \in {"MEDIA_PULLER_STOPPED", "STOPPED"}
    PROVE  /\ queue[i].track \in Tracks /\ Notice(queue[i], queue[i].track)
           /\ playback = "destroying" /\ queue[i].track \in mTracks
           /\ puller[queue[i].track] # "stopping"
<1>0. queue \in Seq(Messages) BY DEF IInv, TypeOK
<1>1. queue[i] \in Messages BY <1>0
<1>2. queue[i].track \in Tracks BY <1>1, MessageFields
<1> QED BY <1>2 DEF IInv, Notices, Notice

LEMMA ReleaseStep ==
    ASSUME IInv, TypeOK', Release
    PROVE  IInv'
<1>i. TypeOK /\ Whole /\ OneInit /\ Notices /\ Pulling /\ Ready BY DEF IInv
<1>1. /\ playback = "destroyed"
      /\ queue' = removeCallbacksAndMessages(queue, <<"PlaybackSession">>)
      /\ UNCHANGED <<mTracks, mStarted, mConverter, converter, puller, mMediaSender, mRTPMode, mRTPConnected,
                     playback, established, lateStart, crashed>>
  BY DEF Release, trackVars, threadVars, senderVars
<1>q. queue \in Seq(Messages) BY <1>i DEF TypeOK
<1>r. Left(queue, queue', <<"PlaybackSession">>) BY <1>1, <1>q, RemoveFrom
<1>2. PICK g : From(g, queue, queue') BY <1>r DEF Left
<1>3. /\ \A i \in DOMAIN queue' : g[i] \in DOMAIN queue /\ queue'[i] = queue[g[i]]
      /\ \A i, j \in DOMAIN queue' : g[i] = g[j] => i = j
  BY <1>2 DEF From
<1>4. \A i \in DOMAIN queue : queue[i].what \notin {"MEDIA_PULLER_STOPPED", "STOPPED"}
  BY <1>1, NoticeTells
<1>5. \A i \in DOMAIN queue' : queue'[i].what \notin {"MEDIA_PULLER_STOPPED", "STOPPED"}
  BY <1>3, <1>4
<1>6. Whole' BY <1>1, <1>i DEF Whole
<1>7. OneInit'
  <2>1. \A i, j \in DOMAIN queue' : IsOK(queue'[i]) /\ IsOK(queue'[j]) => i = j
    BY <1>3, <1>i DEF OneInit
  <2>2. \A i \in DOMAIN queue' : IsOK(queue'[i]) => mRTPConnected' /\ ~established'
    BY <1>1, <1>3, <1>i DEF OneInit
  <2> QED BY <1>1, <2>1, <2>2, <1>i DEF OneInit
<1>8. Notices' BY <1>1, <1>5, <1>i DEF Notices, Notice
<1>9. Pulling' BY <1>1, <1>i DEF Pulling
<1>10. Ready' BY <1>1, <1>3, <1>5, <1>i DEF Ready
<1> QED BY <1>6, <1>7, <1>8, <1>9, <1>10 DEF IInv

LEMMA ConnectedStep ==
    ASSUME IInv, TypeOK', OnConnected
    PROVE  IInv'
<1>i. TypeOK /\ Whole /\ OneInit /\ Notices /\ Pulling /\ Ready BY DEF IInv
<1> DEFINE m == InitDone("MediaSender", TRUE)
<1>1. /\ playback # "none" /\ ~mRTPConnected /\ mRTPConnected' = TRUE
      /\ queue' = Append(queue, m)
      /\ UNCHANGED <<mTracks, mStarted, mConverter, converter, puller, mMediaSender, mRTPMode,
                     playback, established, lateStart, crashed>>
  BY DEF OnConnected, trackVars, threadVars, lifeVars
<1>m. m \in Messages /\ m.what = "INIT_DONE" BY PostedMessages
<1> HIDE DEF m
<1>q. queue \in Seq(Messages) BY <1>i DEF TypeOK
<1>2. /\ Len(queue) + 1 \in DOMAIN queue' /\ queue'[Len(queue) + 1] = m
      /\ \A i \in DOMAIN queue : i \in DOMAIN queue' /\ queue'[i] = queue[i]
      /\ \A i \in DOMAIN queue' : i \in DOMAIN queue \/ i = Len(queue) + 1
  BY <1>1, <1>m, <1>q, Post
<1>3. \A i \in DOMAIN queue : ~IsOK(queue[i]) BY <1>1, <1>i DEF OneInit
<1>4. \A i \in DOMAIN queue' : IsOK(queue'[i]) => i = Len(queue) + 1 BY <1>2, <1>3
<1>5. \A i \in DOMAIN queue', t \in Tracks : Notice(queue'[i], t) =>
        i \in DOMAIN queue /\ queue'[i] = queue[i]
  BY <1>2, <1>m DEF Notice
<1>6. Whole' BY <1>1, <1>i DEF Whole
<1>7. OneInit' BY <1>1, <1>4, <1>i DEF OneInit
<1>8. Notices'
  <2>1. \A i \in DOMAIN queue', t \in Tracks : Notice(queue'[i], t) =>
          playback' = "destroying" /\ t \in mTracks' /\ puller'[t] # "stopping"
    BY <1>1, <1>5, <1>i DEF Notices
  <2>2. \A i, j \in DOMAIN queue', t \in Tracks :
          Notice(queue'[i], t) /\ Notice(queue'[j], t) => i = j
    BY <1>5, <1>i DEF Notices
  <2>3. \A t \in Tracks : puller'[t] = "stopping" => playback' = "destroying" /\ t \in mTracks'
    BY <1>1, <1>i DEF Notices
  <2>4. ASSUME playback' = "destroying", crashed' = "no", NEW t \in mTracks'
        PROVE  puller'[t] = "stopping" \/ \E i \in DOMAIN queue' : Notice(queue'[i], t)
    <3>1. puller[t] = "stopping" \/ \E i \in DOMAIN queue : Notice(queue[i], t)
      BY <1>1, <2>4, <1>i DEF Notices
    <3> QED BY <3>1, <1>1, <1>2
  <2> QED BY <2>1, <2>2, <2>3, <2>4 DEF Notices
<1>9. Pulling' BY <1>1, <1>i DEF Pulling
<1>10. Ready' BY <1>1, <1>i DEF Ready
<1> QED BY <1>6, <1>7, <1>8, <1>9, <1>10 DEF IInv

LEMMA PullerStopsStep ==
    ASSUME IInv, TypeOK', NEW t \in Tracks, PullerStops(t)
    PROVE  IInv'
<1>i. TypeOK /\ Whole /\ OneInit /\ Notices /\ Pulling /\ Ready BY DEF IInv
<1> DEFINE m == OfTrack("Track", "MEDIA_PULLER_STOPPED", t)
<1>1. /\ puller[t] = "stopping" /\ queue' = Append(queue, m)
      /\ UNCHANGED <<mTracks, mStarted, mConverter, mMediaSender, mRTPMode, mRTPConnected,
                     playback, established, lateStart, crashed>>
  BY DEF PullerStops, trackVars, senderVars, lifeVars
<1>2. \A u \in Tracks : puller'[u] = IF u = t THEN "stopped" ELSE puller[u]
  BY <1>i DEF PullerStops, TypeOK
<1>3. playback = "destroying" /\ t \in mTracks /\ established
  BY <1>1, <1>i DEF Notices, OneInit
<1>m. m \in Messages /\ m.what = "MEDIA_PULLER_STOPPED" /\ m.track = t BY PostedMessages
<1> HIDE DEF m
<1>q. queue \in Seq(Messages) BY <1>i DEF TypeOK
<1>4. /\ Len(queue) \in Nat
      /\ Len(queue) + 1 \in DOMAIN queue' /\ queue'[Len(queue) + 1] = m
      /\ \A i \in DOMAIN queue : /\ i \in Nat /\ i <= Len(queue) /\ i \in DOMAIN queue'
                                 /\ queue'[i] = queue[i]
      /\ \A i \in DOMAIN queue' : i \in Nat /\ (i \in DOMAIN queue \/ i = Len(queue) + 1)
  BY <1>1, <1>m, <1>q, Post
<1>5. \A i \in DOMAIN queue' : ~IsOK(queue'[i])
  BY <1>3, <1>4, <1>m, <1>i DEF OneInit, IsOK
<1>6. \A i \in DOMAIN queue : ~Notice(queue[i], t) BY <1>1, <1>i DEF Notices
<1>7. \A i \in DOMAIN queue', u \in Tracks : Notice(queue'[i], u) =>
        \/ i \in DOMAIN queue /\ queue'[i] = queue[i] /\ u # t
        \/ i = Len(queue) + 1 /\ u = t
  <2> SUFFICES ASSUME NEW i \in DOMAIN queue', NEW u \in Tracks, Notice(queue'[i], u)
               PROVE  \/ i \in DOMAIN queue /\ queue'[i] = queue[i] /\ u # t
                      \/ i = Len(queue) + 1 /\ u = t
    OBVIOUS
  <2>1. CASE i \in DOMAIN queue BY <2>1, <1>4, <1>6
  <2>2. CASE i = Len(queue) + 1
    <3>1. queue'[i] = m BY <2>2, <1>4
    <3> QED BY <2>2, <3>1, <1>m DEF Notice
  <2> QED BY <2>1, <2>2, <1>4
<1>8. Whole' BY <1>1, <1>3, <1>i DEF Whole
<1>9. OneInit' BY <1>1, <1>3, <1>5, <1>i DEF OneInit
<1>10. Notices'
  <2>1. \A i \in DOMAIN queue', u \in Tracks : Notice(queue'[i], u) =>
          playback' = "destroying" /\ u \in mTracks' /\ puller'[u] # "stopping"
    BY <1>1, <1>2, <1>3, <1>7, <1>i DEF Notices
  <2>2. \A i, j \in DOMAIN queue', u \in Tracks :
          Notice(queue'[i], u) /\ Notice(queue'[j], u) => i = j
    BY <1>7, <1>i DEF Notices
  <2>3. \A u \in Tracks : puller'[u] = "stopping" => playback' = "destroying" /\ u \in mTracks'
    BY <1>1, <1>2, <1>3, <1>i DEF Notices
  <2>4. ASSUME playback' = "destroying", crashed' = "no", NEW u \in mTracks'
        PROVE  puller'[u] = "stopping" \/ \E i \in DOMAIN queue' : Notice(queue'[i], u)
    <3>1. u \in mTracks /\ u \in Tracks BY <1>1, <1>i, <2>4 DEF TypeOK
    <3>2. CASE u = t
      <4>1. Notice(m, u) BY <3>2, <1>m DEF Notice
      <4> QED BY <4>1, <1>4
    <3>3. CASE u # t
      <4>1. puller[u] = "stopping" \/ \E i \in DOMAIN queue : Notice(queue[i], u)
        BY <1>1, <2>4, <3>1, <1>i DEF Notices
      <4> QED BY <3>1, <3>3, <4>1, <1>2, <1>4
    <3> QED BY <3>2, <3>3
  <2> QED BY <2>1, <2>2, <2>3, <2>4 DEF Notices
<1>11. Pulling' BY <1>1, <1>2, <1>i DEF Pulling
<1>12. Ready' BY <1>1, <1>5, <1>i DEF Ready
<1> QED BY <1>8, <1>9, <1>10, <1>11, <1>12 DEF IInv

(* Taking the first message and posting another.                           *)
LEMMA TakeAndPost ==
    ASSUME NEW q \in Seq(Messages), q # <<>>, NEW m \in Messages, NEW r, r = Append(Tail(q), m)
    PROVE  /\ Len(q) \in Nat /\ Len(q) \in DOMAIN r /\ r[Len(q)] = m
           /\ \A i \in DOMAIN q : /\ i \in Nat /\ i >= 1
                                  /\ i # 1 => i - 1 \in DOMAIN r /\ r[i - 1] = q[i]
           /\ \A i \in DOMAIN r :
                 /\ i \in Nat
                 /\ \/ i = Len(q)
                    \/ i < Len(q) /\ i + 1 \in DOMAIN q /\ i + 1 # 1 /\ r[i] = q[i + 1]
<1>1. Tail(q) \in Seq(Messages) /\ Len(q) \in Nat /\ Len(Tail(q)) = Len(q) - 1 OBVIOUS
<1>2. \A i \in DOMAIN q : i \in Nat /\ i >= 1 OBVIOUS
<1>3. /\ Len(Tail(q)) + 1 \in DOMAIN r /\ r[Len(Tail(q)) + 1] = m
      /\ \A i \in DOMAIN Tail(q) : i \in Nat /\ i <= Len(Tail(q)) /\ i \in DOMAIN r /\ r[i] = Tail(q)[i]
      /\ \A i \in DOMAIN r : i \in Nat /\ (i \in DOMAIN Tail(q) \/ i = Len(Tail(q)) + 1)
  BY <1>1, Post
<1>4. Len(Tail(q)) + 1 = Len(q) BY <1>1
<1>5. \A i \in DOMAIN Tail(q) : i < Len(q) BY <1>1, <1>3
<1> QED BY <1>1, <1>2, <1>3, <1>4, <1>5, Take

LEMMA SenderInitDoneStep ==
    ASSUME IInv, TypeOK', OnSenderInitDone
    PROVE  IInv'
<1>i. TypeOK /\ Whole /\ OneInit /\ Notices /\ Pulling /\ Ready BY DEF IInv
<1>h. /\ queue \in Seq(Messages) /\ queue # <<>> /\ msg \in Messages /\ msg = queue[1]
      /\ 1 \in DOMAIN queue /\ msg.to = "MediaSender" /\ msg.what = "INIT_DONE"
      /\ Tail(queue) \in Seq(Messages) /\ crashed = "no" /\ msg = Head(queue)
  BY <1>i, Handled DEF OnSenderInitDone, msg
<1>b. msg.ok \in BOOLEAN BY <1>h, MessageFields
<1>n. playback # "none" BY <1>i, <1>h DEF Whole
<1>1. UNCHANGED <<mTracks, mStarted, mConverter, converter, puller, mMediaSender, mRTPMode, mRTPConnected,
                  playback, established, lateStart, crashed>>
  BY DEF OnSenderInitDone, trackVars, threadVars, lifeVars
<1>2. CASE mGeneration # 0 \/ (msg.ok /\ mInitDoneCount # 1)
  <2>1. queue' = Tail(queue) BY <1>2, <1>h, PostMaybe DEF OnSenderInitDone
  <2>2. Shift(1) BY <1>i, <1>h, <2>1, TakeShifts
  <2> QED BY <2>2, <1>1, <1>n, QuietStep
<1>3. CASE mGeneration = 0 /\ msg.ok = FALSE
  <2> DEFINE m == InitDone("PlaybackSession", FALSE)
  <2>m. m \in Messages /\ m.what = "INIT_DONE" /\ m.ok = FALSE BY PostedMessages
  <2>1. queue' = Tail(queue) \o <<m>> BY <1>3 DEF OnSenderInitDone
  <2> HIDE DEF m
  <2>2. queue' = Append(Tail(queue), m) BY <1>h, <2>m, <2>1, PostMaybe
  <2>3. ~Telling(m) BY <2>m DEF Telling, IsOK
  <2>4. Shift(1) BY <1>i, <1>h, <2>m, <2>2, <2>3, TakeAndPostShifts
  <2> QED BY <2>4, <1>1, <1>n, QuietStep
<1>4. CASE mGeneration = 0 /\ msg.ok = TRUE /\ mInitDoneCount = 1
  <2> DEFINE m == InitDone("PlaybackSession", TRUE)
             n == Len(queue)
  <2>m. m \in Messages /\ m.what = "INIT_DONE" /\ m.to = "PlaybackSession" BY PostedMessages
  <2>1. queue' = Tail(queue) \o <<m>> BY <1>4 DEF OnSenderInitDone
  <2> HIDE DEF m
  <2>2. queue' = Append(Tail(queue), m) BY <1>h, <2>m, <2>1, PostMaybe
  <2>3. /\ n \in Nat /\ n \in DOMAIN queue' /\ queue'[n] = m
        /\ \A i \in DOMAIN queue : /\ i \in Nat
                                   /\ i # 1 => i - 1 \in DOMAIN queue' /\ queue'[i - 1] = queue[i]
        /\ \A i \in DOMAIN queue' :
              /\ i \in Nat
              /\ \/ i = n
                 \/ i < n /\ i + 1 \in DOMAIN queue /\ i + 1 # 1 /\ queue'[i] = queue[i + 1]
    BY <1>h, <2>m, <2>2, TakeAndPost
  <2> HIDE DEF n
  <2>4. IsOK(queue[1]) /\ mRTPConnected /\ ~established BY <1>4, <1>h, <1>i DEF IsOK, OneInit
  <2>5. \A i \in DOMAIN queue : IsOK(queue[i]) => i = 1 BY <2>4, <1>h, <1>i DEF OneInit
  <2>6. \A i \in DOMAIN queue' : IsOK(queue'[i]) => i = n BY <2>3, <2>5
  <2>7. \A i \in DOMAIN queue' : queue'[i].what \in {"MEDIA_PULLER_STOPPED", "STOPPED"} =>
          i \in Nat /\ i + 1 \in DOMAIN queue /\ queue'[i] = queue[i + 1]
    BY <2>3, <2>m
  <2>8. Whole' BY <1>1, <1>n, <1>i DEF Whole
  <2>9. OneInit' BY <1>1, <2>4, <2>6, <1>i DEF OneInit
  <2>10. Notices'
    <3>1. \A i \in DOMAIN queue', t \in Tracks : Notice(queue'[i], t) =>
            playback' = "destroying" /\ t \in mTracks' /\ puller'[t] # "stopping"
      BY <1>1, <2>7, <1>i DEF Notices, Notice
    <3>2. ASSUME NEW i \in DOMAIN queue', NEW j \in DOMAIN queue', NEW t \in Tracks,
                 Notice(queue'[i], t), Notice(queue'[j], t)
          PROVE  i = j
      <4>1. i \in Nat /\ j \in Nat /\ i + 1 = j + 1
        BY <3>2, <2>7, <1>i DEF Notices, Notice
      <4> QED BY <4>1
    <3>3. \A t \in Tracks : puller'[t] = "stopping" => playback' = "destroying" /\ t \in mTracks'
      BY <1>1, <1>i DEF Notices
    <3>4. ASSUME playback' = "destroying", crashed' = "no", NEW t \in mTracks'
          PROVE  puller'[t] = "stopping" \/ \E i \in DOMAIN queue' : Notice(queue'[i], t)
      <4>1. puller[t] = "stopping" \/ \E i \in DOMAIN queue : Notice(queue[i], t)
        BY <1>1, <3>4, <1>i DEF Notices
      <4>2. ~Notice(queue[1], t) BY <1>h DEF Notice
      <4> QED BY <4>1, <4>2, <1>1, <2>3
    <3> QED BY <3>1, <3>2, <3>3, <3>4 DEF Notices
  <2>11. Pulling' BY <1>1, <1>i DEF Pulling
  <2>12. Ready'
    <3> SUFFICES ASSUME mRTPMode = "UDP"
                 PROVE  /\ mRTPConnected' /\ playback' # "destroyed"
                        /\ \A j \in DOMAIN queue' : queue'[j].what # "STOPPED"
                        /\ queue'[n].to # "MediaSender"
      BY <1>1, <2>6 DEF Ready
    <3>1. playback # "destroyed" BY <1>h, <2>4, <1>i DEF Ready
    <3>2. \A j \in DOMAIN queue : queue[j].what # "STOPPED" BY <1>h, <2>4, <1>i DEF Ready
    <3>3. queue'[n].to # "MediaSender" BY <2>m, <2>3
    <3> QED BY <1>1, <2>4, <2>7, <3>1, <3>2, <3>3
  <2> QED BY <2>8, <2>9, <2>10, <2>11, <2>12 DEF IInv
<1> QED BY <1>b, <1>2, <1>3, <1>4

LEMMA MediaSenderInitializedStep ==
    ASSUME IInv, TypeOK', OnMediaSenderInitialized
    PROVE  IInv'
<1>i. TypeOK /\ Whole /\ OneInit /\ Notices /\ Pulling /\ Ready BY DEF IInv
<1>h. /\ queue \in Seq(Messages) /\ queue # <<>> /\ msg = queue[1]
      /\ 1 \in DOMAIN queue /\ msg.what = "INIT_DONE" /\ crashed = "no" /\ msg.ok
  BY <1>i, Handled DEF OnMediaSenderInitialized
<1>n. playback # "none" BY <1>i, <1>h DEF Whole
<1>1. IsOK(queue[1]) BY <1>h DEF IsOK
<1>2. mRTPConnected /\ ~established /\ mStarted = {} /\ \A t \in Tracks : puller[t] = "idle"
  BY <1>1, <1>h, <1>i DEF OneInit
<1>3. /\ mStarted' = mTracks /\ established' = TRUE /\ queue' = Tail(queue)
      /\ lateStart' = (playback # "live" /\ mTracks # {})
      /\ UNCHANGED <<mTracks, mConverter, converter, mMediaSender, mRTPMode, mRTPConnected,
                     playback, crashed>>
  BY <1>2 DEF OnMediaSenderInitialized, senderVars
<1>4. \A t \in Tracks : puller'[t] = IF t \in mTracks THEN "running" ELSE "idle"
  BY <1>2 DEF OnMediaSenderInitialized
<1>5. /\ \A i \in DOMAIN queue' :
            i \in Nat /\ i + 1 \in DOMAIN queue /\ i + 1 # 1 /\ queue'[i] = queue[i + 1]
      /\ \A i \in DOMAIN queue : i # 1 => i - 1 \in DOMAIN queue' /\ queue'[i - 1] = queue[i]
  BY <1>3, <1>h, Take
<1>6. \A i \in DOMAIN queue' : ~IsOK(queue'[i]) BY <1>1, <1>h, <1>5, <1>i DEF OneInit
<1>7. Whole' BY <1>n, <1>3, <1>i DEF Whole
<1>8. OneInit' BY <1>2, <1>3, <1>6 DEF OneInit
<1>9. Notices'
  <2>1. \A i \in DOMAIN queue', t \in Tracks : Notice(queue'[i], t) =>
          playback' = "destroying" /\ t \in mTracks' /\ puller'[t] # "stopping"
    BY <1>3, <1>4, <1>5, <1>i DEF Notices
  <2>2. ASSUME NEW i \in DOMAIN queue', NEW j \in DOMAIN queue', NEW t \in Tracks,
               Notice(queue'[i], t), Notice(queue'[j], t)
        PROVE  i = j
    <3>1. i \in Nat /\ j \in Nat /\ i + 1 = j + 1
      BY <2>2, <1>5, <1>i DEF Notices
    <3> QED BY <3>1
  <2>3. \A t \in Tracks : puller'[t] # "stopping" BY <1>4
  <2>4. ASSUME playback' = "destroying", crashed' = "no", NEW t \in mTracks'
        PROVE  \E i \in DOMAIN queue' : Notice(queue'[i], t)
    <3>0. t \in mTracks /\ puller[t] # "stopping" BY <1>2, <1>3, <2>4, <1>i DEF TypeOK
    <3>1. \E i \in DOMAIN queue : Notice(queue[i], t) BY <1>3, <2>4, <3>0, <1>i DEF Notices
    <3>2. ~Notice(queue[1], t) BY <1>h DEF Notice
    <3> QED BY <3>1, <3>2, <1>5
  <2> QED BY <2>1, <2>2, <2>3, <2>4 DEF Notices
<1>10. Pulling'
  <2>1. ASSUME NEW t \in Tracks, puller'[t] = "running"
        PROVE  t \in mStarted' /\ (playback # "live" => lateStart')
    <3>1. t \in mTracks BY <1>4, <2>1
    <3> QED BY <1>3, <3>1
  <2> QED BY <1>3, <2>1 DEF Pulling
<1>11. Ready' BY <1>2, <1>3, <1>6 DEF Ready
<1> QED BY <1>7, <1>8, <1>9, <1>10, <1>11 DEF IInv

LEMMA MediaPullerStoppedStep ==
    ASSUME IInv, TypeOK', OnMediaPullerStopped
    PROVE  IInv'
<1>i. TypeOK /\ Whole /\ OneInit /\ Notices /\ Pulling /\ Ready BY DEF IInv
<1> DEFINE t == msg.track
           m == OfTrack("PlaybackSession", "STOPPED", t)
           n == Len(queue)
<1>h. /\ queue \in Seq(Messages) /\ queue # <<>> /\ msg = queue[1] /\ 1 \in DOMAIN queue
      /\ msg.what = "MEDIA_PULLER_STOPPED" /\ crashed = "no"
  BY <1>i, Handled DEF OnMediaPullerStopped
<1>t. t \in Tracks /\ Notice(queue[1], t) /\ playback = "destroying" /\ t \in mTracks
      /\ puller[t] # "stopping"
  BY <1>h, NoticeTells
<1>1. /\ mStarted' \subseteq mStarted /\ queue' = Append(Tail(queue), m)
      /\ UNCHANGED <<mTracks, puller, mMediaSender, mRTPMode, mRTPConnected,
                     playback, established, lateStart, crashed>>
  BY DEF OnMediaPullerStopped, threadVars, senderVars, lifeVars
<1>m. m \in Messages /\ m.what = "STOPPED" /\ m.track = t BY <1>t, PostedMessages
<1> HIDE DEF m, t
<1>2. /\ n \in Nat /\ n \in DOMAIN queue' /\ queue'[n] = m
      /\ \A i \in DOMAIN queue : /\ i \in Nat /\ i >= 1
                                 /\ i # 1 => i - 1 \in DOMAIN queue' /\ queue'[i - 1] = queue[i]
      /\ \A i \in DOMAIN queue' :
            /\ i \in Nat
            /\ \/ i = n
               \/ i < n /\ i + 1 \in DOMAIN queue /\ i + 1 # 1 /\ queue'[i] = queue[i + 1]
  BY <1>h, <1>m, <1>1, TakeAndPost
<1> HIDE DEF n
<1>3. \A i \in DOMAIN queue' : IsOK(queue'[i]) =>
        i \in Nat /\ i < n /\ i + 1 \in DOMAIN queue /\ queue'[i] = queue[i + 1]
  BY <1>2, <1>m DEF IsOK
<1>4. ASSUME NEW i \in DOMAIN queue', NEW u \in Tracks, Notice(queue'[i], u)
      PROVE  \/ i = n /\ u = t
             \/ /\ i \in Nat /\ i < n /\ i + 1 \in DOMAIN queue /\ queue'[i] = queue[i + 1]
                /\ u # t
  <2>1. CASE i = n BY <2>1, <1>2, <1>4, <1>m DEF Notice
  <2>2. CASE i # n
    <3>1. i \in Nat /\ i < n /\ i + 1 \in DOMAIN queue /\ i + 1 # 1 /\ queue'[i] = queue[i + 1]
      BY <2>2, <1>2
    <3>2. u # t BY <3>1, <1>4, <1>h, <1>t, <1>i DEF Notices
    <3> QED BY <3>1, <3>2
  <2> QED BY <2>1, <2>2
<1>5. Whole' BY <1>1, <1>t, <1>i DEF Whole
<1>6. OneInit'
  <2>1. \A i \in DOMAIN queue' : IsOK(queue'[i]) => mRTPConnected' /\ ~established'
    BY <1>1, <1>3, <1>i DEF OneInit
  <2>2. ASSUME NEW i \in DOMAIN queue', NEW j \in DOMAIN queue',
               IsOK(queue'[i]), IsOK(queue'[j])
        PROVE  i = j
    <3>1. i \in Nat /\ j \in Nat /\ i + 1 = j + 1 BY <2>2, <1>3, <1>i DEF OneInit
    <3> QED BY <3>1
  <2>3. (established => mRTPConnected)' BY <1>1, <1>i DEF OneInit
  <2>4. (~established => mStarted = {} /\ ~lateStart /\ \A u \in Tracks : puller[u] = "idle")'
    BY <1>1, <1>i DEF OneInit
  <2> QED BY <2>1, <2>2, <2>3, <2>4 DEF OneInit
<1>7. Notices'
  <2>1. \A i \in DOMAIN queue', u \in Tracks : Notice(queue'[i], u) =>
          playback' = "destroying" /\ u \in mTracks' /\ puller'[u] # "stopping"
    BY <1>1, <1>t, <1>4, <1>i DEF Notices
  <2>2. ASSUME NEW i \in DOMAIN queue', NEW j \in DOMAIN queue', NEW u \in Tracks,
               Notice(queue'[i], u), Notice(queue'[j], u)
        PROVE  i = j
    <3>1. CASE u = t BY <3>1, <2>2, <1>4
    <3>2. CASE u # t
      <4>1. i \in Nat /\ j \in Nat /\ i + 1 = j + 1 BY <3>2, <2>2, <1>4, <1>i DEF Notices
      <4> QED BY <4>1
    <3> QED BY <3>1, <3>2
  <2>3. \A u \in Tracks : puller'[u] = "stopping" => playback' = "destroying" /\ u \in mTracks'
    BY <1>1, <1>i DEF Notices
  <2>4. ASSUME playback' = "destroying", crashed' = "no", NEW u \in mTracks'
        PROVE  puller'[u] = "stopping" \/ \E i \in DOMAIN queue' : Notice(queue'[i], u)
    <3>1. CASE u = t
      <4>1. Notice(m, u) BY <3>1, <1>m DEF Notice
      <4> QED BY <4>1, <1>2
    <3>2. CASE u # t
      <4>1. puller[u] = "stopping" \/ \E i \in DOMAIN queue : Notice(queue[i], u)
        BY <1>1, <2>4, <1>i DEF Notices
      <4>2. ~Notice(queue[1], u) BY <3>2, <1>t DEF Notice
      <4> QED BY <4>1, <4>2, <1>1, <1>2
    <3> QED BY <3>1, <3>2
  <2> QED BY <2>1, <2>2, <2>3, <2>4 DEF Notices
<1>8. Pulling' BY <1>1, <1>t, <1>i DEF Pulling
<1>9. Ready'
  <2> SUFFICES ASSUME mRTPMode = "UDP"
               PROVE  /\ mRTPConnected'
                      /\ \A i, j \in DOMAIN queue' :
                            IsOK(queue'[i]) =>
                              /\ queue'[i].to = "PlaybackSession"
                              /\ queue'[j].what = "STOPPED" => i < j
    BY <1>1, <1>t DEF Ready
  <2>1. mRTPConnected' BY <1>1, <1>i DEF Ready
  <2>2. ASSUME NEW i \in DOMAIN queue', IsOK(queue'[i])
        PROVE  queue'[i].to = "PlaybackSession"
    <3>1. i \in Nat /\ i + 1 \in DOMAIN queue /\ queue'[i] = queue[i + 1] BY <1>3, <2>2
    <3>2. queue[i + 1].to # "MediaSender"
      <4>1. ~(i + 1 < 1) BY <3>1
      <4> QED BY <3>1, <4>1, <2>2, <1>h, <1>i DEF Ready
    <3>3. queue[i + 1] \in Messages BY <3>1, <1>h
    <3> QED BY <3>1, <3>2, <3>3, <2>2, MessageFields DEF IsOK
  <2>3. ASSUME NEW i \in DOMAIN queue', NEW j \in DOMAIN queue', IsOK(queue'[i]),
               queue'[j].what = "STOPPED"
        PROVE  i < j
    <3>1. i \in Nat /\ i < n /\ i + 1 \in DOMAIN queue /\ queue'[i] = queue[i + 1]
      BY <1>3, <2>3
    <3>2. CASE j = n BY <3>1, <3>2
    <3>3. CASE j # n
      <4>1. j \in Nat /\ j + 1 \in DOMAIN queue /\ queue'[j] = queue[j + 1] BY <3>3, <1>2
      <4>2. i + 1 < j + 1 BY <3>1, <4>1, <2>3, <1>i DEF Ready
      <4> QED BY <3>1, <4>1, <4>2
    <3> QED BY <3>2, <3>3
  <2> QED BY <2>1, <2>2, <2>3
<1> QED BY <1>5, <1>6, <1>7, <1>8, <1>9 DEF IInv

LeftWithout(q, r, t) ==
    /\ r \in Seq(Messages)
    /\ \E g : From(g, q, r) /\ \A i \in DOMAIN r : g[i] # 1
    /\ \A u \in Tracks, k \in DOMAIN q :
          u # t /\ k # 1 /\ Notice(q[k], u) => \E i \in DOMAIN r : r[i] = q[k]

(* A track that is gone takes its messages along, and nothing that another *)
(* track waits for.                                                        *)
LEMMA TrackGone ==
    ASSUME NEW q \in Seq(Messages), q # <<>>, NEW t \in Tracks, NEW r,
           r = removeCallbacksAndMessages(Tail(q), <<"Track", t>>)
    PROVE  LeftWithout(q, r, t)
<1>1. Tail(q) \in Seq(Messages) BY Take
<1>2. /\ r \in Seq(Messages)
      /\ \E g : From(g, Tail(q), r)
      /\ \A k \in DOMAIN Tail(q) :
            HandlerOf(Tail(q)[k]) # <<"Track", t>> => \E i \in DOMAIN r : r[i] = Tail(q)[k]
  <2>1. Left(Tail(q), r, <<"Track", t>>) BY <1>1, RemoveFrom
  <2> QED BY <2>1 DEF Left
<1>3. PICK f : From(f, q, Tail(q)) /\ \A i \in DOMAIN Tail(q) : f[i] # 1 BY TailFrom
<1>4. PICK g : From(g, Tail(q), r) BY <1>2
<1> DEFINE h == [i \in DOMAIN r |-> f[g[i]]]
<1>5. From(h, q, r) BY <1>3, <1>4, FromTwice
<1>6. \A i \in DOMAIN r : h[i] # 1 BY <1>3, <1>4 DEF From
<1>7. ASSUME NEW u \in Tracks, NEW k \in DOMAIN q, u # t, k # 1, Notice(q[k], u)
      PROVE  \E i \in DOMAIN r : r[i] = q[k]
  <2>1. k - 1 \in DOMAIN Tail(q) /\ Tail(q)[k - 1] = q[k] BY <1>7, Take
  <2>2. HandlerOf(q[k]) # <<"Track", t>>
    <3>1. q[k] \in Messages OBVIOUS
    <3>2. q[k].track = u BY <1>7 DEF Notice
    <3>3. <<"Track", u>> # <<"Track", t>>
      <4>1. <<"Track", u>>[2] = u /\ <<"Track", t>>[2] = t OBVIOUS
      <4> QED BY <4>1, <1>7
    <3>4. <<q[k].to>> # <<"Track", t>>
      <4>1. Len(<<q[k].to>>) = 1 /\ Len(<<"Track", t>>) = 2 OBVIOUS
      <4> QED BY <4>1
    <3> QED BY <3>2, <3>3, <3>4 DEF HandlerOf
  <2> QED BY <2>1, <2>2, <1>2
<1> HIDE DEF h
<1> QED BY <1>2, <1>5, <1>6, <1>7 DEF LeftWithout

LEMMA TrackStoppedStep ==
    ASSUME IInv, TypeOK', OnTrackStopped
    PROVE  IInv'
<1>i. TypeOK /\ Whole /\ OneInit /\ Notices /\ Pulling /\ Ready BY DEF IInv
<1> DEFINE t == msg.track
           r == WithoutTrack(t)
<1>h. /\ queue \in Seq(Messages) /\ queue # <<>> /\ msg = queue[1] /\ 1 \in DOMAIN queue
      /\ msg.what = "STOPPED" /\ crashed = "no"
  BY <1>i, Handled DEF OnTrackStopped
<1>t. t \in Tracks /\ Notice(queue[1], t) /\ playback = "destroying" /\ t \in mTracks
      /\ puller[t] # "stopping"
  BY <1>h, NoticeTells
<1>s. mMediaSender BY <1>t, <1>i DEF Whole
<1>1. /\ mTracks' = mTracks \ {t}
      /\ UNCHANGED <<mStarted, mConverter, puller, mRTPMode, mRTPConnected,
                     established, lateStart, crashed>>
      /\ \/ mTracks' # {} /\ queue' = r /\ UNCHANGED <<mMediaSender, playback>>
         \/ /\ mTracks' = {} /\ queue' = removeCallbacksAndMessages(r, <<"MediaSender">>)
            /\ mMediaSender' = FALSE /\ playback' = "destroyed"
  BY <1>t, <1>s DEF OnTrackStopped, threadVars
<1>2. /\ r \in Seq(Messages)
      /\ \E g : From(g, queue, r) /\ \A i \in DOMAIN r : g[i] # 1
      /\ \A u \in Tracks, k \in DOMAIN queue :
            u # t /\ k # 1 /\ Notice(queue[k], u) => \E i \in DOMAIN r : r[i] = queue[k]
  <2> HIDE DEF t
  <2>1. r = removeCallbacksAndMessages(Tail(queue), <<"Track", t>>) BY DEF WithoutTrack
  <2> HIDE DEF r
  <2>2. LeftWithout(queue, r, t) BY <2>1, <1>h, <1>t, TrackGone
  <2> QED BY <2>2 DEF LeftWithout
<1> HIDE DEF t, r
<1>3. \E g : From(g, queue, queue') /\ \A i \in DOMAIN queue' : g[i] # 1
  <2>1. PICK f : From(f, queue, r) /\ \A i \in DOMAIN r : f[i] # 1 BY <1>2
  <2>2. CASE queue' = r BY <2>1, <2>2
  <2>3. CASE queue' = removeCallbacksAndMessages(r, <<"MediaSender">>)
    <3>0. Left(r, queue', <<"MediaSender">>) BY <1>2, <2>3, RemoveFrom
    <3>1. PICK g : From(g, r, queue') BY <3>0 DEF Left
    <3> DEFINE h == [i \in DOMAIN queue' |-> f[g[i]]]
    <3>2. From(h, queue, queue') BY <2>1, <3>1, FromTwice
    <3>3. \A i \in DOMAIN queue' : h[i] # 1 BY <2>1, <3>1 DEF From
    <3> HIDE DEF h
    <3> QED BY <3>2, <3>3
  <2> QED BY <2>2, <2>3, <1>1
<1>4. PICK g : From(g, queue, queue') /\ \A i \in DOMAIN queue' : g[i] # 1 BY <1>3
<1>5. /\ \A i \in DOMAIN queue' : g[i] \in DOMAIN queue /\ g[i] # 1 /\ queue'[i] = queue[g[i]]
      /\ \A i, j \in DOMAIN queue' : g[i] = g[j] => i = j
  BY <1>4 DEF From
<1>6. Whole' BY <1>1, <1>t, <1>s, <1>i DEF Whole
<1>7. OneInit'
  <2>1. \A i, j \in DOMAIN queue' : IsOK(queue'[i]) /\ IsOK(queue'[j]) => i = j
    BY <1>5, <1>i DEF OneInit
  <2>2. \A i \in DOMAIN queue' : IsOK(queue'[i]) => mRTPConnected' /\ ~established'
    BY <1>1, <1>5, <1>i DEF OneInit
  <2> QED BY <1>1, <2>1, <2>2, <1>i DEF OneInit
<1>8. Notices'
  <2>0. \A u \in mTracks' : playback' = "destroying" BY <1>1, <1>t
  <2>1. ASSUME NEW i \in DOMAIN queue', NEW u \in Tracks, Notice(queue'[i], u)
        PROVE  playback' = "destroying" /\ u \in mTracks' /\ puller'[u] # "stopping"
    <3>1. g[i] \in DOMAIN queue /\ g[i] # 1 /\ Notice(queue[g[i]], u) BY <2>1, <1>5
    <3>2. u # t BY <3>1, <1>h, <1>t, <1>i DEF Notices
    <3>3. u \in mTracks /\ puller[u] # "stopping" BY <3>1, <1>i DEF Notices
    <3> QED BY <3>2, <3>3, <1>1, <2>0
  <2>2. ASSUME NEW i \in DOMAIN queue', NEW j \in DOMAIN queue', NEW u \in Tracks,
               Notice(queue'[i], u), Notice(queue'[j], u)
        PROVE  i = j
    <3>1. g[i] = g[j] BY <2>2, <1>5, <1>i DEF Notices
    <3> QED BY <3>1, <1>5
  <2>3. ASSUME NEW u \in Tracks, puller'[u] = "stopping"
        PROVE  playback' = "destroying" /\ u \in mTracks'
    <3>1. puller[u] = "stopping" /\ u # t BY <1>1, <1>t, <2>3
    <3>2. u \in mTracks BY <3>1, <1>i DEF Notices
    <3> QED BY <3>1, <3>2, <1>1, <2>0
  <2>4. ASSUME playback' = "destroying", crashed' = "no", NEW u \in mTracks'
        PROVE  puller'[u] = "stopping" \/ \E i \in DOMAIN queue' : Notice(queue'[i], u)
    <3>1. u \in mTracks /\ u \in Tracks /\ u # t /\ queue' = r BY <1>1, <2>4, <1>i DEF TypeOK
    <3>2. CASE puller[u] = "stopping" BY <3>2, <1>1
    <3>3. CASE puller[u] # "stopping"
      <4>1. PICK k \in DOMAIN queue : Notice(queue[k], u)
        BY <1>h, <1>t, <3>1, <3>3, <1>i DEF Notices
      <4>2. k # 1 BY <4>1, <3>1, <1>t DEF Notice
      <4>3. \E i \in DOMAIN queue' : queue'[i] = queue[k] BY <4>1, <4>2, <3>1, <1>2
      <4> QED BY <4>1, <4>3
    <3> QED BY <3>2, <3>3
  <2> QED BY <2>1, <2>2, <2>3, <2>4 DEF Notices
<1>9. Pulling' BY <1>1, <1>t, <1>i DEF Pulling
<1>10. Ready'
  <2> SUFFICES ASSUME mRTPMode = "UDP"
               PROVE  mRTPConnected' /\ \A i \in DOMAIN queue' : ~IsOK(queue'[i])
    BY <1>1 DEF Ready
  <2>1. mRTPConnected' BY <1>1, <1>i DEF Ready
  <2>2. ASSUME NEW k \in DOMAIN queue PROVE ~IsOK(queue[k])
    <3>1. k \in Nat /\ ~(k < 1) BY <1>h
    <3> QED BY <3>1, <1>h, <1>i DEF Ready
  <2> QED BY <2>1, <2>2, <1>5
<1> QED BY <1>6, <1>7, <1>8, <1>9, <1>10 DEF IInv

-----------------------------------------------------------------------------
(* The remaining steps are quiet.                                          *)

(* A message is posted.                                                    *)
LEMMA QuietPost ==
    ASSUME IInv, TypeOK', NEW m \in Messages, ~Telling(m), queue' = Append(queue, m),
           playback # "none",
           UNCHANGED <<mTracks, mStarted, mConverter, puller>>,
           UNCHANGED converter \/ playback \notin {"none", "live"},
           UNCHANGED <<mMediaSender, mRTPMode, mRTPConnected>>,
           UNCHANGED <<playback, established, lateStart>>, UNCHANGED crashed
    PROVE  IInv'
<1>1. Shift(0) BY PostShifts DEF IInv
<1> QED BY <1>1, QuietStep

(* A message is handled, if need be by the end of the process.             *)
LEMMA QuietTake ==
    ASSUME IInv, TypeOK', queue' = Tail(queue), NEW to, NEW what, Received(to, what),
           what \notin {"MEDIA_PULLER_STOPPED", "STOPPED"},
           UNCHANGED <<mTracks, mStarted, mConverter, puller>>,
           UNCHANGED converter \/ playback \notin {"none", "live"},
           UNCHANGED <<mMediaSender, mRTPMode, mRTPConnected>>,
           UNCHANGED <<playback, established, lateStart>>,
           \/ UNCHANGED crashed
           \/ /\ playback # "live"
              /\ crashed' \in FailureNames \ {"start: mStarted", "stopped: null"}
    PROVE  IInv'
<1>1. TypeOK /\ Whole BY DEF IInv
<1>2. queue # <<>> /\ crashed = "no" /\ Head(queue).what = what BY <1>1, Handled DEF msg
<1>3. Shift(1) BY <1>1, <1>2, TakeShifts
<1>4. playback # "none" BY <1>1, <1>2 DEF Whole
<1> QED BY <1>2, <1>3, <1>4, QuietStep

(* Every step keeps the invariant.                                         *)
LEMMA InvStep == IInv /\ [Next]_vars => IInv'
<1> SUFFICES ASSUME IInv, [Next]_vars PROVE IInv' OBVIOUS
<1>i. TypeOK /\ Whole /\ OneInit /\ Notices /\ Pulling /\ Ready BY DEF IInv
<1>t. TypeOK' BY <1>i, TypeStep
<1> USE DEF trackVars, threadVars, senderVars, lifeVars
<1>1. CASE Calls
  <2>1. CASE CallInit BY <2>1, <1>t, InitStep
  <2>2. CASE CallRequestIDRFrame
    <3>1. /\ UNCHANGED <<queue, mTracks, mStarted, mConverter, converter, puller, mMediaSender, mRTPMode,
                         mRTPConnected, playback, established, lateStart>>
          /\ crashed = "no" /\ crashed' = "IDR: null converter" /\ mTracks # mConverter
          /\ playback # "none"
      BY <2>2 DEF CallRequestIDRFrame, InUse, Running
    <3>2. Shift(0) BY <3>1, <1>i, StayShifts
    <3>3. playback # "live" BY <3>1, <1>i DEF Whole
    <3> QED BY <3>1, <3>2, <3>3, <1>t, QuietStep DEF FailureNames
  <2>3. CASE CallDestroyAsync BY <2>3, <1>t, DestroyStep
  <2>4. CASE Release BY <2>4, <1>t, ReleaseStep
  <2>5. ASSUME NEW what \in {"PAUSE", "RESUME"}, CallPlayOrPause(what) PROVE IInv'
    <3>1. ToSession(what) \in Messages /\ ToSession(what).what = what BY PostedMessages
    <3>2. ~Telling(ToSession(what)) BY <3>1 DEF Telling, IsOK
    <3>3. /\ queue' = Append(queue, ToSession(what)) /\ playback # "none"
          /\ UNCHANGED <<mTracks, mStarted, mConverter, converter, puller, mMediaSender, mRTPMode,
                         mRTPConnected, playback, established, lateStart, crashed>>
      BY <2>5 DEF CallPlayOrPause, InUse
    <3> QED BY <3>1, <3>2, <3>3, <1>t, QuietPost
  <2> QED BY <1>1, <2>1, <2>2, <2>3, <2>4, <2>5 DEF Calls
<1>2. CASE Net
  <2>1. CASE OnConnected BY <2>1, <1>t, ConnectedStep
  <2>2. CASE OnSinkLatency
    <3> DEFINE m == ToSender("INFORM_SENDER")
    <3>1. m \in Messages /\ m.what = "INFORM_SENDER" BY PostedMessages
    <3>2. /\ queue' = Append(queue, m) /\ playback # "none"
          /\ UNCHANGED <<mTracks, mStarted, mConverter, converter, puller, mMediaSender, mRTPMode,
                         mRTPConnected, playback, established, lateStart, crashed>>
      BY <2>2 DEF OnSinkLatency
    <3> HIDE DEF m
    <3>3. ~Telling(m) BY <3>1 DEF Telling, IsOK
    <3> QED BY <3>1, <3>2, <3>3, <1>t, QuietPost
  <2>3. ASSUME NEW s \in {"RTP", "RTCP"}, OnNetError(s) PROVE IInv'
    <3> DEFINE m == IF ~mRTPConnected \/ ~mRTCPConnected
                    THEN InitDone("MediaSender", FALSE) ELSE ToSender("ERROR")
    <3>1. m \in Messages BY PostedMessages
    <3>2. ~Telling(m)
      <4>1. CASE ~mRTPConnected \/ ~mRTCPConnected
        <5>1. InitDone("MediaSender", FALSE).what = "INIT_DONE" /\ ~InitDone("MediaSender", FALSE).ok
          BY PostedMessages
        <5> QED BY <4>1, <5>1 DEF Telling, IsOK
      <4>2. CASE ~(~mRTPConnected \/ ~mRTCPConnected)
        <5>1. ToSender("ERROR").what = "ERROR" BY PostedMessages
        <5> QED BY <4>2, <5>1 DEF Telling, IsOK
      <4> QED BY <4>1, <4>2
    <3>3. /\ queue' = Append(queue, m) /\ playback # "none"
          /\ UNCHANGED <<mTracks, mStarted, mConverter, converter, puller, mMediaSender, mRTPMode,
                         mRTPConnected, playback, established, lateStart, crashed>>
      BY <2>3 DEF OnNetError
    <3> HIDE DEF m
    <3> QED BY <3>1, <3>2, <3>3, <1>t, QuietPost
  <2>4. CASE OnSinkNack
    <3>1. /\ UNCHANGED <<queue, mTracks, mStarted, mConverter, converter, puller, mMediaSender,
                         mRTPMode, mRTPConnected, playback, established, lateStart>>
          /\ crashed = "no" /\ crashed' = "NACK" /\ playback # "none"
      BY <2>4 DEF OnSinkNack, Running
    <3>2. Shift(0) BY <3>1, <1>i, StayShifts
    <3> QED BY <3>1, <3>2, <1>t, QuietStep DEF FailureNames, Accidents
  <2> QED BY <1>2, <2>1, <2>2, <2>3, <2>4 DEF Net
<1>3. CASE Threads
  <2>1. ASSUME NEW t \in Tracks, PullerStops(t) PROVE IInv' BY <2>1, <1>t, PullerStopsStep
  <2>2. ASSUME NEW t \in Tracks, ConverterShutsDown(t) PROVE IInv'
    <3>1. UNCHANGED <<queue, mTracks, mStarted, mConverter, puller, mMediaSender, mRTPMode,
                      mRTPConnected, playback, established, lateStart, crashed>>
      BY <2>2 DEF ConverterShutsDown
    <3>2. Shift(0) BY <3>1, <1>i, StayShifts
    <3>3. playback \notin {"none", "live"} BY <2>2, <1>i DEF ConverterShutsDown, Whole
    <3> QED BY <3>1, <3>2, <3>3, <1>t, QuietStep
  <2>3. ASSUME NEW t \in Tracks, OutputAvailable(t) PROVE IInv'
    <3> DEFINE m == OfTrack("PlaybackSession", "ACCESS_UNIT", t)
    <3>1. m \in Messages /\ m.what = "ACCESS_UNIT" BY PostedMessages
    <3>2. /\ queue' = Append(queue, m) /\ puller[t] # "idle"
          /\ UNCHANGED <<mTracks, mStarted, mConverter, converter, puller, mMediaSender, mRTPMode,
                         mRTPConnected, playback, established, lateStart, crashed>>
      BY <2>3 DEF OutputAvailable
    <3> HIDE DEF m
    <3>3. ~Telling(m) BY <3>1 DEF Telling, IsOK
    <3>4. playback # "none" BY <3>2, <1>i DEF Whole, OneInit
    <3> QED BY <3>1, <3>2, <3>3, <3>4, <1>t, QuietPost
  <2>4. CASE PullerHangs
    <3>1. UNCHANGED <<queue, mTracks, mStarted, mConverter, converter, puller, mMediaSender,
                      mRTPMode, mRTPConnected, playback, established, lateStart, crashed>>
      BY <2>4 DEF PullerHangs
    <3>2. Shift(0) BY <3>1, <1>i, StayShifts
    <3> QED BY <3>1, <3>2, <1>t, QuietStep
  <2>5. ASSUME NEW t \in Tracks, PullerCrashes(t) PROVE IInv'
    <3>1. /\ UNCHANGED <<queue, mTracks, mStarted, mConverter, converter, puller, mMediaSender,
                         mRTPMode, mRTPConnected, playback, established, lateStart>>
          /\ crashed = "no" /\ puller[t] # "idle"
          /\ \/ crashed' = "no input buffer"
             \/ crashed' = "encoder released" /\ converter[t] # "open"
      BY <2>5 DEF PullerCrashes, Pulls, Running
    <3>2. Shift(0) BY <3>1, <1>i, StayShifts
    <3>3. established BY <3>1, <1>i DEF OneInit
    <3>4. playback # "none" BY <3>3, <1>i DEF Whole, OneInit
    <3>5. converter[t] # "open" => playback # "live" BY <1>i DEF Whole
    <3> QED BY <3>1, <3>2, <3>4, <3>5, <1>t, QuietStep DEF FailureNames, Accidents
  <2> QED BY <1>3, <2>1, <2>2, <2>3, <2>4, <2>5 DEF Threads
<1>4. CASE WFDThread
  <2>1. CASE OnSenderInitDone BY <2>1, <1>t, SenderInitDoneStep
  <2>2. ASSUME NEW what \in {"ERROR", "INFORM_SENDER"}, OnSenderNotify(what) PROVE IInv'
    <3> DEFINE m == ToSession(what)
    <3>1. m \in Messages /\ m.what = what BY PostedMessages
    <3>2. /\ queue \in Seq(Messages) /\ queue # <<>> /\ Tail(queue) \in Seq(Messages)
          /\ crashed = "no" /\ Head(queue).what = what /\ Received("MediaSender", what)
      BY <2>2, <1>i, Handled DEF OnSenderNotify, msg
    <3>3. /\ queue' = Tail(queue) \o (IF mGeneration = 0 THEN <<m>> ELSE <<>>)
          /\ UNCHANGED <<mTracks, mStarted, mConverter, converter, puller, mMediaSender, mRTPMode,
                         mRTPConnected, playback, established, lateStart, crashed>>
      BY <2>2 DEF OnSenderNotify
    <3> HIDE DEF m
    <3>4. ~Telling(m) BY <3>1 DEF Telling, IsOK
    <3>5. CASE mGeneration = 0
      <4>1. queue' = Append(Tail(queue), m) BY <3>1, <3>2, <3>3, <3>5, PostMaybe
      <4>2. Shift(1) BY <4>1, <3>1, <3>2, <3>4, <1>i, TakeAndPostShifts
      <4>3. playback # "none" BY <3>2, <1>i DEF Whole
      <4> QED BY <4>2, <4>3, <3>3, <1>t, QuietStep
    <3>6. CASE mGeneration # 0
      <4>1. queue' = Tail(queue) BY <3>1, <3>2, <3>3, <3>6, PostMaybe
      <4> QED BY <4>1, <3>2, <3>3, <1>t, QuietTake
    <3> QED BY <3>5, <3>6
  <2>3. CASE OnMediaSenderInitialized BY <2>3, <1>t, MediaSenderInitializedStep
  <2>4. CASE OnSessionDead
    <3>1. /\ queue' = Tail(queue)
          /\ UNCHANGED <<mTracks, mStarted, mConverter, converter, puller, mMediaSender, mRTPMode,
                         mRTPConnected, playback, established, lateStart, crashed>>
          /\ \E what \in {"INIT_DONE", "ERROR"} : Received("PlaybackSession", what)
      BY <2>4 DEF OnSessionDead
    <3>2. PICK what \in {"INIT_DONE", "ERROR"} : Received("PlaybackSession", what) BY <3>1
    <3> QED BY <3>1, <3>2, <1>t, QuietTake
  <2>5. CASE OnSinkFeedback
    <3>1. /\ queue' = Tail(queue) /\ Received("PlaybackSession", "INFORM_SENDER")
          /\ UNCHANGED <<mTracks, mStarted, mConverter, converter, puller, mMediaSender, mRTPMode,
                         mRTPConnected, playback, established, lateStart>>
          /\ \/ UNCHANGED crashed
             \/ VideoTrack \notin mTracks /\ crashed' = "feedback: null track"
             \/ converter[VideoTrack] # "open" /\ crashed' = "encoder released"
      BY <2>5 DEF OnSinkFeedback, Fail
    <3>2. VideoTrack \notin mTracks \/ converter[VideoTrack] # "open" => playback # "live"
      BY <1>i, TracksAssumption DEF Whole, TracksAssumption
    <3> QED BY <3>1, <3>2, <1>t, QuietTake DEF FailureNames
  <2>6. CASE OnAccessUnit
    <3>1. /\ queue' = Tail(queue) /\ Received("PlaybackSession", "ACCESS_UNIT")
          /\ UNCHANGED <<mTracks, mStarted, mConverter, converter, puller, mMediaSender, mRTPMode,
                         mRTPConnected, playback, established, lateStart>>
          /\ \/ UNCHANGED crashed
             \/ (msg.track \notin mTracks \/ ~mMediaSender) /\ crashed' = "access unit: null"
      BY <2>6 DEF OnAccessUnit, Fail
    <3>2. msg.track \in Tracks BY <3>1, <1>i, Handled, MessageFields
    <3>3. (msg.track \notin mTracks \/ ~mMediaSender) => playback # "live"
      BY <3>2, <1>i DEF Whole
    <3> QED BY <3>1, <3>3, <1>t, QuietTake DEF FailureNames
  <2>7. CASE OnPauseOrResume
    <3>1. /\ queue' = Tail(queue)
          /\ UNCHANGED <<mTracks, mStarted, mConverter, converter, puller, mMediaSender, mRTPMode,
                         mRTPConnected, playback, established, lateStart, crashed>>
          /\ \E what \in {"PAUSE", "RESUME"} : Received("PlaybackSession", what)
      BY <2>7 DEF OnPauseOrResume
    <3>2. PICK what \in {"PAUSE", "RESUME"} : Received("PlaybackSession", what) BY <3>1
    <3> QED BY <3>1, <3>2, <1>t, QuietTake
  <2>8. CASE OnMediaPullerStopped BY <2>8, <1>t, MediaPullerStoppedStep
  <2>9. CASE OnTrackStopped BY <2>9, <1>t, TrackStoppedStep
  <2> QED BY <1>4, <2>1, <2>2, <2>3, <2>4, <2>5, <2>6, <2>7, <2>8, <2>9 DEF WFDThread
<1>5. CASE UNCHANGED vars
  <2>1. UNCHANGED <<queue, mTracks, mStarted, mConverter, converter, puller, mMediaSender, mRTPMode,
                    mRTPConnected, playback, established, lateStart, crashed>>
    BY <1>5 DEF vars
  <2>2. Shift(0) BY <2>1, <1>i, StayShifts
  <2> QED BY <2>1, <2>2, <1>t, QuietStep
<1> QED BY <1>1, <1>2, <1>3, <1>4, <1>5 DEF Next

LEMMA InvInit == Init => IInv
<1> SUFFICES ASSUME Init PROVE IInv OBVIOUS
<1>1. TypeOK
  <2>1. queue \in Seq(Messages) BY DEF Init
  <2>2. TrackTypes /\ ThreadTypes /\ LifeTypes /\ FlagTypes
    BY DEF Init, TrackTypes, ThreadTypes, LifeTypes, FlagTypes
  <2>3. SenderTypes
    <3>1. 0 \in 0..1 /\ 0 \in Int OBVIOUS
    <3>2. mGeneration \in 0..1 /\ mInitDoneCount \in Int BY <3>1 DEF Init
    <3> QED BY <3>2 DEF Init, SenderTypes
  <2>4. CrashTypes BY DEF Init, CrashTypes
  <2> QED BY <2>1, <2>2, <2>3, <2>4, TypeParts
<1>2. DOMAIN queue = {} BY DEF Init
<1>3. Whole BY DEF Init, Whole
<1>4. OneInit BY <1>2 DEF Init, OneInit
<1>5. Notices BY <1>2 DEF Init, Notices
<1>6. Pulling /\ Ready BY <1>2 DEF Init, Pulling, Ready
<1> QED BY <1>1, <1>3, <1>4, <1>5, <1>6 DEF IInv

LEMMA Invariance == Spec => []IInv
  BY InvInit, InvStep, PTL DEF Spec

-----------------------------------------------------------------------------
(* The theorems.                                                           *)

(* Every variable keeps its type: the looper only ever holds messages one  *)
(* of its handlers knows, whatever the threads and the network post.       *)
THEOREM TypeCorrect == Spec => []TypeOK
<1>1. IInv => TypeOK BY DEF IInv
<1> QED BY <1>1, Invariance, PTL

(* Until destroyAsync() no late frame, reported latency, IDR request or    *)
(* network error meets a null reference: only a NACK of the sink and an    *)
(* audio encoder without an input buffer end the process.  A track is      *)
(* never started twice and never reported stopped twice.                   *)
THEOREM CrashSafe == Spec => []NoCrashWhileLive
<1>1. IInv => NoCrashWhileLive BY DEF IInv, Whole, NoCrashWhileLive, Accidents
<1> QED BY <1>1, Invariance, PTL

(* A track that is gone leaves no puller pulling, unless its sender        *)
(* finished initializing after destroyAsync().                             *)
THEOREM PullersSafe == Spec => []PullersStopped
<1>1. IInv => PullersStopped
  <2> SUFFICES ASSUME IInv, NEW t \in Tracks, t \notin mTracks, puller[t] = "running"
               PROVE  lateStart
    BY DEF PullersStopped
  <2>1. playback # "live" BY DEF IInv, Whole
  <2> QED BY <2>1 DEF IInv, Pulling
<1> QED BY <1>1, Invariance, PTL

(* A track that is being stopped has exactly one notice of its end under   *)
(* way: at its puller or, as one of two messages, in the queue.            *)
THEOREM NoticeSafe == Spec => []OneStopNotice
<1>1. IInv => OneStopNotice
  <2> SUFFICES ASSUME IInv, playback = "destroying", crashed = "no", NEW t \in mTracks
               PROVE  StopNotices(t) + (IF puller[t] = "stopping" THEN 1 ELSE 0) = 1
    BY DEF OneStopNotice
  <2>t. t \in Tracks BY DEF IInv, TypeOK
  <2> DEFINE S == {i \in DOMAIN queue : Notice(queue[i], t)}
  <2>1. StopNotices(t) = Cardinality(S) BY DEF StopNotices, Notice
  <2>2. CASE puller[t] = "stopping"
    <3>1. S = {} BY <2>t, <2>2 DEF IInv, Notices
    <3>2. Cardinality(S) = 0 BY <3>1, FS_EmptySet
    <3> QED BY <2>1, <2>2, <3>2
  <2>3. CASE puller[t] # "stopping"
    <3>1. PICK i \in DOMAIN queue : Notice(queue[i], t) BY <2>3 DEF IInv, Notices
    <3>2. \A j \in DOMAIN queue : Notice(queue[j], t) => i = j
      BY <2>t, <3>1 DEF IInv, Notices
    <3>3. S = {i} BY <3>1, <3>2
    <3>4. Cardinality(S) = 1 BY <3>3, FS_Singleton
    <3> QED BY <2>1, <2>3, <3>4
  <2> QED BY <2>2, <2>3
<1> QED BY <1>1, Invariance, PTL

(* The transport is settled when init() has returned.                      *)
Settled == playback # "none" => mRTPMode # "UNDEFINED"

Stays == UNCHANGED <<mRTPMode, playback, established, crashed>>

(* Every step of the session is one the contract allows, or none of its    *)
(* business.                                                               *)
LEMMA LifeStep == IInv /\ Settled /\ [Next]_vars => Settled' /\ [Lifecycle!Next]_(Lifecycle!vars)
<1> SUFFICES ASSUME IInv, Settled, [Next]_vars
             PROVE  Settled' /\ [Lifecycle!Next]_(Lifecycle!vars)
  OBVIOUS
<1>i. TypeOK /\ Whole /\ OneInit /\ Notices /\ Pulling /\ Ready BY DEF IInv
<1>s. ASSUME Stays PROVE Settled' /\ [Lifecycle!Next]_(Lifecycle!vars)
  BY <1>s DEF Stays, Settled, Lifecycle!vars
<1>f. ASSUME crashed = "no", crashed' # "no", UNCHANGED <<mRTPMode, playback, established>>
      PROVE  Settled' /\ [Lifecycle!Next]_(Lifecycle!vars)
  <2>1. Lifecycle!ProcessEnds BY <1>f DEF Lifecycle!ProcessEnds
  <2> QED BY <2>1, <1>f DEF Settled, Lifecycle!Next
<1> USE DEF senderVars, lifeVars
<1>1. CASE CallInit
  <2>1. /\ playback = "none" /\ playback' = "live" /\ mRTPMode' # "UNDEFINED"
        /\ UNCHANGED <<established, crashed>>
    BY <1>1 DEF CallInit
  <2>2. crashed = "no" BY <2>1, <1>i DEF Whole
  <2>3. Lifecycle!Create BY <2>1, <2>2 DEF Lifecycle!Create
  <2> QED BY <2>1, <2>3 DEF Settled, Lifecycle!Next
<1>2. CASE CallRequestIDRFrame
  <2>1. /\ crashed = "no" /\ crashed' = "IDR: null converter"
        /\ UNCHANGED <<mRTPMode, playback, established>>
    BY <1>2 DEF CallRequestIDRFrame, InUse, Running
  <2> QED BY <2>1, <1>f
<1>3. CASE CallDestroyAsync
  <2>1. /\ crashed = "no" /\ playback = "live" /\ playback' = "destroying"
        /\ UNCHANGED <<mRTPMode, established, crashed>>
    BY <1>3 DEF CallDestroyAsync, Running
  <2>2. Lifecycle!DestroyAsync BY <2>1 DEF Lifecycle!DestroyAsync
  <2> QED BY <2>1, <2>2 DEF Settled, Lifecycle!Next
<1>4. CASE Release
  <2>1. Stays BY <1>4 DEF Release, Stays
  <2> QED BY <2>1, <1>s
<1>5. ASSUME NEW what, CallPlayOrPause(what)
      PROVE  Settled' /\ [Lifecycle!Next]_(Lifecycle!vars)
  <2>1. Stays BY <1>5 DEF CallPlayOrPause, Stays
  <2> QED BY <2>1, <1>s
<1>6. CASE Net
  <2>1. CASE OnSinkNack
    <3>1. crashed = "no" /\ crashed' = "NACK" /\ UNCHANGED <<mRTPMode, playback, established>>
      BY <2>1 DEF OnSinkNack, Running
    <3> QED BY <3>1, <1>f
  <2>2. CASE ~OnSinkNack
    <3>1. Stays BY <1>6, <2>2 DEF Net, OnConnected, OnSinkLatency, OnNetError, Stays
    <3> QED BY <3>1, <1>s
  <2> QED BY <2>1, <2>2
<1>7. CASE Threads
  <2>1. ASSUME NEW t \in Tracks, PullerCrashes(t)
        PROVE  Settled' /\ [Lifecycle!Next]_(Lifecycle!vars)
    <3>1. /\ crashed = "no" /\ crashed' # "no"
          /\ UNCHANGED <<mRTPMode, playback, established>>
      BY <2>1 DEF PullerCrashes, Running
    <3> QED BY <3>1, <1>f
  <2>2. CASE \A t \in Tracks : ~PullerCrashes(t)
    <3>1. Stays
      BY <1>7, <2>2 DEF Threads, PullerStops, PullerHangs, ConverterShutsDown,
         OutputAvailable, Stays
    <3> QED BY <3>1, <1>s
  <2> QED BY <2>1, <2>2
<1>8. CASE OnSenderInitDone
  <2>1. Stays BY <1>8 DEF OnSenderInitDone, Stays
  <2> QED BY <2>1, <1>s
<1>9. ASSUME NEW what, OnSenderNotify(what)
      PROVE  Settled' /\ [Lifecycle!Next]_(Lifecycle!vars)
  <2>1. Stays BY <1>9 DEF OnSenderNotify, Stays
  <2> QED BY <2>1, <1>s
<1>10. CASE OnMediaSenderInitialized
  <2>h. /\ queue # <<>> /\ msg = queue[1] /\ 1 \in DOMAIN queue /\ msg.what = "INIT_DONE"
        /\ crashed = "no" /\ msg.ok
    BY <1>10, <1>i, Handled DEF OnMediaSenderInitialized
  <2>1. IsOK(queue[1]) BY <2>h DEF IsOK
  <2>2. ~established /\ mStarted = {} BY <2>1, <2>h, <1>i DEF OneInit
  <2>3. established' = TRUE /\ UNCHANGED <<mRTPMode, playback, crashed>>
    BY <1>10, <2>2 DEF OnMediaSenderInitialized
  <2>4. playback # "none" BY <2>h, <1>i DEF Whole
  <2>5. playback = "destroyed" => mRTPMode # "UDP" BY <2>1, <2>h, <1>i DEF Ready
  <2>6. playback = "destroyed" => mRTPMode = "TCP"
    BY <2>4, <2>5, <1>i DEF Settled, TypeOK
  <2>7. Lifecycle!SessionEstablished
    BY <2>h, <2>2, <2>3, <2>4, <2>6 DEF Lifecycle!SessionEstablished
  <2> QED BY <2>3, <2>7 DEF Settled, Lifecycle!Next
<1>11. CASE OnSessionDead
  <2>1. Stays BY <1>11 DEF OnSessionDead, Stays
  <2> QED BY <2>1, <1>s
<1>12. CASE OnSinkFeedback
  <2>1. crashed = "no" BY <1>12 DEF OnSinkFeedback, Received, Running
  <2>2. /\ UNCHANGED <<mRTPMode, playback, established>>
        /\ UNCHANGED crashed \/ crashed' \in {"feedback: null track", "encoder released"}
    BY <1>12 DEF OnSinkFeedback, Fail
  <2> QED BY <2>1, <2>2, <1>s, <1>f DEF Stays
<1>13. CASE OnAccessUnit
  <2>1. crashed = "no" BY <1>13 DEF OnAccessUnit, Received, Running
  <2>2. /\ UNCHANGED <<mRTPMode, playback, established>>
        /\ UNCHANGED crashed \/ crashed' = "access unit: null"
    BY <1>13 DEF OnAccessUnit, Fail
  <2> QED BY <2>1, <2>2, <1>s, <1>f DEF Stays
<1>14. CASE OnPauseOrResume
  <2>1. Stays BY <1>14 DEF OnPauseOrResume, Stays
  <2> QED BY <2>1, <1>s
<1>15. CASE OnMediaPullerStopped
  <2>1. Stays BY <1>15 DEF OnMediaPullerStopped, Stays
  <2> QED BY <2>1, <1>s
<1>16. CASE OnTrackStopped
  <2>h. /\ queue # <<>> /\ msg = queue[1] /\ 1 \in DOMAIN queue /\ msg.what = "STOPPED"
        /\ crashed = "no"
    BY <1>16, <1>i, Handled DEF OnTrackStopped
  <2>1. playback = "destroying" /\ msg.track \in mTracks BY <2>h, NoticeTells
  <2>2. mMediaSender BY <2>1, <1>i DEF Whole
  <2>3. /\ UNCHANGED <<mRTPMode, established, crashed>>
        /\ UNCHANGED playback \/ playback' = "destroyed"
    BY <1>16, <2>1, <2>2 DEF OnTrackStopped
  <2>4. CASE UNCHANGED playback BY <2>3, <2>4, <1>s DEF Stays
  <2>5. CASE playback' = "destroyed"
    <3>1. Lifecycle!SessionDestroyed
      BY <2>h, <2>1, <2>3, <2>5 DEF Lifecycle!SessionDestroyed
    <3> QED BY <3>1, <2>1, <2>3 DEF Settled, Lifecycle!Next
  <2> QED BY <2>3, <2>4, <2>5
<1>17. CASE UNCHANGED vars
  <2>1. Stays BY <1>17 DEF vars, Stays
  <2> QED BY <2>1, <1>s
<1> QED
  BY <1>1, <1>2, <1>3, <1>4, <1>5, <1>6, <1>7, <1>8, <1>9, <1>10, <1>11, <1>12, <1>13,
     <1>14, <1>15, <1>16, <1>17
     DEF Next, Calls, WFDThread

(* The session keeps its side of the contract, but for the promise that it *)
(* is destroyed in the end: SESSION_ESTABLISHED is posted at most once     *)
(* and, with UDP, never after SESSION_DESTROYED, which is posted at most   *)
(* once and only after destroyAsync().                                     *)
THEOREM UsageKept == Spec => Lifecycle!Usage
<1>1. Init => Settled /\ Lifecycle!Init
  BY DEF Init, Settled, Lifecycle!Init
<1>2. Spec => []Settled
  <2>1. IInv /\ Settled /\ [Next]_vars => Settled' BY LifeStep
  <2> QED BY <1>1, <2>1, Invariance, PTL DEF Spec
<1>3. IInv /\ Settled /\ [Next]_vars => [Lifecycle!Next]_(Lifecycle!vars) BY LifeStep
<1>4. Spec => [][Lifecycle!Next]_(Lifecycle!vars)
  BY <1>2, <1>3, Invariance, PTL DEF Spec
<1> QED BY <1>1, <1>4, PTL DEF Spec, Lifecycle!Usage

=============================================================================
