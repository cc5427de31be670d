---------------------------- MODULE UdpCastProofs ----------------------------
(***************************************************************************)
(* Proofs about UdpCast: what frames look like after faults of the         *)
(* network, and that groups of pictures stay whole without them, for any   *)
(* number and any sizes of frames, any number of faults and any length of  *)
(* the play queue.                                                         *)
(***************************************************************************)
EXTENDS UdpCast, FiniteSetTheorems, WellFoundedInduction, TLAPS

-----------------------------------------------------------------------------
(* The parts of a frame.                                                   *)

(* Division of natural numbers.                                           *)
LEMMA DivMod ==
    ASSUME NEW n \in Nat, NEW m \in Nat \ {0}, NEW q, q = n \div m, NEW r, r = n % m
    PROVE  q \in Nat /\ r \in Nat /\ r < m /\ n = m * q + r
<1>1. q \in Int /\ r \in Nat /\ r < m OBVIOUS
<1>2. n = m * q + r OBVIOUS
<1>3. q >= 0 OBVIOUS
<1> QED BY <1>1, <1>2, <1>3

(* A frame of n bytes has q full parts and one of r bytes, if r # 0.       *)
Division(n, q, r) ==
    /\ r < LimitData /\ n = LimitData * q + r
    /\ Parts(n) = q + (IF r # 0 THEN 1 ELSE 0)

LEMMA PartsDivide ==
    ASSUME NEW n \in Nat
    PROVE  \E q \in Nat, r \in Nat : Division(n, q, r)
<1>l. LimitData \in Nat \ {0} BY UdpCastAssumption DEF UdpCastAssumption
<1> DEFINE q == n \div LimitData
           r == n % LimitData
<1>p. Parts(n) = q + (IF r # 0 THEN 1 ELSE 0) BY DEF Parts
<1> HIDE DEF q, r
<1>q. q = n \div LimitData /\ r = n % LimitData BY DEF q, r
<1>1. q \in Nat /\ r \in Nat /\ r < LimitData /\ n = LimitData * q + r BY <1>l, <1>q, DivMod
<1> QED BY <1>1, <1>p DEF Division

LEMMA Times ==
    ASSUME NEW a \in Nat, NEW b \in Nat, NEW c \in Nat, a <= b
    PROVE  a * c <= b * c /\ a * c \in Nat /\ b * c \in Nat
  OBVIOUS

(* A frame that fits in a datagram has one part, every frame has some, and *)
(* what the first c parts leave of a frame with more is not empty.         *)
LEMMA OnePart ==
    ASSUME NEW n \in Nat \ {0}, n <= LimitData
    PROVE  Parts(n) = 1
<1>l. LimitData \in Nat \ {0} BY UdpCastAssumption DEF UdpCastAssumption
<1>x. PICK q \in Nat, r \in Nat : Division(n, q, r) BY PartsDivide
<1>1. q \in Nat /\ r \in Nat /\ r < LimitData /\ n = LimitData * q + r BY <1>x DEF Division
<1>p. Parts(n) = q + (IF r # 0 THEN 1 ELSE 0) BY <1>x DEF Division
<1>2. CASE q = 0 BY <1>1, <1>2, <1>p, <1>l
<1>3. CASE q = 1 BY <1>1, <1>3, <1>p, <1>l
<1>4. CASE q >= 2
  <2>1. LimitData * q >= LimitData * 2 BY <1>1, <1>l, <1>4
  <2> QED BY <1>1, <1>l, <2>1
<1> QED BY <1>1, <1>2, <1>3, <1>4

LEMMA SomePart ==
    ASSUME NEW n \in Nat \ {0}
    PROVE  Parts(n) \in Nat \ {0}
<1>l. LimitData \in Nat \ {0} BY UdpCastAssumption DEF UdpCastAssumption
<1>x. PICK q \in Nat, r \in Nat : Division(n, q, r) BY PartsDivide
<1>1. q \in Nat /\ r \in Nat /\ r < LimitData /\ n = LimitData * q + r BY <1>x DEF Division
<1>p. Parts(n) = q + (IF r # 0 THEN 1 ELSE 0) BY <1>x DEF Division
<1>2. CASE q = 0 BY <1>1, <1>2, <1>p, <1>l
<1>3. CASE q >= 1 BY <1>1, <1>3, <1>p, <1>l
<1> QED BY <1>1, <1>2, <1>3

LEMMA RoomForPart ==
    ASSUME NEW n \in Nat \ {0}, NEW c \in Nat, c < Parts(n)
    PROVE  n - c * LimitData > 0
<1>l. LimitData \in Nat \ {0} BY UdpCastAssumption DEF UdpCastAssumption
<1>x. PICK q \in Nat, r \in Nat : Division(n, q, r) BY PartsDivide
<1>1. q \in Nat /\ r \in Nat /\ r < LimitData /\ n = LimitData * q + r BY <1>x DEF Division
<1>p. Parts(n) = q + (IF r # 0 THEN 1 ELSE 0) BY <1>x DEF Division
<1>2. CASE r # 0
  <2>1. c <= q BY <1>1, <1>2, <1>p
  <2>2. c * LimitData <= q * LimitData BY <2>1, <1>1, <1>l, Times
  <2> QED BY <2>2, <1>1, <1>2, <1>l
<1>3. CASE r = 0
  <2>1. c + 1 <= q BY <1>1, <1>3, <1>p
  <2>2. (c + 1) * LimitData <= q * LimitData BY <2>1, <1>1, <1>l, Times
  <2>3. (c + 1) * LimitData = c * LimitData + LimitData BY <1>l
  <2> QED BY <2>2, <2>3, <1>1, <1>3, <1>l
<1> QED BY <1>2, <1>3

-----------------------------------------------------------------------------
(* The inductive invariant.  Its parts are operators of the values they    *)
(* are about (q the datagrams on their way, m the number of frames         *)
(* encoded, F the faults, M the frames that others of their size ran       *)
(* into), so that the lemmas can be about values.                          *)

Byte == Nat \X Nat
AnyDatagram == [kind : {"info", "config", "frame"}, id : Nat, key : BOOLEAN,
                length : Nat \ {0}, count : Nat]
AnyItem == [kind : {"info", "config", "frame", "raw"}, key : BOOLEAN,
            length : Nat \ {0}, parts : Seq(Byte)]

(* The types that the proof needs; they do not bound the number of parts.  *)
Types ==
    /\ encoded \in 0..MaxFrames
    /\ net \in Seq(AnyDatagram)
    /\ faults \in [FaultKinds -> Nat]
    /\ count \in Nat /\ tempLength \in Nat /\ tempData \in Seq(Byte)
    /\ mPlayQueue1 \in Seq(AnyItem) /\ list \in Seq(AnyItem) /\ decoded \in Seq(AnyItem)

(* The network has done nothing but lose, or but repeat, datagrams.        *)
Losing(F) == \A kind \in FaultKinds \ {"lose"} : F[kind] = 0
Repeating(F) == \A kind \in FaultKinds \ {"duplicate"} : F[kind] = 0
Later(F, G) == (Losing(G) => Losing(F)) /\ (Repeating(G) => Repeating(F))

Cut(d) == d.length > LimitData

(* A datagram of a frame that was encoded, or one of the set-up.           *)
Sane(d, m) ==
    IF d.kind = "frame"
      THEN /\ d.id \in 1..m /\ d.length \in Lengths[d.id]
           /\ Cut(d) => d.count \in 1..Parts(d.length)
      ELSE d.id = 0 /\ d.length = 1

NetSane(q, m) ==
    /\ \A i \in DOMAIN q : Sane(q[i], m)
    /\ \A i, j \in DOMAIN q : Cut(q[i]) /\ q[i].id = q[j].id =>
          q[i].key = q[j].key /\ q[i].length = q[j].length

(* Loss and repetition keep the order of the parts.                        *)
NetOrdered(q, F) ==
    \A i, j \in DOMAIN q : i < j /\ Cut(q[i]) /\ q[i].id = q[j].id =>
        /\ Losing(F) => q[i].count < q[j].count
        /\ Repeating(F) => q[i].count <= q[j].count

PartIn(q, f, c) == \E j \in DOMAIN q : q[j].id = f /\ q[j].count = c

(* Repetition leaves no gap in a frame whose first part is still to come.  *)
NetGapless(q, F) ==
    Repeating(F) =>
        \A i \in DOMAIN q : Cut(q[i]) /\ q[i].count > 1 /\ PartIn(q, q[i].id, 1)
                                => PartIn(q, q[i].id, q[i].count - 1)

NetInv(q, m, F) == NetSane(q, m) /\ NetOrdered(q, F) /\ NetGapless(q, F)

(* The server has begun frame f of n bytes, whose first part is in t.      *)
Begun(c, n, t, f) == n > LimitData /\ c >= 1 /\ 1 \in DOMAIN t /\ t[1] = <<f, 1>>

(* It has counted c parts of the frame, a key frame if k, and no others.   *)
Assembling(q, c, n, t, f, k) ==
    /\ n \in Lengths[f] /\ n > LimitData /\ c >= 1
    /\ t \in [1..Parts(n) -> Byte] /\ t[1] = <<f, 1>>
    /\ \A i \in DOMAIN q : q[i].id = f => q[i].key = k /\ q[i].length = n
    /\ k => \A i \in 1..Parts(n) : t[i] \in {<<f, i>>, <<0, 0>>}
    /\ ~k => c < Parts(n)

Filled(c, n, t, f) == \A i \in 1..Parts(n) : i <= c => t[i] = <<f, i>>

(* Part p was the last to come.  After a loss p is ahead of the count and  *)
(* stays ahead: the frame is never completed.                              *)
LoseTrack(q, c, n, t, f, p) ==
    /\ c <= p
    /\ \A i \in DOMAIN q : q[i].id = f => p < q[i].count
    /\ c = p => Filled(c, n, t, f)

(* After a repetition the count is ahead of p and stays ahead: the rest of *)
(* a key frame is thrown away.                                             *)
RepeatTrack(q, c, n, t, f, p) ==
    /\ 1 <= p /\ p <= c
    /\ \A i \in DOMAIN q : q[i].id = f =>
          p <= q[i].count /\ (q[i].count <= p + 1 \/ PartIn(q, f, q[i].count - 1))
    /\ c = p => Filled(c, n, t, f)

LoseTracked(q, c, n, t, f) == \E p \in Nat : LoseTrack(q, c, n, t, f, p)
RepeatTracked(q, c, n, t, f) == \E p \in Nat : RepeatTrack(q, c, n, t, f, p)

Tracked(q, c, n, t, f, k, F) ==
    /\ Assembling(q, c, n, t, f, k)
    /\ Losing(F) => LoseTracked(q, c, n, t, f)
    /\ k /\ Repeating(F) => RepeatTracked(q, c, n, t, f)

Assembly(q, c, n, t, m, F, M) ==
    n # 0 => \E f \in 1..m, k \in BOOLEAN :
                /\ Begun(c, n, t, f)
                /\ f \notin M => Tracked(q, c, n, t, f, k, F)

NotYet == phase \in {"info", "sps", "pps"} => tempLength = 0

Good(item, F, M) ==
    item.kind = "frame" /\ IdOf(item) \notin M =>
        /\ Losing(F) => Whole(item)
        /\ item.key => InPlace(item) /\ (Repeating(F) => Whole(item))

AllGood(q, F, M) == \A i \in DOMAIN q : Good(q[i], F, M)
GoodItems == AllGood(mPlayQueue1, faults, mixed) /\ AllGood(list, faults, mixed) /\ AllGood(decoded, faults, mixed)

IInv ==
    /\ Types /\ NetInv(net, encoded, faults)
    /\ Assembly(net, count, tempLength, tempData, encoded, faults, mixed)
    /\ NotYet /\ GoodItems /\ CopyInside

-----------------------------------------------------------------------------
(* Sequences.                                                              *)

(* Taking the first, putting two sequences together, and their parts.      *)
LEMMA Rest ==
    ASSUME NEW S, NEW q \in Seq(S), q # <<>>
    PROVE  /\ Tail(q) \in Seq(S) /\ Head(q) \in S /\ Head(q) = q[1] /\ 1 \in DOMAIN q
           /\ \A i \in DOMAIN Tail(q) :
                 i \in Nat /\ i + 1 \in DOMAIN q /\ 1 < i + 1 /\ Tail(q)[i] = q[i + 1]
           /\ \A i \in DOMAIN q : /\ i \in Nat
                                  /\ i # 1 => i - 1 \in DOMAIN Tail(q) /\ Tail(q)[i - 1] = q[i]
  OBVIOUS

LEMMA Joined ==
    ASSUME NEW S, NEW q \in Seq(S), NEW e \in Seq(S)
    PROVE  /\ q \o e \in Seq(S) /\ Len(q) \in Nat
           /\ \A i \in DOMAIN q : /\ i \in Nat /\ i <= Len(q) /\ i \in DOMAIN (q \o e)
                                  /\ (q \o e)[i] = q[i]
           /\ \A c \in DOMAIN e : Len(q) + c \in DOMAIN (q \o e) /\ (q \o e)[Len(q) + c] = e[c]
           /\ \A i \in DOMAIN (q \o e) :
                 \/ i \in DOMAIN q
                 \/ /\ i - Len(q) \in DOMAIN e /\ (q \o e)[i] = e[i - Len(q)]
                    /\ i \in Nat /\ i > Len(q)
  OBVIOUS

LEMMA Prefix ==
    ASSUME NEW S, NEW q \in Seq(S), NEW x \in Nat, x <= Len(q)
    PROVE  /\ SubSeq(q, 1, x) \in Seq(S) /\ DOMAIN SubSeq(q, 1, x) = 1..x
           /\ Len(SubSeq(q, 1, x)) = x
           /\ \A i \in 1..x : i \in DOMAIN q /\ SubSeq(q, 1, x)[i] = q[i]
<1>1. Len(q) \in Nat /\ DOMAIN q = 1..Len(q) OBVIOUS
<1>2. \A i \in 1..x : i \in DOMAIN q /\ q[i] \in S BY <1>1
<1>3. SubSeq(q, 1, x) = [i \in 1..x |-> q[i]] BY <1>1
<1>4. SubSeq(q, 1, x) \in Seq(S) BY <1>2, <1>3
<1> QED BY <1>2, <1>3, <1>4

(* What is left of a sequence behind its first k elements.                 *)
LEMMA Suffix ==
    ASSUME NEW S, NEW q \in Seq(S), NEW k \in Nat, NEW z \in Nat, Len(q) = k + z
    PROVE  /\ SubSeq(q, k + 1, Len(q)) \in Seq(S) /\ DOMAIN SubSeq(q, k + 1, Len(q)) = 1..z
           /\ \A i \in 1..z : k + i \in DOMAIN q /\ SubSeq(q, k + 1, Len(q))[i] = q[k + i]
<1>1. DOMAIN q = 1..(k + z) OBVIOUS
<1>2. \A i \in 1..z : k + i \in DOMAIN q /\ q[k + i] \in S BY <1>1
<1>3. SubSeq(q, k + 1, Len(q)) = [i \in 1..z |-> q[k + i]]
  <2>1. SubSeq(q, k + 1, k + z) = [i \in 1..((k + z) - (k + 1) + 1) |-> q[(k + 1) + i - 1]] OBVIOUS
  <2>2. (k + z) - (k + 1) + 1 = z OBVIOUS
  <2>3. \A i \in 1..z : (k + 1) + i - 1 = k + i OBVIOUS
  <2> QED BY <2>1, <2>2, <2>3
<1>4. SubSeq(q, k + 1, Len(q)) \in Seq(S) BY <1>2, <1>3
<1> QED BY <1>2, <1>3, <1>4

(* Two parts of a sequence put together: the first x elements, and the     *)
(* last z, which follow the first k.                                       *)
Glued(r, q, S, x, k, z) ==
    /\ r \in Seq(S) /\ DOMAIN r = 1..(x + z) /\ DOMAIN q = 1..(k + z)
    /\ \A j \in 1..x : j \in DOMAIN q /\ r[j] = q[j]
    /\ \A j \in 1..z : k + j \in DOMAIN q /\ r[x + j] = q[k + j]

LEMMA TwoParts ==
    ASSUME NEW S, NEW q \in Seq(S), NEW x \in Nat, NEW k \in Nat, NEW z \in Nat,
           x <= Len(q), Len(q) = k + z
    PROVE  Glued(SubSeq(q, 1, x) \o SubSeq(q, k + 1, Len(q)), q, S, x, k, z)
<1> DEFINE a == SubSeq(q, 1, x)
           b == SubSeq(q, k + 1, Len(q))
           r == a \o b
<1>1. a \in Seq(S) /\ DOMAIN a = 1..x /\ Len(a) = x
      /\ \A i \in 1..x : i \in DOMAIN q /\ a[i] = q[i]
  BY Prefix
<1>2. b \in Seq(S) /\ DOMAIN b = 1..z /\ \A i \in 1..z : k + i \in DOMAIN q /\ b[i] = q[k + i]
  BY Suffix
<1>0. DOMAIN q = 1..(k + z) OBVIOUS
<1> HIDE DEF a, b
<1>4. Len(b) = z BY <1>2
<1>5. r \in Seq(S) /\ DOMAIN r = 1..(x + z)
  <2>1. r \in Seq(S) BY <1>1, <1>2, Joined
  <2>2. Len(r) = Len(a) + Len(b) BY <1>1, <1>2
  <2> HIDE DEF r
  <2>3. Len(r) = x + z BY <1>1, <1>4, <2>2
  <2>4. DOMAIN r = 1..Len(r) BY <2>1
  <2> QED BY <2>1, <2>3, <2>4
<1>6. \A j \in 1..x : r[j] = a[j] BY <1>1, <1>2
<1>7. \A j \in 1..z : r[x + j] = b[j]
  <2>1. \A c \in DOMAIN b : r[Len(a) + c] = b[c] BY <1>1, <1>2, Joined
  <2> QED BY <1>1, <1>2, <2>1
<1> HIDE DEF r
<1>8. Glued(r, q, S, x, k, z) BY <1>0, <1>1, <1>2, <1>5, <1>6, <1>7 DEF Glued
<1> QED BY <1>8 DEF r, a, b

(* A function on an initial segment of the numbers is a sequence.          *)
LEMMA AsSequence ==
    ASSUME NEW S, NEW z \in Nat, NEW r \in [1..z -> S]
    PROVE  r \in Seq(S) /\ Len(r) = z /\ DOMAIN r = 1..z
  OBVIOUS

(* Writing an element, or outside of the sequence, leaves a sequence.      *)
LEMMA Changed ==
    ASSUME NEW S, NEW q \in Seq(S), NEW i, NEW x \in S
    PROVE  [q EXCEPT ![i] = x] \in Seq(S)
<1> DEFINE r == [q EXCEPT ![i] = x]
<1>1. Len(q) \in Nat /\ q \in [1..Len(q) -> S] OBVIOUS
<1>2. r \in [1..Len(q) -> S] BY <1>1
<1> HIDE DEF r
<1>3. r \in Seq(S) BY <1>1, <1>2, AsSequence
<1> QED BY <1>3 DEF r

(* Where the elements of r come from in q.                                 *)
Origin(h, r, q) == h \in [DOMAIN r -> DOMAIN q] /\ \A j \in DOMAIN r : r[j] = q[h[j]]
Rising(h, r) == \A j, k \in DOMAIN r : j < k => h[j] < h[k]
Level(h, r) == \A j, k \in DOMAIN r : j < k => h[j] <= h[k]

LEMMA Difference ==
    ASSUME NEW a \in Nat, NEW b \in Nat, b <= a
    PROVE  \E z \in Nat : a = b + z
<1>1. a - b \in Nat /\ a = b + (a - b) OBVIOUS
<1> QED BY <1>1

LEMMA GluedLost ==
    ASSUME NEW S, NEW q, NEW r, NEW x \in Nat, NEW z \in Nat, Glued(r, q, S, x, x + 1, z)
    PROVE  \E h : Origin(h, r, q) /\ Rising(h, r)
<1>1. /\ DOMAIN r = 1..(x + z)
      /\ \A j \in 1..x : j \in DOMAIN q /\ r[j] = q[j]
      /\ \A j \in 1..z : (x + 1) + j \in DOMAIN q /\ r[x + j] = q[(x + 1) + j]
  BY DEF Glued
<1>2. ASSUME NEW j \in DOMAIN r
      PROVE  j \in Nat /\ IF j <= x THEN j \in DOMAIN q /\ r[j] = q[j]
                                    ELSE j + 1 \in DOMAIN q /\ r[j] = q[j + 1]
  <2>0. j \in Nat /\ 1 <= j /\ j <= x + z BY <1>1
  <2>1. CASE j <= x
    <3>1. j \in 1..x BY <2>0, <2>1
    <3> QED BY <1>1, <2>0, <2>1, <3>1
  <2>2. CASE ~(j <= x)
    <3>0. j - x \in Nat BY <2>0, <2>2
    <3>1. PICK c \in Nat : c = j - x BY <3>0
    <3>2. c \in 1..z /\ x + c = j /\ (x + 1) + c = j + 1 BY <2>0, <2>2, <3>1
    <3> QED BY <1>1, <2>0, <2>2, <3>2
  <2> QED BY <2>1, <2>2
<1> DEFINE h == [j \in DOMAIN r |-> IF j <= x THEN j ELSE j + 1]
<1>3. Origin(h, r, q) BY <1>2 DEF Origin
<1>4. Rising(h, r) BY <1>2 DEF Rising
<1> HIDE DEF h
<1> QED BY <1>3, <1>4

LEMMA GluedTwice ==
    ASSUME NEW S, NEW q, NEW r, NEW x \in Nat, NEW z \in Nat, Glued(r, q, S, x + 1, x, z)
    PROVE  /\ \E h : Origin(h, r, q) /\ Level(h, r)
           /\ \A j \in DOMAIN q : \E k \in DOMAIN r : r[k] = q[j]
<1>1. /\ DOMAIN r = 1..((x + 1) + z) /\ DOMAIN q = 1..(x + z)
      /\ \A j \in 1..(x + 1) : j \in DOMAIN q /\ r[j] = q[j]
      /\ \A j \in 1..z : x + j \in DOMAIN q /\ r[(x + 1) + j] = q[x + j]
  BY DEF Glued
<1>2. ASSUME NEW j \in DOMAIN r
      PROVE  j \in Nat /\ IF j <= x + 1 THEN j \in DOMAIN q /\ r[j] = q[j]
                                        ELSE j - 1 \in DOMAIN q /\ r[j] = q[j - 1]
  <2>0. j \in Nat /\ 1 <= j /\ j <= (x + 1) + z BY <1>1
  <2>1. CASE j <= x + 1
    <3>1. j \in 1..(x + 1) BY <2>0, <2>1
    <3> QED BY <1>1, <2>0, <2>1, <3>1
  <2>2. CASE ~(j <= x + 1)
    <3>0. j - (x + 1) \in Nat BY <2>0, <2>2
    <3>1. PICK c \in Nat : c = j - (x + 1) BY <3>0
    <3>2. c \in 1..z /\ (x + 1) + c = j /\ x + c = j - 1 BY <2>0, <2>2, <3>1
    <3> QED BY <1>1, <2>0, <2>2, <3>2
  <2> QED BY <2>1, <2>2
<1> DEFINE h == [j \in DOMAIN r |-> IF j <= x + 1 THEN j ELSE j - 1]
<1>3. Origin(h, r, q) BY <1>2 DEF Origin
<1>4. Level(h, r) BY <1>2 DEF Level
<1> HIDE DEF h
<1>5. ASSUME NEW j \in DOMAIN q PROVE \E k \in DOMAIN r : r[k] = q[j]
  <2>0. j \in Nat /\ 1 <= j /\ j <= x + z BY <1>1
  <2>1. CASE j <= x + 1
    <3>1. j \in 1..(x + 1) /\ j \in DOMAIN r BY <1>1, <2>0, <2>1
    <3> QED BY <1>1, <3>1
  <2>2. CASE ~(j <= x + 1)
    <3>0. j - x \in Nat BY <2>0, <2>2
    <3>1. PICK c \in Nat : c = j - x BY <3>0
    <3>2. c \in 1..z /\ x + c = j BY <2>0, <2>2, <3>1
    <3>3. (x + 1) + c \in DOMAIN r BY <1>1, <3>2
    <3> QED BY <1>1, <3>2, <3>3
  <2> QED BY <2>1, <2>2
<1> QED BY <1>3, <1>4, <1>5

(* The network takes a datagram away ...                                   *)
LEMMA OneLost ==
    ASSUME NEW S, NEW q \in Seq(S), NEW i \in 1..Len(q)
    PROVE  LET r == SubSeq(q, 1, i - 1) \o SubSeq(q, i + 1, Len(q))
           IN  r \in Seq(S) /\ \E h : Origin(h, r, q) /\ Rising(h, r)
<1>0. Len(q) \in Nat /\ i \in Nat /\ 1 <= i /\ i <= Len(q) OBVIOUS
<1>x. PICK x \in Nat : i = 1 + x BY <1>0, Difference
<1>z. PICK z \in Nat : Len(q) = i + z BY <1>0, Difference
<1>a. x <= Len(q) /\ i = x + 1 /\ i - 1 = x BY <1>0, <1>x
<1>1. Glued(SubSeq(q, 1, x) \o SubSeq(q, i + 1, Len(q)), q, S, x, i, z)
  BY <1>0, <1>a, <1>z, TwoParts
<1> DEFINE r == SubSeq(q, 1, i - 1) \o SubSeq(q, i + 1, Len(q))
<1>2. Glued(r, q, S, x, x + 1, z) BY <1>1, <1>a
<1> HIDE DEF r
<1>3. r \in Seq(S) BY <1>2 DEF Glued
<1>4. \E h : Origin(h, r, q) /\ Rising(h, r) BY <1>2, GluedLost
<1> QED BY <1>3, <1>4 DEF r

(* ... or sends one twice ...                                              *)
LEMMA OneTwice ==
    ASSUME NEW S, NEW q \in Seq(S), NEW i \in 1..Len(q)
    PROVE  LET r == SubSeq(q, 1, i) \o SubSeq(q, i, Len(q))
           IN  /\ r \in Seq(S) /\ \E h : Origin(h, r, q) /\ Level(h, r)
               /\ \A j \in DOMAIN q : \E k \in DOMAIN r : r[k] = q[j]
<1>0. Len(q) \in Nat /\ i \in Nat /\ 1 <= i /\ i <= Len(q) OBVIOUS
<1>x. PICK x \in Nat : i = 1 + x BY <1>0, Difference
<1>a. x <= Len(q) /\ i = x + 1 BY <1>0, <1>x
<1>z. PICK z \in Nat : Len(q) = x + z BY <1>0, <1>a, Difference
<1>1. Glued(SubSeq(q, 1, i) \o SubSeq(q, x + 1, Len(q)), q, S, i, x, z)
  BY <1>0, <1>z, TwoParts
<1> DEFINE r == SubSeq(q, 1, i) \o SubSeq(q, i, Len(q))
<1>2. Glued(r, q, S, x + 1, x, z) BY <1>1, <1>a
<1> HIDE DEF r
<1>3. r \in Seq(S) BY <1>2 DEF Glued
<1>4. \E h : Origin(h, r, q) /\ Level(h, r) BY <1>2, GluedTwice
<1>5. \A j \in DOMAIN q : \E k \in DOMAIN r : r[k] = q[j] BY <1>2, GluedTwice
<1> QED BY <1>3, <1>4, <1>5 DEF r

(* ... or exchanges two.                                                   *)
LEMMA TwoSwapped ==
    ASSUME NEW S, NEW q \in Seq(S), NEW i \in 1..Len(q), i < Len(q), NEW r,
           r = [q EXCEPT ![i] = q[i + 1], ![i + 1] = q[i]]
    PROVE  r \in Seq(S) /\ \E h : Origin(h, r, q)
<1>0. Len(q) \in Nat /\ i \in DOMAIN q /\ i + 1 \in DOMAIN q /\ DOMAIN q = 1..Len(q) OBVIOUS
<1>1. r \in Seq(S) /\ DOMAIN r = DOMAIN q BY <1>0
<1> DEFINE h == [j \in DOMAIN r |-> IF j = i THEN i + 1 ELSE IF j = i + 1 THEN i ELSE j]
<1>2. h \in [DOMAIN r -> DOMAIN q] /\ \A j \in DOMAIN r : r[j] = q[h[j]] BY <1>0, <1>1
<1> HIDE DEF h
<1>3. Origin(h, r, q) BY <1>2 DEF Origin
<1> QED BY <1>1, <1>3

-----------------------------------------------------------------------------
(* The datagrams on their way.                                             *)

(* Types of the constants.                                                 *)
LEMMA Constants ==
    /\ LimitData \in Nat \ {0} /\ MaxFrames \in Nat
    /\ \A f \in 1..MaxFrames : Lengths[f] \subseteq Nat \ {0}
<1>1. Lengths \in Seq(SUBSET (Nat \ {0})) /\ LimitData \in Nat \ {0}
  BY UdpCastAssumption DEF UdpCastAssumption
<1> QED BY <1>1 DEF MaxFrames

(* The fields of a datagram.                                               *)
LEMMA Fields ==
    ASSUME NEW q \in Seq(AnyDatagram), NEW i \in DOMAIN q
    PROVE  i \in Nat /\ 1 <= i /\ q[i].count \in Nat /\ q[i].length \in Nat
<1>1. i \in Nat /\ 1 <= i /\ q[i] \in AnyDatagram OBVIOUS
<1> QED BY <1>1 DEF AnyDatagram

(* No fault is forgotten.                                                  *)
LEMMA FaultsStay ==
    ASSUME NEW F \in [FaultKinds -> Nat], NEW kind \in FaultKinds, NEW G,
           G = [F EXCEPT ![kind] = @ + 1]
    PROVE  /\ G \in [FaultKinds -> Nat] /\ Later(F, G)
           /\ kind # "lose" => ~Losing(G)
           /\ kind # "duplicate" => ~Repeating(G)
<1>1. G \in [FaultKinds -> Nat] /\ G[kind] # 0 /\ \A x \in FaultKinds : G[x] = 0 => F[x] = 0
  OBVIOUS
<1>2. Losing(G) => Losing(F) BY <1>1 DEF Losing
<1>3. Repeating(G) => Repeating(F) BY <1>1 DEF Repeating
<1>4. kind # "lose" => ~Losing(G) BY <1>1 DEF Losing
<1>5. kind # "duplicate" => ~Repeating(G) BY <1>1 DEF Repeating
<1> QED BY <1>1, <1>2, <1>3, <1>4, <1>5 DEF Later

(* A network that makes no datagrams up keeps them sane ...                *)
LEMMA OriginSane ==
    ASSUME NEW q, NEW r, NEW h, NEW m, Origin(h, r, q), NetSane(q, m)
    PROVE  NetSane(r, m)
<1>1. \A j \in DOMAIN r : h[j] \in DOMAIN q /\ r[j] = q[h[j]] BY DEF Origin
<1> QED BY <1>1 DEF NetSane

(* ... and one that does not exchange them keeps them in order.            *)
LEMMA OriginOrdered ==
    ASSUME NEW q \in Seq(AnyDatagram), NEW r, NEW h, NEW F, NEW G, Later(F, G), Origin(h, r, q),
           Losing(G) => Rising(h, r), Repeating(G) => Level(h, r), NetOrdered(q, F)
    PROVE  NetOrdered(r, G)
<1>1. \A j \in DOMAIN r : h[j] \in DOMAIN q /\ r[j] = q[h[j]] BY DEF Origin
<1>2. \A i \in DOMAIN q : i \in Nat /\ q[i].count \in Nat BY Fields
<1> SUFFICES ASSUME NEW i \in DOMAIN r, NEW j \in DOMAIN r, i < j, Cut(r[i]),
                    r[i].id = r[j].id
             PROVE  /\ Losing(G) => r[i].count < r[j].count
                    /\ Repeating(G) => r[i].count <= r[j].count
  BY DEF NetOrdered
<1>3. ASSUME Losing(G) PROVE r[i].count < r[j].count
  <2>1. h[i] < h[j] BY <1>3 DEF Rising
  <2>2. Losing(F) BY <1>3 DEF Later
  <2> QED BY <1>1, <2>1, <2>2 DEF NetOrdered
<1>4. ASSUME Repeating(G) PROVE r[i].count <= r[j].count
  <2>1. h[i] <= h[j] BY <1>4 DEF Level
  <2>2. Repeating(F) BY <1>4 DEF Later
  <2>3. CASE h[i] = h[j] BY <1>1, <1>2, <2>3
  <2>4. CASE h[i] < h[j] BY <1>1, <2>4, <2>2 DEF NetOrdered
  <2> QED BY <1>1, <1>2, <2>1, <2>3, <2>4
<1> QED BY <1>3, <1>4

LEMMA LostInv ==
    ASSUME NEW q \in Seq(AnyDatagram), NEW r, NEW h, NEW m, NEW F, NEW G, Later(F, G),
           Origin(h, r, q), Rising(h, r), ~Repeating(G), NetInv(q, m, F)
    PROVE  NetInv(r, m, G)
<1>1. NetSane(r, m) BY OriginSane DEF NetInv
<1>2. NetOrdered(r, G) BY OriginOrdered DEF NetInv
<1> QED BY <1>1, <1>2 DEF NetInv, NetGapless

LEMMA TwiceInv ==
    ASSUME NEW q \in Seq(AnyDatagram), NEW r, NEW h, NEW m, NEW F, NEW G, Later(F, G),
           Origin(h, r, q), Level(h, r), ~Losing(G), NetInv(q, m, F),
           \A j \in DOMAIN q : \E k \in DOMAIN r : r[k] = q[j]
    PROVE  NetInv(r, m, G)
<1>1. NetSane(r, m) BY OriginSane DEF NetInv
<1>2. NetOrdered(r, G) BY OriginOrdered DEF NetInv
<1>3. ASSUME Repeating(G), NEW i \in DOMAIN r, Cut(r[i]), r[i].count > 1, PartIn(r, r[i].id, 1)
      PROVE  PartIn(r, r[i].id, r[i].count - 1)
  <2>0. \A j \in DOMAIN r : h[j] \in DOMAIN q /\ r[j] = q[h[j]] BY DEF Origin
  <2>1. PartIn(q, r[i].id, 1) BY <1>3, <2>0 DEF PartIn
  <2>2. Repeating(F) BY <1>3 DEF Later
  <2>3. PartIn(q, r[i].id, r[i].count - 1)
    <3>1. h[i] \in DOMAIN q /\ r[i] = q[h[i]] BY <2>0
    <3> QED BY <1>3, <2>1, <2>2, <3>1 DEF NetInv, NetGapless
  <2> QED BY <2>3 DEF PartIn
<1> QED BY <1>1, <1>2, <1>3 DEF NetInv, NetGapless

LEMMA SwappedInv ==
    ASSUME NEW q, NEW r, NEW h, NEW m, NEW F, NEW G, Origin(h, r, q), ~Losing(G), ~Repeating(G),
           NetInv(q, m, F)
    PROVE  NetInv(r, m, G)
<1>1. NetSane(r, m) BY OriginSane DEF NetInv
<1> QED BY <1>1 DEF NetInv, NetOrdered, NetGapless

(* A datagram is received.                                                 *)
LEMMA TailInv ==
    ASSUME NEW q \in Seq(AnyDatagram), q # <<>>, NEW m, NEW F, NetInv(q, m, F)
    PROVE  NetInv(Tail(q), m, F)
<1> DEFINE r == Tail(q)
           h == [i \in DOMAIN r |-> i + 1]
<1>1. /\ \A i \in DOMAIN r : i \in Nat /\ i + 1 \in DOMAIN q /\ 1 < i + 1 /\ r[i] = q[i + 1]
      /\ \A i \in DOMAIN q : i # 1 => i - 1 \in DOMAIN r /\ r[i - 1] = q[i]
      /\ 1 \in DOMAIN q
  BY Rest
<1> HIDE DEF r
<1>2. Origin(h, r, q) BY <1>1 DEF Origin
<1>3. Rising(h, r) /\ Level(h, r) BY <1>1 DEF Rising, Level
<1> HIDE DEF h
<1>4. Later(F, F) BY DEF Later
<1>5. NetSane(r, m) BY <1>2, OriginSane DEF NetInv
<1>6. NetOrdered(r, F) BY <1>2, <1>3, <1>4, OriginOrdered DEF NetInv
<1>7. ASSUME Repeating(F), NEW i \in DOMAIN r, Cut(r[i]), r[i].count > 1, PartIn(r, r[i].id, 1)
      PROVE  PartIn(r, r[i].id, r[i].count - 1)
  <2>0. \A x \in DOMAIN q : q[x].count \in Nat /\ x \in Nat BY Fields
  <2>1. PICK j \in DOMAIN r : r[j].id = r[i].id /\ r[j].count = 1 BY <1>7 DEF PartIn
  <2>2. PartIn(q, r[i].id, 1) BY <1>1, <2>1 DEF PartIn
  <2>3. PartIn(q, r[i].id, r[i].count - 1)
    <3>1. i + 1 \in DOMAIN q /\ r[i] = q[i + 1] BY <1>1
    <3> QED BY <1>7, <2>2, <3>1 DEF NetInv, NetGapless
  <2>4. PICK w \in DOMAIN q : q[w].id = r[i].id /\ q[w].count = r[i].count - 1
    BY <2>3 DEF PartIn
  <2>5. CASE w # 1 BY <1>1, <2>4, <2>5 DEF PartIn
  <2>6. CASE w = 1
    <3>1. q[1].count <= q[j + 1].count
      <4>0. i + 1 \in DOMAIN q /\ r[i] = q[i + 1] BY <1>1
      <4>1. Cut(q[1]) BY <1>7, <2>4, <2>6, <4>0 DEF Cut, NetInv, NetSane
      <4> QED BY <1>1, <1>7, <2>1, <2>4, <2>6, <4>1 DEF NetInv, NetOrdered
    <3>2. r[i].count - 1 <= 1 BY <1>1, <2>1, <2>4, <2>6, <3>1
    <3>3. r[i].count \in Nat BY <1>1, <2>0
    <3>4. r[i].count - 1 = 1 BY <1>7, <3>2, <3>3
    <3> QED BY <1>7, <3>4
  <2> QED BY <2>5, <2>6
<1>8. NetGapless(r, F) BY <1>7 DEF NetGapless
<1> QED BY <1>5, <1>6, <1>8 DEF NetInv, r

(* The datagrams of a frame, or one of the set-up, are sent.               *)
(* The datagrams e, of one frame, and the datagrams q in front of them.    *)
OneFrame(e, mm, n, key, id) ==
    /\ \A c \in DOMAIN e : Sane(e[c], mm) /\ e[c].length = n /\ e[c].key = key /\ e[c].id = id
    /\ n > LimitData => \A c \in DOMAIN e : e[c].count = c
NotOf(q, n, id) == \A i \in DOMAIN q : Cut(q[i]) \/ n > LimitData => q[i].id # id

LEMMA GrownInv ==
    ASSUME NEW q \in Seq(AnyDatagram), NEW e \in Seq(AnyDatagram), NEW m \in Nat, NEW mm \in Nat,
           m <= mm, NEW F, NEW n \in Nat, NEW key, NEW id, NetInv(q, m, F),
           OneFrame(e, mm, n, key, id), NotOf(q, n, id)
    PROVE  NetInv(q \o e, mm, F)
<1> DEFINE r == q \o e
           l == Len(q)
<1> USE DEF OneFrame, NotOf
<1>1. /\ l \in Nat /\ r \in Seq(AnyDatagram)
      /\ \A i \in DOMAIN q : i \in Nat /\ i <= l /\ i \in DOMAIN r /\ r[i] = q[i]
      /\ \A c \in DOMAIN e : l + c \in DOMAIN r /\ r[l + c] = e[c]
      /\ \A i \in DOMAIN r : \/ i \in DOMAIN q
                             \/ i - l \in DOMAIN e /\ r[i] = e[i - l] /\ i \in Nat /\ i > l
  BY Joined
<1> HIDE DEF r, l
<1>2. \A i \in DOMAIN q : Sane(q[i], mm) BY DEF NetInv, NetSane, Sane
<1>3. NetSane(r, mm)
  <2>1. \A i \in DOMAIN r : Sane(r[i], mm) BY <1>1, <1>2
  <2>2. ASSUME NEW i \in DOMAIN r, NEW j \in DOMAIN r, Cut(r[i]), r[i].id = r[j].id
        PROVE  r[i].key = r[j].key /\ r[i].length = r[j].length
    <3>1. CASE i \in DOMAIN q /\ j \in DOMAIN q BY <1>1, <2>2, <3>1 DEF NetInv, NetSane
    <3>2. CASE i \notin DOMAIN q /\ j \notin DOMAIN q BY <1>1, <3>2
    <3>3. CASE i \in DOMAIN q /\ j \notin DOMAIN q BY <1>1, <2>2, <3>3 DEF Cut
    <3>4. CASE i \notin DOMAIN q /\ j \in DOMAIN q BY <1>1, <2>2, <3>4 DEF Cut
    <3> QED BY <3>1, <3>2, <3>3, <3>4
  <2> QED BY <2>1, <2>2 DEF NetSane
<1>4. NetOrdered(r, F)
  <2>1. ASSUME NEW i \in DOMAIN r, NEW j \in DOMAIN r, i < j, Cut(r[i]), r[i].id = r[j].id
        PROVE  /\ Losing(F) => r[i].count < r[j].count
               /\ Repeating(F) => r[i].count <= r[j].count
    <3>1. CASE i \in DOMAIN q /\ j \in DOMAIN q BY <1>1, <2>1, <3>1 DEF NetInv, NetOrdered
    <3>2. CASE i \notin DOMAIN q /\ j \notin DOMAIN q
      <4>1. r[i].length > LimitData BY <2>1 DEF Cut
      <4>2. r[i].count = i - l /\ r[j].count = j - l BY <1>1, <3>2, <4>1
      <4>3. i \in Nat /\ j \in Nat BY <1>1, <3>2
      <4> QED BY <1>1, <2>1, <4>2, <4>3
    <3>3. CASE i \in DOMAIN q /\ j \notin DOMAIN q BY <1>1, <2>1, <3>3 DEF Cut
    <3>4. CASE i \notin DOMAIN q /\ j \in DOMAIN q BY <1>1, <2>1, <3>4 DEF Cut
    <3> QED BY <3>1, <3>2, <3>3, <3>4
  <2> QED BY <2>1 DEF NetOrdered
<1>5. ASSUME Repeating(F), NEW i \in DOMAIN r, Cut(r[i]), r[i].count > 1, PartIn(r, r[i].id, 1)
      PROVE  PartIn(r, r[i].id, r[i].count - 1)
  <2>1. CASE i \in DOMAIN q
    <3>0. r[i] = q[i] BY <1>1, <2>1
    <3>1. PICK j \in DOMAIN r : r[j].id = r[i].id /\ r[j].count = 1 BY <1>5 DEF PartIn
    <3>2. j \in DOMAIN q BY <1>1, <1>5, <2>1, <3>0, <3>1 DEF Cut
    <3>3. PartIn(q, q[i].id, 1) BY <1>1, <3>0, <3>1, <3>2 DEF PartIn
    <3>4. PartIn(q, q[i].id, q[i].count - 1)
      BY <1>5, <2>1, <3>0, <3>3 DEF NetInv, NetGapless
    <3> QED BY <1>1, <3>0, <3>4 DEF PartIn
  <2>2. CASE i \notin DOMAIN q
    <3>1. PICK c : c = i - l /\ c \in DOMAIN e /\ r[i] = e[c] BY <1>1, <2>2
    <3>2. r[i].id = id /\ n > LimitData /\ r[i].count = c BY <1>5, <3>1 DEF Cut
    <3>3. c \in Nat /\ c > 1 /\ DOMAIN e = 1..Len(e) /\ Len(e) \in Nat BY <1>5, <3>1, <3>2
    <3>4. c - 1 \in DOMAIN e BY <3>1, <3>3
    <3>5. e[c - 1].id = id /\ e[c - 1].count = c - 1 BY <3>2, <3>4
    <3>6. l + (c - 1) \in DOMAIN r /\ r[l + (c - 1)] = e[c - 1] BY <1>1, <3>4
    <3> QED BY <3>2, <3>5, <3>6 DEF PartIn
  <2> QED BY <2>1, <2>2
<1>6. NetGapless(r, F) BY <1>5 DEF NetGapless
<1> QED BY <1>3, <1>4, <1>6 DEF NetInv, r

(* The number of a new frame is new.                                       *)
LEMMA FreshId ==
    ASSUME NEW m \in Nat, NEW q, NetSane(q, m), NEW i \in DOMAIN q
    PROVE  q[i].id # m + 1
<1>1. Sane(q[i], m) BY DEF NetSane
<1> QED BY <1>1 DEF Sane

(* What MediaClient sends of a frame.                                      *)
IsBurst(e, id, key, n) ==
    /\ e \in Seq(AnyDatagram)
    /\ \A c \in DOMAIN e :
          /\ e[c].kind = "frame" /\ e[c].id = id /\ e[c].key = key /\ e[c].length = n
          /\ n > LimitData => c \in 1..Parts(n) /\ e[c].count = c

LEMMA Burst ==
    ASSUME NEW id \in Nat, NEW key \in BOOLEAN, NEW n \in Nat \ {0}
    PROVE  IsBurst(Datagrams(id, key, n), id, key, n) /\ Len(Datagrams(id, key, n)) = Parts(n)
<1> DEFINE d(c) == [kind |-> "frame", id |-> id, key |-> key, length |-> n, count |-> c]
<1>0. LimitData \in Nat \ {0} BY Constants
<1>1. CASE n <= LimitData
  <2>1. Datagrams(id, key, n) = <<d(Complete)>> BY <1>1 DEF Datagrams
  <2>2. Complete \in Nat BY DEF Complete
  <2>3. d(Complete) \in AnyDatagram BY <2>2 DEF AnyDatagram
  <2>4. Parts(n) = 1 BY <1>1, OnePart
  <2>5. ~(n > LimitData) BY <1>0, <1>1
  <2> QED BY <2>1, <2>3, <2>4, <2>5 DEF IsBurst
<1>2. CASE ~(n <= LimitData)
  <2>1. Datagrams(id, key, n) = [c \in 1..Parts(n) |-> d(c)] BY <1>2 DEF Datagrams
  <2>2. Parts(n) \in Nat BY SomePart
  <2>3. \A c \in 1..Parts(n) : d(c) \in AnyDatagram BY <2>2 DEF AnyDatagram
  <2>4. [c \in 1..Parts(n) |-> d(c)] \in Seq(AnyDatagram) BY <2>2, <2>3
  <2> QED BY <2>1, <2>2, <2>4 DEF IsBurst
<1> QED BY <1>1, <1>2

LEMMA PartOfBurst ==
    ASSUME NEW e, NEW id, NEW key, NEW n, IsBurst(e, id, key, n), NEW x \in Nat, x <= Len(e)
    PROVE  IsBurst(SubSeq(e, 1, x), id, key, n)
<1>0. e \in Seq(AnyDatagram) BY DEF IsBurst
<1>1. /\ SubSeq(e, 1, x) \in Seq(AnyDatagram) /\ DOMAIN SubSeq(e, 1, x) = 1..x
      /\ \A i \in 1..x : i \in DOMAIN e /\ SubSeq(e, 1, x)[i] = e[i]
  BY <1>0, Prefix
<1> QED BY <1>1 DEF IsBurst

LEMMA BurstInv ==
    ASSUME NEW q \in Seq(AnyDatagram), NEW m \in Nat, m < MaxFrames, NEW F,
           NEW n \in Lengths[m + 1], NEW key, NEW e, IsBurst(e, m + 1, key, n), NetInv(q, m, F)
    PROVE  NetInv(q \o e, m + 1, F)
<1>0. m + 1 \in 1..MaxFrames /\ LimitData \in Nat \ {0} /\ n \in Nat /\ m + 1 \in 1..(m + 1)
  BY Constants
<1>1. \A c \in DOMAIN e : Sane(e[c], m + 1) /\ e[c].length = n /\ e[c].key = key
                         /\ e[c].id = m + 1
  BY <1>0 DEF IsBurst, Sane, Cut
<1>2. \A i \in DOMAIN q : q[i].id # m + 1
  <2>1. NetSane(q, m) BY DEF NetInv
  <2> QED BY <2>1, FreshId
<1>4. n > LimitData => \A c \in DOMAIN e : e[c].count = c BY DEF IsBurst
<1>3. e \in Seq(AnyDatagram) /\ m <= m + 1 /\ m + 1 \in Nat BY DEF IsBurst
<1>5. NotOf(q, n, m + 1) BY <1>2 DEF NotOf
<1>6. OneFrame(e, m + 1, n, key, m + 1) BY <1>1, <1>4 DEF OneFrame
<1> QED BY <1>0, <1>3, <1>5, <1>6, GrownInv

-----------------------------------------------------------------------------
(* Putting a frame together.                                               *)

(* A frame that is cut has at least two parts.                             *)
LEMMA CutInParts ==
    ASSUME NEW n \in Nat, n > LimitData
    PROVE  Parts(n) \in Nat /\ Parts(n) >= 2
<1>l. LimitData \in Nat \ {0} BY Constants
<1>x. PICK q \in Nat, r \in Nat : Division(n, q, r) BY PartsDivide
<1>1. q \in Nat /\ r \in Nat /\ r < LimitData /\ n = LimitData * q + r BY <1>x DEF Division
<1>p. Parts(n) = q + (IF r # 0 THEN 1 ELSE 0) BY <1>x DEF Division
<1>2. CASE q = 0 BY <1>1, <1>2, <1>l
<1>3. CASE q = 1
  <2>1. n = LimitData + r BY <1>1, <1>3, <1>l
  <2>2. r # 0 BY <2>1, <1>1, <1>l
  <2> QED BY <1>p, <1>3, <2>2
<1>4. CASE q >= 2 BY <1>1, <1>p, <1>4
<1> QED BY <1>1, <1>2, <1>3, <1>4

(* What happens to other datagrams does not concern the assembly.          *)
LEMMA AssemblyKept ==
    ASSUME NEW q \in Seq(AnyDatagram), NEW r \in Seq(AnyDatagram), NEW c, NEW n, NEW t,
           NEW m \in Nat, NEW mm \in Nat, m <= mm, NEW F, NEW G, NEW M, Later(F, G),
           \A j \in DOMAIN r : r[j].id \in 1..m => \E i \in DOMAIN q : q[i] = r[j],
           Repeating(G) => \A i \in DOMAIN q : q[i].length = n /\ q[i].key =>
                                \E j \in DOMAIN r : r[j] = q[i],
           Assembly(q, c, n, t, m, F, M)
    PROVE  Assembly(r, c, n, t, mm, G, M)
<1> SUFFICES ASSUME n # 0
             PROVE  \E f \in 1..mm, k \in BOOLEAN :
                       Begun(c, n, t, f) /\ (f \notin M => Tracked(r, c, n, t, f, k, G))
  BY DEF Assembly
<1>b. PICK f \in 1..m, k \in BOOLEAN :
          Begun(c, n, t, f) /\ (f \notin M => Tracked(q, c, n, t, f, k, F))
  BY DEF Assembly
<1>2. f \in 1..mm OBVIOUS
<1>m. CASE f \in M BY <1>b, <1>2, <1>m
<1> SUFFICES ASSUME f \notin M PROVE Tracked(r, c, n, t, f, k, G)
  BY <1>b, <1>2, <1>m
<1>1. Tracked(q, c, n, t, f, k, F) BY <1>b
<1>3. Assembling(r, c, n, t, f, k) BY <1>1 DEF Tracked, Assembling
<1>4. ASSUME Losing(G) PROVE LoseTracked(r, c, n, t, f)
  <2>1. PICK p \in Nat : LoseTrack(q, c, n, t, f, p)
    BY <1>1, <1>4 DEF Tracked, Later, LoseTracked
  <2>2. LoseTrack(r, c, n, t, f, p) BY <2>1 DEF LoseTrack
  <2> QED BY <2>2 DEF LoseTracked
<1>5. ASSUME k, Repeating(G) PROVE RepeatTracked(r, c, n, t, f)
  <2>1. PICK p \in Nat : RepeatTrack(q, c, n, t, f, p)
    BY <1>1, <1>5 DEF Tracked, Later, RepeatTracked
  <2>2. ASSUME NEW x, PartIn(q, f, x) PROVE PartIn(r, f, x)
    <3>1. PICK w \in DOMAIN q : q[w].id = f /\ q[w].count = x BY <2>2 DEF PartIn
    <3>2. q[w].key /\ q[w].length = n BY <1>1, <1>5, <3>1 DEF Tracked, Assembling
    <3> QED BY <1>5, <3>1, <3>2 DEF PartIn
  <2>3. ASSUME NEW i \in DOMAIN r, r[i].id = f
        PROVE  p <= r[i].count /\ (r[i].count <= p + 1 \/ PartIn(r, f, r[i].count - 1))
    <3>1. PICK j \in DOMAIN q : q[j] = r[i] BY <2>3
    <3> QED BY <2>1, <2>2, <2>3, <3>1 DEF RepeatTrack
  <2>4. RepeatTrack(r, c, n, t, f, p) BY <2>1, <2>3 DEF RepeatTrack
  <2> QED BY <2>4 DEF RepeatTracked
<1>6. Tracked(r, c, n, t, f, k, G) BY <1>3, <1>4, <1>5 DEF Tracked
<1> QED BY <1>6

(* The first part arrives.                                                 *)
LEMMA AssemblyBegins ==
    ASSUME NEW q \in Seq(AnyDatagram), q # <<>>, NEW m \in Nat, m <= MaxFrames, NEW F, NEW M,
           NetInv(q, m, F), NEW d, d = Head(q), Cut(d), d.count = 1, NEW t,
           t = [i \in 1..Parts(d.length) |-> IF i = 1 THEN <<d.id, 1>> ELSE <<0, 0>>]
    PROVE  Assembly(Tail(q), 1, d.length, t, m, F, M)
<1> DEFINE r == Tail(q)
           n == d.length
<1>1. /\ \A i \in DOMAIN r : i \in Nat /\ i + 1 \in DOMAIN q /\ 1 < i + 1 /\ r[i] = q[i + 1]
      /\ \A i \in DOMAIN q : i # 1 => i - 1 \in DOMAIN r /\ r[i - 1] = q[i]
      /\ 1 \in DOMAIN q /\ d = q[1] /\ d \in AnyDatagram
  BY Rest
<1> HIDE DEF r
<1>0. \A x \in DOMAIN q : q[x].count \in Nat /\ x \in Nat /\ q[x].length \in Nat BY Fields
<1>l. LimitData \in Nat \ {0} BY Constants
<1>n. n \in Nat /\ n > LimitData /\ d.id \in Nat /\ d.key \in BOOLEAN BY <1>1 DEF AnyDatagram, Cut
<1>2. Sane(d, m) BY <1>1 DEF NetInv, NetSane
<1>3. d.kind = "frame" /\ d.id \in 1..m /\ n \in Lengths[d.id] BY <1>2, <1>n, <1>l DEF Sane
<1>4. Parts(n) \in Nat /\ Parts(n) >= 2 BY <1>n, CutInParts
<1>t. t \in [1..Parts(n) -> Byte] /\ t[1] = <<d.id, 1>>
      /\ \A i \in 1..Parts(n) : t[i] \in {<<d.id, i>>, <<0, 0>>}
  BY <1>4, <1>n DEF Byte
<1>5. ASSUME NEW i \in DOMAIN r, r[i].id = d.id
      PROVE  r[i].key = d.key /\ r[i].length = n
  <2>1. 1 \in DOMAIN q /\ i + 1 \in DOMAIN q /\ Cut(q[1]) /\ q[1].id = q[i + 1].id
    BY <1>1, <1>5
  <2>2. q[1].key = q[i + 1].key /\ q[1].length = q[i + 1].length BY <2>1 DEF NetInv, NetSane
  <2> QED BY <1>1, <2>2
<1>a. 1 >= 1 /\ 1 < Parts(n) BY <1>4
<1>6. Assembling(r, 1, n, t, d.id, d.key) BY <1>n, <1>3, <1>a, <1>t, <1>5, Zenon DEF Assembling
<1>7. Filled(1, n, t, d.id)
  <2>1. \A i \in 1..Parts(n) : i <= 1 => i = 1 BY <1>4
  <2> QED BY <1>t, <2>1 DEF Filled
<1>8. ASSUME Losing(F) PROVE LoseTracked(r, 1, n, t, d.id)
  <2>1. \A i \in DOMAIN r : r[i].id = d.id => 1 < r[i].count
    BY <1>1, <1>8 DEF NetInv, NetOrdered
  <2>2. LoseTrack(r, 1, n, t, d.id, 1) BY <1>7, <2>1 DEF LoseTrack
  <2> QED BY <2>2 DEF LoseTracked
<1>9. ASSUME Repeating(F) PROVE RepeatTracked(r, 1, n, t, d.id)
  <2>1. ASSUME NEW i \in DOMAIN r, r[i].id = d.id
        PROVE  1 <= r[i].count /\ (r[i].count <= 1 + 1 \/ PartIn(r, d.id, r[i].count - 1))
    <3>1. 1 <= r[i].count BY <1>1, <1>9, <2>1 DEF NetInv, NetOrdered
    <3>2. CASE r[i].count <= 2 BY <3>1, <3>2
    <3>3. CASE ~(r[i].count <= 2)
      <4>0. r[i].count \in Nat BY <1>0, <1>1
      <4>1. PartIn(q, d.id, 1) BY <1>1 DEF PartIn
      <4>2. Cut(r[i]) BY <1>n, <1>5, <2>1 DEF Cut
      <4>3. r[i].count > 1 BY <3>3, <4>0
      <4>4. PartIn(q, d.id, r[i].count - 1)
        <5>1. i + 1 \in DOMAIN q /\ r[i] = q[i + 1] /\ q[i + 1].id = d.id BY <1>1, <2>1
        <5>2. Cut(q[i + 1]) /\ q[i + 1].count > 1 /\ PartIn(q, q[i + 1].id, 1)
          BY <4>1, <4>2, <4>3, <5>1
        <5>3. PartIn(q, q[i + 1].id, q[i + 1].count - 1)
          BY <1>9, <5>1, <5>2 DEF NetInv, NetGapless
        <5> QED BY <5>1, <5>3
      <4>5. PICK w \in DOMAIN q : q[w].id = d.id /\ q[w].count = r[i].count - 1
        BY <4>4 DEF PartIn
      <4>6. r[i].count - 1 # 1 BY <3>3, <4>0
      <4>7. w # 1 BY <1>1, <4>5, <4>6
      <4>8. PartIn(r, d.id, r[i].count - 1)
        <5>1. w - 1 \in DOMAIN r /\ r[w - 1] = q[w] BY <1>1, <4>7
        <5> QED BY <4>5, <5>1 DEF PartIn
      <4> QED BY <3>1, <4>8
    <3> QED BY <3>2, <3>3
  <2>2. RepeatTrack(r, 1, n, t, d.id, 1) BY <1>7, <2>1 DEF RepeatTrack
  <2> QED BY <2>2 DEF RepeatTracked
<1>10. Tracked(r, 1, n, t, d.id, d.key, F) BY <1>6, <1>8, <1>9 DEF Tracked
<1>b. Begun(1, n, t, d.id) BY <1>n, <1>4, <1>t DEF Begun
<1> HIDE DEF n
<1>11. Assembly(r, 1, n, t, m, F, M) BY <1>3, <1>n, <1>b, <1>10 DEF Assembly
<1> QED BY <1>11 DEF r, n

(* What a part of the frame that is awaited looks like.                    *)
LEMMA SameFrame ==
    ASSUME NEW q \in Seq(AnyDatagram), q # <<>>, NEW m \in Nat, NetSane(q, m), NEW c,
           NEW n \in Nat, NEW t, NEW f \in 1..m, NEW k \in BOOLEAN,
           Assembling(q, c, n, t, f, k), NEW d, d = Head(q), d.length = n, d.id = f
    PROVE  /\ d.key = k /\ d.count \in 1..Parts(n) /\ d.count \in Nat
           /\ Parts(n) \in Nat /\ Parts(n) >= 2
<1>1. 1 \in DOMAIN q /\ d = q[1] /\ d \in AnyDatagram BY Rest
<1>2. n > LimitData /\ d.key = k BY <1>1 DEF Assembling
<1>3. LimitData \in Nat \ {0} BY Constants
<1>4. Sane(d, m) BY <1>1 DEF NetSane
<1>5. d.count \in 1..Parts(n) BY <1>2, <1>3, <1>4 DEF Sane, Cut
<1>6. Parts(n) \in Nat /\ Parts(n) >= 2 BY <1>2, CutInParts
<1> QED BY <1>1, <1>2, <1>5, <1>6 DEF AnyDatagram

(* The part that was received last, after a loss ...                       *)
LEMMA LoseLast ==
    ASSUME NEW q \in Seq(AnyDatagram), q # <<>>, NEW c \in Nat, NEW n, NEW t, NEW f, NEW p \in Nat,
           LoseTrack(q, c, n, t, f, p), NEW d, d = Head(q), d.length = n, d.id = f
    PROVE  d.count \in Nat /\ c + 1 <= d.count /\ (d.count = c + 1 => Filled(c, n, t, f))
<1>1. 1 \in DOMAIN q /\ d = q[1] BY Rest
<1>2. d.count \in Nat BY <1>1, Fields
<1>3. p < d.count /\ c <= p BY <1>1 DEF LoseTrack
<1>5. c + 1 <= d.count BY <1>2, <1>3
<1>6. ASSUME d.count = c + 1 PROVE Filled(c, n, t, f)
  <2>1. c = p BY <1>2, <1>3, <1>6
  <2> QED BY <2>1 DEF LoseTrack
<1> QED BY <1>2, <1>5, <1>6

LEMMA LoseNext ==
    ASSUME NEW q \in Seq(AnyDatagram), q # <<>>, NEW F, NetOrdered(q, F), Losing(F), NEW c \in Nat,
           NEW n \in Nat, n > LimitData, NEW t, NEW tt, NEW f, NEW p \in Nat,
           LoseTrack(q, c, n, t, f, p), NEW d, d = Head(q), d.length = n, d.id = f,
           c + 1 = d.count /\ Filled(c, n, t, f) => Filled(c + 1, n, tt, f)
    PROVE  LoseTrack(Tail(q), c + 1, n, tt, f, d.count)
<1> DEFINE r == Tail(q)
<1>1. /\ \A i \in DOMAIN r : i \in Nat /\ i + 1 \in DOMAIN q /\ 1 < i + 1 /\ r[i] = q[i + 1]
      /\ 1 \in DOMAIN q /\ d = q[1]
  BY Rest
<1> HIDE DEF r
<1>2. d.count \in Nat /\ c + 1 <= d.count /\ (d.count = c + 1 => Filled(c, n, t, f)) BY LoseLast
<1>3. \A i \in DOMAIN r : r[i].id = f => d.count < r[i].count
  BY <1>1 DEF NetOrdered, Cut
<1>4. LoseTrack(r, c + 1, n, tt, f, d.count) BY <1>2, <1>3 DEF LoseTrack
<1> QED BY <1>4 DEF r

(* ... and after a repetition.                                             *)
LEMMA RepeatLast ==
    ASSUME NEW q \in Seq(AnyDatagram), q # <<>>, NEW F, NetOrdered(q, F), Repeating(F), NEW c \in Nat,
           NEW n \in Nat, n > LimitData, NEW t, NEW f, NEW p \in Nat,
           RepeatTrack(q, c, n, t, f, p), NEW d, d = Head(q), d.length = n, d.id = f
    PROVE  /\ d.count \in Nat /\ 1 <= p /\ p <= c /\ p <= d.count /\ d.count <= p + 1
           /\ \A i \in DOMAIN q : i # 1 /\ q[i].id = f => d.count <= q[i].count
           /\ d.count = c + 1 => Filled(c, n, t, f)
<1>1. 1 \in DOMAIN q /\ d = q[1] BY Rest
<1>0. \A x \in DOMAIN q : q[x].count \in Nat /\ x \in Nat /\ 1 <= x BY Fields
<1>2. d.count \in Nat BY <1>1, <1>0
<1>3. \A i \in DOMAIN q : i # 1 /\ q[i].id = f => d.count <= q[i].count
  <2>1. \A i \in DOMAIN q : i # 1 => 1 < i BY <1>0
  <2> QED BY <1>1, <2>1 DEF NetOrdered, Cut
<1>4. 1 <= p /\ p <= c /\ p <= d.count BY <1>1 DEF RepeatTrack
<1>5. d.count <= p + 1
  <2>1. ASSUME PartIn(q, f, d.count - 1) PROVE FALSE
    <3>1. PICK w \in DOMAIN q : q[w].id = f /\ q[w].count = d.count - 1 BY <2>1 DEF PartIn
    <3>2. d.count <= q[w].count
      <4>1. CASE w = 1 BY <1>1, <1>2, <4>1
      <4>2. CASE w # 1 BY <1>3, <3>1, <4>2
      <4> QED BY <4>1, <4>2
    <3> QED BY <1>2, <3>1, <3>2
  <2> QED BY <1>1, <2>1 DEF RepeatTrack
<1>6. ASSUME d.count = c + 1 PROVE Filled(c, n, t, f)
  <2>1. c = p BY <1>2, <1>4, <1>5, <1>6
  <2> QED BY <2>1 DEF RepeatTrack
<1> QED BY <1>2, <1>3, <1>4, <1>5, <1>6

LEMMA RepeatNext ==
    ASSUME NEW q \in Seq(AnyDatagram), q # <<>>, NEW F, NetOrdered(q, F), Repeating(F), NEW c \in Nat,
           NEW n \in Nat, n > LimitData, NEW t, NEW tt, NEW f, NEW p \in Nat,
           RepeatTrack(q, c, n, t, f, p), NEW d, d = Head(q), d.length = n, d.id = f,
           c + 1 = d.count /\ Filled(c, n, t, f) => Filled(c + 1, n, tt, f)
    PROVE  RepeatTrack(Tail(q), c + 1, n, tt, f, d.count)
<1> DEFINE r == Tail(q)
<1>1. /\ \A i \in DOMAIN r : i \in Nat /\ i + 1 \in DOMAIN q /\ 1 < i + 1 /\ r[i] = q[i + 1]
      /\ \A i \in DOMAIN q : i # 1 => i - 1 \in DOMAIN r /\ r[i - 1] = q[i]
      /\ 1 \in DOMAIN q /\ d = q[1]
  BY Rest
<1> HIDE DEF r
<1>0. \A x \in DOMAIN q : q[x].count \in Nat /\ x \in Nat BY Fields
<1>2. /\ d.count \in Nat /\ 1 <= p /\ p <= c /\ p <= d.count /\ d.count <= p + 1
      /\ \A i \in DOMAIN q : i # 1 /\ q[i].id = f => d.count <= q[i].count
      /\ d.count = c + 1 => Filled(c, n, t, f)
  BY RepeatLast
<1>7. ASSUME NEW i \in DOMAIN r, r[i].id = f
      PROVE  /\ d.count <= r[i].count
             /\ r[i].count <= d.count + 1 \/ PartIn(r, f, r[i].count - 1)
  <2>0. i + 1 \in DOMAIN q /\ i + 1 # 1 /\ r[i] = q[i + 1] /\ r[i].count \in Nat BY <1>0, <1>1
  <2>1. d.count <= r[i].count BY <1>2, <1>7, <2>0
  <2>2. r[i].count <= p + 1 \/ PartIn(q, f, r[i].count - 1) BY <1>7, <2>0 DEF RepeatTrack
  <2>3. CASE r[i].count <= p + 1
    <3>1. r[i].count <= d.count + 1 BY <1>2, <2>0, <2>3
    <3> QED BY <2>1, <3>1
  <2>4. CASE PartIn(q, f, r[i].count - 1)
    <3>1. PICK w \in DOMAIN q : q[w].id = f /\ q[w].count = r[i].count - 1
      BY <2>4 DEF PartIn
    <3>2. CASE w = 1
      <4>0. d.count = r[i].count - 1 BY <1>1, <3>1, <3>2
      <4>1. r[i].count = d.count + 1 BY <1>2, <2>0, <4>0
      <4>2. r[i].count <= d.count + 1 BY <1>2, <4>1
      <4> QED BY <2>1, <4>2
    <3>3. CASE w # 1
      <4>1. PartIn(r, f, r[i].count - 1) BY <1>1, <3>1, <3>3 DEF PartIn
      <4> QED BY <2>1, <4>1
    <3> QED BY <3>2, <3>3
  <2> QED BY <2>2, <2>3, <2>4
<1>8. d.count <= c + 1 /\ 1 <= d.count BY <1>2
<1>9. RepeatTrack(r, c + 1, n, tt, f, d.count) BY <1>2, <1>7, <1>8 DEF RepeatTrack
<1> QED BY <1>9 DEF r

(* A part copied to the place after the last one fills the frame further.  *)
Copied(c, n, t, f, v, tt) ==
    /\ tt \in [1..Parts(n) -> Byte] /\ tt[1] = t[1] /\ tt[c + 1] = <<f, v>>
    /\ \A i \in 1..Parts(n) : i # c + 1 => tt[i] = t[i]
    /\ c + 1 = v /\ Filled(c, n, t, f) => Filled(c + 1, n, tt, f)

LEMMA FillNext ==
    ASSUME NEW c \in Nat, NEW n, Parts(n) \in Nat, NEW t \in [1..Parts(n) -> Byte], NEW f \in Nat,
           NEW v \in Nat, c >= 1, c + 1 <= Parts(n), NEW tt, tt = [t EXCEPT ![c + 1] = <<f, v>>]
    PROVE  Copied(c, n, t, f, v, tt)
<1>1. c + 1 \in 1..Parts(n) /\ 1 \in 1..Parts(n) /\ c + 1 # 1 OBVIOUS
<1>2. <<f, v>> \in Byte BY DEF Byte
<1>3. tt \in [1..Parts(n) -> Byte] /\ tt[1] = t[1] /\ tt[c + 1] = <<f, v>> BY <1>1, <1>2
<1>4. \A i \in 1..Parts(n) : i # c + 1 => tt[i] = t[i] OBVIOUS
<1>5. ASSUME c + 1 = v, Filled(c, n, t, f), NEW i \in 1..Parts(n), i <= c + 1
      PROVE  tt[i] = <<f, i>>
  <2>1. CASE i = c + 1 BY <1>3, <1>5, <2>1
  <2>2. CASE i # c + 1
    <3>1. i <= c BY <1>5, <2>2
    <3> QED BY <1>4, <1>5, <2>2, <3>1 DEF Filled
  <2> QED BY <2>1, <2>2
<1>6. c + 1 = v /\ Filled(c, n, t, f) => Filled(c + 1, n, tt, f) BY <1>5 DEF Filled
<1> QED BY <1>3, <1>4, <1>6 DEF Copied

(* A part is counted that is not the last: thrown away or copied.          *)
PartCounted(c, n, t, tt, d) ==
    \/ tt = t /\ d.key /\ c + 1 # d.count
    \/ /\ tt = [t EXCEPT ![c + 1] = <<d.id, d.count>>]
       /\ ~(d.key /\ c + 1 # d.count) /\ c + 1 < Parts(n)

(* A part of the frame is counted: thrown away because it is a key frame's *)
(* and out of step, or copied.                                             *)
LEMMA TrackedCounts ==
    ASSUME NEW q \in Seq(AnyDatagram), q # <<>>, NEW m \in Nat, NEW F, NetInv(q, m, F),
           NEW c \in Nat, NEW n \in Nat, NEW t, NEW tt, NEW f \in 1..m, NEW k \in BOOLEAN,
           Tracked(q, c, n, t, f, k, F), NEW d, d = Head(q), d.length = n, d.id = f,
           PartCounted(c, n, t, tt, d)
    PROVE  Tracked(Tail(q), c + 1, n, tt, f, k, F)
<1> DEFINE r == Tail(q)
<1>0. \A i \in DOMAIN r : i + 1 \in DOMAIN q /\ r[i] = q[i + 1] BY Rest
<1> HIDE DEF r
<1>1. Tracked(q, c, n, t, f, k, F) OBVIOUS
<1>2. Assembling(q, c, n, t, f, k) BY <1>1 DEF Tracked
<1>3. NetSane(q, m) /\ NetOrdered(q, F) BY DEF NetInv
<1>4. /\ d.key = k /\ d.count \in 1..Parts(n) /\ d.count \in Nat
      /\ Parts(n) \in Nat /\ Parts(n) >= 2
  BY <1>2, <1>3, SameFrame
<1>5. n > LimitData /\ c >= 1 /\ t \in [1..Parts(n) -> Byte] BY <1>2 DEF Assembling
<1>6. \A i \in DOMAIN r : r[i].id = f => r[i].key = k /\ r[i].length = n BY <1>0, <1>2 DEF Assembling
<1>7. /\ Assembling(r, c + 1, n, tt, f, k)
      /\ c + 1 = d.count /\ Filled(c, n, t, f) => Filled(c + 1, n, tt, f)
  <2>1. CASE tt = t /\ d.key /\ c + 1 # d.count
    <3>0. k BY <1>4, <2>1
    <3>a. c + 1 >= 1 OBVIOUS
    <3>1. Assembling(r, c + 1, n, tt, f, k) BY <1>2, <1>6, <2>1, <3>0, <3>a, Zenon DEF Assembling
    <3> QED BY <2>1, <3>1
  <2>2. CASE /\ tt = [t EXCEPT ![c + 1] = <<d.id, d.count>>]
             /\ ~(d.key /\ c + 1 # d.count) /\ c + 1 < Parts(n)
    <3>0. tt = [t EXCEPT ![c + 1] = <<f, d.count>>] /\ c + 1 <= Parts(n) /\ f \in Nat
      BY <1>4, <2>2
    <3>c. Copied(c, n, t, f, d.count, tt) BY <1>4, <1>5, <3>0, FillNext
    <3>1. /\ tt \in [1..Parts(n) -> Byte] /\ tt[1] = t[1] /\ tt[c + 1] = <<f, d.count>>
          /\ \A i \in 1..Parts(n) : i # c + 1 => tt[i] = t[i]
          /\ c + 1 = d.count /\ Filled(c, n, t, f) => Filled(c + 1, n, tt, f)
      BY <3>c DEF Copied
    <3>2. k => \A i \in 1..Parts(n) : tt[i] \in {<<f, i>>, <<0, 0>>}
      BY <1>2, <1>4, <2>2, <3>1 DEF Assembling
    <3>3. Assembling(r, c + 1, n, tt, f, k)
      BY <1>2, <1>4, <1>6, <2>2, <3>1, <3>2 DEF Assembling
    <3> QED BY <3>1, <3>3
  <2> QED BY <2>1, <2>2 DEF PartCounted
<1>8. ASSUME Losing(F) PROVE LoseTracked(r, c + 1, n, tt, f)
  <2>1. PICK p \in Nat : LoseTrack(q, c, n, t, f, p) BY <1>1, <1>8 DEF Tracked, LoseTracked
  <2>2. LoseTrack(Tail(q), c + 1, n, tt, f, d.count) BY <1>3, <1>5, <1>7, <1>8, <2>1, LoseNext
  <2> QED BY <1>4, <2>2 DEF LoseTracked, r
<1>9. ASSUME k, Repeating(F) PROVE RepeatTracked(r, c + 1, n, tt, f)
  <2>1. PICK p \in Nat : RepeatTrack(q, c, n, t, f, p) BY <1>1, <1>9 DEF Tracked, RepeatTracked
  <2>2. RepeatTrack(Tail(q), c + 1, n, tt, f, d.count) BY <1>3, <1>5, <1>7, <1>9, <2>1, RepeatNext
  <2> QED BY <1>4, <2>2 DEF RepeatTracked, r
<1>10. Tracked(r, c + 1, n, tt, f, k, F) BY <1>7, <1>8, <1>9 DEF Tracked
<1> QED BY <1>10 DEF r

(* The frames that others ran into when the datagram d is counted.         *)
MixedBy(M, t, d, n) == M \cup (IF d.id # t[1][1] /\ d.length = n THEN {t[1][1]} ELSE {})

(* A part is counted, of the frame or not.                                 *)
LEMMA AssemblyCounts ==
    ASSUME NEW q \in Seq(AnyDatagram), q # <<>>, NEW t, NEW d, NEW n \in Nat, NEW m \in Nat, NEW F, NEW M, NEW MM,
           MM = MixedBy(M, t, d, n), NetInv(q, m, F), NEW c \in Nat, n # 0, NEW tt,
           Assembly(q, c, n, t, m, F, M), d = Head(q), d.length = n,
           PartCounted(c, n, t, tt, d)
    PROVE  Assembly(Tail(q), c + 1, n, tt, m, F, MM) /\ M \subseteq MM
<1> DEFINE r == Tail(q)
<1>0. \A i \in DOMAIN r : i + 1 \in DOMAIN q /\ r[i] = q[i + 1] BY Rest
<1> HIDE DEF r
<1>p. PICK f \in 1..m, k \in BOOLEAN :
          Begun(c, n, t, f) /\ (f \notin M => Tracked(q, c, n, t, f, k, F))
  BY DEF Assembly
<1>m. M \subseteq MM /\ (f \notin MM => f \notin M /\ d.id = f) BY <1>p DEF MixedBy, Begun
<1>b. Begun(c + 1, n, tt, f)
  <2>1. c + 1 # 1 /\ c + 1 >= 1 BY <1>p DEF Begun, PartCounted
  <2>2. 1 \in DOMAIN tt /\ tt[1] = t[1] BY <1>p, <2>1 DEF Begun, PartCounted
  <2> QED BY <1>p, <2>1, <2>2 DEF Begun, PartCounted
<1>t. ASSUME f \notin MM PROVE Tracked(r, c + 1, n, tt, f, k, F)
  <2>1. d.id = f /\ Tracked(q, c, n, t, f, k, F) BY <1>p, <1>m, <1>t
  <2>2. Tracked(Tail(q), c + 1, n, tt, f, k, F) BY <2>1, TrackedCounts
  <2> QED BY <2>2 DEF r
<1>11. Assembly(r, c + 1, n, tt, m, F, MM) BY <1>b, <1>t DEF Assembly
<1> QED BY <1>m, <1>11 DEF r

(* The last part arrives: it fits in what is left of frame f, and nothing  *)
(* is missing that should be there.                                        *)
Ending(c, n, t, f, d, F) ==
    /\ n - c * LimitData > 0 /\ c >= 1 /\ c + 1 = Parts(n) /\ f \in Nat
    /\ t \in [1..Parts(n) -> Byte] /\ t[1] = <<f, 1>>
    /\ d.id = f /\ d.count \in Nat /\ d.key \in BOOLEAN
    /\ Losing(F) => d.count = c + 1 /\ Filled(c, n, t, f)
    /\ d.key => /\ d.count = c + 1 /\ \A i \in 1..Parts(n) : t[i] \in {<<f, i>>, <<0, 0>>}
                /\ Repeating(F) => Filled(c, n, t, f)

LEMMA AssemblyEnds ==
    ASSUME NEW q \in Seq(AnyDatagram), q # <<>>, NEW t, NEW d, NEW n \in Nat, NEW m \in Nat,
           NEW F, NEW M, NEW MM, MM = MixedBy(M, t, d, n), NetInv(q, m, F), NEW c \in Nat, n # 0,
           Assembly(q, c, n, t, m, F, M), d = Head(q), d.length = n,
           ~(d.key /\ c + 1 # d.count), c + 1 >= Parts(n)
    PROVE  /\ M \subseteq MM
           /\ \E f \in 1..m : Begun(c, n, t, f) /\ (f \notin MM => Ending(c, n, t, f, d, F))
<1>p. PICK f \in 1..m, k \in BOOLEAN :
          Begun(c, n, t, f) /\ (f \notin M => Tracked(q, c, n, t, f, k, F))
  BY DEF Assembly
<1>m. M \subseteq MM /\ (f \notin MM => f \notin M /\ d.id = f) BY <1>p DEF MixedBy, Begun
<1> SUFFICES ASSUME f \notin MM PROVE Ending(c, n, t, f, d, F)
  BY <1>p, <1>m
<1>1. Tracked(q, c, n, t, f, k, F) /\ d.id = f BY <1>p, <1>m
<1>2. Assembling(q, c, n, t, f, k) BY <1>1 DEF Tracked
<1>3. NetSane(q, m) /\ NetOrdered(q, F) BY DEF NetInv
<1>4. /\ d.key = k /\ d.count \in 1..Parts(n) /\ d.count \in Nat
      /\ Parts(n) \in Nat /\ Parts(n) >= 2
  BY <1>1, <1>2, <1>3, SameFrame
<1>5. n > LimitData /\ c >= 1 /\ t \in [1..Parts(n) -> Byte] /\ t[1] = <<f, 1>>
  BY <1>2 DEF Assembling
<1>k. k => d.count = c + 1 BY <1>4
<1>6. c + 1 = Parts(n)
  <2>1. CASE k
    <3>1. c + 1 = d.count BY <1>k, <2>1
    <3> QED BY <1>4, <3>1
  <2>2. CASE ~k
    <3>1. c < Parts(n) BY <1>2, <2>2 DEF Assembling
    <3> QED BY <1>4, <3>1
  <2> QED BY <2>1, <2>2
<1>7. n - c * LimitData > 0
  <2>1. c < Parts(n) BY <1>4, <1>6
  <2>2. n \in Nat \ {0} OBVIOUS
  <2> QED BY <2>1, <2>2, RoomForPart
<1>13. ASSUME Losing(F) PROVE d.count = c + 1 /\ Filled(c, n, t, f)
  <2>1. PICK p \in Nat : LoseTrack(q, c, n, t, f, p) BY <1>1, <1>13 DEF Tracked, LoseTracked
  <2>2. c + 1 <= d.count /\ (d.count = c + 1 => Filled(c, n, t, f)) BY <1>1, <2>1, LoseLast
  <2>3. d.count = c + 1 BY <1>4, <1>6, <2>2
  <2> QED BY <2>2, <2>3
<1>14. ASSUME k, Repeating(F) PROVE Filled(c, n, t, f)
  <2>1. PICK p \in Nat : RepeatTrack(q, c, n, t, f, p) BY <1>1, <1>14 DEF Tracked, RepeatTracked
  <2>2. d.count = c + 1 => Filled(c, n, t, f) BY <1>1, <1>3, <1>5, <1>14, <2>1, RepeatLast
  <2> QED BY <1>k, <1>14, <2>2
<1>15. k => \A i \in 1..Parts(n) : t[i] \in {<<f, i>>, <<0, 0>>} BY <1>2 DEF Assembling
<1>16. f \in Nat OBVIOUS
<1>17. Ending(c, n, t, f, d, F)
  BY <1>1, <1>4, <1>5, <1>6, <1>7, <1>13, <1>14, <1>15, <1>16, <1>k, Zenon DEF Ending
<1> QED BY <1>17

(* The frame that is handed on then.                                       *)
LEMMA EndIsGood ==
    ASSUME NEW c \in Nat, NEW n \in Nat \ {0}, NEW t, NEW f, NEW d, NEW F, NEW M, Ending(c, n, t, f, d, F),
           NEW tt, Copied(c, n, t, f, d.count, tt), NEW item,
           item = [kind |-> "frame", key |-> d.key, length |-> n, parts |-> tt]
    PROVE  item \in AnyItem /\ Good(item, F, M)
<1>1. Parts(n) \in Nat BY SomePart
<1>2. /\ c + 1 = Parts(n) /\ t[1] = <<f, 1>> /\ d.key \in BOOLEAN BY DEF Ending
<1>3. tt \in [1..Parts(n) -> Byte] /\ tt[1] = <<f, 1>> BY <1>2 DEF Copied
<1>4. tt \in Seq(Byte) /\ Len(tt) = Parts(n) BY <1>1, <1>3, AsSequence
<1>5. /\ item.kind = "frame" /\ item.key = d.key /\ item.length = n /\ item.parts = tt OBVIOUS
<1>6. item \in AnyItem BY <1>2, <1>4 DEF AnyItem
<1>7. tt[1][1] = f BY <1>3
<1>8. ASSUME d.count = c + 1, Filled(c, n, t, f) PROVE Whole(item)
  <2>1. Filled(c + 1, n, tt, f) BY <1>8 DEF Copied
  <2>2. \A i \in 1..Parts(n) : i <= c + 1 BY <1>1, <1>2
  <2>3. \A i \in 1..Parts(n) : tt[i] = <<f, i>> BY <2>1, <2>2 DEF Filled
  <2> QED BY <1>4, <1>5, <1>7, <2>3 DEF Whole
<1>9. ASSUME d.key PROVE InPlace(item)
  <2>1. d.count = c + 1 /\ \A i \in 1..Parts(n) : t[i] \in {<<f, i>>, <<0, 0>>}
    BY <1>9 DEF Ending
  <2>2. \A i \in 1..Parts(n) : tt[i] \in {<<f, i>>, <<0, 0>>} BY <2>1 DEF Copied
  <2> QED BY <1>4, <1>5, <1>7, <2>2 DEF InPlace
<1>10. Losing(F) => Whole(item) BY <1>8 DEF Ending
<1>11. d.key /\ Repeating(F) => Whole(item) BY <1>8 DEF Ending
<1>12. Good(item, F, M) BY <1>5, <1>9, <1>10, <1>11 DEF Good
<1> QED BY <1>6, <1>12

-----------------------------------------------------------------------------
(* The play queue.                                                         *)

(* Nothing makes a frame worse that was put together before.               *)
LEMMA GoodLater ==
    ASSUME NEW F, NEW G, Later(F, G), NEW M, NEW MM, M \subseteq MM, NEW q, AllGood(q, F, M)
    PROVE  AllGood(q, G, MM)
  BY DEF Later, AllGood, Good

(* A queue whose frames are frames of another one.                         *)
Comes(r, q) == \A i \in DOMAIN r : \E j \in DOMAIN q : r[i] = q[j]

LEMMA ComesGood ==
    ASSUME NEW q, NEW r, NEW F, NEW M, Comes(r, q), AllGood(q, F, M)
    PROVE  AllGood(r, F, M)
  BY DEF Comes, AllGood

LEMMA AddedGood ==
    ASSUME NEW q \in Seq(AnyItem), NEW item \in AnyItem, NEW F, NEW M, AllGood(q, F, M), Good(item, F, M)
    PROVE  Append(q, item) \in Seq(AnyItem) /\ AllGood(Append(q, item), F, M)
<1>1. /\ Append(q, item) \in Seq(AnyItem)
      /\ \A i \in DOMAIN Append(q, item) :
            (i \in DOMAIN q /\ Append(q, item)[i] = q[i]) \/ Append(q, item)[i] = item
  OBVIOUS
<1> QED BY <1>1 DEF AllGood

(* The least and the greatest element of a set of positions.               *)
LEMMA LeastOf ==
    ASSUME NEW T \in SUBSET Nat, T # {}
    PROVE  \E x \in T : \A y \in T : x <= y
<1>1. \E x \in T : \A y \in T : ~ (<<y, x>> \in OpToRel(<, Nat))
  <2>1. IsWellFoundedOn(OpToRel(<, Nat), Nat) BY NatLessThanWellFounded
  <2> HIDE DEF OpToRel
  <2> QED BY <2>1, WFMin
<1>2. PICK x \in T : \A y \in T : ~ (<<y, x>> \in OpToRel(<, Nat)) BY <1>1
<1>3. \A y \in T : ~ (y < x) BY <1>2 DEF OpToRel
<1>4. \A y \in T : x <= y BY <1>3
<1> QED BY <1>4

LEMMA GreatestOf ==
    ASSUME NEW z \in Nat, NEW T \in SUBSET (1..z), T # {}
    PROVE  \E x \in T : \A y \in T : y <= x
<1> DEFINE U == {b \in Nat : \A y \in T : y <= b}
<1>1. z \in U OBVIOUS
<1>2. PICK b \in U : \A u \in U : b <= u BY <1>1, LeastOf
<1>3. PICK y \in T : TRUE OBVIOUS
<1>4. b \in Nat /\ b >= 1 BY <1>2, <1>3
<1>5. ASSUME b \notin T PROVE FALSE
  <2>1. \A x \in T : x <= b - 1 BY <1>4, <1>5
  <2>2. b - 1 \in U BY <1>4, <2>1
  <2> QED BY <1>2, <1>4, <2>2
<1> QED BY <1>2, <1>5

LEMMA FinitePositions ==
    ASSUME NEW z \in Nat, NEW T \in SUBSET (1..z)
    PROVE  IsFiniteSet(T) /\ Cardinality(T) \in Nat
<1>1. IsFiniteSet(1..z) BY FS_Interval
<1>2. IsFiniteSet(T) BY <1>1, FS_Subset
<1> QED BY <1>2, FS_CardinalityType

(* The n-th of a set of positions.                                         *)
LEMMA NthOf ==
    ASSUME NEW z \in Nat, NEW T \in SUBSET (1..z), NEW n \in 1..Cardinality(T)
    PROVE  \E i \in T : Cardinality({j \in T : j <= i}) = n
<1> DEFINE B(i) == {j \in T : j <= i}
           c(i) == Cardinality(B(i))
           U == {i \in Nat : c(i) >= n}
<1>1. IsFiniteSet(T) BY FinitePositions
<1>t. \A j \in T : j \in Nat /\ 1 <= j /\ j <= z OBVIOUS
<1>2. \A i : IsFiniteSet(B(i)) BY <1>1, FS_Subset
<1>3. Cardinality(T) \in Nat /\ \A i : c(i) \in Nat BY <1>1, <1>2, FS_CardinalityType
<1>4. n \in Nat /\ 1 <= n /\ n <= Cardinality(T) BY <1>3
<1>5. B(z) = T BY <1>t
<1>6. B(0) = {}
  <2>1. \A j \in T : ~(j <= 0) BY <1>t
  <2> QED BY <2>1
<1>7. c(0) = 0 BY <1>6, FS_EmptySet
<1>8. z \in U BY <1>3, <1>4, <1>5
<1>9. PICK b \in U : \A u \in U : b <= u BY <1>8, LeastOf
<1>10. b \in Nat /\ b # 0 BY <1>4, <1>7, <1>9
<1>11. b - 1 \in Nat /\ ~(b <= b - 1) BY <1>10
<1>12. ~(c(b - 1) >= n) BY <1>9, <1>11
<1>13. CASE b \notin T
  <2>0. \A j \in T : j <= b <=> j <= b - 1 BY <1>t, <1>10, <1>13
  <2>1. B(b) = B(b - 1) BY <2>0
  <2> QED BY <1>9, <1>12, <2>1
<1>14. CASE b \in T
  <2>0. \A j \in T : j <= b <=> j <= b - 1 \/ j = b BY <1>t, <1>10
  <2>1. B(b) = B(b - 1) \cup {b} BY <1>10, <1>14, <2>0
  <2>a. b \notin B(b - 1) BY <1>10
  <2>b. IsFiniteSet(B(b - 1)) BY <1>2
  <2> HIDE DEF B
  <2>2. c(b) = c(b - 1) + 1 BY <2>1, <2>a, <2>b, FS_AddElement
  <2>3. c(b) = n
    <3>1. c(b) >= n BY <1>9
    <3> HIDE DEF c
    <3> QED BY <1>3, <1>4, <1>12, <2>2, <3>1
  <2> QED BY <1>14, <2>3 DEF B
<1> QED BY <1>13, <1>14

(* What is queued from the first key frame on, or up to one.               *)
LEMMA FirstKeyIn ==
    ASSUME NEW q \in Seq(AnyItem), KeysOf(q) # {}
    PROVE  FirstKey(q) \in 1..Len(q)
<1>1. KeysOf(q) \in SUBSET Nat /\ KeysOf(q) \subseteq 1..Len(q) BY DEF KeysOf
<1>2. \E i \in KeysOf(q) : \A j \in KeysOf(q) : i <= j BY <1>1, LeastOf
<1>3. FirstKey(q) \in KeysOf(q) BY <1>2 DEF FirstKey
<1> QED BY <1>1, <1>3

LEMMA FromFirstKey ==
    ASSUME NEW q \in Seq(AnyItem), KeysOf(q) # {}, NEW F, NEW M, AllGood(q, F, M)
    PROVE  /\ SubSeq(q, FirstKey(q), Len(q)) \in Seq(AnyItem)
           /\ AllGood(SubSeq(q, FirstKey(q), Len(q)), F, M)
<1>0. Len(q) \in Nat /\ FirstKey(q) \in 1..Len(q) BY FirstKeyIn
<1>a. FirstKey(q) \in Nat /\ 1 <= FirstKey(q) /\ FirstKey(q) <= Len(q) BY <1>0
<1>x. PICK k \in Nat : FirstKey(q) = 1 + k BY <1>a, Difference
<1>k. FirstKey(q) = k + 1 /\ k <= Len(q) BY <1>a, <1>x
<1>z. PICK z \in Nat : Len(q) = k + z BY <1>0, <1>k, Difference
<1> DEFINE r == SubSeq(q, k + 1, Len(q))
<1>1. /\ r \in Seq(AnyItem) /\ DOMAIN r = 1..z
      /\ \A i \in 1..z : k + i \in DOMAIN q /\ r[i] = q[k + i]
  BY <1>z, Suffix
<1> HIDE DEF r
<1>2. Comes(r, q) BY <1>1 DEF Comes
<1>3. AllGood(r, F, M) BY <1>2, ComesGood
<1> QED BY <1>1, <1>3, <1>k DEF r

LEMMA PrefixGood ==
    ASSUME NEW q \in Seq(AnyItem), NEW x \in 1..Len(q), NEW F, NEW M, AllGood(q, F, M)
    PROVE  SubSeq(q, 1, x) \in Seq(AnyItem) /\ AllGood(SubSeq(q, 1, x), F, M)
<1> DEFINE r == SubSeq(q, 1, x)
<1>0. x \in Nat /\ x <= Len(q) OBVIOUS
<1>1. r \in Seq(AnyItem) /\ DOMAIN r = 1..x /\ \A i \in 1..x : i \in DOMAIN q /\ r[i] = q[i]
  BY <1>0, Prefix
<1> HIDE DEF r
<1>2. Comes(r, q) BY <1>1 DEF Comes
<1>3. AllGood(r, F, M) BY <1>2, ComesGood
<1> QED BY <1>1, <1>3 DEF r

LEMMA FirstGood ==
    ASSUME NEW q \in Seq(AnyItem), q # <<>>, NEW F, NEW M, AllGood(q, F, M)
    PROVE  /\ Tail(q) \in Seq(AnyItem) /\ AllGood(Tail(q), F, M)
           /\ Head(q) \in AnyItem /\ Good(Head(q), F, M)
<1>1. /\ Tail(q) \in Seq(AnyItem) /\ Head(q) \in AnyItem /\ Head(q) = q[1] /\ 1 \in DOMAIN q
      /\ \A i \in DOMAIN Tail(q) : i + 1 \in DOMAIN q /\ Tail(q)[i] = q[i + 1]
  BY Rest
<1>2. Comes(Tail(q), q) BY <1>1 DEF Comes
<1>3. AllGood(Tail(q), F, M) BY <1>2, ComesGood
<1> QED BY <1>1, <1>3 DEF AllGood

(* The frames that are kept of a queue.                                    *)
LEMMA KeptGood ==
    ASSUME NEW q \in Seq(AnyItem), NEW T \in SUBSET (1..Len(q)), NEW F, NEW M, AllGood(q, F, M), NEW r,
           r = [n \in 1..Cardinality(T) |-> q[CHOOSE i \in T : Cardinality({j \in T : j <= i}) = n]]
    PROVE  r \in Seq(AnyItem) /\ AllGood(r, F, M)
<1> DEFINE nth(n) == CHOOSE i \in T : Cardinality({j \in T : j <= i}) = n
<1>0. Len(q) \in Nat /\ DOMAIN q = 1..Len(q) OBVIOUS
<1>1. Cardinality(T) \in Nat BY <1>0, FinitePositions
<1>2. ASSUME NEW n \in 1..Cardinality(T) PROVE nth(n) \in T
  <2>1. \E i \in T : Cardinality({j \in T : j <= i}) = n BY <1>0, NthOf
  <2> QED BY <2>1
<1>3. r = [n \in 1..Cardinality(T) |-> q[nth(n)]] OBVIOUS
<1> HIDE DEF nth
<1>4. \A n \in 1..Cardinality(T) : nth(n) \in DOMAIN q /\ q[nth(n)] \in AnyItem
  <2>1. \A i \in T : i \in DOMAIN q /\ q[i] \in AnyItem BY <1>0
  <2> QED BY <1>2, <2>1
<1>5. r \in [1..Cardinality(T) -> AnyItem] BY <1>3, <1>4
<1>6. r \in Seq(AnyItem) /\ DOMAIN r = 1..Cardinality(T) BY <1>1, <1>5, AsSequence
<1>7. Comes(r, q) BY <1>3, <1>4, <1>6 DEF Comes
<1> QED BY <1>6, <1>7, ComesGood

-----------------------------------------------------------------------------
(* Every step keeps the invariant.                                         *)

(* Steps that do not concern the assembly.                                 *)
LEMMA Environment ==
    ASSUME IInv, UNCHANGED <<phase, count, tempLength, tempData, mixed, list, mPlayQueue1,
                       decoded>>,
           encoded' \in 0..MaxFrames, encoded <= encoded', net' \in Seq(AnyDatagram),
           faults' \in [FaultKinds -> Nat], Later(faults, faults'),
           NetInv(net', encoded', faults'),
           \A j \in DOMAIN net' : net'[j].id \in 1..encoded => \E i \in DOMAIN net : net[i] = net'[j],
           Repeating(faults') => \A i \in DOMAIN net : net[i].length = tempLength /\ net[i].key =>
                                     \E j \in DOMAIN net' : net'[j] = net[i]
    PROVE  IInv'
<1>0. Types BY DEF IInv
<1>1. Types' BY <1>0 DEF Types
<1>2. Assembly(net', count, tempLength, tempData, encoded', faults', mixed')
  <2>1. encoded \in Nat /\ encoded' \in Nat /\ net \in Seq(AnyDatagram) BY <1>0, Constants DEF Types
  <2>2. Assembly(net, count, tempLength, tempData, encoded, faults, mixed) BY DEF IInv
  <2> QED BY <2>1, <2>2, AssemblyKept
<1>3. GoodItems' BY GoodLater DEF IInv, GoodItems
<1>4. NotYet' /\ CopyInside' BY DEF IInv, NotYet, CopyInside, Owner
<1> QED BY <1>1, <1>2, <1>3, <1>4 DEF IInv

(* Steps of the player and of the event thread.                            *)
LEMMA PlayerKeeps ==
    ASSUME IInv, UNCHANGED <<encoded, net, faults, phase, count, tempLength, tempData, mixed, list>>,
           mPlayQueue1' \in Seq(AnyItem), AllGood(mPlayQueue1', faults, mixed),
           decoded' \in Seq(AnyItem), AllGood(decoded', faults, mixed)
    PROVE  IInv'
<1>1. Types' BY DEF IInv, Types
<1>2. GoodItems' BY DEF IInv, GoodItems
<1>3. NotYet' /\ CopyInside' BY DEF IInv, NotYet, CopyInside, Owner
<1> QED BY <1>1, <1>2, <1>3 DEF IInv

(* Steps of the receive thread.                                            *)
LEMMA ServerKeeps ==
    ASSUME IInv, net # <<>>, net' = Tail(net), UNCHANGED <<encoded, faults, decoded>>,
           count' \in Nat, tempLength' \in Nat, tempData' \in Seq(Byte), list' \in Seq(AnyItem),
           mPlayQueue1' \in Seq(AnyItem), mixed \subseteq mixed', AllGood(mPlayQueue1', faults, mixed'),
           AllGood(list', faults, mixed'),
           Assembly(Tail(net), count', tempLength', tempData', encoded, faults, mixed'),
           NotYet', CopyInside'
    PROVE  IInv'
<1>0. net \in Seq(AnyDatagram) BY DEF IInv, Types
<1>1. Tail(net) \in Seq(AnyDatagram) BY <1>0, Rest
<1>2. Types' BY <1>1 DEF IInv, Types
<1>3. GoodItems'
  <2>1. AllGood(decoded, faults, mixed) /\ Later(faults, faults) BY DEF IInv, GoodItems, Later
  <2>2. AllGood(decoded, faults, mixed') BY <2>1, GoodLater
  <2> QED BY <2>2 DEF GoodItems
<1>4. NetInv(net', encoded', faults')
  <2>1. NetInv(net, encoded, faults) BY DEF IInv
  <2>2. NetInv(Tail(net), encoded, faults) BY <1>0, <2>1, TailInv
  <2> QED BY <2>2
<1>5. Assembly(net', count', tempLength', tempData', encoded', faults', mixed') OBVIOUS
<1> QED BY <1>2, <1>3, <1>4, <1>5 DEF IInv

(* Nothing that is sent is of a frame that was encoded before.             *)
NoneAdded(q, r, m) == \A j \in DOMAIN r : r[j].id \in 1..m => \E i \in DOMAIN q : q[i] = r[j]
NoneGone(q, r) == \A i \in DOMAIN q : \E j \in DOMAIN r : r[j] = q[i]

LEMMA SentElsewhere ==
    ASSUME NEW q \in Seq(AnyDatagram), NEW e \in Seq(AnyDatagram), NEW m,
           \A c \in DOMAIN e : e[c].id \notin 1..m
    PROVE  NoneAdded(q, q \o e, m) /\ NoneGone(q, q \o e)
<1> DEFINE r == q \o e
<1>1. /\ \A i \in DOMAIN q : i \in DOMAIN r /\ r[i] = q[i]
      /\ \A i \in DOMAIN r : i \in DOMAIN q \/ (i - Len(q) \in DOMAIN e /\ r[i] = e[i - Len(q)])
  BY Joined
<1> HIDE DEF r
<1>2. \A j \in DOMAIN r : r[j].id \in 1..m => \E i \in DOMAIN q : q[i] = r[j] BY <1>1
<1>3. \A i \in DOMAIN q : \E j \in DOMAIN r : r[j] = q[i] BY <1>1
<1>4. NoneAdded(q, r, m) /\ NoneGone(q, r) BY <1>2, <1>3 DEF NoneAdded, NoneGone
<1> QED BY <1>4 DEF r

LEMMA SentStep ==
    ASSUME IInv, NEW key \in BOOLEAN, encoded < MaxFrames,
           NEW n \in Lengths[encoded + 1], NEW e, IsBurst(e, encoded + 1, key, n),
           encoded' = encoded + 1, net' = net \o e,
           UNCHANGED <<faults, phase, count, tempLength, tempData, mixed, list, mPlayQueue1,
                       decoded>>
    PROVE  IInv'
<1>0. encoded \in Nat /\ net \in Seq(AnyDatagram) /\ faults \in [FaultKinds -> Nat]
  BY Constants DEF IInv, Types
<1>1. e \in Seq(AnyDatagram) /\ \A c \in DOMAIN e : e[c].id = encoded + 1 BY DEF IsBurst
<1>2. encoded' \in 0..MaxFrames /\ encoded <= encoded' BY <1>0, Constants
<1>3. net' \in Seq(AnyDatagram) BY <1>0, <1>1, Joined
<1>4. NetInv(net', encoded', faults')
  <2>1. NetInv(net, encoded, faults) BY DEF IInv
  <2>2. NetInv(net \o e, encoded + 1, faults) BY <1>0, <2>1, BurstInv
  <2> QED BY <2>2
<1>6. NoneAdded(net, net', encoded) /\ NoneGone(net, net')
  <2>1. \A c \in DOMAIN e : e[c].id \notin 1..encoded BY <1>0, <1>1
  <2>2. NoneAdded(net, net \o e, encoded) /\ NoneGone(net, net \o e)
    BY <1>0, <1>1, <2>1, SentElsewhere
  <2> QED BY <2>2
<1>7. Later(faults, faults') /\ faults' \in [FaultKinds -> Nat] BY <1>0 DEF Later
<1> QED BY <1>2, <1>3, <1>4, <1>6, <1>7, Environment DEF NoneAdded, NoneGone

(* The client.                                                             *)
LEMMA SetupStep ==
    ASSUME IInv, NEW kind \in {"info", "config"}, net' = Append(net, SetupDatagram(kind)),
           UNCHANGED <<encoded, faults, phase, count, tempLength, tempData, mixed, list, mPlayQueue1,
                       decoded>>
    PROVE  IInv'
<1> DEFINE d == SetupDatagram(kind)
           e == <<d>>
<1>0. /\ encoded \in Nat /\ encoded \in 0..MaxFrames /\ net \in Seq(AnyDatagram)
      /\ faults \in [FaultKinds -> Nat] /\ LimitData \in Nat \ {0}
  BY Constants DEF IInv, Types
<1>1. d \in AnyDatagram /\ d.id = 0 /\ d.length = 1 /\ d.key = FALSE /\ Sane(d, encoded)
  BY DEF SetupDatagram, AnyDatagram, Sane
<1> HIDE DEF d
<1>2. e \in Seq(AnyDatagram) /\ net' = net \o e /\ \A c \in DOMAIN e : e[c] = d BY <1>0, <1>1 DEF d
<1> HIDE DEF e
<1>3. NetInv(net \o e, encoded, faults)
  <2>1. \A c \in DOMAIN e : Sane(e[c], encoded) /\ e[c].length = 1 /\ e[c].key = FALSE
                         /\ e[c].id = 0
    BY <1>1, <1>2
  <2>2. ~(1 > LimitData) /\ encoded <= encoded /\ 1 \in Nat BY <1>0
  <2>3. NetInv(net, encoded, faults) BY DEF IInv
  <2>4. \A i \in DOMAIN net : Cut(net[i]) => net[i].id # 0
    <3>1. \A i \in DOMAIN net : Sane(net[i], encoded) BY <2>3 DEF NetInv, NetSane
    <3> QED BY <1>0, <3>1 DEF Sane, Cut
  <2>5. NotOf(net, 1, 0) BY <2>2, <2>4 DEF NotOf
  <2>6. OneFrame(e, encoded, 1, FALSE, 0) BY <2>1, <2>2 DEF OneFrame
  <2> QED BY <1>0, <1>2, <2>2, <2>3, <2>5, <2>6, GrownInv
<1>5. NoneAdded(net, net', encoded) /\ NoneGone(net, net')
  <2>1. \A c \in DOMAIN e : e[c].id \notin 1..encoded BY <1>0, <1>1, <1>2
  <2>2. NoneAdded(net, net \o e, encoded) /\ NoneGone(net, net \o e)
    BY <1>0, <1>2, <2>1, SentElsewhere
  <2> QED BY <1>2, <2>2
<1>6. net' \in Seq(AnyDatagram)
  <2>1. net \o e \in Seq(AnyDatagram) BY <1>0, <1>2, Joined
  <2> QED BY <1>2, <2>1
<1>7. NetInv(net', encoded', faults') BY <1>2, <1>3
<1>8. Later(faults, faults') BY DEF Later
<1>9. encoded' \in 0..MaxFrames /\ encoded <= encoded' /\ faults' \in [FaultKinds -> Nat] BY <1>0
<1> QED BY <1>5, <1>6, <1>7, <1>8, <1>9, Environment DEF NoneAdded, NoneGone

LEMMA ClientStep ==
    ASSUME IInv, Client
    PROVE  IInv'
<1>0. encoded \in Nat /\ net \in Seq(AnyDatagram) /\ MaxFrames \in Nat
  BY Constants DEF IInv, Types
<1>1. CASE SendSetup
  <2>1. PICK kind \in {"info", "config"} : net' = Append(net, SetupDatagram(kind))
    BY <1>1 DEF SendSetup
  <2> QED BY <1>1, <2>1, SetupStep DEF SendSetup, serverVars, assemblyVars, jniVars, playerVars
<1>2. CASE SleepEnds
  <2>1. UNCHANGED <<encoded, net, faults, phase, count, tempLength, tempData, mixed, list,
                    mPlayQueue1, decoded>>
    BY <1>2 DEF SleepEnds, serverVars, assemblyVars, jniVars, playerVars
  <2> QED BY <2>1, PlayerKeeps DEF IInv, Types, GoodItems
<1>3. ASSUME NEW key \in BOOLEAN, NEW length \in AllLengths, encoded < MaxFrames,
             length \in Lengths[encoded + 1]
      PROVE  /\ IsBurst(Datagrams(encoded + 1, key, length), encoded + 1, key, length)
             /\ Len(Datagrams(encoded + 1, key, length)) = Parts(length)
             /\ Parts(length) \in Nat
  <2>1. encoded + 1 \in Nat /\ encoded + 1 \in 1..MaxFrames BY <1>0, <1>3
  <2>2. length \in Nat \ {0} BY <1>3, <2>1, Constants
  <2> QED BY <2>1, <2>2, Burst, SomePart
<1>4. ASSUME NEW key \in BOOLEAN, NEW length \in AllLengths, Encode(key, length) PROVE IInv'
  <2>0. /\ encoded < MaxFrames /\ length \in Lengths[encoded + 1] /\ encoded' = encoded + 1
        /\ UNCHANGED <<faults, phase, count, tempLength, tempData, mixed, list, mPlayQueue1, decoded>>
    BY <1>4 DEF Encode, serverVars, assemblyVars, jniVars, playerVars
  <2>1. CASE mIsKeyFrameWrite \/ key
    <3> DEFINE e == Datagrams(encoded + 1, key, length)
    <3>1. IsBurst(e, encoded + 1, key, length) BY <1>3, <2>0
    <3>2. net' = net \o e BY <1>4, <2>0, <2>1 DEF Encode
    <3> HIDE DEF e
    <3> QED BY <2>0, <3>1, <3>2, SentStep
  <2>2. CASE ~(mIsKeyFrameWrite \/ key)
    <3> DEFINE e == <<>>
    <3>1. IsBurst(e, encoded + 1, key, length) BY DEF IsBurst
    <3>2. net' = net \o e BY <1>0, <1>4, <2>2 DEF Encode
    <3> HIDE DEF e
    <3> QED BY <2>0, <3>1, <3>2, SentStep
  <2> QED BY <2>1, <2>2
<1>5. ASSUME NEW key \in BOOLEAN, NEW length \in AllLengths, NEW sent \in 0..(Parts(length) - 1),
             SendFails(key, length, sent)
      PROVE  IInv'
  <2>0. /\ encoded < MaxFrames /\ length \in Lengths[encoded + 1] /\ encoded' = encoded + 1
        /\ UNCHANGED <<faults, phase, count, tempLength, tempData, mixed, list, mPlayQueue1, decoded>>
        /\ net' = net \o SubSeq(Datagrams(encoded + 1, key, length), 1, sent)
    BY <1>5 DEF SendFails, serverVars, assemblyVars, jniVars, playerVars
  <2> DEFINE b == Datagrams(encoded + 1, key, length)
             e == SubSeq(b, 1, sent)
  <2>1. IsBurst(b, encoded + 1, key, length) /\ Len(b) = Parts(length) /\ Parts(length) \in Nat
    BY <1>3, <2>0
  <2>2. net' = net \o e BY <2>0
  <2> HIDE DEF b
  <2>3. sent \in Nat /\ sent <= Len(b) BY <2>1
  <2>4. IsBurst(e, encoded + 1, key, length) BY <2>1, <2>3, PartOfBurst
  <2> HIDE DEF e
  <2> QED BY <2>0, <2>2, <2>4, SentStep
<1> QED BY <1>1, <1>2, <1>4, <1>5 DEF Client

(* The network.                                                            *)
LEMMA NetworkStep ==
    ASSUME IInv, Network
    PROVE  IInv'
<1>0. /\ encoded \in Nat /\ encoded \in 0..MaxFrames /\ net \in Seq(AnyDatagram)
      /\ faults \in [FaultKinds -> Nat] /\ NetInv(net, encoded, faults) /\ encoded <= encoded
  BY Constants DEF IInv, Types
<1>f. ASSUME NEW kind \in FaultKinds, Fault(kind)
      PROVE  /\ UNCHANGED <<encoded, phase, count, tempLength, tempData, mixed, list, mPlayQueue1, decoded>>
             /\ faults' \in [FaultKinds -> Nat] /\ Later(faults, faults')
             /\ kind # "lose" => ~Losing(faults')
             /\ kind # "duplicate" => ~Repeating(faults')
  <2>1. UNCHANGED <<encoded, phase, count, tempLength, tempData, mixed, list, mPlayQueue1, decoded>>
    BY <1>f DEF Fault, clientVars, serverVars, assemblyVars, jniVars, playerVars
  <2>2. faults' = [faults EXCEPT ![kind] = @ + 1] BY <1>f DEF Fault
  <2> QED BY <1>0, <2>1, <2>2, FaultsStay
<1>o. ASSUME NEW h, Origin(h, net', net)
      PROVE  \A j \in DOMAIN net' : \E i \in DOMAIN net : net[i] = net'[j]
  BY <1>o DEF Origin
<1>1. ASSUME NEW i \in 1..Len(net), Lose(i) PROVE IInv'
  <2>1. Fault("lose") /\ net' = SubSeq(net, 1, i - 1) \o SubSeq(net, i + 1, Len(net))
    BY <1>1 DEF Lose
  <2>2. /\ UNCHANGED <<encoded, phase, count, tempLength, tempData, mixed, list, mPlayQueue1, decoded>>
        /\ faults' \in [FaultKinds -> Nat] /\ Later(faults, faults') /\ ~Repeating(faults')
    BY <1>f, <2>1 DEF FaultKinds
  <2>3. net' \in Seq(AnyDatagram) /\ \E h : Origin(h, net', net) /\ Rising(h, net')
    BY <1>0, <2>1, OneLost
  <2>4. PICK h : Origin(h, net', net) /\ Rising(h, net') BY <2>3
  <2>5. NetInv(net', encoded, faults') BY <1>0, <2>2, <2>4, LostInv
  <2>6. \A j \in DOMAIN net' : \E x \in DOMAIN net : net[x] = net'[j] BY <1>o, <2>4
  <2> QED BY <1>0, <2>2, <2>3, <2>5, <2>6, Environment
<1>2. ASSUME NEW i \in 1..Len(net), Duplicate(i) PROVE IInv'
  <2>1. Fault("duplicate") /\ net' = SubSeq(net, 1, i) \o SubSeq(net, i, Len(net))
    BY <1>2 DEF Duplicate
  <2>2. /\ UNCHANGED <<encoded, phase, count, tempLength, tempData, mixed, list, mPlayQueue1, decoded>>
        /\ faults' \in [FaultKinds -> Nat] /\ Later(faults, faults') /\ ~Losing(faults')
    BY <1>f, <2>1 DEF FaultKinds
  <2>3. /\ net' \in Seq(AnyDatagram) /\ \E h : Origin(h, net', net) /\ Level(h, net')
        /\ \A j \in DOMAIN net : \E k \in DOMAIN net' : net'[k] = net[j]
    BY <1>0, <2>1, OneTwice
  <2>4. PICK h : Origin(h, net', net) /\ Level(h, net') BY <2>3
  <2>5. NetInv(net', encoded, faults') BY <1>0, <2>2, <2>3, <2>4, TwiceInv
  <2>6. \A j \in DOMAIN net' : \E x \in DOMAIN net : net[x] = net'[j] BY <1>o, <2>4
  <2> QED BY <1>0, <2>2, <2>3, <2>5, <2>6, Environment
<1>3. ASSUME NEW i \in 1..Len(net), Reorder(i) PROVE IInv'
  <2>1. /\ Fault("reorder") /\ i < Len(net)
        /\ net' = [net EXCEPT ![i] = net[i + 1], ![i + 1] = net[i]]
    BY <1>3 DEF Reorder
  <2>2. /\ UNCHANGED <<encoded, phase, count, tempLength, tempData, mixed, list, mPlayQueue1, decoded>>
        /\ faults' \in [FaultKinds -> Nat] /\ Later(faults, faults')
        /\ ~Losing(faults') /\ ~Repeating(faults')
    BY <1>f, <2>1 DEF FaultKinds
  <2>3. net' \in Seq(AnyDatagram) /\ \E h : Origin(h, net', net) BY <1>0, <2>1, TwoSwapped
  <2>4. PICK h : Origin(h, net', net) BY <2>3
  <2>5. NetInv(net', encoded, faults') BY <1>0, <2>2, <2>4, SwappedInv
  <2>6. \A j \in DOMAIN net' : \E x \in DOMAIN net : net[x] = net'[j] BY <1>o, <2>4
  <2> QED BY <1>0, <2>2, <2>3, <2>5, <2>6, Environment
<1> QED BY <1>1, <1>2, <1>3 DEF Network

(* The event thread and the player.                                        *)
LEMMA PlayerSteps ==
    ASSUME IInv, OnSetInfo \/ Player \/ PlayerCloses
    PROVE  IInv'
<1>0. /\ mPlayQueue1 \in Seq(AnyItem) /\ AllGood(mPlayQueue1, faults, mixed)
      /\ decoded \in Seq(AnyItem) /\ AllGood(decoded, faults, mixed)
  BY DEF IInv, Types, GoodItems
<1>1. UNCHANGED <<encoded, net, faults, phase, count, tempLength, tempData, mixed, list>>
  BY DEF OnSetInfo, Player, PlayerCloses, PrepareFails, PrepareTakes, PlayerStarts, DecodeThread,
         Drain, Check, Drain2, Take, PlayerStep, clientVars, serverVars, assemblyVars
<1>2. CASE OnSetInfo BY <1>0, <1>1, <1>2, PlayerKeeps DEF OnSetInfo
<1>3. CASE PrepareFails BY <1>0, <1>1, <1>3, PlayerKeeps DEF PrepareFails
<1>4. CASE PrepareTakes
  <2>1. mPlayQueue1 # <<>> /\ mPlayQueue1' = Tail(mPlayQueue1) /\ decoded' = decoded
    BY <1>4 DEF PrepareTakes
  <2>2. Tail(mPlayQueue1) \in Seq(AnyItem) /\ AllGood(Tail(mPlayQueue1), faults, mixed)
    BY <1>0, <2>1, FirstGood
  <2> QED BY <1>0, <1>1, <2>1, <2>2, PlayerKeeps
<1>5. CASE PlayerStarts BY <1>0, <1>1, <1>5, PlayerKeeps DEF PlayerStarts
<1>6. CASE Drain
  <2>0. decoded' = decoded BY <1>6 DEF Drain
  <2>1. CASE mPlayQueue1' = mPlayQueue1 BY <1>0, <1>1, <2>0, <2>1, PlayerKeeps
  <2>2. CASE mPlayQueue1' # mPlayQueue1
    <3>1. /\ KeysOf(mPlayQueue1) # {}
          /\ mPlayQueue1' = SubSeq(mPlayQueue1, FirstKey(mPlayQueue1), Len(mPlayQueue1))
      BY <1>6, <2>2 DEF Drain
    <3>2. /\ SubSeq(mPlayQueue1, FirstKey(mPlayQueue1), Len(mPlayQueue1)) \in Seq(AnyItem)
          /\ AllGood(SubSeq(mPlayQueue1, FirstKey(mPlayQueue1), Len(mPlayQueue1)), faults, mixed)
      BY <1>0, <3>1, FromFirstKey
    <3> QED BY <1>0, <1>1, <2>0, <3>1, <3>2, PlayerKeeps
  <2> QED BY <2>1, <2>2
<1>7. CASE Check BY <1>0, <1>1, <1>7, PlayerKeeps DEF Check
<1>8. CASE Drain2
  <2>1. decoded' = decoded BY <1>8 DEF Drain2
  <2> DEFINE upTo(i) == Cardinality({k \in KeysOf(mPlayQueue1) : k <= i})
             kept == {i \in 1..Len(mPlayQueue1) : mPlayQueue1[i].key \/ upTo(i) >= 2}
  <2>2. kept \in SUBSET (1..Len(mPlayQueue1)) OBVIOUS
  <2>3. mPlayQueue1' = [n \in 1..Cardinality(kept) |->
            mPlayQueue1[CHOOSE i \in kept : Cardinality({j \in kept : j <= i}) = n]]
    BY <1>8 DEF Drain2
  <2> HIDE DEF kept
  <2>4. mPlayQueue1' \in Seq(AnyItem) /\ AllGood(mPlayQueue1', faults, mixed)
    BY <1>0, <2>2, <2>3, KeptGood
  <2> QED BY <1>0, <1>1, <2>1, <2>4, PlayerKeeps
<1>9. CASE Take
  <2>1. /\ mPlayQueue1 # <<>> /\ mPlayQueue1' = Tail(mPlayQueue1)
        /\ decoded' = Append(decoded, Head(mPlayQueue1))
    BY <1>9 DEF Take
  <2>2. /\ Tail(mPlayQueue1) \in Seq(AnyItem) /\ AllGood(Tail(mPlayQueue1), faults, mixed)
        /\ Head(mPlayQueue1) \in AnyItem /\ Good(Head(mPlayQueue1), faults, mixed)
    BY <1>0, <2>1, FirstGood
  <2>3. /\ Append(decoded, Head(mPlayQueue1)) \in Seq(AnyItem)
        /\ AllGood(Append(decoded, Head(mPlayQueue1)), faults, mixed)
    BY <1>0, <2>2, AddedGood
  <2> QED BY <1>0, <1>1, <2>1, <2>2, <2>3, PlayerKeeps
<1>10. CASE PlayerCloses
  <2>1. mPlayQueue1' = <<>> /\ decoded' = decoded BY <1>10 DEF PlayerCloses
  <2>2. mPlayQueue1' \in Seq(AnyItem) /\ AllGood(mPlayQueue1', faults, mixed) BY <2>1 DEF AllGood
  <2> QED BY <1>0, <1>1, <2>1, <2>2, PlayerKeeps
<1> QED BY <1>2, <1>3, <1>4, <1>5, <1>6, <1>7, <1>8, <1>9, <1>10 DEF Player, DecodeThread

(* drainFrame() of the receive thread.                                     *)
LEMMA DrainStep ==
    ASSUME IInv, DrainFrame
    PROVE  IInv'
<1>0. /\ mPlayQueue1 \in Seq(AnyItem) /\ AllGood(mPlayQueue1, faults, mixed)
      /\ list \in Seq(AnyItem) /\ AllGood(list, faults, mixed)
  BY DEF IInv, Types, GoodItems
<1>1. /\ UNCHANGED <<encoded, net, faults, count, tempLength, tempData, mixed, decoded>>
      /\ phase' = "loop" /\ list' = <<>>
  BY DEF DrainFrame, clientVars, assemblyVars, playerVars
<1>2. mPlayQueue1' \in Seq(AnyItem) /\ AllGood(mPlayQueue1', faults, mixed)
  <2> DEFINE keys == {i \in 1..Len(list) : list[i].key}
             index == CHOOSE i \in keys : \A j \in keys : j <= i
  <2>1. \/ mPlayQueue1' = mPlayQueue1 \/ mPlayQueue1' = <<>>
        \/ keys # {} /\ mPlayQueue1' = SubSeq(list, 1, index)
    BY DEF DrainFrame
  <2>2. CASE mPlayQueue1' = mPlayQueue1 BY <1>0, <2>2
  <2>3. CASE mPlayQueue1' = <<>> BY <2>3 DEF AllGood
  <2>4. CASE keys # {} /\ mPlayQueue1' = SubSeq(list, 1, index)
    <3>1. Len(list) \in Nat /\ keys \in SUBSET (1..Len(list)) BY <1>0
    <3>2. \E i \in keys : \A j \in keys : j <= i BY <2>4, <3>1, GreatestOf
    <3>3. index \in keys BY <3>2
    <3>4. index \in 1..Len(list) BY <3>1, <3>3
    <3> HIDE DEF index
    <3>5. SubSeq(list, 1, index) \in Seq(AnyItem) /\ AllGood(SubSeq(list, 1, index), faults, mixed)
      BY <1>0, <3>4, PrefixGood
    <3> QED BY <2>4, <3>5
  <2> QED BY <2>1, <2>2, <2>3, <2>4
<1>3. list' \in Seq(AnyItem) /\ AllGood(list', faults, mixed) BY <1>1 DEF AllGood
<1>4. Types' BY <1>1, <1>2, <1>3 DEF IInv, Types
<1>5. GoodItems' BY <1>1, <1>2, <1>3 DEF IInv, GoodItems
<1>6. NotYet' /\ CopyInside' BY <1>1 DEF NotYet, CopyInside, Owner
<1>7. NetInv(net', encoded', faults') BY <1>1 DEF IInv
<1>8. Assembly(net', count', tempLength', tempData', encoded', faults', mixed') BY <1>1 DEF IInv
<1> QED BY <1>4, <1>5, <1>6, <1>7, <1>8 DEF IInv

(* A datagram that the assembly does not count.                            *)
LEMMA NotCounted ==
    ASSUME NEW q \in Seq(AnyDatagram), q # <<>>, NEW c, NEW n, NEW t, NEW m \in Nat, NEW F, NEW M,
           Head(q).length # n \/ ~Head(q).key, Assembly(q, c, n, t, m, F, M)
    PROVE  Assembly(Tail(q), c, n, t, m, F, M)
<1> DEFINE r == Tail(q)
<1>1. /\ r \in Seq(AnyDatagram) /\ Head(q) = q[1]
      /\ \A i \in DOMAIN r : i + 1 \in DOMAIN q /\ r[i] = q[i + 1]
      /\ \A i \in DOMAIN q : i # 1 => i - 1 \in DOMAIN r /\ r[i - 1] = q[i]
  BY Rest
<1> HIDE DEF r
<1>2. \A j \in DOMAIN r : r[j].id \in 1..m => \E i \in DOMAIN q : q[i] = r[j] BY <1>1
<1>3. \A i \in DOMAIN q : q[i].length = n /\ q[i].key => \E j \in DOMAIN r : r[j] = q[i] BY <1>1
<1>4. Later(F, F) /\ m <= m BY DEF Later
<1>5. Assembly(r, c, n, t, m, F, M) BY <1>1, <1>2, <1>3, <1>4, AssemblyKept
<1> QED BY <1>5 DEF r

(* A frame in one datagram, or a block of the set-up.                      *)
LEMMA OneDatagram ==
    ASSUME NEW kind \in {"info", "config", "frame", "raw"}, NEW key \in BOOLEAN,
           NEW n \in Nat \ {0}, n <= LimitData, NEW id \in Nat, NEW F, NEW M, NEW item,
           item = [kind |-> kind, key |-> key, length |-> n, parts |-> <<<<id, 1>>>>]
    PROVE  item \in AnyItem /\ Good(item, F, M)
<1>0. Parts(n) = 1 BY OnePart
<1>1. <<id, 1>> \in Byte BY DEF Byte
<1>2. item.length = n /\ item.parts = <<<<id, 1>>>> OBVIOUS
<1>3. item \in AnyItem BY <1>1 DEF AnyItem
<1>4. Len(item.parts) = 1 /\ item.parts[1] = <<id, 1>> /\ item.parts[1][1] = id BY <1>2
<1>5. \A i \in 1..Len(item.parts) : i = 1 BY <1>4
<1>6. Whole(item) BY <1>0, <1>2, <1>4, <1>5 DEF Whole
<1>7. InPlace(item) BY <1>0, <1>2, <1>4, <1>5 DEF InPlace
<1> QED BY <1>3, <1>6, <1>7 DEF Good

LEMMA PutGood ==
    ASSUME IInv, NEW item \in AnyItem, NEW M, Good(item, faults, M), PutData(item),
           AllGood(mPlayQueue1, faults, M)
    PROVE  mPlayQueue1' \in Seq(AnyItem) /\ AllGood(mPlayQueue1', faults, M)
<1>0. mPlayQueue1 \in Seq(AnyItem) BY DEF IInv, Types
<1>1. CASE queueOpen
  <2>1. mPlayQueue1' = Append(mPlayQueue1, item) BY <1>1 DEF PutData
  <2>2. /\ Append(mPlayQueue1, item) \in Seq(AnyItem)
        /\ AllGood(Append(mPlayQueue1, item), faults, M)
    BY <1>0, AddedGood
  <2> QED BY <2>1, <2>2
<1>2. CASE ~queueOpen BY <1>0, <1>2 DEF PutData
<1> QED BY <1>1, <1>2

(* The receive thread.                                                     *)
LEMMA ServerStep ==
    ASSUME IInv, Server
    PROVE  IInv'
<1>0. /\ encoded \in Nat /\ encoded <= MaxFrames /\ net \in Seq(AnyDatagram)
      /\ NetInv(net, encoded, faults) /\ count \in Nat /\ tempLength \in Nat
      /\ tempData \in Seq(Byte) /\ list \in Seq(AnyItem) /\ AllGood(list, faults, mixed)
      /\ mPlayQueue1 \in Seq(AnyItem) /\ AllGood(mPlayQueue1, faults, mixed)
      /\ Assembly(net, count, tempLength, tempData, encoded, faults, mixed)
      /\ LimitData \in Nat \ {0}
  BY Constants DEF IInv, Types, GoodItems
<1>d. ASSUME net # <<>>
      PROVE  /\ datagram.kind \in {"info", "config", "frame"} /\ datagram.key \in BOOLEAN
             /\ datagram.length \in Nat \ {0} /\ datagram.id \in Nat /\ datagram.count \in Nat
             /\ datagram = Head(net)
  <2>1. Head(net) \in AnyDatagram BY <1>0, <1>d, Rest
  <2> QED BY <2>1 DEF datagram, AnyDatagram
<1>z. \A q, F, M : Assembly(q, 0, 0, <<>>, encoded, F, M) BY DEF Assembly
<1>1. CASE ReceiveInfo
  <2>1. /\ phase = "info" /\ net # <<>> /\ net' = Tail(net) /\ phase' \in {"crashed", "sps"}
        /\ UNCHANGED <<encoded, faults, decoded, count, tempLength, tempData, mixed, list, mPlayQueue1>>
    BY <1>1 DEF ReceiveInfo, Received, clientVars, assemblyVars, playerVars
  <2>2. tempLength = 0 BY <2>1 DEF IInv, NotYet
  <2>3. Assembly(Tail(net), count, tempLength, tempData, encoded, faults, mixed) BY <2>2 DEF Assembly
  <2>4. NotYet' /\ CopyInside' BY <2>1, <2>2 DEF NotYet, CopyInside
  <2> QED BY <1>0, <2>1, <2>3, <2>4, ServerKeeps
<1>2. ASSUME NEW p \in {"sps", "pps"}, NEW connected \in BOOLEAN, ReceiveConfig(p, connected)
      PROVE  IInv'
  <2>1. /\ phase = p /\ net # <<>> /\ net' = Tail(net)
        /\ UNCHANGED <<encoded, faults, decoded, count, tempLength, tempData, mixed, list>>
    BY <1>2 DEF ReceiveConfig, Received, clientVars, assemblyVars, playerVars
  <2>2. tempLength = 0 BY <2>1 DEF IInv, NotYet
  <2>3. Assembly(Tail(net), count, tempLength, tempData, encoded, faults, mixed) BY <2>2 DEF Assembly
  <2>4. CopyInside' BY <1>2 DEF ReceiveConfig, CopyInside
  <2>5. NotYet' BY <2>1, <2>2 DEF NotYet
  <2>6. mPlayQueue1' \in Seq(AnyItem) /\ AllGood(mPlayQueue1', faults, mixed)
    <3>1. CASE datagram.length > LimitData BY <1>0, <1>2, <3>1 DEF ReceiveConfig
    <3>2. CASE ~(datagram.length > LimitData)
      <4> DEFINE kind == IF datagram.kind = "config" THEN "config" ELSE "raw"
                 item == [kind |-> kind, key |-> FALSE, length |-> datagram.length,
                          parts |-> <<<<datagram.id, 1>>>>]
      <4>1. PutData(item) BY <1>2, <3>2 DEF ReceiveConfig
      <4>2. kind \in {"info", "config", "frame", "raw"} /\ datagram.length <= LimitData
        BY <1>0, <1>d, <2>1, <3>2
      <4> HIDE DEF kind
      <4>3. item \in AnyItem /\ Good(item, faults, mixed) BY <1>d, <2>1, <4>2, OneDatagram
      <4> HIDE DEF item
      <4> QED BY <1>0, <4>1, <4>3, PutGood
    <3> QED BY <3>1, <3>2
  <2> QED BY <1>0, <2>1, <2>3, <2>4, <2>5, <2>6, ServerKeeps
<1>3. CASE Abandon
  <2>1. /\ phase = "loop" /\ net # <<>> /\ net' = Tail(net) /\ ~datagram.key
        /\ UNCHANGED <<encoded, faults, decoded, phase, count, tempLength, tempData, mixed, list,
                       mPlayQueue1>>
    BY <1>3 DEF Abandon, Received, Abandoning, clientVars, serverVars, assemblyVars, jniVars,
                playerVars
  <2>2. Assembly(Tail(net), count, tempLength, tempData, encoded, faults, mixed)
    BY <1>0, <1>d, <2>1, NotCounted
  <2>3. NotYet' /\ CopyInside' BY <2>1 DEF NotYet, CopyInside
  <2> QED BY <1>0, <2>1, <2>2, <2>3, ServerKeeps
<1>a. ASSUME Accepted
      PROVE  /\ phase = "loop" /\ net # <<>> /\ net' = Tail(net)
             /\ UNCHANGED <<encoded, faults, decoded>>
  BY <1>a DEF Accepted, Received, clientVars, playerVars
<1>4. CASE ReceiveWhole
  <2>1. /\ Accepted /\ datagram.length <= LimitData /\ ResetAssembly
        /\ UNCHANGED <<phase, list, mixed>>
    BY <1>4 DEF ReceiveWhole
  <2>2. /\ phase = "loop" /\ net # <<>> /\ net' = Tail(net)
        /\ UNCHANGED <<encoded, faults, decoded>>
    BY <1>a, <2>1
  <2> DEFINE item == [kind |-> datagram.kind, key |-> datagram.key, length |-> datagram.length,
                      parts |-> <<<<datagram.id, 1>>>>]
  <2>3. PutData(item) BY <1>4 DEF ReceiveWhole
  <2>4. item \in AnyItem /\ Good(item, faults, mixed) BY <1>d, <2>1, <2>2, OneDatagram
  <2> HIDE DEF item
  <2>5. mPlayQueue1' \in Seq(AnyItem) /\ AllGood(mPlayQueue1', faults, mixed) BY <1>0, <2>3, <2>4, PutGood
  <2>6. count' = 0 /\ tempLength' = 0 /\ tempData' = <<>> BY <2>1 DEF ResetAssembly
  <2>7. Assembly(Tail(net), count', tempLength', tempData', encoded, faults, mixed) BY <1>z, <2>6
  <2>8. NotYet' /\ CopyInside' BY <2>1, <2>2 DEF NotYet, CopyInside
  <2>9. count' \in Nat /\ tempLength' \in Nat /\ tempData' \in Seq(Byte) BY <2>6
  <2>g. /\ mPlayQueue1' \in Seq(AnyItem) /\ list' \in Seq(AnyItem) /\ mixed \subseteq mixed'
        /\ AllGood(mPlayQueue1', faults, mixed') /\ AllGood(list', faults, mixed')
    BY <1>0, <2>1, <2>5
  <2>h. Assembly(Tail(net), count', tempLength', tempData', encoded, faults, mixed') BY <2>1, <2>7
  <2> QED BY <1>0, <2>2, <2>8, <2>9, <2>g, <2>h, ServerKeeps
<1>5. CASE ReceiveFirst
  <2>1. /\ Accepted /\ datagram.length > LimitData /\ datagram.count = 1
        /\ tempLength' = datagram.length /\ count' = 1
        /\ UNCHANGED <<phase, list, mixed, mPlayQueue1>>
        /\ tempData' = [i \in 1..Parts(datagram.length) |->
                            IF i = 1 THEN <<datagram.id, 1>> ELSE <<0, 0>>]
    BY <1>5 DEF ReceiveFirst, IsFirst
  <2>2. /\ phase = "loop" /\ net # <<>> /\ net' = Tail(net)
        /\ UNCHANGED <<encoded, faults, decoded>>
    BY <1>a, <2>1
  <2>3. Assembly(Tail(net), 1, datagram.length, tempData', encoded, faults, mixed)
    BY <1>0, <1>d, <2>1, <2>2, AssemblyBegins DEF Cut
  <2>4. tempData' \in Seq(Byte)
    <3>1. Parts(datagram.length) \in Nat BY <1>d, <2>2, SomePart
    <3>2. tempData' \in [1..Parts(datagram.length) -> Byte] BY <1>d, <2>1, <2>2 DEF Byte
    <3> QED BY <3>1, <3>2, AsSequence
  <2>5. NotYet' /\ CopyInside' BY <2>1, <2>2 DEF NotYet, CopyInside
  <2>6. count' \in Nat /\ tempLength' \in Nat BY <1>d, <2>1, <2>2
  <2>7. Assembly(Tail(net), count', tempLength', tempData', encoded, faults, mixed) BY <2>1, <2>3
  <2>g. /\ mPlayQueue1' \in Seq(AnyItem) /\ list' \in Seq(AnyItem) /\ mixed \subseteq mixed'
        /\ AllGood(mPlayQueue1', faults, mixed') /\ AllGood(list', faults, mixed')
    BY <1>0, <2>1
  <2>h. Assembly(Tail(net), count', tempLength', tempData', encoded, faults, mixed') BY <2>1, <2>7
  <2> QED BY <1>0, <2>2, <2>4, <2>5, <2>6, <2>g, <2>h, ServerKeeps
<1>m. ASSUME Mixing
      PROVE  /\ mixed' = MixedBy(mixed, tempData, datagram, tempLength) /\ mixed \subseteq mixed'
             /\ AllGood(mPlayQueue1, faults, mixed') /\ AllGood(list, faults, mixed')
  <2>1. mixed' = MixedBy(mixed, tempData, datagram, tempLength) BY <1>m DEF Mixing, MixedBy, Owner
  <2>2. mixed \subseteq mixed' BY <2>1 DEF MixedBy
  <2>3. Later(faults, faults) BY DEF Later
  <2> QED BY <1>0, <2>1, <2>2, <2>3, GoodLater
<1>6. CASE ReceiveOutOfStep
  <2>1. /\ Accepted /\ tempLength # 0 /\ tempLength = datagram.length
        /\ datagram.key /\ count + 1 # datagram.count /\ count' = count + 1 /\ Mixing
        /\ UNCHANGED <<phase, tempLength, tempData, list, mPlayQueue1>>
    BY <1>6 DEF ReceiveOutOfStep, Fits, OutOfStep, Counted
  <2>2. /\ phase = "loop" /\ net # <<>> /\ net' = Tail(net)
        /\ UNCHANGED <<encoded, faults, decoded>>
    BY <1>a, <2>1
  <2>m. /\ mixed' = MixedBy(mixed, tempData, datagram, tempLength) /\ mixed \subseteq mixed'
        /\ AllGood(mPlayQueue1, faults, mixed') /\ AllGood(list, faults, mixed')
    BY <1>m, <2>1
  <2>c. PartCounted(count, tempLength, tempData, tempData, datagram) BY <2>1 DEF PartCounted
  <2>d. datagram = Head(net) /\ datagram.length = tempLength BY <1>d, <2>1, <2>2
  <2>n. net \in Seq(AnyDatagram) /\ net # <<>> /\ tempLength \in Nat /\ tempLength # 0
        /\ encoded \in Nat /\ NetInv(net, encoded, faults) /\ count \in Nat
        /\ Assembly(net, count, tempLength, tempData, encoded, faults, mixed)
    BY <1>0, <2>1, <2>2
  <2> DEFINE MM == mixed'
  <2>o. MM = MixedBy(mixed, tempData, datagram, tempLength) BY <2>m
  <2> HIDE DEF MM
  <2>p. Assembly(Tail(net), count + 1, tempLength, tempData, encoded, faults, MM)
    BY <2>c, <2>d, <2>n, <2>o, AssemblyCounts
  <2>3. Assembly(Tail(net), count + 1, tempLength, tempData, encoded, faults, mixed') BY <2>p DEF MM
  <2>4. NotYet' /\ CopyInside' BY <2>1, <2>2 DEF NotYet, CopyInside
  <2>5. count' \in Nat BY <1>0, <2>1
  <2>6. Assembly(Tail(net), count', tempLength', tempData', encoded, faults, mixed') BY <2>1, <2>3
  <2>g. /\ mPlayQueue1' \in Seq(AnyItem) /\ list' \in Seq(AnyItem) /\ mixed \subseteq mixed'
        /\ AllGood(mPlayQueue1', faults, mixed') /\ AllGood(list', faults, mixed')
    BY <1>0, <2>1, <2>m
  <2>h. tempLength' \in Nat /\ tempData' \in Seq(Byte) BY <1>0, <2>1
  <2> QED BY <2>2, <2>4, <2>5, <2>6, <2>g, <2>h, ServerKeeps
<1>7. CASE ReceiveNext
  <2>1. /\ Accepted /\ tempLength # 0 /\ tempLength = datagram.length
        /\ ~(datagram.key /\ count + 1 # datagram.count) /\ count + 1 < Parts(tempLength)
        /\ count' = count + 1 /\ Mixing
        /\ tempData' = [tempData EXCEPT ![count + 1] = <<datagram.id, datagram.count>>]
        /\ UNCHANGED <<phase, tempLength, list, mPlayQueue1>>
    BY <1>7 DEF ReceiveNext, Fits, OutOfStep, Counted, CopyTo
  <2>2. /\ phase = "loop" /\ net # <<>> /\ net' = Tail(net)
        /\ UNCHANGED <<encoded, faults, decoded>>
    BY <1>a, <2>1
  <2>m. /\ mixed' = MixedBy(mixed, tempData, datagram, tempLength) /\ mixed \subseteq mixed'
        /\ AllGood(mPlayQueue1, faults, mixed') /\ AllGood(list, faults, mixed')
    BY <1>m, <2>1
  <2>c. PartCounted(count, tempLength, tempData, tempData', datagram) BY <2>1 DEF PartCounted
  <2>d. datagram = Head(net) /\ datagram.length = tempLength BY <1>d, <2>1, <2>2
  <2>e. tempLength # 0 BY <2>1
  <2>n. net \in Seq(AnyDatagram) /\ net # <<>> /\ tempLength \in Nat /\ tempLength # 0
        /\ encoded \in Nat /\ NetInv(net, encoded, faults) /\ count \in Nat
        /\ Assembly(net, count, tempLength, tempData, encoded, faults, mixed)
    BY <1>0, <2>1, <2>2
  <2> DEFINE MM == mixed'
  <2>o. MM = MixedBy(mixed, tempData, datagram, tempLength) BY <2>m
  <2> HIDE DEF MM
  <2>p. Assembly(Tail(net), count + 1, tempLength, tempData', encoded, faults, MM)
    BY <2>c, <2>d, <2>n, <2>o, AssemblyCounts
  <2>3. Assembly(Tail(net), count + 1, tempLength, tempData', encoded, faults, mixed') BY <2>p DEF MM
  <2>4. NotYet' /\ CopyInside' BY <2>1, <2>2 DEF NotYet, CopyInside
  <2>5. count' \in Nat BY <1>0, <2>1
  <2>6. Assembly(Tail(net), count', tempLength', tempData', encoded, faults, mixed') BY <2>1, <2>3
  <2>7. tempData' \in Seq(Byte)
    <3>1. <<datagram.id, datagram.count>> \in Byte BY <1>d, <2>2 DEF Byte
    <3> QED BY <1>0, <2>1, <3>1, Changed
  <2>g. /\ mPlayQueue1' \in Seq(AnyItem) /\ list' \in Seq(AnyItem) /\ mixed \subseteq mixed'
        /\ AllGood(mPlayQueue1', faults, mixed') /\ AllGood(list', faults, mixed')
    BY <1>0, <2>1, <2>m
  <2>h. tempLength' \in Nat BY <1>0, <2>1
  <2> QED BY <2>2, <2>4, <2>5, <2>6, <2>7, <2>g, <2>h, ServerKeeps
<1>8. CASE ReceiveLast
  <2>1. /\ Accepted /\ tempLength # 0 /\ tempLength = datagram.length
        /\ ~(datagram.key /\ count + 1 # datagram.count) /\ count + 1 >= Parts(tempLength)
        /\ Mixing /\ UNCHANGED list
    BY <1>8 DEF ReceiveLast, Fits, OutOfStep
  <2>2. /\ phase = "loop" /\ net # <<>> /\ net' = Tail(net)
        /\ UNCHANGED <<encoded, faults, decoded>>
    BY <1>a, <2>1
  <2>m. /\ mixed' = MixedBy(mixed, tempData, datagram, tempLength) /\ mixed \subseteq mixed'
        /\ AllGood(mPlayQueue1, faults, mixed') /\ AllGood(list, faults, mixed')
    BY <1>m, <2>1
  <2>d. datagram = Head(net) /\ datagram.length = tempLength BY <1>d, <2>1, <2>2
  <2>a. /\ ~(datagram.key /\ count + 1 # datagram.count) /\ count + 1 >= Parts(tempLength)
        /\ tempLength # 0
    BY <2>1
  <2>n. net \in Seq(AnyDatagram) /\ net # <<>> /\ tempLength \in Nat
        /\ encoded \in Nat /\ NetInv(net, encoded, faults) /\ count \in Nat
        /\ Assembly(net, count, tempLength, tempData, encoded, faults, mixed)
    BY <1>0, <2>2
  <2> DEFINE MM == mixed'
  <2>q. MM = MixedBy(mixed, tempData, datagram, tempLength) BY <2>m
  <2> HIDE DEF MM
  <2>o. \E f \in 1..encoded :
           /\ Begun(count, tempLength, tempData, f)
           /\ f \notin MM => Ending(count, tempLength, tempData, f, datagram, faults)
    BY <2>a, <2>d, <2>n, <2>q, AssemblyEnds
  <2>3. \E f \in 1..encoded :
           /\ Begun(count, tempLength, tempData, f)
           /\ f \notin mixed' => Ending(count, tempLength, tempData, f, datagram, faults)
    BY <2>o DEF MM
  <2>4. PICK f \in 1..encoded :
           /\ Begun(count, tempLength, tempData, f)
           /\ f \notin mixed' => Ending(count, tempLength, tempData, f, datagram, faults)
    BY <2>3
  <2>b. count >= 1 /\ 1 \in DOMAIN tempData /\ tempData[1] = <<f, 1>> /\ tempData[1][1] = f
    BY <2>4 DEF Begun
  <2> DEFINE len == tempLength - count * LimitData
             data == IF len > 0 THEN CopyTo(count + 1) ELSE tempData
             item == [kind |-> "frame", key |-> datagram.key, length |-> tempLength,
                      parts |-> data]
  <2>7. IF len < 0 THEN /\ phase' = "thrown" /\ count' = count + 1
                        /\ UNCHANGED <<tempLength, tempData, mPlayQueue1>>
        ELSE PutData(item) /\ ResetAssembly /\ UNCHANGED phase
    BY <1>8 DEF ReceiveLast, Counted
  <2>e. f \notin mixed' => len > 0 BY <2>4 DEF Ending
  <2>l. len \in Int BY <1>0
  <2> HIDE DEF len
  <2>5. CASE len < 0
    <3>1. f \in mixed' BY <2>e, <2>l, <2>5
    <3>2. /\ phase' = "thrown" /\ count' = count + 1
          /\ UNCHANGED <<tempLength, tempData, mPlayQueue1>>
      BY <2>5, <2>7
    <3>3. CopyInside' BY <2>b, <3>1, <3>2 DEF CopyInside, Owner
    <3>4. NotYet' BY <3>2 DEF NotYet
    <3>5. Begun(count', tempLength', tempData', f)
      BY <1>0, <2>4, <3>2 DEF Begun
    <3>6. Assembly(Tail(net), count', tempLength', tempData', encoded, faults, mixed')
      BY <3>1, <3>5 DEF Assembly
    <3>7. count' \in Nat /\ tempLength' \in Nat /\ tempData' \in Seq(Byte) BY <1>0, <3>2
    <3> QED BY <1>0, <2>1, <2>2, <2>m, <3>2, <3>3, <3>4, <3>6, <3>7, ServerKeeps
  <2>6. CASE ~(len < 0)
    <3>0. PutData(item) /\ ResetAssembly /\ UNCHANGED phase BY <2>6, <2>7
    <3>1. data \in Seq(Byte) /\ 1 \in DOMAIN data /\ data[1] = tempData[1]
      <4>1. CASE len > 0
        <5>1. data = [tempData EXCEPT ![count + 1] = <<datagram.id, datagram.count>>]
          BY <4>1 DEF CopyTo
        <5>2. <<datagram.id, datagram.count>> \in Byte BY <1>d, <2>2 DEF Byte
        <5> HIDE DEF data
        <5>3. data \in Seq(Byte) BY <1>0, <5>1, <5>2, Changed
        <5>4. count + 1 # 1 BY <1>0, <2>b
        <5> QED BY <2>b, <5>1, <5>3, <5>4
      <4>2. CASE ~(len > 0) BY <1>0, <2>b, <4>2
      <4> QED BY <4>1, <4>2
    <3>2. item \in AnyItem
      <4>1. datagram.key \in BOOLEAN /\ tempLength \in Nat \ {0} BY <1>0, <1>d, <2>1, <2>2
      <4>2. \A z \in Seq(Byte) :
               [kind |-> "frame", key |-> datagram.key, length |-> tempLength, parts |-> z] \in AnyItem
        BY <4>1 DEF AnyItem
      <4>3. data \in Seq(Byte) BY <3>1
      <4> HIDE DEF data
      <4> QED BY <4>2, <4>3
    <3>3. Good(item, faults, mixed')
      <4>1. CASE f \in mixed'
        <5>1. IdOf(item) = f BY <2>b, <3>1 DEF IdOf
        <5> QED BY <4>1, <5>1 DEF Good
      <4>2. CASE f \notin mixed'
        <5>1. Ending(count, tempLength, tempData, f, datagram, faults) BY <2>4, <4>2
        <5>2. /\ count + 1 = Parts(tempLength) /\ f \in Nat /\ datagram.id = f
              /\ tempData \in [1..Parts(tempLength) -> Byte]
          BY <5>1 DEF Ending
        <5>3. data = [tempData EXCEPT ![count + 1] = <<f, datagram.count>>]
          BY <2>e, <4>2, <5>2 DEF CopyTo
        <5> HIDE DEF data
        <5>4. Parts(tempLength) \in Nat /\ datagram.count \in Nat BY <1>0, <1>d, <2>1, <2>2, SomePart
        <5>5. count + 1 <= Parts(tempLength) BY <5>2, <5>4
        <5>6. Copied(count, tempLength, tempData, f, datagram.count, data)
          BY <1>0, <2>b, <5>2, <5>3, <5>4, <5>5, FillNext
        <5>7. tempLength \in Nat \ {0} BY <1>0, <2>1
        <5> QED BY <1>0, <5>1, <5>6, <5>7, EndIsGood
      <4> QED BY <4>1, <4>2
    <3> HIDE DEF item, data
    <3>4. mPlayQueue1' \in Seq(AnyItem) /\ AllGood(mPlayQueue1', faults, mixed')
      BY <2>m, <3>0, <3>2, <3>3, PutGood
    <3>5. count' = 0 /\ tempLength' = 0 /\ tempData' = <<>> BY <3>0 DEF ResetAssembly
    <3>6. Assembly(Tail(net), count', tempLength', tempData', encoded, faults, mixed') BY <1>z, <3>5
    <3>7. NotYet' /\ CopyInside' BY <2>2, <3>0 DEF NotYet, CopyInside
    <3>8. count' \in Nat /\ tempLength' \in Nat /\ tempData' \in Seq(Byte) BY <3>5
    <3> QED BY <1>0, <2>1, <2>2, <2>m, <3>4, <3>6, <3>7, <3>8, ServerKeeps
  <2> QED BY <2>5, <2>6
<1>9. CASE ReceiveStray
  <2>1. /\ phase = "loop" /\ net # <<>> /\ net' = Tail(net)
        /\ datagram.length > LimitData /\ ~(tempLength # 0 /\ tempLength = datagram.length)
        /\ phase' \in {"loop", "drain"} /\ list' \in {list, mPlayQueue1}
        /\ UNCHANGED <<encoded, faults, decoded, count, tempLength, tempData, mixed, mPlayQueue1>>
    BY <1>9 DEF ReceiveStray, Received, IsLater, Fits, clientVars, assemblyVars, jniVars,
                playerVars
  <2>2. datagram.length # tempLength BY <1>0, <1>d, <2>1
  <2>3. Assembly(Tail(net), count, tempLength, tempData, encoded, faults, mixed)
    BY <1>0, <1>d, <2>1, <2>2, NotCounted
  <2>4. NotYet' /\ CopyInside' BY <2>1 DEF NotYet, CopyInside
  <2>5. list' \in Seq(AnyItem) /\ AllGood(list', faults, mixed) BY <1>0, <2>1
  <2> QED BY <1>0, <2>1, <2>3, <2>4, <2>5, ServerKeeps
<1>10. CASE DrainFrame BY <1>10, DrainStep
<1> QED BY <1>1, <1>2, <1>3, <1>4, <1>5, <1>6, <1>7, <1>8, <1>9, <1>10 DEF Server

-----------------------------------------------------------------------------
(* The theorems.                                                           *)

LEMMA InvInit ==
    ASSUME Init
    PROVE  IInv
<1>1. Types BY Constants DEF Init, Types, FaultKinds
<1>2. NetInv(net, encoded, faults)
  BY DEF Init, NetInv, NetSane, NetOrdered, NetGapless
<1>3. Assembly(net, count, tempLength, tempData, encoded, faults, mixed) /\ NotYet /\ CopyInside
  BY DEF Init, Assembly, NotYet, CopyInside
<1>4. GoodItems BY DEF Init, GoodItems, AllGood
<1> QED BY <1>1, <1>2, <1>3, <1>4 DEF IInv

LEMMA InvStep ==
    ASSUME IInv, [Next]_vars
    PROVE  IInv'
<1>1. CASE Next
  BY <1>1, ClientStep, NetworkStep, ServerStep, PlayerSteps DEF Next
<1>2. CASE UNCHANGED vars
  <2>1. UNCHANGED <<encoded, net, faults, phase, count, tempLength, tempData, mixed, list, mPlayQueue1,
                    decoded>>
    BY <1>2 DEF vars, clientVars, serverVars, assemblyVars, jniVars, playerVars
  <2> QED BY <2>1, PlayerKeeps DEF IInv, Types, GoodItems
<1> QED BY <1>1, <1>2

(* What the invariant says of the frames that were put together.           *)
LEMMA InvGood ==
    ASSUME IInv
    PROVE  CopyInside /\ WholeFrames /\ KeyFramesWhole
<1>1. Only({"lose"}) <=> Losing(faults) BY DEF Only, Losing
<1>2. Only({"duplicate"}) <=> Repeating(faults) BY DEF Only, Repeating
<1>3. ASSUME NEW q \in {mPlayQueue1, decoded}, NEW i \in 1..Len(q), Unmixed(q, i)
      PROVE  /\ Good(q[i], faults, mixed) /\ q[i].kind = "frame"
             /\ IdOf(q[i]) \notin mixed
  <2>1. q \in Seq(AnyItem) /\ AllGood(q, faults, mixed) BY DEF IInv, Types, GoodItems
  <2>2. i \in DOMAIN q BY <2>1
  <2> QED BY <1>3, <2>1, <2>2 DEF AllGood, Unmixed, FrameIn
<1>4. WholeFrames BY <1>1, <1>3 DEF WholeFrames, Good
<1>5. KeyFramesWhole BY <1>2, <1>3 DEF KeyFramesWhole, Good
<1> QED BY <1>4, <1>5 DEF IInv

LEMMA Invariant == Spec => []IInv
<1>1. Init => IInv BY InvInit
<1>2. IInv /\ [Next]_vars => IInv' BY InvStep
<1> QED BY <1>1, <1>2, PTL DEF Spec

(* Whatever the network loses, repeats or reorders and whatever the sizes  *)
(* of the frames, receiveDataForUDP() copies a part beyond the buffer of   *)
(* its frame, and ends the cast, only after it has counted a part of       *)
(* another frame of the same size for it.                                  *)
THEOREM CopySafe == Spec => []CopyInside
<1>1. IInv => CopyInside BY InvGood
<1> QED BY <1>1, Invariant, PTL

(* When the network only loses datagrams, every frame that reaches the     *)
(* play queue or the decoder has all the parts of one encoded frame, each  *)
(* in its place, unless a part of another frame of the same size was       *)
(* counted for it.                                                         *)
THEOREM WholeSafe == Spec => []WholeFrames
<1>1. IInv => WholeFrames BY InvGood
<1> QED BY <1>1, Invariant, PTL

(* Unless a part of another frame of the same size was counted for it, the *)
(* parts of a key frame are in their own places whatever the network does, *)
(* and all there when it only repeats datagrams: the check of the          *)
(* datagram's number in receiveDataForUDP() does its work.                 *)
THEOREM KeyFramesSafe == Spec => []KeyFramesWhole
<1>1. IInv => KeyFramesWhole BY InvGood
<1> QED BY <1>1, Invariant, PTL

-----------------------------------------------------------------------------
(* Groups of pictures on a network without faults: nothing is assumed of   *)
(* the sizes of the frames here, and the player may drop frames.           *)

(* The types, once more without the assumption on sizes.                   *)
MoreTypes == Types /\ config \in Seq(AnyItem)

Clear(F) == \A kind \in FaultKinds : F[kind] = 0
LastOf(x, q) == IF q = <<>> THEN x ELSE q[Len(q)]

(* The datagrams of a frame are numbered, and the frames behind the first  *)
(* key frame, which follows the set-up, are sent without a gap.            *)
Framed(d) == d.kind = "frame"
Begins(d) == d.length <= LimitData \/ d.count = 1
Ends(d) == d.length <= LimitData \/ d.count >= Parts(d.length)
Follows(a, b) ==
    Framed(b) =>
        IF ~Framed(a) THEN Begins(b) /\ b.key
        ELSE IF Ends(a) THEN Begins(b) /\ b.id = a.id + 1
        ELSE b.id = a.id /\ b.key = a.key /\ b.length = a.length /\ b.count = a.count + 1
Flowing(w, q) ==
    /\ q # <<>> => Follows(w, q[1])
    /\ \A i \in DOMAIN q : i # 1 => Follows(q[i - 1], q[i])

(* How much of the set-up was sent and received; it precedes the frames.   *)
SetupSent(c) == IF c = "info" THEN 0 ELSE IF c = "sps" THEN 1 ELSE IF c = "pps" THEN 2 ELSE 3
SetupReceived(p) == IF p = "info" THEN 0 ELSE IF p = "sps" THEN 1 ELSE IF p = "pps" THEN 2 ELSE 3
Placed(q, s, r) ==
    /\ IF s < 3 THEN r + Len(q) = s ELSE r + Len(q) >= 3
    /\ \A i \in DOMAIN q : Framed(q[i]) <=> r + i > 3

(* The datagram sent last, and the one received last.                      *)
ClientAt(z, c, k, m) ==
    c # "closed" => IF k THEN Framed(z) /\ Ends(z) /\ z.id = m ELSE ~Framed(z)
ServerAt(w, p, c, n, t) ==
    /\ p # "loop" => n = 0 /\ ~Framed(w)
    /\ n = 0 => (Framed(w) => Ends(w))
    /\ n # 0 => /\ Framed(w) /\ ~Ends(w) /\ w.length = n /\ w.count = c /\ c >= 1
                /\ 1 \in DOMAIN t /\ t[1][1] = w.id

(* What is fed and queued is in order: a frame that is not a key frame     *)
(* comes right behind its predecessor.                                     *)
Nothing == [kind |-> "config", key |-> FALSE, length |-> 1, parts |-> <<>>]
Succeeds(a, b) ==
    b.kind = "frame" /\ ~b.key => a.kind = "frame" /\ IdOf(a) = IdOf(b) - 1
Chained(x, q) ==
    /\ q # <<>> => Succeeds(x, q[1])
    /\ \A i \in DOMAIN q : i # 1 => Succeeds(q[i - 1], q[i])

(* The frame put last and the datagram received last.                      *)
Linked(x, w) ==
    Framed(w) => IF Ends(w) THEN x.kind = "frame" /\ IdOf(x) = w.id
                 ELSE w.key \/ (x.kind = "frame" /\ IdOf(x) = w.id - 1)

(* The first two blocks, taken or still queued, are the two of the set-up. *)
Lead(c, q) ==
    /\ \A i \in DOMAIN c : c[i].kind = "config"
    /\ \A i \in DOMAIN q : Len(c) + i <= 2 => q[i].kind = "config"
Supplied(p, c, q) == p # "closed" /\ Len(c) + Len(q) >= 2

Stages ==
    /\ setInfo # "none" => player = "none" /\ phase # "info"
    /\ phase = "info" => player = "none"
    /\ queueOpen <=> player \notin {"none", "closed"}
    /\ ~queueOpen => mPlayQueue1 = <<>>
    /\ player \in {"none", "prepare"} => config = <<>>
    /\ player = "prepare2" => Len(config) = 1
    /\ player \in {"start", "drain", "check", "drain2", "take", "closed"} => Len(config) = 2
    /\ decoded # <<>> => Len(config) = 2
    /\ player \in {"none", "prepare", "prepare2", "start"} => decoded = <<>>

KeyGate == mIsKeyFrameWrite \in BOOLEAN /\ (client \notin {"frames", "closed"} => ~mIsKeyFrameWrite)
Peaceful == phase # "drain" /\ ~needToAbandon
FirstIsKey(p, q) == p \in {"check", "drain2"} => q # <<>> /\ q[1].key
InOrder(c, d, q) == Lead(c, q) => Chained(Nothing, d) /\ Chained(LastOf(Nothing, d), q)
LastPut(c, d, q, p, w) == Lead(c, q) /\ Supplied(p, c, q) => Linked(LastOf(LastOf(Nothing, d), q), w)
Stream(w) ==
    /\ ServerAt(w, phase, count, tempLength, tempData) /\ Flowing(w, net)
    /\ ClientAt(LastOf(w, net), client, mIsKeyFrameWrite, encoded)
    /\ LastPut(config, decoded, mPlayQueue1, player, w)
Listening(p) == p \in {"info", "sps", "pps", "loop"}

Undisturbed ==
    /\ Peaceful /\ FirstIsKey(player, mPlayQueue1) /\ InOrder(config, decoded, mPlayQueue1)
    /\ Listening(phase) => /\ Placed(net, SetupSent(client), SetupReceived(phase))
                           /\ \E w \in AnyDatagram : Stream(w)

Base == MoreTypes /\ Stages /\ KeyGate
GInv == Base /\ (Clear(faults) => Undisturbed)

(* The second pass of drainFrame(queue, takeCount) over a queue in which a *)
(* frame has come in behind the only key frame since the first pass: that  *)
(* frame is dropped and its successors are not.                            *)
OpenGop ==
    /\ player = "drain2"
    /\ Cardinality(KeysOf(mPlayQueue1)) < 2 /\ ~mPlayQueue1[Len(mPlayQueue1)].key
SecondPassLate == OpenGop /\ player' = "take"
(* The stream of datagrams.                                                *)
LEMMA TailFlows ==
    ASSUME NEW q \in Seq(AnyDatagram), q # <<>>, NEW w, Flowing(w, q)
    PROVE  /\ Follows(w, Head(q)) /\ Flowing(Head(q), Tail(q))
           /\ LastOf(Head(q), Tail(q)) = LastOf(w, q)
<1> DEFINE r == Tail(q)
<1>1. /\ r \in Seq(AnyDatagram) /\ Head(q) = q[1] /\ 1 \in DOMAIN q
      /\ \A i \in DOMAIN r : i \in Nat /\ i + 1 \in DOMAIN q /\ 1 < i + 1 /\ r[i] = q[i + 1]
  BY Rest
<1>a. Len(q) \in Nat /\ Len(r) = Len(q) - 1 OBVIOUS
<1> HIDE DEF r
<1>b. Len(r) \in Nat /\ DOMAIN r = 1..Len(r) /\ (r = <<>> <=> Len(r) = 0) BY <1>1
<1>2. /\ Len(q) \in Nat /\ Len(r) = Len(q) - 1 /\ Len(r) \in Nat /\ (r = <<>> <=> Len(r) = 0)
      /\ (r # <<>> => Len(r) \in DOMAIN r) /\ \A i \in DOMAIN r : i >= 1
  BY <1>a, <1>b
<1>3. r # <<>> => 1 \in DOMAIN r BY <1>b
<1>4. Follows(w, Head(q)) BY <1>1 DEF Flowing
<1>5. r # <<>> => Follows(Head(q), r[1])
  <2>1. ASSUME r # <<>> PROVE Follows(Head(q), r[1])
    <3>1. 1 + 1 \in DOMAIN q /\ 1 + 1 # 1 /\ r[1] = q[1 + 1] /\ (1 + 1) - 1 = 1 BY <1>1, <1>3, <2>1
    <3> QED BY <1>1, <3>1 DEF Flowing
  <2> QED BY <2>1
<1>6. ASSUME NEW i \in DOMAIN r, i # 1 PROVE Follows(r[i - 1], r[i])
  <2>1. i - 1 \in DOMAIN r BY <1>b, <1>6
  <2>2. i \in Nat /\ i + 1 \in DOMAIN q /\ i + 1 # 1 /\ (i + 1) - 1 = i /\ (i - 1) + 1 = i BY <1>1
  <2>3. r[i] = q[i + 1] /\ r[i - 1] = q[i] BY <1>1, <2>1, <2>2
  <2> QED BY <2>2, <2>3 DEF Flowing
<1>7. Flowing(Head(q), r) BY <1>5, <1>6 DEF Flowing
<1>8. LastOf(Head(q), r) = LastOf(w, q)
  <2>1. CASE r = <<>>
    <3>1. Len(q) = 1 BY <1>2, <2>1
    <3> QED BY <1>1, <2>1, <3>1 DEF LastOf
  <2>2. CASE r # <<>>
    <3>1. r[Len(r)] = q[Len(r) + 1] /\ Len(r) + 1 = Len(q) BY <1>1, <1>2, <2>2
    <3> QED BY <2>2, <3>1 DEF LastOf
  <2> QED BY <2>1, <2>2
<1> QED BY <1>4, <1>7, <1>8 DEF r

LEMMA GrownFlows ==
    ASSUME NEW q \in Seq(AnyDatagram), NEW e \in Seq(AnyDatagram), NEW w, Flowing(w, q),
           Flowing(LastOf(w, q), e)
    PROVE  Flowing(w, q \o e) /\ LastOf(w, q \o e) = LastOf(LastOf(w, q), e)
<1> DEFINE r == q \o e
           l == Len(q)
<1>1. /\ l \in Nat /\ r \in Seq(AnyDatagram) /\ Len(r) = l + Len(e) /\ Len(e) \in Nat
      /\ DOMAIN q = 1..l /\ DOMAIN e = 1..Len(e) /\ DOMAIN r = 1..(l + Len(e))
      /\ (q = <<>> <=> l = 0) /\ (e = <<>> <=> Len(e) = 0) /\ (r = <<>> <=> l + Len(e) = 0)
  OBVIOUS
<1>2. /\ \A i \in DOMAIN q : r[i] = q[i]
      /\ \A c \in DOMAIN e : r[l + c] = e[c]
  BY Joined
<1> HIDE DEF r, l
<1>3. ASSUME NEW i \in DOMAIN r, i # 1 PROVE Follows(r[i - 1], r[i])
  <2>1. CASE i <= l
    <3>1. i \in DOMAIN q /\ i - 1 \in DOMAIN q BY <1>1, <1>3, <2>1
    <3> QED BY <1>2, <1>3, <3>1 DEF Flowing
  <2>2. CASE i = l + 1
    <3>1. 1 \in DOMAIN e /\ l \in DOMAIN q /\ e # <<>> /\ q # <<>> /\ i - 1 = l BY <1>1, <1>3, <2>2
    <3>2. r[i] = e[1] /\ r[i - 1] = q[l] BY <1>2, <2>2, <3>1
    <3> QED BY <3>1, <3>2 DEF Flowing, LastOf, l
  <2>3. CASE i > l + 1
    <3>1. PICK c \in Nat : i = l + c BY <1>1, <2>3, Difference
    <3>2. c \in DOMAIN e /\ c # 1 /\ c - 1 \in DOMAIN e /\ i - 1 = l + (c - 1) BY <1>1, <2>3, <3>1
    <3>3. r[i] = e[c] /\ r[i - 1] = e[c - 1] BY <1>2, <3>1, <3>2
    <3> QED BY <3>2, <3>3 DEF Flowing
  <2> QED BY <1>1, <2>1, <2>2, <2>3
<1>4. r # <<>> => Follows(w, r[1])
  <2>1. CASE q # <<>>
    <3>1. 1 \in DOMAIN q BY <1>1, <2>1
    <3> QED BY <1>2, <2>1, <3>1 DEF Flowing
  <2>2. CASE q = <<>> /\ e # <<>>
    <3>1. 1 \in DOMAIN e /\ l + 1 = 1 BY <1>1, <2>2
    <3>2. r[1] = e[1] BY <1>2, <3>1
    <3> QED BY <2>2, <3>2 DEF Flowing, LastOf
  <2>3. CASE q = <<>> /\ e = <<>> BY <1>1, <2>3
  <2> QED BY <2>1, <2>2, <2>3
<1>5. LastOf(w, r) = LastOf(LastOf(w, q), e)
  <2>1. CASE e = <<>>
    <3>1. Len(r) = l /\ (r = <<>> <=> q = <<>>) BY <1>1, <2>1
    <3>2. q # <<>> => l \in DOMAIN q BY <1>1
    <3> QED BY <1>2, <2>1, <3>1, <3>2 DEF LastOf, l
  <2>2. CASE e # <<>>
    <3>1. Len(e) \in DOMAIN e /\ r # <<>> BY <1>1, <2>2
    <3>2. r[Len(r)] = e[Len(e)] BY <1>1, <1>2, <3>1
    <3> QED BY <2>2, <3>1, <3>2 DEF LastOf
  <2> QED BY <2>1, <2>2
<1>6. Flowing(w, r) BY <1>3, <1>4 DEF Flowing
<1> QED BY <1>5, <1>6 DEF r

(* A frame that is sent: all its parts, or the first of them.              *)
Opens(z, id, key) == IF Framed(z) THEN Ends(z) /\ id = z.id + 1 ELSE key

LEMMA BurstFlows ==
    ASSUME NEW id \in Nat, NEW key \in BOOLEAN, NEW n \in Nat \ {0}, NEW z, Opens(z, id, key),
           NEW e, e = Datagrams(id, key, n)
    PROVE  /\ e \in Seq(AnyDatagram) /\ Flowing(z, e) /\ \A c \in DOMAIN e : Framed(e[c])
           /\ LET y == LastOf(z, e) IN Framed(y) /\ Ends(y) /\ y.id = id
<1>0. LimitData \in Nat \ {0} /\ Parts(n) \in Nat \ {0} BY Constants, SomePart
<1>b. IsBurst(e, id, key, n) /\ Len(e) = Parts(n) BY Burst
<1>1. /\ e \in Seq(AnyDatagram)
      /\ \A c \in DOMAIN e : /\ Framed(e[c]) /\ e[c].id = id /\ e[c].key = key /\ e[c].length = n
                             /\ n > LimitData => e[c].count = c
  BY <1>b DEF IsBurst, Framed
<1>2. DOMAIN e = 1..Parts(n) /\ e # <<>> BY <1>0, <1>b, <1>1
<1>3. 1 \in DOMAIN e /\ Parts(n) \in DOMAIN e BY <1>0, <1>2
<1>4. Begins(e[1]) /\ Ends(e[Parts(n)])
  <2>1. CASE n <= LimitData BY <1>1, <1>3, <2>1 DEF Begins, Ends
  <2>2. CASE n > LimitData
    <3>1. e[1].count = 1 /\ e[Parts(n)].count = Parts(n) /\ e[Parts(n)].length = n BY <1>1, <1>3, <2>2
    <3>2. Parts(n) >= Parts(n) BY <1>0
    <3> QED BY <3>1, <3>2 DEF Begins, Ends
  <2> QED BY <1>0, <2>1, <2>2
<1>5. Follows(z, e[1]) BY <1>1, <1>3, <1>4 DEF Follows, Opens
<1>6. ASSUME NEW c \in DOMAIN e, c # 1 PROVE Follows(e[c - 1], e[c])
  <2>1. c - 1 \in DOMAIN e /\ c \in Nat /\ c - 1 \in Nat /\ c <= Parts(n) /\ 2 <= c
    BY <1>0, <1>2, <1>6
  <2>2. n > LimitData
    <3>1. CASE n <= LimitData
      <4>1. Parts(n) = 1 BY <3>1, OnePart
      <4> QED BY <2>1, <4>1
    <3> QED BY <1>0, <3>1
  <2>3. e[c].count = c /\ e[c - 1].count = c - 1 BY <1>1, <2>1, <2>2
  <2>4. c = (c - 1) + 1 /\ ~(c - 1 >= Parts(n)) /\ ~(n <= LimitData) BY <1>0, <2>1, <2>2
  <2>5. ~Ends(e[c - 1]) BY <1>1, <2>1, <2>3, <2>4 DEF Ends
  <2> QED BY <1>1, <2>1, <2>3, <2>4, <2>5 DEF Follows
<1>7. Flowing(z, e) BY <1>5, <1>6 DEF Flowing
<1>8. LastOf(z, e) = e[Parts(n)] BY <1>2, <1>b DEF LastOf
<1> QED BY <1>1, <1>3, <1>4, <1>7, <1>8

LEMMA PrefixFlows ==
    ASSUME NEW e \in Seq(AnyDatagram), NEW x \in Nat, x <= Len(e), NEW z, Flowing(z, e),
           \A c \in DOMAIN e : Framed(e[c]), NEW r, r = SubSeq(e, 1, x)
    PROVE  r \in Seq(AnyDatagram) /\ Flowing(z, r) /\ \A c \in DOMAIN r : Framed(r[c])
<1>1. /\ r \in Seq(AnyDatagram) /\ DOMAIN r = 1..x /\ Len(r) = x
      /\ \A i \in 1..x : i \in DOMAIN e /\ r[i] = e[i]
  BY Prefix
<1>2. r # <<>> => 1 \in 1..x BY <1>1
<1>3. e # <<>> \/ x = 0 OBVIOUS
<1>4. r # <<>> => Follows(z, r[1]) BY <1>1, <1>2, <1>3 DEF Flowing
<1>5. ASSUME NEW i \in DOMAIN r, i # 1 PROVE Follows(r[i - 1], r[i])
  <2>1. i \in 1..x /\ i - 1 \in 1..x BY <1>1, <1>5
  <2> QED BY <1>1, <1>5, <2>1 DEF Flowing
<1>6. Flowing(z, r) BY <1>4, <1>5 DEF Flowing
<1> QED BY <1>1, <1>6

(* Where the set-up ends.                                                  *)
LEMMA TailPlaced ==
    ASSUME NEW q \in Seq(AnyDatagram), q # <<>>, NEW s \in 0..3, NEW r \in 0..3, Placed(q, s, r)
    PROVE  /\ r = 3 => Framed(Head(q)) /\ Placed(Tail(q), s, 3)
           /\ r < 3 => ~Framed(Head(q)) /\ Placed(Tail(q), s, r + 1)
<1> DEFINE t == Tail(q)
<1>1. /\ t \in Seq(AnyDatagram) /\ Head(q) = q[1] /\ 1 \in DOMAIN q
      /\ \A i \in DOMAIN t : i \in Nat /\ i + 1 \in DOMAIN q /\ 1 < i + 1 /\ t[i] = q[i + 1]
  BY Rest
<1>2. Len(q) \in Nat /\ Len(q) >= 1 /\ Len(t) = Len(q) - 1 /\ Len(t) \in Nat OBVIOUS
<1>3. \A i \in DOMAIN t : i >= 1 OBVIOUS
<1> HIDE DEF t
<1>4. Framed(Head(q)) <=> r + 1 > 3 BY <1>1 DEF Placed
<1>5. \A i \in DOMAIN t : Framed(t[i]) <=> r + (i + 1) > 3 BY <1>1 DEF Placed
<1>6. IF s < 3 THEN r + Len(q) = s ELSE r + Len(q) >= 3 BY DEF Placed
<1>7. CASE r = 3
  <2>1. \A i \in DOMAIN t : Framed(t[i]) <=> 3 + i > 3
    <3> SUFFICES ASSUME NEW i \in DOMAIN t PROVE Framed(t[i]) <=> 3 + i > 3 OBVIOUS
    <3>1. i \in Nat /\ i >= 1 BY <1>1, <1>3
    <3>2. r + (i + 1) > 3 /\ 3 + i > 3 BY <1>7, <3>1
    <3> QED BY <1>5, <3>2
  <2>2. IF s < 3 THEN 3 + Len(t) = s ELSE 3 + Len(t) >= 3 BY <1>2, <1>6, <1>7
  <2>3. Placed(t, s, 3) BY <2>1, <2>2 DEF Placed
  <2>4. Framed(Head(q)) BY <1>4, <1>7
  <2> QED BY <1>7, <2>3, <2>4 DEF t
<1>8. CASE r < 3
  <2>1. \A i \in DOMAIN t : Framed(t[i]) <=> (r + 1) + i > 3
    <3> SUFFICES ASSUME NEW i \in DOMAIN t PROVE Framed(t[i]) <=> (r + 1) + i > 3 OBVIOUS
    <3>1. i \in Nat BY <1>1
    <3>2. r + (i + 1) > 3 <=> (r + 1) + i > 3 BY <3>1
    <3> QED BY <1>5, <3>2
  <2>2. IF s < 3 THEN (r + 1) + Len(t) = s ELSE (r + 1) + Len(t) >= 3 BY <1>2, <1>6, <1>8
  <2>3. Placed(t, s, r + 1) BY <2>1, <2>2 DEF Placed
  <2>4. ~Framed(Head(q)) BY <1>4, <1>8
  <2> QED BY <1>8, <2>3, <2>4 DEF t
<1> QED BY <1>7, <1>8

LEMMA GrownPlaced ==
    ASSUME NEW q \in Seq(AnyDatagram), NEW e \in Seq(AnyDatagram), NEW s \in 0..3, NEW ss \in 0..3,
           NEW r \in 0..3, Placed(q, s, r),
           \/ s = 3 /\ ss = 3 /\ \A c \in DOMAIN e : Framed(e[c])
           \/ s < 3 /\ ss = s + 1 /\ Len(e) = 1 /\ ~Framed(e[1])
    PROVE  Placed(q \o e, ss, r)
<1> DEFINE t == q \o e
           l == Len(q)
<1>1. /\ l \in Nat /\ t \in Seq(AnyDatagram)
      /\ \A i \in DOMAIN q : t[i] = q[i]
      /\ \A i \in DOMAIN t : \/ i \in DOMAIN q
                             \/ i - l \in DOMAIN e /\ t[i] = e[i - l] /\ i \in Nat /\ i > l
  BY Joined
<1>2. Len(t) = l + Len(e) /\ Len(e) \in Nat /\ DOMAIN e = 1..Len(e) OBVIOUS
<1> HIDE DEF t
<1>3. IF s < 3 THEN r + l = s ELSE r + l >= 3 BY DEF Placed, l
<1> HIDE DEF l
<1>4. IF ss < 3 THEN r + Len(t) = ss ELSE r + Len(t) >= 3 BY <1>1, <1>2, <1>3
<1>5. ASSUME NEW i \in DOMAIN t PROVE Framed(t[i]) <=> r + i > 3
  <2>1. CASE i \in DOMAIN q BY <1>1, <2>1 DEF Placed
  <2>2. CASE i - l \in DOMAIN e /\ t[i] = e[i - l] /\ i \in Nat /\ i > l
    <3>1. CASE s = 3 /\ ss = 3 /\ \A c \in DOMAIN e : Framed(e[c])
      <4>1. r + i > 3 BY <1>1, <1>3, <2>2, <3>1
      <4>2. Framed(t[i]) BY <2>2, <3>1
      <4> QED BY <4>1, <4>2
    <3>2. CASE s < 3 /\ ss = s + 1 /\ Len(e) = 1 /\ ~Framed(e[1])
      <4>1. i - l = 1 BY <1>1, <1>2, <2>2, <3>2
      <4>2. ~Framed(t[i]) BY <2>2, <3>2, <4>1
      <4>3. ~(r + i > 3) BY <1>1, <1>3, <2>2, <3>2, <4>1
      <4> QED BY <4>2, <4>3
    <3> QED BY <3>1, <3>2
  <2> QED BY <1>1, <2>1, <2>2
<1>6. Placed(t, ss, r) BY <1>4, <1>5 DEF Placed
<1> QED BY <1>6 DEF t

(* What is queued.                                                         *)
LEMMA TailChained ==
    ASSUME NEW q \in Seq(AnyItem), q # <<>>, NEW x, Chained(x, q)
    PROVE  /\ Succeeds(x, Head(q)) /\ Chained(Head(q), Tail(q))
           /\ LastOf(Head(q), Tail(q)) = LastOf(x, q)
<1> DEFINE r == Tail(q)
<1>1. /\ r \in Seq(AnyItem) /\ Head(q) = q[1] /\ 1 \in DOMAIN q
      /\ \A i \in DOMAIN r : i \in Nat /\ i + 1 \in DOMAIN q /\ 1 < i + 1 /\ r[i] = q[i + 1]
  BY Rest
<1>a. Len(q) \in Nat /\ Len(r) = Len(q) - 1 OBVIOUS
<1> HIDE DEF r
<1>b. Len(r) \in Nat /\ DOMAIN r = 1..Len(r) /\ (r = <<>> <=> Len(r) = 0) BY <1>1
<1>2. /\ Len(q) \in Nat /\ Len(r) = Len(q) - 1 /\ Len(r) \in Nat /\ (r = <<>> <=> Len(r) = 0)
      /\ (r # <<>> => Len(r) \in DOMAIN r) /\ \A i \in DOMAIN r : i >= 1
  BY <1>a, <1>b
<1>3. r # <<>> => 1 \in DOMAIN r BY <1>b
<1>4. Succeeds(x, Head(q)) BY <1>1 DEF Chained
<1>5. r # <<>> => Succeeds(Head(q), r[1])
  <2>1. ASSUME r # <<>> PROVE Succeeds(Head(q), r[1])
    <3>1. 1 + 1 \in DOMAIN q /\ 1 + 1 # 1 /\ r[1] = q[1 + 1] /\ (1 + 1) - 1 = 1 BY <1>1, <1>3, <2>1
    <3> QED BY <1>1, <3>1 DEF Chained
  <2> QED BY <2>1
<1>6. ASSUME NEW i \in DOMAIN r, i # 1 PROVE Succeeds(r[i - 1], r[i])
  <2>1. i - 1 \in DOMAIN r BY <1>b, <1>6
  <2>2. i \in Nat /\ i + 1 \in DOMAIN q /\ i + 1 # 1 /\ (i + 1) - 1 = i /\ (i - 1) + 1 = i BY <1>1
  <2>3. r[i] = q[i + 1] /\ r[i - 1] = q[i] BY <1>1, <2>1, <2>2
  <2> QED BY <2>2, <2>3 DEF Chained
<1>7. Chained(Head(q), r) BY <1>5, <1>6 DEF Chained
<1>8. LastOf(Head(q), r) = LastOf(x, q)
  <2>1. CASE r = <<>>
    <3>1. Len(q) = 1 BY <1>2, <2>1
    <3> QED BY <1>1, <2>1, <3>1 DEF LastOf
  <2>2. CASE r # <<>>
    <3>1. r[Len(r)] = q[Len(r) + 1] /\ Len(r) + 1 = Len(q) BY <1>1, <1>2, <2>2
    <3> QED BY <2>2, <3>1 DEF LastOf
  <2> QED BY <2>1, <2>2
<1> QED BY <1>4, <1>7, <1>8 DEF r

LEMMA Appended ==
    ASSUME NEW S, NEW q \in Seq(S), NEW y \in S, NEW r, r = Append(q, y)
    PROVE  /\ r \in Seq(S) /\ Len(q) \in Nat /\ Len(r) = Len(q) + 1 /\ r # <<>>
           /\ DOMAIN q = 1..Len(q) /\ DOMAIN r = 1..(Len(q) + 1)
           /\ (q = <<>> <=> Len(q) = 0)
           /\ r[Len(q) + 1] = y /\ \A i \in DOMAIN q : i \in DOMAIN r /\ r[i] = q[i]
  OBVIOUS

LEMMA LastPlace ==
    ASSUME NEW l \in Nat, NEW i \in 1..(l + 1)
    PROVE  i \in 1..l \/ i = l + 1
  OBVIOUS

LEMMA Shifted ==
    ASSUME NEW z \in Nat, NEW k \in Nat, NEW i \in 1..z, i # 1
    PROVE  i - 1 \in 1..z /\ k + i # 1 /\ (k + i) - 1 = k + (i - 1)
  OBVIOUS

LEMMA AppendChained ==
    ASSUME NEW q \in Seq(AnyItem), NEW y \in AnyItem, NEW x, Chained(x, q),
           Succeeds(LastOf(x, q), y)
    PROVE  Chained(x, Append(q, y)) /\ LastOf(x, Append(q, y)) = y
<1> DEFINE r == Append(q, y)
<1>1. /\ r \in Seq(AnyItem) /\ Len(q) \in Nat /\ Len(r) = Len(q) + 1 /\ r # <<>>
      /\ DOMAIN q = 1..Len(q) /\ DOMAIN r = 1..(Len(q) + 1)
      /\ (q = <<>> <=> Len(q) = 0)
      /\ r[Len(q) + 1] = y /\ \A i \in DOMAIN q : i \in DOMAIN r /\ r[i] = q[i]
  BY Appended
<1> HIDE DEF r
<1>2. LastOf(x, r) = y BY <1>1 DEF LastOf
<1>3. Succeeds(x, r[1])
  <2>1. CASE q = <<>> BY <1>1, <2>1 DEF LastOf
  <2>2. CASE q # <<>>
    <3>1. 1 \in DOMAIN q BY <1>1, <2>2
    <3> QED BY <1>1, <2>2, <3>1 DEF Chained
  <2> QED BY <2>1, <2>2
<1>4. ASSUME NEW i \in DOMAIN r, i # 1 PROVE Succeeds(r[i - 1], r[i])
  <2>1. CASE i \in DOMAIN q
    <3>1. i - 1 \in DOMAIN q BY <1>1, <1>4, <2>1
    <3> QED BY <1>1, <1>4, <2>1, <3>1 DEF Chained
  <2>2. CASE i = Len(q) + 1
    <3>1. q # <<>> /\ Len(q) \in DOMAIN q /\ i - 1 = Len(q) BY <1>1, <1>4, <2>2
    <3> QED BY <1>1, <2>2, <3>1 DEF LastOf
  <2>3. i \in 1..(Len(q) + 1) BY <1>1
  <2>4. i \in 1..Len(q) \/ i = Len(q) + 1 BY <1>1, <2>3, LastPlace
  <2> QED BY <1>1, <2>1, <2>2, <2>4
<1>5. Chained(x, r) BY <1>1, <1>3, <1>4 DEF Chained
<1> QED BY <1>2, <1>5 DEF r

(* The frames from the first key frame on.                                 *)
Continues(q, r) ==
    /\ r \in Seq(AnyItem) /\ r # <<>> /\ r[1].key
    /\ \A x, u : Chained(x, q) => Chained(u, r) /\ LastOf(u, r) = LastOf(x, q)

LEMMA FromKeyChained ==
    ASSUME NEW q \in Seq(AnyItem), KeysOf(q) # {}, NEW r, r = SubSeq(q, FirstKey(q), Len(q))
    PROVE  Continues(q, r)
<1>0. Len(q) \in Nat /\ FirstKey(q) \in KeysOf(q)
  <2>1. KeysOf(q) \in SUBSET Nat BY DEF KeysOf
  <2>2. \E i \in KeysOf(q) : \A j \in KeysOf(q) : i <= j BY <2>1, LeastOf
  <2>3. FirstKey(q) \in KeysOf(q) BY <2>2 DEF FirstKey
  <2> QED BY <2>3
<1>a. /\ FirstKey(q) \in Nat /\ 1 <= FirstKey(q) /\ FirstKey(q) <= Len(q) /\ q[FirstKey(q)].key
  BY <1>0 DEF KeysOf
<1>x. PICK k \in Nat : FirstKey(q) = 1 + k BY <1>a, Difference
<1>k. FirstKey(q) = k + 1 /\ k <= Len(q) /\ k + 1 <= Len(q) BY <1>0, <1>a, <1>x
<1>z. PICK z \in Nat : Len(q) = k + z BY <1>0, <1>k, Difference
<1>1. /\ r \in Seq(AnyItem) /\ DOMAIN r = 1..z
      /\ \A i \in 1..z : k + i \in DOMAIN q /\ r[i] = q[k + i]
  <2> DEFINE s == SubSeq(q, k + 1, Len(q))
  <2>1. /\ s \in Seq(AnyItem) /\ DOMAIN s = 1..z
        /\ \A i \in 1..z : k + i \in DOMAIN q /\ s[i] = q[k + i]
    BY <1>z, Suffix
  <2>2. r = s BY <1>k
  <2> HIDE DEF s
  <2> QED BY <2>1, <2>2
<1>2. z >= 1 /\ 1 \in 1..z /\ z \in 1..z BY <1>0, <1>k, <1>z
<1>3. r # <<>> /\ Len(r) = z BY <1>1, <1>2
<1>4. r[1].key BY <1>1, <1>2, <1>a, <1>k
<1>5. ASSUME NEW x, NEW u, Chained(x, q) PROVE Chained(u, r) /\ LastOf(u, r) = LastOf(x, q)
  <2>1. Succeeds(u, r[1]) BY <1>4 DEF Succeeds
  <2>2. ASSUME NEW i \in DOMAIN r, i # 1 PROVE Succeeds(r[i - 1], r[i])
    <3>0. i \in 1..z BY <1>1
    <3>1. i \in 1..z /\ i - 1 \in 1..z /\ k + i # 1 /\ (k + i) - 1 = k + (i - 1)
      BY <2>2, <3>0, Shifted
    <3>2. k + i \in DOMAIN q /\ r[i] = q[k + i] /\ r[i - 1] = q[(k + i) - 1] BY <1>1, <3>1
    <3> QED BY <1>5, <3>1, <3>2 DEF Chained
  <2>3. r[Len(r)] = q[Len(q)] BY <1>1, <1>2, <1>3, <1>z
  <2>4. q # <<>> BY <1>0, <1>a
  <2> QED BY <1>3, <2>1, <2>2, <2>3, <2>4 DEF Chained, LastOf
<1> QED BY <1>1, <1>3, <1>4, <1>5 DEF Continues

(* How many positions there are up to one: they are told apart by it.      *)
UpTo(T, i) == Cardinality({k \in T : k <= i})

LEMMA OneNth ==
    ASSUME NEW z \in Nat, NEW T \in SUBSET (1..z), NEW i \in T, NEW j \in T, UpTo(T, i) = UpTo(T, j)
    PROVE  i = j
<1>1. ASSUME NEW a \in T, NEW b \in T, a < b, UpTo(T, a) = UpTo(T, b)
      PROVE  FALSE
  <2> DEFINE A == {k \in T : k <= a}
             B == {k \in T : k <= b}
  <2>0. \A k \in T : k \in Nat OBVIOUS
  <2>a. \A k \in T : k <= a => k <= b BY <1>1, <2>0
  <2>1. B \in SUBSET (1..z) /\ A \in SUBSET B BY <2>a
  <2>2. IsFiniteSet(B) BY <2>1, FinitePositions
  <2>3. b \in B /\ b \notin A BY <1>1, <2>0
  <2>4. Cardinality(A) = Cardinality(B) BY <1>1 DEF UpTo
  <2> HIDE DEF A, B
  <2>5. B = A BY <2>1, <2>2, <2>4, FS_Subset
  <2> QED BY <2>3, <2>5
<1>2. i \in Nat /\ j \in Nat OBVIOUS
<1>3. CASE i < j BY <1>1, <1>3
<1>4. CASE j < i BY <1>1, <1>4
<1> QED BY <1>2, <1>3, <1>4

(* One more position is counted at a member than right before it.          *)
LEMMA OneMore ==
    ASSUME NEW z \in Nat, NEW T \in SUBSET (1..z), NEW b \in Nat \ {0}
    PROVE  /\ UpTo(T, b) \in Nat /\ UpTo(T, b - 1) \in Nat
           /\ UpTo(T, b) = UpTo(T, b - 1) + (IF b \in T THEN 1 ELSE 0)
<1> DEFINE A == {k \in T : k <= b - 1}
           B == {k \in T : k <= b}
<1>0. \A k \in T : k \in Nat OBVIOUS
<1>1. A \in SUBSET (1..z) /\ B \in SUBSET (1..z) OBVIOUS
<1>2. IsFiniteSet(A) /\ Cardinality(A) \in Nat /\ Cardinality(B) \in Nat BY <1>1, FinitePositions
<1>3. \A k \in T : k <= b <=> k <= b - 1 \/ k = b BY <1>0
<1>4. b \notin A BY <1>0
<1>u. UpTo(T, b) = Cardinality(B) /\ UpTo(T, b - 1) = Cardinality(A) BY DEF UpTo
<1>5. CASE b \in T
  <2>1. B = A \cup {b} BY <1>3, <1>5
  <2> HIDE DEF A, B
  <2>2. Cardinality(B) = Cardinality(A) + 1 BY <1>2, <1>4, <2>1, FS_AddElement
  <2> QED BY <1>2, <1>5, <1>u, <2>2
<1>6. CASE b \notin T
  <2>1. B = A BY <1>3, <1>6
  <2> HIDE DEF A, B
  <2> QED BY <1>2, <1>6, <1>u, <2>1
<1> QED BY <1>5, <1>6

LEMMA AllCounted ==
    ASSUME NEW z \in Nat, NEW T \in SUBSET (1..z)
    PROVE  UpTo(T, z) = Cardinality(T) /\ Cardinality(T) \in Nat
<1>1. \A k \in T : k <= z OBVIOUS
<1>2. {k \in T : k <= z} = T BY <1>1
<1>3. UpTo(T, z) = Cardinality(T) BY <1>2 DEF UpTo
<1> QED BY <1>3, FinitePositions

LEMMA OneCounted ==
    ASSUME NEW z \in Nat, NEW T \in SUBSET (1..z), 1 \in T
    PROVE  UpTo(T, 1) = 1 /\ 1 <= Cardinality(T)
<1>1. \A j \in T : j <= 1 <=> j = 1 OBVIOUS
<1>2. {j \in T : j <= 1} = {1} BY <1>1
<1>3. UpTo(T, 1) = 1 BY <1>2, FS_Singleton DEF UpTo
<1>4. IsFiniteSet(T) /\ Cardinality(T) \in Nat BY FinitePositions
<1>5. Cardinality(T) # 0 BY <1>4, FS_EmptySet
<1> QED BY <1>3, <1>4, <1>5

(* The frames at the positions in T, in order.                             *)
Picks(q, T, r, h) ==
    /\ r \in Seq(AnyItem) /\ DOMAIN r = 1..Cardinality(T) /\ Len(r) = Cardinality(T)
    /\ \A n \in 1..Cardinality(T) : /\ h[n] \in T /\ r[n] = q[h[n]]
                                    /\ UpTo(T, h[n]) = n

LEMMA Picked ==
    ASSUME NEW q \in Seq(AnyItem), NEW T \in SUBSET (1..Len(q)), NEW r,
           r = [n \in 1..Cardinality(T) |-> q[CHOOSE i \in T : Cardinality({j \in T : j <= i}) = n]]
    PROVE  Cardinality(T) \in Nat /\ \E h : Picks(q, T, r, h)
<1> DEFINE nth(n) == CHOOSE i \in T : Cardinality({j \in T : j <= i}) = n
           h == [n \in 1..Cardinality(T) |-> nth(n)]
<1>0. Len(q) \in Nat /\ DOMAIN q = 1..Len(q) OBVIOUS
<1>1. Cardinality(T) \in Nat BY <1>0, FinitePositions
<1>2. ASSUME NEW n \in 1..Cardinality(T)
      PROVE  nth(n) \in T /\ UpTo(T, nth(n)) = n
  <2>1. \E i \in T : Cardinality({j \in T : j <= i}) = n BY <1>0, NthOf
  <2>2. nth(n) \in T /\ Cardinality({j \in T : j <= nth(n)}) = n BY <2>1
  <2> QED BY <2>2 DEF UpTo
<1>3. r = [n \in 1..Cardinality(T) |-> q[nth(n)]] OBVIOUS
<1> HIDE DEF nth
<1>h. \A n \in 1..Cardinality(T) : h[n] = nth(n) OBVIOUS
<1> HIDE DEF h
<1>4. \A n \in 1..Cardinality(T) : nth(n) \in DOMAIN q /\ q[nth(n)] \in AnyItem
  <2>1. \A i \in T : i \in DOMAIN q /\ q[i] \in AnyItem BY <1>0
  <2> QED BY <1>2, <2>1
<1>5. r \in [1..Cardinality(T) -> AnyItem] BY <1>3, <1>4
<1>6. r \in Seq(AnyItem) /\ DOMAIN r = 1..Cardinality(T) /\ Len(r) = Cardinality(T)
  BY <1>1, <1>5, AsSequence
<1>7. \A n \in 1..Cardinality(T) : r[n] = q[h[n]] BY <1>3, <1>h
<1>8. \A n \in 1..Cardinality(T) : h[n] \in T /\ UpTo(T, h[n]) = n
  BY <1>2, <1>h
<1>9. Picks(q, T, r, h) BY <1>6, <1>7, <1>8 DEF Picks
<1> QED BY <1>1, <1>9

(* What the second pass of drainFrame(queue, takeCount) keeps: the key     *)
(* frames and the frames behind the second of them.                        *)
KeptBy(q, T) ==
    T = {i \in 1..Len(q) : q[i].key \/ UpTo(KeysOf(q), i) >= 2}

LEMMA KeptBefore ==
    ASSUME NEW q \in Seq(AnyItem), NEW T, KeptBy(q, T), NEW b \in T, b # 1, ~q[b].key
    PROVE  b - 1 \in T
<1>0. Len(q) \in Nat OBVIOUS
<1>1. b \in 1..Len(q) /\ UpTo(KeysOf(q), b) >= 2 BY DEF KeptBy
<1>2. b \in Nat \ {0} /\ b - 1 \in 1..Len(q) BY <1>0, <1>1
<1>3. KeysOf(q) \in SUBSET (1..Len(q)) /\ b \notin KeysOf(q) BY DEF KeysOf
<1>4. /\ UpTo(KeysOf(q), b) \in Nat
      /\ UpTo(KeysOf(q), b - 1) \in Nat
      /\ UpTo(KeysOf(q), b) =
            UpTo(KeysOf(q), b - 1) + (IF b \in KeysOf(q) THEN 1 ELSE 0)
  BY <1>0, <1>2, <1>3, OneMore
<1>5. UpTo(KeysOf(q), b - 1) >= 2 BY <1>1, <1>3, <1>4
<1> QED BY <1>2, <1>5 DEF KeptBy

LEMMA KeptEnds ==
    ASSUME NEW q \in Seq(AnyItem), q # <<>>, q[1].key, NEW T, KeptBy(q, T),
           q[Len(q)].key \/ ~(Cardinality(KeysOf(q)) < 2)
    PROVE  1 \in T /\ Len(q) \in T /\ T \in SUBSET (1..Len(q))
<1>0. Len(q) \in Nat /\ Len(q) >= 1 OBVIOUS
<1>1. 1 \in 1..Len(q) /\ Len(q) \in 1..Len(q) BY <1>0
<1>2. KeysOf(q) \in SUBSET (1..Len(q)) BY DEF KeysOf
<1>3. UpTo(KeysOf(q), Len(q)) = Cardinality(KeysOf(q)) /\ Cardinality(KeysOf(q)) \in Nat
  BY <1>0, <1>2, AllCounted
<1>4. ~(Cardinality(KeysOf(q)) < 2) => UpTo(KeysOf(q), Len(q)) >= 2 BY <1>3
<1>5. q[Len(q)].key \/ UpTo(KeysOf(q), Len(q)) >= 2 BY <1>4
<1>6. 1 \in T BY <1>1 DEF KeptBy
<1>7. Len(q) \in T BY <1>1, <1>5 DEF KeptBy
<1> QED BY <1>6, <1>7 DEF KeptBy

LEMMA KeptChained ==
    ASSUME NEW q \in Seq(AnyItem), q # <<>>, q[1].key, NEW T, KeptBy(q, T),
           q[Len(q)].key \/ ~(Cardinality(KeysOf(q)) < 2), NEW r, NEW h, Picks(q, T, r, h),
           Cardinality(T) \in Nat
    PROVE  Continues(q, r)
<1>0. Len(q) \in Nat /\ 1 \in T /\ Len(q) \in T /\ T \in SUBSET (1..Len(q)) BY KeptEnds
<1>d. DOMAIN q = 1..Len(q) OBVIOUS
<1>t. \A i \in T : i \in Nat /\ 1 <= i /\ i <= Len(q) /\ i \in DOMAIN q
  <2>1. \A i \in T : i \in 1..Len(q) BY <1>0
  <2> QED BY <1>0, <1>d, <2>1
<1>p. /\ r \in Seq(AnyItem) /\ DOMAIN r = 1..Cardinality(T) /\ Len(r) = Cardinality(T)
      /\ \A n \in 1..Cardinality(T) : /\ h[n] \in T /\ r[n] = q[h[n]]
                                      /\ UpTo(T, h[n]) = n
  BY DEF Picks
<1>u. ASSUME NEW n \in 1..Cardinality(T), NEW i \in T, UpTo(T, i) = n
      PROVE  h[n] = i
  <2>1. h[n] \in T /\ UpTo(T, h[n]) = UpTo(T, i)
    BY <1>p, <1>u
  <2> QED BY <1>0, <2>1, OneNth
<1>1. 1 <= Cardinality(T) /\ 1 \in 1..Cardinality(T) /\ h[1] = 1
  <2>1. UpTo(T, 1) = 1 /\ 1 <= Cardinality(T) BY <1>0, OneCounted
  <2>2. 1 \in 1..Cardinality(T) BY <2>1
  <2> QED BY <1>0, <1>u, <2>1, <2>2
<1>2. Cardinality(T) \in 1..Cardinality(T) /\ h[Cardinality(T)] = Len(q)
  <2>1. UpTo(T, Len(q)) = Cardinality(T) BY <1>0, AllCounted
  <2>2. Cardinality(T) \in 1..Cardinality(T) BY <1>1
  <2> QED BY <1>0, <1>u, <2>1, <2>2
<1>3. r # <<>> /\ r[1] = q[1] BY <1>p, <1>1
<1>4. ASSUME NEW n \in 1..Cardinality(T), n # 1, ~q[h[n]].key
      PROVE  h[n] # 1 /\ h[n] \in DOMAIN q /\ n - 1 \in 1..Cardinality(T) /\ h[n - 1] = h[n] - 1
  <2>1. h[n] \in T /\ h[n] # 1 BY <1>p, <1>4
  <2>2. h[n] - 1 \in T BY <1>4, <2>1, KeptBefore
  <2>3. h[n] \in Nat \ {0} BY <1>t, <2>1
  <2>4. /\ UpTo(T, h[n] - 1) \in Nat
        /\ UpTo(T, h[n]) =
              UpTo(T, h[n] - 1) + (IF h[n] \in T THEN 1 ELSE 0)
    BY <1>0, <2>3, OneMore
  <2>5. UpTo(T, h[n]) = n BY <1>p
  <2>6. UpTo(T, h[n] - 1) = n - 1 BY <2>1, <2>4, <2>5
  <2>7. n - 1 \in 1..Cardinality(T) BY <1>4
  <2>8. h[n - 1] = h[n] - 1 BY <1>u, <2>2, <2>6, <2>7
  <2>9. h[n] \in DOMAIN q BY <1>t, <2>1
  <2> QED BY <2>1, <2>7, <2>8, <2>9
<1>5. ASSUME NEW x, NEW u, Chained(x, q) PROVE Chained(u, r) /\ LastOf(u, r) = LastOf(x, q)
  <2>1. Succeeds(u, r[1]) BY <1>3 DEF Succeeds
  <2>2. ASSUME NEW i \in DOMAIN r, i # 1 PROVE Succeeds(r[i - 1], r[i])
    <3>0. i \in 1..Cardinality(T) /\ r[i] = q[h[i]] BY <1>p
    <3>1. CASE q[h[i]].key BY <3>0, <3>1 DEF Succeeds
    <3>2. CASE ~q[h[i]].key
      <4>1. h[i] # 1 /\ h[i] \in DOMAIN q /\ i - 1 \in 1..Cardinality(T) /\ h[i - 1] = h[i] - 1
        BY <1>4, <2>2, <3>0, <3>2
      <4>2. r[i - 1] = q[h[i] - 1] BY <1>p, <4>1
      <4> QED BY <1>5, <3>0, <4>1, <4>2 DEF Chained
    <3> QED BY <3>1, <3>2
  <2>3. r[Len(r)] = q[Len(q)] BY <1>p, <1>2
  <2> QED BY <1>3, <2>1, <2>2, <2>3 DEF Chained, LastOf
<1> QED BY <1>p, <1>3, <1>5 DEF Continues

(* A step of the player, from the values c, d, q, p of config, decoded,    *)
(* the queue and player to cc, dd, qq, pp, leaves the frames in order.     *)
OrderKept(c, d, q, p, cc, dd, qq, pp) ==
    InOrder(c, d, q) =>
        /\ InOrder(cc, dd, qq)
        /\ \A w : LastPut(c, d, q, p, w) => LastPut(cc, dd, qq, pp, w)

LEMMA SameOrder ==
    ASSUME NEW c, NEW d, NEW q, NEW p, NEW pp, p = "closed" => pp = "closed"
    PROVE  OrderKept(c, d, q, p, c, d, q, pp)
  BY DEF OrderKept, LastPut, Supplied

LEMMA LeadDone ==
    ASSUME NEW c \in Seq(AnyItem), Len(c) = 2, NEW q \in Seq(AnyItem)
    PROVE  /\ Lead(c, q) <=> \A i \in DOMAIN c : c[i].kind = "config"
           /\ Len(c) + Len(q) >= 2
<1>0. Len(q) \in Nat OBVIOUS
<1>1. \A i \in DOMAIN q : i \in Nat /\ i >= 1 OBVIOUS
<1>2. \A i \in DOMAIN q : ~(Len(c) + i <= 2) BY <1>1
<1>3. Len(c) + Len(q) >= 2 BY <1>0
<1> QED BY <1>2, <1>3 DEF Lead

LEMMA ClosingOrder ==
    ASSUME NEW c \in Seq(AnyItem), Len(c) = 2, NEW q \in Seq(AnyItem), NEW d, NEW p
    PROVE  OrderKept(c, d, q, p, c, d, <<>>, "closed")
<1>1. <<>> \in Seq(AnyItem) OBVIOUS
<1>2. Lead(c, q) <=> Lead(c, <<>>)
  <2>1. Lead(c, q) <=> \A i \in DOMAIN c : c[i].kind = "config" BY LeadDone
  <2>2. Lead(c, <<>>) <=> \A i \in DOMAIN c : c[i].kind = "config" BY <1>1, LeadDone
  <2> QED BY <2>1, <2>2
<1>3. \A x : Chained(x, <<>>) BY DEF Chained
<1>4. InOrder(c, d, q) => InOrder(c, d, <<>>) BY <1>2, <1>3 DEF InOrder
<1>5. \A w : LastPut(c, d, <<>>, "closed", w) BY DEF LastPut, Supplied
<1> QED BY <1>4, <1>5 DEF OrderKept

LEMMA DroppingOrder ==
    ASSUME NEW c \in Seq(AnyItem), Len(c) = 2, NEW q \in Seq(AnyItem), NEW d, NEW p,
           p # "closed", NEW r, Continues(q, r), NEW pp
    PROVE  OrderKept(c, d, q, p, c, d, r, pp)
<1>1. r \in Seq(AnyItem) BY DEF Continues
<1>2. Lead(c, q) <=> Lead(c, r)
  <2>1. Lead(c, q) <=> \A i \in DOMAIN c : c[i].kind = "config" BY LeadDone
  <2>2. Lead(c, r) <=> \A i \in DOMAIN c : c[i].kind = "config" BY <1>1, LeadDone
  <2> QED BY <2>1, <2>2
<1>3. Supplied(p, c, q) BY LeadDone DEF Supplied
<1>4. ASSUME InOrder(c, d, q), Lead(c, r)
      PROVE  /\ Chained(Nothing, d) /\ Chained(LastOf(Nothing, d), r)
             /\ LastOf(LastOf(Nothing, d), r) = LastOf(LastOf(Nothing, d), q)
  <2>1. Chained(Nothing, d) /\ Chained(LastOf(Nothing, d), q) BY <1>2, <1>4 DEF InOrder
  <2> QED BY <2>1 DEF Continues
<1>5. InOrder(c, d, q) => InOrder(c, d, r) BY <1>4 DEF InOrder
<1>6. ASSUME InOrder(c, d, q), NEW w, LastPut(c, d, q, p, w) PROVE LastPut(c, d, r, pp, w)
  BY <1>2, <1>3, <1>4, <1>6 DEF LastPut
<1> QED BY <1>5, <1>6 DEF OrderKept

LEMMA TakingOrder ==
    ASSUME NEW c \in Seq(AnyItem), Len(c) = 2, NEW q \in Seq(AnyItem), q # <<>>,
           NEW d \in Seq(AnyItem), NEW p, p # "closed", NEW dd, dd = Append(d, Head(q)), NEW pp
    PROVE  OrderKept(c, d, q, p, c, dd, Tail(q), pp)
<1>1. Tail(q) \in Seq(AnyItem) /\ Head(q) \in AnyItem BY Rest
<1>2. Lead(c, q) <=> Lead(c, Tail(q))
  <2>1. Lead(c, q) <=> \A i \in DOMAIN c : c[i].kind = "config" BY LeadDone
  <2>2. Lead(c, Tail(q)) <=> \A i \in DOMAIN c : c[i].kind = "config" BY <1>1, LeadDone
  <2> QED BY <2>1, <2>2
<1>3. Supplied(p, c, q) BY LeadDone DEF Supplied
<1>4. ASSUME InOrder(c, d, q), Lead(c, q)
      PROVE  /\ Chained(Nothing, dd) /\ Chained(LastOf(Nothing, dd), Tail(q))
             /\ LastOf(LastOf(Nothing, dd), Tail(q)) = LastOf(LastOf(Nothing, d), q)
  <2>1. Chained(Nothing, d) /\ Chained(LastOf(Nothing, d), q) BY <1>4 DEF InOrder
  <2>2. /\ Succeeds(LastOf(Nothing, d), Head(q)) /\ Chained(Head(q), Tail(q))
        /\ LastOf(Head(q), Tail(q)) = LastOf(LastOf(Nothing, d), q)
    BY <2>1, TailChained
  <2>3. Chained(Nothing, dd) /\ LastOf(Nothing, dd) = Head(q)
    <3> DEFINE y == Head(q)
    <3>1. y \in AnyItem /\ Succeeds(LastOf(Nothing, d), y) /\ dd = Append(d, y) BY <1>1, <2>2
    <3> HIDE DEF y
    <3>2. Chained(Nothing, dd) /\ LastOf(Nothing, dd) = y BY <2>1, <3>1, AppendChained
    <3> QED BY <3>2 DEF y
  <2> QED BY <2>2, <2>3
<1>5. InOrder(c, d, q) => InOrder(c, dd, Tail(q)) BY <1>2, <1>4 DEF InOrder
<1>6. ASSUME InOrder(c, d, q), NEW w, LastPut(c, d, q, p, w) PROVE LastPut(c, dd, Tail(q), pp, w)
  BY <1>2, <1>3, <1>4, <1>6 DEF LastPut
<1> QED BY <1>5, <1>6 DEF OrderKept

(* A block of the set-up is taken.                                         *)
LEMMA LeadTaken ==
    ASSUME NEW c \in Seq(AnyItem), NEW q \in Seq(AnyItem), q # <<>>, NEW cc,
           cc = Append(c, Head(q)), Lead(cc, Tail(q))
    PROVE  Lead(c, q) /\ Head(q).kind = "config" /\ Len(cc) + Len(Tail(q)) = Len(c) + Len(q)
<1> DEFINE r == Tail(q)
           y == Head(q)
           l == Len(c)
<1>1. /\ r \in Seq(AnyItem) /\ y \in AnyItem /\ y = q[1]
      /\ \A i \in DOMAIN q : /\ i \in Nat
                             /\ i # 1 => i - 1 \in DOMAIN r /\ r[i - 1] = q[i]
  BY Rest
<1>2. Len(r) = Len(q) - 1 /\ Len(q) \in Nat OBVIOUS
<1>3. cc = Append(c, y) /\ Lead(cc, r) OBVIOUS
<1> HIDE DEF r, y
<1>4. /\ l \in Nat /\ Len(cc) = l + 1 /\ DOMAIN cc = 1..(l + 1) /\ DOMAIN c = 1..l
      /\ cc[l + 1] = y /\ \A i \in DOMAIN c : i \in DOMAIN cc /\ cc[i] = c[i]
  BY <1>1, <1>3, Appended
<1> HIDE DEF l
<1>a. \A i \in DOMAIN cc : cc[i].kind = "config" BY <1>3 DEF Lead
<1>b. \A i \in DOMAIN r : Len(cc) + i <= 2 => r[i].kind = "config" BY <1>3 DEF Lead
<1>c. l + 1 \in DOMAIN cc
  <2>1. l + 1 \in 1..(l + 1) BY <1>4
  <2> QED BY <1>4, <2>1
<1>5. y.kind = "config" BY <1>4, <1>a, <1>c
<1>6. \A i \in DOMAIN c : c[i].kind = "config" BY <1>4, <1>a
<1>7. ASSUME NEW i \in DOMAIN q, l + i <= 2 PROVE q[i].kind = "config"
  <2>1. CASE i = 1 BY <1>1, <1>5, <2>1
  <2>2. CASE i # 1
    <3>1. i \in Nat /\ i - 1 \in DOMAIN r /\ r[i - 1] = q[i] BY <1>1, <2>2
    <3>2. Len(cc) + (i - 1) <= 2 BY <1>4, <1>7, <3>1
    <3> QED BY <1>b, <3>1, <3>2
  <2> QED BY <2>1, <2>2
<1>8. Lead(c, q) BY <1>6, <1>7 DEF Lead, l
<1>9. Len(cc) + Len(r) = l + Len(q) BY <1>2, <1>4
<1> QED BY <1>5, <1>8, <1>9 DEF r, y, l

LEMMA PreparingOrder ==
    ASSUME NEW c \in Seq(AnyItem), NEW q \in Seq(AnyItem), q # <<>>, NEW d, d = <<>>, NEW p,
           p # "closed", NEW cc, cc = Append(c, Head(q)), NEW pp
    PROVE  OrderKept(c, d, q, p, cc, d, Tail(q), pp)
<1> DEFINE r == Tail(q)
           y == Head(q)
<1>0. r \in Seq(AnyItem) /\ y \in AnyItem BY Rest
<1>1. ASSUME Lead(cc, r) PROVE Lead(c, q) /\ y.kind = "config" /\ Len(cc) + Len(r) = Len(c) + Len(q)
  BY <1>1, LeadTaken
<1>2. ASSUME Chained(Nothing, q)
      PROVE  Chained(y, r) /\ LastOf(y, r) = LastOf(Nothing, q)
  BY <1>2, TailChained
<1>3. LastOf(Nothing, d) = Nothing /\ Chained(Nothing, d) BY DEF LastOf, Chained
<1> HIDE DEF r, y
<1>4. ASSUME Chained(y, r), y.kind = "config" PROVE Chained(Nothing, r)
  <2>1. r # <<>> => Succeeds(Nothing, r[1]) BY <1>4 DEF Chained, Succeeds
  <2> QED BY <1>4, <2>1 DEF Chained
<1>5. ASSUME y.kind = "config", NEW w, Linked(LastOf(y, r), w) PROVE Linked(LastOf(Nothing, r), w)
  <2>1. CASE r = <<>> BY <1>5, <2>1 DEF LastOf, Linked
  <2>2. CASE r # <<>> BY <1>5, <2>2 DEF LastOf
  <2> QED BY <2>1, <2>2
<1>6. InOrder(c, d, q) => InOrder(cc, d, r) BY <1>1, <1>2, <1>3, <1>4 DEF InOrder
<1>7. ASSUME InOrder(c, d, q), NEW w, LastPut(c, d, q, p, w) PROVE LastPut(cc, d, r, pp, w)
  <2> SUFFICES ASSUME Lead(cc, r), Supplied(pp, cc, r) PROVE Linked(LastOf(Nothing, r), w)
    BY <1>3 DEF LastPut
  <2>1. Lead(c, q) /\ y.kind = "config" BY <1>1
  <2>2. Supplied(p, c, q) BY <1>1 DEF Supplied
  <2>3. Chained(Nothing, q) BY <1>3, <1>7, <2>1 DEF InOrder
  <2>4. Linked(LastOf(Nothing, q), w) BY <1>3, <1>7, <2>1, <2>2 DEF LastPut
  <2> QED BY <1>2, <1>5, <2>1, <2>3, <2>4
<1> QED BY <1>6, <1>7 DEF OrderKept, r

(* A frame or a block is put behind the frames of the queue.               *)
LEMMA LeadPut ==
    ASSUME NEW c, Len(c) \in Nat, NEW q \in Seq(AnyItem), NEW y \in AnyItem, NEW r,
           r = Append(q, y), Lead(c, r)
    PROVE  Lead(c, q) /\ (y.kind = "config" \/ Len(c) + Len(q) >= 2)
<1>1. /\ Len(q) \in Nat /\ DOMAIN q = 1..Len(q) /\ DOMAIN r = 1..(Len(q) + 1)
      /\ r[Len(q) + 1] = y /\ \A i \in DOMAIN q : i \in DOMAIN r /\ r[i] = q[i]
  BY Appended
<1>2. Lead(c, q) BY <1>1 DEF Lead
<1>3. ASSUME ~(Len(c) + Len(q) >= 2) PROVE y.kind = "config"
  <2>1. Len(q) + 1 \in 1..(Len(q) + 1) /\ Len(c) + (Len(q) + 1) <= 2
    <3> DEFINE a == Len(c)
               b == Len(q)
    <3>1. a \in Nat /\ b \in Nat /\ ~(a + b >= 2) BY <1>1, <1>3
    <3> HIDE DEF a, b
    <3>2. b + 1 \in 1..(b + 1) /\ a + (b + 1) <= 2 BY <3>1
    <3> QED BY <3>2 DEF a, b
  <2>2. Len(q) + 1 \in DOMAIN r BY <1>1, <2>1
  <2> QED BY <1>1, <2>1, <2>2 DEF Lead
<1> QED BY <1>2, <1>3

(* Put: what is put succeeds the frame put last.                           *)
Fitting(c, d, q, y) ==
    Lead(c, q) /\ (y.kind = "config" \/ Len(c) + Len(q) >= 2)
        => Succeeds(LastOf(LastOf(Nothing, d), q), y)

LEMMA PutOrder ==
    ASSUME NEW c, Len(c) \in Nat, NEW q \in Seq(AnyItem), NEW d, NEW y \in AnyItem, NEW r,
           r = Append(q, y), InOrder(c, d, q), Fitting(c, d, q, y)
    PROVE  InOrder(c, d, r) /\ (Lead(c, r) => LastOf(LastOf(Nothing, d), r) = y)
<1>1. Lead(c, r) => Lead(c, q) /\ (y.kind = "config" \/ Len(c) + Len(q) >= 2) BY LeadPut
<1>2. ASSUME Lead(c, r)
      PROVE  /\ Chained(Nothing, d) /\ Chained(LastOf(Nothing, d), r)
             /\ LastOf(LastOf(Nothing, d), r) = y
  <2>1. Chained(Nothing, d) /\ Chained(LastOf(Nothing, d), q) BY <1>1, <1>2 DEF InOrder
  <2>2. Succeeds(LastOf(LastOf(Nothing, d), q), y) BY <1>1, <1>2 DEF Fitting
  <2> QED BY <2>1, <2>2, AppendChained
<1> QED BY <1>2 DEF InOrder

(* The datagram d comes after w; x is the frame put last.                  *)
Counts(w) == Framed(w) /\ ~Ends(w) => w.count \in Nat /\ w.count >= 1

LEMMA EndingLinks ==
    ASSUME NEW w \in AnyDatagram, NEW d \in AnyDatagram, Follows(w, d), Framed(d), Ends(d),
           NEW x, Linked(x, w), Counts(w), NEW y, y.kind = "frame", y.key = d.key, IdOf(y) = d.id
    PROVE  Succeeds(x, y) /\ Linked(y, d)
<1>0. w.id \in Nat /\ d.id \in Nat BY DEF AnyDatagram
<1>1. Linked(y, d) BY DEF Linked
<1>2. CASE ~Framed(w) BY <1>1, <1>2 DEF Follows, Succeeds
<1>3. CASE Framed(w) /\ Ends(w)
  <2>1. d.id = w.id + 1 /\ x.kind = "frame" /\ IdOf(x) = w.id BY <1>3 DEF Follows, Linked
  <2>2. IdOf(x) = IdOf(y) - 1 BY <1>0, <2>1
  <2> QED BY <1>1, <2>1, <2>2 DEF Succeeds
<1>4. CASE Framed(w) /\ ~Ends(w)
  <2>1. d.id = w.id /\ d.key = w.key /\ (w.key \/ (x.kind = "frame" /\ IdOf(x) = w.id - 1))
    BY <1>4 DEF Follows, Linked
  <2> QED BY <1>1, <2>1 DEF Succeeds
<1> QED BY <1>2, <1>3, <1>4

LEMMA OpenLinks ==
    ASSUME NEW w \in AnyDatagram, NEW d \in AnyDatagram, Follows(w, d), Framed(d), ~Ends(d),
           NEW x, Linked(x, w)
    PROVE  Linked(x, d)
<1>0. w.id \in Nat /\ d.id \in Nat BY DEF AnyDatagram
<1>2. CASE ~Framed(w) BY <1>2 DEF Follows, Linked
<1>3. CASE Framed(w) /\ Ends(w)
  <2>1. d.id = w.id + 1 /\ x.kind = "frame" /\ IdOf(x) = w.id BY <1>3 DEF Follows, Linked
  <2>2. IdOf(x) = d.id - 1 BY <1>0, <2>1
  <2> QED BY <2>1, <2>2 DEF Linked
<1>4. CASE Framed(w) /\ ~Ends(w) BY <1>4 DEF Follows, Linked
<1> QED BY <1>2, <1>3, <1>4

(* The client.                                                             *)
LEMMA SetupKept ==
    ASSUME Base, UNCHANGED <<setInfo, player, phase, queueOpen, mPlayQueue1, config, decoded>>
    PROVE  Stages'
  BY DEF Base, Stages

LEMMA SetupCounts ==
    \A x : SetupSent(x) \in 0..3 /\ SetupReceived(x) \in 0..3
  BY DEF SetupSent, SetupReceived

Sends(e) ==
    \/ SetupSent(client) = 3 /\ SetupSent(client') = 3 /\ \A c \in DOMAIN e : Framed(e[c])
    \/ /\ SetupSent(client) < 3 /\ SetupSent(client') = SetupSent(client) + 1
       /\ Len(e) = 1 /\ ~Framed(e[1])

Carries(e) ==
    \A z : ClientAt(z, client, mIsKeyFrameWrite, encoded) =>
               /\ Flowing(z, e)
               /\ ClientAt(LastOf(z, e), client', mIsKeyFrameWrite', encoded')

LEMMA ClientKeeps ==
    ASSUME GInv, encoded' \in 0..MaxFrames, NEW e \in Seq(AnyDatagram), net' = net \o e,
           UNCHANGED <<faults, phase, needToAbandon, count, tempLength, tempData, list, setInfo,
                       queueOpen, mPlayQueue1, player, config, decoded>>,
           KeyGate', Sends(e), Carries(e)
    PROVE  GInv'
<1>0. Base /\ net \in Seq(AnyDatagram) BY DEF GInv, Base, MoreTypes, Types
<1>1. MoreTypes'
  <2>1. net \o e \in Seq(AnyDatagram) BY <1>0, Joined
  <2> QED BY <2>1 DEF GInv, Base, MoreTypes, Types
<1>2. Stages' BY <1>0, SetupKept
<1>3. ASSUME Clear(faults') PROVE Undisturbed'
  <2>1. Undisturbed BY <1>3 DEF GInv
  <2>2. Peaceful' BY <2>1 DEF Undisturbed, Peaceful
  <2>3. FirstIsKey(player', mPlayQueue1') /\ InOrder(config', decoded', mPlayQueue1')
    BY <2>1 DEF Undisturbed
  <2>4. ASSUME Listening(phase')
        PROVE  /\ Placed(net', SetupSent(client'), SetupReceived(phase'))
               /\ \E w \in AnyDatagram : Stream(w)'
    <3>1. Listening(phase) BY <2>4
    <3>2. Placed(net, SetupSent(client), SetupReceived(phase)) BY <2>1, <3>1 DEF Undisturbed
    <3>3. Placed(net \o e, SetupSent(client'), SetupReceived(phase))
      BY <1>0, <3>2, SetupCounts, GrownPlaced DEF Sends
    <3>4. PICK w \in AnyDatagram : Stream(w) BY <2>1, <3>1 DEF Undisturbed
    <3>5. /\ ServerAt(w, phase, count, tempLength, tempData) /\ Flowing(w, net)
          /\ ClientAt(LastOf(w, net), client, mIsKeyFrameWrite, encoded)
          /\ LastPut(config, decoded, mPlayQueue1, player, w)
      BY <3>4 DEF Stream
    <3>6. /\ Flowing(LastOf(w, net), e)
          /\ ClientAt(LastOf(LastOf(w, net), e), client', mIsKeyFrameWrite', encoded')
      BY <3>5 DEF Carries
    <3>7. Flowing(w, net \o e) /\ LastOf(w, net \o e) = LastOf(LastOf(w, net), e)
      BY <1>0, <3>5, <3>6, GrownFlows
    <3>8. /\ ServerAt(w, phase', count', tempLength', tempData') /\ Flowing(w, net')
          /\ ClientAt(LastOf(w, net'), client', mIsKeyFrameWrite', encoded')
          /\ LastPut(config', decoded', mPlayQueue1', player', w)
      BY <3>5, <3>6, <3>7
    <3>9. Stream(w)' BY <3>8 DEF Stream
    <3> QED BY <3>3, <3>9
  <2> QED BY <2>2, <2>3, <2>4 DEF Undisturbed
<1> QED BY <1>1, <1>2, <1>3 DEF GInv, Base

(* Nothing is sent.                                                        *)
LEMMA SilentKeeps ==
    ASSUME GInv, encoded' \in 0..MaxFrames,
           UNCHANGED <<net, faults, phase, needToAbandon, count, tempLength, tempData, list, setInfo,
                       queueOpen, mPlayQueue1, player, config, decoded>>,
           KeyGate', SetupSent(client) = 3, SetupSent(client') = 3,
           \A z : ClientAt(z, client, mIsKeyFrameWrite, encoded) =>
                      ClientAt(z, client', mIsKeyFrameWrite', encoded')
    PROVE  GInv'
<1>0. net \in Seq(AnyDatagram) /\ <<>> \in Seq(AnyDatagram) BY DEF GInv, Base, MoreTypes, Types
<1>1. net' = net \o <<>> BY <1>0
<1>2. Sends(<<>>) BY DEF Sends
<1>3. \A z : Flowing(z, <<>>) /\ LastOf(z, <<>>) = z BY DEF Flowing, LastOf
<1>4. Carries(<<>>) BY <1>3 DEF Carries
<1> QED BY <1>0, <1>1, <1>2, <1>4, ClientKeeps

LEMMA ClientGop ==
    ASSUME GInv, Client
    PROVE  GInv'
<1>0. /\ encoded \in Nat /\ encoded \in 0..MaxFrames /\ net \in Seq(AnyDatagram)
      /\ MaxFrames \in Nat /\ KeyGate
  BY Constants DEF GInv, Base, MoreTypes, Types
<1>1. CASE SendSetup
  <2> DEFINE y == SetupDatagram(IF client = "info" THEN "info" ELSE "config")
             e == <<y>>
  <2>1. /\ client \in {"info", "sps", "pps"} /\ client' = After(client)
        /\ UNCHANGED <<encoded, mIsKeyFrameWrite, faults, phase, needToAbandon, count, tempLength,
                       tempData, list, setInfo, queueOpen, mPlayQueue1, player, config, decoded>>
        /\ net' = Append(net, y)
    BY <1>1 DEF SendSetup, serverVars, assemblyVars, jniVars, playerVars
  <2>2. y \in AnyDatagram /\ ~Framed(y) BY DEF SetupDatagram, AnyDatagram, Framed
  <2> HIDE DEF y
  <2>3. e \in Seq(AnyDatagram) /\ Len(e) = 1 /\ e[1] = y /\ e # <<>> /\ DOMAIN e = {1} BY <2>2
  <2>4. net' = net \o e BY <1>0, <2>1, <2>2
  <2> HIDE DEF e
  <2>5. /\ SetupSent(client) < 3 /\ SetupSent(client') = SetupSent(client) + 1
        /\ client' \in {"sps", "pps", "sleep"}
    BY <2>1 DEF SetupSent, After
  <2>6. Sends(e) BY <2>2, <2>3, <2>5 DEF Sends
  <2>7. mIsKeyFrameWrite = FALSE BY <1>0, <2>1 DEF KeyGate
  <2>8. KeyGate' BY <2>1, <2>7 DEF KeyGate
  <2>9. Carries(e)
    <3>1. \A z : Flowing(z, e) /\ LastOf(z, e) = y BY <2>2, <2>3 DEF Flowing, Follows, LastOf
    <3>2. ClientAt(y, client', mIsKeyFrameWrite', encoded') BY <2>1, <2>2, <2>7 DEF ClientAt
    <3> QED BY <3>1, <3>2 DEF Carries
  <2> QED BY <1>0, <2>1, <2>3, <2>4, <2>6, <2>8, <2>9, ClientKeeps
<1>2. CASE SleepEnds
  <2>1. /\ client = "sleep" /\ client' = "frames"
        /\ UNCHANGED <<encoded, mIsKeyFrameWrite, net, faults, phase, needToAbandon, count, tempLength,
                       tempData, list, setInfo, queueOpen, mPlayQueue1, player, config, decoded>>
    BY <1>2 DEF SleepEnds, serverVars, assemblyVars, jniVars, playerVars
  <2>2. SetupSent(client) = 3 /\ SetupSent(client') = 3 BY <2>1 DEF SetupSent
  <2>3. KeyGate' BY <1>0, <2>1 DEF KeyGate
  <2>4. \A z : ClientAt(z, client, mIsKeyFrameWrite, encoded) =>
                   ClientAt(z, client', mIsKeyFrameWrite', encoded')
    BY <2>1 DEF ClientAt
  <2> QED BY <1>0, <2>1, <2>2, <2>3, <2>4, SilentKeeps
<1>3. ASSUME NEW key \in BOOLEAN, NEW length \in AllLengths, client = "frames",
             encoded < MaxFrames, length \in Lengths[encoded + 1], mIsKeyFrameWrite \/ key,
             NEW e, e = Datagrams(encoded + 1, key, length)
      PROVE  /\ encoded + 1 \in 0..MaxFrames
             /\ e \in Seq(AnyDatagram) /\ Len(e) = Parts(length) /\ Parts(length) \in Nat
             /\ \A c \in DOMAIN e : Framed(e[c])
             /\ \A z : ClientAt(z, client, mIsKeyFrameWrite, encoded) =>
                   /\ Flowing(z, e)
                   /\ LET y == LastOf(z, e) IN Framed(y) /\ Ends(y) /\ y.id = encoded + 1
  <2>1. encoded + 1 \in Nat /\ encoded + 1 \in 1..MaxFrames /\ encoded + 1 \in 0..MaxFrames
    BY <1>0, <1>3
  <2>2. length \in Nat \ {0} BY <1>3, <2>1, Constants
  <2>3. IsBurst(e, encoded + 1, key, length) /\ Len(e) = Parts(length) /\ Parts(length) \in Nat
    BY <1>3, <2>1, <2>2, Burst, SomePart
  <2>4. e \in Seq(AnyDatagram) /\ \A c \in DOMAIN e : Framed(e[c]) BY <2>3 DEF IsBurst, Framed
  <2>5. ASSUME NEW z, ClientAt(z, client, mIsKeyFrameWrite, encoded)
        PROVE  /\ Flowing(z, e)
               /\ LET y == LastOf(z, e) IN Framed(y) /\ Ends(y) /\ y.id = encoded + 1
    <3>1. Opens(z, encoded + 1, key)
      <4>1. CASE mIsKeyFrameWrite BY <1>3, <2>5, <4>1 DEF ClientAt, Opens
      <4>2. CASE ~mIsKeyFrameWrite
        <5>1. key = TRUE BY <1>3, <4>2
        <5>2. ~Framed(z) BY <1>3, <2>5, <4>2 DEF ClientAt
        <5> QED BY <5>1, <5>2 DEF Opens
      <4> QED BY <4>1, <4>2
    <3> QED BY <1>3, <2>1, <2>2, <3>1, BurstFlows
  <2> QED BY <2>1, <2>3, <2>4, <2>5
<1>4. ASSUME NEW key \in BOOLEAN, NEW length \in AllLengths, Encode(key, length) PROVE GInv'
  <2>0. /\ client = "frames" /\ encoded < MaxFrames /\ length \in Lengths[encoded + 1]
        /\ encoded' = encoded + 1
        /\ UNCHANGED <<client, faults, phase, needToAbandon, count, tempLength, tempData, list, setInfo,
                       queueOpen, mPlayQueue1, player, config, decoded>>
    BY <1>4 DEF Encode, serverVars, assemblyVars, jniVars, playerVars
  <2>s. SetupSent(client) = 3 /\ SetupSent(client') = 3 BY <2>0 DEF SetupSent
  <2>1. CASE mIsKeyFrameWrite \/ key
    <3> DEFINE e == Datagrams(encoded + 1, key, length)
    <3>1. net' = net \o e /\ mIsKeyFrameWrite' = TRUE BY <1>4, <2>0, <2>1 DEF Encode
    <3>2. /\ encoded + 1 \in 0..MaxFrames /\ e \in Seq(AnyDatagram) /\ \A c \in DOMAIN e : Framed(e[c])
          /\ \A z : ClientAt(z, client, mIsKeyFrameWrite, encoded) =>
                   /\ Flowing(z, e)
                   /\ LET y == LastOf(z, e) IN Framed(y) /\ Ends(y) /\ y.id = encoded + 1
      BY <1>3, <2>0, <2>1
    <3> HIDE DEF e
    <3>3. Sends(e) BY <2>s, <3>2 DEF Sends
    <3>4. KeyGate' BY <2>0, <3>1 DEF KeyGate
    <3>5. Carries(e) BY <2>0, <3>1, <3>2 DEF Carries, ClientAt
    <3> QED BY <2>0, <3>1, <3>2, <3>3, <3>4, <3>5, ClientKeeps
  <2>2. CASE ~(mIsKeyFrameWrite \/ key)
    <3>1. net' = net /\ mIsKeyFrameWrite' = mIsKeyFrameWrite /\ mIsKeyFrameWrite = FALSE
      BY <1>0, <1>4, <2>2 DEF Encode, KeyGate
    <3>2. encoded' \in 0..MaxFrames BY <1>0, <2>0
    <3>3. KeyGate' BY <2>0, <3>1 DEF KeyGate
    <3>4. \A z : ClientAt(z, client, mIsKeyFrameWrite, encoded) =>
                     ClientAt(z, client', mIsKeyFrameWrite', encoded')
      BY <2>0, <3>1 DEF ClientAt
    <3> QED BY <2>0, <2>s, <3>1, <3>2, <3>3, <3>4, SilentKeeps
  <2> QED BY <2>1, <2>2
<1>5. ASSUME NEW key \in BOOLEAN, NEW length \in AllLengths, NEW sent \in 0..(Parts(length) - 1),
             SendFails(key, length, sent)
      PROVE  GInv'
  <2> DEFINE b == Datagrams(encoded + 1, key, length)
             e == SubSeq(b, 1, sent)
  <2>0. /\ client = "frames" /\ encoded < MaxFrames /\ length \in Lengths[encoded + 1]
        /\ encoded' = encoded + 1 /\ client' = "closed" /\ mIsKeyFrameWrite' = TRUE
        /\ (mIsKeyFrameWrite \/ key) /\ net' = net \o e
        /\ UNCHANGED <<faults, phase, needToAbandon, count, tempLength, tempData, list, setInfo,
                       queueOpen, mPlayQueue1, player, config, decoded>>
    BY <1>5 DEF SendFails, serverVars, assemblyVars, jniVars, playerVars
  <2>s. SetupSent(client) = 3 /\ SetupSent(client') = 3 BY <2>0 DEF SetupSent
  <2>1. /\ encoded + 1 \in 0..MaxFrames
        /\ b \in Seq(AnyDatagram) /\ Len(b) = Parts(length) /\ Parts(length) \in Nat
        /\ \A c \in DOMAIN b : Framed(b[c])
        /\ \A z : ClientAt(z, client, mIsKeyFrameWrite, encoded) => Flowing(z, b)
    BY <1>3, <2>0
  <2> HIDE DEF b
  <2>2. sent \in Nat /\ sent <= Len(b) BY <2>1
  <2>3. e \in Seq(AnyDatagram) /\ \A c \in DOMAIN e : Framed(e[c])
    <3>1. /\ e \in Seq(AnyDatagram) /\ DOMAIN e = 1..sent
          /\ \A i \in 1..sent : i \in DOMAIN b /\ e[i] = b[i]
      BY <2>1, <2>2, Prefix
    <3> QED BY <2>1, <3>1
  <2>4. ASSUME NEW z, Flowing(z, b) PROVE Flowing(z, e) BY <2>1, <2>2, <2>4, PrefixFlows
  <2> HIDE DEF e
  <2>5. Sends(e) BY <2>s, <2>3 DEF Sends
  <2>6. KeyGate' BY <2>0 DEF KeyGate
  <2>7. Carries(e) BY <2>0, <2>1, <2>4 DEF Carries, ClientAt
  <2> QED BY <2>0, <2>1, <2>3, <2>5, <2>6, <2>7, ClientKeeps
<1> QED BY <1>1, <1>2, <1>4, <1>5 DEF Client

(* The network: it is no longer without faults.                            *)
LEMMA NetworkGop ==
    ASSUME GInv, Network
    PROVE  GInv'
<1>0. /\ Base /\ net \in Seq(AnyDatagram) /\ faults \in [FaultKinds -> Nat]
  BY DEF GInv, Base, MoreTypes, Types
<1>f. ASSUME NEW kind \in FaultKinds, Fault(kind), net' \in Seq(AnyDatagram) PROVE GInv'
  <2>1. /\ faults' = [faults EXCEPT ![kind] = @ + 1]
        /\ UNCHANGED <<client, encoded, mIsKeyFrameWrite, phase, count, tempLength, tempData, list,
                       setInfo, queueOpen, mPlayQueue1, player, config, decoded>>
    BY <1>f DEF Fault, clientVars, serverVars, assemblyVars, jniVars, playerVars
  <2>2. faults' \in [FaultKinds -> Nat] BY <1>0, <2>1, FaultsStay
  <2>3. faults'[kind] # 0 BY <1>0, <2>1
  <2>4. ~Clear(faults') BY <2>3 DEF Clear
  <2>5. MoreTypes' BY <1>0, <1>f, <2>1, <2>2 DEF Base, MoreTypes, Types
  <2>6. Stages' BY <1>0, <2>1, SetupKept
  <2>7. KeyGate' BY <1>0, <2>1 DEF Base, KeyGate
  <2> QED BY <2>4, <2>5, <2>6, <2>7 DEF GInv, Base
<1>1. ASSUME NEW i \in 1..Len(net), Lose(i) PROVE GInv'
  <2>1. Fault("lose") /\ net' = SubSeq(net, 1, i - 1) \o SubSeq(net, i + 1, Len(net))
    BY <1>1 DEF Lose
  <2>2. net' \in Seq(AnyDatagram) BY <1>0, <2>1, OneLost
  <2> QED BY <1>f, <2>1, <2>2 DEF FaultKinds
<1>2. ASSUME NEW i \in 1..Len(net), Duplicate(i) PROVE GInv'
  <2>1. Fault("duplicate") /\ net' = SubSeq(net, 1, i) \o SubSeq(net, i, Len(net))
    BY <1>2 DEF Duplicate
  <2>2. net' \in Seq(AnyDatagram) BY <1>0, <2>1, OneTwice
  <2> QED BY <1>f, <2>1, <2>2 DEF FaultKinds
<1>3. ASSUME NEW i \in 1..Len(net), Reorder(i) PROVE GInv'
  <2>1. /\ Fault("reorder") /\ i < Len(net)
        /\ net' = [net EXCEPT ![i] = net[i + 1], ![i + 1] = net[i]]
    BY <1>3 DEF Reorder
  <2>2. net' \in Seq(AnyDatagram) BY <1>0, <2>1, TwoSwapped
  <2> QED BY <1>f, <2>1, <2>2 DEF FaultKinds
<1> QED BY <1>1, <1>2, <1>3 DEF Network

(* The event thread and the player.                                        *)
LEMMA PlayerKept ==
    ASSUME GInv, UNCHANGED <<client, encoded, mIsKeyFrameWrite, net, faults, phase, needToAbandon,
                             count, tempLength, tempData, list>>,
           mPlayQueue1' \in Seq(AnyItem), config' \in Seq(AnyItem), decoded' \in Seq(AnyItem), Stages',
           Undisturbed => /\ FirstIsKey(player', mPlayQueue1')
                          /\ OrderKept(config, decoded, mPlayQueue1, player,
                                       config', decoded', mPlayQueue1', player')
    PROVE  GInv'
<1>1. MoreTypes' BY DEF GInv, Base, MoreTypes, Types
<1>2. KeyGate' BY DEF GInv, Base, KeyGate
<1>3. ASSUME Clear(faults') PROVE Undisturbed'
  <2>1. Undisturbed BY <1>3 DEF GInv
  <2>2. /\ Peaceful' /\ FirstIsKey(player', mPlayQueue1')
    BY <2>1 DEF Undisturbed, Peaceful
  <2>3. InOrder(config, decoded, mPlayQueue1) BY <2>1 DEF Undisturbed
  <2>4. /\ InOrder(config', decoded', mPlayQueue1')
        /\ \A w : LastPut(config, decoded, mPlayQueue1, player, w) =>
                      LastPut(config', decoded', mPlayQueue1', player', w)
    BY <2>1, <2>3 DEF OrderKept
  <2>5. ASSUME Listening(phase')
        PROVE  /\ Placed(net', SetupSent(client'), SetupReceived(phase'))
               /\ \E w \in AnyDatagram : Stream(w)'
    <3>1. Listening(phase) BY <2>5
    <3>2. Placed(net, SetupSent(client), SetupReceived(phase)) BY <2>1, <3>1 DEF Undisturbed
    <3>3. PICK w \in AnyDatagram : Stream(w) BY <2>1, <3>1 DEF Undisturbed
    <3>4. /\ ServerAt(w, phase, count, tempLength, tempData) /\ Flowing(w, net)
          /\ ClientAt(LastOf(w, net), client, mIsKeyFrameWrite, encoded)
          /\ LastPut(config, decoded, mPlayQueue1, player, w)
      BY <3>3 DEF Stream
    <3>5. /\ ServerAt(w, phase', count', tempLength', tempData') /\ Flowing(w, net')
          /\ ClientAt(LastOf(w, net'), client', mIsKeyFrameWrite', encoded')
          /\ LastPut(config', decoded', mPlayQueue1', player', w)
      BY <2>4, <3>4
    <3>6. Stream(w)' BY <3>5 DEF Stream
    <3> QED BY <3>2, <3>6
  <2> QED BY <2>2, <2>4, <2>5 DEF Undisturbed
<1> QED BY <1>1, <1>2, <1>3 DEF GInv, Base

LEMMA PlayerGop ==
    ASSUME GInv, OnSetInfo \/ Player \/ PlayerCloses, ~SecondPassLate
    PROVE  GInv'
<1>0. /\ mPlayQueue1 \in Seq(AnyItem) /\ config \in Seq(AnyItem) /\ decoded \in Seq(AnyItem)
      /\ Stages /\ Len(config) \in Nat
  BY DEF GInv, Base, MoreTypes, Types
<1>1. UNCHANGED <<client, encoded, mIsKeyFrameWrite, net, faults, phase, needToAbandon, count,
                  tempLength, tempData, list>>
  BY DEF OnSetInfo, Player, PlayerCloses, PrepareFails, PrepareTakes, PlayerStarts, DecodeThread,
         Drain, Check, Drain2, Take, PlayerStep, clientVars, serverVars, assemblyVars
<1>k. Undisturbed => FirstIsKey(player, mPlayQueue1) BY DEF Undisturbed
<1>s. ASSUME Stages', UNCHANGED <<mPlayQueue1, config, decoded>>, player # "closed",
             player' \notin {"check", "drain2"} \/ player = "check"
      PROVE  GInv'
  <2>1. OrderKept(config, decoded, mPlayQueue1, player, config, decoded, mPlayQueue1, player')
    BY <1>s, SameOrder
  <2>2. Undisturbed => FirstIsKey(player', mPlayQueue1') BY <1>k, <1>s DEF FirstIsKey
  <2> QED BY <1>0, <1>1, <1>s, <2>1, <2>2, PlayerKept
<1>2. CASE OnSetInfo
  <2>1. /\ setInfo # "none" /\ setInfo' = "none" /\ queueOpen' = TRUE /\ player' = "prepare"
        /\ UNCHANGED <<mPlayQueue1, config, decoded>>
    BY <1>2 DEF OnSetInfo
  <2>2. player = "none" /\ phase # "info" BY <1>0, <2>1 DEF Stages
  <2>3. Stages' BY <1>0, <1>1, <2>1, <2>2 DEF Stages
  <2> QED BY <1>s, <2>1, <2>2, <2>3
<1>3. CASE PrepareFails
  <2>1. /\ player = "prepare" /\ player' = "failed"
        /\ UNCHANGED <<setInfo, queueOpen, mPlayQueue1, config, decoded>>
    BY <1>3 DEF PrepareFails, PlayerStep
  <2>2. Stages' BY <1>0, <1>1, <2>1 DEF Stages
  <2> QED BY <1>s, <2>1, <2>2
<1>4. CASE PrepareTakes
  <2>1. /\ mPlayQueue1 # <<>> /\ mPlayQueue1' = Tail(mPlayQueue1)
        /\ config' = Append(config, Head(mPlayQueue1))
        /\ UNCHANGED <<setInfo, queueOpen, decoded>>
        /\ \/ player = "prepare" /\ player' = "prepare2"
           \/ player = "prepare2" /\ player' = "start"
    BY <1>4 DEF PrepareTakes, PlayerStep
  <2>2. decoded = <<>> BY <1>0, <2>1 DEF Stages
  <2>3. Tail(mPlayQueue1) \in Seq(AnyItem) /\ Head(mPlayQueue1) \in AnyItem BY <1>0, <2>1, Rest
  <2>4. config' \in Seq(AnyItem) /\ Len(config') = Len(config) + 1 BY <1>0, <2>1, <2>3, Appended
  <2>5. OrderKept(config, decoded, mPlayQueue1, player, config', decoded, Tail(mPlayQueue1), player')
    BY <1>0, <2>1, <2>2, PreparingOrder
  <2>6. Stages'
    <3>1. CASE player = "prepare" /\ player' = "prepare2"
      <4>1. config = <<>> BY <1>0, <3>1 DEF Stages
      <4>2. Len(config') = 1 BY <2>4, <4>1
      <4> QED BY <1>0, <1>1, <2>1, <2>2, <3>1, <4>2 DEF Stages
    <3>2. CASE player = "prepare2" /\ player' = "start"
      <4>1. Len(config) = 1 BY <1>0, <3>2 DEF Stages
      <4>2. Len(config') = 2 BY <2>4, <4>1
      <4> QED BY <1>0, <1>1, <2>1, <2>2, <3>2, <4>2 DEF Stages
    <3> QED BY <2>1, <3>1, <3>2
  <2>7. FirstIsKey(player', mPlayQueue1') BY <2>1 DEF FirstIsKey
  <2> QED BY <1>0, <1>1, <2>1, <2>3, <2>4, <2>5, <2>6, <2>7, PlayerKept
<1>5. CASE PlayerStarts
  <2>1. /\ player = "start" /\ player' \in {"drain", "failed"}
        /\ UNCHANGED <<setInfo, queueOpen, mPlayQueue1, config, decoded>>
    BY <1>5 DEF PlayerStarts, PlayerStep
  <2>2. Stages' BY <1>0, <1>1, <2>1 DEF Stages
  <2> QED BY <1>s, <2>1, <2>2
<1>6. CASE Drain
  <2>0. /\ player = "drain" /\ UNCHANGED <<setInfo, queueOpen, config, decoded>>
        /\ \/ /\ KeysOf(mPlayQueue1) # {} /\ player' = "check"
              /\ mPlayQueue1' = SubSeq(mPlayQueue1, FirstKey(mPlayQueue1), Len(mPlayQueue1))
           \/ player' = "take" /\ mPlayQueue1' = mPlayQueue1
    BY <1>6 DEF Drain, PlayerStep
  <2>1. Len(config) = 2 /\ queueOpen BY <1>0, <2>0 DEF Stages
  <2>2. Stages' BY <1>0, <1>1, <2>0, <2>1 DEF Stages
  <2>3. CASE player' = "take" /\ mPlayQueue1' = mPlayQueue1 BY <1>s, <2>0, <2>2, <2>3
  <2>4. CASE /\ KeysOf(mPlayQueue1) # {} /\ player' = "check"
             /\ mPlayQueue1' = SubSeq(mPlayQueue1, FirstKey(mPlayQueue1), Len(mPlayQueue1))
    <3>1. Continues(mPlayQueue1, mPlayQueue1') BY <1>0, <2>4, FromKeyChained
    <3>2. OrderKept(config, decoded, mPlayQueue1, player, config, decoded, mPlayQueue1', player')
      BY <1>0, <2>0, <2>1, <3>1, DroppingOrder
    <3>3. mPlayQueue1' \in Seq(AnyItem) /\ FirstIsKey(player', mPlayQueue1')
      BY <3>1 DEF Continues, FirstIsKey
    <3> QED BY <1>0, <1>1, <2>0, <2>2, <3>2, <3>3, PlayerKept
  <2> QED BY <2>0, <2>3, <2>4
<1>7. CASE Check
  <2>1. /\ player = "check" /\ player' \in {"drain2", "take"}
        /\ UNCHANGED <<setInfo, queueOpen, mPlayQueue1, config, decoded>>
    BY <1>7 DEF Check, PlayerStep
  <2>2. Stages' BY <1>0, <1>1, <2>1 DEF Stages
  <2> QED BY <1>s, <2>1, <2>2
<1>8. CASE Drain2
  <2>0. /\ player = "drain2" /\ player' = "take" /\ UNCHANGED <<setInfo, queueOpen, config, decoded>>
    BY <1>8 DEF Drain2, PlayerStep
  <2>1. Len(config) = 2 /\ queueOpen BY <1>0, <2>0 DEF Stages
  <2>2. Stages' BY <1>0, <1>1, <2>0, <2>1 DEF Stages
  <2> DEFINE upTo(i) == Cardinality({k \in KeysOf(mPlayQueue1) : k <= i})
             kept == {i \in 1..Len(mPlayQueue1) : mPlayQueue1[i].key \/ upTo(i) >= 2}
  <2>3. kept \in SUBSET (1..Len(mPlayQueue1)) /\ KeptBy(mPlayQueue1, kept) BY DEF KeptBy, UpTo
  <2>4. mPlayQueue1' = [n \in 1..Cardinality(kept) |->
            mPlayQueue1[CHOOSE i \in kept : Cardinality({j \in kept : j <= i}) = n]]
    BY <1>8 DEF Drain2
  <2> HIDE DEF kept
  <2>5. Cardinality(kept) \in Nat /\ \E h : Picks(mPlayQueue1, kept, mPlayQueue1', h)
    BY <1>0, <2>3, <2>4, Picked
  <2>6. PICK h : Picks(mPlayQueue1, kept, mPlayQueue1', h) BY <2>5
  <2>7. mPlayQueue1' \in Seq(AnyItem) BY <2>6 DEF Picks
  <2>8. mPlayQueue1[Len(mPlayQueue1)].key \/ ~(Cardinality(KeysOf(mPlayQueue1)) < 2)
    BY <2>0 DEF SecondPassLate, OpenGop
  <2>9. ASSUME Undisturbed
        PROVE  /\ FirstIsKey(player', mPlayQueue1')
               /\ OrderKept(config, decoded, mPlayQueue1, player,
                            config', decoded', mPlayQueue1', player')
    <3>1. mPlayQueue1 # <<>> /\ mPlayQueue1[1].key BY <1>k, <2>0, <2>9 DEF FirstIsKey
    <3>2. Continues(mPlayQueue1, mPlayQueue1') BY <1>0, <2>3, <2>5, <2>6, <2>8, <3>1, KeptChained
    <3>3. OrderKept(config, decoded, mPlayQueue1, player, config, decoded, mPlayQueue1', player')
      BY <1>0, <2>0, <2>1, <3>2, DroppingOrder
    <3> QED BY <2>0, <3>3 DEF FirstIsKey
  <2> QED BY <1>0, <1>1, <2>0, <2>2, <2>7, <2>9, PlayerKept
<1>9. CASE Take
  <2>0. /\ player = "take" /\ player' \in {"drain", "failed"} /\ UNCHANGED <<setInfo, queueOpen, config>>
        /\ mPlayQueue1 # <<>> /\ mPlayQueue1' = Tail(mPlayQueue1)
        /\ decoded' = Append(decoded, Head(mPlayQueue1))
    BY <1>9 DEF Take, PlayerStep
  <2>1. Len(config) = 2 /\ queueOpen BY <1>0, <2>0 DEF Stages
  <2>2. Stages' BY <1>0, <1>1, <2>0, <2>1 DEF Stages
  <2>3. Tail(mPlayQueue1) \in Seq(AnyItem) /\ Head(mPlayQueue1) \in AnyItem BY <1>0, <2>0, Rest
  <2>4. decoded' \in Seq(AnyItem) BY <1>0, <2>0, <2>3, Appended
  <2>5. OrderKept(config, decoded, mPlayQueue1, player, config, decoded', Tail(mPlayQueue1), player')
    BY <1>0, <2>0, <2>1, TakingOrder
  <2>6. FirstIsKey(player', mPlayQueue1') BY <2>0 DEF FirstIsKey
  <2> QED BY <1>0, <1>1, <2>0, <2>2, <2>3, <2>4, <2>5, <2>6, PlayerKept
<1>10. CASE PlayerCloses
  <2>0. /\ player \in {"drain", "check", "drain2", "take"} /\ player' = "closed" /\ queueOpen' = FALSE
        /\ mPlayQueue1' = <<>> /\ UNCHANGED <<setInfo, config, decoded>>
    BY <1>10 DEF PlayerCloses, PlayerStep
  <2>1. Len(config) = 2 BY <1>0, <2>0 DEF Stages
  <2>2. Stages' BY <1>0, <1>1, <2>0, <2>1 DEF Stages
  <2>3. OrderKept(config, decoded, mPlayQueue1, player, config, decoded, <<>>, "closed")
    BY <1>0, <2>1, ClosingOrder
  <2>4. FirstIsKey(player', mPlayQueue1') /\ mPlayQueue1' \in Seq(AnyItem) BY <2>0 DEF FirstIsKey
  <2> QED BY <1>0, <1>1, <2>0, <2>2, <2>3, <2>4, PlayerKept
<1> QED BY <1>2, <1>3, <1>4, <1>5, <1>6, <1>7, <1>8, <1>9, <1>10 DEF Player, DecodeThread

(* The receive thread.  w is the datagram received before d.               *)
Before(w, d) ==
    /\ Peaceful /\ FirstIsKey(player, mPlayQueue1) /\ InOrder(config, decoded, mPlayQueue1)
    /\ Follows(w, d) /\ (Framed(d) <=> phase = "loop")
    /\ ServerAt(w, phase, count, tempLength, tempData)
    /\ LastPut(config, decoded, mPlayQueue1, player, w)

OneFurther(r) == IF r = 3 THEN 3 ELSE r + 1

Behind(d) ==
    /\ phase # "drain" /\ ~needToAbandon
    /\ FirstIsKey(player, mPlayQueue1) /\ InOrder(config, decoded, mPlayQueue1)
    /\ Listening(phase) => /\ ServerAt(d, phase, count, tempLength, tempData)
                           /\ LastPut(config, decoded, mPlayQueue1, player, d)

LEMMA Receives ==
    ASSUME GInv, Listening(phase), net # <<>>, net' = Tail(net), NEW d, d = Head(net),
           UNCHANGED <<client, encoded, mIsKeyFrameWrite, faults, config, decoded, player>>,
           MoreTypes', Stages',
           Listening(phase') => SetupReceived(phase') = OneFurther(SetupReceived(phase)),
           \A w \in AnyDatagram : Before(w, d) => Behind(d)'
    PROVE  GInv'
<1>0. net \in Seq(AnyDatagram) BY DEF GInv, Base, MoreTypes, Types
<1>1. d \in AnyDatagram BY <1>0, Rest
<1>2. KeyGate' BY DEF GInv, Base, KeyGate
<1>3. ASSUME Clear(faults') PROVE Undisturbed'
  <2>1. Undisturbed BY <1>3 DEF GInv
  <2>2. PICK w \in AnyDatagram : Stream(w) BY <2>1 DEF Undisturbed
  <2>3. Placed(net, SetupSent(client), SetupReceived(phase)) BY <2>1 DEF Undisturbed
  <2>4. /\ ServerAt(w, phase, count, tempLength, tempData) /\ Flowing(w, net)
        /\ ClientAt(LastOf(w, net), client, mIsKeyFrameWrite, encoded)
        /\ LastPut(config, decoded, mPlayQueue1, player, w)
    BY <2>2 DEF Stream
  <2>5. /\ Follows(w, Head(net)) /\ Flowing(Head(net), Tail(net))
        /\ LastOf(Head(net), Tail(net)) = LastOf(w, net)
    BY <1>0, <2>4, TailFlows
  <2>6. /\ SetupReceived(phase) = 3 => Framed(Head(net)) /\ Placed(Tail(net), SetupSent(client), 3)
        /\ SetupReceived(phase) < 3 =>
              ~Framed(Head(net)) /\ Placed(Tail(net), SetupSent(client), SetupReceived(phase) + 1)
    BY <1>0, <2>3, SetupCounts, TailPlaced
  <2>7. (SetupReceived(phase) = 3 <=> phase = "loop") /\ (phase # "loop" => SetupReceived(phase) < 3)
    BY DEF Listening, SetupReceived
  <2>8. Before(w, d) BY <2>1, <2>4, <2>5, <2>6, <2>7 DEF Before, Undisturbed
  <2>9. Behind(d)' BY <2>8
  <2>10. /\ Peaceful' /\ FirstIsKey(player', mPlayQueue1') /\ InOrder(config', decoded', mPlayQueue1')
    BY <2>9 DEF Behind, Peaceful
  <2>11. ASSUME Listening(phase')
         PROVE  /\ Placed(net', SetupSent(client'), SetupReceived(phase'))
                /\ \E y \in AnyDatagram : Stream(y)'
    <3>1. /\ ServerAt(d, phase', count', tempLength', tempData')
          /\ LastPut(config', decoded', mPlayQueue1', player', d)
      BY <2>9, <2>11 DEF Behind
    <3>2. Flowing(d, net') /\ ClientAt(LastOf(d, net'), client', mIsKeyFrameWrite', encoded')
      BY <2>4, <2>5
    <3>3. Stream(d)' BY <3>1, <3>2 DEF Stream
    <3>4. SetupReceived(phase') = OneFurther(SetupReceived(phase)) BY <2>11
    <3>5. Placed(net', SetupSent(client'), SetupReceived(phase'))
      BY <2>6, <2>7, <3>4 DEF OneFurther
    <3> QED BY <1>1, <3>3, <3>5
  <2> QED BY <2>10, <2>11 DEF Undisturbed
<1> QED BY <1>2, <1>3 DEF GInv, Base

LEMMA PutTyped ==
    ASSUME Base, NEW item \in AnyItem, PutData(item)
    PROVE  /\ mPlayQueue1' \in Seq(AnyItem)
           /\ queueOpen => mPlayQueue1' = Append(mPlayQueue1, item)
           /\ ~queueOpen => mPlayQueue1' = mPlayQueue1
<1>0. mPlayQueue1 \in Seq(AnyItem) BY DEF Base, MoreTypes, Types
<1>1. CASE queueOpen
  <2>1. mPlayQueue1' = Append(mPlayQueue1, item) BY <1>1 DEF PutData
  <2>2. Append(mPlayQueue1, item) \in Seq(AnyItem) BY <1>0, Appended
  <2> QED BY <1>1, <2>1, <2>2
<1>2. CASE ~queueOpen BY <1>0, <1>2 DEF PutData
<1> QED BY <1>1, <1>2

(* What a put does to the order of the frames: a block of the set-up, and  *)
(* the frame that the datagram d ends.                                     *)
LEMMA PutKeepsFirst ==
    ASSUME NEW q \in Seq(AnyItem), NEW y \in AnyItem, NEW p, FirstIsKey(p, q), NEW r, r = Append(q, y)
    PROVE  FirstIsKey(p, r)
<1>1. /\ r # <<>> /\ DOMAIN q = 1..Len(q) /\ Len(q) \in Nat /\ (q = <<>> <=> Len(q) = 0)
      /\ \A i \in DOMAIN q : i \in DOMAIN r /\ r[i] = q[i]
  BY Appended
<1>2. ASSUME q # <<>>, q[1].key PROVE r[1].key
  <2>1. 1 \in DOMAIN q BY <1>1, <1>2
  <2> QED BY <1>1, <1>2, <2>1
<1> QED BY <1>1, <1>2 DEF FirstIsKey

LEMMA BlockPut ==
    ASSUME Base, NEW y \in AnyItem, y.kind # "frame", PutData(y), FirstIsKey(player, mPlayQueue1),
           InOrder(config, decoded, mPlayQueue1)
    PROVE  FirstIsKey(player, mPlayQueue1') /\ InOrder(config, decoded, mPlayQueue1')
<1>0. mPlayQueue1 \in Seq(AnyItem) /\ Len(config) \in Nat BY DEF Base, MoreTypes, Types
<1>1. CASE queueOpen
  <2>1. mPlayQueue1' = Append(mPlayQueue1, y) BY <1>1, PutTyped
  <2>2. Fitting(config, decoded, mPlayQueue1, y) BY DEF Fitting, Succeeds
  <2>3. InOrder(config, decoded, mPlayQueue1') BY <1>0, <2>1, <2>2, PutOrder
  <2>4. FirstIsKey(player, mPlayQueue1') BY <1>0, <2>1, PutKeepsFirst
  <2> QED BY <2>3, <2>4
<1>2. CASE ~queueOpen
  <2>1. mPlayQueue1' = mPlayQueue1 BY <1>2, PutTyped
  <2> QED BY <2>1
<1> QED BY <1>1, <1>2

LEMMA FramePut ==
    ASSUME Base, NEW w \in AnyDatagram, NEW d \in AnyDatagram, Before(w, d), Framed(d), Ends(d),
           Counts(w), NEW y \in AnyItem, y.kind = "frame", y.key = d.key, IdOf(y) = d.id, PutData(y)
    PROVE  /\ FirstIsKey(player, mPlayQueue1') /\ InOrder(config, decoded, mPlayQueue1')
           /\ LastPut(config, decoded, mPlayQueue1', player, d)
<1>0. /\ mPlayQueue1 \in Seq(AnyItem) /\ Len(config) \in Nat /\ Follows(w, d)
      /\ FirstIsKey(player, mPlayQueue1) /\ InOrder(config, decoded, mPlayQueue1)
      /\ LastPut(config, decoded, mPlayQueue1, player, w)
  BY DEF Base, MoreTypes, Types, Before
<1>1. CASE queueOpen
  <2> DEFINE x == LastOf(LastOf(Nothing, decoded), mPlayQueue1)
  <2>1. mPlayQueue1' = Append(mPlayQueue1, y) BY <1>1, PutTyped
  <2>2. player # "closed" BY <1>1 DEF Base, Stages
  <2>3. ASSUME Linked(x, w) PROVE Succeeds(x, y) /\ Linked(y, d) BY <1>0, <2>3, EndingLinks
  <2>4. Fitting(config, decoded, mPlayQueue1, y)
    <3> SUFFICES ASSUME Lead(config, mPlayQueue1), Len(config) + Len(mPlayQueue1) >= 2
                 PROVE  Succeeds(x, y)
      BY DEF Fitting
    <3>1. Linked(x, w) BY <1>0, <2>2 DEF LastPut, Supplied
    <3> QED BY <2>3, <3>1
  <2>5. /\ InOrder(config, decoded, mPlayQueue1')
        /\ Lead(config, mPlayQueue1') => LastOf(LastOf(Nothing, decoded), mPlayQueue1') = y
    BY <1>0, <2>1, <2>4, PutOrder
  <2>6. FirstIsKey(player, mPlayQueue1') BY <1>0, <2>1, PutKeepsFirst
  <2>7. Linked(y, d) BY DEF Linked
  <2>8. LastPut(config, decoded, mPlayQueue1', player, d) BY <2>5, <2>7 DEF LastPut
  <2> QED BY <2>5, <2>6, <2>8
<1>2. CASE ~queueOpen
  <2>1. mPlayQueue1' = mPlayQueue1 /\ mPlayQueue1 = <<>> BY <1>2, PutTyped DEF Base, Stages
  <2>2. player \in {"none", "closed"} BY <1>2 DEF Base, Stages
  <2>3. ~Supplied(player, config, mPlayQueue1)
    <3>1. CASE player = "none"
      <4>1. config = <<>> BY <3>1 DEF Base, Stages
      <4> QED BY <2>1, <4>1 DEF Supplied
    <3>2. CASE player = "closed" BY <3>2 DEF Supplied
    <3> QED BY <2>2, <3>1, <3>2
  <2>4. LastPut(config, decoded, mPlayQueue1', player, d) BY <2>1, <2>3 DEF LastPut
  <2> QED BY <1>0, <2>1, <2>4
<1> QED BY <1>1, <1>2

LEMMA ServerStages ==
    ASSUME Base, UNCHANGED <<setInfo, player, queueOpen, config, decoded>>, phase' # "info",
           ~queueOpen => mPlayQueue1' = mPlayQueue1
    PROVE  Stages'
  BY DEF Base, Stages

LEMMA ServerGop ==
    ASSUME GInv, Server
    PROVE  GInv'
<1>0. /\ Base /\ net \in Seq(AnyDatagram) /\ count \in Nat /\ tempLength \in Nat
      /\ tempData \in Seq(Byte) /\ list \in Seq(AnyItem) /\ mPlayQueue1 \in Seq(AnyItem)
      /\ LimitData \in Nat \ {0}
  BY Constants DEF GInv, Base, MoreTypes, Types
<1>x. PICK d : d = datagram OBVIOUS
<1>d. ASSUME net # <<>>
      PROVE  /\ d.kind \in {"info", "config", "frame"} /\ d.key \in BOOLEAN
             /\ d.length \in Nat \ {0} /\ d.id \in Nat /\ d.count \in Nat
             /\ d = Head(net) /\ d \in AnyDatagram /\ Tail(net) \in Seq(AnyDatagram)
  <2>1. Head(net) \in AnyDatagram /\ Tail(net) \in Seq(AnyDatagram) BY <1>0, <1>d, Rest
  <2> QED BY <1>x, <2>1 DEF datagram, AnyDatagram
<1>t. ASSUME net # <<>>, net' = Tail(net), UNCHANGED <<encoded, faults, config, decoded>>,
             count' \in Nat, tempLength' \in Nat, tempData' \in Seq(Byte), list' \in Seq(AnyItem),
             mPlayQueue1' \in Seq(AnyItem)
      PROVE  MoreTypes'
  BY <1>0, <1>d, <1>t DEF Base, MoreTypes, Types
<1>1. CASE ReceiveInfo
  <2>1. /\ phase = "info" /\ net # <<>> /\ net' = Tail(net) /\ phase' \in {"crashed", "sps"}
        /\ UNCHANGED <<client, encoded, mIsKeyFrameWrite, faults, needToAbandon, count, tempLength,
                       tempData, list, queueOpen, mPlayQueue1, player, config, decoded>>
    BY <1>1 DEF ReceiveInfo, Received, clientVars, assemblyVars, playerVars
  <2>2. MoreTypes' BY <1>0, <1>t, <2>1
  <2>3. player = "none" BY <1>0, <2>1 DEF Base, Stages
  <2>4. Stages' BY <1>0, <2>1, <2>3 DEF Base, Stages
  <2>5. Listening(phase) /\ (Listening(phase') => SetupReceived(phase') = OneFurther(SetupReceived(phase)))
    BY <2>1 DEF Listening, SetupReceived, OneFurther
  <2>6. ASSUME NEW w \in AnyDatagram, Before(w, d) PROVE Behind(d)'
    <3>1. ~Framed(d) /\ phase' # "loop" /\ tempLength = 0 BY <2>1, <2>6 DEF Before, ServerAt
    <3>2. ServerAt(d, phase', count', tempLength', tempData') BY <2>1, <3>1 DEF ServerAt
    <3>3. LastPut(config', decoded', mPlayQueue1', player', d) BY <3>1 DEF LastPut, Linked
    <3>4. phase' # "drain" /\ ~needToAbandon' BY <2>1, <2>6 DEF Before, Peaceful
    <3>5. FirstIsKey(player', mPlayQueue1') /\ InOrder(config', decoded', mPlayQueue1')
      BY <2>1, <2>6 DEF Before
    <3> QED BY <3>2, <3>3, <3>4, <3>5 DEF Behind
  <2> QED BY <1>d, <2>1, <2>2, <2>4, <2>5, <2>6, Receives
<1>2. ASSUME NEW p \in {"sps", "pps"}, NEW connected \in BOOLEAN, ReceiveConfig(p, connected)
      PROVE  GInv'
  <2>1. /\ phase = p /\ net # <<>> /\ net' = Tail(net)
        /\ UNCHANGED <<client, encoded, mIsKeyFrameWrite, faults, needToAbandon, count, tempLength,
                       tempData, list, setInfo, queueOpen, player, config, decoded>>
    BY <1>2 DEF ReceiveConfig, Received, clientVars, assemblyVars, playerVars
  <2> DEFINE kind == IF d.kind = "config" THEN "config" ELSE "raw"
             item == [kind |-> kind, key |-> FALSE, length |-> d.length,
                      parts |-> <<<<d.id, 1>>>>]
  <2>2. \/ phase' = "crashed" /\ mPlayQueue1' = mPlayQueue1
        \/ /\ phase' \in {"pps", "loop", "closed"} /\ (p = "sps" => phase' = "pps")
           /\ (p = "pps" => phase' # "pps") /\ d.length <= LimitData /\ PutData(item)
    <3>1. CASE datagram.length > LimitData BY <1>2, <3>1 DEF ReceiveConfig
    <3>2. CASE ~(datagram.length > LimitData)
      <4>1. d.length <= LimitData BY <1>0, <1>d, <1>x, <2>1, <3>2
      <4>2. PutData(item) BY <1>2, <1>x, <3>2 DEF ReceiveConfig
      <4>3. phase' = CASE p = "sps" -> "pps" [] p = "pps" -> IF connected THEN "loop" ELSE "closed"
        BY <1>2, <3>2 DEF ReceiveConfig
      <4>4. p = "sps" => phase' = "pps" BY <4>3
      <4>5. p = "pps" => phase' \in {"loop", "closed"} BY <4>3
      <4> QED BY <4>1, <4>2, <4>4, <4>5
    <3> QED BY <3>1, <3>2
  <2>3. kind \in {"config", "raw"} OBVIOUS
  <2> HIDE DEF kind
  <2>4. d.length <= LimitData => item \in AnyItem
    BY <1>d, <2>1, <2>3, OneDatagram
  <2>5. item.kind # "frame" BY <2>3
  <2> HIDE DEF item
  <2>6. mPlayQueue1' \in Seq(AnyItem) /\ (~queueOpen => mPlayQueue1' = mPlayQueue1)
    BY <1>0, <2>2, <2>4, PutTyped
  <2>7. MoreTypes' BY <1>0, <1>t, <2>1, <2>6
  <2>8. phase' # "info" /\ phase' # "drain" BY <2>2
  <2>9. Stages' BY <1>0, <2>1, <2>6, <2>8, ServerStages
  <2>10. Listening(phase) /\ (Listening(phase') => SetupReceived(phase') = OneFurther(SetupReceived(phase)))
    BY <2>1, <2>2 DEF Listening, SetupReceived, OneFurther
  <2>11. ASSUME NEW w \in AnyDatagram, Before(w, d) PROVE Behind(d)'
    <3>1. ~Framed(d) /\ tempLength = 0 BY <2>1, <2>11 DEF Before, ServerAt
    <3>2. ServerAt(d, phase', count', tempLength', tempData') BY <2>1, <3>1 DEF ServerAt
    <3>3. LastPut(config', decoded', mPlayQueue1', player', d) BY <3>1 DEF LastPut, Linked
    <3>4. phase' # "drain" /\ ~needToAbandon' BY <2>1, <2>8, <2>11 DEF Before, Peaceful
    <3>5. FirstIsKey(player, mPlayQueue1) /\ InOrder(config, decoded, mPlayQueue1)
      BY <2>11 DEF Before
    <3>6. FirstIsKey(player, mPlayQueue1') /\ InOrder(config, decoded, mPlayQueue1')
      BY <1>0, <2>2, <2>4, <2>5, <3>5, BlockPut
    <3>7. FirstIsKey(player', mPlayQueue1') /\ InOrder(config', decoded', mPlayQueue1')
      BY <2>1, <3>6
    <3> QED BY <3>2, <3>3, <3>4, <3>7 DEF Behind
  <2> QED BY <1>d, <2>1, <2>7, <2>9, <2>10, <2>11, Receives
<1>l. ASSUME phase = "loop", phase' \in {"loop", "thrown", "drain"}
      PROVE  /\ Listening(phase) /\ phase' # "info"
             /\ Listening(phase') => SetupReceived(phase') = OneFurther(SetupReceived(phase))
  BY <1>l DEF Listening, SetupReceived, OneFurther
<1>w. ASSUME NEW w \in AnyDatagram, Before(w, d), phase = "loop", net # <<>>
      PROVE  /\ ~needToAbandon /\ Framed(d) /\ Follows(w, d) /\ Counts(w)
             /\ tempLength # 0 => Framed(w) /\ ~Ends(w) /\ w.length = tempLength /\ w.count = count
                                  /\ count >= 1 /\ 1 \in DOMAIN tempData /\ tempData[1][1] = w.id
             /\ ~Framed(w) \/ Ends(w) => tempLength = 0 /\ Begins(d)
             /\ Framed(w) /\ ~Ends(w) =>
                   /\ tempLength # 0 /\ d.id = w.id /\ d.key = w.key /\ d.length = tempLength
                   /\ d.count = count + 1
  <2>1. ~needToAbandon /\ Framed(d) /\ Follows(w, d) BY <1>w DEF Before, Peaceful
  <2>2. ServerAt(w, phase, count, tempLength, tempData) BY <1>w DEF Before
  <2>3. tempLength # 0 => Framed(w) /\ ~Ends(w) /\ w.length = tempLength /\ w.count = count
                          /\ count >= 1 /\ 1 \in DOMAIN tempData /\ tempData[1][1] = w.id
    BY <2>2 DEF ServerAt
  <2>4. tempLength = 0 => (Framed(w) => Ends(w)) BY <2>2 DEF ServerAt
  <2>5. Counts(w) BY <1>0, <2>3, <2>4 DEF Counts
  <2>6. ~Framed(w) \/ Ends(w) => tempLength = 0 /\ Begins(d) BY <2>1, <2>3 DEF Follows
  <2>7. Framed(w) /\ ~Ends(w) =>
           /\ tempLength # 0 /\ d.id = w.id /\ d.key = w.key /\ d.length = tempLength
           /\ d.count = count + 1
    BY <2>1, <2>3, <2>4 DEF Follows
  <2> QED BY <2>1, <2>3, <2>5, <2>6, <2>7
<1>3. CASE Abandon
  <2>1. /\ phase = "loop" /\ net # <<>> /\ net' = Tail(net) /\ needToAbandon
        /\ UNCHANGED <<client, encoded, mIsKeyFrameWrite, faults, phase, needToAbandon, count,
                       tempLength, tempData, list, setInfo, queueOpen, mPlayQueue1, player, config,
                       decoded>>
    BY <1>3 DEF Abandon, Received, Abandoning, clientVars, serverVars, assemblyVars, jniVars,
                playerVars
  <2>2. MoreTypes' BY <1>0, <1>t, <2>1
  <2>3. Stages' BY <1>0, <2>1, SetupKept
  <2>4. /\ Listening(phase) /\ Listening(phase') => SetupReceived(phase') = OneFurther(SetupReceived(phase))
    BY <1>l, <2>1
  <2>5. ASSUME NEW w \in AnyDatagram, Before(w, d) PROVE Behind(d)'
    BY <2>1, <2>5 DEF Before, Peaceful
  <2>6. Listening(phase) BY <1>l, <2>1
  <2> QED BY <1>d, <2>1, <2>2, <2>3, <2>4, <2>5, <2>6, Receives
<1>a. ASSUME Accepted
      PROVE  /\ phase = "loop" /\ net # <<>> /\ net' = Tail(net) /\ needToAbandon' = FALSE
             /\ UNCHANGED <<client, encoded, mIsKeyFrameWrite, faults, setInfo, queueOpen, player,
                            config, decoded>>
  BY <1>a DEF Accepted, Received, clientVars, playerVars
<1>g. ASSUME phase = "loop", phase' \in {"loop", "thrown", "drain"}, net # <<>>, net' = Tail(net),
             UNCHANGED <<client, encoded, mIsKeyFrameWrite, faults, setInfo, queueOpen, player,
                         config, decoded>>,
             count' \in Nat, tempLength' \in Nat, tempData' \in Seq(Byte), list' \in Seq(AnyItem),
             mPlayQueue1' \in Seq(AnyItem), ~queueOpen => mPlayQueue1' = mPlayQueue1,
             \A w \in AnyDatagram : Before(w, d) => Behind(d)'
      PROVE  GInv'
  <2>1. MoreTypes' BY <1>t, <1>g
  <2>2. /\ Listening(phase) /\ phase' # "info"
        /\ Listening(phase') => SetupReceived(phase') = OneFurther(SetupReceived(phase))
    BY <1>l, <1>g
  <2>3. Stages' BY <1>0, <1>g, <2>2, ServerStages
  <2> QED BY <1>d, <1>g, <2>1, <2>2, <2>3, Receives
<1>4. CASE ReceiveWhole
  <2>1. /\ Accepted /\ d.length <= LimitData /\ ResetAssembly
        /\ UNCHANGED <<phase, list>>
    BY <1>4, <1>x DEF ReceiveWhole
  <2>2. /\ phase = "loop" /\ net # <<>> /\ net' = Tail(net) /\ needToAbandon' = FALSE
        /\ UNCHANGED <<client, encoded, mIsKeyFrameWrite, faults, setInfo, queueOpen, player,
                       config, decoded>>
    BY <1>a, <2>1
  <2> DEFINE item == [kind |-> d.kind, key |-> d.key, length |-> d.length,
                      parts |-> <<<<d.id, 1>>>>]
  <2>3. PutData(item) BY <1>4, <1>x DEF ReceiveWhole
  <2>4. item \in AnyItem BY <1>d, <2>1, <2>2, OneDatagram
  <2>5. item.kind = d.kind /\ item.key = d.key /\ IdOf(item) = d.id BY DEF IdOf
  <2> HIDE DEF item
  <2>6. mPlayQueue1' \in Seq(AnyItem) /\ (~queueOpen => mPlayQueue1' = mPlayQueue1)
    BY <1>0, <2>3, <2>4, PutTyped
  <2>7. count' = 0 /\ tempLength' = 0 /\ tempData' = <<>> BY <2>1 DEF ResetAssembly
  <2>8. count' \in Nat /\ tempLength' \in Nat /\ tempData' \in Seq(Byte) BY <2>7
  <2>9. ASSUME NEW w \in AnyDatagram, Before(w, d) PROVE Behind(d)'
    <3>1. Framed(d) /\ Counts(w) BY <1>w, <2>2, <2>9
    <3>2. Ends(d) BY <2>1 DEF Ends
    <3>3. d \in AnyDatagram /\ item.kind = "frame" BY <1>d, <2>2, <2>5, <3>1 DEF Framed
    <3>4. /\ FirstIsKey(player, mPlayQueue1') /\ InOrder(config, decoded, mPlayQueue1')
          /\ LastPut(config, decoded, mPlayQueue1', player, d)
      BY <1>0, <2>3, <2>4, <2>5, <2>9, <3>1, <3>2, <3>3, FramePut
    <3>5. ServerAt(d, phase', count', tempLength', tempData') BY <2>1, <2>2, <2>7, <3>2 DEF ServerAt
    <3>6. phase' # "drain" /\ ~needToAbandon' BY <2>1, <2>2
    <3>7. /\ FirstIsKey(player', mPlayQueue1') /\ InOrder(config', decoded', mPlayQueue1')
          /\ LastPut(config', decoded', mPlayQueue1', player', d)
      BY <2>2, <3>4
    <3> QED BY <3>5, <3>6, <3>7 DEF Behind
  <2>10. phase' = "loop" /\ list' \in Seq(AnyItem) BY <1>0, <2>1, <2>2
  <2> QED BY <1>g, <2>2, <2>6, <2>8, <2>9, <2>10
<1>5. CASE ReceiveFirst
  <2>1. /\ Accepted /\ d.length > LimitData /\ d.count = 1
        /\ tempLength' = d.length /\ count' = 1 /\ UNCHANGED <<phase, list, mPlayQueue1>>
        /\ tempData' = [i \in 1..Parts(d.length) |-> IF i = 1 THEN <<d.id, 1>> ELSE <<0, 0>>]
    BY <1>5, <1>x DEF ReceiveFirst, IsFirst
  <2>2. /\ phase = "loop" /\ net # <<>> /\ net' = Tail(net) /\ needToAbandon' = FALSE
        /\ UNCHANGED <<client, encoded, mIsKeyFrameWrite, faults, setInfo, queueOpen, player,
                       config, decoded>>
    BY <1>a, <2>1
  <2>3. Parts(d.length) \in Nat /\ Parts(d.length) >= 2 BY <1>d, <2>1, <2>2, CutInParts
  <2>4. tempData' \in Seq(Byte) /\ 1 \in DOMAIN tempData' /\ tempData'[1][1] = d.id
    <3>1. tempData' \in [1..Parts(d.length) -> Byte] BY <1>d, <2>1, <2>2 DEF Byte
    <3>2. 1 \in 1..Parts(d.length) BY <2>3
    <3>3. tempData'[1] = <<d.id, 1>> BY <2>1, <3>2
    <3>4. tempData' \in Seq(Byte) /\ DOMAIN tempData' = 1..Parts(d.length) BY <2>3, <3>1, AsSequence
    <3> QED BY <3>2, <3>3, <3>4
  <2>5. count' \in Nat /\ tempLength' \in Nat BY <1>d, <2>1, <2>2
  <2>6. ASSUME NEW w \in AnyDatagram, Before(w, d) PROVE Behind(d)'
    <3>1. Framed(d) /\ Follows(w, d) BY <1>w, <2>2, <2>6
    <3>2. ~Ends(d)
      <4>1. ~(d.length <= LimitData) /\ ~(1 >= Parts(d.length)) BY <1>0, <1>d, <2>1, <2>2, <2>3
      <4> QED BY <2>1, <4>1 DEF Ends
    <3>3. ServerAt(d, phase', count', tempLength', tempData')
      <4>1. d.length # 0 BY <1>d, <2>2
      <4> QED BY <2>1, <2>2, <2>4, <3>1, <3>2, <4>1 DEF ServerAt
    <3>4. d \in AnyDatagram /\ LastPut(config, decoded, mPlayQueue1, player, w)
      BY <1>d, <2>2, <2>6 DEF Before
    <3>5. LastPut(config, decoded, mPlayQueue1, player, d)
      BY <3>1, <3>2, <3>4, OpenLinks DEF LastPut
    <3>6. FirstIsKey(player, mPlayQueue1) /\ InOrder(config, decoded, mPlayQueue1)
      BY <2>6 DEF Before
    <3>7. /\ FirstIsKey(player', mPlayQueue1') /\ InOrder(config', decoded', mPlayQueue1')
          /\ LastPut(config', decoded', mPlayQueue1', player', d)
      BY <2>1, <2>2, <3>5, <3>6
    <3>8. phase' # "drain" /\ ~needToAbandon' BY <2>1, <2>2
    <3> QED BY <3>3, <3>7, <3>8 DEF Behind
  <2>7. phase' = "loop" /\ list' \in Seq(AnyItem) /\ mPlayQueue1' \in Seq(AnyItem) BY <1>0, <2>1, <2>2
  <2> QED BY <1>g, <2>1, <2>2, <2>4, <2>5, <2>6, <2>7
<1>f. ASSUME IsLater, Fits
      PROVE  /\ d.length > LimitData /\ d.count # 1 /\ tempLength # 0 /\ tempLength = d.length
  BY <1>f, <1>x DEF IsLater, Fits
<1>n. ASSUME NEW w \in AnyDatagram, Before(w, d), phase = "loop", net # <<>>, tempLength # 0
      PROVE  /\ Framed(d) /\ Framed(w) /\ ~Ends(w) /\ Follows(w, d) /\ Counts(w)
             /\ w.id = d.id /\ d.length = tempLength /\ d.count = count + 1 /\ count >= 1
             /\ 1 \in DOMAIN tempData /\ tempData[1][1] = d.id
  <2>1. /\ Framed(d) /\ Follows(w, d) /\ Counts(w)
        /\ Framed(w) /\ ~Ends(w) /\ count >= 1 /\ 1 \in DOMAIN tempData /\ tempData[1][1] = w.id
    BY <1>n, <1>w
  <2>2. d.id = w.id /\ d.length = tempLength /\ d.count = count + 1 BY <1>n, <1>w, <2>1
  <2> QED BY <2>1, <2>2
<1>6. CASE ReceiveOutOfStep
  <2>1. /\ Accepted /\ IsLater /\ Fits /\ count + 1 # d.count /\ count' = count + 1
        /\ UNCHANGED <<phase, tempLength, tempData, list, mPlayQueue1>>
    BY <1>6, <1>x DEF ReceiveOutOfStep, OutOfStep, Counted
  <2>2. /\ phase = "loop" /\ net # <<>> /\ net' = Tail(net) /\ needToAbandon' = FALSE
        /\ UNCHANGED <<client, encoded, mIsKeyFrameWrite, faults, setInfo, queueOpen, player,
                       config, decoded>>
    BY <1>a, <2>1
  <2>3. ASSUME NEW w \in AnyDatagram, Before(w, d) PROVE Behind(d)'
    BY <1>f, <1>n, <2>1, <2>2, <2>3
  <2>4. /\ phase' = "loop" /\ count' \in Nat /\ tempLength' \in Nat /\ tempData' \in Seq(Byte)
        /\ list' \in Seq(AnyItem) /\ mPlayQueue1' \in Seq(AnyItem)
    BY <1>0, <2>1, <2>2
  <2> QED BY <1>g, <2>1, <2>2, <2>3, <2>4
<1>c. ASSUME net # <<>>, NEW n
      PROVE  /\ CopyTo(n) \in Seq(Byte)
             /\ 1 \in DOMAIN tempData /\ n # 1 => 1 \in DOMAIN CopyTo(n) /\ CopyTo(n)[1] = tempData[1]
  <2>1. <<d.id, d.count>> \in Byte BY <1>c, <1>d DEF Byte
  <2>2. CopyTo(n) = [tempData EXCEPT ![n] = <<d.id, d.count>>] BY <1>x DEF CopyTo
  <2>3. CopyTo(n) \in Seq(Byte) BY <1>0, <2>1, <2>2, Changed
  <2>4. 1 \in DOMAIN tempData /\ n # 1 => 1 \in DOMAIN CopyTo(n) /\ CopyTo(n)[1] = tempData[1]
    BY <2>2
  <2> QED BY <2>3, <2>4
<1>7. CASE ReceiveNext
  <2>1. /\ Accepted /\ IsLater /\ Fits /\ count + 1 < Parts(tempLength)
        /\ count' = count + 1 /\ tempData' = CopyTo(count + 1)
        /\ UNCHANGED <<phase, tempLength, list, mPlayQueue1>>
    BY <1>7 DEF ReceiveNext, Counted
  <2>2. /\ phase = "loop" /\ net # <<>> /\ net' = Tail(net) /\ needToAbandon' = FALSE
        /\ UNCHANGED <<client, encoded, mIsKeyFrameWrite, faults, setInfo, queueOpen, player,
                       config, decoded>>
    BY <1>a, <2>1
  <2>3. /\ tempData' \in Seq(Byte)
        /\ 1 \in DOMAIN tempData /\ count + 1 # 1 =>
              1 \in DOMAIN tempData' /\ tempData'[1] = tempData[1]
    BY <1>c, <2>1, <2>2
  <2>4. ASSUME NEW w \in AnyDatagram, Before(w, d) PROVE Behind(d)'
    <3>0. d.length > LimitData /\ tempLength # 0 /\ tempLength = d.length BY <1>f, <2>1
    <3>1. /\ Framed(d) /\ Follows(w, d) /\ d.count = count + 1 /\ count >= 1
          /\ 1 \in DOMAIN tempData /\ tempData[1][1] = d.id
      BY <1>n, <2>2, <2>4, <3>0
    <3>2. ~Ends(d)
      <4>1. Parts(tempLength) \in Nat BY <1>0, <3>0, SomePart
      <4>2. ~(d.length <= LimitData) /\ ~(count + 1 >= Parts(tempLength))
        BY <1>0, <2>1, <3>0, <4>1
      <4> QED BY <3>0, <3>1, <4>2 DEF Ends
    <3>3. ServerAt(d, phase', count', tempLength', tempData')
      <4>1. count + 1 # 1 /\ count + 1 >= 1 BY <1>0, <3>1
      <4>2. 1 \in DOMAIN tempData' /\ tempData'[1][1] = d.id BY <2>3, <3>1, <4>1
      <4> QED BY <2>1, <2>2, <3>0, <3>1, <3>2, <4>1, <4>2 DEF ServerAt
    <3>4. d \in AnyDatagram /\ LastPut(config, decoded, mPlayQueue1, player, w)
      BY <1>d, <2>2, <2>4 DEF Before
    <3>5. LastPut(config, decoded, mPlayQueue1, player, d)
      BY <3>1, <3>2, <3>4, OpenLinks DEF LastPut
    <3>6. FirstIsKey(player, mPlayQueue1) /\ InOrder(config, decoded, mPlayQueue1)
      BY <2>4 DEF Before
    <3>7. /\ FirstIsKey(player', mPlayQueue1') /\ InOrder(config', decoded', mPlayQueue1')
          /\ LastPut(config', decoded', mPlayQueue1', player', d)
      BY <2>1, <2>2, <3>5, <3>6
    <3>8. phase' # "drain" /\ ~needToAbandon' BY <2>1, <2>2
    <3> QED BY <3>3, <3>7, <3>8 DEF Behind
  <2>5. /\ phase' = "loop" /\ count' \in Nat /\ tempLength' \in Nat
        /\ list' \in Seq(AnyItem) /\ mPlayQueue1' \in Seq(AnyItem)
    BY <1>0, <2>1, <2>2
  <2> QED BY <1>g, <2>1, <2>2, <2>3, <2>4, <2>5
<1>8. CASE ReceiveLast
  <2>1. /\ Accepted /\ IsLater /\ Fits /\ count + 1 >= Parts(tempLength) /\ UNCHANGED list
    BY <1>8 DEF ReceiveLast
  <2>2. /\ phase = "loop" /\ net # <<>> /\ net' = Tail(net) /\ needToAbandon' = FALSE
        /\ UNCHANGED <<client, encoded, mIsKeyFrameWrite, faults, setInfo, queueOpen, player,
                       config, decoded>>
    BY <1>a, <2>1
  <2>f. d.length > LimitData /\ tempLength # 0 /\ tempLength = d.length BY <1>f, <2>1
  <2> DEFINE len == tempLength - count * LimitData
             data == IF len > 0 THEN CopyTo(count + 1) ELSE tempData
             item == [kind |-> "frame", key |-> d.key, length |-> tempLength, parts |-> data]
  <2>3. \/ /\ phase' = "thrown" /\ count' = count + 1
           /\ UNCHANGED <<tempLength, tempData, mPlayQueue1>>
        \/ PutData(item) /\ ResetAssembly /\ UNCHANGED phase
    BY <1>8, <1>x DEF ReceiveLast, Counted
  <2>4. /\ data \in Seq(Byte)
        /\ 1 \in DOMAIN tempData /\ count + 1 # 1 => data[1] = tempData[1]
    <3>1. CASE len > 0
      <4>1. data = CopyTo(count + 1) BY <3>1
      <4> HIDE DEF data
      <4> QED BY <1>c, <2>2, <4>1
    <3>2. CASE ~(len > 0)
      <4>1. data = tempData BY <3>2
      <4> HIDE DEF data
      <4> QED BY <1>0, <4>1
    <3> QED BY <3>1, <3>2
  <2> HIDE DEF data
  <2>5. /\ item \in AnyItem /\ item.kind = "frame" /\ item.key = d.key /\ IdOf(item) = data[1][1]
    <3>1. tempLength \in Nat \ {0} /\ d.key \in BOOLEAN BY <1>0, <1>d, <2>2, <2>f
    <3>2. item \in AnyItem BY <2>4, <3>1 DEF AnyItem
    <3> QED BY <3>2 DEF IdOf
  <2> HIDE DEF item
  <2>6. CASE /\ phase' = "thrown" /\ count' = count + 1
             /\ UNCHANGED <<tempLength, tempData, mPlayQueue1>>
    <3>1. ASSUME NEW w \in AnyDatagram, Before(w, d) PROVE Behind(d)'
      <4>1. FirstIsKey(player, mPlayQueue1) /\ InOrder(config, decoded, mPlayQueue1)
        BY <3>1 DEF Before
      <4>2. FirstIsKey(player', mPlayQueue1') /\ InOrder(config', decoded', mPlayQueue1')
        BY <2>2, <2>6, <4>1
      <4>3. ~Listening(phase') /\ phase' # "drain" /\ ~needToAbandon' BY <2>2, <2>6 DEF Listening
      <4> QED BY <4>2, <4>3 DEF Behind
    <3>2. /\ count' \in Nat /\ tempLength' \in Nat /\ tempData' \in Seq(Byte)
          /\ list' \in Seq(AnyItem) /\ mPlayQueue1' \in Seq(AnyItem)
      BY <1>0, <2>1, <2>6
    <3> QED BY <1>g, <2>2, <2>6, <3>1, <3>2
  <2>7. CASE PutData(item) /\ ResetAssembly /\ UNCHANGED phase
    <3>1. count' = 0 /\ tempLength' = 0 /\ tempData' = <<>> BY <2>7 DEF ResetAssembly
    <3>2. count' \in Nat /\ tempLength' \in Nat /\ tempData' \in Seq(Byte) BY <3>1
    <3>3. mPlayQueue1' \in Seq(AnyItem) /\ (~queueOpen => mPlayQueue1' = mPlayQueue1)
      BY <1>0, <2>5, <2>7, PutTyped
    <3>4. ASSUME NEW w \in AnyDatagram, Before(w, d) PROVE Behind(d)'
      <4>1. /\ Framed(d) /\ Counts(w) /\ d.count = count + 1 /\ count >= 1
            /\ 1 \in DOMAIN tempData /\ tempData[1][1] = d.id
        BY <1>n, <2>2, <2>f, <3>4
      <4>2. Ends(d) BY <2>1, <2>f, <4>1 DEF Ends
      <4>3. count + 1 # 1 BY <1>0, <4>1
      <4>4. IdOf(item) = d.id /\ d \in AnyDatagram BY <1>d, <2>2, <2>4, <2>5, <4>1, <4>3
      <4>5. /\ FirstIsKey(player, mPlayQueue1') /\ InOrder(config, decoded, mPlayQueue1')
            /\ LastPut(config, decoded, mPlayQueue1', player, d)
        BY <1>0, <2>5, <2>7, <3>4, <4>1, <4>2, <4>4, FramePut
      <4>6. ServerAt(d, phase', count', tempLength', tempData') BY <2>2, <2>7, <3>1, <4>2 DEF ServerAt
      <4>7. phase' # "drain" /\ ~needToAbandon' BY <2>2, <2>7
      <4>8. /\ FirstIsKey(player', mPlayQueue1') /\ InOrder(config', decoded', mPlayQueue1')
            /\ LastPut(config', decoded', mPlayQueue1', player', d)
        BY <2>2, <4>5
      <4> QED BY <4>6, <4>7, <4>8 DEF Behind
    <3>5. phase' = "loop" /\ list' \in Seq(AnyItem) BY <1>0, <2>1, <2>2, <2>7
    <3> QED BY <1>g, <2>2, <3>2, <3>3, <3>4, <3>5
  <2> QED BY <2>3, <2>6, <2>7
<1>9. CASE ReceiveStray
  <2>1. /\ phase = "loop" /\ net # <<>> /\ net' = Tail(net)
        /\ d.length > LimitData /\ d.count # 1 /\ ~(tempLength # 0 /\ tempLength = d.length)
        /\ phase' \in {"loop", "drain"} /\ list' \in {list, mPlayQueue1}
        /\ UNCHANGED <<client, encoded, mIsKeyFrameWrite, faults, setInfo, queueOpen, player,
                       config, decoded, count, tempLength, tempData, mPlayQueue1>>
    BY <1>9, <1>x DEF ReceiveStray, Received, IsLater, Fits, clientVars, assemblyVars, jniVars,
                playerVars
  <2>2. ASSUME NEW w \in AnyDatagram, Before(w, d) PROVE FALSE
    <3>1. CASE ~Framed(w) \/ Ends(w)
      <4>1. Begins(d) BY <1>w, <2>1, <2>2, <3>1
      <4>2. ~(d.length <= LimitData) BY <1>0, <1>d, <2>1
      <4> QED BY <2>1, <4>1, <4>2 DEF Begins
    <3>2. CASE Framed(w) /\ ~Ends(w)
      <4>1. tempLength # 0 /\ d.length = tempLength BY <1>w, <2>1, <2>2, <3>2
      <4> QED BY <2>1, <4>1
    <3> QED BY <3>1, <3>2
  <2>3. list' \in Seq(AnyItem) /\ mPlayQueue1' \in Seq(AnyItem) BY <1>0, <2>1
  <2>4. count' \in Nat /\ tempLength' \in Nat /\ tempData' \in Seq(Byte) BY <1>0, <2>1
  <2> QED BY <1>g, <2>1, <2>2, <2>3, <2>4
<1>10. CASE DrainFrame
  <2>1. /\ phase = "drain" /\ phase' = "loop" /\ list' = <<>>
        /\ UNCHANGED <<client, encoded, mIsKeyFrameWrite, net, faults, count, tempLength, tempData,
                       setInfo, queueOpen, player, config, decoded>>
    BY <1>10 DEF DrainFrame, clientVars, assemblyVars, playerVars
  <2>2. mPlayQueue1' \in Seq(AnyItem) /\ (~queueOpen => mPlayQueue1' = mPlayQueue1)
    <3> DEFINE keys == {i \in 1..Len(list) : list[i].key}
               index == CHOOSE i \in keys : \A j \in keys : j <= i
    <3>1. /\ ~queueOpen => mPlayQueue1' = mPlayQueue1
          /\ \/ mPlayQueue1' = mPlayQueue1 \/ mPlayQueue1' = <<>>
             \/ keys # {} /\ mPlayQueue1' = SubSeq(list, 1, index)
      BY <1>10 DEF DrainFrame
    <3>2. ASSUME keys # {} PROVE SubSeq(list, 1, index) \in Seq(AnyItem)
      <4>1. Len(list) \in Nat /\ keys \in SUBSET (1..Len(list)) BY <1>0
      <4>2. \E i \in keys : \A j \in keys : j <= i BY <3>2, <4>1, GreatestOf
      <4>3. index \in keys BY <4>2
      <4>4. index \in Nat /\ index <= Len(list) BY <4>1, <4>3
      <4> HIDE DEF index
      <4> QED BY <1>0, <4>4, Prefix
    <3> HIDE DEF keys, index
    <3>3. CASE mPlayQueue1' = mPlayQueue1 BY <1>0, <3>3
    <3>4. CASE mPlayQueue1' = <<>> BY <3>1, <3>4
    <3>5. CASE keys # {} /\ mPlayQueue1' = SubSeq(list, 1, index) BY <3>1, <3>2, <3>5
    <3> QED BY <3>1, <3>3, <3>4, <3>5
  <2>3. MoreTypes' BY <1>0, <2>1, <2>2 DEF Base, MoreTypes, Types
  <2>4. Stages' BY <1>0, <2>1, <2>2, ServerStages
  <2>5. KeyGate' BY <1>0, <2>1 DEF Base, KeyGate
  <2>6. ~Clear(faults) BY <2>1 DEF GInv, Undisturbed, Peaceful
  <2> QED BY <2>1, <2>3, <2>4, <2>5, <2>6 DEF GInv, Base
<1> QED BY <1>1, <1>2, <1>3, <1>4, <1>5, <1>6, <1>7, <1>8, <1>9, <1>10 DEF Server

LEMMA GopInit ==
    ASSUME Init
    PROVE  GInv
<1>1. MoreTypes BY Constants DEF Init, MoreTypes, Types, FaultKinds
<1>2. Stages /\ KeyGate BY DEF Init, Stages, KeyGate
<1>3. Peaceful /\ FirstIsKey(player, mPlayQueue1) BY DEF Init, Peaceful, FirstIsKey
<1>4. InOrder(config, decoded, mPlayQueue1) BY DEF Init, InOrder, Chained
<1>5. Placed(net, SetupSent(client), SetupReceived(phase))
  BY DEF Init, Placed, SetupSent, SetupReceived
<1>6. PICK w \in AnyDatagram : ~Framed(w)
  <2> DEFINE y == [kind |-> "info", id |-> 0, key |-> FALSE, length |-> 1, count |-> 0]
  <2>1. y \in AnyDatagram /\ ~Framed(y) BY DEF AnyDatagram, Framed
  <2> QED BY <2>1
<1>7. Stream(w)
  <2>1. ServerAt(w, phase, count, tempLength, tempData) BY <1>6 DEF Init, ServerAt
  <2>2. Flowing(w, net) BY DEF Init, Flowing
  <2>3. LastOf(w, net) = w BY DEF Init, LastOf
  <2>4. ClientAt(w, client, mIsKeyFrameWrite, encoded) BY <1>6 DEF Init, ClientAt
  <2>5. LastPut(config, decoded, mPlayQueue1, player, w) BY <1>6 DEF LastPut, Linked
  <2> QED BY <2>1, <2>2, <2>3, <2>4, <2>5 DEF Stream
<1>8. Undisturbed BY <1>3, <1>4, <1>5, <1>6, <1>7 DEF Undisturbed
<1> QED BY <1>1, <1>2, <1>8 DEF GInv, Base

LEMMA GopStep ==
    ASSUME GInv, [Next]_vars, [~SecondPassLate]_vars
    PROVE  GInv'
<1>1. CASE UNCHANGED vars
  <2>1. UNCHANGED <<client, encoded, mIsKeyFrameWrite, net, faults, phase, needToAbandon, count,
                    tempLength, tempData, list, setInfo, queueOpen, mPlayQueue1, player, config,
                    decoded>>
    BY <1>1 DEF vars, clientVars, serverVars, assemblyVars, jniVars, playerVars
  <2>2. Stages' BY <2>1, SetupKept DEF GInv
  <2>3. OrderKept(config, decoded, mPlayQueue1, player, config, decoded, mPlayQueue1, player)
    BY SameOrder
  <2>4. Undisturbed => FirstIsKey(player', mPlayQueue1') BY <2>1 DEF Undisturbed
  <2>5. mPlayQueue1' \in Seq(AnyItem) /\ config' \in Seq(AnyItem) /\ decoded' \in Seq(AnyItem)
    BY <2>1 DEF GInv, Base, MoreTypes, Types
  <2> QED BY <2>1, <2>2, <2>3, <2>4, <2>5, PlayerKept
<1>2. CASE Next /\ ~SecondPassLate
  BY <1>2, ClientGop, NetworkGop, ServerGop, PlayerGop DEF Next
<1> QED BY <1>1, <1>2

LEMMA GopGood ==
    ASSUME GInv
    PROVE  GopIntact
<1> SUFFICES ASSUME Configured, Only({}), NEW i \in 1..Len(decoded), FrameIn(decoded, i),
                    ~decoded[i].key
             PROVE  FrameIn(decoded, i - 1) /\ IdOf(decoded[i - 1]) = IdOf(decoded[i]) - 1
  BY DEF GopIntact
<1>0. /\ config \in Seq(AnyItem) /\ decoded \in Seq(AnyItem) /\ mPlayQueue1 \in Seq(AnyItem)
      /\ Stages
  BY DEF GInv, Base, MoreTypes, Types
<1>1. Clear(faults) BY DEF Only, Clear
<1>2. InOrder(config, decoded, mPlayQueue1) BY <1>1 DEF GInv, Undisturbed
<1>3. decoded # <<>> /\ DOMAIN decoded = 1..Len(decoded) /\ Len(decoded) \in Nat BY <1>0
<1>4. Len(config) = 2 BY <1>0, <1>3 DEF Stages
<1>5. Lead(config, mPlayQueue1)
  <2>1. \A j \in DOMAIN config : config[j].kind = "config" BY <1>0 DEF Configured
  <2> QED BY <1>0, <1>4, <2>1, LeadDone
<1>6. Chained(Nothing, decoded) BY <1>2, <1>5 DEF InOrder
<1>7. i # 1
  <2>1. ASSUME i = 1 PROVE FALSE
    <3>1. Succeeds(Nothing, decoded[1]) BY <1>3, <1>6 DEF Chained
    <3>2. decoded[1].kind = "frame" /\ ~decoded[1].key BY <2>1 DEF FrameIn
    <3>3. Nothing.kind = "frame" BY <3>1, <3>2 DEF Succeeds
    <3> QED BY <3>3 DEF Nothing
  <2> QED BY <2>1
<1>8. Succeeds(decoded[i - 1], decoded[i]) BY <1>3, <1>6, <1>7 DEF Chained
<1>9. decoded[i - 1].kind = "frame" /\ IdOf(decoded[i - 1]) = IdOf(decoded[i]) - 1
  BY <1>8 DEF Succeeds, FrameIn
<1>10. i - 1 \in 1..Len(decoded) BY <1>3, <1>7
<1> QED BY <1>9, <1>10 DEF FrameIn

(* While the network does nothing, a frame that refers to the one before   *)
(* it is fed to the decoder only right behind that one, whatever the sizes *)
(* of the frames, the length of the play queue and the frames that the     *)
(* decode thread drops, as long as no frame comes in behind the only key   *)
(* frame of the queue between the two passes of drainFrame(queue,          *)
(* takeCount): the key frame gate of the sender, the assembly and the      *)
(* dropping of whole groups of pictures do their work together.            *)
THEOREM GopSafe ==
    Spec /\ [][~SecondPassLate]_vars => []GopIntact
<1>1. Init => GInv BY GopInit
<1>2. GInv /\ [Next]_vars /\ [~SecondPassLate]_vars => GInv' BY GopStep
<1>3. GInv => GopIntact BY GopGood
<1> QED BY <1>1, <1>2, <1>3, PTL DEF Spec

=============================================================================
