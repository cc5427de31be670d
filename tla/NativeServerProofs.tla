-------------------------- MODULE NativeServerProofs --------------------------
(***************************************************************************)
(* Proofs about NativeServer, for any number of devices and of calls from  *)
(* Java.                                                                   *)
(***************************************************************************)
EXTENDS NativeServer, FiniteSetTheorems, WellFoundedInduction, TLAPS

Busy == {"created", "next", "read", "end", "reset", "bye"}

ThrRec == [pc : Busy \cup {"none", "done"}, w : 0 .. 2, fd : Fds \cup {NoFd},
           on : Conns \cup {None}, reads : Nat]
NetTypes  == client \in [Conns -> {"idle", "on", "gone"}] /\ backlog \in Seq(Conns)
FdTypes   == open \in [Fds -> Conns \cup {None}] /\ slot \in [Slots -> Fds \cup {NoFd}]
Waiting   == {"bind", "live", "top", "call", "accept"}
Holding   == {"assign", "replaced", "sleep"}
Ending    == {"close", "reset", "closeSock", "returned"}
AccTypes  ==
  /\ acc \in [pc : Waiting \cup Holding \cup Ending, fd : Fds \cup {NoFd},
              conn : Conns \cup {None}, w : Slots]
  /\ acc.pc \notin Ending => acc.w = 1
  /\ which \in 0 .. 2
ThrTypes  ==
  /\ thr \in [Conns -> ThrRec]
  /\ \A c \in Conns : thr[c].pc \in Busy => thr[c].w \in Slots
UiTypes   ==
  /\ ui \in [todo : Seq(Slots), pc : {"close", "reset"}, left : Nat]
  /\ ui.pc = "reset" => ui.todo # <<>>
  /\ shown \in [Slots -> BOOLEAN]
Types == NetTypes /\ FdTypes /\ AccTypes /\ ThrTypes /\ UiTypes

(* A connection is in one place: not yet made, in the backlog or behind    *)
(* one descriptor, and a thread is started for it once.                    *)
Fresh ==
  /\ \A f, g \in Fds : open[f] # None /\ open[f] = open[g] => f = g
  /\ \A i, j \in 1 .. Len(backlog) : backlog[i] = backlog[j] => i = j
  /\ \A i \in 1 .. Len(backlog) :
       /\ client[backlog[i]] # "idle" /\ thr[backlog[i]].pc = "none"
       /\ \A f \in Fds : open[f] # backlog[i]
  /\ \A c \in Conns : client[c] = "idle" => thr[c].pc = "none" /\ \A f \in Fds : open[f] # c
  /\ stop \in {"idle", "socket", "connect"} => client[Self] = "idle"
  /\ acc.pc \in Holding =>
       /\ acc.conn \in Conns /\ thr[acc.conn].pc = "none" /\ client[acc.conn] # "idle"
       /\ \A i \in 1 .. Len(backlog) : backlog[i] # acc.conn

(* What the accept loop keeps in its hand when it ends is the connection   *)
(* that the stop made it accept, and the slots behind it are given up.     *)
Ends ==
  /\ acc.pc \in Ending /\ acc.fd # NoFd => ~live
  /\ acc.pc = "bind" => acc.fd = NoFd /\ slot[1] = NoFd /\ slot[2] = NoFd
  /\ acc.pc \in {"close", "reset"} /\ acc.w = 2 => slot[1] = NoFd
  /\ acc.pc \in {"closeSock", "returned"} => slot[1] = NoFd /\ slot[2] = NoFd

(* Between the close and the reset of a slot its number is closed.         *)
Closed(w) == slot[w] # NoFd /\ open[slot[w]] = None
AccResets == acc.pc \in {"replaced", "reset"}

SlotsApart ==
  \A w \in Slots : slot[w] # NoFd =>
    slot[w] # acc.fd /\ \A v \in Slots : slot[v] = slot[w] => v = w
InHand ==
  /\ acc.pc \in Holding => acc.fd \in Fds /\ open[acc.fd] = acc.conn
  /\ acc.pc \in Waiting => acc.fd = NoFd
  /\ acc.pc = "sleep" => slot[1] = NoFd
OwnSlot ==
  \A c \in Conns : thr[c].pc \in Busy =>
    slot[thr[c].w] = NoFd \/ open[slot[thr[c].w]] \in {c, None}
OwnNumber ==
  \A c \in Conns :
    /\ thr[c].pc \in {"next", "read"} => thr[c].fd = NoFd \/ open[thr[c].fd] \in {c, None}
    /\ thr[c].pc = "read" => thr[c].on = c
OneThread ==
  \A c, d \in Conns : thr[c].pc \in Busy /\ thr[d].pc \in Busy /\ thr[c].w = thr[d].w => c = d
ResetsClosed ==
  /\ \A c \in Conns : thr[c].pc = "reset" => Closed(thr[c].w)
  /\ ui.pc = "reset" => Closed(Head(ui.todo))
  /\ AccResets => Closed(acc.w)
  /\ \A c \in Conns : thr[c].pc = "reset" /\ ui.pc = "reset" => thr[c].w # Head(ui.todo)
  /\ \A c \in Conns : thr[c].pc = "reset" /\ AccResets => thr[c].w # acc.w
  /\ ui.pc = "reset" /\ AccResets => Head(ui.todo) # acc.w
Held == \A f \in Fds : open[f] # None => f = acc.fd \/ \E w \in Slots : slot[w] = f
Shown == \A w \in Slots : shown[w] <=> \E c \in Conns : Serves(c, w)

Owned == SlotsApart /\ InHand /\ OwnSlot /\ OwnNumber /\ OneThread /\ ResetsClosed /\ Held /\ Shown
OwnedUntil == Clear => Owned
-----------------------------------------------------------------------------
(* The least element of a set of natural numbers is one of its elements.   *)
LEMMA MinOfNats ==
  ASSUME NEW T \in SUBSET Nat, T # {}
  PROVE  Min(T) \in T
<1>1. \E x \in T : \A y \in T : ~ (<<y, x>> \in OpToRel(<, Nat))
  <2>1. IsWellFoundedOn(OpToRel(<, Nat), Nat)
    BY NatLessThanWellFounded
  <2> HIDE DEF OpToRel
  <2> QED
    BY <2>1, WFMin
<1>2. PICK x \in T : \A y \in T : ~ (<<y, x>> \in OpToRel(<, Nat))
  BY <1>1
<1>3. \A y \in T : x =< y
  <2> TAKE y \in T
  <2>1. <<y, x>> \notin OpToRel(<, Nat)
    BY <1>2
  <2>2. ~ (y < x)
    BY <2>1 DEF OpToRel
  <2> QED
    BY <2>2
<1> QED
  BY <1>3 DEF Min

(* Every connection has at most one descriptor, so one is left.            *)
LEMMA FreeNumber ==
  ASSUME Types, Fresh
  PROVE  /\ Min({g \in Fds : open[g] = None}) \in Fds
         /\ open[Min({g \in Fds : open[g] = None})] = None
<1> DEFINE Free == {g \in Fds : open[g] = None}
<1>1. IsFiniteSet(Conns) /\ Cardinality(Conns) \in Nat
  BY ConnsAssumption, FS_AddElement, FS_CardinalityType DEF Conns
<1>2. IsFiniteSet(Fds) /\ Cardinality(Fds) = Cardinality(Conns) + 1
  BY <1>1, FS_Interval DEF Fds
<1>3. Free # {}
  <2> SUFFICES ASSUME Free = {} PROVE FALSE
    OBVIOUS
  <2>1. open \in [Fds -> Conns]
    BY DEF Types, FdTypes
  <2>2. \E x, y \in Fds : x # y /\ open[x] = open[y]
    BY <1>1, <1>2, <2>1, FS_PigeonHole
  <2> QED
    BY <2>2 DEF Fresh
<1>4. Free \in SUBSET Nat
  BY DEF Fds
<1>5. Min(Free) \in Free
  BY <1>3, <1>4, MinOfNats
<1> QED
  BY <1>5

(* What the steps of receive_data() make of their thread's record r.       *)
Sets(c, r) == r \in ThrRec /\ thr' = [thr EXCEPT ![c] = r]

LEMMA IdleRecord == Idle \in ThrRec /\ Idle.fd = NoFd /\ Idle.on = None /\ Idle.reads = 0
BY DEF Idle, ThrRec

LEMMA SetsKeepsTypes ==
  ASSUME NEW c \in Conns, NEW r, Sets(c, r), r.pc \in Busy => r.w \in Slots, ThrTypes
  PROVE  ThrTypes'
BY DEF Sets, ThrTypes

LEMMA OccupyEffect ==
  ASSUME NEW w \in Slots, Occupy(w)
  PROVE  \E r : Sets(acc.conn, r) /\ r.pc = "created" /\ r.w = w
<1> DEFINE r == [Idle EXCEPT !.pc = "created", !.w = w]
<1>1. r \in ThrRec /\ r.pc = "created" /\ r.w = w
  <2>1. w \in 0 .. 2
    BY DEF Slots
  <2> QED
    BY <2>1, IdleRecord DEF ThrRec, Busy
<1>2. thr' = [thr EXCEPT ![acc.conn] = r]
  BY DEF Occupy
<1> QED
  BY <1>1, <1>2 DEF Sets

LEMMA BeginEffect ==
  ASSUME NEW c \in Conns, Begin(c), Types
  PROVE  \/ \E r : Sets(c, r) /\ r.pc = "done" /\ shown' = shown /\ ~Clear'
         \/ \E r : \E v \in Slots :
              /\ Sets(c, r) /\ r.pc = "next" /\ r.w = v /\ r.fd = slot[v]
              /\ shown' = [shown EXCEPT ![v] = TRUE]
              /\ Clear' => v = thr[c].w
<1>1. PICK v \in (IF acc.pc = "returned" THEN 0 .. 2 ELSE {which}) :
         /\ causes' = IF v # thr[c].w THEN causes \cup {"arg"} ELSE causes
         /\ IF v \in Slots
            THEN /\ thr' = [thr EXCEPT ![c] = [Idle EXCEPT !.pc = "next", !.w = v, !.fd = slot[v]]]
                 /\ shown' = [shown EXCEPT ![v] = TRUE]
            ELSE /\ thr' = [thr EXCEPT ![c] = [Idle EXCEPT !.pc = "done"]]
                 /\ UNCHANGED shown
  BY DEF Begin
<1>2. CASE v \in Slots
  <2> DEFINE r == [Idle EXCEPT !.pc = "next", !.w = v, !.fd = slot[v]]
  <2>1. r \in ThrRec /\ r.pc = "next" /\ r.w = v /\ r.fd = slot[v]
    <3>1. slot[v] \in Fds \cup {NoFd} /\ v \in 0 .. 2
      BY <1>2 DEF Slots, Types, FdTypes
    <3> QED
      BY <3>1, IdleRecord DEF ThrRec, Busy
  <2>2. Sets(c, r)
    BY <1>1, <1>2, <2>1 DEF Sets
  <2>3. Clear' => v = thr[c].w
    BY <1>1 DEF Clear
  <2> QED
    BY <1>1, <1>2, <2>1, <2>2, <2>3
<1>3. CASE v \notin Slots
  <2> DEFINE r == [Idle EXCEPT !.pc = "done"]
  <2>1. r \in ThrRec /\ r.pc = "done"
    BY DEF Idle, ThrRec, Busy
  <2>2. Sets(c, r)
    BY <1>1, <1>3, <2>1 DEF Sets
  <2>3. v # thr[c].w
    BY <1>3 DEF Begin, Types, ThrTypes, Busy
  <2>4. ~Clear'
    BY <1>1, <2>3 DEF Clear
  <2> QED
    BY <1>1, <1>3, <2>1, <2>2, <2>4
<1> QED
  BY <1>2, <1>3

(* A read begins on the descriptor's connection or fails; it never changes *)
(* the slot or the number that the thread goes by.                         *)
LEMMA NextRecord ==
  ASSUME NEW t \in ThrRec, NEW n \in Nat
  PROVE  LET r == [t EXCEPT !.pc = "next", !.on = None, !.reads = n]
         IN  r \in ThrRec /\ r.pc = "next" /\ r.w = t.w /\ r.fd = t.fd
BY DEF ThrRec, Busy

ReadResult(c, r) ==
  /\ Sets(c, r) /\ r.w = thr[c].w /\ r.pc \in {"next", "read", "end"}
  /\ r.pc # "end" => r.fd = thr[c].fd
  /\ r.pc = "read" => /\ thr[c].fd # NoFd /\ open[thr[c].fd] # None
                      /\ r.on = open[thr[c].fd]

LEMMA FailEffect ==
  ASSUME NEW c \in Conns, Fail(c), Types, thr[c].pc \in {"next", "read"}
  PROVE  \E r : ReadResult(c, r)
<1>1. CASE thr[c].reads < SetUpReads
  <2> DEFINE r == [thr[c] EXCEPT !.pc = "next", !.on = None, !.reads = thr[c].reads + 1]
  <2>1. r \in ThrRec /\ r.pc = "next" /\ r.w = thr[c].w /\ r.fd = thr[c].fd
    <3>1. thr[c] \in ThrRec /\ thr[c].reads + 1 \in Nat
      BY DEF Types, ThrTypes, ThrRec
    <3> QED
      BY <3>1, NextRecord
  <2>2. Sets(c, r)
    BY <1>1, <2>1 DEF Sets, Fail, Types, ThrTypes
  <2> QED
    BY <2>1, <2>2 DEF ReadResult
<1>2. CASE ~(thr[c].reads < SetUpReads)
  <2> DEFINE r == [Idle EXCEPT !.pc = "end", !.w = thr[c].w]
  <2>1. r \in ThrRec /\ r.pc = "end" /\ r.w = thr[c].w
    BY DEF Types, ThrTypes, ThrRec, Busy, Idle
  <2>2. Sets(c, r)
    BY <1>2, <2>1 DEF Sets, Fail
  <2> QED
    BY <2>1, <2>2 DEF ReadResult
<1> QED
  BY <1>1, <1>2

LEMMA ReadEffect ==
  ASSUME NEW c \in Conns, ReadStart(c) \/ ReadGot(c) \/ ReadEnds(c), Types
  PROVE  /\ thr[c].pc \in {"next", "read"}
         /\ UNCHANGED <<onlyOne, net, open, slot, server, ui, stop, shown, causes>>
         /\ \E r : ReadResult(c, r)
<1>1. /\ thr[c].pc \in {"next", "read"}
      /\ UNCHANGED <<onlyOne, net, open, slot, server, ui, stop, shown, causes>>
  BY DEF ReadStart, ReadGot, ReadEnds
<1>2. CASE Fail(c)
  BY <1>1, <1>2, FailEffect
<1>3. CASE ReadGot(c)
  <2> DEFINE r == [thr[c] EXCEPT !.pc = "next", !.on = None,
                    !.reads = IF thr[c].reads < SetUpReads THEN thr[c].reads + 1 ELSE thr[c].reads]
  <2>1. r \in ThrRec /\ r.pc = "next" /\ r.w = thr[c].w /\ r.fd = thr[c].fd
    <3>1. thr[c] \in ThrRec
          /\ (IF thr[c].reads < SetUpReads THEN thr[c].reads + 1 ELSE thr[c].reads) \in Nat
      BY DEF Types, ThrTypes, ThrRec
    <3> QED
      BY <3>1, NextRecord
  <2>2. Sets(c, r)
    BY <1>3, <2>1 DEF Sets, ReadGot, Types, ThrTypes
  <2> QED
    BY <1>1, <2>1, <2>2 DEF ReadResult
<1>4. CASE ReadStart(c) /\ ~Fail(c)
  <2>1. thr[c].fd # NoFd /\ open[thr[c].fd] # None
    BY <1>4 DEF ReadStart
  <2> DEFINE r == [thr[c] EXCEPT !.pc = "read", !.on = open[thr[c].fd]]
  <2>2. thr[c] \in ThrRec /\ open[thr[c].fd] \in Conns
    BY <2>1 DEF Types, ThrTypes, FdTypes, ThrRec
  <2>3. r \in ThrRec /\ r.pc = "read" /\ r.w = thr[c].w /\ r.fd = thr[c].fd
        /\ r.on = open[thr[c].fd]
    BY <2>2 DEF ThrRec, Busy
  <2>4. Sets(c, r)
    BY <1>4, <2>1, <2>3 DEF Sets, ReadStart, Types, ThrTypes
  <2> QED
    BY <1>1, <2>1, <2>3, <2>4 DEF ReadResult
<1> QED
  BY <1>2, <1>3, <1>4 DEF ReadEnds

LEMMA EndEffect ==
  ASSUME NEW c \in Conns, Types
  PROVE  /\ EndClose(c) => \E r : /\ Sets(c, r) /\ r.w = thr[c].w
                                  /\ r.pc = IF slot[thr[c].w] = NoFd THEN "bye" ELSE "reset"
         /\ EndReset(c) => \E r : Sets(c, r) /\ r.w = thr[c].w /\ r.pc = "bye"
         /\ EndNotice(c) => \E r : Sets(c, r) /\ r.pc = "done"
<1>1. ASSUME NEW x \in {"bye", "reset"}, thr' = [thr EXCEPT ![c].pc = x]
      PROVE  \E r : Sets(c, r) /\ r.w = thr[c].w /\ r.pc = x
  <2> DEFINE r == [thr[c] EXCEPT !.pc = x]
  <2>1. r \in ThrRec /\ r.pc = x /\ r.w = thr[c].w
    BY DEF Types, ThrTypes, ThrRec, Busy
  <2>2. Sets(c, r)
    BY <1>1, <2>1 DEF Sets, Types, ThrTypes
  <2> QED
    BY <2>1, <2>2
<1>2. ASSUME EndNotice(c)
      PROVE  \E r : Sets(c, r) /\ r.pc = "done"
  <2> DEFINE r == [Idle EXCEPT !.pc = "done"]
  <2>1. r \in ThrRec /\ r.pc = "done"
    BY DEF Idle, ThrRec, Busy
  <2>2. Sets(c, r)
    BY <1>2, <2>1 DEF Sets, EndNotice
  <2> QED
    BY <2>1, <2>2
<1> QED
  BY <1>1, <1>2 DEF EndClose, EndReset

LEMMA TypesStep == Types /\ Fresh /\ [Next]_vars => Types'
<1> SUFFICES ASSUME Types, Fresh, [Next]_vars
             PROVE  Types'
  OBVIOUS
<1>s. Slots = {1, 2} /\ NoFd = -1 /\ Self \in Conns /\ Clients \subseteq Conns
  BY DEF Slots, NoFd, Conns
<1> USE DEF net, server, Types
<1>1. ASSUME NEW c \in Clients, ClientConnect(c) \/ ClientGone(c)
      PROVE  Types'
  <2>1. NetTypes'
    BY <1>1, <1>s DEF ClientConnect, ClientGone, NetTypes
  <2> QED
    BY <1>1, <2>1 DEF ClientConnect, ClientGone, FdTypes, AccTypes, ThrTypes, UiTypes
<1>3. CASE Bind \/ SetLive \/ Top \/ AcceptCall
  <2>1. AccTypes'
    BY <1>3, <1>s DEF Bind, SetLive, Top, AcceptCall, AccTypes, Waiting, Holding, Ending
  <2> QED
    BY <1>3, <2>1 DEF Bind, SetLive, Top, AcceptCall, NetTypes, FdTypes, ThrTypes, UiTypes
<1>4. CASE Accept
  <2>1. FdTypes'
    BY <1>4, <1>s, FreeNumber DEF Accept, FdTypes, NetTypes
  <2>2. NetTypes'
    BY <1>4, <1>s DEF Accept, NetTypes
  <2>3. AccTypes'
    BY <1>4, <1>s, FreeNumber DEF Accept, NetTypes, AccTypes, Waiting, Holding, Ending
  <2> QED
    BY <1>4, <2>1, <2>2, <2>3 DEF Accept, ThrTypes, UiTypes
<1>5. ASSUME NEW w \in Slots, Occupy(w), acc.pc \in Holding,
             UNCHANGED <<client, backlog, open, ui, shown>>
      PROVE  Types'
  <2>1. ThrTypes'
    BY <1>5, OccupyEffect, SetsKeepsTypes DEF Fresh
  <2>2. FdTypes' /\ AccTypes'
    BY <1>5, <1>s DEF Occupy, FdTypes, AccTypes, Waiting, Holding, Ending
  <2> QED
    BY <1>5, <2>1, <2>2 DEF NetTypes, UiTypes
<1>6. CASE TakeSlot
  <2>1. Min(FreeSlots) \in Slots
    BY <1>6, MinOfNats DEF FreeSlots, Slots, TakeSlot
  <2> QED
    BY <1>5, <1>6, <2>1 DEF TakeSlot, Holding
<1>7. CASE ReplaceTake
  BY <1>5, <1>7, <1>s DEF ReplaceTake, Holding
<1>c. ASSUME NEW w \in Slots, CloseNumber(w)
      PROVE  open' \in [Fds -> Conns \cup {None}]
  BY <1>c, <1>s DEF CloseNumber, FdTypes
<1>8. CASE ReplaceClose \/ ReplaceReset
  <2>1. FdTypes'
    BY <1>8, <1>c, <1>s DEF ReplaceClose, ReplaceReset, FdTypes
  <2>2. AccTypes'
    BY <1>8, <1>s DEF ReplaceClose, ReplaceReset, AccTypes, Waiting, Holding, Ending
  <2> QED
    BY <1>8, <2>1, <2>2 DEF ReplaceClose, ReplaceReset, NetTypes, ThrTypes, UiTypes
<1>9. CASE CloseAllNumber \/ CloseAllReset
  <2>1. FdTypes'
    <3>1. acc.w \in Slots
      BY DEF AccTypes
    <3> QED
      BY <1>9, <1>c, <3>1 DEF CloseAllNumber, CloseAllReset, FdTypes
  <2>2. AccTypes'
    <3>1. acc.pc \in {"close", "reset"} /\ which' = which
      BY <1>9 DEF CloseAllNumber, CloseAllReset
    <3>2. \/ acc' = [acc EXCEPT !.pc = "close", !.w = 2]
          \/ acc' = [acc EXCEPT !.pc = "closeSock"]
          \/ acc' = [acc EXCEPT !.pc = "reset"]
      BY <1>9 DEF CloseAllNumber, CloseAllReset, SlotDone
    <3> QED
      BY <3>1, <3>2, <1>s DEF AccTypes, Waiting, Holding, Ending
  <2> QED
    BY <1>9, <2>1, <2>2 DEF CloseAllNumber, CloseAllReset, NetTypes, ThrTypes, UiTypes
<1>d. ASSUME CloseServerSock
      PROVE  NetTypes'
  <2>1. CASE sock = "listen"
    <3> DEFINE Waits(c) == \E i \in DOMAIN backlog : backlog[i] = c
    <3>1. /\ client' = [c \in Conns |-> IF Waits(c) THEN "gone" ELSE client[c]]
          /\ backlog' = <<>>
      BY <1>d, <2>1 DEF CloseServerSock
    <3> HIDE DEF Waits
    <3> QED
      BY <3>1 DEF NetTypes
  <2>2. CASE sock # "listen"
    BY <1>d, <1>s, <2>2 DEF CloseServerSock, NetTypes
  <2> QED
    BY <2>1, <2>2
<1>e. CASE CloseAllSock
  <2>1. AccTypes'
    BY <1>e DEF CloseAllSock, AccTypes, Waiting, Holding, Ending
  <2> QED
    BY <1>e, <1>d, <2>1 DEF CloseAllSock, FdTypes, ThrTypes, UiTypes
<1>10. ASSUME NEW c \in Conns, Begin(c)
       PROVE  Types'
  <2>1. ThrTypes'
    BY <1>10, BeginEffect, SetsKeepsTypes DEF Busy
  <2>2. UiTypes'
    <3>1. ui' = ui /\ shown' \in [Slots -> BOOLEAN]
      BY <1>10 DEF Begin, UiTypes
    <3> QED
      BY <3>1 DEF UiTypes
  <2> QED
    BY <1>10, <2>1, <2>2 DEF Begin, NetTypes, FdTypes, AccTypes
<1>11. ASSUME NEW c \in Conns, ReadStart(c) \/ ReadGot(c) \/ ReadEnds(c)
       PROVE  Types'
  <2>1. ThrTypes'
    <3>1. PICK r : ReadResult(c, r)
      BY <1>11, ReadEffect
    <3>2. Sets(c, r) /\ r.w \in Slots
      BY <1>11, <3>1, ReadEffect DEF ReadResult, ThrTypes, Busy
    <3> QED
      BY <3>2, SetsKeepsTypes
  <2> QED
    BY <1>11, <2>1, ReadEffect DEF NetTypes, FdTypes, AccTypes, UiTypes
<1>14. ASSUME NEW c \in Conns, EndClose(c)
       PROVE  Types'
  <2>1. thr[c].w \in Slots
    BY <1>14 DEF EndClose, ThrTypes, Busy
  <2>2. ThrTypes'
    BY <1>14, <2>1, EndEffect, SetsKeepsTypes
  <2>3. FdTypes'
    BY <1>14, <1>c, <2>1 DEF EndClose, FdTypes
  <2> QED
    BY <1>14, <2>2, <2>3 DEF EndClose, NetTypes, AccTypes, UiTypes
<1>15. ASSUME NEW c \in Conns, EndReset(c)
       PROVE  Types'
  <2>1. thr[c].w \in Slots
    BY <1>15 DEF EndReset, ThrTypes, Busy
  <2>2. ThrTypes'
    BY <1>15, <2>1, EndEffect, SetsKeepsTypes
  <2>3. FdTypes'
    BY <1>15, <2>1 DEF EndReset, FdTypes
  <2> QED
    BY <1>15, <2>2, <2>3 DEF EndReset, NetTypes, AccTypes, UiTypes
<1>16. ASSUME NEW c \in Conns, EndNotice(c)
       PROVE  Types'
  <2>2. ThrTypes'
    BY <1>16, EndEffect, SetsKeepsTypes DEF Busy
  <2>3. UiTypes'
    BY <1>16 DEF EndNotice, UiTypes
  <2> QED
    BY <1>16, <2>2, <2>3 DEF EndNotice, NetTypes, AccTypes, FdTypes
<1>17. CASE UiClose
  <2>1. UiTypes'
    <3>1. PICK ws \in {<<1>>, <<2>>, <<1, 2>>} :
             ui' = [todo |-> ws, pc |-> "close", left |-> ui.left - 1]
      BY <1>17 DEF UiClose
    <3>2. ws \in Seq(Slots)
      <4>1. <<1>> \in Seq(Slots) /\ <<2>> \in Seq(Slots) /\ <<1, 2>> \in Seq(Slots)
        BY <1>s
      <4> QED
        BY <4>1, Zenon
    <3>3. ui.left - 1 \in Nat /\ shown' = shown
      BY <1>17 DEF UiClose, UiTypes
    <3>4. UiTypes
      OBVIOUS
    <3> QED
      BY ONLY <3>1, <3>2, <3>3, <3>4 DEF UiTypes
  <2> QED
    BY <1>17, <2>1 DEF UiClose, NetTypes, FdTypes, AccTypes, ThrTypes
<1>18. CASE UiCloseNumber
  <2>0. Head(ui.todo) \in Slots /\ Tail(ui.todo) \in Seq(Slots)
    BY <1>18 DEF UiCloseNumber, UiTypes
  <2>1. UiTypes'
    BY <1>18, <2>0 DEF UiCloseNumber, UiTypes
  <2>2. FdTypes'
    BY <1>18, <1>c, <2>0 DEF UiCloseNumber, FdTypes
  <2> QED
    BY <1>18, <2>1, <2>2 DEF UiCloseNumber, NetTypes, AccTypes, ThrTypes
<1>19. CASE UiReset
  <2>0. Head(ui.todo) \in Slots /\ Tail(ui.todo) \in Seq(Slots)
    BY <1>19 DEF UiReset, UiTypes
  <2>1. UiTypes'
    BY <1>19, <2>0 DEF UiReset, UiTypes
  <2>2. FdTypes'
    BY <1>19, <2>0 DEF UiReset, FdTypes
  <2> QED
    BY <1>19, <2>1, <2>2 DEF UiReset, NetTypes, AccTypes, ThrTypes
<1>20. CASE Stop
  <2>1. NetTypes'
    <3>1. CASE CloseServerSock
      BY <1>d, <3>1
    <3>2. CASE ~CloseServerSock
      BY <1>20, <1>s, <3>2 DEF Stop, StopFlag, StopSocket, StopConnect, StopRefused, StopClose, NetTypes
    <3> QED
      BY <3>1, <3>2
  <2> QED
    BY <1>20, <2>1 DEF Stop, StopFlag, StopSocket, StopConnect, StopRefused, StopClose, FdTypes,
       AccTypes, ThrTypes, UiTypes
<1>21. CASE UNCHANGED vars
  BY <1>21 DEF vars, NetTypes, FdTypes, AccTypes, ThrTypes, UiTypes
<1> QED
  BY <1>1, <1>3, <1>4, <1>6, <1>7, <1>8, <1>9, <1>e, <1>10, <1>11, <1>14, <1>15, <1>16,
     <1>17, <1>18, <1>19, <1>20, <1>21 DEF Next, AcceptLoop, Receive

(* Most steps only close descriptors and let connections and threads go on.*)
Unmade == {"idle", "socket", "connect"}
InHandOf(a) == a.pc \in Holding

LEMMA FreshKept ==
  ASSUME Types, Fresh,
         \A f \in Fds : open'[f] \in {open[f], None},
         \A c \in Conns : client'[c] = "idle" => client[c] = "idle",
         \A c \in Conns : thr[c].pc = "none" => thr'[c].pc = "none",
         \A c \in Conns : thr[c].pc # "none" => thr'[c].pc # "none",
         backlog' \in {backlog, <<>>},
         stop' \in Unmade => stop \in Unmade /\ client'[Self] = client[Self],
         InHandOf(acc') => InHandOf(acc) /\ acc'.conn = acc.conn
  PROVE  Fresh'
<1>s. backlog \in Seq(Conns) /\ None \notin Conns /\ Self \in Conns
      /\ \A i \in 1 .. Len(backlog) : backlog[i] \in Conns
  BY ConnsAssumption DEF Types, NetTypes, Conns
<1>1. (\A f, g \in Fds : open[f] # None /\ open[f] = open[g] => f = g)'
  BY DEF Fresh
<1>2. (\A i, j \in 1 .. Len(backlog) : backlog[i] = backlog[j] => i = j)'
  BY <1>s DEF Fresh
<1>3. (\A i \in 1 .. Len(backlog) :
         /\ client[backlog[i]] # "idle" /\ thr[backlog[i]].pc = "none"
         /\ \A f \in Fds : open[f] # backlog[i])'
  <2> SUFFICES ASSUME backlog' = backlog, NEW i \in 1 .. Len(backlog)
               PROVE  /\ client'[backlog[i]] # "idle" /\ thr'[backlog[i]].pc = "none"
                      /\ \A f \in Fds : open'[f] # backlog[i]
    OBVIOUS
  <2> QED
    BY <1>s DEF Fresh
<1>4. (\A c \in Conns : client[c] = "idle" => thr[c].pc = "none" /\ \A f \in Fds : open[f] # c)'
  BY <1>s DEF Fresh
<1>5. (stop \in Unmade => client[Self] = "idle")'
  BY DEF Fresh, Unmade
<1>6. (InHandOf(acc) =>
       /\ acc.conn \in Conns /\ thr[acc.conn].pc = "none" /\ client[acc.conn] # "idle"
       /\ \A i \in 1 .. Len(backlog) : backlog[i] # acc.conn)'
  <2> SUFFICES ASSUME InHandOf(acc')
               PROVE  /\ acc.conn \in Conns /\ thr'[acc.conn].pc = "none"
                      /\ client'[acc.conn] # "idle"
                      /\ \A i \in 1 .. Len(backlog') : backlog'[i] # acc.conn
    OBVIOUS
  <2> QED
    BY DEF Fresh, InHandOf
<1> QED
  BY <1>1, <1>2, <1>3, <1>4, <1>5, <1>6 DEF Fresh, Unmade, InHandOf

(* A new connection.                                                       *)
LEMMA FreshConnect ==
  ASSUME Types, Fresh, NEW c \in Conns, client[c] = "idle",
         client' = [client EXCEPT ![c] = "on"], backlog' = Append(backlog, c),
         UNCHANGED <<open, thr, acc>>, stop' \in Unmade => stop' = stop /\ c # Self
  PROVE  Fresh'
<1>s. /\ backlog \in Seq(Conns) /\ client \in [Conns -> {"idle", "on", "gone"}] /\ Self \in Conns
      /\ \A i \in 1 .. Len(backlog) : backlog[i] \in Conns
  BY DEF Types, NetTypes, Conns
<1>b. Len(backlog') = Len(backlog) + 1 /\ Len(backlog) \in Nat
      /\ \A i \in 1 .. Len(backlog') :
           \/ i \in 1 .. Len(backlog) /\ backlog'[i] = backlog[i]
           \/ i = Len(backlog) + 1 /\ backlog'[i] = c
  BY <1>s
<1>n. \A i \in 1 .. Len(backlog) : backlog[i] # c
  BY DEF Fresh
<1>2. (\A i, j \in 1 .. Len(backlog) : backlog[i] = backlog[j] => i = j)'
  BY <1>b, <1>n DEF Fresh
<1>3. (\A i \in 1 .. Len(backlog) :
         /\ client[backlog[i]] # "idle" /\ thr[backlog[i]].pc = "none"
         /\ \A f \in Fds : open[f] # backlog[i])'
  BY <1>b, <1>s DEF Fresh
<1>4. (\A d \in Conns : client[d] = "idle" => thr[d].pc = "none" /\ \A f \in Fds : open[f] # d)'
  BY <1>s DEF Fresh
<1>5. (stop \in Unmade => client[Self] = "idle")'
  BY <1>s DEF Fresh, Unmade
<1>6. (InHandOf(acc) =>
       /\ acc.conn \in Conns /\ thr[acc.conn].pc = "none" /\ client[acc.conn] # "idle"
       /\ \A i \in 1 .. Len(backlog) : backlog[i] # acc.conn)'
  BY <1>b, <1>s DEF Fresh, InHandOf
<1> QED
  BY <1>2, <1>3, <1>4, <1>5, <1>6 DEF Fresh, Unmade, InHandOf

LEMMA SetsAt ==
  ASSUME Types, NEW c \in Conns, NEW r, Sets(c, r)
  PROVE  \A d \in Conns : thr'[d] = IF d = c THEN r ELSE thr[d]
BY DEF Types, ThrTypes, Sets

(* The thread of a connection goes on, without a change to the network.    *)
LEMMA FreshThread ==
  ASSUME Types, Fresh, NEW c \in Conns, NEW r, Sets(c, r), thr[c].pc # "none", r.pc # "none",
         \A f \in Fds : open'[f] \in {open[f], None},
         UNCHANGED <<client, backlog, stop, acc>>
  PROVE  Fresh'
<1>1. \A d \in Conns : thr'[d] = IF d = c THEN r ELSE thr[d]
  BY SetsAt
<1>2. \A d \in Conns : (thr[d].pc = "none" => thr'[d].pc = "none")
                        /\ (thr[d].pc # "none" => thr'[d].pc # "none")
  BY <1>1
<1> QED
  BY <1>2, FreshKept

LEMMA Closes ==
  ASSUME Types, NEW w \in Slots, CloseNumber(w)
  PROVE  \A f \in Fds : open'[f] = IF slot[w] # NoFd /\ f = slot[w] THEN None ELSE open[f]
BY DEF Types, FdTypes, CloseNumber

LEMMA FreshStep == Types /\ Fresh /\ [Next]_vars => Fresh'
<1> SUFFICES ASSUME Types, Fresh, [Next]_vars
             PROVE  Fresh'
  OBVIOUS
<1>s. Slots = {1, 2} /\ NoFd = -1 /\ Self \in Conns /\ Clients \subseteq Conns
      /\ None \notin Conns /\ Self \notin Clients
  BY ConnsAssumption DEF Slots, NoFd, Conns
<1> USE DEF net, server
<1>1. ASSUME NEW c \in Clients, ClientConnect(c)
      PROVE  Fresh'
  BY <1>1, <1>s, FreshConnect DEF ClientConnect
<1>2. ASSUME NEW c \in Clients, ClientGone(c)
      PROVE  Fresh'
  <2>1. \A d \in Conns : client'[d] = "idle" => client[d] = "idle"
    BY <1>2, <1>s DEF ClientGone, Types, NetTypes
  <2>2. client'[Self] = client[Self]
    BY <1>2, <1>s DEF ClientGone, Types, NetTypes
  <2> QED
    BY <1>2, <2>1, <2>2, FreshKept DEF ClientGone
<1>3. CASE Bind \/ SetLive \/ Top \/ AcceptCall
  <2>1. ~InHandOf(acc')
    BY <1>3 DEF Bind, SetLive, Top, AcceptCall, InHandOf, Types, AccTypes, Holding
  <2> QED
    BY <1>3, <2>1, FreshKept DEF Bind, SetLive, Top, AcceptCall
<1>4. CASE Accept
  <2> DEFINE h == Head(backlog)
             f == Min({g \in Fds : open[g] = None})
  <2>1. f \in Fds /\ open[f] = None
    BY FreeNumber
  <2>2. /\ backlog \in Seq(Conns) /\ backlog # <<>> /\ h \in Conns /\ h = backlog[1]
        /\ 1 \in 1 .. Len(backlog) /\ backlog' = Tail(backlog)
        /\ \A i \in 1 .. Len(backlog) : backlog[i] \in Conns
    BY <1>4 DEF Accept, Types, NetTypes
  <2>3. \A i \in 1 .. Len(backlog') :
           i + 1 \in 1 .. Len(backlog) /\ i + 1 # 1 /\ backlog'[i] = backlog[i + 1]
    BY <2>2
  <2>4. open' = [open EXCEPT ![f] = h] /\ acc'.conn = h /\ UNCHANGED <<client, thr, stop>>
    BY <1>4 DEF Accept
  <2> HIDE DEF f, h
  <2>5. \A g \in Fds : open'[g] = IF g = f THEN h ELSE open[g]
    BY <2>4 DEF Types, FdTypes
  <2>6. /\ client[h] # "idle" /\ thr[h].pc = "none"
        /\ \A g \in Fds : open[g] # h
        /\ \A i \in 1 .. Len(backlog') : backlog'[i] # h
    BY <2>2, <2>3 DEF Fresh
  <2>7. (\A g, k \in Fds : open[g] # None /\ open[g] = open[k] => g = k)'
    BY <2>5, <2>6 DEF Fresh
  <2>8. (\A i, j \in 1 .. Len(backlog) : backlog[i] = backlog[j] => i = j)'
    <3> SUFFICES ASSUME NEW i \in 1 .. Len(backlog'), NEW j \in 1 .. Len(backlog'),
                        backlog'[i] = backlog'[j]
                 PROVE  i = j
      OBVIOUS
    <3>1. i + 1 = j + 1
      BY <2>3 DEF Fresh
    <3> QED
      BY <3>1
  <2>9. (\A i \in 1 .. Len(backlog) :
           /\ client[backlog[i]] # "idle" /\ thr[backlog[i]].pc = "none"
           /\ \A g \in Fds : open[g] # backlog[i])'
    BY <2>3, <2>4, <2>5, <2>6 DEF Fresh
  <2>10. (\A d \in Conns : client[d] = "idle" => thr[d].pc = "none" /\ \A g \in Fds : open[g] # d)'
    BY <2>4, <2>5, <2>6 DEF Fresh
  <2>11. (InHandOf(acc) =>
          /\ acc.conn \in Conns /\ thr[acc.conn].pc = "none" /\ client[acc.conn] # "idle"
          /\ \A i \in 1 .. Len(backlog) : backlog[i] # acc.conn)'
    BY <2>2, <2>4, <2>6
  <2> QED
    BY <2>4, <2>7, <2>8, <2>9, <2>10, <2>11 DEF Fresh, InHandOf
<1>5. ASSUME NEW w \in Slots, Occupy(w), InHandOf(acc),
             UNCHANGED <<client, backlog, open, stop>>
      PROVE  Fresh'
  <2>1. PICK r : Sets(acc.conn, r) /\ r.pc = "created" /\ r.w = w
    BY <1>5, OccupyEffect
  <2>2. acc.conn \in Conns /\ \A d \in Conns : thr'[d] = IF d = acc.conn THEN r ELSE thr[d]
    BY <1>5, <2>1, SetsAt DEF Fresh, InHandOf
  <2>3. ~InHandOf(acc')
    BY <1>5 DEF Occupy, InHandOf, Holding
  <2>4. /\ client[acc.conn] # "idle" /\ \A i \in 1 .. Len(backlog) : backlog[i] # acc.conn
        /\ \A i \in 1 .. Len(backlog) : backlog[i] \in Conns
    BY <1>5 DEF Fresh, InHandOf, Types, NetTypes
  <2> QED
    BY <1>5, <2>2, <2>3, <2>4 DEF Fresh, InHandOf
<1>6. CASE TakeSlot
  <2>1. Min(FreeSlots) \in Slots
    BY <1>6, MinOfNats DEF FreeSlots, Slots, TakeSlot
  <2> QED
    BY <1>5, <1>6, <2>1 DEF TakeSlot, InHandOf, Holding
<1>7. CASE ReplaceTake
  BY <1>5, <1>7, <1>s DEF ReplaceTake, InHandOf, Holding
<1>8. CASE ReplaceClose \/ ReplaceReset
  <2>1. \A f \in Fds : open'[f] \in {open[f], None}
    BY <1>8, <1>s, Closes DEF ReplaceClose, ReplaceReset
  <2>2. acc'.conn = acc.conn /\ InHandOf(acc)
    BY <1>8 DEF ReplaceClose, ReplaceReset, InHandOf, Types, AccTypes, Holding
  <2> QED
    BY <1>8, <2>1, <2>2, FreshKept DEF ReplaceClose, ReplaceReset
<1>9. CASE CloseAllNumber \/ CloseAllReset
  <2>0. acc.w \in Slots
    BY DEF Types, AccTypes
  <2>1. \A f \in Fds : open'[f] \in {open[f], None}
    BY <1>9, <2>0, Closes DEF CloseAllNumber, CloseAllReset
  <2>2. ~InHandOf(acc')
    BY <1>9 DEF CloseAllNumber, CloseAllReset, SlotDone, InHandOf, Types, AccTypes, Holding
  <2> QED
    BY <1>9, <2>1, <2>2, FreshKept DEF CloseAllNumber, CloseAllReset
<1>d. ASSUME CloseServerSock, UNCHANGED <<open, thr>>, ~InHandOf(acc') \/ acc' = acc,
             stop' \in Unmade => stop' = stop
      PROVE  Fresh'
  <2>1. backlog' \in {backlog, <<>>}
    BY <1>d DEF CloseServerSock
  <2>2. \A c \in Conns : client'[c] = "idle" => client[c] = "idle"
    BY <1>d, <1>s DEF CloseServerSock, Types, NetTypes
  <2>3. stop \in Unmade => client'[Self] = client[Self]
    <3>1. ASSUME stop \in Unmade PROVE ~ \E i \in DOMAIN backlog : backlog[i] = Self
      BY <3>1 DEF Fresh, Unmade, Types, NetTypes
    <3> QED
      BY <1>d, <1>s, <3>1 DEF CloseServerSock, Unmade
  <2> QED
    BY <1>d, <2>1, <2>2, <2>3, FreshKept
<1>e. CASE CloseAllSock
  <2>1. ~InHandOf(acc')
    BY <1>e DEF CloseAllSock, InHandOf, Types, AccTypes, Holding
  <2> QED
    BY <1>e, <1>d, <2>1 DEF CloseAllSock
<1>10. ASSUME NEW c \in Conns, Begin(c)
       PROVE  Fresh'
  <2>1. PICK r : Sets(c, r) /\ r.pc \in {"done", "next"}
    BY <1>10, BeginEffect
  <2> QED
    BY <1>10, <2>1, FreshThread DEF Begin
<1>11. ASSUME NEW c \in Conns, ReadStart(c) \/ ReadGot(c) \/ ReadEnds(c)
       PROVE  Fresh'
  <2>1. PICK r : ReadResult(c, r)
    BY <1>11, ReadEffect
  <2> QED
    BY <1>11, <2>1, ReadEffect, FreshThread DEF ReadResult
<1>14. ASSUME NEW c \in Conns, EndClose(c)
       PROVE  Fresh'
  <2>1. PICK r : Sets(c, r) /\ r.pc \in {"bye", "reset"}
    BY <1>14, EndEffect
  <2>2. thr[c].w \in Slots
    BY <1>14 DEF EndClose, Types, ThrTypes, Busy
  <2>3. \A f \in Fds : open'[f] \in {open[f], None}
    BY <1>14, <2>2, Closes DEF EndClose
  <2> QED
    BY <1>14, <2>1, <2>3, FreshThread DEF EndClose
<1>15. ASSUME NEW c \in Conns, EndReset(c) \/ EndNotice(c)
       PROVE  Fresh'
  <2>1. PICK r : Sets(c, r) /\ r.pc \in {"bye", "done"}
    BY <1>15, EndEffect
  <2> QED
    BY <1>15, <2>1, FreshThread DEF EndReset, EndNotice
<1>18. CASE UiCloseNumber
  <2>1. Head(ui.todo) \in Slots
    BY <1>18 DEF UiCloseNumber, Types, UiTypes
  <2>2. \A f \in Fds : open'[f] \in {open[f], None}
    BY <1>18, <2>1, Closes DEF UiCloseNumber
  <2> QED
    BY <1>18, <2>2, FreshKept DEF UiCloseNumber
<1>19. CASE UiClose \/ UiReset
  BY <1>19, FreshKept DEF UiClose, UiReset
<1>20. CASE StopFlag \/ StopSocket
  BY <1>20, FreshKept DEF StopFlag, StopSocket, Unmade
<1>21. CASE StopConnect
  <2>1. client[Self] = "idle"
    BY <1>21 DEF StopConnect, Fresh
  <2> QED
    BY <1>21, <1>s, <2>1, FreshConnect DEF StopConnect, Unmade
<1>f. CASE StopRefused
  BY <1>f, <1>d DEF StopRefused, Unmade
<1>22. CASE StopClose
  <2>1. CASE CloseServerSock
    BY <1>22, <1>d, <2>1 DEF StopClose, Unmade
  <2>2. CASE ~CloseServerSock
    BY <1>22, <2>2, FreshKept DEF StopClose, Unmade
  <2> QED
    BY <2>1, <2>2
<1>23. CASE UNCHANGED vars
  BY <1>23, FreshKept DEF vars
<1> QED
  BY <1>1, <1>2, <1>3, <1>4, <1>6, <1>7, <1>8, <1>9, <1>e, <1>10, <1>11, <1>14, <1>15,
     <1>18, <1>19, <1>20, <1>21, <1>f, <1>22, <1>23 DEF Next, AcceptLoop, Receive, Stop
-----------------------------------------------------------------------------
(* How the accept loop ends.                                               *)
LEMMA EndsStep == Types /\ Ends /\ [Next]_vars => Ends'
<1> SUFFICES ASSUME Types, Ends, [Next]_vars
             PROVE  Ends'
  OBVIOUS
<1>s. Slots = {1, 2} /\ NoFd = -1 /\ slot \in [Slots -> Fds \cup {NoFd}] /\ acc.w \in Slots
  BY DEF Slots, NoFd, Types, FdTypes, AccTypes
<1> USE DEF net, server, Ends, Ending
<1>1. CASE UNCHANGED <<acc, slot>> /\ (live' => live)
  BY <1>1
<1>2. ASSUME NEW w \in Slots, slot' = [slot EXCEPT ![w] = NoFd], UNCHANGED <<acc, live>>
      PROVE  Ends'
  BY <1>2, <1>s
<1>3. CASE Bind \/ SetLive \/ Top \/ AcceptCall \/ Accept \/ TakeSlot \/ ReplaceTake
           \/ ReplaceClose \/ ReplaceReset
  <2>1. acc'.pc \in {"close", "returned"} => acc.pc \in {"bind", "top", "accept"} /\ acc'.w = 1
        /\ slot' = slot /\ live' = live
        /\ (acc'.pc = "close" /\ acc'.fd # NoFd => ~live)
        /\ (acc'.pc = "returned" => acc.pc = "bind" /\ acc'.fd = acc.fd)
    BY <1>3, <1>s DEF Bind, SetLive, Top, AcceptCall, Accept, TakeSlot, ReplaceTake, ReplaceClose,
       ReplaceReset, Occupy, Types, AccTypes
  <2>2. acc'.pc \notin {"bind", "reset", "closeSock"}
    BY <1>3 DEF Bind, SetLive, Top, AcceptCall, Accept, TakeSlot, ReplaceTake, ReplaceClose,
       ReplaceReset, Occupy, Types, AccTypes
  <2>3. acc'.pc \notin Ending => Ends'
    BY <2>2
  <2>4. acc'.pc \in {"close", "returned"} => Ends'
    BY <2>1
  <2> QED
    BY <2>2, <2>3, <2>4
<1>4. CASE CloseAllNumber
  BY <1>4, <1>s DEF CloseAllNumber, SlotDone, Types, AccTypes
<1>5. CASE CloseAllReset
  BY <1>5, <1>s DEF CloseAllReset, SlotDone, Types, AccTypes
<1>6. CASE CloseAllSock
  BY <1>6 DEF CloseAllSock, Types, AccTypes
<1>7. ASSUME NEW c \in Conns, Receive(c)
      PROVE  Ends'
  <2>1. CASE EndReset(c)
    <3>1. thr[c].w \in Slots
      BY <2>1 DEF EndReset, Types, ThrTypes, Busy
    <3> QED
      BY <2>1, <3>1, <1>2 DEF EndReset
  <2>2. CASE ~EndReset(c)
    BY <1>1, <1>7, <2>2 DEF Receive, Begin, ReadStart, ReadGot, ReadEnds, EndClose, EndNotice
  <2> QED
    BY <2>1, <2>2
<1>8. CASE UiReset
  <2>1. Head(ui.todo) \in Slots
    BY <1>8 DEF UiReset, Types, UiTypes
  <2> QED
    BY <1>8, <2>1, <1>2 DEF UiReset
<1>9. CASE UiClose \/ UiCloseNumber \/ Stop \/ UNCHANGED vars
  BY <1>1, <1>9 DEF UiClose, UiCloseNumber, Stop, StopFlag, StopSocket, StopConnect, StopRefused,
     StopClose, vars
<1>10. ASSUME NEW c \in Clients, ClientConnect(c) \/ ClientGone(c)
       PROVE  Ends'
  BY <1>1, <1>10 DEF ClientConnect, ClientGone
<1> QED
  BY <1>3, <1>4, <1>5, <1>6, <1>7, <1>8, <1>9, <1>10 DEF Next, AcceptLoop
-----------------------------------------------------------------------------
(* Who owns which descriptor, until a window is hit.                       *)
LEMMA CausesStay == [Next]_vars => causes \subseteq causes'
BY DEF Next, AcceptLoop, Receive, Stop, ClientConnect, ClientGone, Bind, SetLive, Top, AcceptCall,
   Accept, TakeSlot, Occupy, ReplaceClose, ReplaceReset, CloseNumber, ReplaceTake, CloseAllNumber,
   CloseAllReset, CloseAllSock, Begin, ReadStart, ReadGot, ReadEnds, EndClose, EndReset, EndNotice,
   UiClose, UiCloseNumber, UiReset, StopFlag, StopSocket, StopConnect, StopRefused, Unwoken,
   StopClose, vars

LEMMA NoFdIsNone == NoFd \notin Fds
BY DEF NoFd, Fds

(* A step that leaves the descriptors, the slots and the threads alone.    *)
LEMMA OwnedSame ==
  ASSUME Types, Owned, UNCHANGED <<open, slot, thr, ui, shown>>, acc'.fd = acc.fd,
         \/ acc' = acc
         \/ /\ acc'.pc \notin Holding \cup {"reset"}
            /\ acc'.pc \in Waiting => acc.fd = NoFd
  PROVE  Owned'
<1>1. SlotsApart' /\ OwnSlot' /\ OwnNumber' /\ OneThread' /\ Held'
  BY DEF Owned, SlotsApart, OwnSlot, OwnNumber, OneThread, Held
<1>2. InHand'
  BY DEF Owned, InHand, Holding
<1>3. ResetsClosed'
  BY DEF Owned, ResetsClosed, Closed, AccResets, Holding
<1>4. Shown'
  BY DEF Owned, Shown, Serves
<1> QED
  BY <1>1, <1>2, <1>3, <1>4 DEF Owned

LEMMA OwnedAccept ==
  ASSUME Types, Fresh, Owned, Accept, Clear'
  PROVE  Owned'
<1> DEFINE h == Head(backlog)
           f == Min({g \in Fds : open[g] = None})
<1>1. f \in Fds /\ open[f] = None
  BY FreeNumber
<1>2. /\ open' = [open EXCEPT ![f] = h] /\ ~InUse(f) /\ acc.pc = "accept"
      /\ acc'.fd = f /\ acc'.conn = h /\ acc'.pc \in {"assign", "close"}
      /\ UNCHANGED <<slot, thr, ui, shown>>
  BY DEF Accept, Clear
<1> HIDE DEF f, h
<1>3. \A g \in Fds : open'[g] = IF g = f THEN h ELSE open[g]
  BY <1>2 DEF Types, FdTypes
<1>4. \A w \in Slots : slot[w] # f
  BY <1>2 DEF InUse
<1>5. \A c \in Conns : thr[c].pc \in {"next", "read"} => thr[c].fd # f
  BY <1>2 DEF InUse
<1>6. /\ acc.fd = NoFd /\ \A w \in Slots : slot[w] \in Fds \cup {NoFd}
      /\ \A c \in Conns : thr[c].fd \in Fds \cup {NoFd}
      /\ \A c \in Conns : thr[c].pc \in Busy => thr[c].w \in Slots
  BY <1>2 DEF Owned, InHand, Types, FdTypes, ThrTypes, ThrRec, Waiting
<1>7. SlotsApart'
  BY <1>2, <1>4 DEF Owned, SlotsApart
<1>8. InHand'
  BY <1>1, <1>2, <1>3 DEF InHand, Holding, Waiting
<1>9. OwnSlot'
  BY <1>2, <1>3, <1>4, <1>6 DEF Owned, OwnSlot
<1>10. OwnNumber'
  BY <1>2, <1>3, <1>5, <1>6 DEF Owned, OwnNumber
<1>11. OneThread'
  BY <1>2 DEF Owned, OneThread
<1>12. ResetsClosed'
  <2>1. ASSUME NEW w \in Slots, Closed(w) PROVE Closed(w)'
    BY <1>2, <1>3, <1>4, <1>6, <2>1 DEF Closed
  <2>2. ui.pc = "reset" => Head(ui.todo) \in Slots
    BY DEF Types, UiTypes
  <2> QED
    BY <1>2, <1>6, <2>1, <2>2 DEF Owned, ResetsClosed, Busy, AccResets
<1>13. Held'
  BY <1>2, <1>3, <1>6, NoFdIsNone DEF Owned, Held
<1>14. Shown'
  BY <1>2 DEF Owned, Shown, Serves
<1> QED
  BY <1>7, <1>8, <1>9, <1>10, <1>11, <1>12, <1>13, <1>14 DEF Owned

LEMMA OwnedOccupy ==
  ASSUME Types, Fresh, Owned, NEW w \in Slots, Occupy(w), Clear', slot[w] = NoFd,
         acc.pc \in Holding, UNCHANGED <<open, ui, shown>>
  PROVE  Owned'
<1>1. PICK r : Sets(acc.conn, r) /\ r.pc = "created" /\ r.w = w
  BY OccupyEffect
<1>2. /\ acc.conn \in Conns /\ thr[acc.conn].pc = "none"
      /\ \A d \in Conns : thr'[d] = IF d = acc.conn THEN r ELSE thr[d]
  BY <1>1, SetsAt DEF Fresh
<1>3. /\ \A v \in Slots : slot'[v] = IF v = w THEN acc.fd ELSE slot[v]
      /\ acc'.fd = NoFd /\ acc'.pc = "top"
  BY DEF Occupy, Types, FdTypes
<1>4. \A d \in Conns : thr[d].pc \in Busy => thr[d].w # w /\ thr[d].w \in Slots
  BY DEF Occupy, Serves, Busy, Types, ThrTypes, Clear
<1>5. acc.fd \in Fds /\ open[acc.fd] = acc.conn /\ acc.fd # NoFd
  BY NoFdIsNone DEF Owned, InHand
<1>7. SlotsApart'
  BY <1>3, <1>5 DEF Owned, SlotsApart
<1>8. InHand'
  BY <1>3 DEF InHand, Holding
<1>9. OwnSlot'
  BY <1>1, <1>2, <1>3, <1>4, <1>5 DEF Owned, OwnSlot
<1>10. OwnNumber'
  BY <1>1, <1>2 DEF Owned, OwnNumber
<1>11. OneThread'
  BY <1>1, <1>2, <1>4 DEF Owned, OneThread
<1>12. ResetsClosed'
  <2>1. ASSUME NEW v \in Slots, Closed(v) PROVE v # w /\ Closed(v)'
    BY <1>3, <2>1 DEF Closed
  <2>2. ui.pc = "reset" => Head(ui.todo) \in Slots
    BY DEF Types, UiTypes
  <2> QED
    BY <1>1, <1>2, <1>3, <1>4, <2>1, <2>2 DEF Owned, ResetsClosed, Busy, AccResets
<1>13. Held'
  BY <1>3, NoFdIsNone DEF Owned, Held
<1>14. Shown'
  <2>1. \A d \in Conns, v \in Slots : Serves(d, v)' <=> Serves(d, v)
    BY <1>1, <1>2 DEF Serves
  <2> QED
    BY <2>1 DEF Owned, Shown
<1> QED
  BY <1>7, <1>8, <1>9, <1>10, <1>11, <1>12, <1>13, <1>14 DEF Owned

(* A closing of slot w's number, by thread c, by Java or by the accept     *)
(* loop, that hits no window: nobody else is between close and reset.      *)
LEMMA CloseFacts ==
  ASSUME Types, Owned, NEW w \in Slots, CloseNumber(w), Clear'
  PROVE  /\ slot[w] # NoFd => ~Resetting(w)
         /\ slot[w] \in Fds \cup {NoFd}
         /\ \A f \in Fds : open'[f] = IF slot[w] # NoFd /\ f = slot[w] THEN None ELSE open[f]
         /\ acc.fd \in Fds => open'[acc.fd] = open[acc.fd]
<1>1. \A f \in Fds : open'[f] = IF slot[w] # NoFd /\ f = slot[w] THEN None ELSE open[f]
  BY Closes
<1>2. slot[w] # NoFd => ~Resetting(w)
  BY DEF CloseNumber, Clear
<1>3. acc.fd \in Fds => open'[acc.fd] = open[acc.fd]
  BY <1>1 DEF Owned, SlotsApart
<1> QED
  BY <1>1, <1>2, <1>3 DEF Types, FdTypes

(* What only needs that descriptors are closed, not opened.                *)
LEMMA ShrinkKeeps ==
  ASSUME Types, Owned, \A f \in Fds : open'[f] \in {open[f], None}
  PROVE  /\ \A c \in Conns : thr[c].pc \in Busy =>
              slot[thr[c].w] = NoFd \/ open'[slot[thr[c].w]] \in {c, None}
         /\ \A c \in Conns : thr[c].pc \in {"next", "read"} =>
              thr[c].fd = NoFd \/ open'[thr[c].fd] \in {c, None}
         /\ \A w \in Slots : slot[w] # NoFd /\ open[slot[w]] = None => open'[slot[w]] = None
<1>1. /\ \A w \in Slots : slot[w] \in Fds \cup {NoFd}
      /\ \A c \in Conns : thr[c].fd \in Fds \cup {NoFd}
      /\ \A c \in Conns : thr[c].pc \in Busy => thr[c].w \in Slots
  BY DEF Types, FdTypes, ThrTypes, ThrRec
<1> QED
  BY <1>1 DEF Owned, OwnSlot, OwnNumber

LEMMA OwnedEndClose ==
  ASSUME Types, Owned, NEW c \in Conns, EndClose(c), Clear'
  PROVE  Owned'
<1> DEFINE w == thr[c].w
<1>1. PICK r : Sets(c, r) /\ r.w = w /\ r.pc = IF slot[w] = NoFd THEN "bye" ELSE "reset"
  BY EndEffect
<1>2. \A d \in Conns : thr'[d] = IF d = c THEN r ELSE thr[d]
  BY <1>1, SetsAt
<1>3. w \in Slots /\ thr[c].pc = "end" /\ UNCHANGED <<slot, acc, ui, shown>> /\ CloseNumber(w)
  BY DEF EndClose, Types, ThrTypes, Busy, server
<1>4. /\ slot[w] # NoFd => ~Resetting(w)
      /\ slot[w] \in Fds \cup {NoFd}
      /\ \A f \in Fds : open'[f] = IF slot[w] # NoFd /\ f = slot[w] THEN None ELSE open[f]
      /\ acc.fd \in Fds => open'[acc.fd] = open[acc.fd]
  BY <1>3, CloseFacts
<1> HIDE DEF w
<1>5. \A f \in Fds : open'[f] \in {open[f], None}
  BY <1>4
<1>7. SlotsApart'
  BY <1>3 DEF Owned, SlotsApart
<1>8. InHand'
  BY <1>3, <1>4 DEF Owned, InHand
<1>9. OwnSlot'
  BY <1>1, <1>2, <1>3, <1>5, ShrinkKeeps DEF OwnSlot, Busy, w
<1>10. OwnNumber'
  BY <1>1, <1>2, <1>5, ShrinkKeeps DEF Owned, OwnNumber
<1>11. OneThread'
  BY <1>1, <1>2, <1>3 DEF Owned, OneThread, Busy, w
<1>12. ResetsClosed'
  <2>1. ASSUME NEW v \in Slots, Closed(v) PROVE Closed(v)'
    BY <1>3, <1>5, <2>1, ShrinkKeeps DEF Closed
  <2>2. ui.pc = "reset" => Head(ui.todo) \in Slots
    BY DEF Types, UiTypes
  <2>3. ASSUME slot[w] # NoFd
        PROVE  /\ \A v \in Slots : v = w => Closed(v)'
               /\ ~(ui.pc = "reset" /\ Head(ui.todo) = w)
               /\ ~(AccResets /\ acc.w = w)
    BY <1>3, <1>4, <2>3 DEF Closed, Resetting, AccResets
  <2>4. \A d \in Conns : thr[d].pc = "reset" => thr[d].w \in Slots
    BY DEF Types, ThrTypes, Busy
  <2>5. ASSUME NEW d \in Conns, thr'[d].pc = "reset"
        PROVE  /\ \A v \in Slots : v = thr'[d].w => Closed(v)'
               /\ thr'[d].w \in Slots
               /\ ui.pc = "reset" => thr'[d].w # Head(ui.todo)
               /\ AccResets => thr'[d].w # acc.w
    <3>1. CASE d = c
      BY <1>1, <1>2, <1>3, <2>3, <2>5, <3>1
    <3>2. CASE d # c
      BY <1>2, <2>1, <2>4, <2>5, <3>2 DEF Owned, ResetsClosed
    <3> QED
      BY <3>1, <3>2
  <2>6. ui.pc = "reset" => \A v \in Slots : v = Head(ui.todo) => Closed(v)'
    BY <2>1, <2>2 DEF Owned, ResetsClosed
  <2>7. AccResets => Closed(acc.w)' /\ (ui.pc = "reset" => Head(ui.todo) # acc.w)
    BY <1>3, <2>1 DEF Owned, ResetsClosed, Types, AccTypes
  <2> QED
    BY <1>3, <2>2, <2>5, <2>6, <2>7 DEF ResetsClosed, Closed, AccResets
<1>13. Held'
  BY <1>3, <1>5 DEF Owned, Held
<1>14. Shown'
  <2>1. \A d \in Conns, v \in Slots : Serves(d, v)' <=> Serves(d, v)
    BY <1>1, <1>2, <1>3 DEF Serves, w
  <2> QED
    BY <1>3, <2>1 DEF Owned, Shown
<1> QED
  BY <1>7, <1>8, <1>9, <1>10, <1>11, <1>12, <1>13, <1>14 DEF Owned

LEMMA OwnedEndReset ==
  ASSUME Types, Owned, NEW c \in Conns, EndReset(c)
  PROVE  Owned'
<1> DEFINE w == thr[c].w
<1>1. PICK r : Sets(c, r) /\ r.w = w /\ r.pc = "bye"
  BY EndEffect
<1>2. \A d \in Conns : thr'[d] = IF d = c THEN r ELSE thr[d]
  BY <1>1, SetsAt
<1>3. /\ w \in Slots /\ thr[c].pc = "reset" /\ UNCHANGED <<open, acc, ui, shown>>
      /\ \A v \in Slots : slot'[v] = IF v = w THEN NoFd ELSE slot[v]
  BY DEF EndReset, Types, ThrTypes, FdTypes, Busy, server
<1>4. Closed(w)
  BY <1>3 DEF Owned, ResetsClosed
<1> HIDE DEF w
<1>5. \A d \in Conns : thr[d].pc \in Busy => thr[d].w \in Slots
  BY DEF Types, ThrTypes
<1>7. SlotsApart'
  BY <1>3 DEF Owned, SlotsApart
<1>8. InHand'
  BY <1>3 DEF Owned, InHand, Slots
<1>9. OwnSlot'
  BY <1>1, <1>2, <1>3, <1>5 DEF Owned, OwnSlot
<1>10. OwnNumber'
  BY <1>1, <1>2, <1>3 DEF Owned, OwnNumber
<1>11. OneThread'
  BY <1>1, <1>2, <1>3 DEF Owned, OneThread, Busy, w
<1>12. ResetsClosed'
  <2>1. ASSUME NEW v \in Slots, Closed(v), v # w PROVE Closed(v)'
    BY <1>3, <2>1 DEF Closed
  <2>2. ui.pc = "reset" => Head(ui.todo) \in Slots
    BY DEF Types, UiTypes
  <2>3. ui.pc = "reset" => Head(ui.todo) # w
    BY <1>3 DEF Owned, ResetsClosed, w
  <2>4. \A d \in Conns : d # c /\ thr[d].pc = "reset" => thr[d].w # w
    BY <1>3 DEF Owned, OneThread, Busy, w
  <2>5. ASSUME NEW d \in Conns, thr'[d].pc = "reset"
        PROVE  d # c /\ thr'[d] = thr[d] /\ thr[d].w \in Slots /\ thr[d].w # w
    BY <1>1, <1>2, <1>5, <2>4, <2>5 DEF Busy
  <2>6. ASSUME NEW d \in Conns, thr'[d].pc = "reset"
        PROVE  Closed(thr[d].w)' /\ (ui.pc = "reset" => thr[d].w # Head(ui.todo))
    BY <2>1, <2>5, <2>6 DEF Owned, ResetsClosed
  <2>7. ui.pc = "reset" => Closed(Head(ui.todo))'
    BY <1>3, <2>1, <2>2, <2>3 DEF Owned, ResetsClosed
  <2>8. /\ AccResets => Closed(acc.w)' /\ (ui.pc = "reset" => Head(ui.todo) # acc.w)
        /\ \A d \in Conns : AccResets /\ thr[d].pc = "reset" => thr[d].w # acc.w
    BY <1>3, <2>1 DEF Owned, ResetsClosed, Types, AccTypes, w
  <2> QED
    BY <1>3, <2>5, <2>6, <2>7, <2>8 DEF ResetsClosed, AccResets
<1>13. Held'
  BY <1>3, <1>4, NoFdIsNone DEF Owned, Held, Closed
<1>14. Shown'
  <2>1. \A d \in Conns, v \in Slots : Serves(d, v)' <=> Serves(d, v)
    BY <1>1, <1>2, <1>3 DEF Serves, w
  <2> QED
    BY <1>3, <2>1 DEF Owned, Shown
<1> QED
  BY <1>7, <1>8, <1>9, <1>10, <1>11, <1>12, <1>13, <1>14 DEF Owned

LEMMA OwnedUi ==
  ASSUME Types, Owned, UiClose \/ UiCloseNumber \/ UiReset, Clear'
  PROVE  Owned'
<1> DEFINE w == Head(ui.todo)
<1>5. \A d \in Conns : thr[d].pc \in Busy => thr[d].w \in Slots
  BY DEF Types, ThrTypes
<1>1. CASE UiClose
  <2>1. UNCHANGED <<open, slot, acc, thr, shown>> /\ ui'.pc = "close"
    BY <1>1 DEF UiClose, server
  <2> QED
    BY <2>1 DEF Owned, SlotsApart, InHand, OwnSlot, OwnNumber, OneThread, ResetsClosed, Closed,
       AccResets, Held, Shown, Serves
<1>2. CASE UiCloseNumber
  <2>1. /\ w \in Slots /\ UNCHANGED <<slot, acc, thr, shown>> /\ CloseNumber(w)
        /\ ui' = IF slot[w] = NoFd THEN [ui EXCEPT !.todo = Tail(@)] ELSE [ui EXCEPT !.pc = "reset"]
        /\ ui.pc = "close"
    BY <1>2 DEF UiCloseNumber, server, Types, UiTypes
  <2>2. /\ slot[w] # NoFd => ~Resetting(w)
        /\ slot[w] \in Fds \cup {NoFd}
        /\ \A f \in Fds : open'[f] = IF slot[w] # NoFd /\ f = slot[w] THEN None ELSE open[f]
        /\ acc.fd \in Fds => open'[acc.fd] = open[acc.fd]
    BY <2>1, CloseFacts
  <2>u. ui'.pc = "reset" => slot[w] # NoFd /\ Head(ui'.todo) = w
    BY <2>1 DEF Types, UiTypes
  <2> HIDE DEF w
  <2>3. \A f \in Fds : open'[f] \in {open[f], None}
    BY <2>2
  <2>4. SlotsApart' /\ InHand' /\ OneThread'
    BY <2>1, <2>2 DEF Owned, SlotsApart, InHand, OneThread
  <2>5. OwnSlot' /\ OwnNumber'
    BY <2>1, <2>3, ShrinkKeeps DEF Owned, OwnSlot, OwnNumber
  <2>6. ResetsClosed'
    <3>1. \A v \in Slots : Closed(v) => Closed(v)'
      BY <2>1, <2>3, ShrinkKeeps DEF Closed
    <3>2. ASSUME NEW d \in Conns, thr[d].pc = "reset"
          PROVE  Closed(thr[d].w)' /\ (ui'.pc = "reset" => thr[d].w # w)
      BY <1>5, <2>1, <2>2, <2>u, <3>1, <3>2 DEF Owned, ResetsClosed, Busy, Resetting
    <3>3. ui'.pc = "reset" => \A v \in Slots : v = w => Closed(v)'
      BY <2>1, <2>2, <2>u DEF Closed
    <3>4. AccResets => Closed(acc.w)' /\ (ui'.pc = "reset" => w # acc.w)
      BY <2>1, <2>2, <2>u, <3>1 DEF Owned, ResetsClosed, Resetting, AccResets, Types, AccTypes
    <3>5. \A d \in Conns : AccResets /\ thr[d].pc = "reset" => thr[d].w # acc.w
      BY DEF Owned, ResetsClosed
    <3> QED
      BY <2>1, <2>u, <3>2, <3>3, <3>4, <3>5 DEF ResetsClosed, AccResets
  <2>7. Held' /\ Shown'
    BY <2>1, <2>3 DEF Owned, Held, Shown, Serves
  <2> QED
    BY <2>4, <2>5, <2>6, <2>7 DEF Owned
<1>3. CASE UiReset
  <2>1. /\ w \in Slots /\ UNCHANGED <<open, acc, thr, shown>>
        /\ ui.pc = "reset" /\ ui'.pc = "close"
        /\ \A v \in Slots : slot'[v] = IF v = w THEN NoFd ELSE slot[v]
    BY <1>3 DEF UiReset, server, Types, UiTypes, FdTypes
  <2>2. Closed(w)
    BY <2>1 DEF Owned, ResetsClosed
  <2>3. \A d \in Conns : thr[d].pc = "reset" => thr[d].w # w
    BY <2>1 DEF Owned, ResetsClosed
  <2> HIDE DEF w
  <2>4. SlotsApart' /\ InHand' /\ OneThread'
    BY <2>1 DEF Owned, SlotsApart, InHand, OneThread, Slots
  <2>5. OwnSlot' /\ OwnNumber'
    BY <1>5, <2>1 DEF Owned, OwnSlot, OwnNumber
  <2>6. ResetsClosed'
    <3>1. \A v \in Slots : Closed(v) /\ v # w => Closed(v)'
      BY <2>1 DEF Closed
    <3>2. AccResets => Closed(acc.w)'
      BY <2>1, <3>1 DEF Owned, ResetsClosed, Types, AccTypes, w
    <3> QED
      BY <1>5, <2>1, <2>3, <3>1, <3>2 DEF Owned, ResetsClosed, Busy, AccResets
  <2>7. Held'
    BY <2>1, <2>2, NoFdIsNone DEF Owned, Held, Closed
  <2>8. Shown'
    BY <2>1 DEF Owned, Shown, Serves
  <2> QED
    BY <2>4, <2>5, <2>6, <2>7, <2>8 DEF Owned
<1> QED
  BY <1>1, <1>2, <1>3

(* The accept loop closes the number of a slot, to replace it or at the    *)
(* end ...                                                                 *)
LEMMA OwnedAccClose ==
  ASSUME Types, Owned, NEW w \in Slots, CloseNumber(w), Clear',
         UNCHANGED <<slot, thr, ui, shown>>, acc'.fd = acc.fd, acc'.conn = acc.conn,
         acc'.pc \in Holding => acc.pc \in Holding, acc'.pc \notin Waiting \cup {"sleep"},
         AccResets' => acc'.w = w /\ slot[w] # NoFd
  PROVE  Owned'
<1>3. /\ slot[w] # NoFd => ~Resetting(w)
      /\ slot[w] \in Fds \cup {NoFd}
      /\ \A f \in Fds : open'[f] = IF slot[w] # NoFd /\ f = slot[w] THEN None ELSE open[f]
      /\ acc.fd \in Fds => open'[acc.fd] = open[acc.fd]
  BY CloseFacts
<1>4. \A f \in Fds : open'[f] \in {open[f], None}
  BY <1>3
<1>5. \A d \in Conns : thr[d].pc \in Busy => thr[d].w \in Slots
  BY DEF Types, ThrTypes
<1>6. SlotsApart' /\ InHand' /\ OneThread'
  BY <1>3 DEF Owned, SlotsApart, InHand, OneThread
<1>7. OwnSlot' /\ OwnNumber'
  BY <1>4, <1>5, ShrinkKeeps DEF Owned, OwnSlot, OwnNumber
<1>8. ResetsClosed'
  <2>1. \A v \in Slots : Closed(v) => Closed(v)'
    BY <1>4, ShrinkKeeps DEF Closed
  <2>2. slot[w] # NoFd => \A v \in Slots : v = w => Closed(v)'
    BY <1>3 DEF Closed
  <2>3. slot[w] # NoFd => /\ \A d \in Conns : thr[d].pc = "reset" => thr[d].w # w
                          /\ ui.pc = "reset" => Head(ui.todo) # w
    BY <1>3 DEF Resetting
  <2>4. ui.pc = "reset" => Head(ui.todo) \in Slots
    BY DEF Types, UiTypes
  <2>5. \A d \in Conns : thr[d].pc = "reset" => Closed(thr[d].w)'
    BY <1>5, <2>1 DEF Owned, ResetsClosed, Busy
  <2>6. ui.pc = "reset" => Closed(Head(ui.todo))'
    BY <2>1, <2>4 DEF Owned, ResetsClosed
  <2>7. AccResets' => Closed(acc.w)'
    BY <2>2 DEF Closed
  <2> QED
    BY <2>3, <2>5, <2>6, <2>7 DEF Owned, ResetsClosed, Closed
<1>9. Held' /\ Shown'
  BY <1>4 DEF Owned, Held, Shown, Serves
<1> QED
  BY <1>6, <1>7, <1>8, <1>9 DEF Owned

(* ... and resets the slot.                                                *)
LEMMA OwnedAccReset ==
  ASSUME Types, Owned, AccResets, slot' = [slot EXCEPT ![acc.w] = NoFd],
         UNCHANGED <<open, thr, ui, shown>>, acc'.fd = acc.fd, acc'.conn = acc.conn,
         acc'.pc \in Holding => acc.pc \in Holding /\ acc.w = 1,
         acc'.pc \notin Waiting, ~AccResets'
  PROVE  Owned'
<1>1. acc.w \in Slots /\ \A v \in Slots : slot'[v] = IF v = acc.w THEN NoFd ELSE slot[v]
  BY DEF Types, AccTypes, FdTypes
<1>2. Closed(acc.w)
  BY DEF Owned, ResetsClosed
<1>3. /\ \A d \in Conns : thr[d].pc = "reset" => thr[d].w # acc.w
      /\ ui.pc = "reset" => Head(ui.todo) # acc.w /\ Head(ui.todo) \in Slots
  BY DEF Owned, ResetsClosed, Types, UiTypes
<1>5. \A d \in Conns : thr[d].pc \in Busy => thr[d].w \in Slots
  BY DEF Types, ThrTypes
<1>6. SlotsApart' /\ OneThread'
  BY <1>1 DEF Owned, SlotsApart, OneThread
<1>7. InHand'
  BY <1>1 DEF Owned, InHand, Holding, Slots
<1>8. OwnSlot' /\ OwnNumber'
  BY <1>1, <1>5 DEF Owned, OwnSlot, OwnNumber
<1>9. ResetsClosed'
  <2>1. \A v \in Slots : Closed(v) /\ v # acc.w => Closed(v)'
    BY <1>1 DEF Closed
  <2> QED
    BY <1>3, <1>5, <2>1 DEF Owned, ResetsClosed, Busy
<1>10. Held'
  BY <1>1, <1>2, NoFdIsNone DEF Owned, Held, Closed
<1>11. Shown'
  BY DEF Owned, Shown, Serves
<1> QED
  BY <1>6, <1>7, <1>8, <1>9, <1>10, <1>11 DEF Owned

(* A step of thread c that stays with its slot or is the thread's last.    *)
LEMMA OwnedThread ==
  ASSUME Types, Owned, NEW c \in Conns, NEW r, Sets(c, r), thr[c].pc \in Busy,
         r.pc \in Busy => r.w = thr[c].w, r.pc # "reset",
         r.pc \in {"next", "read"} => r.fd = NoFd \/ open[r.fd] \in {c, None},
         r.pc = "read" => r.on = c,
         UNCHANGED <<open, slot, acc, ui>>, Shown'
  PROVE  Owned'
<1>1. \A d \in Conns : thr'[d] = IF d = c THEN r ELSE thr[d]
  BY SetsAt
<1>2. SlotsApart' /\ InHand' /\ Held'
  BY DEF Owned, SlotsApart, InHand, Held
<1>3. OwnSlot'
  BY <1>1 DEF Owned, OwnSlot
<1>4. OwnNumber'
  BY <1>1 DEF Owned, OwnNumber
<1>5. OneThread'
  BY <1>1 DEF Owned, OneThread
<1>6. ResetsClosed'
  BY <1>1 DEF Owned, ResetsClosed, Closed, AccResets
<1> QED
  BY <1>2, <1>3, <1>4, <1>5, <1>6 DEF Owned

LEMMA OwnedReceive ==
  ASSUME Types, Owned, NEW c \in Conns, Clear',
         Begin(c) \/ ReadStart(c) \/ ReadGot(c) \/ ReadEnds(c) \/ EndNotice(c)
  PROVE  Owned'
<1>1. CASE Begin(c)
  <2>1. PICK r, v : /\ v \in Slots /\ Sets(c, r) /\ r.pc = "next" /\ r.w = v /\ r.fd = slot[v]
                    /\ shown' = [shown EXCEPT ![v] = TRUE] /\ v = thr[c].w
    BY <1>1, BeginEffect
  <2>2. thr[c].pc = "created" /\ thr[c].pc \in Busy /\ UNCHANGED <<open, slot, acc, ui>>
    BY <1>1 DEF Begin, server, Busy
  <2>3. r.fd = NoFd \/ open[r.fd] \in {c, None}
    BY <2>1, <2>2 DEF Owned, OwnSlot
  <2>4. \A d \in Conns : thr'[d] = IF d = c THEN r ELSE thr[d]
    BY <2>1, SetsAt
  <2>5. Shown'
    <3>1. \A u \in Slots : shown'[u] = IF u = v THEN TRUE ELSE shown[u]
      BY <2>1 DEF Types, UiTypes
    <3>2. Serves(c, v)'
      BY <2>1, <2>4 DEF Serves
    <3>3. \A u \in Slots \ {v}, d \in Conns : Serves(d, u)' <=> Serves(d, u)
      BY <2>1, <2>4 DEF Serves
    <3>4. \A u \in Slots : shown[u] <=> \E d \in Conns : Serves(d, u)
      BY DEF Owned, Shown
    <3>5. ASSUME NEW u \in Slots
          PROVE  shown'[u] <=> \E d \in Conns : Serves(d, u)'
      <4>1. CASE u = v
        BY <3>1, <3>2, <4>1
      <4>2. CASE u # v
        BY <3>1, <3>3, <3>4, <4>2
      <4> QED
        BY <4>1, <4>2
    <3> QED
      BY <3>5 DEF Shown
  <2> QED
    BY <2>1, <2>2, <2>3, <2>5, OwnedThread
<1>2. CASE ReadStart(c) \/ ReadGot(c) \/ ReadEnds(c)
  <2>1. PICK r : ReadResult(c, r)
    BY <1>2, ReadEffect
  <2>2. thr[c].pc \in {"next", "read"} /\ UNCHANGED <<open, slot, acc, ui, shown>>
    BY <1>2, ReadEffect DEF server
  <2>3. thr[c].fd = NoFd \/ open[thr[c].fd] \in {c, None}
    BY <2>2 DEF Owned, OwnNumber
  <2>4. \A d \in Conns : thr'[d] = IF d = c THEN r ELSE thr[d]
    BY <2>1, SetsAt DEF ReadResult
  <2>5. Shown'
    <3>1. \A d \in Conns, u \in Slots : Serves(d, u)' <=> Serves(d, u)
      BY <2>1, <2>2, <2>4 DEF Serves, ReadResult
    <3> QED
      BY <2>2, <3>1 DEF Owned, Shown
  <2>6. /\ Sets(c, r) /\ thr[c].pc \in Busy /\ r.w = thr[c].w /\ r.pc # "reset"
        /\ r.pc \in {"next", "read"} => r.fd = NoFd \/ open[r.fd] \in {c, None}
        /\ r.pc = "read" => r.on = c
    BY <2>1, <2>2, <2>3 DEF ReadResult, Busy
  <2> QED
    BY <2>2, <2>5, <2>6, OwnedThread
<1>3. CASE EndNotice(c)
  <2>1. PICK r : Sets(c, r) /\ r.pc = "done"
    BY <1>3, EndEffect
  <2> DEFINE w == thr[c].w
  <2>2. /\ thr[c].pc = "bye" /\ thr[c].pc \in Busy /\ UNCHANGED <<open, slot, acc, ui>>
        /\ shown' = [shown EXCEPT ![w] = FALSE] /\ w \in Slots
    BY <1>3 DEF EndNotice, server, Busy, Types, ThrTypes
  <2>4. \A d \in Conns : thr'[d] = IF d = c THEN r ELSE thr[d]
    BY <2>1, SetsAt
  <2>5. Shown'
    <3>1. \A u \in Slots : shown'[u] = IF u = w THEN FALSE ELSE shown[u]
      BY <2>2 DEF Types, UiTypes
    <3>2. \A d \in Conns \ {c} : ~Serves(d, w)
      BY <2>2 DEF Owned, OneThread, Serves, Busy
    <3>3. \A u \in Slots, d \in Conns : Serves(d, u)' <=> d # c /\ Serves(d, u)
      BY <2>1, <2>4 DEF Serves
    <3>4. \A u \in Slots \ {w} : ~Serves(c, u)
      BY DEF Serves
    <3> HIDE DEF w
    <3> QED
      BY <3>1, <3>2, <3>3, <3>4 DEF Owned, Shown
  <2> QED
    BY <2>1, <2>2, <2>5, OwnedThread DEF Busy
<1> QED
  BY <1>1, <1>2, <1>3

(* Every step that hits no window keeps the ownership.                     *)
LEMMA OwnedStep ==
  ASSUME Types, Fresh, OwnedUntil, [Next]_vars
  PROVE  OwnedUntil'
<1> SUFFICES ASSUME Clear' PROVE Owned'
  BY DEF OwnedUntil
<1>o. Owned
  BY CausesStay DEF OwnedUntil, Clear
<1>s. Slots = {1, 2}
  BY DEF Slots
<1> USE DEF net, server
<1>1. ASSUME NEW c \in Clients, ClientConnect(c) \/ ClientGone(c)
      PROVE  Owned'
  BY <1>1, <1>o, OwnedSame DEF ClientConnect, ClientGone
<1>2. CASE Bind \/ SetLive \/ Top \/ AcceptCall
  <2>1. acc'.fd = acc.fd /\ acc'.pc \notin Holding \cup {"reset"}
        /\ UNCHANGED <<open, slot, thr, ui, shown>>
    BY <1>2 DEF Bind, SetLive, Top, AcceptCall, Types, AccTypes, Holding
  <2>2. acc.fd = NoFd
    BY <1>2, <1>o DEF Bind, SetLive, Top, AcceptCall, Owned, InHand, Waiting
  <2> QED
    BY <1>o, <2>1, <2>2, OwnedSame
<1>3. CASE Accept
  BY <1>3, <1>o, OwnedAccept
<1>4. CASE TakeSlot
  <2>1. Min(FreeSlots) \in FreeSlots
    BY <1>4, MinOfNats DEF FreeSlots, Slots, TakeSlot
  <2>2. Min(FreeSlots) \in Slots /\ slot[Min(FreeSlots)] = NoFd
    BY <2>1, <1>s DEF FreeSlots
  <2> QED
    BY <1>4, <1>o, <2>2, OwnedOccupy DEF TakeSlot, Holding
<1>5. CASE ReplaceTake
  <2>1. slot[1] = NoFd
    BY <1>5, <1>o DEF ReplaceTake, Owned, InHand
  <2> QED
    BY <1>5, <1>o, <1>s, <2>1, OwnedOccupy DEF ReplaceTake, Holding
<1>6. CASE ReplaceClose
  <2>1. /\ acc'.fd = acc.fd /\ acc'.conn = acc.conn /\ acc'.pc = "replaced" /\ acc'.w = 1
        /\ acc.pc = "assign" /\ 1 \in Slots /\ slot[1] # NoFd
    BY <1>6, <1>s DEF ReplaceClose, FreeSlots, Types, AccTypes, Ending
  <2> QED
    BY <1>6, <1>o, <2>1, OwnedAccClose DEF ReplaceClose, Holding, Waiting
<1>r. CASE ReplaceReset
  <2>1. /\ acc'.fd = acc.fd /\ acc'.conn = acc.conn /\ acc'.pc = "sleep" /\ acc.w = 1
        /\ acc.pc = "replaced"
    BY <1>r DEF ReplaceReset, Types, AccTypes, Ending
  <2> QED
    BY <1>r, <1>o, <2>1, OwnedAccReset DEF ReplaceReset, Holding, Waiting, AccResets
<1>7. CASE CloseAllNumber
  <2>1. /\ acc'.fd = acc.fd /\ acc'.conn = acc.conn /\ acc'.pc \in {"close", "reset", "closeSock"}
        /\ acc.w \in Slots /\ (acc'.pc = "reset" => acc'.w = acc.w /\ slot[acc.w] # NoFd)
    BY <1>7 DEF CloseAllNumber, SlotDone, Types, AccTypes
  <2> QED
    BY <1>7, <1>o, <2>1, OwnedAccClose DEF CloseAllNumber, Holding, Waiting, AccResets
<1>t. CASE CloseAllReset
  <2>1. /\ acc'.fd = acc.fd /\ acc'.conn = acc.conn /\ acc'.pc \in {"close", "closeSock"}
        /\ acc.pc = "reset"
    BY <1>t DEF CloseAllReset, SlotDone, Types, AccTypes
  <2> QED
    BY <1>t, <1>o, <2>1, OwnedAccReset DEF CloseAllReset, Holding, Waiting, AccResets
<1>u. CASE CloseAllSock
  <2>1. acc'.fd = acc.fd /\ acc'.pc = "returned"
    BY <1>u DEF CloseAllSock, Types, AccTypes
  <2> QED
    BY <1>u, <1>o, <2>1, OwnedSame DEF CloseAllSock, Holding, Waiting
<1>8. ASSUME NEW c \in Conns, Receive(c)
      PROVE  Owned'
  BY <1>8, <1>o, OwnedReceive, OwnedEndClose, OwnedEndReset DEF Receive
<1>9. CASE UiClose \/ UiCloseNumber \/ UiReset
  BY <1>9, <1>o, OwnedUi
<1>10. CASE Stop
  BY <1>10, <1>o, OwnedSame DEF Stop, StopFlag, StopSocket, StopConnect, StopRefused, StopClose
<1>11. CASE UNCHANGED vars
  BY <1>11, <1>o, OwnedSame DEF vars
<1> QED
  BY <1>1, <1>2, <1>3, <1>4, <1>5, <1>6, <1>r, <1>7, <1>t, <1>u, <1>8, <1>9, <1>10, <1>11
     DEF Next, AcceptLoop

IInv == Types /\ Fresh /\ Ends /\ OwnedUntil

LEMMA InitIInv == Init => IInv
<1> SUFFICES ASSUME Init PROVE IInv
  OBVIOUS
<1>0. None \notin Conns /\ UiCalls \in Nat /\ NoFd \notin Fds
  BY ConnsAssumption, BoundsAssumption, NoFdIsNone DEF Conns
<1>i. Idle \in ThrRec /\ Idle.pc = "none"
  BY IdleRecord DEF Idle
<1>1. ThrTypes
  BY <1>i DEF Init, ThrTypes, Busy
<1>2. NetTypes /\ FdTypes /\ AccTypes /\ UiTypes
  BY <1>0 DEF Init, NetTypes, FdTypes, AccTypes, UiTypes, Waiting, Slots
<1>3. Fresh
  BY <1>0, <1>i DEF Init, Fresh, Conns, Holding
<1>6. Ends
  BY DEF Init, Ends, Slots, Ending
<1>4. SlotsApart /\ InHand /\ OwnSlot /\ OwnNumber /\ OneThread /\ Held
  BY <1>0, <1>i DEF Init, SlotsApart, InHand, OwnSlot, OwnNumber, OneThread, Held, Busy,
     Holding
<1>5. ResetsClosed /\ Shown
  BY <1>i DEF Init, ResetsClosed, Shown, Serves, AccResets
<1> QED
  BY <1>1, <1>2, <1>3, <1>4, <1>5, <1>6 DEF IInv, Types, OwnedUntil, Owned

LEMMA Inductive == IInv /\ [Next]_vars => IInv'
BY TypesStep, FreshStep, EndsStep, OwnedStep DEF IInv

(* The variables of the accept loop, the threads and the callers keep      *)
(* their types; in particular accept() always finds a descriptor.          *)
THEOREM TypeCorrect == Spec => []Types
<1>1. IInv => Types
  BY DEF IInv
<1> QED
  BY <1>1, InitIInv, Inductive, PTL DEF Spec

(* The picture of one device never reaches the window of the other, for    *)
(* any number of devices: until a window is hit a blocked read is on the   *)
(* connection that its thread was created for.                             *)
THEOREM ReadsOwnSafe == Spec => []ReadsOwn
<1>1. IInv => ReadsOwn
  BY DEF IInv, OwnedUntil, Owned, OwnNumber, ReadsOwn
<1> QED
  BY <1>1, InitIInv, Inductive, PTL DEF Spec

(* No order of replacing, closing and disconnecting loses a descriptor;    *)
(* once server_accept() has returned the only one left open is that of the *)
(* connection the stop made it accept.                                     *)
THEOREM LastSafe == Spec => []LosesOnlyLast
<1>1. IInv => LosesOnlyLast
  <2> SUFFICES ASSUME IInv, Clear, NEW f \in Fds, open[f] # None
               PROVE  \/ acc.pc \in {"assign", "replaced", "sleep"} /\ f = acc.fd
                      \/ acc.pc # "returned" /\ \E w \in Slots : slot[w] = f
                      \/ acc.pc \in {"close", "reset", "closeSock", "returned"} /\ ~live /\ f = acc.fd
    BY DEF LosesOnlyLast
  <2>1. f # NoFd /\ (f = acc.fd \/ \E w \in Slots : slot[w] = f)
    BY NoFdIsNone DEF IInv, OwnedUntil, Owned, Held
  <2>2. CASE f = acc.fd
    <3>1. acc.pc \in Holding \/ acc.pc \in Ending
      BY <2>1, <2>2 DEF IInv, OwnedUntil, Owned, InHand, Types, AccTypes
    <3> QED
      BY <2>1, <2>2, <3>1 DEF IInv, Ends, Holding, Ending
  <2>3. CASE \E w \in Slots : slot[w] = f
    BY <2>1, <2>3 DEF IInv, Ends, Slots
  <2> QED
    BY <2>1, <2>2, <2>3
<1> QED
  BY <1>1, InitIInv, Inductive, PTL DEF Spec

(* Java shows the window of a slot exactly while a thread serves it.       *)
THEOREM WindowSafe == Spec => []WindowServed
<1>1. IInv => WindowServed
  BY DEF IInv, OwnedUntil, Owned, Shown, WindowServed
<1> QED
  BY <1>1, InitIInv, Inductive, PTL DEF Spec

(* The close at the end of a thread closes the thread's own connection or  *)
(* none.                                                                   *)
THEOREM ClosesOwnSafe == Spec => ClosesOwn
<1>1. ASSUME IInv, [Next]_vars, Clear', NEW c \in Conns, NEW f \in Fds,
             thr[c].pc = "end", thr'[c].pc \in {"reset", "bye"}, open[f] # open'[f]
      PROVE  open[f] = c
  <2>t. Types /\ Owned
    BY <1>1, CausesStay DEF IInv, OwnedUntil, Clear
  <2>1. ASSUME NEW d \in Conns, NEW r, Sets(d, r), d # c PROVE FALSE
    BY <1>1, <2>1, <2>t, SetsAt
  <2>2. thr' # thr
    BY <1>1
  <2>3. ~ \E d \in Conns : d # c /\ Receive(d)
    BY <2>1, <2>t, BeginEffect, ReadEffect, EndEffect DEF Receive, ReadResult
  <2>4. ~TakeSlot /\ ~ReplaceTake
    <3>1. ASSUME NEW w \in Slots, Occupy(w), acc.pc \in Holding PROVE FALSE
      <4>1. acc.conn \in Conns /\ acc.conn # c
        BY <1>1, <3>1 DEF IInv, Fresh
      <4> QED
        BY <2>1, <3>1, <4>1, OccupyEffect
    <3>2. 1 \in Slots
      BY DEF Slots
    <3>3. TakeSlot => Min(FreeSlots) \in Slots
      BY MinOfNats DEF FreeSlots, Slots, TakeSlot
    <3> QED
      BY <3>1, <3>2, <3>3 DEF TakeSlot, ReplaceTake, Holding
  <2>5. EndClose(c)
    <3>1. Receive(c)
      BY <1>1, <2>2, <2>3, <2>4 DEF Next, AcceptLoop, ClientConnect, ClientGone, Bind, SetLive, Top,
         AcceptCall, Accept, ReplaceClose, ReplaceReset, CloseAllNumber, CloseAllReset, CloseAllSock,
         UiClose, UiCloseNumber, UiReset, Stop, StopFlag, StopSocket, StopConnect, StopRefused,
         StopClose, vars
    <3> QED
      BY <1>1, <3>1 DEF Receive, Begin, ReadStart, ReadGot, ReadEnds, EndReset, EndNotice
  <2>6. thr[c].w \in Slots
    BY <1>1, <2>t DEF Types, ThrTypes, Busy
  <2>7. slot[thr[c].w] # NoFd /\ f = slot[thr[c].w] /\ open'[f] = None
    BY <1>1, <2>5, <2>6, <2>t, Closes DEF EndClose
  <2> QED
    BY <1>1, <2>7, <2>t DEF Owned, OwnSlot, Busy
<1>2. IInv /\ [Next]_vars =>
        [Clear' => \A c \in Conns, f \in Fds :
           thr[c].pc = "end" /\ thr'[c].pc \in {"reset", "bye"} /\ open[f] # open'[f]
             => open[f] = c]_vars
  BY <1>1
<1> QED
  BY <1>2, InitIInv, Inductive, PTL DEF Spec, ClosesOwn
=============================================================================
