---------------------------- MODULE NativeServer ----------------------------
(***************************************************************************)
(* The native TCP receiver of the screen cast (MediaServer.cpp, build with *)
(* USE_TRANSMISSION_FOR_JNI and USE_TCP): the accept loop, the one or two  *)
(* slots for clients, one receive thread per connection, the close calls   *)
(* of the Java threads and the stop of the server.  What a receive thread  *)
(* does with the data is NativeDecoder's subject.                          *)
(*                                                                         *)
(* Threads share client_sock_fd1 and client_sock_fd2 without a lock, a     *)
(* receive thread is given the ADDRESS of a local of the accept loop, and  *)
(* it works on a copy of a descriptor NUMBER that the kernel may reuse: a  *)
(* read that is blocked keeps its connection, the next read goes by the    *)
(* number.  `causes' remembers which of the windows this opens has been   *)
(* hit: "arg", the accept loop changed its local before the thread read    *)
(* it; "overrun", a slot is given away while its thread still runs;        *)
(* "reuse", a number is given away while somebody goes by it; "reclose",   *)
(* a second thread closes a number between another's close and reset;      *)
(* "lost", a stop came before the server set itself live; "unwoken", the   *)
(* connection of a stop failed and accept() still waits.  The properties   *)
(* say that nothing else goes wrong until one of them is hit.              *)
(***************************************************************************)
EXTENDS Integers, Sequences, FiniteSetsExt

CONSTANTS Clients,      \* the casting devices, each connects once
          Self,         \* the connection server_close() makes to wake accept()
          None,         \* no connection
          UiCalls,      \* bound: calls of close_client() and close_all_clients()
          SetUpReads    \* 3 in the code: device info, first and second sps_pps

ASSUME ConnsAssumption ==
  IsFiniteSet(Clients) /\ Self \notin Clients /\ None \notin Clients \cup {Self}
ASSUME BoundsAssumption == UiCalls \in Nat /\ SetUpReads \in Nat

Conns == Clients \cup {Self}
Slots == {1, 2}                     \* client_sock_fd1, client_sock_fd2
NoFd  == -1
Fds   == 1 .. (Cardinality(Conns) + 1)
BacklogMax == 2                     \* listen(.., 1): more than that must wait

VARIABLES
  onlyOne,      \* one device, or a TV with two (set_ip)
  client,       \* the device: "idle", "on", "gone"
  backlog,      \* connections the kernel has completed, accept() has not seen
  open,         \* kernel: the connection behind a descriptor
  slot,         \* client_sock_fd1 and client_sock_fd2
  which,        \* which_client, the local whose address the threads get
  acc,          \* the accept loop: place, accepted descriptor, its connection,
                \* and the slot that server_close_all() has come to
  live,         \* server_is_live
  sock,         \* server_sock_fd: "none", "listen", "other"
  listening,    \* kernel: the listening socket exists
  thr,          \* the receive threads
  ui,           \* the Java thread: slots to close, and calls still to come
  stop,         \* server_close(): "idle", "socket", "connect", "connected", "done"
  shown,        \* Java: the window of the slot is open
  causes        \* the windows that have been hit

net    == <<client, backlog>>
server == <<acc, which, live, sock, listening>>
vars   == <<onlyOne, net, open, slot, server, thr, ui, stop, shown, causes>>

Idle == [pc |-> "none", w |-> 0, fd |-> NoFd, on |-> None, reads |-> 0]

Init ==
  /\ onlyOne \in BOOLEAN
  /\ client = [c \in Conns |-> "idle"]
  /\ backlog = <<>>
  /\ open = [f \in Fds |-> None]
  /\ slot = [w \in Slots |-> NoFd]
  /\ which = 0
  /\ acc = [pc |-> "bind", fd |-> NoFd, conn |-> None, w |-> 1]
  /\ live = TRUE
  /\ sock = "none"
  /\ listening = FALSE
  /\ thr = [c \in Conns |-> Idle]
  /\ ui = [todo |-> <<>>, pc |-> "close", left |-> UiCalls]
  /\ stop = "idle"
  /\ shown = [w \in Slots |-> FALSE]
  /\ causes = {}
-----------------------------------------------------------------------------
(* The devices and the network. *)

ClientConnect(c) ==
  /\ listening /\ client[c] = "idle" /\ Len(backlog) < BacklogMax
  /\ client' = [client EXCEPT ![c] = "on"]
  /\ backlog' = Append(backlog, c)
  /\ UNCHANGED <<onlyOne, open, slot, server, thr, ui, stop, shown, causes>>

ClientGone(c) ==
  /\ client[c] = "on"
  /\ client' = [client EXCEPT ![c] = "gone"]
  /\ UNCHANGED <<onlyOne, backlog, open, slot, server, thr, ui, stop, shown, causes>>
-----------------------------------------------------------------------------
(* close_client_sock() closes the number it finds and then resets the      *)
(* variable: two threads may be inside at once.                            *)

Resetting(w) ==
  \/ \E c \in Conns : thr[c].pc = "reset" /\ thr[c].w = w
  \/ ui.pc = "reset" /\ Head(ui.todo) = w
  \/ acc.pc \in {"replaced", "reset"} /\ acc.w = w

CloseNumber(w) ==
  /\ open' = IF slot[w] = NoFd THEN open ELSE [open EXCEPT ![slot[w]] = None]
  /\ causes' = IF slot[w] # NoFd /\ Resetting(w) THEN causes \cup {"reclose"} ELSE causes

(* close_server_sock(): who waits in the backlog is reset, or the socket of *)
(* the stop is closed.                                                     *)
CloseServerSock ==
  /\ sock' = "none"
  /\ IF sock = "listen"
     THEN /\ listening' = FALSE
          /\ backlog' = <<>>
          /\ client' = [c \in Conns |-> IF \E i \in DOMAIN backlog : backlog[i] = c
                                       THEN "gone" ELSE client[c]]
     ELSE /\ client' = IF sock = "other" /\ stop = "connected"
                       THEN [client EXCEPT ![Self] = "gone"] ELSE client
          /\ UNCHANGED <<listening, backlog>>

Serves(c, w) == thr[c].w = w /\ thr[c].pc \in {"next", "read", "end", "reset", "bye"}

(* The connection gets slot w, whose former thread should be gone, and a    *)
(* thread: pthread_create(.., &which_client).  thr.w is the slot it is for. *)
Occupy(w) ==
  /\ slot' = [slot EXCEPT ![w] = acc.fd]
  /\ which' = w
  /\ thr' = [thr EXCEPT ![acc.conn] = [Idle EXCEPT !.pc = "created", !.w = w]]
  /\ acc' = [pc |-> "top", fd |-> NoFd, conn |-> None, w |-> 1]
  /\ causes' = IF \E c \in Conns : Serves(c, w) \/ (thr[c].pc = "created" /\ thr[c].w = w)
               THEN causes \cup {"overrun"} ELSE causes
-----------------------------------------------------------------------------
(* server_accept() *)

Bind ==
  /\ acc.pc = "bind"
  /\ \/ /\ sock' = "listen" /\ listening' = TRUE        \* server_bind() succeeds
        /\ acc' = [acc EXCEPT !.pc = "live"]
     \/ /\ UNCHANGED <<sock, listening>>                \* it fails: return
        /\ acc' = [acc EXCEPT !.pc = "returned"]
  /\ UNCHANGED <<onlyOne, net, open, slot, which, live, thr, ui, stop, shown, causes>>

(* A stop that came before is overwritten. *)
SetLive ==
  /\ acc.pc = "live"
  /\ live' = TRUE
  /\ acc' = [acc EXCEPT !.pc = "top"]
  /\ causes' = IF live THEN causes ELSE causes \cup {"lost"}
  /\ UNCHANGED <<onlyOne, net, open, slot, which, sock, listening, thr, ui, stop, shown>>

Top ==
  /\ acc.pc = "top"
  /\ acc' = [acc EXCEPT !.pc = IF live THEN "call" ELSE "close"]
  /\ UNCHANGED <<onlyOne, net, open, slot, which, live, sock, listening, thr, ui, stop, shown, causes>>

(* accept() keeps the socket it was entered with, and fails on another. *)
AcceptCall ==
  /\ acc.pc = "call"
  /\ acc' = [acc EXCEPT !.pc = IF sock = "listen" THEN "accept" ELSE "top"]
  /\ UNCHANGED <<onlyOne, net, open, slot, which, live, sock, listening, thr, ui, stop, shown, causes>>

(* A number that was closed while somebody still goes by it. *)
InUse(f) ==
  \/ \E w \in Slots : slot[w] = f
  \/ \E c \in Conns : thr[c].fd = f /\ thr[c].pc \in {"next", "read"}

(* Once the server is to stop, break: nobody closes what was accepted. *)
Accept ==
  /\ acc.pc = "accept" /\ backlog # <<>>
  /\ LET f == Min({g \in Fds : open[g] = None})
     IN  /\ open' = [open EXCEPT ![f] = Head(backlog)]
         /\ acc' = [pc |-> IF live THEN "assign" ELSE "close",
                    fd |-> f, conn |-> Head(backlog), w |-> 1]
         /\ causes' = IF InUse(f) THEN causes \cup {"reuse"} ELSE causes
  /\ which' = IF live THEN 0 ELSE which
  /\ backlog' = Tail(backlog)
  /\ UNCHANGED <<onlyOne, client, slot, live, sock, listening, thr, ui, stop, shown>>

FreeSlots == {w \in (IF onlyOne THEN {1} ELSE Slots) : slot[w] = NoFd}

(* A free slot is taken at once. *)
TakeSlot ==
  /\ acc.pc = "assign" /\ FreeSlots # {}
  /\ Occupy(Min(FreeSlots))
  /\ UNCHANGED <<onlyOne, net, open, live, sock, listening, ui, stop, shown>>

(* Mutant: the replaced socket is forgotten instead of closed. *)
ReplaceForget ==
  /\ acc.pc = "assign" /\ FreeSlots = {}
  /\ slot' = [slot EXCEPT ![1] = NoFd]
  /\ acc' = [acc EXCEPT !.pc = "sleep"]
  /\ UNCHANGED <<onlyOne, net, open, which, live, sock, listening, thr, ui, stop, shown, causes>>

(* Otherwise slot 1 is replaced (which_replace is always 1): its socket is *)
(* closed and reset, and the new one put in after sleep(3).                *)
ReplaceClose ==
  /\ acc.pc = "assign" /\ FreeSlots = {}
  /\ CloseNumber(1)
  /\ acc' = [acc EXCEPT !.pc = "replaced"]
  /\ UNCHANGED <<onlyOne, net, slot, which, live, sock, listening, thr, ui, stop, shown>>

ReplaceReset ==
  /\ acc.pc = "replaced"
  /\ slot' = [slot EXCEPT ![1] = NoFd]
  /\ acc' = [acc EXCEPT !.pc = "sleep"]
  /\ UNCHANGED <<onlyOne, net, open, which, live, sock, listening, thr, ui, stop, shown, causes>>

ReplaceTake ==
  /\ acc.pc = "sleep"
  /\ Occupy(1)
  /\ UNCHANGED <<onlyOne, net, open, live, sock, listening, ui, stop, shown>>

(* After the loop: sleep(3) and server_close_all(), which closes and resets *)
(* one slot after the other and then what server_sock_fd holds.            *)
SlotDone ==
  acc' = IF acc.w = 1 THEN [acc EXCEPT !.pc = "close", !.w = 2] ELSE [acc EXCEPT !.pc = "closeSock"]

CloseAllNumber ==
  /\ acc.pc = "close"
  /\ CloseNumber(acc.w)
  /\ IF slot[acc.w] = NoFd THEN SlotDone ELSE acc' = [acc EXCEPT !.pc = "reset"]
  /\ UNCHANGED <<onlyOne, net, slot, which, live, sock, listening, thr, ui, stop, shown>>

CloseAllReset ==
  /\ acc.pc = "reset"
  /\ slot' = [slot EXCEPT ![acc.w] = NoFd]
  /\ SlotDone
  /\ UNCHANGED <<onlyOne, net, open, which, live, sock, listening, thr, ui, stop, shown, causes>>

CloseAllSock ==
  /\ acc.pc = "closeSock"
  /\ CloseServerSock
  /\ acc' = [acc EXCEPT !.pc = "returned"]
  /\ UNCHANGED <<onlyOne, open, slot, which, live, thr, ui, stop, shown, causes>>
-----------------------------------------------------------------------------
(* receive_data() *)

(* Mutant: both cases copy client_sock_fd1. *)
BeginFirst(c) ==
  /\ thr[c].pc = "created" /\ which = thr[c].w
  /\ thr' = [thr EXCEPT ![c] = [Idle EXCEPT !.pc = "next", !.w = which, !.fd = slot[1]]]
  /\ shown' = [shown EXCEPT ![which] = TRUE]
  /\ UNCHANGED <<onlyOne, net, open, slot, server, ui, stop, causes>>

(* Reads *argc now, whatever the accept loop has made of it since; once    *)
(* server_accept() has returned, anything may be there.  The slot's        *)
(* descriptor is copied and Java opens the window.                         *)
Begin(c) ==
  /\ thr[c].pc = "created"
  /\ \E v \in IF acc.pc = "returned" THEN 0 .. 2 ELSE {which} :
       /\ causes' = IF v # thr[c].w THEN causes \cup {"arg"} ELSE causes
       /\ IF v \in Slots
          THEN /\ thr' = [thr EXCEPT ![c] = [Idle EXCEPT !.pc = "next", !.w = v, !.fd = slot[v]]]
               /\ shown' = [shown EXCEPT ![v] = TRUE]
          ELSE /\ thr' = [thr EXCEPT ![c] = [Idle EXCEPT !.pc = "done"]]
               /\ UNCHANGED shown
  /\ UNCHANGED <<onlyOne, net, open, slot, server, ui, stop>>

(* Mutant: "continue" where the loop has "break". *)
FailGoesOn(c) == thr' = [thr EXCEPT ![c].pc = "next", ![c].on = None]

(* A failing read ends the loop; during the set-up the thread goes on to   *)
(* the next thing it wants to read.                                        *)
Fail(c) ==
  IF thr[c].reads < SetUpReads
  THEN thr' = [thr EXCEPT ![c].pc = "next", ![c].on = None, ![c].reads = @ + 1]
  ELSE thr' = [thr EXCEPT ![c] = [Idle EXCEPT !.pc = "end", !.w = thr[c].w]]

ReadStart(c) ==
  /\ thr[c].pc = "next"
  /\ IF thr[c].fd # NoFd /\ open[thr[c].fd] # None
     THEN thr' = [thr EXCEPT ![c].pc = "read", ![c].on = open[thr[c].fd]]
     ELSE Fail(c)
  /\ UNCHANGED <<onlyOne, net, open, slot, server, ui, stop, shown, causes>>

(* What was sent can be read, after the end of the connection too. *)
ReadGot(c) ==
  /\ thr[c].pc = "read"
  /\ thr' = [thr EXCEPT ![c].pc = "next", ![c].on = None,
                        ![c].reads = IF @ < SetUpReads THEN @ + 1 ELSE @]
  /\ UNCHANGED <<onlyOne, net, open, slot, server, ui, stop, shown, causes>>

ReadEnds(c) ==
  /\ thr[c].pc = "read" /\ client[thr[c].on] = "gone"
  /\ Fail(c)
  /\ UNCHANGED <<onlyOne, net, open, slot, server, ui, stop, shown, causes>>

(* Mutant: both cases close client_sock_fd1. *)
EndCloseFirst(c) ==
  /\ thr[c].pc = "end"
  /\ CloseNumber(1)
  /\ thr' = [thr EXCEPT ![c].pc = IF slot[1] = NoFd THEN "bye" ELSE "reset"]
  /\ UNCHANGED <<onlyOne, net, slot, server, ui, stop, shown>>

(* The end: close_client_sock() of the slot, disconnect() to Java. *)
EndClose(c) ==
  /\ thr[c].pc = "end"
  /\ CloseNumber(thr[c].w)
  /\ thr' = [thr EXCEPT ![c].pc = IF slot[thr[c].w] = NoFd THEN "bye" ELSE "reset"]
  /\ UNCHANGED <<onlyOne, net, slot, server, ui, stop, shown>>

EndReset(c) ==
  /\ thr[c].pc = "reset"
  /\ slot' = [slot EXCEPT ![thr[c].w] = NoFd]
  /\ thr' = [thr EXCEPT ![c].pc = "bye"]
  /\ UNCHANGED <<onlyOne, net, open, server, ui, stop, shown, causes>>

(* Mutant: Java is not told. *)
EndSilently(c) ==
  /\ thr[c].pc = "bye"
  /\ thr' = [thr EXCEPT ![c] = [Idle EXCEPT !.pc = "done"]]
  /\ UNCHANGED <<onlyOne, net, open, slot, server, ui, stop, shown, causes>>

EndNotice(c) ==
  /\ thr[c].pc = "bye"
  /\ shown' = [shown EXCEPT ![thr[c].w] = FALSE]
  /\ thr' = [thr EXCEPT ![c] = [Idle EXCEPT !.pc = "done"]]
  /\ UNCHANGED <<onlyOne, net, open, slot, server, ui, stop, causes>>
-----------------------------------------------------------------------------
(* The Java threads. *)

(* close_client(w) and close_all_clients().  What the latter also does, to *)
(* end the decoders, is NativeDecoder's UiStop.                            *)
UiClose ==
  /\ ui.todo = <<>> /\ ui.left > 0
  /\ \E ws \in {<<1>>, <<2>>, <<1, 2>>} :
       ui' = [todo |-> ws, pc |-> "close", left |-> ui.left - 1]
  /\ UNCHANGED <<onlyOne, net, open, slot, server, thr, stop, shown, causes>>

UiCloseNumber ==
  /\ ui.todo # <<>> /\ ui.pc = "close"
  /\ CloseNumber(Head(ui.todo))
  /\ ui' = IF slot[Head(ui.todo)] = NoFd THEN [ui EXCEPT !.todo = Tail(@)]
           ELSE [ui EXCEPT !.pc = "reset"]
  /\ UNCHANGED <<onlyOne, net, slot, server, thr, stop, shown>>

UiReset ==
  /\ ui.pc = "reset"
  /\ slot' = [slot EXCEPT ![Head(ui.todo)] = NoFd]
  /\ ui' = [ui EXCEPT !.todo = Tail(@), !.pc = "close"]
  /\ UNCHANGED <<onlyOne, net, open, server, thr, stop, shown, causes>>

(* Mutant: the flag only, accept() is not woken. *)
StopFlagOnly ==
  /\ stop = "idle"
  /\ stop' = "done"
  /\ live' = FALSE
  /\ UNCHANGED <<onlyOne, net, open, slot, acc, which, sock, listening, thr, ui, shown, causes>>

(* server_close(): the flag, and client_connect() to wake accept().  That   *)
(* puts its own socket into server_sock_fd and closes it again, unless the *)
(* server has become live: then it goes on as a casting device would.      *)
StopFlag ==
  /\ stop = "idle"
  /\ stop' = IF live THEN "socket" ELSE "done"
  /\ live' = FALSE
  /\ UNCHANGED <<onlyOne, net, open, slot, acc, which, sock, listening, thr, ui, shown, causes>>

(* Nobody is in the backlog and accept() waits: only a connection wakes it. *)
Unwoken == IF acc.pc = "accept" /\ backlog = <<>> THEN causes \cup {"unwoken"} ELSE causes

StopSocket ==
  /\ stop = "socket"
  /\ \/ sock' = "other" /\ stop' = "connect" /\ UNCHANGED causes
     \/ sock' = "none" /\ stop' = "done" /\ causes' = Unwoken       \* socket() fails
  /\ UNCHANGED <<onlyOne, net, open, slot, acc, which, live, listening, thr, ui, shown>>

StopConnect ==
  /\ stop = "connect" /\ listening /\ sock = "other" /\ Len(backlog) < BacklogMax
  /\ backlog' = Append(backlog, Self)
  /\ client' = [client EXCEPT ![Self] = "on"]
  /\ stop' = "connected"
  /\ UNCHANGED <<onlyOne, open, slot, server, thr, ui, shown, causes>>

(* connect() fails: nobody listens, the wrong IP was set, the backlog stays *)
(* full, or the accept thread has stored its listening socket meanwhile.   *)
(* Whatever server_sock_fd holds is closed.                                *)
StopRefused ==
  /\ stop = "connect"
  /\ CloseServerSock
  /\ stop' = "done"
  /\ causes' = Unwoken
  /\ UNCHANGED <<onlyOne, open, slot, acc, which, live, thr, ui, shown>>

StopClose ==
  /\ stop = "connected"
  /\ IF live THEN UNCHANGED <<sock, listening, net>> ELSE CloseServerSock
  /\ stop' = "done"
  /\ UNCHANGED <<onlyOne, open, slot, acc, which, live, thr, ui, shown, causes>>
-----------------------------------------------------------------------------
AcceptLoop == Bind \/ SetLive \/ Top \/ AcceptCall \/ Accept \/ TakeSlot
              \/ ReplaceClose \/ ReplaceReset \/ ReplaceTake
              \/ CloseAllNumber \/ CloseAllReset \/ CloseAllSock
Receive(c) == Begin(c) \/ ReadStart(c) \/ ReadGot(c) \/ ReadEnds(c)
              \/ EndClose(c) \/ EndReset(c) \/ EndNotice(c)
Stop == StopFlag \/ StopSocket \/ StopConnect \/ StopRefused \/ StopClose

Next ==
  \/ \E c \in Clients : ClientConnect(c) \/ ClientGone(c)
  \/ AcceptLoop
  \/ \E c \in Conns : Receive(c)
  \/ UiClose \/ UiCloseNumber \/ UiReset
  \/ Stop

(* The threads run on; StopFlag is up to the user, a device may stay.  The  *)
(* connect() of a stop succeeds or fails, and accept() returns only when   *)
(* there is a connection.  Of what a device sent before it left only so    *)
(* much can be read.                                                       *)
Fairness ==
  /\ WF_vars(AcceptLoop) /\ WF_vars(StopSocket \/ StopConnect \/ StopRefused \/ StopClose)
  /\ \A c \in Clients :
       /\ WF_vars(Begin(c) \/ ReadStart(c) \/ EndClose(c) \/ EndReset(c) \/ EndNotice(c))
       /\ SF_vars(ReadEnds(c))

Spec == Init /\ [][Next]_vars /\ Fairness
-----------------------------------------------------------------------------
(* Properties. *)

(* The variables of server_accept() and receive_data() have their types. *)
TypeOK ==
  /\ client \in [Conns -> {"idle", "on", "gone"}]
  /\ {backlog[i] : i \in DOMAIN backlog} \subseteq Conns /\ Len(backlog) <= BacklogMax
  /\ open \in [Fds -> Conns \cup {None}]
  /\ slot \in [Slots -> Fds \cup {NoFd}]
  /\ which \in 0 .. 2
  /\ acc.pc \in {"bind", "live", "top", "call", "accept", "assign", "replaced", "sleep",
                 "close", "reset", "closeSock", "returned"}
  /\ sock \in {"none", "listen", "other"}
  /\ shown \in [Slots -> BOOLEAN]
  /\ causes \subseteq {"arg", "overrun", "reclose", "reuse", "lost", "unwoken"}

(* No window of the descriptors has been hit; an accept() that nobody has  *)
(* woken gives nothing away.                                               *)
Clear == causes \subseteq {"unwoken"}

(* Until one of the windows is hit, a receive thread blocked in read() *)
(* waits on the connection it was created for: the picture of one device   *)
(* never reaches the window of the other.                                  *)
ReadsOwn == Clear => \A c \in Conns : thr[c].pc = "read" => thr[c].on = c

(* Until a window is hit, replacing, closing and disconnecting, in whatever *)
(* order the threads do them, lose no descriptor: what accept() made is in *)
(* a slot or in the accept loop's hand, and when server_accept() returns   *)
(* both slots have been closed.  The one descriptor that stays open for    *)
(* good is the last: the connection that ended the wait of a stop, which   *)
(* the break after accept() forgets.                                       *)
LosesOnlyLast ==
  Clear => \A f \in Fds : open[f] # None =>
    \/ acc.pc \in {"assign", "replaced", "sleep"} /\ f = acc.fd
    \/ acc.pc # "returned" /\ \E w \in Slots : slot[w] = f
    \/ acc.pc \in {"close", "reset", "closeSock", "returned"} /\ ~live /\ f = acc.fd

(* Until a window is hit, Java shows the window of a slot exactly as long   *)
(* as a receive thread serves the slot: connect() and disconnect() of       *)
(* successive devices do not cross.                                        *)
WindowServed ==
  Clear => \A w \in Slots : shown[w] <=> \E c \in Conns : Serves(c, w)

(* Until a window is hit, the close_client_sock() at the end of a receive   *)
(* thread closes the thread's own connection or none, never that of a      *)
(* device which has taken over the slot.                                   *)
ClosesOwn ==
  [][Clear' => \A c \in Conns, f \in Fds :
       thr[c].pc = "end" /\ thr'[c].pc \in {"reset", "bye"} /\ open[f] # open'[f] => open[f] = c]_vars

(* server_close() makes server_accept() return, whatever the accept loop is *)
(* doing, unless the loop then sets server_is_live again ("lost"), the     *)
(* socket() or connect() that should wake accept() fails while it waits    *)
(* ("unwoken"), or a window of the descriptors was hit before.             *)
StopReturns == [](stop # "idle" => <>(acc.pc = "returned" \/ causes # {}))

(* A device that leaves, before its thread runs, during the set-up or later,*)
(* in the end leaves no receive thread behind.                             *)
ThreadEnds ==
  \A c \in Clients : client[c] = "gone" /\ thr[c].pc # "none" ~> thr[c].pc = "done" \/ ~Clear
=============================================================================
