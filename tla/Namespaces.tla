----------------------------- MODULE Namespaces -----------------------------
(***************************************************************************)
(* The socket.io side of one session on the server: how the session is     *)
(* entered in and taken out of Server.sockets, how namespaces are attached *)
(* and detached, and how acknowledgements find their callbacks.            *)
(*                                                                         *)
(*   server.go  onOpen, the callbacks of EventMessage and EventClose,      *)
(*              process                                                    *)
(*   socket.go  attachnsp, detachnsp, detachall, fireAck, emit             *)
(*   handle.go  ackHandle                                                  *)
(*                                                                         *)
(* engine.Server starts the session's reader before it calls onOpen, and   *)
(* an upgrade handles packets concurrently with the reader (Session), so   *)
(* handlers take packets in any order of their steps.  Events change       *)
(* nothing here; Frames has them, and the frames of packets.               *)
(***************************************************************************)
EXTENDS Integers, Sequences, FiniteSets, Functions

CONSTANTS Root,            \* the namespace "/"
          Nsps,            \* namespaces the client may name
          Known,           \* those of them that the server created
          Reader,          \* the goroutine that reads the session
          Handlers,        \* Reader, and upgrades that handle packets
          Apps,            \* application goroutines that Emit with a callback
          DisconnectEmits, \* namespaces whose OnDisconnect callback emits
          None,
          MaxConnect,      \* bound on the CONNECTs for one namespace
          MaxEmit,         \* bound on the events with a callback
          MaxAck           \* bound on the acknowledgements of one event

ASSUME NamespacesAssumption ==
  /\ Root \in Known /\ Known \subseteq Nsps
  /\ Reader \in Handlers
  /\ None \notin Handlers
  /\ DisconnectEmits \subseteq Known
  /\ MaxConnect \in Nat \ {0} /\ MaxEmit \in Nat /\ MaxAck \in Nat

VARIABLES
  opc,      \* where onOpen stands
  sock,     \* Server.sockets[so]: "none" yet, "registered", "removed"
  acks,     \* socket.acks: a handle per namespace, 0 if it is not attached
  handles,  \* every ackHandle made: its namespace, last id and ackmap
  lock,     \* the handler that holds socket.mutex across steps, or None
  down,     \* the engine's socket: "no", "closing" (Emit fails), "closed"
  hpc,      \* where a handler stands
  hpkt,     \* the packet it processes
  hack,     \* the handle it looked up
  hcb,      \* the callback it looked up
  ends,     \* the reader's Read failed
  apc, acall, \* where an application goroutine stands, and its emit
  nemit,    \* events emitted so far; the n-th has callback n
  inbox,    \* packets of the client, not yet handled
  lost,     \* the connection is lost
  joined,   \* client: namespaces it considers connected
  nconn,    \* client: how often it connected each namespace
  events,   \* client: events it received
  nack,     \* client: how often it acknowledged each event
  ignored,  \* history: packets that found no socket
  fired,    \* history: <<callback, event the acknowledgement was for>>
  notes     \* history: calls of OnConnect and OnDisconnect callbacks

svars == <<opc, sock, acks, handles, lock, down>>
hvars == <<hpc, hpkt, hack, hcb, ends>>
avars == <<apc, acall, nemit>>
clvars == <<inbox, lost, joined, nconn, events, nack>>
vars == <<svars, hvars, avars, clvars, ignored, fired, notes>>

NoPacket == [type |-> "none", nsp |-> Root, id |-> 0, event |-> 0]
NoCall == [nsp |-> Root, handle |-> 0, id |-> 0, event |-> 0]

Init ==
  /\ opc = "attach" /\ sock = "none"
  /\ acks = [n \in Known |-> 0] /\ handles = <<>>
  /\ lock = None /\ down = "no"
  /\ hpc = [h \in Handlers |-> "idle"]
  /\ hpkt = [h \in Handlers |-> NoPacket]
  /\ hack = [h \in Handlers |-> 0] /\ hcb = [h \in Handlers |-> 0]
  /\ ends = FALSE
  /\ apc = [a \in Apps |-> "idle"] /\ acall = [a \in Apps |-> NoCall]
  /\ nemit = 0
  /\ inbox = <<>> /\ lost = FALSE
  /\ joined = {Root} /\ nconn = [n \in Nsps |-> IF n = Root THEN 1 ELSE 0]
  /\ events = {} /\ nack = [k \in 1 .. MaxEmit |-> 0]
  /\ ignored = <<>> /\ fired = <<>> /\ notes = <<>>

Goto(h, l) == hpc' = [hpc EXCEPT ![h] = l]
Note(what, n) == notes' = Append(notes, <<what, n>>)

\* attachnsp: a new handle, whatever was there.
attachnsp(n) ==
  /\ lock = None
  /\ handles' = Append(handles, [nsp |-> n, id |-> 0, ackmap |-> {}])
  /\ acks' = [acks EXCEPT ![n] = Len(handles')]

-----------------------------------------------------------------------------
(* onOpen, on the goroutine that accepts sessions.                         *)

OpenAttach ==
  /\ opc = "attach"
  /\ attachnsp(Root)
  /\ opc' = "register"
  /\ UNCHANGED <<sock, lock, down, hvars, avars, clvars, ignored, fired, notes>>

\* The CONNECT packet is emitted; then the session is entered in sockets.
OpenRegister ==
  /\ opc = "register"
  /\ sock' = "registered"
  /\ opc' = "notify"
  /\ UNCHANGED <<acks, handles, lock, down, hvars, avars, clvars, ignored, fired, notes>>

OpenNotify ==
  /\ opc = "notify"
  /\ Note("connect", Root)
  /\ opc' = "done"
  /\ UNCHANGED <<sock, acks, handles, lock, down, hvars, avars, clvars, ignored, fired>>

-----------------------------------------------------------------------------
(* The callback of EventMessage, and process.                              *)

\* Where process goes for a packet: to one of its cases, or back if the server
\* has no such namespace.
CaseOf(p) ==
  CASE p.type = "close"   -> "closing"
    [] p.nsp \notin Known -> "idle"
    [] OTHER              -> p.type

\* Server.sockets is looked up once; without a socket the packet is ignored.
\* A close packet of engine.io comes the same way, for EventClose.
Message(h) ==
  /\ hpc[h] = "idle" /\ (h = Reader => ~ends)
  /\ inbox # <<>>
  /\ inbox' = Tail(inbox)
  /\ LET p == Head(inbox) IN
     \/ /\ sock = "registered" \/ p.type = "close"
        /\ hpkt' = [hpkt EXCEPT ![h] = p]
        /\ Goto(h, CaseOf(p))
        /\ UNCHANGED ignored
     \/ /\ sock # "registered" /\ p.type # "close"
        /\ ignored' = Append(ignored, p)
        /\ UNCHANGED <<hpc, hpkt>>
  /\ UNCHANGED <<svars, hack, hcb, ends, avars, lost, joined, nconn, events, nack, fired, notes>>

\* PacketTypeConnect: attachnsp; then the answer, and OnConnect.
Connect(h) ==
  /\ hpc[h] = "connect"
  /\ attachnsp(hpkt[h].nsp)
  /\ Goto(h, "connected")
  /\ UNCHANGED <<opc, sock, lock, down, hpkt, hack, hcb, ends, avars, clvars, ignored, fired, notes>>

ConnectNotify(h) ==
  /\ hpc[h] = "connected"
  /\ Note("connect", hpkt[h].nsp)
  /\ Goto(h, "idle")
  /\ UNCHANGED <<svars, hpkt, hack, hcb, ends, avars, clvars, ignored, fired>>

\* Mutant: the namespace is not detached.
DisconnectKeeps(h) ==
  /\ hpc[h] = "disconnect"
  /\ lock = None
  /\ Goto(h, "disconnected")
  /\ UNCHANGED <<svars, hpkt, hack, hcb, ends, avars, clvars, ignored, fired, notes>>

\* PacketTypeDisconnect: detachnsp; then OnDisconnect, attached or not.
Disconnect(h) ==
  /\ hpc[h] = "disconnect"
  /\ lock = None
  /\ acks' = [acks EXCEPT ![hpkt[h].nsp] = 0]
  /\ Goto(h, "disconnected")
  /\ UNCHANGED <<opc, sock, handles, lock, down, hpkt, hack, hcb, ends, avars, clvars,
                 ignored, fired, notes>>

DisconnectNotify(h) ==
  /\ hpc[h] = "disconnected"
  /\ Note("disconnect", hpkt[h].nsp)
  /\ Goto(h, "idle")
  /\ UNCHANGED <<svars, hpkt, hack, hcb, ends, avars, clvars, ignored, fired>>

\* PacketTypeAck: socket.fireAck finds the handle,
FindHandle(h) ==
  /\ hpc[h] = "ack"
  /\ lock = None
  /\ hack' = [hack EXCEPT ![h] = acks[hpkt[h].nsp]]
  /\ Goto(h, IF acks[hpkt[h].nsp] = 0 THEN "idle" ELSE "find")
  /\ UNCHANGED <<svars, hpkt, hcb, ends, avars, clvars, ignored, fired, notes>>

\* ackHandle.fireAck the callback,
FindCallback(h) ==
  /\ hpc[h] = "find"
  /\ \/ /\ \E e \in handles[hack[h]].ackmap :
             e[1] = hpkt[h].id /\ hcb' = [hcb EXCEPT ![h] = e[2]]
        /\ Goto(h, "call")
     \/ /\ \A e \in handles[hack[h]].ackmap : e[1] # hpkt[h].id
        /\ Goto(h, "idle") /\ UNCHANGED hcb
  /\ UNCHANGED <<svars, hpkt, hack, ends, avars, clvars, ignored, fired, notes>>

\* Mutant: the callback stays in ackmap.
CallAckKeeps(h) ==
  /\ hpc[h] = "call"
  /\ fired' = Append(fired, <<hcb[h], hpkt[h].event>>)
  /\ Goto(h, "idle")
  /\ UNCHANGED <<svars, hpkt, hack, hcb, ends, avars, clvars, ignored, notes>>

\* and, in a second critical section, deletes the id; then the callback is called.
CallAck(h) ==
  /\ hpc[h] = "call"
  /\ handles' = [handles EXCEPT ![hack[h]].ackmap = {e \in @ : e[1] # hpkt[h].id}]
  /\ fired' = Append(fired, <<hcb[h], hpkt[h].event>>)
  /\ Goto(h, "idle")
  /\ UNCHANGED <<opc, sock, acks, lock, down, hpkt, hack, hcb, ends, avars, clvars,
                 ignored, notes>>

-----------------------------------------------------------------------------
(* The callback of EventClose, for a close packet or when Read fails.      *)

\* Read fails: the reader fires EventClose and ends.
ReadFails ==
  /\ hpc[Reader] = "idle" /\ ~ends
  /\ lost \/ down = "closed"
  /\ ends' = TRUE
  /\ Goto(Reader, "closing")
  /\ UNCHANGED <<svars, hpkt, hack, hcb, avars, clvars, ignored, fired, notes>>

Back(h) == IF h = Reader /\ ends THEN "ended" ELSE "idle"

\* engine.Socket.Close: the first call closes; the others wait for it, in once.Do.
CloseBegins == down' = IF down = "no" THEN "closing" ELSE down

\* sockets is read; without a socket the callback returns, and the engine, which
\* called it, closes its socket.
CloseFind(h) ==
  /\ hpc[h] = "closing"
  /\ IF sock = "registered" THEN Goto(h, "remove") /\ UNCHANGED down
                            ELSE Goto(h, "shut") /\ CloseBegins
  /\ UNCHANGED <<opc, sock, acks, handles, lock, hpkt, hack, hcb, ends, avars, clvars,
                 ignored, fired, notes>>

\* Mutant: detachall is not called.
CloseRemoveOnly(h) ==
  /\ hpc[h] = "remove"
  /\ sock' = "removed"
  /\ Goto(h, "shut") /\ CloseBegins
  /\ UNCHANGED <<opc, acks, handles, lock, hpkt, hack, hcb, ends, avars, clvars,
                 ignored, fired, notes>>

\* The session is deleted from sockets and its socket closed: Close is called,
CloseRemove(h) ==
  /\ hpc[h] = "remove"
  /\ sock' = "removed"
  /\ Goto(h, "close") /\ CloseBegins
  /\ UNCHANGED <<opc, acks, handles, lock, hpkt, hack, hcb, ends, avars, clvars,
                 ignored, fired, notes>>

Jammed(h) == hpc[h] = "jammed"

\* and returns when the emitter has ended; then the callback goes on, or the engine
\* is done.
CloseReturns(h) ==
  /\ hpc[h] \in {"close", "shut"}
  /\ down = "closed" \/ \A k \in Handlers : ~Jammed(k)
  /\ down' = "closed"
  /\ Goto(h, IF hpc[h] = "close" THEN "lockall" ELSE Back(h))
  /\ UNCHANGED <<opc, sock, acks, handles, lock, hpkt, hack, hcb, ends, avars, clvars,
                 ignored, fired, notes>>

\* In an upgrade it may never return: the emitter, which Close waits for, waits
\* itself at the barrier that this upgrade holds (Session, where the run
\* session_deadlock refutes SocketCloseReturns).  Nobody's Close returns then.
CloseJams(h) ==
  /\ h # Reader
  /\ hpc[h] \in {"close", "shut"}
  /\ down # "closed"
  /\ Goto(h, "jammed")
  /\ UNCHANGED <<svars, hpkt, hack, hcb, ends, avars, clvars, ignored, fired, notes>>

\* detachall: the lock is held until every namespace is gone,
DetachLock(h) ==
  /\ hpc[h] = "lockall"
  /\ lock = None
  /\ lock' = h
  /\ Goto(h, "detachall")
  /\ UNCHANGED <<opc, sock, acks, handles, down, hpkt, hack, hcb, ends, avars, clvars,
                 ignored, fired, notes>>

\* through the calls of OnDisconnect too, one after the other.  A callback that
\* emits asks for the lock that its own goroutine holds: it never returns.
DetachNext(h) ==
  /\ hpc[h] = "detachall"
  /\ \E n \in {k \in Known : acks[k] # 0} :
       /\ acks' = [acks EXCEPT ![n] = 0]
       /\ Note("disconnect", n)
       /\ Goto(h, IF n \in DisconnectEmits THEN "stuck" ELSE "detachall")
  /\ UNCHANGED <<opc, sock, handles, lock, down, hpkt, hack, hcb, ends, avars, clvars,
                 ignored, fired>>

\* Mutant: the lock is not released.
DetachUnlockNever(h) ==
  /\ hpc[h] = "detachall"
  /\ \A n \in Known : acks[n] = 0
  /\ Goto(h, Back(h))
  /\ UNCHANGED <<svars, hpkt, hack, hcb, ends, avars, clvars, ignored, fired, notes>>

DetachUnlock(h) ==
  /\ hpc[h] = "detachall"
  /\ \A n \in Known : acks[n] = 0
  /\ lock' = None
  /\ Goto(h, Back(h))
  /\ UNCHANGED <<opc, sock, acks, handles, down, hpkt, hack, hcb, ends, avars, clvars,
                 ignored, fired, notes>>

-----------------------------------------------------------------------------
(* emit with a callback, by a goroutine that got the socket in OnConnect.  *)

EmitCall(a) ==
  /\ apc[a] = "idle"
  /\ nemit < MaxEmit
  /\ nemit' = nemit + 1
  /\ \E n \in Known :
       /\ <<"connect", n>> \in Range(notes)
       /\ acall' = [acall EXCEPT ![a] = [NoCall EXCEPT !.nsp = n, !.event = nemit']]
  /\ apc' = [apc EXCEPT ![a] = "find"]
  /\ UNCHANGED <<svars, hvars, clvars, ignored, fired, notes>>

\* Mutant: the handle of "/", whatever the namespace.
EmitFindRoot(a) ==
  /\ apc[a] = "find"
  /\ lock = None
  /\ acall' = [acall EXCEPT ![a].handle = acks[Root]]
  /\ apc' = [apc EXCEPT ![a] = IF acks[Root] = 0 THEN "idle" ELSE "onack"]
  /\ UNCHANGED <<svars, hvars, nemit, clvars, ignored, fired, notes>>

\* The handle of the namespace, or ErrorNamespaceUnavaialble.
EmitFind(a) ==
  /\ apc[a] = "find"
  /\ lock = None
  /\ acall' = [acall EXCEPT ![a].handle = acks[acall[a].nsp]]
  /\ apc' = [apc EXCEPT ![a] = IF acks[acall[a].nsp] = 0 THEN "idle" ELSE "onack"]
  /\ UNCHANGED <<svars, hvars, nemit, clvars, ignored, fired, notes>>

\* Mutant: every callback is entered under the same id.
onAckSameId(a) ==
  /\ apc[a] = "onack"
  /\ LET g == acall[a].handle IN
       /\ handles' = [handles EXCEPT ![g].ackmap = @ \cup {<<1, acall[a].event>>}]
       /\ acall' = [acall EXCEPT ![a].id = 1]
  /\ apc' = [apc EXCEPT ![a] = "send"]
  /\ UNCHANGED <<opc, sock, acks, lock, down, hvars, nemit, clvars, ignored, fired, notes>>

\* onAck: the next id of this handle, and the callback under it.
onAck(a) ==
  /\ apc[a] = "onack"
  /\ LET g == acall[a].handle id == handles[g].id + 1 IN
       /\ handles' = [handles EXCEPT ![g].id = id,
                                     ![g].ackmap = @ \cup {<<id, acall[a].event>>}]
       /\ acall' = [acall EXCEPT ![a].id = id]
  /\ apc' = [apc EXCEPT ![a] = "send"]
  /\ UNCHANGED <<opc, sock, acks, lock, down, hvars, nemit, clvars, ignored, fired, notes>>

\* emitPacket.  When it fails the callback stays behind.
EmitSend(a) ==
  /\ apc[a] = "send"
  /\ apc' = [apc EXCEPT ![a] = "idle"]
  /\ events' = IF down # "no" \/ lost THEN events
               ELSE events \cup {[nsp |-> acall[a].nsp, id |-> acall[a].id, event |-> acall[a].event]}
  /\ UNCHANGED <<svars, hvars, acall, nemit, inbox, lost, joined, nconn, nack, ignored, fired, notes>>

-----------------------------------------------------------------------------
(* The client (external).  It connects a namespace that it left or never   *)
(* had, and acknowledges an event when it likes, once or repeatedly.       *)

ClientSends(p) == ~lost /\ inbox' = Append(inbox, p)

ClientConnect(n) ==
  /\ n \notin joined /\ nconn[n] < MaxConnect
  /\ ClientSends([NoPacket EXCEPT !.type = "connect", !.nsp = n])
  /\ joined' = joined \cup {n}
  /\ nconn' = [nconn EXCEPT ![n] = @ + 1]
  /\ UNCHANGED <<svars, hvars, avars, lost, events, nack, ignored, fired, notes>>

ClientDisconnect(n) ==
  /\ n \in joined
  /\ ClientSends([NoPacket EXCEPT !.type = "disconnect", !.nsp = n])
  /\ joined' = joined \ {n}
  /\ UNCHANGED <<svars, hvars, avars, lost, nconn, events, nack, ignored, fired, notes>>

ClientAck(e) ==
  /\ e \in events /\ nack[e.event] < MaxAck
  /\ ClientSends([type |-> "ack", nsp |-> e.nsp, id |-> e.id, event |-> e.event])
  /\ nack' = [nack EXCEPT ![e.event] = @ + 1]
  /\ UNCHANGED <<svars, hvars, avars, lost, joined, nconn, events, ignored, fired, notes>>

\* The client closes in order, with a last packet, or is gone.
ClientClose ==
  /\ ClientSends([NoPacket EXCEPT !.type = "close"])
  /\ lost' = TRUE
  /\ UNCHANGED <<svars, hvars, avars, joined, nconn, events, nack, ignored, fired, notes>>

ClientGone ==
  /\ ~lost
  /\ lost' = TRUE
  /\ UNCHANGED <<svars, hvars, avars, inbox, joined, nconn, events, nack, ignored, fired, notes>>

-----------------------------------------------------------------------------
OpenStep == OpenAttach \/ OpenRegister \/ OpenNotify

\* The steps that finish what a handler has begun.
ProcessStep(h) ==
  \/ Connect(h) \/ ConnectNotify(h) \/ Disconnect(h) \/ DisconnectNotify(h)
  \/ FindHandle(h) \/ FindCallback(h) \/ CallAck(h)
  \/ CloseFind(h) \/ CloseRemove(h) \/ CloseReturns(h)
  \/ DetachLock(h) \/ DetachNext(h) \/ DetachUnlock(h)

EmitStep(a) == EmitFind(a) \/ onAck(a) \/ EmitSend(a)

ClientStep ==
  \/ \E n \in Nsps : ClientConnect(n) \/ ClientDisconnect(n)
  \/ \E e \in events : ClientAck(e)
  \/ ClientClose \/ ClientGone

Next ==
  \/ OpenStep
  \/ \E h \in Handlers : Message(h) \/ ProcessStep(h) \/ CloseJams(h)
  \/ ReadFails
  \/ \E a \in Apps : EmitCall(a) \/ EmitStep(a)
  \/ ClientStep

Spec == Init /\ [][Next]_vars

\* Goroutines run on, and the reader notices that the connection is lost.
FairSpec ==
  /\ Spec
  /\ WF_vars(OpenStep)
  /\ \A h \in Handlers : WF_vars(ProcessStep(h))
  /\ WF_vars(ReadFails)
  /\ \A a \in Apps : WF_vars(EmitStep(a))

-----------------------------------------------------------------------------
(* Properties *)

Count(what, n) == Cardinality({k \in DOMAIN notes : notes[k] = <<what, n>>})
Attached(n) == Cardinality({g \in DOMAIN handles : handles[g].nsp = n})
Packet == [type : {"none", "connect", "disconnect", "ack", "close"},
           nsp : Nsps, id : Nat, event : 0 .. MaxEmit]
Call == [nsp : Known, handle : Nat, id : Nat, event : 0 .. MaxEmit]
Handle == [nsp : Known, id : Nat, ackmap : SUBSET (Nat \X (1 .. MaxEmit))]

\* Types; a namespace is attached to a handle made for it, and a goroutine that
\* found a handle works on one of the same namespace.
NamespacesTypeOK ==
  /\ opc \in {"attach", "register", "notify", "done"}
  /\ sock \in {"none", "registered", "removed"}
  /\ handles \in Seq(Handle)
  /\ acks \in [Known -> 0 .. Len(handles)]
  /\ lock \in Handlers \cup {None}
  /\ down \in {"no", "closing", "closed"} /\ ends \in BOOLEAN /\ lost \in BOOLEAN
  /\ hpc \in [Handlers -> {"idle", "connect", "connected", "disconnect", "disconnected",
                             "ack", "find", "call", "closing", "remove", "close", "shut",
                             "jammed", "lockall", "detachall", "stuck", "ended"}]
  /\ hpkt \in [Handlers -> Packet]
  /\ hack \in [Handlers -> 0 .. Len(handles)] /\ hcb \in [Handlers -> 0 .. MaxEmit]
  /\ apc \in [Apps -> {"idle", "find", "onack", "send"}] /\ acall \in [Apps -> Call]
  /\ nemit \in 0 .. MaxEmit
  /\ inbox \in Seq(Packet) /\ joined \subseteq Nsps /\ nconn \in [Nsps -> 0 .. MaxConnect]
  /\ nack \in [1 .. MaxEmit -> 0 .. MaxAck]
  /\ \A n \in Known : acks[n] # 0 => handles[acks[n]].nsp = n
  /\ \A h \in Handlers : hpc[h] \in {"find", "call"} => handles[hack[h]].nsp = hpkt[h].nsp
  /\ \A a \in Apps : apc[a] \in {"onack", "send"} =>
       handles[acall[a].handle].nsp = acall[a].nsp

\* With one handler, a callback is called at most once, and one that was called is
\* entered under no id any more: however often the client acknowledges its event,
\* and although a namespace that is connected again counts its ids from 1 again.
AckOnce ==
  /\ \A i, j \in DOMAIN fired : i # j => fired[i][1] # fired[j][1]
  /\ \A k \in DOMAIN fired : \A g \in DOMAIN handles :
       \A e \in handles[g].ackmap : e[2] # fired[k][1]

\* protocol.md:156, "an ACK packet is expected to confirm the reception of said
\* packet": the callback that is called is that of the event acknowledged.
AckMatches == \A k \in DOMAIN fired : fired[k][1] = fired[k][2]

\* With one handler, a session that left sockets has nothing attached once the
\* callback of EventClose is over: no handle, and no callback in it, is leaked.
DetachedAfterClose ==
  sock = "removed" /\ (\A h \in Handlers : hpc[h] \in {"idle", "ended"}) =>
    \A n \in Known : acks[n] = 0

\* With one handler, and no packet ignored, OnDisconnect is called at most once for
\* each time that the namespace was attached: by DISCONNECT, or by EventClose.
DisconnectOnce ==
  ignored = <<>> => \A n \in Known : Count("disconnect", n) <= Attached(n)

\* Emit returns to its caller: nobody keeps the lock.
EmitReturns == \A a \in Apps : apc[a] # "idle" ~> apc[a] = "idle"

\* handle.go:27, OnDisconnect "would be called when this Namespace is disconnected
\* by a client, i.e. upon receiving DISCONNECT packet or connection lost": when a
\* registered session is lost before its reader gives up, each attached namespace
\* is detached, and told; unless an upgrade took the session out of sockets and its
\* Close never returns.
DetachedWhenLost ==
  \A n \in Known : (lost /\ ~ends /\ sock = "registered" /\ acks[n] # 0) ~>
                     (acks[n] = 0 \/ \E h \in Handlers : Jammed(h))

-----------------------------------------------------------------------------
(* What the documentation says and the code does not do.                   *)

\* handle.go:27, the same, for every order of steps: when a lost session is over
\* and done with, the last that a namespace heard is not OnConnect.
LostIsNotified ==
  lost /\ opc = "done" /\ (\A h \in Handlers : hpc[h] = IF h = Reader THEN "ended" ELSE "idle") =>
    \A n \in Known : Count("connect", n) <= Count("disconnect", n)
=============================================================================
