------------------------- MODULE Namespaces_proofs --------------------------
(***************************************************************************)
(* The safety of Namespaces, for any namespaces, handlers, goroutines and  *)
(* number of events.                                                       *)
(***************************************************************************)
EXTENDS Namespaces, FiniteSetTheorems, SequenceTheorems, TLAPS

InPacket == {p \in Packet : p.type # "none"}
Event == [nsp : Known, id : Nat, event : 1 .. MaxEmit]

\* The cases of process for a namespace that the server has.
Processing == {"connect", "connected", "disconnect", "disconnected", "ack", "find", "call"}
Labels ==
  Processing \cup {"idle", "closing", "remove", "close", "shut", "jammed", "lockall",
                   "detachall", "stuck", "ended"}
Downs == {"no", "closing", "closed"}

-----------------------------------------------------------------------------
(* Types.  A goroutine that works on a handle or a namespace has looked it *)
(* up before, and finds it again.                                          *)

\* What the socket has: a namespace is attached to a handle made for it.
ServerType ==
  /\ opc \in {"attach", "register", "notify", "done"}
  /\ sock \in {"none", "registered", "removed"}
  /\ handles \in Seq(Handle)
  /\ acks \in [Known -> 0 .. Len(handles)]
  /\ lock \in Handlers \cup {None} /\ down \in Downs
  /\ \A n \in Known : acks[n] # 0 => handles[acks[n]].nsp = n

\* A handler has found the namespace of its packet, then the handle.
HandlerType ==
  /\ hpc \in [Handlers -> Labels]
  /\ hpkt \in [Handlers -> Packet]
  /\ hack \in [Handlers -> 0 .. Len(handles)] /\ hcb \in [Handlers -> 0 .. MaxEmit]
  /\ ends \in BOOLEAN
  /\ \A h \in Handlers : hpc[h] \in Processing => hpkt[h].nsp \in Known
  /\ \A h \in Handlers : hpc[h] \in {"find", "call"} =>
       hack[h] # 0 /\ handles[hack[h]].nsp = hpkt[h].nsp

\* A goroutine that emits has its event, then found the handle of the namespace.
AppType ==
  /\ apc \in [Apps -> {"idle", "find", "onack", "send"}] /\ acall \in [Apps -> Call]
  /\ nemit \in 0 .. MaxEmit
  /\ \A a \in Apps : apc[a] # "idle" => acall[a].event # 0
  /\ \A a \in Apps : apc[a] \in {"onack", "send"} =>
       /\ acall[a].handle \in 1 .. Len(handles)
       /\ handles[acall[a].handle].nsp = acall[a].nsp

ClientType ==
  /\ inbox \in Seq(InPacket) /\ events \subseteq Event
  /\ lost \in BOOLEAN /\ joined \subseteq Nsps /\ nconn \in [Nsps -> 0 .. MaxConnect]
  /\ nack \in [1 .. MaxEmit -> 0 .. MaxAck]

HistoryType ==
  /\ fired \in Seq((0 .. MaxEmit) \X (0 .. MaxEmit))
  /\ notes \in Seq({"connect", "disconnect"} \X Known)
  /\ ignored \in Seq(InPacket)

TypeInv == ServerType /\ HandlerType /\ AppType /\ ClientType /\ HistoryType

\* The parts make up the types that the runs check.
LEMMA TypeInvTypes == TypeInv => NamespacesTypeOK
<1> SUFFICES ASSUME TypeInv PROVE NamespacesTypeOK
  OBVIOUS
<1>1. inbox \in Seq(Packet)
  BY DEF TypeInv, ClientType, InPacket
<1> QED
  BY <1>1
  DEF TypeInv, ServerType, HandlerType, AppType, ClientType, Processing, Labels,
      Downs, NamespacesTypeOK

\* The packets and calls that the actions make.
LEMMA PacketsMade ==
  /\ NoPacket \in Packet /\ NoCall \in Call
  /\ \A n \in Nsps : /\ [NoPacket EXCEPT !.type = "connect", !.nsp = n] \in InPacket
                     /\ [NoPacket EXCEPT !.type = "disconnect", !.nsp = n] \in InPacket
  /\ [NoPacket EXCEPT !.type = "close"] \in InPacket
  /\ \A e \in Event : [type |-> "ack", nsp |-> e.nsp, id |-> e.id, event |-> e.event] \in InPacket
  /\ \A n \in Known, k \in 1 .. MaxEmit :
       /\ [NoCall EXCEPT !.nsp = n, !.event = k] \in Call
       /\ [NoCall EXCEPT !.nsp = n, !.event = k].nsp = n
       /\ [NoCall EXCEPT !.nsp = n, !.event = k].event = k
<1> USE NamespacesAssumption
<1>1. NoPacket \in Packet /\ NoCall \in Call
  BY DEF NoPacket, NoCall, Packet, Call
<1>2. ASSUME NEW n \in Nsps
      PROVE  /\ [NoPacket EXCEPT !.type = "connect", !.nsp = n] \in InPacket
             /\ [NoPacket EXCEPT !.type = "disconnect", !.nsp = n] \in InPacket
  <2>1. ASSUME NEW t \in {"connect", "disconnect"}
        PROVE  [NoPacket EXCEPT !.type = t, !.nsp = n] \in InPacket
    BY <1>1 DEF Packet, InPacket
  <2> QED  BY <2>1
<1>3. [NoPacket EXCEPT !.type = "close"] \in InPacket
  BY DEF NoPacket, Packet, InPacket
<1>4. ASSUME NEW e \in Event
      PROVE  [type |-> "ack", nsp |-> e.nsp, id |-> e.id, event |-> e.event] \in InPacket
  BY DEF Event, Packet, InPacket
<1>5. ASSUME NEW n \in Known, NEW k \in 1 .. MaxEmit
      PROVE  /\ [NoCall EXCEPT !.nsp = n, !.event = k] \in Call
             /\ [NoCall EXCEPT !.nsp = n, !.event = k].nsp = n
             /\ [NoCall EXCEPT !.nsp = n, !.event = k].event = k
  <2>1. k \in 0 .. MaxEmit /\ n \in Known /\ NoCall \in Call
    BY <1>1
  <2> QED  BY ONLY <2>1 DEF Call
<1> QED  BY <1>1, <1>2, <1>3, <1>4, <1>5

\* A sequence with one element more.
LEMMA Longer ==
  ASSUME NEW S, NEW q \in Seq(S), NEW e \in S, NEW r, r = Append(q, e)
  PROVE  /\ r \in Seq(S) /\ Len(r) = Len(q) + 1 /\ Len(q) \in Nat
         /\ DOMAIN q = 1 .. Len(q) /\ DOMAIN r = 1 .. (Len(q) + 1)
         /\ \A i \in 1 .. Len(q) : r[i] = q[i]
         /\ r[Len(q) + 1] = e
  OBVIOUS

\* A sequence without its first element.
LEMMA Shorter ==
  ASSUME NEW S, NEW q \in Seq(S), q # <<>>
  PROVE  /\ Head(q) \in S /\ Tail(q) \in Seq(S) /\ Len(Tail(q)) = Len(q) - 1 /\ Len(q) \in Nat
         /\ DOMAIN q = 1 .. Len(q) /\ DOMAIN Tail(q) = 1 .. (Len(q) - 1)
         /\ 1 \in DOMAIN q /\ Head(q) = q[1]
         /\ \A i \in 1 .. (Len(q) - 1) : Tail(q)[i] = q[i + 1]
  OBVIOUS

\* attachnsp makes a handle and leaves the others alone.
LEMMA AttachFacts ==
  ASSUME TypeInv, NEW n \in Known, attachnsp(n)
  PROVE  /\ handles' \in Seq(Handle) /\ Len(handles') = Len(handles) + 1 /\ Len(handles) \in Nat
         /\ DOMAIN handles = 1 .. Len(handles) /\ DOMAIN handles' = 1 .. (Len(handles) + 1)
         /\ \A g \in 1 .. Len(handles) : handles'[g] = handles[g]
         /\ handles'[Len(handles) + 1].nsp = n
         /\ handles'[Len(handles) + 1].id = 0
         /\ handles'[Len(handles) + 1].ackmap = {}
         /\ acks' = [acks EXCEPT ![n] = Len(handles) + 1]
<1> DEFINE new == [nsp |-> n, id |-> 0, ackmap |-> {}]
<1>1. new \in Handle /\ new.nsp = n /\ new.id = 0 /\ new.ackmap = {}
  BY DEF Handle
<1>2. handles' = Append(handles, new) /\ handles \in Seq(Handle)
  BY DEF attachnsp, TypeInv, ServerType
<1> HIDE DEF new
<1>3. /\ handles' \in Seq(Handle) /\ Len(handles') = Len(handles) + 1 /\ Len(handles) \in Nat
      /\ DOMAIN handles = 1 .. Len(handles) /\ DOMAIN handles' = 1 .. (Len(handles) + 1)
      /\ \A g \in 1 .. Len(handles) : handles'[g] = handles[g]
      /\ handles'[Len(handles) + 1] = new
  BY <1>1, <1>2, Longer
<1> QED  BY <1>1, <1>3 DEF attachnsp

\* What a step does to the handles that are there: they keep their namespace.
HandlesKept ==
  /\ handles' \in Seq(Handle) /\ Len(handles') = Len(handles) /\ Len(handles) \in Nat
  /\ DOMAIN handles = 1 .. Len(handles) /\ DOMAIN handles' = 1 .. Len(handles)
  /\ \A g \in 1 .. Len(handles) : handles'[g].nsp = handles[g].nsp

\* CallAck deletes the entries with the id from one handle.
LEMMA CallAckFacts ==
  ASSUME TypeInv, NEW h \in Handlers, CallAck(h)
  PROVE  /\ HandlesKept /\ hack[h] \in 1 .. Len(handles)
         /\ \A g \in 1 .. Len(handles) : g # hack[h] => handles'[g] = handles[g]
         /\ handles'[hack[h]].id = handles[hack[h]].id
         /\ handles'[hack[h]].ackmap = {e \in handles[hack[h]].ackmap : e[1] # hpkt[h].id}
<1>1. /\ handles \in Seq(Handle) /\ hack[h] \in 1 .. Len(handles) /\ Len(handles) \in Nat
      /\ DOMAIN handles = 1 .. Len(handles)
  BY DEF TypeInv, ServerType, HandlerType, CallAck
<1>2. handles' = [handles EXCEPT ![hack[h]].ackmap = {e \in @ : e[1] # hpkt[h].id}]
  BY DEF CallAck
<1> DEFINE g0 == hack[h]
           old == handles[g0]
           new == [old EXCEPT !.ackmap = {e \in old.ackmap : e[1] # hpkt[h].id}]
<1>3. old \in Handle
  BY <1>1
<1>4. /\ new \in Handle /\ new.nsp = old.nsp /\ new.id = old.id
      /\ new.ackmap = {e \in old.ackmap : e[1] # hpkt[h].id}
  BY <1>3 DEF Handle
<1>5. handles' = [handles EXCEPT ![g0] = new]
  BY <1>2
<1> HIDE DEF new, old
<1>6. handles' \in Seq(Handle) /\ Len(handles') = Len(handles)
  BY <1>1, <1>4, <1>5
<1>7. handles'[g0] = new /\ \A g \in 1 .. Len(handles) : g # g0 => handles'[g] = handles[g]
  BY <1>1, <1>5
<1> QED  BY <1>1, <1>4, <1>6, <1>7 DEF HandlesKept, old

\* onAck enters a callback under the next id of one handle.
LEMMA OnAckFacts ==
  ASSUME TypeInv, NEW a \in Apps, onAck(a)
  PROVE  LET g0 == acall[a].handle
             id == handles[g0].id + 1
         IN  /\ HandlesKept /\ g0 \in 1 .. Len(handles) /\ id \in Nat
             /\ \A g \in 1 .. Len(handles) : g # g0 => handles'[g] = handles[g]
             /\ handles'[g0].id = id
             /\ handles'[g0].ackmap = handles[g0].ackmap \cup {<<id, acall[a].event>>}
             /\ acall' = [acall EXCEPT ![a].id = id]
<1>1. /\ handles \in Seq(Handle) /\ acall[a].handle \in 1 .. Len(handles) /\ Len(handles) \in Nat
      /\ DOMAIN handles = 1 .. Len(handles) /\ acall[a].event \in 1 .. MaxEmit
  BY NamespacesAssumption DEF TypeInv, ServerType, AppType, onAck, Call
<1> DEFINE g0 == acall[a].handle
           old == handles[g0]
           id == old.id + 1
           new == [old EXCEPT !.id = id, !.ackmap = old.ackmap \cup {<<id, acall[a].event>>}]
<1>2. old \in Handle
  BY <1>1
<1>3. id \in Nat
  BY <1>2 DEF Handle
<1>4. /\ new \in Handle /\ new.nsp = old.nsp /\ new.id = id
      /\ new.ackmap = old.ackmap \cup {<<id, acall[a].event>>}
  <2>1. <<id, acall[a].event>> \in Nat \X (1 .. MaxEmit)
    BY <1>1, <1>3
  <2>2. old.ackmap \cup {<<id, acall[a].event>>} \in SUBSET (Nat \X (1 .. MaxEmit))
    BY <1>2, <2>1 DEF Handle
  <2> HIDE DEF id
  <2> QED  BY <1>2, <1>3, <2>2 DEF Handle
<1>5. handles' = [handles EXCEPT ![g0] = new] /\ acall' = [acall EXCEPT ![a].id = id]
  BY <1>1 DEF onAck
<1> HIDE DEF new, old
<1>6. handles' \in Seq(Handle) /\ Len(handles') = Len(handles)
  BY <1>1, <1>4, <1>5
<1>7. handles'[g0] = new /\ \A g \in 1 .. Len(handles) : g # g0 => handles'[g] = handles[g]
  BY <1>1, <1>5
<1> QED  BY <1>1, <1>3, <1>4, <1>5, <1>6, <1>7 DEF HandlesKept, old

\* The initial state has the types.
LEMMA TypeInvInit == Init => TypeInv
<1> SUFFICES ASSUME Init PROVE TypeInv
  OBVIOUS
<1> USE NamespacesAssumption DEF Init
<1>1. handles = <<>> /\ handles \in Seq(Handle) /\ Len(handles) = 0
  OBVIOUS
<1>2. ServerType
  <2>1. acks \in [Known -> 0 .. Len(handles)] /\ \A n \in Known : acks[n] = 0
    BY <1>1
  <2>2. /\ opc \in {"attach", "register", "notify", "done"} /\ down \in Downs
        /\ sock \in {"none", "registered", "removed"} /\ lock \in Handlers \cup {None}
    BY DEF Downs
  <2> QED  BY <1>1, <2>1, <2>2 DEF ServerType
<1>3. HandlerType
  <2>1. hpkt \in [Handlers -> Packet]
    BY PacketsMade
  <2>2. hack \in [Handlers -> 0 .. Len(handles)] /\ hcb \in [Handlers -> 0 .. MaxEmit]
    BY <1>1
  <2>3. hpc \in [Handlers -> {"idle"}] /\ ends \in BOOLEAN
    OBVIOUS
  <2> QED  BY <2>1, <2>2, <2>3 DEF HandlerType, Processing, Labels
<1>4. AppType
  <2>1. acall \in [Apps -> Call]
    BY PacketsMade
  <2>2. apc \in [Apps -> {"idle"}] /\ nemit \in 0 .. MaxEmit
    OBVIOUS
  <2> QED  BY <2>1, <2>2 DEF AppType
<1>5. ClientType
  <2>1. nconn \in [Nsps -> 0 .. MaxConnect] /\ nack \in [1 .. MaxEmit -> 0 .. MaxAck]
    OBVIOUS
  <2>2. inbox \in Seq(InPacket) /\ joined \subseteq Nsps
    OBVIOUS
  <2> QED  BY <2>1, <2>2 DEF ClientType
<1>6. HistoryType
  BY DEF HistoryType
<1> QED  BY <1>2, <1>3, <1>4, <1>5, <1>6 DEF TypeInv

\* Handles are added, and keep their namespace.
HandlesGrow ==
  /\ handles' \in Seq(Handle) /\ Len(handles) \in Nat /\ Len(handles') \in Nat
  /\ DOMAIN handles = 1 .. Len(handles) /\ DOMAIN handles' = 1 .. Len(handles')
  /\ Len(handles) <= Len(handles')
  /\ \A g \in 1 .. Len(handles) : handles'[g].nsp = handles[g].nsp

\* The socket keeps its types.
LEMMA ServerTypeStep == TypeInv /\ [Next]_vars => HandlesGrow /\ ServerType'
<1> SUFFICES ASSUME TypeInv, [Next]_vars PROVE HandlesGrow /\ ServerType'
  OBVIOUS
<1> USE NamespacesAssumption
<1>0. handles \in Seq(Handle) /\ Len(handles) \in Nat /\ DOMAIN handles = 1 .. Len(handles)
  BY DEF TypeInv, ServerType
<1>a. ASSUME UNCHANGED handles PROVE HandlesGrow
  BY <1>0, <1>a DEF HandlesGrow
<1>b. ASSUME NEW n \in Known, attachnsp(n), UNCHANGED <<sock, lock, down>>,
             opc' \in {"attach", "register", "notify", "done"}
      PROVE  HandlesGrow /\ ServerType'
  <2>1. HandlesGrow /\ acks' = [acks EXCEPT ![n] = Len(handles')]
    BY <1>b, AttachFacts DEF HandlesGrow
  <2>2. handles'[Len(handles')].nsp = n /\ Len(handles') # 0
    BY <1>b, AttachFacts
  <2>3. acks \in [Known -> 0 .. Len(handles)] /\ \A k \in Known : acks[k] # 0 => handles[acks[k]].nsp = k
    BY DEF TypeInv, ServerType
  <2>4. acks' \in [Known -> 0 .. Len(handles')]
    BY <2>1, <2>3 DEF HandlesGrow
  <2>5. ASSUME NEW k \in Known, acks'[k] # 0 PROVE handles'[acks'[k]].nsp = k
    BY <2>1, <2>2, <2>3, <2>5 DEF HandlesGrow
  <2> QED  BY <1>b, <2>1, <2>4, <2>5 DEF TypeInv, ServerType, HandlesGrow
<1>c. ASSUME NEW n \in Known, acks' = [acks EXCEPT ![n] = 0], UNCHANGED <<opc, sock, handles, lock, down>>
      PROVE  HandlesGrow /\ ServerType'
  BY <1>a, <1>c DEF TypeInv, ServerType
<1>d. ASSUME HandlesKept, UNCHANGED <<opc, sock, acks, lock, down>>
      PROVE  HandlesGrow /\ ServerType'
  <2>1. HandlesGrow
    BY <1>d DEF HandlesKept, HandlesGrow
  <2> QED  BY <1>d, <2>1 DEF TypeInv, ServerType, HandlesKept
<1>e. ASSUME opc' \in {"attach", "register", "notify", "done"},
             sock' \in {"none", "registered", "removed"},
             lock' \in Handlers \cup {None}, down' \in Downs, UNCHANGED <<handles, acks>>
      PROVE  HandlesGrow /\ ServerType'
  BY <1>a, <1>e DEF TypeInv, ServerType
<1>1. CASE OpenAttach
  BY <1>1, <1>b DEF OpenAttach
<1>2. CASE OpenRegister \/ OpenNotify
  BY <1>2, <1>e DEF OpenRegister, OpenNotify, TypeInv, ServerType
<1>3. ASSUME NEW h \in Handlers, Connect(h) PROVE HandlesGrow /\ ServerType'
  <2>1. hpkt[h].nsp \in Known
    BY <1>3 DEF Connect, TypeInv, HandlerType, Processing
  <2> QED  BY <1>3, <2>1, <1>b DEF Connect, TypeInv, ServerType
<1>4. ASSUME NEW h \in Handlers, Disconnect(h) PROVE HandlesGrow /\ ServerType'
  <2>1. hpkt[h].nsp \in Known
    BY <1>4 DEF Disconnect, TypeInv, HandlerType, Processing
  <2> QED  BY <1>4, <2>1, <1>c DEF Disconnect
<1>5. ASSUME NEW h \in Handlers, DetachNext(h) PROVE HandlesGrow /\ ServerType'
  BY <1>5, <1>c DEF DetachNext
<1>6. ASSUME NEW h \in Handlers, CallAck(h) PROVE HandlesGrow /\ ServerType'
  BY <1>6, <1>d, CallAckFacts DEF CallAck
<1>7. ASSUME NEW a \in Apps, onAck(a) PROVE HandlesGrow /\ ServerType'
  BY <1>7, <1>d, OnAckFacts DEF onAck
<1>8. ASSUME NEW h \in Handlers, CloseFind(h) \/ CloseRemove(h) \/ CloseReturns(h)
      PROVE  HandlesGrow /\ ServerType'
  BY <1>8, <1>e
  DEF CloseFind, CloseRemove, CloseReturns, CloseBegins, Downs, TypeInv, ServerType
<1>9. ASSUME NEW h \in Handlers, DetachLock(h) \/ DetachUnlock(h) PROVE HandlesGrow /\ ServerType'
  BY <1>9, <1>e DEF DetachLock, DetachUnlock, TypeInv, ServerType
<1>10. ASSUME UNCHANGED svars PROVE HandlesGrow /\ ServerType'
  BY <1>10, <1>e DEF svars, TypeInv, ServerType
<1>11. ASSUME NEW h \in Handlers,
              \/ Message(h) \/ ConnectNotify(h) \/ DisconnectNotify(h)
              \/ FindHandle(h) \/ FindCallback(h) \/ CloseJams(h)
       PROVE  HandlesGrow /\ ServerType'
  BY <1>10, <1>11
  DEF Message, ConnectNotify, DisconnectNotify, FindHandle, FindCallback, CloseJams
<1>12. ASSUME NEW a \in Apps, EmitCall(a) \/ EmitFind(a) \/ EmitSend(a)
       PROVE  HandlesGrow /\ ServerType'
  BY <1>10, <1>12 DEF EmitCall, EmitFind, EmitSend
<1>13. CASE ReadFails \/ ClientStep \/ UNCHANGED vars
  BY <1>10, <1>13
  DEF ReadFails, ClientStep, ClientConnect, ClientDisconnect, ClientAck, ClientClose,
      ClientGone, vars
<1> QED
  BY <1>1, <1>2, <1>3, <1>4, <1>5, <1>6, <1>7, <1>8, <1>9, <1>11, <1>12, <1>13
  DEF Next, OpenStep, ProcessStep, EmitStep

\* The handlers keep their types.
LEMMA HandlerTypeStep == TypeInv /\ HandlesGrow /\ [Next]_vars => HandlerType'
<1> SUFFICES ASSUME TypeInv, HandlesGrow, [Next]_vars PROVE HandlerType'
  OBVIOUS
<1>0. /\ hpc \in [Handlers -> Labels] /\ hpkt \in [Handlers -> Packet] /\ ends \in BOOLEAN
      /\ hack \in [Handlers -> 0 .. Len(handles)] /\ hcb \in [Handlers -> 0 .. MaxEmit]
  BY DEF TypeInv, HandlerType
<1>1. hack \in [Handlers -> 0 .. Len(handles')]
  BY <1>0 DEF HandlesGrow
<1>a. ASSUME UNCHANGED <<hpc, hpkt, hack, hcb>>, ends' \in BOOLEAN PROVE HandlerType'
  <2>1. \A h \in Handlers : hpc[h] \in {"find", "call"} =>
          hack[h] # 0 /\ handles'[hack[h]].nsp = hpkt[h].nsp
    BY <1>0 DEF TypeInv, HandlerType, HandlesGrow
  <2> QED  BY <1>1, <1>a, <2>1 DEF TypeInv, HandlerType
<1>b. ASSUME NEW h \in Handlers, NEW l \in Labels \ {"find", "call"}, Goto(h, l),
             l \in Processing => hpkt[h].nsp \in Known,
             UNCHANGED <<hpkt, hack, hcb>>, ends' \in BOOLEAN
      PROVE  HandlerType'
  <2>1. hpc' \in [Handlers -> Labels] /\ hpc'[h] = l /\ \A k \in Handlers : k # h => hpc'[k] = hpc[k]
    BY <1>0, <1>b DEF Goto
  <2>2. \A k \in Handlers : hpc'[k] \in {"find", "call"} =>
          hack[k] # 0 /\ handles'[hack[k]].nsp = hpkt[k].nsp
    BY <1>0, <1>b, <2>1 DEF TypeInv, HandlerType, HandlesGrow
  <2>3. \A k \in Handlers : hpc'[k] \in Processing => hpkt[k].nsp \in Known
    BY <1>0, <1>b, <2>1 DEF TypeInv, HandlerType
  <2> QED  BY <1>0, <1>1, <1>b, <2>1, <2>2, <2>3 DEF HandlerType
<1> USE DEF Processing, Labels, hvars
<1>2. ASSUME NEW h \in Handlers, Message(h) PROVE HandlerType'
  <2> DEFINE p == Head(inbox)
  <2>1. p \in InPacket
    BY <1>2, HeadTailProperties DEF Message, TypeInv, ClientType
  <2> HIDE DEF p
  <2>2. CASE hpkt' = [hpkt EXCEPT ![h] = p] /\ Goto(h, CaseOf(p))
    <3>1. /\ CaseOf(p) \in Labels \ {"find", "call"}
          /\ CaseOf(p) \in Processing => p.nsp \in Known
      BY <2>1 DEF CaseOf, InPacket, Packet
    <3>2. /\ hpc' \in [Handlers -> Labels] /\ hpc'[h] = CaseOf(p) /\ hpkt'[h] = p
          /\ hpkt' \in [Handlers -> Packet]
          /\ \A k \in Handlers : k # h => hpc'[k] = hpc[k] /\ hpkt'[k] = hpkt[k]
      BY <1>0, <2>1, <2>2, <3>1 DEF Goto, InPacket
    <3>3. UNCHANGED <<hack, hcb, ends, handles>>
      BY <1>2 DEF Message, svars
    <3>4. \A k \in Handlers : hpc'[k] \in {"find", "call"} =>
            hack[k] # 0 /\ handles'[hack[k]].nsp = hpkt'[k].nsp
      BY <1>0, <3>1, <3>2, <3>3 DEF TypeInv, HandlerType
    <3>5. \A k \in Handlers : hpc'[k] \in Processing => hpkt'[k].nsp \in Known
      BY <1>0, <3>1, <3>2 DEF TypeInv, HandlerType
    <3> QED  BY <1>0, <1>1, <3>2, <3>3, <3>4, <3>5 DEF HandlerType
  <2>3. CASE UNCHANGED <<hpc, hpkt>>
    BY <1>0, <1>a, <1>2, <2>3 DEF Message
  <2> QED  BY <1>2, <2>2, <2>3 DEF Message, p
<1>3. ASSUME NEW h \in Handlers, Connect(h) PROVE HandlerType'
  BY <1>0, <1>3, <1>b DEF Connect, TypeInv, HandlerType
<1>4. ASSUME NEW h \in Handlers, ConnectNotify(h) PROVE HandlerType'
  BY <1>0, <1>4, <1>b DEF ConnectNotify
<1>5. ASSUME NEW h \in Handlers, Disconnect(h) PROVE HandlerType'
  BY <1>0, <1>5, <1>b DEF Disconnect, TypeInv, HandlerType
<1>6. ASSUME NEW h \in Handlers, DisconnectNotify(h) PROVE HandlerType'
  BY <1>0, <1>6, <1>b DEF DisconnectNotify
<1>7. ASSUME NEW h \in Handlers, FindHandle(h) PROVE HandlerType'
  <2>1. /\ hack' = [hack EXCEPT ![h] = acks[hpkt[h].nsp]] /\ hpc[h] = "ack"
        /\ Goto(h, IF acks[hpkt[h].nsp] = 0 THEN "idle" ELSE "find")
        /\ UNCHANGED <<hpkt, hcb, ends, handles>>
    BY <1>7 DEF FindHandle, svars
  <2>2. hpkt[h].nsp \in Known
    BY <2>1 DEF TypeInv, HandlerType
  <2> DEFINE g == acks[hpkt[h].nsp]
  <2>3. g \in 0 .. Len(handles) /\ (g # 0 => handles[g].nsp = hpkt[h].nsp)
    BY <2>2 DEF TypeInv, ServerType
  <2>4. /\ hack'[h] = g /\ hack' \in [Handlers -> 0 .. Len(handles')]
        /\ hpc'[h] = IF g = 0 THEN "idle" ELSE "find"
        /\ hpc' \in [Handlers -> Labels]
        /\ \A k \in Handlers : k # h => hpc'[k] = hpc[k] /\ hack'[k] = hack[k]
    BY <1>0, <2>1, <2>3 DEF Goto
  <2> HIDE DEF g
  <2>5. \A k \in Handlers : hpc'[k] \in {"find", "call"} =>
          hack'[k] # 0 /\ handles'[hack'[k]].nsp = hpkt'[k].nsp
    BY <1>0, <2>1, <2>3, <2>4 DEF TypeInv, HandlerType
  <2>6. \A k \in Handlers : hpc'[k] \in Processing => hpkt'[k].nsp \in Known
    BY <1>0, <2>1, <2>2, <2>4 DEF TypeInv, HandlerType
  <2> QED  BY <1>0, <2>1, <2>4, <2>5, <2>6 DEF HandlerType
<1>8. ASSUME NEW h \in Handlers, FindCallback(h) PROVE HandlerType'
  <2>1. hpc[h] = "find" /\ UNCHANGED <<hpkt, hack, ends, handles>>
    BY <1>8 DEF FindCallback, svars
  <2>2. hack[h] \in 1 .. Len(handles) /\ handles[hack[h]] \in Handle
    BY <1>0, <2>1 DEF TypeInv, HandlerType, ServerType
  <2>3. CASE Goto(h, "idle") /\ UNCHANGED hcb
    BY <1>0, <1>b, <2>1, <2>3
  <2>4. ASSUME NEW e \in handles[hack[h]].ackmap, hcb' = [hcb EXCEPT ![h] = e[2]], Goto(h, "call")
        PROVE  HandlerType'
    <3>1. e[2] \in 0 .. MaxEmit
      BY <2>2 DEF Handle
    <3>2. hcb' \in [Handlers -> 0 .. MaxEmit]
      BY <1>0, <2>4, <3>1
    <3>3. /\ hpc'[h] = "call" /\ hpc' \in [Handlers -> Labels]
          /\ \A k \in Handlers : k # h => hpc'[k] = hpc[k]
      BY <1>0, <2>4 DEF Goto
    <3>4. \A k \in Handlers : hpc'[k] \in {"find", "call"} =>
            hack[k] # 0 /\ handles[hack[k]].nsp = hpkt[k].nsp
      BY <2>1, <3>3 DEF TypeInv, HandlerType
    <3>5. \A k \in Handlers : hpc'[k] \in Processing => hpkt[k].nsp \in Known
      BY <2>1, <3>3 DEF TypeInv, HandlerType
    <3> QED  BY <1>0, <2>1, <3>2, <3>3, <3>4, <3>5 DEF HandlerType
  <2> QED  BY <1>8, <2>3, <2>4 DEF FindCallback
<1>9. ASSUME NEW h \in Handlers, CallAck(h) PROVE HandlerType'
  BY <1>0, <1>9, <1>b DEF CallAck
<1>10. CASE ReadFails
  BY <1>0, <1>10, <1>b, NamespacesAssumption DEF ReadFails
<1>11. ASSUME NEW h \in Handlers, CloseFind(h) PROVE HandlerType'
  BY <1>0, <1>11, <1>b DEF CloseFind
<1>12. ASSUME NEW h \in Handlers, CloseRemove(h) PROVE HandlerType'
  BY <1>0, <1>12, <1>b DEF CloseRemove
<1>13. ASSUME NEW h \in Handlers, DetachLock(h) PROVE HandlerType'
  BY <1>0, <1>13, <1>b DEF DetachLock
<1>14. ASSUME NEW h \in Handlers, DetachNext(h) PROVE HandlerType'
  BY <1>0, <1>14, <1>b DEF DetachNext
<1>15. ASSUME NEW h \in Handlers, DetachUnlock(h) PROVE HandlerType'
  BY <1>0, <1>15, <1>b DEF DetachUnlock, Back
<1>16. CASE OpenStep \/ ClientStep \/ (\E a \in Apps : EmitCall(a) \/ EmitStep(a)) \/ UNCHANGED vars
  <2>1. UNCHANGED hvars
    BY <1>16
    DEF OpenStep, OpenAttach, OpenRegister, OpenNotify, ClientStep, ClientConnect,
        ClientDisconnect, ClientAck, ClientClose, ClientGone, EmitCall, EmitStep, EmitFind,
        onAck, EmitSend, vars
  <2> QED  BY <1>0, <1>a, <2>1
<1>17. ASSUME NEW h \in Handlers, CloseReturns(h) PROVE HandlerType'
  BY <1>0, <1>17, <1>b DEF CloseReturns, Back
<1>18. ASSUME NEW h \in Handlers, CloseJams(h) PROVE HandlerType'
  BY <1>0, <1>18, <1>b DEF CloseJams
<1> QED
  BY <1>2, <1>3, <1>4, <1>5, <1>6, <1>7, <1>8, <1>9, <1>10, <1>11, <1>12, <1>13, <1>14,
     <1>15, <1>16, <1>17, <1>18
  DEF Next, ProcessStep

\* The application's goroutines keep their types.
LEMMA AppTypeStep == TypeInv /\ HandlesGrow /\ [Next]_vars => AppType'
<1> SUFFICES ASSUME TypeInv, HandlesGrow, [Next]_vars PROVE AppType'
  OBVIOUS
<1>0. /\ apc \in [Apps -> {"idle", "find", "onack", "send"}] /\ acall \in [Apps -> Call]
      /\ nemit \in 0 .. MaxEmit
  BY DEF TypeInv, AppType
<1>1. \A a \in Apps : apc[a] \in {"onack", "send"} =>
        /\ acall[a].handle \in 1 .. Len(handles')
        /\ handles'[acall[a].handle].nsp = acall[a].nsp
  BY DEF TypeInv, AppType, HandlesGrow
<1>a. ASSUME NEW a \in Apps, NEW l \in {"idle", "find", "onack", "send"}, NEW c \in Call,
             acall' = [acall EXCEPT ![a] = c], apc' = [apc EXCEPT ![a] = l],
             l # "idle" => c.event # 0,
             l \in {"onack", "send"} => /\ c.handle \in 1 .. Len(handles')
                                        /\ handles'[c.handle].nsp = c.nsp,
             nemit' \in 0 .. MaxEmit
      PROVE  AppType'
  <2>1. /\ apc' \in [Apps -> {"idle", "find", "onack", "send"}] /\ acall' \in [Apps -> Call]
        /\ apc'[a] = l /\ acall'[a] = c
        /\ \A b \in Apps : b # a => apc'[b] = apc[b] /\ acall'[b] = acall[b]
    BY <1>0, <1>a
  <2>2. \A b \in Apps : apc'[b] # "idle" => acall'[b].event # 0
    BY <1>a, <2>1 DEF TypeInv, AppType
  <2>3. \A b \in Apps : apc'[b] \in {"onack", "send"} =>
          /\ acall'[b].handle \in 1 .. Len(handles')
          /\ handles'[acall'[b].handle].nsp = acall'[b].nsp
    BY <1>1, <1>a, <2>1
  <2> QED  BY <1>a, <2>1, <2>2, <2>3 DEF AppType
<1>2. ASSUME NEW a \in Apps, EmitCall(a) PROVE AppType'
  <2>1. PICK n \in Known : acall' = [acall EXCEPT ![a] = [NoCall EXCEPT !.nsp = n, !.event = nemit']]
    BY <1>2 DEF EmitCall
  <2> DEFINE c == [NoCall EXCEPT !.nsp = n, !.event = nemit']
  <2>2. nemit' \in 1 .. MaxEmit /\ nemit' \in 0 .. MaxEmit /\ nemit' # 0
    BY <1>0, <1>2, NamespacesAssumption DEF EmitCall
  <2>3. c \in Call /\ c.event = nemit'
    BY <2>2, PacketsMade
  <2>4. acall' = [acall EXCEPT ![a] = c] /\ apc' = [apc EXCEPT ![a] = "find"]
    BY <1>2, <2>1 DEF EmitCall
  <2> HIDE DEF c
  <2> QED  BY <1>a, <2>2, <2>3, <2>4
<1>3. ASSUME NEW a \in Apps, EmitFind(a) PROVE AppType'
  <2> DEFINE g == acks[acall[a].nsp]
             c == [acall[a] EXCEPT !.handle = g]
  <2>1. acall[a] \in Call /\ acall[a].nsp \in Known /\ acall[a].event # 0
    BY <1>0, <1>3 DEF EmitFind, Call, TypeInv, AppType
  <2>2. /\ g \in 0 .. Len(handles) /\ g \in Nat
        /\ g # 0 => g \in 1 .. Len(handles) /\ handles[g].nsp = acall[a].nsp
    BY <2>1 DEF TypeInv, ServerType, HandlesGrow
  <2>3. /\ acall' = [acall EXCEPT ![a] = c] /\ UNCHANGED <<handles, nemit>>
        /\ apc' = [apc EXCEPT ![a] = IF g = 0 THEN "idle" ELSE "onack"]
    BY <1>0, <1>3 DEF EmitFind, svars
  <2> HIDE DEF g
  <2>4. c \in Call /\ c.handle = g /\ c.nsp = acall[a].nsp /\ c.event = acall[a].event
    BY <2>1, <2>2 DEF Call
  <2> HIDE DEF c
  <2> QED  BY <1>0, <1>a, <2>1, <2>2, <2>3, <2>4
<1>4. ASSUME NEW a \in Apps, onAck(a) PROVE AppType'
  <2> DEFINE id == handles[acall[a].handle].id + 1
             c == [acall[a] EXCEPT !.id = id]
  <2>1. /\ acall[a] \in Call /\ acall[a].event # 0 /\ acall[a].handle \in 1 .. Len(handles')
        /\ handles'[acall[a].handle].nsp = acall[a].nsp
    BY <1>0, <1>1, <1>4 DEF onAck, TypeInv, AppType
  <2>2. acall' = [acall EXCEPT ![a] = c] /\ id \in Nat
    BY <1>0, <1>4, OnAckFacts
  <2>3. nemit' = nemit /\ apc' = [apc EXCEPT ![a] = "send"]
    BY <1>4 DEF onAck
  <2> HIDE DEF id
  <2>4. c \in Call /\ c.handle = acall[a].handle /\ c.nsp = acall[a].nsp /\ c.event = acall[a].event
    BY <2>1, <2>2 DEF Call
  <2> HIDE DEF c
  <2> QED  BY <1>0, <1>a, <2>1, <2>2, <2>3, <2>4
<1>5. ASSUME NEW a \in Apps, EmitSend(a) PROVE AppType'
  <2>1. /\ acall' = [acall EXCEPT ![a] = acall[a]] /\ acall[a] \in Call
        /\ apc' = [apc EXCEPT ![a] = "idle"] /\ nemit' = nemit
    BY <1>0, <1>5 DEF EmitSend
  <2> QED  BY <1>0, <1>a, <2>1
<1>6. CASE OpenStep \/ ReadFails \/ ClientStep \/ UNCHANGED vars
  <2>1. UNCHANGED avars
    BY <1>6
    DEF OpenStep, OpenAttach, OpenRegister, OpenNotify, ReadFails, ClientStep, ClientConnect,
        ClientDisconnect, ClientAck, ClientClose, ClientGone, vars
  <2> QED  BY <1>1, <2>1 DEF avars, TypeInv, AppType
<1>7. CASE \E h \in Handlers : Message(h) \/ ProcessStep(h) \/ CloseJams(h)
  <2>1. UNCHANGED avars
    BY <1>7
    DEF Message, ProcessStep, Connect, ConnectNotify, Disconnect, DisconnectNotify,
        FindHandle, FindCallback, CallAck, CloseFind, CloseRemove, CloseReturns, CloseJams,
        DetachLock, DetachNext, DetachUnlock
  <2> QED  BY <1>1, <2>1 DEF avars, TypeInv, AppType
<1> QED  BY <1>2, <1>3, <1>4, <1>5, <1>6, <1>7 DEF Next, EmitStep

\* The packets and events under way keep their types.
LEMMA ClientTypeStep == TypeInv /\ [Next]_vars => ClientType'
<1> SUFFICES ASSUME TypeInv, [Next]_vars PROVE ClientType'
  OBVIOUS
<1>0. /\ inbox \in Seq(InPacket) /\ events \subseteq Event /\ lost \in BOOLEAN
      /\ joined \subseteq Nsps /\ nconn \in [Nsps -> 0 .. MaxConnect]
      /\ nack \in [1 .. MaxEmit -> 0 .. MaxAck]
  BY DEF TypeInv, ClientType
<1>a. ASSUME NEW p \in InPacket, ClientSends(p) PROVE inbox' \in Seq(InPacket)
  BY <1>0, <1>a DEF ClientSends
<1>1. ASSUME NEW h \in Handlers, Message(h) PROVE ClientType'
  <2>1. Tail(inbox) \in Seq(InPacket)
    BY <1>0, <1>1, HeadTailProperties DEF Message
  <2> QED  BY <1>0, <1>1, <2>1 DEF Message, ClientType
<1>2. ASSUME NEW a \in Apps, EmitSend(a) PROVE ClientType'
  <2> DEFINE e == [nsp |-> acall[a].nsp, id |-> acall[a].id, event |-> acall[a].event]
  <2>1. e \in Event
    <3>1. acall[a] \in Call /\ acall[a].event # 0
      BY <1>2 DEF EmitSend, TypeInv, AppType
    <3> QED  BY <3>1, NamespacesAssumption DEF Call, Event
  <2>2. events' \subseteq events \cup {e} /\ UNCHANGED <<inbox, lost, joined, nconn, nack>>
    BY <1>2 DEF EmitSend
  <2> HIDE DEF e
  <2> QED  BY <1>0, <2>1, <2>2 DEF ClientType
<1>3. ASSUME NEW n \in Nsps, ClientConnect(n) PROVE ClientType'
  <2>1. inbox' \in Seq(InPacket)
    BY <1>3, <1>a, PacketsMade DEF ClientConnect
  <2>2. nconn' \in [Nsps -> 0 .. MaxConnect]
    BY <1>0, <1>3, NamespacesAssumption DEF ClientConnect
  <2> QED  BY <1>0, <1>3, <2>1, <2>2 DEF ClientConnect, ClientType
<1>4. ASSUME NEW n \in Nsps, ClientDisconnect(n) PROVE ClientType'
  <2>1. inbox' \in Seq(InPacket)
    BY <1>4, <1>a, PacketsMade DEF ClientDisconnect
  <2> QED  BY <1>0, <1>4, <2>1 DEF ClientDisconnect, ClientType
<1>5. ASSUME NEW e \in events, ClientAck(e) PROVE ClientType'
  <2>1. inbox' \in Seq(InPacket)
    BY <1>0, <1>5, <1>a, PacketsMade DEF ClientAck
  <2>2. nack' \in [1 .. MaxEmit -> 0 .. MaxAck]
    <3>1. PICK k \in 1 .. MaxEmit : k = e.event
      BY <1>0 DEF Event
    <3>2. nack[k] + 1 \in 0 .. MaxAck
      BY <1>0, <1>5, <3>1, NamespacesAssumption DEF ClientAck
    <3> QED  BY <1>0, <1>5, <3>1, <3>2 DEF ClientAck
  <2> QED  BY <1>0, <1>5, <2>1, <2>2 DEF ClientAck, ClientType
<1>6. CASE ClientClose
  <2>1. inbox' \in Seq(InPacket)
    BY <1>6, <1>a, PacketsMade DEF ClientClose
  <2> QED  BY <1>0, <1>6, <2>1 DEF ClientClose, ClientType
<1>7. CASE ClientGone
  BY <1>0, <1>7 DEF ClientGone, ClientType
<1>8. CASE OpenStep \/ ReadFails \/ UNCHANGED vars
  <2>1. UNCHANGED clvars
    BY <1>8 DEF OpenStep, OpenAttach, OpenRegister, OpenNotify, ReadFails, vars
  <2> QED  BY <1>0, <2>1 DEF clvars, ClientType
<1>9. CASE \E h \in Handlers : ProcessStep(h) \/ CloseJams(h)
  <2>1. UNCHANGED clvars
    BY <1>9
    DEF ProcessStep, Connect, ConnectNotify, Disconnect, DisconnectNotify, FindHandle,
        FindCallback, CallAck, CloseFind, CloseRemove, CloseReturns, CloseJams, DetachLock,
        DetachNext, DetachUnlock
  <2> QED  BY <1>0, <2>1 DEF clvars, ClientType
<1>10. CASE \E a \in Apps : EmitCall(a) \/ EmitFind(a) \/ onAck(a)
  <2>1. UNCHANGED clvars
    BY <1>10 DEF EmitCall, EmitFind, onAck
  <2> QED  BY <1>0, <2>1 DEF clvars, ClientType
<1> QED
  BY <1>1, <1>2, <1>3, <1>4, <1>5, <1>6, <1>7, <1>8, <1>9, <1>10
  DEF Next, EmitStep, ClientStep

\* The histories keep their types.
LEMMA HistoryTypeStep == TypeInv /\ [Next]_vars => HistoryType'
<1> SUFFICES ASSUME TypeInv, [Next]_vars PROVE HistoryType'
  OBVIOUS
<1> DEFINE Notes == {"connect", "disconnect"} \X Known
           Fired == (0 .. MaxEmit) \X (0 .. MaxEmit)
<1>0. fired \in Seq(Fired) /\ notes \in Seq(Notes) /\ ignored \in Seq(InPacket)
  BY DEF TypeInv, HistoryType
<1>a. ASSUME NEW w \in {"connect", "disconnect"}, NEW n \in Known, Note(w, n),
             UNCHANGED <<fired, ignored>>
      PROVE  HistoryType'
  <2>1. <<w, n>> \in Notes
    OBVIOUS
  <2> HIDE DEF Notes
  <2>2. notes' \in Seq(Notes)
    BY <1>0, <1>a, <2>1 DEF Note
  <2> QED  BY <1>0, <1>a, <2>2 DEF HistoryType, Notes
<1>1. CASE OpenNotify
  BY <1>1, <1>a, NamespacesAssumption DEF OpenNotify
<1>2. ASSUME NEW h \in Handlers, ConnectNotify(h) \/ DisconnectNotify(h) PROVE HistoryType'
  <2>1. hpkt[h].nsp \in Known
    BY <1>2 DEF ConnectNotify, DisconnectNotify, TypeInv, HandlerType, Processing
  <2> QED  BY <1>2, <1>a, <2>1 DEF ConnectNotify, DisconnectNotify
<1>3. ASSUME NEW h \in Handlers, DetachNext(h) PROVE HistoryType'
  BY <1>3, <1>a DEF DetachNext
<1>4. ASSUME NEW h \in Handlers, CallAck(h) PROVE HistoryType'
  <2>1. <<hcb[h], hpkt[h].event>> \in Fired
    BY DEF TypeInv, HandlerType, Packet
  <2> DEFINE f == <<hcb[h], hpkt[h].event>>
  <2>2. fired' = Append(fired, f) /\ f \in Fired
    BY <1>4, <2>1 DEF CallAck
  <2> HIDE DEF f, Fired
  <2>3. fired' \in Seq(Fired)
    BY <1>0, <2>2
  <2> QED  BY <1>0, <1>4, <2>3 DEF CallAck, HistoryType, Fired
<1>5. ASSUME NEW h \in Handlers, Message(h) PROVE HistoryType'
  <2>1. Head(inbox) \in InPacket
    BY <1>5, HeadTailProperties DEF Message, TypeInv, ClientType
  <2>2. ignored' \in Seq(InPacket)
    <3> DEFINE p == Head(inbox)
    <3>1. ignored' = ignored \/ ignored' = Append(ignored, p)
      BY <1>5 DEF Message
    <3>2. p \in InPacket
      BY <2>1
    <3> HIDE DEF p
    <3> QED  BY <1>0, <3>1, <3>2
  <2> QED  BY <1>0, <1>5, <2>2 DEF Message, HistoryType
<1>6. ASSUME UNCHANGED <<fired, notes, ignored>> PROVE HistoryType'
  BY <1>0, <1>6 DEF HistoryType
<1>7. CASE OpenAttach \/ OpenRegister \/ ReadFails \/ ClientStep \/ UNCHANGED vars
  BY <1>6, <1>7
  DEF OpenAttach, OpenRegister, ReadFails, ClientStep, ClientConnect, ClientDisconnect,
      ClientAck, ClientClose, ClientGone, vars
<1>8. ASSUME NEW h \in Handlers,
             \/ Connect(h) \/ Disconnect(h) \/ FindHandle(h) \/ FindCallback(h)
             \/ CloseFind(h) \/ CloseRemove(h) \/ CloseReturns(h) \/ CloseJams(h)
             \/ DetachLock(h) \/ DetachUnlock(h)
      PROVE  HistoryType'
  BY <1>6, <1>8
  DEF Connect, Disconnect, FindHandle, FindCallback, CloseFind, CloseRemove, CloseReturns,
      CloseJams, DetachLock, DetachUnlock
<1>9. CASE \E a \in Apps : EmitCall(a) \/ EmitStep(a)
  BY <1>6, <1>9 DEF EmitCall, EmitStep, EmitFind, onAck, EmitSend
<1> QED
  BY <1>1, <1>2, <1>3, <1>4, <1>5, <1>7, <1>8, <1>9 DEF Next, OpenStep, ProcessStep

\* Every step keeps the types.
LEMMA TypeInvStep == TypeInv /\ [Next]_vars => HandlesGrow /\ TypeInv'
  BY ServerTypeStep, HandlerTypeStep, AppTypeStep, ClientTypeStep, HistoryTypeStep DEF TypeInv

\* The types hold in every reachable state.
THEOREM TypeInvariance == Spec => []TypeInv
  BY TypeInvInit, TypeInvStep, PTL DEF Spec

\* A namespace is always attached to a handle made for it, and a goroutine that found a
\* handle works on one of the same namespace.
THEOREM NamespacesTypeCorrect == Spec => []NamespacesTypeOK
  BY TypeInvariance, TypeInvTypes, PTL

-----------------------------------------------------------------------------
(* One handler: what EventClose leaves behind.                             *)

\* The reader is alone: it removes a session that is registered, and then does nothing
\* with the socket but detach what is attached.
CloseInv ==
  /\ sock # "none" => opc \in {"notify", "done"}
  /\ hpc[Reader] = "remove" => sock = "registered"
  /\ sock = "removed" =>
       \/ hpc[Reader] \in {"close", "lockall", "detachall", "stuck"}
       \/ hpc[Reader] \in {"idle", "ended", "closing", "shut"} /\ \A n \in Known : acks[n] = 0

\* Every step of a session that only its reader handles preserves this.
LEMMA CloseInvStep ==
  ASSUME Handlers = {Reader}, TypeInv, CloseInv, [Next]_vars
  PROVE  CloseInv'
<1> USE DEF CloseInv
<1>0. hpc \in [{Reader} -> Labels]
  BY DEF TypeInv, HandlerType
<1>a. ASSUME NEW l, Goto(Reader, l) PROVE hpc'[Reader] = l
  BY <1>0, <1>a DEF Goto
<1> USE <1>a DEF svars, hvars
<1>1. CASE OpenAttach
  BY <1>1 DEF OpenAttach
<1>2. CASE OpenRegister
  BY <1>2 DEF OpenRegister
<1>3. CASE OpenNotify
  BY <1>3 DEF OpenNotify
<1>4. CASE Message(Reader)
  BY <1>4 DEF Message, CaseOf, TypeInv, ServerType
<1>5. CASE Connect(Reader)
  BY <1>5 DEF Connect
<1>6. CASE ConnectNotify(Reader)
  BY <1>6 DEF ConnectNotify
<1>7. CASE Disconnect(Reader)
  BY <1>7 DEF Disconnect
<1>8. CASE DisconnectNotify(Reader)
  BY <1>8 DEF DisconnectNotify
<1>9. CASE FindHandle(Reader)
  BY <1>9 DEF FindHandle
<1>10. CASE FindCallback(Reader)
  BY <1>10 DEF FindCallback
<1>11. CASE CallAck(Reader)
  BY <1>11 DEF CallAck
<1>12. CASE ReadFails
  BY <1>12 DEF ReadFails
<1>13. CASE CloseFind(Reader)
  BY <1>13 DEF CloseFind
<1>14. CASE CloseRemove(Reader)
  BY <1>14 DEF CloseRemove
<1>15. CASE DetachLock(Reader)
  BY <1>15 DEF DetachLock
<1>16. CASE DetachNext(Reader)
  BY <1>16 DEF DetachNext
<1>17. CASE DetachUnlock(Reader)
  BY <1>17 DEF DetachUnlock, Back
<1>18. CASE (\E a \in Apps : EmitCall(a) \/ EmitStep(a)) \/ ClientStep \/ UNCHANGED vars
  <2>1. UNCHANGED <<opc, sock, acks, hpc>>
    BY <1>18
    DEF EmitCall, EmitStep, EmitFind, onAck, EmitSend, ClientStep, ClientConnect,
        ClientDisconnect, ClientAck, ClientClose, ClientGone, vars
  <2> QED  BY <2>1
<1>19. CASE CloseReturns(Reader)
  BY <1>19 DEF CloseReturns, Back
<1>20. ~CloseJams(Reader)
  BY DEF CloseJams
<1> QED
  BY <1>1, <1>2, <1>3, <1>4, <1>5, <1>6, <1>7, <1>8, <1>9, <1>10, <1>11, <1>12, <1>13,
     <1>14, <1>15, <1>16, <1>17, <1>18, <1>19, <1>20
  DEF Next, OpenStep, ProcessStep

\* In a session that no upgrade handles packets of, nothing is attached any more once the
\* callback of EventClose has removed the session and returned.
THEOREM ReaderDetaches == ASSUME Handlers = {Reader} PROVE Spec => []DetachedAfterClose
<1>1. Init => CloseInv
  BY DEF Init, CloseInv
<1>2. TypeInv /\ CloseInv /\ [Next]_vars => CloseInv'
  BY CloseInvStep
<1>3. CloseInv => DetachedAfterClose
  BY DEF CloseInv, DetachedAfterClose
<1> QED  BY <1>1, <1>2, <1>3, TypeInvariance, PTL DEF Spec

-----------------------------------------------------------------------------
(* One handler: what OnDisconnect hears.                                   *)

Bits == {0, 1}
Bit(b) == IF b THEN 1 ELSE 0
\* What a packet p means for n: CONNECT attaches what is not attached, DISCONNECT detaches
\* what is, and others change nothing.
Turns(p, n, l, k) ==
  IF p.nsp = n /\ p.type \in {"connect", "disconnect"}
  THEN l = Bit(p.type = "disconnect") /\ k = Bit(p.type = "connect") ELSE k = l

\* The reader processes packets only of a registered session, detaches all only when it
\* has removed it, and detaches only what is attached.
StageInv ==
  /\ sock # "none" => opc \in {"notify", "done"}
  /\ hpc[Reader] \in {"connect", "connected", "disconnect", "disconnected", "remove"} =>
       sock = "registered"
  /\ hpc[Reader] \in {"close", "lockall", "detachall", "stuck"} => sock = "removed"
  /\ ignored = <<>> /\ hpc[Reader] = "disconnect" => acks[hpkt[Reader].nsp] # 0

\* Whether n is attached once the packet at hand is processed.
Live(n) ==
  IF hpc[Reader] \in {"connect", "disconnect"} /\ hpkt[Reader].nsp = n
  THEN Bit(hpc[Reader] = "connect") ELSE Bit(acks[n] # 0 \/ (n = Root /\ opc = "attach"))
Joined(n) == Bit(n \in joined)

\* f says whether n is attached after each packet of q: l at first, j at last.
Follows(f, q, n, l, j) ==
  /\ f[0] = l /\ f[Len(q)] = j
  /\ \A i \in 1 .. Len(q) : Turns(q[i], n, f[i - 1], f[i])
Path == [Nat -> Bits]
Alternates(n) == \E f \in Path : Follows(f, inbox, n, Live(n), Joined(n))
AlternateInv ==
  ignored = <<>> /\ sock # "removed" => \A n \in Known : Alternates(n)

\* What is attached, or was just detached, is still to be told of.
ToTell(n) == Bit(acks[n] # 0) + Bit(hpc[Reader] = "disconnected" /\ hpkt[Reader].nsp = n)
CountInv ==
  ignored = <<>> => \A n \in Known : Count("disconnect", n) + ToTell(n) <= Attached(n)

OnceInv == StageInv /\ AlternateInv /\ CountInv

\* A packet joins the inbox.
LEMMA FollowsAppend ==
  ASSUME NEW q \in Seq(InPacket), NEW p \in InPacket, NEW n, NEW l \in Bits, NEW j \in Bits,
         NEW k \in Bits, NEW f \in Path, Follows(f, q, n, l, j),
         Turns(p, n, j, k)
  PROVE  \E g \in Path : Follows(g, Append(q, p), n, l, k)
<1>1. PICK m \in Nat : m = Len(q)
  OBVIOUS
<1>2. PICK b \in Bits : b = k
  OBVIOUS
<1>3. PICK g \in Path : g = [f EXCEPT ![m + 1] = b]
  BY <1>1 DEF Path
<1>4. g[m + 1] = b /\ \A i \in 0 .. m : g[i] = f[i]
  BY <1>1, <1>3 DEF Path
<1>5. PICK r : r = Append(q, p)
  OBVIOUS
<1>6. Len(r) = m + 1 /\ r[m + 1] = p /\ \A i \in 1 .. m : r[i] = q[i]
  BY <1>1, <1>5
<1>7. g[0] = l /\ g[Len(r)] = k
  BY <1>1, <1>2, <1>4, <1>6 DEF Follows
<1>8. ASSUME NEW i \in 1 .. Len(r)
      PROVE  Turns(r[i], n, g[i - 1], g[i])
  <2>1. CASE i \in 1 .. m
    <3>1. r[i] = q[i] /\ g[i] = f[i] /\ g[i - 1] = f[i - 1]
      BY <1>1, <1>4, <1>6, <2>1
    <3> QED  BY <1>1, <2>1, <3>1 DEF Follows
  <2>2. CASE i = m + 1
    <3>1. r[i] = p /\ g[i] = k /\ g[i - 1] = j
      BY <1>1, <1>2, <1>4, <1>6, <2>2 DEF Follows
    <3> QED  BY <3>1
  <2> QED  BY <1>1, <1>6, <2>1, <2>2
<1> QED  BY <1>3, <1>5, <1>7, <1>8 DEF Follows

\* The first packet leaves the inbox.
LEMMA FollowsTail ==
  ASSUME NEW q \in Seq(InPacket), q # <<>>, NEW n, NEW l \in Bits, NEW j \in Bits,
         NEW f \in Path, Follows(f, q, n, l, j), NEW p, p = Head(q)
  PROVE  \E k \in Bits, g \in Path : Turns(p, n, l, k) /\ Follows(g, Tail(q), n, k, j)
<1>0. PICK m \in Nat : m = Len(q) - 1
  BY EmptySeq, LenProperties
<1>1. Len(q) = m + 1
  BY <1>0, LenProperties
<1>2. PICK r : r = Tail(q)
  OBVIOUS
<1>3. /\ Len(r) = m /\ \A i \in 1 .. m : r[i] = q[i + 1]
      /\ Head(q) = q[1]
  BY <1>1, <1>2
<1>4. PICK g \in Path : g = [i \in Nat |-> f[i + 1]]
  <2>1. \A i \in Nat : f[i + 1] \in Bits
    BY DEF Path
  <2> QED  BY <2>1 DEF Path
<1>5. \A i \in Nat : g[i] = f[i + 1]
  BY <1>4
<1>6. p = q[1]
  BY <1>3
<1>9. PICK k \in Bits : k = f[1] /\ Turns(p, n, l, k)
  <2>1. f[1] \in Bits /\ 1 \in 1 .. Len(q) /\ 1 - 1 = 0
    BY <1>1 DEF Path
  <2> QED  BY <1>6, <2>1 DEF Follows
<1>11. g[0] = k /\ g[m] = j
  <2>1. g[0] = f[1] /\ g[m] = f[Len(q)]
    BY <1>1, <1>5
  <2> QED  BY <1>9, <2>1 DEF Follows
<1>12. ASSUME NEW i \in 1 .. m
      PROVE  Turns(r[i], n, g[i - 1], g[i])
  <2>1. r[i] = q[i + 1] /\ g[i] = f[i + 1] /\ g[i - 1] = f[i] /\ i + 1 \in 1 .. Len(q)
    <3>1. i \in Nat /\ i - 1 \in Nat /\ (i - 1) + 1 = i /\ i + 1 \in 1 .. (m + 1)
      OBVIOUS
    <3> QED  BY <1>1, <1>3, <1>5, <3>1
  <2>2. (i + 1) - 1 = i
    OBVIOUS
  <2> QED  BY <2>1, <2>2 DEF Follows
<1>13. Follows(g, r, n, k, j)
  BY <1>3, <1>11, <1>12 DEF Follows
<1> QED  BY <1>2, <1>9, <1>13

\* One more place, that counts or does not.
LEMMA OneMore ==
  ASSUME NEW m \in Nat, NEW D \in SUBSET (1 .. m), NEW b \in BOOLEAN, NEW E,
         E = IF b THEN D \cup {m + 1} ELSE D
  PROVE  Cardinality(D) \in Nat /\ Cardinality(E) = Cardinality(D) + Bit(b)
<1>1. IsFiniteSet(D) /\ Cardinality(D) \in Nat
  <2>1. 1 \in Int /\ m \in Int
    OBVIOUS
  <2> QED  BY <2>1, FS_Interval, FS_Subset, FS_CardinalityType
<1>2. m + 1 \notin D
  OBVIOUS
<1>3. Cardinality(D \cup {m + 1}) = Cardinality(D) + 1
  BY <1>1, <1>2, FS_AddElement
<1> QED  BY <1>1, <1>3 DEF Bit

\* What Note does to the counts.
LEMMA CountMore ==
  ASSUME TypeInv, NEW w \in {"connect", "disconnect"}, NEW m \in Known, Note(w, m), NEW n \in Known
  PROVE  /\ Count("disconnect", n) \in Nat
         /\ Count("disconnect", n)' = Count("disconnect", n) + Bit(w = "disconnect" /\ m = n)
<1>1. notes \in Seq({"connect", "disconnect"} \X Known) /\ notes' = Append(notes, <<w, m>>)
  BY DEF TypeInv, HistoryType, Note
<1>2. PICK l \in Nat : l = Len(notes)
  BY <1>1
<1>3. /\ DOMAIN notes = 1 .. l /\ DOMAIN notes' = 1 .. (l + 1) /\ notes'[l + 1] = <<w, m>>
      /\ \A k \in 1 .. l : notes'[k] = notes[k]
  BY <1>1, <1>2
<1>4. PICK b \in BOOLEAN : b = (w = "disconnect" /\ m = n)
  OBVIOUS
<1>5. <<w, m>> = <<"disconnect", n>> <=> b
  BY <1>4
<1>6. PICK D \in SUBSET (1 .. l) : D = {k \in 1 .. l : notes[k] = <<"disconnect", n>>}
  OBVIOUS
<1>7. PICK E : E = IF b THEN D \cup {l + 1} ELSE D
  OBVIOUS
<1>8. {k \in 1 .. (l + 1) : notes'[k] = <<"disconnect", n>>} = E
  BY <1>3, <1>5, <1>6, <1>7
<1>9. Cardinality(D) \in Nat /\ Cardinality(E) = Cardinality(D) + Bit(b)
  BY <1>7, OneMore
<1>10. Count("disconnect", n) = Cardinality(D) /\ Count("disconnect", n)' = Cardinality(E)
  BY <1>3, <1>6, <1>8, Zenon DEF Count
<1> QED  BY <1>4, <1>9, <1>10

\* What attachnsp does to them.
LEMMA AttachedMore ==
  ASSUME TypeInv, NEW m \in Known, attachnsp(m), NEW n \in Known
  PROVE  Attached(n) \in Nat /\ Attached(n)' = Attached(n) + Bit(m = n)
<1>1. PICK l \in Nat : l = Len(handles)
  BY DEF TypeInv, ServerType
<1>2. /\ DOMAIN handles = 1 .. l /\ DOMAIN handles' = 1 .. (l + 1) /\ handles'[l + 1].nsp = m
      /\ \A g \in 1 .. l : handles'[g].nsp = handles[g].nsp
  BY <1>1, AttachFacts
<1>3. PICK b \in BOOLEAN : b = (m = n)
  OBVIOUS
<1>4. PICK D \in SUBSET (1 .. l) : D = {g \in 1 .. l : handles[g].nsp = n}
  OBVIOUS
<1>5. PICK E : E = IF b THEN D \cup {l + 1} ELSE D
  OBVIOUS
<1>6. ASSUME NEW g \in 1 .. (l + 1) PROVE handles'[g].nsp = n <=> g \in E
  <2>1. CASE g \in 1 .. l
    BY <1>2, <1>4, <1>5, <2>1
  <2>2. CASE g = l + 1
    BY <1>2, <1>3, <1>4, <1>5, <2>2
  <2> QED  BY <2>1, <2>2
<1>7. {g \in 1 .. (l + 1) : handles'[g].nsp = n} = E
  <2>1. E \subseteq 1 .. (l + 1)
    BY <1>5
  <2> QED  BY <1>6, <2>1
<1>8. Cardinality(D) \in Nat /\ Cardinality(E) = Cardinality(D) + Bit(b)
  BY <1>5, OneMore
<1>9. Attached(n) = Cardinality(D) /\ Attached(n)' = Cardinality(E)
  BY <1>2, <1>4, <1>7, Zenon DEF Attached
<1> QED  BY <1>3, <1>8, <1>9

\* The counts are numbers.
LEMMA CountsAreNumbers ==
  ASSUME TypeInv, NEW n \in Known
  PROVE  Count("disconnect", n) \in Nat /\ Attached(n) \in Nat /\ ToTell(n) \in Nat
<1>1. ASSUME NEW l \in Nat, NEW D \in SUBSET (1 .. l) PROVE Cardinality(D) \in Nat
  BY OneMore, TRUE \in BOOLEAN
<1>2. PICK k, l \in Nat : k = Len(notes) /\ DOMAIN notes = 1 .. k /\ l = Len(handles) /\ DOMAIN handles = 1 .. l
  BY DEF TypeInv, HistoryType, ServerType
<1>3. /\ {i \in DOMAIN notes : notes[i] = <<"disconnect", n>>} \in SUBSET (1 .. k)
      /\ {g \in DOMAIN handles : handles[g].nsp = n} \in SUBSET (1 .. l)
  BY <1>2
<1>4. Count("disconnect", n) \in Nat /\ Attached(n) \in Nat
  BY <1>1, <1>3, Zenon DEF Count, Attached
<1>5. \A b : Bit(b) \in {0, 1}
  BY DEF Bit
<1>6. ToTell(n) \in Nat
  BY <1>5 DEF ToTell
<1> QED  BY <1>4, <1>6

\* A step that keeps the handles' namespaces attaches nothing.
LEMMA AttachedSame ==
  ASSUME HandlesKept, NEW n
  PROVE  Attached(n)' = Attached(n)
<1>1. {g \in 1 .. Len(handles) : handles'[g].nsp = n} = {g \in 1 .. Len(handles) : handles[g].nsp = n}
  BY DEF HandlesKept
<1>2. DOMAIN handles = 1 .. Len(handles) /\ DOMAIN handles' = 1 .. Len(handles)
  BY DEF HandlesKept
<1> QED  BY <1>1, <1>2 DEF Attached

\* A step that moves no packet of the namespaces leaves the alternation alone.
LEMMA AlternateKept ==
  ASSUME AlternateInv, sock' # "removed" => sock # "removed", UNCHANGED <<ignored, inbox, joined>>,
         \A n \in Known : Live(n)' = Live(n)
  PROVE  AlternateInv'
<1> SUFFICES ASSUME ignored = <<>>, sock # "removed", NEW n \in Known
             PROVE  Alternates(n)'
  BY Zenon DEF AlternateInv
<1>1. PICK f \in Path : Follows(f, inbox, n, Live(n), Joined(n))
  BY Zenon DEF AlternateInv, Alternates
<1>2. Follows(f, inbox, n, Live(n), Joined(n))'
  BY <1>1 DEF Follows, Joined
<1> QED  BY <1>2, Zenon DEF Alternates

\* Where the reader goes for a packet.
LEMMA CaseFacts ==
  ASSUME NEW p \in InPacket
  PROVE  /\ CaseOf(p) \in {"connect", "disconnect", "ack", "closing", "idle"}
         /\ CaseOf(p) \in {"connect", "disconnect"} => p.type = CaseOf(p) /\ p.nsp \in Known
         /\ p.nsp \in Known /\ p.type \in {"connect", "disconnect"} => CaseOf(p) = p.type
  BY DEF CaseOf, InPacket, Packet

\* The reader takes a packet.
LEMMA ReaderTakes ==
  ASSUME Handlers = {Reader}, TypeInv, Message(Reader), ignored' = <<>>
  PROVE  LET p == Head(inbox) IN
         /\ p \in InPacket /\ hpc[Reader] = "idle" /\ inbox # <<>> /\ inbox' = Tail(inbox)
         /\ hpc'[Reader] = CaseOf(p) /\ hpkt'[Reader] = p
         /\ sock = "registered" \/ p.type = "close"
         /\ UNCHANGED <<svars, joined, ignored, handles, notes>>
<1>1. hpc \in [{Reader} -> Labels] /\ hpkt \in [{Reader} -> Packet] /\ ignored \in Seq(InPacket)
  BY DEF TypeInv, HandlerType, HistoryType
<1>2. PICK p : p = Head(inbox)
  OBVIOUS
<1>3. p \in InPacket
  BY <1>2, HeadTailProperties DEF Message, TypeInv, ClientType
<1>4. Append(ignored, p) # <<>>
  BY <1>1, <1>3
<1>5. /\ sock = "registered" \/ p.type = "close"
      /\ hpkt' = [hpkt EXCEPT ![Reader] = p] /\ Goto(Reader, CaseOf(p)) /\ UNCHANGED ignored
  BY <1>2, <1>4 DEF Message
<1>6. hpc'[Reader] = CaseOf(p) /\ hpkt'[Reader] = p
  BY <1>1, <1>5 DEF Goto
<1> QED  BY <1>2, <1>3, <1>5, <1>6 DEF Message, svars

\* Steps that are not the reader's, nor onOpen's.
LEMMA OthersStep ==
  ASSUME (\E a \in Apps : EmitCall(a) \/ EmitStep(a)) \/ ClientStep \/ UNCHANGED vars
  PROVE  UNCHANGED <<opc, sock, acks, hpc, hpkt, ignored, notes>>
  BY DEF EmitCall, EmitStep, EmitFind, onAck, EmitSend, ClientStep, ClientConnect,
     ClientDisconnect, ClientAck, ClientClose, ClientGone, vars, svars, hvars, avars

\* Every step of the reader and of the others keeps the stages.
LEMMA StageStep ==
  ASSUME Handlers = {Reader}, TypeInv, StageInv, AlternateInv, [Next]_vars
  PROVE  StageInv'
<1> USE NamespacesAssumption DEF StageInv
<1>0. hpc \in [{Reader} -> Labels] /\ acks \in [Known -> 0 .. Len(handles)]
  BY DEF TypeInv, HandlerType, ServerType
<1>a. ASSUME NEW l, Goto(Reader, l) PROVE hpc'[Reader] = l
  BY <1>0, <1>a DEF Goto
<1> USE <1>a DEF svars, hvars
<1>1. CASE OpenAttach
  BY <1>0, <1>1 DEF OpenAttach
<1>2. CASE OpenRegister
  BY <1>2 DEF OpenRegister
<1>3. CASE OpenNotify
  BY <1>3 DEF OpenNotify
<1>4. CASE Message(Reader)
  <2>1. CASE ignored' = <<>>
    <3>1. PICK p : p = Head(inbox)
      OBVIOUS
    <3>2. /\ p \in InPacket /\ hpc[Reader] = "idle" /\ inbox # <<>> /\ inbox' = Tail(inbox)
          /\ hpc'[Reader] = CaseOf(p) /\ hpkt'[Reader] = p
          /\ sock = "registered" \/ p.type = "close"
          /\ UNCHANGED <<opc, sock, acks>> /\ ignored = <<>>
      BY <1>4, <2>1, <3>1, ReaderTakes
    <3>3. ASSUME CaseOf(p) = "disconnect" PROVE acks[p.nsp] # 0
      <4>1. PICK n \in Known : n = p.nsp
        BY <3>2, <3>3, CaseFacts
      <4>2. p.type = "disconnect" /\ sock = "registered"
        BY <3>2, <3>3, CaseFacts
      <4>3. PICK l, j \in Bits : l = Live(n) /\ j = Joined(n)
        BY DEF Live, Joined, Bit, Bits
      <4>4. PICK f \in Path : Follows(f, inbox, n, l, j)
        BY <3>2, <4>2, <4>3 DEF AlternateInv, Alternates
      <4>5. inbox \in Seq(InPacket)
        BY DEF TypeInv, ClientType
      <4>6. PICK k \in Bits : Turns(p, n, l, k)
        BY <3>1, <3>2, <4>4, <4>5, FollowsTail, Zenon
      <4>8. Live(n) = 1
        BY <4>1, <4>2, <4>3, <4>6 DEF Turns, Bit
      <4> QED  BY <3>2, <4>1, <4>2, <4>8 DEF Live, Bit
    <3> QED  BY <3>2, <3>3, CaseFacts
  <2>2. CASE ignored' # <<>>
    <3>1. PICK p : p = Head(inbox)
      OBVIOUS
    <3>2. p \in InPacket
      BY <1>4, <3>1, HeadTailProperties DEF Message, TypeInv, ClientType
    <3>3. \/ /\ sock = "registered" \/ p.type = "close"
             /\ hpc'[Reader] = CaseOf(p)
          \/ UNCHANGED hpc
      BY <1>4, <3>1 DEF Message
    <3>4. hpc'[Reader] \in {"connect", "disconnect"} => sock = "registered"
      BY <1>4, <3>2, <3>3, CaseFacts DEF Message
    <3>5. hpc'[Reader] \in {"connect", "disconnect", "ack", "closing", "idle"}
      BY <1>4, <3>2, <3>3, CaseFacts DEF Message
    <3> QED  BY <1>4, <2>2, <3>4, <3>5 DEF Message
  <2> QED  BY <2>1, <2>2
<1>5. CASE Connect(Reader)
  BY <1>5 DEF Connect
<1>6. CASE ConnectNotify(Reader)
  BY <1>6 DEF ConnectNotify
<1>7. CASE Disconnect(Reader)
  BY <1>7 DEF Disconnect
<1>8. CASE DisconnectNotify(Reader)
  BY <1>8 DEF DisconnectNotify
<1>9. CASE FindHandle(Reader)
  BY <1>9 DEF FindHandle
<1>10. CASE FindCallback(Reader)
  BY <1>10 DEF FindCallback
<1>11. CASE CallAck(Reader)
  BY <1>11 DEF CallAck
<1>12. CASE ReadFails
  BY <1>12 DEF ReadFails
<1>13. CASE CloseFind(Reader)
  BY <1>13 DEF CloseFind
<1>14. CASE CloseRemove(Reader)
  BY <1>14 DEF CloseRemove
<1>15. CASE DetachLock(Reader)
  BY <1>15 DEF DetachLock
<1>16. CASE DetachNext(Reader)
  BY <1>16 DEF DetachNext
<1>17. CASE DetachUnlock(Reader)
  BY <1>17 DEF DetachUnlock, Back
<1>18. CASE (\E a \in Apps : EmitCall(a) \/ EmitStep(a)) \/ ClientStep \/ UNCHANGED vars
  BY <1>18, OthersStep
<1>19. CASE CloseReturns(Reader)
  BY <1>19 DEF CloseReturns, Back
<1>20. ~CloseJams(Reader)
  BY DEF CloseJams
<1> QED
  BY <1>1, <1>2, <1>3, <1>4, <1>5, <1>6, <1>7, <1>8, <1>9, <1>10, <1>11, <1>12, <1>13,
     <1>14, <1>15, <1>16, <1>17, <1>18, <1>19, <1>20
  DEF Next, OpenStep, ProcessStep

\* Packets are handled in the order of sending, so the alternation goes on.
LEMMA AlternateStep ==
  ASSUME Handlers = {Reader}, TypeInv, StageInv, AlternateInv, [Next]_vars
  PROVE  AlternateInv'
<1> USE NamespacesAssumption
<1>0. /\ hpc \in [{Reader} -> Labels] /\ hpkt \in [{Reader} -> Packet]
      /\ acks \in [Known -> 0 .. Len(handles)] /\ handles \in Seq(Handle)
      /\ inbox \in Seq(InPacket)
  BY DEF TypeInv, HandlerType, ServerType, ClientType
<1>l. \A n \in Known : \E l, j \in Bits : l = Live(n) /\ j = Joined(n)
  BY DEF Live, Joined, Bit, Bits
<1>a. ASSUME NEW l, Goto(Reader, l) PROVE hpc'[Reader] = l
  BY <1>0, <1>a DEF Goto
<1>b. ASSUME UNCHANGED <<sock, acks, hpkt, inbox, joined, ignored>>,
             (opc = "attach") = (opc' = "attach"),
             \/ hpc'[Reader] = hpc[Reader]
             \/ {hpc[Reader], hpc'[Reader]} \cap {"connect", "disconnect"} = {}
      PROVE  AlternateInv'
  <2>1. \A n \in Known : Live(n)' = Live(n)
    BY <1>b DEF Live
  <2> QED  BY <1>b, <2>1, AlternateKept
<1>c. ASSUME sock' = "removed" PROVE AlternateInv'
  BY <1>c DEF AlternateInv
<1>1. CASE OpenAttach
  <2>1. hpc[Reader] \notin {"connect", "disconnect"} /\ acks'[Root] # 0
    <3>1. Len(handles') # 0 /\ acks' = [acks EXCEPT ![Root] = Len(handles')]
      BY <1>1, AttachFacts DEF OpenAttach
    <3>2. sock = "none"
      BY <1>1 DEF OpenAttach, StageInv
    <3> QED  BY <1>0, <3>1, <3>2 DEF StageInv
  <2>2. ASSUME NEW n \in Known PROVE Live(n)' = Live(n)
    <3>1. n # Root => acks'[n] = acks[n]
      BY <1>0, <1>1 DEF OpenAttach, attachnsp
    <3> QED  BY <1>1, <2>1, <3>1 DEF OpenAttach, Live, hvars
  <2> QED  BY <1>1, <2>2, AlternateKept DEF OpenAttach, clvars
<1>2. CASE OpenRegister
  <2>1. \A n \in Known : Live(n)' = Live(n)
    BY <1>2 DEF Live, OpenRegister, hvars
  <2>2. sock # "removed"
    BY <1>2 DEF StageInv, OpenRegister
  <2> QED  BY <1>2, <2>1, <2>2, AlternateKept DEF OpenRegister, clvars
<1>3. CASE OpenNotify
  BY <1>3, <1>b DEF OpenNotify, hvars, clvars
<1>4. CASE Message(Reader)
  <2> SUFFICES ASSUME ignored' = <<>>, sock' # "removed", NEW n \in Known
               PROVE  Alternates(n)'
    BY Zenon DEF AlternateInv
  <2>1. PICK p : p = Head(inbox)
    OBVIOUS
  <2>2. /\ p \in InPacket /\ hpc[Reader] = "idle" /\ inbox # <<>> /\ inbox' = Tail(inbox)
        /\ hpc'[Reader] = CaseOf(p) /\ hpkt'[Reader] = p
        /\ sock = "registered" \/ p.type = "close"
        /\ UNCHANGED <<opc, sock, acks, joined>> /\ ignored = <<>>
    BY <1>4, <2>1, ReaderTakes DEF svars
  <2>l. PICK l, j \in Bits : l = Live(n) /\ j = Joined(n)
    BY <1>l
  <2>3. PICK f \in Path : Follows(f, inbox, n, l, j)
    BY <2>2, <2>l DEF AlternateInv, Alternates
  <2>5. PICK k \in Bits, g \in Path : Turns(p, n, l, k) /\ Follows(g, Tail(inbox), n, k, j)
    BY <1>0, <2>1, <2>2, <2>3, FollowsTail, Zenon
  <2>6. Live(n)' = k
    BY <2>2, <2>l, <2>5, CaseFacts DEF Live, Turns
  <2>7. Follows(g, inbox, n, Live(n), Joined(n))'
    BY <2>2, <2>l, <2>5, <2>6 DEF Follows, Joined
  <2> QED  BY <2>7, Zenon DEF Alternates
<1>5. CASE Connect(Reader)
  <2>1. PICK m \in Known : m = hpkt[Reader].nsp
    BY <1>5 DEF TypeInv, HandlerType, Processing, Connect
  <2>2. Len(handles') # 0 /\ acks' = [acks EXCEPT ![m] = Len(handles')]
    BY <1>5, <2>1, AttachFacts DEF Connect
  <2>3. /\ acks'[m] # 0 /\ \A n \in Known : n # m => acks'[n] = acks[n]
        /\ hpc[Reader] = "connect" /\ hpc'[Reader] = "connected"
    BY <1>0, <1>5, <1>a, <2>2 DEF Connect
  <2>4. \A n \in Known : Live(n)' = Live(n)
    BY <1>5, <2>1, <2>3 DEF Live, Connect
  <2> QED  BY <1>5, <2>4, AlternateKept DEF Connect, clvars
<1>6. CASE ConnectNotify(Reader)
  BY <1>6, <1>a, <1>b DEF ConnectNotify, svars, clvars
<1>7. CASE Disconnect(Reader)
  <2>1. PICK m \in Known : m = hpkt[Reader].nsp
    BY <1>7 DEF TypeInv, HandlerType, Processing, Disconnect
  <2>2. acks' = [acks EXCEPT ![m] = 0]
    BY <1>7, <2>1 DEF Disconnect
  <2>3. /\ acks'[m] = 0 /\ \A n \in Known : n # m => acks'[n] = acks[n]
        /\ hpc[Reader] = "disconnect" /\ hpc'[Reader] = "disconnected" /\ opc # "attach"
    BY <1>0, <1>7, <1>a, <2>2 DEF Disconnect, StageInv
  <2>4. \A n \in Known : Live(n)' = Live(n)
    BY <1>7, <2>1, <2>3 DEF Live, Disconnect
  <2> QED  BY <1>7, <2>4, AlternateKept DEF Disconnect, clvars
<1>8. CASE DisconnectNotify(Reader)
  BY <1>8, <1>a, <1>b DEF DisconnectNotify, svars, clvars
<1>9. CASE FindHandle(Reader)
  BY <1>9, <1>a, <1>b DEF FindHandle, svars, clvars
<1>10. CASE FindCallback(Reader)
  BY <1>10, <1>a, <1>b DEF FindCallback, svars, clvars
<1>11. CASE CallAck(Reader)
  BY <1>11, <1>a, <1>b DEF CallAck, clvars
<1>12. CASE ReadFails
  BY <1>12, <1>a, <1>b DEF ReadFails, svars, clvars
<1>13. CASE CloseFind(Reader)
  BY <1>13, <1>a, <1>b DEF CloseFind, clvars
<1>14. CASE CloseRemove(Reader)
  BY <1>14, <1>c DEF CloseRemove
<1>15. CASE DetachLock(Reader)
  BY <1>15, <1>a, <1>b DEF DetachLock, clvars
<1>16. CASE DetachNext(Reader)
  BY <1>16, <1>c DEF DetachNext, StageInv
<1>17. CASE DetachUnlock(Reader)
  BY <1>17, <1>a, <1>b DEF DetachUnlock, Back, clvars
<1>18. CASE (\E a \in Apps : EmitCall(a) \/ EmitStep(a)) \/ UNCHANGED vars
  <2>1. UNCHANGED <<opc, sock, acks, hpc, hpkt, ignored, inbox, joined>>
    BY <1>18 DEF EmitCall, EmitStep, EmitFind, onAck, EmitSend, vars, svars, hvars, clvars
  <2> QED  BY <1>b, <2>1
<1>19. CASE ClientStep
  <2> SUFFICES ASSUME ignored' = <<>>, sock' # "removed", NEW n \in Known
               PROVE  Alternates(n)'
    BY Zenon DEF AlternateInv
  <2>1. UNCHANGED <<opc, sock, acks, hpc, hpkt, ignored>>
    BY <1>19, OthersStep
  <2>l. PICK l, j \in Bits : l = Live(n) /\ j = Joined(n)
    BY <1>l
  <2>2. PICK f \in Path : Follows(f, inbox, n, l, j)
    BY <2>1, <2>l DEF AlternateInv, Alternates
  <2>3. Live(n)' = Live(n)
    BY <2>1 DEF Live
  <2>4. ASSUME NEW p \in InPacket, inbox' = Append(inbox, p),
               Turns(p, n, Joined(n), Joined(n)')
        PROVE  Alternates(n)'
    <3>2. PICK k \in Bits : k = Joined(n)'
      BY DEF Joined, Bit, Bits
    <3>3. Turns(p, n, j, k)
      BY <2>l, <2>4, <3>2
    <3>4. PICK g \in Path : Follows(g, Append(inbox, p), n, l, k)
      BY <1>0, <2>2, <2>4, <3>2, <3>3, FollowsAppend, Zenon
    <3>5. Follows(g, inbox, n, Live(n), Joined(n))'
      BY <2>l, <2>3, <2>4, <3>2, <3>4 DEF Follows
    <3> QED  BY <3>5, Zenon DEF Alternates
  <2>5. ASSUME NEW m \in Nsps, ClientConnect(m) PROVE Alternates(n)'
    <3>1. PICK p \in InPacket : p = [NoPacket EXCEPT !.type = "connect", !.nsp = m]
      BY PacketsMade
    <3>2. p.type = "connect" /\ p.nsp = m
      BY <3>1 DEF NoPacket
    <3>3. inbox' = Append(inbox, p) /\ m \notin joined /\ joined' = joined \cup {m}
      BY <2>5, <3>1 DEF ClientConnect, ClientSends
    <3>4. Turns(p, n, Joined(n), Joined(n)')
      BY <3>2, <3>3 DEF Turns, Joined, Bit
    <3> QED  BY <2>4, <3>3, <3>4
  <2>6. ASSUME NEW m \in Nsps, ClientDisconnect(m) PROVE Alternates(n)'
    <3>1. PICK p \in InPacket : p = [NoPacket EXCEPT !.type = "disconnect", !.nsp = m]
      BY PacketsMade
    <3>2. p.type = "disconnect" /\ p.nsp = m
      BY <3>1 DEF NoPacket
    <3>3. inbox' = Append(inbox, p) /\ m \in joined /\ joined' = joined \ {m}
      BY <2>6, <3>1 DEF ClientDisconnect, ClientSends
    <3>4. Turns(p, n, Joined(n), Joined(n)')
      BY <3>2, <3>3 DEF Turns, Joined, Bit
    <3> QED  BY <2>4, <3>3, <3>4
  <2>7. ASSUME NEW e \in events, ClientAck(e) PROVE Alternates(n)'
    <3>1. PICK p \in InPacket : p = [type |-> "ack", nsp |-> e.nsp, id |-> e.id, event |-> e.event]
      BY PacketsMade DEF TypeInv, ClientType
    <3>2. p.type = "ack"
      BY <3>1
    <3> QED  BY <2>4, <2>7, <3>1, <3>2 DEF ClientAck, ClientSends, Turns, Joined
  <2>8. CASE ClientClose
    <3>1. PICK p \in InPacket : p = [NoPacket EXCEPT !.type = "close"]
      BY PacketsMade
    <3>2. p.type = "close"
      BY <3>1 DEF NoPacket
    <3> QED  BY <2>4, <2>8, <3>1, <3>2 DEF ClientClose, ClientSends, Turns, Joined
  <2>9. CASE ClientGone
    <3>1. Follows(f, inbox, n, Live(n), Joined(n))'
      BY <2>l, <2>2, <2>3, <2>9 DEF ClientGone, Follows, Joined
    <3> QED  BY <3>1, Zenon DEF Alternates
  <2> QED  BY <1>19, <2>5, <2>6, <2>7, <2>8, <2>9 DEF ClientStep
<1>20. CASE CloseReturns(Reader)
  BY <1>20, <1>a, <1>b DEF CloseReturns, Back, clvars
<1>21. ~CloseJams(Reader)
  BY DEF CloseJams
<1> QED
  BY <1>1, <1>2, <1>3, <1>4, <1>5, <1>6, <1>7, <1>8, <1>9, <1>10, <1>11, <1>12, <1>13,
     <1>14, <1>15, <1>16, <1>17, <1>18, <1>19, <1>20, <1>21
  DEF Next, OpenStep, ProcessStep

\* What is to be told of was attached.
LEMMA CountStep ==
  ASSUME Handlers = {Reader}, TypeInv, StageInv, CountInv, [Next]_vars
  PROVE  CountInv'
<1> USE NamespacesAssumption
<1>0. /\ hpc \in [{Reader} -> Labels] /\ hpkt \in [{Reader} -> Packet]
      /\ acks \in [Known -> 0 .. Len(handles)]
      /\ \A n \in Known :
           Count("disconnect", n) \in Nat /\ Attached(n) \in Nat /\ ToTell(n) \in Nat
  BY CountsAreNumbers DEF TypeInv, HandlerType, ServerType
<1>a. ASSUME NEW l, Goto(Reader, l) PROVE hpc'[Reader] = l
  BY <1>0, <1>a DEF Goto
<1>b. ASSUME HandlesKept \/ UNCHANGED handles,
             UNCHANGED <<acks, notes>>, ignored' = <<>> => ignored = <<>>,
             \/ hpc'[Reader] = hpc[Reader] /\ UNCHANGED hpkt
             \/ {hpc[Reader], hpc'[Reader]} \cap {"disconnected"} = {}
      PROVE  CountInv'
  <2> SUFFICES ASSUME ignored' = <<>>, NEW n \in Known
               PROVE  (Count("disconnect", n) + ToTell(n) <= Attached(n))'
    BY Zenon DEF CountInv
  <2>1. Attached(n)' = Attached(n)
    BY <1>b, AttachedSame DEF Attached
  <2>2. ToTell(n)' = ToTell(n)
    BY <1>b DEF ToTell
  <2>3. Count("disconnect", n)' = Count("disconnect", n)
    BY <1>b DEF Count
  <2> QED  BY <1>b, <2>1, <2>2, <2>3 DEF CountInv
<1>c. ASSUME NEW m \in Known, attachnsp(m), UNCHANGED <<notes, ignored>>,
             {hpc[Reader], hpc'[Reader]} \cap {"disconnected"} = {}
      PROVE  CountInv'
  <2> SUFFICES ASSUME ignored' = <<>>, NEW n \in Known
               PROVE  (Count("disconnect", n) + ToTell(n) <= Attached(n))'
    BY Zenon DEF CountInv
  <2>1. Attached(n)' = Attached(n) + Bit(m = n)
    BY <1>c, AttachedMore
  <2>2. /\ m # n => acks'[n] = acks[n]
        /\ hpc[Reader] # "disconnected" /\ hpc'[Reader] # "disconnected"
    BY <1>0, <1>c DEF attachnsp
  <2>3. ToTell(n)' \in Nat /\ ToTell(n)' <= ToTell(n) + Bit(m = n)
    BY <2>2 DEF ToTell, Bit
  <2>4. Count("disconnect", n)' = Count("disconnect", n)
    BY <1>c DEF Count
  <2>5. Count("disconnect", n) + ToTell(n) <= Attached(n)
    BY <1>c DEF CountInv
  <2>6. Bit(m = n) \in Nat
    BY DEF Bit
  <2>7. \A c, t, a, b, u \in Nat : c + t <= a /\ u <= t + b => c + u <= a + b
    OBVIOUS
  <2>8. Count("disconnect", n) + ToTell(n)' <= Attached(n) + Bit(m = n)
    BY <1>0, <2>3, <2>5, <2>6, <2>7, Zenon
  <2> QED  BY <2>1, <2>4, <2>8
<1>d. ASSUME NEW m \in Known, Note("disconnect", m), UNCHANGED <<handles, ignored>>,
             \A n \in Known : ToTell(n)' \in Nat /\ ToTell(n) = ToTell(n)' + Bit(m = n)
      PROVE  CountInv'
  <2> SUFFICES ASSUME ignored' = <<>>, NEW n \in Known
               PROVE  (Count("disconnect", n) + ToTell(n) <= Attached(n))'
    BY Zenon DEF CountInv
  <2>1. Attached(n)' = Attached(n)
    BY <1>d DEF Attached
  <2>2. Count("disconnect", n)' = Count("disconnect", n) + Bit(m = n)
    BY <1>d, CountMore
  <2>3. Count("disconnect", n) + ToTell(n) <= Attached(n)
    BY <1>d DEF CountInv
  <2>4. Bit(m = n) \in Nat
    BY DEF Bit
  <2> QED  BY <1>0, <1>d, <2>1, <2>2, <2>3, <2>4
<1>e. ASSUME NEW m \in Known, Note("connect", m), UNCHANGED <<handles, ignored>>,
             \A n \in Known : ToTell(n)' = ToTell(n)
      PROVE  CountInv'
  <2> SUFFICES ASSUME ignored' = <<>>, NEW n \in Known
               PROVE  (Count("disconnect", n) + ToTell(n) <= Attached(n))'
    BY Zenon DEF CountInv
  <2>1. Attached(n)' = Attached(n)
    BY <1>e DEF Attached
  <2>2. Count("disconnect", n)' = Count("disconnect", n)
    BY <1>0, <1>e, CountMore DEF Bit
  <2> QED  BY <1>e, <2>1, <2>2 DEF CountInv
<1>f. \A h \in Handlers : hpc[h] \in Processing => hpkt[h].nsp \in Known
  BY DEF TypeInv, HandlerType
<1>1. CASE OpenAttach
  <2>1. sock = "none" /\ hpc[Reader] # "disconnected" /\ UNCHANGED hpc
    BY <1>1 DEF OpenAttach, StageInv, hvars
  <2> QED  BY <1>1, <1>c, <2>1 DEF OpenAttach
<1>2. CASE OpenRegister
  BY <1>2, <1>b DEF OpenRegister, hvars
<1>3. CASE OpenNotify
  <2>1. \A n \in Known : ToTell(n)' = ToTell(n)
    BY <1>3 DEF OpenNotify, ToTell, hvars
  <2> QED  BY <1>3, <1>e, <2>1 DEF OpenNotify
<1>4. CASE Message(Reader)
  <2>1. CASE ignored' = <<>>
    <3>1. PICK p : p = Head(inbox)
      OBVIOUS
    <3>2. /\ p \in InPacket /\ hpc[Reader] = "idle" /\ hpc'[Reader] = CaseOf(p)
          /\ UNCHANGED <<acks, handles, notes, ignored>>
      BY <1>4, <2>1, <3>1, ReaderTakes DEF svars
    <3>3. CaseOf(p) # "disconnected"
      BY <3>2, CaseFacts
    <3> QED  BY <1>b, <3>2, <3>3
  <2> QED  BY <2>1 DEF CountInv
<1>5. CASE Connect(Reader)
  <2>1. hpkt[Reader].nsp \in Known
    BY <1>5, <1>f DEF Connect, Processing
  <2>2. hpc[Reader] = "connect" /\ hpc'[Reader] = "connected"
    BY <1>5, <1>a DEF Connect
  <2> QED  BY <1>5, <1>c, <2>1, <2>2 DEF Connect
<1>6. CASE ConnectNotify(Reader)
  <2>1. hpkt[Reader].nsp \in Known
    BY <1>6, <1>f DEF ConnectNotify, Processing
  <2>2. hpc[Reader] = "connected" /\ hpc'[Reader] = "idle" /\ UNCHANGED acks
    BY <1>6, <1>a DEF ConnectNotify, svars
  <2>3. \A n \in Known : ToTell(n)' = ToTell(n)
    BY <2>2 DEF ToTell
  <2> QED  BY <1>6, <1>e, <2>1, <2>3 DEF ConnectNotify, svars
<1>7. CASE Disconnect(Reader)
  <2> SUFFICES ASSUME ignored' = <<>>, NEW n \in Known
               PROVE  (Count("disconnect", n) + ToTell(n) <= Attached(n))'
    BY Zenon DEF CountInv
  <2>1. PICK m \in Known : m = hpkt[Reader].nsp
    BY <1>7, <1>f DEF Disconnect, Processing
  <2>2. /\ hpc[Reader] = "disconnect" /\ hpc'[Reader] = "disconnected"
        /\ acks[m] # 0 /\ acks'[m] = 0 /\ \A k \in Known : k # m => acks'[k] = acks[k]
        /\ UNCHANGED <<hpkt, handles, notes, ignored>>
    BY <1>0, <1>7, <1>a, <2>1 DEF Disconnect, StageInv
  <2>3. ToTell(n)' = ToTell(n)
    BY <2>1, <2>2 DEF ToTell, Bit
  <2>4. Attached(n)' = Attached(n) /\ Count("disconnect", n)' = Count("disconnect", n)
    BY <2>2 DEF Attached, Count
  <2> QED  BY <2>2, <2>3, <2>4 DEF CountInv
<1>8. CASE DisconnectNotify(Reader)
  <2>1. PICK m \in Known : m = hpkt[Reader].nsp
    BY <1>8, <1>f DEF DisconnectNotify, Processing
  <2>2. hpc[Reader] = "disconnected" /\ hpc'[Reader] = "idle" /\ UNCHANGED acks
    BY <1>8, <1>a DEF DisconnectNotify, svars
  <2>3. \A n \in Known : ToTell(n)' \in Nat /\ ToTell(n) = ToTell(n)' + Bit(m = n)
    BY <2>1, <2>2 DEF ToTell, Bit
  <2> QED  BY <1>8, <1>d, <2>1, <2>3 DEF DisconnectNotify, svars
<1>9. CASE FindHandle(Reader)
  BY <1>9, <1>a, <1>b DEF FindHandle, svars
<1>10. CASE FindCallback(Reader)
  BY <1>10, <1>a, <1>b DEF FindCallback, svars
<1>11. CASE CallAck(Reader)
  BY <1>11, <1>a, <1>b, CallAckFacts DEF CallAck
<1>12. CASE ReadFails
  BY <1>12, <1>a, <1>b DEF ReadFails, svars
<1>13. CASE CloseFind(Reader)
  BY <1>13, <1>a, <1>b DEF CloseFind
<1>14. CASE CloseRemove(Reader)
  BY <1>14, <1>a, <1>b DEF CloseRemove
<1>15. CASE DetachLock(Reader)
  BY <1>15, <1>a, <1>b DEF DetachLock
<1>16. CASE DetachNext(Reader)
  <2>1. PICK m \in Known : /\ acks[m] # 0 /\ acks' = [acks EXCEPT ![m] = 0]
                           /\ Note("disconnect", m)
                           /\ Goto(Reader, IF m \in DisconnectEmits THEN "stuck" ELSE "detachall")
    BY <1>16 DEF DetachNext
  <2>2. /\ hpc[Reader] # "disconnected" /\ hpc'[Reader] # "disconnected"
        /\ acks'[m] = 0 /\ \A k \in Known : k # m => acks'[k] = acks[k]
    BY <1>0, <1>16, <1>a, <2>1 DEF DetachNext
  <2>3. \A n \in Known : ToTell(n)' \in Nat /\ ToTell(n) = ToTell(n)' + Bit(m = n)
    BY <2>1, <2>2 DEF ToTell, Bit
  <2> QED  BY <1>16, <1>d, <2>1, <2>3 DEF DetachNext
<1>17. CASE DetachUnlock(Reader)
  BY <1>17, <1>a, <1>b DEF DetachUnlock, Back
<1>18. CASE (\E a \in Apps : EmitCall(a) \/ EmitFind(a) \/ EmitSend(a)) \/ ClientStep \/ UNCHANGED vars
  <2>1. UNCHANGED <<acks, handles, hpc, hpkt, ignored, notes>>
    BY <1>18 DEF EmitCall, EmitFind, EmitSend, ClientStep, ClientConnect, ClientDisconnect,
       ClientAck, ClientClose, ClientGone, vars, svars, hvars, avars
  <2> QED  BY <1>b, <2>1
<1>19. ASSUME NEW a \in Apps, onAck(a) PROVE CountInv'
  BY <1>19, <1>b, OnAckFacts DEF onAck, hvars
<1>20. CASE CloseReturns(Reader)
  BY <1>20, <1>a, <1>b DEF CloseReturns, Back
<1>21. ~CloseJams(Reader)
  BY DEF CloseJams
<1> QED
  BY <1>1, <1>2, <1>3, <1>4, <1>5, <1>6, <1>7, <1>8, <1>9, <1>10, <1>11, <1>12, <1>13,
     <1>14, <1>15, <1>16, <1>17, <1>18, <1>19, <1>20, <1>21
  DEF Next, OpenStep, ProcessStep, EmitStep

\* At first only the root namespace is attached, or will be.
LEMMA OnceInit == Init => OnceInv
<1> SUFFICES ASSUME Init PROVE OnceInv
  OBVIOUS
<1> USE NamespacesAssumption DEF Init
<1>1. hpc[Reader] = "idle" /\ \A n \in Known : acks[n] = 0
  OBVIOUS
<1>2. StageInv
  BY <1>1 DEF StageInv
<1>3. ASSUME NEW n \in Known PROVE Alternates(n)
  <2>1. PICK f \in Path : f = [i \in Nat |-> Bit(n = Root)]
    BY DEF Path, Bit, Bits
  <2>2. Live(n) = Bit(n = Root) /\ Joined(n) = Bit(n = Root)
    BY <1>1 DEF Live, Joined, Bit
  <2>3. Follows(f, inbox, n, Live(n), Joined(n))
    BY <2>1, <2>2 DEF Follows
  <2> QED  BY <2>3, Zenon DEF Alternates
<1>4. ASSUME NEW n \in Known PROVE Count("disconnect", n) + ToTell(n) <= Attached(n)
  <2>1. {k \in DOMAIN notes : notes[k] = <<"disconnect", n>>} = {}
    OBVIOUS
  <2>2. {g \in DOMAIN handles : handles[g].nsp = n} = {}
    OBVIOUS
  <2>3. ToTell(n) = 0
    BY <1>1 DEF ToTell, Bit
  <2> QED  BY <2>1, <2>2, <2>3, FS_EmptySet DEF Count, Attached
<1> QED  BY <1>2, <1>3, <1>4 DEF OnceInv, AlternateInv, CountInv

\* In a session that no upgrade handles packets of, and none of whose packets came before
\* it was registered, OnDisconnect is called at most once for each attachment, whatever
\* namespaces the client connects and however often.
THEOREM DisconnectedOnce == ASSUME Handlers = {Reader} PROVE Spec => []DisconnectOnce
<1>1. TypeInv /\ OnceInv /\ [Next]_vars => OnceInv'
  BY StageStep, AlternateStep, CountStep DEF OnceInv
<1>2. TypeInv /\ OnceInv => DisconnectOnce
  <2> SUFFICES ASSUME TypeInv, OnceInv, ignored = <<>>, NEW n \in Known
               PROVE  Count("disconnect", n) <= Attached(n)
    BY DEF DisconnectOnce
  <2>1. Count("disconnect", n) + ToTell(n) <= Attached(n)
    BY DEF OnceInv, CountInv
  <2> QED  BY <2>1, CountsAreNumbers
<1> QED  BY OnceInit, <1>1, <1>2, TypeInvariance, PTL DEF Spec

-----------------------------------------------------------------------------
(* Acknowledgements that only the reader processes, whatever is connected  *)
(* and however often.  Handles of one namespace give the same ids, so the  *)
(* callback of another event may be called; but an event's callback is     *)
(* entered in one place, and leaves it before it is called.                *)

\* The goroutine is on its way to enter its callback.
ToEnter(a) == apc[a] \in {"find", "onack"}

\* An event is emitted once, and entered once,
EmittedOnce ==
  /\ \A a \in Apps : ToEnter(a) => acall[a].event <= nemit
  /\ \A a, b \in Apps : ToEnter(a) /\ ToEnter(b) /\ acall[a].event = acall[b].event => a = b
EnteredOnce ==
  /\ \A g \in DOMAIN handles : \A e \in handles[g].ackmap :
       e[2] <= nemit /\ \A a \in Apps : ToEnter(a) => acall[a].event # e[2]
  /\ \A g, k \in DOMAIN handles : \A e \in handles[g].ackmap, f \in handles[k].ackmap :
       e[2] = f[2] => g = k /\ e = f
\* and when its callback was called it is entered no more.
FiredOnce ==
  /\ \A j \in DOMAIN fired :
       fired[j][1] <= nemit /\ \A a \in Apps : ToEnter(a) => acall[a].event # fired[j][1]
  /\ AckOnce

\* What the reader is about to call is still entered: nobody else takes it out.
CallEntered ==
  hpc[Reader] = "call" =>
    /\ hack[Reader] \in DOMAIN handles
    /\ <<hpkt[Reader].id, hcb[Reader]>> \in handles[hack[Reader]].ackmap

FireInv == EmittedOnce /\ EnteredOnce /\ FiredOnce /\ CallEntered

\* No callback is entered by the step, and no event emitted.
EntersFewer ==
  /\ \A g \in DOMAIN handles' : \A e \in handles'[g].ackmap :
       g \in DOMAIN handles /\ e \in handles[g].ackmap
  /\ \A a \in Apps : ToEnter(a)' => ToEnter(a) /\ acall'[a].event = acall[a].event

\* No callback is taken out by the step.
KeepsEntered ==
  \A g \in DOMAIN handles : g \in DOMAIN handles' /\ handles[g].ackmap \subseteq handles'[g].ackmap

\* attachnsp does neither: the new handle is empty.
LEMMA AttachEnters ==
  ASSUME TypeInv, NEW n \in Known, attachnsp(n), UNCHANGED <<apc, acall>>
  PROVE  EntersFewer /\ KeepsEntered
<1>1. /\ DOMAIN handles = 1 .. Len(handles) /\ DOMAIN handles' = 1 .. (Len(handles) + 1)
      /\ Len(handles) \in Nat /\ \A g \in 1 .. Len(handles) : handles'[g] = handles[g]
      /\ handles'[Len(handles) + 1].ackmap = {}
  BY AttachFacts
<1>2. /\ \A g \in DOMAIN handles' : handles'[g].ackmap = {} \/ (g \in DOMAIN handles /\ handles'[g] = handles[g])
      /\ \A g \in DOMAIN handles : g \in DOMAIN handles' /\ handles'[g] = handles[g]
  BY <1>1
<1> QED  BY <1>2 DEF EntersFewer, KeepsEntered, ToEnter

\* Every step of a session that only its reader handles preserves this.
LEMMA FireInvStep ==
  ASSUME Handlers = {Reader}, TypeInv, FireInv, [Next]_vars
  PROVE  FireInv'
<1> USE NamespacesAssumption DEF Goto
<1>0. /\ hpc \in [{Reader} -> Labels] /\ hcb \in [{Reader} -> 0 .. MaxEmit]
      /\ hack \in [{Reader} -> 0 .. Len(handles)] /\ hpkt \in [{Reader} -> Packet]
      /\ apc \in [Apps -> {"idle", "find", "onack", "send"}] /\ acall \in [Apps -> Call]
      /\ nemit \in Nat /\ \A a \in Apps : acall[a].event \in Nat
      /\ fired \in Seq((0 .. MaxEmit) \X (0 .. MaxEmit))
      /\ DOMAIN fired = 1 .. Len(fired) /\ Len(fired) \in Nat
  BY DEF TypeInv, HandlerType, AppType, HistoryType, Call
<1>1. \A g \in DOMAIN handles : \A e \in handles[g].ackmap : e \in Nat \X Nat
  <2>1. \A g \in DOMAIN handles : handles[g] \in Handle
    BY DEF TypeInv, ServerType
  <2> QED  BY <2>1 DEF Handle
<1>2. EmittedOnce /\ EnteredOnce /\ FiredOnce /\ CallEntered /\ AckOnce
  BY DEF FireInv, FiredOnce
<1>s. ASSUME UNCHANGED <<handles, apc, acall>> PROVE EntersFewer /\ KeepsEntered
  BY <1>s DEF EntersFewer, KeepsEntered, ToEnter
<1>a. ASSUME EntersFewer, UNCHANGED nemit PROVE EmittedOnce' /\ EnteredOnce'
  <2>1. EmittedOnce'
    BY <1>2, <1>a DEF EmittedOnce, EntersFewer
  <2>2. EnteredOnce'
    BY <1>2, <1>a DEF EnteredOnce, EntersFewer
  <2> QED  BY <2>1, <2>2
<1>f. ASSUME EntersFewer, UNCHANGED <<nemit, fired>> PROVE FiredOnce'
  BY <1>2, <1>f DEF FiredOnce, AckOnce, EntersFewer
<1>c. ASSUME hpc'[Reader] # "call" PROVE CallEntered'
  BY <1>c DEF CallEntered
<1>k. ASSUME KeepsEntered, UNCHANGED <<hpc, hpkt, hack, hcb>> PROVE CallEntered'
  BY <1>2, <1>k DEF CallEntered, KeepsEntered
<1>3. ASSUME NEW l, l # "call", Goto(Reader, l), UNCHANGED <<handles, avars, fired>> PROVE FireInv'
  BY <1>0, <1>3, <1>s, <1>a, <1>f, <1>c DEF FireInv, avars
<1>4. CASE \/ ConnectNotify(Reader) \/ Disconnect(Reader) \/ DisconnectNotify(Reader)
           \/ FindHandle(Reader)
  BY <1>3, <1>4 DEF ConnectNotify, Disconnect, DisconnectNotify, FindHandle, svars
<1>5. CASE CloseFind(Reader) \/ CloseRemove(Reader) \/ CloseReturns(Reader) \/ CloseJams(Reader)
  BY <1>3, <1>5 DEF CloseFind, CloseRemove, CloseReturns, CloseJams, Back, svars
<1>6. CASE DetachLock(Reader) \/ DetachNext(Reader) \/ DetachUnlock(Reader) \/ ReadFails
  BY <1>3, <1>6 DEF DetachLock, DetachNext, DetachUnlock, ReadFails, Back, svars
<1>7. CASE Message(Reader)
  <2>1. PICK p : p = Head(inbox)
    OBVIOUS
  <2>2. p \in InPacket
    BY <1>7, <2>1, HeadTailProperties DEF Message, TypeInv, ClientType
  <2>3. hpc'[Reader] # "call" /\ UNCHANGED <<handles, apc, acall, nemit, fired>>
    <3>1. hpc'[Reader] \in {CaseOf(p), "idle"} /\ UNCHANGED <<handles, apc, acall, nemit, fired>>
      BY <1>0, <1>7, <2>1 DEF Message, svars, avars
    <3> QED  BY <2>2, <3>1, CaseFacts
  <2> QED  BY <1>s, <1>a, <1>f, <1>c, <2>3 DEF FireInv
<1>8. CASE OpenAttach
  <2>1. attachnsp(Root) /\ UNCHANGED <<apc, acall, nemit, fired, hpc, hpkt, hack, hcb>>
    BY <1>8 DEF OpenAttach, hvars, avars
  <2>2. EntersFewer /\ KeepsEntered
    BY <2>1, AttachEnters
  <2> QED  BY <1>a, <1>f, <1>k, <2>1, <2>2 DEF FireInv
<1>9. CASE Connect(Reader)
  <2>1. /\ attachnsp(hpkt[Reader].nsp) /\ hpkt[Reader].nsp \in Known /\ hpc'[Reader] = "connected"
        /\ UNCHANGED <<apc, acall, nemit, fired>>
    BY <1>0, <1>9 DEF Connect, avars, TypeInv, HandlerType, Processing
  <2>2. EntersFewer
    BY <2>1, AttachEnters
  <2> QED  BY <1>a, <1>f, <1>c, <2>1, <2>2 DEF FireInv
<1>10. CASE FindCallback(Reader)
  <2>1. UNCHANGED <<handles, apc, acall, nemit, fired, hpkt, hack>> /\ hpc[Reader] = "find"
    BY <1>10 DEF FindCallback, svars, avars
  <2>2. hack[Reader] \in DOMAIN handles
    BY <2>1 DEF TypeInv, ServerType, HandlerType
  <2>3. CallEntered'
    <3>1. CASE Goto(Reader, "idle")
      BY <1>0, <1>c, <3>1
    <3>2. ASSUME NEW e \in handles[hack[Reader]].ackmap, e[1] = hpkt[Reader].id,
                 hcb' = [hcb EXCEPT ![Reader] = e[2]]
          PROVE  CallEntered'
      <4>1. hcb'[Reader] = e[2] /\ e = <<e[1], e[2]>>
        BY <1>0, <1>1, <2>2, <3>2
      <4> QED  BY <2>1, <2>2, <3>2, <4>1 DEF CallEntered
    <3> QED  BY <1>10, <3>1, <3>2 DEF FindCallback
  <2> QED  BY <1>s, <1>a, <1>f, <2>1, <2>3 DEF FireInv
<1>11. CASE CallAck(Reader)
  <2>1. PICK g0 \in DOMAIN handles, i0 \in Nat, k0 \in 0 .. MaxEmit :
          /\ g0 = hack[Reader] /\ i0 = hpkt[Reader].id /\ k0 = hcb[Reader]
          /\ <<i0, k0>> \in handles[g0].ackmap
    BY <1>0, <1>2, <1>11 DEF CallEntered, CallAck, Packet
  <2>f. PICK f : f = <<k0, hpkt[Reader].event>>
    OBVIOUS
  <2>2. /\ UNCHANGED <<apc, acall, nemit>> /\ hpc'[Reader] = "idle" /\ fired' = Append(fired, f)
    BY <1>0, <1>11, <2>1, <2>f DEF CallAck, avars
  <2>3. /\ DOMAIN handles' = DOMAIN handles
        /\ \A g \in DOMAIN handles : \A e \in handles'[g].ackmap :
             e \in handles[g].ackmap /\ (g = g0 => e[1] # i0)
    BY <1>11, <2>1, CallAckFacts DEF HandlesKept
  <2>4. EntersFewer
    BY <2>2, <2>3 DEF EntersFewer, ToEnter
  <2>5. \A g \in DOMAIN handles : \A e \in handles'[g].ackmap : e[2] # k0
    <3>1. SUFFICES ASSUME NEW g \in DOMAIN handles, NEW e \in handles'[g].ackmap, e[2] = k0
                   PROVE  FALSE
      OBVIOUS
    <3>2. PICK e0 \in handles[g0].ackmap : e0 = <<i0, k0>> /\ e0[1] = i0 /\ e0[2] = k0
      BY <2>1
    <3>3. g = g0 /\ e = e0
      BY <1>2, <2>3, <3>1, <3>2 DEF EnteredOnce
    <3> QED  BY <2>3, <3>1, <3>2, <3>3
  <2>6. /\ k0 <= nemit /\ \A a \in Apps : ToEnter(a) => acall[a].event # k0
        /\ \A j \in DOMAIN fired : fired[j][1] # k0
    <3>1. PICK e0 \in handles[g0].ackmap : e0[2] = k0
      BY <2>1
    <3> QED  BY <1>2, <3>1 DEF EnteredOnce, AckOnce
  <2>7. f \in (0 .. MaxEmit) \X (0 .. MaxEmit) /\ f[1] = k0
    BY <1>0, <2>1, <2>f DEF Packet
  <2>8. /\ DOMAIN fired' = 1 .. (Len(fired) + 1) /\ fired'[Len(fired) + 1] = f
        /\ \A i \in 1 .. Len(fired) : fired'[i] = fired[i]
    BY <1>0, <2>2, <2>7, Longer
  <2>9. \A j \in DOMAIN fired' : \/ j \in DOMAIN fired /\ fired'[j] = fired[j]
                                 \/ j = Len(fired) + 1 /\ fired'[j][1] = k0
    BY <1>0, <2>7, <2>8
  <2>10. AckOnce'
    <3>1. \A i, j \in DOMAIN fired' : i # j => fired'[i][1] # fired'[j][1]
      BY <1>2, <2>6, <2>9 DEF AckOnce
    <3>2. \A j \in DOMAIN fired' : \A g \in DOMAIN handles' :
            \A e \in handles'[g].ackmap : e[2] # fired'[j][1]
      BY <1>2, <2>3, <2>5, <2>9 DEF AckOnce
    <3> QED  BY <3>1, <3>2 DEF AckOnce
  <2>11. FiredOnce'
    BY <1>2, <2>2, <2>6, <2>9, <2>10 DEF FiredOnce, ToEnter
  <2> QED  BY <1>a, <1>c, <2>2, <2>4, <2>11 DEF FireInv
<1>12. ASSUME NEW a \in Apps, EmitFind(a) \/ EmitSend(a) PROVE FireInv'
  <2>1. UNCHANGED <<handles, nemit, fired, hpc, hpkt, hack, hcb>>
    BY <1>12 DEF EmitFind, EmitSend, svars, hvars
  <2>2. \A b \in Apps : ToEnter(b)' => ToEnter(b) /\ acall'[b].event = acall[b].event
    <3>1. \A b \in Apps : b # a => apc'[b] = apc[b] /\ acall'[b] = acall[b]
      BY <1>0, <1>12 DEF EmitFind, EmitSend
    <3>2. CASE EmitFind(a)
      <4>1. acall'[a].event = acall[a].event /\ ToEnter(a)
        BY <1>0, <3>2 DEF EmitFind, ToEnter, Call
      <4> QED  BY <3>1, <4>1 DEF ToEnter
    <3>3. CASE EmitSend(a)
      <4>1. ~ToEnter(a)'
        BY <1>0, <3>3 DEF EmitSend, ToEnter
      <4> QED  BY <3>1, <4>1 DEF ToEnter
    <3> QED  BY <1>12, <3>2, <3>3
  <2>3. EntersFewer /\ KeepsEntered
    BY <2>1, <2>2 DEF EntersFewer, KeepsEntered
  <2> QED  BY <1>a, <1>f, <1>k, <2>1, <2>3 DEF FireInv
<1>13. ASSUME NEW a \in Apps, EmitCall(a) PROVE FireInv'
  <2>1. UNCHANGED <<handles, fired, hpc, hpkt, hack, hcb>> /\ nemit' = nemit + 1
    BY <1>13 DEF EmitCall, svars, hvars
  <2>2. /\ acall'[a].event = nemit'
        /\ \A b \in Apps : b # a => apc'[b] = apc[b] /\ acall'[b] = acall[b]
    <3>1. PICK n \in Known : acall' = [acall EXCEPT ![a] = [NoCall EXCEPT !.nsp = n, !.event = nemit']]
      BY <1>13 DEF EmitCall
    <3>2. nemit' \in 1 .. MaxEmit
      BY <1>0, <1>13 DEF EmitCall
    <3> DEFINE c == [NoCall EXCEPT !.nsp = n, !.event = nemit']
    <3>3. acall' = [acall EXCEPT ![a] = c] /\ c.event = nemit'
      BY <3>1, <3>2, PacketsMade
    <3> HIDE DEF c
    <3> QED  BY <1>0, <1>13, <3>3 DEF EmitCall
  <2>3. \A b \in Apps : ToEnter(b)' =>
          \/ b = a /\ acall'[b].event = nemit'
          \/ b # a /\ ToEnter(b) /\ acall'[b] = acall[b]
    BY <2>2 DEF ToEnter
  <2>4. \A k \in Nat : k <= nemit => k <= nemit' /\ k # nemit'
    BY <1>0, <2>1
  <2>5. \A g \in DOMAIN handles : \A e \in handles[g].ackmap : e[2] \in Nat
    BY <1>1
  <2>6. \A j \in DOMAIN fired : fired[j][1] \in Nat
    BY <1>0
  <2>7. nemit' <= nemit'
    BY <1>0, <2>1
  <2>8. EmittedOnce'
    BY <1>0, <1>2, <2>3, <2>4, <2>7 DEF EmittedOnce
  <2>9. EnteredOnce'
    BY <1>2, <2>1, <2>3, <2>4, <2>5 DEF EnteredOnce
  <2>10. AckOnce'
    BY <1>2, <2>1 DEF AckOnce
  <2>11. FiredOnce'
    BY <1>2, <2>1, <2>3, <2>4, <2>6, <2>10 DEF FiredOnce
  <2>12. CallEntered'
    BY <1>2, <2>1 DEF CallEntered
  <2> QED  BY <2>8, <2>9, <2>11, <2>12 DEF FireInv
<1>14. ASSUME NEW a \in Apps, onAck(a) PROVE FireInv'
  <2>1. UNCHANGED <<nemit, fired, hpc, hpkt, hack, hcb>> /\ ToEnter(a)
    BY <1>14 DEF onAck, hvars, ToEnter
  <2>a. PICK g0, i0, k0 : g0 = acall[a].handle /\ i0 = handles[g0].id + 1 /\ k0 = acall[a].event
    OBVIOUS
  <2>b. /\ HandlesKept /\ g0 \in 1 .. Len(handles) /\ i0 \in Nat
        /\ \A g \in 1 .. Len(handles) : g # g0 => handles'[g] = handles[g]
        /\ handles'[g0].ackmap = handles[g0].ackmap \cup {<<i0, k0>>}
    BY <1>14, <2>a, OnAckFacts
  <2>c. PICK e0 : e0 = <<i0, k0>>
    OBVIOUS
  <2>2. /\ g0 \in DOMAIN handles /\ k0 = acall[a].event /\ e0[2] = k0
        /\ DOMAIN handles' = DOMAIN handles
        /\ \A g \in DOMAIN handles : g # g0 => handles'[g] = handles[g]
        /\ handles'[g0].ackmap = handles[g0].ackmap \cup {e0}
    BY <2>a, <2>b, <2>c DEF HandlesKept
  <2>3. \A b \in Apps : ToEnter(b)' => b # a /\ ToEnter(b) /\ acall'[b] = acall[b]
    BY <1>0, <1>14 DEF onAck, ToEnter
  <2>4. /\ k0 <= nemit /\ \A b \in Apps : ToEnter(b) /\ b # a => acall[b].event # k0
        /\ \A g \in DOMAIN handles : \A e \in handles[g].ackmap : e[2] # k0
        /\ \A j \in DOMAIN fired : fired[j][1] # k0
    BY <1>2, <2>1, <2>2 DEF EmittedOnce, EnteredOnce, FiredOnce
  <2>5. \A g \in DOMAIN handles' : \A e \in handles'[g].ackmap :
          g \in DOMAIN handles /\ (e \in handles[g].ackmap \/ (g = g0 /\ e = e0))
    BY <2>2
  <2>6. EmittedOnce'
    BY <1>2, <2>1, <2>3 DEF EmittedOnce
  <2>7. EnteredOnce'
    BY <1>2, <2>1, <2>2, <2>3, <2>4, <2>5 DEF EnteredOnce
  <2>8. AckOnce'
    BY <1>2, <2>1, <2>2, <2>4, <2>5 DEF AckOnce
  <2>9. FiredOnce'
    BY <1>2, <2>1, <2>3, <2>8 DEF FiredOnce
  <2>10. KeepsEntered
    BY <2>2 DEF KeepsEntered
  <2> QED  BY <1>k, <2>1, <2>6, <2>7, <2>9, <2>10 DEF FireInv
<1>15. CASE OpenRegister \/ OpenNotify \/ ClientStep \/ UNCHANGED vars
  <2>1. UNCHANGED <<handles, apc, acall, nemit, fired, hpc, hpkt, hack, hcb>>
    BY <1>15
    DEF OpenRegister, OpenNotify, ClientStep, ClientConnect, ClientDisconnect, ClientAck,
        ClientClose, ClientGone, vars, svars, hvars, avars
  <2> QED  BY <1>s, <1>a, <1>f, <1>k, <2>1 DEF FireInv
<1> QED
  BY <1>4, <1>5, <1>6, <1>7, <1>8, <1>9, <1>10, <1>11, <1>12, <1>13, <1>14, <1>15
  DEF Next, OpenStep, ProcessStep, EmitStep

\* In a session that no upgrade handles packets of, the callback of an event is called at
\* most once, however often the client acknowledges the event and however often it
\* connects the namespace.
THEOREM CallbacksFireOnce == ASSUME Handlers = {Reader} PROVE Spec => []AckOnce
<1>1. Init => FireInv
  <2> SUFFICES ASSUME Init PROVE FireInv
    OBVIOUS
  <2>1. /\ DOMAIN handles = {} /\ DOMAIN fired = {} /\ hpc[Reader] = "idle"
        /\ \A a \in Apps : apc[a] = "idle"
    BY NamespacesAssumption DEF Init
  <2> QED
    BY <2>1
    DEF FireInv, EmittedOnce, EnteredOnce, FiredOnce, AckOnce, CallEntered, ToEnter
<1>2. TypeInv /\ FireInv /\ [Next]_vars => FireInv'
  BY FireInvStep
<1>3. FireInv => AckOnce
  BY DEF FireInv, FiredOnce
<1> QED  BY <1>1, <1>2, <1>3, TypeInvariance, PTL DEF Spec

-----------------------------------------------------------------------------
(* Acknowledgements, when a client connects each namespace once.  Then a   *)
(* namespace has one handle, whose ids are those of its events: whoever    *)
(* has an event, or an acknowledgement of it, has an id under which there  *)
(* is no other callback.                                                   *)

IsConnect(p) == p.type = "connect"
IsAck(p) == p.type = "ack"
AckSteps == {"ack", "find", "call"}

\* A namespace has a handle, or a CONNECT for it is under way, or neither.
AttachOnce ==
  /\ \A g, k \in DOMAIN handles : handles[g].nsp = handles[k].nsp => g = k
  /\ \A i, j \in DOMAIN inbox :
       IsConnect(inbox[i]) /\ IsConnect(inbox[j]) /\ inbox[i].nsp = inbox[j].nsp => i = j
  /\ \A h, k \in Handlers :
       hpc[h] = "connect" /\ hpc[k] = "connect" /\ hpkt[h].nsp = hpkt[k].nsp => h = k
  /\ \A i \in DOMAIN inbox, h \in Handlers :
       IsConnect(inbox[i]) /\ hpc[h] = "connect" => inbox[i].nsp # hpkt[h].nsp

\* n was asked for once, and has no handle yet.
Expected(n) == n # Root /\ nconn[n] > 0 /\ \A g \in DOMAIN handles : handles[g].nsp # n

ConnectOnce ==
  /\ nconn[Root] > 0 /\ \A g \in DOMAIN handles : nconn[handles[g].nsp] > 0
  /\ opc = "attach" => \A g \in DOMAIN handles : handles[g].nsp # Root
  /\ \A i \in DOMAIN inbox : IsConnect(inbox[i]) => Expected(inbox[i].nsp)
  /\ \A h \in Handlers : hpc[h] = "connect" => Expected(hpkt[h].nsp)

\* Event k was given the id i in namespace n: the callback under that id is its own.
BoundTo(n, i, k) ==
  /\ \E g \in DOMAIN handles : handles[g].nsp = n
  /\ \A g \in DOMAIN handles : handles[g].nsp = n => i <= handles[g].id
  /\ \A g \in DOMAIN handles : \A e \in handles[g].ackmap :
       handles[g].nsp = n /\ e[1] = i => e[2] = k
Bound(x) == BoundTo(x.nsp, x.id, x.event)

\* Ids are given in order.
IdsInOrder ==
  \A g \in DOMAIN handles : \A e \in handles[g].ackmap : e[1] <= handles[g].id

\* An event keeps its id, wherever it is.
HeldBound == \A a \in Apps : apc[a] = "send" => Bound(acall[a])
SentBound == \A e \in events : Bound(e)
QueuedBound == \A i \in DOMAIN inbox : IsAck(inbox[i]) => Bound(inbox[i])
TakenBound == \A h \in Handlers : hpc[h] \in AckSteps => Bound(hpkt[h])
CallOwn == \A h \in Handlers : hpc[h] = "call" => hcb[h] = hpkt[h].event
FiredOwn == \A j \in DOMAIN fired : fired[j][1] = fired[j][2]

Binding ==
  /\ IdsInOrder /\ HeldBound /\ SentBound /\ QueuedBound /\ TakenBound
  /\ CallOwn /\ FiredOwn

AckInv == AttachOnce /\ ConnectOnce /\ Binding

\* What a step that connects nothing leaves alone.
ConnectsNothing ==
  /\ DOMAIN handles' = DOMAIN handles /\ \A g \in DOMAIN handles : handles'[g].nsp = handles[g].nsp
  /\ opc' = "attach" => opc = "attach"
  /\ nconn' = nconn
  /\ \A h \in Handlers : hpc'[h] = "connect" => hpc[h] = "connect" /\ hpkt'[h] = hpkt[h]

\* A new handle is the only one of its namespace.
LEMMA AttachIsOnce ==
  ASSUME TypeInv, AttachOnce, ConnectOnce, NEW n \in Known, attachnsp(n),
         nconn[n] > 0, \A g \in DOMAIN handles : handles[g].nsp # n,
         \A i \in DOMAIN inbox : IsConnect(inbox[i]) => inbox[i].nsp # n,
         \A h \in Handlers : hpc'[h] = "connect" => hpc[h] = "connect" /\ hpkt[h].nsp # n,
         opc' = "attach" => opc = "attach" /\ n # Root, UNCHANGED <<inbox, nconn, hpkt>>
  PROVE  (AttachOnce /\ ConnectOnce)'
<1> DEFINE m == Len(handles) + 1
<1>1. /\ DOMAIN handles = 1 .. Len(handles) /\ DOMAIN handles' = 1 .. m /\ Len(handles) \in Nat
      /\ handles'[m].nsp = n /\ \A g \in 1 .. Len(handles) : handles'[g] = handles[g]
  BY AttachFacts
<1> HIDE DEF m
<1>2. \A g \in DOMAIN handles' : g = m \/ (g \in DOMAIN handles /\ handles'[g] = handles[g])
  BY <1>1 DEF m
<1>3. AttachOnce'
  BY <1>1, <1>2 DEF AttachOnce
<1>4. ConnectOnce'
  BY <1>1, <1>2 DEF ConnectOnce, Expected
<1> QED  BY <1>3, <1>4

\* Every step keeps the namespaces apart.
LEMMA AttachOnceStep ==
  ASSUME MaxConnect = 1, TypeInv, AttachOnce, ConnectOnce, [Next]_vars
  PROVE  (AttachOnce /\ ConnectOnce)'
<1> USE NamespacesAssumption DEF Goto
<1>0. /\ inbox \in Seq(InPacket) /\ hpc \in [Handlers -> Labels] /\ hpkt \in [Handlers -> Packet]
      /\ nconn \in [Nsps -> 0 .. 1] /\ DOMAIN inbox = 1 .. Len(inbox) /\ Len(inbox) \in Nat
  BY DEF TypeInv, ClientType, HandlerType
<1>a. ASSUME ConnectsNothing, UNCHANGED inbox PROVE (AttachOnce /\ ConnectOnce)'
  BY <1>a DEF ConnectsNothing, AttachOnce, ConnectOnce, Expected
<1>b. ASSUME ConnectsNothing, NEW p \in InPacket, ClientSends(p), p.type # "connect"
      PROVE  (AttachOnce /\ ConnectOnce)'
  <2>1. /\ DOMAIN inbox' = 1 .. (Len(inbox) + 1) /\ inbox'[Len(inbox) + 1] = p
        /\ \A i \in 1 .. Len(inbox) : inbox'[i] = inbox[i]
    BY <1>0, <1>b, Longer DEF ClientSends
  <2>2. \A i \in DOMAIN inbox' : IsConnect(inbox'[i]) => i \in DOMAIN inbox /\ inbox'[i] = inbox[i]
    BY <1>0, <1>b, <2>1 DEF IsConnect
  <2> QED  BY <1>b, <2>2 DEF ConnectsNothing, AttachOnce, ConnectOnce, Expected
<1>1. CASE OpenAttach
  <2>1. attachnsp(Root) /\ opc = "attach" /\ opc' = "register" /\ UNCHANGED <<inbox, nconn, hpkt, hpc>>
    BY <1>1 DEF OpenAttach, hvars, clvars
  <2> QED  BY <2>1, AttachIsOnce DEF ConnectOnce, Expected
<1>2. ASSUME NEW h \in Handlers, Connect(h) PROVE (AttachOnce /\ ConnectOnce)'
  <2> DEFINE n == hpkt[h].nsp
  <2>1. /\ attachnsp(n) /\ hpc[h] = "connect" /\ UNCHANGED <<inbox, nconn, hpkt, opc>>
        /\ hpc' = [hpc EXCEPT ![h] = "connected"]
    BY <1>2 DEF Connect, clvars
  <2>2. n \in Known
    BY <2>1 DEF TypeInv, HandlerType, Processing
  <2>3. /\ \A k \in Handlers : hpc'[k] = "connect" => hpc[k] = "connect" /\ k # h
        /\ \A k \in Handlers : hpc'[k] = "connect" => hpkt[k].nsp # n
    BY <1>0, <2>1 DEF AttachOnce
  <2>4. Expected(n) /\ \A i \in DOMAIN inbox : IsConnect(inbox[i]) => inbox[i].nsp # n
    BY <2>1 DEF ConnectOnce, AttachOnce
  <2> HIDE DEF n
  <2> QED  BY <2>1, <2>2, <2>3, <2>4, AttachIsOnce DEF Expected
<1>3. ASSUME NEW h \in Handlers, Message(h) PROVE (AttachOnce /\ ConnectOnce)'
  <2>1. /\ DOMAIN inbox' = 1 .. (Len(inbox) - 1) /\ Head(inbox) = inbox[1] /\ 1 \in DOMAIN inbox
        /\ \A i \in DOMAIN inbox' : i + 1 \in DOMAIN inbox /\ inbox'[i] = inbox[i + 1] /\ i \in Int
    BY <1>0, <1>3, Shorter DEF Message
  <2>2. UNCHANGED <<handles, opc, nconn>>
    BY <1>3 DEF Message, svars
  <2>3. \A k \in Handlers : hpc'[k] = "connect" =>
          \/ hpc[k] = "connect" /\ hpkt'[k] = hpkt[k]
          \/ k = h /\ IsConnect(inbox[1]) /\ hpkt'[k] = inbox[1]
    BY <1>0, <1>3, <2>1 DEF Message, CaseOf, IsConnect
  <2>4. \A i \in DOMAIN inbox' : i + 1 # 1
    BY <2>1
  <2>5. AttachOnce'
    BY <2>1, <2>2, <2>3, <2>4 DEF AttachOnce
  <2>6. ConnectOnce'
    BY <2>1, <2>2, <2>3 DEF ConnectOnce, Expected
  <2> QED  BY <2>5, <2>6
<1>4. ASSUME NEW n \in Nsps, ClientConnect(n) PROVE (AttachOnce /\ ConnectOnce)'
  <2> DEFINE p == [NoPacket EXCEPT !.type = "connect", !.nsp = n]
  <2>1. p \in InPacket /\ p.nsp = n
    BY PacketsMade DEF NoPacket
  <2>2. /\ nconn[n] = 0 /\ nconn' = [nconn EXCEPT ![n] = @ + 1] /\ ClientSends(p)
        /\ UNCHANGED <<handles, opc, hpc, hpkt>>
    BY <1>0, <1>4 DEF ClientConnect, svars, hvars
  <2> HIDE DEF p
  <2>3. nconn'[n] = 1 /\ \A k \in Nsps : k # n => nconn'[k] = nconn[k]
    BY <1>0, <2>2
  <2>4. /\ DOMAIN inbox' = 1 .. (Len(inbox) + 1) /\ inbox'[Len(inbox) + 1] = p
        /\ \A i \in 1 .. Len(inbox) : inbox'[i] = inbox[i]
    BY <1>0, <2>1, <2>2, Longer DEF ClientSends
  <2>5. \A i \in DOMAIN inbox' : \/ i \in DOMAIN inbox /\ inbox'[i] = inbox[i]
                                 \/ i = Len(inbox) + 1 /\ inbox'[i].nsp = n
    BY <1>0, <2>1, <2>4
  <2>6. \A i \in DOMAIN inbox : inbox[i].nsp \in Nsps
    BY <1>0 DEF InPacket, Packet
  <2>7. n # Root /\ \A g \in DOMAIN handles : handles[g].nsp # n
    BY <2>2 DEF ConnectOnce
  <2>8. /\ \A i \in DOMAIN inbox : IsConnect(inbox[i]) => inbox[i].nsp # n
        /\ \A k \in Handlers : hpc[k] = "connect" => hpkt[k].nsp # n
    BY <2>2 DEF ConnectOnce, Expected
  <2>9. AttachOnce'
    BY <2>2, <2>5, <2>8 DEF AttachOnce
  <2>10. ConnectOnce'
    <3>1. \A k \in Nsps : nconn[k] > 0 => nconn'[k] > 0
      BY <1>0, <2>3
    <3>2. \A g \in DOMAIN handles : handles[g].nsp \in Nsps
      <4>1. \A g \in DOMAIN handles : handles[g] \in Handle
        BY DEF TypeInv, ServerType
      <4> QED  BY <4>1 DEF Handle
    <3>3. \A k \in Handlers : hpkt[k].nsp \in Nsps
      BY <1>0 DEF Packet
    <3>4. Expected(n)'
      BY <2>2, <2>3, <2>7 DEF Expected
    <3>5. \A k \in Nsps : Expected(k) => Expected(k)'
      BY <2>2, <3>1 DEF Expected
    <3> QED  BY <2>2, <2>5, <2>6, <3>1, <3>2, <3>3, <3>4, <3>5 DEF ConnectOnce
  <2> QED  BY <2>9, <2>10
<1>5. ASSUME NEW n \in Nsps, ClientDisconnect(n) PROVE (AttachOnce /\ ConnectOnce)'
  <2>1. [NoPacket EXCEPT !.type = "disconnect", !.nsp = n].type # "connect"
    BY DEF NoPacket
  <2>2. ConnectsNothing
    BY <1>5 DEF ClientDisconnect, svars, hvars, ConnectsNothing
  <2> QED  BY <1>5, <1>b, <2>1, <2>2, PacketsMade DEF ClientDisconnect
<1>6. ASSUME NEW e \in events, ClientAck(e) PROVE (AttachOnce /\ ConnectOnce)'
  <2>1. e \in Event
    BY DEF TypeInv, ClientType
  <2>2. ConnectsNothing
    BY <1>6 DEF ClientAck, svars, hvars, ConnectsNothing
  <2> QED  BY <1>6, <1>b, <2>1, <2>2, PacketsMade DEF ClientAck
<1>7. CASE ClientClose
  <2>1. [NoPacket EXCEPT !.type = "close"].type # "connect"
    BY DEF NoPacket
  <2>2. ConnectsNothing
    BY <1>7 DEF ClientClose, svars, hvars, ConnectsNothing
  <2> QED  BY <1>7, <1>b, <2>1, <2>2, PacketsMade DEF ClientClose
<1>8. CASE OpenRegister \/ OpenNotify \/ ClientGone \/ UNCHANGED vars
  BY <1>8, <1>a
  DEF OpenRegister, OpenNotify, ClientGone, vars, svars, hvars, clvars, ConnectsNothing
<1>9. CASE ReadFails
  BY <1>0, <1>9, <1>a DEF ReadFails, svars, clvars, ConnectsNothing
<1>10. ASSUME NEW h \in Handlers, CallAck(h) PROVE (AttachOnce /\ ConnectOnce)'
  BY <1>0, <1>10, <1>a, CallAckFacts DEF CallAck, clvars, HandlesKept, ConnectsNothing
<1>11. ASSUME NEW a \in Apps, onAck(a) PROVE (AttachOnce /\ ConnectOnce)'
  BY <1>11, <1>a, OnAckFacts DEF onAck, hvars, clvars, HandlesKept, ConnectsNothing
<1>12. ASSUME NEW h \in Handlers, NEW l, l # "connect", Goto(h, l),
              UNCHANGED <<handles, opc, hpkt, clvars>>
       PROVE  (AttachOnce /\ ConnectOnce)'
  BY <1>0, <1>12, <1>a DEF clvars, ConnectsNothing
<1>13. ASSUME NEW h \in Handlers, ConnectNotify(h) \/ Disconnect(h) \/ DisconnectNotify(h)
       PROVE  (AttachOnce /\ ConnectOnce)'
  BY <1>12, <1>13 DEF ConnectNotify, Disconnect, DisconnectNotify, svars
<1>14. ASSUME NEW h \in Handlers, FindHandle(h) \/ FindCallback(h)
       PROVE  (AttachOnce /\ ConnectOnce)'
  BY <1>12, <1>14 DEF FindHandle, FindCallback, svars
<1>15. ASSUME NEW h \in Handlers,
              CloseFind(h) \/ CloseRemove(h) \/ CloseReturns(h) \/ CloseJams(h)
       PROVE  (AttachOnce /\ ConnectOnce)'
  BY <1>12, <1>15 DEF CloseFind, CloseRemove, CloseReturns, CloseJams, Back, svars
<1>16. ASSUME NEW h \in Handlers, DetachLock(h) \/ DetachNext(h) \/ DetachUnlock(h)
       PROVE  (AttachOnce /\ ConnectOnce)'
  BY <1>12, <1>16 DEF DetachLock, DetachNext, DetachUnlock, Back
<1>17. ASSUME NEW a \in Apps, EmitCall(a) \/ EmitFind(a) \/ EmitSend(a)
       PROVE  (AttachOnce /\ ConnectOnce)'
  BY <1>17, <1>a DEF EmitCall, EmitFind, EmitSend, svars, hvars, clvars, ConnectsNothing
<1> QED
  BY <1>1, <1>2, <1>3, <1>4, <1>5, <1>6, <1>7, <1>8, <1>9, <1>10, <1>11, <1>13, <1>14,
     <1>15, <1>16, <1>17
  DEF Next, OpenStep, ProcessStep, EmitStep, ClientStep

\* What a step that enters no callback does to the events.
EntersNone == \A n \in Nsps, i \in Nat, k \in Nat : BoundTo(n, i, k) => BoundTo(n, i, k)'

LEMMA SameEntersNone == ASSUME UNCHANGED handles PROVE EntersNone
  BY DEF EntersNone, BoundTo

\* A new handle is empty, and the only one of its namespace.
LEMMA AttachEntersNone ==
  ASSUME TypeInv, NEW n \in Known, attachnsp(n), \A g \in DOMAIN handles : handles[g].nsp # n,
         IdsInOrder
  PROVE  EntersNone /\ IdsInOrder'
<1>1. /\ DOMAIN handles = 1 .. Len(handles) /\ DOMAIN handles' = 1 .. (Len(handles) + 1)
      /\ Len(handles) \in Nat /\ \A g \in 1 .. Len(handles) : handles'[g] = handles[g]
      /\ handles'[Len(handles) + 1].nsp = n /\ handles'[Len(handles) + 1].ackmap = {}
  BY AttachFacts
<1> DEFINE m == Len(handles) + 1
<1>2. /\ \A g \in DOMAIN handles' : g = m \/ (g \in DOMAIN handles /\ handles'[g] = handles[g])
      /\ \A g \in DOMAIN handles : g \in DOMAIN handles' /\ handles'[g] = handles[g]
      /\ handles'[m].nsp = n /\ handles'[m].ackmap = {}
  BY <1>1
<1> HIDE DEF m
<1>3. ASSUME NEW k \in Nsps, NEW i \in Nat, NEW v \in Nat, BoundTo(k, i, v) PROVE BoundTo(k, i, v)'
  <2>1. k # n
    BY <1>3 DEF BoundTo
  <2> QED  BY <1>2, <1>3, <2>1 DEF BoundTo
<1>4. IdsInOrder'
  BY <1>2 DEF IdsInOrder
<1> QED  BY <1>3, <1>4 DEF EntersNone

\* CallAck takes callbacks out.
LEMMA CallAckEntersNone ==
  ASSUME TypeInv, IdsInOrder, NEW h \in Handlers, CallAck(h)
  PROVE  EntersNone /\ IdsInOrder'
<1>1. /\ DOMAIN handles' = DOMAIN handles
      /\ \A g \in DOMAIN handles : handles'[g].nsp = handles[g].nsp /\ handles'[g].id = handles[g].id
      /\ \A g \in DOMAIN handles : \A e \in handles'[g].ackmap : e \in handles[g].ackmap
  BY CallAckFacts DEF HandlesKept
<1>2. EntersNone
  BY <1>1 DEF EntersNone, BoundTo
<1>3. IdsInOrder'
  BY <1>1 DEF IdsInOrder
<1> QED  BY <1>2, <1>3

\* onAck binds the event to the next id of the handle, which no other event has.
LEMMA OnAckBinds ==
  ASSUME TypeInv, AttachOnce, IdsInOrder, NEW a \in Apps, onAck(a),
         NEW k0 \in Nat, k0 = acall[a].event
  PROVE  EntersNone /\ IdsInOrder' /\ Bound(acall[a])'
<1> DEFINE g0 == acall[a].handle
           i0 == handles[g0].id + 1
           e0 == <<i0, k0>>
<1>1. /\ DOMAIN handles' = DOMAIN handles /\ DOMAIN handles = 1 .. Len(handles)
      /\ g0 \in DOMAIN handles /\ i0 \in Nat
      /\ \A g \in DOMAIN handles : handles'[g].nsp = handles[g].nsp
      /\ \A g \in DOMAIN handles : g # g0 => handles'[g] = handles[g]
      /\ handles'[g0].id = i0 /\ handles'[g0].ackmap = handles[g0].ackmap \cup {e0}
      /\ acall' = [acall EXCEPT ![a].id = i0]
  BY OnAckFacts DEF HandlesKept
<1>2. \A g \in DOMAIN handles : handles[g].id \in Nat /\ handles[g].ackmap \subseteq Nat \X (1 .. MaxEmit)
  <2>1. \A g \in DOMAIN handles : handles[g] \in Handle
    BY DEF TypeInv, ServerType
  <2> QED  BY <2>1 DEF Handle
<1>3. handles[g0].nsp = acall[a].nsp
  BY DEF TypeInv, AppType, onAck
<1>4. acall'[a].nsp = acall[a].nsp /\ acall'[a].id = i0 /\ acall'[a].event = k0
  <2>1. acall \in [Apps -> Call]
    BY DEF TypeInv, AppType
  <2> QED  BY <1>1, <2>1 DEF Call
<1>5. e0[1] = i0 /\ e0[2] = k0 /\ i0 > handles[g0].id
  BY <1>1, <1>2
<1> HIDE DEF g0, i0, e0
<1>6. ASSUME NEW n \in Nsps, NEW i \in Nat, NEW k \in Nat, BoundTo(n, i, k)
      PROVE  BoundTo(n, i, k)'
  <2>1. handles[g0].nsp = n => i <= handles[g0].id /\ i # i0
    BY <1>1, <1>2, <1>5, <1>6 DEF BoundTo
  <2>2. \A g \in DOMAIN handles' : handles'[g].nsp = n => i <= handles'[g].id
    BY <1>1, <1>2, <1>5, <1>6, <2>1 DEF BoundTo
  <2>3. \A g \in DOMAIN handles' : \A e \in handles'[g].ackmap :
          handles'[g].nsp = n /\ e[1] = i => e[2] = k
    BY <1>1, <1>5, <1>6, <2>1 DEF BoundTo
  <2> QED  BY <1>1, <1>6, <2>2, <2>3 DEF BoundTo
<1>7. IdsInOrder'
  <2>1. \A e \in handles'[g0].ackmap : e[1] <= i0
    BY <1>1, <1>2, <1>5 DEF IdsInOrder
  <2> QED  BY <1>1, <2>1 DEF IdsInOrder
<1>8. Bound(acall[a])'
  <2>1. \A g \in DOMAIN handles : handles[g].nsp = acall[a].nsp => g = g0
    BY <1>1, <1>3 DEF AttachOnce
  <2>2. \A g \in DOMAIN handles' : \A e \in handles'[g].ackmap :
          handles'[g].nsp = acall[a].nsp /\ e[1] = i0 => e[2] = k0
    <3>1. \A e \in handles[g0].ackmap : e[1] # i0
      BY <1>1, <1>2, <1>5 DEF IdsInOrder
    <3> QED  BY <1>1, <1>3, <1>5, <2>1, <3>1
  <2>3. \A g \in DOMAIN handles' : handles'[g].nsp = acall[a].nsp => i0 <= handles'[g].id
    BY <1>1, <2>1
  <2>4. \E g \in DOMAIN handles' : handles'[g].nsp = acall[a].nsp
    BY <1>1, <1>3
  <2> QED  BY <1>4, <2>2, <2>3, <2>4 DEF Bound, BoundTo
<1> QED  BY <1>6, <1>7, <1>8 DEF EntersNone

\* Every step keeps the events bound.
LEMMA BindingStep ==
  ASSUME MaxConnect = 1, TypeInv, AckInv, [Next]_vars
  PROVE  Binding'
<1> USE NamespacesAssumption DEF Goto
<1>0. /\ inbox \in Seq(InPacket) /\ DOMAIN inbox = 1 .. Len(inbox) /\ Len(inbox) \in Nat
      /\ hpc \in [Handlers -> Labels] /\ hpkt \in [Handlers -> Packet]
      /\ hcb \in [Handlers -> 0 .. MaxEmit]
      /\ apc \in [Apps -> {"idle", "find", "onack", "send"}] /\ acall \in [Apps -> Call]
      /\ events \subseteq Event
      /\ fired \in Seq((0 .. MaxEmit) \X (0 .. MaxEmit))
      /\ DOMAIN fired = 1 .. Len(fired) /\ Len(fired) \in Nat
  BY DEF TypeInv, ClientType, HandlerType, AppType, HistoryType
<1>1. /\ \A a \in Apps : acall[a].nsp \in Nsps /\ acall[a].id \in Nat /\ acall[a].event \in Nat
      /\ \A h \in Handlers : hpkt[h].nsp \in Nsps /\ hpkt[h].id \in Nat /\ hpkt[h].event \in Nat
      /\ \A i \in DOMAIN inbox : inbox[i].nsp \in Nsps /\ inbox[i].id \in Nat /\ inbox[i].event \in Nat
      /\ \A e \in events : e.nsp \in Nsps /\ e.id \in Nat /\ e.event \in Nat
  <2>1. \A a \in Apps : acall[a].nsp \in Nsps /\ acall[a].id \in Nat /\ acall[a].event \in Nat
    BY <1>0 DEF Call
  <2>2. \A h \in Handlers : hpkt[h].nsp \in Nsps /\ hpkt[h].id \in Nat /\ hpkt[h].event \in Nat
    BY <1>0 DEF Packet
  <2>3. \A i \in DOMAIN inbox : inbox[i].nsp \in Nsps /\ inbox[i].id \in Nat /\ inbox[i].event \in Nat
    BY <1>0 DEF InPacket, Packet
  <2>4. \A e \in events : e.nsp \in Nsps /\ e.id \in Nat /\ e.event \in Nat
    BY <1>0 DEF Event
  <2> QED  BY <2>1, <2>2, <2>3, <2>4
<1>2. /\ AttachOnce /\ ConnectOnce
      /\ IdsInOrder /\ HeldBound /\ SentBound /\ QueuedBound /\ TakenBound
      /\ CallOwn /\ FiredOwn
  BY DEF AckInv, Binding
<1>i. ASSUME UNCHANGED handles PROVE IdsInOrder'
  BY <1>2, <1>i DEF IdsInOrder
<1>h. ASSUME EntersNone, UNCHANGED <<apc, acall>> PROVE HeldBound'
  BY <1>1, <1>2, <1>h DEF EntersNone, HeldBound, Bound
<1>s. ASSUME EntersNone, UNCHANGED events PROVE SentBound'
  BY <1>1, <1>2, <1>s DEF EntersNone, SentBound, Bound
<1>q. ASSUME EntersNone, UNCHANGED inbox PROVE QueuedBound'
  BY <1>1, <1>2, <1>q DEF EntersNone, QueuedBound, Bound
<1>p. ASSUME EntersNone, NEW p \in InPacket, ClientSends(p), IsAck(p) => Bound(p) PROVE QueuedBound'
  <2>1. /\ DOMAIN inbox' = 1 .. (Len(inbox) + 1) /\ inbox'[Len(inbox) + 1] = p
        /\ \A i \in 1 .. Len(inbox) : inbox'[i] = inbox[i]
    BY <1>0, <1>p, Longer DEF ClientSends
  <2>2. \A i \in DOMAIN inbox' : inbox'[i] = p \/ (i \in DOMAIN inbox /\ inbox'[i] = inbox[i])
    BY <1>0, <2>1
  <2>3. p.nsp \in Nsps /\ p.id \in Nat /\ p.event \in Nat
    BY <1>p DEF InPacket, Packet
  <2> QED  BY <1>1, <1>2, <1>p, <2>2, <2>3 DEF EntersNone, QueuedBound, Bound
<1>t. ASSUME EntersNone,
             \A h \in Handlers : hpc'[h] \in AckSteps => hpc[h] \in AckSteps /\ hpkt'[h] = hpkt[h]
      PROVE  TakenBound'
  BY <1>1, <1>2, <1>t DEF EntersNone, TakenBound, Bound
<1>c. ASSUME \A h \in Handlers : hpc'[h] = "call" =>
               hpc[h] = "call" /\ hpkt'[h] = hpkt[h] /\ hcb'[h] = hcb[h]
      PROVE  CallOwn'
  BY <1>2, <1>c DEF CallOwn
<1>f. ASSUME UNCHANGED fired PROVE FiredOwn'
  BY <1>2, <1>f DEF FiredOwn
<1>3. CASE OpenRegister \/ OpenNotify \/ ClientGone \/ UNCHANGED vars
  <2>1. UNCHANGED <<handles, apc, acall, events, inbox, hpc, hpkt, hcb, fired>>
    BY <1>3 DEF OpenRegister, OpenNotify, ClientGone, svars, hvars, avars, clvars, vars
  <2>2. EntersNone
    BY <2>1, SameEntersNone
  <2> QED  BY <1>i, <1>h, <1>s, <1>q, <1>t, <1>c, <1>f, <2>1, <2>2 DEF Binding
<1>4. ASSUME EntersNone, IdsInOrder', NEW h \in Handlers, NEW l,
             l \in AckSteps => hpc[h] \in AckSteps, l # "call", Goto(h, l),
             UNCHANGED <<hpkt, hcb, avars, clvars, fired>>
      PROVE  Binding'
  <2>1. TakenBound'
    BY <1>0, <1>4, <1>t
  <2>2. CallOwn'
    BY <1>0, <1>4, <1>c
  <2> QED  BY <1>4, <1>h, <1>s, <1>q, <1>f, <2>1, <2>2 DEF Binding, avars, clvars
<1>5. ASSUME NEW h \in Handlers, NEW l,
             l \in AckSteps => hpc[h] \in AckSteps, l # "call", Goto(h, l),
             UNCHANGED <<handles, hpkt, hcb, avars, clvars, fired>>
      PROVE  Binding'
  BY <1>4, <1>5, <1>i, SameEntersNone DEF avars
<1>6. ASSUME NEW h \in Handlers, ConnectNotify(h) \/ Disconnect(h) \/ DisconnectNotify(h)
      PROVE  Binding'
  BY <1>5, <1>6 DEF ConnectNotify, Disconnect, DisconnectNotify, AckSteps, svars
<1>7. ASSUME NEW h \in Handlers, FindHandle(h) PROVE Binding'
  BY <1>5, <1>7 DEF FindHandle, AckSteps, svars
<1>8. ASSUME NEW h \in Handlers,
             CloseFind(h) \/ CloseRemove(h) \/ CloseReturns(h) \/ CloseJams(h)
      PROVE  Binding'
  BY <1>5, <1>8 DEF CloseFind, CloseRemove, CloseReturns, CloseJams, Back, AckSteps, svars
<1>9. ASSUME NEW h \in Handlers, DetachLock(h) \/ DetachNext(h) \/ DetachUnlock(h) PROVE Binding'
  BY <1>5, <1>9 DEF DetachLock, DetachNext, DetachUnlock, Back, AckSteps
<1>10. CASE ReadFails
  BY <1>5, <1>10 DEF ReadFails, AckSteps, svars
<1>11. CASE OpenAttach
  <2>1. /\ attachnsp(Root) /\ \A g \in DOMAIN handles : handles[g].nsp # Root
        /\ UNCHANGED <<apc, acall, events, inbox, hpc, hpkt, hcb, fired>>
    BY <1>2, <1>11 DEF OpenAttach, ConnectOnce, hvars, avars, clvars
  <2>2. EntersNone /\ IdsInOrder'
    BY <1>2, <2>1, AttachEntersNone
  <2> QED  BY <1>h, <1>s, <1>q, <1>t, <1>c, <1>f, <2>1, <2>2 DEF Binding
<1>12. ASSUME NEW h \in Handlers, Connect(h) PROVE Binding'
  <2> DEFINE n == hpkt[h].nsp
  <2>1. /\ attachnsp(n) /\ hpc[h] = "connect" /\ Goto(h, "connected")
        /\ UNCHANGED <<hpkt, hcb, avars, clvars, fired>>
    BY <1>12 DEF Connect
  <2>2. n \in Known
    BY <2>1 DEF TypeInv, HandlerType, Processing
  <2>3. \A g \in DOMAIN handles : handles[g].nsp # n
    BY <1>2, <2>1 DEF ConnectOnce, Expected
  <2> HIDE DEF n
  <2>4. EntersNone /\ IdsInOrder'
    BY <1>2, <2>1, <2>2, <2>3, AttachEntersNone
  <2> QED  BY <1>4, <2>1, <2>4 DEF AckSteps
<1>13. ASSUME NEW h \in Handlers, CallAck(h) PROVE Binding'
  <2> DEFINE k0 == hpkt[h].event
             f == <<hcb[h], k0>>
  <2>1. /\ UNCHANGED <<apc, acall, events, inbox, hpkt, hcb>> /\ hpc[h] = "call"
        /\ hpc' = [hpc EXCEPT ![h] = "idle"] /\ fired' = Append(fired, f)
    BY <1>13 DEF CallAck, avars, clvars
  <2>2. EntersNone /\ IdsInOrder'
    BY <1>2, <1>13, CallAckEntersNone
  <2>3. f \in (0 .. MaxEmit) \X (0 .. MaxEmit) /\ f[1] = k0 /\ f[2] = k0
    BY <1>0, <1>2, <2>1 DEF CallOwn, Packet
  <2> HIDE DEF f
  <2>4. /\ DOMAIN fired' = 1 .. (Len(fired) + 1) /\ fired'[Len(fired) + 1] = f
        /\ \A i \in 1 .. Len(fired) : fired'[i] = fired[i]
    BY <1>0, <2>1, <2>3, Longer
  <2>5. \A j \in DOMAIN fired' : \/ j \in DOMAIN fired /\ fired'[j] = fired[j]
                                 \/ fired'[j] = f
    BY <1>0, <2>4
  <2>6. FiredOwn'
    BY <1>2, <2>3, <2>5 DEF FiredOwn
  <2>7. TakenBound' /\ CallOwn'
    BY <1>0, <1>t, <1>c, <2>1, <2>2 DEF AckSteps
  <2> QED  BY <1>h, <1>s, <1>q, <2>1, <2>2, <2>6, <2>7 DEF Binding
<1>14. ASSUME NEW h \in Handlers, FindCallback(h) PROVE Binding'
  <2>1. /\ UNCHANGED <<handles, apc, acall, events, inbox, hpkt, fired>> /\ hpc[h] = "find"
        /\ hpc' \in {[hpc EXCEPT ![h] = "call"], [hpc EXCEPT ![h] = "idle"]}
    BY <1>14 DEF FindCallback, svars, avars, clvars
  <2>2. EntersNone
    BY <2>1, SameEntersNone
  <2>3. TakenBound'
    BY <1>0, <1>t, <2>1, <2>2 DEF AckSteps
  <2>4. CallOwn'
    <3>1. hpc'[h] = "call" => hcb'[h] = hpkt[h].event
      <4>1. handles[hack[h]].nsp = hpkt[h].nsp /\ hack[h] \in DOMAIN handles /\ Bound(hpkt[h])
        BY <1>2, <2>1 DEF TypeInv, ServerType, HandlerType, TakenBound, AckSteps
      <4>2. \A e \in handles[hack[h]].ackmap : e[1] = hpkt[h].id => e[2] = hpkt[h].event
        BY <4>1 DEF Bound, BoundTo
      <4> QED  BY <1>0, <1>14, <4>2 DEF FindCallback
    <3>2. \A g \in Handlers : g # h => hpc'[g] = hpc[g] /\ hcb'[g] = hcb[g]
      BY <1>0, <1>14 DEF FindCallback
    <3> QED  BY <1>2, <2>1, <3>1, <3>2 DEF CallOwn
  <2> QED  BY <1>i, <1>h, <1>s, <1>q, <1>f, <2>1, <2>2, <2>3, <2>4 DEF Binding
<1>15. ASSUME NEW n \in Nsps, ClientConnect(n) \/ ClientDisconnect(n) PROVE Binding'
  <2>1. /\ [NoPacket EXCEPT !.type = "connect", !.nsp = n].type = "connect"
        /\ [NoPacket EXCEPT !.type = "disconnect", !.nsp = n].type = "disconnect"
    BY DEF NoPacket
  <2>2. UNCHANGED <<handles, apc, acall, events, hpc, hpkt, hcb, fired>>
    BY <1>15 DEF ClientConnect, ClientDisconnect, svars, hvars, avars
  <2>3. EntersNone
    BY <2>2, SameEntersNone
  <2>4. QueuedBound'
    BY <1>15, <1>p, <2>1, <2>3, PacketsMade DEF ClientConnect, ClientDisconnect, IsAck
  <2> QED  BY <1>i, <1>h, <1>s, <1>t, <1>c, <1>f, <2>2, <2>3, <2>4 DEF Binding
<1>16. CASE ClientClose
  <2>1. [NoPacket EXCEPT !.type = "close"].type = "close"
    BY DEF NoPacket
  <2>2. UNCHANGED <<handles, apc, acall, events, hpc, hpkt, hcb, fired>>
    BY <1>16 DEF ClientClose, svars, hvars, avars
  <2>3. EntersNone
    BY <2>2, SameEntersNone
  <2>4. QueuedBound'
    BY <1>16, <1>p, <2>1, <2>3, PacketsMade DEF ClientClose, IsAck
  <2> QED  BY <1>i, <1>h, <1>s, <1>t, <1>c, <1>f, <2>2, <2>3, <2>4 DEF Binding
<1>17. ASSUME NEW e \in events, ClientAck(e) PROVE Binding'
  <2> DEFINE p == [type |-> "ack", nsp |-> e.nsp, id |-> e.id, event |-> e.event]
  <2>1. /\ UNCHANGED <<handles, apc, acall, hpc, hpkt, hcb, fired>>
        /\ events' = events /\ ClientSends(p)
    BY <1>17 DEF ClientAck, svars, hvars, avars
  <2>2. p \in InPacket /\ Bound(p)
    BY <1>0, <1>2, PacketsMade DEF SentBound, Bound
  <2> HIDE DEF p
  <2>3. EntersNone
    BY <2>1, SameEntersNone
  <2>4. QueuedBound'
    BY <1>p, <2>1, <2>2, <2>3
  <2> QED  BY <1>i, <1>h, <1>s, <1>t, <1>c, <1>f, <2>1, <2>3, <2>4 DEF Binding
<1>18. ASSUME NEW h \in Handlers, Message(h) PROVE Binding'
  <2>1. /\ DOMAIN inbox' = 1 .. (Len(inbox) - 1) /\ Head(inbox) = inbox[1] /\ 1 \in DOMAIN inbox
        /\ \A i \in DOMAIN inbox' : i + 1 \in DOMAIN inbox /\ inbox'[i] = inbox[i + 1]
    BY <1>0, <1>18, Shorter DEF Message
  <2>2. UNCHANGED <<handles, apc, acall, events, fired, hcb>> /\ hpc[h] = "idle"
    BY <1>18 DEF Message, svars, avars
  <2>3. EntersNone
    BY <2>2, SameEntersNone
  <2>4. QueuedBound'
    BY <1>1, <1>2, <2>1, <2>3 DEF EntersNone, QueuedBound, Bound
  <2> DEFINE p == inbox[1]
  <2>5. p.type \in {"connect", "disconnect", "ack", "close"}
    BY <1>0, <2>1 DEF InPacket, Packet
  <2>6. \/ hpkt' = [hpkt EXCEPT ![h] = p] /\ hpc' = [hpc EXCEPT ![h] = CaseOf(p)]
        \/ UNCHANGED <<hpc, hpkt>>
    BY <1>18, <2>1 DEF Message
  <2>7. p.nsp \in Nsps /\ p.id \in Nat /\ p.event \in Nat /\ (IsAck(p) => Bound(p))
    BY <1>1, <1>2, <2>1 DEF QueuedBound
  <2> HIDE DEF p
  <2>8. CaseOf(p) # "call" /\ (CaseOf(p) \in AckSteps => IsAck(p))
    BY <2>5 DEF CaseOf, AckSteps, IsAck
  <2>9. CASE UNCHANGED <<hpc, hpkt>>
    BY <1>i, <1>h, <1>s, <1>t, <1>c, <1>f, <2>2, <2>3, <2>4, <2>9 DEF Binding
  <2>10. CASE hpkt' = [hpkt EXCEPT ![h] = p] /\ hpc' = [hpc EXCEPT ![h] = CaseOf(p)]
    <3>1. \A g \in Handlers : g # h => hpc'[g] = hpc[g] /\ hpkt'[g] = hpkt[g]
      BY <1>0, <2>10
    <3>2. hpc'[h] = CaseOf(p) /\ hpkt'[h] = p
      BY <1>0, <2>10
    <3>3. CallOwn'
      BY <1>c, <2>2, <2>8, <3>1, <3>2
    <3>4. PICK n \in Nsps, i \in Nat, k \in Nat : n = p.nsp /\ i = p.id /\ k = p.event
      BY <2>7
    <3>5. TakenBound'
      <4>1. CaseOf(p) \in AckSteps => BoundTo(n, i, k)'
        BY <2>3, <2>7, <2>8, <3>4 DEF Bound, EntersNone
      <4>2. hpc'[h] \in AckSteps => Bound(hpkt[h])'
        BY <3>2, <3>4, <4>1 DEF Bound
      <4>3. \A g \in Handlers : g # h /\ hpc'[g] \in AckSteps => Bound(hpkt[g])'
        BY <1>1, <1>2, <2>3, <3>1 DEF TakenBound, Bound, EntersNone
      <4> QED  BY <4>2, <4>3 DEF TakenBound
    <3> QED  BY <1>i, <1>h, <1>s, <1>f, <2>2, <2>3, <2>4, <3>3, <3>5 DEF Binding
  <2> QED  BY <2>6, <2>9, <2>10
<1>19. ASSUME NEW a \in Apps, EmitCall(a) \/ EmitFind(a) PROVE Binding'
  <2>1. /\ UNCHANGED <<handles, events, inbox, hpc, hpkt, hcb, fired>>
        /\ apc' \in {[apc EXCEPT ![a] = l] : l \in {"idle", "find", "onack"}}
        /\ \A b \in Apps : b # a => acall'[b] = acall[b]
    BY <1>0, <1>19 DEF EmitCall, EmitFind, svars, hvars, clvars
  <2>2. EntersNone
    BY <2>1, SameEntersNone
  <2>3. HeldBound'
    BY <1>0, <1>1, <1>2, <2>1, <2>2 DEF HeldBound, Bound, EntersNone
  <2> QED  BY <1>i, <1>s, <1>q, <1>t, <1>c, <1>f, <2>1, <2>2, <2>3 DEF Binding
<1>20. ASSUME NEW a \in Apps, EmitSend(a) PROVE Binding'
  <2> DEFINE e0 == [nsp |-> acall[a].nsp, id |-> acall[a].id, event |-> acall[a].event]
  <2>1. /\ UNCHANGED <<handles, inbox, hpc, hpkt, hcb, fired, acall>> /\ apc[a] = "send"
        /\ apc' = [apc EXCEPT ![a] = "idle"] /\ events' \subseteq events \cup {e0}
    BY <1>20 DEF EmitSend, svars, hvars
  <2>2. BoundTo(e0.nsp, e0.id, e0.event) /\ e0.nsp \in Nsps /\ e0.id \in Nat /\ e0.event \in Nat
    BY <1>1, <1>2, <2>1 DEF HeldBound, Bound
  <2> HIDE DEF e0
  <2>3. EntersNone
    BY <2>1, SameEntersNone
  <2>4. SentBound'
    BY <1>1, <1>2, <2>1, <2>2, <2>3 DEF SentBound, Bound, EntersNone
  <2>5. HeldBound'
    BY <1>0, <1>1, <1>2, <2>1, <2>3 DEF HeldBound, Bound, EntersNone
  <2> QED  BY <1>i, <1>q, <1>t, <1>c, <1>f, <2>1, <2>3, <2>4, <2>5 DEF Binding
<1>21. ASSUME NEW a \in Apps, onAck(a) PROVE Binding'
  <2>1. /\ UNCHANGED <<events, inbox, hpc, hpkt, hcb, fired>>
        /\ apc' = [apc EXCEPT ![a] = "send"]
    BY <1>21 DEF onAck, hvars, clvars
  <2>2. PICK k0 \in Nat : k0 = acall[a].event
    BY <1>1
  <2>3. EntersNone /\ IdsInOrder' /\ Bound(acall[a])'
    BY <1>2, <1>21, <2>2, OnAckBinds
  <2>4. \A b \in Apps : b # a => apc'[b] = apc[b] /\ acall'[b] = acall[b]
    BY <1>0, <1>21 DEF onAck
  <2>5. HeldBound'
    BY <1>0, <1>1, <1>2, <2>1, <2>3, <2>4 DEF HeldBound, Bound, EntersNone
  <2> QED  BY <1>s, <1>q, <1>t, <1>c, <1>f, <2>1, <2>3, <2>5 DEF Binding
<1> QED
  BY <1>3, <1>6, <1>7, <1>8, <1>9, <1>10, <1>11, <1>12, <1>13, <1>14, <1>15, <1>16, <1>17,
     <1>18, <1>19, <1>20, <1>21
  DEF Next, OpenStep, ProcessStep, EmitStep, ClientStep

\* At first nothing is attached and no event emitted.
LEMMA AckInit == Init => AckInv
<1> SUFFICES ASSUME Init PROVE AckInv
  OBVIOUS
<1> USE NamespacesAssumption DEF Init
<1>1. /\ DOMAIN handles = {} /\ DOMAIN inbox = {} /\ DOMAIN fired = {} /\ events = {}
      /\ nconn[Root] > 0
      /\ \A h \in Handlers : hpc[h] = "idle"
      /\ \A a \in Apps : apc[a] = "idle"
  OBVIOUS
<1>2. AttachOnce /\ ConnectOnce
  BY <1>1 DEF AttachOnce, ConnectOnce
<1>3. Binding
  BY <1>1
  DEF Binding, IdsInOrder, HeldBound, SentBound, QueuedBound, TakenBound, CallOwn, FiredOwn,
      AckSteps
<1> QED  BY <1>2, <1>3 DEF AckInv

\* When a client connects each namespace at most once, the callback that is called is
\* that of the event acknowledged, whichever handlers process acknowledgements and
\* however often the client repeats them.
THEOREM CallbacksMatch ==
  ASSUME MaxConnect = 1
  PROVE  Spec => []AckMatches
<1>1. Init => TypeInv /\ AckInv
  BY TypeInvInit, AckInit
<1>2. TypeInv /\ AckInv /\ [Next]_vars => (TypeInv /\ AckInv)'
  BY TypeInvStep, AttachOnceStep, BindingStep DEF AckInv
<1>3. TypeInv /\ AckInv => AckMatches
  BY DEF AckInv, Binding, FiredOwn, AckMatches
<1> QED  BY <1>1, <1>2, <1>3, PTL DEF Spec
=============================================================================
