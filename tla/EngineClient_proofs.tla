------------------------ MODULE EngineClient_proofs -------------------------
(***************************************************************************)
(* The safety of EngineClient for any capacity of the emitter's channel    *)
(* and any number of messages and pings.                                   *)
(***************************************************************************)
EXTENDS EngineClient, Emitter_proofs, Selection_proofs

\* The packets that the two sides make are packets.
LEMMA PacketsMade ==
  /\ \A n \in 1 .. MaxEmit : Message(n) \in Packets
  /\ \A n \in 1 .. MaxPings : <<"ping", n>> \in Packets
  /\ \A n \in 1 .. MaxMessages : Message(n) \in InPackets
  /\ <<"pong", 0>> \in InPackets /\ <<"close", 0>> \in InPackets
  BY EngineClientAssumption DEF Message, OutPackets, InPackets, InMessages

-----------------------------------------------------------------------------
(* The inductive invariant.                                                *)

\* Before the loops start nobody knows the socket: its emitter is idle.
DialInv ==
  dpc \in {"idle", "open", "failed"} =>
    /\ once = "open" /\ epc = "top" /\ packets = <<>> /\ hand = <<>>
    /\ spkt = [s \in Submitters |-> <<>>]
    /\ written = <<>> /\ onWire = <<>> /\ rdpc = "none" /\ ppc = "none"

\* Socket.Close has closed the connection, and an open connection got every packet.
WireInv ==
  /\ once = "closed" => conn = "closed"
  /\ conn = "open" => onWire = written

\* The read loop waits in Close for the emitter, and stops at its next look at
\* closeChan and the connection.
ReaderInv ==
  /\ rdpc \in {"callback", "closing", "exiting", "exited"} =>
       cpc[Reader] = "closing" \/ once = "closed"
  /\ closing => closeChan
  /\ late > 0 => closeChan /\ ~closing /\ rdpc \in {"top", "exiting", "exited"}

ClientIndInv ==
  /\ EmitterInv /\ ClientTypeOK /\ DialInv /\ WireInv /\ ReaderInv
  /\ QuietAfterClose /\ PingsWhileOpen /\ NotifiedOnce

\* The initial state satisfies the inductive invariant.
LEMMA ClientIndInit == Init => ClientIndInv
<1> SUFFICES ASSUME Init PROVE ClientIndInv
  OBVIOUS
<1> USE EngineClientAssumption DEF Init
<1>1. EmitterInv
  BY EmitterInvInit
<1>2. ClientTypeOK
  <2>1. <<>> \in Seq(InPackets) /\ <<>> \in Seq(Packets) /\ <<>> \in AtMostOne(InPackets)
    BY AtMostOneIntro
  <2>2. /\ inq \in Seq(InPackets) /\ sent \in Seq(InPackets) /\ delivered \in Seq(InPackets)
        /\ missed \in Seq(InPackets) /\ onWire \in Seq(Packets) /\ rpkt \in AtMostOne(InPackets)
    BY <2>1
  <2>3. nemit \in 0 .. MaxEmit /\ nping \in 0 .. MaxPings /\ late \in Nat /\ notified \in Nat
    OBVIOUS
  <2> QED  BY <1>1, <2>2, <2>3 DEF ClientTypeOK, EmitterInv
<1>3. DialInv /\ WireInv
  BY DEF EmitterInit, DialInv, WireInv
<1>4. ReaderInv /\ QuietAfterClose /\ PingsWhileOpen /\ NotifiedOnce
  BY DEF ReaderInv, QuietAfterClose, PingsWhileOpen, NotifiedOnce
<1> QED  BY <1>1, <1>2, <1>3, <1>4 DEF ClientIndInv

\* A step of the client is a step of the emitter, or leaves the emitter alone.
LEMMA ClientStepsOfEmitter == ClientTypeOK /\ [Next]_vars => [EmitterStep]_evars
<1> SUFFICES ASSUME ClientTypeOK, [Next]_vars PROVE [EmitterStep]_evars
  OBVIOUS
<1> USE EngineClientAssumption DEF EmitterStep
<1>1. CASE Ping
  <2>1. CASE done
    BY <1>1, <2>1 DEF Ping
  <2>2. CASE ~done
    <3>1. nping' \in 1 .. MaxPings
      BY <1>1, <2>2 DEF Ping, ClientTypeOK
    <3> QED  BY <1>1, <2>2, <3>1, PacketsMade DEF Ping
  <2> QED  BY <2>1, <2>2
<1>2. CASE AppEmit
  <2>1. nemit' \in 1 .. MaxEmit
    BY <1>2 DEF AppEmit, ClientTypeOK
  <2> QED  BY <1>2, <2>1, PacketsMade DEF AppEmit
<1>3. CASE PingAccepted \/ PingRefused \/ AppEmitReturn
  BY <1>3 DEF PingAccepted, PingRefused, AppEmitReturn
<1>4. CASE ReadBegin \/ ReadError \/ HandleClose
  BY <1>4 DEF ReadBegin, ReadError, HandleClose, ReturnClosing
<1>5. CASE EmitterInner \/ Write \/ SocketClosed
  BY <1>5 DEF EmitterInner, Write, SocketClosed
<1>6. CASE AppCloseSocket \/ \E g \in Closers : CloseReturned(g)
  BY <1>6 DEF AppCloseSocket, CloseReturned
<1>7. CASE Connect \/ ReadOpen \/ Register \/ PingStop \/ ClientClose \/ ClientCloseConn
  BY <1>7 DEF Connect, ReadOpen, Register, PingStop, ClientClose, ClientCloseConn
<1>8. CASE ReadPacket \/ HandleMessage \/ HandleOther \/ HandleClosed \/ ReaderExit
  BY <1>8 DEF ReadPacket, HandleMessage, HandleOther, HandleClosed, ReaderExit
<1>9. CASE ServerSend \/ ConnLost \/ UNCHANGED vars
  BY <1>9 DEF ServerSend, ConnLost, vars
<1> QED
  BY <1>1, <1>2, <1>3, <1>4, <1>5, <1>6, <1>7, <1>8, <1>9
  DEF Next, PingStep, ReadStep, WriterStep

\* No step takes a variable out of its type.
LEMMA ClientTypeStep ==
  ClientTypeOK /\ EmitterTypeOK' /\ [Next]_vars => ClientTypeOK'
<1> SUFFICES ASSUME ClientTypeOK, EmitterTypeOK', [Next]_vars PROVE ClientTypeOK'
  OBVIOUS
<1> USE EngineClientAssumption, AtMostOneIntro DEF ClientTypeOK, netvars, dialvars, readvars
<1>1. CASE Connect
  BY <1>1 DEF Connect
<1>2. CASE ReadOpen
  BY <1>2 DEF ReadOpen
<1>3. CASE Register
  BY <1>3 DEF Register
<1>4. CASE PingStop
  BY <1>4 DEF PingStop
<1>5. CASE Ping
  BY <1>5 DEF Ping
<1>6. CASE PingAccepted
  BY <1>6 DEF PingAccepted
<1>7. CASE PingRefused
  BY <1>7 DEF PingRefused
<1>8. CASE ReadBegin
  BY <1>8 DEF ReadBegin, ReturnClosing
<1>9. CASE ReadPacket
  <2>1. Head(inq) \in InPackets /\ Tail(inq) \in Seq(InPackets)
    BY <1>9, HeadTailProperties DEF ReadPacket
  <2> QED  BY <1>9, <2>1 DEF ReadPacket
<1>10. CASE ReadError
  BY <1>10 DEF ReadError, ReturnClosing
<1>11. CASE HandleMessage
  <2>1. delivered \o rpkt \in Seq(InPackets) /\ missed \o rpkt \in Seq(InPackets)
    BY AtMostOneIsSeq, LineFacts
  <2>2. late' \in Nat
    BY <1>11 DEF HandleMessage
  <2>3. delivered' \in Seq(InPackets) /\ missed' \in Seq(InPackets)
    BY <1>11, <2>1 DEF HandleMessage
  <2> QED  BY <1>11, <2>2, <2>3 DEF HandleMessage
<1>12. CASE HandleOther
  BY <1>12 DEF HandleOther
<1>13. CASE HandleClose
  BY <1>13 DEF HandleClose
<1>14. CASE HandleClosed
  BY <1>14 DEF HandleClosed
<1>15. CASE ReaderExit
  BY <1>15 DEF ReaderExit
<1>16. CASE EmitterInner
  BY <1>16 DEF EmitterInner
<1>17. CASE Write
  <2>1. onWire \o hand \in Seq(Packets)
    BY AtMostOneIsSeq, LineFacts DEF EmitterTypeOK
  <2> QED  BY <1>17, <2>1 DEF Write
<1>18. CASE SocketClosed
  BY <1>18 DEF SocketClosed
<1>19. ASSUME NEW g \in Closers, CloseReturned(g) PROVE ClientTypeOK'
  BY <1>19 DEF CloseReturned
<1>20. CASE AppEmit
  BY <1>20 DEF AppEmit
<1>21. CASE AppEmitReturn
  BY <1>21 DEF AppEmitReturn
<1>22. CASE AppCloseSocket
  BY <1>22 DEF AppCloseSocket
<1>23. CASE ClientClose
  BY <1>23 DEF ClientClose
<1>24. CASE ClientCloseConn
  BY <1>24 DEF ClientCloseConn
<1>25. CASE ServerSend
  <2>1. PICK p \in {Message(Len(sent) + 1), <<"pong", 0>>, <<"close", 0>>} :
          sent' = Append(sent, p) /\ inq' = Append(inq, p)
    BY <1>25 DEF ServerSend
  <2>2. Len(sent) + 1 \in 1 .. MaxMessages
    BY <1>25 DEF ServerSend
  <2>3. p \in InPackets
    BY <2>2, PacketsMade
  <2>4. sent' \in Seq(InPackets) /\ inq' \in Seq(InPackets)
    BY <2>1, <2>3, AppendProperties
  <2> QED  BY <1>25, <2>4 DEF ServerSend
<1>26. CASE ConnLost
  BY <1>26 DEF ConnLost
<1>27. CASE UNCHANGED vars
  BY <1>27 DEF vars
<1> QED
  BY <1>1, <1>2, <1>3, <1>4, <1>5, <1>6, <1>7, <1>8, <1>9, <1>10, <1>11, <1>12, <1>13,
     <1>14, <1>15, <1>16, <1>17, <1>18, <1>19, <1>20, <1>21, <1>22, <1>23, <1>24, <1>25,
     <1>26, <1>27
  DEF Next, PingStep, ReadStep, WriterStep

\* Nothing reaches the emitter before Dial has read the open packet.
LEMMA DialStep == ClientIndInv /\ [Next]_vars => (DialInv)'
<1> SUFFICES ASSUME ClientIndInv, [Next]_vars PROVE (DialInv)'
  OBVIOUS
<1> USE EngineClientAssumption
    DEF ClientIndInv, EmitterInv, EmitterTypeOK, ClientTypeOK, CloseInv, HandInv, evars,
        netvars, dialvars, readvars, DialInv
<1>1. CASE Connect
  BY <1>1 DEF Connect
<1>2. CASE ReadOpen
  BY <1>2 DEF ReadOpen
<1>3. CASE Register
  BY <1>3 DEF Register
<1>4. CASE PingStop
  BY <1>4 DEF PingStop
<1>5. CASE Ping
  BY <1>5 DEF Ping, Submit
<1>6. CASE PingAccepted
  BY <1>6 DEF PingAccepted, SubmitSend
<1>7. CASE PingRefused
  BY <1>7 DEF PingRefused, SubmitFail
<1>8. CASE ReadBegin
  BY <1>8 DEF ReadBegin, ReturnClosing, CloseCall
<1>9. CASE ReadPacket
  BY <1>9 DEF ReadPacket
<1>10. CASE ReadError
  BY <1>10 DEF ReadError, ReturnClosing, CloseCall
<1>11. CASE HandleMessage
  BY <1>11 DEF HandleMessage
<1>12. CASE HandleOther
  BY <1>12 DEF HandleOther
<1>13. CASE HandleClose
  BY <1>13 DEF HandleClose, CloseCall
<1>14. CASE HandleClosed
  BY <1>14 DEF HandleClosed
<1>15. CASE ReaderExit
  BY <1>15 DEF ReaderExit
<1>16. CASE EmitterInner
  BY <1>16 DEF EmitterInner, Take, Pass, Exit
<1>17. CASE Write
  BY <1>17 DEF Write, Written
<1>18. CASE SocketClosed
  BY <1>18 DEF SocketClosed, CloseConn
<1>19. ASSUME NEW g \in Closers, CloseReturned(g) PROVE (DialInv)'
  BY <1>19 DEF CloseReturned, CloseReturn
<1>20. CASE AppEmit
  BY <1>20 DEF AppEmit, Submit
<1>21. CASE AppEmitReturn
  BY <1>21 DEF AppEmitReturn, SubmitSend, SubmitFail
<1>22. CASE AppCloseSocket
  BY <1>22 DEF AppCloseSocket, CloseCall
<1>23. CASE ClientClose
  BY <1>23 DEF ClientClose
<1>24. CASE ClientCloseConn
  BY <1>24 DEF ClientCloseConn
<1>25. CASE ServerSend
  BY <1>25 DEF ServerSend
<1>26. CASE ConnLost
  BY <1>26 DEF ConnLost
<1>27. CASE UNCHANGED vars
  BY <1>27 DEF vars
<1> QED
  BY <1>1, <1>2, <1>3, <1>4, <1>5, <1>6, <1>7, <1>8, <1>9, <1>10, <1>11, <1>12, <1>13,
     <1>14, <1>15, <1>16, <1>17, <1>18, <1>19, <1>20, <1>21, <1>22, <1>23, <1>24, <1>25,
     <1>26, <1>27
  DEF Next, PingStep, ReadStep, WriterStep

\* The connection is closed with the socket, and loses nothing while it is open.
LEMMA WireStep == ClientIndInv /\ [Next]_vars => (WireInv)'
<1> SUFFICES ASSUME ClientIndInv, [Next]_vars PROVE (WireInv)'
  OBVIOUS
<1> USE EngineClientAssumption
    DEF ClientIndInv, EmitterInv, EmitterTypeOK, ClientTypeOK, CloseInv, HandInv, evars,
        netvars, dialvars, readvars, DialInv, WireInv
<1>1. CASE Connect
  BY <1>1 DEF Connect
<1>2. CASE ReadOpen
  BY <1>2 DEF ReadOpen
<1>3. CASE Register
  BY <1>3 DEF Register
<1>4. CASE PingStop
  BY <1>4 DEF PingStop
<1>5. CASE Ping
  BY <1>5 DEF Ping, Submit
<1>6. CASE PingAccepted
  BY <1>6 DEF PingAccepted, SubmitSend
<1>7. CASE PingRefused
  BY <1>7 DEF PingRefused, SubmitFail
<1>8. CASE ReadBegin
  BY <1>8 DEF ReadBegin, ReturnClosing, CloseCall
<1>9. CASE ReadPacket
  BY <1>9 DEF ReadPacket
<1>10. CASE ReadError
  BY <1>10 DEF ReadError, ReturnClosing, CloseCall
<1>11. CASE HandleMessage
  BY <1>11 DEF HandleMessage
<1>12. CASE HandleOther
  BY <1>12 DEF HandleOther
<1>13. CASE HandleClose
  BY <1>13 DEF HandleClose, CloseCall
<1>14. CASE HandleClosed
  BY <1>14 DEF HandleClosed
<1>15. CASE ReaderExit
  BY <1>15 DEF ReaderExit
<1>16. CASE EmitterInner
  BY <1>16 DEF EmitterInner, Take, Pass, Exit
<1>17. CASE Write
  BY <1>17 DEF Write, Written
<1>18. CASE SocketClosed
  BY <1>18 DEF SocketClosed, CloseConn
<1>19. ASSUME NEW g \in Closers, CloseReturned(g) PROVE (WireInv)'
  BY <1>19 DEF CloseReturned, CloseReturn
<1>20. CASE AppEmit
  BY <1>20 DEF AppEmit, Submit
<1>21. CASE AppEmitReturn
  BY <1>21 DEF AppEmitReturn, SubmitSend, SubmitFail
<1>22. CASE AppCloseSocket
  BY <1>22 DEF AppCloseSocket, CloseCall
<1>23. CASE ClientClose
  BY <1>23 DEF ClientClose
<1>24. CASE ClientCloseConn
  BY <1>24 DEF ClientCloseConn
<1>25. CASE ServerSend
  BY <1>25 DEF ServerSend
<1>26. CASE ConnLost
  BY <1>26 DEF ConnLost
<1>27. CASE UNCHANGED vars
  BY <1>27 DEF vars
<1> QED
  BY <1>1, <1>2, <1>3, <1>4, <1>5, <1>6, <1>7, <1>8, <1>9, <1>10, <1>11, <1>12, <1>13,
     <1>14, <1>15, <1>16, <1>17, <1>18, <1>19, <1>20, <1>21, <1>22, <1>23, <1>24, <1>25,
     <1>26, <1>27
  DEF Next, PingStep, ReadStep, WriterStep

\* The two loops stop when they should.
LEMMA LoopsStep ==
  ClientIndInv /\ [Next]_vars => (ReaderInv /\ QuietAfterClose /\ PingsWhileOpen /\ NotifiedOnce)'
<1> SUFFICES ASSUME ClientIndInv, [Next]_vars
             PROVE  (ReaderInv /\ QuietAfterClose /\ PingsWhileOpen /\ NotifiedOnce)'
  OBVIOUS
<1> USE EngineClientAssumption
    DEF ClientIndInv, EmitterInv, EmitterTypeOK, ClientTypeOK, CloseInv, HandInv, evars,
        netvars, dialvars, readvars, DialInv, WireInv,
        ReaderInv, QuietAfterClose, PingsWhileOpen, NotifiedOnce
<1>1. CASE Connect
  BY <1>1 DEF Connect
<1>2. CASE ReadOpen
  BY <1>2 DEF ReadOpen
<1>3. CASE Register
  BY <1>3 DEF Register
<1>4. CASE PingStop
  BY <1>4 DEF PingStop
<1>5. CASE Ping
  BY <1>5 DEF Ping, Submit
<1>6. CASE PingAccepted
  BY <1>6 DEF PingAccepted, SubmitSend
<1>7. CASE PingRefused
  BY <1>7 DEF PingRefused, SubmitFail
<1>8. CASE ReadBegin
  BY <1>8 DEF ReadBegin, ReturnClosing, CloseCall
<1>9. CASE ReadPacket
  BY <1>9 DEF ReadPacket
<1>10. CASE ReadError
  BY <1>10 DEF ReadError, ReturnClosing, CloseCall
<1>11. CASE HandleMessage
  BY <1>11 DEF HandleMessage
<1>12. CASE HandleOther
  BY <1>12 DEF HandleOther
<1>13. CASE HandleClose
  BY <1>13 DEF HandleClose, CloseCall
<1>14. CASE HandleClosed
  BY <1>14 DEF HandleClosed
<1>15. CASE ReaderExit
  BY <1>15 DEF ReaderExit
<1>16. CASE EmitterInner
  BY <1>16 DEF EmitterInner, Take, Pass, Exit
<1>17. CASE Write
  BY <1>17 DEF Write, Written
<1>18. CASE SocketClosed
  BY <1>18 DEF SocketClosed, CloseConn
<1>19. ASSUME NEW g \in Closers, CloseReturned(g)
       PROVE  (ReaderInv /\ QuietAfterClose /\ PingsWhileOpen /\ NotifiedOnce)'
  BY <1>19 DEF CloseReturned, CloseReturn
<1>20. CASE AppEmit
  BY <1>20 DEF AppEmit, Submit
<1>21. CASE AppEmitReturn
  BY <1>21 DEF AppEmitReturn, SubmitSend, SubmitFail
<1>22. CASE AppCloseSocket
  BY <1>22 DEF AppCloseSocket, CloseCall
<1>23. CASE ClientClose
  BY <1>23 DEF ClientClose
<1>24. CASE ClientCloseConn
  BY <1>24 DEF ClientCloseConn
<1>25. CASE ServerSend
  BY <1>25 DEF ServerSend
<1>26. CASE ConnLost
  BY <1>26 DEF ConnLost
<1>27. CASE UNCHANGED vars
  BY <1>27 DEF vars
<1> QED
  BY <1>1, <1>2, <1>3, <1>4, <1>5, <1>6, <1>7, <1>8, <1>9, <1>10, <1>11, <1>12, <1>13,
     <1>14, <1>15, <1>16, <1>17, <1>18, <1>19, <1>20, <1>21, <1>22, <1>23, <1>24, <1>25,
     <1>26, <1>27
  DEF Next, PingStep, ReadStep, WriterStep

-----------------------------------------------------------------------------
(* The theorems.                                                           *)

\* The inductive invariant holds in every reachable state.
THEOREM ClientInvariance == Spec => []ClientIndInv
<1>1. Init => ClientIndInv
  BY ClientIndInit
<1>2. ClientIndInv /\ [Next]_vars => ClientIndInv'
  <2> SUFFICES ASSUME ClientIndInv, [Next]_vars PROVE ClientIndInv'
    OBVIOUS
  <2>1. EmitterInv'
    BY ClientStepsOfEmitter, EmitterInvStep DEF ClientIndInv
  <2>2. ClientTypeOK'
    BY <2>1, ClientTypeStep DEF ClientIndInv, EmitterInv
  <2>3. DialInv' /\ WireInv'
    BY DialStep, WireStep
  <2>4. (ReaderInv /\ QuietAfterClose /\ PingsWhileOpen /\ NotifiedOnce)'
    BY LoopsStep
  <2> QED  BY <2>1, <2>2, <2>3, <2>4 DEF ClientIndInv
<1> QED  BY <1>1, <1>2, PTL DEF Spec

\* The client's safety: the callback of EventMessage runs at most once after Close, the
\* pings go on while the client is in use, and EventClose is fired at most once.
THEOREM ClientSafe == Spec => []ClientInv
<1>1. ClientIndInv => ClientInv
  BY DEF ClientIndInv, ClientInv
<1> QED  BY <1>1, ClientInvariance, PTL

\* Socket.Close closes an open connection only when all that Emit accepted before has
\* left on it.
THEOREM ClientCloseFlushes == Spec => FlushedOnClose
<1>1. ClientIndInv /\ [Next]_vars =>
        [once # "closed" /\ once' = "closed" /\ conn = "open" =>
           onWire = written /\ Len(onWire) >= due]_vars
  <2> SUFFICES ASSUME ClientIndInv, [Next]_vars, once # "closed", once' = "closed", conn = "open"
               PROVE  onWire = written /\ Len(onWire) >= due
    OBVIOUS
  <2>1. epc = "exited"
    <3>1. [EmitterStep]_evars
      BY ClientStepsOfEmitter DEF ClientIndInv
    <3> QED
      BY <3>1 DEF EmitterStep, evars, Submit, SubmitSend, SubmitFail, Take, Pass, Written,
                  Exit, CloseCall, CloseConn, CloseReturn
  <2> QED  BY <2>1 DEF ClientIndInv, EmitterInv, CloseInv, WireInv
<1> QED  BY <1>1, ClientInvariance, PTL DEF Spec, FlushedOnClose

-----------------------------------------------------------------------------
(* The messages of the server, in order.                                   *)

\* The read loop has a packet while it handles one; nothing is delivered before the
\* callback of EventMessage is there.
HandleInv ==
  /\ rdpc = "handle" <=> rpkt # <<>>
  /\ "message" \notin callbacks => delivered = <<>>

\* Messages and other packets are told apart by their first component.
LEMMA MessageOrNot ==
  /\ \A p \in InPackets : p \in InMessages <=> p[1] = "message"
  /\ InMessages \subseteq InPackets
  BY DEF InPackets, InMessages

\* A message that is handled is the first of those to be handled; another packet is none.
LEMMA HandledFirst ==
  ASSUME NEW h \in AtMostOne(InPackets), NEW q \in Seq(InPackets), h # <<>>
  PROVE  /\ h[1] \in InPackets
         /\ h[1] \in InMessages => Selected(h \o q, InMessages) = h \o Selected(q, InMessages)
         /\ h[1] \notin InMessages => Selected(h \o q, InMessages) = Selected(q, InMessages)
<1>1. PICK p \in InPackets : h = <<p>>
  BY Zenon DEF AtMostOne
<1>2. h[1] = p /\ <<p>> \in Seq(InPackets)
  BY <1>1
<1>3. Selected(<<p>> \o q, InMessages) = Selected(<<p>>, InMessages) \o Selected(q, InMessages)
  BY <1>2, SelectedConcat
<1>4. Selected(<<p>>, InMessages) = Whether(p, InMessages)
  BY SelectedOne
<1>5. Selected(q, InMessages) \in Seq(InPackets)
  BY SelectedType
<1>6. CASE p \in InMessages
  BY <1>1, <1>2, <1>3, <1>4, <1>6, Zenon DEF Whether
<1>7. CASE p \notin InMessages
  <2>1. Selected(<<p>>, InMessages) = <<>>
    BY <1>4, <1>7, Zenon DEF Whether
  <2>2. <<>> \o Selected(q, InMessages) = Selected(q, InMessages)
    BY <1>5, ConcatEmptySeq
  <2> QED  BY <1>1, <1>2, <1>3, <1>7, <2>1, <2>2, Zenon
<1> QED  BY <1>6, <1>7

\* The callback gets every message but those that came before it was there, in order.
LEMMA MissedStep ==
  ClientTypeOK /\ DialInv /\ HandleInv /\ OnlyEarlyMissed /\ [Next]_vars =>
    (HandleInv /\ OnlyEarlyMissed)'
<1> SUFFICES ASSUME ClientTypeOK, DialInv, HandleInv, OnlyEarlyMissed, [Next]_vars
             PROVE  (HandleInv /\ OnlyEarlyMissed)'
  OBVIOUS
<1> DEFINE todo == Selected(rpkt \o inq, InMessages)
           rest == Selected(inq, InMessages)
           line == <<sent, missed, delivered, rpkt, inq>>
<1>0. /\ inq \in Seq(InPackets) /\ sent \in Seq(InPackets)
      /\ missed \in Seq(InPackets) /\ delivered \in Seq(InPackets)
      /\ rpkt \in AtMostOne(InPackets) /\ rpkt \in Seq(InPackets)
      /\ missed \o delivered \in Seq(InPackets) /\ rest \in Seq(InPackets)
  BY AtMostOneIsSeq, LineFacts, SelectedType DEF ClientTypeOK
<1>1. ASSUME UNCHANGED line PROVE OnlyEarlyMissed'
  BY <1>1 DEF OnlyEarlyMissed
<1>2. ASSUME UNCHANGED <<rdpc, rpkt, delivered, callbacks>> PROVE HandleInv'
  BY <1>2 DEF HandleInv
<1>3. CASE ReadPacket
  <2>1. rpkt = <<>> /\ rpkt' # <<>> /\ rdpc' = "handle"
    BY <1>3 DEF ReadPacket, HandleInv
  <2>2. rpkt' \o inq' = inq /\ rpkt \o inq = inq
    BY <1>0, <1>3, <2>1, HeadTailProperties DEF ReadPacket
  <2>3. UNCHANGED <<sent, missed, delivered, callbacks>>
    BY <1>3 DEF ReadPacket, dialvars
  <2>4. OnlyEarlyMissed'
    BY <2>2, <2>3, Zenon DEF OnlyEarlyMissed
  <2> QED  BY <2>1, <2>3, <2>4 DEF HandleInv
<1>4. CASE HandleMessage
  <2>1. /\ rpkt # <<>> /\ rpkt' = <<>> /\ rdpc' = "top" /\ inq' = inq /\ sent' = sent
        /\ callbacks' = callbacks /\ rpkt[1][1] = "message"
    BY <1>4 DEF HandleMessage, HandleInv, netvars, dialvars
  <2>2. todo = rpkt \o rest
    BY <1>0, <2>1, HandledFirst, MessageOrNot
  <2>3. rpkt' \o inq' = inq
    BY <1>0, <2>1, ConcatEmptySeq
  <2>4. Selected(sent, InMessages) = (missed \o delivered) \o (rpkt \o rest)
    BY <2>2 DEF OnlyEarlyMissed
  <2> HIDE DEF rest
  <2>5. /\ (missed \o delivered) \o (rpkt \o rest) = (missed \o (delivered \o rpkt)) \o rest
        /\ delivered = <<>> =>
             (missed \o delivered) \o (rpkt \o rest) = ((missed \o rpkt) \o delivered) \o rest
    <3> DEFINE m == missed  d == delivered  h == rpkt
    <3>1. /\ m \in Seq(InPackets) /\ d \in Seq(InPackets)
          /\ h \in Seq(InPackets) /\ rest \in Seq(InPackets)
      BY <1>0
    <3> HIDE DEF m, d, h
    <3>2. /\ (m \o d) \o (h \o rest) = (m \o (d \o h)) \o rest
          /\ d = <<>> => (m \o d) \o (h \o rest) = ((m \o h) \o d) \o rest
      <4>1. (m \o d) \o (h \o rest) = (m \o (d \o h)) \o rest
        BY ONLY <3>1
      <4>2. ASSUME d = <<>> PROVE (m \o d) \o (h \o rest) = ((m \o h) \o d) \o rest
        <5>1. m \o d = m /\ m \o h \in Seq(InPackets) /\ (m \o h) \o d = m \o h
          BY <3>1, <4>2, LineFacts
        <5>2. m \o (h \o rest) = (m \o h) \o rest
          BY ONLY <3>1
        <5> QED  BY <5>1, <5>2
      <4> QED  BY <4>1, <4>2
    <3> QED  BY <3>2 DEF m, d, h
  <2>7. Selected(sent, InMessages) = (missed' \o delivered') \o rest
    <3>1. CASE "message" \in callbacks
      <4>1. missed' = missed /\ delivered' = delivered \o rpkt
        BY <1>4, <3>1 DEF HandleMessage
      <4> QED  BY <4>1, <2>4, <2>5, Zenon
    <3>2. CASE "message" \notin callbacks
      <4>1. missed' = missed \o rpkt /\ delivered' = delivered /\ delivered = <<>>
        BY <1>4, <3>2 DEF HandleMessage, HandleInv
      <4> QED  BY <4>1, <2>4, <2>5, Zenon
    <3> QED  BY <3>1, <3>2
  <2>8. OnlyEarlyMissed'
    BY <2>1, <2>3, <2>7, Zenon DEF OnlyEarlyMissed, rest
  <2>9. HandleInv'
    BY <1>4, <2>1 DEF HandleMessage, HandleInv
  <2> QED  BY <2>8, <2>9
<1>5. CASE HandleOther \/ HandleClose
  <2>1. /\ rpkt # <<>> /\ rpkt' = <<>> /\ rdpc' # "handle" /\ inq' = inq /\ sent' = sent
        /\ callbacks' = callbacks /\ rpkt[1][1] # "message"
        /\ missed' = missed /\ delivered' = delivered
    BY <1>5 DEF HandleOther, HandleClose, HandleInv, netvars, dialvars
  <2>2. todo = rest
    BY <1>0, <2>1, HandledFirst, MessageOrNot
  <2>3. rpkt' \o inq' = inq
    BY <1>0, <2>1, ConcatEmptySeq
  <2>4. OnlyEarlyMissed'
    BY <2>1, <2>2, <2>3, Zenon DEF OnlyEarlyMissed
  <2> QED  BY <2>1, <2>4 DEF HandleInv
<1>6. CASE ServerSend
  <2>1. PICK p \in {Message(Len(sent) + 1), <<"pong", 0>>, <<"close", 0>>} :
          sent' = Append(sent, p) /\ inq' = Append(inq, p)
    BY <1>6 DEF ServerSend
  <2>2. p \in InPackets
    <3>1. Len(sent) + 1 \in 1 .. MaxMessages
      BY <1>0, <1>6, EngineClientAssumption DEF ServerSend
    <3> QED  BY <3>1, PacketsMade
  <2>3. sent' = sent \o <<p>> /\ inq' = inq \o <<p>>
    <3>1. ASSUME NEW q \in Seq(InPackets) PROVE Append(q, p) = q \o <<p>>
      BY <2>2
    <3> QED  BY <1>0, <2>1, <3>1, Zenon
  <2>4. UNCHANGED <<rpkt, missed, delivered, rdpc, callbacks>>
    BY <1>6 DEF ServerSend, readvars, dialvars
  <2>5. Selected(sent \o <<p>>, InMessages)
          = (missed \o delivered) \o Selected(rpkt \o (inq \o <<p>>), InMessages)
    <3> DEFINE past == missed \o delivered
               waiting == rpkt \o inq
               w == Whether(p, InMessages)
    <3>1. rpkt \o (inq \o <<p>>) = waiting \o <<p>> /\ waiting \in Seq(InPackets)
      <4>1. <<p>> \in Seq(InPackets)
        BY <2>2
      <4> QED  BY <1>0, <4>1
    <3>2. Selected(sent \o <<p>>, InMessages) = Selected(sent, InMessages) \o w
      BY <1>0, <2>2, SelectedLast
    <3>3. Selected(waiting \o <<p>>, InMessages) = todo \o w
      BY <2>2, <3>1, SelectedLast
    <3>4. Selected(sent, InMessages) = past \o todo
      BY DEF OnlyEarlyMissed
    <3>5. w \in Seq(InPackets) /\ todo \in Seq(InPackets) /\ past \in Seq(InPackets)
      BY <1>0, <2>2, <3>1, SelectedOne, SelectedType
    <3> HIDE DEF past, w, todo, waiting
    <3>6. (past \o todo) \o w = past \o (todo \o w)
      BY ONLY <3>5
    <3>7. Selected(sent \o <<p>>, InMessages) = past \o Selected(waiting \o <<p>>, InMessages)
      BY <3>2, <3>3, <3>4, <3>6
    <3> QED  BY <3>1, <3>7 DEF past
  <2>6. OnlyEarlyMissed'
    BY <2>3, <2>4, <2>5, Zenon DEF OnlyEarlyMissed
  <2> QED  BY <1>2, <2>4, <2>6
<1>7. CASE ReadOpen \/ ReadBegin \/ ReadError \/ HandleClosed \/ ReaderExit
  <2>1. UNCHANGED <<line, callbacks>> /\ rdpc # "handle" /\ rdpc' # "handle"
    BY <1>7
    DEF ReadOpen, ReadBegin, ReadError, HandleClosed, ReaderExit, ReturnClosing, netvars,
        dialvars, DialInv
  <2> QED  BY <1>1, <2>1 DEF HandleInv
<1>8. CASE Register
  <2>1. UNCHANGED <<line, rdpc>> /\ "message" \in callbacks'
    BY <1>8 DEF Register, netvars, readvars
  <2> QED  BY <1>1, <2>1 DEF HandleInv
<1>9. CASE Connect \/ PingStep \/ ClientClose \/ ClientCloseConn \/ ConnLost \/ UNCHANGED vars
  <2>1. UNCHANGED <<line, rdpc, callbacks>>
    BY <1>9
    DEF Connect, PingStep, PingStop, Ping, PingAccepted, PingRefused, ClientClose,
        ClientCloseConn, ConnLost, netvars, dialvars, readvars, vars
  <2> QED  BY <1>1, <1>2, <2>1
<1>10. CASE WriterStep \/ SocketClosed \/ (\E g \in Closers : CloseReturned(g))
  <2>1. UNCHANGED <<line, rdpc, callbacks>>
    BY <1>10
    DEF WriterStep, EmitterInner, Write, SocketClosed, CloseReturned, netvars, dialvars,
        readvars
  <2> QED  BY <1>1, <1>2, <2>1
<1>11. CASE AppEmit \/ AppEmitReturn \/ AppCloseSocket
  <2>1. UNCHANGED <<line, rdpc, callbacks>>
    BY <1>11
    DEF AppEmit, AppEmitReturn, AppCloseSocket, netvars, dialvars, readvars
  <2> QED  BY <1>1, <1>2, <2>1
<1> QED
  BY <1>3, <1>4, <1>5, <1>6, <1>7, <1>8, <1>9, <1>10, <1>11 DEF Next, ReadStep

\* Every message that the server sent is missed, delivered or still to be handled, in this
\* order: the callback never misses a message after it has got one.
THEOREM OnlyEarlyAreMissed == Spec => []OnlyEarlyMissed
<1>1. Init => HandleInv /\ OnlyEarlyMissed
  <2> SUFFICES ASSUME Init PROVE HandleInv /\ OnlyEarlyMissed
    OBVIOUS
  <2>1. <<>> \o <<>> = <<>>
    OBVIOUS
  <2> QED  BY <2>1, SelectedEmpty DEF Init, HandleInv, OnlyEarlyMissed
<1>2. ClientIndInv => ClientTypeOK /\ DialInv
  BY DEF ClientIndInv
<1> QED  BY <1>1, <1>2, MissedStep, ClientInvariance, PTL DEF Spec
=============================================================================
