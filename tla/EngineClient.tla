---------------------------- MODULE EngineClient ----------------------------
(***************************************************************************)
(* A client on a websocket: Dial of engine/client.go with the ping loop    *)
(* and the read loop that it starts, handle and Close, and Dial of the     *)
(* socket.io client (client.go), which registers its callbacks when        *)
(* engine.Dial has returned.  Emit and Socket.Close are Emitter's; no      *)
(* upgrade ever holds the barrier of a client's socket.                    *)
(*                                                                         *)
(* The server and the network are external: packets come in order until    *)
(* the connection is lost.  What gorilla/websocket has buffered can be     *)
(* read from a lost connection, and by a Read that had set its deadline    *)
(* before the connection was closed.                                       *)
(***************************************************************************)
EXTENDS Emitter, Selection

CONSTANTS App, Pinger, Reader,  \* the goroutines
          MaxMessages,          \* bound on the packets the server sends
          MaxEmit,              \* bound on the messages the application emits
          MaxPings              \* bound on the pings

Message(n) == <<"message", n>>
OutPackets == ({"message"} \X (1 .. MaxEmit)) \cup ({"ping"} \X (1 .. MaxPings))
InMessages == {"message"} \X (1 .. MaxMessages)
InPackets == InMessages \cup {<<"pong", 0>>, <<"close", 0>>}

ASSUME EngineClientAssumption ==
  /\ Submitters = {App, Pinger} /\ Closers = {App, Reader}
  /\ App # Pinger /\ App # Reader /\ Pinger # Reader
  /\ Packets = OutPackets
  /\ MaxMessages \in Nat /\ MaxEmit \in Nat /\ MaxPings \in Nat

VARIABLES
  dpc,       \* where Dial stands
  conn,      \* "none", "open", "lost" by the network, or "closed" by the client
  inq,       \* packets of the server that were not read yet
  callbacks, \* the events that have a callback
  closeChan, \* the channel closeChan is closed
  closing,   \* Client.Close is between close(closeChan) and Conn.Close
  ppc,       \* where the ping loop stands
  rdpc,      \* where the read loop stands
  rpkt,      \* the packet to handle, <<>> or one
  nemit, nping, \* how many messages were emitted, pings were made
  sent,      \* history: packets that the server sent after the open packet
  delivered, \* history: messages that the callback of EventMessage got
  missed,    \* history: messages that found no callback
  late,      \* history: how many messages were delivered after Client.Close returned
  notified,  \* history: how often the callback of EventClose ran
  onWire     \* history: packets that left on an open connection

netvars == <<conn, inq, sent, onWire>>
dialvars == <<dpc, callbacks>>
readvars == <<rdpc, rpkt, delivered, missed, late, notified>>
vars == <<evars, netvars, dialvars, readvars, ppc, closeChan, closing,
                 nemit, nping>>

Init ==
  /\ EmitterInit
  /\ dpc = "idle" /\ conn = "none" /\ inq = <<>> /\ callbacks = {}
  /\ closeChan = FALSE /\ closing = FALSE
  /\ ppc = "none" /\ rdpc = "none" /\ rpkt = <<>>
  /\ sent = <<>> /\ nemit = 0 /\ nping = 0
  /\ delivered = <<>> /\ missed = <<>> /\ late = 0 /\ notified = 0 /\ onWire = <<>>

-----------------------------------------------------------------------------
(* Dial.                                                                   *)

\* dialer.Dial of the websocket transport succeeds or fails.
Connect ==
  /\ dpc = "idle"
  /\ \/ dpc' = "open" /\ conn' = "open"
     \/ dpc' = "failed" /\ UNCHANGED conn
  /\ UNCHANGED <<evars, inq, sent, onWire, callbacks, readvars, ppc, closeChan, closing,
                 nemit, nping>>

\* The first packet is read: an open packet starts the two loops, on a fresh
\* socket.  An error, another packet or bad parameters: Dial fails, and leaves the
\* connection open.
ReadOpen ==
  /\ dpc = "open"
  /\ \/ /\ conn = "open"
        /\ dpc' = "started" /\ ppc' = "wait" /\ rdpc' = "top"
     \/ dpc' = "failed" /\ UNCHANGED <<ppc, rdpc>>
  /\ UNCHANGED <<evars, netvars, callbacks, rpkt, delivered, missed, late, notified,
                 closeChan, closing, nemit, nping>>

\* The socket.io client registers EventMessage, then EventClose; Dial returns.
Register ==
  /\ \/ dpc = "started" /\ dpc' = "message" /\ callbacks' = {"message"}
     \/ dpc = "message" /\ dpc' = "ready" /\ callbacks' = {"message", "close"}
  /\ UNCHANGED <<evars, netvars, readvars, ppc, closeChan, closing, nemit, nping>>

-----------------------------------------------------------------------------
(* The ping loop.                                                          *)

PingStop ==
  /\ ppc = "wait"
  /\ closeChan
  /\ ppc' = "exited"
  /\ UNCHANGED <<evars, netvars, dialvars, readvars, closeChan, closing, nemit, nping>>

\* time.After fired: Emit, which a closed emitter refuses at once.
Ping ==
  /\ ppc = "wait"
  /\ IF done
     THEN ppc' = "exited" /\ UNCHANGED <<evars, nping>>
     ELSE /\ nping < MaxPings
          /\ nping' = nping + 1
          /\ Submit(Pinger, <<"ping", nping'>>)
          /\ ppc' = "emit"
  /\ UNCHANGED <<netvars, dialvars, readvars, closeChan, closing, nemit>>

PingAccepted ==
  /\ SubmitSend(Pinger)
  /\ ppc' = "wait"
  /\ UNCHANGED <<netvars, dialvars, readvars, closeChan, closing, nemit, nping>>

\* Emit failed: the loop ends.
PingRefused ==
  /\ SubmitFail(Pinger)
  /\ ppc' = "exited"
  /\ UNCHANGED <<netvars, dialvars, readvars, closeChan, closing, nemit, nping>>

-----------------------------------------------------------------------------
(* The read loop and handle.                                               *)

\* Return, with the deferred Socket.Close.
ReturnClosing == CloseCall(Reader) /\ rdpc' = "exiting"

\* The look at closeChan, and SetReadDeadline, which fails on a closed connection.
ReadBegin ==
  /\ rdpc = "top"
  /\ IF closeChan \/ conn = "closed" THEN ReturnClosing
                                     ELSE rdpc' = "read" /\ UNCHANGED evars
  /\ UNCHANGED <<netvars, dialvars, rpkt, delivered, missed, late, notified, ppc,
                 closeChan, closing, nemit, nping>>

ReadPacket ==
  /\ rdpc = "read"
  /\ inq # <<>>
  /\ rpkt' = <<Head(inq)>> /\ inq' = Tail(inq)
  /\ rdpc' = "handle"
  /\ UNCHANGED <<evars, conn, sent, onWire, dialvars, delivered, missed, late, notified, ppc,
                 closeChan, closing, nemit, nping>>

\* Mutant: no deferred Close.
ReadErrorNoClose ==
  /\ rdpc = "read"
  /\ rdpc' = "exiting"
  /\ UNCHANGED <<evars, netvars, dialvars, rpkt, delivered, missed, late, notified, ppc,
                 closeChan, closing, nemit, nping>>

\* The connection is lost or closed, or the deadline has passed.
ReadError ==
  /\ rdpc = "read"
  /\ ReturnClosing
  /\ UNCHANGED <<netvars, dialvars, rpkt, delivered, missed, late, notified, ppc,
                 closeChan, closing, nemit, nping>>

\* Mutant: a client that is being closed drops the message.
HandleMessageUnlessClosed ==
  /\ rdpc = "handle"
  /\ rpkt[1][1] = "message"
  /\ IF "message" \in callbacks
     THEN /\ delivered' = IF closeChan THEN delivered ELSE delivered \o rpkt
          /\ UNCHANGED <<missed, late>>
     ELSE missed' = missed \o rpkt /\ UNCHANGED <<delivered, late>>
  /\ rpkt' = <<>> /\ rdpc' = "top"
  /\ UNCHANGED <<evars, netvars, dialvars, notified, ppc, closeChan, closing, nemit, nping>>

\* Mutant: the next packet is read without a look at closeChan and a new deadline.
HandleMessageReadsOn ==
  /\ rdpc = "handle"
  /\ rpkt[1][1] = "message"
  /\ IF "message" \in callbacks
     THEN /\ delivered' = delivered \o rpkt
          /\ late' = IF closeChan /\ ~closing THEN late + 1 ELSE late
          /\ UNCHANGED missed
     ELSE missed' = missed \o rpkt /\ UNCHANGED <<delivered, late>>
  /\ rpkt' = <<>> /\ rdpc' = "read"
  /\ UNCHANGED <<evars, netvars, dialvars, notified, ppc, closeChan, closing, nemit, nping>>

\* handle, for a message: fire EventMessage.
HandleMessage ==
  /\ rdpc = "handle"
  /\ rpkt[1][1] = "message"
  /\ IF "message" \in callbacks
     THEN /\ delivered' = delivered \o rpkt
          /\ late' = IF closeChan /\ ~closing THEN late + 1 ELSE late
          /\ UNCHANGED missed
     ELSE missed' = missed \o rpkt /\ UNCHANGED <<delivered, late>>
  /\ rpkt' = <<>> /\ rdpc' = "top"
  /\ UNCHANGED <<evars, netvars, dialvars, notified, ppc, closeChan, closing, nemit, nping>>

HandleOther ==
  /\ rdpc = "handle"
  /\ rpkt[1][1] = "pong"
  /\ rpkt' = <<>> /\ rdpc' = "top"
  /\ UNCHANGED <<evars, netvars, dialvars, delivered, missed, late, notified, ppc,
                 closeChan, closing, nemit, nping>>

\* handle, for a close packet: fire EventClose, whose callback closes the socket and
\* detaches all namespaces; then Socket.Close, called again or for the first time.
HandleClose ==
  /\ rdpc = "handle"
  /\ rpkt[1][1] = "close"
  /\ CloseCall(Reader)
  /\ rdpc' = IF "close" \in callbacks THEN "callback" ELSE "closing"
  /\ rpkt' = <<>>
  /\ UNCHANGED <<netvars, dialvars, delivered, missed, late, notified, ppc,
                 closeChan, closing, nemit, nping>>

\* Socket.Close returned to the callback: detachall.  The second Close returns at once.
HandleClosed ==
  /\ rdpc \in {"callback", "closing"}
  /\ cpc[Reader] = "idle"
  /\ notified' = IF rdpc = "callback" THEN notified + 1 ELSE notified
  /\ rdpc' = "top"
  /\ UNCHANGED <<evars, netvars, dialvars, rpkt, delivered, missed, late, ppc,
                 closeChan, closing, nemit, nping>>

ReaderExit ==
  /\ rdpc = "exiting"
  /\ cpc[Reader] = "idle"
  /\ rdpc' = "exited"
  /\ UNCHANGED <<evars, netvars, dialvars, rpkt, delivered, missed, late, notified, ppc,
                 closeChan, closing, nemit, nping>>

-----------------------------------------------------------------------------
(* The emitter, Socket.Close, and the application.                         *)

EmitterInner ==
  /\ Take \/ Pass \/ Exit
  /\ UNCHANGED <<netvars, dialvars, readvars, ppc, closeChan, closing,
                 nemit, nping>>

\* WritePacket: the error of a connection that is gone is ignored.
Write ==
  /\ Written
  /\ onWire' = IF conn = "open" THEN onWire \o hand ELSE onWire
  /\ UNCHANGED <<conn, inq, sent, dialvars, readvars, ppc, closeChan, closing,
                 nemit, nping>>

SocketClosed ==
  /\ CloseConn
  /\ conn' = "closed"
  /\ UNCHANGED <<inq, sent, onWire, dialvars, readvars, ppc, closeChan, closing,
                 nemit, nping>>

CloseReturned(g) ==
  /\ CloseReturn(g)
  /\ UNCHANGED <<netvars, dialvars, readvars, ppc, closeChan, closing,
                 nemit, nping>>

AppEmit ==
  /\ dpc = "ready" /\ nemit < MaxEmit
  /\ nemit' = nemit + 1
  /\ Submit(App, Message(nemit'))
  /\ UNCHANGED <<netvars, dialvars, readvars, ppc, closeChan, closing, nping>>

AppEmitReturn ==
  /\ SubmitSend(App) \/ SubmitFail(App)
  /\ UNCHANGED <<netvars, dialvars, readvars, ppc, closeChan, closing,
                 nemit, nping>>

\* Close of the socket that callbacks get (Socket.Close).
AppCloseSocket ==
  /\ dpc = "ready"
  /\ spkt[App] = <<>> /\ ~closing
  /\ CloseCall(App)
  /\ UNCHANGED <<netvars, dialvars, readvars, ppc, closeChan, closing,
                 nemit, nping>>

\* Client.Close: close(closeChan), then Conn.Close, without the emitter's flush.
ClientClose ==
  /\ dpc = "ready"
  /\ spkt[App] = <<>> /\ cpc[App] = "idle"
  /\ ~closeChan
  /\ closeChan' = TRUE /\ closing' = TRUE
  /\ UNCHANGED <<evars, netvars, dialvars, readvars, ppc, nemit, nping>>

ClientCloseConn ==
  /\ closing
  /\ conn' = "closed" /\ closing' = FALSE
  /\ UNCHANGED <<evars, inq, sent, onWire, dialvars, readvars, ppc, closeChan, nemit, nping>>

-----------------------------------------------------------------------------
(* The server and the network (external).                                  *)

\* A message, a pong, or a close packet, after which the server sends no more.
ServerSend ==
  /\ conn = "open" /\ dpc \notin {"open", "failed"}
  /\ <<"close", 0>> \notin Range(sent)
  /\ Len(sent) < MaxMessages
  /\ \E p \in {Message(Len(sent) + 1), <<"pong", 0>>, <<"close", 0>>} :
       sent' = Append(sent, p) /\ inq' = Append(inq, p)
  /\ UNCHANGED <<evars, conn, onWire, dialvars, readvars, ppc, closeChan, closing,
                 nemit, nping>>

ConnLost ==
  /\ conn = "open"
  /\ conn' = "lost"
  /\ UNCHANGED <<evars, inq, sent, onWire, dialvars, readvars, ppc, closeChan, closing,
                 nemit, nping>>

-----------------------------------------------------------------------------
PingStep == PingStop \/ Ping \/ PingAccepted \/ PingRefused
ReadStep ==
  \/ ReadBegin \/ ReadPacket \/ HandleMessage \/ HandleOther \/ HandleClose
  \/ HandleClosed \/ ReaderExit
WriterStep == EmitterInner \/ Write

Next ==
  \/ Connect \/ ReadOpen \/ Register
  \/ PingStep
  \/ ReadStep \/ ReadError
  \/ WriterStep \/ SocketClosed
  \/ \E g \in Closers : CloseReturned(g)
  \/ AppEmit \/ AppEmitReturn \/ AppCloseSocket \/ ClientClose \/ ClientCloseConn
  \/ ServerSend \/ ConnLost

Spec == Init /\ [][Next]_vars

\* The goroutines run while they can, and time passes for the ping loop.  A read
\* from a connection that is gone fails; one from an open connection may wait.
FairSpec ==
  /\ Spec
  /\ WF_vars(Register)
  /\ WF_vars(PingStep)
  /\ WF_vars(ReadStep)
  /\ WF_vars(ReadError /\ conn # "open")
  /\ WF_vars(WriterStep)
  /\ WF_vars(SocketClosed)
  /\ \A g \in Closers : WF_vars(CloseReturned(g))
  /\ WF_vars(AppEmitReturn)
  /\ WF_vars(ClientCloseConn)

-----------------------------------------------------------------------------
(* Properties *)

\* Every variable stays in its type, and the emitter's channel within its capacity.
ClientTypeOK ==
  /\ EmitterTypeOK
  /\ dpc \in {"idle", "open", "started", "message", "ready", "failed"}
  /\ conn \in {"none", "open", "lost", "closed"}
  /\ inq \in Seq(InPackets)
  /\ rpkt \in AtMostOne(InPackets)
  /\ callbacks \subseteq {"message", "close"}
  /\ closeChan \in BOOLEAN /\ closing \in BOOLEAN
  /\ ppc \in {"none", "wait", "emit", "exited"}
  /\ rdpc \in {"none", "top", "read", "handle", "callback", "closing", "exiting", "exited"}
  /\ sent \in Seq(InPackets) /\ nemit \in 0 .. MaxEmit /\ nping \in 0 .. MaxPings
  /\ delivered \in Seq(InPackets) /\ missed \in Seq(InPackets)
  /\ late \in Nat /\ notified \in Nat
  /\ onWire \in Seq(Packets)

\* engine.Dial starts the read loop before there are callbacks (client.go:24, 31): a
\* message may be missed, but only one that came before all that were delivered.
\* Every message the server sent is missed, delivered or still to be handled, in order.
OnlyEarlyMissed ==
  Selected(sent, InMessages) = missed \o delivered \o Selected(rpkt \o inq, InMessages)

\* Once Client.Close has returned the callback of EventMessage is called at most once
\* more, for a packet that was already being read.
QuietAfterClose == late <= 1

\* The ping loop ends only with the client or its socket: a session that the client
\* still uses does not run into the server's timeout.
PingsWhileOpen == ppc = "exited" => closeChan \/ done

\* The callback of EventClose runs at most once, on a socket that has been closed, and
\* then no message is delivered any more.
NotifiedOnce ==
  /\ notified <= 1
  /\ notified = 1 => once = "closed" /\ rdpc \in {"top", "exiting", "exited"}

\* What the three goroutines of a client keep to, in whatever order they run.
ClientInv == ClientTypeOK /\ QuietAfterClose /\ PingsWhileOpen /\ NotifiedOnce

\* Socket.Close on a connection that is still there closes it only when every packet
\* that Emit had accepted before has left, in order.  Client.Close promises nothing.
FlushedOnClose ==
  [][once # "closed" /\ once' = "closed" /\ conn = "open" =>
       onWire = written /\ Len(onWire) >= due]_vars

\* When the connection is lost, or closed by either Close, both loops and the emitter
\* end, and the connection is closed.
LoopsEnd ==
  conn \in {"lost", "closed"} /\ rdpc # "none"
    ~> ppc = "exited" /\ rdpc = "exited" /\ epc = "exited" /\ conn = "closed"

-----------------------------------------------------------------------------
(* What the documentation says and the code does not do.                   *)

\* handle.go:27-28, OnDisconnect is called "upon receiving DISCONNECT packet or
\* connection lost": when the connection of a client that is not closed by its
\* application is lost, EventClose fires, whose callback detaches the namespaces.
LossIsNotified ==
  conn = "lost" /\ dpc = "ready" ~> notified > 0 \/ closeChan \/ cpc[App] # "idle"
=============================================================================
