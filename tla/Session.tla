------------------------------ MODULE Session -------------------------------
(***************************************************************************)
(* One engine.io session on the server: the goroutine that reads its       *)
(* packets, the emitter, the HTTP requests that upgrade it from polling to *)
(* websocket, application goroutines that Emit and Close, and a client     *)
(* that follows engine/protocol.md.                                        *)
(*                                                                         *)
(*   engine/server.go   the reader, handle, ServeHTTP with a sid, upgrade  *)
(*   engine/socket.go   Read, Close, the lock around Conn                  *)
(*   engine/barrier.go  the barrier that an upgrade holds                  *)
(*   engine/emitter.go  Emitter, conjoined with barrier and connection     *)
(*   engine/polling.go  PollingConn                                        *)
(*   engine/websocket.go a reliable ordered connection (gorilla, external) *)
(*                                                                         *)
(* Packets are pairs <<kind, number>>, all different.  A deadline may      *)
(* expire at any time.  Two steps of one goroutine are merged when no      *)
(* other goroutine can tell, which the comments argue.                     *)
(***************************************************************************)
EXTENDS Emitter, PollingConn, FiniteSets

CONSTANTS Apps,       \* application goroutines that Emit
          AppClosers, \* those of them that also Close
          Upgrades,   \* HTTP requests for another transport than the session's
          Reader,     \* the session's reading goroutine
          Polling,    \* the connection the session starts with
          None,
          InKinds,    \* kinds of packets the client sends
          MaxIn,      \* bound on the packets the client sends
          MaxOut,     \* bound on the messages the application emits
          MaxPost     \* bound on the packets of one POST

Handlers == {Reader} \cup Upgrades
Goroutines == Apps \cup Handlers

Open == <<"open", 0>>
InPackets == InKinds \X (1 .. MaxIn)
OutPackets == {Open} \cup ({"message"} \X (1 .. MaxOut)) \cup ({"pong"} \X (1 .. MaxIn))

ASSUME SessionAssumption ==
  /\ Submitters = Goroutines
  /\ Closers = Goroutines
  /\ Packets = OutPackets
  /\ InKinds \subseteq {"message", "ping", "close"}
  /\ MaxIn \in Nat /\ MaxOut \in Nat /\ MaxPost \in Nat
  /\ AppClosers \subseteq Apps
  /\ Reader \notin Upgrades \cup Apps
  /\ Apps \cap Upgrades = {}
  /\ Polling \notin Upgrades
  /\ None \notin Upgrades

VARIABLES
  pc,        \* per handler: where the reader or the upgrade stands
  rpkt,      \* the packet the reader is about to handle, <<>> or one packet
  rerr,      \* the error that ended the reader's loop
  flushed,   \* what FlushIn returned to the upgrade, not yet handled
  barrier,   \* the upgrade that holds the barrier, or None
  cur,       \* Socket.Conn (and transportName): Polling or an upgrade
  locked,    \* the emitter is in the select of WritePacket, under RLock
  wsOpen,    \* connections of upgrades that the server has not closed
  registered,\* the session is in the session manager
  handled,   \* history: client packets passed to handle
  dropped,   \* history: <<packet, cause>> for packets that WritePacket refused
  pausers,   \* history: upgrades that paused the polling connection
  mode,      \* client: "polling", "pausing", "ws" or "gone"
  att,       \* client: the upgrade it follows, or None
  hs,        \* client: per upgrade, how far its handshake got
  poll,      \* client's GET: "idle" or "waiting" in ReadPacketOut
  post,      \* client's POST: packets not yet in the channel
  wsIn,      \* frames the client sent on the websocket after the upgrade
  rcvd,      \* history: packets the client received
  nin, nout  \* how many packets the client and the application have made

xvars == <<pc, rpkt, rerr, flushed, barrier, cur, locked, wsOpen, registered,
           handled, dropped, pausers>>
clvars == <<mode, att, hs, poll, post, wsIn, rcvd, nin>>
vars == <<evars, cvars, xvars, clvars, nout>>

\* NewServer's loop has emitted the open packet and started the reader.
Init ==
  /\ ConnInit
  /\ packets = <<Open>>
  /\ accepted = <<Open>>
  /\ done = FALSE /\ epc = "top" /\ hand = <<>> /\ once = "open"
  /\ written = <<>> /\ due = 0
  /\ spkt = [s \in Submitters |-> <<>>]
  /\ cpc = [c \in Closers |-> "idle"]
  /\ pc = [h \in Handlers |-> IF h = Reader THEN "read" ELSE "idle"]
  /\ rpkt = <<>> /\ rerr = "none" /\ flushed = <<>>
  /\ barrier = None /\ cur = Polling /\ locked = FALSE
  /\ wsOpen = {} /\ registered = TRUE
  /\ handled = <<>> /\ dropped = {} /\ pausers = {}
  /\ mode = "polling" /\ att = None /\ hs = [u \in Upgrades |-> "none"]
  /\ poll = "idle" /\ post = <<>> /\ wsIn = <<>> /\ rcvd = <<>>
  /\ nin = 0 /\ nout = 0

\* The session id reaches the client in the open packet, and every request but
\* the first carries it.
SidKnown == Open \in Range(rcvd)

Goto(h, l) == pc' = [pc EXCEPT ![h] = l]

-----------------------------------------------------------------------------
(* The reader: Read, then handle, until Read fails.                        *)

\* Read: load Conn, SetReadDeadline, and ReadPacket's look at closed.  What
\* happens to Conn in between leaves the old connection closed, which the
\* select of ReadPacket sees as well.
ReadBegin ==
  /\ pc[Reader] = "read"
  /\ \/ /\ cur = Polling
        /\ \E r \in SetDeadlineResults :
             CASE r = "ok"     -> Goto(Reader, "select") /\ UNCHANGED rerr
               [] r = "paused" -> Goto(Reader, "paused") /\ UNCHANGED rerr
               [] r = "closed" -> Goto(Reader, "fatal") /\ rerr' = "closed"
     \/ /\ cur \in wsOpen
        /\ Goto(Reader, "wsread") /\ UNCHANGED rerr
     \/ /\ cur \notin wsOpen \cup {Polling}
        /\ Goto(Reader, "fatal") /\ rerr' = "ws"
  /\ UNCHANGED <<evars, cvars, rpkt, flushed, barrier, cur, locked, wsOpen,
                 registered, handled, dropped, pausers, clvars, nout>>

\* The select of ReadPacket on the polling connection.
ReadPacket ==
  /\ pc[Reader] = "select"
  /\ ReadIn
  /\ rpkt' = <<Head(in)>>
  /\ Goto(Reader, "handle")
  /\ UNCHANGED <<evars, rerr, flushed, barrier, cur, locked, wsOpen,
                 registered, handled, dropped, pausers, clvars, nout>>

ReadError ==
  /\ pc[Reader] = "select"
  /\ \/ "paused" \in ConnErrors /\ Goto(Reader, "paused") /\ UNCHANGED rerr
     \/ "closed" \in ConnErrors /\ Goto(Reader, "fatal") /\ rerr' = "closed"
     \/ Goto(Reader, "fatal") /\ rerr' = "timeout"
  /\ UNCHANGED <<evars, cvars, rpkt, flushed, barrier, cur, locked, wsOpen,
                 registered, handled, dropped, pausers, clvars, nout>>

\* ReadPacket on the websocket: the next frame, or an error of the network.
ReadWs ==
  /\ pc[Reader] = "wsread"
  /\ \/ /\ wsIn # <<>>
        /\ rpkt' = <<Head(wsIn)>> /\ wsIn' = Tail(wsIn)
        /\ Goto(Reader, "handle") /\ UNCHANGED rerr
     \/ /\ Goto(Reader, "fatal") /\ rerr' = "ws"
        /\ UNCHANGED <<rpkt, wsIn>>
  /\ UNCHANGED <<evars, cvars, flushed, barrier, cur, locked, wsOpen,
                 registered, handled, dropped, pausers, mode, att, hs, poll,
                 post, rcvd, nin, nout>>

\* err == ErrPollingConnPaused: barrier.Wait(), then read again.
ReadWait ==
  /\ pc[Reader] = "paused"
  /\ barrier = None
  /\ Goto(Reader, "read")
  /\ UNCHANGED <<evars, cvars, rpkt, rerr, flushed, barrier, cur, locked,
                 wsOpen, registered, handled, dropped, pausers, clvars, nout>>

\* Mutant: no deferred Close.
ReadFatalNoClose ==
  /\ pc[Reader] = "fatal"
  /\ registered' = FALSE
  /\ Goto(Reader, "exiting")
  /\ UNCHANGED <<evars, cvars, rpkt, rerr, flushed, barrier, cur, locked, wsOpen,
                 handled, dropped, pausers, clvars, nout>>

\* Any other error: fire EventClose and return; the deferred calls take the
\* session out of the manager and close the socket.
ReadFatal ==
  /\ pc[Reader] = "fatal"
  /\ registered' = FALSE
  /\ CloseCall(Reader)
  /\ Goto(Reader, "exiting")
  /\ UNCHANGED <<cvars, rpkt, rerr, flushed, barrier, cur, locked, wsOpen,
                 handled, dropped, pausers, clvars, nout>>

ReaderExit ==
  /\ pc[Reader] = "exiting"
  /\ cpc[Reader] = "idle"
  /\ Goto(Reader, "exited")
  /\ UNCHANGED <<evars, cvars, rpkt, rerr, flushed, barrier, cur, locked,
                 wsOpen, registered, handled, dropped, pausers, clvars, nout>>

-----------------------------------------------------------------------------
(* Server.handle, called by the reader and by an upgrade.  A message goes  *)
(* to the application; a ping is answered through the emitter; a close     *)
(* packet fires EventClose and closes the socket.                          *)

Pending(h) == IF h = Reader THEN rpkt ELSE flushed

Handle(h) ==
  /\ pc[h] = "handle"
  /\ Pending(h) # <<>>
  /\ handled' = Append(handled, Head(Pending(h)))
  /\ IF h = Reader THEN rpkt' = <<>> /\ UNCHANGED flushed
                   ELSE flushed' = Tail(flushed) /\ UNCHANGED rpkt
  /\ LET p == Head(Pending(h)) IN
     \/ /\ p[1] = "message"
        /\ Goto(h, IF h = Reader THEN "read" ELSE "handle")
        /\ UNCHANGED evars
     \/ /\ p[1] = "ping"
        /\ Submit(h, <<"pong", p[2]>>)
        /\ Goto(h, "reply")
     \/ /\ p[1] = "close"
        /\ CloseCall(h)
        /\ Goto(h, "closing")
  /\ UNCHANGED <<cvars, rerr, barrier, cur, locked, wsOpen, registered,
                 dropped, pausers, clvars, nout>>

\* Emit or Close returned: on to the next packet.
HandleReturn(h) ==
  /\ \/ pc[h] = "reply" /\ spkt[h] = <<>>
     \/ pc[h] = "closing" /\ cpc[h] = "idle"
  /\ Goto(h, IF h = Reader THEN "read" ELSE "handle")
  /\ UNCHANGED <<evars, cvars, rpkt, rerr, flushed, barrier, cur, locked,
                 wsOpen, registered, handled, dropped, pausers, clvars, nout>>

-----------------------------------------------------------------------------
(* ServeHTTP with a sid and another transport than the session's, and      *)
(* upgrade.  The new connection is touched by its upgrade alone until it   *)
(* becomes Conn, so a read, a write and the steps around them are merged.  *)

\* The session exists and its transport differs: Accept.  Asked for polling
\* by a session on websocket, the new connection is a polling connection that
\* no request can reach yet: it stays mute.
UpgradeRequest(u) ==
  /\ pc[u] = "idle"
  /\ registered
  /\ mode # "gone" /\ SidKnown
  /\ hs' = [hs EXCEPT ![u] = IF cur = Polling THEN "open" ELSE "mute"]
  /\ wsOpen' = wsOpen \cup {u}
  /\ Goto(u, "blocked")
  /\ UNCHANGED <<evars, cvars, rpkt, rerr, flushed, barrier, cur, locked,
                 registered, handled, dropped, pausers, mode, att, poll, post,
                 wsIn, rcvd, nin, nout>>

\* barrier.Pause()
BarrierPause(u) ==
  /\ pc[u] = "blocked"
  /\ barrier = None
  /\ barrier' = u
  /\ Goto(u, "probe")
  /\ UNCHANGED <<evars, cvars, rpkt, rerr, flushed, cur, locked, wsOpen,
                 registered, handled, dropped, pausers, clvars, nout>>

\* Mutant: the error paths do not release the barrier.
AbandonHoldingBarrier(u) ==
  /\ wsOpen' = wsOpen \ {u}
  /\ UNCHANGED barrier
  /\ Goto(u, "serve")

\* Give up: newConn.Close() and the deferred barrier.Resume(); ServeHTTP goes
\* on to socket.ServeHTTP all the same.
Abandon(u) ==
  /\ wsOpen' = wsOpen \ {u}
  /\ barrier' = None
  /\ Goto(u, "serve")

\* The probe is read and answered with a pong.
Probe(u) ==
  /\ pc[u] = "probe"
  /\ hs[u] = "probe"
  /\ hs' = [hs EXCEPT ![u] = "pong"]
  /\ Goto(u, "pause")
  /\ UNCHANGED <<evars, cvars, rpkt, rerr, flushed, barrier, cur, locked,
                 wsOpen, registered, handled, dropped, pausers, mode, att,
                 poll, post, wsIn, rcvd, nin, nout>>

\* Mutant: no read deadline for the probe.
ProbeFailNever(u) == FALSE /\ u \in Upgrades /\ UNCHANGED vars

\* Reading the probe fails or times out, it is no ping, or the pong fails.
ProbeFail(u) ==
  /\ pc[u] = "probe"
  /\ Abandon(u)
  /\ UNCHANGED <<evars, cvars, rpkt, rerr, flushed, cur, locked, registered,
                 handled, dropped, pausers, clvars, nout>>

\* conn := socket.Conn; conn.Pause(), which a websocket does not support.
PauseConn(u) ==
  /\ pc[u] = "pause"
  /\ \/ /\ cur = Polling
        /\ Pause
        /\ pausers' = pausers \cup {u}
        /\ Goto(u, "upgrade")
        /\ UNCHANGED <<wsOpen, barrier>>
     \/ /\ cur # Polling
        /\ Abandon(u)
        /\ UNCHANGED <<cvars, pausers>>
  /\ UNCHANGED <<evars, rpkt, rerr, flushed, cur, locked, registered, handled,
                 dropped, clvars, nout>>

\* The upgrade packet arrived: conn.Close().
CloseOld(u) ==
  /\ pc[u] = "upgrade"
  /\ hs[u] = "upgrade"
  /\ CloseChan
  /\ Goto(u, "flushout")
  /\ UNCHANGED <<evars, rpkt, rerr, flushed, barrier, cur, locked, wsOpen,
                 registered, handled, dropped, pausers, clvars, nout>>

\* Mutant: no conn.Resume().
UpgradeFailNoResume(u) ==
  /\ pc[u] = "upgrade"
  /\ Abandon(u)
  /\ UNCHANGED <<evars, cvars, rpkt, rerr, flushed, cur, locked, registered,
                 handled, dropped, pausers, clvars, nout>>

\* Reading the upgrade packet fails or times out, or it is another packet:
\* conn.Resume() as well.
UpgradeFail(u) ==
  /\ pc[u] = "upgrade"
  /\ Resume
  /\ Abandon(u)
  /\ UNCHANGED <<evars, rpkt, rerr, flushed, cur, locked, registered, handled,
                 dropped, pausers, clvars, nout>>

\* FlushOut, and each packet written to the new connection; errors are ignored.
Drain(u) ==
  /\ pc[u] = "flushout"
  /\ FlushOut
  /\ IF mode # "gone"
     THEN rcvd' = rcvd \o out /\ UNCHANGED dropped
     ELSE dropped' = dropped \cup {<<p, "ws">> : p \in Range(out)} /\ UNCHANGED rcvd
  /\ Goto(u, "swap")
  /\ UNCHANGED <<evars, rpkt, rerr, flushed, barrier, cur, locked, wsOpen,
                 registered, handled, pausers, mode, att, hs, poll, post, wsIn,
                 nin, nout>>

\* Mutant: the connection is changed without the lock.
SwapUnlocked(u) ==
  /\ pc[u] = "swap"
  /\ cur' = u
  /\ Goto(u, "flushin")
  /\ UNCHANGED <<evars, cvars, rpkt, rerr, flushed, barrier, locked, wsOpen,
                 registered, handled, dropped, pausers, clvars, nout>>

\* socket.Lock(), which waits for an emitter inside WritePacket; Conn = newConn.
Swap(u) ==
  /\ pc[u] = "swap"
  /\ ~locked
  /\ cur' = u
  /\ Goto(u, "flushin")
  /\ UNCHANGED <<evars, cvars, rpkt, rerr, flushed, barrier, locked, wsOpen,
                 registered, handled, dropped, pausers, clvars, nout>>

\* Mutant: what FlushIn returns is not handled.
TakeInDiscard(u) ==
  /\ pc[u] = "flushin"
  /\ FlushIn
  /\ Goto(u, "handle")
  /\ UNCHANGED <<evars, rpkt, rerr, flushed, barrier, cur, locked, wsOpen,
                 registered, handled, dropped, pausers, clvars, nout>>

\* FlushIn; Handle then takes the packets one by one.
TakeIn(u) ==
  /\ pc[u] = "flushin"
  /\ FlushIn
  /\ flushed' = in
  /\ Goto(u, "handle")
  /\ UNCHANGED <<evars, rpkt, rerr, barrier, cur, locked, wsOpen, registered,
                 handled, dropped, pausers, clvars, nout>>

\* All handled: fire EventUpgrade and the deferred barrier.Resume().
UpgradeDone(u) ==
  /\ pc[u] = "handle"
  /\ flushed = <<>>
  /\ barrier' = None
  /\ Goto(u, "done")
  /\ UNCHANGED <<evars, cvars, rpkt, rerr, flushed, cur, locked, wsOpen,
                 registered, handled, dropped, pausers, clvars, nout>>

\* The trailing ServeHTTP of a failed upgrade.  On the polling connection this
\* websocket handshake is a GET like any other, but for the connection below
\* it, which is hijacked and closed.
ServeBegin(u) ==
  /\ pc[u] = "serve"
  /\ Goto(u, IF cur = Polling /\ ~closed THEN "steal" ELSE "failed")
  /\ UNCHANGED <<evars, cvars, rpkt, rerr, flushed, barrier, cur, locked, wsOpen,
                 registered, handled, dropped, pausers, clvars, nout>>

ServeSelect(u) ==
  /\ pc[u] = "steal"
  /\ \/ ReadOut /\ dropped' = dropped \cup {<<Head(out), "hijacked">>}
     \/ ConnErrors # {} /\ UNCHANGED <<cvars, dropped>>
  /\ Goto(u, "failed")
  /\ UNCHANGED <<evars, rpkt, rerr, flushed, barrier, cur, locked, wsOpen,
                 registered, handled, pausers, clvars, nout>>

-----------------------------------------------------------------------------
(* The emitter: the actions of Emitter with the barrier and the write.     *)

EmitterTake ==
  /\ Take
  /\ UNCHANGED <<cvars, xvars, clvars, nout>>

\* Mutant: the emitter does not wait.
BarrierIgnored ==
  /\ Pass
  /\ UNCHANGED <<cvars, xvars, clvars, nout>>

\* barrier.Wait(): the upgrade that holds the barrier keeps the emitter back.
BarrierWait ==
  /\ Pass
  /\ barrier = None
  /\ UNCHANGED <<cvars, xvars, clvars, nout>>

\* RLock; SetWriteDeadline, whose error is ignored; WritePacket sees that the
\* polling connection is not closed and goes on to its select.
WriteBegin ==
  /\ epc = "write" /\ ~locked
  /\ cur = Polling /\ ~closed
  /\ locked' = TRUE
  /\ UNCHANGED <<evars, cvars, pc, rpkt, rerr, flushed, barrier, cur, wsOpen,
                 registered, handled, dropped, pausers, clvars, nout>>

\* case p.out <- pkt
WriteOut ==
  /\ locked
  /\ PutOut(Head(hand))
  /\ Written
  /\ locked' = FALSE
  /\ UNCHANGED <<pc, rpkt, rerr, flushed, barrier, cur, wsOpen, registered,
                 handled, dropped, pausers, clvars, nout>>

\* Why WritePacket may return an error: at once when the connection is closed,
\* from the select when it is closed or paused or the deadline has passed.
WriteErrors ==
  IF cur = Polling
  THEN IF locked THEN ConnErrors \cup {"timeout"} ELSE ConnErrors \ {"paused"}
  ELSE IF cur \in wsOpen /\ mode # "gone" THEN {} ELSE {"ws"}

\* Mutant: the packet goes back to the end of the channel, and loop takes the next.
WriteFailRequeue ==
  /\ epc = "write" /\ WriteErrors # {}
  /\ packets' = Tail(packets \o hand) /\ hand' = <<Head(packets \o hand)>> /\ epc' = "wait"
  /\ locked' = FALSE
  /\ UNCHANGED <<done, spkt, once, cpc, accepted, written, due, cvars, pc, rpkt,
                 rerr, flushed, barrier, cur, wsOpen, registered, handled, dropped,
                 pausers, clvars, nout>>

\* WritePacket returns an error, which loop ignores: the packet is gone.
WriteFail ==
  /\ Written
  /\ \E e \in WriteErrors : dropped' = dropped \cup {<<Head(hand), e>>}
  /\ locked' = FALSE
  /\ UNCHANGED <<cvars, pc, rpkt, rerr, flushed, barrier, cur, wsOpen,
                 registered, handled, pausers, clvars, nout>>

\* WritePacket on the websocket.
WriteWs ==
  /\ cur \in wsOpen
  /\ mode # "gone"
  /\ Written
  /\ rcvd' = rcvd \o hand
  /\ UNCHANGED <<cvars, xvars, mode, att, hs, poll, post, wsIn, nin, nout>>

EmitterExit ==
  /\ Exit
  /\ UNCHANGED <<cvars, xvars, clvars, nout>>

SubmitReturn(g) ==
  /\ SubmitSend(g) \/ SubmitFail(g)
  /\ UNCHANGED <<cvars, xvars, clvars, nout>>

-----------------------------------------------------------------------------
(* Close, whoever called it, and the application.                          *)

\* wg.Wait() returned: Conn.Close(), whatever connection Conn is by now.
SocketClose ==
  /\ CloseConn
  /\ \/ cur = Polling /\ CloseChan /\ UNCHANGED wsOpen
     \/ cur # Polling /\ wsOpen' = wsOpen \ {cur} /\ UNCHANGED cvars
  /\ UNCHANGED <<pc, rpkt, rerr, flushed, barrier, cur, locked, registered,
                 handled, dropped, pausers, clvars, nout>>

SocketCloseReturn(g) ==
  /\ CloseReturn(g)
  /\ UNCHANGED <<cvars, xvars, clvars, nout>>

AppEmit(a) ==
  /\ nout < MaxOut
  /\ nout' = nout + 1
  /\ Submit(a, <<"message", nout'>>)
  /\ UNCHANGED <<cvars, xvars, clvars>>

AppClose(a) ==
  /\ CloseCall(a)
  /\ UNCHANGED <<cvars, xvars, clvars, nout>>

-----------------------------------------------------------------------------
(* The client (external).  It keeps to engine/protocol.md: one GET and one *)
(* POST at a time, and the upgrade packet only once both are back.         *)

\* GET: the session exists and its polling connection is open.
PollArrive ==
  /\ mode = "polling" /\ poll = "idle"
  /\ IF registered /\ cur = Polling /\ ~closed
     THEN poll' = "waiting" /\ UNCHANGED mode
     ELSE mode' = "gone" /\ UNCHANGED poll
  /\ UNCHANGED <<evars, cvars, xvars, att, hs, post, wsIn, rcvd, nin, nout>>

\* ReadPacketOut: case pkt := <-p.out, answered to a client that may have left.
PollPacket ==
  /\ poll = "waiting"
  /\ ReadOut
  /\ poll' = "idle"
  /\ IF mode # "gone"
     THEN rcvd' = Append(rcvd, Head(out)) /\ UNCHANGED dropped
     ELSE dropped' = dropped \cup {<<Head(out), "canceled">>} /\ UNCHANGED rcvd
  /\ UNCHANGED <<evars, pc, rpkt, rerr, flushed, barrier, cur, locked, wsOpen,
                 registered, handled, pausers, mode, att, hs, post, wsIn, nin, nout>>

\* ReadPacketOut: closed (an error for the client), paused (a noop packet), or
\* the request's context is done.
PollEnd ==
  /\ poll = "waiting"
  /\ \/ closed /\ mode' = "gone"
     \/ paused /\ UNCHANGED mode
     \/ mode = "gone" /\ UNCHANGED mode
  /\ poll' = "idle"
  /\ UNCHANGED <<evars, cvars, xvars, att, hs, post, wsIn, rcvd, nin, nout>>

\* POST a payload: the numbers follow on, the kinds are the client's choice.
ClientPost ==
  /\ mode = "polling" /\ SidKnown /\ post = <<>>
  /\ \E n \in 1 .. MaxPost : \E k \in [1 .. n -> InKinds] :
       /\ nin + n <= MaxIn
       /\ nin' = nin + n
       /\ IF registered /\ cur = Polling /\ ~closed
          THEN post' = [i \in 1 .. n |-> <<k[i], nin + i>>] /\ UNCHANGED mode
          ELSE mode' = "gone" /\ UNCHANGED post
  /\ UNCHANGED <<evars, cvars, xvars, att, hs, poll, wsIn, rcvd, nout>>

\* case p.in <- packet
PostPush ==
  /\ post # <<>>
  /\ PutIn(Head(post))
  /\ post' = Tail(post)
  /\ UNCHANGED <<evars, xvars, mode, att, hs, poll, wsIn, rcvd, nin, nout>>

\* case <-p.closed: the rest of the payload is refused.
PostClosed ==
  /\ post # <<>>
  /\ closed
  /\ post' = <<>>
  /\ mode' = "gone"
  /\ UNCHANGED <<evars, cvars, xvars, att, hs, poll, wsIn, rcvd, nin, nout>>

ClientProbe(u) ==
  /\ hs[u] = "open" /\ mode = "polling"
  /\ hs' = [hs EXCEPT ![u] = "probe"]
  /\ UNCHANGED <<evars, cvars, xvars, mode, att, poll, post, wsIn, rcvd, nin, nout>>

\* The pong arrived: no more requests on the old transport.
ClientPause(u) ==
  /\ hs[u] = "pong" /\ mode = "polling"
  /\ mode' = "pausing" /\ att' = u
  /\ UNCHANGED <<evars, cvars, xvars, hs, poll, post, wsIn, rcvd, nin, nout>>

ClientUpgrade ==
  /\ mode = "pausing" /\ poll = "idle" /\ post = <<>>
  /\ mode' = "ws"
  /\ hs' = [hs EXCEPT ![att] = "upgrade"]
  /\ UNCHANGED <<evars, cvars, xvars, att, poll, post, wsIn, rcvd, nin, nout>>

ClientSend ==
  /\ mode = "ws" /\ att \in wsOpen
  /\ nin < MaxIn
  /\ nin' = nin + 1
  /\ \E k \in InKinds : wsIn' = Append(wsIn, <<k, nin'>>)
  /\ UNCHANGED <<evars, cvars, xvars, mode, att, hs, poll, post, rcvd, nout>>

\* The client goes away, or gives up what it waits for.
ClientLeave ==
  /\ mode # "gone"
  /\ mode' = "gone"
  /\ UNCHANGED <<evars, cvars, xvars, att, hs, poll, post, wsIn, rcvd, nin, nout>>

-----------------------------------------------------------------------------
ReaderStep ==
  \/ ReadBegin \/ ReadPacket \/ ReadError \/ ReadWs \/ ReadWait
  \/ ReadFatal \/ ReaderExit

UpgradeStep(u) ==
  \/ BarrierPause(u) \/ Probe(u) \/ ProbeFail(u) \/ PauseConn(u)
  \/ CloseOld(u) \/ UpgradeFail(u) \/ Drain(u) \/ Swap(u) \/ TakeIn(u)
  \/ UpgradeDone(u) \/ ServeBegin(u) \/ ServeSelect(u)

HandleStep(h) == Handle(h) \/ HandleReturn(h)

EmitterLoopStep ==
  \/ EmitterTake \/ BarrierWait \/ WriteBegin \/ WriteOut \/ WriteFail
  \/ WriteWs \/ EmitterExit

RequestStep == PollPacket \/ PollEnd \/ PostPush \/ PostClosed

ClientStep ==
  \/ PollArrive \/ ClientPost \/ ClientUpgrade \/ ClientSend \/ ClientLeave
  \/ \E u \in Upgrades : ClientProbe(u) \/ ClientPause(u)

Next ==
  \/ ReaderStep
  \/ \E h \in Handlers : HandleStep(h)
  \/ \E u \in Upgrades : UpgradeRequest(u) \/ UpgradeStep(u)
  \/ EmitterLoopStep
  \/ \E g \in Goroutines : SubmitReturn(g) \/ SocketCloseReturn(g)
  \/ SocketClose
  \/ \E a \in Apps : AppEmit(a)
  \/ \E a \in AppClosers : AppClose(a)
  \/ RequestStep
  \/ ClientStep

Spec == Init /\ [][Next]_vars

\* Every goroutine of the server runs on while it can, and a deadline passes.
\* Neither the client nor the application has to do anything.
FairSpec ==
  /\ Spec
  /\ WF_vars(ReaderStep)
  /\ \A h \in Handlers : WF_vars(HandleStep(h))
  /\ \A u \in Upgrades : WF_vars(UpgradeStep(u))
  /\ WF_vars(EmitterLoopStep)
  /\ \A g \in Goroutines : WF_vars(SubmitReturn(g)) /\ WF_vars(SocketCloseReturn(g))
  /\ WF_vars(SocketClose)
  /\ WF_vars(RequestStep)

-----------------------------------------------------------------------------
(* Properties *)

\* Every variable stays in its type, the channels within their capacity: the
\* packets of the client, those of the server, and the control state.
InboundTypeOK ==
  /\ in \in Seq(InPackets) /\ Len(in) <= BufSize
  /\ rpkt \in AtMostOne(InPackets)
  /\ flushed \in Seq(InPackets)
  /\ wsIn \in Seq(InPackets)
  /\ post \in Seq(InPackets)
  /\ handled \in Seq(InPackets)
  /\ nin \in 0 .. MaxIn

OutboundTypeOK ==
  /\ out \in Seq(Packets) /\ Len(out) <= BufSize
  /\ rcvd \in Seq(Packets)
  /\ dropped \subseteq Packets \X {"closed", "paused", "timeout", "ws", "hijacked", "canceled"}
  /\ nout \in 0 .. MaxOut

ControlTypeOK ==
  /\ closed \in BOOLEAN /\ paused \in BOOLEAN
  /\ pc \in [Handlers -> {"read", "select", "paused", "wsread", "fatal", "exiting",
                           "exited", "handle", "reply", "closing", "idle", "blocked",
                           "probe", "pause", "upgrade", "flushout", "swap",
                           "flushin", "done", "serve", "steal", "failed"}]
  /\ rerr \in {"none", "closed", "timeout", "ws"}
  /\ barrier \in Upgrades \cup {None}
  /\ cur \in Upgrades \cup {Polling}
  /\ locked \in BOOLEAN /\ registered \in BOOLEAN
  /\ wsOpen \subseteq Upgrades /\ pausers \subseteq Upgrades
  /\ mode \in {"polling", "pausing", "ws", "gone"}
  /\ att \in Upgrades \cup {None}
  /\ hs \in [Upgrades -> {"none", "mute", "open", "probe", "pong", "upgrade"}]
  /\ poll \in {"idle", "waiting"}

TypeOK == EmitterTypeOK /\ InboundTypeOK /\ OutboundTypeOK /\ ControlTypeOK

\* Across polling, the flush of an upgrade and the websocket, the client gets
\* packets in the order in which Emit accepted them, each at most once.
OutboundFIFO ==
  \A i, j \in DOMAIN rcvd : i < j =>
    \E m, n \in DOMAIN accepted :
      m < n /\ accepted[m] = rcvd[i] /\ accepted[n] = rcvd[j]

\* A packet the emitter wrote is with the client, in the polling connection, or
\* was dropped for a known cause; it is nowhere twice.
OutboundConserved ==
  /\ Range(written) = Range(rcvd) \cup Range(out) \cup {d[1] : d \in dropped}
  /\ Len(written) = Len(rcvd) + Len(out) + Cardinality(dropped)

\* What an upgrade that got as far as pausing the polling connection may cost:
\* the one packet that was past the barrier, refused by the connection or left
\* behind in it after FlushOut.  One that failed may take one packet more, in the
\* ServeHTTP that follows it.
UpgradeCost ==
  /\ Cardinality({d \in dropped : d[2] \in {"paused", "closed"}})
       + (IF cur # Polling THEN Len(out) ELSE 0) <= Cardinality(pausers)
  /\ Cardinality({d \in dropped : d[2] = "hijacked"})
       <= Cardinality({u \in Upgrades : pc[u] = "failed"})

\* Until the client leaves, each packet it sent is in exactly one place on its
\* way to handle: an upgrade neither loses one nor handles one twice.
InboundConserved ==
  mode # "gone" =>
    /\ {p[2] : p \in Range(post \o in \o rpkt \o flushed \o wsIn \o handled)} = 1 .. nin
    /\ Len(post \o in \o rpkt \o flushed \o wsIn \o handled) = nin

\* The polling connection is paused only while an upgrade holds the barrier, so
\* that whoever finds it paused waits for that upgrade and never spins; and no
\* upgrade pauses it twice, which would close a closed channel and panic.
PausedUnderBarrier ==
  /\ paused /\ cur = Polling =>
       \E u \in Upgrades : barrier = u /\ pc[u] \in {"upgrade", "flushout", "swap"}
  /\ \A u \in Upgrades : pc[u] = "pause" /\ cur = Polling => ~paused

\* The barrier is held by exactly the upgrade that is between Pause and Resume,
\* and an emitter in the middle of a write holds off the change of connection.
BarrierExclusive ==
  /\ \A u \in Upgrades :
       pc[u] \in {"probe", "pause", "upgrade", "flushout", "swap", "flushin",
                 "handle", "reply", "closing"} <=> barrier = u
  /\ locked => cur = Polling /\ epc = "write"

\* An upgrade lets go of the barrier: deadlines bound each read and write in it.
\* (Without pings and close packets among those it flushes: see SocketCloseReturns.)
UpgradeEnds == \A u \in Upgrades : barrier = u ~> barrier # u

\* A Close that was called returns to every caller, upgrade or not: the reader's
\* and the application's do.  engine/protocol.md:26, "Polling transports can send a
\* `close` packet to close the socket": an upgrade that handles this packet waits in
\* Close for the emitter, which may wait for it at the barrier.
SocketCloseReturns ==
  \A g \in Goroutines : cpc[g] = "closing" ~> cpc[g] = "idle"

\* When the client is gone the session is taken down: the reader notices, the
\* session leaves the manager and its socket is closed.
SessionReaped ==
  mode = "gone" ~> pc[Reader] = "exited" /\ ~registered /\ once = "closed"

-----------------------------------------------------------------------------
(* What the documentation says and the code does not do.                   *)

\* engine/protocol.md:148, "server flushes and closes old transport and switches
\* to new": the reader finds the connection closed only when the socket is.
UpgradeKeepsReader ==
  pc[Reader] = "fatal" /\ rerr = "closed" => once = "closed"
=============================================================================
