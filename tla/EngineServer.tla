---------------------------- MODULE EngineServer ----------------------------
(***************************************************************************)
(* How an engine.io server makes sessions: HTTP requests without a sid     *)
(* (ServeHTTP, NewSession, engine/server.go and session.go), the channel   *)
(* that hands new sockets over to the accept loop of NewServer, the        *)
(* readers that this loop starts, and Server.Close.                        *)
(*                                                                         *)
(* A session is named after the request that made it.  What happens inside *)
(* a session is Session's; here a socket is open or closed, and its reader *)
(* may fail at any time (the client has left, a deadline has passed).      *)
(***************************************************************************)
EXTENDS Naturals, Sequences, Functions

CONSTANTS Requests,   \* requests without a sid
          Polls,      \* those of them that ask for polling; the others for websocket
          ChanSize    \* capacity of the channel of new sockets (1 in NewServer)

ASSUME EngineServerAssumption == Polls \subseteq Requests /\ ChanSize \in Nat \ {0}

VARIABLES
  rpc,      \* per request: where ServeHTTP stands
  sessions, \* the session manager: sessions that a sid finds
  schan,    \* contents of the channel of new sockets
  done,     \* Server.done is closed
  lpc,      \* where the accept loop stands
  lsock,    \* the socket the loop has taken, <<>> or one
  reader,   \* per session: where its reader stands
  sock,     \* per session: "none", "open" or "closed"
  open,     \* per session: its open packet is "none", "out" or "taken"
  handed,   \* history: sockets that went into the channel, in order
  opened,   \* history: sockets that onOpen was called with, in order
  left      \* history: requests that found done closed

vars == <<rpc, sessions, schan, done, lpc, lsock, reader, sock, open,
          handed, opened, left>>
sessvars == <<sessions, sock, open>>
loopvars == <<lpc, lsock, reader, opened>>

Init ==
  /\ rpc = [r \in Requests |-> "idle"]
  /\ sessions = {} /\ schan = <<>> /\ done = FALSE
  /\ lpc = "select" /\ lsock = <<>>
  /\ reader = [r \in Requests |-> "none"]
  /\ sock = [r \in Requests |-> "none"]
  /\ open = [r \in Requests |-> "none"]
  /\ handed = <<>> /\ opened = <<>> /\ left = {}

-----------------------------------------------------------------------------
(* ServeHTTP without a sid.                                                *)

Return(r) == rpc' = [rpc EXCEPT ![r] = "returned"]

\* Another protocol version, an unknown transport, or Accept fails: no session.
Refuse(r) ==
  /\ rpc[r] = "idle"
  /\ Return(r)
  /\ UNCHANGED <<sessvars, loopvars, schan, done, handed, left>>

\* Accept, and NewSession, which starts the emitter and enters the session.
NewSession(r) ==
  /\ rpc[r] = "idle"
  /\ rpc' = [rpc EXCEPT ![r] = "handover"]
  /\ sessions' = sessions \cup {r}
  /\ sock' = [sock EXCEPT ![r] = "open"]
  /\ UNCHANGED <<open, loopvars, schan, done, handed, left>>

\* The select: case s.ch <- socket.
HandOver(r) ==
  /\ rpc[r] = "handover"
  /\ Len(schan) < ChanSize
  /\ schan' = Append(schan, r)
  /\ handed' = Append(handed, r)
  /\ rpc' = [rpc EXCEPT ![r] = "serve"]
  /\ UNCHANGED <<sessvars, loopvars, done, left>>

\* Mutant: the select has a default case, a full channel turns the session away.
HandOverNot(r) ==
  /\ rpc[r] = "handover"
  /\ done \/ Len(schan) = ChanSize
  /\ left' = left \cup {r}
  /\ Return(r)
  /\ UNCHANGED <<sessvars, loopvars, schan, done, handed>>

\* The select: case <-s.done.  The session stays as it is.
HandOverDone(r) ==
  /\ rpc[r] = "handover"
  /\ done
  /\ left' = left \cup {r}
  /\ Return(r)
  /\ UNCHANGED <<sessvars, loopvars, schan, done, handed>>

\* socket.ServeHTTP: a websocket serves no request.  A polling connection that is
\* not closed already answers a GET once it has a packet, and takes the packets of
\* a POST, also of the one that made the session.
Serve(r) ==
  /\ rpc[r] = "serve"
  /\ IF r \in Polls /\ sock[r] = "open"
     THEN \E at \in {"waiting", "posting"} : rpc' = [rpc EXCEPT ![r] = at]
     ELSE Return(r)
  /\ UNCHANGED <<sessvars, loopvars, schan, done, handed, left>>

\* ReadPacketOut: the open packet, or the connection is closed.
Answer(r) ==
  /\ rpc[r] = "waiting"
  /\ \/ open[r] = "out" /\ open' = [open EXCEPT ![r] = "taken"]
     \/ sock[r] = "closed" /\ UNCHANGED open
  /\ Return(r)
  /\ UNCHANGED <<sessions, sock, loopvars, schan, done, handed, left>>

\* ReadPacketOut: the client has given up its request.
Cancel(r) ==
  /\ rpc[r] = "waiting"
  /\ Return(r)
  /\ UNCHANGED <<sessvars, loopvars, schan, done, handed, left>>

\* A POST with more packets than the connection has room for: they wait for the
\* reader, or for the connection to be closed, and not for the client.
PostDone(r) ==
  /\ rpc[r] = "posting"
  /\ reader[r] = "reading" \/ sock[r] = "closed"
  /\ Return(r)
  /\ UNCHANGED <<sessvars, loopvars, schan, done, handed, left>>

\* Any other POST, which waits for nobody: its media type or its body is refused, or
\* its packets have room.  And any other method, which is refused.
PostAtOnce(r) ==
  /\ rpc[r] = "posting"
  /\ Return(r)
  /\ UNCHANGED <<sessvars, loopvars, schan, done, handed, left>>

-----------------------------------------------------------------------------
(* The accept loop of NewServer.                                           *)

\* case socket := <-s.ch
LoopTake ==
  /\ lpc = "select"
  /\ schan # <<>>
  /\ lsock' = <<Head(schan)>>
  /\ schan' = Tail(schan)
  /\ lpc' = "open"
  /\ UNCHANGED <<rpc, sessvars, reader, opened, done, handed, left>>

\* case <-done
LoopDone ==
  /\ lpc = "select"
  /\ done
  /\ lpc' = "exited"
  /\ UNCHANGED <<rpc, sessvars, lsock, reader, opened, schan, done, handed, left>>

\* Mutant: the open packet is not emitted.
LoopOpenMute ==
  /\ lpc = "open"
  /\ reader' = [reader EXCEPT ![lsock[1]] = "reading"]
  /\ opened' = Append(opened, lsock[1])
  /\ lpc' = "callback"
  /\ UNCHANGED <<rpc, sessvars, lsock, schan, done, handed, left>>

\* Emit(EventOpen), which finds an open emitter with room, and the reader starts;
\* then onOpen is called.
LoopOpen ==
  /\ lpc = "open"
  /\ LET r == lsock[1] IN
       /\ open' = [open EXCEPT ![r] = IF r \in Polls THEN "out" ELSE "taken"]
       /\ reader' = [reader EXCEPT ![r] = "reading"]
       /\ opened' = Append(opened, r)
  /\ lpc' = "callback"
  /\ UNCHANGED <<rpc, sessions, lsock, sock, schan, done, handed, left>>

\* Mutant: the loop ends with the first session it opened.
OnOpenReturnLast ==
  /\ lpc = "callback"
  /\ lsock' = <<>>
  /\ lpc' = "exited"
  /\ UNCHANGED <<rpc, sessvars, reader, opened, schan, done, handed, left>>

\* onOpen returns, and the loop goes on.
OnOpenReturn ==
  /\ lpc = "callback"
  /\ lsock' = <<>>
  /\ lpc' = "select"
  /\ UNCHANGED <<rpc, sessvars, reader, opened, schan, done, handed, left>>

-----------------------------------------------------------------------------
(* The end of a session, and of the server.                                *)

\* Read fails: fire EventClose, and the deferred Remove and Close.
ReadFails(r) ==
  /\ reader[r] = "reading"
  /\ reader' = [reader EXCEPT ![r] = "exited"]
  /\ sessions' = sessions \ {r}
  /\ sock' = [sock EXCEPT ![r] = "closed"]
  /\ UNCHANGED <<rpc, open, lpc, lsock, opened, schan, done, handed, left>>

\* The application closes a socket that onOpen gave it.
AppClose(r) ==
  /\ r \in Range(opened)
  /\ sock[r] = "open"
  /\ sock' = [sock EXCEPT ![r] = "closed"]
  /\ UNCHANGED <<rpc, sessions, open, loopvars, schan, done, handed, left>>

\* Server.Close: close(s.done), and nothing else.
Close ==
  /\ ~done
  /\ done' = TRUE
  /\ UNCHANGED <<rpc, sessvars, loopvars, schan, handed, left>>

-----------------------------------------------------------------------------
ServeStep(r) == HandOver(r) \/ HandOverDone(r) \/ Serve(r) \/ Answer(r) \/ PostDone(r)
LoopStep == LoopTake \/ LoopDone \/ LoopOpen \/ OnOpenReturn

Next ==
  \/ \E r \in Requests : Refuse(r) \/ NewSession(r) \/ Cancel(r) \/ PostAtOnce(r) \/ ServeStep(r)
  \/ LoopStep
  \/ \E r \in Requests : ReadFails(r) \/ AppClose(r)
  \/ Close

Spec == Init /\ [][Next]_vars

\* Goroutines run while they can, and onOpen returns.  A client may do without its
\* answer, a reader may go on reading, and nobody has to close the server.
FairSpec ==
  /\ Spec
  /\ WF_vars(LoopStep)
  /\ \A r \in Requests : WF_vars(ServeStep(r))

-----------------------------------------------------------------------------
(* Properties *)

AtMostOne(S) == {<<>>} \cup {<<e>> : e \in S}

\* Every variable stays in its type, and the channel within its capacity.
ServerTypeOK ==
  /\ rpc \in [Requests -> {"idle", "handover", "serve", "waiting", "posting",
                          "returned"}]
  /\ sessions \subseteq Requests /\ left \subseteq Requests
  /\ schan \in Seq(Requests) /\ Len(schan) <= ChanSize
  /\ done \in BOOLEAN
  /\ lpc \in {"select", "open", "callback", "exited"}
  /\ lsock \in AtMostOne(Requests)
  /\ reader \in [Requests -> {"none", "reading", "exited"}]
  /\ sock \in [Requests -> {"none", "open", "closed"}]
  /\ open \in [Requests -> {"none", "out", "taken"}]
  /\ handed \in Seq(Requests) /\ opened \in Seq(Requests)

\* A socket whose reader has not started, and which would stay in the manager with
\* its emitter running for good, is under way to the accept loop: with its request,
\* in the channel, or in the loop's hand.  Only Server.Close strands any: those whose
\* requests found done closed (server.go:148), and those the loop left in the channel.
SomebodyReads ==
  \A r \in Requests : sock[r] # "none" /\ reader[r] = "none" =>
    \/ rpc[r] = "handover"
    \/ r \in Range(schan) \cup Range(lsock)
    \/ r \in left /\ done

\* The loop opens each session once, in the order in which the requests handed them
\* over: what was handed over is what was opened, what the loop is about to open, and
\* what is in the channel.
OpenedInOrder ==
  /\ handed = opened \o (IF lpc = "open" THEN lsock ELSE <<>>) \o schan
  /\ IsInjective(handed)

\* The socket that the loop opens has not been closed meanwhile and nobody reads it:
\* the Emit of the open packet (server.go:53) finds an emitter that takes it.
OpensFresh ==
  lpc = "open" => sock[lsock[1]] = "open" /\ reader[lsock[1]] = "none"

\* The safety of the server, whatever its clients do.
ServerInv == ServerTypeOK /\ SomebodyReads /\ OpenedInOrder /\ OpensFresh

\* A session that was handed over is opened, unless the server is closed: a callback
\* that returns keeps no session waiting (server.go:80).
SessionOpens ==
  \A r \in Requests : rpc[r] = "serve" ~> reader[r] # "none" \/ done

\* Every request that made a session returns: it hands the socket over, or finds the
\* server closed (server.go:147), its GET gets the open packet or an error, and the
\* packets of its POST are taken.  Only a closed server leaves one waiting: a GET
\* until its client gives up, a POST for ever.
RequestReturns ==
  \A r \in Requests :
    rpc[r] \in {"handover", "serve", "waiting", "posting"}
      ~> rpc[r] = "returned" \/ (rpc[r] \in {"waiting", "posting"} /\ done)
=============================================================================
