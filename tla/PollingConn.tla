---------------------------- MODULE PollingConn -----------------------------
(***************************************************************************)
(* The server side of a polling connection (engine/polling.go): one        *)
(* bounded channel per direction, a closed channel and a pause channel     *)
(* that Resume replaces.  Every method ends in a select over these, which  *)
(* takes any case that is ready; the operators below are those cases, and  *)
(* the callers in Session choose among them.  The actions change only      *)
(* this module's variables.                                                *)
(***************************************************************************)
EXTENDS Naturals, Sequences

CONSTANT BufSize   \* capacity of in and out (8 in Accept)

ASSUME BufSizeAssumption == BufSize \in Nat \ {0}

VARIABLES in,      \* packets posted by the client, not yet read
          out,     \* packets written by the server, not yet polled
          closed,  \* the closed channel is closed
          paused   \* the current pause channel is closed

cvars == <<in, out, closed, paused>>

ConnInit ==
  /\ in = <<>>
  /\ out = <<>>
  /\ closed = FALSE
  /\ paused = FALSE

\* The error cases that are ready in a select of ReadPacket, WritePacket,
\* SetReadDeadline or SetWriteDeadline.
ConnErrors == {e \in {"closed", "paused"} : IF e = "closed" THEN closed ELSE paused}

\* What SetReadDeadline may return: its select has a default.
SetDeadlineResults == IF ConnErrors = {} THEN {"ok"} ELSE ConnErrors

\* ReadPacket: case pkt := <-p.in
ReadIn ==
  /\ in # <<>>
  /\ in' = Tail(in)
  /\ UNCHANGED <<out, closed, paused>>

\* ServeHTTP, POST: case p.in <- packet
PutIn(p) ==
  /\ Len(in) < BufSize
  /\ in' = Append(in, p)
  /\ UNCHANGED <<out, closed, paused>>

\* Mutant: the channel has no bound.
PutOutUnbounded(p) ==
  /\ out' = Append(out, p)
  /\ UNCHANGED <<in, closed, paused>>

\* WritePacket: case p.out <- pkt
PutOut(p) ==
  /\ Len(out) < BufSize
  /\ out' = Append(out, p)
  /\ UNCHANGED <<in, closed, paused>>

\* ReadPacketOut: case pkt := <-p.out
ReadOut ==
  /\ out # <<>>
  /\ out' = Tail(out)
  /\ UNCHANGED <<in, closed, paused>>

\* Mutant: what FlushOut returns stays in the channel.
FlushOutCopy == UNCHANGED cvars

\* FlushOut and FlushIn receive until the channel is empty.
FlushOut == out' = <<>> /\ UNCHANGED <<in, closed, paused>>

FlushIn == in' = <<>> /\ UNCHANGED <<out, closed, paused>>

CloseChan == closed' = TRUE /\ UNCHANGED <<in, out, paused>>

Pause == paused' = TRUE /\ UNCHANGED <<in, out, closed>>

Resume == paused' = FALSE /\ UNCHANGED <<in, out, closed>>
=============================================================================
