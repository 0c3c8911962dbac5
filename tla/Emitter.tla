------------------------------ MODULE Emitter -------------------------------
(***************************************************************************)
(* The background writer of an engine.io Socket (engine/emitter.go) and    *)
(* Socket.Close (engine/socket.go).  Goroutines that Emit put packets in a *)
(* bounded channel; one goroutine takes them out, waits at the socket's    *)
(* barrier and hands them to the connection; Close closes the done         *)
(* channel, waits until that goroutine has flushed and exited, and only    *)
(* then closes the connection.                                             *)
(*                                                                         *)
(* The actions change this module's variables only, so that Session can    *)
(* conjoin them with what happens to the barrier and to the connection.    *)
(* Used alone, FairSpec lets the barrier and WritePacket always return,    *)
(* which the write deadline guarantees.                                    *)
(*                                                                         *)
(* A Go select over ready channels takes any ready case.  A goroutine that *)
(* is parked in a select behaves as one that reaches it late, so waiting   *)
(* is a guard and there is no separate parked state.                       *)
(***************************************************************************)
EXTENDS Naturals, Sequences, Functions

CONSTANTS Submitters,   \* goroutines that call Emit
          Closers,      \* goroutines that call Close
          Packets,      \* packets, each emitted at most once
          EmitterSize   \* capacity of the packets channel (8 in newSocket)

ASSUME EmitterSizeAssumption == EmitterSize \in Nat \ {0}

VARIABLES
  packets,   \* contents of the packets channel
  done,      \* the done channel is closed
  epc,       \* where loop (or flush, which does the same) stands
  hand,      \* the packet loop took from the channel, <<>> or one packet
  spkt,      \* per goroutine: <<>>, or the packet in the second select of submit
  once,      \* Socket.once: "open", "closing" (running) or "closed"
  cpc,       \* per goroutine: is it in Close
  accepted,  \* history: packets put in the channel
  written,   \* history: packets handed to WritePacket
  due        \* history: Len(accepted) when done was closed

evars == <<packets, done, epc, hand, spkt, once, cpc, accepted, written, due>>

EmitterInit ==
  /\ packets = <<>>
  /\ done = FALSE
  /\ epc = "top"
  /\ hand = <<>>
  /\ spkt = [s \in Submitters |-> <<>>]
  /\ once = "open"
  /\ cpc = [c \in Closers |-> "idle"]
  /\ accepted = <<>>
  /\ written = <<>>
  /\ due = 0

-----------------------------------------------------------------------------
(* submit: a first look at done, then a select between done and room.      *)

\* The first select: a closed emitter refuses, otherwise go on to the second.
Submit(s, p) ==
  /\ spkt[s] = <<>>
  /\ IF done
     THEN UNCHANGED spkt
     ELSE spkt' = [spkt EXCEPT ![s] = <<p>>]
  /\ UNCHANGED <<packets, done, epc, hand, once, cpc, accepted, written, due>>

\* Mutant: the channel has no bound.
SubmitSendUnbounded(s) ==
  /\ spkt[s] # <<>>
  /\ packets' = packets \o spkt[s]
  /\ accepted' = accepted \o spkt[s]
  /\ spkt' = [spkt EXCEPT ![s] = <<>>]
  /\ UNCHANGED <<done, epc, hand, once, cpc, written, due>>

\* case e.packets <- p: return nil.
SubmitSend(s) ==
  /\ spkt[s] # <<>>
  /\ Len(packets) < EmitterSize
  /\ packets' = packets \o spkt[s]
  /\ accepted' = accepted \o spkt[s]
  /\ spkt' = [spkt EXCEPT ![s] = <<>>]
  /\ UNCHANGED <<done, epc, hand, once, cpc, written, due>>

\* Mutant: the second select has no case for done.
SubmitFailNever(s) == FALSE /\ s \in Submitters /\ UNCHANGED evars

\* case <-e.done: return errEmitterClosed.
SubmitFail(s) ==
  /\ spkt[s] # <<>>
  /\ done
  /\ spkt' = [spkt EXCEPT ![s] = <<>>]
  /\ UNCHANGED <<packets, done, epc, hand, once, cpc, accepted, written, due>>

-----------------------------------------------------------------------------
(* loop and flush.  Both take a packet and write it the same way; they     *)
(* differ in what they do when there is none, so one state "top" stands    *)
(* for the head of both loops.                                             *)

\* case p := <-e.packets
Take ==
  /\ epc = "top"
  /\ packets # <<>>
  /\ hand' = <<Head(packets)>>
  /\ packets' = Tail(packets)
  /\ epc' = "wait"
  /\ UNCHANGED <<done, spkt, once, cpc, accepted, written, due>>

\* Mutant: a loop that finds done closed drops the packet it has taken.
PassDropping ==
  /\ epc = "wait"
  /\ epc' = IF done THEN "top" ELSE "write"
  /\ hand' = IF done THEN <<>> ELSE hand
  /\ UNCHANGED <<packets, done, spkt, once, cpc, accepted, written, due>>

\* so.barrier.Wait() returned.
Pass ==
  /\ epc = "wait"
  /\ epc' = "write"
  /\ UNCHANGED <<packets, done, hand, spkt, once, cpc, accepted, written, due>>

\* so.WritePacket(p) returned; its error is ignored.
Written ==
  /\ epc = "write"
  /\ written' = written \o hand
  /\ hand' = <<>>
  /\ epc' = "top"
  /\ UNCHANGED <<packets, done, spkt, once, cpc, accepted, due>>

\* done is closed and flush finds the channel empty: wg.Done().
Exit ==
  /\ epc = "top"
  /\ done
  /\ packets = <<>>
  /\ epc' = "exited"
  /\ UNCHANGED <<packets, done, hand, spkt, once, cpc, accepted, written, due>>

-----------------------------------------------------------------------------
(* Socket.Close: the first caller runs the body of once.Do, the others     *)
(* wait until it has finished.                                             *)

\* Mutant: done is not closed.
CloseCallNoSignal(c) ==
  /\ cpc[c] = "idle"
  /\ cpc' = [cpc EXCEPT ![c] = "closing"]
  /\ IF once = "open"
     THEN once' = "closing" /\ due' = Len(accepted)
     ELSE UNCHANGED <<once, due>>
  /\ UNCHANGED <<packets, done, epc, hand, spkt, accepted, written>>

CloseCall(c) ==
  /\ cpc[c] = "idle"
  /\ cpc' = [cpc EXCEPT ![c] = "closing"]
  /\ IF once = "open"
     THEN /\ once' = "closing"
          /\ done' = TRUE
          /\ due' = Len(accepted)
     ELSE UNCHANGED <<once, done, due>>
  /\ UNCHANGED <<packets, epc, hand, spkt, accepted, written>>

\* Mutant: no wg.Wait().
CloseConnNoWait ==
  /\ once = "closing"
  /\ once' = "closed"
  /\ UNCHANGED <<packets, done, epc, hand, spkt, cpc, accepted, written, due>>

\* wg.Wait() returned; s.Conn.Close().
CloseConn ==
  /\ once = "closing"
  /\ epc = "exited"
  /\ once' = "closed"
  /\ UNCHANGED <<packets, done, epc, hand, spkt, cpc, accepted, written, due>>

CloseReturn(c) ==
  /\ cpc[c] = "closing"
  /\ once = "closed"
  /\ cpc' = [cpc EXCEPT ![c] = "idle"]
  /\ UNCHANGED <<packets, done, epc, hand, spkt, once, accepted, written, due>>

-----------------------------------------------------------------------------
\* Packets some goroutine has offered and that may not be offered again.
Used == Range(accepted) \cup UNION {Range(spkt[s]) : s \in Submitters}

SubmitStep(s) == SubmitSend(s) \/ SubmitFail(s)

LoopStep == Take \/ Pass \/ Written \/ Exit

EmitterNext ==
  \/ \E s \in Submitters : \E p \in Packets \ Used : Submit(s, p)
  \/ \E s \in Submitters : SubmitSend(s)
  \/ \E s \in Submitters : SubmitFail(s)
  \/ Take
  \/ Pass
  \/ Written
  \/ Exit
  \/ \E c \in Closers : CloseCall(c)
  \/ CloseConn
  \/ \E c \in Closers : CloseReturn(c)

EmitterSpec == EmitterInit /\ [][EmitterNext]_evars

\* The goroutines of the program run; nobody has to call Emit or Close.
FairEmitterSpec ==
  /\ EmitterSpec
  /\ WF_evars(LoopStep)
  /\ \A s \in Submitters : WF_evars(SubmitStep(s))
  /\ WF_evars(CloseConn)
  /\ \A c \in Closers : WF_evars(CloseReturn(c))

-----------------------------------------------------------------------------
(* Properties *)

AtMostOne(S) == {<<>>} \cup {<<p>> : p \in S}

\* Every variable stays in its type, and the channel within its capacity.
EmitterTypeOK ==
  /\ packets \in Seq(Packets) /\ Len(packets) <= EmitterSize
  /\ done \in BOOLEAN
  /\ epc \in {"top", "wait", "write", "exited"}
  /\ hand \in AtMostOne(Packets)
  /\ spkt \in [Submitters -> AtMostOne(Packets)]
  /\ once \in {"open", "closing", "closed"}
  /\ cpc \in [Closers -> {"idle", "closing"}]
  /\ accepted \in Seq(Packets)
  /\ written \in Seq(Packets)
  /\ due \in Nat

\* Nothing is lost, doubled or reordered between a submit that returned nil and
\* WritePacket: what was accepted is what was written, then the packet in the
\* loop's hand, then what is in the channel.
Conservation == accepted = written \o hand \o packets

\* Close returns only when the emitter has exited, and by then every packet
\* whose Emit returned before Close was called has been handed to the
\* connection, which is closed only then.
FlushedBeforeClosed ==
  once = "closed" => epc = "exited" /\ Len(written) >= due

\* An Emit that has started returns: a full channel drains or done closes.
EmitReturns ==
  \A s \in Submitters : spkt[s] # <<>> ~> spkt[s] = <<>>

\* A Close that has started returns, in every caller.
CloseReturns ==
  \A c \in Closers : cpc[c] = "closing" ~> cpc[c] = "idle"

\* A Socket keeps the promise of Outbox.
Promise == INSTANCE Outbox WITH
  queue <- hand \o packets,
  sent  <- written,
  state <- once

PromiseSpec == Promise!Spec
=============================================================================
