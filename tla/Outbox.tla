------------------------------- MODULE Outbox -------------------------------
(***************************************************************************)
(* What a Socket promises to those who Emit on it: the packets it accepts  *)
(* leave in the order of acceptance, each at most once; closing it takes   *)
(* effect only when every packet accepted before the call has left; and    *)
(* nothing leaves afterwards.  A packet accepted while the outbox closes   *)
(* may leave or stay behind.                                               *)
(***************************************************************************)
EXTENDS Naturals, Sequences

CONSTANT Packets

VARIABLES queue,   \* accepted, not yet sent
          sent,    \* what left, in order
          state,   \* "open", "closing" or "closed"
          due      \* how many packets must have left before it is closed

vars == <<queue, sent, state, due>>

Init ==
  /\ queue = <<>>
  /\ sent = <<>>
  /\ state = "open"
  /\ due = 0

Accept(p) ==
  /\ queue' = Append(queue, p)
  /\ UNCHANGED <<sent, state, due>>

Transmit ==
  /\ state # "closed"
  /\ queue # <<>>
  /\ sent' = Append(sent, Head(queue))
  /\ queue' = Tail(queue)
  /\ UNCHANGED <<state, due>>

Shut ==
  /\ state = "open"
  /\ state' = "closing"
  /\ due' = Len(sent) + Len(queue)
  /\ UNCHANGED <<queue, sent>>

Finish ==
  /\ state = "closing"
  /\ Len(sent) >= due
  /\ state' = "closed"
  /\ UNCHANGED <<queue, sent, due>>

Next ==
  \/ \E p \in Packets : Accept(p)
  \/ Transmit
  \/ Shut
  \/ Finish

Spec == Init /\ [][Next]_vars
=============================================================================
