------------------------------ MODULE Posting -------------------------------
(***************************************************************************)
(* Packets of socket.io that a client posts to a polling connection: the   *)
(* text of PacketText as the data of string packets in a Payload.          *)
(***************************************************************************)
EXTENDS Payload, PacketText

CONSTANT Messages  \* packets of socket.io

Posted(m) == [msgType |-> "string", pktType |-> 4, data |-> encodeTo(m)]

ASSUME PostingAssumption ==
  \A m \in Messages :
    /\ m.type \in BinaryTypes <=> m.attachments > 0
    /\ Comma \notin Range(m.nsp)
    /\ m.data # <<>> => m.data[1] \notin IsDigit
    /\ m.type \in {Event, Ack} \cup BinaryTypes /\ m.data # <<>> => m.data[1] = Bracket

-----------------------------------------------------------------------------
(* Properties *)

\* A packet that went through an intact payload comes out of decode as it was emitted,
\* with the namespace as the receiver compares it: its text is cut neither by the length
\* in front of it nor by its own separators.
TextSurvives ==
  status = 200 /\ whole = -1 =>
    \A i \in DOMAIN in : \A m \in Messages :
      packets[i] = Posted(m) => decode(in[i].data) = Seen(m)
=============================================================================
