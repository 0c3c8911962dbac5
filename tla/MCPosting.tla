----------------------------- MODULE MCPosting ------------------------------
(* Posting on small instances. *)
EXTENDS Posting

Chat == <<97>>                     \* "a"
ChatQuery == <<47, 97, 63, 98>>    \* "/a?b"
List == <<91, 48, 58, 52, 93>>     \* "[0:4]"
List64 == <<91, 54, 58, 98, 93>>   \* "[6:b]"

\* Each alone in a payload: every combination of what the text of a packet may have.
MCMessages ==
  {m \in [type : {0, Event, BinaryAck}, attachments : {0, 1, 10},
          nsp : {<<>>, Chat, ChatQuery, <<Slash, 49, 45>>},
          id : {<<>>, <<0>>, <<12>>}, data : {<<>>, List}] :
     m.type \in BinaryTypes <=> m.attachments > 0}

\* Some of them, and binaries, two in a payload.
MCPackets ==
  {Posted([type |-> 0, attachments |-> 0, nsp |-> ChatQuery, id |-> <<>>, data |-> <<>>]),
   Posted([type |-> Event, attachments |-> 0, nsp |-> <<>>, id |-> <<12>>, data |-> List]),
   Posted([type |-> BinaryEvent, attachments |-> 1, nsp |-> Chat, id |-> <<>>,
           data |-> List64])}
  \cup {[msgType |-> "binary", pktType |-> 4, data |-> d] :
          d \in {<<>>, <<7>>, <<1, 0, 255, 52, 200, 9, 255>>}}

MCPayloads == SeqOf(MCPackets, 2) \cup {<<Posted(m)>> : m \in MCMessages}
=============================================================================
