------------------------------ MODULE MCFrames ------------------------------
(* Instances of Frames. *)
EXTENDS Frames

CONSTANTS server, client, c1, c2

Both == {server, client}
OneSender == {c1}
TwoSenders == {c1, c2}
SenderHome == [g \in Senders |-> client]

AllArgs == {<<"json">>, <<"bin">>, <<"bin", "json", "bin">>}
MixedArgs == {<<"json">>, <<"bin">>}

AllParams == {<<"json">>, <<"socket", "bin", "json", "bin">>}
NoParams == {<<>>}

AllReplies == {<<>>, <<"json">>, <<"bin">>, <<"json", "bin">>}
NoReply == {<<>>}
=============================================================================
