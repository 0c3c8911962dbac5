----------------------------- MODULE MCEmitter ------------------------------
(* Emitter on a small instance. *)
EXTENDS Emitter, TLC

CONSTANTS s1, s2, c1, c2, p1, p2, p3, p4

MCSubmitters == {s1, s2}
MCClosers == {c1, c2}
MCPackets == {p1, p2, p3, p4}

=============================================================================
