--------------------------- MODULE MCEngineServer ---------------------------
(* EngineServer on a small instance. *)
EXTENDS EngineServer

CONSTANTS r1, r2, r3

MCRequests == {r1, r2, r3}
MCPolls == {r1, r2}
=============================================================================
