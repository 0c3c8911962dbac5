--------------------------- MODULE MCEngineClient ---------------------------
(* EngineClient on a small instance. *)
EXTENDS EngineClient

CONSTANTS app, pinger, reader

MCSubmitters == {app, pinger}
MCClosers == {app, reader}
MCPackets == OutPackets
=============================================================================
