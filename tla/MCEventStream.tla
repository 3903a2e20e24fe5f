--------------------------- MODULE MCEventStream ---------------------------
(* EventStream with two clients.                                           *)
EXTENDS EventStream
CONSTANTS c1, c2
=============================================================================
