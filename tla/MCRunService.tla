---------------------------- MODULE MCRunService ----------------------------
(* RunService with two handlers and two keys.                              *)
EXTENDS RunService
CONSTANTS h1, h2, k1, k2
=============================================================================
