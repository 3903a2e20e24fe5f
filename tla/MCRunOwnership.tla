-------------------------- MODULE MCRunOwnership --------------------------
(* RunOwnership on two executions and one sweep.                           *)
EXTENDS RunOwnership, TLC
CONSTANTS e1, e2, s1
=============================================================================
