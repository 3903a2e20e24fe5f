-------------------------- MODULE MCRunExecution --------------------------
(* RunExecution on two executions and one sweep.                           *)
EXTENDS RunExecution, TLC
CONSTANTS e1, e2, s1

\* The executions are interchangeable, and only safety is checked.
Symmetry == Permutations(Executions)
=============================================================================
