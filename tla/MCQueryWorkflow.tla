-------------------------- MODULE MCQueryWorkflow --------------------------
(* QueryWorkflow with the limits of builder.py and nodes.py.               *)
EXTENDS QueryWorkflow
=============================================================================
