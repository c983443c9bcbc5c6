-------------------------- MODULE MCFaultAuthority --------------------------
(* One key of another caller beside the runner's three.                    *)
EXTENDS FaultAuthority
CONSTANTS o1
=============================================================================
