-------------------------- MODULE MCServiceLifecycle --------------------------
(* Instances and requests for the TLC runs of ServiceLifecycle.            *)
EXTENDS ServiceLifecycle

CONSTANTS i1, i2, r1
=============================================================================
