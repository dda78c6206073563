---------------------------- MODULE MCPendingScan ----------------------------
(* Scans and addresses for the TLC runs of PendingScan.                    *)
EXTENDS PendingScan

CONSTANTS s1, s2, t1, k1, h1, h2

\* Every wallet scan wants the same address; t1 is a TLS scan.
MCTarget == [s \in Scans |-> IF s = t1 THEN None ELSE k1]
=============================================================================
