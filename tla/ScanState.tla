----------------------------- MODULE ScanState -----------------------------
(***************************************************************************)
(* The lifecycle states of a scan and the pure predicates on them          *)
(* (pkg/scan/state.go), shared by the wallet and the TLS models.           *)
(***************************************************************************)

\* A stored status may be empty (or NULL) in rows older than the lifecycle.
Blank == ""

TerminalStates == {"SUCCESS", "FAILED", "TIMEOUT", "UNREACHABLE"}

States == {"PENDING", "RUNNING"} \union TerminalStates

StoredStates == States \union {Blank}

IsTerminal(status) == status \in TerminalStates

IsSuccess(status) == status = "SUCCESS"

\* An empty stored status reads as PENDING.
Logical(status) == IF status = Blank THEN "PENDING" ELSE status

\* The transition table of the persistence service.
ValidTransition(fromState, toState) ==
    \/ toState = "RUNNING" /\ Logical(fromState) = "PENDING"
    \/ IsTerminal(toState) /\ Logical(fromState) \in {"PENDING", "RUNNING"}
=============================================================================
