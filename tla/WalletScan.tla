----------------------------- MODULE WalletScan -----------------------------
(***************************************************************************)
(* What the wallet transition endpoint promises, without handlers, SQL     *)
(* statements or caches: every scan moves through its lifecycle in atomic  *)
(* steps, and each step settles the scan's credit together with its state. *)
(* A scan without a row is PENDING.                                        *)
(***************************************************************************)
EXTENDS ScanState

CONSTANT Scans

VARIABLES
    state,    \* lifecycle state of each scan
    gone,     \* scans their owner deleted
    credit    \* scans that hold a ledger credit

wsvars == <<state, gone, credit>>

WSInit ==
    /\ state \in [Scans -> States \ {"SUCCESS", "FAILED"}]
    /\ gone \in SUBSET Scans
    /\ credit \in SUBSET Scans

Open(s) == s \notin gone /\ ~IsTerminal(state[s])

WSStart(s) ==
    /\ Open(s)
    /\ state' = [state EXCEPT ![s] = "RUNNING"]
    /\ UNCHANGED <<gone, credit>>

\* A result is stored only against a credit, and keeps it.
WSComplete(s) ==
    /\ Open(s)
    /\ s \in credit
    /\ state' = [state EXCEPT ![s] = "SUCCESS"]
    /\ UNCHANGED <<gone, credit>>

\* A failure gives the credit back in the same step.
WSFail(s) ==
    /\ Open(s)
    /\ state' = [state EXCEPT ![s] = "FAILED"]
    /\ credit' = credit \ {s}
    /\ UNCHANGED gone

WSDelete(s) ==
    /\ s \notin gone
    /\ gone' = gone \union {s}
    /\ UNCHANGED <<state, credit>>

WSNext == \E s \in Scans : WSStart(s) \/ WSComplete(s) \/ WSFail(s) \/ WSDelete(s)

WSSpec == WSInit /\ [][WSNext]_wsvars
=============================================================================
