------------------------------ MODULE TlsScan ------------------------------
(***************************************************************************)
(* What the TLS event handlers promise, without subscriptions, SQL         *)
(* statements or caches: a TLS scan gets at most one outcome, a user's     *)
(* result takes its credit in the same step and within the plan, and a     *)
(* failure gives it back.  A scan without a row is PENDING.                *)
(***************************************************************************)
EXTENDS ScanState, FiniteSets, Naturals

CONSTANTS
    Scans,
    Owner,     \* user of each scan, or NilUser for a catalog scan
    Limit,     \* credits of each user's plan; 0 is unlimited
    NilUser

VARIABLES
    state,    \* lifecycle state of each scan
    gone,     \* scans their owner deleted or a later catalog scan replaced
    credit    \* scans that hold a ledger credit

tsvars == <<state, gone, credit>>

Charged(s) == Owner[s] # NilUser

Room(s) ==
    LET u == Owner[s]
    IN  Limit[u] = 0 \/ Cardinality({t \in credit : Owner[t] = u}) < Limit[u]

TSInit ==
    /\ state = [s \in Scans |-> "PENDING"]
    /\ gone = {}
    /\ credit \in SUBSET {s \in Scans : Charged(s)}

\* A late scan.started never touches a scan that has its outcome.
TSStart(s) ==
    /\ s \notin gone /\ state[s] = "PENDING"
    /\ state' = [state EXCEPT ![s] = "RUNNING"]
    /\ UNCHANGED <<gone, credit>>

Open(s) == s \notin gone /\ ~IsTerminal(state[s])

\* A credit reserved before is kept, otherwise one is taken within the plan.
TSComplete(s) ==
    /\ Open(s)
    /\ Charged(s) => s \in credit \/ Room(s)
    /\ state' = [state EXCEPT ![s] = "SUCCESS"]
    /\ credit' = IF Charged(s) THEN credit \union {s} ELSE credit
    /\ UNCHANGED gone

\* A failure, or a result the plan has no room for.
TSFail(s) ==
    /\ Open(s)
    /\ state' = [state EXCEPT ![s] = "FAILED"]
    /\ credit' = credit \ {s}
    /\ UNCHANGED gone

\* A delete, or a catalog scan that replaces all earlier ones of its URL in one
\* statement: some scans go, and none comes back.
TSRemove ==
    /\ UNCHANGED <<state, credit>>
    /\ gone' \in SUBSET Scans
    /\ gone \subseteq gone' /\ gone' # gone

TSNext == TSRemove \/ \E s \in Scans : TSStart(s) \/ TSComplete(s) \/ TSFail(s)

TSSpec == TSInit /\ [][TSNext]_tsvars
=============================================================================
