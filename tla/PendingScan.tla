----------------------------- MODULE PendingScan -----------------------------
(***************************************************************************)
(* Scans that Discovery accepted and that have no row yet: two kinds of    *)
(* Redis keys, written and removed by concurrent HTTP handlers.            *)
(*                                                                         *)
(*   pending_wallet:<user>:<address>  ->  the scan that reserved it        *)
(*   pending_scan:<scan>              ->  the record of the scan           *)
(*                                                                         *)
(* Redis runs each command atomically, so a command is one action; between *)
(* two commands of a handler anything may happen.  A command may fail, or  *)
(* take effect and lose its reply.                                         *)
(***************************************************************************)
EXTENDS Naturals, FiniteSets

CONSTANTS
    Scans,      \* scan ids, chosen fresh by Discovery
    Owners,     \* pairs of a user and a normalised address
    Target,     \* owner and address of a wallet scan, None for a TLS scan
    Handlers,
    Faults,     \* subset of {"fail", "lost", "crash"}
    Patient,    \* Discovery gives a scan back only after its reservation was answered
    None

ASSUME PendingAssumption ==
    /\ Target \in [Scans -> Owners \union {None}]
    /\ None \notin Scans /\ None \notin Owners /\ None \notin {"reserve", "unreserve"}
    /\ Faults \subseteq {"fail", "lost", "crash"}
    /\ Patient \in BOOLEAN

VARIABLES
    addrKey,    \* scan that holds the address key of an owner, or None
    scanKey,    \* scans that have a record
    pc, op, scan, seen,   \* each handler: step, operation, scan, what it has read
    granted,    \* scans whose reservation was answered 201 and not given back
    released,   \* scans whose reservation was given back with a 204
    look        \* a lookup by owner and address

keys == <<addrKey, scanKey>>
hvars == <<pc, op, scan, seen>>
clients == <<granted, released>>
vars == <<keys, hvars, clients, look>>

NoLook == [step |-> "idle", at |-> None, found |-> None, held |-> {}]

IsWallet(s) == Target[s] # None
Operations(s) == IF IsWallet(s) THEN {"reserve", "unreserve", "release"} ELSE {"put", "release"}

Init ==
    /\ addrKey = [o \in Owners |-> None]
    /\ scanKey = {}
    /\ pc = [h \in Handlers |-> "idle"]
    /\ op = [h \in Handlers |-> None]
    /\ scan = [h \in Handlers |-> None]
    /\ seen = [h \in Handlers |-> None]
    /\ granted = {}
    /\ released = {}
    /\ look = NoLook

Goto(h, step) == pc' = [pc EXCEPT ![h] = step]

\* How a Redis command ends: done, not done, or done with its reply lost.
Outcomes == {"done"} \union ({"fail", "lost"} \intersect Faults)
Effective(o) == o # "fail"
Then(h, o, step, onError) == Goto(h, IF o = "done" THEN step ELSE onError)

Busy(s) == \E h \in Handlers : scan[h] = s

FirstStep(what) ==
    CASE what = "reserve" -> "setnx"
      [] what = "put" -> "put"
      [] what = "unreserve" -> "cas"
      [] what = "release" -> "get"

\* A request with a missing user, address or scan id is answered 400 and
\* reaches no key.  A client that gives a scan back no longer waits for the
\* answer to its reservation.
Receive(h, what, s) ==
    /\ pc[h] = "idle"
    /\ what \in Operations(s)
    /\ Patient \/ what \in {"reserve", "put"} => ~Busy(s)
    /\ Goto(h, FirstStep(what))
    /\ op' = [g \in Handlers |-> IF g = h THEN what
                                ELSE IF scan[g] = s THEN "abandoned" ELSE op[g]]
    /\ scan' = [scan EXCEPT ![h] = s]
    /\ granted' = IF what \in {"unreserve", "release"} THEN granted \ {s} ELSE granted
    /\ released' = IF what = "reserve" THEN released \ {s} ELSE released
    /\ UNCHANGED <<keys, seen, look>>
-----------------------------------------------------------------------------
(* PutWallet: SET NX on the address, then the record, which Put also writes *)
(* for a TLS scan.                                                         *)

SetNX(h) ==
    LET holder == addrKey[Target[scan[h]]]
    IN  /\ pc[h] = "setnx"
        /\ seen' = [seen EXCEPT ![h] = holder]
        /\ \E o \in Outcomes :
             /\ addrKey' = IF holder = None /\ Effective(o)
                             THEN [addrKey EXCEPT ![Target[scan[h]]] = scan[h]] ELSE addrKey
             /\ Then(h, o, IF holder = None THEN "put" ELSE "409", "503")
        /\ UNCHANGED <<scanKey, op, scan, clients, look>>

Put(h) ==
    /\ pc[h] = "put"
    /\ \E o \in Outcomes :
         /\ scanKey' = IF Effective(o) THEN scanKey \union {scan[h]} ELSE scanKey
         /\ Then(h, o, "201", IF IsWallet(scan[h]) THEN "undo" ELSE "503")
    /\ UNCHANGED <<addrKey, op, scan, seen, clients, look>>

\* The plain DEL that takes the reservation back; its error is ignored.
Undo(h) ==
    /\ pc[h] = "undo"
    /\ \E o \in Outcomes :
         addrKey' = IF Effective(o) THEN [addrKey EXCEPT ![Target[scan[h]]] = None] ELSE addrKey
    /\ Goto(h, "503")
    /\ UNCHANGED <<scanKey, op, scan, seen, clients, look>>
-----------------------------------------------------------------------------
(* Delete: read the record, delete it, then compare-and-delete the address *)
(* of a wallet record that could be read.                                  *)

ReadRecord(h) ==
    /\ pc[h] = "get"
    /\ \E o \in Outcomes :
         seen' = [seen EXCEPT ![h] = IF o # "done" THEN "error"
                                     ELSE IF scan[h] \in scanKey THEN "record" ELSE None]
    /\ Goto(h, "del")
    /\ UNCHANGED <<keys, op, scan, clients, look>>

\* Mutant: releasing a scan that has no record is refused.
AfterDelMissing(h) == IF seen[h] = "record" /\ IsWallet(scan[h]) THEN "cas" ELSE "404"

AfterDel(h) ==
    IF seen[h] = "error" THEN "503"
    ELSE IF seen[h] = "record" /\ IsWallet(scan[h]) THEN "cas" ELSE "204"

DelRecord(h) ==
    /\ pc[h] = "del"
    /\ \E o \in Outcomes :
         /\ scanKey' = IF Effective(o) THEN scanKey \ {scan[h]} ELSE scanKey
         /\ Then(h, o, AfterDel(h), "503")
    /\ UNCHANGED <<addrKey, op, scan, seen, clients, look>>

\* Mutant: a plain DEL instead of the compare-and-delete script.
PlainDelete(h) ==
    /\ pc[h] = "cas"
    /\ addrKey' = [addrKey EXCEPT ![Target[scan[h]]] = None]
    /\ Goto(h, "204")
    /\ UNCHANGED <<scanKey, op, scan, seen, clients, look>>

\* Mutant: an error of the script is answered like success.
CompareDeleteIgnores(h) ==
    LET k == Target[scan[h]]
    IN  /\ pc[h] = "cas"
        /\ \E o \in Outcomes :
             addrKey' = IF addrKey[k] = scan[h] /\ Effective(o)
                          THEN [addrKey EXCEPT ![k] = None] ELSE addrKey
        /\ Goto(h, "204")
        /\ UNCHANGED <<scanKey, op, scan, seen, clients, look>>

\* DeleteWalletReservation: one Lua script.
CompareDelete(h) ==
    LET k == Target[scan[h]]
    IN  /\ pc[h] = "cas"
        /\ \E o \in Outcomes :
             /\ addrKey' = IF addrKey[k] = scan[h] /\ Effective(o)
                             THEN [addrKey EXCEPT ![k] = None] ELSE addrKey
             /\ Then(h, o, "204", "503")
        /\ UNCHANGED <<scanKey, op, scan, seen, clients, look>>
-----------------------------------------------------------------------------
Idle(h) ==
    /\ Goto(h, "idle")
    /\ op' = [op EXCEPT ![h] = None]
    /\ scan' = [scan EXCEPT ![h] = None]
    /\ seen' = [seen EXCEPT ![h] = None]

Respond(h) ==
    /\ pc[h] \in {"201", "204", "409", "503"}
    /\ granted' = IF pc[h] = "201" /\ op[h] = "reserve" THEN granted \union {scan[h]} ELSE granted
    /\ released' = IF pc[h] = "204" /\ op[h] = "unreserve"
                     THEN released \union {scan[h]} ELSE released
    /\ Idle(h)
    /\ UNCHANGED <<keys, look>>

\* The process dies in the middle of a request; Redis keeps what it has.
Crash(h) ==
    /\ "crash" \in Faults
    /\ pc[h] # "idle"
    /\ Idle(h)
    /\ UNCHANGED <<keys, clients, look>>

\* Mutant: SET NX without a TTL.
NeverExpires(k) == FALSE

\* The 48-hour TTL, far longer than any request for the scan.
ExpireAddress(k) ==
    /\ addrKey[k] # None /\ ~Busy(addrKey[k])
    /\ addrKey' = [addrKey EXCEPT ![k] = None]
    /\ granted' = granted \ {addrKey[k]}
    /\ UNCHANGED <<scanKey, hvars, released, look>>

ExpireRecord(s) ==
    /\ s \in scanKey /\ ~Busy(s)
    /\ scanKey' = scanKey \ {s}
    /\ UNCHANGED <<addrKey, hvars, clients, look>>

-----------------------------------------------------------------------------
(* GET /pending/wallets?address=: the holder of the address, then its      *)
(* record.                                                                 *)

LookFails == look' = [NoLook EXCEPT !.step = "503"]

LookAddress(k) ==
    /\ look.step = "idle"
    /\ \/ look' = [at |-> k, found |-> addrKey[k], held |-> {s \in granted : Target[s] = k},
                   step |-> IF addrKey[k] = None THEN "404" ELSE "record"]
       \/ Outcomes # {"done"} /\ LookFails
    /\ UNCHANGED <<keys, hvars, clients>>

\* Mutant: a holder without a record is not found.
LookRecordOnly ==
    /\ look.step = "record"
    /\ \/ look' = [look EXCEPT !.step = IF look.found \in scanKey THEN "200" ELSE "404"]
       \/ Outcomes # {"done"} /\ LookFails
    /\ UNCHANGED <<keys, hvars, clients>>

\* A record that is gone or not written yet is made up from the key.
LookRecord ==
    /\ look.step = "record"
    /\ \/ look' = [look EXCEPT !.step = "200", !.held = {}]
       \/ Outcomes # {"done"} /\ LookFails
    /\ UNCHANGED <<keys, hvars, clients>>

LookRespond ==
    /\ look.step \in {"200", "404", "503"}
    /\ look' = NoLook
    /\ UNCHANGED <<keys, hvars, clients>>

Step(h) ==
    \/ SetNX(h) \/ Put(h) \/ Undo(h)
    \/ ReadRecord(h) \/ DelRecord(h) \/ CompareDelete(h) \/ Respond(h)

Next ==
    \/ \E h \in Handlers, s \in Scans : \E what \in Operations(s) : Receive(h, what, s)
    \/ \E h \in Handlers : Step(h) \/ Crash(h)
    \/ \E k \in Owners : ExpireAddress(k) \/ LookAddress(k)
    \/ \E s \in Scans : ExpireRecord(s)
    \/ LookRecord \/ LookRespond

Spec == Init /\ [][Next]_vars

\* Handlers run, and Redis drops a key whose TTL has passed.  The TTL does not
\* stop for requests: strong fairness stands for "between two of them".
FairSpec ==
    /\ Spec
    /\ \A h \in Handlers : WF_vars(Step(h))
    /\ \A k \in Owners : SF_vars(ExpireAddress(k))
-----------------------------------------------------------------------------
Steps == {"idle", "setnx", "put", "undo", "get", "del", "cas", "201", "204", "409", "503"}

\* Every key, handler and answer holds values of its type.
TypeOK ==
    /\ addrKey \in [Owners -> Scans \union {None}]
    /\ scanKey \subseteq Scans
    /\ pc \in [Handlers -> Steps]
    /\ op \in [Handlers -> {"reserve", "put", "unreserve", "release", "abandoned", None}]
    /\ scan \in [Handlers -> Scans \union {None}]
    /\ seen \in [Handlers -> Scans \union {"error", "record", None}]
    /\ granted \subseteq Scans
    /\ released \subseteq Scans
    /\ look \in [step : {"idle", "record", "200", "404", "503"}, at : Owners \union {None},
                found : Scans \union {None}, held : SUBSET Scans]

\* A scan that was told 201 holds its address until it gives it back or the
\* TTL passes, whatever the other scans of that address do, so two scans of
\* one owner and address are never granted together (W8).
GrantHolds == \A s \in granted : addrKey[Target[s]] = s

\* ReleaseWalletPendingReservation: after its 204 the scan holds its address no
\* more, whatever earlier attempts failed half-way, until it reserves again.
\* A release by scan id promises less: without a record it knows no address.
UnreserveFrees == \A s \in released : addrKey[Target[s]] # s

\* A lookup of an address that was granted to a scan when it began never
\* answers 404, although the record may expire or be deleted before the key
\* (GetWalletByOwnerAddress).
LookupFinds == look.step = "404" => look.held = {}

\* An address key whose scan was not granted, left by a lost reply, a failed
\* undo, a crash or a half-done release, does not block the address for ever.
LeakEnds ==
    \A s \in Scans : IsWallet(s) =>
        (addrKey[Target[s]] = s /\ s \notin granted) ~>
        (addrKey[Target[s]] # s \/ s \in granted)
=============================================================================
