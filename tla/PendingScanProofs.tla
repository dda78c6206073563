-------------------------- MODULE PendingScanProofs --------------------------
(***************************************************************************)
(* A granted reservation is exclusive for any number of scans, addresses   *)
(* and handlers, whatever Redis commands fail or lose their reply, as long *)
(* as a scan is given back only after its reservation was answered.        *)
(*                                                                         *)
(* GrantHolds alone is not inductive: the plain DEL of Undo would remove   *)
(* any holder.  PendInv adds what makes it safe, that a handler between    *)
(* its SET NX and its answer is the only one at work for its scan (Alone)  *)
(* and still holds the address (Holds), and that a handler that may remove *)
(* the key of its scan works for a scan that is not granted.  Freed adds   *)
(* what UnreserveFrees needs: only a reservation takes an address, and its *)
(* scan counts as given back no more.                                      *)
(***************************************************************************)
EXTENDS PendingScan, TLAPS

\* One handler at a time works for a scan.
Alone ==
    /\ \A h \in Handlers : pc[h] = "idle" <=> scan[h] = None
    /\ \A g, h \in Handlers : scan[g] # None /\ scan[g] = scan[h] => g = h

\* Which steps belong to wallet scans.
Families ==
    \A h \in Handlers :
        /\ pc[h] \in {"setnx", "undo", "cas"} => IsWallet(scan[h])
        /\ op[h] \in {"reserve", "unreserve"} => IsWallet(scan[h])
        /\ pc[h] \in {"get", "del"} => op[h] = "release"

\* h has taken the address of its scan and has not answered yet.
Holding(h) ==
    \/ pc[h] \in {"put", "undo"} /\ IsWallet(scan[h])
    \/ pc[h] = "201" /\ op[h] = "reserve"

Holds ==
    \A h \in Handlers : Holding(h) =>
        addrKey[Target[scan[h]]] = scan[h] /\ scan[h] \notin granted

GivenBack ==
    \A h \in Handlers : pc[h] \in {"get", "del", "cas"} => scan[h] \notin granted

WalletGrants == \A s \in granted : IsWallet(s)

\* A scan given back holds nothing, also while its 204 is on the way.
Freed ==
    /\ \A h \in Handlers : pc[h] = "setnx" => scan[h] \notin released
    /\ \A h \in Handlers : pc[h] = "204" /\ op[h] = "unreserve" =>
          addrKey[Target[scan[h]]] # scan[h]
    /\ \A s \in released : IsWallet(s)
    /\ UnreserveFrees

PendInv ==
    /\ TypeOK /\ Alone /\ Families
    /\ Holds /\ GivenBack /\ WalletGrants /\ GrantHolds
    /\ Freed /\ LookupFinds

\* The empty Redis, without requests, satisfies the invariant.
LEMMA InitPend == Init => PendInv
  BY PendingAssumption
  DEF Init, PendInv, TypeOK, Steps, Alone, Families, Holding, Holds, GivenBack,
      WalletGrants, GrantHolds, IsWallet, Freed, UnreserveFrees, LookupFinds, NoLook

\* Every step keeps values in their types.
LEMMA NextPendType == TypeOK /\ Alone /\ Families /\ [Next]_vars => TypeOK'
<1> SUFFICES ASSUME TypeOK, Alone, Families, [Next]_vars PROVE TypeOK'
  OBVIOUS
<1> USE PendingAssumption DEF TypeOK, Alone, Families, Steps, Goto, Then, keys, hvars, clients, IsWallet
<1>1. ASSUME NEW h \in Handlers, NEW s \in Scans, NEW what \in Operations(s), Receive(h, what, s)
      PROVE TypeOK'
  <2>1. what \in {"reserve", "unreserve", "release", "put"}
    BY DEF Operations
  <2>2. FirstStep(what) \in {"setnx", "put", "cas", "get"}
    BY <2>1 DEF FirstStep
  <2> QED BY <1>1, <2>1, <2>2 DEF Receive
<1>2. ASSUME NEW h \in Handlers, SetNX(h) PROVE TypeOK'
  BY <1>2 DEF SetNX, Outcomes
<1>3. ASSUME NEW h \in Handlers, Put(h) PROVE TypeOK'
  BY <1>3 DEF Put
<1>4. ASSUME NEW h \in Handlers, Undo(h) PROVE TypeOK'
  BY <1>4 DEF Undo
<1>5. ASSUME NEW h \in Handlers, ReadRecord(h) PROVE TypeOK'
  BY <1>5 DEF ReadRecord
<1>6. ASSUME NEW h \in Handlers, DelRecord(h) PROVE TypeOK'
  BY <1>6 DEF DelRecord, AfterDel
<1>7. ASSUME NEW h \in Handlers, CompareDelete(h) PROVE TypeOK'
  BY <1>7 DEF CompareDelete
<1>8. ASSUME NEW h \in Handlers, Respond(h) \/ Crash(h) PROVE TypeOK'
  BY <1>8 DEF Respond, Crash, Idle
<1>9. ASSUME NEW k \in Owners, ExpireAddress(k) PROVE TypeOK'
  BY <1>9 DEF ExpireAddress
<1>10. ASSUME NEW s \in Scans, ExpireRecord(s) PROVE TypeOK'
  BY <1>10 DEF ExpireRecord
<1>11. ASSUME NEW k \in Owners, LookAddress(k) PROVE TypeOK'
  <2>1. {s \in granted : Target[s] = k} \in SUBSET Scans /\ addrKey[k] \in Scans \union {None}
    OBVIOUS
  <2>2. look' \in [step : {"idle", "record", "200", "404", "503"}, at : Owners \union {None},
                   found : Scans \union {None}, held : SUBSET Scans]
    BY <1>11, <2>1 DEF LookAddress, LookFails, NoLook
  <2> QED BY <1>11, <2>2 DEF LookAddress
<1>12. CASE LookRecord \/ LookRespond
  <2>1. look' \in [step : {"idle", "record", "200", "404", "503"}, at : Owners \union {None},
                   found : Scans \union {None}, held : SUBSET Scans]
    <3>1. CASE look' = [look EXCEPT !.step = "200", !.held = {}]
      BY <3>1
    <3>2. CASE look' = NoLook \/ LookFails
      BY <3>2 DEF LookFails, NoLook
    <3> QED BY <1>12, <3>1, <3>2 DEF LookRecord, LookRespond
  <2> QED BY <1>12, <2>1 DEF LookRecord, LookRespond
<1>13. CASE UNCHANGED vars
  BY <1>13 DEF vars
<1> QED
  BY <1>1, <1>2, <1>3, <1>4, <1>5, <1>6, <1>7, <1>8, <1>9, <1>10, <1>11, <1>12, <1>13
  DEF Next, Step

\* Every step keeps the whole invariant while Discovery is patient: one step
\* of the proof per action.
LEMMA NextPend == ASSUME Patient, PendInv, [Next]_vars PROVE PendInv'
<1>t. TypeOK'
  BY NextPendType DEF PendInv
<1> DEFINE Rest == /\ Alone /\ Families /\ Holds /\ GivenBack /\ WalletGrants /\ GrantHolds
                   /\ Freed /\ LookupFinds
<1> USE PendingAssumption DEF PendInv, TypeOK, Alone, Families, Holding, Holds, GivenBack,
        WalletGrants, GrantHolds, Freed, UnreserveFrees, LookupFinds, IsWallet, Goto, Then, Busy, keys, hvars, clients
<1>1. ASSUME NEW h \in Handlers, NEW s \in Scans, NEW what \in Operations(s), Receive(h, what, s)
      PROVE Rest'
  <2>1. what \in {"reserve", "unreserve", "release", "put"}
    BY DEF Operations
  <2>2. /\ what = "reserve" => IsWallet(s) /\ FirstStep(what) = "setnx"
        /\ what = "unreserve" => IsWallet(s) /\ FirstStep(what) = "cas"
        /\ what = "release" => FirstStep(what) = "get"
        /\ what = "put" => ~IsWallet(s) /\ FirstStep(what) = "put"
    BY <2>1 DEF Operations, FirstStep
  <2>3. \A g \in Handlers : scan[g] # s
    BY <1>1 DEF Receive
  <2>4. op' = [op EXCEPT ![h] = what]
    BY <1>1, <2>3 DEF Receive
  <2>5. /\ scan' = [scan EXCEPT ![h] = s]
        /\ pc' = [pc EXCEPT ![h] = FirstStep(what)]
        /\ granted' = IF what \in {"unreserve", "release"} THEN granted \ {s} ELSE granted
        /\ released' = IF what = "reserve" THEN released \ {s} ELSE released
        /\ UNCHANGED <<addrKey, scanKey, look>>
    BY <1>1 DEF Receive
  <2> QED BY <2>1, <2>2, <2>3, <2>4, <2>5
<1>2. ASSUME NEW h \in Handlers, SetNX(h) PROVE Rest'
  BY <1>2 DEF SetNX, Outcomes, Effective
<1>3. ASSUME NEW h \in Handlers, Put(h) PROVE Rest'
  BY <1>3 DEF Put
<1>4. ASSUME NEW h \in Handlers, Undo(h) PROVE Rest'
  BY <1>4 DEF Undo
<1>5. ASSUME NEW h \in Handlers, ReadRecord(h) PROVE Rest'
  BY <1>5 DEF ReadRecord
<1>6. ASSUME NEW h \in Handlers, DelRecord(h) PROVE Rest'
  BY <1>6 DEF DelRecord, AfterDel
<1>7. ASSUME NEW h \in Handlers, CompareDelete(h) PROVE Rest'
  BY <1>7 DEF CompareDelete, Effective
<1>8. ASSUME NEW h \in Handlers, Respond(h) PROVE Rest'
  BY <1>8 DEF Respond, Idle
<1>9. ASSUME NEW h \in Handlers, Crash(h) PROVE Rest'
  BY <1>9 DEF Crash, Idle
<1>10. ASSUME NEW k \in Owners, ExpireAddress(k) PROVE Rest'
  BY <1>10 DEF ExpireAddress
<1>11. ASSUME NEW s \in Scans, ExpireRecord(s) PROVE Rest'
  BY <1>11 DEF ExpireRecord
<1>12. ASSUME NEW k \in Owners, LookAddress(k) PROVE Rest'
  BY <1>12 DEF LookAddress, LookFails, NoLook
<1>13. ASSUME LookRecord \/ LookRespond PROVE Rest'
  <2>1. look'.step # "404"
    <3>1. CASE look' = [look EXCEPT !.step = "200", !.held = {}]
      BY <3>1
    <3>2. CASE look' = NoLook \/ LookFails
      BY <3>2 DEF LookFails, NoLook
    <3> QED BY <1>13, <3>1, <3>2 DEF LookRecord, LookRespond
  <2> QED BY <1>13, <2>1 DEF LookRecord, LookRespond
<1>14. ASSUME UNCHANGED vars PROVE Rest'
  BY <1>14 DEF vars
<1>15. Rest'
  BY <1>1, <1>2, <1>3, <1>4, <1>5, <1>6, <1>7, <1>8, <1>9, <1>10, <1>11, <1>12, <1>13, <1>14
  DEF Next, Step
<1> QED
  BY <1>t, <1>15

\* The invariant holds in every state of the specification.
LEMMA PendInvariant == ASSUME Patient PROVE Spec => []PendInv
<1>1. Init => PendInv
  BY InitPend
<1>2. PendInv /\ [Next]_vars => PendInv'
  BY NextPend
<1> QED
  BY <1>1, <1>2, PTL DEF Spec

\* Every key, handler and lookup of the reservation endpoints is well typed.
THEOREM PendingTypeCorrect == ASSUME Patient PROVE Spec => []TypeOK
  BY PendInvariant, PTL DEF PendInv

\* A 201 is a lock: the scan it was given to holds its address until it gives
\* it back or the TTL passes, although the failure path of PutWallet deletes
\* the key without comparing it (PutWallet, Delete, DeleteWalletReservation).
THEOREM GrantExclusive == ASSUME Patient PROVE Spec => []GrantHolds
  BY PendInvariant, PTL DEF PendInv

\* A 204 of DeleteWalletReservation means that the scan holds its address no
\* more, whatever failed before it.
THEOREM GivenBackIsFree == ASSUME Patient PROVE Spec => []UnreserveFrees
  BY PendInvariant, PTL DEF PendInv, Freed

\* GetWalletByOwnerAddress never answers 404 for an address that was granted
\* when the lookup began, with or without the record.
THEOREM ReservedIsFound == ASSUME Patient PROVE Spec => []LookupFinds
  BY PendInvariant, PTL DEF PendInv
=============================================================================
