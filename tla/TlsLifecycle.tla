---------------------------- MODULE TlsLifecycle ----------------------------
(***************************************************************************)
(* The NATS side of the service: scan.started, scan.completed and          *)
(* scan.failed events of TLS scans, applied to tls_scan_results, to the    *)
(* credit ledger, to Redis and to scan.ready.                              *)
(*                                                                         *)
(* A subscription runs its callbacks one after the other, so a worker is   *)
(* one subject of one instance; instances share a queue group, so an event *)
(* goes to one worker.  Core NATS does not redeliver: a handler that       *)
(* returns an error has consumed its event.  Each SQL statement is one     *)
(* action on the committed tables, as in WalletTransition.                 *)
(***************************************************************************)
EXTENDS ScanState, FiniteSets, Naturals

CONSTANTS
    Scans, Users,
    Owner,     \* user that the events of a scan name, NilUser for a catalog scan
    Url,       \* endpoint that the events of a scan name
    Result,    \* url and default of the result in its scan.completed
    Limit,     \* endpoint limit of each user's plan; 0 is unlimited
    Workers, Subject,
    Sent,      \* how many copies of each event are published
    Faults,    \* subset of {"fail", "loss", "status"}
    NilUser, None

Subjects == {"started", "completed", "failed"}
Events == Subjects \X Scans
Urls == {Url[s] : s \in Scans} \union {Result[s].url : s \in Scans}
Row == [status : States, url : Urls, default : BOOLEAN, deleted : BOOLEAN]

ASSUME TlsAssumption ==
    /\ IsFiniteSet(Scans)
    /\ Owner \in [Scans -> Users \union {NilUser}] /\ NilUser \notin Users
    /\ Limit \in [Users -> Nat]
    /\ Subject \in [Workers -> Subjects]
    /\ Sent \in [Events -> Nat]
    /\ None \notin Row /\ None \notin Scans /\ None \notin Workers

ASSUME ColumnsAssumption ==
    /\ DOMAIN Url = Scans /\ DOMAIN Result = Scans
    /\ \A s \in Scans : Result[s] \in [url : Urls, default : BOOLEAN]

VARIABLES
    row,       \* tls_scan_results, committed
    ledger,    \* scan_usage_events, committed: scans that hold a credit
    lock,      \* the worker whose open transaction wrote the row of a scan
    keyLock,   \* the worker whose open transaction inserted a ledger row
    pc, job,   \* each worker: step and scan
    goal,      \* what a worker is writing: "SUCCESS", "FAILED" or "LIMIT"
    pend,      \* its uncommitted row
    freed,     \* its open transaction deleted the scan's ledger row
    queue,     \* copies of each event not yet delivered
    cache,     \* Redis, by user and URL
    ready,     \* <<scan, status>> announced on scan.ready
    uncaching  \* <<scan, URL>> deleted by the owner, cache key still to be removed

tables == <<row, ledger, lock, keyLock>>
wvars == <<pc, job, goal, pend, freed>>
outputs == <<cache, ready>>
vars == <<tables, wvars, outputs, queue, uncaching>>

Live(s) == row[s] # None /\ ~row[s].deleted
\* The events of the scan name no user, and neither does its row.
OfCatalog(s) == Owner[s] = NilUser
CreditsOf(u) == {s \in ledger : Owner[s] = u}
Unlimited(u) == Limit[u] = 0

Init ==
    /\ row = [s \in Scans |-> None]
    /\ ledger \in {L \in SUBSET {s \in Scans : ~OfCatalog(s)} :   \* Discovery's reservations
                     \A u \in Users : ~Unlimited(u) =>
                        Cardinality({s \in L : Owner[s] = u}) <= Limit[u]}
    /\ lock = [s \in Scans |-> None]
    /\ keyLock = [s \in Scans |-> None]
    /\ pc = [w \in Workers |-> "idle"]
    /\ job = [w \in Workers |-> None]
    /\ goal = [w \in Workers |-> None]
    /\ pend = [w \in Workers |-> None]
    /\ freed = [w \in Workers |-> FALSE]
    /\ queue = Sent
    /\ cache = [k \in (Users \union {NilUser}) \X Urls |-> None]
    /\ ready = {}
    /\ uncaching = {}

Goto(w, step) == pc' = [pc EXCEPT ![w] = step]

\* Mutant: an error leaves the transaction, and its ledger key, open.
DoneKeepsKey(w) ==
    /\ Goto(w, "idle")
    /\ job' = [job EXCEPT ![w] = None]
    /\ goal' = [goal EXCEPT ![w] = None]
    /\ pend' = [pend EXCEPT ![w] = None]
    /\ freed' = [freed EXCEPT ![w] = FALSE]
    /\ lock' = [s \in Scans |-> IF lock[s] = w THEN None ELSE lock[s]]
    /\ UNCHANGED <<row, ledger, keyLock>>

\* The handler returns; an open transaction is undone.
Done(w) ==
    /\ Goto(w, "idle")
    /\ job' = [job EXCEPT ![w] = None]
    /\ goal' = [goal EXCEPT ![w] = None]
    /\ pend' = [pend EXCEPT ![w] = None]
    /\ freed' = [freed EXCEPT ![w] = FALSE]
    /\ lock' = [s \in Scans |-> IF lock[s] = w THEN None ELSE lock[s]]
    /\ keyLock' = [s \in Scans |-> IF keyLock[s] = w THEN None ELSE keyLock[s]]
    /\ UNCHANGED <<row, ledger>>

Deliver(w, s) ==
    LET e == <<Subject[w], s>>
    IN  /\ pc[w] = "idle"
        /\ queue[e] > 0
        /\ queue' = [queue EXCEPT ![e] = @ - 1]
        /\ job' = [job EXCEPT ![w] = s]
        /\ Goto(w, "status")
        /\ UNCHANGED <<tables, goal, pend, freed, outputs, uncaching>>

CurrentStatus(s) == IF Live(s) THEN row[s].status ELSE Blank
-----------------------------------------------------------------------------
(* scan.started: TLSWriter.OnStarted, one statement per step.              *)

StartStatus(w) ==
    /\ pc[w] = "status" /\ Subject[w] = "started"
    /\ \/ CurrentStatus(job[w]) # Blank /\ Done(w)
       \/ /\ CurrentStatus(job[w]) = Blank
          /\ Goto(w, IF OfCatalog(job[w]) THEN "replaced" ELSE "create")
          /\ UNCHANGED <<tables, job, goal, pend, freed>>
    /\ UNCHANGED <<outputs, queue, uncaching>>

\* defaultAlreadyReplaced: a soft-deleted catalog row is not started again.
StartReplaced(w) ==
    /\ pc[w] = "replaced"
    /\ \/ row[job[w]] # None /\ row[job[w]].deleted /\ Done(w)
       \/ /\ ~(row[job[w]] # None /\ row[job[w]].deleted)
          /\ Goto(w, "create")
          /\ UNCHANGED <<tables, job, goal, pend, freed>>
    /\ UNCHANGED <<outputs, queue, uncaching>>

NewRow(status, columns) ==
    [status |-> status, url |-> columns.url, default |-> columns.default, deleted |-> FALSE]

StartedRow(s) == NewRow("RUNNING", [url |-> Url[s], default |-> OfCatalog(s)])

\* Mutant: the insert overwrites a row that appeared since the status was read.
StartUpsert(w) ==
    /\ pc[w] = "create"
    /\ lock[job[w]] = None
    /\ row' = [row EXCEPT ![job[w]] = StartedRow(job[w])]
    /\ Goto(w, "replace")
    /\ UNCHANGED <<ledger, lock, keyLock, job, goal, pend, freed, outputs, queue, uncaching>>

\* The insert commits by itself; an id that exists is an error.
StartCreate(w) ==
    /\ pc[w] = "create"
    /\ \/ row[job[w]] # None /\ Done(w)
       \/ /\ row[job[w]] = None /\ lock[job[w]] = None
          /\ row' = [row EXCEPT ![job[w]] = StartedRow(job[w])]
          /\ Goto(w, "replace")
          /\ UNCHANGED <<ledger, lock, keyLock, job, goal, pend, freed>>
    /\ UNCHANGED <<outputs, queue, uncaching>>

\* replacePreviousDefault, for catalog scans only: other rows without a user
\* that are now at the scan's URL.  It waits for held rows.
Previous(s) == {t \in Scans \ {s} : Live(t) /\ OfCatalog(t) /\ row[t].url = Url[s]}

StartReplace(w) ==
    /\ pc[w] = "replace"
    /\ LET old == IF OfCatalog(job[w]) THEN Previous(job[w]) ELSE {}
       IN  /\ \A t \in old : lock[t] = None
           /\ row' = [t \in Scans |-> IF t \in old THEN [row[t] EXCEPT !.deleted = TRUE]
                                      ELSE row[t]]
    /\ Goto(w, "idle")
    /\ job' = [job EXCEPT ![w] = None]
    /\ UNCHANGED <<ledger, lock, keyLock, goal, pend, freed, outputs, queue, uncaching>>
-----------------------------------------------------------------------------
(* scan.completed: handleTLSCompleted and commitTLSCompletion.             *)

\* The status is read before the transaction; its error is ignored, which
\* reads as no row.
CompleteStatus(w) ==
    /\ pc[w] = "status" /\ Subject[w] = "completed"
    /\ \E current \in {CurrentStatus(job[w])} \union
                      (IF "status" \in Faults THEN {Blank} ELSE {}) :
         \/ ~ValidTransition(current, "SUCCESS") /\ Done(w)
         \/ /\ ValidTransition(current, "SUCCESS")
            /\ goal' = [goal EXCEPT ![w] = "SUCCESS"]
            /\ Goto(w, IF OfCatalog(job[w]) THEN "update" ELSE "has")
            /\ UNCHANGED <<tables, job, pend, freed>>
    /\ UNCHANGED <<outputs, queue, uncaching>>

\* confirmExistingUsageOrAcquire, first read.
HasUsage(w) ==
    /\ pc[w] = "has"
    /\ Goto(w, IF job[w] \in ledger THEN "update"
               ELSE IF Unlimited(Owner[job[w]]) THEN "reserve" ELSE "count")
    /\ UNCHANGED <<tables, job, goal, pend, freed, outputs, queue, uncaching>>

\* Mutant: the limit itself still counts as room.
CountOffByOne(w) ==
    /\ pc[w] = "count"
    /\ LET u == Owner[job[w]]
       IN  Goto(w, IF Cardinality(CreditsOf(u)) <= Limit[u] THEN "reserve" ELSE "recheck")
    /\ UNCHANGED <<tables, job, goal, pend, freed, outputs, queue, uncaching>>

\* The count inside RecordSuccessUsageIfUnderLimitInTx's INSERT ... SELECT: it
\* sees what was committed when the statement began.
CountUsage(w) ==
    /\ pc[w] = "count"
    /\ LET u == Owner[job[w]]
       IN  Goto(w, IF Cardinality(CreditsOf(u)) < Limit[u] THEN "reserve" ELSE "recheck")
    /\ UNCHANGED <<tables, job, goal, pend, freed, outputs, queue, uncaching>>

\* An open transaction has deleted the ledger row of s.
Freeing(s) == \E w \in Workers : freed[w] /\ job[w] = s

\* The insert itself, ON CONFLICT (scan_id) DO NOTHING: it waits for another
\* open insert or delete of the same ledger row.
ReserveUsage(w) ==
    /\ pc[w] = "reserve"
    /\ keyLock[job[w]] = None /\ ~Freeing(job[w])
    /\ \/ /\ job[w] \notin ledger
          /\ keyLock' = [keyLock EXCEPT ![job[w]] = w]
          /\ Goto(w, "update")
       \/ /\ job[w] \in ledger
          /\ Goto(w, IF Unlimited(Owner[job[w]]) THEN "update" ELSE "recheck")
          /\ UNCHANGED keyLock
    /\ UNCHANGED <<row, ledger, lock, job, goal, pend, freed, outputs, queue, uncaching>>

RecheckUsage(w) ==
    /\ pc[w] = "recheck"
    /\ goal' = [goal EXCEPT ![w] = IF job[w] \in ledger THEN "SUCCESS" ELSE "LIMIT"]
    /\ Goto(w, "update")
    /\ UNCHANGED <<tables, job, pend, freed, outputs, queue, uncaching>>
-----------------------------------------------------------------------------
(* scan.failed: handleTLSFailed reads the status before its transaction.   *)
FailStatus(w) ==
    /\ pc[w] = "status" /\ Subject[w] = "failed"
    /\ LET current == CurrentStatus(job[w])
       IN  \/ current # Blank /\ ~ValidTransition(current, "FAILED") /\ Done(w)
           \/ /\ current = Blank \/ ValidTransition(current, "FAILED")
              /\ goal' = [goal EXCEPT ![w] = "FAILED"]
              /\ Goto(w, "update")
              /\ UNCHANGED <<tables, job, pend, freed>>
    /\ UNCHANGED <<outputs, queue, uncaching>>
-----------------------------------------------------------------------------
(* OnCompletedInTx, OnPlanLimitExceededInTx, OnFailedInTx: an update by id *)
(* that does not look at the status, or an insert when no row was updated. *)

\* Mutant: a refused credit is stored under a status of its own.
WrittenGoal(w) == goal[w]

WrittenStatus(w) == IF goal[w] = "SUCCESS" THEN "SUCCESS" ELSE "FAILED"

\* Mutant: a failure does not give the credit back.
AfterWriteCommit(w) == Goto(w, "commit")

AfterWrite(w) == Goto(w, IF goal[w] = "FAILED" THEN "release" ELSE "commit")

\* Mutant: a completed row is not marked as a default one.
UserColumns(w, columns) ==
    IF goal[w] = "SUCCESS" THEN [url |-> Result[job[w]].url, default |-> FALSE] ELSE columns

\* A completion writes every column, url and default too, from the result that
\* came with the event; a failure and a refused credit leave these two alone.
WrittenColumns(w, columns) == IF goal[w] = "SUCCESS" THEN Result[job[w]] ELSE columns

UpdateRow(w) ==
    /\ pc[w] = "update"
    /\ \/ /\ Live(job[w]) /\ lock[job[w]] = None
          /\ lock' = [lock EXCEPT ![job[w]] = w]
          /\ pend' = [pend EXCEPT ![w] =
                        NewRow(WrittenStatus(w), WrittenColumns(w, row[job[w]]))]
          /\ AfterWrite(w)
       \/ ~Live(job[w]) /\ Goto(w, "insert") /\ UNCHANGED <<lock, pend>>
    /\ UNCHANGED <<row, ledger, keyLock, job, goal, freed, outputs, queue, uncaching>>

\* A row inserted for a failure or a refused credit is not a default row.
FailureColumns(s) == [url |-> Url[s], default |-> FALSE]

InsertRow(w) ==
    /\ pc[w] = "insert"
    /\ \/ row[job[w]] # None /\ Done(w)
       \/ /\ row[job[w]] = None /\ lock[job[w]] = None
          /\ lock' = [lock EXCEPT ![job[w]] = w]
          /\ pend' = [pend EXCEPT ![w] =
                        NewRow(WrittenStatus(w), WrittenColumns(w, FailureColumns(job[w])))]
          /\ AfterWrite(w)
          /\ UNCHANGED <<row, ledger, keyLock, job, goal, freed>>
    /\ UNCHANGED <<outputs, queue, uncaching>>

\* ReleaseSuccessUsageByScanIDInTx deletes a committed ledger row.
ReleaseUsage(w) ==
    /\ pc[w] = "release"
    /\ freed' = [freed EXCEPT ![w] = job[w] \in ledger]
    /\ Goto(w, "commit")
    /\ UNCHANGED <<tables, job, goal, pend, outputs, queue, uncaching>>

Commit(w) ==
    /\ pc[w] = "commit"
    /\ row' = [row EXCEPT ![job[w]] = pend[w]]
    /\ ledger' = (ledger \union {s \in Scans : keyLock[s] = w})
                   \ (IF freed[w] THEN {job[w]} ELSE {})
    /\ lock' = [s \in Scans |-> IF lock[s] = w THEN None ELSE lock[s]]
    /\ keyLock' = [s \in Scans |-> IF keyLock[s] = w THEN None ELSE keyLock[s]]
    /\ pend' = [pend EXCEPT ![w] = None]
    /\ freed' = [freed EXCEPT ![w] = FALSE]
    /\ Goto(w, IF goal[w] = "LIMIT" THEN "publish" ELSE "redis")
    /\ UNCHANGED <<job, goal, outputs, queue, uncaching>>

\* Mutant: everything scan.completed stored is announced as a success.
ReadyUnlessFailed(w) == IF goal[w] = "FAILED" THEN "failed" ELSE "success"

ReadyStatus(w) == IF goal[w] = "SUCCESS" THEN "success" ELSE "failed"

SaveCache(w) ==
    /\ pc[w] = "redis"
    /\ cache' = [cache EXCEPT ![<<Owner[job[w]], Url[job[w]]>>] = <<job[w], ReadyStatus(w)>>]
    /\ Goto(w, "publish")
    /\ UNCHANGED <<tables, job, goal, pend, freed, ready, queue, uncaching>>

\* Mutant: a failure is stored and not announced.
PublishSuccesses(w) ==
    /\ pc[w] = "publish"
    /\ ready' = IF goal[w] = "SUCCESS" THEN ready \union {<<job[w], "success">>} ELSE ready
    /\ Done(w)
    /\ UNCHANGED <<cache, queue, uncaching>>

PublishScanReady(w) ==
    /\ pc[w] = "publish"
    /\ ready' = ready \union {<<job[w], ReadyStatus(w)>>}
    /\ Done(w)
    /\ UNCHANGED <<cache, queue, uncaching>>

Step(w) ==
    \/ StartStatus(w) \/ StartReplaced(w) \/ StartCreate(w) \/ StartReplace(w)
    \/ CompleteStatus(w) \/ HasUsage(w) \/ CountUsage(w) \/ ReserveUsage(w) \/ RecheckUsage(w)
    \/ FailStatus(w) \/ UpdateRow(w) \/ InsertRow(w) \/ ReleaseUsage(w) \/ Commit(w)
    \/ SaveCache(w) \/ PublishScanReady(w)
-----------------------------------------------------------------------------
\* A failed statement, an unanswered commit, a Redis or publish error or a
\* crash: the handler stops where it is and the event is not redelivered.
GiveUp(w) ==
    /\ "fail" \in Faults
    /\ pc[w] # "idle"
    /\ Done(w)
    /\ UNCHANGED <<outputs, queue, uncaching>>

\* NATS drops an event that no subscriber takes.
Lose(e) ==
    /\ "loss" \in Faults
    /\ queue[e] > 0
    /\ queue' = [queue EXCEPT ![e] = @ - 1]
    /\ UNCHANGED <<tables, wvars, outputs, uncaching>>

\* DELETE /tls/scans/{scan_id}: the owner's non-default row, then the cache key
\* of the URL that was read just before, which a completion may have replaced.
DeleteTLSScan(s) ==
    /\ Live(s) /\ ~OfCatalog(s) /\ ~row[s].default
    /\ lock[s] = None
    /\ row' = [row EXCEPT ![s].deleted = TRUE]
    /\ \E url \in {row[s].url, Url[s]} :
         uncaching' = IF url = Blank THEN uncaching ELSE uncaching \union {<<s, url>>}
    /\ UNCHANGED <<ledger, lock, keyLock, wvars, outputs, queue>>

DeleteTLSCache(e) ==
    /\ e \in uncaching
    /\ cache' = [cache EXCEPT ![<<Owner[e[1]], e[2]>>] = None]
    /\ uncaching' = uncaching \ {e}
    /\ UNCHANGED <<tables, wvars, ready, queue>>

Next ==
    \/ \E w \in Workers, s \in Scans : Deliver(w, s)
    \/ \E w \in Workers : Step(w)
    \/ \E w \in Workers : GiveUp(w)
    \/ \E e \in Events : Lose(e)
    \/ \E s \in Scans : DeleteTLSScan(s)
    \/ \E e \in Scans \X Urls : DeleteTLSCache(e)

Spec == Init /\ [][Next]_vars

\* Callbacks run, an idle subscription takes what is queued, and a waiting
\* statement gets its lock in turn.
FairSpec ==
    /\ Spec
    /\ \A w \in Workers : WF_vars(Step(w)) /\ WF_vars(\E s \in Scans : Deliver(w, s))
    /\ \A w \in Workers : SF_vars(UpdateRow(w) \/ InsertRow(w) \/ ReserveUsage(w)
                                  \/ StartCreate(w) \/ StartReplace(w))
-----------------------------------------------------------------------------
Steps == {"idle", "status", "replaced", "create", "replace", "has", "count", "reserve",
          "recheck", "update", "insert", "release", "commit", "redis", "publish"}

\* Every table, worker and output holds values of its type.
TypeOK ==
    /\ row \in [Scans -> Row \union {None}]
    /\ ledger \subseteq Scans
    /\ lock \in [Scans -> Workers \union {None}]
    /\ keyLock \in [Scans -> Workers \union {None}]
    /\ pc \in [Workers -> Steps]
    /\ job \in [Workers -> Scans \union {None}]
    /\ goal \in [Workers -> {"SUCCESS", "FAILED", "LIMIT", None}]
    /\ pend \in [Workers -> Row \union {None}]
    /\ freed \in [Workers -> BOOLEAN]
    /\ queue \in [Events -> Nat]
    /\ cache \in [(Users \union {NilUser}) \X Urls ->
                     (Scans \X {"success", "failed"}) \union {None}]
    /\ ready \subseteq Scans \X {"success", "failed"}
    /\ uncaching \subseteq Scans \X Urls

\* A terminal status never changes again (state.go: "Disallowed: terminal ->
\* anything"), although the handlers check it before they open a transaction
\* and their update does not look at it.
TerminalFinal ==
    [][\A s \in Scans : row[s] # None /\ IsTerminal(row[s].status) =>
          row'[s].status = row[s].status]_vars

\* A user's committed SUCCESS holds a credit and a committed FAILED does not
\* (scan_usage_event.go: completion keeps the row, a failure deletes it).
CreditForOutcome ==
    \A s \in Scans : row[s] # None /\ ~OfCatalog(s) =>
        /\ row[s].status = "SUCCESS" => s \in ledger
        /\ row[s].status = "FAILED"  => s \notin ledger

\* A limited plan never holds more credits than its limit
\* (RecordSuccessUsageIfUnderLimitInTx "atomically inserts when ledger count
\* < limit").
QuotaRespected ==
    \A u \in Users : ~Unlimited(u) => Cardinality(CreditsOf(u)) <= Limit[u]

\* FindAllDefault lists a row for the URL, whoever it belongs to.
Catalogued(u) == \E s \in Scans : Live(s) /\ row[s].default /\ row[s].url = u

\* URLs whose catalog scans have results that repeat the url and default = true.
EchoedUrls ==
    {u \in Urls : \A s \in Scans : OfCatalog(s) /\ Url[s] = u =>
                      Result[s] = [url |-> u, default |-> TRUE]}

\* A URL that the catalog lists stays listed while catalog scans replace each
\* other (replacePreviousDefault "drops earlier catalog rows for this URL"), and
\* while outcomes of these and of users' scans rewrite url and default of their
\* rows, as long as its own results name it.
CatalogKept == [][\A u \in EchoedUrls : Catalogued(u) => Catalogued(u)']_vars

Quiet == (\A w \in Workers : pc[w] = "idle") /\ (\A e \in Events : queue[e] = 0)

\* "no row yet, will insert": once every event is handled without a fault, a
\* scan whose scan.completed was sent has left RUNNING.
CompletionStored ==
    Quiet => \A s \in Scans : Sent[<<"completed", s>>] > 0 =>
        row[s] # None /\ (row[s].deleted \/ IsTerminal(row[s].status))

\* Once every event is handled and no step failed, the outcome a scan ended
\* with was announced, also when its handlers overwrote each other's outcome.
\* A Redis error after the commit ends the handler and nothing retries it.
OutcomeAnnounced ==
    Quiet => \A s \in Scans : row[s] # None /\ IsTerminal(row[s].status) =>
        <<s, IF row[s].status = "SUCCESS" THEN "success" ELSE "failed">> \in ready

\* scan.ready says what is stored: it is published after the commit, by a
\* handler that no longer looks at the row.
ReadyTruth ==
    \A e \in ready : /\ row[e[1]] # None
                     /\ row[e[1]].status = IF e[2] = "success" THEN "SUCCESS" ELSE "FAILED"

\* The committed tables, read as the abstract lifecycle.
StateOf == [s \in Scans |-> IF row[s] = None THEN "PENDING" ELSE row[s].status]
Gone == {s \in Scans : row[s] # None /\ row[s].deleted}

Abstract == INSTANCE TlsScan WITH state <- StateOf, gone <- Gone, credit <- ledger

\* Events in any order, lost or failing half-way, and deletes show the tables
\* moving only by TlsScan's atomic steps, as long as a scan is sent one outcome.
ImplementsTlsScan == Abstract!TSSpec

\* Every event is consumed and every handler returns: waits for rows and for
\* ledger keys never form a cycle.
Drains == <>[]Quiet
=============================================================================
