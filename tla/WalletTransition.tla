-------------------------- MODULE WalletTransition --------------------------
(***************************************************************************)
(* POST /wallets/scans/{scan_id}/transition and DELETE /wallets/scans/     *)
(* {scan_id}: concurrent HTTP handlers that apply Discovery's commands to  *)
(* one Postgres row per scan, settle the credit ledger in the same         *)
(* transaction, and then project a terminal row to Redis and to NATS.      *)
(*                                                                         *)
(* Postgres runs at READ COMMITTED, so every SQL statement is one action:  *)
(* it reads the committed tables, and a statement that writes a row waits  *)
(* for the transaction that holds that row.  What a transaction has        *)
(* written but not committed is `pend`; nobody else sees it.               *)
(***************************************************************************)
EXTENDS ScanState

CONSTANTS
    Scans, Users, Addresses, Tids,
    Spellings,         \* addresses as callers write them
    RawTids,           \* transition ids as callers write them
    NormalizeAddress,  \* Spellings -> Addresses, or Blank
    TrimId,            \* RawTids -> Tids, or Blank
    Bodies,            \* decoded request bodies Discovery may send
    LegacyRows,        \* rows written before transition ids existed
    Handlers, Deleters,
    Faults,            \* which of FaultKinds the environment may produce
    None

FaultKinds == {"tx", "commit", "cache", "publish", "crash"}

Row == [status : StoredStates, tid : Tids \union {None}, user : Users,
        addr : Addresses, deleted : BOOLEAN]

Targets == {"RUNNING", "SUCCESS", "FAILED"}

QuotaActions == {"none", "keep", "release"}

Command == [scan : Scans, tid : Tids, user : Users, addr : Addresses,
            sources : SUBSET StoredStates, target : Targets,
            quota : QuotaActions]

Body == [scan : Scans, header : Users, user : Users \union {None},
         address : Spellings, tid : RawTids,
         sources : SUBSET (StoredStates \union {None}),
         target : States, quota : QuotaActions,
         result : Spellings \union {None}, error : {None, Blank, "text"}]

Owners == Users \X Addresses

ASSUME ConstantsAssumption ==
    /\ NormalizeAddress \in [Spellings -> Addresses \union {Blank}]
    /\ TrimId \in [RawTids -> Tids \union {Blank}]
    /\ Blank \notin Addresses /\ Blank \notin Tids
    /\ Bodies \subseteq Body
    /\ LegacyRows \subseteq Row
    /\ \A r \in LegacyRows : r.tid = None /\ r.status \notin {"SUCCESS", "FAILED"}
    /\ Faults \subseteq FaultKinds

ASSUME NoneAssumption ==
    /\ None \notin Row /\ None \notin Command /\ None \notin Handlers
    /\ None \notin Tids /\ None \notin Users /\ None \notin StoredStates

VARIABLES
    row,       \* scan_results, committed: the row of each scan id or None
    ledger,    \* scan_usage_events, committed: scan ids that hold a credit
    lock,      \* the transaction that has inserted or updated the row
    pc, req, ent, pend, res,   \* each handler: step, command, row read,
                               \* uncommitted row, Result
    dpc, dreq, \* each delete handler: step, [user, scan, addr]
    cache,     \* Redis, by owner and address
    ready,     \* discovery.scan.ready events published so far
    observed   \* scans whose wallet.observed was published

db == <<row, ledger, lock>>
hvars == <<pc, req, ent, pend, res>>
dvars == <<dpc, dreq>>
projections == <<cache, ready, observed>>
vars == <<db, hvars, dvars, projections>>

-----------------------------------------------------------------------------
(* transitionCommand: which decoded bodies become a command.               *)

QuotaForTarget(target) ==
    CASE target = "RUNNING" -> "none"
      [] target = "SUCCESS" -> "keep"
      [] target = "FAILED"  -> "release"
      [] OTHER -> None

\* Mutant: sources are passed on unchecked.
UnknownSources(sources) == TRUE

KnownSources(sources) == sources # {} /\ sources \subseteq StoredStates

\* RUNNING carries nothing, SUCCESS a result for the same address, FAILED a
\* non-blank error.
PayloadMatches(b) ==
    \/ b.target = "RUNNING" /\ b.result = None /\ b.error = None
    \/ /\ b.target = "SUCCESS" /\ b.error = None /\ b.result # None
       /\ NormalizeAddress[b.result] = NormalizeAddress[b.address]
    \/ b.target = "FAILED" /\ b.result = None /\ b.error \notin {None, Blank}

ValidBody(b) ==
    /\ b.user # None /\ b.user = b.header
    /\ NormalizeAddress[b.address] # Blank
    /\ TrimId[b.tid] # Blank
    /\ KnownSources(b.sources)
    /\ b.quota = QuotaForTarget(b.target)
    /\ PayloadMatches(b)

TransitionCommand(b) ==
    [scan |-> b.scan, tid |-> TrimId[b.tid], user |-> b.user,
     addr |-> NormalizeAddress[b.address], sources |-> b.sources,
     target |-> b.target, quota |-> b.quota]

-----------------------------------------------------------------------------
(* Operators on one row and one command.                                   *)

NewRow(cmd) ==
    [status |-> cmd.target, tid |-> cmd.tid, user |-> cmd.user,
     addr |-> cmd.addr, deleted |-> FALSE]

SameTransition(r, tid) == r.tid = tid

\* Mutant: the update is by id alone.
AnyStatus(status, sources) == TRUE

\* The WHERE clause on status: PENDING also matches an empty status.
SourceScope(status, sources) ==
    \/ status # Blank /\ status \in sources
    \/ status = Blank /\ "PENDING" \in sources

Classify(r, cmd) ==
    LET status == Logical(r.status)
    IN  [outcome |-> IF cmd.target = "RUNNING" /\ status = "RUNNING"
                       THEN "already_running"
                     ELSE IF IsTerminal(status) THEN "already_terminal"
                     ELSE "rejected",
         status |-> status, row |-> None]

Retryable == [outcome |-> "retryable_error", status |-> Blank, row |-> None]
Rejected(status) == [outcome |-> "rejected", status |-> status, row |-> None]

WithRow(outcome, r) ==
    LET stored == [r EXCEPT !.status = Logical(@)]
    IN  [outcome |-> outcome, status |-> stored.status, row |-> stored]

\* Mutant: the read is Unscoped.
FindDeleted(s) == row[s]

\* gorm First: soft-deleted rows are not found.
Find(s) == IF row[s] # None /\ ~row[s].deleted THEN row[s] ELSE None

-----------------------------------------------------------------------------
Init ==
    /\ row \in [Scans -> LegacyRows \union {None}]
    /\ ledger \in SUBSET Scans      \* Discovery reserves before it dispatches
    /\ lock = [s \in Scans |-> None]
    /\ pc = [h \in Handlers |-> "idle"]
    /\ req = [h \in Handlers |-> None]
    /\ ent = [h \in Handlers |-> None]
    /\ pend = [h \in Handlers |-> None]
    /\ res = [h \in Handlers |-> None]
    /\ dpc = [d \in Deleters |-> "idle"]
    /\ dreq = [d \in Deleters |-> None]
    /\ cache = [o \in Owners |-> None]
    /\ ready = {}
    /\ observed = {}

Goto(h, step) == pc' = [pc EXCEPT ![h] = step]
Answer(h, r) == res' = [res EXCEPT ![h] = r]

\* The transaction ends without a write of its own; it still has to commit.
Stop(h, r) == Goto(h, "commit") /\ Answer(h, r)

\* Mutant: the result is answered although the transaction was undone.
RollbackAnswers(h) ==
    /\ Goto(h, "respond")
    /\ Answer(h, IF res[h] = None THEN Retryable ELSE res[h])
    /\ pend' = [pend EXCEPT ![h] = None]
    /\ lock' = [s \in Scans |-> IF lock[s] = h THEN None ELSE lock[s]]
    /\ UNCHANGED <<row, ledger, req, ent>>

\* The transaction function returns an error: Apply answers retryable_error.
Rollback(h) ==
    /\ Goto(h, "respond")
    /\ Answer(h, Retryable)
    /\ pend' = [pend EXCEPT ![h] = None]
    /\ lock' = [s \in Scans |-> IF lock[s] = h THEN None ELSE lock[s]]
    /\ UNCHANGED <<row, ledger, req, ent>>

\* A handler goes back to waiting for a request.
Release(h) ==
    /\ Goto(h, "idle")
    /\ req' = [req EXCEPT ![h] = None]
    /\ ent' = [ent EXCEPT ![h] = None]
    /\ pend' = [pend EXCEPT ![h] = None]
    /\ res' = [res EXCEPT ![h] = None]
-----------------------------------------------------------------------------
(* The transition handler.                                                 *)

Receive(h, b) ==
    /\ pc[h] = "idle"
    /\ \/ /\ ValidBody(b)
          /\ req' = [req EXCEPT ![h] = TransitionCommand(b)]
          /\ Goto(h, "first")
          /\ UNCHANGED res
       \/ /\ ~ValidBody(b)
          /\ Goto(h, "respond")
          /\ Answer(h, Rejected(Blank))
          /\ UNCHANGED req
    /\ UNCHANGED <<db, ent, pend, dvars, projections>>

\* applyExisting up to prepareQuota, on the row r just read.
Qualify(h, r) ==
    /\ ent' = [ent EXCEPT ![h] = r]
    /\ \/ /\ SameTransition(r, req[h].tid)
          /\ Stop(h, WithRow("already_applied", r))
       \/ /\ ~SameTransition(r, req[h].tid)
          /\ Logical(r.status) \notin req[h].sources
          /\ Stop(h, Classify(r, req[h]))
       \/ /\ ~SameTransition(r, req[h].tid)
          /\ Logical(r.status) \in req[h].sources
          /\ Goto(h, "prepare")
          /\ UNCHANGED res

\* applyTx's read, and applyMissing up to prepareQuota.
FirstRead(h) ==
    /\ pc[h] = "first"
    /\ LET r == Find(req[h].scan)
       IN  \/ r # None /\ Qualify(h, r)
           \/ /\ r = None /\ "PENDING" \notin req[h].sources
              /\ Stop(h, Rejected("PENDING"))
              /\ UNCHANGED ent
           \/ /\ r = None /\ "PENDING" \in req[h].sources
              /\ Goto(h, "prepare")
              /\ UNCHANGED <<ent, res>>
    /\ UNCHANGED <<db, req, pend, dvars, projections>>

PrepareQuota(h) ==
    /\ pc[h] = "prepare"
    /\ \/ /\ req[h].quota = "keep" /\ req[h].scan \notin ledger
          /\ Stop(h, Retryable)
       \/ /\ req[h].quota # "keep" \/ req[h].scan \in ledger
          /\ Goto(h, IF ent[h] = None THEN "insert" ELSE "write")
          /\ UNCHANGED res
    /\ UNCHANGED <<db, req, ent, pend, dvars, projections>>

TakeRow(h) ==
    /\ lock' = [lock EXCEPT ![req[h].scan] = h]
    /\ pend' = [pend EXCEPT ![h] = NewRow(req[h])]
    /\ Goto(h, "finish")

\* Mutant: ON CONFLICT (id) DO UPDATE.
InsertUpserts(h) ==
    /\ pc[h] = "insert"
    /\ lock[req[h].scan] = None
    /\ TakeRow(h)
    /\ UNCHANGED <<row, ledger, req, ent, res, dvars, projections>>

\* INSERT ... ON CONFLICT (id) DO NOTHING: waits for an uncommitted insert of
\* the same id; a committed row, soft-deleted or not, is a conflict.
Insert(h) ==
    /\ pc[h] = "insert"
    /\ \/ row[req[h].scan] = None /\ lock[req[h].scan] = None /\ TakeRow(h)
       \/ row[req[h].scan] # None /\ Goto(h, "winner") /\ UNCHANGED <<lock, pend>>
    /\ UNCHANGED <<row, ledger, req, ent, res, dvars, projections>>

ReadWinner(h) ==
    /\ pc[h] = "winner"
    /\ LET r == Find(req[h].scan)
       IN  \/ r # None /\ Qualify(h, r) /\ UNCHANGED <<db, req, pend>>
           \/ r = None /\ Rollback(h)
    /\ UNCHANGED <<dvars, projections>>

\* UPDATE ... WHERE id AND status in sources AND deleted_at IS NULL: waits for
\* the holder of a row that matches, and looks at the row again after it.
WriteScoped(h, onNone) ==
    LET s == req[h].scan
        matches == Find(s) # None /\ SourceScope(Find(s).status, req[h].sources)
    IN  \/ matches /\ lock[s] = None /\ TakeRow(h)
        \/ ~matches /\ Goto(h, onNone) /\ UNCHANGED <<lock, pend>>

Write(h) ==
    /\ pc[h] = "write"
    /\ WriteScoped(h, "again")
    /\ UNCHANGED <<row, ledger, req, ent, res, dvars, projections>>

ReadAgain(h) ==
    /\ pc[h] = "again"
    /\ LET again == Find(req[h].scan)
           lost == \/ SameTransition(again, req[h].tid)
                   \/ Logical(again.status) \notin req[h].sources
       IN  \/ again = None /\ Rollback(h)
           \/ /\ again # None /\ lost
              /\ Stop(h, Classify(again, req[h]))
              /\ UNCHANGED <<db, req, ent, pend>>
           \/ /\ again # None /\ ~lost
              /\ ent' = [ent EXCEPT ![h] = again]
              /\ Goto(h, "rewrite")
              /\ UNCHANGED <<db, req, pend, res>>
    /\ UNCHANGED <<dvars, projections>>

Rewrite(h) ==
    /\ pc[h] = "rewrite"
    /\ WriteScoped(h, "last")
    /\ UNCHANGED <<row, ledger, req, ent, res, dvars, projections>>

\* The read after a second miss ignores its error and keeps the earlier row.
ReadLast(h) ==
    /\ pc[h] = "last"
    /\ LET r == Find(req[h].scan)
       IN  Stop(h, Classify(IF r = None THEN ent[h] ELSE r, req[h]))
    /\ UNCHANGED <<db, req, ent, pend, dvars, projections>>

\* finishQuota and reload.  A keep without its credit undoes the write; a
\* release deletes the ledger row, which others see once it is committed.
FinishQuota(h) ==
    /\ pc[h] = "finish"
    /\ \/ req[h].quota = "keep" /\ req[h].scan \notin ledger /\ Rollback(h)
       \/ /\ req[h].quota # "keep" \/ req[h].scan \in ledger
          /\ Goto(h, "commit")
          /\ Answer(h, WithRow("applied", pend[h]))
          /\ UNCHANGED <<db, req, ent, pend>>
    /\ UNCHANGED <<dvars, projections>>

\* Mutant: a failure does not give the credit back.
InstallKeepsCredit(h) ==
    /\ row' = IF pend[h] = None THEN row ELSE [row EXCEPT ![req[h].scan] = pend[h]]
    /\ lock' = [t \in Scans |-> IF lock[t] = h THEN None ELSE lock[t]]
    /\ pend' = [pend EXCEPT ![h] = None]
    /\ UNCHANGED ledger

\* Mutant: the transaction stays open after its last statement.
InstallKeepsLock(h) ==
    /\ pend' = [pend EXCEPT ![h] = None]
    /\ UNCHANGED db

\* COMMIT publishes the row and the ledger change together.
Install(h) ==
    LET s == req[h].scan
    IN  /\ row' = IF pend[h] = None THEN row ELSE [row EXCEPT ![s] = pend[h]]
        /\ ledger' = IF pend[h] # None /\ req[h].quota = "release"
                       THEN ledger \ {s} ELSE ledger
        /\ lock' = [t \in Scans |-> IF lock[t] = h THEN None ELSE lock[t]]
        /\ pend' = [pend EXCEPT ![h] = None]

\* Mutant: a repeated command is answered without projecting again.
ProjectsApplied(r) == r.outcome = "applied" /\ r.row # None /\ IsTerminal(r.row.status)

\* projectTransition: only applied and already_applied terminal rows go on.
Projects(r) ==
    /\ r.outcome \in {"applied", "already_applied"}
    /\ r.row # None
    /\ IsTerminal(r.row.status)

Commit(h) ==
    /\ pc[h] = "commit"
    /\ Install(h)
    /\ Goto(h, IF Projects(res[h]) THEN "project" ELSE "respond")
    /\ UNCHANGED <<req, ent, res, dvars, projections>>

ReadyStatus(status) == IF status = "SUCCESS" THEN "success" ELSE "failed"

\* SaveWalletScan or SaveWalletFailure; an error ends the projection.
SaveCache(h) ==
    /\ pc[h] = "project"
    /\ LET r == res[h].row
       IN  cache' = [cache EXCEPT ![<<r.user, r.addr>>] =
                        [scan |-> req[h].scan, status |-> ReadyStatus(r.status)]]
    /\ Goto(h, "ready")
    /\ UNCHANGED <<db, req, ent, pend, res, dvars, ready, observed>>

AfterReady(h) == Goto(h, IF IsSuccess(res[h].row.status) THEN "observe" ELSE "respond")

PublishScanReady(h) ==
    /\ pc[h] = "ready"
    /\ LET r == res[h].row
       IN  ready' = ready \union {[scan |-> req[h].scan, user |-> r.user, addr |-> r.addr,
                                   status |-> ReadyStatus(r.status)]}
    /\ AfterReady(h)
    /\ UNCHANGED <<db, req, ent, pend, res, dvars, cache, observed>>

\* An export that does not validate is skipped, with or without a log line.
PublishWalletObserved(h) ==
    /\ pc[h] = "observe"
    /\ \E sent \in {{}, {req[h].scan}} : observed' = observed \union sent
    /\ Goto(h, "respond")
    /\ UNCHANGED <<db, req, ent, pend, res, dvars, cache, ready>>

Respond(h) ==
    /\ pc[h] = "respond"
    /\ Release(h)
    /\ UNCHANGED <<db, dvars, projections>>

\* What a request does on its own once it was received.
Step(h) ==
    \/ FirstRead(h) \/ PrepareQuota(h) \/ Insert(h) \/ ReadWinner(h)
    \/ Write(h) \/ ReadAgain(h) \/ Rewrite(h) \/ ReadLast(h)
    \/ FinishQuota(h) \/ Commit(h)
    \/ SaveCache(h) \/ PublishScanReady(h) \/ PublishWalletObserved(h)
    \/ Respond(h)
-----------------------------------------------------------------------------
(* What the environment may do to a transition handler.                    *)

InTx == {"first", "prepare", "insert", "winner", "write", "again", "rewrite",
         "last", "finish", "commit"}

\* A statement or the commit fails, and the transaction is undone.
TxFail(h) ==
    /\ "tx" \in Faults
    /\ pc[h] \in InTx
    /\ Rollback(h)
    /\ UNCHANGED <<dvars, projections>>

\* The commit reached Postgres and its acknowledgement was lost.
CommitUnacknowledged(h) ==
    /\ "commit" \in Faults
    /\ pc[h] = "commit"
    /\ Install(h)
    /\ Goto(h, "respond")
    /\ Answer(h, Retryable)
    /\ UNCHANGED <<req, ent, dvars, projections>>

CacheFail(h) ==
    /\ "cache" \in Faults
    /\ pc[h] = "project"
    /\ Goto(h, "respond")
    /\ UNCHANGED <<db, req, ent, pend, res, dvars, projections>>

PublishFail(h) ==
    /\ "publish" \in Faults
    /\ pc[h] = "ready"
    /\ AfterReady(h)
    /\ UNCHANGED <<db, req, ent, pend, res, dvars, projections>>

\* The process dies: Postgres undoes the open transaction, nobody is answered.
Crash(h) ==
    /\ "crash" \in Faults
    /\ pc[h] # "idle"
    /\ Release(h)
    /\ lock' = [s \in Scans |-> IF lock[s] = h THEN None ELSE lock[s]]
    /\ UNCHANGED <<row, ledger, dvars, projections>>

-----------------------------------------------------------------------------
(* DELETE /wallets/scans/{scan_id}.                                        *)

DGoto(d, step) == dpc' = [dpc EXCEPT ![d] = step]

\* FindOwnedWalletScanByID; a miss is a 404 that changes nothing.
DeleteFind(d, u, s) ==
    /\ dpc[d] = "idle"
    /\ Find(s) # None /\ Find(s).user = u
    /\ dreq' = [dreq EXCEPT ![d] = [user |-> u, scan |-> s, addr |-> Find(s).addr]]
    /\ DGoto(d, "delete")
    /\ UNCHANGED <<db, hvars, projections>>

DeleteDone(d) == DGoto(d, "idle") /\ dreq' = [dreq EXCEPT ![d] = None]

\* DeleteOwnedWalletScan soft-deletes; it waits for the holder of the row.
DeleteRow(d) ==
    /\ dpc[d] = "delete"
    /\ LET s == dreq[d].scan
           matches == Find(s) # None /\ Find(s).user = dreq[d].user
       IN  \/ /\ matches /\ lock[s] = None
              /\ row' = [row EXCEPT ![s].deleted = TRUE]
              /\ DGoto(d, "list")
              /\ UNCHANGED dreq
           \/ ~matches /\ DeleteDone(d) /\ UNCHANGED row
    /\ UNCHANGED <<ledger, lock, hvars, projections>>

LiveRows(u, a) ==
    {s \in Scans : Find(s) # None /\ Find(s).user = u /\ Find(s).addr = a}

\* ListOwnerWalletScansByAddress: the cache is kept while a row remains.
DeleteList(d) ==
    /\ dpc[d] = "list"
    /\ \/ LiveRows(dreq[d].user, dreq[d].addr) = {} /\ DGoto(d, "uncache") /\ UNCHANGED dreq
       \/ LiveRows(dreq[d].user, dreq[d].addr) # {} /\ DeleteDone(d)
    /\ UNCHANGED <<db, hvars, projections>>

DeleteCache(d) ==
    /\ dpc[d] = "uncache"
    /\ cache' = [cache EXCEPT ![<<dreq[d].user, dreq[d].addr>>] = None]
    /\ DeleteDone(d)
    /\ UNCHANGED <<db, hvars, ready, observed>>

\* A database error answers 503, a Redis error is ignored, a crash is silent.
DeleteFail(d) ==
    /\ \/ dpc[d] \in {"delete", "list"} /\ "tx" \in Faults
       \/ dpc[d] = "uncache" /\ "cache" \in Faults
       \/ dpc[d] # "idle" /\ "crash" \in Faults
    /\ DeleteDone(d)
    /\ UNCHANGED <<db, hvars, projections>>

DeleteStep(d) == DeleteRow(d) \/ DeleteList(d) \/ DeleteCache(d)

\* The 30-minute TTL of a cached result.
Expire(o) ==
    /\ cache[o] # None
    /\ cache' = [cache EXCEPT ![o] = None]
    /\ UNCHANGED <<db, hvars, dvars, ready, observed>>

-----------------------------------------------------------------------------
Fault(h) == TxFail(h) \/ CommitUnacknowledged(h) \/ CacheFail(h) \/ PublishFail(h) \/ Crash(h)

Next ==
    \/ \E h \in Handlers, b \in Bodies : Receive(h, b)
    \/ \E h \in Handlers : Step(h)
    \/ \E h \in Handlers : Fault(h)
    \/ \E d \in Deleters, u \in Users, s \in Scans : DeleteFind(d, u, s)
    \/ \E d \in Deleters : DeleteStep(d) \/ DeleteFail(d)
    \/ \E o \in Owners : Expire(o)

Spec == Init /\ [][Next]_vars

\* A request that was received runs, a statement that waits for a row gets it
\* in its turn (Postgres queues lock waiters), and Redis honours the TTL.
Fairness ==
    /\ \A h \in Handlers : WF_vars(Step(h)) /\ SF_vars(Insert(h) \/ Write(h) \/ Rewrite(h))
    /\ \A d \in Deleters : WF_vars(DeleteStep(d)) /\ SF_vars(DeleteRow(d))
    /\ \A o \in Owners : WF_vars(Expire(o))

FairSpec == Spec /\ Fairness

\* Discovery repeats an outcome, and no fault strikes every attempt: each step
\* that is possible again and again is taken.
RetrySpec ==
    /\ FairSpec
    /\ \A b \in {c \in Bodies : IsTerminal(c.target)} :
          SF_vars(\E h \in Handlers : Receive(h, b))
    /\ SF_vars(\E h \in Handlers : FirstRead(h) /\ res'[h] # None /\ Projects(res'[h]))
    /\ SF_vars(\E h \in Handlers : Commit(h) /\ pc'[h] = "project")
    /\ SF_vars(\E h \in Handlers : SaveCache(h))
    /\ SF_vars(\E h \in Handlers : PublishScanReady(h))
-----------------------------------------------------------------------------
Result == [outcome : {"applied", "already_applied", "already_running",
                      "already_terminal", "retryable_error", "rejected"},
           status : StoredStates, row : Row \union {None}]

Entry == [scan : Scans, status : {"success", "failed"}]

HandlerSteps == InTx \union {"idle", "project", "ready", "observe", "respond"}

\* Every table, handler and projection holds values of its type.
TypeOK ==
    /\ row \in [Scans -> Row \union {None}]
    /\ ledger \subseteq Scans
    /\ lock \in [Scans -> Handlers \union {None}]
    /\ pc \in [Handlers -> HandlerSteps]
    /\ req \in [Handlers -> Command \union {None}]
    /\ ent \in [Handlers -> Row \union {None}]
    /\ pend \in [Handlers -> Row \union {None}]
    /\ res \in [Handlers -> Result \union {None}]
    /\ dpc \in [Deleters -> {"idle", "delete", "list", "uncache"}]
    /\ dreq \in [Deleters -> [user : Users, scan : Scans, addr : Addresses] \union {None}]
    /\ cache \in [Owners -> Entry \union {None}]
    /\ ready \subseteq [scan : Scans, user : Users, addr : Addresses,
                        status : {"success", "failed"}]
    /\ observed \subseteq Scans

\* A committed SUCCESS always holds its ledger credit and a committed FAILED
\* never does, whatever commands race (prepareQuota, finishQuota, Apply's
\* single transaction), whatever the sources name.
CreditForResult ==
    \A s \in Scans : row[s] # None =>
        /\ row[s].status = "SUCCESS" => s \in ledger
        /\ row[s].status = "FAILED"  => s \notin ledger

\* What Discovery sends: it never names a terminal state as a source.
NonterminalSources == \A b \in Bodies : b.sources \intersect TerminalStates = {}

\* A committed terminal row never changes again, except that its owner may
\* soft-delete it (state.go: terminal -> anything is disallowed).
TerminalFinal ==
    [][\A s \in Scans : row[s] # None /\ IsTerminal(row[s].status) =>
          /\ row'[s] # None
          /\ row'[s].status = row[s].status /\ row'[s].tid = row[s].tid
          /\ row'[s].user = row[s].user /\ row'[s].addr = row[s].addr]_vars

\* A late or repeated command never brings a soft-deleted scan back: neither
\* the insert nor a scoped update touches its row.
NoResurrection ==
    [][\A s \in Scans : row[s] # None /\ row[s].deleted => row'[s] = row[s]]_vars

\* Whatever Redis holds or NATS was told agrees with the committed row of that
\* scan, although it is written after the commit, from a copy of the row.
ProjectionTruth ==
    /\ \A o \in Owners : cache[o] # None =>
          LET r == row[cache[o].scan]
          IN  /\ r # None /\ IsTerminal(r.status) /\ <<r.user, r.addr>> = o
              /\ cache[o].status = ReadyStatus(r.status)
    /\ \A e \in ready :
          LET r == row[e.scan]
          IN  /\ r # None /\ IsTerminal(r.status) /\ <<r.user, r.addr>> = <<e.user, e.addr>>
              /\ e.status = ReadyStatus(r.status)
    /\ \A s \in observed : row[s] # None /\ row[s].status = "SUCCESS"

\* The answer Discovery gets describes what is committed when it is sent: a
\* terminal applied or already_applied is its own transition, already_terminal
\* and already_running are no older than the state they name.
AnswerTruth ==
    \A h \in Handlers : pc[h] = "respond" /\ req[h] # None =>
        LET r == row[req[h].scan]
            o == res[h].outcome
        IN  /\ o \in {"applied", "already_applied"} =>
                 /\ r # None
                 /\ IsTerminal(res[h].status) =>
                      r.status = res[h].status /\ r.tid = req[h].tid
            /\ o = "already_terminal" => r # None /\ r.status = res[h].status
            /\ o = "already_running" =>
                 r # None /\ r.status \in {"RUNNING"} \union TerminalStates

\* The committed tables, read as the abstract lifecycle.
StateOf == [s \in Scans |-> IF row[s] = None THEN "PENDING" ELSE Logical(row[s].status)]
Gone == {s \in Scans : row[s] # None /\ row[s].deleted}

Abstract == INSTANCE WalletScan WITH state <- StateOf, gone <- Gone, credit <- ledger

\* Every interleaving of handlers, rollbacks, lost acknowledgements, crashes
\* and deletes shows the tables moving only by WalletScan's atomic steps.
ImplementsWalletScan == Abstract!WSSpec

\* Every received request is answered: row locks never deadlock and no path
\* through Apply loops.
Answered == \A h \in Handlers : pc[h] # "idle" ~> pc[h] = "idle"

\* A terminal transition that was committed is announced on scan.ready in the
\* end, although the first attempt lost its commit, its cache write or its
\* publish: the repeated command is already_applied and projects again.  A scan
\* that was deleted, or started again by a command that names its state as a
\* source, need not be announced any more.
Announced ==
    \A s \in Scans :
        (Find(s) # None /\ Find(s).status \in {"SUCCESS", "FAILED"}) ~>
        (Find(s) = None \/ Find(s).status = "RUNNING" \/ \E e \in ready : e.scan = s)
=============================================================================
