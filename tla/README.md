# cafe-persistence in TLA+

Models, model-checking runs and proofs for `cafe-persistence`, the service that
writes the scan results, credit ledger, Redis projections and crypto policies of
CAFE. Paths are relative to the repository root (`src/`). `PROJECT.json` lists the
runs, mutants, findings, hazards and theorems, and maps each definition to its lines.

## Inventory

| Component | State | Operations | Interacts with | Hard behaviour | What makes it correct |
|---|---|---|---|---|---|
| Wallet transition API (`internal/scanapi/transition.go`, `internal/wallettransition`) | `scan_results`, `scan_usage_events` | POST transition, DELETE scan | Discovery (HTTP), Postgres, Redis, NATS | racing commands, row locks, lost commit acknowledgement, projection after the commit | terminal rows final, credit iff result, answers and projections agree with the row, no lost announcement |
| Scan states (`pkg/scan/state.go`) | none | transition table | all of the above | terminal states | table respected by every writer |
| TLS lifecycle (`internal/persistence/{handlers,storage,nats}`) | `tls_scan_results`, ledger | scan.started / completed / failed, DELETE scan | core NATS (no redelivery), Postgres, Redis | three subscriptions per instance run concurrently; loss, duplicates, reordering | one outcome, credit and quota, a URL of the catalog stays in it |
| Credit ledger (`internal/repository/scan_usage_ledger_repository.go`) | `scan_usage_events` | count, insert, release | both of the above | check-then-insert at the limit | never above the limit |
| Pending reservations (`internal/repository/pending_v1_scan_repository.go`) | two Redis keys per scan | reserve, put, unreserve, release, TTL | Discovery (HTTP) | two commands per operation, each may fail or lose its reply | one granted scan per owner and address (W8), nothing leaks for ever |
| Redis cache (`internal/persistence/storage/redis.go`) | result per user and address or URL | save, delete, TTL | wallet and TLS handlers | written after the commit | agrees with a committed row, goes away after a delete |
| Crypto policies (`internal/cpapi`, `internal/cpstore`) | `crypto_policies` | create, delete, get, list, W1/W3 counts | CPM and Discovery (HTTP) | concurrent creates, retries | one active policy per owner and wallet (W1) |
| Policy migration (`internal/cpddl`) | the table and its indexes | `MigrateCPSchema` at boot | every booting process | separate statements, crash between them, two processes | applied before serving, drops draft-era rows only once |
| Scan migration (`internal/scanddl`) | tables, indexes, one check constraint | `MigrateScanSchema` at boot | every booting process | DROP and ADD CONSTRAINT are two statements | colliding boots end with all serving and the constraint in place |
| Scan read API (`internal/scanapi`, lists of `internal/cpapi`) | none of its own | paginated lists, latest completed scan, usage counters, reservation lookup | every writer of the tables | pages and counters are several statements of a changing table | a walk misses no row that stays, a scan is in one of the counters, latest never goes back |
| Wallet observation (`internal/walletobservation`) | none | payload of wallet.observed | wallet transition, chain filter of the list | three readings of the networks column | announced chains are listed chains |
| Service lifecycle (`cmd/persistence`, `internal/health`) | ready flag, connections, subscriptions | boot, readiness, persistence.ready, shutdown | Postgres, Redis, NATS, orchestrator, backend | several processes boot together; signals, crashes, lost connections, work under way at shutdown | ready means serving, requests drain before connections close |
| Auth, config, response formatting, health check command | none | | | | |

## Modules

| Module | Contents |
|---|---|
| `ScanState` | states, terminal states and `ValidTransition`, shared by the scan modules |
| `WalletScan` | abstract: what a wallet scan promises, as atomic steps on (state, deleted, credit) |
| `WalletTransition` | detailed: concurrent transition and delete requests, SQL statement by statement |
| `TlsScan` | abstract: what a TLS scan promises, as atomic steps on its status, its row and the credits |
| `TlsLifecycle` | NATS workers, their transactions, the ledger, the catalog of default scans |
| `PendingScan` | reservations, Redis command by Redis command |
| `PolicyStore` | boot migration and policy requests, SQL statement by statement |
| `ServiceLifecycle` | processes that boot, serve, lose NATS and stop, on one database |
| `ScanReads` | a client reading lists, latest scan and usage, statement by statement, among writers |
| `MC*` | constants for TLC |
| `*Proofs` | TLAPS proofs |

Definitions marked *Mutant* are plausible bugs of the definition they precede; each
property is shown to fail when one of them replaces it.

### How the models correspond to the code

* **Atomicity.** Postgres runs at READ COMMITTED: a statement is one action on the
  committed tables. In `WalletTransition` and `TlsLifecycle` what a transaction wrote is
  `pend` until its commit, and `lock` is the row lock that makes other writers wait; in
  `TlsLifecycle` `keyLock` is the wait of an insert on an uncommitted unique key. A Redis
  command is one action.
* **WalletTransition.** A handler walks `FirstRead` (applyTx), `PrepareQuota`, `Insert` or
  `Write`, the re-reads of applyMissing and applyExisting (`ReadWinner`, `ReadAgain`,
  `Rewrite`, `ReadLast`), `FinishQuota`, `Commit`, then `SaveCache`, `PublishScanReady`,
  `PublishWalletObserved`, `Respond`. A delete is `DeleteFind`, `DeleteRow`, `DeleteList`,
  `DeleteCache`. Faults: a statement or commit fails (`TxFail`), a commit succeeds
  unacknowledged, Redis or a publish fails, the process dies. Addresses and transition ids
  are normalised by constant functions; result contents are left out.
* **TlsLifecycle.** A worker is one subscription of one instance; instances share a queue
  group. `Sent` says how many copies of each event exist. A handler that returns an error
  has consumed its event (`GiveUp`); `Lose` is core NATS. With `"status"` in `Faults`,
  GetStatus may fail, which the handlers ignore. Discovery's reservations are the initial
  ledger. `url` and `default` are columns: scan.started writes them from the event, a
  completion overwrites them with those of the event's result (`Result`; a completion
  without a result writes a blank URL and FALSE), a failure or a refusal leaves them
  or inserts default = FALSE. The catalog is what `FindAllDefault` lists by these columns.
  The events of one scan name one user (`Owner`), which is also the row's. A delete uses the
  URL it read before its DELETE statement, which a completion may have replaced by then.
* **PendingScan.** Each command is done, not done, or done with its reply lost.
  A lookup by address (`LookAddress`, `LookRecord`) is two commands between the others.
  `Patient` says that Discovery has one request for a scan under way at a time: it waits for
  the answer to a reservation before it gives the scan back or asks again.
* **PolicyStore.** `Boot` .. `CreateIndexes` are the statements of `MigrateCPSchema`; a
  failure of any of them is fatal (`Crash`). A user is a spelling of `X-User-Id`, because
  the handler stores it as sent, and `OwnerOf` is the user it denotes. Payload, scan and
  audit columns are left out.
* **ServiceLifecycle.** `pc` is the place in `main`; boot steps are its calls in order, stop
  steps its deferred functions in reverse. `log.Fatal`, a signal before `signal.Notify` and a
  crash are `Exit`: no deferred function runs. A request is three steps that
  need Postgres, Redis and NATS in turn, the longest path any route has; a step on a
  closed connection ends it. A NATS client that has used up its reconnects (`GiveUp`) closes
  its connection and its subscriptions; the process goes on and `/ready` does not change. The listener is opened by its own goroutine, so a process may be ready
  before it listens. The statements of the policy migration are in `PolicyStore`.
* **ScanReads.** One list of one client, chosen initially (wallets, wallets by chain, TLS,
  policies). Writers are single committed steps, as `WalletScan` and `TlsScan` allow them. `created_at` is set
  by the inserting instance, so a row may appear anywhere in the order; `Before` has the
  ORDER BY of each list. The client goes on by the limit the response names and stops at
  a short page. Networks of a result are names; `ChainOf` is the configuration, `NumberOf`
  what a name spells in decimal, `Trimmed` the name without blanks.

## Runs

All constants are small sets; the interesting cases need two parties on one row or key.

| Run | Checks | Bounds |
|---|---|---|
| `MCWalletTransition` | credits, projections, answers, final terminal rows, no resurrection, refinement of `WalletScan` | 1 scan and a second row at its address, 2 handlers, 1 deleter, valid and one invalid body per validation, legacy rows (blank status), all faults; symmetry of handlers |
| `MCWalletLiveness` | every request returns; a committed outcome is announced | both outcomes of 1 scan and a start that names FAILED as its source, which reaches the second scoped update; retries of the outcomes, all faults |
| `MCTlsLifecycle` | type, credit, quota, scan.ready, final status, catalog kept, refinement of `TlsScan` | 1 instance, 2 default scans of one URL, 2 scans of a user with limit 1, one outcome per scan, one result that names another URL, loss and failures |
| `MCTlsDrains` | every event is consumed; the outcome a scan then has was announced | 2 instances on one scan of an unlimited plan, ignored read errors, fair |
| `MCPendingScan` | grants hold; what was given back is free; lookups find; leaked keys end | 2 wallet scans of one address, a TLS scan, 2 handlers, a lookup, all faults, fair |
| `MCPolicyStore` | W1, answers, durability | 1 instance booting twice, 2 tenants, new or draft-era database, 4 requests, 3 ids, 1 fault |
| `MCServiceLifecycle` | ready is serving until NATS is given up; requests drain; colliding boots settle; the backend hears | 2 instances, 1 request, 3 faults or signals, 2 repeats of the signal, fair |
| `MCScanReads` | walks complete, usage covers, latest goes forward, announced chains listed | 4 rows, 1 of another owner, 2 creation times, page sizes 1 to 3, 4 writes |

Two handlers suffice because every conflict in the code is between two transactions on
one row, one ledger key or one Redis key; the deleter is a third party where a row can
change between two others. The policy and TLS runs do not check deadlock: their requests
and events are finite, so the system stops when all are handled (`Drains` shows that the
TLS handlers do get there).

### Disagreements between the code and what the repository says

Each is a run that TLC refutes; `PROJECT.json` quotes the line.

| Run | What happens |
|---|---|
| `MCTlsOutcomeRace` | a second outcome overwrites a terminal TLS status |
| `MCTlsQuotaRace` | two instances exceed a plan's limit |
| `MCTlsLostCompletion` | a completion that races scan.started is lost, the scan stays RUNNING |
| `MCServiceReady` | the NATS client gives up, its subscriptions are gone, and `/ready` stays at 200 |

Two more, for which the properties state what does hold:

* `DeleteWalletScan` clears the cache once, after its delete; a transition that committed
  before it may write the key afterwards, and a deleted scan's result stays cached until
  the TTL (`openapi/internal/scan/v1.yaml:346` says the keys are cleared with the last row).
  `ProjectionTruth` says what a cached entry can be.
* A release by scan id deletes the record before the address key; if the second command
  fails, the retry finds no record and answers 204 with the address still reserved
  (`v1.yaml:231`: "Pending keys removed (idempotent)."). `UnreserveFrees` holds for the
  release by address, and `LeakEnds` bounds the other.

The log line of `main.go:182` says persistence.ready is published "for 1 minute"; 40 repeats
3 s apart are two. `success_count` of the usage route is read before `in_flight_count`, so a
TLS scan without a reservation that completes in between is in neither; `UsageCovers` is about
the two later counts.

The passing runs hold under conditions; the same modules show that these are needed.
Changing the constants of its run as follows makes TLC refute the property:

| Property | Constants | What happens |
|---|---|---|
| `WalletTransition!TerminalFinal` | `Bodies <- MCAnySources` | a command that names a terminal source rewrites a terminal row |
| `TlsLifecycle!TerminalFinal` | `Faults = {"status"}`, a completion sent twice while another scan of the user fails | a repeat whose status read failed is judged against the freed quota and overwrites the refusal |
| `TlsLifecycle!CreditForOutcome` | `Sent <- MCTwoOutcomes` | SUCCESS without a credit, or FAILED with one |
| `TlsLifecycle!CatalogKept` | two instances start two default scans of one URL | each deletes the other's row |
| `TlsLifecycle!CatalogKept` for `Urls` instead of `EchoedUrls` | a completion of a catalog scan without a result | its row is left with a blank URL and default = FALSE, and the URL is no longer listed |
| `TlsLifecycle!ImplementsTlsScan` | `Sent <- MCTwoOutcomes` | the second outcome is no step of `TlsScan` |
| `TlsLifecycle!OutcomeAnnounced` | `"fail"` in `Faults` | Redis fails after the commit and scan.ready is never published |
| `PendingScan!GrantHolds` | `Patient = FALSE` | a failed reservation's undo removes another scan's reservation |
| `PolicyStore!OneActivePolicy` | two `Users` of one owner | two spellings of one UUID hold two active policies |
| `PolicyStore!PoliciesKept` | two `Instances`, `Databases = {"legacy"}` | a second migrating process drops a table already filled |
| `ScanReads!WalkComplete` | `StopByTotal = TRUE` | a row inserted between the count and the page pushes an older one behind the last page that `total` announces |
| `ScanReads!ObservedChainsListed` | a configured name that spells another chain's number | a single-chain result is listed under two chains |

`CreditForResult` and `NoResurrection` hold without the condition on sources: `CreditSafe` and
`DeletedStaysDeleted` are proved for commands that name any source, terminal ones included.

W1 ignores the tenant and every read is scoped by it, so a caller told 409 finds the policy in
the way (`openapi/internal/cp/v1.yaml:512`: "for GET reconciliation after 409") only when it
belongs to the same tenant. Within one tenant that is the guard of the insert itself, so no
property states it.

### Fairness

* Weak fairness of a received request's or callback's steps: goroutines are scheduled.
* Strong fairness of statements that wait for a row or key: Postgres queues waiters.
* Fairness of the TTL actions: Redis expires keys whatever requests arrive.
* `RetrySpec` (only `MCWalletLiveness`): in addition Discovery repeats an outcome, and no
  fault strikes every attempt. The service itself retries nothing. `Announced` needs it,
  `Answered` does not: it only makes requests arrive more often.
* `ServiceLifecycle`: the orchestrator restarts a process that ended (weak fairness of
  `Launch`), main, the listener and the signal goroutine are scheduled. None on reconnects.
* No fairness on faults, crashes, clients' requests or deletes anywhere else.

## Proofs

All hold for every value of the constants that satisfies the modules' ASSUMEs (sets of
nodes and ids are arbitrary, finite where the code counts them: `IsFiniteSet(Scans)`, `Ids`).
What else a theorem needs of the deployment or of the events is a named hypothesis in its
ASSUME clause. The constants of the passing run that checks the same property satisfy it, and
the table of conditions above shows what happens without it.

* **WalletTransitionProofs.** `TypeCorrect`; `CreditSafe` (`CreditForResult`);
  `DeletedStaysDeleted` (`NoResurrection`); `TerminalIsFinal` and `Refinement`
  (`ImplementsWalletScan`), the last two assuming `NonterminalSources`, which is needed
  (see the table of conditions above). `CreditForResult` is not inductive: nothing
  in it says that the credit a transaction checked is still there when it commits. `IInv`
  adds that an uncommitted row belongs to the one transaction that holds its row lock
  (`PendingRow`), that a transaction about to commit SUCCESS has seen the credit, which
  only a holder of that row could release (`CreditSeen`), and that a held row stays as the
  scoped write found it (`HeldRow`). Refinement maps the committed tables: a commit,
  acknowledged or not, and `DeleteRow` are abstract steps, everything else stutters.
* **WalletAnswerProofs**, under `NonterminalSources`: `ProjectionsTrue` (`ProjectionTruth`),
  `AnswersTrue` (`AnswerTruth`). The answer, the Redis entry and the events are made from a copy
  of the row taken inside the transaction, and the table moves on before they are used.
  `AnswerInv` adds to `IInv` that every such copy is *behind* the table: a terminal copy is
  still what the row says, and a RUNNING one has at most ended since (`Remembers` for the rows
  read, `Tells` for the result that is about to be projected and answered).
* **TlsLifecycleProofs.** `BaseInv` (steps, jobs, uncommitted rows and waiting keys fit
  together) needs no hypothesis; `TlsTypeCorrect` follows. The others, each with the
  hypothesis its argument uses:
  * `TlsOutcomeAnnounced` (`OutcomeAnnounced`): no step fails after the commit. A stored
    outcome is announced or still in the hands of the handler that stored it (`Announcing`).
    Any number of instances, contradicting outcomes, copies and losses.
  * `TlsCatalogKept` (`CatalogKept`): one worker for scan.started. An outcome rewrites `url` and
    `default`, so the invariant says where those of a stored and of an uncommitted row came
    from (`Columns`): the scan's own start or failure, or its result. A row that lists a URL
    whose results repeat it is therefore rewritten as it is (`ListedRows`), and the row that is
    to replace the others lists their URL when they go (`Replacing`).
  * `TlsQuotaRespected` (`QuotaRespected`): one worker for scan.completed. The room it counted
    is there when it reserves and until it commits (`Counted`), because a release only makes
    more.
  * `TlsTerminalFinal`, `TlsCreditForOutcome`, `TlsReadyTruth`: `OneOutcome` (a scan is sent
    completions or failures, not both) and `Calm` (a completion that a plan may refuse comes
    once, or its copies are handled in turn with the status as stored). The handlers check
    the status before their transaction and never again, so none of the three is inductive,
    nor their conjunction. `TlsInv` adds which event a stored outcome came from (`Verdict`),
    that the only completion of a decided scan is not still to be judged (`SingleCopy`,
    `Fresh`, `Undecided`), that the ledger already agrees with what is about to be written
    (`Covered`) and that a committed outcome is still there when announced (`Past`).
  * `TlsImplementsTlsScan` (`ImplementsTlsScan`): the same, and plans are enforced by one
    instance or there are none (`WithinPlans`), because `TlsScan` grants a credit only within
    the limit. A commit and the insert of scan.started are abstract steps, a delete and a
    catalog replacement remove rows, everything else stutters.
* **PendingScanProofs**, under `Patient`: `PendingTypeCorrect`, `GrantExclusive`
  (`GrantHolds`), `GivenBackIsFree` (`UnreserveFrees`), `ReservedIsFound` (`LookupFinds`). The
  plain DEL of the undo makes `GrantHolds` non-inductive; `PendInv` adds that a handler
  between its SET NX and its answer is alone at work for its scan and holds the address,
  and that a handler that gives a scan back has taken its grant away first.
* **PolicyStoreProofs**, under `SafeBoot` (no draft-era table, or one instance):
  `PolicyTypeCorrect`, `StoredPoliciesStay` (`PoliciesKept`), `PolicyAnswersTrue` (`AnswerTruth`);
  with one spelling per user `OnePolicyPerWallet` (`OneActivePolicy`), for any tenants.
  `PolicyInv` adds that a boot drops only a draft-era
  table, which holds no policy yet, that who serves has the unique index, and that an
  insert under way was received by such an instance. The answers are about a delete of two
  statements: `ToldInv` adds that a delete which has to explain itself found no live row of
  its caller, and that one request was told 204 for a policy. `NoAnswerAssumption` says that a
  request not answered yet is distinct from an answered one.
* **ServiceLifecycleProofs.** `ServiceTypeCorrect`, `ReadyIsServing` (`ReadyServes`),
  `DrainedBeforeClosed` (`RequestsKeepStores`). Neither property is inductive: the ready flag
  says nothing of how the process got there. `LifeInv` adds `Progress`, which gives the open
  connections, subscriptions, flag and server as a function of the place in `main` and of
  whether NATS was given up, and the tables that have been migrated by then; tables only grow, so other
  instances cannot disturb it.
* **ScanReadsProofs.** `ReadsTypeCorrect`, `UsageMissesNothing` (`UsageCovers`). `UsageInv`
  adds `StillCounted`: a scan that was there when the request began and is still in flight
  after the first count is in that count, because no row goes back to RUNNING and an id is
  inserted once. `LatestMovesForward` (`LatestForward`): a list's order is strict and total,
  so a finite non-empty set of rows has one first row (proper inclusion of finite
  sets is well-founded). `WalksMissNothing` (`WalkComplete`), for clients that stop at a short
  page: a row's rank is the number of rows before it; ranks are distinct and without gaps, so
  a short page is the last one; an insert lowers no rank and a delete lowers each by at most
  one, so the rows passed by unseen (`Passed`) are no more than the deletes.
  `AnnouncedChainsFound` (`ObservedChainsListed`), under `PlainNames`: names of chains differ by
  more than blanks, and a configured name that is a number is its own chain's.

Only model-checked: everything that needs fairness (`Answered`, `Announced`, `Drains`, `LeakEnds`,
`Settles`, `BackendHears`). Liveness and ENABLED are beyond the proof system used, as are
induction theorems with an operator parameter and RECURSIVE operators (none is used here).
All other properties of the passing runs are stated by a theorem. The hypotheses of the TLS
theorems exclude the two outcomes of `MCTlsOutcomeRace` and the two instances of
`MCTlsQuotaRace`.

## Not modelled

* Reads of one row by id and of the whole catalog: a single statement each.
* Posture, algorithm and account kind of wallet.observed: finite tables without a second
  definition to compare them with.
* Authentication (a constant token comparison), routing, response formatting, loading of
  configuration, the health check command and the golden-file scripts: no state.
* `TryAcquireSuccessSlot` and its advisory lock, and `WalletWriter`'s event path: nothing in
  the service calls them. `NormalizeScanResultWalletKind`, which `newRow` (`apply.go:248`) calls,
  rewrites a column that no property reads.
* Discovery's side of W3 (count policies, then delete the scan) and of W8 (reserve, then
  transition): the order of those requests is in another repository.

## Plan

1. Done: wallet lifecycle and its abstraction, TLS lifecycle and its abstraction,
   reservations, policies, service lifecycle, read routes.
2. Done: proofs of every safety property that a passing run checks, and of both refinements.
3. Next: replace `Patient`, `Calm` and `NonterminalSources` by the weakest conditions on clients
   under which the theorems hold; the hidden consequences of the refinements (what `WalletScan`
   and `TlsScan` promise, proved on the abstract modules and carried over).
