---------------------------- MODULE PolicyStore ----------------------------
(***************************************************************************)
(* The crypto policy store: the internal HTTP handlers of internal/cpapi,  *)
(* the Postgres writer of internal/cpstore and the boot migration of       *)
(* internal/cpddl that creates the table and the W1 unique index both rely *)
(* on.  Several instances of the service may boot against one database;    *)
(* each one migrates, then serves.  Every SQL statement is one step: the   *)
(* service holds no lock across two of them (migrateMu is per process).    *)
(*                                                                         *)
(* The owner of a request is its X-User-Id header, which the handler       *)
(* validates as a UUID but stores and compares as it was spelled; OwnerOf  *)
(* gives the user a spelling denotes.  The wallet address is normalised,   *)
(* Normal gives its normal form, or None for an address that is refused.   *)
(* A policy's scan, chain, payload and audit columns decide nothing here   *)
(* and are left out.                                                       *)
(***************************************************************************)
EXTENDS Naturals, FiniteSets

CONSTANTS
  Instances,    \* service processes sharing the database
  Requests,     \* HTTP requests
  Policies,     \* policy ids uuid.New() may return
  Users,        \* spellings of X-User-Id
  Owners,       \* the users those spellings denote
  OwnerOf,      \* [Users -> Owners]
  Tenants,      \* values of X-Tenant-Id
  Addresses,    \* wallet addresses as sent
  Wallets,      \* normalised wallet addresses
  Normal,       \* [Addresses -> Wallets \cup {None}]
  None,
  Databases,    \* what the first boot may find: "absent", "legacy"
  MaxBoots,     \* bound: boots of one instance
  MaxFaults     \* bound: database errors

Row == [user : Users, tenant : Tenants, wallet : Wallets, deleted : BOOLEAN]

ASSUME PolicyAssumption ==
  /\ OwnerOf \in [Users -> Owners]
  /\ Normal \in [Addresses -> Wallets \cup {None}]
  /\ None \notin Wallets /\ None \notin Policies /\ None \notin Row
  /\ Databases \subseteq {"absent", "legacy"}
  /\ MaxBoots \in Nat /\ MaxFaults \in Nat

VARIABLES
  table,   \* the crypto_policies table: "absent", "legacy" (draft era), "current"
  index,   \* does uidx_crypto_policies_user_wallet_active exist?
  rows,    \* [Policies -> Row \cup {None}]
  issued,  \* ids uuid.New() has returned
  boot,    \* [Instances -> BootPhases]
  boots,   \* [Instances -> 0..MaxBoots], bounds restarts
  req,     \* [Requests -> Request]
  faults   \* database errors so far

vars == <<table, index, rows, issued, boot, boots, req, faults>>

BootPhases == {"down", "table", "draft_id", "payload_sha256", "reset",
               "automigrate", "index", "serving"}

Answers == {"created", "conflict", "noContent", "notFound", "forbidden",
            "badRequest", "unavailable"}

ASSUME NoAnswerAssumption == None \notin Answers

\* A request in flight: the owner scope, what it names, and its next step.
Request ==
  [op : {"create", "delete"}, at : Instances, user : Users, tenant : Tenants,
   wallet : Wallets \cup {None}, policy : Policies \cup {None},
   next : {"insert", "update", "explain", "done", "lost"},
   answer : Answers \cup {None}]

Idle == None

Active(p) == rows[p] # None /\ ~rows[p].deleted

SameOwner(p, q) == rows[p].user = req[q].user /\ rows[p].tenant = req[q].tenant

----------------------------------------------------------------------------
(* The boot migration, MigrateCPSchema, one statement at a time.           *)

GoTo(i, phase) == boot' = [boot EXCEPT ![i] = phase]

\* main runs the migrations before it serves.  The legacy draft tables that
\* cpDropLegacyDDL drops are used by nothing in this service.
Boot(i) ==
  /\ boot[i] = "down" /\ boots[i] < MaxBoots
  /\ boots' = [boots EXCEPT ![i] = @ + 1]
  /\ GoTo(i, "table")
  /\ UNCHANGED <<table, index, rows, issued, req, faults>>

FindTable(i) ==
  /\ boot[i] = "table"
  /\ GoTo(i, IF table = "absent" THEN "automigrate" ELSE "draft_id")
  /\ UNCHANGED <<table, index, rows, issued, boots, req, faults>>

\* With a draft_id column the table is reset whatever payload_sha256 says.
FindDraftID(i) ==
  /\ boot[i] = "draft_id"
  /\ GoTo(i, IF table = "legacy" THEN "reset" ELSE "payload_sha256")
  /\ UNCHANGED <<table, index, rows, issued, boots, req, faults>>

\* Mutant: the reset is skipped only for a table that has neither column.
FindPayloadSHAInverted(i) ==
  /\ boot[i] = "payload_sha256"
  /\ GoTo(i, IF table = "current" THEN "reset" ELSE "automigrate")
  /\ UNCHANGED <<table, index, rows, issued, boots, req, faults>>

FindPayloadSHA(i) ==
  /\ boot[i] = "payload_sha256"
  /\ GoTo(i, IF table = "current" THEN "automigrate" ELSE "reset")
  /\ UNCHANGED <<table, index, rows, issued, boots, req, faults>>

\* DROP TABLE ... CASCADE takes the rows and the indexes with it.
Reset(i) ==
  /\ boot[i] = "reset"
  /\ table' = "absent" /\ index' = FALSE
  /\ rows' = [p \in Policies |-> None]
  /\ GoTo(i, "automigrate")
  /\ UNCHANGED <<issued, boots, req, faults>>

\* AutoMigrate, then dropLegacyDraftIDColumn, which finds no such column: a
\* draft-era table was reset before, and nothing here creates one again.
AutoMigrate(i) ==
  /\ boot[i] = "automigrate" /\ table # "legacy"
  /\ table' = "current"
  /\ GoTo(i, "index")
  /\ UNCHANGED <<index, rows, issued, boots, req, faults>>

DuplicateActive ==
  \E p, q \in Policies : /\ p # q /\ Active(p) /\ Active(q)
                         /\ rows[p].user = rows[q].user
                         /\ rows[p].wallet = rows[q].wallet

\* Mutant: W1 stays the plain index it once was.
CreatePlainIndexes(i) ==
  /\ boot[i] = "index"
  /\ GoTo(i, IF table = "current" THEN "serving" ELSE "down")
  /\ UNCHANGED <<table, index, rows, issued, boots, req, faults>>

\* The index DDL; it fails on a missing table, and the unique index on rows
\* that already break it, and a failed migration is fatal.
CreateIndexes(i) ==
  /\ boot[i] = "index"
  /\ IF table = "current" /\ (index \/ ~DuplicateActive)
       THEN index' = TRUE /\ GoTo(i, "serving")
       ELSE index' = index /\ GoTo(i, "down")
  /\ UNCHANGED <<table, rows, issued, boots, req, faults>>

\* The process dies, or a migration statement fails and main exits: requests
\* it was answering get no answer.
Crash(i) ==
  /\ boot[i] # "down"
  /\ GoTo(i, "down")
  /\ req' = [q \in Requests |->
               IF req[q] # Idle /\ req[q].at = i /\ req[q].next # "done"
                 THEN [req[q] EXCEPT !.next = "lost"] ELSE req[q]]
  /\ UNCHANGED <<table, index, rows, issued, boots, faults>>

----------------------------------------------------------------------------
(* Requests.                                                               *)

Become(q, r) == req' = [req EXCEPT ![q] = r]
Answer(q, a) == Become(q, [req[q] EXCEPT !.next = "done", !.answer = a])

\* requireOwnerScope keeps the header as it is spelled.
Receive(q, i, u, t, op, w, p, next, a) ==
  /\ req[q] = Idle /\ boot[i] = "serving"
  /\ Become(q, [op |-> op, at |-> i, user |-> u, tenant |-> t, wallet |-> w,
                policy |-> p, next |-> next, answer |-> a])
  /\ UNCHANGED <<table, index, rows, issued, boot, boots, faults>>

NormalizeWalletTargetAddress(a) == Normal[a]

\* Mutant: the address is not validated.
CreateUnchecked(q) ==
  \E i \in Instances, u \in Users, t \in Tenants, a \in Addresses :
    Receive(q, i, u, t, "create", NormalizeWalletTargetAddress(a), None,
            "insert", None)

\* POST /policies: an address that does not normalise is refused.
CreatePolicy(q) ==
  \E i \in Instances, u \in Users, t \in Tenants, a \in Addresses :
    LET w == NormalizeWalletTargetAddress(a)
    IN  IF w = None
          THEN Receive(q, i, u, t, "create", None, None, "done", "badRequest")
          ELSE Receive(q, i, u, t, "create", w, None, "insert", None)

\* DELETE /policies/{policy_id}, for an id some create has made.
DeletePolicy(q) ==
  \E i \in Instances, u \in Users, t \in Tenants, p \in issued :
    Receive(q, i, u, t, "delete", None, p, "update", None)

\* A row the unique index keeps request q from inserting next to.
InTheWay(p, q) ==
  Active(p) /\ rows[p].user = req[q].user /\ rows[p].wallet = req[q].wallet

Violates(q) == index /\ \E p \in Policies : InTheWay(p, q)

NewRow(q) == [user |-> req[q].user, tenant |-> req[q].tenant,
              wallet |-> req[q].wallet, deleted |-> FALSE]

\* The INSERT.  Postgres makes a concurrent insert of the same key wait, so
\* the statement takes effect at one point.
Insert(q) ==
  /\ req[q] # Idle /\ req[q].next = "insert"
  /\ \/ /\ table # "current" \/ Violates(q)
        /\ Answer(q, IF table # "current" THEN "unavailable" ELSE "conflict")
        /\ UNCHANGED <<rows, issued>>
     \/ /\ table = "current" /\ ~Violates(q)
        /\ \E p \in Policies \ issued :
             /\ rows' = [rows EXCEPT ![p] = NewRow(q)]
             /\ issued' = issued \cup {p}
             /\ Become(q, [req[q] EXCEPT !.policy = p, !.next = "done",
                                         !.answer = "created"])
  /\ UNCHANGED <<table, index, boot, boots, faults>>

\* Mutant: the soft delete forgets deleted_at IS NULL.
UpdateDeleted(q) ==
  LET p == req[q].policy IN
  /\ req[q] # Idle /\ req[q].next = "update"
  /\ \/ /\ rows[p] # None /\ SameOwner(p, q)
        /\ rows' = [rows EXCEPT ![p].deleted = TRUE]
        /\ Answer(q, "noContent")
     \/ /\ ~(rows[p] # None /\ SameOwner(p, q))
        /\ Become(q, [req[q] EXCEPT !.next = "explain"])
        /\ UNCHANGED rows
  /\ UNCHANGED <<table, index, issued, boot, boots, faults>>

\* The soft delete, scoped to the owner's live row.
Update(q) ==
  LET p == req[q].policy IN
  /\ req[q] # Idle /\ req[q].next = "update"
  /\ \/ /\ table = "current" /\ Active(p) /\ SameOwner(p, q)
        /\ rows' = [rows EXCEPT ![p].deleted = TRUE]
        /\ Answer(q, "noContent")
     \/ /\ ~(table = "current" /\ Active(p) /\ SameOwner(p, q))
        /\ IF table # "current" THEN Answer(q, "unavailable")
             ELSE Become(q, [req[q] EXCEPT !.next = "explain"])
        /\ UNCHANGED rows
  /\ UNCHANGED <<table, index, issued, boot, boots, faults>>

\* No row was updated: a second, unscoped read says why.
Explain(q) ==
  LET p == req[q].policy IN
  /\ req[q] # Idle /\ req[q].next = "explain"
  /\ Answer(q, IF table # "current" THEN "unavailable"
               ELSE IF rows[p] # None /\ ~SameOwner(p, q) THEN "forbidden"
               ELSE "notFound")
  /\ UNCHANGED <<table, index, rows, issued, boot, boots, faults>>

\* A statement fails, or its connection is lost before it runs.
StatementFail(q) ==
  /\ req[q] # Idle /\ req[q].next \in {"insert", "update", "explain"}
  /\ faults < MaxFaults /\ faults' = faults + 1
  /\ Answer(q, "unavailable")
  /\ UNCHANGED <<table, index, rows, issued, boot, boots>>

\* The INSERT or the UPDATE commits and its acknowledgement is lost: the
\* handler answers 503 for a change that happened.
Unacknowledged(q) ==
  /\ req[q] # Idle /\ table = "current"
  /\ faults < MaxFaults /\ faults' = faults + 1
  /\ \/ /\ req[q].next = "insert" /\ ~Violates(q)
        /\ \E p \in Policies \ issued :
             /\ rows' = [rows EXCEPT ![p] = NewRow(q)]
             /\ issued' = issued \cup {p}
     \/ /\ req[q].next = "update"
        /\ Active(req[q].policy) /\ SameOwner(req[q].policy, q)
        /\ rows' = [rows EXCEPT ![req[q].policy].deleted = TRUE]
        /\ UNCHANGED issued
  /\ Answer(q, "unavailable")
  /\ UNCHANGED <<table, index, boot, boots>>

----------------------------------------------------------------------------
\* The database is new, or was left by the draft era with its rows.
Init ==
  /\ table \in Databases
  /\ index = FALSE
  /\ rows = [p \in Policies |-> None]
  /\ issued = {}
  /\ boot = [i \in Instances |-> "down"]
  /\ boots = [i \in Instances |-> 0]
  /\ req = [q \in Requests |-> Idle]
  /\ faults = 0

Migrate(i) == \/ Boot(i) \/ FindTable(i) \/ FindDraftID(i) \/ FindPayloadSHA(i)
              \/ Reset(i) \/ AutoMigrate(i) \/ CreateIndexes(i) \/ Crash(i)

Handle(q) == \/ CreatePolicy(q) \/ DeletePolicy(q) \/ Insert(q) \/ Update(q)
             \/ Explain(q) \/ StatementFail(q) \/ Unacknowledged(q)

Next == (\E i \in Instances : Migrate(i)) \/ (\E q \in Requests : Handle(q))

Spec == Init /\ [][Next]_vars

----------------------------------------------------------------------------
(* Properties.                                                             *)

\* Every variable has its type.
TypeOK ==
  /\ table \in {"absent", "legacy", "current"}
  /\ index \in BOOLEAN
  /\ rows \in [Policies -> Row \cup {None}]
  /\ issued \subseteq Policies
  /\ boot \in [Instances -> BootPhases]
  /\ boots \in [Instances -> 0..MaxBoots]
  /\ req \in [Requests -> Request \cup {None}]
  /\ faults \in 0..MaxFaults

\* W1: a user never holds two active policies for one wallet, whatever the
\* concurrent creates, tenants, retries, restarts and address spellings.
OneActivePolicy ==
  \A p, q \in Policies :
    (Active(p) /\ Active(q) /\ OwnerOf[rows[p].user] = OwnerOf[rows[q].user]
       /\ rows[p].wallet = rows[q].wallet) => p = q

\* What the caller was told stays true: a created policy is durable under its
\* owner, a 204 answers the one request that deleted the policy, a 404 means
\* the caller's scope holds no such active policy, and a 403 that the row is
\* somebody else's.
AnswerTruth ==
  \A q \in Requests : req[q] # Idle =>
    LET p == req[q].policy IN
    /\ req[q].answer = "created" => rows[p] # None /\ SameOwner(p, q)
    /\ req[q].answer = "noContent" =>
         /\ rows[p] # None /\ rows[p].deleted
         /\ \A r \in Requests \ {q} :
              ~(req[r] # Idle /\ req[r].policy = p /\ req[r].answer = "noContent")
    /\ req[q].answer = "notFound" => ~(Active(p) /\ SameOwner(p, q))
    /\ req[q].answer = "forbidden" => rows[p] # None /\ ~SameOwner(p, q)

\* A stored policy is never lost nor revived: no boot, crash or request makes
\* a row disappear, changes its owner or wallet, or clears its deletion.
PoliciesKept ==
  [][\A p \in Policies : rows[p] # None =>
       /\ rows'[p] # None
       /\ [rows'[p] EXCEPT !.deleted = FALSE] = [rows[p] EXCEPT !.deleted = FALSE]
       /\ rows[p].deleted => rows'[p].deleted]_vars
=============================================================================
