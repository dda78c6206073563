------------------------- MODULE PolicyStoreProofs -------------------------
(***************************************************************************)
(* W1 for every number of instances, requests, users and wallets: where a  *)
(* draft-era table cannot be dropped under a running instance, an owner    *)
(* spelled one way holds at most one active policy per wallet, no stored   *)
(* policy is lost and what a caller was told stays true.                   *)
(*                                                                         *)
(* Uniqueness is only as good as the index, and the index as the boot      *)
(* order: the invariant says that a boot drops only a draft-era table,     *)
(* which holds no policy yet, that an instance serves only once the index  *)
(* is there, that a request past its handler's checks was received by such *)
(* an instance, and that the index never disappears again.                 *)
(***************************************************************************)
EXTENDS PolicyStore, TLAPS

\* One process migrates and serves.
SoleInstance == \A i, j \in Instances : i = j

\* A draft-era table is met by nobody, or by one instance only: two that boot
\* together may both decide to drop it, the second after the first one serves.
SafeBoot == Databases \subseteq {"absent"} \/ SoleInstance

\* A boot drops only a draft-era table, and that one has no policy yet.
NoReset ==
  /\ table = "legacy" => SoleInstance /\ issued = {}
  /\ \A i \in Instances :
       /\ boot[i] = "reset" => table = "legacy"
       /\ boot[i] = "draft_id" => table # "absent"
       /\ boot[i] \in {"payload_sha256", "index"} => table = "current"

\* Whoever serves, and whatever insert is under way, finds the unique index.
Indexed ==
  /\ index => table = "current"
  /\ \A i \in Instances : boot[i] = "serving" => index
  /\ \A q \in Requests : req[q] # None /\ req[q].next = "insert" =>
       index /\ req[q].wallet \in Wallets

\* A request that names a policy names one that was issued.
Named ==
  /\ \A q \in Requests : req[q] # None /\ req[q].next \in {"update", "explain"} =>
       req[q].policy \in Policies
  /\ \A p \in Policies : rows[p] # None <=> p \in issued

\* The active rows obey the unique index, spelling by spelling.
Unique ==
  \A p, q \in Policies :
    (Active(p) /\ Active(q) /\ rows[p].user = rows[q].user
       /\ rows[p].wallet = rows[q].wallet) => p = q

PolicyInv == TypeOK /\ NoReset /\ Indexed /\ Named /\ Unique

----------------------------------------------------------------------------
\* The invariant holds initially.
LEMMA InitPolicy ==
  ASSUME SafeBoot, Init
  PROVE  PolicyInv
<1>1. TypeOK
  <2>1. table \in {"absent", "legacy", "current"} /\ index \in BOOLEAN
    BY PolicyAssumption DEF Init
  <2>2. 0 \in 0..MaxBoots /\ 0 \in 0..MaxFaults
    BY PolicyAssumption
  <2> QED
    BY <2>1, <2>2 DEF Init, TypeOK, Idle, BootPhases
<1>2. NoReset /\ Indexed
  BY PolicyAssumption DEF Init, NoReset, Indexed, Idle, SafeBoot
<1>3. Named /\ Unique
  BY DEF Init, Named, Unique, Active, Idle
<1> QED
  BY <1>1, <1>2, <1>3 DEF PolicyInv

\* A boot, its failure or its crash drops nothing and serves only indexed.
LEMMA MigratePolicy ==
  ASSUME PolicyInv, NEW i \in Instances, Migrate(i)
  PROVE  PolicyInv' /\ rows' = rows
<1> USE PolicyAssumption DEF PolicyInv, TypeOK, NoReset, Indexed, Named, Unique, Active,
                             GoTo, BootPhases
<1>1. CASE Boot(i)
  BY <1>1 DEF Boot
<1>2. CASE FindTable(i)
  BY <1>2 DEF FindTable
<1>3. CASE FindDraftID(i)
  BY <1>3 DEF FindDraftID
<1>4. CASE FindPayloadSHA(i)
  BY <1>4 DEF FindPayloadSHA
<1>5. CASE Reset(i)
  <2>1. table = "legacy" /\ issued = {} /\ ~index /\ SoleInstance
    BY <1>5 DEF Reset
  <2>2. rows' = rows
    BY <1>5, <2>1 DEF Reset
  <2>3. \A q \in Requests : req[q] = None \/ req[q].next # "insert"
    BY <2>1
  <2>4. \A j \in Instances : boot'[j] = "automigrate"
    BY <1>5, <2>1 DEF Reset, SoleInstance
  <2> QED
    BY <1>5, <2>1, <2>2, <2>3, <2>4 DEF Reset
<1>6. CASE AutoMigrate(i)
  BY <1>6 DEF AutoMigrate
<1>7. CASE CreateIndexes(i)
  BY <1>7 DEF CreateIndexes
<1>8. CASE Crash(i)
  <2>1. \A q \in Requests :
           \/ req'[q] = req[q]
           \/ req[q] # None /\ req'[q] = [req[q] EXCEPT !.next = "lost"]
    BY <1>8 DEF Crash, Idle
  <2>2. req' \in [Requests -> Request \cup {None}]
    BY <2>1, <1>8 DEF Crash, Request
  <2> QED
    BY <1>8, <2>1, <2>2 DEF Crash, Request
<1> QED
  BY <1>1, <1>2, <1>3, <1>4, <1>5, <1>6, <1>7, <1>8 DEF Migrate

\* Storing a row next to no row in its way keeps the active rows unique.
LEMMA InsertUnique ==
  ASSUME PolicyInv, NEW q \in Requests, req[q] # None, req[q].next = "insert",
         ~Violates(q), NEW p \in Policies \ issued,
         rows' = [rows EXCEPT ![p] = NewRow(q)]
  PROVE  /\ rows' \in [Policies -> Row \cup {None}]
         /\ Unique'
         /\ \A r \in Policies : r # p => rows'[r] = rows[r]
         /\ rows[p] = None /\ rows'[p] = NewRow(q) /\ NewRow(q) # None
<1>1. index /\ req[q].user \in Users /\ req[q].tenant \in Tenants /\ req[q].wallet \in Wallets
  BY DEF PolicyInv, TypeOK, Indexed, Request
<1>2. NewRow(q) \in Row
  BY <1>1 DEF NewRow, Row
<1>3. \A r \in Policies : ~InTheWay(r, q)
  BY <1>1 DEF Violates
<1> QED
  BY <1>1, <1>2, <1>3, PolicyAssumption
     DEF PolicyInv, TypeOK, Named, Unique, Active, InTheWay, NewRow

\* Every step of a request keeps the invariant.
LEMMA HandlePolicy ==
  ASSUME PolicyInv, NEW q \in Requests, Handle(q)
  PROVE  PolicyInv'
<1> USE PolicyAssumption DEF PolicyInv, TypeOK, NoReset, Indexed, Named
<1>1. ASSUME NEW i \in Instances, NEW u \in Users, NEW t \in Tenants,
             NEW op \in {"create", "delete"}, NEW w \in Wallets \cup {None},
             NEW p \in Policies \cup {None}, NEW n \in {"insert", "update", "done"},
             NEW a \in Answers \cup {None},
             n = "insert" => w \in Wallets, n = "update" => p \in Policies,
             Receive(q, i, u, t, op, w, p, n, a)
      PROVE  PolicyInv'
  <2>1. req' \in [Requests -> Request \cup {None}]
    BY <1>1 DEF Receive, Become, Request
  <2> QED
    BY <1>1, <2>1 DEF Receive, Become, Request, Unique, Active
<1>2. CASE CreatePolicy(q)
  BY <1>2, <1>1 DEF CreatePolicy, NormalizeWalletTargetAddress, Answers
<1>3. CASE DeletePolicy(q)
  BY <1>3, <1>1 DEF DeletePolicy
<1>4. ASSUME req[q] # None, NEW a \in Answers, Answer(q, a),
             UNCHANGED <<table, index, rows, issued, boot, boots>>, faults' \in 0..MaxFaults
      PROVE  PolicyInv'
  <2>1. /\ req' \in [Requests -> Request \cup {None}]
        /\ req'[q].next = "done" /\ \A r \in Requests \ {q} : req'[r] = req[r]
    <3>1. req[q] \in Request
      BY <1>4
    <3> DEFINE m == [req[q] EXCEPT !.next = "done", !.answer = a]
    <3>2. m \in Request /\ m.next = "done"
      BY <3>1, <1>4 DEF Request
    <3>3. req' = [req EXCEPT ![q] = m]
      BY <1>4 DEF Answer, Become
    <3> HIDE DEF m
    <3> QED
      BY <3>2, <3>3
  <2>2. Indexed' /\ Named'
    BY <1>4, <2>1
  <2>3. Unique'
    BY <1>4 DEF Unique, Active
  <2> QED
    BY <1>4, <2>1, <2>2, <2>3
<1>5. ASSUME req[q] # None, req[q].next = "insert", ~Violates(q),
             NEW p \in Policies \ issued,
             rows' = [rows EXCEPT ![p] = NewRow(q)], issued' = issued \cup {p},
             NEW x \in Policies \cup {None}, NEW a \in Answers,
             req' = [req EXCEPT ![q] = [req[q] EXCEPT !.policy = x, !.next = "done",
                                                      !.answer = a]],
             UNCHANGED <<table, index, boot, boots>>, faults' \in 0..MaxFaults
      PROVE  PolicyInv'
  <2>1. /\ req' \in [Requests -> Request \cup {None}]
        /\ req'[q].next = "done" /\ \A r \in Requests \ {q} : req'[r] = req[r]
    <3>1. req[q] \in Request
      BY <1>5
    <3> DEFINE m == [req[q] EXCEPT !.policy = x, !.next = "done", !.answer = a]
    <3>2. m \in Request /\ m.next = "done"
      BY <3>1, <1>5 DEF Request
    <3>3. req' = [req EXCEPT ![q] = m]
      BY <1>5
    <3> HIDE DEF m
    <3> QED
      BY <3>2, <3>3
  <2>2. /\ rows' \in [Policies -> Row \cup {None}]
        /\ Unique'
        /\ \A r \in Policies : r # p => rows'[r] = rows[r]
        /\ rows'[p] # None
    BY <1>5, InsertUnique
  <2>3. Indexed' /\ Named'
    BY <1>5, <2>1, <2>2
  <2> QED
    BY <1>5, <2>1, <2>2, <2>3
<1>6. ASSUME req[q] # None, NEW p \in Policies, Active(p),
             rows' = [rows EXCEPT ![p].deleted = TRUE], NEW a \in Answers, Answer(q, a),
             UNCHANGED <<table, index, issued, boot, boots>>, faults' \in 0..MaxFaults
      PROVE  PolicyInv'
  <2>1. /\ req' \in [Requests -> Request \cup {None}]
        /\ req'[q].next = "done" /\ \A r \in Requests \ {q} : req'[r] = req[r]
    <3>1. req[q] \in Request
      BY <1>6
    <3> DEFINE m == [req[q] EXCEPT !.next = "done", !.answer = a]
    <3>2. m \in Request /\ m.next = "done"
      BY <3>1, <1>6 DEF Request
    <3>3. req' = [req EXCEPT ![q] = m]
      BY <1>6 DEF Answer, Become
    <3> HIDE DEF m
    <3> QED
      BY <3>2, <3>3
  <2>2. rows[p] \in Row
    BY <1>6 DEF Active
  <2>3. rows' \in [Policies -> Row \cup {None}]
    BY <1>6, <2>2 DEF Row
  <2>4. Unique'
    BY <1>6, <2>2 DEF Unique, Active, Row
  <2>5. \A r \in Policies : rows'[r] # None <=> rows[r] # None
    <3>1. [rows[p] EXCEPT !.deleted = TRUE] # None
      BY <2>2 DEF Row
    <3> QED
      BY <1>6, <3>1 DEF Active
  <2>6. Indexed' /\ Named'
    BY <1>6, <2>1, <2>5 DEF Active
  <2> QED
    BY <1>6, <2>1, <2>3, <2>4, <2>6
<1>7. CASE Insert(q)
  <2>1. ASSUME NEW p \in Policies \ issued, ~Violates(q),
               rows' = [rows EXCEPT ![p] = NewRow(q)], issued' = issued \cup {p},
               Become(q, [req[q] EXCEPT !.policy = p, !.next = "done", !.answer = "created"])
        PROVE  PolicyInv'
    BY <2>1, <1>7, <1>5 DEF Insert, Become, Idle, Answers
  <2> QED
    BY <1>7, <1>4, <2>1 DEF Insert, Idle, Answers
<1>8. CASE Update(q)
  <2>1. req[q].policy \in Policies
    BY <1>8 DEF Update, Idle
  <2>2. CASE Become(q, [req[q] EXCEPT !.next = "explain"]) /\ rows' = rows
    <3>1. req' \in [Requests -> Request \cup {None}]
      BY <1>8, <2>2 DEF Update, Become, Request, Idle
    <3> QED
      BY <1>8, <2>1, <2>2, <3>1 DEF Update, Become, Request, Unique, Active, Idle
  <2> QED
    BY <1>8, <1>4, <1>6, <2>1, <2>2 DEF Update, Idle, Answers
<1>9. CASE Explain(q)
  BY <1>9, <1>4 DEF Explain, Idle, Answers
<1>10. CASE StatementFail(q)
  BY <1>10, <1>4 DEF StatementFail, Idle, Answers
<1>11. CASE Unacknowledged(q)
  <2>1. req[q] # None /\ faults' \in 0..MaxFaults
    BY <1>11 DEF Unacknowledged, Idle
  <2>2. ASSUME req[q].next = "insert", ~Violates(q), NEW p \in Policies \ issued,
               rows' = [rows EXCEPT ![p] = NewRow(q)], issued' = issued \cup {p}
        PROVE  PolicyInv'
    <3>1. req[q].policy \in Policies \cup {None}
      BY <2>1 DEF Request
    <3>2. req' = [req EXCEPT ![q] = [req[q] EXCEPT !.policy = req[q].policy, !.next = "done",
                                                   !.answer = "unavailable"]]
      BY <1>11, <2>1 DEF Unacknowledged, Answer, Become, Request
    <3> QED
      BY <1>5, <1>11, <2>1, <2>2, <3>1, <3>2 DEF Unacknowledged, Answers
  <2>3. CASE /\ req[q].next = "update" /\ Active(req[q].policy)
             /\ rows' = [rows EXCEPT ![req[q].policy].deleted = TRUE] /\ issued' = issued
    BY <1>6, <1>11, <2>1, <2>3 DEF Unacknowledged, Answers
  <2> QED
    BY <1>11, <2>2, <2>3 DEF Unacknowledged
<1> QED
  BY <1>2, <1>3, <1>7, <1>8, <1>9, <1>10, <1>11 DEF Handle

\* No step of a request loses a row.
LEMMA HandleKeeps ==
  ASSUME PolicyInv, NEW q \in Requests, Handle(q), NEW p \in Policies, rows[p] # None
  PROVE  /\ rows'[p] # None
         /\ [rows'[p] EXCEPT !.deleted = FALSE] = [rows[p] EXCEPT !.deleted = FALSE]
         /\ rows[p].deleted => rows'[p].deleted
<1>1. CASE rows' = rows
  BY <1>1
<1>2. CASE \E r \in Policies \ issued : rows' = [rows EXCEPT ![r] = NewRow(q)]
  BY <1>2 DEF PolicyInv, TypeOK, Named
<1>3. ASSUME NEW r \in Policies, Active(r), rows' = [rows EXCEPT ![r].deleted = TRUE]
      PROVE  /\ rows'[p] # None
             /\ [rows'[p] EXCEPT !.deleted = FALSE] = [rows[p] EXCEPT !.deleted = FALSE]
             /\ rows[p].deleted => rows'[p].deleted
  <2>1. rows[p] \in Row /\ rows[r] \in Row
    BY <1>3 DEF PolicyInv, TypeOK, Active
  <2>2. CASE p # r
    BY <1>3, <2>2 DEF PolicyInv, TypeOK
  <2>3. CASE p = r
    <3>1. rows'[p] = [rows[p] EXCEPT !.deleted = TRUE]
      BY <1>3, <2>3 DEF PolicyInv, TypeOK
    <3>2. rows'[p] \in Row
      BY <3>1, <2>1 DEF Row
    <3>3. rows'[p] # None /\ rows'[p].deleted
      BY <3>1, <3>2, <2>1, PolicyAssumption DEF Row
    <3>4. [rows'[p] EXCEPT !.deleted = FALSE] = [rows[p] EXCEPT !.deleted = FALSE]
      BY <3>1, <2>1 DEF Row
    <3> QED
      BY <3>3, <3>4
  <2> QED
    BY <2>2, <2>3
<1>4. \/ rows' = rows
      \/ \E r \in Policies \ issued : rows' = [rows EXCEPT ![r] = NewRow(q)]
      \/ \E r \in Policies : Active(r) /\ rows' = [rows EXCEPT ![r].deleted = TRUE]
  BY DEF Handle, CreatePolicy, DeletePolicy, Receive, Insert, Update, Explain, StatementFail,
         Unacknowledged, PolicyInv, Named, Idle
<1> QED
  BY <1>1, <1>2, <1>3, <1>4

\* PolicyInv is inductive.
LEMMA NextPolicy == PolicyInv /\ [Next]_vars => PolicyInv'
<1> SUFFICES ASSUME PolicyInv, [Next]_vars
             PROVE  PolicyInv'
  OBVIOUS
<1>1. CASE UNCHANGED vars
  BY <1>1 DEF vars, PolicyInv, TypeOK, NoReset, Indexed, Named, Unique, Active
<1> QED
  BY <1>1, MigratePolicy, HandlePolicy DEF Next

----------------------------------------------------------------------------
\* W1: when every user is spelled one way, a user never holds two active
\* policies for one wallet, however often one instance boots and crashes on any
\* database, or however many serve together on one without draft-era tables.
THEOREM OnePolicyPerWallet ==
  ASSUME SafeBoot,
         \A u, v \in Users : OwnerOf[u] = OwnerOf[v] => u = v
  PROVE  Spec => []OneActivePolicy
<1>1. Spec => []PolicyInv
  <2>1. Init => PolicyInv
    BY InitPolicy
  <2> QED
    BY <2>1, NextPolicy, PTL DEF Spec
<1>2. PolicyInv => OneActivePolicy
  BY DEF PolicyInv, TypeOK, Unique, OneActivePolicy, Active, Row
<1> QED
  BY <1>1, <1>2, PTL

\* The migrations, requests and answers of the policy store are well typed,
\* under the same condition on boots.
THEOREM PolicyTypeCorrect ==
  ASSUME SafeBoot
  PROVE  Spec => []TypeOK
<1>1. Init => PolicyInv
  BY InitPolicy
<1> QED
  BY <1>1, NextPolicy, PTL DEF Spec, PolicyInv

\* No boot, crash or request ever loses, changes or revives a stored policy,
\* under the same condition: the draft-era table is dropped before any is stored.
THEOREM StoredPoliciesStay ==
  ASSUME SafeBoot
  PROVE  Spec => PoliciesKept
<1>1. Spec => []PolicyInv
  <2>1. Init => PolicyInv
    BY InitPolicy
  <2> QED
    BY <2>1, NextPolicy, PTL DEF Spec
<1> DEFINE Kept == \A p \in Policies : rows[p] # None =>
       /\ rows'[p] # None
       /\ [rows'[p] EXCEPT !.deleted = FALSE] = [rows[p] EXCEPT !.deleted = FALSE]
       /\ rows[p].deleted => rows'[p].deleted
<1>2. PolicyInv /\ [Next]_vars => [Kept]_vars
  <2> SUFFICES ASSUME PolicyInv, Next
               PROVE  Kept
    OBVIOUS
  <2>1. CASE \E i \in Instances : Migrate(i)
    BY <2>1, MigratePolicy
  <2>2. CASE \E q \in Requests : Handle(q)
    BY <2>2, HandleKeeps
  <2> QED
    BY <2>1, <2>2 DEF Next
<1> QED
  BY <1>1, <1>2, PTL DEF Spec, PoliciesKept
----------------------------------------------------------------------------
(* What callers were told.                                                 *)

\* What request q names and was answered agrees with the table: an answer is
\* the end of a request, a named policy was issued, a delete that has to
\* explain itself found no live row of its owner.
Told(q) ==
  req[q] # None =>
    LET p == req[q].policy IN
    /\ req[q].answer # None => req[q].next = "done"
    /\ (\/ req[q].next \in {"update", "explain"}
        \/ req[q].answer \in {"created", "noContent", "notFound", "forbidden"}) =>
         p \in issued
    /\ (req[q].next = "explain" \/ req[q].answer = "notFound") =>
         ~(Active(p) /\ SameOwner(p, q))
    /\ req[q].answer = "created" => SameOwner(p, q)
    /\ req[q].answer = "noContent" => rows[p].deleted
    /\ req[q].answer = "forbidden" => ~SameOwner(p, q)

Deleted(q) == req[q] # None /\ req[q].answer = "noContent"

\* One request was told that it deleted a policy.
OneDelete ==
  \A q, r \in Requests : Deleted(q) /\ Deleted(r) /\ req[q].policy = req[r].policy => q = r

ToldInv == PolicyInv /\ (\A q \in Requests : Told(q)) /\ OneDelete

\* The row of an issued policy stays with its owner, and its deletion is final.
LEMMA RowKept ==
  ASSUME PolicyInv, Next, NEW p \in issued
  PROVE  /\ p \in issued' /\ p \in Policies /\ rows[p] # None /\ rows'[p] # None
         /\ rows'[p].user = rows[p].user /\ rows'[p].tenant = rows[p].tenant
         /\ rows[p].deleted => rows'[p].deleted
<1>1. p \in Policies /\ rows[p] # None /\ rows[p] \in Row
  BY DEF PolicyInv, TypeOK, Named
<1>2. PolicyInv'
  BY NextPolicy
<1>3. /\ rows'[p] # None
      /\ [rows'[p] EXCEPT !.deleted = FALSE] = [rows[p] EXCEPT !.deleted = FALSE]
      /\ rows[p].deleted => rows'[p].deleted
  BY <1>1, MigratePolicy, HandleKeeps DEF Next
<1>4. rows'[p] \in Row
  BY <1>1, <1>2, <1>3 DEF PolicyInv, TypeOK
<1>5. /\ [rows'[p] EXCEPT !.deleted = FALSE].user = rows'[p].user
      /\ [rows'[p] EXCEPT !.deleted = FALSE].tenant = rows'[p].tenant
      /\ [rows[p] EXCEPT !.deleted = FALSE].user = rows[p].user
      /\ [rows[p] EXCEPT !.deleted = FALSE].tenant = rows[p].tenant
  BY <1>1, <1>4 DEF Row
<1>6. p \in issued'
  BY <1>1, <1>2, <1>3 DEF PolicyInv, Named
<1> QED
  BY <1>1, <1>3, <1>5, <1>6

\* A request that stays as it is, or loses its instance, was told nothing new
\* and nothing wrong.
LEMMA OthersTold ==
  ASSUME PolicyInv, Next, NEW q \in Requests, Told(q),
         \/ req'[q] = req[q]
         \/ /\ req[q] # None /\ req[q].next # "done"
            /\ req'[q] = [req[q] EXCEPT !.next = "lost"]
  PROVE  Told(q)' /\ (Deleted(q)' => Deleted(q) /\ req'[q].policy = req[q].policy)
<1>1. CASE req'[q] = req[q]
  <2>1. CASE req[q] = None
    BY <1>1, <2>1 DEF Told, Deleted
  <2>2. CASE req[q] # None
    <3>1. req[q].policy \in issued =>
            LET p == req[q].policy
            IN  /\ p \in issued' /\ rows[p] # None /\ rows'[p] # None
                /\ rows'[p].user = rows[p].user /\ rows'[p].tenant = rows[p].tenant
                /\ rows[p].deleted => rows'[p].deleted
      BY RowKept
    <3>2. CASE req[q].policy \in issued
      BY <1>1, <2>2, <3>1, <3>2 DEF Told, Deleted, Active, SameOwner
    <3>3. CASE req[q].policy \notin issued
      BY <1>1, <2>2, <3>3 DEF Told, Deleted
    <3> QED
      BY <3>2, <3>3
  <2> QED
    BY <2>1, <2>2
<1>2. CASE /\ req[q] # None /\ req[q].next # "done"
           /\ req'[q] = [req[q] EXCEPT !.next = "lost"]
  <2>1. req[q] \in Request /\ req[q].answer = None
    BY <1>2 DEF PolicyInv, TypeOK, Told
  <2>2. req'[q].next = "lost" /\ req'[q].answer = None
    BY <1>2, <2>1 DEF Request
  <2> QED
    BY <2>2, NoAnswerAssumption DEF Told, Deleted, Answers
<1> QED
  BY <1>1, <1>2

\* An answer ends its request and changes nothing else of any request.
LEMMA AnswerShape ==
  ASSUME PolicyInv, NEW q \in Requests, req[q] # None, NEW a \in Answers, Answer(q, a)
  PROVE  /\ req'[q].next = "done" /\ req'[q].answer = a /\ req'[q].policy = req[q].policy
         /\ req'[q].user = req[q].user /\ req'[q].tenant = req[q].tenant
         /\ \A r \in Requests \ {q} : req'[r] = req[r]
<1>1. req[q] \in Request
  BY DEF PolicyInv, TypeOK
<1> DEFINE m == [req[q] EXCEPT !.next = "done", !.answer = a]
<1>2. /\ m.next = "done" /\ m.answer = a /\ m.policy = req[q].policy
      /\ m.user = req[q].user /\ m.tenant = req[q].tenant
  BY <1>1 DEF Request
<1>3. req' = [req EXCEPT ![q] = m]
  BY DEF Answer, Become
<1> HIDE DEF m
<1> QED
  BY <1>2, <1>3 DEF PolicyInv, TypeOK

\* An answer that claims nothing is true.
LEMMA EmptyAnswer ==
  ASSUME PolicyInv, NEW q \in Requests, req[q] # None,
         NEW a \in {"conflict", "badRequest", "unavailable"}, Answer(q, a)
  PROVE  Told(q)' /\ ~Deleted(q)'
<1>1. a \in Answers
  BY DEF Answers
<1> QED
  BY <1>1, AnswerShape DEF Told, Deleted

\* The request that acts is told the truth, and it is told that it deleted a
\* policy only when nobody was told so before.
LEMMA ActorTold ==
  ASSUME ToldInv, Next, NEW q \in Requests, Handle(q)
  PROVE  /\ Told(q)'
         /\ \A r \in Requests \ {q} : req'[r] = req[r]
         /\ Deleted(q)' => \A r \in Requests \ {q} :
                             ~(Deleted(r) /\ req[r].policy = req'[q].policy)
<1> DEFINE Good ==
         /\ Told(q)'
         /\ \A r \in Requests \ {q} : req'[r] = req[r]
         /\ Deleted(q)' => \A r \in Requests \ {q} :
                             ~(Deleted(r) /\ req[r].policy = req'[q].policy)
<1>0. PolicyInv /\ PolicyInv' /\ Told(q) /\ TypeOK
  BY NextPolicy DEF ToldInv, PolicyInv
<1>1. ASSUME NEW i, NEW u, NEW t, NEW op, NEW w, NEW p,
             NEW n \in {"insert", "update", "done"}, NEW a \in {None, "badRequest"},
             a # None => n = "done", n = "update" => p \in issued,
             Receive(q, i, u, t, op, w, p, n, a)
      PROVE  Good
  <2> DEFINE m == [op |-> op, at |-> i, user |-> u, tenant |-> t, wallet |-> w,
                   policy |-> p, next |-> n, answer |-> a]
  <2>1. m.next = n /\ m.answer = a /\ m.policy = p
    OBVIOUS
  <2>2. req' = [req EXCEPT ![q] = m] /\ issued' = issued
    BY <1>1 DEF Receive, Become
  <2> HIDE DEF m
  <2>3. req'[q] = m /\ \A r \in Requests \ {q} : req'[r] = req[r]
    BY <1>0, <2>2 DEF TypeOK
  <2>4. m.answer \notin {"created", "noContent", "notFound", "forbidden"}
    BY <2>1, NoAnswerAssumption DEF Answers
  <2>5. Told(q)'
    BY <1>1, <2>1, <2>2, <2>3, <2>4 DEF Told
  <2> QED
    BY <2>3, <2>4, <2>5 DEF Deleted
<1>2. CASE CreatePolicy(q)
  BY <1>2, <1>1 DEF CreatePolicy
<1>3. CASE DeletePolicy(q)
  BY <1>3, <1>1 DEF DeletePolicy
<1>4. ASSUME req[q] # None, NEW a \in {"conflict", "badRequest", "unavailable"}, Answer(q, a)
      PROVE  Good
  <2>1. a \in Answers
    BY DEF Answers
  <2> QED
    BY <1>0, <1>4, <2>1, EmptyAnswer, AnswerShape
<1>5. CASE Insert(q)
  <2>1. ASSUME NEW p \in Policies \ issued, ~Violates(q),
               rows' = [rows EXCEPT ![p] = NewRow(q)], issued' = issued \cup {p},
               Become(q, [req[q] EXCEPT !.policy = p, !.next = "done", !.answer = "created"])
        PROVE  Good
    <3> DEFINE m == [req[q] EXCEPT !.policy = p, !.next = "done", !.answer = "created"]
    <3>1. req[q] \in Request
      BY <1>0, <1>5 DEF Insert, Idle, TypeOK
    <3>2. /\ m.next = "done" /\ m.answer = "created" /\ m.policy = p
          /\ m.user = req[q].user /\ m.tenant = req[q].tenant
      BY <3>1 DEF Request
    <3>3. req' = [req EXCEPT ![q] = m]
      BY <2>1 DEF Become
    <3> HIDE DEF m
    <3>4. req'[q] = m /\ \A r \in Requests \ {q} : req'[r] = req[r]
      BY <1>0, <3>3 DEF TypeOK
    <3>5. rows'[p] = NewRow(q) /\ p \in issued'
      BY <1>0, <2>1 DEF TypeOK
    <3>6. rows'[p].user = req[q].user /\ rows'[p].tenant = req[q].tenant
      BY <3>5 DEF NewRow
    <3>7. Told(q)'
      BY <3>2, <3>4, <3>5, <3>6 DEF Told, SameOwner
    <3> QED
      BY <3>2, <3>4, <3>7 DEF Deleted
  <2> QED
    BY <1>5, <1>4, <2>1 DEF Insert, Idle
<1>6. CASE Update(q)
  <2> DEFINE p == req[q].policy
  <2>1. req[q] # None /\ req[q].next = "update" /\ p \in issued /\ req[q] \in Request
    BY <1>0, <1>6 DEF Update, Idle, Told, TypeOK
  <2>2. CASE /\ Active(p) /\ rows' = [rows EXCEPT ![p].deleted = TRUE]
             /\ Answer(q, "noContent")
    <3>1. /\ req'[q].next = "done" /\ req'[q].answer = "noContent" /\ req'[q].policy = p
          /\ \A r \in Requests \ {q} : req'[r] = req[r]
      BY <1>0, <2>1, <2>2, AnswerShape DEF Answers
    <3>2. p \in issued' /\ p \in Policies
      BY <1>0, <2>1, RowKept
    <3>3. rows'[p].deleted
      <4>1. rows[p] \in Row
        BY <1>0, <2>2, <3>2 DEF TypeOK, Active
      <4>2. rows'[p] = [rows[p] EXCEPT !.deleted = TRUE]
        BY <1>0, <2>2, <3>2 DEF TypeOK
      <4> QED
        BY <4>1, <4>2 DEF Row
    <3>4. Told(q)'
      BY <3>1, <3>2, <3>3 DEF Told
    <3>5. \A r \in Requests \ {q} : ~(Deleted(r) /\ req[r].policy = p)
      BY <2>2 DEF ToldInv, Told, Deleted, Active
    <3> QED
      BY <3>1, <3>4, <3>5
  <2>3. CASE /\ Become(q, [req[q] EXCEPT !.next = "explain"]) /\ rows' = rows
             /\ ~(Active(p) /\ SameOwner(p, q))
    <3> DEFINE m == [req[q] EXCEPT !.next = "explain"]
    <3>1. /\ m.next = "explain" /\ m.answer = req[q].answer /\ m.policy = p
          /\ m.user = req[q].user /\ m.tenant = req[q].tenant
      BY <2>1 DEF Request
    <3>2. req' = [req EXCEPT ![q] = m]
      BY <2>3 DEF Become
    <3> HIDE DEF m
    <3>3. req'[q] = m /\ \A r \in Requests \ {q} : req'[r] = req[r]
      BY <1>0, <3>2 DEF TypeOK
    <3>4. req[q].answer = None /\ p \in issued'
      BY <1>0, <2>1, RowKept DEF Told
    <3>5. Told(q)'
      BY <2>3, <3>1, <3>3, <3>4, NoAnswerAssumption DEF Told, Active, SameOwner, Answers
    <3> QED
      BY <3>1, <3>3, <3>4, <3>5, NoAnswerAssumption DEF Deleted, Answers
  <2> QED
    BY <1>6, <1>4, <2>1, <2>2, <2>3 DEF Update
<1>7. CASE Explain(q)
  <2> DEFINE p == req[q].policy
  <2>1. /\ req[q] # None /\ req[q].next = "explain" /\ p \in issued
        /\ ~(Active(p) /\ SameOwner(p, q)) /\ rows' = rows /\ issued' = issued
    BY <1>0, <1>7 DEF Explain, Idle, Told
  <2>2. rows[p] # None
    BY <1>0, <2>1 DEF PolicyInv, TypeOK, Named
  <2>3. ASSUME NEW a \in {"forbidden", "notFound"}, Answer(q, a),
               a = "forbidden" => ~SameOwner(p, q)
        PROVE  Good
    <3>1. /\ req'[q].next = "done" /\ req'[q].answer = a /\ req'[q].policy = p
          /\ req'[q].user = req[q].user /\ req'[q].tenant = req[q].tenant
          /\ \A r \in Requests \ {q} : req'[r] = req[r]
      BY <1>0, <2>1, <2>3, AnswerShape DEF Answers
    <3>2. Told(q)'
      BY <2>1, <2>3, <3>1 DEF Told, Active, SameOwner
    <3> QED
      BY <3>1, <3>2 DEF Deleted
  <2> QED
    BY <1>7, <1>4, <2>1, <2>2, <2>3 DEF Explain
<1>8. CASE StatementFail(q) \/ Unacknowledged(q)
  BY <1>8, <1>4 DEF StatementFail, Unacknowledged, Idle
<1> QED
  BY <1>2, <1>3, <1>5, <1>6, <1>7, <1>8 DEF Handle

\* A migration or a crash answers nobody.
LEMMA MigrateTold ==
  ASSUME NEW i \in Instances, Migrate(i), NEW q \in Requests
  PROVE  \/ req'[q] = req[q]
         \/ /\ req[q] # None /\ req[q].next # "done"
            /\ req'[q] = [req[q] EXCEPT !.next = "lost"]
BY DEF Migrate, Boot, FindTable, FindDraftID, FindPayloadSHA, Reset, AutoMigrate,
       CreateIndexes, Crash, Idle

\* ToldInv is inductive.
LEMMA NextTold == ToldInv /\ [Next]_vars => ToldInv'
<1> SUFFICES ASSUME ToldInv, [Next]_vars
             PROVE  ToldInv'
  OBVIOUS
<1>1. PolicyInv'
  BY NextPolicy DEF ToldInv
<1>2. CASE UNCHANGED vars
  <2>1. (\A q \in Requests : Told(q)') /\ OneDelete'
    BY <1>2 DEF vars, ToldInv, Told, OneDelete, Deleted, Active, SameOwner
  <2> QED
    BY <1>1, <2>1 DEF ToldInv
<1>3. ASSUME NEW i \in Instances, Migrate(i), Next
      PROVE  ToldInv'
  <2>1. \A q \in Requests :
           Told(q)' /\ (Deleted(q)' => Deleted(q) /\ req'[q].policy = req[q].policy)
    BY <1>3, MigrateTold, OthersTold DEF ToldInv
  <2> QED
    BY <1>1, <2>1 DEF ToldInv, OneDelete
<1>4. ASSUME NEW q \in Requests, Handle(q), Next
      PROVE  ToldInv'
  <2>1. /\ Told(q)'
        /\ \A r \in Requests \ {q} : req'[r] = req[r]
        /\ Deleted(q)' => \A r \in Requests \ {q} :
                            ~(Deleted(r) /\ req[r].policy = req'[q].policy)
    BY <1>4, ActorTold
  <2>2. \A r \in Requests \ {q} :
           Told(r)' /\ (Deleted(r)' => Deleted(r) /\ req'[r].policy = req[r].policy)
    BY <1>4, <2>1, OthersTold DEF ToldInv
  <2>3. OneDelete'
    BY <2>1, <2>2 DEF ToldInv, OneDelete
  <2> QED
    BY <1>1, <2>1, <2>2, <2>3 DEF ToldInv
<1> QED
  BY <1>2, <1>3, <1>4 DEF Next

\* What a caller was told stays true: a created policy is durable under its
\* owner, one request is told 204 for a policy, a 404 names no live policy of
\* the caller and a 403 somebody else's, whatever other requests, boots and
\* crashes come between the statements of a delete.
THEOREM PolicyAnswersTrue ==
  ASSUME SafeBoot
  PROVE  Spec => []AnswerTruth
<1>1. Init => ToldInv
  <2>1. Init => PolicyInv
    BY InitPolicy
  <2> QED
    BY <2>1 DEF Init, ToldInv, Told, OneDelete, Deleted, Idle
<1>2. ToldInv => AnswerTruth
  <2> SUFFICES ASSUME ToldInv
               PROVE  AnswerTruth
    OBVIOUS
  <2>1. \A p \in issued : rows[p] # None
    BY DEF ToldInv, PolicyInv, TypeOK, Named
  <2> QED
    BY <2>1 DEF ToldInv, Told, OneDelete, Deleted, AnswerTruth, Idle
<1> QED
  BY <1>1, <1>2, NextTold, PTL DEF Spec
=============================================================================
