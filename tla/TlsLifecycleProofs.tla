------------------------- MODULE TlsLifecycleProofs -------------------------
(***************************************************************************)
(* TLAPS proofs about TlsLifecycle, for every set of scans, users, workers *)
(* and faults.                                                             *)
(*                                                                         *)
(* BaseInv ties a worker's step to its job, its locks and its uncommitted  *)
(* rows, and holds for any workload. The rest is built on it.              *)
(*                                                                         *)
(* Announcing follows an outcome from its commit to scan.ready. Columns    *)
(* says where the url and default of a row came from, Replacing and        *)
(* Counted what the one worker of a subject read and may still rely on.    *)
(* TlsInv is about a scan that is sent one kind of outcome: the   *)
(* handlers read the status once, before their transaction, and write      *)
(* without looking again, so the invariant says why nobody has stored a    *)
(* different outcome since (Verdict, Fresh, Undecided), that the ledger    *)
(* agrees with what is about to be written (Covered), and that a committed *)
(* outcome is still there when it is announced (Past).                     *)
(***************************************************************************)
EXTENDS TlsLifecycle, FiniteSetTheorems, TLAPS

StartSteps == {"replaced", "create", "replace"}
CreditSteps == {"has", "count", "reserve", "recheck"}
OutcomeSteps == {"update", "insert", "release", "commit", "redis", "publish"}

\* A user's scan that a limited plan may refuse.
Contested(s) == ~OfCatalog(s) /\ ~Unlimited(Owner[s])

\* What the step of a worker says about its job and its goal.
Shape(w) ==
    /\ pc[w] = "idle" <=> job[w] = None
    /\ pc[w] \in StartSteps => Subject[w] = "started"
    /\ pc[w] \in CreditSteps =>
          Subject[w] = "completed" /\ goal[w] = "SUCCESS" /\ ~OfCatalog(job[w])
    /\ pc[w] \in {"count", "recheck"} => Contested(job[w])
    /\ pc[w] \in OutcomeSteps =>
          \/ Subject[w] = "completed" /\ goal[w] = "SUCCESS"
          \/ Subject[w] = "completed" /\ goal[w] = "LIMIT" /\ Contested(job[w])
          \/ Subject[w] = "failed" /\ goal[w] = "FAILED"
    /\ pc[w] = "release" => goal[w] = "FAILED"

\* An uncommitted row belongs to the one transaction that holds it, and the
\* row it replaces stays as the statement found it: absent or live.
Holding(w) ==
    /\ pend[w] # None <=> pc[w] \in {"release", "commit"}
    /\ pend[w] # None =>
          /\ lock[job[w]] = w
          /\ pend[w].status = WrittenStatus(w) /\ ~pend[w].deleted
          /\ row[job[w]] # None => ~row[job[w]].deleted
    /\ freed[w] => pc[w] = "commit" /\ goal[w] = "FAILED"

\* An uncommitted credit belongs to the completion of its own scan.
KeyHeld(s) ==
    \A w \in Workers : keyLock[s] = w =>
        /\ job[w] = s /\ ~OfCatalog(s) /\ goal[w] = "SUCCESS"
        /\ pc[w] \in {"update", "insert", "commit"}

\* Only published events are handled, and catalog scans take no credit.
Requested ==
    /\ \A e \in Events : queue[e] <= Sent[e]
    /\ \A w \in Workers : pc[w] # "idle" => Sent[<<Subject[w], job[w]>>] > 0
    /\ \A s \in ledger : ~OfCatalog(s)

BaseInv ==
    /\ TypeOK
    /\ \A w \in Workers : Shape(w) /\ Holding(w)
    /\ \A s \in Scans : KeyHeld(s)
    /\ Requested
-----------------------------------------------------------------------------
(* Deployments and workloads the theorems are about.                       *)

SoleStarter ==
    \A v, w \in Workers : Subject[v] = "started" /\ Subject[w] = "started" => v = w
SoleCompleter ==
    \A v, w \in Workers : Subject[v] = "completed" /\ Subject[w] = "completed" => v = w

\* A scan is sent completions or failures, not both.
OneOutcome == \A s \in Scans : Sent[<<"completed", s>>] = 0 \/ Sent[<<"failed", s>>] = 0

\* A completion that a plan may refuse is not repeated, or its copies are
\* handled one after the other and by their true status.
Calm ==
    \A s \in Scans : Contested(s) =>
        \/ Sent[<<"completed", s>>] <= 1
        \/ SoleCompleter /\ "status" \notin Faults

\* Plans are enforced by one instance, or there are none.
WithinPlans == SoleCompleter \/ \A u \in Users : Unlimited(u)
-----------------------------------------------------------------------------
(* The parts of the inductive invariants.                                  *)

Terminal(s) == row[s] # None /\ IsTerminal(row[s].status)

\* w handles a copy of the event e.
Busy(w, e) == pc[w] # "idle" /\ e = <<Subject[w], job[w]>>

\* An event published once is queued or with one worker.
SingleCopy ==
    \A s \in Scans : LET e == <<"completed", s>> IN Sent[e] <= 1 =>
        /\ \A v, w \in Workers : Busy(v, e) /\ Busy(w, e) => v = w
        /\ queue[e] > 0 => \A w \in Workers : ~Busy(w, e)

\* Which event a stored outcome came from.
Verdict ==
    \A s \in Scans : Terminal(s) =>
        /\ row[s].status \in {"SUCCESS", "FAILED"}
        /\ row[s].status = "SUCCESS" => Sent[<<"completed", s>>] > 0
        /\ row[s].status = "FAILED" => Contested(s) \/ Sent[<<"failed", s>>] > 0

\* The one completion of a scan that has its outcome is not still to be judged.
Fresh ==
    \A s \in Scans : LET e == <<"completed", s>> IN
        Contested(s) /\ Sent[e] <= 1 /\ Terminal(s) =>
            /\ queue[e] = 0
            /\ \A w \in Workers : Busy(w, e) => pc[w] # "status"

WriteSteps == {"update", "insert", "commit"}

\* Nobody has stored an outcome since w read the status of a contested scan.
Undecided(w) ==
    /\ Subject[w] = "completed" /\ pc[w] \in CreditSteps \union WriteSteps
    /\ Contested(job[w])
    => ~(Live(job[w]) /\ Terminal(job[w]))

\* What w is about to write agrees with the ledger it will leave.
Covered(w) ==
    pc[w] \in WriteSteps =>
        /\ goal[w] = "SUCCESS" /\ ~OfCatalog(job[w]) =>
              job[w] \in ledger \/ keyLock[job[w]] = w
        /\ goal[w] = "LIMIT" => job[w] \notin ledger
        /\ goal[w] = "FAILED" /\ pc[w] = "commit" => freed[w] \/ job[w] \notin ledger

\* After its commit, w announces what the row says.
Past(w) ==
    pc[w] \in {"redis", "publish"} =>
        row[job[w]] # None /\ row[job[w]].status = WrittenStatus(w)

TlsInv ==
    /\ BaseInv
    /\ SingleCopy /\ Verdict /\ Fresh
    /\ \A w \in Workers : Undecided(w) /\ Covered(w) /\ Past(w)
    /\ CreditForOutcome /\ ReadyTruth

\* The room that w counted is still there.
Counted(w) ==
    job[w] # None /\ (pc[w] = "reserve" \/ keyLock[job[w]] = w) /\ Contested(job[w]) =>
        Cardinality(CreditsOf(Owner[job[w]])) < Limit[Owner[job[w]]]

QuotaInv == BaseInv /\ QuotaRespected /\ \A w \in Workers : Counted(w)

\* A stored outcome is announced, or its handler is about to announce it.
Announcing ==
    \A s \in Scans : Terminal(s) =>
        \/ <<s, IF row[s].status = "SUCCESS" THEN "success" ELSE "failed">> \in ready
        \/ \E w \in Workers :
              /\ job[w] = s /\ pc[w] \in {"redis", "publish"}
              /\ goal[w] = "SUCCESS" <=> row[s].status = "SUCCESS"

SameColumns(r, c) == r.url = c.url /\ r.default = c.default

\* A stored row has the url and default of its result, or those its scan was
\* started or failed with.
Origin(s, r) == SameColumns(r, Result[s]) \/ (r.url = Url[s] /\ (r.default => OfCatalog(s)))

\* An uncommitted row has those of its result, or keeps what is stored.
Pending(w) ==
    pend[w] # None =>
        \/ SameColumns(pend[w], Result[job[w]])
        \/ row[job[w]] = None /\ SameColumns(pend[w], FailureColumns(job[w]))
        \/ row[job[w]] # None /\ SameColumns(pend[w], row[job[w]])

Columns ==
    /\ \A s \in Scans : row[s] # None => Origin(s, row[s])
    /\ \A w \in Workers : Pending(w)

\* FindAllDefault lists the URL by the row of s.
Lists(s, u) == Live(s) /\ row[s].default /\ row[s].url = u

\* The catalog row that is about to replace the others lists their URL.
Replacing ==
    \A w \in Workers :
        pc[w] = "replace" /\ OfCatalog(job[w]) /\ Url[job[w]] \in EchoedUrls =>
            Lists(job[w], Url[job[w]])
-----------------------------------------------------------------------------
USE TlsAssumption

\* Empty tables and idle workers; Discovery's reservations are users'.
LEMMA InitBase == Init => BaseInv
<1> SUFFICES ASSUME Init PROVE BaseInv
  OBVIOUS
<1>1. TypeOK
  BY DEF Init, TypeOK, Steps
<1>2. ASSUME NEW w \in Workers PROVE Shape(w) /\ Holding(w)
  BY DEF Init, Shape, Holding, StartSteps, CreditSteps, OutcomeSteps
<1>3. ASSUME NEW s \in Scans PROVE KeyHeld(s)
  BY DEF Init, KeyHeld
<1>4. Requested
  BY DEF Init, Requested, Events
<1> QED BY <1>1, <1>2, <1>3, <1>4 DEF BaseInv

\* Removing a row keeps its status, url and default.
LEMMA RowRemoved ==
  ASSUME NEW r \in Row
  PROVE  /\ [r EXCEPT !.deleted = TRUE] \in Row
         /\ [r EXCEPT !.deleted = TRUE].status = r.status
         /\ SameColumns([r EXCEPT !.deleted = TRUE], r)
         /\ [r EXCEPT !.deleted = TRUE].deleted
  BY DEF Row, SameColumns

\* scan.started inserts a live RUNNING row at its URL.
LEMMA StartedRowIs ==
  ASSUME NEW s \in Scans
  PROVE  /\ StartedRow(s) \in Row /\ StartedRow(s) # None
         /\ StartedRow(s).status = "RUNNING" /\ ~StartedRow(s).deleted
         /\ SameColumns(StartedRow(s), [url |-> Url[s], default |-> OfCatalog(s)])
<1>1. Url[s] \in Urls /\ OfCatalog(s) \in BOOLEAN
  BY DEF Urls, OfCatalog
<1>2. StartedRow(s) \in Row
  BY <1>1 DEF StartedRow, NewRow, Row, States
<1> QED BY <1>2 DEF StartedRow, NewRow, SameColumns

\* An outcome is written live, with the url and default of the result or with
\* the ones it was given.
LEMMA WrittenRowIs ==
  ASSUME NEW w \in Workers, job[w] \in Scans, NEW columns,
         columns.url \in Urls, columns.default \in BOOLEAN
  PROVE  LET q == NewRow(WrittenStatus(w), WrittenColumns(w, columns))
         IN  /\ q \in Row
             /\ q.status = WrittenStatus(w) /\ ~q.deleted
             /\ SameColumns(q, Result[job[w]]) \/ SameColumns(q, columns)
<1> DEFINE c == WrittenColumns(w, columns)
<1>1. c.url \in Urls /\ c.default \in BOOLEAN
  BY ColumnsAssumption DEF WrittenColumns
<1>2. c = Result[job[w]] \/ c = columns
  BY DEF WrittenColumns
<1>3. WrittenStatus(w) \in States
  BY DEF WrittenStatus, States, TerminalStates
<1> DEFINE q == NewRow(WrittenStatus(w), c)
<1>4. q \in Row /\ q.status = WrittenStatus(w) /\ ~q.deleted /\ SameColumns(q, c)
  <2> HIDE DEF c
  <2> QED BY <1>1, <1>3 DEF NewRow, Row, SameColumns
<1> HIDE DEF q
<1>5. SameColumns(q, Result[job[w]]) \/ SameColumns(q, columns)
  BY <1>2, <1>4
<1> QED BY <1>4, <1>5 DEF q

\* A worker that is not idle works for a scan.
LEMMA WorkingJob ==
  ASSUME BaseInv, NEW w \in Workers, pc[w] # "idle"
  PROVE  job[w] \in Scans
  BY DEF BaseInv, TypeOK, Shape

\* A handler that returns undoes its open transaction and nothing else.
LEMMA DoneBase ==
  ASSUME BaseInv, NEW w \in Workers, Done(w), UNCHANGED <<cache, queue, uncaching>>,
         ready' \subseteq Scans \X {"success", "failed"}
  PROVE  BaseInv'
<1> USE DEF Done, Goto
<1>1. TypeOK'
  BY DEF BaseInv, TypeOK, Steps
<1>2. ASSUME NEW v \in Workers PROVE Shape(v)' /\ Holding(v)'
  BY DEF BaseInv, TypeOK, Shape, Holding, WrittenStatus, StartSteps, CreditSteps, OutcomeSteps, Contested
<1>3. ASSUME NEW t \in Scans PROVE KeyHeld(t)'
  BY DEF BaseInv, TypeOK, KeyHeld
<1>4. Requested'
  BY DEF BaseInv, TypeOK, Requested
<1> QED BY <1>1, <1>2, <1>3, <1>4 DEF BaseInv

\* A row written in a transaction is held by its worker until the commit.
LEMMA WriteBase ==
  ASSUME BaseInv, NEW w \in Workers, NEW q \in Row,
         pc[w] \in {"update", "insert"}, lock[job[w]] = None,
         row[job[w]] # None => ~row[job[w]].deleted,
         q.status = WrittenStatus(w), ~q.deleted,
         lock' = [lock EXCEPT ![job[w]] = w], pend' = [pend EXCEPT ![w] = q], AfterWrite(w),
         UNCHANGED <<row, ledger, keyLock, job, goal, freed, outputs, queue, uncaching>>
  PROVE  BaseInv'
<1> USE DEF Goto, AfterWrite, outputs
<1>0. job[w] \in Scans
  BY WorkingJob
<1>1. TypeOK'
  BY DEF BaseInv, TypeOK, Steps
<1>2. ASSUME NEW v \in Workers PROVE Shape(v)'
  BY DEF BaseInv, TypeOK, Shape, StartSteps, CreditSteps, OutcomeSteps, Contested
<1>3. ASSUME NEW v \in Workers PROVE Holding(v)'
  BY <1>0 DEF BaseInv, TypeOK, Shape, Holding, WrittenStatus, OutcomeSteps
<1>4. ASSUME NEW t \in Scans PROVE KeyHeld(t)'
  BY DEF BaseInv, TypeOK, KeyHeld
<1>5. Requested'
  BY DEF BaseInv, TypeOK, Requested
<1> QED BY <1>1, <1>2, <1>3, <1>4, <1>5 DEF BaseInv

\* A delivered event was published, and its worker starts with an empty hand.
LEMMA DeliverBase ==
  ASSUME BaseInv, NEW w \in Workers, NEW s \in Scans, Deliver(w, s)
  PROVE  BaseInv'
<1> USE DEF Deliver, Goto, tables, wvars, outputs
<1>0. <<Subject[w], s>> \in Events
  BY DEF Events, Subjects
<1>1. TypeOK'
  BY <1>0 DEF BaseInv, TypeOK, Steps
<1>2. ASSUME NEW v \in Workers PROVE Shape(v)' /\ Holding(v)'
  BY DEF BaseInv, TypeOK, Shape, Holding, WrittenStatus, StartSteps, CreditSteps, OutcomeSteps, Contested
<1>4. ASSUME NEW t \in Scans PROVE KeyHeld(t)'
  BY DEF BaseInv, TypeOK, KeyHeld
<1>5. Requested'
  <2>1. queue[<<Subject[w], s>>] \in Nat /\ queue[<<Subject[w], s>>] > 0
    BY <1>0 DEF BaseInv, TypeOK
  <2>2. Sent[<<Subject[w], s>>] > 0 
    BY <1>0, <2>1 DEF BaseInv, Requested
  <2>3. ASSUME NEW e \in Events PROVE queue'[e] <= Sent[e]
    BY <1>0, <2>1, <2>3 DEF BaseInv, TypeOK, Requested
  <2>4. ASSUME NEW v \in Workers, pc'[v] # "idle" PROVE Sent[<<Subject[v], job'[v]>>] > 0
    BY <2>2, <2>4 DEF BaseInv, TypeOK, Requested
  <2> QED BY <2>3, <2>4 DEF BaseInv, Requested
<1> QED BY <1>1, <1>2, <1>4, <1>5 DEF BaseInv

\* OnStarted's status check goes on with a scan that has no live row, or returns.
LEMMA StartStatusBase ==
  ASSUME BaseInv, NEW w \in Workers, StartStatus(w)
  PROVE  BaseInv'
<1>1. CASE Done(w)
  BY <1>1, DoneBase DEF StartStatus, outputs, BaseInv, TypeOK
<1>2. CASE UNCHANGED <<tables, job, goal, pend, freed>>
  <2> USE <1>2 DEF StartStatus, Goto, tables, outputs
  <2>1. TypeOK'
    BY DEF Done, BaseInv, TypeOK, Steps
  <2>2. ASSUME NEW v \in Workers PROVE Shape(v)' /\ Holding(v)'
    BY DEF Done, BaseInv, TypeOK, Shape, Holding, WrittenStatus, StartSteps, CreditSteps,
           OutcomeSteps, Contested
  <2>3. ASSUME NEW t \in Scans PROVE KeyHeld(t)'
    BY DEF Done, BaseInv, TypeOK, KeyHeld
  <2>4. Requested'
    BY DEF Done, BaseInv, TypeOK, Requested
  <2> QED BY <2>1, <2>2, <2>3, <2>4 DEF BaseInv
<1> QED BY <1>1, <1>2 DEF StartStatus

\* defaultAlreadyReplaced goes on with its catalog scan, or returns.
LEMMA StartReplacedBase ==
  ASSUME BaseInv, NEW w \in Workers, StartReplaced(w)
  PROVE  BaseInv'
<1>1. CASE Done(w)
  BY <1>1, DoneBase DEF StartReplaced, outputs, BaseInv, TypeOK
<1>2. CASE UNCHANGED <<tables, job, goal, pend, freed>>
  <2> USE <1>2 DEF StartReplaced, Goto, tables, outputs
  <2>1. TypeOK'
    BY DEF Done, BaseInv, TypeOK, Steps
  <2>2. ASSUME NEW v \in Workers PROVE Shape(v)' /\ Holding(v)'
    BY DEF Done, BaseInv, TypeOK, Shape, Holding, WrittenStatus, StartSteps, CreditSteps,
           OutcomeSteps, Contested
  <2>3. ASSUME NEW t \in Scans PROVE KeyHeld(t)'
    BY DEF Done, BaseInv, TypeOK, KeyHeld
  <2>4. Requested'
    BY DEF Done, BaseInv, TypeOK, Requested
  <2> QED BY <2>1, <2>2, <2>3, <2>4 DEF BaseInv
<1> QED BY <1>1, <1>2 DEF StartReplaced

\* The insert of a started scan finds no row, so no transaction holds one it
\* replaces.
LEMMA StartCreateBase ==
  ASSUME BaseInv, NEW w \in Workers, StartCreate(w)
  PROVE  BaseInv'
<1>0. job[w] \in Scans
  BY WorkingJob DEF StartCreate
<1>1. CASE Done(w) /\ UNCHANGED <<outputs, queue, uncaching>>
  BY <1>1, DoneBase DEF outputs, BaseInv, TypeOK
<1>2. CASE /\ row[job[w]] = None /\ lock[job[w]] = None
           /\ row' = [row EXCEPT ![job[w]] = StartedRow(job[w])]
           /\ Goto(w, "replace")
           /\ UNCHANGED <<ledger, lock, keyLock, job, goal, pend, freed, outputs, queue, uncaching>>
  <2> USE <1>2 DEF Goto, outputs
  <2>1. TypeOK'
    <3>1. StartedRow(job[w]) \in Row
      BY <1>0, StartedRowIs
    <3> QED BY <3>1 DEF BaseInv, TypeOK, Steps
  <2>2. ASSUME NEW v \in Workers PROVE Shape(v)' /\ Holding(v)'
    BY <1>0 DEF StartCreate, BaseInv, TypeOK, Shape, Holding, WrittenStatus, StartSteps, CreditSteps, OutcomeSteps, Contested
  <2>4. ASSUME NEW t \in Scans PROVE KeyHeld(t)'
    BY DEF StartCreate, BaseInv, TypeOK, KeyHeld
  <2>5. Requested'
    BY DEF StartCreate, BaseInv, TypeOK, Requested
  <2> QED BY <2>1, <2>2, <2>4, <2>5 DEF BaseInv
<1> QED BY <1>1, <1>2 DEF StartCreate

\* replacePreviousDefault waits for held rows, so what it removes is held by
\* nobody.
LEMMA StartReplaceBase ==
  ASSUME BaseInv, NEW w \in Workers, StartReplace(w)
  PROVE  BaseInv'
<1> USE DEF StartReplace, Previous, Live, Goto, tables, wvars, outputs
<1>1. TypeOK'
  <2>1. ASSUME NEW t \in Scans, Live(t) PROVE [row[t] EXCEPT !.deleted = TRUE] \in Row
    <3>1. row[t] \in Row
      BY <2>1 DEF BaseInv, TypeOK
    <3> QED BY <3>1, RowRemoved
  <2>2. row' \in [Scans -> Row \union {None}]
    BY <2>1 DEF BaseInv, TypeOK
  <2> QED BY <2>2 DEF BaseInv, TypeOK, Steps
<1>2. ASSUME NEW v \in Workers PROVE Shape(v)' /\ Holding(v)'
  BY DEF BaseInv, TypeOK, Shape, Holding, WrittenStatus, StartSteps, CreditSteps,
         OutcomeSteps, Contested
<1>3. ASSUME NEW t \in Scans PROVE KeyHeld(t)'
  BY DEF BaseInv, TypeOK, KeyHeld, Shape, CreditSteps
<1>4. Requested'
  BY DEF BaseInv, TypeOK, Requested, KeyHeld
<1> QED BY <1>1, <1>2, <1>3, <1>4 DEF BaseInv

\* A completion goes on towards SUCCESS: catalog scans write, users' scans
\* look for a credit.
LEMMA CompleteStatusBase ==
  ASSUME BaseInv, NEW w \in Workers, CompleteStatus(w)
  PROVE  BaseInv'
<1>0. job[w] \in Scans /\ pc[w] = "status" /\ Subject[w] = "completed"
      /\ UNCHANGED <<outputs, queue, uncaching>>
  BY WorkingJob DEF CompleteStatus
<1>1. CASE Done(w)
  BY <1>0, <1>1, DoneBase DEF outputs, BaseInv, TypeOK
<1>2. CASE /\ goal' = [goal EXCEPT ![w] = "SUCCESS"]
           /\ Goto(w, IF OfCatalog(job[w]) THEN "update" ELSE "has")
           /\ UNCHANGED <<tables, job, pend, freed>>
  <2> USE <1>0, <1>2 DEF Goto, tables, outputs
  <2>1. TypeOK'
    BY DEF BaseInv, TypeOK, Steps
  <2>2. ASSUME NEW v \in Workers PROVE Shape(v)' /\ Holding(v)'
    BY DEF BaseInv, TypeOK, Shape, Holding, WrittenStatus, StartSteps, CreditSteps,
           OutcomeSteps, Contested
  <2>3. ASSUME NEW t \in Scans PROVE KeyHeld(t)'
    BY DEF BaseInv, TypeOK, KeyHeld
  <2>4. Requested'
    BY DEF BaseInv, TypeOK, Requested
  <2> QED BY <2>1, <2>2, <2>3, <2>4 DEF BaseInv
<1> QED BY <1>1, <1>2 DEF CompleteStatus

\* Looking up the credit of a user's scan moves its worker only.
LEMMA HasUsageBase ==
  ASSUME BaseInv, NEW w \in Workers, HasUsage(w)
  PROVE  BaseInv'
<1> USE DEF HasUsage, Goto, tables, wvars, outputs
<1>1. TypeOK'
  BY DEF BaseInv, TypeOK, Steps
<1>2. ASSUME NEW v \in Workers PROVE Shape(v)' /\ Holding(v)'
  BY DEF BaseInv, TypeOK, Shape, Holding, WrittenStatus, StartSteps, CreditSteps,
         OutcomeSteps, Contested
<1>3. ASSUME NEW t \in Scans PROVE KeyHeld(t)'
  BY DEF BaseInv, TypeOK, KeyHeld, Shape, CreditSteps
<1>4. Requested'
  BY DEF BaseInv, TypeOK, Requested, KeyHeld
<1> QED BY <1>1, <1>2, <1>3, <1>4 DEF BaseInv

\* Counting the credits of a limited user moves the worker only.
LEMMA CountUsageBase ==
  ASSUME BaseInv, NEW w \in Workers, CountUsage(w)
  PROVE  BaseInv'
<1> USE DEF CountUsage, Goto, tables, wvars, outputs
<1>1. TypeOK'
  BY DEF BaseInv, TypeOK, Steps
<1>2. ASSUME NEW v \in Workers PROVE Shape(v)' /\ Holding(v)'
  BY DEF BaseInv, TypeOK, Shape, Holding, WrittenStatus, StartSteps, CreditSteps,
         OutcomeSteps, Contested
<1>3. ASSUME NEW t \in Scans PROVE KeyHeld(t)'
  BY DEF BaseInv, TypeOK, KeyHeld, Shape, CreditSteps
<1>4. Requested'
  BY DEF BaseInv, TypeOK, Requested, KeyHeld
<1> QED BY <1>1, <1>2, <1>3, <1>4 DEF BaseInv

\* The inserted ledger row belongs to a completion on its way to its update.
LEMMA ReserveUsageBase ==
  ASSUME BaseInv, NEW w \in Workers, ReserveUsage(w)
  PROVE  BaseInv'
<1> USE DEF ReserveUsage, Goto, outputs
<1>0. job[w] \in Scans
  BY WorkingJob
<1>1. TypeOK'
  <2>1. keyLock' \in [Scans -> Workers \union {None}]
    BY <1>0 DEF BaseInv, TypeOK
  <2>2. pc' \in [Workers -> Steps]
    BY DEF BaseInv, TypeOK, Steps
  <2> QED BY <2>1, <2>2 DEF BaseInv, TypeOK
<1>2. ASSUME NEW v \in Workers PROVE Shape(v)' /\ Holding(v)'
  BY DEF BaseInv, TypeOK, Shape, Holding, WrittenStatus, StartSteps, CreditSteps,
         OutcomeSteps, Contested
<1>3. ASSUME NEW t \in Scans PROVE KeyHeld(t)'
  BY <1>0 DEF BaseInv, TypeOK, Shape, CreditSteps, KeyHeld
<1>4. Requested'
  BY DEF BaseInv, TypeOK, Requested
<1> QED BY <1>1, <1>2, <1>3, <1>4 DEF BaseInv

\* Only a contested scan is refused its credit.
LEMMA RecheckUsageBase ==
  ASSUME BaseInv, NEW w \in Workers, RecheckUsage(w)
  PROVE  BaseInv'
<1> USE DEF RecheckUsage, Goto, tables, wvars, outputs
<1>1. TypeOK'
  BY DEF BaseInv, TypeOK, Steps
<1>2. ASSUME NEW v \in Workers PROVE Shape(v)' /\ Holding(v)'
  BY DEF BaseInv, TypeOK, Shape, Holding, WrittenStatus, StartSteps, CreditSteps,
         OutcomeSteps, Contested
<1>3. ASSUME NEW t \in Scans PROVE KeyHeld(t)'
  BY DEF BaseInv, TypeOK, KeyHeld, Shape, CreditSteps
<1>4. Requested'
  BY DEF BaseInv, TypeOK, Requested, KeyHeld
<1> QED BY <1>1, <1>2, <1>3, <1>4 DEF BaseInv

\* A failure goes on towards FAILED, or returns.
LEMMA FailStatusBase ==
  ASSUME BaseInv, NEW w \in Workers, FailStatus(w)
  PROVE  BaseInv'
<1> USE DEF FailStatus, Done, Goto, tables, wvars, outputs
<1>1. TypeOK'
  <2>1. CASE Done(w)
    BY <2>1 DEF BaseInv, TypeOK, Steps
  <2>2. CASE Goto(w, "update") /\ goal' = [goal EXCEPT ![w] = "FAILED"]
             /\ UNCHANGED <<tables, job, pend, freed>>
    BY <2>2 DEF BaseInv, TypeOK, Steps
  <2> QED BY <2>1, <2>2
<1>2. ASSUME NEW v \in Workers PROVE Shape(v)' /\ Holding(v)'
  <2>1. Shape(v) /\ Holding(v) /\ pend[w] = None /\ ~freed[w]
    BY DEF BaseInv, TypeOK, Holding
  <2>2. CASE v # w
    BY <2>1, <2>2 DEF BaseInv, TypeOK, Shape, Holding, WrittenStatus, Contested
  <2>3. CASE v = w
    BY <2>1, <2>3 DEF BaseInv, TypeOK, Shape, Holding, WrittenStatus, StartSteps, CreditSteps,
                      OutcomeSteps, Contested
  <2> QED BY <2>2, <2>3
<1>3. ASSUME NEW t \in Scans PROVE KeyHeld(t)'
  BY DEF BaseInv, TypeOK, KeyHeld, Shape, CreditSteps
<1>4. Requested'
  BY DEF BaseInv, TypeOK, Requested, KeyHeld
<1> QED BY <1>1, <1>2, <1>3, <1>4 DEF BaseInv

\* The update holds a live row, or moves on to the insert.
LEMMA UpdateRowBase ==
  ASSUME BaseInv, NEW w \in Workers, UpdateRow(w)
  PROVE  BaseInv'
<1>0. job[w] \in Scans /\ pc[w] = "update" /\ WrittenStatus(w) \in States
      /\ UNCHANGED <<row, ledger, keyLock, job, goal, freed, outputs, queue, uncaching>>
  BY WorkingJob DEF UpdateRow, WrittenStatus, States, TerminalStates
<1>1. CASE ~Live(job[w]) /\ Goto(w, "insert") /\ UNCHANGED <<lock, pend>>
  <2> USE <1>0, <1>1 DEF Goto, outputs
  <2>1. TypeOK'
    BY DEF BaseInv, TypeOK, Steps
  <2>2. ASSUME NEW v \in Workers PROVE Shape(v)' /\ Holding(v)'
    BY DEF BaseInv, TypeOK, Shape, Holding, WrittenStatus, StartSteps, CreditSteps, OutcomeSteps, Contested
  <2>4. ASSUME NEW t \in Scans PROVE KeyHeld(t)'
    BY DEF BaseInv, TypeOK, KeyHeld
  <2>5. Requested'
    BY DEF BaseInv, TypeOK, Requested
  <2> QED BY <2>1, <2>2, <2>4, <2>5 DEF BaseInv
<1>2. CASE Live(job[w]) /\ lock[job[w]] = None
  <2> DEFINE q == NewRow(WrittenStatus(w), WrittenColumns(w, row[job[w]]))
  <2>0. /\ lock' = [lock EXCEPT ![job[w]] = w]
        /\ pend' = [pend EXCEPT ![w] = q]
        /\ AfterWrite(w)
    BY <1>2 DEF UpdateRow
  <2>1. q \in Row /\ q.status = WrittenStatus(w) /\ ~q.deleted
    <3>1. row[job[w]].url \in Urls /\ row[job[w]].default \in BOOLEAN
      BY <1>0, <1>2 DEF Live, BaseInv, TypeOK, Row
    <3> QED BY <1>0, <3>1, WrittenRowIs
  <2> HIDE DEF q
  <2> SUFFICES BaseInv'
    OBVIOUS
  <2> QED BY <1>0, <1>2, <2>0, <2>1, WriteBase DEF Live
<1> QED BY <1>0, <1>1, <1>2 DEF UpdateRow

\* The insert holds the row of a scan that has none, or ends the handler.
LEMMA InsertRowBase ==
  ASSUME BaseInv, NEW w \in Workers, InsertRow(w)
  PROVE  BaseInv'
<1>0. job[w] \in Scans /\ pc[w] = "insert" /\ UNCHANGED <<outputs, queue, uncaching>>
  BY WorkingJob DEF InsertRow
<1>1. CASE Done(w)
  BY <1>0, <1>1, DoneBase DEF outputs, BaseInv, TypeOK
<1>2. CASE row[job[w]] = None /\ ~Done(w)
  <2> DEFINE q == NewRow(WrittenStatus(w), WrittenColumns(w, FailureColumns(job[w])))
  <2>0. /\ lock[job[w]] = None
        /\ lock' = [lock EXCEPT ![job[w]] = w]
        /\ pend' = [pend EXCEPT ![w] = q]
        /\ AfterWrite(w)
        /\ UNCHANGED <<row, ledger, keyLock, job, goal, freed>>
    BY <1>2 DEF InsertRow
  <2>1. q \in Row /\ q.status = WrittenStatus(w) /\ ~q.deleted
    <3>1. FailureColumns(job[w]).url \in Urls /\ FailureColumns(job[w]).default \in BOOLEAN
      BY <1>0 DEF FailureColumns, Urls
    <3> QED BY <1>0, <3>1, WrittenRowIs
  <2> HIDE DEF q
  <2> QED BY <1>0, <1>2, <2>0, <2>1, WriteBase
<1> QED BY <1>0, <1>1, <1>2 DEF InsertRow

\* Only a failure marks a ledger row as freed, and is then at its commit.
LEMMA ReleaseUsageBase ==
  ASSUME BaseInv, NEW w \in Workers, ReleaseUsage(w)
  PROVE  BaseInv'
<1> USE DEF ReleaseUsage, Goto, tables, wvars, outputs
<1>1. TypeOK'
  BY DEF BaseInv, TypeOK, Steps
<1>2. ASSUME NEW v \in Workers PROVE Shape(v)' /\ Holding(v)'
  BY DEF BaseInv, TypeOK, Shape, Holding, WrittenStatus, StartSteps, CreditSteps,
         OutcomeSteps, Contested
<1>3. ASSUME NEW t \in Scans PROVE KeyHeld(t)'
  BY DEF BaseInv, TypeOK, KeyHeld, Shape, CreditSteps
<1>4. Requested'
  BY DEF BaseInv, TypeOK, Requested, KeyHeld
<1> QED BY <1>1, <1>2, <1>3, <1>4 DEF BaseInv

\* A commit gives up the row and the key of its worker, and every credit it
\* adds is a user's.
LEMMA CommitBase ==
  ASSUME BaseInv, NEW w \in Workers, Commit(w)
  PROVE  BaseInv'
<1> USE DEF Commit, Goto, tables, wvars, outputs
<1>1. TypeOK'
  BY DEF BaseInv, TypeOK, Steps
<1>2. ASSUME NEW v \in Workers PROVE Shape(v)' /\ Holding(v)'
  BY DEF BaseInv, TypeOK, Shape, Holding, WrittenStatus, StartSteps, CreditSteps,
         OutcomeSteps, Contested
<1>3. ASSUME NEW t \in Scans PROVE KeyHeld(t)'
  BY DEF BaseInv, TypeOK, KeyHeld, Shape, CreditSteps
<1>4. Requested'
  BY DEF BaseInv, TypeOK, Requested, KeyHeld
<1> QED BY <1>1, <1>2, <1>3, <1>4 DEF BaseInv

\* Writing the cache keeps the tables.
LEMMA SaveCacheBase ==
  ASSUME BaseInv, NEW w \in Workers, SaveCache(w)
  PROVE  BaseInv'
<1> USE DEF SaveCache, ReadyStatus, Goto, tables, wvars, outputs
<1>1. TypeOK'
  <2>1. /\ job[w] \in Scans /\ ReadyStatus(w) \in {"success", "failed"}
        /\ Url[job[w]] \in Urls
    BY DEF BaseInv, TypeOK, Shape, Urls
  <2>2. cache' \in [(Users \union {NilUser}) \X Urls ->
                     (Scans \X {"success", "failed"}) \union {None}]
    BY <2>1 DEF BaseInv, TypeOK
  <2> QED BY <2>2 DEF BaseInv, TypeOK, Steps
<1>2. ASSUME NEW v \in Workers PROVE Shape(v)' /\ Holding(v)'
  BY DEF BaseInv, TypeOK, Shape, Holding, WrittenStatus, StartSteps, CreditSteps,
         OutcomeSteps, Contested
<1>3. ASSUME NEW t \in Scans PROVE KeyHeld(t)'
  BY DEF BaseInv, TypeOK, KeyHeld, Shape, CreditSteps
<1>4. Requested'
  BY DEF BaseInv, TypeOK, Requested, KeyHeld
<1> QED BY <1>1, <1>2, <1>3, <1>4 DEF BaseInv

\* scan.ready is told about a scan, and the handler returns.
LEMMA PublishScanReadyBase ==
  ASSUME BaseInv, NEW w \in Workers, PublishScanReady(w)
  PROVE  BaseInv'
<1>1. job[w] \in Scans /\ ReadyStatus(w) \in {"success", "failed"}
  BY WorkingJob DEF PublishScanReady, ReadyStatus
<1>2. ready' \subseteq Scans \X {"success", "failed"}
  BY <1>1 DEF PublishScanReady, BaseInv, TypeOK
<1> QED BY <1>2, DoneBase DEF PublishScanReady

\* A handler that stops half-way leaves nothing behind.
LEMMA GiveUpBase ==
  ASSUME BaseInv, NEW w \in Workers, GiveUp(w)
  PROVE  BaseInv'
  BY DoneBase DEF GiveUp, outputs, BaseInv, TypeOK

\* A lost event was queued.
LEMMA LoseBase ==
  ASSUME BaseInv, NEW e \in Events, Lose(e)
  PROVE  BaseInv'
<1> USE DEF Lose, Goto, tables, wvars, outputs
<1>1. TypeOK'
  BY DEF BaseInv, TypeOK
<1>2. ASSUME NEW v \in Workers PROVE Shape(v)' /\ Holding(v)'
  BY DEF BaseInv, TypeOK, Shape, Holding, WrittenStatus, StartSteps, CreditSteps,
         OutcomeSteps, Contested
<1>3. ASSUME NEW t \in Scans PROVE KeyHeld(t)'
  BY DEF BaseInv, TypeOK, KeyHeld, Shape, CreditSteps
<1>4. Requested'
  BY DEF BaseInv, TypeOK, Requested, KeyHeld
<1> QED BY <1>1, <1>2, <1>3, <1>4 DEF BaseInv

\* A delete waits for the row, so no transaction holds what it removes.
LEMMA DeleteTLSScanBase ==
  ASSUME BaseInv, NEW s \in Scans, DeleteTLSScan(s)
  PROVE  BaseInv'
<1> USE DEF DeleteTLSScan, Live, Goto, tables, wvars, outputs
<1>1. TypeOK'
  <2>1. [row[s] EXCEPT !.deleted = TRUE] \in Row
    <3>1. row[s] \in Row
      BY DEF BaseInv, TypeOK
    <3> QED BY <3>1, RowRemoved
  <2>2. row' \in [Scans -> Row \union {None}]
    BY <2>1 DEF BaseInv, TypeOK
  <2>3. row[s].url \in Urls /\ Url[s] \in Urls
    BY DEF BaseInv, TypeOK, Row, Urls
  <2>4. uncaching' \subseteq Scans \X Urls
    BY <2>3 DEF BaseInv, TypeOK
  <2> QED BY <2>2, <2>4 DEF BaseInv, TypeOK
<1>2. ASSUME NEW v \in Workers PROVE Shape(v)' /\ Holding(v)'
  BY DEF BaseInv, TypeOK, Shape, Holding, WrittenStatus, StartSteps, CreditSteps,
         OutcomeSteps, Contested
<1>3. ASSUME NEW t \in Scans PROVE KeyHeld(t)'
  BY DEF BaseInv, TypeOK, KeyHeld, Shape, CreditSteps
<1>4. Requested'
  BY DEF BaseInv, TypeOK, Requested, KeyHeld
<1> QED BY <1>1, <1>2, <1>3, <1>4 DEF BaseInv

\* Removing a cache key keeps the tables.
LEMMA DeleteTLSCacheBase ==
  ASSUME BaseInv, NEW e \in Scans \X Urls, DeleteTLSCache(e)
  PROVE  BaseInv'
<1> USE DEF DeleteTLSCache, Goto, tables, wvars, outputs
<1>1. TypeOK'
  BY DEF BaseInv, TypeOK, Steps
<1>2. ASSUME NEW v \in Workers PROVE Shape(v)' /\ Holding(v)'
  BY DEF BaseInv, TypeOK, Shape, Holding, WrittenStatus, StartSteps, CreditSteps,
         OutcomeSteps, Contested
<1>3. ASSUME NEW t \in Scans PROVE KeyHeld(t)'
  BY DEF BaseInv, TypeOK, KeyHeld, Shape, CreditSteps
<1>4. Requested'
  BY DEF BaseInv, TypeOK, Requested, KeyHeld
<1> QED BY <1>1, <1>2, <1>3, <1>4 DEF BaseInv

\* Every step keeps what the handlers rely on.
LEMMA BaseStep == BaseInv /\ [Next]_vars => BaseInv'
<1> SUFFICES ASSUME BaseInv, [Next]_vars PROVE BaseInv'
  OBVIOUS
<1>1. ASSUME NEW w \in Workers, Step(w) PROVE BaseInv'
  BY <1>1, StartStatusBase, StartReplacedBase, StartCreateBase, StartReplaceBase,
     CompleteStatusBase, HasUsageBase, CountUsageBase, ReserveUsageBase, RecheckUsageBase,
     FailStatusBase, UpdateRowBase, InsertRowBase, ReleaseUsageBase, CommitBase,
     SaveCacheBase, PublishScanReadyBase DEF Step
<1>2. CASE UNCHANGED vars
  BY <1>2 DEF vars, tables, wvars, outputs, BaseInv, TypeOK, Shape, Holding, WrittenStatus,
              KeyHeld, Requested, Contested
<1> QED
  BY <1>1, <1>2, DeliverBase, GiveUpBase, LoseBase, DeleteTLSScanBase, DeleteTLSCacheBase
  DEF Next

\* The handlers' bookkeeping holds in every reachable state.
THEOREM TlsBase == Spec => []BaseInv
  BY InitBase, BaseStep, PTL DEF Spec

\* Type correctness, for every set of scans, users, workers and faults.
THEOREM TlsTypeCorrect == Spec => []TypeOK
<1>1. BaseInv => TypeOK
  BY DEF BaseInv
<1> QED BY <1>1, TlsBase, PTL
-----------------------------------------------------------------------------
(* What one step does to the tables, and to the workers that do not move.  *)

\* w takes a step of its own.
Moves(w) == (\E s \in Scans : Deliver(w, s)) \/ Step(w) \/ GiveUp(w)

\* A handler that returns leaves the tables and the other workers as they are.
LEMMA DoneEffect ==
  ASSUME BaseInv, NEW w \in Workers, Done(w)
  PROVE  /\ UNCHANGED <<row, ledger>>
         /\ \A v \in Workers \ {w} :
               /\ pc'[v] = pc[v] /\ job'[v] = job[v] /\ goal'[v] = goal[v]
               /\ pend'[v] = pend[v] /\ freed'[v] = freed[v]
               /\ \A s \in Scans : lock'[s] = v <=> lock[s] = v
               /\ \A s \in Scans : keyLock'[s] = v <=> keyLock[s] = v
  BY DEF Done, Goto, BaseInv, TypeOK

\* A transaction is its worker's own: a step of another worker, a delete or a
\* lost event changes nothing of it.
LEMMA Untouched ==
  ASSUME BaseInv, [Next]_vars, NEW v \in Workers, ~Moves(v)
  PROVE  /\ pc'[v] = pc[v] /\ job'[v] = job[v] /\ goal'[v] = goal[v]
         /\ pend'[v] = pend[v] /\ freed'[v] = freed[v]
         /\ \A s \in Scans : lock'[s] = v <=> lock[s] = v
         /\ \A s \in Scans : keyLock'[s] = v <=> keyLock[s] = v
<1> DEFINE Same ==
      /\ pc'[v] = pc[v] /\ job'[v] = job[v] /\ goal'[v] = goal[v]
      /\ pend'[v] = pend[v] /\ freed'[v] = freed[v]
      /\ \A s \in Scans : lock'[s] = v <=> lock[s] = v
      /\ \A s \in Scans : keyLock'[s] = v <=> keyLock[s] = v
<1> SUFFICES Same
  OBVIOUS
<1>1. ASSUME NEW w \in Workers, NEW s \in Scans, Deliver(w, s) PROVE Same
  BY <1>1 DEF Moves, Deliver, Goto, tables, BaseInv, TypeOK
<1>2. ASSUME NEW w \in Workers, Step(w) \/ GiveUp(w) PROVE Same
  <2>0. w # v
    BY <1>2 DEF Moves
  <2>1. CASE Done(w)
    BY <2>0, <2>1, DoneEffect
  <2>2. CASE Step(w) /\ ~Done(w)
    <3>1. CASE StartStatus(w) \/ StartReplaced(w) \/ StartCreate(w) \/ StartReplace(w)
      BY <2>0, <2>2, <3>1
      DEF StartStatus, StartReplaced, StartCreate, StartReplace, Goto, tables, BaseInv, TypeOK
    <3>2. CASE CompleteStatus(w) \/ HasUsage(w) \/ CountUsage(w) \/ RecheckUsage(w) \/ FailStatus(w)
      BY <2>0, <2>2, <3>2
      DEF CompleteStatus, HasUsage, CountUsage, RecheckUsage, FailStatus, Goto, tables,
          BaseInv, TypeOK
    <3>3. CASE ReserveUsage(w)
      <4>1. job[w] \in Scans
        BY <3>3, WorkingJob DEF ReserveUsage
      <4> QED BY <2>0, <3>3, <4>1 DEF ReserveUsage, Goto, BaseInv, TypeOK
    <3>4. CASE UpdateRow(w) \/ InsertRow(w)
      <4>1. job[w] \in Scans
        BY <3>4, WorkingJob DEF UpdateRow, InsertRow
      <4>2. /\ \/ lock' = lock
               \/ lock[job[w]] = None /\ lock' = [lock EXCEPT ![job[w]] = w]
            /\ UNCHANGED <<keyLock, job, goal, freed>>
        BY <2>2, <3>4 DEF UpdateRow, InsertRow
      <4>3. pend' = pend \/ \E q : pend' = [pend EXCEPT ![w] = q]
        BY <2>2, <3>4 DEF UpdateRow, InsertRow
      <4>4. \E p : pc' = [pc EXCEPT ![w] = p]
        BY <2>2, <3>4 DEF UpdateRow, InsertRow, AfterWrite, Goto
      <4> QED BY <2>0, <4>1, <4>2, <4>3, <4>4 DEF BaseInv, TypeOK
    <3>5. CASE ReleaseUsage(w) \/ Commit(w) \/ SaveCache(w)
      BY <2>0, <3>5 DEF ReleaseUsage, Commit, SaveCache, Goto, tables, BaseInv, TypeOK
    <3> QED BY <2>2, <3>1, <3>2, <3>3, <3>4, <3>5 DEF Step, PublishScanReady
  <2> QED BY <1>2, <2>1, <2>2 DEF GiveUp
<1>3. ASSUME NEW e \in Events, Lose(e) PROVE Same
  BY <1>3 DEF Lose, tables, wvars
<1>4. CASE \/ \E s \in Scans : DeleteTLSScan(s)
           \/ \E e \in Scans \X Urls : DeleteTLSCache(e)
  BY <1>4 DEF DeleteTLSScan, DeleteTLSCache, tables, wvars
<1>5. CASE UNCHANGED vars
  BY <1>5 DEF vars, tables, wvars
<1> QED BY <1>1, <1>2, <1>3, <1>4, <1>5 DEF Next

\* A commit replaces an absent or live row by its outcome, and moves at most
\* the credit of its own scan.
LEMMA CommitEffect ==
  ASSUME BaseInv, NEW w \in Workers, Commit(w)
  PROVE  /\ job[w] \in Scans
         /\ row' = [row EXCEPT ![job[w]] = pend[w]]
         /\ pend[w] \in Row /\ pend[w].status = WrittenStatus(w) /\ ~pend[w].deleted
         /\ row[job[w]] # None => row[job[w]] \in Row /\ ~row[job[w]].deleted
         /\ ledger' = IF keyLock[job[w]] = w THEN ledger \union {job[w]}
                      ELSE IF freed[w] THEN ledger \ {job[w]} ELSE ledger
         /\ keyLock[job[w]] = w => goal[w] = "SUCCESS" /\ ~OfCatalog(job[w])
         /\ freed[w] => goal[w] = "FAILED"
<1>1. job[w] \in Scans /\ pc[w] = "commit"
  BY WorkingJob DEF Commit
<1>2. /\ pend[w] \in Row /\ pend[w].status = WrittenStatus(w) /\ ~pend[w].deleted
      /\ row[job[w]] # None => row[job[w]] \in Row /\ ~row[job[w]].deleted
      /\ freed[w] => goal[w] = "FAILED"
  BY <1>1 DEF BaseInv, Holding, TypeOK
<1>3. keyLock[job[w]] = w => goal[w] = "SUCCESS" /\ ~OfCatalog(job[w])
  BY <1>1 DEF BaseInv, KeyHeld
<1>4. \A s \in Scans : keyLock[s] = w => s = job[w]
  BY DEF BaseInv, KeyHeld
<1>5. {s \in Scans : keyLock[s] = w} = IF keyLock[job[w]] = w THEN {job[w]} ELSE {}
  BY <1>1, <1>4
<1>6. ledger' = (ledger \union (IF keyLock[job[w]] = w THEN {job[w]} ELSE {}))
                  \ (IF freed[w] THEN {job[w]} ELSE {})
  BY <1>5 DEF Commit
<1>7. ledger' = IF keyLock[job[w]] = w THEN ledger \union {job[w]}
                ELSE IF freed[w] THEN ledger \ {job[w]} ELSE ledger
  BY <1>2, <1>3, <1>6
<1> QED BY <1>1, <1>2, <1>3, <1>7 DEF Commit

\* A row appears RUNNING, is removed with its status, or is committed by the
\* worker that wrote it; the ledger moves by commits only.
LEMMA TableEffect ==
  ASSUME BaseInv, [Next]_vars
  PROVE  \/ \E w \in Workers : Commit(w)
         \/ /\ ledger' = ledger
            /\ \A s \in Scans :
                  \/ row'[s] = row[s]
                  \/ /\ row[s] = None /\ row'[s] # None /\ row'[s].status = "RUNNING"
                     /\ \E w \in Workers : StartCreate(w)
                  \/ /\ row[s] # None /\ ~row[s].deleted
                     /\ row'[s] # None /\ row'[s].deleted
                     /\ row'[s].status = row[s].status
<1> DEFINE Kept ==
      /\ ledger' = ledger
      /\ \A s \in Scans :
            \/ row'[s] = row[s]
            \/ /\ row[s] = None /\ row'[s] # None /\ row'[s].status = "RUNNING"
               /\ \E w \in Workers : StartCreate(w)
            \/ /\ row[s] # None /\ ~row[s].deleted
               /\ row'[s] # None /\ row'[s].deleted
               /\ row'[s].status = row[s].status
<1> SUFFICES ASSUME ~\E w \in Workers : Commit(w) PROVE Kept
  OBVIOUS
<1>0. ASSUME UNCHANGED <<row, ledger>> PROVE Kept
  BY <1>0
<1>1. ASSUME NEW w \in Workers, StartCreate(w) PROVE Kept
  <2>1. CASE Done(w)
    BY <2>1, <1>0 DEF Done
  <2>2. CASE ~Done(w)
    <3>1. job[w] \in Scans /\ row[job[w]] = None
      BY <1>1, <2>2, WorkingJob DEF StartCreate
    <3>2. StartedRow(job[w]) # None /\ StartedRow(job[w]).status = "RUNNING"
      BY <3>1, StartedRowIs
    <3>3. ledger' = ledger /\ row' = [row EXCEPT ![job[w]] = StartedRow(job[w])]
      BY <1>1, <2>2 DEF StartCreate
    <3> QED BY <1>1, <3>1, <3>2, <3>3 DEF BaseInv, TypeOK
  <2> QED BY <2>1, <2>2
<1>2. ASSUME NEW w \in Workers, StartReplace(w) PROVE Kept
  <2>1. ASSUME NEW s \in Scans, row'[s] # row[s]
        PROVE  Live(s) /\ row'[s] = [row[s] EXCEPT !.deleted = TRUE]
    BY <1>2, <2>1 DEF StartReplace, Previous
  <2>2. ASSUME NEW s \in Scans, Live(s) PROVE row[s] \in Row
    BY <2>2 DEF Live, BaseInv, TypeOK
  <2>3. ASSUME NEW s \in Scans, row'[s] # row[s]
        PROVE  /\ row[s] # None /\ ~row[s].deleted /\ row'[s] # None
               /\ row'[s].deleted /\ row'[s].status = row[s].status
    <3>1. row[s] \in Row /\ row'[s] \in Row
      BY <2>1, <2>2, <2>3, RowRemoved
    <3> QED BY <2>1, <2>3, <3>1, RowRemoved DEF Live
  <2> QED BY <1>2, <2>3 DEF StartReplace
<1>3. ASSUME NEW s \in Scans, DeleteTLSScan(s) PROVE Kept
  <2>1. row[s] \in Row /\ ~row[s].deleted
    BY <1>3 DEF DeleteTLSScan, Live, BaseInv, TypeOK
  <2>2. ledger' = ledger /\ row' = [row EXCEPT ![s] = [row[s] EXCEPT !.deleted = TRUE]]
    BY <1>3 DEF DeleteTLSScan
  <2> DEFINE gone == [row[s] EXCEPT !.deleted = TRUE]
  <2>3. gone \in Row /\ gone.status = row[s].status /\ gone.deleted
    BY <2>1, RowRemoved
  <2> HIDE DEF gone
  <2>4. row' = [row EXCEPT ![s] = gone]
    BY <2>2 DEF gone
  <2>5. row'[s] = gone /\ \A t \in Scans \ {s} : row'[t] = row[t]
    BY <2>4 DEF BaseInv, TypeOK
  <2>6. row[s] # None /\ gone # None
    BY <2>1, <2>3
  <2> QED BY <2>1, <2>2, <2>3, <2>5, <2>6
<1>4. ASSUME NEW w \in Workers, Step(w) \/ GiveUp(w), ~StartCreate(w), ~StartReplace(w)
      PROVE UNCHANGED <<row, ledger>>
  <2>1. CASE Done(w)
    BY <2>1 DEF Done
  <2>2. CASE ~Done(w)
    BY <1>4, <2>2 DEF Step, GiveUp, StartStatus, StartReplaced, CompleteStatus, HasUsage,
       CountUsage, ReserveUsage, RecheckUsage, FailStatus, UpdateRow, InsertRow, ReleaseUsage,
       SaveCache, PublishScanReady, tables
  <2> QED BY <2>1, <2>2
<1>5. CASE \/ \E w \in Workers, s \in Scans : Deliver(w, s)
           \/ \E e \in Events : Lose(e)
           \/ \E e \in Scans \X Urls : DeleteTLSCache(e)
           \/ UNCHANGED vars
  BY <1>5, <1>0 DEF Deliver, Lose, DeleteTLSCache, vars, tables
<1> QED BY <1>0, <1>1, <1>2, <1>3, <1>4, <1>5 DEF Next
-----------------------------------------------------------------------------
(* OutcomeAnnounced: no step between the commit and scan.ready loses the   *)
(* outcome, whoever else overwrites the row, as long as no step fails.     *)

\* After its commit a handler writes the cache and announces its outcome.
LEMMA LateSteps ==
  ASSUME NEW v \in Workers, Moves(v), "fail" \notin Faults, pc[v] \in {"redis", "publish"}
  PROVE  SaveCache(v) \/ PublishScanReady(v)
  BY DEF Moves, Deliver, GiveUp, Step, StartStatus, StartReplaced, StartCreate, StartReplace,
         CompleteStatus, HasUsage, CountUsage, ReserveUsage, RecheckUsage, FailStatus,
         UpdateRow, InsertRow, ReleaseUsage, Commit

\* What was announced stays announced.
LEMMA ReadyGrows ==
  ASSUME [Next]_vars
  PROVE  ready \subseteq ready'
  BY DEF Next, vars, outputs, Deliver, GiveUp, Lose, DeleteTLSScan, DeleteTLSCache, Step,
         StartStatus, StartReplaced, StartCreate, StartReplace, CompleteStatus, HasUsage,
         CountUsage, ReserveUsage, RecheckUsage, FailStatus, UpdateRow, InsertRow,
         ReleaseUsage, Commit, SaveCache, PublishScanReady

\* A worker past its commit stays there with its outcome until it has announced it.
LEMMA LateWorker ==
  ASSUME BaseInv, [Next]_vars, "fail" \notin Faults,
         NEW v \in Workers, pc[v] \in {"redis", "publish"}
  PROVE  \/ <<job[v], ReadyStatus(v)>> \in ready'
         \/ pc'[v] \in {"redis", "publish"} /\ job'[v] = job[v] /\ goal'[v] = goal[v]
<1>1. CASE ~Moves(v)
  BY <1>1, Untouched
<1>2. CASE SaveCache(v)
  BY <1>2 DEF SaveCache, Goto, BaseInv, TypeOK
<1>3. CASE PublishScanReady(v)
  BY <1>3 DEF PublishScanReady
<1> QED BY <1>1, <1>2, <1>3, LateSteps

\* A committed outcome is announced or its handler is about to announce it.
LEMMA AnnouncingStep ==
  ASSUME BaseInv, Announcing, [Next]_vars, "fail" \notin Faults
  PROVE  Announcing'
<1> DEFINE Word(st) == IF st = "SUCCESS" THEN "success" ELSE "failed"
<1> SUFFICES ASSUME NEW s \in Scans, Terminal(s)'
             PROVE  \/ <<s, Word(row'[s].status)>> \in ready'
                    \/ \E w \in Workers :
                          /\ job'[w] = s /\ pc'[w] \in {"redis", "publish"}
                          /\ goal'[w] = "SUCCESS" <=> row'[s].status = "SUCCESS"
  BY DEF Announcing
<1>1. ASSUME NEW w \in Workers, Commit(w), job[w] = s
      PROVE  /\ job'[w] = s /\ pc'[w] \in {"redis", "publish"}
             /\ goal'[w] = "SUCCESS" <=> row'[s].status = "SUCCESS"
  <2>1. row'[s] = pend[w] /\ pend[w].status = WrittenStatus(w)
    BY <1>1, CommitEffect DEF BaseInv, TypeOK
  <2>2. goal'[w] = goal[w] /\ job'[w] = s /\ pc'[w] \in {"redis", "publish"}
    BY <1>1 DEF Commit, Goto, BaseInv, TypeOK
  <2> QED BY <2>1, <2>2 DEF WrittenStatus
<1>2. ASSUME \A w \in Workers : ~(Commit(w) /\ job[w] = s)
      PROVE  Terminal(s) /\ row[s].status = row'[s].status
  <2>1. CASE \E w \in Workers : Commit(w)
    <3>1. PICK w \in Workers : Commit(w)
      BY <2>1
    <3>2. row'[s] = row[s]
      BY <1>2, <3>1, CommitEffect DEF BaseInv, TypeOK
    <3> QED BY <3>2 DEF Terminal
  <2>2. CASE ~\E w \in Workers : Commit(w)
    BY <2>2, TableEffect DEF Terminal, IsTerminal, TerminalStates
  <2> QED BY <2>1, <2>2
<1>3. CASE \A w \in Workers : ~(Commit(w) /\ job[w] = s)
  <2>1. CASE <<s, Word(row[s].status)>> \in ready
    BY <1>2, <1>3, <2>1, ReadyGrows
  <2>2. ASSUME NEW v \in Workers, job[v] = s, pc[v] \in {"redis", "publish"},
               goal[v] = "SUCCESS" <=> row[s].status = "SUCCESS"
        PROVE  \/ <<s, Word(row'[s].status)>> \in ready'
               \/ /\ job'[v] = s /\ pc'[v] \in {"redis", "publish"}
                  /\ goal'[v] = "SUCCESS" <=> row'[s].status = "SUCCESS"
    BY <1>2, <1>3, <2>2, LateWorker DEF ReadyStatus
  <2> QED BY <1>2, <1>3, <2>1, <2>2 DEF Announcing
<1> QED BY <1>1, <1>3

\* Once every event is handled, the outcome each scan ended with was
\* announced on scan.ready, for any number of instances and of copies of
\* either outcome, lost events and misread statuses; only a step that fails
\* after the commit can prevent it.
THEOREM TlsOutcomeAnnounced ==
  ASSUME "fail" \notin Faults
  PROVE  Spec => []OutcomeAnnounced
<1>1. Init => Announcing
  BY DEF Init, Announcing, Terminal
<1>2. BaseInv /\ Announcing /\ [Next]_vars => Announcing'
  BY AnnouncingStep
<1>3. BaseInv /\ Announcing => OutcomeAnnounced
  BY DEF Announcing, OutcomeAnnounced, Quiet, Terminal
<1> QED BY <1>1, <1>2, <1>3, TlsBase, PTL DEF Spec
-----------------------------------------------------------------------------
(* CatalogKept: an outcome of a listed row writes the columns it has, and  *)
(* the row that replaces others lists their URL.                           *)

\* How the row of a scan changes: what is not a commit of its own handler finds
\* it held by nobody.
LEMMA RowEffect ==
  ASSUME BaseInv, [Next]_vars, NEW s \in Scans, row'[s] # row[s]
  PROVE  \/ \E w \in Workers : Commit(w) /\ job[w] = s
         \/ lock[s] = None /\ row[s] = None /\ row'[s] = StartedRow(s)
         \/ /\ lock[s] = None /\ row[s] \in Row /\ row'[s] = [row[s] EXCEPT !.deleted = TRUE]
            /\ \/ \E w \in Workers :
                    StartReplace(w) /\ OfCatalog(job[w]) /\ s \in Previous(job[w])
               \/ ~row[s].default
<1> DEFINE Goal ==
      \/ \E w \in Workers : Commit(w) /\ job[w] = s
      \/ lock[s] = None /\ row[s] = None /\ row'[s] = StartedRow(s)
      \/ /\ lock[s] = None /\ row[s] \in Row /\ row'[s] = [row[s] EXCEPT !.deleted = TRUE]
         /\ \/ \E w \in Workers :
                 StartReplace(w) /\ OfCatalog(job[w]) /\ s \in Previous(job[w])
            \/ ~row[s].default
<1>1. ASSUME NEW w \in Workers, Commit(w) PROVE Goal
  <2>1. job[w] = s
    BY <1>1, CommitEffect DEF BaseInv, TypeOK
  <2> QED BY <1>1, <2>1
<1>2. ASSUME NEW w \in Workers, StartReplace(w) PROVE Goal
  <2>1. OfCatalog(job[w]) /\ s \in Previous(job[w])
    BY <1>2 DEF StartReplace
  <2>2. lock[s] = None /\ row'[s] = [row[s] EXCEPT !.deleted = TRUE]
    BY <1>2, <2>1 DEF StartReplace
  <2>3. row[s] \in Row
    BY <2>1 DEF Previous, Live, BaseInv, TypeOK
  <2> QED BY <1>2, <2>1, <2>2, <2>3
<1>3. ASSUME NEW w \in Workers, StartCreate(w) PROVE Goal
  <2>1. job[w] \in Scans /\ ~Done(w)
    BY <1>3, WorkingJob DEF StartCreate, Done
  <2>2. /\ row[job[w]] = None /\ lock[job[w]] = None
        /\ row' = [row EXCEPT ![job[w]] = StartedRow(job[w])]
    BY <1>3, <2>1 DEF StartCreate
  <2>3. job[w] = s
    BY <2>2 DEF BaseInv, TypeOK
  <2> QED BY <2>1, <2>2, <2>3 DEF BaseInv, TypeOK
<1>4. ASSUME NEW t \in Scans, DeleteTLSScan(t) PROVE Goal
  <2>1. row' = [row EXCEPT ![t] = [row[t] EXCEPT !.deleted = TRUE]]
    BY <1>4 DEF DeleteTLSScan
  <2>2. t = s
    BY <2>1 DEF BaseInv, TypeOK
  <2> QED BY <1>4, <2>1, <2>2 DEF DeleteTLSScan, Live, BaseInv, TypeOK
<1>5. \/ \E w \in Workers : Commit(w) \/ StartReplace(w) \/ StartCreate(w)
      \/ \E t \in Scans : DeleteTLSScan(t)
      \/ UNCHANGED row
  BY DEF Next, Step, vars, tables, Deliver, GiveUp, Lose, DeleteTLSCache, Done,
         StartStatus, StartReplaced, CompleteStatus, HasUsage, CountUsage, ReserveUsage,
         RecheckUsage, FailStatus, UpdateRow, InsertRow, ReleaseUsage, SaveCache,
         PublishScanReady
<1> QED BY <1>1, <1>2, <1>3, <1>4, <1>5

\* The row that an open transaction replaces stays as it is until the transaction moves.
LEMMA HeldRow ==
  ASSUME BaseInv, [Next]_vars, NEW w \in Workers, ~Moves(w), pend[w] # None
  PROVE  job[w] \in Scans /\ row'[job[w]] = row[job[w]]
<1>1. job[w] \in Scans /\ lock[job[w]] = w
  BY WorkingJob DEF BaseInv, Holding
<1>2. ASSUME NEW v \in Workers, Commit(v), job[v] = job[w] PROVE FALSE
  <2>1. lock[job[v]] = v
    BY <1>2 DEF Commit, BaseInv, Holding
  <2>2. v = w
    BY <1>1, <1>2, <2>1
  <2> QED BY <1>2, <2>2 DEF Moves, Step
<1>3. w # None
  OBVIOUS
<1>4. CASE row'[job[w]] # row[job[w]]
  BY <1>1, <1>2, <1>3, <1>4, RowEffect
<1> QED BY <1>1, <1>4

\* An outcome is written with the columns of its result or with those of the
\* row it found.
LEMMA PendingStep ==
  ASSUME BaseInv, Columns, [Next]_vars, NEW w \in Workers
  PROVE  Pending(w)'
<1> SUFFICES ASSUME pend'[w] # None
             PROVE  \/ SameColumns(pend'[w], Result[job'[w]])
                    \/ /\ row'[job'[w]] = None
                       /\ SameColumns(pend'[w], FailureColumns(job'[w]))
                    \/ row'[job'[w]] # None /\ SameColumns(pend'[w], row'[job'[w]])
  BY DEF Pending, FailureColumns, SameColumns
<1>1. CASE ~Moves(w)
  <2>1. pend'[w] = pend[w] /\ job'[w] = job[w]
    BY <1>1, Untouched
  <2>2. row'[job[w]] = row[job[w]]
    BY <1>1, <2>1, HeldRow
  <2> QED BY <2>1, <2>2 DEF Columns, Pending
<1>2. CASE UpdateRow(w) /\ pend'[w] # pend[w]
  <2>1. job[w] \in Scans /\ Live(job[w]) /\ job' = job /\ row' = row
    BY <1>2, WorkingJob DEF UpdateRow
  <2>2. pend'[w] = NewRow(WrittenStatus(w), WrittenColumns(w, row[job[w]]))
    BY <1>2 DEF UpdateRow, BaseInv, TypeOK
  <2>3. row[job[w]].url \in Urls /\ row[job[w]].default \in BOOLEAN
    BY <2>1 DEF Live, BaseInv, TypeOK, Row
  <2>4. SameColumns(pend'[w], Result[job[w]]) \/ SameColumns(pend'[w], row[job[w]])
    BY <2>1, <2>2, <2>3, WrittenRowIs
  <2> QED BY <2>1, <2>4 DEF Live
<1>3. CASE InsertRow(w) /\ pend'[w] # pend[w]
  <2>0. ~Done(w)
    BY <1>3 DEF Done, BaseInv, TypeOK
  <2>1. job[w] \in Scans /\ row[job[w]] = None /\ job' = job /\ row' = row
    BY <1>3, <2>0, WorkingJob DEF InsertRow
  <2>2. pend'[w] = NewRow(WrittenStatus(w), WrittenColumns(w, FailureColumns(job[w])))
    BY <1>3, <2>0 DEF InsertRow, BaseInv, TypeOK
  <2>3. FailureColumns(job[w]).url \in Urls /\ FailureColumns(job[w]).default \in BOOLEAN
    BY <2>1 DEF FailureColumns, Urls
  <2>4. \/ SameColumns(pend'[w], Result[job[w]])
        \/ SameColumns(pend'[w], FailureColumns(job[w]))
    BY <2>1, <2>2, <2>3, WrittenRowIs
  <2> QED BY <2>1, <2>4
<1>4. CASE Moves(w) /\ pend'[w] = pend[w]
  <2>1. pc[w] \in {"release", "commit"}
    BY <1>4 DEF BaseInv, Holding
  <2>2. ReleaseUsage(w)
    BY <1>4, <2>1 DEF Moves, Deliver, GiveUp, Step, Done, StartStatus, StartReplaced,
       StartCreate, StartReplace, CompleteStatus, HasUsage, CountUsage, ReserveUsage,
       RecheckUsage, FailStatus, UpdateRow, InsertRow, Commit, SaveCache, PublishScanReady,
       BaseInv, TypeOK
  <2> QED BY <1>4, <2>2 DEF ReleaseUsage, tables, Columns, Pending
<1>5. CASE Moves(w) /\ pend'[w] # pend[w]
  <2>1. CASE Done(w) \/ Commit(w)
    BY <2>1 DEF Done, Commit, BaseInv, TypeOK
  <2>2. UpdateRow(w) \/ InsertRow(w) \/ Done(w) \/ Commit(w)
    BY <1>5 DEF Moves, Deliver, GiveUp, Step, StartStatus, StartReplaced, StartCreate,
       StartReplace, CompleteStatus, HasUsage, CountUsage, ReserveUsage, RecheckUsage,
       FailStatus, ReleaseUsage, SaveCache, PublishScanReady
  <2> QED BY <1>2, <1>3, <1>5, <2>1, <2>2
<1> QED BY <1>1, <1>4, <1>5

\* Every stored row keeps the columns of its result or of its scan.
LEMMA ColumnsStep ==
  ASSUME BaseInv, Columns, [Next]_vars
  PROVE  Columns'
<1> SUFFICES ASSUME NEW s \in Scans, row'[s] # None PROVE Origin(s, row'[s])
  BY PendingStep DEF Columns, Origin, SameColumns, OfCatalog
<1>1. CASE row'[s] = row[s]
  BY <1>1 DEF Columns
<1>2. ASSUME NEW w \in Workers, Commit(w), job[w] = s PROVE Origin(s, row'[s])
  <2>1. row'[s] = pend[w] /\ pend[w] # None
    BY <1>2, CommitEffect DEF BaseInv, TypeOK, Commit, Holding
  <2>2. Pending(w) /\ (row[s] # None => Origin(s, row[s]))
    BY DEF Columns
  <2> QED BY <1>2, <2>1, <2>2 DEF Pending, Origin, SameColumns, FailureColumns
<1>3. CASE row'[s] = StartedRow(s)
  BY <1>3, StartedRowIs DEF Origin, SameColumns
<1>4. CASE row[s] \in Row /\ row'[s] = [row[s] EXCEPT !.deleted = TRUE]
  <2>1. SameColumns(row'[s], row[s]) /\ row[s] # None
    BY <1>4, RowRemoved
  <2> QED BY <2>1 DEF Columns, Origin, SameColumns
<1> QED BY <1>1, <1>2, <1>3, <1>4, RowEffect

\* A row that lists a URL goes on listing it through outcomes and deletes, so
\* only scan.started takes it out of the catalog.
LEMMA ListedRows ==
  ASSUME BaseInv, Columns, [Next]_vars,
         NEW u \in EchoedUrls, NEW s \in Scans, Lists(s, u)
  PROVE  \/ Lists(s, u)'
         \/ \E w \in Workers : StartReplace(w) /\ OfCatalog(job[w]) /\ s \in Previous(job[w])
<1>1. CASE row'[s] = row[s]
  BY <1>1 DEF Lists, Live
<1>2. ASSUME NEW w \in Workers, Commit(w), job[w] = s PROVE Lists(s, u)'
  <2>1. row'[s] = pend[w] /\ pend[w] \in Row /\ ~pend[w].deleted
    BY <1>2, CommitEffect DEF BaseInv, TypeOK
  <2>2. row[s] # None /\ row[s].default /\ row[s].url = u
    BY DEF Lists, Live
  <2>3. Origin(s, row[s]) /\ Pending(w)
    BY <2>2 DEF Columns
  <2>4. Result[s].url = u /\ Result[s].default
    <3>1. CASE SameColumns(row[s], Result[s])
      BY <2>2, <3>1 DEF SameColumns
    <3>2. CASE row[s].url = Url[s] /\ OfCatalog(s)
      <4>1. Result[s] = [url |-> u, default |-> TRUE]
        BY <2>2, <3>2 DEF EchoedUrls
      <4> QED BY <4>1
    <3> QED BY <2>2, <2>3, <3>1, <3>2 DEF Origin
  <2>5. pend[w].url = u /\ pend[w].default
    BY <1>2, <2>1, <2>2, <2>3, <2>4 DEF Pending, SameColumns
  <2> QED BY <2>1, <2>5 DEF Lists, Live
<1> QED BY <1>1, <1>2, RowEffect DEF Lists, Live

\* With one started worker nobody removes the row it is about to keep.
LEMMA ReplacingStep ==
  ASSUME BaseInv, Columns, Replacing, [Next]_vars, SoleStarter
  PROVE  Replacing'
<1> SUFFICES ASSUME NEW w \in Workers, pc'[w] = "replace", OfCatalog(job'[w]),
                    Url[job'[w]] \in EchoedUrls
             PROVE  /\ row'[job'[w]] # None /\ ~row'[job'[w]].deleted
                    /\ row'[job'[w]].default /\ row'[job'[w]].url = Url[job'[w]]
  BY DEF Replacing, Lists, Live, OfCatalog, EchoedUrls, Urls
<1>1. CASE ~Moves(w)
  <2>1. pc[w] = "replace" /\ job'[w] = job[w] /\ OfCatalog(job[w])
    BY <1>1, Untouched
  <2>2. job[w] \in Scans /\ Lists(job[w], Url[job[w]]) /\ Subject[w] = "started"
    BY <2>1, WorkingJob DEF Replacing, BaseInv, Shape, StartSteps
  <2>3. ASSUME NEW v \in Workers, StartReplace(v) PROVE v = w
    BY <2>2, <2>3 DEF SoleStarter, StartReplace, BaseInv, Shape, StartSteps
  <2>4. ASSUME NEW v \in Workers, StartReplace(v) PROVE FALSE
    BY <1>1, <2>3, <2>4 DEF Moves, Step
  <2>5. ASSUME NEW s \in Scans, NEW u \in EchoedUrls, Lists(s, u) PROVE Lists(s, u)'
    BY <2>4, <2>5, ListedRows
  <2>6. ASSUME NEW s \in Scans, NEW u \in EchoedUrls, Lists(s, u)
        PROVE  row'[s] # None /\ ~row'[s].deleted /\ row'[s].default /\ row'[s].url = u
    BY <2>5, <2>6 DEF Lists, Live
  <2> QED BY <2>1, <2>2, <2>6
<1>2. CASE Moves(w)
  <2>1. StartCreate(w)
    BY <1>2 DEF Moves, Deliver, GiveUp, Step, Goto, Done, StartStatus, StartReplaced,
       StartReplace, CompleteStatus, HasUsage, CountUsage, ReserveUsage, RecheckUsage,
       FailStatus, UpdateRow, InsertRow, ReleaseUsage, Commit, SaveCache, PublishScanReady,
       AfterWrite, BaseInv, TypeOK
  <2>2. job[w] \in Scans /\ ~Done(w)
    BY <2>1, WorkingJob DEF StartCreate, Done, Goto, BaseInv, TypeOK
  <2>3. job' = job /\ row'[job[w]] = StartedRow(job[w])
    BY <2>1, <2>2 DEF StartCreate, BaseInv, TypeOK
  <2> QED BY <2>2, <2>3, StartedRowIs DEF SameColumns
<1> QED BY <1>1, <1>2

\* A URL that the catalog lists never drops out of it through a replacement, a
\* delete, or an outcome that rewrites url and default, when one worker handles
\* scan.started and the results of the URL's own catalog scans repeat its url
\* and default; two workers could replace each other's rows.
THEOREM TlsCatalogKept ==
  ASSUME SoleStarter
  PROVE  Spec => CatalogKept
<1>1. Init => Columns /\ Replacing
  BY DEF Init, Columns, Pending, Replacing
<1>2. BaseInv /\ Columns /\ Replacing /\ [Next]_vars => Columns' /\ Replacing'
  BY ColumnsStep, ReplacingStep
<1>3. BaseInv /\ Columns /\ Replacing /\ [Next]_vars
      => [\A u \in EchoedUrls : Catalogued(u) => Catalogued(u)']_vars
  <2> SUFFICES ASSUME BaseInv, Columns, Replacing, [Next]_vars,
                      NEW u \in EchoedUrls, NEW s \in Scans, Lists(s, u)
               PROVE  \E t \in Scans : Lists(t, u)'
    BY DEF Catalogued, Lists, Live
  <2>1. ASSUME NEW w \in Workers, StartReplace(w), OfCatalog(job[w]), s \in Previous(job[w])
        PROVE  job[w] \in Scans /\ Lists(job[w], u) /\ row'[job[w]] = row[job[w]]
    <3>1. job[w] \in Scans /\ pc[w] = "replace"
      BY <2>1, WorkingJob DEF StartReplace
    <3>2. Url[job[w]] = u
      BY <2>1 DEF Previous, Lists
    <3>3. row'[job[w]] = row[job[w]]
      BY <2>1, <3>1 DEF StartReplace, Previous
    <3> QED BY <2>1, <3>1, <3>2, <3>3 DEF Replacing
  <2>2. ASSUME NEW t \in Scans, Lists(t, u), row'[t] = row[t] PROVE Lists(t, u)'
    BY <2>2 DEF Lists, Live
  <2>3. ASSUME NEW w \in Workers, StartReplace(w), OfCatalog(job[w]), s \in Previous(job[w])
        PROVE  \E t \in Scans : Lists(t, u)'
    <3>1. \A t \in Scans : t = job[w] => Lists(t, u)'
      BY <2>1, <2>2, <2>3
    <3> QED BY <2>1, <2>3, <3>1
  <2> QED BY <2>3, ListedRows
<1> QED BY <1>1, <1>2, <1>3, TlsBase, PTL DEF Spec, CatalogKept
-----------------------------------------------------------------------------
(* QuotaRespected: the count that precedes an insert is still right when   *)
(* the insert commits.                                                     *)

\* The credits of a user in a ledger L.
CreditsIn(L, u) == {s \in L : Owner[s] = u}

\* The credits of a user are finitely many.
LEMMA CreditCount ==
  ASSUME NEW L \in SUBSET Scans, NEW u
  PROVE  IsFiniteSet(CreditsIn(L, u)) /\ Cardinality(CreditsIn(L, u)) \in Nat
<1>1. CreditsIn(L, u) \subseteq Scans
  BY DEF CreditsIn
<1> QED BY <1>1, FS_Subset, FS_CardinalityType

\* Fewer credits do not count more.
LEMMA FewerCredits ==
  ASSUME NEW L \in SUBSET Scans, NEW M \in SUBSET L, NEW u
  PROVE  Cardinality(CreditsIn(M, u)) <= Cardinality(CreditsIn(L, u))
<1>1. CreditsIn(M, u) \subseteq CreditsIn(L, u)
  BY DEF CreditsIn
<1>2. IsFiniteSet(CreditsIn(L, u))
  BY CreditCount
<1> QED BY <1>1, <1>2, FS_Subset

\* One more credit counts at most one more.
LEMMA OneMoreCredit ==
  ASSUME NEW L \in SUBSET Scans, NEW s \in Scans, NEW u
  PROVE  Cardinality(CreditsIn(L \union {s}, u)) <=
            IF Owner[s] = u THEN Cardinality(CreditsIn(L, u)) + 1
            ELSE Cardinality(CreditsIn(L, u))
<1>1. IsFiniteSet(CreditsIn(L, u)) /\ Cardinality(CreditsIn(L, u)) \in Nat
  BY CreditCount
<1>2. CASE Owner[s] = u
  <2>1. CreditsIn(L \union {s}, u) = CreditsIn(L, u) \union {s}
    BY <1>2 DEF CreditsIn
  <2>2. Cardinality(CreditsIn(L, u) \union {s}) \in
           {Cardinality(CreditsIn(L, u)), Cardinality(CreditsIn(L, u)) + 1}
    BY <1>1, FS_AddElement
  <2> DEFINE m == Cardinality(CreditsIn(L, u))
              n == Cardinality(CreditsIn(L \union {s}, u))
  <2>3. n \in {m, m + 1} /\ m \in Nat
    BY <1>1, <2>1, <2>2
  <2> HIDE DEF m, n
  <2>4. n <= m + 1
    BY <2>3
  <2> QED BY <1>2, <2>4 DEF m, n
<1>3. CASE Owner[s] # u
  <2>1. CreditsIn(L \union {s}, u) = CreditsIn(L, u)
    BY <1>3 DEF CreditsIn
  <2> QED BY <1>1, <1>3, <2>1
<1> QED BY <1>2, <1>3

\* A worker that has counted, or has inserted, handles a completion.
LEMMA CounterCompletes ==
  ASSUME BaseInv, NEW w \in Workers, job[w] # None,
         pc[w] = "reserve" \/ keyLock[job[w]] = w
  PROVE  Subject[w] = "completed"
  BY DEF BaseInv, TypeOK, Shape, KeyHeld, CreditSteps, OutcomeSteps

\* Only the count itself finds room; the insert relies on it.
LEMMA CountedMove ==
  ASSUME BaseInv, BaseInv', NEW w \in Workers, Counted(w), Moves(w), ledger' = ledger
  PROVE  Counted(w)'
<1> SUFFICES ASSUME job'[w] # None, pc'[w] = "reserve" \/ keyLock'[job'[w]] = w,
                    Contested(job'[w])
             PROVE  Cardinality(CreditsOf(Owner[job'[w]])) < Limit[Owner[job'[w]]]
  BY DEF Counted, CreditsOf, Contested, OfCatalog, Unlimited
<1>1. job'[w] \in Scans
  BY DEF BaseInv, TypeOK
<1>2. pc'[w] \in {"reserve", "update", "insert", "commit"}
  BY <1>1 DEF BaseInv, KeyHeld
<1>3. pc[w] # "idle" /\ job'[w] = job[w] /\ job[w] \in Scans
  BY <1>1, <1>2, WorkingJob DEF Moves, Deliver, GiveUp, Step, Goto, Done, StartStatus,
     StartReplaced, StartCreate, StartReplace, CompleteStatus, HasUsage, CountUsage,
     ReserveUsage, RecheckUsage, FailStatus, UpdateRow, InsertRow, ReleaseUsage, Commit,
     SaveCache, PublishScanReady, BaseInv, TypeOK
<1>4. CASE CountUsage(w)
  BY <1>2, <1>3, <1>4 DEF CountUsage, Goto, BaseInv, TypeOK, tables, KeyHeld
<1>5. CASE pc'[w] = "reserve" /\ ~CountUsage(w)
  <2>1. HasUsage(w) /\ Unlimited(Owner[job[w]])
    BY <1>5 DEF Moves, Deliver, GiveUp, Step, Goto, Done, StartStatus,
       StartReplaced, StartCreate, StartReplace, CompleteStatus, HasUsage, CountUsage,
       ReserveUsage, RecheckUsage, FailStatus, UpdateRow, InsertRow, AfterWrite,
       ReleaseUsage, Commit, SaveCache, PublishScanReady, BaseInv, TypeOK
  <2> QED BY <1>3, <2>1 DEF Contested
<1>6. CASE keyLock'[job'[w]] = w /\ pc'[w] # "reserve"
  <2>1. CASE ReserveUsage(w)
    BY <1>3, <2>1 DEF ReserveUsage, Counted
  <2>2. CASE ~ReserveUsage(w)
    <3>1. \/ UNCHANGED keyLock
          \/ keyLock' = [s \in Scans |-> IF keyLock[s] = w THEN None ELSE keyLock[s]]
      BY <2>2 DEF Moves, Deliver, GiveUp, Step, Done, tables, StartStatus, StartReplaced,
         StartCreate, StartReplace, CompleteStatus, HasUsage, CountUsage, RecheckUsage,
         FailStatus, UpdateRow, InsertRow, ReleaseUsage, Commit, SaveCache, PublishScanReady
    <3>2. keyLock[job[w]] = w
      BY <1>3, <1>6, <3>1
    <3> QED BY <1>3, <3>2 DEF Counted
  <2> QED BY <2>1, <2>2
<1> QED BY <1>4, <1>5, <1>6

\* With one completed worker nobody takes a credit between count and commit.
LEMMA QuotaStep ==
  ASSUME QuotaInv, [Next]_vars, SoleCompleter
  PROVE  QuotaInv'
<1>0. BaseInv /\ BaseInv'
  BY BaseStep DEF QuotaInv
<1>1. CASE ledger' = ledger
  <2>1. QuotaRespected'
    BY <1>1 DEF QuotaInv, QuotaRespected, CreditsOf
  <2>2. ASSUME NEW w \in Workers PROVE Counted(w)'
    <3>1. CASE Moves(w)
      BY <1>0, <1>1, <3>1, CountedMove DEF QuotaInv
    <3>2. CASE ~Moves(w)
      <4>1. pc'[w] = pc[w] /\ job'[w] = job[w] /\ \A s \in Scans : keyLock'[s] = w <=> keyLock[s] = w
        BY <1>0, <3>2, Untouched
      <4>2. job[w] # None => job[w] \in Scans
        BY <1>0 DEF BaseInv, TypeOK
      <4> QED BY <1>1, <4>1, <4>2 DEF QuotaInv, Counted, CreditsOf, Contested, OfCatalog, Unlimited
    <3> QED BY <3>1, <3>2
  <2> QED BY <1>0, <2>1, <2>2 DEF QuotaInv
<1>2. ASSUME NEW w \in Workers, Commit(w) PROVE QuotaInv'
  <2>0. ledger \in SUBSET Scans /\ ledger' \in SUBSET Scans
    BY <1>0 DEF BaseInv, TypeOK
  <2>1. /\ job[w] \in Scans
        /\ keyLock[job[w]] = w => ledger' = ledger \union {job[w]} /\ ~OfCatalog(job[w])
        /\ keyLock[job[w]] # w => ledger' \in SUBSET ledger
    BY <1>0, <1>2, CommitEffect
  <2>2. ASSUME NEW u \in Users, ~Unlimited(u)
        PROVE  Cardinality(CreditsIn(ledger', u)) <= Limit[u]
    <3>1. /\ Cardinality(CreditsIn(ledger, u)) \in Nat
          /\ Cardinality(CreditsIn(ledger', u)) \in Nat
      BY <2>0, CreditCount
    <3>2. Cardinality(CreditsIn(ledger, u)) <= Limit[u]
      BY <2>2 DEF QuotaInv, QuotaRespected, CreditsOf, CreditsIn
    <3>3. CASE keyLock[job[w]] = w
      <4>1. Owner[job[w]] = u => Cardinality(CreditsIn(ledger, u)) < Limit[u]
        BY <2>1, <2>2, <3>3 DEF QuotaInv, Counted, Contested, CreditsOf, CreditsIn
      <4>2. Cardinality(CreditsIn(ledger', u)) <=
               IF Owner[job[w]] = u THEN Cardinality(CreditsIn(ledger, u)) + 1
               ELSE Cardinality(CreditsIn(ledger, u))
        BY <2>0, <2>1, <3>3, OneMoreCredit
      <4> QED BY <3>1, <3>2, <4>1, <4>2
    <3>4. CASE keyLock[job[w]] # w
      <4>1. Cardinality(CreditsIn(ledger', u)) <= Cardinality(CreditsIn(ledger, u))
        BY <2>0, <2>1, <3>4, FewerCredits
      <4> QED BY <3>1, <3>2, <4>1
    <3> QED BY <3>3, <3>4
  <2>3. QuotaRespected'
    BY <2>2 DEF QuotaRespected, CreditsOf, CreditsIn, Unlimited
  <2>4. ASSUME NEW v \in Workers PROVE Counted(v)'
    <3>1. CASE v = w
      <4>1. pc'[w] \in {"publish", "redis"} /\ keyLock'[job'[w]] # w
        BY <1>2, <2>1 DEF Commit, Goto, BaseInv, TypeOK, QuotaInv
      <4> QED BY <3>1, <4>1 DEF Counted
    <3>2. CASE v # w
      <4>3. /\ pc'[v] = pc[v] /\ job'[v] = job[v]
            /\ \A s \in Scans : keyLock'[s] = v <=> keyLock[s] = v
        BY <1>0, <1>2, <3>2 DEF Commit, Goto, BaseInv, TypeOK
      <4>4. SUFFICES ASSUME job[v] # None, pc[v] = "reserve" \/ keyLock[job[v]] = v,
                            Contested(job[v])
                     PROVE  Cardinality(CreditsIn(ledger', Owner[job[v]])) < Limit[Owner[job[v]]]
        BY <4>3, <1>0 DEF BaseInv, TypeOK, Counted, CreditsOf, CreditsIn, Contested, OfCatalog,
                          Unlimited
      <4>5. job[v] \in Scans /\ Owner[job[v]] \in Users /\ Limit[Owner[job[v]]] \in Nat
        BY <4>4, <1>0 DEF BaseInv, TypeOK, Contested, OfCatalog
      <4>6. Cardinality(CreditsIn(ledger, Owner[job[v]])) < Limit[Owner[job[v]]]
        BY <4>4 DEF QuotaInv, Counted, CreditsOf, CreditsIn
      <4>7. keyLock[job[w]] # w
        BY <1>0, <2>1, <3>2, <4>4, CounterCompletes DEF SoleCompleter
      <4>8. /\ Cardinality(CreditsIn(ledger', Owner[job[v]])) <= Cardinality(CreditsIn(ledger, Owner[job[v]]))
            /\ Cardinality(CreditsIn(ledger', Owner[job[v]])) \in Nat
            /\ Cardinality(CreditsIn(ledger, Owner[job[v]])) \in Nat
        BY <2>0, <2>1, <4>7, CreditCount, FewerCredits
      <4> QED BY <4>5, <4>6, <4>8
    <3> QED BY <3>1, <3>2
  <2> QED BY <1>0, <2>3, <2>4 DEF QuotaInv
<1> QED BY <1>0, <1>1, <1>2, TableEffect

\* Discovery reserves within the plans, and nobody has counted yet.
LEMMA InitQuota == Init => QuotaInv
<1>1. Init => QuotaRespected
  BY DEF Init, QuotaRespected, CreditsOf
<1>2. ASSUME Init, NEW w \in Workers PROVE Counted(w)
  BY <1>2 DEF Init, Counted
<1> QED BY <1>1, <1>2, InitBase DEF QuotaInv

\* A limited plan never holds more credits than its limit when completions
\* are handled by one worker, whatever fails, is lost or repeated; the run
\* MCTlsQuotaRace shows two instances exceeding it.
THEOREM TlsQuotaRespected ==
  ASSUME SoleCompleter
  PROVE  Spec => []QuotaRespected
<1>2. QuotaInv /\ [Next]_vars => QuotaInv'
  BY QuotaStep
<1>3. QuotaInv => QuotaRespected
  BY DEF QuotaInv
<1> QED BY <1>2, <1>3, InitQuota, PTL DEF Spec
-----------------------------------------------------------------------------
(* One outcome per scan: TerminalFinal, CreditForOutcome and ReadyTruth.   *)

\* A worker takes a new scan only by a delivery.
LEMMA JobKept ==
  ASSUME BaseInv, [Next]_vars, NEW v \in Workers, pc'[v] # "idle",
         \A s \in Scans : ~Deliver(v, s)
  PROVE  /\ pc[v] # "idle" /\ job'[v] = job[v]
         /\ pc'[v] = "status" => pc[v] = "status"
<1>1. CASE ~Moves(v)
  BY <1>1, Untouched
<1>2. CASE GiveUp(v) \/ Done(v)
  BY <1>2 DEF GiveUp, Done, Goto, BaseInv, TypeOK
<1>3. CASE Step(v) /\ ~Done(v)
  BY <1>3 DEF Step, Goto, StartStatus, StartReplaced, StartCreate, StartReplace,
     CompleteStatus, HasUsage, CountUsage, ReserveUsage, RecheckUsage, FailStatus,
     UpdateRow, InsertRow, AfterWrite, ReleaseUsage, Commit, SaveCache, PublishScanReady,
     BaseInv, TypeOK
<1> QED BY <1>1, <1>2, <1>3 DEF Moves

\* A delivery takes one copy off its queue; nothing adds one.
LEMMA QueueEffect ==
  ASSUME BaseInv, [Next]_vars, NEW e \in Events
  PROVE  queue'[e] \in Nat /\ queue[e] \in Nat /\ queue'[e] <= queue[e]
<1>1. ASSUME NEW d \in Events, queue[d] > 0, queue' = [queue EXCEPT ![d] = @ - 1]
      PROVE  queue'[e] \in Nat /\ queue[e] \in Nat /\ queue'[e] <= queue[e]
  BY <1>1 DEF BaseInv, TypeOK
<1>2. ASSUME NEW w \in Workers, NEW s \in Scans PROVE <<Subject[w], s>> \in Events
  BY DEF Events, Subjects
<1>3. CASE UNCHANGED queue
  BY <1>3 DEF BaseInv, TypeOK
<1>4. ASSUME NEW w \in Workers, Step(w) \/ GiveUp(w) PROVE UNCHANGED queue
  BY <1>4 DEF GiveUp, Step, StartStatus, StartReplaced, StartCreate, StartReplace,
     CompleteStatus, HasUsage, CountUsage, ReserveUsage, RecheckUsage, FailStatus,
     UpdateRow, InsertRow, ReleaseUsage, Commit, SaveCache, PublishScanReady
<1>5. ASSUME \/ \E s \in Scans : DeleteTLSScan(s)
             \/ \E d \in Scans \X Urls : DeleteTLSCache(d)
      PROVE  UNCHANGED queue
  BY <1>5 DEF DeleteTLSScan, DeleteTLSCache
<1> QED BY <1>1, <1>2, <1>3, <1>4, <1>5 DEF Next, Deliver, Lose, vars

\* A completion and a failure of the same scan are never handled together.
LEMMA NoRival ==
  ASSUME BaseInv, OneOutcome, NEW v \in Workers, NEW w \in Workers,
         pc[v] # "idle", pc[w] # "idle", job[v] = job[w],
         Subject[v] = "completed", Subject[w] = "failed"
  PROVE  FALSE
<1>1. job[v] \in Scans
  BY WorkingJob
<1>2. Sent[<<"completed", job[v]>>] > 0 /\ Sent[<<"failed", job[v]>>] > 0
  BY DEF BaseInv, Requested
<1> QED BY <1>1, <1>2 DEF OneOutcome

\* A contested scan is completed by one worker at a time.
LEMMA SoleCompletion ==
  ASSUME BaseInv, SingleCopy, Calm, NEW v \in Workers, NEW w \in Workers,
         pc[v] # "idle", pc[w] # "idle", job[v] = job[w], Contested(job[w]),
         Subject[v] = "completed", Subject[w] = "completed"
  PROVE  v = w
<1>1. job[w] \in Scans
  BY WorkingJob
<1>2. CASE Sent[<<"completed", job[w]>>] <= 1
  BY <1>1, <1>2 DEF SingleCopy, Busy
<1>3. CASE SoleCompleter
  BY <1>3 DEF SoleCompleter
<1> QED BY <1>1, <1>2, <1>3 DEF Calm

\* An event published once stays queued or with one worker.
LEMMA SingleCopyStep ==
  ASSUME BaseInv, SingleCopy, [Next]_vars
  PROVE  SingleCopy'
<1> SUFFICES ASSUME NEW s \in Scans, Sent[<<"completed", s>>] <= 1
             PROVE  /\ \A v, w \in Workers :
                          Busy(v, <<"completed", s>>)' /\ Busy(w, <<"completed", s>>)' => v = w
                    /\ queue'[<<"completed", s>>] > 0 =>
                          \A w \in Workers : ~Busy(w, <<"completed", s>>)'
  BY DEF SingleCopy
<1> DEFINE e == <<"completed", s>>
<1>0. e \in Events /\ Sent[e] \in Nat /\ queue[e] \in Nat /\ queue[e] <= Sent[e]
  BY DEF Events, Subjects, BaseInv, TypeOK, Requested
<1>1. ASSUME NEW v \in Workers, Busy(v, e)', \A t \in Scans : ~Deliver(v, t)
      PROVE  Busy(v, e)
  BY <1>1, JobKept DEF Busy
<1>2. ASSUME NEW v \in Workers, NEW t \in Scans, Deliver(v, t), Busy(v, e)'
      PROVE  queue[e] > 0 /\ queue'[e] = 0 /\ \A w \in Workers : ~Busy(w, e)
  <2>1. e = <<Subject[v], t>>
    BY <1>2 DEF Deliver, Busy, BaseInv, TypeOK
  <2>2. queue[e] > 0 /\ queue' = [queue EXCEPT ![e] = @ - 1]
    BY <1>2, <2>1 DEF Deliver
  <2>3. queue[e] = 1
    BY <1>0, <2>2
  <2>4. queue'[e] = 0
    BY <1>0, <2>2, <2>3 DEF BaseInv, TypeOK
  <2> QED BY <2>2, <2>4 DEF SingleCopy
<1>3. ASSUME NEW v \in Workers, NEW t \in Scans, Deliver(v, t), NEW w \in Workers, w # v
      PROVE  \A r \in Scans : ~Deliver(w, r)
  BY <1>3 DEF Deliver, Goto, BaseInv, TypeOK
<1>4. queue'[e] <= queue[e] /\ queue'[e] \in Nat
  BY <1>0, QueueEffect
<1> HIDE DEF e
<1>5. ASSUME NEW v \in Workers, NEW w \in Workers, Busy(v, e)', Busy(w, e)' PROVE v = w
  <2>1. CASE (\A t \in Scans : ~Deliver(v, t)) /\ (\A t \in Scans : ~Deliver(w, t))
    BY <1>1, <1>5, <2>1 DEF SingleCopy, e
  <2>2. CASE \E t \in Scans : Deliver(v, t)
    BY <1>1, <1>2, <1>3, <1>5, <2>2
  <2>3. CASE \E t \in Scans : Deliver(w, t)
    BY <1>1, <1>2, <1>3, <1>5, <2>3
  <2> QED BY <2>1, <2>2, <2>3
<1>6. ASSUME NEW w \in Workers, Busy(w, e)', queue'[e] > 0 PROVE FALSE
  <2>1. queue[e] > 0
    BY <1>0, <1>4, <1>6
  <2>2. CASE \A t \in Scans : ~Deliver(w, t)
    BY <1>1, <1>6, <2>1, <2>2 DEF SingleCopy, e
  <2>3. CASE \E t \in Scans : Deliver(w, t)
    BY <1>2, <1>6, <2>3
  <2> QED BY <2>2, <2>3
<1> QED BY <1>5, <1>6 DEF e

\* A worker at its commit: its subject, its goal and what it was sent.
LEMMA Committer ==
  ASSUME BaseInv, NEW w \in Workers, Commit(w)
  PROVE  /\ pc[w] = "commit" /\ job[w] \in Scans /\ Sent[<<Subject[w], job[w]>>] > 0
         /\ \/ Subject[w] = "completed" /\ goal[w] = "SUCCESS"
            \/ Subject[w] = "completed" /\ goal[w] = "LIMIT" /\ Contested(job[w])
            \/ Subject[w] = "failed" /\ goal[w] = "FAILED"
<1>1. pc[w] = "commit" /\ job[w] \in Scans
  BY WorkingJob DEF Commit
<1> QED BY <1>1 DEF BaseInv, Shape, OutcomeSteps, Requested

\* A step that is not the commit of s leaves an outcome of s as it is, and
\* gives it none.
LEMMA OutcomeKept ==
  ASSUME BaseInv, [Next]_vars, NEW s \in Scans,
         \A w \in Workers : ~(Commit(w) /\ job[w] = s)
  PROVE  /\ Terminal(s)' <=> Terminal(s)
         /\ Terminal(s) => row'[s].status = row[s].status
         /\ Live(s)' /\ Terminal(s)' => Live(s)
<1>1. CASE \E w \in Workers : Commit(w)
  <2>1. row'[s] = row[s]
    BY <1>1, CommitEffect DEF BaseInv, TypeOK
  <2> QED BY <2>1 DEF Terminal, Live
<1>2. CASE ~\E w \in Workers : Commit(w)
  BY <1>2, TableEffect DEF Terminal, Live, IsTerminal, TerminalStates
<1> QED BY <1>1, <1>2

\* A stored outcome never changes: the handlers' status check, which precedes
\* the transaction, is enough when only one outcome is sent.
LEMMA OutcomeFinal ==
  ASSUME TlsInv, [Next]_vars, OneOutcome, NEW s \in Scans, Terminal(s)
  PROVE  row'[s] # None /\ row'[s].status = row[s].status
<1>0. BaseInv
  BY DEF TlsInv
<1>1. CASE \A w \in Workers : ~(Commit(w) /\ job[w] = s)
  BY <1>0, <1>1, OutcomeKept DEF Terminal
<1>2. ASSUME NEW w \in Workers, Commit(w), job[w] = s
      PROVE  row'[s] # None /\ row'[s].status = row[s].status
  <2>1. /\ row'[s] = pend[w] /\ pend[w] \in Row /\ pend[w].status = WrittenStatus(w)
        /\ Live(s)
    BY <1>0, <1>2, CommitEffect DEF BaseInv, TypeOK, Terminal, Live
  <2>2. /\ row[s].status \in {"SUCCESS", "FAILED"}
        /\ row[s].status = "SUCCESS" => Sent[<<"completed", s>>] > 0
        /\ row[s].status = "FAILED" => Contested(s) \/ Sent[<<"failed", s>>] > 0
    BY DEF TlsInv, Verdict
  <2>3. ~(Sent[<<"completed", s>>] > 0 /\ Sent[<<"failed", s>>] > 0)
    BY DEF OneOutcome
  <2>4. Subject[w] = "completed" => ~Contested(s)
    BY <1>0, <1>2, <2>1, Committer DEF TlsInv, Undecided, WriteSteps
  <2>5. row[s].status = WrittenStatus(w)
    BY <1>0, <1>2, <2>2, <2>3, <2>4, Committer DEF WrittenStatus
  <2> QED BY <2>1, <2>5
<1> QED BY <1>1, <1>2

\* Where a newly stored outcome comes from.
LEMMA VerdictStep ==
  ASSUME TlsInv, [Next]_vars
  PROVE  Verdict'
<1>0. BaseInv
  BY DEF TlsInv
<1> SUFFICES ASSUME NEW s \in Scans, Terminal(s)'
             PROVE  /\ row'[s].status \in {"SUCCESS", "FAILED"}
                    /\ row'[s].status = "SUCCESS" => Sent[<<"completed", s>>] > 0
                    /\ row'[s].status = "FAILED" => Contested(s) \/ Sent[<<"failed", s>>] > 0
  BY DEF Verdict, Contested, OfCatalog, Unlimited
<1>1. CASE \A w \in Workers : ~(Commit(w) /\ job[w] = s)
  BY <1>0, <1>1, OutcomeKept DEF TlsInv, Verdict
<1>2. ASSUME NEW w \in Workers, Commit(w), job[w] = s
      PROVE  /\ row'[s].status \in {"SUCCESS", "FAILED"}
             /\ row'[s].status = "SUCCESS" => Sent[<<"completed", s>>] > 0
             /\ row'[s].status = "FAILED" => Contested(s) \/ Sent[<<"failed", s>>] > 0
  <2>1. row'[s].status = WrittenStatus(w)
    BY <1>0, <1>2, CommitEffect DEF BaseInv, TypeOK
  <2> QED BY <1>0, <1>2, <2>1, Committer DEF WrittenStatus
<1> QED BY <1>1, <1>2

\* The completion that stores the outcome of a contested scan was its last.
LEMMA FreshStep ==
  ASSUME TlsInv, [Next]_vars, OneOutcome
  PROVE  Fresh'
<1>0. BaseInv /\ SingleCopy /\ Fresh
  BY DEF TlsInv
<1> SUFFICES ASSUME NEW s \in Scans, Contested(s), Sent[<<"completed", s>>] <= 1, Terminal(s)'
             PROVE  /\ queue'[<<"completed", s>>] = 0
                    /\ \A w \in Workers : Busy(w, <<"completed", s>>)' => pc'[w] # "status"
  BY DEF Fresh, Contested, OfCatalog, Unlimited
<1> DEFINE e == <<"completed", s>>
<1>1. e \in Events
  BY DEF Events, Subjects
<1>2. queue[e] = 0 /\ \A w \in Workers : Busy(w, e) => pc[w] # "status"
  <2>1. CASE Terminal(s)
    BY <1>0, <2>1 DEF Fresh
  <2>2. ASSUME NEW v \in Workers, Commit(v), job[v] = s, ~Terminal(s)
        PROVE  queue[e] = 0 /\ \A w \in Workers : Busy(w, e) => w = v /\ pc[w] # "status"
    <3>1. CASE Subject[v] = "completed"
      <4>1. Busy(v, e) /\ pc[v] = "commit"
        BY <1>0, <2>2, <3>1, Committer DEF Busy
      <4>2. queue[e] \in Nat
        BY <1>0, <1>1 DEF BaseInv, TypeOK
      <4> QED BY <1>0, <4>1, <4>2 DEF SingleCopy
    <3>2. CASE Subject[v] = "failed"
      <4>0. Sent[<<"failed", s>>] > 0
        BY <1>0, <2>2, <3>2, Committer
      <4>1. Sent[e] = 0
        BY <4>0 DEF OneOutcome
      <4>2. queue[e] = 0
        BY <1>0, <1>1, <4>1 DEF BaseInv, TypeOK, Requested
      <4>3. ASSUME NEW w \in Workers PROVE ~Busy(w, e)
        BY <1>0, <4>1 DEF Busy, BaseInv, Requested
      <4> QED BY <4>2, <4>3
    <3> QED BY <1>0, <2>2, <3>1, <3>2, Committer
  <2> QED BY <1>0, <2>1, <2>2, OutcomeKept
<1>3. queue'[e] = 0
  BY <1>0, <1>1, <1>2, QueueEffect
<1>4. ASSUME NEW w \in Workers, Busy(w, e)', pc'[w] = "status" PROVE FALSE
  <2>1. CASE \E t \in Scans : Deliver(w, t)
    BY <1>0, <1>2, <1>4, <2>1 DEF Deliver, Busy, BaseInv, TypeOK
  <2>2. CASE \A t \in Scans : ~Deliver(w, t)
    BY <1>0, <1>2, <1>4, <2>2, JobKept DEF Busy
  <2> QED BY <2>1, <2>2
<1> QED BY <1>3, <1>4

\* Which steps lead to, or go on between, the ledger and the row.
LEMMA WriteMove ==
  ASSUME BaseInv, NEW w \in Workers, Moves(w), pc'[w] \in CreditSteps \union WriteSteps
  PROVE  /\ ~Done(w)
         /\ \/ CompleteStatus(w) \/ HasUsage(w) \/ CountUsage(w) \/ ReserveUsage(w)
            \/ RecheckUsage(w) \/ FailStatus(w)
            \/ UpdateRow(w) \/ InsertRow(w) \/ ReleaseUsage(w)
<1>1. ASSUME NEW p, Goto(w, p) PROVE p \in CreditSteps \union WriteSteps
  BY <1>1 DEF Goto, BaseInv, TypeOK
<1>2. ~Done(w)
  BY <1>1 DEF Done, CreditSteps, WriteSteps
<1>3. \A s \in Scans : ~Deliver(w, s)
  BY <1>1 DEF Deliver, CreditSteps, WriteSteps
<1>4. ~StartStatus(w) /\ ~StartReplaced(w) /\ ~StartCreate(w) /\ ~StartReplace(w)
  BY <1>1, <1>2 DEF StartStatus, StartReplaced, StartCreate, StartReplace, CreditSteps, WriteSteps
<1>5. ~Commit(w) /\ ~SaveCache(w) /\ ~PublishScanReady(w) /\ ~GiveUp(w)
  BY <1>1, <1>2 DEF Commit, SaveCache, PublishScanReady, GiveUp, CreditSteps, WriteSteps
<1> QED BY <1>2, <1>3, <1>4, <1>5 DEF Moves, Step

\* Whoever stores an outcome of a contested scan under completion is the
\* worker that completes it.
LEMMA UndecidedStep ==
  ASSUME TlsInv, [Next]_vars, OneOutcome, Calm, NEW w \in Workers
  PROVE  Undecided(w)'
<1>0. BaseInv /\ SingleCopy /\ Fresh /\ Undecided(w)
  BY DEF TlsInv
<1> SUFFICES ASSUME Subject[w] = "completed", pc'[w] \in CreditSteps \union WriteSteps,
                    Contested(job'[w])
             PROVE  ~(Live(job[w])' /\ Terminal(job[w])')
  BY DEF Undecided, Contested, OfCatalog, Unlimited
<1>1. CASE CompleteStatus(w)
  <2>1. /\ pc[w] = "status" /\ job[w] \in Scans /\ job'[w] = job[w] /\ row' = row
        /\ \/ ValidTransition(CurrentStatus(job[w]), "SUCCESS")
           \/ "status" \in Faults
    <3>1. ~Done(w)
      BY <1>0 DEF Done, Goto, CreditSteps, WriteSteps, BaseInv, TypeOK
    <3> QED BY <1>0, <1>1, <3>1, WorkingJob DEF CompleteStatus, tables
  <2>2. CASE ValidTransition(CurrentStatus(job[w]), "SUCCESS")
    <3>1. ~(Live(job[w]) /\ Terminal(job[w]))
      BY <2>2 DEF ValidTransition, CurrentStatus, Logical, Terminal, IsTerminal,
                  TerminalStates, Blank
    <3> QED BY <2>1, <3>1 DEF Live, Terminal
  <2>3. CASE "status" \in Faults
    <3>1. Sent[<<"completed", job[w]>>] <= 1
      BY <2>1, <2>3 DEF Calm
    <3>2. Busy(w, <<"completed", job[w]>>)
      BY <2>1 DEF Busy
    <3>3. ~Terminal(job[w])
      BY <1>0, <2>1, <3>1, <3>2 DEF Fresh
    <3> QED BY <2>1, <3>3 DEF Terminal
  <2> QED BY <2>1, <2>2, <2>3
<1>2. CASE ~CompleteStatus(w)
  <2>1. /\ job'[w] = job[w] /\ pc[w] \in CreditSteps \union WriteSteps /\ ~Commit(w)
    <3>1. CASE ~Moves(w)
      BY <1>0, <3>1, Untouched DEF Moves, Step
    <3>2. CASE Moves(w)
      <4>1. /\ ~Done(w)
            /\ \/ HasUsage(w) \/ CountUsage(w) \/ ReserveUsage(w) \/ RecheckUsage(w)
               \/ FailStatus(w) \/ UpdateRow(w) \/ InsertRow(w) \/ ReleaseUsage(w)
        BY <1>0, <1>2, <3>2, WriteMove
      <4>2. pc[w] # "release"
        BY <1>0 DEF BaseInv, Shape, OutcomeSteps
      <4> QED
        BY <4>1, <4>2
        DEF HasUsage, CountUsage, ReserveUsage, RecheckUsage, FailStatus, UpdateRow,
            InsertRow, ReleaseUsage, Commit, CreditSteps, WriteSteps
    <3> QED BY <3>1, <3>2
  <2>2. pc[w] # "idle" /\ job[w] \in Scans
    BY <1>0, <2>1, WorkingJob DEF CreditSteps, WriteSteps
  <2>3. ASSUME NEW v \in Workers, Commit(v), job[v] = job[w] PROVE FALSE
    <3>1. pc[v] # "idle" /\ v # w /\ Subject[v] \in {"completed", "failed"}
      BY <1>0, <2>1, <2>3, Committer
    <3> QED BY <1>0, <2>1, <2>2, <2>3, <3>1, NoRival, SoleCompletion
  <2>4. ASSUME NEW s \in Scans, s = job[w]
        PROVE  /\ Terminal(s)' <=> Terminal(s)
               /\ Live(s)' /\ Terminal(s)' => Live(s)
    BY <1>0, <2>3, <2>4, OutcomeKept
  <2>5. ~(Live(job[w]) /\ Terminal(job[w]))
    BY <1>0, <2>1 DEF Undecided
  <2> QED BY <2>1, <2>2, <2>4, <2>5 DEF Live, Terminal
<1> QED BY <1>1, <1>2

\* No commit of another worker moves the credit that w relies on.
LEMMA CreditStays ==
  ASSUME BaseInv, SingleCopy, [Next]_vars, OneOutcome, Calm, NEW w \in Workers, ~Commit(w),
         pc[w] # "idle"
  PROVE  /\ Subject[w] = "completed" /\ job[w] \in ledger => job[w] \in ledger'
         /\ Subject[w] = "completed" /\ Contested(job[w]) /\ job[w] \notin ledger
              => job[w] \notin ledger'
         /\ Subject[w] = "failed" /\ job[w] \notin ledger => job[w] \notin ledger'
<1>1. CASE ~\E v \in Workers : Commit(v)
  BY <1>1, TableEffect
<1>2. ASSUME NEW v \in Workers, Commit(v), job[v] # job[w] PROVE job[w] \in ledger <=> job[w] \in ledger'
  BY <1>2, CommitEffect
<1>3. ASSUME NEW v \in Workers, Commit(v), job[v] = job[w]
      PROVE  /\ Subject[w] = "completed" => Subject[v] = "completed" /\ ~Contested(job[w])
             /\ Subject[w] = "failed" => Subject[v] = "failed"
  <2>1. pc[v] # "idle" /\ v # w /\ Subject[v] \in {"completed", "failed"}
    BY <1>3, Committer
  <2> QED BY <1>3, <2>1, NoRival, SoleCompletion
<1>4. ASSUME NEW v \in Workers, Commit(v)
      PROVE  /\ Subject[v] = "completed" => ledger \subseteq ledger'
             /\ Subject[v] = "failed" => ledger' \subseteq ledger
  <2>1. /\ ledger' = IF keyLock[job[v]] = v THEN ledger \union {job[v]}
                     ELSE IF freed[v] THEN ledger \ {job[v]} ELSE ledger
        /\ keyLock[job[v]] = v => goal[v] = "SUCCESS"
        /\ freed[v] => goal[v] = "FAILED"
    BY <1>4, CommitEffect
  <2>2. /\ Subject[v] = "completed" => goal[v] # "FAILED"
        /\ Subject[v] = "failed" => goal[v] # "SUCCESS"
    BY <1>4, Committer
  <2> QED BY <2>1, <2>2
<1> QED BY <1>1, <1>2, <1>3, <1>4

\* What a worker is about to write agrees with the ledger it will leave.
LEMMA CoveredStep ==
  ASSUME TlsInv, [Next]_vars, OneOutcome, Calm, NEW w \in Workers
  PROVE  Covered(w)'
<1>0. BaseInv /\ BaseInv' /\ SingleCopy /\ Covered(w)
  BY BaseStep DEF TlsInv
<1> SUFFICES ASSUME pc'[w] \in WriteSteps
             PROVE  /\ goal'[w] = "SUCCESS" /\ ~OfCatalog(job'[w]) =>
                          job'[w] \in ledger' \/ keyLock'[job'[w]] = w
                    /\ goal'[w] = "LIMIT" => job'[w] \notin ledger'
                    /\ goal'[w] = "FAILED" /\ pc'[w] = "commit" =>
                          freed'[w] \/ job'[w] \notin ledger'
  BY DEF Covered, OfCatalog
<1>1. ~Done(w) /\ ~Commit(w)
  BY <1>0 DEF Done, Commit, Goto, WriteSteps, BaseInv, TypeOK
<1>2. CASE ~Moves(w)
  <2>1. /\ pc'[w] = pc[w] /\ job'[w] = job[w] /\ goal'[w] = goal[w] /\ freed'[w] = freed[w]
        /\ \A s \in Scans : keyLock'[s] = w <=> keyLock[s] = w
    BY <1>0, <1>2, Untouched
  <2>2. pc[w] # "idle" /\ job[w] \in Scans
    BY <1>0, <2>1, WorkingJob DEF WriteSteps
  <2>3. /\ goal[w] = "SUCCESS" => Subject[w] = "completed"
        /\ goal[w] = "LIMIT" => Subject[w] = "completed" /\ Contested(job[w])
        /\ goal[w] = "FAILED" => Subject[w] = "failed"
    BY <1>0, <2>1 DEF BaseInv, Shape, OutcomeSteps, WriteSteps
  <2> QED BY <1>0, <1>1, <2>1, <2>2, <2>3, CreditStays DEF Covered
<1>3. CASE Moves(w)
  <2>1. /\ pc[w] # "idle" /\ job' = job /\ ledger' = ledger /\ job[w] \in Scans
    BY <1>0, <1>1, <1>3, WorkingJob
    DEF Moves, Deliver, GiveUp, Step, Goto, tables, StartStatus, StartReplaced, StartCreate,
        StartReplace, CompleteStatus, HasUsage, CountUsage, ReserveUsage, RecheckUsage,
        FailStatus, UpdateRow, InsertRow, ReleaseUsage, SaveCache,
        PublishScanReady, WriteSteps, BaseInv, TypeOK
  <2>2. CASE CompleteStatus(w) \/ HasUsage(w) \/ RecheckUsage(w) \/ FailStatus(w)
    BY <1>0, <1>1, <2>1, <2>2
    DEF CompleteStatus, HasUsage, RecheckUsage, FailStatus, Goto, WriteSteps, BaseInv,
        TypeOK, Shape, CreditSteps
  <2>3. CASE ReserveUsage(w)
    BY <1>0, <2>1, <2>3 DEF ReserveUsage, Goto, WriteSteps, BaseInv, TypeOK, Shape, CreditSteps
  <2>4. CASE UpdateRow(w) \/ InsertRow(w)
    <3>1. /\ pc[w] \in {"update", "insert"} /\ UNCHANGED <<keyLock, goal>>
          /\ goal[w] = "FAILED" => pc'[w] # "commit"
      BY <1>0, <1>1, <2>4 DEF UpdateRow, InsertRow, AfterWrite, Goto, BaseInv, TypeOK
    <3> QED BY <1>0, <2>1, <3>1 DEF Covered, WriteSteps
  <2>5. CASE ReleaseUsage(w)
    BY <1>0, <2>1, <2>5 DEF ReleaseUsage, Goto, BaseInv, TypeOK, Shape
  <2>6. \/ CompleteStatus(w) \/ HasUsage(w) \/ RecheckUsage(w) \/ FailStatus(w)
        \/ ReserveUsage(w) \/ UpdateRow(w) \/ InsertRow(w) \/ ReleaseUsage(w)
    <3>1. ~CountUsage(w)
      BY <1>0 DEF CountUsage, Goto, WriteSteps, BaseInv, TypeOK
    <3> QED BY <1>0, <1>3, <3>1, WriteMove
  <2> QED BY <2>2, <2>3, <2>4, <2>5, <2>6
<1> QED BY <1>2, <1>3

\* A worker past its commit finds its outcome still stored.
LEMMA PastStep ==
  ASSUME TlsInv, [Next]_vars, OneOutcome, NEW w \in Workers
  PROVE  Past(w)'
<1>0. BaseInv /\ Past(w)
  BY DEF TlsInv
<1> SUFFICES ASSUME pc'[w] \in {"redis", "publish"}
             PROVE  /\ row'[job'[w]] # None
                    /\ row'[job'[w]].status =
                          IF goal'[w] = "SUCCESS" THEN "SUCCESS" ELSE "FAILED"
  BY DEF Past, WrittenStatus
<1>1. CASE Commit(w)
  <2>1. /\ job[w] \in Scans /\ row' = [row EXCEPT ![job[w]] = pend[w]]
        /\ pend[w] \in Row /\ pend[w].status = WrittenStatus(w)
    BY <1>0, <1>1, CommitEffect
  <2>2. job' = job /\ goal' = goal /\ row'[job[w]] = pend[w]
    BY <1>0, <1>1, <2>1 DEF Commit, BaseInv, TypeOK
  <2> QED BY <2>1, <2>2 DEF WrittenStatus
<1>2. CASE ~Commit(w)
  <2>1. pc[w] \in {"redis", "publish"} /\ job'[w] = job[w] /\ goal'[w] = goal[w]
    <3>1. CASE ~Moves(w)
      BY <1>0, <3>1, Untouched
    <3>2. CASE SaveCache(w)
      BY <3>2 DEF SaveCache
    <3>3. CASE Moves(w) /\ ~SaveCache(w)
      <4>1. ASSUME NEW p, Goto(w, p) PROVE p \in {"redis", "publish"}
        BY <1>0, <4>1 DEF Goto, BaseInv, TypeOK
      <4>2. ~Done(w) /\ \A s \in Scans : ~Deliver(w, s)
        BY <4>1 DEF Done, Deliver
      <4>3. ~StartStatus(w) /\ ~StartReplaced(w) /\ ~StartCreate(w) /\ ~StartReplace(w)
        BY <4>1, <4>2 DEF StartStatus, StartReplaced, StartCreate, StartReplace
      <4>4. ~CompleteStatus(w) /\ ~HasUsage(w) /\ ~CountUsage(w) /\ ~ReserveUsage(w)
        BY <4>1, <4>2 DEF CompleteStatus, HasUsage, CountUsage, ReserveUsage
      <4>5. ~RecheckUsage(w) /\ ~FailStatus(w) /\ ~UpdateRow(w) /\ ~InsertRow(w)
        BY <4>1, <4>2 DEF RecheckUsage, FailStatus, UpdateRow, InsertRow, AfterWrite
      <4>6. ~ReleaseUsage(w) /\ ~PublishScanReady(w) /\ ~GiveUp(w)
        BY <4>1, <4>2 DEF ReleaseUsage, PublishScanReady, GiveUp
      <4> QED BY <1>2, <3>3, <4>2, <4>3, <4>4, <4>5, <4>6 DEF Moves, Step
    <3> QED BY <3>1, <3>2, <3>3
  <2>2. job[w] \in Scans
    BY <1>0, <2>1, WorkingJob
  <2>3. row[job[w]] # None /\ row[job[w]].status = WrittenStatus(w) /\ Terminal(job[w])
    BY <1>0, <2>1 DEF Past, Terminal, WrittenStatus, IsTerminal, TerminalStates
  <2>4. row'[job[w]] # None /\ row'[job[w]].status = row[job[w]].status
    BY <2>2, <2>3, OutcomeFinal
  <2> QED BY <2>1, <2>3, <2>4 DEF WrittenStatus
<1> QED BY <1>1, <1>2

\* The commit that stores an outcome moves the credit with it.
LEMMA CreditStep ==
  ASSUME TlsInv, [Next]_vars
  PROVE  CreditForOutcome'
<1>0. BaseInv /\ CreditForOutcome
  BY DEF TlsInv
<1> SUFFICES ASSUME NEW s \in Scans, row'[s] # None, ~OfCatalog(s)
             PROVE  /\ row'[s].status = "SUCCESS" => s \in ledger'
                    /\ row'[s].status = "FAILED" => s \notin ledger'
  BY DEF CreditForOutcome, OfCatalog
<1>1. ASSUME NEW w \in Workers, Commit(w), job[w] = s
      PROVE  /\ row'[s].status = "SUCCESS" => s \in ledger'
             /\ row'[s].status = "FAILED" => s \notin ledger'
  <2>1. row'[s].status = WrittenStatus(w)
    BY <1>0, <1>1, CommitEffect DEF BaseInv, TypeOK
  <2>2. /\ goal[w] = "SUCCESS" => s \in ledger \/ keyLock[s] = w
        /\ goal[w] = "LIMIT" => s \notin ledger
        /\ goal[w] = "FAILED" => freed[w] \/ s \notin ledger
    BY <1>0, <1>1, Committer DEF TlsInv, Covered, WriteSteps
  <2>3. /\ goal[w] \in {"SUCCESS", "LIMIT", "FAILED"}
        /\ ledger' = IF keyLock[s] = w THEN ledger \union {s}
                     ELSE IF freed[w] THEN ledger \ {s} ELSE ledger
        /\ keyLock[s] = w => goal[w] = "SUCCESS"
        /\ freed[w] => goal[w] = "FAILED"
    BY <1>0, <1>1, CommitEffect, Committer
  <2> QED BY <2>1, <2>2, <2>3 DEF WrittenStatus
<1>2. ASSUME NEW w \in Workers, Commit(w), job[w] # s
      PROVE  row'[s] = row[s] /\ (s \in ledger' <=> s \in ledger)
  BY <1>0, <1>2, CommitEffect DEF BaseInv, TypeOK
<1>3. CASE ~\E w \in Workers : Commit(w)
  BY <1>0, <1>3, TableEffect DEF CreditForOutcome
<1> QED BY <1>0, <1>1, <1>2, <1>3 DEF CreditForOutcome

\* Only a worker at its publish step announces.
LEMMA ReadyEffect ==
  ASSUME [Next]_vars, ready' # ready
  PROVE  \E w \in Workers : PublishScanReady(w)
  BY DEF Next, vars, outputs, Deliver, GiveUp, Lose, DeleteTLSScan, DeleteTLSCache, Step,
         StartStatus, StartReplaced, StartCreate, StartReplace, CompleteStatus, HasUsage,
         CountUsage, ReserveUsage, RecheckUsage, FailStatus, UpdateRow, InsertRow,
         ReleaseUsage, Commit, SaveCache

\* What is announced was stored, and what was announced stays stored.
LEMMA ReadyStep ==
  ASSUME TlsInv, [Next]_vars, OneOutcome
  PROVE  ReadyTruth'
<1> DEFINE Stored(r, e) == /\ r[e[1]] # None
                           /\ r[e[1]].status = IF e[2] = "success" THEN "SUCCESS" ELSE "FAILED"
<1>0. BaseInv /\ ReadyTruth
  BY DEF TlsInv
<1>1. ASSUME NEW e \in ready PROVE Stored(row', e)
  <2>1. e[1] \in Scans /\ Stored(row, e)
    BY <1>0 DEF BaseInv, TypeOK, ReadyTruth
  <2>2. Terminal(e[1])
    BY <2>1 DEF Terminal, IsTerminal, TerminalStates
  <2>3. row'[e[1]] # None /\ row'[e[1]].status = row[e[1]].status
    BY <2>1, <2>2, OutcomeFinal
  <2> QED BY <2>1, <2>3
<1>2. ASSUME NEW w \in Workers, PublishScanReady(w)
      PROVE  ready' = ready \union {<<job[w], ReadyStatus(w)>>}
             /\ Stored(row', <<job[w], ReadyStatus(w)>>)
  <2>1. /\ pc[w] = "publish" /\ row' = row
        /\ ready' = ready \union {<<job[w], ReadyStatus(w)>>}
    BY <1>2 DEF PublishScanReady, Done
  <2>2. row[job[w]] # None /\ row[job[w]].status = WrittenStatus(w)
    BY <2>1 DEF TlsInv, Past
  <2> QED BY <2>1, <2>2 DEF WrittenStatus, ReadyStatus
<1>3. \A e \in ready' : Stored(row', e)
  BY <1>1, <1>2, ReadyEffect
<1> QED BY <1>3 DEF ReadyTruth

\* Empty tables and idle workers.
LEMMA InitTls == Init => TlsInv
<1> SUFFICES ASSUME Init PROVE TlsInv
  OBVIOUS
<1>1. SingleCopy /\ Verdict /\ Fresh
  BY DEF Init, SingleCopy, Verdict, Fresh, Busy, Terminal
<1>2. ASSUME NEW w \in Workers PROVE Undecided(w) /\ Covered(w) /\ Past(w)
  BY DEF Init, Undecided, Covered, Past, WriteSteps, CreditSteps
<1>3. CreditForOutcome /\ ReadyTruth
  BY DEF Init, CreditForOutcome, ReadyTruth
<1> QED BY <1>1, <1>2, <1>3, InitBase DEF TlsInv

\* Every step keeps the invariant of one outcome.
LEMMA TlsStep ==
  ASSUME TlsInv, [Next]_vars, OneOutcome, Calm
  PROVE  TlsInv'
<1>1. BaseInv' /\ SingleCopy'
  BY BaseStep, SingleCopyStep DEF TlsInv
<1>2. Verdict' /\ Fresh' /\ CreditForOutcome' /\ ReadyTruth'
  BY VerdictStep, FreshStep, CreditStep, ReadyStep
<1>3. ASSUME NEW w \in Workers PROVE Undecided(w)' /\ Covered(w)' /\ Past(w)'
  BY UndecidedStep, CoveredStep, PastStep
<1> QED BY <1>1, <1>2, <1>3 DEF TlsInv

\* The invariant of one outcome holds in every reachable state.
THEOREM TlsInvariant ==
  ASSUME OneOutcome, Calm
  PROVE  Spec => []TlsInv
<1>1. TlsInv /\ [Next]_vars => TlsInv'
  BY TlsStep
<1> QED BY <1>1, InitTls, PTL DEF Spec

\* A stored outcome is final although handlers check it before their
\* transaction and write without looking, whatever fails or is lost, as long
\* as a scan is sent one kind of outcome and a completion that a plan may
\* refuse is not repeated (or its copies are handled one by one with the
\* status as stored).  Without it the run MCTlsOutcomeRace breaks it.
THEOREM TlsTerminalFinal ==
  ASSUME OneOutcome, Calm
  PROVE  Spec => TerminalFinal
<1>1. TlsInv /\ [Next]_vars
      => [\A s \in Scans : row[s] # None /\ IsTerminal(row[s].status) =>
             row'[s].status = row[s].status]_vars
  BY OutcomeFinal DEF Terminal
<1> QED BY <1>1, TlsInvariant, PTL DEF Spec, TerminalFinal

\* A user's stored SUCCESS holds its credit and a stored FAILED holds none,
\* under the same conditions: the ledger row and the result row commit together.
THEOREM TlsCreditForOutcome ==
  ASSUME OneOutcome, Calm
  PROVE  Spec => []CreditForOutcome
<1>1. TlsInv => CreditForOutcome
  BY DEF TlsInv
<1> QED BY <1>1, TlsInvariant, PTL

\* scan.ready never says what the table does not, under the same conditions,
\* also long after the commit it announces.
THEOREM TlsReadyTruth ==
  ASSUME OneOutcome, Calm
  PROVE  Spec => []ReadyTruth
<1>1. TlsInv => ReadyTruth
  BY DEF TlsInv
<1> QED BY <1>1, TlsInvariant, PTL
-----------------------------------------------------------------------------
(* ImplementsTlsScan: the commit is the only step of a handler that the    *)
(* abstract lifecycle sees, besides the insert of scan.started.            *)

RefInv == TlsInv /\ (SoleCompleter => QuotaInv)

\* A commit is the abstract outcome of its scan, or repeats it.
LEMMA CommitRefines ==
  ASSUME RefInv, [Next]_vars, OneOutcome, WithinPlans, NEW w \in Workers, Commit(w)
  PROVE  \/ Abstract!TSComplete(job[w]) \/ Abstract!TSFail(job[w])
         \/ UNCHANGED <<StateOf, Gone, ledger>>
<1> DEFINE s == job[w]
<1>0. BaseInv /\ TlsInv
  BY DEF RefInv, TlsInv
<1>1. /\ s \in Scans /\ row' = [row EXCEPT ![s] = pend[w]]
      /\ pend[w] \in Row /\ pend[w].status = WrittenStatus(w) /\ ~pend[w].deleted
      /\ row[s] # None => row[s] \in Row /\ ~row[s].deleted
      /\ ledger' = IF keyLock[s] = w THEN ledger \union {s}
                   ELSE IF freed[w] THEN ledger \ {s} ELSE ledger
      /\ keyLock[s] = w => goal[w] = "SUCCESS" /\ ~OfCatalog(s)
      /\ freed[w] => goal[w] = "FAILED"
  BY <1>0, CommitEffect
<1>2. row'[s] = pend[w] /\ \A t \in Scans : t # s => row'[t] = row[t]
  BY <1>0, <1>1 DEF BaseInv, TypeOK
<1> HIDE DEF s
<1>3. Gone' = Gone /\ s \notin Gone
  BY <1>1, <1>2 DEF Gone
<1>4. StateOf' = [StateOf EXCEPT ![s] = WrittenStatus(w)]
  <2>1. pend[w] # None
    BY <1>1
  <2>2. \A t \in Scans : (IF row'[t] = None THEN "PENDING" ELSE row'[t].status) =
                         (IF t = s THEN WrittenStatus(w) ELSE StateOf[t])
    BY <1>1, <1>2, <2>1 DEF StateOf
  <2>3. StateOf' = [t \in Scans |-> IF t = s THEN WrittenStatus(w) ELSE StateOf[t]]
    BY <2>2 DEF StateOf
  <2> QED BY <1>1, <2>3 DEF StateOf
<1>5. /\ goal[w] = "SUCCESS" /\ ~OfCatalog(s) => s \in ledger \/ keyLock[s] = w
      /\ goal[w] = "LIMIT" => s \notin ledger
      /\ goal[w] = "FAILED" => freed[w] \/ s \notin ledger
      /\ goal[w] \in {"SUCCESS", "LIMIT", "FAILED"}
  BY <1>0, Committer DEF TlsInv, Covered, WriteSteps, s
<1>6. CASE Terminal(s)
  <2>1. row[s].status = WrittenStatus(w)
    BY <1>0, <1>1, <1>2, <1>6, OutcomeFinal
  <2>2. UNCHANGED StateOf
    BY <1>1, <1>2, <1>6, <2>1 DEF StateOf, Terminal
  <2>3. /\ goal[w] = "SUCCESS" /\ ~OfCatalog(s) => s \in ledger
        /\ goal[w] # "SUCCESS" => s \notin ledger
    BY <1>0, <1>1, <1>6, <2>1
    DEF TlsInv, CreditForOutcome, Terminal, WrittenStatus, BaseInv, Requested
  <2>4. ledger' = ledger
    BY <1>1, <1>5, <2>3
  <2> QED BY <1>3, <2>2, <2>4
<1>7. CASE ~Terminal(s)
  <2>1. ~IsTerminal(StateOf[s])
    BY <1>1, <1>7 DEF StateOf, Terminal, IsTerminal, TerminalStates
  <2>2. CASE goal[w] = "SUCCESS"
    <3>1. ledger' = IF OfCatalog(s) THEN ledger ELSE ledger \union {s}
      BY <1>1, <1>5, <2>2
    <3>2. ~OfCatalog(s) => s \in ledger \/ Unlimited(Owner[s]) \/
             Cardinality({t \in ledger : Owner[t] = Owner[s]}) < Limit[Owner[s]]
      <4>1. SUFFICES ASSUME ~OfCatalog(s), s \notin ledger, ~Unlimited(Owner[s])
                     PROVE  Cardinality({t \in ledger : Owner[t] = Owner[s]}) < Limit[Owner[s]]
        OBVIOUS
      <4>2. Owner[s] \in Users
        BY <1>1, <4>1 DEF OfCatalog
      <4>3. QuotaInv
        BY <4>1, <4>2 DEF WithinPlans, RefInv
      <4>4. keyLock[job[w]] = w /\ Contested(job[w]) /\ job[w] # None
        BY <1>1, <1>5, <2>2, <4>1 DEF Contested, s
      <4> QED BY <4>3, <4>4 DEF QuotaInv, Counted, CreditsOf, s
    <3>3. WrittenStatus(w) = "SUCCESS"
      BY <2>2 DEF WrittenStatus
    <3>4. Abstract!Open(s)
      BY <1>3, <2>1 DEF Abstract!Open, Abstract!IsTerminal, Abstract!TerminalStates,
                        IsTerminal, TerminalStates
    <3>5. Abstract!Charged(s) => s \in ledger \/ Abstract!Room(s)
      <4>1. \A S : Abstract!Cardinality(S) = Cardinality(S)
        BY DEF Abstract!Cardinality, Cardinality
      <4> QED BY <3>2, <4>1 DEF Abstract!Charged, Abstract!Room, OfCatalog, Unlimited
    <3>6. ledger' = IF Abstract!Charged(s) THEN ledger \union {s} ELSE ledger
      BY <3>1 DEF Abstract!Charged, OfCatalog
    <3>7. Abstract!TSComplete(s)
      BY <1>3, <1>4, <3>3, <3>4, <3>5, <3>6 DEF Abstract!TSComplete
    <3> QED BY <3>7 DEF s
  <2>3. CASE goal[w] # "SUCCESS"
    <3>1. ledger' = ledger \ {s}
      BY <1>1, <1>5, <2>3
    <3>2. WrittenStatus(w) = "FAILED"
      BY <2>3 DEF WrittenStatus
    <3> QED BY <1>3, <1>4, <2>1, <3>1, <3>2
        DEF Abstract!TSFail, Abstract!Open, Abstract!IsTerminal, Abstract!TerminalStates,
            IsTerminal, TerminalStates, s
  <2> QED BY <2>2, <2>3
<1> QED BY <1>6, <1>7

\* The insert of scan.started is the abstract start.
LEMMA StartRefines ==
  ASSUME BaseInv, NEW w \in Workers, StartCreate(w)
  PROVE  Abstract!TSStart(job[w]) \/ UNCHANGED <<StateOf, Gone, ledger>>
<1>1. CASE Done(w)
  BY <1>1 DEF Done, StateOf, Gone
<1>2. CASE ~Done(w)
  <2> DEFINE new == StartedRow(job[w])
  <2>1. /\ job[w] \in Scans /\ row[job[w]] = None /\ ledger' = ledger
        /\ row' = [row EXCEPT ![job[w]] = new]
    BY <1>2, WorkingJob DEF StartCreate
  <2>2. new \in Row /\ new.status = "RUNNING" /\ ~new.deleted
    BY <2>1, StartedRowIs
  <2> HIDE DEF new
  <2>3. row'[job[w]] = new /\ \A t \in Scans : t # job[w] => row'[t] = row[t]
    BY <2>1 DEF BaseInv, TypeOK
  <2>4. Gone' = Gone /\ job[w] \notin Gone
    BY <2>1, <2>2, <2>3 DEF Gone
  <2>5. StateOf' = [StateOf EXCEPT ![job[w]] = "RUNNING"] /\ StateOf[job[w]] = "PENDING"
    BY <2>1, <2>2, <2>3 DEF StateOf
  <2> QED BY <2>1, <2>4, <2>5 DEF Abstract!TSStart
<1> QED BY <1>1, <1>2

\* Removing live rows is an abstract removal of those scans, or of none.
LEMMA RemovalRefines ==
  ASSUME BaseInv, ledger' = ledger,
         \A s \in Scans : \/ row'[s] = row[s]
                          \/ /\ row[s] # None /\ ~row[s].deleted
                             /\ row'[s] # None /\ row'[s].deleted
                             /\ row'[s].status = row[s].status
  PROVE  Abstract!TSRemove \/ UNCHANGED <<StateOf, Gone, ledger>>
<1>1. StateOf' = StateOf
  BY DEF StateOf
<1>2. Gone \subseteq Gone'
  BY DEF Gone
<1>3. CASE Gone' = Gone
  BY <1>1, <1>3
<1>4. CASE Gone' # Gone
  <2>1. Gone' \in SUBSET Scans
    BY DEF Gone
  <2> QED BY <1>1, <1>2, <1>4, <2>1 DEF Abstract!TSRemove
<1> QED BY <1>3, <1>4

\* Every step of the handlers is a step of the abstract lifecycle or none.
LEMMA StepRefines ==
  ASSUME RefInv, [Next]_vars, OneOutcome, WithinPlans
  PROVE  [Abstract!TSNext]_(Abstract!tsvars)
<1>0. BaseInv
  BY DEF RefInv, TlsInv
<1>1. ASSUME NEW w \in Workers, Commit(w) PROVE [Abstract!TSNext]_(Abstract!tsvars)
  BY <1>0, <1>1, CommitRefines, CommitEffect DEF Abstract!TSNext, Abstract!tsvars
<1>2. ASSUME NEW w \in Workers, StartCreate(w) PROVE [Abstract!TSNext]_(Abstract!tsvars)
  <2>1. job[w] \in Scans
    BY <1>0, <1>2, WorkingJob DEF StartCreate
  <2> QED BY <1>0, <1>2, <2>1, StartRefines DEF Abstract!TSNext, Abstract!tsvars
<1>3. CASE \A w \in Workers : ~Commit(w) /\ ~StartCreate(w)
  BY <1>0, <1>3, TableEffect, RemovalRefines DEF Abstract!TSNext, Abstract!tsvars
<1> QED BY <1>1, <1>2, <1>3

\* The handlers implement the atomic lifecycle of TlsScan, credits within the
\* plans included: for any events, losses, failing steps and deletes, when a
\* scan is sent one outcome, a refusable completion is not repeated and plans
\* are enforced by one instance.
THEOREM TlsImplementsTlsScan ==
  ASSUME OneOutcome, Calm, WithinPlans
  PROVE  Spec => ImplementsTlsScan
<1>1. Init => RefInv
  BY InitTls, InitQuota DEF RefInv
<1>2. RefInv /\ [Next]_vars => RefInv'
  BY TlsStep, QuotaStep DEF RefInv
<1>3. Init => Abstract!TSInit
  BY DEF Init, Abstract!TSInit, Abstract!Charged, StateOf, Gone, OfCatalog
<1>4. RefInv /\ [Next]_vars => [Abstract!TSNext]_(Abstract!tsvars)
  BY StepRefines
<1> QED BY <1>1, <1>2, <1>3, <1>4, PTL DEF Spec, ImplementsTlsScan, Abstract!TSSpec
=============================================================================
