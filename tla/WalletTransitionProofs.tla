----------------------- MODULE WalletTransitionProofs -----------------------
(***************************************************************************)
(* TLAPS proofs about WalletTransition, for every set of scans, handlers,  *)
(* bodies and faults that satisfies the module's assumptions.              *)
(***************************************************************************)
EXTENDS WalletTransition, TLAPS

\* What a handler knows at each step of a request.
HandlerShape(h) ==
    /\ pc[h] \in InTx => req[h] \in Command
    /\ pc[h] \in {"write", "again", "rewrite", "last"} => ent[h] \in Row
    /\ pc[h] = "finish" => pend[h] \in Row
    /\ pc[h] = "commit" => res[h] \in Result
    /\ pc[h] \in {"project", "ready", "observe"} =>
          req[h] \in Command /\ res[h] \in Result /\ res[h].row \in Row

DeleterShape(d) ==
    dpc[d] # "idle" => dreq[d] \in [user : Users, scan : Scans, addr : Addresses]

TypeInv ==
    /\ TypeOK
    /\ \A h \in Handlers : HandlerShape(h)
    /\ \A d \in Deleters : DeleterShape(d)

\* An uncommitted row belongs to the one transaction that holds its row, and
\* it carries the state that its command asked for.
PendingRow(h) ==
    /\ pend[h] # None =>
          /\ pc[h] \in {"finish", "commit"}
          /\ lock[req[h].scan] = h
          /\ pend[h].status = req[h].target
    /\ req[h] # None => req[h].quota = QuotaForTarget(req[h].target)

\* A transaction about to commit a SUCCESS has seen the credit, and nobody
\* else can release it while that transaction holds the row.
CreditSeen(h) ==
    pc[h] = "commit" /\ pend[h] # None /\ req[h].target = "SUCCESS" =>
        req[h].scan \in ledger

\* The row a transaction holds stays as its write found it: absent, or live
\* and in one of the command's source states; those come from a body.
HeldRow(h) ==
    /\ pend[h] # None =>
          LET r == row[req[h].scan]
          IN  r # None => ~r.deleted /\ SourceScope(r.status, req[h].sources)
    /\ pend[h] # None => ~pend[h].deleted
    /\ req[h] # None => \E b \in Bodies : req[h].sources = b.sources

LockInv == \A h \in Handlers : PendingRow(h) /\ CreditSeen(h) /\ HeldRow(h)

IInv == TypeInv /\ LockInv /\ CreditForResult
-----------------------------------------------------------------------------
\* A valid body becomes a well-typed command that carries its target's quota
\* action (transitionCommand).
LEMMA CommandType ==
    ASSUME NEW b \in Bodies, ValidBody(b)
    PROVE  /\ TransitionCommand(b) \in Command
           /\ TransitionCommand(b).quota = QuotaForTarget(TransitionCommand(b).target)
BY ConstantsAssumption, NoneAssumption
   DEF ValidBody, TransitionCommand, Command, Body, KnownSources, PayloadMatches,
       Targets, QuotaForTarget

\* newRow builds a row of the command's state and transition id.
LEMMA NewRowType ==
    ASSUME NEW cmd \in Command
    PROVE  NewRow(cmd) \in Row /\ NewRow(cmd).status = cmd.target
BY DEF NewRow, Row, Command, Targets, StoredStates, States, TerminalStates

\* classify, reload and the fixed answers are Results.
LEMMA ResultType ==
    /\ Retryable \in Result
    /\ \A st \in StoredStates : Rejected(st) \in Result
    /\ \A r \in Row, cmd \in Command : Classify(r, cmd) \in Result
    /\ \A r \in Row : /\ WithRow("applied", r) \in Result
                      /\ WithRow("already_applied", r) \in Result
                      /\ WithRow("applied", r).row \in Row
                      /\ WithRow("already_applied", r).row \in Row
BY DEF Retryable, Rejected, Classify, WithRow, Result, Row, Logical, Blank,
       StoredStates, States, TerminalStates

\* First finds a row of the table or nothing.
LEMMA FindType ==
    ASSUME TypeOK, NEW s \in Scans, Find(s) # None
    PROVE  Find(s) \in Row /\ Find(s) = row[s]
BY DEF TypeOK, Find
-----------------------------------------------------------------------------
\* The service starts in a well-typed state.
LEMMA InitType == Init => TypeInv
BY ConstantsAssumption
   DEF Init, TypeInv, TypeOK, HandlerShape, DeleterShape, InTx, HandlerSteps, Owners

\* Rolling back, answering and releasing a handler keep every type.
LEMMA RollbackType ==
    ASSUME TypeInv, NEW h \in Handlers, Rollback(h), UNCHANGED <<dvars, projections>>
    PROVE  TypeInv'
BY ResultType
   DEF TypeInv, TypeOK, HandlerShape, DeleterShape, Rollback, Goto, Answer, InTx,
       HandlerSteps, dvars, projections

\* Ending a request frees its handler and keeps every type.
LEMMA ReleaseType ==
    ASSUME TypeInv, NEW h \in Handlers, Release(h), lock' \in [Scans -> Handlers \union {None}],
           UNCHANGED <<row, ledger, dvars, projections>>
    PROVE  TypeInv'
BY DEF TypeInv, TypeOK, HandlerShape, DeleterShape, Release, Goto, InTx,
       HandlerSteps, dvars, projections

\* applyExisting's decisions on a row just read keep every type.
LEMMA QualifyType ==
    ASSUME TypeInv, NEW h \in Handlers, NEW r \in Row, pc[h] \in InTx, Qualify(h, r),
           UNCHANGED <<db, req, pend, dvars, projections>>
    PROVE  TypeInv'
BY ResultType
   DEF TypeInv, TypeOK, HandlerShape, DeleterShape, Qualify, Stop, Goto, Answer, InTx,
       HandlerSteps, db, dvars, projections

\* Taking a row, or missing it, keeps every type.
LEMMA WriteType ==
    ASSUME TypeInv, NEW h \in Handlers, pc[h] \in InTx,
           \/ TakeRow(h)
           \/ /\ \/ Goto(h, "winner")
                 \/ pc[h] \in {"write", "rewrite"} /\ (Goto(h, "again") \/ Goto(h, "last"))
              /\ UNCHANGED <<lock, pend>>,
           UNCHANGED <<row, ledger, req, ent, res, dvars, projections>>
    PROVE  TypeInv'
<1>1. CASE TakeRow(h)
  BY <1>1, NewRowType
     DEF TypeInv, TypeOK, HandlerShape, DeleterShape, TakeRow, Goto, InTx, HandlerSteps,
         dvars, projections, Command
<1>2. CASE ~TakeRow(h)
  BY <1>2
     DEF TypeInv, TypeOK, HandlerShape, DeleterShape, Goto, InTx, HandlerSteps,
         dvars, projections
<1> QED
  BY <1>1, <1>2

\* Committing installs a typed row.
LEMMA InstallType ==
    ASSUME TypeInv, NEW h \in Handlers, pc[h] \in InTx, Install(h)
    PROVE  /\ row' \in [Scans -> Row \union {None}]
           /\ ledger' \subseteq Scans
           /\ lock' \in [Scans -> Handlers \union {None}]
           /\ pend' \in [Handlers -> Row \union {None}]
BY DEF TypeInv, TypeOK, HandlerShape, Install, Command

\* Every step of a transition request keeps every type.
LEMMA StepType ==
    ASSUME TypeInv, NEW h \in Handlers, Step(h)
    PROVE  TypeInv'
<1> USE DEF TypeInv
<1>1. CASE FirstRead(h)
  <2>1. req[h] \in Command /\ req[h].scan \in Scans
    BY <1>1 DEF FirstRead, HandlerShape, InTx, Command
  <2>2. CASE Find(req[h].scan) # None
    BY <1>1, <2>1, <2>2, FindType, QualifyType DEF FirstRead, InTx
  <2>3. CASE Find(req[h].scan) = None
    <3>1. "PENDING" \in StoredStates
      BY DEF StoredStates, States
    <3> QED
      BY <1>1, <2>1, <2>3, <3>1, ResultType
         DEF FirstRead, Stop, Goto, Answer, TypeOK, HandlerShape, DeleterShape, InTx,
             HandlerSteps, db, dvars, projections
  <2> QED
    BY <2>2, <2>3
<1>2. CASE PrepareQuota(h)
  BY <1>2, ResultType
     DEF PrepareQuota, Stop, Goto, Answer, TypeOK, HandlerShape, DeleterShape, InTx,
         HandlerSteps, db, dvars, projections
<1>3. CASE Insert(h)
  BY <1>3, WriteType DEF Insert, InTx
<1>4. CASE ReadWinner(h)
  <2>1. req[h] \in Command /\ req[h].scan \in Scans
    BY <1>4 DEF ReadWinner, HandlerShape, InTx, Command
  <2> QED
    BY <1>4, <2>1, FindType, QualifyType, RollbackType DEF ReadWinner, InTx
<1>5. CASE Write(h)
  BY <1>5, WriteType DEF Write, WriteScoped, InTx
<1>6. CASE ReadAgain(h)
  <2>1. req[h] \in Command /\ req[h].scan \in Scans
    BY <1>6 DEF ReadAgain, HandlerShape, InTx, Command
  <2>2. CASE Find(req[h].scan) = None
    BY <1>6, <2>2, RollbackType DEF ReadAgain
  <2>3. CASE Find(req[h].scan) # None
    <3>1. Find(req[h].scan) \in Row
      BY <2>1, <2>3, FindType
    <3> QED
      BY <1>6, <2>1, <2>3, <3>1, ResultType
         DEF ReadAgain, Stop, Goto, Answer, TypeOK, HandlerShape, DeleterShape, InTx,
             HandlerSteps, db, dvars, projections
  <2> QED
    BY <2>2, <2>3
<1>7. CASE Rewrite(h)
  BY <1>7, WriteType DEF Rewrite, WriteScoped, InTx
<1>8. CASE ReadLast(h)
  <2>1. req[h] \in Command /\ req[h].scan \in Scans /\ ent[h] \in Row
    BY <1>8 DEF ReadLast, HandlerShape, InTx, Command
  <2>2. Classify(IF Find(req[h].scan) = None THEN ent[h] ELSE Find(req[h].scan), req[h]) \in Result
    BY <2>1, FindType, ResultType
  <2> QED
    BY <1>8, <2>1, <2>2
       DEF ReadLast, Stop, Goto, Answer, TypeOK, HandlerShape, DeleterShape, InTx,
           HandlerSteps, db, dvars, projections
<1>9. CASE FinishQuota(h)
  <2>1. CASE Rollback(h)
    BY <1>9, <2>1, RollbackType DEF FinishQuota
  <2>2. CASE ~Rollback(h)
    BY <1>9, <2>2, ResultType
       DEF FinishQuota, Goto, Answer, TypeOK, HandlerShape, DeleterShape, InTx,
           HandlerSteps, db, dvars, projections
  <2> QED
    BY <2>1, <2>2
<1>10. CASE Commit(h)
  <2>1. res[h] \in Result /\ req[h] \in Command
    BY <1>10 DEF Commit, HandlerShape, InTx
  <2>2. Projects(res[h]) => res[h].row \in Row
    BY <2>1 DEF Projects, Result
  <2> QED
    BY <1>10, <2>1, <2>2, InstallType
       DEF Commit, Install, Goto, TypeOK, HandlerShape, DeleterShape, InTx, HandlerSteps,
           dvars, projections
<1>11. CASE SaveCache(h)
  <2>1. /\ req[h].scan \in Scans
        /\ res[h].row.user \in Users /\ res[h].row.addr \in Addresses
    BY <1>11 DEF SaveCache, HandlerShape, Command, Row
  <2>2. [scan |-> req[h].scan, status |-> ReadyStatus(res[h].row.status)] \in Entry
    BY <2>1 DEF Entry, ReadyStatus
  <2>3. cache' \in [Owners -> Entry \union {None}]
    BY <1>11, <2>1, <2>2 DEF SaveCache, TypeOK, Owners
  <2> QED
    BY <1>11, <2>3
       DEF SaveCache, Goto, TypeOK, HandlerShape, DeleterShape, InTx, HandlerSteps, db, dvars
<1>12. CASE PublishScanReady(h)
  <2>1. /\ req[h].scan \in Scans
        /\ res[h].row.user \in Users /\ res[h].row.addr \in Addresses
    BY <1>12 DEF PublishScanReady, HandlerShape, Command, Row
  <2>2. ready' \subseteq [scan : Scans, user : Users, addr : Addresses,
                          status : {"success", "failed"}]
    BY <1>12, <2>1 DEF PublishScanReady, TypeOK, ReadyStatus
  <2> QED
    BY <1>12, <2>2
       DEF PublishScanReady, AfterReady, Goto, TypeOK, HandlerShape, DeleterShape, InTx,
           HandlerSteps, db, dvars
<1>13. CASE PublishWalletObserved(h)
  <2>1. req[h].scan \in Scans
    BY <1>13 DEF PublishWalletObserved, HandlerShape, Command
  <2> QED
    BY <1>13, <2>1
       DEF PublishWalletObserved, Goto, TypeOK, HandlerShape, DeleterShape, InTx,
           HandlerSteps, db, dvars
<1>14. CASE Respond(h)
  BY <1>14, ReleaseType DEF Respond, TypeOK, db
<1> QED
  BY <1>1, <1>2, <1>3, <1>4, <1>5, <1>6, <1>7, <1>8, <1>9, <1>10, <1>11, <1>12, <1>13,
     <1>14 DEF Step

\* So does every fault that can strike one.
LEMMA FaultType ==
    ASSUME TypeInv, NEW h \in Handlers, Fault(h)
    PROVE  TypeInv'
<1> USE DEF TypeInv
<1>1. CASE TxFail(h)
  BY <1>1, RollbackType DEF TxFail
<1>2. CASE CommitUnacknowledged(h)
  BY <1>2, InstallType, ResultType
     DEF CommitUnacknowledged, Install, Goto, Answer, TypeOK, HandlerShape, DeleterShape,
         InTx, HandlerSteps, dvars, projections
<1>3. CASE CacheFail(h)
  BY <1>3
     DEF CacheFail, Goto, TypeOK, HandlerShape, DeleterShape, InTx, HandlerSteps, db, dvars,
         projections
<1>4. CASE PublishFail(h)
  BY <1>4
     DEF PublishFail, AfterReady, Goto, TypeOK, HandlerShape, DeleterShape, InTx,
         HandlerSteps, db, dvars, projections
<1>5. CASE Crash(h)
  BY <1>5, ReleaseType DEF Crash, TypeOK
<1> QED
  BY <1>1, <1>2, <1>3, <1>4, <1>5 DEF Fault

\* And every step of a delete request.
LEMMA DeleteType ==
    ASSUME TypeInv, NEW d \in Deleters,
           \/ \E u \in Users, s \in Scans : DeleteFind(d, u, s)
           \/ DeleteStep(d) \/ DeleteFail(d)
    PROVE  TypeInv'
<1> USE DEF TypeInv
<1>1. ASSUME NEW u \in Users, NEW s \in Scans, DeleteFind(d, u, s)
      PROVE  TypeInv'
  <2>1. Find(s).addr \in Addresses
    BY <1>1, FindType DEF DeleteFind, Row
  <2> QED
    BY <1>1, <2>1
       DEF DeleteFind, DGoto, TypeOK, HandlerShape, DeleterShape, db, hvars, projections
<1>2. CASE DeleteRow(d)
  <2>1. dreq[d].scan \in Scans
    BY <1>2 DEF DeleteRow, DeleterShape
  <2>2. row' \in [Scans -> Row \union {None}]
    <3>1. CASE row' = row
      BY <3>1 DEF TypeOK
    <3>2. CASE Find(dreq[d].scan) # None /\ row' = [row EXCEPT ![dreq[d].scan].deleted = TRUE]
      <4>1. row[dreq[d].scan] \in Row
        BY <2>1, <3>2, FindType
      <4>2. [row[dreq[d].scan] EXCEPT !.deleted = TRUE] \in Row
        BY <4>1 DEF Row
      <4> QED
        BY <2>1, <3>2, <4>2 DEF TypeOK
    <3> QED
      BY <1>2, <3>1, <3>2 DEF DeleteRow
  <2> QED
    BY <1>2, <2>2
       DEF DeleteRow, DeleteDone, DGoto, TypeOK, HandlerShape, DeleterShape, hvars, projections
<1>3. CASE DeleteList(d)
  BY <1>3
     DEF DeleteList, DeleteDone, DGoto, TypeOK, HandlerShape, DeleterShape, db, hvars, projections
<1>4. CASE DeleteCache(d)
  <2>1. dreq[d].user \in Users /\ dreq[d].addr \in Addresses
    BY <1>4 DEF DeleteCache, DeleterShape
  <2>2. cache' \in [Owners -> Entry \union {None}]
    BY <1>4, <2>1 DEF DeleteCache, TypeOK, Owners
  <2> QED
    BY <1>4, <2>2
       DEF DeleteCache, DeleteDone, DGoto, TypeOK, HandlerShape, DeleterShape, db, hvars
<1>5. CASE DeleteFail(d)
  BY <1>5
     DEF DeleteFail, DeleteDone, DGoto, TypeOK, HandlerShape, DeleterShape, db, hvars, projections
<1> QED
  BY <1>1, <1>2, <1>3, <1>4, <1>5 DEF DeleteStep

\* TypeInv is inductive.
LEMMA NextType == TypeInv /\ [Next]_vars => TypeInv'
<1> SUFFICES ASSUME TypeInv, [Next]_vars
             PROVE  TypeInv'
  OBVIOUS
<1>1. ASSUME NEW h \in Handlers, NEW b \in Bodies, Receive(h, b)
      PROVE  TypeInv'
  <2>1. Blank \in StoredStates
    BY DEF StoredStates
  <2> QED
    BY <1>1, <2>1, CommandType, ResultType
       DEF Receive, Goto, Answer, TypeInv, TypeOK, HandlerShape, DeleterShape, InTx,
           HandlerSteps, db, dvars, projections
<1>2. ASSUME NEW o \in Owners, Expire(o)
      PROVE  TypeInv'
  BY <1>2 DEF Expire, TypeInv, TypeOK, HandlerShape, DeleterShape, db, hvars, dvars
<1>3. CASE UNCHANGED vars
  BY <1>3 DEF vars, TypeInv, TypeOK, HandlerShape, DeleterShape, db, hvars, dvars, projections
<1> QED
  BY <1>1, <1>2, <1>3, StepType, FaultType, DeleteType DEF Next

\* Every table, handler and projection of the service keeps its type in every
\* behaviour, for any number of scans, handlers and deletes.
THEOREM TypeCorrect == Spec => []TypeOK
<1>1. Spec => []TypeInv
  BY InitType, NextType, PTL DEF Spec
<1>2. TypeInv => TypeOK
  BY DEF TypeInv
<1> QED
  BY <1>1, <1>2, PTL
-----------------------------------------------------------------------------
\* A step that leaves the tables, the locks and what is pending alone, taken by
\* a handler that has nothing pending, keeps locks and credits.
LEMMA QuietStep ==
    ASSUME IInv, TypeInv', NEW h \in Handlers, pend[h] = None,
           NEW x \in HandlerSteps, pc' = [pc EXCEPT ![h] = x],
           UNCHANGED <<row, ledger, lock, pend, req>>
    PROVE  LockInv' /\ CreditForResult'
BY DEF IInv, TypeInv, TypeOK, LockInv, PendingRow, CreditSeen, HeldRow, CreditForResult

\* Outside finish and commit a transaction has nothing pending.
LEMMA NothingPending ==
    ASSUME LockInv, NEW h \in Handlers, pc[h] \notin {"finish", "commit"}
    PROVE  pend[h] = None
BY DEF LockInv, PendingRow

\* A rollback, or a crash, gives up the row and changes no table.
LEMMA RollbackKeeps ==
    ASSUME IInv, NEW h \in Handlers, NEW x \in {"idle", "respond"},
           pc' = [pc EXCEPT ![h] = x],
           pend' = [pend EXCEPT ![h] = None],
           lock' = [s \in Scans |-> IF lock[s] = h THEN None ELSE lock[s]],
           req' = req \/ req' = [req EXCEPT ![h] = None],
           UNCHANGED <<row, ledger>>
    PROVE  LockInv' /\ CreditForResult'
<1>1. CreditForResult'
  BY DEF IInv, CreditForResult
<1>2. ASSUME NEW g \in Handlers
      PROVE  PendingRow(g)' /\ CreditSeen(g)' /\ HeldRow(g)'
  <2>1. CASE g = h
    BY <2>1 DEF IInv, TypeInv, TypeOK, LockInv, PendingRow, CreditSeen, HeldRow
  <2>2. CASE g # h
    <3>1. req'[g] = req[g] /\ pend'[g] = pend[g] /\ pc'[g] = pc[g]
      BY <2>2 DEF IInv, TypeInv, TypeOK
    <3>2. pend[g] # None => req[g] \in Command /\ req[g].scan \in Scans
      BY DEF IInv, TypeInv, HandlerShape, LockInv, PendingRow, InTx, Command
    <3> QED
      BY <2>2, <3>1, <3>2 DEF IInv, LockInv, PendingRow, CreditSeen, HeldRow
  <2> QED
    BY <2>1, <2>2
<1> QED
  BY <1>1, <1>2 DEF LockInv

\* Taking a free row excludes every other transaction from it.
LEMMA TakeRowKeeps ==
    ASSUME IInv, NEW h \in Handlers, pc[h] \in InTx \ {"finish", "commit"},
           lock[req[h].scan] = None, TakeRow(h),
           LET r == row[req[h].scan]
           IN  r # None => ~r.deleted /\ SourceScope(r.status, req[h].sources),
           UNCHANGED <<row, ledger, req>>
    PROVE  LockInv' /\ CreditForResult'
<1>1. CreditForResult'
  BY DEF IInv, CreditForResult
<1>2. req[h] \in Command /\ req[h].scan \in Scans
  BY DEF IInv, TypeInv, HandlerShape, Command
<1>3. ASSUME NEW g \in Handlers
      PROVE  PendingRow(g)' /\ CreditSeen(g)' /\ HeldRow(g)'
  <2>1. CASE g = h
    <3>1. NewRow(req[h]) # None /\ ~NewRow(req[h]).deleted
      BY <1>2, NewRowType, NoneAssumption DEF NewRow
    <3> QED
      BY <2>1, <3>1, <1>2, NewRowType
         DEF TakeRow, Goto, IInv, TypeInv, TypeOK, LockInv, PendingRow, CreditSeen, HeldRow
  <2>2. CASE g # h
    <3>1. pend'[g] = pend[g] /\ pc'[g] = pc[g]
      BY <2>2 DEF TakeRow, Goto, IInv, TypeInv, TypeOK
    <3>2. pend[g] # None => req[g].scan # req[h].scan /\ lock[req[g].scan] = g
      BY NoneAssumption DEF IInv, LockInv, PendingRow
    <3>3. pend[g] # None => req[g].scan \in Scans
      BY DEF IInv, TypeInv, HandlerShape, LockInv, PendingRow, InTx, Command
    <3> QED
      BY <2>2, <3>1, <3>2, <3>3, <1>2
         DEF TakeRow, IInv, TypeInv, TypeOK, LockInv, PendingRow, CreditSeen, HeldRow
  <2> QED
    BY <2>1, <2>2
<1> QED
  BY <1>1, <1>3 DEF LockInv

\* A commit installs a SUCCESS only with its credit in place, takes the credit
\* of a FAILED away with it, and touches no other scan.
LEMMA InstallKeeps ==
    ASSUME IInv, NEW h \in Handlers, pc[h] = "commit", Install(h),
           NEW x \in {"project", "respond"}, pc' = [pc EXCEPT ![h] = x], req' = req
    PROVE  LockInv' /\ CreditForResult'
<1>1. req[h] \in Command /\ req[h].scan \in Scans /\ req[h].target \in Targets
  BY DEF IInv, TypeInv, HandlerShape, InTx, Command
<1>2. req[h].quota = QuotaForTarget(req[h].target)
  BY <1>1, NoneAssumption DEF IInv, LockInv, PendingRow
<1>3. ASSUME NEW s \in Scans, row'[s] # None
      PROVE  /\ row'[s].status = "SUCCESS" => s \in ledger'
             /\ row'[s].status = "FAILED"  => s \notin ledger'
  <2>1. CASE pend[h] = None \/ s # req[h].scan
    <3>1. row'[s] = row[s] /\ (s \in ledger' <=> s \in ledger)
      BY <1>1, <2>1 DEF Install, IInv, TypeInv, TypeOK
    <3> QED
      BY <1>3, <3>1 DEF IInv, CreditForResult
  <2>2. CASE pend[h] # None /\ s = req[h].scan
    <3>1. row'[s] = pend[h] /\ pend[h].status = req[h].target
      BY <2>2 DEF Install, IInv, TypeInv, TypeOK, LockInv, PendingRow
    <3>2. CASE req[h].target = "SUCCESS"
      <4>1. req[h].quota = "keep"
        BY <1>2, <3>2 DEF QuotaForTarget
      <4>2. s \in ledger
        BY <2>2, <3>2 DEF IInv, LockInv, CreditSeen
      <4> QED
        BY <2>2, <3>1, <3>2, <4>1, <4>2 DEF Install
    <3>3. CASE req[h].target = "FAILED"
      <4>1. req[h].quota = "release"
        BY <1>2, <3>3 DEF QuotaForTarget
      <4> QED
        BY <2>2, <3>1, <3>3, <4>1 DEF Install
    <3>4. CASE req[h].target = "RUNNING"
      BY <3>1, <3>4
    <3> QED
      BY <1>1, <3>2, <3>3, <3>4 DEF Targets
  <2> QED
    BY <2>1, <2>2
<1>4. ASSUME NEW g \in Handlers
      PROVE  PendingRow(g)' /\ CreditSeen(g)' /\ HeldRow(g)'
  <2>1. CASE g = h
    BY <2>1 DEF Install, IInv, TypeInv, TypeOK, LockInv, PendingRow, CreditSeen, HeldRow
  <2>2. CASE g # h
    <3>1. pend'[g] = pend[g] /\ pc'[g] = pc[g]
      BY <2>2 DEF Install, IInv, TypeInv, TypeOK
    <3>2. pend[g] # None => lock[req[g].scan] = g /\ req[g].scan \in Scans
      BY DEF IInv, TypeInv, HandlerShape, LockInv, PendingRow, InTx, Command
    <3>3. pend[g] # None /\ pend[h] # None => req[g].scan # req[h].scan
      BY <2>2, <3>2 DEF IInv, LockInv, PendingRow
    <3>4. PendingRow(g)'
      BY <2>2, <3>1, <3>2 DEF Install, IInv, LockInv, PendingRow
    <3>5. CreditSeen(g)'
      BY <3>1, <3>3 DEF Install, IInv, LockInv, CreditSeen
    <3>6. pend[g] # None => row'[req[g].scan] = row[req[g].scan]
      BY <1>1, <3>2, <3>3 DEF Install, IInv, TypeInv, TypeOK
    <3>7. HeldRow(g)'
      BY <3>1, <3>6 DEF IInv, LockInv, HeldRow
    <3> QED
      BY <3>4, <3>5, <3>7
  <2> QED
    BY <2>1, <2>2
<1> QED
  BY <1>3, <1>4 DEF LockInv, CreditForResult

\* Every step of a transition request keeps locks and credits.
LEMMA StepKeeps ==
    ASSUME IInv, TypeInv', NEW h \in Handlers, Step(h)
    PROVE  LockInv' /\ CreditForResult'
<1>1. CASE FirstRead(h) \/ PrepareQuota(h) \/ ReadLast(h) \/ SaveCache(h)
           \/ PublishScanReady(h) \/ PublishWalletObserved(h)
  <2>1. pend[h] = None
    BY <1>1, NothingPending
       DEF IInv, FirstRead, PrepareQuota, ReadLast, SaveCache, PublishScanReady,
           PublishWalletObserved
  <2>2. UNCHANGED <<row, ledger, lock, pend, req>>
    BY <1>1
       DEF FirstRead, PrepareQuota, ReadLast, SaveCache, PublishScanReady,
           PublishWalletObserved, db
  <2>3. \E x \in HandlerSteps : pc' = [pc EXCEPT ![h] = x]
    BY <1>1
       DEF FirstRead, Qualify, PrepareQuota, ReadLast, SaveCache, PublishScanReady,
           PublishWalletObserved, AfterReady, Stop, Goto, HandlerSteps, InTx
  <2> QED
    BY <2>1, <2>2, <2>3, QuietStep
<1>2. CASE Insert(h)
  <2>1. CASE TakeRow(h) /\ row[req[h].scan] = None /\ lock[req[h].scan] = None
    <3>1. pc[h] \in InTx \ {"finish", "commit"} /\ UNCHANGED <<row, ledger, req>>
      BY <1>2 DEF Insert, InTx
    <3> QED
      BY <2>1, <3>1, TakeRowKeeps
  <2>2. CASE Goto(h, "winner") /\ UNCHANGED <<lock, pend>>
    BY <1>2, <2>2, NothingPending, QuietStep DEF IInv, Insert, Goto, HandlerSteps, InTx
  <2> QED
    BY <1>2, <2>1, <2>2 DEF Insert
<1>3. CASE Write(h) \/ Rewrite(h)
  <2>1. PICK y \in {"again", "last"} : WriteScoped(h, y)
    BY <1>3 DEF Write, Rewrite
  <2>2. pc[h] \in {"write", "rewrite"} /\ UNCHANGED <<row, ledger, req>>
    BY <1>3 DEF Write, Rewrite
  <2>3. req[h].scan \in Scans
    BY <2>2 DEF IInv, TypeInv, HandlerShape, InTx, Command
  <2>4. CASE /\ Find(req[h].scan) # None
             /\ SourceScope(Find(req[h].scan).status, req[h].sources)
             /\ lock[req[h].scan] = None /\ TakeRow(h)
    <3>1. ~row[req[h].scan].deleted /\ SourceScope(row[req[h].scan].status, req[h].sources)
      BY <2>4 DEF Find
    <3> QED
      BY <2>2, <2>4, <3>1, TakeRowKeeps DEF InTx
  <2>5. CASE Goto(h, y) /\ UNCHANGED <<lock, pend>>
    BY <2>2, <2>5, NothingPending, QuietStep DEF IInv, Goto, HandlerSteps, InTx
  <2> QED
    BY <2>1, <2>4, <2>5 DEF WriteScoped
<1>4. CASE ReadWinner(h) \/ ReadAgain(h)
  <2>1. CASE Rollback(h)
    BY <2>1, RollbackKeeps DEF Rollback, Goto
  <2>2. CASE ~Rollback(h)
    <3>1. pend[h] = None
      BY <1>4, NothingPending DEF IInv, ReadWinner, ReadAgain
    <3>2. UNCHANGED <<row, ledger, lock, pend, req>>
      BY <1>4, <2>2 DEF ReadWinner, ReadAgain, db
    <3>3. \E x \in HandlerSteps : pc' = [pc EXCEPT ![h] = x]
      BY <1>4, <2>2 DEF ReadWinner, ReadAgain, Qualify, Stop, Goto, HandlerSteps, InTx
    <3> QED
      BY <3>1, <3>2, <3>3, QuietStep
  <2> QED
    BY <2>1, <2>2
<1>5. CASE FinishQuota(h)
  <2>1. CASE Rollback(h)
    BY <2>1, RollbackKeeps DEF Rollback, Goto
  <2>2. CASE ~Rollback(h)
    <3>1. req[h] \in Command
      BY <1>5 DEF FinishQuota, IInv, TypeInv, HandlerShape, InTx
    <3>2. req[h].quota = QuotaForTarget(req[h].target)
      BY <3>1, NoneAssumption DEF IInv, LockInv, PendingRow
    <3>3. req[h].target = "SUCCESS" => req[h].scan \in ledger
      BY <1>5, <2>2, <3>2 DEF FinishQuota, QuotaForTarget
    <3> QED
      BY <1>5, <2>2, <3>3
         DEF FinishQuota, Goto, IInv, TypeInv, TypeOK, LockInv, PendingRow, CreditSeen,
             HeldRow, CreditForResult, db
  <2> QED
    BY <2>1, <2>2
<1>6. CASE Commit(h)
  BY <1>6, InstallKeeps DEF Commit, Goto
<1>7. CASE Respond(h)
  <2>1. pend[h] = None
    BY <1>7, NothingPending DEF IInv, Respond
  <2> QED
    BY <1>7, <2>1
       DEF Respond, Release, Goto, IInv, TypeInv, TypeOK, LockInv, PendingRow, CreditSeen,
           HeldRow, CreditForResult, db
<1> QED
  BY <1>1, <1>2, <1>3, <1>4, <1>5, <1>6, <1>7 DEF Step

\* So does every fault.
LEMMA FaultKeeps ==
    ASSUME IInv, TypeInv', NEW h \in Handlers, Fault(h)
    PROVE  LockInv' /\ CreditForResult'
<1>1. CASE TxFail(h)
  BY <1>1, RollbackKeeps DEF TxFail, Rollback, Goto
<1>2. CASE CommitUnacknowledged(h)
  BY <1>2, InstallKeeps DEF CommitUnacknowledged, Goto
<1>3. CASE CacheFail(h)
  BY <1>3, NothingPending, QuietStep DEF IInv, CacheFail, Goto, HandlerSteps, db
<1>4. CASE PublishFail(h)
  BY <1>4, NothingPending, QuietStep DEF IInv, PublishFail, AfterReady, Goto, HandlerSteps, db
<1>5. CASE Crash(h)
  BY <1>5, RollbackKeeps DEF Crash, Release, Goto
<1> QED
  BY <1>1, <1>2, <1>3, <1>4, <1>5 DEF Fault

\* A delete waits for the holder of the row, and leaves state and credit alone.
LEMMA DeleteKeeps ==
    ASSUME IInv, NEW d \in Deleters,
           \/ \E u \in Users, s \in Scans : DeleteFind(d, u, s)
           \/ DeleteStep(d) \/ DeleteFail(d)
    PROVE  LockInv' /\ CreditForResult'
<1>1. CASE row' = row
  <2>1. UNCHANGED <<ledger, lock, hvars>>
    BY DEF DeleteFind, DeleteStep, DeleteRow, DeleteList, DeleteCache, DeleteFail, db
  <2> QED
    BY <1>1, <2>1
       DEF hvars, IInv, LockInv, PendingRow, CreditSeen, HeldRow, CreditForResult
<1>2. CASE row' # row
  <2>1. DeleteRow(d)
    BY <1>2 DEF DeleteFind, DeleteStep, DeleteList, DeleteCache, DeleteFail, db
  <2>2. /\ dreq[d].scan \in Scans /\ Find(dreq[d].scan) # None
        /\ lock[dreq[d].scan] = None
        /\ row' = [row EXCEPT ![dreq[d].scan].deleted = TRUE]
        /\ UNCHANGED <<ledger, lock, hvars>>
    BY <1>2, <2>1 DEF DeleteRow, IInv, TypeInv, DeleterShape
  <2>3. row[dreq[d].scan] \in Row
    BY <2>2, FindType DEF IInv, TypeInv
  <2>4. ASSUME NEW t \in Scans
        PROVE  /\ t # dreq[d].scan => row'[t] = row[t]
               /\ row'[t] # None => row[t] # None /\ row'[t].status = row[t].status
    BY <2>2, <2>3, NoneAssumption DEF Row, IInv, TypeInv, TypeOK
  <2>5. CreditForResult'
    BY <2>2, <2>4 DEF IInv, CreditForResult
  <2>6. ASSUME NEW g \in Handlers
        PROVE  PendingRow(g)' /\ CreditSeen(g)' /\ HeldRow(g)'
    <3>1. pend[g] # None => req[g].scan \in Scans /\ req[g].scan # dreq[d].scan
      BY <2>2, NoneAssumption
         DEF IInv, TypeInv, HandlerShape, LockInv, PendingRow, InTx, Command
    <3> QED
      BY <2>2, <2>4, <3>1 DEF hvars, IInv, LockInv, PendingRow, CreditSeen, HeldRow
  <2> QED
    BY <2>5, <2>6 DEF LockInv
<1> QED
  BY <1>1, <1>2

\* IInv is inductive.
LEMMA Inductive == IInv /\ [Next]_vars => IInv'
<1> SUFFICES ASSUME IInv, [Next]_vars
             PROVE  IInv'
  OBVIOUS
<1>1. TypeInv'
  BY NextType DEF IInv
<1>2. ASSUME NEW h \in Handlers, NEW b \in Bodies, Receive(h, b)
      PROVE  LockInv' /\ CreditForResult'
  <2>1. pend[h] = None
    BY <1>2, NothingPending DEF IInv, Receive
  <2>2. CASE ~ValidBody(b)
    BY <1>2, <1>1, <2>1, <2>2, QuietStep DEF Receive, Goto, HandlerSteps, db
  <2>3. CASE ValidBody(b)
    <3>1. req' = [req EXCEPT ![h] = TransitionCommand(b)]
      BY <1>2, <2>3 DEF Receive
    <3>2. TransitionCommand(b).sources = b.sources
      BY DEF TransitionCommand
    <3> QED
      BY <1>2, <2>1, <2>3, <3>1, <3>2, CommandType
         DEF Receive, Goto, IInv, TypeInv, TypeOK, LockInv, PendingRow, CreditSeen, HeldRow,
             CreditForResult, db
  <2> QED
    BY <2>2, <2>3
<1>3. ASSUME NEW o \in Owners, Expire(o)
      PROVE  LockInv' /\ CreditForResult'
  BY <1>3
     DEF Expire, IInv, LockInv, PendingRow, CreditSeen, HeldRow, CreditForResult, db, hvars
<1>4. CASE UNCHANGED vars
  BY <1>1, <1>4
     DEF vars, IInv, LockInv, PendingRow, CreditSeen, HeldRow, CreditForResult, db, hvars,
         dvars, projections
<1> QED
  BY <1>1, <1>2, <1>3, <1>4, StepKeeps, FaultKeeps, DeleteKeeps DEF Next, IInv

\* So IInv holds in every state of every behaviour.
LEMMA Invariant == Spec => []IInv
<1>1. Init => IInv
  <2>1. Init => LockInv
    BY DEF Init, LockInv, PendingRow, CreditSeen, HeldRow
  <2>2. Init => CreditForResult
    BY ConstantsAssumption DEF Init, CreditForResult
  <2> QED
    BY <2>1, <2>2, InitType DEF IInv
<1> QED
  BY <1>1, Inductive, PTL DEF Spec

\* A committed SUCCESS always holds its credit and a committed FAILED never
\* does, for any commands, any number of handlers and any faults.
THEOREM CreditSafe == Spec => []CreditForResult
<1>1. IInv => CreditForResult
  BY DEF IInv
<1> QED
  BY <1>1, Invariant, PTL
-----------------------------------------------------------------------------
\* The tables change only when a transaction with a pending row commits, or
\* when a delete marks a live row that nobody holds.
LEMMA TableStep ==
    ASSUME IInv, [Next]_vars, ~UNCHANGED <<row, ledger>>
    PROVE  \/ \E h \in Handlers : pc[h] = "commit" /\ pend[h] # None /\ Install(h)
           \/ \E d \in Deleters : DeleteRow(d) /\ dreq[d].scan \in Scans
                                  /\ Find(dreq[d].scan) # None
                                  /\ row' = [row EXCEPT ![dreq[d].scan].deleted = TRUE]
                                  /\ ledger' = ledger
<1>1. ASSUME NEW h \in Handlers, Step(h) \/ Fault(h)
      PROVE  pc[h] = "commit" /\ pend[h] # None /\ Install(h)
  <2>1. pc[h] = "commit" /\ Install(h)
    BY <1>1
       DEF Step, Fault, FirstRead, PrepareQuota, Insert, ReadWinner, Write, ReadAgain, Rewrite,
           ReadLast, FinishQuota, Commit, SaveCache, PublishScanReady, PublishWalletObserved,
           Respond, TxFail, CommitUnacknowledged, CacheFail, PublishFail, Crash, Rollback, db
  <2> QED
    BY <2>1 DEF Install
<1>2. ASSUME NEW d \in Deleters, NEW u \in Users, NEW s \in Scans, DeleteFind(d, u, s)
      PROVE  FALSE
  BY <1>2 DEF DeleteFind, db
<1>3. ASSUME NEW d \in Deleters, DeleteStep(d) \/ DeleteFail(d)
      PROVE  /\ DeleteRow(d) /\ dreq[d].scan \in Scans
             /\ Find(dreq[d].scan) # None
             /\ row' = [row EXCEPT ![dreq[d].scan].deleted = TRUE]
             /\ ledger' = ledger
  <2>1. DeleteRow(d)
    BY <1>3 DEF DeleteStep, DeleteList, DeleteCache, DeleteFail, db
  <2> QED
    BY <2>1 DEF DeleteRow, IInv, TypeInv, DeleterShape
<1>4. ASSUME NEW h \in Handlers, NEW b \in Bodies, Receive(h, b)
      PROVE  FALSE
  BY <1>4 DEF Receive, db
<1>5. ASSUME NEW o \in Owners, Expire(o)
      PROVE  FALSE
  BY <1>5 DEF Expire, db
<1>6. CASE UNCHANGED vars
  BY <1>6 DEF vars, db
<1> QED
  BY <1>1, <1>2, <1>3, <1>4, <1>5, <1>6 DEF Next

\* What a commit does to the scan it holds, and that it does nothing else.
LEMMA CommitEffect ==
    ASSUME IInv, NEW h \in Handlers, pc[h] = "commit", pend[h] # None, Install(h)
    PROVE  /\ req[h].scan \in Scans
           /\ row' = [row EXCEPT ![req[h].scan] = pend[h]]
           /\ pend[h] \in Row /\ pend[h].status = req[h].target /\ ~pend[h].deleted
           /\ req[h].target \in Targets
           /\ row[req[h].scan] # None =>
                /\ ~row[req[h].scan].deleted
                /\ SourceScope(row[req[h].scan].status, req[h].sources)
           /\ req[h].target = "SUCCESS" => req[h].scan \in ledger
           /\ ledger' = IF req[h].target = "FAILED" THEN ledger \ {req[h].scan} ELSE ledger
           /\ \E b \in Bodies : req[h].sources = b.sources
<1>1. req[h] \in Command
  BY DEF IInv, TypeInv, HandlerShape, InTx
<1>2. req[h].scan \in Scans /\ req[h].target \in Targets /\ req[h] # None
  BY <1>1, NoneAssumption DEF Command
<1>3. req[h].quota = QuotaForTarget(req[h].target)
  BY <1>2 DEF IInv, LockInv, PendingRow
<1>4. req[h].quota = "release" <=> req[h].target = "FAILED"
  BY <1>2, <1>3 DEF QuotaForTarget, Targets
<1> QED
  BY <1>2, <1>4
     DEF Install, IInv, TypeInv, TypeOK, LockInv, PendingRow, CreditSeen, HeldRow

\* A soft-deleted scan is never written again, whatever arrives late.
THEOREM DeletedStaysDeleted == Spec => NoResurrection
<1>1. ASSUME IInv, [Next]_vars, NEW s \in Scans, row[s] # None, row[s].deleted
      PROVE  row'[s] = row[s]
  <2>1. CASE UNCHANGED <<row, ledger>>
    BY <2>1
  <2>2. ASSUME NEW h \in Handlers, pc[h] = "commit", pend[h] # None, Install(h)
        PROVE  row'[s] = row[s]
    <3>1. row' = [row EXCEPT ![req[h].scan] = pend[h]]
      BY <1>1, <2>2, CommitEffect
    <3>2. s # req[h].scan
      BY <1>1, <2>2, CommitEffect
    <3> QED
      BY <3>1, <3>2 DEF IInv, TypeInv, TypeOK
  <2>3. ASSUME NEW d \in Deleters, Find(dreq[d].scan) # None,
               row' = [row EXCEPT ![dreq[d].scan].deleted = TRUE]
        PROVE  row'[s] = row[s]
    BY <1>1, <2>3 DEF Find, IInv, TypeInv, TypeOK
  <2> QED
    BY <1>1, <2>1, <2>2, <2>3, TableStep
<1>2. IInv /\ [Next]_vars =>
         [\A s \in Scans : row[s] # None /\ row[s].deleted => row'[s] = row[s]]_vars
  BY <1>1
<1> QED
  BY <1>2, Invariant, PTL DEF Spec, NoResurrection

\* In a source scope without terminal states only open rows match.
LEMMA OpenScope ==
    ASSUME NonterminalSources, NEW b \in Bodies, NEW st, SourceScope(st, b.sources)
    PROVE  ~IsTerminal(st)
BY DEF NonterminalSources, SourceScope, IsTerminal, TerminalStates, Blank

\* As long as Discovery names no terminal source, no step writes a terminal
\* row: a commit holds an open row, and a delete only marks it.
LEMMA TerminalKept ==
    ASSUME NonterminalSources, IInv, [Next]_vars,
           NEW s \in Scans, row[s] # None, IsTerminal(row[s].status)
    PROVE  /\ row'[s] # None
           /\ row'[s].status = row[s].status /\ row'[s].tid = row[s].tid
           /\ row'[s].user = row[s].user /\ row'[s].addr = row[s].addr
<1> DEFINE Kept ==
        /\ row'[s] # None
        /\ row'[s].status = row[s].status /\ row'[s].tid = row[s].tid
        /\ row'[s].user = row[s].user /\ row'[s].addr = row[s].addr
<1>1. CASE UNCHANGED <<row, ledger>>
  BY <1>1
<1>2. ASSUME NEW h \in Handlers, pc[h] = "commit", pend[h] # None, Install(h)
      PROVE  Kept
  <2>1. row' = [row EXCEPT ![req[h].scan] = pend[h]]
    BY <1>2, CommitEffect
  <2>2. s # req[h].scan
    BY <1>2, CommitEffect, OpenScope
  <2> QED
    BY <2>1, <2>2 DEF IInv, TypeInv, TypeOK
<1>3. ASSUME NEW d \in Deleters, Find(dreq[d].scan) # None,
             row' = [row EXCEPT ![dreq[d].scan].deleted = TRUE]
      PROVE  Kept
  <2>1. row[s] \in Row
    BY DEF IInv, TypeInv, TypeOK
  <2>2. CASE s = dreq[d].scan
    <3>1. row'[s] = [row[s] EXCEPT !.deleted = TRUE]
      BY <1>3, <2>2 DEF IInv, TypeInv, TypeOK
    <3>2. [row[s] EXCEPT !.deleted = TRUE] \in Row
      BY <2>1 DEF Row
    <3> QED
      BY <2>1, <3>1, <3>2, NoneAssumption DEF Row
  <2>3. CASE s # dreq[d].scan
    BY <1>3, <2>3 DEF IInv, TypeInv, TypeOK
  <2> QED
    BY <2>2, <2>3
<1> QED
  BY <1>1, <1>2, <1>3, TableStep

\* A terminal row is final.
THEOREM TerminalIsFinal ==
    ASSUME NonterminalSources
    PROVE  Spec => TerminalFinal
<1>1. IInv /\ [Next]_vars =>
         [\A s \in Scans : row[s] # None /\ IsTerminal(row[s].status) =>
            /\ row'[s] # None
            /\ row'[s].status = row[s].status /\ row'[s].tid = row[s].tid
            /\ row'[s].user = row[s].user /\ row'[s].addr = row[s].addr]_vars
  BY TerminalKept
<1> QED
  BY <1>1, Invariant, PTL DEF Spec, TerminalFinal
-----------------------------------------------------------------------------
\* Every behaviour of the handlers, with its races and faults, is a behaviour
\* of the atomic lifecycle WalletScan on the committed tables.
THEOREM Refinement ==
    ASSUME NonterminalSources
    PROVE  Spec => ImplementsWalletScan
<1>1. Init => Abstract!WSInit
  <2> SUFFICES ASSUME Init
               PROVE  Abstract!WSInit
    OBVIOUS
  <2>1. StateOf \in [Scans -> States \ {"SUCCESS", "FAILED"}]
    BY ConstantsAssumption
       DEF Init, StateOf, Logical, Row, States, StoredStates, TerminalStates, Blank
  <2> QED
    BY <2>1 DEF Abstract!WSInit, Abstract!States, Abstract!TerminalStates, Init, Gone,
                States, TerminalStates
<1>2. IInv /\ [Next]_vars => [Abstract!WSNext]_(Abstract!wsvars)
  <2> SUFFICES ASSUME IInv, [Next]_vars
               PROVE  Abstract!WSNext \/ UNCHANGED Abstract!wsvars
    OBVIOUS
  <2>1. CASE UNCHANGED <<row, ledger>>
    BY <2>1 DEF Abstract!wsvars, StateOf, Gone
  <2>2. ASSUME NEW h \in Handlers, pc[h] = "commit", pend[h] # None, Install(h)
        PROVE  Abstract!WSNext
    <3> DEFINE s == req[h].scan
    <3>1. /\ s \in Scans /\ row' = [row EXCEPT ![s] = pend[h]]
          /\ pend[h] \in Row /\ pend[h].status = req[h].target /\ ~pend[h].deleted
          /\ req[h].target \in Targets
          /\ req[h].target = "SUCCESS" => s \in ledger
          /\ ledger' = IF req[h].target = "FAILED" THEN ledger \ {s} ELSE ledger
      BY <2>2, CommitEffect
    <3>2. row[s] # None => ~row[s].deleted /\ ~IsTerminal(row[s].status)
      BY <2>2, CommitEffect, OpenScope
    <3>3. s \notin Gone /\ ~IsTerminal(StateOf[s])
      BY <3>1, <3>2 DEF Gone, StateOf, Logical, IsTerminal, TerminalStates
    <3>4. StateOf' = [StateOf EXCEPT ![s] = req[h].target]
      <4>1. Logical(req[h].target) = req[h].target
        BY <3>1 DEF Targets, Logical, Blank
      <4> QED
        BY <3>1, <4>1, NoneAssumption DEF StateOf, IInv, TypeInv, TypeOK
    <3>5. Gone' = Gone
      BY <3>1, <3>3, NoneAssumption DEF Gone, IInv, TypeInv, TypeOK
    <3>6. CASE req[h].target = "RUNNING"
      BY <3>1, <3>3, <3>4, <3>5, <3>6
         DEF Abstract!WSNext, Abstract!WSStart, Abstract!Open, Abstract!IsTerminal,
             Abstract!TerminalStates, IsTerminal, TerminalStates
    <3>7. CASE req[h].target = "SUCCESS"
      BY <3>1, <3>3, <3>4, <3>5, <3>7
         DEF Abstract!WSNext, Abstract!WSComplete, Abstract!Open, Abstract!IsTerminal,
             Abstract!TerminalStates, IsTerminal, TerminalStates
    <3>8. CASE req[h].target = "FAILED"
      BY <3>1, <3>3, <3>4, <3>5, <3>8
         DEF Abstract!WSNext, Abstract!WSFail, Abstract!Open, Abstract!IsTerminal,
             Abstract!TerminalStates, IsTerminal, TerminalStates
    <3> QED
      BY <3>1, <3>6, <3>7, <3>8 DEF Targets
  <2>3. ASSUME NEW d \in Deleters, dreq[d].scan \in Scans, Find(dreq[d].scan) # None,
               row' = [row EXCEPT ![dreq[d].scan].deleted = TRUE], ledger' = ledger
        PROVE  Abstract!WSNext
    <3> DEFINE s == dreq[d].scan
    <3>1. row[s] \in Row /\ row[s] # None /\ ~row[s].deleted
      BY <2>3, FindType DEF Find, IInv, TypeInv
    <3>2. [row[s] EXCEPT !.deleted = TRUE] \in Row
      BY <3>1 DEF Row
    <3>3. row'[s] # None /\ row'[s].deleted /\ row'[s].status = row[s].status
      <4>1. row'[s] = [row[s] EXCEPT !.deleted = TRUE]
        BY <2>3 DEF IInv, TypeInv, TypeOK
      <4> QED
        BY <3>1, <3>2, <4>1, NoneAssumption DEF Row
    <3>4. ASSUME NEW t \in Scans, t # s
          PROVE  row'[t] = row[t]
      BY <2>3, <3>4 DEF IInv, TypeInv, TypeOK
    <3>5. StateOf' = StateOf
      BY <3>1, <3>3, <3>4 DEF StateOf
    <3>6. s \notin Gone /\ Gone' = Gone \union {s}
      BY <2>3, <3>1, <3>3, <3>4 DEF Gone
    <3> QED
      BY <2>3, <3>5, <3>6 DEF Abstract!WSNext, Abstract!WSDelete
  <2> QED
    BY <2>1, <2>2, <2>3, TableStep
<1> QED
  BY <1>1, <1>2, Invariant, PTL DEF Spec, ImplementsWalletScan, Abstract!WSSpec
=============================================================================
