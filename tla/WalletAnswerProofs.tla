------------------------- MODULE WalletAnswerProofs -------------------------
(***************************************************************************)
(* What the transition handler tells others is true: the answer to         *)
(* Discovery, the Redis entry and the NATS events are made from a copy of  *)
(* the row that was read, or written, before the transaction ended.  The   *)
(* proofs show that such a copy can only fall behind the table, never      *)
(* contradict it, as long as no command names a terminal source.           *)
(***************************************************************************)
EXTENDS WalletTransitionProofs

\* A status read from scan s earlier, against the table T: the row is there, a
\* terminal status is still its own and RUNNING has at most ended.
StatusBehind(T, st, s) ==
    /\ T[s] # None
    /\ IsTerminal(st) => T[s].status = st
    /\ st = "RUNNING" => T[s].status \in {"RUNNING"} \union TerminalStates

\* A copy r of the row of s, read or committed earlier.
Behind(T, r, s) ==
    /\ StatusBehind(T, r.status, s)
    /\ IsTerminal(r.status) =>
          T[s].tid = r.tid /\ T[s].user = r.user /\ T[s].addr = r.addr

\* What a Result c says of the scan of its command.
Claim(T, c, cmd) ==
    /\ c.outcome \in {"applied", "already_applied"} =>
         /\ c.row \in Row /\ c.row.status = c.status
         /\ c.row.tid = cmd.tid /\ Behind(T, c.row, cmd.scan)
    /\ c.outcome = "already_terminal" =>
         IsTerminal(c.status) /\ StatusBehind(T, c.status, cmd.scan)
    /\ c.outcome = "already_running" =>
         c.status = "RUNNING" /\ StatusBehind(T, c.status, cmd.scan)

\* An idle handler remembers nothing, and a row it has read is behind its scan's.
Remembers(h) ==
    /\ pc[h] = "idle" => req[h] = None /\ ent[h] = None
    /\ pc[h] \notin {"idle", "respond"} => req[h] \in Command
    /\ ent[h] # None => req[h] \in Command /\ Behind(row, ent[h], req[h].scan)

\* A Result is true once its transaction has nothing left to write, and what is
\* left to write is the row that it describes.
Tells(h) ==
    /\ pend[h] # None => pend[h] = NewRow(req[h])
    /\ pc[h] = "commit" /\ pend[h] # None => res[h] = WithRow("applied", pend[h])
    /\ pc[h] = "commit" /\ pend[h] = None => Claim(row, res[h], req[h])
    /\ pc[h] \in {"project", "ready", "observe"} =>
          Claim(row, res[h], req[h]) /\ Projects(res[h])
    /\ pc[h] = "observe" => IsSuccess(res[h].row.status)
    /\ pc[h] = "respond" /\ req[h] # None => Claim(row, res[h], req[h])

AnswerInv ==
    /\ IInv
    /\ \A h \in Handlers : Remembers(h) /\ Tells(h)
    /\ ProjectionTruth
-----------------------------------------------------------------------------
(* What the pure operators claim about a table.                            *)

\* A row just read is behind itself.
LEMMA ReadBehind ==
    ASSUME NEW T, NEW s, T[s] # None
    PROVE  Behind(T, T[s], s)
BY DEF Behind, StatusBehind

\* classify claims no more than the row it looked at.
LEMMA ClassifyClaim ==
    ASSUME NEW T, NEW r \in Row, NEW cmd, StatusBehind(T, r.status, cmd.scan)
    PROVE  Claim(T, Classify(r, cmd), cmd)
<1>1. r.status # Blank => Logical(r.status) = r.status
  BY DEF Logical
<1>2. r.status = Blank => Logical(r.status) = "PENDING"
  BY DEF Logical
<1>3. ~IsTerminal("PENDING")
  BY DEF IsTerminal, TerminalStates
<1> DEFINE c == Classify(r, cmd)
<1>4. /\ c.status = Logical(r.status)
      /\ c.outcome \in {"already_running", "already_terminal", "rejected"}
      /\ c.outcome = "already_running" => c.status = "RUNNING"
      /\ c.outcome = "already_terminal" => IsTerminal(c.status)
  BY DEF Classify
<1> HIDE DEF c
<1>5. c.outcome \in {"already_running", "already_terminal"} => c.status = r.status
  BY <1>1, <1>2, <1>3, <1>4
<1> QED
  BY <1>4, <1>5 DEF c, Claim

\* A stored row with the command's transition id answers already_applied.
LEMMA SameClaim ==
    ASSUME NEW T, NEW r \in Row, NEW cmd, Behind(T, r, cmd.scan), r.tid = cmd.tid
    PROVE  Claim(T, WithRow("already_applied", r), cmd)
<1> DEFINE c == WithRow("already_applied", r)
<1>1. /\ c.outcome = "already_applied" /\ c.row \in Row /\ c.row.status = c.status
      /\ c.status = Logical(r.status)
      /\ c.row.tid = r.tid /\ c.row.user = r.user /\ c.row.addr = r.addr
  BY DEF WithRow, Row, Logical, StoredStates, States, TerminalStates, Blank
<1> HIDE DEF c
<1>2. r.status = Blank => c.status = "PENDING"
  BY <1>1 DEF Logical
<1>3. r.status # Blank => c.status = r.status
  BY <1>1 DEF Logical
<1>4. ~IsTerminal("PENDING")
  BY DEF IsTerminal, TerminalStates
<1>5. Behind(T, c.row, cmd.scan)
  BY <1>1, <1>2, <1>3, <1>4 DEF Behind, StatusBehind
<1> QED
  BY <1>1, <1>5 DEF c, Claim

\* The committed row of a command answers applied.
LEMMA AppliedClaim ==
    ASSUME NEW T, NEW cmd \in Command, T[cmd.scan] = NewRow(cmd)
    PROVE  Claim(T, WithRow("applied", NewRow(cmd)), cmd)
<1> DEFINE c == WithRow("applied", NewRow(cmd))
<1>1. /\ NewRow(cmd) \in Row /\ NewRow(cmd).status = cmd.target /\ NewRow(cmd).tid = cmd.tid
      /\ cmd.target \in Targets
  BY NewRowType DEF NewRow, Command
<1>2. Logical(cmd.target) = cmd.target
  BY <1>1 DEF Logical, Targets, Blank
<1>3. c.outcome = "applied" /\ c.row = NewRow(cmd) /\ c.status = cmd.target
  BY <1>1, <1>2 DEF WithRow, NewRow
<1> HIDE DEF c
<1>4. Behind(T, c.row, cmd.scan)
  BY <1>1, <1>3, NoneAssumption, ReadBehind
<1> QED
  BY <1>1, <1>3, <1>4 DEF c, Claim

\* A rejection and a retryable error claim nothing.
LEMMA NoClaim ==
    ASSUME NEW T, NEW cmd
    PROVE  /\ Claim(T, Retryable, cmd)
           /\ \A st : Claim(T, Rejected(st), cmd)
BY DEF Claim, Retryable, Rejected

-----------------------------------------------------------------------------
(* The table only moves forward.                                           *)

\* A row stays, and RUNNING only ends.
LEMMA RowStays ==
    ASSUME NonterminalSources, IInv, [Next]_vars, NEW s \in Scans, row[s] # None
    PROVE  /\ row'[s] # None
           /\ row[s].status \in {"RUNNING"} \union TerminalStates =>
                row'[s].status \in {"RUNNING"} \union TerminalStates
<1> DEFINE Kept ==
      /\ row'[s] # None
      /\ row[s].status \in {"RUNNING"} \union TerminalStates =>
           row'[s].status \in {"RUNNING"} \union TerminalStates
<1>1. CASE UNCHANGED <<row, ledger>>
  BY <1>1
<1>2. ASSUME NEW h \in Handlers, pc[h] = "commit", pend[h] # None, Install(h)
      PROVE  Kept
  BY <1>2, CommitEffect, NoneAssumption DEF IInv, TypeInv, TypeOK, Targets, TerminalStates
<1>3. ASSUME NEW d \in Deleters, Find(dreq[d].scan) # None,
             row' = [row EXCEPT ![dreq[d].scan].deleted = TRUE]
      PROVE  Kept
  <2>1. row[s] \in Row
    BY DEF IInv, TypeInv, TypeOK
  <2>2. CASE s = dreq[d].scan
    <3>1. row'[s] = [row[s] EXCEPT !.deleted = TRUE]
      BY <1>3, <2>2 DEF IInv, TypeInv, TypeOK
    <3>2. [row[s] EXCEPT !.deleted = TRUE] \in Row
      BY <2>1 DEF Row
    <3> QED
      BY <2>1, <3>1, <3>2, NoneAssumption DEF Row
  <2>3. CASE s # dreq[d].scan
    BY <1>3, <2>3 DEF IInv, TypeInv, TypeOK
  <2> QED
    BY <2>2, <2>3
<1> QED
  BY <1>1, <1>2, <1>3, TableStep

\* What is behind the table stays behind it.
LEMMA BehindKept ==
    ASSUME NonterminalSources, IInv, [Next]_vars, NEW s \in Scans
    PROVE  /\ \A st : StatusBehind(row, st, s) => StatusBehind(row', st, s)
           /\ \A r : Behind(row, r, s) => Behind(row', r, s)
<1>1. ASSUME NEW st, StatusBehind(row, st, s) PROVE StatusBehind(row', st, s)
  BY <1>1, RowStays, TerminalKept DEF StatusBehind
<1>2. ASSUME NEW r, Behind(row, r, s) PROVE Behind(row', r, s)
  <2>1. StatusBehind(row', r.status, s)
    BY <1>1, <1>2 DEF Behind
  <2>2. CASE IsTerminal(r.status)
    BY <1>2, <2>1, <2>2, TerminalKept DEF Behind, StatusBehind
  <2> QED
    BY <2>1, <2>2 DEF Behind
<1> QED
  BY <1>1, <1>2

\* So a true claim stays true.
LEMMA ClaimKept ==
    ASSUME NonterminalSources, IInv, [Next]_vars, NEW c, NEW cmd, cmd.scan \in Scans,
           Claim(row, c, cmd)
    PROVE  Claim(row', c, cmd)
BY BehindKept DEF Claim
-----------------------------------------------------------------------------
(* Each handler.                                                           *)

\* h takes a step of its own.
Acts(h) == (\E b \in Bodies : Receive(h, b)) \/ Step(h) \/ Fault(h)

\* A step of another handler, of a delete or of Redis leaves h as it is.
LEMMA OthersKeep ==
    ASSUME IInv, [Next]_vars, NEW h \in Handlers, ~Acts(h)
    PROVE  /\ pc'[h] = pc[h] /\ req'[h] = req[h] /\ ent'[h] = ent[h]
           /\ pend'[h] = pend[h] /\ res'[h] = res[h]
<1> DEFINE Same == /\ pc'[h] = pc[h] /\ req'[h] = req[h] /\ ent'[h] = ent[h]
                   /\ pend'[h] = pend[h] /\ res'[h] = res[h]
<1> USE DEF IInv, TypeInv, TypeOK
<1>1. ASSUME NEW g \in Handlers, NEW b \in Bodies, Receive(g, b) PROVE Same
  BY <1>1 DEF Acts, Receive, Goto, Answer
<1>2. ASSUME NEW g \in Handlers, Step(g) PROVE Same
  <2>0. g # h
    BY <1>2 DEF Acts
  <2>1. CASE FirstRead(g) \/ PrepareQuota(g) \/ ReadLast(g)
    BY <2>0, <2>1 DEF FirstRead, PrepareQuota, ReadLast, Qualify, Stop, Goto, Answer
  <2>2. CASE Insert(g) \/ Write(g) \/ Rewrite(g)
    BY <2>0, <2>2 DEF Insert, Write, Rewrite, WriteScoped, TakeRow, Goto
  <2>3. CASE ReadWinner(g) \/ ReadAgain(g) \/ FinishQuota(g)
    BY <2>0, <2>3
       DEF ReadWinner, ReadAgain, FinishQuota, Qualify, Rollback, Stop, Goto, Answer
  <2>4. CASE Commit(g)
    BY <2>0, <2>4 DEF Commit, Install, Goto
  <2>5. CASE SaveCache(g) \/ PublishScanReady(g) \/ PublishWalletObserved(g)
    BY <2>0, <2>5 DEF SaveCache, PublishScanReady, PublishWalletObserved, AfterReady, Goto
  <2>6. CASE Respond(g)
    BY <2>0, <2>6 DEF Respond, Release, Goto
  <2> QED
    BY <1>2, <2>1, <2>2, <2>3, <2>4, <2>5, <2>6 DEF Step
<1>3. ASSUME NEW g \in Handlers, Fault(g) PROVE Same
  <2>0. g # h
    BY <1>3 DEF Acts
  <2>1. CASE TxFail(g) \/ Crash(g)
    BY <2>0, <2>1 DEF TxFail, Crash, Rollback, Release, Goto, Answer
  <2>2. CASE CommitUnacknowledged(g)
    BY <2>0, <2>2 DEF CommitUnacknowledged, Install, Goto, Answer
  <2>3. CASE CacheFail(g) \/ PublishFail(g)
    BY <2>0, <2>3 DEF CacheFail, PublishFail, AfterReady, Goto
  <2> QED
    BY <1>3, <2>1, <2>2, <2>3 DEF Fault
<1>4. CASE UNCHANGED hvars
  BY <1>4 DEF hvars
<1> QED
  BY <1>1, <1>2, <1>3, <1>4
     DEF Next, vars, hvars, DeleteFind, DeleteStep, DeleteRow, DeleteList, DeleteCache,
         DeleteFail, Expire

\* What h remembers and tells stays true while others act.
LEMMA QuietHandler ==
    ASSUME NonterminalSources, IInv, [Next]_vars, NEW h \in Handlers,
           Remembers(h), Tells(h), ~Acts(h)
    PROVE  Remembers(h)' /\ Tells(h)'
<1>1. /\ pc'[h] = pc[h] /\ req'[h] = req[h] /\ ent'[h] = ent[h]
      /\ pend'[h] = pend[h] /\ res'[h] = res[h]
  BY OthersKeep
<1>2. req[h] # None => req[h] \in Command /\ req[h].scan \in Scans
  BY DEF IInv, TypeInv, TypeOK, Command
<1>3. req[h] # None /\ Claim(row, res[h], req[h]) => Claim(row', res[h], req[h])
  BY <1>2, ClaimKept
<1>4. ent[h] # None => Behind(row', ent[h], req[h].scan)
  BY <1>2, BehindKept, NoneAssumption DEF Remembers
<1>5. Remembers(h)'
  BY <1>1, <1>4 DEF Remembers
<1>6. pc[h] \in {"commit", "project", "ready", "observe"} => req[h] # None
  BY NoneAssumption DEF Remembers
<1>7. Tells(h)'
  BY <1>1, <1>3, <1>6 DEF Tells
<1> QED
  BY <1>5, <1>7

\* A handler with an uncommitted row is at its quota check or at its commit.
LEMMA OpenWrite ==
    ASSUME IInv, NEW h \in Handlers, pc[h] \notin {"finish", "commit"}
    PROVE  pend[h] = None
BY DEF IInv, LockInv, PendingRow

\* An undone transaction answers retryable_error and claims nothing.
LEMMA RollbackTells ==
    ASSUME IInv, NEW h \in Handlers, Remembers(h), pc[h] \in InTx, Rollback(h)
    PROVE  Remembers(h)' /\ Tells(h)'
<1>1. /\ pc'[h] = "respond" /\ req'[h] = req[h] /\ ent'[h] = ent[h] /\ row' = row
      /\ pend'[h] = None /\ res'[h] = Retryable
  BY DEF Rollback, Goto, Answer, IInv, TypeInv, TypeOK
<1>2. Remembers(h)'
  BY <1>1 DEF Remembers
<1>3. Tells(h)'
  BY <1>1, NoClaim DEF Tells
<1> QED
  BY <1>2, <1>3

\* The decision on a row just read claims what that row says.
LEMMA QualifyTells ==
    ASSUME IInv, NEW h \in Handlers, Remembers(h), pc[h] \in {"first", "winner"},
           Find(req[h].scan) # None, Qualify(h, Find(req[h].scan)),
           UNCHANGED <<db, req, pend>>
    PROVE  Remembers(h)' /\ Tells(h)'
<1> DEFINE r == Find(req[h].scan)
<1>1. req[h] \in Command /\ req[h].scan \in Scans /\ pend[h] = None
  BY OpenWrite DEF Remembers, Command
<1>2. r \in Row /\ Behind(row, r, req[h].scan)
  BY <1>1, FindType, ReadBehind DEF IInv, TypeInv
<1>3. req'[h] = req[h] /\ row' = row /\ pend'[h] = None /\ ent'[h] = r
  BY <1>1 DEF Qualify, db, IInv, TypeInv, TypeOK
<1>4. \/ /\ pc'[h] = "commit" /\ r.tid = req[h].tid /\ res'[h] = WithRow("already_applied", r)
      \/ pc'[h] = "commit" /\ res'[h] = Classify(r, req[h])
      \/ pc'[h] = "prepare"
  BY DEF Qualify, Stop, Goto, Answer, SameTransition, IInv, TypeInv, TypeOK
<1> HIDE DEF r
<1>5. Remembers(h)'
  BY <1>1, <1>2, <1>3, <1>4 DEF Remembers
<1>6. pc'[h] = "commit" => Claim(row, res'[h], req[h])
  BY <1>2, <1>4, SameClaim, ClassifyClaim DEF Behind
<1>7. Tells(h)'
  BY <1>3, <1>4, <1>6 DEF Tells
<1> QED
  BY <1>5, <1>7

\* A row taken for writing is the command's.
LEMMA TakeTells ==
    ASSUME IInv, NEW h \in Handlers, Remembers(h), pc[h] \in {"insert", "write", "rewrite"},
           TakeRow(h), UNCHANGED <<row, req, ent, res>>
    PROVE  Remembers(h)' /\ Tells(h)'
<1>1. /\ pc'[h] = "finish" /\ req'[h] = req[h] /\ ent'[h] = ent[h] /\ row' = row
      /\ pend'[h] = NewRow(req[h])
  BY DEF TakeRow, Goto, IInv, TypeInv, TypeOK
<1>2. Remembers(h)'
  BY <1>1 DEF Remembers
<1>3. Tells(h)'
  BY <1>1 DEF Tells
<1> QED
  BY <1>2, <1>3

\* A statement that reads or misses moves its handler on.
LEMMA MissTells ==
    ASSUME IInv, NEW h \in Handlers, Remembers(h), NEW p \in InTx \ {"commit"},
           pc[h] \in InTx \ {"finish", "commit"}, Goto(h, p),
           UNCHANGED <<row, req, pend, res>>,
           \/ UNCHANGED ent
           \/ /\ Find(req[h].scan) # None
              /\ ent' = [ent EXCEPT ![h] = Find(req[h].scan)]
    PROVE  Remembers(h)' /\ Tells(h)'
<1>1. req[h] \in Command /\ req[h].scan \in Scans /\ pend[h] = None
  BY OpenWrite DEF Remembers, Command, InTx
<1>2. /\ pc'[h] = p /\ req'[h] = req[h] /\ row' = row /\ pend'[h] = None
      /\ \/ ent'[h] = ent[h]
         \/ Find(req[h].scan) # None /\ ent'[h] = Find(req[h].scan)
  BY <1>1 DEF Goto, IInv, TypeInv, TypeOK
<1>3. Find(req[h].scan) # None => Behind(row, Find(req[h].scan), req[h].scan)
  BY <1>1, FindType, ReadBehind DEF IInv, TypeInv
<1>4. Remembers(h)'
  BY <1>1, <1>2, <1>3 DEF Remembers, InTx
<1>5. Tells(h)'
  BY <1>2 DEF Tells, InTx
<1> QED
  BY <1>4, <1>5

\* A transaction that stops without a write answers what it claims.
LEMMA StopTells ==
    ASSUME IInv, NEW h \in Handlers, Remembers(h), pc[h] \in InTx \ {"finish", "commit"},
           NEW c, Stop(h, c), Claim(row, c, req[h]), UNCHANGED <<row, req, pend, ent>>
    PROVE  Remembers(h)' /\ Tells(h)'
<1>1. pend[h] = None
  BY OpenWrite
<1>2. /\ pc'[h] = "commit" /\ req'[h] = req[h] /\ row' = row /\ pend'[h] = None
      /\ ent'[h] = ent[h] /\ res'[h] = c
  BY <1>1 DEF Stop, Goto, Answer, IInv, TypeInv, TypeOK
<1>3. Remembers(h)'
  BY <1>2 DEF Remembers, InTx
<1>4. Tells(h)'
  BY <1>2 DEF Tells
<1> QED
  BY <1>3, <1>4
-----------------------------------------------------------------------------
(* The handler that acts.                                                  *)

\* A request that was received is a command, and a refused one is none.
LEMMA ReceiveTells ==
    ASSUME IInv, NEW h \in Handlers, Remembers(h), NEW b \in Bodies, Receive(h, b)
    PROVE  Remembers(h)' /\ Tells(h)'
<1>1. req[h] = None /\ ent[h] = None /\ pend[h] = None
  BY OpenWrite DEF Receive, Remembers
<1>2. /\ ent'[h] = None /\ pend'[h] = None
      /\ \/ pc'[h] = "first" /\ req'[h] = TransitionCommand(b) /\ ValidBody(b)
         \/ pc'[h] = "respond" /\ req'[h] = None
  BY <1>1 DEF Receive, Goto, IInv, TypeInv, TypeOK
<1>3. Remembers(h)'
  BY <1>2, CommandType DEF Remembers
<1>4. Tells(h)'
  BY <1>2 DEF Tells
<1> QED
  BY <1>3, <1>4

\* The reads and writes of a transaction tell the truth about what they saw.
LEMMA StatementTells ==
    ASSUME IInv, NEW h \in Handlers, Remembers(h), Tells(h),
           \/ FirstRead(h) \/ PrepareQuota(h) \/ Insert(h) \/ ReadWinner(h)
           \/ Write(h) \/ ReadAgain(h) \/ Rewrite(h) \/ ReadLast(h) \/ FinishQuota(h)
    PROVE  Remembers(h)' /\ Tells(h)'
<1> DEFINE r == Find(req[h].scan)
<1> DEFINE Good == Remembers(h)' /\ Tells(h)'
<1>0. pc[h] \in InTx /\ req[h] \in Command /\ req[h].scan \in Scans
  <2>1. pc[h] \in InTx
    BY DEF FirstRead, PrepareQuota, Insert, ReadWinner, Write, ReadAgain, Rewrite, ReadLast,
           FinishQuota, InTx
  <2> QED
    BY <2>1 DEF Remembers, InTx, Command
<1>r. r # None => r \in Row /\ Behind(row, r, req[h].scan)
  BY <1>0, FindType, ReadBehind DEF IInv, TypeInv
<1>c. r # None => Claim(row, Classify(r, req[h]), req[h])
  BY <1>r, ClassifyClaim DEF Behind
<1>1. CASE FirstRead(h)
  <2>1. CASE r # None
    BY <1>1, <2>1, QualifyTells DEF FirstRead
  <2>2. CASE r = None /\ Stop(h, Rejected("PENDING"))
    <3>1. Claim(row, Rejected("PENDING"), req[h])
      BY NoClaim
    <3>2. pc[h] \in InTx \ {"finish", "commit"} /\ UNCHANGED <<row, req, pend, ent>>
      BY <1>1, <2>2 DEF FirstRead, InTx, db
    <3> QED
      BY <2>2, <3>1, <3>2, StopTells
  <2>3. CASE r = None /\ Goto(h, "prepare") /\ UNCHANGED <<ent, res>>
    <3>1. /\ pc[h] \in InTx \ {"finish", "commit"} /\ "prepare" \in InTx \ {"commit"}
          /\ UNCHANGED <<row, req, pend, res>> /\ UNCHANGED ent
      BY <1>1, <2>3 DEF FirstRead, InTx, db
    <3> QED
      BY <2>3, <3>1, MissTells
  <2> QED
    BY <1>1, <2>1, <2>2, <2>3 DEF FirstRead
<1>2. CASE PrepareQuota(h)
  <2>0. pc[h] \in InTx \ {"finish", "commit"} /\ UNCHANGED <<row, req, pend, ent>>
    BY <1>2 DEF PrepareQuota, InTx, db
  <2>1. CASE Stop(h, Retryable)
    <3>1. Claim(row, Retryable, req[h])
      BY NoClaim
    <3> QED
      BY <2>0, <2>1, <3>1, StopTells
  <2>2. CASE UNCHANGED res /\ (Goto(h, "insert") \/ Goto(h, "write"))
    <3>1. "insert" \in InTx \ {"commit"} /\ "write" \in InTx \ {"commit"}
      BY DEF InTx
    <3> QED
      BY <2>0, <2>2, <3>1, MissTells
  <2> QED
    BY <1>2, <2>1, <2>2 DEF PrepareQuota
<1>3. CASE Insert(h) \/ Write(h) \/ Rewrite(h)
  <2>0. /\ pc[h] \in {"insert", "write", "rewrite"} /\ UNCHANGED <<row, req, ent, res>>
        /\ pc[h] \in InTx \ {"finish", "commit"}
    BY <1>3 DEF Insert, Write, Rewrite, InTx
  <2>1. CASE TakeRow(h)
    BY <2>0, <2>1, TakeTells
  <2>2. ASSUME NEW p \in {"winner", "again", "last"}, Goto(h, p), UNCHANGED pend
        PROVE  Good
    <3>1. p \in InTx \ {"commit"}
      BY DEF InTx
    <3> QED
      BY <2>0, <2>2, <3>1, MissTells
  <2> QED
    BY <1>3, <2>1, <2>2 DEF Insert, Write, Rewrite, WriteScoped
<1>4. CASE ReadWinner(h)
  BY <1>0, <1>4, QualifyTells, RollbackTells DEF ReadWinner
<1>5. CASE ReadAgain(h)
  <2>1. CASE Rollback(h)
    BY <1>0, <2>1, RollbackTells
  <2>2. CASE r # None /\ Stop(h, Classify(r, req[h])) /\ UNCHANGED <<db, req, ent, pend>>
    <3>1. pc[h] \in InTx \ {"finish", "commit"} /\ UNCHANGED <<row, req, pend, ent>>
      BY <1>5, <2>2 DEF ReadAgain, InTx, db
    <3> QED
      BY <1>c, <2>2, <3>1, StopTells
  <2>3. CASE /\ r # None /\ ent' = [ent EXCEPT ![h] = r] /\ Goto(h, "rewrite")
             /\ UNCHANGED <<db, req, pend, res>>
    <3>1. /\ pc[h] \in InTx \ {"finish", "commit"} /\ "rewrite" \in InTx \ {"commit"}
          /\ UNCHANGED <<row, req, pend, res>>
      BY <1>5, <2>3 DEF ReadAgain, InTx, db
    <3> QED
      BY <2>3, <3>1, MissTells
  <2> QED
    BY <1>5, <2>1, <2>2, <2>3 DEF ReadAgain
<1>6. CASE ReadLast(h)
  <2>1. PICK e : e = (IF r = None THEN ent[h] ELSE r)
    OBVIOUS
  <2>2. ent[h] \in Row /\ Behind(row, ent[h], req[h].scan)
    BY <1>6, NoneAssumption DEF ReadLast, IInv, TypeInv, HandlerShape, Remembers
  <2>3. Claim(row, Classify(e, req[h]), req[h])
    BY <1>c, <2>1, <2>2, ClassifyClaim DEF Behind
  <2>4. pc[h] \in InTx \ {"finish", "commit"} /\ UNCHANGED <<row, req, pend, ent>>
    BY <1>6 DEF ReadLast, InTx, db
  <2>5. Stop(h, Classify(e, req[h]))
    BY <1>6, <2>1 DEF ReadLast
  <2> QED
    BY <2>3, <2>4, <2>5, StopTells
<1>7. CASE FinishQuota(h)
  <2>1. CASE Rollback(h)
    BY <1>0, <2>1, RollbackTells
  <2>2. CASE /\ Goto(h, "commit") /\ Answer(h, WithRow("applied", pend[h]))
             /\ UNCHANGED <<db, req, ent, pend>>
    <3>1. pend[h] # None
      BY <1>7, NoneAssumption DEF FinishQuota, IInv, TypeInv, HandlerShape
    <3>2. /\ pc'[h] = "commit" /\ req'[h] = req[h] /\ ent'[h] = ent[h] /\ row' = row
          /\ pend'[h] = pend[h] /\ res'[h] = WithRow("applied", pend[h])
      BY <2>2 DEF Goto, Answer, db, IInv, TypeInv, TypeOK
    <3>3. Remembers(h)'
      BY <1>0, <3>2 DEF Remembers
    <3>4. Tells(h)'
      BY <3>1, <3>2 DEF Tells
    <3> QED
      BY <3>3, <3>4
  <2> QED
    BY <1>7, <2>1, <2>2 DEF FinishQuota
<1> QED
  BY <1>1, <1>2, <1>3, <1>4, <1>5, <1>6, <1>7

\* A commit makes the row it describes the table's row, and an answer that was
\* waiting for a commit without a write stays true.
LEMMA CommitClaim ==
    ASSUME IInv, NEW h \in Handlers, Remembers(h), Tells(h), pc[h] = "commit", Install(h)
    PROVE  Claim(row', res[h], req[h])
<1>1. req[h] \in Command
  BY DEF Remembers
<1>2. CASE pend[h] = None
  <2>1. row' = row
    BY <1>2 DEF Install
  <2> QED
    BY <1>2, <2>1 DEF Tells
<1>3. CASE pend[h] # None
  <2>1. pend[h] = NewRow(req[h]) /\ res[h] = WithRow("applied", NewRow(req[h]))
    BY <1>3 DEF Tells
  <2>2. row'[req[h].scan] = NewRow(req[h])
    BY <1>3, <2>1, CommitEffect DEF IInv, TypeInv, TypeOK
  <2> QED
    BY <1>1, <2>1, <2>2, AppliedClaim
<1> QED
  BY <1>2, <1>3

\* Committing, projecting and answering keep the answer true.
LEMMA EndTells ==
    ASSUME NonterminalSources, IInv, [Next]_vars, NEW h \in Handlers, Remembers(h), Tells(h),
           \/ Commit(h) \/ SaveCache(h) \/ PublishScanReady(h) \/ PublishWalletObserved(h)
           \/ Respond(h) \/ Fault(h)
    PROVE  Remembers(h)' /\ Tells(h)'
<1> DEFINE Good == Remembers(h)' /\ Tells(h)'
<1>1. CASE Commit(h) \/ CommitUnacknowledged(h)
  <2>1. req[h] \in Command /\ req[h].scan \in Scans /\ pc[h] = "commit" /\ Install(h)
    BY <1>1 DEF Commit, CommitUnacknowledged, Remembers, Command
  <2>2. /\ req'[h] = req[h] /\ ent'[h] = ent[h] /\ pend'[h] = None
        /\ \/ /\ res'[h] = res[h]
              /\ pc'[h] = (IF Projects(res[h]) THEN "project" ELSE "respond")
           \/ res'[h] = Retryable /\ pc'[h] = "respond"
    BY <1>1 DEF Commit, CommitUnacknowledged, Install, Goto, Answer, IInv, TypeInv, TypeOK
  <2>3. Remembers(h)'
    BY <2>1, <2>2, BehindKept DEF Remembers
  <2>4. Claim(row', res'[h], req[h])
    BY <2>1, <2>2, CommitClaim, NoClaim
  <2>5. Tells(h)'
    BY <2>2, <2>4 DEF Tells
  <2> QED
    BY <2>3, <2>5
<1>2. CASE \/ SaveCache(h) \/ PublishScanReady(h) \/ PublishWalletObserved(h)
           \/ CacheFail(h) \/ PublishFail(h)
  <2>1. /\ pc[h] \in {"project", "ready", "observe"} /\ row' = row
        /\ req'[h] = req[h] /\ ent'[h] = ent[h] /\ pend'[h] = pend[h] /\ res'[h] = res[h]
        /\ pc'[h] \in {"ready", "observe", "respond"}
        /\ pc'[h] = "observe" => IsSuccess(res[h].row.status)
    BY <1>2
       DEF SaveCache, PublishScanReady, PublishWalletObserved, CacheFail, PublishFail,
           AfterReady, Goto, db, IInv, TypeInv, TypeOK
  <2>2. pend[h] = None
    BY <2>1, OpenWrite
  <2>3. Remembers(h)'
    BY <2>1 DEF Remembers
  <2>4. Tells(h)'
    BY <2>1, <2>2 DEF Tells
  <2> QED
    BY <2>3, <2>4
<1>3. CASE TxFail(h)
  BY <1>3, RollbackTells DEF TxFail
<1>4. CASE Respond(h) \/ Crash(h)
  <2>1. pc'[h] = "idle" /\ req'[h] = None /\ ent'[h] = None /\ pend'[h] = None
    BY <1>4 DEF Respond, Crash, Release, Goto, IInv, TypeInv, TypeOK
  <2>2. Remembers(h)'
    BY <2>1 DEF Remembers
  <2>3. Tells(h)'
    BY <2>1 DEF Tells
  <2> QED
    BY <2>2, <2>3
<1> QED
  BY <1>1, <1>2, <1>3, <1>4 DEF Fault

\* No step makes what a handler remembers or tells wrong.
LEMMA HandlerTells ==
    ASSUME NonterminalSources, IInv, [Next]_vars, NEW h \in Handlers, Remembers(h), Tells(h)
    PROVE  Remembers(h)' /\ Tells(h)'
<1>1. CASE ~Acts(h)
  BY <1>1, QuietHandler
<1>2. CASE Acts(h)
  <2>1. CASE Step(h)
    BY <2>1, StatementTells, EndTells DEF Step
  <2> QED
    BY <1>2, <2>1, ReceiveTells, EndTells DEF Acts
<1> QED
  BY <1>1, <1>2
-----------------------------------------------------------------------------
(* What was told to others.                                                *)

\* A Redis entry, and an event, say of a scan what its row says.
Shows(T, e, o) ==
    /\ T[e.scan] # None /\ IsTerminal(T[e.scan].status)
    /\ <<T[e.scan].user, T[e.scan].addr>> = o
    /\ e.status = ReadyStatus(T[e.scan].status)

\* What was shown once stays so: terminal rows are final.
LEMMA ShowsKept ==
    ASSUME NonterminalSources, IInv, [Next]_vars, NEW e, e.scan \in Scans, NEW o,
           Shows(row, e, o)
    PROVE  Shows(row', e, o)
BY TerminalKept DEF Shows

\* A handler that projects shows its row's state.
LEMMA ProjectorShows ==
    ASSUME IInv, NEW h \in Handlers, Remembers(h), Tells(h),
           pc[h] \in {"project", "ready", "observe"}, NEW e, e.scan = req[h].scan,
           e.status = ReadyStatus(res[h].row.status)
    PROVE  /\ Shows(row, e, <<res[h].row.user, res[h].row.addr>>)
           /\ req[h].scan \in Scans /\ res[h].row \in Row
           /\ row[req[h].scan] # None /\ row[req[h].scan].status = res[h].row.status
BY DEF Tells, Claim, Projects, Behind, StatusBehind, Shows, Remembers, Command

\* Redis and NATS are never told anything that the table does not say.
LEMMA ProjectionKept ==
    ASSUME NonterminalSources, IInv, [Next]_vars,
           \A h \in Handlers : Remembers(h) /\ Tells(h), ProjectionTruth
    PROVE  ProjectionTruth'
<1> DEFINE CacheTrue == \A o \in Owners : cache'[o] # None => Shows(row', cache'[o], o)
           ReadyTrue == \A e \in ready' : Shows(row', e, <<e.user, e.addr>>)
           SeenTrue == \A s \in observed' : row'[s] # None /\ row'[s].status = "SUCCESS"
<1>0. TypeOK
  BY DEF IInv, TypeInv
<1>1. \A o \in Owners : cache[o] # None => Shows(row', cache[o], o)
  <2> SUFFICES ASSUME NEW o \in Owners, cache[o] # None
               PROVE  Shows(row', cache[o], o)
    OBVIOUS
  <2>1. Shows(row, cache[o], o) /\ cache[o].scan \in Scans
    BY <1>0 DEF ProjectionTruth, Shows, TypeOK, Entry
  <2> QED
    BY <2>1, ShowsKept
<1>2. \A e \in ready : Shows(row', e, <<e.user, e.addr>>)
  <2> SUFFICES ASSUME NEW e \in ready
               PROVE  Shows(row', e, <<e.user, e.addr>>)
    OBVIOUS
  <2>1. Shows(row, e, <<e.user, e.addr>>) /\ e.scan \in Scans
    BY <1>0 DEF ProjectionTruth, Shows, TypeOK
  <2> QED
    BY <2>1, ShowsKept
<1>3. \A s \in observed : row'[s] # None /\ row'[s].status = "SUCCESS"
  <2> SUFFICES ASSUME NEW s \in observed
               PROVE  row'[s] # None /\ row'[s].status = "SUCCESS"
    OBVIOUS
  <2>1. s \in Scans /\ row[s] # None /\ row[s].status = "SUCCESS"
    BY <1>0 DEF ProjectionTruth, TypeOK
  <2>2. IsTerminal(row[s].status)
    BY <2>1 DEF IsTerminal, TerminalStates
  <2> QED
    BY <2>1, <2>2, TerminalKept
<1>4. CASE UNCHANGED projections
  BY <1>1, <1>2, <1>3, <1>4 DEF projections, ProjectionTruth, Shows
<1>5. ASSUME NEW h \in Handlers, SaveCache(h)
      PROVE  ProjectionTruth'
  <2> DEFINE r == res[h].row
  <2> DEFINE e == [scan |-> req[h].scan, status |-> ReadyStatus(r.status)]
  <2>1. /\ pc[h] = "project" /\ cache' = [cache EXCEPT ![<<r.user, r.addr>>] = e]
        /\ UNCHANGED <<row, ready, observed>>
    BY <1>5 DEF SaveCache, db
  <2>2. Shows(row, e, <<r.user, r.addr>>)
    BY <2>1, ProjectorShows
  <2> HIDE DEF e, r
  <2>3. CacheTrue
    BY <1>0, <1>1, <2>1, <2>2 DEF TypeOK
  <2> QED
    BY <1>2, <1>3, <2>1, <2>3 DEF ProjectionTruth, Shows
<1>6. ASSUME NEW h \in Handlers, PublishScanReady(h)
      PROVE  ProjectionTruth'
  <2> DEFINE r == res[h].row
  <2> DEFINE e == [scan |-> req[h].scan, user |-> r.user, addr |-> r.addr,
                   status |-> ReadyStatus(r.status)]
  <2>1. pc[h] = "ready" /\ ready' = ready \union {e} /\ UNCHANGED <<row, cache, observed>>
    BY <1>6 DEF PublishScanReady, db
  <2>2. Shows(row, e, <<e.user, e.addr>>)
    BY <2>1, ProjectorShows
  <2> HIDE DEF e, r
  <2>3. ReadyTrue
    BY <1>2, <2>1, <2>2
  <2> QED
    BY <1>1, <1>3, <2>1, <2>3 DEF ProjectionTruth, Shows
<1>7. ASSUME NEW h \in Handlers, PublishWalletObserved(h)
      PROVE  ProjectionTruth'
  <2>1. /\ pc[h] = "observe" /\ observed' \subseteq observed \union {req[h].scan}
        /\ UNCHANGED <<row, cache, ready>>
    BY <1>7 DEF PublishWalletObserved, db
  <2> DEFINE e == [scan |-> req[h].scan, status |-> ReadyStatus(res[h].row.status)]
  <2>2. row[req[h].scan] # None /\ row[req[h].scan].status = res[h].row.status
    <3>1. e.scan = req[h].scan /\ e.status = ReadyStatus(res[h].row.status)
      OBVIOUS
    <3> QED
      BY <2>1, <3>1, ProjectorShows
  <2>3. res[h].row.status = "SUCCESS"
    BY <2>1 DEF Tells, IsSuccess
  <2>4. SeenTrue
    BY <1>3, <2>1, <2>2, <2>3
  <2> QED
    BY <1>1, <1>2, <2>1, <2>4 DEF ProjectionTruth, Shows
<1>8. ASSUME UNCHANGED <<ready, observed>>, NEW k, cache' = [cache EXCEPT ![k] = None]
      PROVE  ProjectionTruth'
  <2>1. CacheTrue
    BY <1>0, <1>1, <1>8 DEF TypeOK
  <2> QED
    BY <1>2, <1>3, <1>8, <2>1 DEF ProjectionTruth, Shows
<1>9. ASSUME NEW h \in Handlers, Step(h) \/ Fault(h)
      PROVE  ProjectionTruth'
  <2>1. CASE UNCHANGED projections
    BY <1>4, <2>1
  <2>2. CASE SaveCache(h) \/ PublishScanReady(h) \/ PublishWalletObserved(h)
    BY <1>5, <1>6, <1>7, <2>2
  <2>3. \/ UNCHANGED projections
        \/ SaveCache(h) \/ PublishScanReady(h) \/ PublishWalletObserved(h)
    BY <1>9
       DEF Step, Fault, FirstRead, PrepareQuota, Insert, ReadWinner, Write, ReadAgain, Rewrite,
           ReadLast, FinishQuota, Commit, Respond, TxFail, CommitUnacknowledged, CacheFail,
           PublishFail, Crash
  <2> QED
    BY <2>1, <2>2, <2>3
<1>10. ASSUME NEW d \in Deleters, DeleteStep(d)
       PROVE  ProjectionTruth'
  BY <1>4, <1>8, <1>10 DEF DeleteStep, DeleteRow, DeleteList, DeleteCache
<1>11. ASSUME NEW o \in Owners, Expire(o)
       PROVE  ProjectionTruth'
  BY <1>8, <1>11 DEF Expire
<1>12. CASE UNCHANGED vars
  BY <1>4, <1>12 DEF vars
<1> QED
  BY <1>4, <1>9, <1>10, <1>11, <1>12 DEF Next, Receive, DeleteFind, DeleteFail
-----------------------------------------------------------------------------
\* AnswerInv holds in every state of every behaviour.
LEMMA AnswerInvariant ==
    ASSUME NonterminalSources
    PROVE  Spec => []AnswerInv
<1>1. Init => IInv
  <2>1. Init => LockInv
    BY DEF Init, LockInv, PendingRow, CreditSeen, HeldRow
  <2>2. Init => CreditForResult
    BY ConstantsAssumption DEF Init, CreditForResult
  <2> QED
    BY <2>1, <2>2, InitType DEF IInv
<1>2. Init => AnswerInv
  BY <1>1 DEF Init, AnswerInv, Remembers, Tells, ProjectionTruth
<1>3. AnswerInv /\ [Next]_vars => AnswerInv'
  <2> SUFFICES ASSUME AnswerInv, [Next]_vars
               PROVE  AnswerInv'
    OBVIOUS
  <2>1. IInv'
    BY Inductive DEF AnswerInv
  <2>2. \A h \in Handlers : Remembers(h)' /\ Tells(h)'
    BY HandlerTells DEF AnswerInv
  <2>3. ProjectionTruth'
    BY ProjectionKept DEF AnswerInv
  <2> QED
    BY <2>1, <2>2, <2>3 DEF AnswerInv
<1> QED
  BY <1>2, <1>3, PTL DEF Spec

\* Whatever Redis holds or NATS was told agrees with the committed row, for any
\* races and faults between the commit and the projection.
THEOREM ProjectionsTrue ==
    ASSUME NonterminalSources
    PROVE  Spec => []ProjectionTruth
<1>1. AnswerInv => ProjectionTruth
  BY DEF AnswerInv
<1> QED
  BY <1>1, AnswerInvariant, PTL

\* The answer Discovery gets describes what is committed when it is sent.
THEOREM AnswersTrue ==
    ASSUME NonterminalSources
    PROVE  Spec => []AnswerTruth
<1>1. AnswerInv => AnswerTruth
  <2> SUFFICES ASSUME AnswerInv, NEW h \in Handlers, pc[h] = "respond", req[h] # None
               PROVE  LET r == row[req[h].scan]
                          o == res[h].outcome
                      IN  /\ o \in {"applied", "already_applied"} =>
                               /\ r # None
                               /\ IsTerminal(res[h].status) =>
                                    r.status = res[h].status /\ r.tid = req[h].tid
                          /\ o = "already_terminal" => r # None /\ r.status = res[h].status
                          /\ o = "already_running" =>
                               r # None /\ r.status \in {"RUNNING"} \union TerminalStates
    BY DEF AnswerTruth
  <2>1. Claim(row, res[h], req[h])
    BY DEF AnswerInv, Tells
  <2> QED
    BY <2>1 DEF Claim, Behind, StatusBehind
<1> QED
  BY <1>1, AnswerInvariant, PTL
=============================================================================
