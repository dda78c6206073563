------------------------ MODULE ServiceLifecycleProofs ------------------------
(***************************************************************************)
(* Readiness and the order of the deferred shutdown steps, for any number  *)
(* of instances, requests and faults.                                      *)
(*                                                                         *)
(* Neither property is inductive by itself: both follow from what main has *)
(* done when it is at a given line.  LifeInv says it: the connections that *)
(* are open, the subscriptions, readiness and the HTTP server are          *)
(* functions of pc, less NATS once its client gave up, and the tables of   *)
(* the shared database only grow.                                          *)
(***************************************************************************)
EXTENDS ServiceLifecycle, TLAPS

\* Connections that main has opened and not closed at a step.
OpenAt(step) ==
    CASE step \in {"down", "postgres", "exit"} -> {}
      [] step \in {"scanTables", "dropCheck", "addCheck", "cpSchema", "redis", "closePostgres"}
           -> {"postgres"}
      [] step \in {"nats", "closeRedis"} -> {"postgres", "redis"}
      [] OTHER -> Stores

\* What the NATS client closed by itself.
Gone(i) == IF link[i] = "lost" THEN {"nats"} ELSE {}

\* Steps at which both migrations are behind the process.
Migrated == Steps \ {"down", "postgres", "scanTables", "dropCheck", "addCheck", "cpSchema"}

Progress(i) ==
    /\ open[i] = OpenAt(pc[i]) \ Gone(i)
    /\ subs[i] <=> pc[i] \in {"verify", "running", "unready"} /\ link[i] # "lost"
    /\ ready[i] => pc[i] \in {"running", "unready"}
    /\ http[i] # "off" => pc[i] \in {"subscribe", "verify", "running", "unready", "drain"}
    /\ pc[i] \in {"dropCheck", "addCheck", "cpSchema"} => "scan" \in tables
    /\ pc[i] \in Migrated => tables = {"scan", "cp"}

LifeInv == TypeOK /\ \A i \in Instances : Progress(i)

USE ServiceAssumption

\* Nothing runs at first; the database may be new or in use.
LEMMA InitLife == Init => LifeInv
  BY DEF Init, LifeInv, TypeOK, Progress, OpenAt, Gone, Migrated, Steps, BootSteps, StopSteps, Idle,
     Stores

\* A process that ends leaves nothing open and frees its requests.
LEMMA ExitType ==
    ASSUME TypeOK, NEW i \in Instances, Exit(i), faults' \in 0..MaxFaults PROVE TypeOK'
  BY DEF TypeOK, Exit, Goto, database, Steps, Idle

\* Every step keeps values in their types: one step per group of actions.
LEMMA NextLifeType == TypeOK /\ [Next]_vars => TypeOK'
<1> SUFFICES ASSUME TypeOK, [Next]_vars PROVE TypeOK'
  OBVIOUS
<1>1. ASSUME NEW i \in Instances,
             Launch(i) \/ OpenPostgres(i) \/ MigrateScanTables(i) \/ DropCheck(i)
      PROVE TypeOK'
  <2>1. CASE Launch(i)
    BY <2>1 DEF TypeOK, Launch, Goto, Steps, BootSteps, Stores, database
  <2>2. CASE OpenPostgres(i)
    BY <2>2 DEF TypeOK, OpenPostgres, Goto, Steps, BootSteps, Stores, database
  <2>3. CASE MigrateScanTables(i)
    BY <2>3 DEF TypeOK, MigrateScanTables, Goto, Steps, BootSteps, Stores, database
  <2>4. CASE DropCheck(i)
    BY <2>4 DEF TypeOK, DropCheck, Goto, Steps, BootSteps, Stores, database
  <2> QED BY <1>1, <2>1, <2>2, <2>3, <2>4
<1>2. ASSUME NEW i \in Instances, AddCheck(i) PROVE TypeOK'
  <2>1. CASE Exit(i) /\ UNCHANGED faults
    BY <2>1, ExitType DEF TypeOK
  <2>2. CASE ~(Exit(i) /\ UNCHANGED faults)
    BY <1>2, <2>2 DEF TypeOK, AddCheck, Goto, Steps, BootSteps
  <2> QED BY <2>1, <2>2
<1>3. ASSUME NEW i \in Instances,
             MigrateCP(i) \/ OpenRedis(i) \/ OpenNats(i) \/ StartHTTP(i) \/ Listen(i)
      PROVE TypeOK'
  <2>1. CASE MigrateCP(i)
    BY <2>1 DEF TypeOK, MigrateCP, Goto, Steps, BootSteps, Stores, database
  <2>2. CASE OpenRedis(i)
    BY <2>2 DEF TypeOK, OpenRedis, Goto, Steps, BootSteps, Stores, database
  <2>3. CASE OpenNats(i)
    BY <2>3 DEF TypeOK, OpenNats, Goto, Steps, BootSteps, Stores, database
  <2>4. CASE StartHTTP(i)
    BY <2>4 DEF TypeOK, StartHTTP, Goto, Steps, BootSteps, Stores, database
  <2>5. CASE Listen(i)
    BY <2>5 DEF TypeOK, Listen, Goto, Steps, BootSteps, Stores, database
  <2> QED BY <1>3, <2>1, <2>2, <2>3, <2>4, <2>5
<1>4. ASSUME NEW i \in Instances, Subscribe(i) \/ SetReady(i) PROVE TypeOK'
  <2>1. CASE Exit(i) /\ UNCHANGED faults
    BY <2>1, ExitType DEF TypeOK
  <2>2. CASE ~(Exit(i) /\ UNCHANGED faults)
    BY <1>4, <2>2 DEF TypeOK, Subscribe, SetReady, Goto, Steps, BootSteps, database
  <2> QED BY <2>1, <2>2
<1>5. ASSUME NEW i \in Instances, NEW r \in Requests, Receive(i, r) PROVE TypeOK'
  BY <1>5 DEF TypeOK, Receive, process, database, Work
<1>6. ASSUME NEW r \in Requests, RequestStep(r) PROVE TypeOK'
  <2>1. req[r] \in [at : Instances, step : Work]
    BY <1>6 DEF TypeOK, RequestStep
  <2>2. After(req[r].step) \in Work \union {None}
    BY <2>1 DEF After, Work
  <2> QED BY <1>6, <2>1, <2>2 DEF TypeOK, RequestStep, process, database
<1>7. ASSUME NEW i \in Instances, Announce(i) PROVE TypeOK'
  <2>1. sent[i] + 1 \in 0..Beats
    BY <1>7 DEF TypeOK, Announce
  <2> QED BY <1>7, <2>1 DEF TypeOK, Announce, database
<1>8. CASE BackendStarts
  BY <1>8 DEF TypeOK, BackendStarts, process, database
<1>9. ASSUME NEW i \in Instances,
              Unready(i) \/ CloseNats(i) \/ CloseRedis(i) \/ ClosePostgres(i)
       PROVE TypeOK'
  <2>1. CASE Unready(i)
    BY <2>1 DEF TypeOK, Unready, Goto, Steps, StopSteps, database
  <2>2. CASE CloseNats(i)
    BY <2>2 DEF TypeOK, CloseNats, Goto, Steps, StopSteps, database
  <2>3. CASE CloseRedis(i)
    BY <2>3 DEF TypeOK, CloseRedis, Goto, Steps, StopSteps, database
  <2>4. CASE ClosePostgres(i)
    BY <2>4 DEF TypeOK, ClosePostgres, Goto, Steps, StopSteps, database
  <2> QED BY <1>9, <2>1, <2>2, <2>3, <2>4
<1>10. ASSUME NEW i \in Instances, ShutdownHTTP(i) PROVE TypeOK'
  <2>1. faults' \in 0..MaxFaults
    BY <1>10 DEF TypeOK, ShutdownHTTP
  <2> QED BY <1>10, <2>1 DEF TypeOK, ShutdownHTTP, Goto, Steps, StopSteps, database
<1>11. ASSUME NEW i \in Instances, StopHealth(i) \/ Fatal(i) \/ Crash(i) PROVE TypeOK'
  <2>1. faults' \in 0..MaxFaults /\ Exit(i)
    BY <1>11 DEF TypeOK, StopHealth, Fatal, Crash
  <2> QED BY <2>1, ExitType
<1>12. ASSUME NEW i \in Instances, Signal(i) PROVE TypeOK'
  <2>1. faults' \in 0..MaxFaults
    BY <1>12 DEF TypeOK, Signal
  <2>2. CASE Exit(i)
    BY <2>1, <2>2, ExitType
  <2>3. CASE ~Exit(i)
    BY <1>12, <2>1, <2>3 DEF TypeOK, Signal, Goto, Steps, StopSteps, database
  <2> QED BY <2>2, <2>3
<1>13. ASSUME NEW i \in Instances, LoseLink(i) \/ Reconnect(i) \/ GiveUp(i) PROVE TypeOK'
  <2>1. faults' \in 0..MaxFaults
    BY <1>13 DEF TypeOK, LoseLink, Reconnect, GiveUp
  <2>2. CASE LoseLink(i) \/ Reconnect(i)
    BY <2>1, <2>2 DEF TypeOK, LoseLink, Reconnect, database
  <2>3. CASE GiveUp(i)
    BY <2>1, <2>3 DEF TypeOK, GiveUp, database
  <2> QED BY <1>13, <2>2, <2>3
<1>14. CASE UNCHANGED vars
  BY <1>14 DEF TypeOK, vars, process, database
<1> QED
  BY <1>1, <1>2, <1>3, <1>4, <1>5, <1>6, <1>7, <1>8, <1>9, <1>10, <1>11, <1>12, <1>13, <1>14
  DEF Next, Boot, Stop, Disturb

\* What a step of one process leaves of another: its own state, and tables that
\* only grow.
Untouched(j) ==
    /\ pc'[j] = pc[j] /\ open'[j] = open[j] /\ subs'[j] = subs[j]
    /\ ready'[j] = ready[j] /\ http'[j] = http[j] /\ Gone(j)' = Gone(j)
    /\ (link'[j] = "lost") <=> (link[j] = "lost")

\* So a process keeps its progress while another one moves.
LEMMA OthersProgress ==
    ASSUME TypeOK, TypeOK', NEW j \in Instances, Progress(j), Untouched(j), tables \subseteq tables'
    PROVE  Progress(j)'
  BY DEF Progress, Untouched, OpenAt, Gone, Migrated, TypeOK

\* A process that ends is at the beginning again.
LEMMA ExitProgress ==
    ASSUME TypeOK, TypeOK', \A k \in Instances : Progress(k), NEW i \in Instances, Exit(i),
           NEW j \in Instances
    PROVE  Progress(j)'
<1>1. CASE j = i
  BY <1>1 DEF Exit, Goto, Progress, OpenAt, Gone, Migrated, TypeOK
<1>2. CASE j # i
  <2>1. Untouched(j) /\ tables \subseteq tables'
    BY <1>2 DEF Exit, Goto, Untouched, Gone, TypeOK, database
  <2> QED BY <2>1, OthersProgress
<1> QED BY <1>1, <1>2

\* Every step keeps LifeInv: one step of the proof per action that moves main,
\* opens or closes something.
LEMMA NextLife == LifeInv /\ [Next]_vars => LifeInv'
<1> SUFFICES ASSUME LifeInv, [Next]_vars PROVE LifeInv'
  OBVIOUS
<1>t. TypeOK /\ TypeOK' /\ \A k \in Instances : Progress(k)
  BY NextLifeType DEF LifeInv
<1> SUFFICES ASSUME NEW j \in Instances PROVE Progress(j)'
  BY <1>t DEF LifeInv
<1> DEFINE Boots(i) == \/ Launch(i) \/ OpenPostgres(i) \/ MigrateScanTables(i) \/ DropCheck(i)
                       \/ MigrateCP(i) \/ OpenRedis(i) \/ OpenNats(i) \/ StartHTTP(i) \/ Listen(i)
           Stops(i) == \/ Unready(i) \/ ShutdownHTTP(i) \/ CloseNats(i) \/ CloseRedis(i)
                       \/ ClosePostgres(i)
<1> USE DEF Goto, Progress, OpenAt, Gone, Migrated, Steps, BootSteps, StopSteps, Stores, TypeOK,
            database
<1>1. ASSUME NEW i \in Instances, Boots(i) PROVE Progress(j)'
  <2>o. j # i => Untouched(j) /\ tables \subseteq tables'
    BY <1>t, <1>1 DEF Launch, OpenPostgres, MigrateScanTables, DropCheck, MigrateCP, OpenRedis,
        OpenNats, StartHTTP, Listen, Untouched
  <2>s. CASE j = i
    <3>1. CASE Launch(i)
      BY <1>t, <2>s, <3>1 DEF Launch
    <3>2. CASE OpenPostgres(i)
      BY <1>t, <2>s, <3>2 DEF OpenPostgres
    <3>3. CASE MigrateScanTables(i)
      BY <1>t, <2>s, <3>3 DEF MigrateScanTables
    <3>4. CASE DropCheck(i)
      BY <1>t, <2>s, <3>4 DEF DropCheck
    <3>5. CASE MigrateCP(i)
      BY <1>t, <2>s, <3>5 DEF MigrateCP
    <3>6. CASE OpenRedis(i)
      BY <1>t, <2>s, <3>6 DEF OpenRedis
    <3>7. CASE OpenNats(i)
      BY <1>t, <2>s, <3>7 DEF OpenNats
    <3>8. CASE StartHTTP(i)
      BY <1>t, <2>s, <3>8 DEF StartHTTP
    <3>9. CASE Listen(i)
      BY <1>t, <2>s, <3>9 DEF Listen
    <3> QED BY <1>1, <3>1, <3>2, <3>3, <3>4, <3>5, <3>6, <3>7, <3>8, <3>9
  <2> QED BY <1>t, <2>o, <2>s, OthersProgress
<1>2. ASSUME NEW i \in Instances, Stops(i) PROVE Progress(j)'
  <2>o. j # i => Untouched(j) /\ tables \subseteq tables'
    BY <1>t, <1>2 DEF Unready, ShutdownHTTP, CloseNats, CloseRedis, ClosePostgres, Untouched
  <2>s. CASE j = i
    <3>1. CASE Unready(i)
      BY <1>t, <2>s, <3>1 DEF Unready
    <3>2. CASE ShutdownHTTP(i)
      BY <1>t, <2>s, <3>2 DEF ShutdownHTTP
    <3>3. CASE CloseNats(i)
      BY <1>t, <2>s, <3>3 DEF CloseNats
    <3>4. CASE CloseRedis(i)
      BY <1>t, <2>s, <3>4 DEF CloseRedis
    <3>5. CASE ClosePostgres(i)
      BY <1>t, <2>s, <3>5 DEF ClosePostgres
    <3> QED BY <1>2, <3>1, <3>2, <3>3, <3>4, <3>5
  <2> QED BY <1>t, <2>o, <2>s, OthersProgress
<1>3. ASSUME NEW i \in Instances, AddCheck(i) \/ Subscribe(i) \/ SetReady(i) \/ Signal(i)
      PROVE Progress(j)'
  <2>1. CASE Exit(i)
    BY <1>t, <2>1, ExitProgress
  <2>2. CASE ~Exit(i)
    <3>o. j # i => Untouched(j) /\ tables \subseteq tables'
      BY <1>t, <1>3, <2>2 DEF AddCheck, Subscribe, SetReady, Signal, Untouched
    <3>s. CASE j = i
      <4>1. CASE AddCheck(i)
        BY <1>t, <2>2, <3>s, <4>1 DEF AddCheck
      <4>2. CASE Subscribe(i)
        BY <1>t, <2>2, <3>s, <4>2 DEF Subscribe
      <4>3. CASE SetReady(i)
        BY <1>t, <2>2, <3>s, <4>3 DEF SetReady
      <4>4. CASE Signal(i)
        BY <1>t, <2>2, <3>s, <4>4 DEF Signal
      <4> QED BY <1>3, <4>1, <4>2, <4>3, <4>4
    <3> QED BY <1>t, <3>o, <3>s, OthersProgress
  <2> QED BY <2>1, <2>2
<1>4. ASSUME NEW i \in Instances, StopHealth(i) \/ Fatal(i) \/ Crash(i) PROVE Progress(j)'
  <2>1. Exit(i)
    BY <1>4 DEF StopHealth, Fatal, Crash
  <2> QED BY <1>t, <2>1, ExitProgress
<1>5. ASSUME UNCHANGED <<pc, open, link, subs, ready, http, tables>> PROVE Progress(j)'
  BY <1>t, <1>5, OthersProgress DEF Untouched
<1>6. ASSUME NEW i \in Instances, Announce(i) PROVE Progress(j)'
  BY <1>5, <1>6 DEF Announce
<1>9. ASSUME NEW i \in Instances, LoseLink(i) \/ Reconnect(i) \/ GiveUp(i) PROVE Progress(j)'
  <2>1. CASE LoseLink(i)
    BY <1>t, <2>1 DEF LoseLink
  <2>2. CASE Reconnect(i)
    BY <1>t, <2>2 DEF Reconnect
  <2>3. CASE GiveUp(i)
    BY <1>t, <2>3 DEF GiveUp
  <2> QED BY <1>9, <2>1, <2>2, <2>3
<1>7. ASSUME NEW r \in Requests, RequestStep(r) \/ \E i \in Instances : Receive(i, r)
      PROVE Progress(j)'
  BY <1>5, <1>7 DEF RequestStep, Receive, process
<1>8. CASE BackendStarts \/ UNCHANGED vars
  BY <1>5, <1>8 DEF BackendStarts, vars, process
<1> QED
  BY <1>1, <1>2, <1>3, <1>4, <1>6, <1>7, <1>8, <1>9 DEF Next, Boot, Stop, Disturb

\* The invariant holds in every state of the specification.
LEMMA LifeInvariant == Spec => []LifeInv
  BY InitLife, NextLife, PTL DEF Spec

\* Every process, request and table of the service lifecycle is well typed.
THEOREM ServiceTypeCorrect == Spec => []TypeOK
  BY LifeInvariant, PTL DEF LifeInv

\* SetReady(true) is the last boot step and SetReady(false) the first shutdown
\* step: a ready instance has a migrated database, its stores, and NATS with its
\* subscriptions unless that client gave up, whatever the other instances do.
THEOREM ReadyIsServing == Spec => []ReadyServes
<1>1. LifeInv => ReadyServes
  BY DEF LifeInv, Progress, ReadyServes, OpenAt, Gone, Stores, Migrated, Steps, StopSteps
<1> QED BY <1>1, LifeInvariant, PTL

\* The deferred functions run in an order that keeps every connection open
\* until the HTTP server has drained.
THEOREM DrainedBeforeClosed == Spec => []RequestsKeepStores
<1>1. LifeInv => RequestsKeepStores
  <2> SUFFICES ASSUME LifeInv, NEW r \in Requests, req[r] # Idle, http[req[r].at] # "off"
               PROVE \/ open[req[r].at] = Stores
                     \/ link[req[r].at] = "lost" /\ open[req[r].at] = Stores \ {"nats"}
    BY DEF RequestsKeepStores
  <2>1. req[r].at \in Instances
    BY DEF LifeInv, TypeOK
  <2>2. open[req[r].at] = Stores \ Gone(req[r].at)
    BY <2>1 DEF LifeInv, Progress, OpenAt
  <2> QED BY <2>2 DEF Gone, Stores
<1> QED BY <1>1, LifeInvariant, PTL
=============================================================================
