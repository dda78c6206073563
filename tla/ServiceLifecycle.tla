-------------------------- MODULE ServiceLifecycle --------------------------
(***************************************************************************)
(* The life of the processes that run the service (cmd/persistence): the   *)
(* boot sequence with its migrations, readiness, the NATS connection, the  *)
(* persistence.ready signal, requests under way, and the deferred shutdown *)
(* steps, which run in the reverse order.                                  *)
(*                                                                         *)
(* The instances share one database.  PolicyStore has the statements of    *)
(* the policy migration; here they are one step.  Of the scan migration    *)
(* the two statements that replace a constraint are steps of their own,    *)
(* because the second fails when the constraint is there.                  *)
(***************************************************************************)
EXTENDS Naturals, FiniteSets

CONSTANTS
    Instances,
    Requests,   \* requests to the internal HTTP API
    Beats,      \* how often persistence.ready is published (40 in the code)
    MaxFaults,  \* bound on faults and signals in a behaviour
    Faults,     \* subset of {"fatal", "crash", "signal", "drop", "giveup", "slow"}
    None

Stores == {"postgres", "redis", "nats"}
Work == {"store", "redis", "publish"}
BootSteps == {"postgres", "scanTables", "dropCheck", "addCheck", "cpSchema",
              "redis", "nats", "http", "subscribe", "verify"}
StopSteps == {"unready", "drain", "closeNats", "closeRedis", "closePostgres", "exit"}

ASSUME ServiceAssumption ==
    /\ None \notin Instances /\ None \notin Work
    /\ Beats \in Nat /\ MaxFaults \in Nat

VARIABLES
    pc,       \* where main is on each instance
    ready,    \* health.State, which /ready reports
    open,     \* connections the process has opened and not closed
    link,     \* state of its NATS connection
    http,     \* internal HTTP server
    subs,     \* subscribed to the three scan subjects
    sent,     \* persistence.ready signals published
    req,      \* requests under way: instance and next step
    tables,   \* shared database: migrated tables
    check,    \* shared database: public_key_recovery is constrained
    backend,  \* "off", "listening" to persistence.ready, or has "heard" it
    faults    \* faults and signals so far

process == <<pc, ready, open, link, http, subs, sent>>
database == <<tables, check>>
vars == <<process, req, database, backend, faults>>

Idle == [at |-> None, step |-> None]

Init ==
    /\ pc = [i \in Instances |-> "down"]
    /\ ready = [i \in Instances |-> FALSE]
    /\ open = [i \in Instances |-> {}]
    /\ link = [i \in Instances |-> "none"]
    /\ http = [i \in Instances |-> "off"]
    /\ subs = [i \in Instances |-> FALSE]
    /\ sent = [i \in Instances |-> 0]
    /\ req = [r \in Requests |-> Idle]
    /\ tables \in SUBSET {"scan", "cp"}   \* a new database, or one in use
    /\ check \in BOOLEAN
    /\ check => "scan" \in tables
    /\ backend = "off"
    /\ faults = 0

Goto(i, step) == pc' = [pc EXCEPT ![i] = step]

\* The process is gone, with what it had under way; no deferred step runs.
Exit(i) ==
    /\ Goto(i, "down")
    /\ ready' = [ready EXCEPT ![i] = FALSE]
    /\ open' = [open EXCEPT ![i] = {}]
    /\ link' = [link EXCEPT ![i] = "none"]
    /\ http' = [http EXCEPT ![i] = "off"]
    /\ subs' = [subs EXCEPT ![i] = FALSE]
    /\ sent' = [sent EXCEPT ![i] = 0]
    /\ req' = [r \in Requests |-> IF req[r].at = i THEN Idle ELSE req[r]]
    /\ UNCHANGED <<database, backend>>
-----------------------------------------------------------------------------
(* Boot, in the order of main.                                             *)

\* The health server starts first; /ready answers 503.
Launch(i) ==
    /\ pc[i] = "down"
    /\ Goto(i, "postgres")
    /\ UNCHANGED <<ready, open, link, http, subs, sent, req, database, backend, faults>>

OpenPostgres(i) ==
    /\ pc[i] = "postgres"
    /\ open' = [open EXCEPT ![i] = @ \union {"postgres"}]
    /\ Goto(i, "scanTables")
    /\ UNCHANGED <<ready, link, http, subs, sent, req, database, backend, faults>>

\* AutoMigrate and the index statements, which can be repeated.
MigrateScanTables(i) ==
    /\ pc[i] = "scanTables"
    /\ tables' = tables \union {"scan"}
    /\ Goto(i, "dropCheck")
    /\ UNCHANGED <<ready, open, link, http, subs, sent, req, check, backend, faults>>

\* Mutant: the constraint is only added, never dropped first.
KeepCheck(i) ==
    /\ pc[i] = "dropCheck"
    /\ Goto(i, "addCheck")
    /\ UNCHANGED <<ready, open, link, http, subs, sent, req, database, backend, faults>>

\* DROP CONSTRAINT IF EXISTS.
DropCheck(i) ==
    /\ pc[i] = "dropCheck"
    /\ check' = FALSE
    /\ Goto(i, "addCheck")
    /\ UNCHANGED <<ready, open, link, http, subs, sent, req, tables, backend, faults>>

\* ADD CONSTRAINT; it is an error, hence fatal, when another process added it.
AddCheck(i) ==
    /\ pc[i] = "addCheck"
    /\ \/ check /\ Exit(i)
       \/ /\ ~check
          /\ check' = TRUE
          /\ Goto(i, "cpSchema")
          /\ UNCHANGED <<ready, open, link, http, subs, sent, req, tables, backend>>
    /\ UNCHANGED faults

MigrateCP(i) ==
    /\ pc[i] = "cpSchema"
    /\ tables' = tables \union {"cp"}
    /\ Goto(i, "redis")
    /\ UNCHANGED <<ready, open, link, http, subs, sent, req, check, backend, faults>>

OpenRedis(i) ==
    /\ pc[i] = "redis"
    /\ open' = [open EXCEPT ![i] = @ \union {"redis"}]
    /\ Goto(i, "nats")
    /\ UNCHANGED <<ready, link, http, subs, sent, req, database, backend, faults>>

OpenNats(i) ==
    /\ pc[i] = "nats"
    /\ open' = [open EXCEPT ![i] = @ \union {"nats"}]
    /\ link' = [link EXCEPT ![i] = "up"]
    /\ Goto(i, "http")
    /\ UNCHANGED <<ready, http, subs, sent, req, database, backend, faults>>

\* The listener is opened by a goroutine of its own (Listen).
StartHTTP(i) ==
    /\ pc[i] = "http"
    /\ http' = [http EXCEPT ![i] = "starting"]
    /\ Goto(i, "subscribe")
    /\ UNCHANGED <<ready, open, link, subs, sent, req, database, backend, faults>>

Listen(i) ==
    /\ http[i] = "starting"
    /\ http' = [http EXCEPT ![i] = "listening"]
    /\ UNCHANGED <<pc, ready, open, link, subs, sent, req, database, backend, faults>>

\* A closed connection refuses subscriptions, a reconnecting one keeps them.
Subscribe(i) ==
    /\ pc[i] = "subscribe"
    /\ \/ link[i] = "lost" /\ Exit(i)
       \/ /\ link[i] # "lost"
          /\ subs' = [subs EXCEPT ![i] = TRUE]
          /\ Goto(i, "verify")
          /\ UNCHANGED <<ready, open, link, http, sent, req, database, backend>>
    /\ UNCHANGED faults

SetReady(i) ==
    /\ pc[i] = "verify"
    /\ \/ link[i] # "up" /\ Exit(i)
       \/ /\ link[i] = "up"
          /\ ready' = [ready EXCEPT ![i] = TRUE]
          /\ Goto(i, "running")
          /\ UNCHANGED <<open, link, http, subs, sent, req, database, backend>>
    /\ UNCHANGED faults

Boot(i) ==
    \/ OpenPostgres(i) \/ MigrateScanTables(i) \/ DropCheck(i) \/ AddCheck(i) \/ MigrateCP(i)
    \/ OpenRedis(i) \/ OpenNats(i) \/ StartHTTP(i) \/ Subscribe(i) \/ SetReady(i)
-----------------------------------------------------------------------------
(* Work under way, and the persistence.ready signal.                       *)

Receive(i, r) ==
    /\ http[i] = "listening"
    /\ req[r] = Idle
    /\ req' = [req EXCEPT ![r] = [at |-> i, step |-> "store"]]
    /\ UNCHANGED <<process, database, backend, faults>>

Needs(step) == CASE step = "store" -> "postgres" [] step = "redis" -> "redis" [] OTHER -> "nats"
After(step) == CASE step = "store" -> "redis" [] step = "redis" -> "publish" [] OTHER -> None

\* A step on a closed connection fails, and the request is answered then.
RequestStep(r) ==
    /\ req[r] # Idle
    /\ LET i == req[r].at
           s == req[r].step
       IN  req' = [req EXCEPT ![r] = IF Needs(s) \in open[i] /\ After(s) # None
                                     THEN [at |-> i, step |-> After(s)] ELSE Idle]
    /\ UNCHANGED <<process, database, backend, faults>>

\* Mutant: the signal is published once.
AnnounceOnce(i) ==
    /\ pc[i] = "running" /\ sent[i] < 1
    /\ sent' = [sent EXCEPT ![i] = @ + 1]
    /\ backend' = IF backend = "listening" /\ link[i] = "up" THEN "heard" ELSE backend
    /\ UNCHANGED <<pc, ready, open, link, http, subs, req, database, faults>>

\* Mutant: one repeat too many.
AnnounceTooOften(i) ==
    /\ pc[i] = "running" /\ sent[i] <= Beats
    /\ sent' = [sent EXCEPT ![i] = @ + 1]
    /\ backend' = IF backend = "listening" /\ link[i] = "up" THEN "heard" ELSE backend
    /\ UNCHANGED <<pc, ready, open, link, http, subs, req, database, faults>>

\* The goroutine lives as long as the process, so it also signals during a
\* shutdown, until the connection is closed.  A signal published while the
\* client reconnects is buffered, and is taken here for not heard.
Announce(i) ==
    /\ pc[i] = "running" \/ pc[i] \in StopSteps
    /\ sent[i] < Beats
    /\ sent' = [sent EXCEPT ![i] = @ + 1]
    /\ backend' = IF backend = "listening" /\ link[i] = "up" /\ "nats" \in open[i]
                  THEN "heard" ELSE backend
    /\ UNCHANGED <<pc, ready, open, link, http, subs, req, database, faults>>

BackendStarts ==
    /\ backend = "off"
    /\ backend' = "listening"
    /\ UNCHANGED <<process, req, database, faults>>
-----------------------------------------------------------------------------
(* Shutdown: the deferred functions, last one first.                       *)

\* Mutant: only the subscriptions are removed.
UnsubscribeOnly(i) ==
    /\ pc[i] = "unready"
    /\ subs' = [subs EXCEPT ![i] = FALSE]
    /\ Goto(i, "drain")
    /\ UNCHANGED <<ready, open, link, http, sent, req, database, backend, faults>>

\* NATS callbacks under way are not waited for: what a step that fails between
\* two others leaves is in TlsLifecycle.
Unready(i) ==
    /\ pc[i] = "unready"
    /\ ready' = [ready EXCEPT ![i] = FALSE]
    /\ subs' = [subs EXCEPT ![i] = FALSE]
    /\ Goto(i, "drain")
    /\ UNCHANGED <<open, link, http, sent, req, database, backend, faults>>

RequestsAt(i) == {r \in Requests : req[r].at = i}

\* Mutant: the server is closed without waiting for its requests.
CloseServer(i) ==
    /\ pc[i] = "drain"
    /\ http' = [http EXCEPT ![i] = "draining"]
    /\ Goto(i, "closeNats")
    /\ UNCHANGED <<ready, open, link, subs, sent, req, database, backend, faults>>

\* http.Server.Shutdown closes the listener, then waits for the requests
\* under way for at most 5 s.
ShutdownHTTP(i) ==
    /\ pc[i] = "drain"
    /\ \/ /\ http[i] # "draining"
          /\ http' = [http EXCEPT ![i] = "draining"]
          /\ UNCHANGED <<pc, faults>>
       \/ /\ http[i] = "draining" /\ RequestsAt(i) = {}
          /\ http' = [http EXCEPT ![i] = "off"]
          /\ Goto(i, "closeNats")
          /\ UNCHANGED faults
       \/ /\ http[i] = "draining" /\ RequestsAt(i) # {}
          /\ "slow" \in Faults /\ faults < MaxFaults
          /\ faults' = faults + 1
          /\ http' = [http EXCEPT ![i] = "off"]
          /\ Goto(i, "closeNats")
    /\ UNCHANGED <<ready, open, link, subs, sent, req, database, backend>>

CloseNats(i) ==
    /\ pc[i] = "closeNats"
    /\ open' = [open EXCEPT ![i] = @ \ {"nats"}]
    /\ link' = [link EXCEPT ![i] = "none"]
    /\ Goto(i, "closeRedis")
    /\ UNCHANGED <<ready, http, subs, sent, req, database, backend, faults>>

CloseRedis(i) ==
    /\ pc[i] = "closeRedis"
    /\ open' = [open EXCEPT ![i] = @ \ {"redis"}]
    /\ Goto(i, "closePostgres")
    /\ UNCHANGED <<ready, link, http, subs, sent, req, database, backend, faults>>

ClosePostgres(i) ==
    /\ pc[i] = "closePostgres"
    /\ open' = [open EXCEPT ![i] = @ \ {"postgres"}]
    /\ Goto(i, "exit")
    /\ UNCHANGED <<ready, link, http, subs, sent, req, database, backend, faults>>

\* The health server's deferred function, then main returns.
StopHealth(i) ==
    /\ pc[i] = "exit"
    /\ Exit(i)
    /\ UNCHANGED faults

Stop(i) ==
    \/ Unready(i) \/ ShutdownHTTP(i) \/ CloseNats(i) \/ CloseRedis(i) \/ ClosePostgres(i)
    \/ StopHealth(i)
-----------------------------------------------------------------------------
(* Faults and signals.                                                     *)

\* log.Fatal: a boot step failed, or a listener could not be opened.
Fatal(i) ==
    /\ "fatal" \in Faults /\ faults < MaxFaults
    /\ pc[i] \in BootSteps \/ http[i] = "starting"
    /\ faults' = faults + 1
    /\ Exit(i)

Crash(i) ==
    /\ "crash" \in Faults /\ faults < MaxFaults
    /\ pc[i] # "down"
    /\ faults' = faults + 1
    /\ Exit(i)

\* SIGTERM is caught once main waits for it; before that it kills the process,
\* and during the shutdown it changes nothing.
Signal(i) ==
    /\ "signal" \in Faults /\ faults < MaxFaults
    /\ faults' = faults + 1
    /\ \/ pc[i] \in BootSteps /\ Exit(i)
       \/ /\ pc[i] = "running"
          /\ Goto(i, "unready")
          /\ UNCHANGED <<ready, open, link, http, subs, sent, req, database, backend>>

\* The server goes away: the client keeps the connection and its subscriptions
\* while it tries to reconnect.
LoseLink(i) ==
    /\ "drop" \in Faults /\ faults < MaxFaults
    /\ link[i] = "up"
    /\ faults' = faults + 1
    /\ link' = [link EXCEPT ![i] = "retrying"]
    /\ UNCHANGED <<pc, ready, open, http, subs, sent, req, database, backend>>

Reconnect(i) ==
    /\ link[i] = "retrying"
    /\ link' = [link EXCEPT ![i] = "up"]
    /\ UNCHANGED <<pc, ready, open, http, subs, sent, req, database, backend, faults>>

\* After MaxReconnects attempts the client closes the connection, and with it
\* the subscriptions; ClosedHandler only logs, so main and /ready go on.
GiveUp(i) ==
    /\ "giveup" \in Faults /\ faults < MaxFaults
    /\ link[i] = "retrying"
    /\ faults' = faults + 1
    /\ link' = [link EXCEPT ![i] = "lost"]
    /\ open' = [open EXCEPT ![i] = @ \ {"nats"}]
    /\ subs' = [subs EXCEPT ![i] = FALSE]
    /\ UNCHANGED <<pc, ready, http, sent, req, database, backend>>

Disturb(i) == Fatal(i) \/ Crash(i) \/ Signal(i) \/ LoseLink(i) \/ GiveUp(i)

Next ==
    \/ \E i \in Instances :
         \/ Launch(i) \/ Boot(i) \/ Listen(i) \/ Announce(i)
         \/ Stop(i) \/ Reconnect(i) \/ Disturb(i)
         \/ \E r \in Requests : Receive(i, r)
    \/ \E r \in Requests : RequestStep(r)
    \/ BackendStarts

Spec == Init /\ [][Next]_vars

\* The orchestrator restarts a process that ended; goroutines are scheduled.
FairSpec ==
    /\ Spec
    /\ \A i \in Instances :
         /\ WF_vars(Launch(i)) /\ WF_vars(Boot(i)) /\ WF_vars(Stop(i))
         /\ WF_vars(Listen(i)) /\ WF_vars(Announce(i))
    /\ \A r \in Requests : WF_vars(RequestStep(r))
-----------------------------------------------------------------------------
Steps == {"down", "running"} \union BootSteps \union StopSteps

\* Every process, request and table holds values of its type.
TypeOK ==
    /\ pc \in [Instances -> Steps]
    /\ ready \in [Instances -> BOOLEAN]
    /\ open \in [Instances -> SUBSET Stores]
    /\ link \in [Instances -> {"none", "up", "retrying", "lost"}]
    /\ http \in [Instances -> {"off", "starting", "listening", "draining"}]
    /\ subs \in [Instances -> BOOLEAN]
    /\ sent \in [Instances -> 0..Beats]
    /\ req \in [Requests -> [at : Instances, step : Work] \union {Idle}]
    /\ tables \subseteq {"scan", "cp"}
    /\ check \in BOOLEAN
    /\ backend \in {"off", "listening", "heard"}
    /\ faults \in 0..MaxFaults

\* /ready answers 200 only with both schemas migrated, Postgres and Redis open,
\* and NATS open with all subjects subscribed, from the last boot step to the
\* first step of a shutdown; the one exception is a client that gave up.
ReadyServes ==
    \A i \in Instances : ready[i] =>
        /\ tables = {"scan", "cp"}
        /\ {"postgres", "redis"} \subseteq open[i]
        /\ link[i] = "lost" \/ ("nats" \in open[i] /\ subs[i])

\* "IsReady reports whether scan migrations and NATS are operational": while
\* /ready answers 200 the NATS connection is open and the subjects subscribed.
ReadyMeansNats ==
    \A i \in Instances : ready[i] => "scan" \in tables /\ "nats" \in open[i] /\ subs[i]

\* A request under way never has a connection it needs closed by its own
\* process while the server drains: only a request that outlives the 5 s of
\* Shutdown can.  NATS may be missing when its client gave up.
RequestsKeepStores ==
    \A r \in Requests : req[r] # Idle /\ http[req[r].at] # "off" =>
        \/ open[req[r].at] = Stores
        \/ link[req[r].at] = "lost" /\ open[req[r].at] = Stores \ {"nats"}

\* Processes that boot together, collide on the constraint, fail or are
\* restarted end up listening, ready and subscribed, all of them, with the
\* constraint in place; nothing restarts one whose NATS client gave up.
Settles ==
    <>[](check /\ \A i \in Instances :
             ready[i] /\ http[i] = "listening" /\ (subs[i] \/ link[i] = "lost"))

\* "repeat for a while so backend can catch it when it starts after us": a
\* backend that listens before the last repeat hears the signal, unless the
\* process stops or the connection drops first.
BackendHears ==
    \A i \in Instances :
        backend = "listening" /\ pc[i] = "running" /\ link[i] = "up" /\ sent[i] < Beats
            ~> backend = "heard" \/ pc[i] # "running" \/ link[i] # "up"
=============================================================================
