------------------------------ MODULE ScanReads ------------------------------
(***************************************************************************)
(* The read routes: a client that walks a paginated list of its wallet     *)
(* scans, TLS scans or policies, asks for the latest completed scan of an  *)
(* address, or reads its quota counters, while rows are inserted, finished *)
(* and deleted.  Every statement sees the rows committed when it runs; a   *)
(* list page and the three counters are several statements.                *)
(*                                                                         *)
(* The writers are the committed steps of the scan lifecycle, as WalletScan*)
(* and TlsScan state them.  created_at is the clock of the instance that   *)
(* inserted, so rows may appear anywhere in the order.                     *)
(***************************************************************************)
EXTENDS ScanState, Integers, FiniteSets

CONSTANTS
    Ids,            \* rows; the order of the numbers is the order of the uuids
    Owner, Me,      \* owner of each row, and the client
    Times,          \* creation stamps
    Lists,          \* subset of {"wallets", "chain", "tls", "policies"}
    AskedLimits,    \* limits a client may ask for
    DefaultLimit, MaxLimit,   \* 20 and 100 in the code
    StopByTotal,    \* the client ends its walk by "total" instead of a short page
    NetSets,        \* networks a result may name
    ChainOf,        \* chain id the configuration gives a network name, 0 if none
    NumberOf,       \* chain id a name spells in decimal, 0 if none
    Trimmed,        \* a name without surrounding blanks
    Chain,          \* the chain_id the client filters by
    MaxWrites,      \* bound on inserts, outcomes and deletes
    None

Row == [at : Times \union {0}, status : {"RUNNING", "SUCCESS", "FAILED"}, deleted : BOOLEAN]

ASSUME ReadsAssumption ==
    /\ Ids \subseteq Nat /\ IsFiniteSet(Ids) /\ None \notin Ids /\ None \notin Row
    /\ Times \subseteq Nat
    /\ DefaultLimit \in 1..MaxLimit /\ MaxLimit \in Nat /\ AskedLimits \subseteq Int
    /\ MaxWrites \in Nat

VARIABLES
    list,     \* the list this client reads
    nets,     \* networks of each row's result
    row,      \* the table behind the list, committed
    writes,
    rd,       \* what the client is doing
    limit, offset, total,   \* its walk
    seen,     \* rows its pages have shown
    start,    \* rows listed when the walk or the usage request began
    removed,  \* how many of the client's rows were deleted during the walk
    latest,   \* answer to its last request for the latest completed scan
    flying, shown   \* rows behind in_flight_count and visible_success_count

table == <<list, nets, row, writes>>
walk == <<limit, offset, total, seen>>
vars == <<table, rd, walk, start, removed, latest, flying, shown>>

Live(s) == row[s] # None /\ ~row[s].deleted
-----------------------------------------------------------------------------
(* The chain filter of a list, and the chains of the wallet.observed event.*)

MatchesChainID(networks, chain) ==
    \E n \in networks : NumberOf[n] = chain \/ ChainOf[n] = chain

\* Mutant: a name without a configured chain is announced as chain 0.
ResolveUnknown(networks) == {ChainOf[n] : n \in networks}

ResolveChainIDs(networks) == {ChainOf[n] : n \in networks} \ {0}

IsMultichain(networks) ==
    \/ Cardinality(ResolveChainIDs(networks)) > 1
    \/ Cardinality({Trimmed[n] : n \in networks} \ {""}) > 1
-----------------------------------------------------------------------------
(* Lists.                                                                  *)

\* WHERE, without the soft-deleted rows.  Catalog TLS rows are nobody's rows;
\* networks are stored with the result.
Listed ==
    {s \in Ids : /\ Live(s) /\ Owner[s] = Me
                 /\ list = "chain" => row[s].status = "SUCCESS"
                                      /\ MatchesChainID(nets[s], Chain)}

\* ORDER BY: created_at DESC, id DESC for scans; persisted_at DESC, id ASC
\* for policies.
Before(s, t) ==
    \/ row[s].at > row[t].at
    \/ row[s].at = row[t].at /\ IF list = "policies" THEN s < t ELSE s > t

Rank(s) == Cardinality({t \in Listed : Before(t, s)})

\* LIMIT and OFFSET, or the slice of paginateWalletScanEntities.
Page(lim, off) == {s \in Listed : off <= Rank(s) /\ Rank(s) < off + lim}

\* Mutant: a limit above the maximum is answered with the limit asked for.
EffectiveUncapped(asked) == IF asked < 1 THEN DefaultLimit ELSE asked

\* parsePagination: a missing or unreadable limit is asked = 0.
EffectiveLimit(asked) ==
    IF asked < 1 THEN DefaultLimit ELSE IF asked > MaxLimit THEN MaxLimit ELSE asked

Init ==
    /\ list \in Lists
    /\ nets \in IF list = "chain" THEN [Ids -> NetSets] ELSE [Ids -> {{}}]
    /\ row = [s \in Ids |-> None]
    /\ writes = 0
    /\ rd = "idle"
    /\ limit = DefaultLimit /\ offset = 0 /\ total = 0
    /\ seen = {} /\ start = {} /\ removed = 0
    /\ latest = None
    /\ flying = {} /\ shown = {}
-----------------------------------------------------------------------------
(* Writers: one committed step each.                                       *)

Write == writes < MaxWrites /\ writes' = writes + 1

Insert(s, at) ==
    /\ Write
    /\ row[s] = None
    /\ row' = [row EXCEPT ![s] = [at |-> at, deleted |-> FALSE,
                                  status |-> IF list = "policies" THEN "SUCCESS" ELSE "RUNNING"]]
    /\ UNCHANGED <<list, nets, rd, walk, start, removed, latest, flying, shown>>

\* Mutant: the update writes every column, created_at too.
FinishRestamps(s, outcome) ==
    /\ Write
    /\ Live(s) /\ row[s].status = "RUNNING"
    /\ row' = [row EXCEPT ![s].status = outcome, ![s].at = 0]
    /\ UNCHANGED <<list, nets, rd, walk, start, removed, latest, flying, shown>>

\* The outcome is updated in place; created_at is omitted from the update.
Finish(s, outcome) ==
    /\ Write
    /\ Live(s) /\ row[s].status = "RUNNING"
    /\ row' = [row EXCEPT ![s].status = outcome]
    /\ UNCHANGED <<list, nets, rd, walk, start, removed, latest, flying, shown>>

Remove(s) ==
    /\ Write
    /\ Live(s)
    /\ row' = [row EXCEPT ![s].deleted = TRUE]
    /\ removed' = IF rd \in {"count", "page"} /\ s \in Listed THEN removed + 1 ELSE removed
    /\ UNCHANGED <<list, nets, rd, walk, start, latest, flying, shown>>
-----------------------------------------------------------------------------
(* The client walks its list, page after page from offset 0.               *)

\* The filtered list is counted in memory, in the page's own statement.
FirstStatement == IF list = "chain" THEN "page" ELSE "count"

StartWalk(asked) ==
    /\ rd = "idle"
    /\ rd' = FirstStatement
    /\ limit' = EffectiveLimit(asked)
    /\ offset' = 0 /\ seen' = {}
    /\ start' = Listed
    /\ removed' = 0
    /\ UNCHANGED <<table, total, latest, flying, shown>>

CountRows ==
    /\ rd = "count"
    /\ total' = Cardinality(Listed)
    /\ rd' = "page"
    /\ UNCHANGED <<table, limit, offset, seen, start, removed, latest, flying, shown>>

Last(page) == IF StopByTotal THEN offset + limit >= total ELSE Cardinality(page) < limit

\* The response names the limit that was applied; the client goes on from it.
ReadPage ==
    LET page == Page(limit, offset)
    IN  /\ rd = "page"
        /\ seen' = seen \union page
        /\ rd' = IF Last(page) THEN "walked" ELSE FirstStatement
        /\ offset' = IF Last(page) THEN offset ELSE offset + limit
        /\ UNCHANGED <<table, limit, total, start, removed, latest, flying, shown>>

EndWalk ==
    /\ rd = "walked"
    /\ rd' = "idle"
    /\ limit' = DefaultLimit /\ offset' = 0 /\ total' = 0
    /\ seen' = {} /\ start' = {} /\ removed' = 0
    /\ UNCHANGED <<table, latest, flying, shown>>
-----------------------------------------------------------------------------
(* latest=true, and the usage counters.                                    *)

Completed(s) == row[s].status = "SUCCESS"

\* Mutant: the newest row answers or nobody does.
NewestIfCompleted(S) == {s \in S : Completed(s) /\ \A t \in S : t = s \/ Before(s, t)}

\* The newest completed row: the first one the loop does not skip.
NewestCompleted(S) == {s \in S : /\ Completed(s)
                                 /\ \A t \in S : t = s \/ ~Completed(t) \/ Before(s, t)}

ReadLatest ==
    /\ rd = "idle" /\ list \in {"wallets", "chain"}
    /\ latest' \in IF NewestCompleted(Listed) = {} THEN {None} ELSE NewestCompleted(Listed)
    /\ UNCHANGED <<table, rd, walk, start, removed, flying, shown>>

InFlight == {s \in Listed : row[s].status = "RUNNING"}
VisibleSuccess == {s \in Listed : Completed(s)}

\* Mutant: the completed scans are counted before the ones in flight.
AfterStartSwapped == "visible"

\* GetScanLedgerUsage counts credits first (one statement, not read here),
\* then the scans in flight, then the visible successes.
AfterStart == "inflight"

StartUsage ==
    /\ rd = "idle" /\ list \in {"wallets", "tls"}
    /\ rd' = AfterStart
    /\ start' = InFlight \union VisibleSuccess
    /\ flying' = {} /\ shown' = {}
    /\ UNCHANGED <<table, walk, removed, latest>>

\* The second of the two counts answers the request.
AfterCount(step) == IF AfterStart = step THEN {"inflight", "visible"} \ {step} ELSE {"counted"}

CountInFlight ==
    /\ rd = "inflight"
    /\ flying' = InFlight
    /\ rd' \in AfterCount("inflight")
    /\ UNCHANGED <<table, walk, start, removed, latest, shown>>

CountVisible ==
    /\ rd = "visible"
    /\ shown' = VisibleSuccess
    /\ rd' \in AfterCount("visible")
    /\ UNCHANGED <<table, walk, start, removed, latest, flying>>

EndUsage ==
    /\ rd = "counted"
    /\ rd' = "idle"
    /\ start' = {} /\ flying' = {} /\ shown' = {}
    /\ UNCHANGED <<table, walk, removed, latest>>

Next ==
    \/ \E s \in Ids, at \in Times : Insert(s, at)
    \/ \E s \in Ids : Finish(s, "SUCCESS") \/ Finish(s, "FAILED") \/ Remove(s)
    \/ \E asked \in AskedLimits : StartWalk(asked)
    \/ CountRows \/ ReadPage \/ EndWalk
    \/ ReadLatest
    \/ StartUsage \/ CountInFlight \/ CountVisible \/ EndUsage

Spec == Init /\ [][Next]_vars
-----------------------------------------------------------------------------
\* The table and the client's state hold values of their types.
TypeOK ==
    /\ list \in Lists
    /\ nets \in [Ids -> NetSets \union {{}}]
    /\ row \in [Ids -> Row \union {None}]
    /\ writes \in 0..MaxWrites
    /\ rd \in {"idle", "count", "page", "walked", "inflight", "visible", "counted"}
    /\ limit \in 1..MaxLimit /\ offset \in Nat /\ total \in Nat /\ removed \in Nat
    /\ seen \subseteq Ids /\ start \subseteq Ids
    /\ latest \in Ids \union {None}
    /\ flying \subseteq Ids /\ shown \subseteq Ids

\* A walk by offset that ends with a short page has shown every row that was
\* listed from its first request to its last one, but for at most one row per
\* delete: inserts and outcomes in between never hide a row.
WalkComplete ==
    rd = "walked" => Cardinality((start \intersect Listed) \ seen) <= removed

\* "return at most one newest completed-success row": as long as the answer
\* is not deleted, a later request never answers with an older scan or with
\* none, whatever starts, completes or fails in between.
LatestForward ==
    [][latest' # latest /\ latest # None /\ Live(latest) =>
          latest' # None /\ Before(latest', latest)]_vars

\* A scan that is in flight or completed throughout a usage request is in one
\* of its counts, also when it completes between two of them.
UsageCovers ==
    rd = "counted" =>
        \A s \in start \intersect (InFlight \union VisibleSuccess) : s \in flying \union shown

\* A chain that wallet.observed announces for a result finds the row in the
\* list filtered by it, and a result announced as single-chain is found under
\* one chain only.
ObservedChainsListed ==
    \A s \in Ids :
        LET found == {c \in {ChainOf[n] : n \in nets[s]} \union {NumberOf[n] : n \in nets[s]} :
                        c # 0 /\ MatchesChainID(nets[s], c)}
        IN  /\ ResolveChainIDs(nets[s]) \subseteq found
            /\ IsMultichain(nets[s]) \/ Cardinality(found) <= 1
=============================================================================
