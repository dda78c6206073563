--------------------------- MODULE ScanReadsProofs ---------------------------
(***************************************************************************)
(* What a client of the read routes can rely on, for any table, owners,    *)
(* stamps, limits and interleaving of writers with the statements of a     *)
(* request.                                                                *)
(*                                                                         *)
(* Usage: UsageCovers needs a fact about the moment between the            *)
(* statements: a scan that was there when the request began and is in      *)
(* flight now was counted in flight (StillCounted), because a row never    *)
(* goes back to RUNNING and an id is inserted once.                        *)
(*                                                                         *)
(* Latest: the order of a list is strict and total, so a non-empty finite  *)
(* set of rows has one first row, and the first completed row can only be  *)
(* overtaken by an earlier one.                                            *)
(*                                                                         *)
(* Walk: the rank of a row is the number of rows listed before it; ranks   *)
(* are distinct and have no gaps, so a page is a run of consecutive ranks  *)
(* and a short page is the last. An insert raises ranks and a delete       *)
(* lowers each by at most one: no more rows slip below the offset unseen   *)
(* (Passed) than were deleted.                                             *)
(***************************************************************************)
EXTENDS ScanReads, FiniteSetTheorems, FunctionTheorems, TLAPS

StillCounted ==
    /\ rd \in {"inflight", "visible", "counted"} =>
          list # "chain" /\ \A s \in start : row[s] # None
    /\ rd \in {"visible", "counted"} => \A s \in start \intersect InFlight : s \in flying

UsageInv == TypeOK /\ StillCounted /\ UsageCovers

USE ReadsAssumption

\* A list is finite, so its size is a number.
LEMMA ListedCount == Cardinality(Listed) \in Nat
<1>1. Listed \subseteq Ids
  BY DEF Listed
<1> QED BY <1>1, FS_Subset, FS_CardinalityType

\* parsePagination answers with a limit in range, whatever was asked.
LEMMA LimitInRange == ASSUME NEW asked \in AskedLimits PROVE EffectiveLimit(asked) \in 1..MaxLimit
  BY DEF EffectiveLimit

\* An empty table and an idle client satisfy the invariant.
LEMMA InitUsage == Init => UsageInv
  BY DEF Init, UsageInv, TypeOK, StillCounted, UsageCovers

\* Every step keeps values in their types.
LEMMA NextReadsType == TypeOK /\ [Next]_vars => TypeOK'
<1> SUFFICES ASSUME TypeOK, [Next]_vars PROVE TypeOK'
  OBVIOUS
<1> USE DEF TypeOK, table, walk
<1>1. ASSUME NEW s \in Ids, NEW at \in Times, Insert(s, at) PROVE TypeOK'
  BY <1>1 DEF Insert, Write, Row
<1>2. ASSUME NEW s \in Ids, NEW outcome \in {"SUCCESS", "FAILED"}, Finish(s, outcome) PROVE TypeOK'
  <2>1. row[s] \in Row /\ row' = [row EXCEPT ![s] = [row[s] EXCEPT !.status = outcome]]
    BY <1>2 DEF Finish, Live
  <2>2. row' \in [Ids -> Row \union {None}]
    BY <2>1 DEF Row
  <2> QED BY <1>2, <2>2 DEF Finish, Write
<1>3. ASSUME NEW s \in Ids, Remove(s) PROVE TypeOK'
  <2>1. row[s] \in Row /\ row' = [row EXCEPT ![s] = [row[s] EXCEPT !.deleted = TRUE]]
    BY <1>3 DEF Remove, Live
  <2>2. row' \in [Ids -> Row \union {None}]
    BY <2>1 DEF Row
  <2>3. removed' \in Nat /\ writes' \in 0..MaxWrites
    BY <1>3 DEF Remove, Write
  <2> QED BY <1>3, <2>2, <2>3 DEF Remove
<1>4. ASSUME NEW asked \in AskedLimits, StartWalk(asked) PROVE TypeOK'
  <2>1. Listed \subseteq Ids
    BY DEF Listed
  <2> QED BY <1>4, <2>1, LimitInRange DEF StartWalk, FirstStatement
<1>5. CASE CountRows
  BY <1>5, ListedCount DEF CountRows
<1>6. CASE ReadPage
  <2>1. Page(limit, offset) \subseteq Ids
    BY DEF Page, Listed
  <2>2. offset + limit \in Nat
    OBVIOUS
  <2> QED BY <1>6, <2>1, <2>2 DEF ReadPage, FirstStatement
<1>7. CASE EndWalk
  BY <1>7 DEF EndWalk
<1>8. CASE ReadLatest
  <2>1. NewestCompleted(Listed) \subseteq Ids
    BY DEF NewestCompleted, Listed
  <2> QED BY <1>8, <2>1 DEF ReadLatest
<1>9. CASE StartUsage \/ CountInFlight \/ CountVisible \/ EndUsage
  <2>1. InFlight \subseteq Ids /\ VisibleSuccess \subseteq Ids
    BY DEF InFlight, VisibleSuccess, Listed
  <2> QED BY <1>9, <2>1
          DEF StartUsage, CountInFlight, CountVisible, EndUsage, AfterStart, AfterCount
<1>10. CASE UNCHANGED vars
  BY <1>10 DEF vars
<1> QED
  BY <1>1, <1>2, <1>3, <1>4, <1>5, <1>6, <1>7, <1>8, <1>9, <1>10 DEF Next

\* A writer neither brings a row back into flight nor completes one that was
\* not in flight.
LEMMA WritersOnlyFinish ==
    ASSUME TypeOK, TypeOK', NEW s \in Ids,
           \/ \E at \in Times : Insert(s, at)
           \/ Finish(s, "SUCCESS") \/ Finish(s, "FAILED") \/ Remove(s),
           NEW t \in Ids, row[t] # None, list # "chain"
    PROVE  /\ row'[t] # None
           /\ t \in InFlight' => t \in InFlight
           /\ t \in VisibleSuccess' => t \in InFlight \union VisibleSuccess
<1>1. UNCHANGED <<list, nets>>
  BY DEF Insert, Finish, Remove
<1>2. CASE t # s \/ \E at \in Times : Insert(s, at)
  <2>1. row'[t] = row[t]
    BY <1>2 DEF TypeOK, Insert, Finish, Remove
  <2> QED BY <1>1, <2>1
          DEF InFlight, VisibleSuccess, Completed, Listed, Live, MatchesChainID
<1>3. CASE t = s /\ Remove(s)
  <2>1. row[s] \in Row /\ row'[s] = [row[s] EXCEPT !.deleted = TRUE]
    BY <1>3 DEF TypeOK, Remove, Live
  <2>2. row'[t].deleted /\ row'[t] # None
    BY <1>3, <2>1 DEF Row
  <2> QED BY <2>2 DEF InFlight, VisibleSuccess, Listed, Live
<1>4. CASE t = s /\ (Finish(s, "SUCCESS") \/ Finish(s, "FAILED"))
  <2>1. /\ Live(t) /\ row[t].status = "RUNNING"
        /\ row'[t] # None /\ row'[t].status \in {"SUCCESS", "FAILED"}
    BY <1>4 DEF TypeOK, Finish, Row, Live
  <2>2. t \notin InFlight'
    BY <2>1 DEF InFlight
  <2>3. t \in Listed' => t \in InFlight
    BY <1>1, <2>1 DEF InFlight, Listed
  <2> QED BY <2>1, <2>2, <2>3 DEF VisibleSuccess
<1> QED BY <1>2, <1>3, <1>4

\* Neither a write between the two counts nor a count itself loses a scan.
LEMMA NextUsage == UsageInv /\ [Next]_vars => UsageInv'
<1> SUFFICES ASSUME UsageInv, [Next]_vars PROVE UsageInv'
  OBVIOUS
<1>t. TypeOK /\ TypeOK'
  BY NextReadsType DEF UsageInv
<1> SUFFICES StillCounted' /\ UsageCovers'
  BY <1>t DEF UsageInv
<1>1. ASSUME NEW s \in Ids,
             \/ \E at \in Times : Insert(s, at)
             \/ Finish(s, "SUCCESS") \/ Finish(s, "FAILED") \/ Remove(s)
      PROVE StillCounted' /\ UsageCovers'
  <2>1. UNCHANGED <<rd, list, start, flying, shown>>
    BY <1>1 DEF Insert, Finish, Remove
  <2>2. rd \in {"inflight", "visible", "counted"} =>
          \A t \in start : /\ row[t] # None /\ row'[t] # None
                           /\ t \in InFlight' => t \in InFlight
                           /\ t \in VisibleSuccess' => t \in InFlight \union VisibleSuccess
    BY <1>t, <1>1, WritersOnlyFinish DEF UsageInv, StillCounted, TypeOK
  <2> QED BY <2>1, <2>2 DEF UsageInv, StillCounted, UsageCovers
<1>2. ASSUME UNCHANGED <<table>>, rd' \notin {"inflight", "visible", "counted"}
      PROVE StillCounted' /\ UsageCovers'
  BY <1>2 DEF StillCounted, UsageCovers
<1>3. CASE \E asked \in AskedLimits : StartWalk(asked)
  BY <1>2, <1>3 DEF StartWalk, FirstStatement
<1>4. CASE CountRows \/ ReadPage \/ EndWalk \/ EndUsage
  BY <1>2, <1>4 DEF CountRows, ReadPage, EndWalk, EndUsage, FirstStatement
<1>5. CASE ReadLatest
  BY <1>2, <1>5 DEF ReadLatest
<1>6. CASE StartUsage
  BY <1>6, <1>t DEF StartUsage, AfterStart, StillCounted, UsageCovers, InFlight, VisibleSuccess,
     Listed, Live, table
<1>7. CASE CountInFlight
  <2>1. rd' = "visible" /\ flying' = InFlight /\ InFlight' = InFlight
        /\ UNCHANGED <<list, start, row>>
    BY <1>7 DEF CountInFlight, AfterCount, AfterStart, InFlight, Listed, Live, MatchesChainID, table
  <2> QED BY <1>7, <2>1 DEF UsageInv, StillCounted, UsageCovers, CountInFlight
<1>8. CASE CountVisible
  <2>1. rd' = "counted" /\ shown' = VisibleSuccess /\ VisibleSuccess' = VisibleSuccess
        /\ InFlight' = InFlight /\ UNCHANGED <<list, start, flying, row>>
    BY <1>8 DEF CountVisible, AfterCount, AfterStart, InFlight, VisibleSuccess, Completed, Listed,
       Live, MatchesChainID, table
  <2> QED BY <1>8, <2>1 DEF UsageInv, StillCounted, UsageCovers, CountVisible
<1>9. CASE UNCHANGED vars
  <2>1. InFlight' = InFlight /\ VisibleSuccess' = VisibleSuccess
        /\ UNCHANGED <<rd, list, start, flying, shown, row>>
    BY <1>9 DEF vars, table, InFlight, VisibleSuccess, Completed, Listed, Live, MatchesChainID
  <2> QED BY <2>1 DEF UsageInv, StillCounted, UsageCovers
<1> QED
  BY <1>1, <1>3, <1>4, <1>5, <1>6, <1>7, <1>8, <1>9 DEF Next

\* The counts of a usage request cover its scans in every reachable state.
LEMMA UsageInvariant == Spec => []UsageInv
  BY InitUsage, NextUsage, PTL DEF Spec

\* The table and the client of the read routes are well typed; the limit of a
\* page is always between 1 and the maximum (parsePagination).
THEOREM ReadsTypeCorrect == Spec => []TypeOK
  BY UsageInvariant, PTL DEF UsageInv

\* A scan that is in flight or completed throughout GetScanLedgerUsage is in
\* in_flight_count or in visible_success_count: it is enough that the scans in
\* flight are counted first.
THEOREM UsageMissesNothing == Spec => []UsageCovers
  BY UsageInvariant, PTL DEF UsageInv
-----------------------------------------------------------------------------
(* The order of a list.                                                    *)

\* Rows listed ahead of s.
Ahead(s) == {t \in Listed : Before(t, s)}

\* A listed row is a stored row.
LEMMA ListedRow ==
    ASSUME TypeOK, NEW s \in Listed
    PROVE  /\ s \in Ids /\ s \in Nat /\ row[s] \in Row /\ row[s] # None /\ row[s].at \in Nat
           /\ Live(s)
<1>1. s \in Ids /\ Live(s)
  BY DEF Listed
<1>2. row[s] \in Row /\ row[s] # None
  BY <1>1 DEF TypeOK, Live
<1>3. row[s].at \in Times \union {0}
  BY <1>2 DEF Row
<1>4. s \in Nat
  BY <1>1
<1>5. Times \union {0} \subseteq Nat
  OBVIOUS
<1>6. row[s].at \in Nat
  BY <1>3, <1>5, Zenon
<1> QED
  BY <1>1, <1>2, <1>4, <1>6

\* ORDER BY is a strict total order on the listed rows: the id breaks ties.
LEMMA BeforeOrder ==
    ASSUME TypeOK
    PROVE  /\ \A s \in Listed : ~Before(s, s)
           /\ \A s, t, u \in Listed : Before(s, t) /\ Before(t, u) => Before(s, u)
           /\ \A s, t \in Listed : s = t \/ Before(s, t) \/ Before(t, s)
BY ListedRow DEF Before

\* Every non-empty part of a list has a first row, since the sets of rows ahead
\* are finite and inclusion is well founded on them.
LEMMA FirstRow ==
    ASSUME TypeOK, NEW C, C \subseteq Listed, C # {}
    PROVE  \E s \in C : \A t \in C : t = s \/ Before(s, t)
<1> DEFINE In(s) == {t \in C : Before(t, s)}
           Ins == {In(s) : s \in C}
           R == StrictSubsetOrdering(Ids)
<1>1. Listed \subseteq Ids
  BY DEF Listed
<1>2. Ins \subseteq FiniteSubsetsOf(Ids) /\ Ins # {}
  <2>1. \A s \in C : In(s) \in SUBSET Ids
    BY <1>1
  <2>2. FiniteSubsetsOf(Ids) = SUBSET Ids
    BY FS_FiniteSubsetsOfFinite
  <2>3. Ins # {}
    OBVIOUS
  <2> HIDE DEF In
  <2>4. Ins \subseteq SUBSET Ids
    BY <2>1
  <2> QED
    BY <2>2, <2>3, <2>4
<1>3. IsWellFoundedOn(R, FiniteSubsetsOf(Ids))
  BY FS_StrictSubsetOrderingWellFounded
<1>4. \E x \in Ins : \A y \in Ins : ~(<<y, x>> \in R)
  <2> HIDE DEF Ins, R
  <2> QED
    BY <1>2, <1>3, WFMin
<1>5. PICK s \in C : \A y \in Ins : ~(<<y, In(s)>> \in R)
  BY <1>4
<1>6. ASSUME NEW t \in C, Before(t, s)
      PROVE  FALSE
  <2>1. In(t) \subseteq In(s) /\ In(t) # In(s)
    BY <1>6, BeforeOrder
  <2>2. <<In(t), In(s)>> \in R
    BY <1>1, <2>1 DEF StrictSubsetOrdering
  <2> QED
    BY <1>5, <2>2
<1> QED
  BY <1>6, BeforeOrder
-----------------------------------------------------------------------------
(* The latest completed scan.                                              *)

\* The last answer is a stored row and, while it is not deleted, a completed
\* row of the list.
LatestListed ==
    latest # None =>
        /\ row[latest] # None
        /\ Live(latest) => latest \in Listed /\ Completed(latest)

LatestInv == TypeOK /\ LatestListed

\* A writer leaves a stored row's stamp and completion alone, and does not
\* bring a deleted row back.
LEMMA WritersKeep ==
    ASSUME TypeOK, NEW s \in Ids,
           \/ \E at \in Times : Insert(s, at)
           \/ Finish(s, "SUCCESS") \/ Finish(s, "FAILED") \/ Remove(s),
           NEW t \in Ids, row[t] # None
    PROVE  /\ row'[t] # None /\ row'[t].at = row[t].at
           /\ row[t].status = "SUCCESS" => row'[t].status = "SUCCESS"
           /\ row'[t].status = "SUCCESS" => row[t].status \in {"SUCCESS", "RUNNING"}
           /\ row[t].deleted => row'[t].deleted
<1>0. row[t] \in Row
  BY DEF TypeOK
<1>1. CASE t # s \/ \E at \in Times : Insert(s, at)
  <2>1. row'[t] = row[t]
    BY <1>1 DEF TypeOK, Insert, Finish, Remove
  <2> QED
    BY <1>0, <2>1 DEF Row
<1>2. CASE t = s /\ Remove(s)
  <2>1. row'[t] = [row[t] EXCEPT !.deleted = TRUE]
    BY <1>2 DEF TypeOK, Remove
  <2>2. row'[t] \in Row
    BY <1>0, <2>1 DEF Row
  <2> QED
    BY <1>0, <2>1, <2>2 DEF Row
<1>3. ASSUME t = s, NEW outcome \in {"SUCCESS", "FAILED"}, Finish(s, outcome)
      PROVE  /\ row'[t] # None /\ row'[t].at = row[t].at
             /\ row[t].status = "RUNNING" /\ row'[t].deleted = row[t].deleted
  <2>1. row'[t] = [row[t] EXCEPT !.status = outcome] /\ row[t].status = "RUNNING"
    BY <1>3 DEF TypeOK, Finish
  <2>2. row'[t] \in Row
    BY <1>0, <2>1 DEF Row
  <2> QED
    BY <1>0, <2>1, <2>2 DEF Row
<1> QED
  BY <1>1, <1>2, <1>3

\* LatestInv is inductive.
LEMMA NextLatest == LatestInv /\ [Next]_vars => LatestInv'
<1> SUFFICES ASSUME LatestInv, [Next]_vars
             PROVE  LatestListed'
  BY NextReadsType DEF LatestInv
<1>0. TypeOK /\ LatestListed
  BY DEF LatestInv
<1>1. ASSUME NEW s \in Ids,
             \/ \E at \in Times : Insert(s, at)
             \/ Finish(s, "SUCCESS") \/ Finish(s, "FAILED") \/ Remove(s)
      PROVE  LatestListed'
  <2>1. UNCHANGED <<list, nets, latest>>
    BY <1>1 DEF Insert, Finish, Remove
  <2> SUFFICES ASSUME latest # None
               PROVE  /\ row'[latest] # None
                      /\ Live(latest)' => (latest \in Listed)' /\ Completed(latest)'
    BY <2>1 DEF LatestListed
  <2>2. latest \in Ids /\ row[latest] # None
    BY <1>0 DEF TypeOK, LatestListed
  <2>3. row'[latest] # None
    BY <1>0, <1>1, <2>2, WritersKeep
  <2>4. ASSUME Live(latest)'
        PROVE  (latest \in Listed)' /\ Completed(latest)'
    <3>1. Live(latest)
      BY <1>0, <1>1, <2>1, <2>2, <2>4, WritersKeep DEF Live
    <3>2. latest \in Listed /\ row[latest].status = "SUCCESS"
      BY <1>0, <3>1 DEF LatestListed, Completed
    <3>3. row'[latest].status = "SUCCESS"
      BY <1>0, <1>1, <2>2, <3>2, WritersKeep
    <3> QED
      BY <2>1, <2>4, <3>2, <3>3 DEF Listed, Live, Completed, MatchesChainID
  <2> QED
    BY <2>3, <2>4
<1>2. ASSUME UNCHANGED <<table, latest>>
      PROVE  LatestListed'
  BY <1>0, <1>2 DEF table, LatestListed, Listed, Live, Completed, MatchesChainID
<1>3. CASE ReadLatest
  <2>1. \A s \in NewestCompleted(Listed) : s \in Listed /\ Completed(s)
    BY DEF NewestCompleted
  <2>2. latest' # None => latest' \in Listed /\ Completed(latest')
    BY <1>3, <2>1 DEF ReadLatest
  <2>3. UNCHANGED <<list, nets, row>>
    BY <1>3 DEF ReadLatest, table
  <2>4. \A s \in Listed : row[s] # None
    BY <1>0, ListedRow
  <2> QED
    BY <2>2, <2>3, <2>4 DEF LatestListed, Listed, Live, Completed, MatchesChainID
<1>4. CASE \/ \E asked \in AskedLimits : StartWalk(asked)
           \/ CountRows \/ ReadPage \/ EndWalk
           \/ StartUsage \/ CountInFlight \/ CountVisible \/ EndUsage
  BY <1>2, <1>4
     DEF StartWalk, CountRows, ReadPage, EndWalk, StartUsage, CountInFlight, CountVisible, EndUsage
<1>5. CASE UNCHANGED vars
  BY <1>2, <1>5 DEF vars
<1> QED
  BY <1>1, <1>3, <1>4, <1>5 DEF Next

\* Only latest=true changes the answer.
LEMMA LatestChanges ==
    ASSUME Next, latest' # latest
    PROVE  ReadLatest
BY DEF Next, Insert, Finish, Remove, StartWalk, CountRows, ReadPage, EndWalk, StartUsage,
       CountInFlight, CountVisible, EndUsage

\* latest=true never goes back: while its answer is not deleted, a later request
\* answers with the same or a newer completed scan, whatever is inserted with
\* whatever stamps, finished or deleted in between.
THEOREM LatestMovesForward == Spec => LatestForward
<1>1. Init => LatestInv
  BY InitUsage DEF Init, LatestInv, LatestListed, UsageInv
<1>2. LatestInv /\ [Next]_vars =>
        [latest' # latest /\ latest # None /\ Live(latest) =>
            latest' # None /\ Before(latest', latest)]_vars
  <2> SUFFICES ASSUME LatestInv, Next, latest' # latest, latest # None, Live(latest)
               PROVE  latest' # None /\ Before(latest', latest)
    OBVIOUS
  <2>1. ReadLatest /\ TypeOK /\ latest \in Listed /\ Completed(latest)
    BY LatestChanges DEF LatestInv, LatestListed
  <2> DEFINE C == {s \in Listed : Completed(s)}
  <2>2. PICK s \in C : \A t \in C : t = s \/ Before(s, t)
    BY <2>1, FirstRow
  <2>3. NewestCompleted(Listed) # {}
    BY <2>2 DEF NewestCompleted
  <2>4. latest' \in NewestCompleted(Listed)
    BY <2>1, <2>3 DEF ReadLatest
  <2>5. latest' \in Ids /\ Before(latest', latest)
    BY <2>1, <2>4 DEF NewestCompleted, Listed
  <2> QED
    BY <2>5
<1> QED
  BY <1>1, <1>2, NextLatest, PTL DEF Spec, LatestForward
-----------------------------------------------------------------------------
(* Ranks: the rows of a list are numbered from 0 without a gap.            *)

\* The rows ahead of a listed row are fewer than the list.
LEMMA RankType ==
    ASSUME TypeOK, NEW s \in Listed
    PROVE  /\ IsFiniteSet(Ahead(s)) /\ Rank(s) = Cardinality(Ahead(s)) /\ Rank(s) \in Nat
           /\ Rank(s) < Cardinality(Listed)
<1>1. IsFiniteSet(Listed)
  <2>1. Listed \subseteq Ids
    BY DEF Listed
  <2> QED
    BY <2>1, FS_Subset
<1>2. Ahead(s) \subseteq Listed \ {s}
  BY BeforeOrder DEF Ahead
<1>3. IsFiniteSet(Listed \ {s}) /\ Cardinality(Listed \ {s}) = Cardinality(Listed) - 1
  BY <1>1, FS_RemoveElement
<1>4. IsFiniteSet(Ahead(s)) /\ Cardinality(Ahead(s)) <= Cardinality(Listed \ {s})
  BY <1>2, <1>3, FS_Subset
<1>5. Cardinality(Ahead(s)) \in Nat /\ Cardinality(Listed) \in Nat
  BY <1>1, <1>4, FS_CardinalityType
<1>6. Rank(s) = Cardinality(Ahead(s))
  BY DEF Rank, Ahead
<1> QED
  BY <1>3, <1>4, <1>5, <1>6

\* A row listed earlier has a smaller rank, so no two rows share one.
LEMMA RankOrder ==
    ASSUME TypeOK, NEW s \in Listed, NEW t \in Listed
    PROVE  /\ Before(s, t) => Rank(s) < Rank(t)
           /\ Rank(s) = Rank(t) => s = t
<1>1. ASSUME NEW x \in Listed, NEW y \in Listed, Before(x, y)
      PROVE  Rank(x) < Rank(y)
  <2>1. Ahead(x) \subseteq Ahead(y) /\ x \in Ahead(y) /\ x \notin Ahead(x)
    BY <1>1, BeforeOrder DEF Ahead
  <2>2. Cardinality(Ahead(x)) <= Cardinality(Ahead(y))
        /\ Cardinality(Ahead(x)) # Cardinality(Ahead(y))
    BY <2>1, RankType, FS_Subset
  <2> QED
    BY <2>2, RankType
<1>2. Rank(s) \in Nat /\ Rank(t) \in Nat
  BY RankType
<1> QED
  BY <1>1, <1>2, BeforeOrder

\* Every rank below the size of the list is taken.
LEMMA RankDense ==
    ASSUME TypeOK, NEW k \in Nat, k < Cardinality(Listed)
    PROVE  \E s \in Listed : Rank(s) = k
<1> DEFINE n == Cardinality(Listed)
           f == [s \in Listed |-> Rank(s)]
<1>1. IsFiniteSet(Listed) /\ n \in Nat
  <2>1. Listed \subseteq Ids
    BY DEF Listed
  <2> QED
    BY <2>1, FS_Subset, FS_CardinalityType
<1>2. IsFiniteSet(0..(n-1)) /\ Cardinality(0..(n-1)) = n
  <2> HIDE DEF n
  <2>1. 0 \in Int /\ n - 1 \in Int
    BY <1>1
  <2>2. /\ IsFiniteSet(0..(n-1))
        /\ Cardinality(0..(n-1)) = IF 0 > n - 1 THEN 0 ELSE n - 1 - 0 + 1
    BY <2>1, FS_Interval
  <2> QED
    BY <1>1, <2>2
<1>3. f \in Injection(Listed, 0..(n-1))
  <2>1. f \in [Listed -> 0..(n-1)]
    BY <1>1, RankType
  <2>2. \A a, b \in Listed : f[a] = f[b] => a = b
    BY RankOrder
  <2> HIDE DEF f
  <2> QED
    BY <2>1, <2>2, Fun_IsInj
<1>4. f \in Surjection(Listed, 0..(n-1))
  <2> HIDE DEF f
  <2> QED
    BY <1>1, <1>2, <1>3, FS_Injection
<1>5. \A y \in 0..(n-1) : \E s \in Listed : f[s] = y
  <2> HIDE DEF f
  <2> QED
    BY <1>4, Fun_SurjectionProperties
<1>6. k \in 0..(n-1)
  BY <1>1
<1> QED
  BY <1>5, <1>6

\* A page with less rows than its limit is the end of the list.
LEMMA ShortPage ==
    ASSUME TypeOK, Cardinality(Page(limit, offset)) < limit, NEW s \in Listed
    PROVE  Rank(s) < offset + limit
<1> SUFFICES ASSUME offset + limit <= Rank(s)
             PROVE  FALSE
  BY RankType DEF TypeOK
<1> DEFINE P == Page(limit, offset)
           I == offset..(offset + limit - 1)
           f == [t \in P |-> Rank(t)]
<1>1. P \subseteq Listed /\ \A t \in P : Rank(t) \in I
  BY RankType DEF Page, TypeOK
<1>2. \A k \in I : \E t \in P : Rank(t) = k
  <2> SUFFICES ASSUME NEW k \in I
               PROVE  \E t \in P : Rank(t) = k
    OBVIOUS
  <2>1. k \in Nat /\ k < Cardinality(Listed)
    <3>1. Cardinality(Listed) \in Nat /\ Rank(s) \in Nat /\ Rank(s) < Cardinality(Listed)
      BY RankType, ListedCount
    <3> QED
      BY <3>1 DEF TypeOK
  <2>2. PICK t \in Listed : Rank(t) = k
    BY <2>1, RankDense
  <2>3. t \in P
    BY <2>2 DEF Page, TypeOK
  <2> QED
    BY <2>2, <2>3
<1>3. f \in Surjection(P, I)
  <2>1. f \in [P -> I] /\ \A k \in I : \E t \in P : f[t] = k
    BY <1>1, <1>2
  <2> HIDE DEF f, P, I
  <2> QED
    BY <2>1, Fun_IsSurj
<1>4. IsFiniteSet(P)
  <2>1. P \subseteq Ids
    BY <1>1 DEF Listed
  <2> QED
    BY <2>1, FS_Subset
<1>5. Cardinality(I) <= Cardinality(P)
  <2> HIDE DEF f, P, I
  <2> QED
    BY <1>3, <1>4, FS_Surjection
<1>6. Cardinality(I) = limit
  BY FS_Interval DEF TypeOK
<1>7. Cardinality(P) \in Nat
  BY <1>4, FS_CardinalityType
<1> QED
  BY <1>5, <1>6, <1>7 DEF TypeOK
-----------------------------------------------------------------------------
(* A walk by offset.                                                       *)

\* Rows of the walk that its pages have gone past without showing them.
Passed == {s \in (start \intersect Listed) \ seen : Rank(s) < offset}

\* What the walk began with is stored, and stays in a filtered list until it is
\* deleted; at most one row per delete has slipped past.
WalkKept ==
    /\ rd \in {"count", "page", "walked"} =>
          \A s \in start : row[s] # None /\ (list = "chain" => row[s].status = "SUCCESS")
    /\ rd \in {"count", "page"} => Cardinality(Passed) <= removed

WalkInv == TypeOK /\ WalkKept /\ WalkComplete

\* A set of rows is finite.
LEMMA RowsFinite ==
    ASSUME NEW S \in SUBSET Ids, NEW T \in SUBSET S
    PROVE  /\ IsFiniteSet(S) /\ IsFiniteSet(T)
           /\ Cardinality(S) \in Nat /\ Cardinality(T) \in Nat
           /\ Cardinality(T) <= Cardinality(S)
<1>1. IsFiniteSet(S)
  BY FS_Subset
<1> QED
  BY <1>1, FS_Subset, FS_CardinalityType

\* A row that is there keeps its place relative to the others, whatever is
\* written.
LEMMA OrderKept ==
    ASSUME TypeOK, NEW x \in Ids,
           \/ \E at \in Times : Insert(x, at)
           \/ Finish(x, "SUCCESS") \/ Finish(x, "FAILED") \/ Remove(x),
           NEW s \in Ids, NEW t \in Ids, row[s] # None, row[t] # None
    PROVE  Before(s, t)' <=> Before(s, t)
<1>1. row'[s].at = row[s].at /\ row'[t].at = row[t].at /\ list' = list
  BY WritersKeep DEF Insert, Finish, Remove
<1> QED
  BY <1>1 DEF Before

\* Inserts and outcomes hide no listed row and only push rows back.
LEMMA WriteRanks ==
    ASSUME TypeOK, TypeOK', NEW x \in Ids,
           \/ \E at \in Times : Insert(x, at)
           \/ Finish(x, "SUCCESS") \/ Finish(x, "FAILED")
    PROVE  /\ Listed \subseteq Listed'
           /\ \A s \in Listed : Rank(s) <= Rank(s)'
<1>0. UNCHANGED <<list, nets>>
  BY DEF Insert, Finish
<1>1. Listed \subseteq Listed'
  <2> SUFFICES ASSUME NEW s \in Listed
               PROVE  s \in Listed'
    OBVIOUS
  <2>1. /\ s \in Ids /\ row[s] \in Row /\ row[s] # None /\ ~row[s].deleted
        /\ row'[s] # None
        /\ row[s].status = "SUCCESS" => row'[s].status = "SUCCESS"
    BY ListedRow, WritersKeep DEF Live
  <2>2. ~row'[s].deleted
    <3>1. CASE s # x \/ \E at \in Times : Insert(x, at)
      <4>1. row'[s] = row[s]
        BY <2>1, <3>1 DEF TypeOK, Insert, Finish
      <4> QED
        BY <2>1, <4>1
    <3>2. ASSUME s = x, NEW outcome \in {"SUCCESS", "FAILED"}, Finish(x, outcome)
          PROVE  ~row'[s].deleted
      <4>1. row'[s] = [row[s] EXCEPT !.status = outcome]
        BY <3>2 DEF TypeOK, Finish
      <4> QED
        BY <2>1, <4>1 DEF Row
    <3> QED
      BY <3>1, <3>2
  <2> QED
    BY <1>0, <2>1, <2>2 DEF Listed, Live, MatchesChainID
<1>2. ASSUME NEW s \in Listed
      PROVE  Rank(s) <= Rank(s)'
  <2>1. Ahead(s) \subseteq Ahead(s)'
    <3> SUFFICES ASSUME NEW t \in Ahead(s)
                 PROVE  t \in Ahead(s)'
      OBVIOUS
    <3>1. t \in Listed /\ t \in Listed' /\ Before(t, s)
      BY <1>1 DEF Ahead
    <3>2. Before(t, s)'
      BY <3>1, ListedRow, OrderKept
    <3> QED
      BY <3>1, <3>2 DEF Ahead
  <2>2. Ahead(s)' \in SUBSET Ids
    BY DEF Ahead, Listed
  <2>3. Cardinality(Ahead(s)) <= Cardinality(Ahead(s)')
    BY <2>1, <2>2, RowsFinite
  <2> QED
    BY <2>3 DEF Rank, Ahead
<1> QED
  BY <1>1, <1>2

\* A delete takes its row out and moves each row at most one place forward.
LEMMA RemoveRanks ==
    ASSUME TypeOK, TypeOK', NEW x \in Ids, Remove(x)
    PROVE  /\ Listed' = Listed \ {x}
           /\ \A s \in Listed' :
                /\ Rank(s) <= Rank(s)' + 1
                /\ x \notin Listed => Rank(s) <= Rank(s)'
<1>0. UNCHANGED <<list, nets>> /\ row[x] # None
  BY DEF Remove, Live
<1>1. \A s \in Ids : s # x => row'[s] = row[s]
  BY DEF TypeOK, Remove
<1>2. row'[x].deleted
  <2>1. row[x] \in Row /\ row'[x] = [row[x] EXCEPT !.deleted = TRUE]
    BY <1>0 DEF TypeOK, Remove
  <2> QED
    BY <2>1 DEF Row
<1>3. Listed' = Listed \ {x}
  BY <1>0, <1>1, <1>2 DEF Listed, Live, MatchesChainID
<1>4. ASSUME NEW s \in Listed'
      PROVE  /\ Rank(s) <= Rank(s)' + 1
             /\ x \notin Listed => Rank(s) <= Rank(s)'
  <2>1. Ahead(s)' = Ahead(s) \ {x}
    <3>1. \A t \in Listed' : Before(t, s)' <=> Before(t, s)
      BY <1>3, <1>4, ListedRow, OrderKept
    <3> QED
      BY <1>3, <3>1 DEF Ahead
  <2>2. Ahead(s) \in SUBSET Ids
    BY DEF Ahead, Listed
  <2>3. IsFiniteSet(Ahead(s)) /\ Cardinality(Ahead(s)) \in Nat
    BY <2>2, RowsFinite
  <2>4. Cardinality(Ahead(s)') =
          IF x \in Ahead(s) THEN Cardinality(Ahead(s)) - 1 ELSE Cardinality(Ahead(s))
    BY <2>1, <2>3, FS_RemoveElement
  <2>5. x \in Ahead(s) => x \in Listed
    BY DEF Ahead
  <2>6. Rank(s) = Cardinality(Ahead(s)) /\ Rank(s)' = Cardinality(Ahead(s)')
    BY DEF Rank, Ahead
  <2> QED
    BY <2>3, <2>4, <2>5, <2>6
<1> QED
  BY <1>3, <1>4

\* The walk's own rows, while they are not deleted, stay listed and no other row
\* takes part in it.
LEMMA StartKept ==
    ASSUME WalkInv, rd \in {"count", "page", "walked"}, NEW x \in Ids,
           \/ \E at \in Times : Insert(x, at)
           \/ Finish(x, "SUCCESS") \/ Finish(x, "FAILED") \/ Remove(x)
    PROVE  /\ \A s \in start :
                 row'[s] # None /\ (list = "chain" => row'[s].status = "SUCCESS")
           /\ start \intersect Listed' \subseteq start \intersect Listed
<1>0. /\ TypeOK /\ start \subseteq Ids /\ UNCHANGED <<list, nets>>
      /\ \A s \in start : row[s] # None /\ (list = "chain" => row[s].status = "SUCCESS")
  BY DEF WalkInv, WalkKept, TypeOK, Insert, Finish, Remove
<1>1. \A s \in start : row'[s] # None /\ (list = "chain" => row'[s].status = "SUCCESS")
  BY <1>0, WritersKeep
<1>2. ASSUME NEW s \in start, s \in Listed'
      PROVE  s \in Listed
  <2>1. ~row[s].deleted
    BY <1>0, <1>2, WritersKeep DEF Listed, Live
  <2> QED
    BY <1>0, <1>2, <2>1 DEF Listed, Live, MatchesChainID
<1> QED
  BY <1>1, <1>2

\* A writer lets at most the row that it deletes a place for slip past a walk.
LEMMA WriterWalk ==
    ASSUME WalkInv, TypeOK', NEW x \in Ids,
           \/ \E at \in Times : Insert(x, at)
           \/ Finish(x, "SUCCESS") \/ Finish(x, "FAILED") \/ Remove(x)
    PROVE  WalkKept' /\ WalkComplete'
<1>0. /\ TypeOK /\ UNCHANGED <<list, nets, rd, walk, start>>
      /\ start \subseteq Ids /\ offset \in Nat /\ removed \in Nat /\ removed' \in Nat
  BY DEF WalkInv, TypeOK, Insert, Finish, Remove
<1>1. CASE rd \notin {"count", "page", "walked"}
  BY <1>0, <1>1 DEF WalkKept, WalkComplete
<1>2. CASE rd = "walked"
  <2>1. /\ \A s \in start :
             row'[s] # None /\ (list = "chain" => row'[s].status = "SUCCESS")
        /\ start \intersect Listed' \subseteq start \intersect Listed
    BY <1>2, StartKept
  <2>2. removed' = removed
    BY <1>2 DEF Insert, Finish, Remove
  <2> DEFINE A == (start \intersect Listed) \ seen
             B == (start \intersect Listed') \ seen
  <2>3. A \in SUBSET Ids /\ B \in SUBSET A
    BY <1>0, <2>1
  <2>4. Cardinality(B) <= Cardinality(A) /\ Cardinality(A) \in Nat /\ Cardinality(B) \in Nat
    BY <2>3, RowsFinite
  <2>5. Cardinality(A) <= removed
    BY <1>2 DEF WalkInv, WalkComplete
  <2>6. Cardinality(B) <= removed
    BY <1>0, <2>4, <2>5
  <2> QED
    BY <1>0, <1>2, <2>1, <2>2, <2>6 DEF WalkKept, WalkComplete, walk
<1>3. CASE rd \in {"count", "page"}
  <2>1. /\ \A s \in start :
             row'[s] # None /\ (list = "chain" => row'[s].status = "SUCCESS")
        /\ start \intersect Listed' \subseteq start \intersect Listed
    BY <1>3, StartKept
  <2>2. /\ Passed \in SUBSET Ids /\ Cardinality(Passed) \in Nat /\ IsFiniteSet(Passed)
        /\ Cardinality(Passed) <= removed
    <3>1. Passed \in SUBSET Ids
      BY <1>0 DEF Passed
    <3> QED
      BY <1>3, <3>1, RowsFinite DEF WalkInv, WalkKept
  <2>3. \A s \in Passed' : /\ s \in Listed /\ s \in Listed' /\ s \in start /\ s \notin seen
                           /\ Rank(s)' < offset
    BY <1>0, <2>1 DEF Passed, walk
  <2>4. \A s \in Listed : Rank(s) \in Nat
    BY <1>0, RankType
  <2>5. \A s \in Listed' : Rank(s)' \in Nat
    <3>1. \A s \in Listed' : Ahead(s)' \in SUBSET Ids
      BY DEF Ahead, Listed
    <3>2. \A s \in Listed' : Cardinality(Ahead(s)') \in Nat
      BY <3>1, RowsFinite
    <3> QED
      BY <3>2 DEF Rank, Ahead
  <2>6. CASE removed' = removed /\ \A s \in Passed' : Rank(s) <= Rank(s)'
    <3>1. Passed' \subseteq Passed
      <4> SUFFICES ASSUME NEW s \in Passed'
                   PROVE  s \in Passed
        OBVIOUS
      <4>1. Rank(s) < offset
        BY <1>0, <2>3, <2>4, <2>5, <2>6
      <4> QED
        BY <2>3, <4>1 DEF Passed
    <3>2. Cardinality(Passed') <= Cardinality(Passed) /\ Cardinality(Passed') \in Nat
      BY <2>2, <3>1, RowsFinite
    <3> QED
      BY <1>0, <1>3, <2>1, <2>2, <2>6, <3>2 DEF WalkKept, WalkComplete
  <2>7. CASE \/ \E at \in Times : Insert(x, at)
             \/ Finish(x, "SUCCESS") \/ Finish(x, "FAILED")
    <3>1. removed' = removed
      BY <2>7 DEF Insert, Finish
    <3>2. \A s \in Passed' : Rank(s) <= Rank(s)'
      BY <1>0, <2>3, <2>7, WriteRanks
    <3> QED
      BY <2>6, <3>1, <3>2
  <2>8. CASE Remove(x) /\ x \notin Listed
    <3>1. removed' = removed
      BY <2>8 DEF Remove
    <3>2. \A s \in Passed' : Rank(s) <= Rank(s)'
      BY <1>0, <2>3, <2>8, RemoveRanks
    <3> QED
      BY <2>6, <3>1, <3>2
  <2>9. CASE Remove(x) /\ x \in Listed
    <3>1. removed' = removed + 1
      BY <1>3, <2>9 DEF Remove
    <3>2. \A s \in Passed' : s \in Passed \/ Rank(s) = offset
      <4>1. \A s \in Passed' : Rank(s) <= Rank(s)' + 1
        BY <1>0, <2>3, <2>9, RemoveRanks
      <4> QED
        BY <1>0, <2>3, <2>4, <2>5, <4>1 DEF Passed
    <3>3. PICK z : \A s \in Passed' : s \in Passed \/ s = z
      <4>1. CASE Passed' \subseteq Passed
        BY <4>1
      <4>2. CASE \E z \in Passed' : z \notin Passed
        <5>1. PICK z \in Passed' : z \notin Passed
          BY <4>2
        <5>2. Rank(z) = offset /\ z \in Listed
          BY <2>3, <3>2, <5>1
        <5>3. \A s \in Passed' : s \in Passed \/ s = z
          BY <1>0, <2>3, <3>2, <5>2, RankOrder
        <5> QED
          BY <5>3
      <4> QED
        BY <4>1, <4>2
    <3>4. /\ IsFiniteSet(Passed \union {z})
          /\ Cardinality(Passed \union {z}) \in Nat
          /\ Cardinality(Passed \union {z}) <= removed + 1
      <4>1. IsFiniteSet(Passed \union {z}) /\ Cardinality(Passed \union {z}) =
              IF z \in Passed THEN Cardinality(Passed) ELSE Cardinality(Passed) + 1
        BY <2>2, FS_AddElement
      <4> QED
        BY <1>0, <2>2, <4>1
    <3>5. Passed' \in SUBSET (Passed \union {z})
      BY <3>3
    <3>6. Cardinality(Passed') <= Cardinality(Passed \union {z}) /\ Cardinality(Passed') \in Nat
      BY <3>4, <3>5, FS_Subset, FS_CardinalityType
    <3> QED
      BY <1>0, <1>3, <2>1, <3>1, <3>4, <3>6 DEF WalkKept, WalkComplete
  <2> QED
    BY <2>7, <2>8, <2>9
<1> QED
  BY <1>1, <1>2, <1>3

\* A page goes past no row that it does not show, and a short one shows the rest
\* of the list.
LEMMA PageWalk ==
    ASSUME WalkInv, ~StopByTotal, ReadPage
    PROVE  WalkKept' /\ WalkComplete'
<1>0. /\ TypeOK /\ rd = "page" /\ UNCHANGED <<list, nets, row, start, removed>>
      /\ seen' = seen \union Page(limit, offset)
      /\ start \subseteq Ids /\ offset \in Nat /\ limit \in Nat /\ removed \in Nat
  BY DEF WalkInv, TypeOK, ReadPage, table
<1>1. Listed' = Listed /\ \A s : Rank(s)' = Rank(s)
  BY <1>0 DEF Listed, Live, MatchesChainID, Rank, Before
<1>2. /\ Passed \in SUBSET Ids /\ Cardinality(Passed) \in Nat /\ Cardinality(Passed) <= removed
  <2>1. Passed \in SUBSET Ids
    BY <1>0 DEF Passed
  <2> QED
    BY <1>0, <2>1, RowsFinite DEF WalkInv, WalkKept
<1>3. \A s \in Listed \ seen' : Rank(s) < offset + limit => Rank(s) < offset
  BY <1>0, RankType DEF Page
<1>4. \A S : S \subseteq Passed => Cardinality(S) <= removed
  <2> SUFFICES ASSUME NEW S, S \subseteq Passed
               PROVE  Cardinality(S) <= removed
    OBVIOUS
  <2>1. Cardinality(S) <= Cardinality(Passed) /\ Cardinality(S) \in Nat
    BY <1>2, RowsFinite
  <2> QED
    BY <1>0, <1>2, <2>1
<1>5. \A s \in start : row'[s] # None /\ (list' = "chain" => row'[s].status = "SUCCESS")
  BY <1>0 DEF WalkInv, WalkKept
<1>6. CASE Last(Page(limit, offset))
  <2>1. rd' = "walked"
    BY <1>6 DEF ReadPage
  <2>2. \A s \in Listed : Rank(s) < offset + limit
    BY <1>0, <1>6, ShortPage DEF Last
  <2>3. (start' \intersect Listed') \ seen' \subseteq Passed
    BY <1>0, <1>1, <1>3, <2>2 DEF Passed
  <2>4. Cardinality((start' \intersect Listed') \ seen') <= removed
    BY <1>4, <2>3
  <2> QED
    BY <1>0, <1>5, <2>1, <2>4 DEF WalkKept, WalkComplete
<1>7. CASE ~Last(Page(limit, offset))
  <2>1. rd' \in {"count", "page"} /\ offset' = offset + limit
    BY <1>7 DEF ReadPage, FirstStatement
  <2>2. Passed' \subseteq Passed
    BY <1>0, <1>1, <1>3, <2>1 DEF Passed
  <2>3. Cardinality(Passed') <= removed
    BY <1>4, <2>2
  <2> QED
    BY <1>0, <1>5, <2>1, <2>3 DEF WalkKept, WalkComplete
<1> QED
  BY <1>6, <1>7

\* WalkInv is inductive for a client that stops at a short page.
LEMMA NextWalk ==
    ASSUME ~StopByTotal, WalkInv, [Next]_vars
    PROVE  WalkInv'
<1>0. TypeOK /\ TypeOK'
  BY NextReadsType DEF WalkInv
<1> SUFFICES WalkKept' /\ WalkComplete'
  BY <1>0 DEF WalkInv
<1>1. ASSUME NEW s \in Ids,
             \/ \E at \in Times : Insert(s, at)
             \/ Finish(s, "SUCCESS") \/ Finish(s, "FAILED") \/ Remove(s)
      PROVE  WalkKept' /\ WalkComplete'
  BY <1>0, <1>1, WriterWalk
<1>2. ASSUME NEW asked \in AskedLimits, StartWalk(asked)
      PROVE  WalkKept' /\ WalkComplete'
  <2>1. /\ rd' \in {"count", "page"} /\ offset' = 0 /\ start' = Listed /\ removed' = 0
        /\ UNCHANGED <<list, nets, row>>
    BY <1>2 DEF StartWalk, FirstStatement, table
  <2>2. Listed' = Listed /\ \A s : Rank(s)' = Rank(s)
    BY <2>1 DEF Listed, Live, MatchesChainID, Rank, Before
  <2>3. Passed' = {}
    BY <1>0, <2>1, <2>2, RankType DEF Passed
  <2>4. Cardinality(Passed') <= removed'
    BY <2>1, <2>3, FS_EmptySet
  <2>5. \A s \in start' : row'[s] # None /\ (list' = "chain" => row'[s].status = "SUCCESS")
    BY <2>1 DEF Listed, Live
  <2> QED
    BY <2>1, <2>4, <2>5 DEF WalkKept, WalkComplete
<1>3. CASE ReadPage
  BY <1>3, PageWalk
<1>4. ASSUME rd' \notin {"count", "page", "walked"}
      PROVE  WalkKept' /\ WalkComplete'
  BY <1>4 DEF WalkKept, WalkComplete
<1>5. CASE EndWalk \/ StartUsage \/ CountInFlight \/ CountVisible \/ EndUsage \/ ReadLatest
  BY <1>4, <1>5 DEF EndWalk, StartUsage, CountInFlight, CountVisible, EndUsage, ReadLatest,
     AfterStart, AfterCount
<1>6. ASSUME UNCHANGED <<list, nets, row, offset, seen, start, removed>>,
             rd' = rd \/ (rd = "count" /\ rd' = "page")
      PROVE  WalkKept' /\ WalkComplete'
  <2>1. Listed' = Listed /\ \A s : Rank(s)' = Rank(s)
    BY <1>6 DEF Listed, Live, MatchesChainID, Rank, Before
  <2>2. Passed' = Passed
    BY <1>6, <2>1 DEF Passed
  <2> QED
    BY <1>6, <2>1, <2>2 DEF WalkInv, WalkKept, WalkComplete
<1>7. CASE CountRows
  BY <1>6, <1>7 DEF CountRows, table
<1>8. CASE UNCHANGED vars
  BY <1>6, <1>8 DEF vars, table, walk
<1> QED
  BY <1>1, <1>2, <1>3, <1>5, <1>7, <1>8 DEF Next

\* A client that pages by offset and stops at a short page has been shown every
\* row that was listed from its first request to its last one, but for at most
\* one row per delete: inserts with any stamp and outcomes never hide a row, for
\* any list, order and limits.
THEOREM WalksMissNothing ==
    ASSUME ~StopByTotal
    PROVE  Spec => []WalkComplete
<1>1. Init => WalkInv
  BY InitUsage DEF Init, WalkInv, WalkKept, WalkComplete, UsageInv
<1>2. WalkInv /\ [Next]_vars => WalkInv'
  BY NextWalk
<1> QED
  BY <1>1, <1>2, PTL DEF Spec, WalkInv
-----------------------------------------------------------------------------
(* The chains of wallet.observed and the chain filter.                     *)

\* A network name stands for a chain.
HasChain(n) == ChainOf[n] # 0 \/ NumberOf[n] # 0

\* Names of chains are not told apart by blanks alone, and a configured name
\* that is a number is the number of its own chain.
PlainNames ==
    /\ \A N \in NetSets : IsFiniteSet(N)
    /\ \A N \in NetSets : \A m, n \in N : HasChain(m) /\ HasChain(n) =>
          /\ Trimmed[n] # ""
          /\ Trimmed[m] = Trimmed[n] => m = n
    /\ \A N \in NetSets : \A n \in N :
          ChainOf[n] # 0 /\ NumberOf[n] # 0 => ChainOf[n] = NumberOf[n]

\* A set without two different elements has at most one.
LEMMA AtMostOne ==
    ASSUME NEW S, \A a, b \in S : a = b
    PROVE  Cardinality(S) <= 1
<1>1. CASE S = {}
  BY <1>1, FS_EmptySet
<1>2. CASE S # {}
  <2>1. PICK a \in S : S = {a}
    BY <1>2
  <2>2. Cardinality(S) = 1
    BY <2>1, FS_Singleton
  <2> QED
    BY <2>2
<1> QED
  BY <1>1, <1>2

\* The only size between none and two is one.
LEMMA OnlyOne == \A k \in Nat : ~(k > 1) /\ k # 0 => k = 1
  OBVIOUS

\* Two different trimmed names make a result multichain.
LEMMA OneName ==
    ASSUME NEW N, IsFiniteSet(N), ~IsMultichain(N), NEW m \in N, NEW n \in N,
           Trimmed[m] # "", Trimmed[n] # ""
    PROVE  Trimmed[m] = Trimmed[n]
<1> DEFINE T == {Trimmed[x] : x \in N}
           f == [x \in N |-> Trimmed[x]]
           Y == T \ {""}
<1>1. IsFiniteSet(T)
  <2>1. f \in [N -> T] /\ \A y \in T : \E x \in N : f[x] = y
    OBVIOUS
  <2> HIDE DEF f, T
  <2>2. f \in Surjection(N, T)
    BY <2>1, Fun_IsSurj
  <2> QED
    BY <2>2, FS_Surjection
<1>2. IsFiniteSet(Y) /\ Cardinality(Y) \in Nat
  <2> HIDE DEF T
  <2> QED
    BY <1>1, FS_RemoveElement, FS_CardinalityType
<1>3. ~(Cardinality(Y) > 1)
  BY DEF IsMultichain
<1>4. Trimmed[m] \in Y /\ Trimmed[n] \in Y
  OBVIOUS
<1> HIDE DEF Y
<1>5. Cardinality(Y) = 1
  <2>1. Cardinality(Y) # 0
    BY <1>2, <1>4, FS_EmptySet
  <2> QED
    BY <1>2, <1>3, <2>1, OnlyOne, Zenon
<1>6. PICK y : Y = {y}
  BY <1>2, <1>5, FS_Singleton
<1> QED
  BY <1>4, <1>6

\* Every chain announced for a result finds its row in the filtered list, and a
\* result announced as single-chain is found under one chain only, for any
\* configuration whose names differ by more than blanks.
THEOREM AnnouncedChainsFound ==
    ASSUME PlainNames
    PROVE  Spec => []ObservedChainsListed
<1>1. TypeOK => ObservedChainsListed
  <2> SUFFICES ASSUME TypeOK, NEW s \in Ids
               PROVE  LET found == {c \in {ChainOf[n] : n \in nets[s]}
                                            \union {NumberOf[n] : n \in nets[s]} :
                                       c # 0 /\ MatchesChainID(nets[s], c)}
                      IN  /\ ResolveChainIDs(nets[s]) \subseteq found
                          /\ IsMultichain(nets[s]) \/ Cardinality(found) <= 1
    BY DEF ObservedChainsListed
  <2> DEFINE N == nets[s]
             found == {c \in {ChainOf[n] : n \in N} \union {NumberOf[n] : n \in N} :
                         c # 0 /\ MatchesChainID(N, c)}
  <2>1. ResolveChainIDs(N) \subseteq found
    BY DEF ResolveChainIDs, MatchesChainID
  <2>2. ASSUME ~IsMultichain(N)
        PROVE  Cardinality(found) <= 1
    <3>1. N \in NetSets \/ N = {}
      BY DEF TypeOK
    <3>2. IsFiniteSet(N)
      BY <3>1, FS_EmptySet DEF PlainNames
    <3>3. ASSUME NEW c \in found
          PROVE  \E n \in N : HasChain(n) /\ (ChainOf[n] = c \/ NumberOf[n] = c)
      BY DEF MatchesChainID, HasChain
    <3>4. ASSUME NEW m \in N, NEW n \in N, HasChain(m), HasChain(n)
          PROVE  m = n
      <4>1. N \in NetSets
        BY <3>1, <3>4
      <4>2. /\ Trimmed[m] # "" /\ Trimmed[n] # ""
            /\ Trimmed[m] = Trimmed[n] => m = n
        BY <3>4, <4>1 DEF PlainNames
      <4>3. Trimmed[m] = Trimmed[n]
        <5> HIDE DEF N, found
        <5> QED
          BY <2>2, <3>2, <3>4, <4>2, OneName, Zenon
      <4> QED
        BY <4>2, <4>3
    <3>5. ASSUME NEW c \in found, NEW d \in found
          PROVE  c = d
      <4>1. PICK m \in N : HasChain(m) /\ (ChainOf[m] = c \/ NumberOf[m] = c)
        BY <3>3
      <4>2. PICK n \in N : HasChain(n) /\ (ChainOf[n] = d \/ NumberOf[n] = d)
        BY <3>3
      <4>3. m = n /\ c # 0 /\ d # 0
        BY <3>4, <4>1, <4>2
      <4> QED
        BY <3>1, <4>1, <4>2, <4>3 DEF PlainNames
    <3> HIDE DEF found
    <3> QED
      BY <3>5, AtMostOne
  <2> QED
    BY <2>1, <2>2
<1> QED
  BY <1>1, ReadsTypeCorrect, PTL
=============================================================================
