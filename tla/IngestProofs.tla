---------------------------- MODULE IngestProofs ----------------------------
(***************************************************************************)
(* Proofs about Ingest, for any number of requests, websites, projects and *)
(* events, any quota and any schema the database starts from.              *)
(***************************************************************************)
EXTENDS Ingest, FiniteSetTheorems, TLAPS

(* Any set of events is finite, so it can be counted.                      *)
LEMMA EventsFinite ==
  ASSUME NEW E \in SUBSET Events
  PROVE  IsFiniteSet(E) /\ Cardinality(E) \in Nat
BY EventsAssumption, FS_Subset, FS_CardinalityType

(* Selecting the events that count towards a metric selects events.        *)
LEMMA CountingType ==
  ASSUME NEW E \in SUBSET Events, NEW m
  PROVE  /\ Counting(E, m) \in SUBSET Events
         /\ Cardinality(Counting(E, m)) \in Nat
BY EventsFinite DEF Counting, OfKind

(* Counting a set of events in some metrics keeps the counters naturals.   *)
LEMMA AddType ==
  ASSUME TypeOK, NEW s \in Sources, NEW E \in SUBSET Events, NEW M
  PROVE  Add(s, E, M) \in [Sources -> [Metrics -> Nat]]
<1>1. ASSUME NEW m \in Metrics
      PROVE  tally[s][m] + Cardinality(Counting(E, m)) \in Nat
  <2>1. Cardinality(Counting(E, m)) \in Nat
    BY CountingType
  <2>2. tally[s][m] \in Nat
    BY DEF TypeOK
  <2> QED BY <2>1, <2>2
<1> QED BY <1>1 DEF Add, TypeOK

(* The second of a handler is one of the clock, its day one of the days.   *)
LEMMA DayType == ASSUME NEW t \in Seconds PROVE Day(t) \in Days
BY DEF Days

LEMMA InitType == Init => TypeOK
BY SourcesAssumption, NonceAssumption, ClockAssumption
DEF Init, TypeOK, Steps, Results, Seconds, CurrentSchema

(***************************************************************************)
(* Type correctness.                                                       *)
(***************************************************************************)
LEMMA NextType == TypeOK /\ [Next]_vars => TypeOK'
<1> SUFFICES ASSUME TypeOK, [Next]_vars PROVE TypeOK'
  OBVIOUS
<1> USE DEF world, quotas, legacy, counts, Untouched, Goto, Answer, Steps, Results
<1>1. ASSUME NEW r \in Requests, Refuse(r) PROVE TypeOK'
  BY <1>1 DEF Refuse, TypeOK
<1>2. ASSUME NEW r \in Requests, Exclude(r) PROVE TypeOK'
  <2>1. Cardinality(batch[r]) \in Nat
    BY EventsFinite DEF TypeOK
  <2>2. excluded' \in [Sources -> Nat]
    <3>1. CASE excluded' = [excluded EXCEPT ![src[r]] = @ + Cardinality(batch[r])]
      BY <3>1, <2>1 DEF TypeOK
    <3>2. CASE UNCHANGED excluded
      BY <3>2 DEF TypeOK
    <3> QED BY <1>2, <3>1, <3>2 DEF Exclude
  <2> QED BY <1>2, <2>2 DEF Exclude, TypeOK
<1>3. ASSUME NEW r \in Requests, Admit(r) PROVE TypeOK'
  BY <1>3 DEF Admit, TypeOK
<1>4. ASSUME NEW r \in Requests, ReserveSecond(r) PROVE TypeOK'
  <2>1. Cardinality(batch[r]) \in Nat
    BY EventsFinite DEF TypeOK
  <2> QED BY <1>4, <2>1 DEF ReserveSecond, TypeOK
<1>5. ASSUME NEW r \in Requests, ReserveDay(r) PROVE TypeOK'
  <2>1. Cardinality(batch[r]) \in Nat
    BY EventsFinite DEF TypeOK
  <2>2. Day(at[r]) \in Days
    BY DayType DEF TypeOK
  <2> QED BY <1>5, <2>1, <2>2 DEF ReserveDay, TypeOK
<1>6. ASSUME NEW r \in Requests, RefuseQuota(r) PROVE TypeOK'
  BY <1>6 DEF RefuseQuota, TypeOK
<1>7. ASSUME NEW r \in Requests, PutObject(r) PROVE TypeOK'
  BY <1>7 DEF PutObject, OfKind, TypeOK
<1>8. ASSUME NEW r \in Requests, RollupEvent(r) PROVE TypeOK'
  <2>1. rollups' \in [Sources -> Nat]
    BY <1>8 DEF RollupEvent, TypeOK
  <2>2. todo' \in [Requests -> SUBSET Events]
    BY <1>8 DEF RollupEvent, EventDone, TypeOK
  <2>3. pc' \in [Requests -> Steps] /\ UNCHANGED result
    BY <1>8 DEF RollupEvent, EventDone, TypeOK
  <2> QED BY <1>8, <2>1, <2>2, <2>3 DEF RollupEvent, TypeOK
<1>9. ASSUME NEW r \in Requests, RollupHour(r) PROVE TypeOK'
  BY <1>9 DEF RollupHour, EventDone, TypeOK
<1>10. ASSUME NEW r \in Requests, MainBatch(r) PROVE TypeOK'
  <2> DEFINE rows == Inserted(r)
  <2>1. /\ rows \in [Events -> Requests \cup {Absent, Released}]
        /\ Release(rows, r) \in [Events -> Requests \cup {Absent, Released}]
    BY SourcesAssumption DEF Inserted, Release, Project, TypeOK
  <2>2. Mine(rows, r) \in SUBSET Events
    BY DEF Mine, TypeOK
  <2>3. tally' \in [Sources -> [Metrics -> Nat]]
    BY <1>10, <2>2, AddType DEF MainBatch, TypeOK
  <2>4. ledger' \in [Projects -> [Events -> Requests \cup {Absent, Released}]]
    BY <1>10, <2>1, SourcesAssumption DEF MainBatch, Project, TypeOK
  <2> QED BY <1>10, <2>2, <2>3, <2>4 DEF MainBatch, AfterMain, TypeOK
<1>11. ASSUME NEW r \in Requests, MainBatchMissingTable(r) PROVE TypeOK'
  BY <1>11 DEF MainBatchMissingTable, TypeOK
<1>12. ASSUME NEW r \in Requests, NEW m \in LateMetrics, NEW needs,
              LateBatch(r, m, needs)
       PROVE  /\ tally' \in [Sources -> [Metrics -> Nat]]
              /\ late' \in [Requests -> SUBSET LateMetrics]
  <2>1. Mine(ledger[Project(r)], r) \in SUBSET Events
    BY DEF Mine, TypeOK
  <2>2. Add(src[r], Mine(ledger[Project(r)], r), {m}) \in [Sources -> [Metrics -> Nat]]
    BY <2>1, AddType DEF TypeOK
  <2>3. CASE schema >= needs
    <3>1. /\ tally' = Add(src[r], Mine(ledger[Project(r)], r), {m})
          /\ late' = [late EXCEPT ![r] = @ \cup {m}]
      BY <1>12, <2>3 DEF LateBatch
    <3>2. late' \in [Requests -> SUBSET LateMetrics]
      BY <3>1 DEF TypeOK
    <3> QED BY <3>1, <3>2, <2>2
  <2>4. CASE ~(schema >= needs)
    BY <1>12, <2>4 DEF LateBatch, TypeOK
  <2> QED BY <2>3, <2>4
<1>13. ASSUME NEW r \in Requests, CampaignBatch(r) PROVE TypeOK'
  <2>1. /\ tally' \in [Sources -> [Metrics -> Nat]]
        /\ late' \in [Requests -> SUBSET LateMetrics]
    BY <1>12, <1>13 DEF CampaignBatch, LateMetrics
  <2>2. pc' \in [Requests -> Steps] /\ UNCHANGED result
    BY <1>13 DEF CampaignBatch, TypeOK
  <2> QED BY <1>13, <2>1, <2>2 DEF CampaignBatch, LateBatch, TypeOK
<1>14. ASSUME NEW r \in Requests, RageBatch(r) PROVE TypeOK'
  <2>1. /\ tally' \in [Sources -> [Metrics -> Nat]]
        /\ late' \in [Requests -> SUBSET LateMetrics]
    BY <1>12, <1>14 DEF RageBatch, LateMetrics
  <2> QED BY <1>14, <2>1 DEF RageBatch, LateBatch, TypeOK
<1>15. ASSUME NEW r \in Requests, LateBatchFails(r) PROVE TypeOK'
  BY <1>15 DEF LateBatchFails, TypeOK
<1>16. ASSUME NEW r \in Requests, ReleaseNonce(r) PROVE TypeOK'
  <2>1. Project(r) \in Projects
    BY SourcesAssumption DEF Project, TypeOK
  <2>2. ledger' \in [Projects -> [Events -> Requests \cup {Absent, Released}]]
    BY <1>16, <2>1 DEF ReleaseNonce, Release, TypeOK
  <2> QED BY <1>16, <2>2 DEF ReleaseNonce, TypeOK
<1>17. ASSUME NEW r \in Requests, SaveDecision(r) PROVE TypeOK'
  BY <1>17 DEF SaveDecision, TypeOK
<1>18. ASSUME NEW r \in Requests, Fail(r) PROVE TypeOK'
  BY <1>18 DEF Fail, TypeOK
<1>19. ASSUME NEW r \in Requests, Crash(r) PROVE TypeOK'
  BY <1>19 DEF Crash, TypeOK
<1>20. ASSUME NEW r \in Requests, NEW s \in Sources, NEW B \in SUBSET Events,
              Arrive(r, s, B)
       PROVE  TypeOK'
  BY <1>20 DEF Arrive, TypeOK
<1>21. ASSUME NEW s \in Sources, SetActive(s) PROVE TypeOK'
  BY <1>21 DEF SetActive, Outside, handler, TypeOK
<1>22. CASE Tick
  BY <1>22, ClockAssumption DEF Tick, Outside, handler, Seconds, TypeOK
<1>23. CASE ApplyMigration
  BY <1>23, ClockAssumption DEF ApplyMigration, Outside, handler, CurrentSchema, TypeOK
<1>24. CASE UNCHANGED vars
  BY <1>24 DEF vars, TypeOK
<1> QED
  BY <1>1, <1>2, <1>3, <1>4, <1>5, <1>6, <1>7, <1>8, <1>9, <1>10, <1>11, <1>13,
     <1>14, <1>15, <1>16, <1>17, <1>18, <1>19, <1>20, <1>21, <1>22, <1>23, <1>24
  DEF Next, Handle

(* Every handler variable and table keeps its type, for every instance.    *)
THEOREM TypeCorrect == Spec => []TypeOK
<1> QED BY InitType, NextType, PTL DEF Spec

(***************************************************************************)
(* The nonce invariant.  Most steps leave the ledger, the counters and     *)
(* their history alone and move a handler without entering the stretch     *)
(* between its main transaction and the release.                           *)
(***************************************************************************)
Quiet ==
  /\ UNCHANGED <<ledger, tally, won, late, src, batch>>
  /\ \A q \in Requests :
       /\ pc'[q] \in BeforeMain => pc[q] \in BeforeMain
       /\ pc'[q] \in HoldingNonce => pc[q] \in HoldingNonce
       /\ pc'[q] = "campaign" => pc[q] = "campaign"
       /\ pc'[q] = "rage" => pc[q] = "rage"

(* Quiet steps keep the nonce invariant.                                   *)
LEMMA QuietNonce == TypeOK /\ NonceInv /\ Quiet => NonceInv'
BY DEF NonceInv, Quiet, Project

(* All steps of a handler but those that touch the ledger or a counter are *)
(* quiet, and so are the steps around the handlers.                        *)
LEMMA QuietHandle ==
  ASSUME TypeOK, NEW r \in Requests,
         \/ Refuse(r) \/ Exclude(r) \/ Admit(r) \/ ReserveSecond(r) \/ ReserveDay(r)
         \/ RefuseQuota(r) \/ PutObject(r) \/ RollupEvent(r) \/ RollupHour(r)
         \/ MainBatchMissingTable(r) \/ LateBatchFails(r) \/ SaveDecision(r)
         \/ Fail(r) \/ Crash(r)
  PROVE  Quiet
<1> USE DEF Quiet, BeforeMain, HoldingNonce, Goto, Answer, Untouched, counts
<1>1. CASE Refuse(r) BY <1>1 DEF Refuse, TypeOK
<1>2. CASE Exclude(r) BY <1>2 DEF Exclude, TypeOK
<1>3. CASE Admit(r) BY <1>3 DEF Admit, TypeOK
<1>4. CASE ReserveSecond(r) BY <1>4 DEF ReserveSecond, TypeOK
<1>5. CASE ReserveDay(r) BY <1>5 DEF ReserveDay, TypeOK
<1>6. CASE RefuseQuota(r) BY <1>6 DEF RefuseQuota, TypeOK
<1>7. CASE PutObject(r) BY <1>7 DEF PutObject, TypeOK
<1>8. CASE RollupEvent(r) BY <1>8 DEF RollupEvent, EventDone, TypeOK
<1>9. CASE RollupHour(r) BY <1>9 DEF RollupHour, EventDone, TypeOK
<1>10. CASE MainBatchMissingTable(r) BY <1>10 DEF MainBatchMissingTable, TypeOK
<1>11. CASE LateBatchFails(r) BY <1>11 DEF LateBatchFails, TypeOK
<1>12. CASE SaveDecision(r) BY <1>12 DEF SaveDecision, TypeOK
<1>13. CASE Fail(r) BY <1>13 DEF Fail, TypeOK
<1>14. CASE Crash(r) BY <1>14 DEF Crash, Running, TypeOK
<1> QED
  BY <1>1, <1>2, <1>3, <1>4, <1>5, <1>6, <1>7, <1>8, <1>9, <1>10, <1>11, <1>12,
     <1>13, <1>14

LEMMA QuietOutside ==
  ASSUME \/ Tick
         \/ ApplyMigration
         \/ \E s \in Sources : SetActive(s)
         \/ UNCHANGED vars
  PROVE  Quiet
<1> USE DEF Quiet, Outside, handler
<1>1. CASE Tick BY <1>1 DEF Tick
<1>2. CASE ApplyMigration BY <1>2 DEF ApplyMigration
<1>3. CASE \E s \in Sources : SetActive(s) BY <1>3 DEF SetActive
<1>4. CASE UNCHANGED vars BY <1>4 DEF vars
<1> QED BY <1>1, <1>2, <1>3, <1>4

(* Before its main transaction no row bears a request's nonce, so the rows *)
(* it finds under it afterwards are those that were absent.                *)
LEMMA MineIsNew ==
  ASSUME TypeOK, NonceInv, NEW r \in Requests, pc[r] = "main"
  PROVE  /\ Mine(Inserted(r), r) = {e \in batch[r] : ledger[Project(r)][e] = Absent}
         /\ \A e \in Events : ledger[Project(r)][e] # r
<1>1. Project(r) \in Projects
  BY SourcesAssumption DEF Project, TypeOK
<1>2. won[r] = {}
  BY DEF NonceInv, BeforeMain
<1>3. \A e \in Events : ledger[Project(r)][e] # r
  BY <1>1, <1>2 DEF NonceInv
<1>4. batch[r] \in SUBSET Events
  BY DEF TypeOK
<1> QED BY <1>3, <1>4 DEF Mine, Inserted

(* The main transaction: what it inserts had no row, so nobody else won it *)
(* and it is marked with this request's nonce, or already released.        *)
LEMMA MainNonce ==
  ASSUME TypeOK, NonceInv, NEW r \in Requests, MainBatch(r)
  PROVE  NonceInv'
<1> DEFINE P == Project(r)
           new == {e \in batch[r] : ledger[P][e] = Absent}
<1>1. P \in Projects /\ r \in Requests /\ batch[r] \in SUBSET Events
  BY SourcesAssumption DEF Project, TypeOK
<1>2. Mine(Inserted(r), r) = new /\ \A e \in Events : ledger[P][e] # r
  BY MineIsNew DEF MainBatch
<1>3. /\ won' = [won EXCEPT ![r] = new]
      /\ UNCHANGED <<src, batch, late>>
      /\ pc' = [pc EXCEPT ![r] = AfterMain(r)]
      /\ AfterMain(r) \in {"campaign", "rage", "decide"}
      /\ pc[r] = "main"
  BY <1>2 DEF MainBatch, Goto, AfterMain
<1>4. won[r] = {} /\ late[r] = {}
  BY <1>3 DEF NonceInv, BeforeMain
<1>5. \A q \in Requests : Project(q)' = Project(q)
  BY <1>3 DEF Project
<1>6. ledger' \in [Projects -> [Events -> Requests \cup {Absent, Released}]]
  BY NextType DEF Next, Handle, TypeOK
<1>7. \A p \in Projects \ {P}, e \in Events : ledger'[p][e] = ledger[p][e]
  BY <1>1 DEF MainBatch, TypeOK
<1>8. \A e \in Events \ new : ledger'[P][e] = ledger[P][e]
  BY <1>1, <1>2 DEF MainBatch, Inserted, Release, TypeOK
<1>9. \A e \in new : ledger'[P][e] \in {r, Released}
  BY <1>1 DEF MainBatch, Inserted, Release, TypeOK
<1>10. AfterMain(r) # "decide" => \A e \in new : ledger'[P][e] = r
  BY <1>1 DEF MainBatch, Inserted, TypeOK
<1>11. \A q \in Requests :
         /\ won'[q] \subseteq batch'[q]
         /\ pc'[q] \in BeforeMain => won'[q] = {} /\ late'[q] = {}
         /\ pc'[q] = "campaign" => late'[q] = {}
         /\ pc'[q] = "rage" => "rage" \notin late'[q]
  BY <1>3, <1>4 DEF NonceInv, BeforeMain, TypeOK
<1>12. ASSUME NEW q \in Requests, q # r, NEW e \in won[q]
       PROVE  ledger'[Project(q)][e] = ledger[Project(q)][e]
  <2>1. e \in Events /\ ledger[Project(q)][e] # Absent /\ Project(q) \in Projects
    BY SourcesAssumption DEF NonceInv, Project, TypeOK
  <2>2. CASE Project(q) = P
    BY <2>1, <2>2, <1>8
  <2>3. CASE Project(q) # P
    BY <2>1, <2>3, <1>7
  <2> QED BY <2>2, <2>3
<1>13. ASSUME NEW q \in Requests, NEW e \in won'[q]
       PROVE  /\ ledger'[Project(q)'][e] # Absent
              /\ pc'[q] \in HoldingNonce => ledger'[Project(q)'][e] = q
  <2>1. CASE q = r
    <3>1. e \in new /\ Project(q)' = P
      BY <2>1, <1>3, <1>5 DEF TypeOK
    <3>2. ledger'[P][e] # Absent
      BY <3>1, <1>9, NonceAssumption
    <3>3. pc'[q] \in HoldingNonce => ledger'[P][e] = q
      BY <3>1, <2>1, <1>3, <1>10 DEF HoldingNonce, TypeOK
    <3> QED BY <3>1, <3>2, <3>3
  <2>2. CASE q # r
    <3>1. e \in won[q] /\ pc'[q] = pc[q]
      BY <2>2, <1>3 DEF TypeOK
    <3> QED BY <2>2, <3>1, <1>12, <1>5 DEF NonceInv
  <2> QED BY <2>1, <2>2
<1>14. ASSUME NEW p \in Projects, NEW e \in Events, NEW q \in Requests, ledger'[p][e] = q
       PROVE  p = Project(q)' /\ e \in won'[q]
  <2>1. CASE p = P /\ e \in new
    BY <2>1, <1>3, <1>5, <1>9, <1>14, NonceAssumption DEF TypeOK
  <2>2. CASE ~(p = P /\ e \in new)
    <3>1. ledger[p][e] = q
      BY <2>2, <1>7, <1>8, <1>14
    <3>2. p = Project(q) /\ e \in won[q]
      BY <3>1 DEF NonceInv
    <3>3. won[q] \subseteq won'[q]
      BY <1>3, <1>4 DEF TypeOK
    <3> QED BY <3>2, <3>3, <1>5
  <2> QED BY <2>1, <2>2
<1>15. ASSUME NEW q \in Requests, q # r, Project(q) = P
       PROVE  won[q] \cap new = {}
  BY <1>15 DEF NonceInv
<1>16. ASSUME NEW q \in Requests, NEW u \in Requests, q # u, Project(q)' = Project(u)'
       PROVE  won'[q] \cap won'[u] = {}
  BY <1>3, <1>5, <1>15, <1>16 DEF NonceInv, TypeOK
<1> QED BY <1>11, <1>13, <1>14, <1>16 DEF NonceInv

(* Counting, or not counting, a late metric touches no row.                *)
LEMMA LateNonce ==
  ASSUME TypeOK, NonceInv, NEW r \in Requests, CampaignBatch(r) \/ RageBatch(r)
  PROVE  NonceInv'
<1>1. CASE CampaignBatch(r)
  BY <1>1 DEF CampaignBatch, LateBatch, Goto, NonceInv, Project, TypeOK,
              BeforeMain, HoldingNonce
<1>2. CASE RageBatch(r)
  BY <1>2 DEF RageBatch, LateBatch, Goto, NonceInv, Project, TypeOK,
              BeforeMain, HoldingNonce
<1> QED BY <1>1, <1>2

(* The release takes the nonce off the request's own rows only.            *)
LEMMA ReleaseNonceInv ==
  ASSUME TypeOK, NonceInv, NEW r \in Requests, ReleaseNonce(r)
  PROVE  NonceInv'
<1> DEFINE P == Project(r)
<1>1. P \in Projects
  BY SourcesAssumption DEF Project, TypeOK
<1>2. /\ UNCHANGED <<src, batch, won, late>>
      /\ \A q \in Requests : q # r => pc'[q] = pc[q]
      /\ pc[r] = "release" /\ pc'[r] \in {"done", "decide"}
  BY DEF ReleaseNonce, Goto, TypeOK
<1>3. \A q \in Requests : Project(q)' = Project(q)
  BY <1>2 DEF Project
<1>4. \A p \in Projects, e \in Events :
        ledger'[p][e] = IF p = P /\ ledger[p][e] = r THEN Released ELSE ledger[p][e]
  BY <1>1 DEF ReleaseNonce, Release, TypeOK
<1>5. ASSUME NEW q \in Requests, NEW e \in won[q]
      PROVE  /\ ledger'[Project(q)][e] # Absent
             /\ pc'[q] \in HoldingNonce => ledger'[Project(q)][e] = q
  <2>1. e \in Events /\ Project(q) \in Projects
    BY SourcesAssumption DEF Project, TypeOK
  <2>2. /\ ledger[Project(q)][e] # Absent
        /\ pc[q] \in HoldingNonce => ledger[Project(q)][e] = q
    BY DEF NonceInv
  <2>3. ledger'[Project(q)][e] # Absent
    BY <2>1, <2>2, <1>4, NonceAssumption
  <2>4. pc'[q] \in HoldingNonce => q # r /\ pc[q] \in HoldingNonce
    BY <1>2 DEF HoldingNonce
  <2> QED BY <2>1, <2>2, <2>3, <2>4, <1>4
<1>6. ASSUME NEW p \in Projects, NEW e \in Events, NEW q \in Requests, ledger'[p][e] = q
      PROVE  p = Project(q)' /\ e \in won'[q]
  BY <1>2, <1>3, <1>4, <1>6, NonceAssumption DEF NonceInv
<1>7. \A q \in Requests :
        /\ won'[q] \subseteq batch'[q]
        /\ pc'[q] \in BeforeMain => won'[q] = {} /\ late'[q] = {}
        /\ pc'[q] = "campaign" => late'[q] = {}
        /\ pc'[q] = "rage" => "rage" \notin late'[q]
  BY <1>2 DEF NonceInv, BeforeMain
<1>8. \A q, u \in Requests :
        q # u /\ Project(q)' = Project(u)' => won'[q] \cap won'[u] = {}
  BY <1>2, <1>3 DEF NonceInv
<1> QED BY <1>2, <1>3, <1>5, <1>6, <1>7, <1>8 DEF NonceInv

(* A request that arrives has won nothing yet, so the website it is given  *)
(* changes nothing.                                                        *)
LEMMA ArriveNonce ==
  ASSUME TypeOK, NonceInv, NEW r \in Requests, NEW s \in Sources,
         NEW B \in SUBSET Events, Arrive(r, s, B)
  PROVE  NonceInv'
<1>1. won[r] = {} /\ late[r] = {} /\ pc[r] = "idle"
  BY DEF NonceInv, Arrive, BeforeMain
<1>2. /\ UNCHANGED <<won, late, ledger>>
      /\ \A q \in Requests : q # r =>
           pc'[q] = pc[q] /\ batch'[q] = batch[q] /\ Project(q)' = Project(q)
      /\ pc'[r] = "authorize"
  BY DEF Arrive, Goto, counts, Project, TypeOK
<1>3. \A p \in Projects, e \in Events : ledger[p][e] # r
  BY <1>1 DEF NonceInv
<1>4. \A q \in Requests :
        /\ won'[q] \subseteq batch'[q]
        /\ pc'[q] \in BeforeMain => won'[q] = {} /\ late'[q] = {}
        /\ pc'[q] = "campaign" => late'[q] = {}
        /\ pc'[q] = "rage" => "rage" \notin late'[q]
        /\ \A e \in won'[q] : ledger'[Project(q)'][e] # Absent
        /\ pc'[q] \in HoldingNonce => \A e \in won'[q] : ledger'[Project(q)'][e] = q
  BY <1>1, <1>2 DEF NonceInv, BeforeMain, HoldingNonce
<1>5. \A p \in Projects, e \in Events, q \in Requests :
        ledger'[p][e] = q => p = Project(q)' /\ e \in won'[q]
  BY <1>2, <1>3 DEF NonceInv
<1>6. \A q, u \in Requests :
        q # u /\ Project(q)' = Project(u)' => won'[q] \cap won'[u] = {}
  BY <1>1, <1>2 DEF NonceInv
<1> QED BY <1>4, <1>5, <1>6 DEF NonceInv

LEMMA NextNonce == TypeOK /\ NonceInv /\ [Next]_vars => NonceInv'
<1> SUFFICES ASSUME TypeOK, NonceInv, [Next]_vars PROVE NonceInv'
  OBVIOUS
<1>1. ASSUME NEW r \in Requests, Handle(r) \/ Crash(r) PROVE NonceInv'
  BY <1>1, QuietHandle, QuietNonce, MainNonce, LateNonce, ReleaseNonceInv DEF Handle
<1>2. ASSUME NEW r \in Requests, NEW s \in Sources, NEW B \in SUBSET Events,
             Arrive(r, s, B)
      PROVE  NonceInv'
  BY <1>2, ArriveNonce
<1>3. CASE Tick \/ ApplyMigration \/ (\E s \in Sources : SetActive(s)) \/ UNCHANGED vars
  BY <1>3, QuietOutside, QuietNonce
<1> QED BY <1>1, <1>2, <1>3 DEF Next

LEMMA InitNonce == Init => NonceInv
BY NonceAssumption, SourcesAssumption DEF Init, NonceInv, Project, HoldingNonce

(* NonceInv holds in every reachable state: the ledger's nonces are an     *)
(* exact record of who inserted what.                                      *)
THEOREM NonceInvariant == Spec => []NonceInv
<1> QED BY InitType, NextType, InitNonce, NextNonce, PTL DEF Spec

(***************************************************************************)
(* The counters.                                                           *)
(***************************************************************************)
LEMMA CreditedType ==
  ASSUME TypeOK, NEW s \in Sources, NEW m
  PROVE  Credited(s) \in SUBSET Events /\ LateCredited(s, m) \in SUBSET Events
BY DEF Credited, LateCredited, TypeOK

(* Counting two disjoint sets of events adds up.                           *)
LEMMA CountingAdds ==
  ASSUME NEW E \in SUBSET Events, NEW F \in SUBSET Events, E \cap F = {}, NEW m
  PROVE  Cardinality(Counting(E \cup F, m))
           = Cardinality(Counting(E, m)) + Cardinality(Counting(F, m))
<1>1. Counting(E \cup F, m) = Counting(E, m) \cup Counting(F, m)
  BY DEF Counting, OfKind
<1>2. Counting(E, m) \cap Counting(F, m) = {}
  BY DEF Counting, OfKind
<1>3. IsFiniteSet(Counting(E, m)) /\ IsFiniteSet(Counting(F, m))
  <2>1. Counting(E, m) \in SUBSET Events /\ Counting(F, m) \in SUBSET Events
    BY CountingType
  <2> QED BY <2>1, EventsFinite
<1>4. Cardinality(Counting(E, m) \cup Counting(F, m))
        = Cardinality(Counting(E, m)) + Cardinality(Counting(F, m))
            - Cardinality(Counting(E, m) \cap Counting(F, m))
  BY <1>3, FS_Union
<1>5. Cardinality(Counting(E, m)) \in Nat /\ Cardinality(Counting(F, m)) \in Nat
  BY CountingType
<1>6. Cardinality(Counting(E, m) \cap Counting(F, m)) = 0
  BY <1>2, FS_EmptySet
<1>7. Cardinality(Counting(E \cup F, m)) = Cardinality(Counting(E, m) \cup Counting(F, m))
  BY <1>1
<1>8. \A a, b \in Nat : a + b - 0 = a + b
  OBVIOUS
<1> QED BY <1>4, <1>5, <1>6, <1>7, <1>8, Zenon

(* For a kind of the main transaction, counting is selecting that kind.    *)
LEMMA MainCounting ==
  ASSUME NEW E, NEW m \in MainKinds PROVE Counting(E, m) = OfKind(E, m)
BY DEF Counting, MainKinds

(* What a main transaction credits: events its website's project had not   *)
(* credited, each counted under its kind; nothing moves elsewhere.         *)
LEMMA MainCredits ==
  ASSUME TypeOK, NonceInv, NEW r \in Requests, MainBatch(r),
         NEW new, new = {e \in batch[r] : ledger[Project(r)][e] = Absent}
  PROVE  /\ new \in SUBSET Events
         /\ \A s \in Sources : ProjectOf[s] = Project(r) => new \cap Credited(s) = {}
         /\ \A s \in Sources :
              Credited(s)' = IF s = src[r] THEN Credited(s) \cup new ELSE Credited(s)
         /\ \A s \in Sources : \A m : LateCredited(s, m)' = LateCredited(s, m)
         /\ tally' = Add(src[r], new, MainKinds)
<1>1. new \in SUBSET Events
  BY DEF TypeOK
<1>2. Mine(Inserted(r), r) = new /\ won[r] = {} /\ late[r] = {}
  BY MineIsNew DEF MainBatch, NonceInv, BeforeMain
<1>3. won' = [won EXCEPT ![r] = new] /\ UNCHANGED <<src, late>>
  BY <1>2 DEF MainBatch
<1>4. ASSUME NEW s \in Sources, ProjectOf[s] = Project(r) PROVE new \cap Credited(s) = {}
  BY <1>4 DEF Credited, NonceInv, Project
<1>5. ASSUME NEW s \in Sources
      PROVE  Credited(s)' = IF s = src[r] THEN Credited(s) \cup new ELSE Credited(s)
  <2>1. \A q \in Requests : won'[q] = IF q = r THEN new ELSE won[q]
    BY <1>3 DEF TypeOK
  <2>2. CASE s = src[r]
    BY <2>1, <2>2, <1>2, <1>3 DEF Credited
  <2>3. CASE s # src[r]
    BY <2>1, <2>3, <1>3 DEF Credited
  <2> QED BY <2>2, <2>3
<1>6. ASSUME NEW s \in Sources, NEW m PROVE LateCredited(s, m)' = LateCredited(s, m)
  <2>1. \A q \in Requests : q # r => won'[q] = won[q]
    BY <1>3 DEF TypeOK
  <2> QED BY <2>1, <1>2, <1>3 DEF LateCredited
<1>7. tally' = Add(src[r], new, MainKinds)
  BY <1>2 DEF MainBatch
<1> QED BY <1>1, <1>4, <1>5, <1>6, <1>7

(* A late transaction counts exactly the events its request inserted.      *)
LEMMA LateCredits ==
  ASSUME TypeOK, NonceInv, NEW r \in Requests, NEW m \in LateMetrics,
         pc[r] \in HoldingNonce, m \notin late[r],
         tally' = Add(src[r], Mine(ledger[Project(r)], r), {m}),
         late' = [late EXCEPT ![r] = @ \cup {m}], UNCHANGED <<src, won>>
  PROVE  /\ tally' = Add(src[r], won[r], {m})
         /\ won[r] \cap LateCredited(src[r], m) = {}
         /\ \A s \in Sources : Credited(s)' = Credited(s)
         /\ \A s \in Sources, k \in LateMetrics :
              LateCredited(s, k)' = IF s = src[r] /\ k = m THEN LateCredited(s, k) \cup won[r]
                                    ELSE LateCredited(s, k)
<1>1. Mine(ledger[Project(r)], r) = won[r]
  <2>1. won[r] \subseteq batch[r] /\ batch[r] \subseteq Events /\ Project(r) \in Projects
    BY SourcesAssumption DEF NonceInv, Project, TypeOK
  <2>2. \A e \in won[r] : ledger[Project(r)][e] = r
    BY DEF NonceInv
  <2>3. \A e \in Events : ledger[Project(r)][e] = r => e \in won[r]
    BY <2>1 DEF NonceInv
  <2> QED BY <2>1, <2>2, <2>3 DEF Mine
<1>2. won[r] \cap LateCredited(src[r], m) = {}
  BY DEF LateCredited, NonceInv, Project
<1>3. \A s \in Sources : Credited(s)' = Credited(s)
  BY DEF Credited
<1>4. ASSUME NEW s \in Sources, NEW k \in LateMetrics
      PROVE  LateCredited(s, k)' = IF s = src[r] /\ k = m THEN LateCredited(s, k) \cup won[r]
                                   ELSE LateCredited(s, k)
  <2>1. \A q \in Requests : late'[q] = IF q = r THEN late[r] \cup {m} ELSE late[q]
    BY DEF TypeOK
  <2>2. CASE s = src[r] /\ k = m
    BY <2>1, <2>2 DEF LateCredited
  <2>3. CASE ~(s = src[r] /\ k = m)
    BY <2>1, <2>3 DEF LateCredited
  <2> QED BY <2>2, <2>3
<1> QED BY <1>1, <1>2, <1>3, <1>4

(* A step that leaves the counters and their history alone leaves every    *)
(* credited set alone, an arrival included.                                *)
LEMMA CreditsUnchanged ==
  ASSUME TypeOK, NonceInv, UNCHANGED <<tally, won, late>>,
         \A q \in Requests : src'[q] = src[q] \/ (won[q] = {} /\ late[q] = {})
  PROVE  \A s \in Sources :
           /\ Credited(s)' = Credited(s)
           /\ \A m : LateCredited(s, m)' = LateCredited(s, m)
BY DEF Credited, LateCredited

LEMMA CountsUnchanged ==
  ASSUME TypeOK, NonceInv, UNCHANGED <<tally, won, late>>,
         \A q \in Requests : src'[q] = src[q] \/ (won[q] = {} /\ late[q] = {})
  PROVE  CountedOnce /\ LateCountedOnce => CountedOnce' /\ LateCountedOnce'
BY CreditsUnchanged DEF CountedOnce, LateCountedOnce

LEMMA MainCounts ==
  ASSUME TypeOK, NonceInv, CountedOnce, LateCountedOnce,
         NEW r \in Requests, MainBatch(r)
  PROVE  CountedOnce' /\ LateCountedOnce'
<1> DEFINE new == {e \in batch[r] : ledger[Project(r)][e] = Absent}
<1>1. /\ new \in SUBSET Events
      /\ \A s \in Sources : ProjectOf[s] = Project(r) => new \cap Credited(s) = {}
      /\ \A s \in Sources :
           Credited(s)' = IF s = src[r] THEN Credited(s) \cup new ELSE Credited(s)
      /\ \A s \in Sources : \A m : LateCredited(s, m)' = LateCredited(s, m)
      /\ tally' = Add(src[r], new, MainKinds)
  BY MainCredits
<1> HIDE DEF new
<1>2. src[r] \in Sources /\ Project(r) = ProjectOf[src[r]]
  BY DEF Project, TypeOK
<1>3. \A s \in Sources, m \in Metrics :
        tally'[s][m] = IF s = src[r] /\ m \in MainKinds
                       THEN tally[s][m] + Cardinality(Counting(new, m))
                       ELSE tally[s][m]
  BY <1>1, <1>2 DEF Add, TypeOK
<1>4. ASSUME NEW s \in Sources, NEW m \in MainKinds
      PROVE  tally'[s][m] = Cardinality(OfKind(Credited(s)', m))
  <2>1. tally[s][m] = Cardinality(Counting(Credited(s), m))
    BY MainCounting DEF CountedOnce
  <2>2. CASE s = src[r]
    <3>1. Cardinality(Counting(Credited(s) \cup new, m))
            = Cardinality(Counting(Credited(s), m)) + Cardinality(Counting(new, m))
      BY <1>1, <1>2, <2>2, CountingAdds, CreditedType
    <3>2. tally'[s][m] = tally[s][m] + Cardinality(Counting(new, m))
      BY <1>3, <2>2 DEF Metrics
    <3> QED BY <3>1, <3>2, <2>1, <2>2, <1>1, MainCounting
  <2>3. CASE s # src[r]
    BY <1>1, <1>3, <2>1, <2>3, MainCounting DEF Metrics
  <2> QED BY <2>2, <2>3
<1>5. ASSUME NEW s \in Sources, NEW m \in LateMetrics
      PROVE  tally'[s][m] = Cardinality(Counting(LateCredited(s, m)', m))
  <2>1. m \in Metrics /\ m \notin MainKinds
    BY DEF LateMetrics, MainKinds, Metrics
  <2>2. tally'[s][m] = tally[s][m]
    BY <1>3, <2>1
  <2>3. LateCredited(s, m)' = LateCredited(s, m)
    BY <1>1
  <2> QED BY <2>2, <2>3 DEF LateCountedOnce
<1>6. CountedOnce'
  BY <1>4 DEF CountedOnce, OfKind
<1>7. LateCountedOnce'
  BY <1>5 DEF LateCountedOnce, Counting, OfKind
<1> QED BY <1>6, <1>7

LEMMA LateCounts ==
  ASSUME TypeOK, NonceInv, CountedOnce, LateCountedOnce,
         NEW r \in Requests, NEW m \in LateMetrics,
         pc[r] \in HoldingNonce, m \notin late[r],
         tally' = Add(src[r], Mine(ledger[Project(r)], r), {m}),
         late' = [late EXCEPT ![r] = @ \cup {m}], UNCHANGED <<src, won>>
  PROVE  CountedOnce' /\ LateCountedOnce'
<1>1. /\ tally' = Add(src[r], won[r], {m})
      /\ won[r] \cap LateCredited(src[r], m) = {}
      /\ \A s \in Sources : Credited(s)' = Credited(s)
      /\ \A s \in Sources, k \in LateMetrics :
           LateCredited(s, k)' = IF s = src[r] /\ k = m THEN LateCredited(s, k) \cup won[r]
                                 ELSE LateCredited(s, k)
  BY LateCredits
<1>2. src[r] \in Sources /\ won[r] \in SUBSET Events
  BY DEF TypeOK
<1>3. \A s \in Sources, k \in Metrics :
        tally'[s][k] = IF s = src[r] /\ k = m
                       THEN tally[s][k] + Cardinality(Counting(won[r], k))
                       ELSE tally[s][k]
  BY <1>1, <1>2 DEF Add, TypeOK
<1>4. ASSUME NEW s \in Sources, NEW k \in MainKinds
      PROVE  tally'[s][k] = Cardinality(OfKind(Credited(s)', k))
  <2>1. k \in Metrics /\ k # m
    BY DEF LateMetrics, MainKinds, Metrics
  <2>2. tally'[s][k] = tally[s][k]
    BY <1>3, <2>1
  <2>3. Credited(s)' = Credited(s)
    BY <1>1
  <2> QED BY <2>2, <2>3 DEF CountedOnce
<1>5. ASSUME NEW s \in Sources, NEW k \in LateMetrics
      PROVE  tally'[s][k] = Cardinality(Counting(LateCredited(s, k)', k))
  <2>1. k \in Metrics /\ tally[s][k] = Cardinality(Counting(LateCredited(s, k), k))
    BY DEF LateCountedOnce, Metrics
  <2>2. CASE s = src[r] /\ k = m
    <3>1. Cardinality(Counting(LateCredited(s, k) \cup won[r], k))
            = Cardinality(Counting(LateCredited(s, k), k)) + Cardinality(Counting(won[r], k))
      BY <1>1, <1>2, <2>2, CountingAdds, CreditedType
    <3> QED BY <3>1, <2>1, <2>2, <1>1, <1>3
  <2>3. CASE ~(s = src[r] /\ k = m)
    BY <1>1, <1>3, <2>1, <2>3
  <2> QED BY <2>2, <2>3
<1>6. CountedOnce'
  BY <1>4 DEF CountedOnce, OfKind
<1>7. LateCountedOnce'
  BY <1>5 DEF LateCountedOnce, Counting, OfKind
<1> QED BY <1>6, <1>7

LEMMA NextCounts ==
  TypeOK /\ NonceInv /\ CountedOnce /\ LateCountedOnce /\ [Next]_vars
    => CountedOnce' /\ LateCountedOnce'
<1> SUFFICES ASSUME TypeOK, NonceInv, CountedOnce, LateCountedOnce, [Next]_vars
             PROVE  CountedOnce' /\ LateCountedOnce'
  OBVIOUS
<1>1. CASE Quiet
  BY <1>1, CountsUnchanged DEF Quiet
<1>2. ASSUME NEW r \in Requests, CampaignBatch(r) \/ RageBatch(r)
      PROVE  CountedOnce' /\ LateCountedOnce'
  <2> DEFINE m == IF pc[r] = "campaign" THEN "campaign" ELSE "rage"
  <2>1. m \in LateMetrics /\ pc[r] \in HoldingNonce /\ m \notin late[r]
    BY <1>2 DEF CampaignBatch, RageBatch, LateMetrics, HoldingNonce, NonceInv
  <2>2. \/ UNCHANGED <<tally, won, late, src>>
        \/ /\ tally' = Add(src[r], Mine(ledger[Project(r)], r), {m})
           /\ late' = [late EXCEPT ![r] = @ \cup {m}]
           /\ UNCHANGED <<src, won>>
    BY <1>2 DEF CampaignBatch, RageBatch, LateBatch
  <2> QED BY <2>1, <2>2, LateCounts, CountsUnchanged
<1>3. ASSUME NEW r \in Requests, ReleaseNonce(r)
      PROVE  CountedOnce' /\ LateCountedOnce'
  BY <1>3, CountsUnchanged DEF ReleaseNonce
<1>4. ASSUME NEW r \in Requests, Handle(r) \/ Crash(r)
      PROVE  CountedOnce' /\ LateCountedOnce'
  BY <1>1, <1>2, <1>3, <1>4, QuietHandle, MainCounts DEF Handle
<1>5. ASSUME NEW r \in Requests, NEW s \in Sources, NEW B \in SUBSET Events,
             Arrive(r, s, B)
      PROVE  CountedOnce' /\ LateCountedOnce'
  <2>1. won[r] = {} /\ late[r] = {}
    BY <1>5 DEF Arrive, NonceInv, BeforeMain
  <2> QED BY <1>5, <2>1, CountsUnchanged DEF Arrive, counts, TypeOK
<1>6. CASE Tick \/ ApplyMigration \/ (\E s \in Sources : SetActive(s)) \/ UNCHANGED vars
  BY <1>6, <1>1, QuietOutside
<1> QED BY <1>4, <1>5, <1>6 DEF Next

LEMMA InitCounts == Init => CountedOnce /\ LateCountedOnce
<1> SUFFICES ASSUME Init PROVE CountedOnce /\ LateCountedOnce
  OBVIOUS
<1>1. \A s \in Sources : \A m : Credited(s) = {} /\ LateCredited(s, m) = {}
  BY DEF Init, Credited, LateCredited
<1>2. \A m : Counting({}, m) = {} /\ OfKind({}, m) = {}
  BY DEF Counting, OfKind
<1> QED BY <1>1, <1>2, FS_EmptySet DEF Init, CountedOnce, LateCountedOnce, Metrics

(* Whatever is retried, duplicated, failed or lost, the deduplicated       *)
(* counters of the main transaction count each credited event once.        *)
THEOREM CountsAreExact == Spec => []CountedOnce
<1> QED
  BY InitType, NextType, InitNonce, NextNonce, InitCounts, NextCounts, PTL DEF Spec

(* The same for campaign and rage counts, made by transactions of their    *)
(* own while the nonce is held.                                            *)
THEOREM LateCountsAreExact == Spec => []LateCountedOnce
<1> QED
  BY InitType, NextType, InitNonce, NextNonce, InitCounts, NextCounts, PTL DEF Spec

(***************************************************************************)
(* The deduplicated counters implement CountOnce.                          *)
(***************************************************************************)
LEMMA InitOnce == Init => Once!Init
BY DEF Init, Once!Init, Credited, Metrics

(* The abstract specification counts with the same cardinality.            *)
LEMMA SameCardinality == \A S : Once!Cardinality(S) = Cardinality(S)
BY DEF Cardinality, Once!Cardinality

(* A step that moves no main counter and credits nothing is a stutter.     *)
LEMMA StutterOnce ==
  ASSUME \A s \in Sources : Credited(s)' = Credited(s),
         \A s \in Sources, k \in MainKinds : tally'[s][k] = tally[s][k]
  PROVE  UNCHANGED Once!vars
BY DEF Once!vars

(* The main transaction is a Credit of the events that had no row.         *)
LEMMA MainOnce ==
  ASSUME TypeOK, NonceInv, NEW r \in Requests, MainBatch(r)
  PROVE  Once!Next
<1> DEFINE new == {e \in batch[r] : ledger[Project(r)][e] = Absent}
           credit == [s \in Sources |-> Credited(s)]
           count == [s \in Sources |-> [k \in MainKinds |-> tally[s][k]]]
<1>1. /\ new \in SUBSET Events
      /\ \A s \in Sources : ProjectOf[s] = Project(r) => new \cap Credited(s) = {}
      /\ \A s \in Sources :
           Credited(s)' = IF s = src[r] THEN Credited(s) \cup new ELSE Credited(s)
      /\ \A s \in Sources : \A m : LateCredited(s, m)' = LateCredited(s, m)
      /\ tally' = Add(src[r], new, MainKinds)
  BY MainCredits
<1> HIDE DEF new
<1>2. src[r] \in Sources /\ Project(r) = ProjectOf[src[r]]
  BY DEF Project, TypeOK
<1>3. new \cap Once!CreditedInProject(src[r]) = {}
  BY <1>1, <1>2 DEF Once!CreditedInProject
<1>4. credit' = [credit EXCEPT ![src[r]] = @ \cup new]
  BY <1>1, <1>2
<1>5. \A s \in Sources, m \in Metrics :
        tally'[s][m] = IF s = src[r] /\ m \in MainKinds
                       THEN tally[s][m] + Cardinality(Counting(new, m))
                       ELSE tally[s][m]
  BY <1>1, <1>2 DEF Add, TypeOK
<1>6. \A k \in MainKinds : k \in Metrics /\ Counting(new, k) = Once!OfKind(new, k)
  BY MainCounting DEF Metrics, OfKind, Once!OfKind
<1>7. count' = [s \in Sources |-> [k \in MainKinds |-> tally'[s][k]]]
  OBVIOUS
<1>8. ASSUME NEW s \in Sources
      PROVE  count'[s] = IF s = src[r]
                         THEN [k \in MainKinds |-> count[s][k] + Cardinality(Once!OfKind(new, k))]
                         ELSE count[s]
  BY <1>5, <1>6, <1>7
<1>9. count' = [count EXCEPT
                  ![src[r]] = [k \in MainKinds |-> @[k] + Cardinality(Once!OfKind(new, k))]]
  BY <1>2, <1>8
<1>10. PICK s \in Sources, E \in SUBSET Events : s = src[r] /\ E = new
  BY <1>1, <1>2
<1>11. Once!Credit(s, E)
  BY <1>3, <1>4, <1>9, <1>10, SameCardinality DEF Once!Credit
<1> QED BY <1>11 DEF Once!Next

LEMMA NextOnce ==
  TypeOK /\ NonceInv /\ [Next]_vars => [Once!Next]_(Once!vars)
<1> SUFFICES ASSUME TypeOK, NonceInv, [Next]_vars
             PROVE  Once!Next \/ UNCHANGED Once!vars
  OBVIOUS
<1>1. CASE Quiet
  BY <1>1, CreditsUnchanged, StutterOnce DEF Quiet
<1>2. ASSUME NEW r \in Requests, CampaignBatch(r) \/ RageBatch(r)
      PROVE  UNCHANGED Once!vars
  <2>1. \A s \in Sources : Credited(s)' = Credited(s)
    BY <1>2 DEF CampaignBatch, RageBatch, LateBatch, Credited
  <2>2. ASSUME NEW s \in Sources, NEW k \in MainKinds
        PROVE  tally'[s][k] = tally[s][k]
    <3>1. k \in Metrics /\ k # "campaign" /\ k # "rage"
      BY DEF Metrics, MainKinds
    <3>2. \/ tally' = tally
          \/ \E E, m : m \in {"campaign", "rage"} /\ tally' = Add(src[r], E, {m})
      BY <1>2 DEF CampaignBatch, RageBatch, LateBatch
    <3>3. CASE tally' = tally
      BY <3>3
    <3>4. ASSUME NEW E, NEW m, m \in {"campaign", "rage"}, tally' = Add(src[r], E, {m})
          PROVE  tally'[s][k] = tally[s][k]
      BY <3>1, <3>4 DEF Add, TypeOK
    <3> QED BY <3>2, <3>3, <3>4
  <2> QED BY <2>1, <2>2, StutterOnce
<1>3. ASSUME NEW r \in Requests, ReleaseNonce(r)
      PROVE  UNCHANGED Once!vars
  BY <1>3, CreditsUnchanged, StutterOnce DEF ReleaseNonce
<1>4. ASSUME NEW r \in Requests, Handle(r) \/ Crash(r)
      PROVE  Once!Next \/ UNCHANGED Once!vars
  BY <1>1, <1>2, <1>3, <1>4, QuietHandle, MainOnce DEF Handle
<1>5. ASSUME NEW r \in Requests, NEW s \in Sources, NEW B \in SUBSET Events,
             Arrive(r, s, B)
      PROVE  UNCHANGED Once!vars
  <2>1. won[r] = {} /\ late[r] = {}
    BY <1>5 DEF Arrive, NonceInv, BeforeMain
  <2>2. /\ UNCHANGED <<tally, won, late>>
        /\ \A q \in Requests : src'[q] = src[q] \/ (won[q] = {} /\ late[q] = {})
    BY <1>5, <2>1 DEF Arrive, counts, TypeOK
  <2> QED BY <2>2, CreditsUnchanged, StutterOnce
<1>6. CASE Tick \/ ApplyMigration \/ (\E s \in Sources : SetActive(s)) \/ UNCHANGED vars
  BY <1>6, <1>1, QuietOutside
<1> QED BY <1>4, <1>5, <1>6 DEF Next

(* recordDashboardRollups' main transaction implements CountOnce: an event *)
(* id is credited to one website of its project, once, ever.               *)
THEOREM IngestImplementsCountOnce == Spec => ImplementsCountOnce
<1> QED
  BY InitType, NextType, InitNonce, NextNonce, InitOnce, NextOnce, PTL
  DEF Spec, ImplementsCountOnce, Once!Spec

(***************************************************************************)
(* The answers a request gets and the limits it keeps: what an accepted or *)
(* a refused request has left behind, how long a nonce stays on a ledger   *)
(* row, and that no row is ever forgotten.                                 *)
(***************************************************************************)
(* The stretches of a handler around PutObject.                            *)
BeforePut == {"idle", "authorize", "second", "day", "put"}
AfterPut == {"rollup", "hourly", "main", "campaign", "rage", "release", "decide"}
AfterMainBatch == {"campaign", "rage", "release", "decide"}

InLedger(r) == \A e \in batch[r] : ledger[Project(r)][e] # Absent

Made(r, m) == Counting(batch[r], m) # {} /\ TableThere(m) => m \in late[r]

(* The handler is past its late counts and none of them failed.            *)
PastLate(r) == result[r] = "none" /\ pc[r] \in {"release", "decide"}

(* What a request has done by the step it is at.                           *)
ProgressInv(r) ==
  /\ pc[r] \in BeforePut => r \notin objects /\ todo[r] = {}
  /\ pc[r] \in AfterPut => r \in objects
  /\ pc[r] # "done" => r \notin decisions
  /\ pc[r] \in AfterMainBatch => InLedger(r)
  /\ result[r] # "none" =>
       pc[r] = "done" \/ (pc[r] \in {"release", "lost"} /\ result[r] = "error")
  /\ pc[r] = "rage" \/ PastLate(r) => Made(r, "campaign")
  /\ PastLate(r) => Made(r, "rage")

(* What it has done when it is answered.                                   *)
AnswerInv(r) ==
  /\ result[r] = "accepted" =>
       /\ r \in objects /\ r \in decisions /\ InLedger(r)
       /\ \A m \in LateMetrics : Made(r, m)
  /\ result[r] \in {"rejected", "throttled", "excluded"} =>
       r \notin objects /\ r \notin decisions /\ won[r] = {} /\ todo[r] = {}

AnswersInv == \A r \in Requests : ProgressInv(r) /\ AnswerInv(r)

(***************************************************************************)
(* The ledger.                                                             *)
(***************************************************************************)
(* A step leaves a row that is there as it is, or releases its nonce.      *)
LEMMA RowsStay ==
  ASSUME TypeOK, [Next]_vars, NEW p \in Projects, NEW e \in Events, ledger[p][e] # Absent
  PROVE  ledger'[p][e] \in {ledger[p][e], Released}
<1>1. ASSUME NEW r \in Requests, MainBatch(r) PROVE ledger'[p][e] \in {ledger[p][e], Released}
  <2>1. \/ ledger' = [ledger EXCEPT ![Project(r)] = Inserted(r)]
        \/ ledger' = [ledger EXCEPT ![Project(r)] = Release(Inserted(r), r)]
    BY <1>1 DEF MainBatch
  <2>2. Inserted(r)[e] = ledger[p][e] \/ p # Project(r)
    BY DEF Inserted
  <2> QED BY <2>1, <2>2 DEF Release, TypeOK
<1>2. ASSUME NEW r \in Requests, ReleaseNonce(r) PROVE ledger'[p][e] \in {ledger[p][e], Released}
  BY <1>2 DEF ReleaseNonce, Release, TypeOK
<1>3. ASSUME NEW r \in Requests, CampaignBatch(r) \/ RageBatch(r) PROVE UNCHANGED ledger
  BY <1>3 DEF CampaignBatch, RageBatch, LateBatch
<1>4. ASSUME NEW r \in Requests, Handle(r) \/ Crash(r)
      PROVE  ledger'[p][e] \in {ledger[p][e], Released}
  <2>1. CASE UNCHANGED ledger
    BY <2>1
  <2> QED BY <1>1, <1>2, <1>3, <1>4, <2>1, QuietHandle DEF Handle, Quiet
<1>5. ASSUME NEW r \in Requests, NEW s \in Sources, NEW B \in SUBSET Events, Arrive(r, s, B)
      PROVE  UNCHANGED ledger
  BY <1>5 DEF Arrive, counts
<1>6. CASE Tick \/ ApplyMigration \/ (\E s \in Sources : SetActive(s)) \/ UNCHANGED vars
  BY <1>6, QuietOutside DEF Quiet
<1> QED BY <1>4, <1>5, <1>6 DEF Next

(* Once an event is in the ledger it stays there, under the nonce of the   *)
(* request that counted it or released: INSERT OR IGNORE takes no row over.*)
THEOREM LedgerKeeps == Spec => LedgerNeverForgets
<1>1. TypeOK /\ [Next]_vars =>
        [\A p \in Projects, e \in Events :
           ledger[p][e] # Absent => ledger'[p][e] \in {ledger[p][e], Released}]_vars
  BY RowsStay
<1> QED BY <1>1, InitType, NextType, PTL DEF Spec, LedgerNeverForgets

(***************************************************************************)
(* Quotas.  A request that reserves brings a batch that passed the limit   *)
(* on its size, so a window's first reservation is at most that limit.     *)
(***************************************************************************)
Reserving(r) == pc[r] \in {"second", "day"}

LimitInv ==
  /\ QuotasHold
  /\ \A r \in Requests : Reserving(r) => Cardinality(batch[r]) <= MaxPerBatch

(* The other steps reserve nothing and bring no request to its quota.      *)
NoReservation ==
  /\ UNCHANGED quotas
  /\ \A q \in Requests : Reserving(q)' => Reserving(q) /\ batch'[q] = batch[q]

LEMMA HandleReservesNothing ==
  ASSUME TypeOK, NEW r \in Requests,
         \/ Refuse(r) \/ Exclude(r) \/ RefuseQuota(r) \/ PutObject(r) \/ RollupEvent(r)
         \/ RollupHour(r) \/ MainBatch(r) \/ MainBatchMissingTable(r) \/ CampaignBatch(r)
         \/ RageBatch(r) \/ LateBatchFails(r) \/ ReleaseNonce(r) \/ SaveDecision(r)
         \/ Fail(r) \/ Crash(r)
  PROVE  NoReservation
<1> USE DEF NoReservation, Reserving, Goto, Answer, Untouched
<1>1. CASE Refuse(r) BY <1>1 DEF Refuse, TypeOK
<1>2. CASE Exclude(r) BY <1>2 DEF Exclude, TypeOK
<1>3. CASE RefuseQuota(r) BY <1>3 DEF RefuseQuota, TypeOK
<1>4. CASE PutObject(r) BY <1>4 DEF PutObject, TypeOK
<1>5. CASE RollupEvent(r) BY <1>5 DEF RollupEvent, EventDone, TypeOK
<1>6. CASE RollupHour(r) BY <1>6 DEF RollupHour, EventDone, TypeOK
<1>7. CASE MainBatch(r)
  <2>1. AfterMain(r) \in {"campaign", "rage", "decide"}
    BY DEF AfterMain
  <2> QED BY <1>7, <2>1 DEF MainBatch, TypeOK
<1>8. CASE MainBatchMissingTable(r) BY <1>8 DEF MainBatchMissingTable, TypeOK
<1>9. CASE CampaignBatch(r) BY <1>9 DEF CampaignBatch, LateBatch, TypeOK
<1>10. CASE RageBatch(r) BY <1>10 DEF RageBatch, LateBatch, TypeOK
<1>11. CASE LateBatchFails(r) BY <1>11 DEF LateBatchFails, TypeOK
<1>12. CASE ReleaseNonce(r) BY <1>12 DEF ReleaseNonce, TypeOK
<1>13. CASE SaveDecision(r) BY <1>13 DEF SaveDecision, TypeOK
<1>14. CASE Fail(r) BY <1>14 DEF Fail, TypeOK
<1>15. CASE Crash(r) BY <1>15 DEF Crash, TypeOK
<1> QED
  BY <1>1, <1>2, <1>3, <1>4, <1>5, <1>6, <1>7, <1>8, <1>9, <1>10, <1>11, <1>12,
     <1>13, <1>14, <1>15

LEMMA OutsideReservesNothing ==
  ASSUME \/ Tick
         \/ ApplyMigration
         \/ \E s \in Sources : SetActive(s)
         \/ UNCHANGED vars
  PROVE  NoReservation
<1> USE DEF NoReservation, Reserving, Outside, handler, quotas
<1>1. CASE Tick BY <1>1 DEF Tick
<1>2. CASE ApplyMigration BY <1>2 DEF ApplyMigration
<1>3. CASE \E s \in Sources : SetActive(s) BY <1>3 DEF SetActive
<1>4. CASE UNCHANGED vars BY <1>4 DEF vars
<1> QED BY <1>1, <1>2, <1>3, <1>4

LEMMA ArrivalReservesNothing ==
  ASSUME TypeOK, NEW r \in Requests, NEW s \in Sources, NEW B \in SUBSET Events,
         Arrive(r, s, B)
  PROVE  NoReservation
BY DEF Arrive, Goto, NoReservation, Reserving, TypeOK

LEMMA NoReservationKeepsLimits == LimitInv /\ NoReservation => LimitInv'
BY DEF LimitInv, NoReservation, QuotasHold, quotas

LEMMA SecondKeepsLimits ==
  ASSUME TypeOK, LimitInv, NEW r \in Requests, ReserveSecond(r)
  PROVE  LimitInv'
<1> DEFINE n == Cardinality(batch[r])
<1>1. n \in Nat /\ n <= MaxPerBatch
  BY EventsFinite DEF LimitInv, Reserving, ReserveSecond, TypeOK
<1>2. \A q \in Requests : Reserving(q)' => Reserving(q) /\ batch'[q] = batch[q]
  BY DEF ReserveSecond, Goto, Untouched, Reserving, TypeOK
<1>3. \A s \in Sources, t \in Seconds :
        secondUsed'[s][t] = IF s = src[r] /\ t = at[r]
                            THEN secondUsed[s][t] + n ELSE secondUsed[s][t]
  BY DEF ReserveSecond, TypeOK
<1>4. LET used == secondUsed[src[r]][at[r]] IN used = 0 \/ used + n <= MaxPerSecond
  BY DEF ReserveSecond, Fits
<1>5. ASSUME NEW s \in Sources, NEW t \in Seconds
      PROVE  secondUsed'[s][t] <= MaxPerSecond \/ secondUsed'[s][t] <= MaxPerBatch
  <2>1. /\ secondUsed[s][t] \in Nat
        /\ secondUsed[s][t] <= MaxPerSecond \/ secondUsed[s][t] <= MaxPerBatch
    BY DEF LimitInv, QuotasHold, TypeOK
  <2>2. CASE s = src[r] /\ t = at[r]
    BY <1>1, <1>3, <1>4, <2>1, <2>2, QuotaAssumption
  <2>3. CASE ~(s = src[r] /\ t = at[r])
    BY <1>3, <2>1, <2>3
  <2> QED BY <2>2, <2>3
<1>6. UNCHANGED dayUsed
  BY DEF ReserveSecond
<1> QED BY <1>2, <1>5, <1>6 DEF LimitInv, QuotasHold

LEMMA DayKeepsLimits ==
  ASSUME TypeOK, LimitInv, NEW r \in Requests, ReserveDay(r)
  PROVE  LimitInv'
<1> DEFINE n == Cardinality(batch[r])
           d == Day(at[r])
<1>1. n \in Nat /\ n <= MaxPerBatch
  BY EventsFinite DEF LimitInv, Reserving, ReserveDay, TypeOK
<1>2. \A q \in Requests : Reserving(q)' => Reserving(q) /\ batch'[q] = batch[q]
  BY DEF ReserveDay, Goto, Untouched, Reserving, TypeOK
<1>3. d \in Days
  BY DayType DEF TypeOK
<1> HIDE DEF d
<1>4. /\ dayUsed' = [dayUsed EXCEPT ![src[r]][d] = @ + n]
      /\ Fits(dayUsed[src[r]][d], n, MaxPerDay)
      /\ UNCHANGED secondUsed
  BY DEF ReserveDay, d
<1>5. ASSUME NEW s \in Sources, NEW e \in Days
      PROVE  dayUsed'[s][e] <= MaxPerDay
  <2>1. dayUsed'[s][e] = IF s = src[r] /\ e = d THEN dayUsed[s][e] + n ELSE dayUsed[s][e]
    BY <1>3, <1>4 DEF TypeOK
  <2>2. dayUsed[s][e] \in Nat /\ dayUsed[s][e] <= MaxPerDay
    BY DEF LimitInv, QuotasHold, TypeOK
  <2>3. CASE s = src[r] /\ e = d
    <3>1. dayUsed[s][e] = 0 \/ dayUsed[s][e] + n <= MaxPerDay
      BY <1>4, <2>3 DEF Fits
    <3> QED BY <1>1, <2>1, <2>2, <2>3, <3>1, QuotaAssumption
  <2> QED BY <2>1, <2>2, <2>3
<1> QED BY <1>2, <1>4, <1>5 DEF LimitInv, QuotasHold

(* Only a batch of a permitted size goes on to its quota.                  *)
LEMMA AdmitKeepsLimits ==
  ASSUME TypeOK, LimitInv, NEW r \in Requests, Admit(r)
  PROVE  LimitInv'
<1>1. UNCHANGED quotas /\ UNCHANGED batch
  BY DEF Admit, Untouched
<1>2. \A q \in Requests : Reserving(q)' => Reserving(q) \/ Cardinality(batch[q]) <= MaxPerBatch
  BY DEF Admit, Goto, Reserving, TypeOK
<1> QED BY <1>1, <1>2 DEF LimitInv, QuotasHold, quotas

LEMMA NextLimits == TypeOK /\ LimitInv /\ [Next]_vars => LimitInv'
<1> SUFFICES ASSUME TypeOK, LimitInv, [Next]_vars PROVE LimitInv'
  OBVIOUS
<1>1. ASSUME NEW r \in Requests, Handle(r) \/ Crash(r) PROVE LimitInv'
  BY <1>1, HandleReservesNothing, NoReservationKeepsLimits, AdmitKeepsLimits,
     SecondKeepsLimits, DayKeepsLimits DEF Handle
<1>2. ASSUME NEW r \in Requests, NEW s \in Sources, NEW B \in SUBSET Events, Arrive(r, s, B)
      PROVE  LimitInv'
  BY <1>2, ArrivalReservesNothing, NoReservationKeepsLimits
<1>3. CASE Tick \/ ApplyMigration \/ (\E s \in Sources : SetActive(s)) \/ UNCHANGED vars
  BY <1>3, OutsideReservesNothing, NoReservationKeepsLimits
<1> QED BY <1>1, <1>2, <1>3 DEF Next

LEMMA InitLimits == Init => LimitInv
BY QuotaAssumption DEF Init, LimitInv, QuotasHold, Reserving

(* No day of a website goes over its limit, however many requests reserve  *)
(* at the same time, and a second only by its first batch.                 *)
THEOREM LimitsHold == Spec => []QuotasHold
<1>1. LimitInv => QuotasHold
  BY DEF LimitInv
<1> QED BY <1>1, InitType, NextType, InitLimits, NextLimits, PTL DEF Spec

(***************************************************************************)
(* Answers.  A step of one request leaves what the others have done alone, *)
(* and a ledger row a request relies on is never removed.                  *)
(***************************************************************************)
Same(q) ==
  /\ pc'[q] = pc[q] /\ result'[q] = result[q]
  /\ src'[q] = src[q] /\ batch'[q] = batch[q]
  /\ todo'[q] = todo[q] /\ won'[q] = won[q] /\ late'[q] = late[q]
  /\ q \in objects' <=> q \in objects
  /\ q \in decisions' <=> q \in decisions

LEMMA LedgerStays ==
  ASSUME TypeOK, [Next]_vars, NEW q \in Requests, InLedger(q),
         src'[q] = src[q], batch'[q] = batch[q]
  PROVE  InLedger(q)'
<1>1. Project(q)' = Project(q) /\ Project(q) \in Projects /\ batch[q] \subseteq Events
  BY SourcesAssumption DEF Project, TypeOK
<1>2. \A e \in batch[q] : ledger'[Project(q)][e] # Absent
  BY <1>1, RowsStay, NonceAssumption DEF InLedger
<1> QED BY <1>1, <1>2 DEF InLedger

LEMMA SameKeepsAnswer ==
  ASSUME TypeOK, [Next]_vars, NEW q \in Requests, ProgressInv(q), AnswerInv(q), Same(q)
  PROVE  ProgressInv(q)' /\ AnswerInv(q)'
<1>1. InLedger(q) => InLedger(q)'
  BY LedgerStays DEF Same
<1>2. \A m : Made(q, m)' <=> Made(q, m)
  BY DEF Made, Same
<1>3. PastLate(q)' <=> PastLate(q)
  BY DEF PastLate, Same
<1>4. ProgressInv(q)'
  BY <1>1, <1>2, <1>3 DEF ProgressInv, Same
<1>5. AnswerInv(q)'
  BY <1>1, <1>2 DEF AnswerInv, Same
<1> QED BY <1>4, <1>5

LEMMA OthersSame ==
  ASSUME TypeOK, NEW r \in Requests, Handle(r) \/ Crash(r)
  PROVE  /\ \A q \in Requests \ {r} : Same(q)
         /\ src'[r] = src[r] /\ batch'[r] = batch[r]
<1> USE DEF Same, Goto, Answer, Untouched, counts, TypeOK
<1>1. CASE Refuse(r) BY <1>1 DEF Refuse
<1>2. CASE Exclude(r) BY <1>2 DEF Exclude
<1>3. CASE Admit(r) BY <1>3 DEF Admit
<1>4. CASE ReserveSecond(r) BY <1>4 DEF ReserveSecond
<1>5. CASE ReserveDay(r) BY <1>5 DEF ReserveDay
<1>6. CASE RefuseQuota(r) BY <1>6 DEF RefuseQuota
<1>7. CASE PutObject(r) BY <1>7 DEF PutObject
<1>8. CASE RollupEvent(r) BY <1>8 DEF RollupEvent, EventDone
<1>9. CASE RollupHour(r) BY <1>9 DEF RollupHour, EventDone
<1>10. CASE MainBatch(r) BY <1>10 DEF MainBatch
<1>11. CASE MainBatchMissingTable(r) BY <1>11 DEF MainBatchMissingTable
<1>12. CASE CampaignBatch(r) BY <1>12 DEF CampaignBatch, LateBatch
<1>13. CASE RageBatch(r) BY <1>13 DEF RageBatch, LateBatch
<1>14. CASE LateBatchFails(r) BY <1>14 DEF LateBatchFails
<1>15. CASE ReleaseNonce(r) BY <1>15 DEF ReleaseNonce
<1>16. CASE SaveDecision(r) BY <1>16 DEF SaveDecision
<1>17. CASE Fail(r) BY <1>17 DEF Fail
<1>18. CASE Crash(r) BY <1>18 DEF Crash
<1> QED
  BY <1>1, <1>2, <1>3, <1>4, <1>5, <1>6, <1>7, <1>8, <1>9, <1>10, <1>11, <1>12,
     <1>13, <1>14, <1>15, <1>16, <1>17, <1>18 DEF Handle

(* A refusal comes before anything is stored or credited.                  *)
LEMMA RefusalAnswers ==
  ASSUME TypeOK, NonceInv, NEW r \in Requests, ProgressInv(r), AnswerInv(r),
         Refuse(r) \/ Exclude(r) \/ RefuseQuota(r)
  PROVE  ProgressInv(r)' /\ AnswerInv(r)'
<1>1. /\ pc[r] \in {"authorize", "second", "day"}
      /\ pc'[r] = "done" /\ result'[r] \in {"rejected", "throttled", "excluded"}
      /\ UNCHANGED <<objects, decisions, won, todo>>
  BY DEF Refuse, Exclude, RefuseQuota, Answer, Untouched, counts, TypeOK
<1>2. r \notin objects /\ r \notin decisions /\ todo[r] = {} /\ won[r] = {}
  BY <1>1 DEF ProgressInv, BeforePut, NonceInv, BeforeMain
<1>3. ProgressInv(r)'
  BY <1>1 DEF ProgressInv, BeforePut, AfterPut, AfterMainBatch, PastLate
<1>4. AnswerInv(r)'
  BY <1>1, <1>2 DEF AnswerInv
<1> QED BY <1>3, <1>4

(* A handler that ends in an error, or goes away, promised nothing.        *)
LEMMA FailureAnswers ==
  ASSUME TypeOK, NEW r \in Requests, ProgressInv(r),
         Fail(r) \/ MainBatchMissingTable(r) \/ Crash(r)
  PROVE  ProgressInv(r)' /\ AnswerInv(r)'
<1>1. \/ pc'[r] = "done" /\ result'[r] = "error"
      \/ pc'[r] = "lost" /\ result'[r] \in {"none", "error"} /\ r \notin decisions'
  BY DEF Fail, MainBatchMissingTable, Crash, Running, Answer, Goto, ProgressInv, TypeOK
<1> QED
  BY <1>1 DEF ProgressInv, AnswerInv, BeforePut, AfterPut, AfterMainBatch, PastLate

(* Up to PutObject the batch is nowhere; PutObject stores it.              *)
LEMMA StoringAnswers ==
  ASSUME TypeOK, NEW r \in Requests, ProgressInv(r),
         \/ Admit(r) \/ ReserveSecond(r) \/ ReserveDay(r)
         \/ PutObject(r) \/ RollupEvent(r) \/ RollupHour(r)
  PROVE  ProgressInv(r)' /\ AnswerInv(r)'
<1>1. /\ pc[r] \in BeforePut \cup {"rollup", "hourly"}
      /\ UNCHANGED <<result, decisions>>
  BY DEF Admit, ReserveSecond, ReserveDay, PutObject, RollupEvent, RollupHour, EventDone,
         Goto, BeforePut, Untouched
<1>2. result'[r] = "none" /\ r \notin decisions'
  BY <1>1 DEF ProgressInv, BeforePut
<1>3. \/ pc'[r] \in {"second", "day", "put"} /\ r \notin objects' /\ todo'[r] = {}
      \/ pc'[r] \in {"rollup", "hourly", "main"} /\ r \in objects'
  <2>1. CASE Admit(r) \/ ReserveSecond(r) \/ ReserveDay(r)
    BY <2>1 DEF Admit, ReserveSecond, ReserveDay, Goto, Untouched, ProgressInv, BeforePut,
                TypeOK
  <2>2. CASE PutObject(r)
    BY <2>2 DEF PutObject, Goto, TypeOK
  <2>3. CASE RollupEvent(r)
    BY <2>3 DEF RollupEvent, EventDone, Goto, ProgressInv, AfterPut, TypeOK
  <2>4. CASE RollupHour(r)
    BY <2>4 DEF RollupHour, EventDone, Goto, ProgressInv, AfterPut, TypeOK
  <2> QED BY <2>1, <2>2, <2>3, <2>4
<1> QED
  BY <1>2, <1>3 DEF ProgressInv, AnswerInv, BeforePut, AfterPut, AfterMainBatch, PastLate

(* The main transaction puts every event of the batch in the ledger; it    *)
(* goes straight to the decision when there is nothing late to count.      *)
LEMMA MainAnswers ==
  ASSUME TypeOK, [Next]_vars, NEW r \in Requests, ProgressInv(r), MainBatch(r)
  PROVE  ProgressInv(r)' /\ AnswerInv(r)'
<1>1. /\ pc[r] = "main" /\ pc'[r] = AfterMain(r)
      /\ AfterMain(r) \in {"campaign", "rage", "decide"}
      /\ UNCHANGED <<result, src, batch, objects, decisions>>
  BY DEF MainBatch, Goto, AfterMain, TypeOK
<1>2. result[r] = "none" /\ r \in objects /\ r \notin decisions
  BY <1>1 DEF ProgressInv, AfterPut
<1>3. InLedger(r)'
  <2>1. Project(r) \in Projects /\ batch[r] \subseteq Events /\ Project(r)' = Project(r)
    BY <1>1, SourcesAssumption DEF Project, TypeOK
  <2>2. \A e \in batch[r] : Inserted(r)[e] # Absent
    BY <2>1, NonceAssumption DEF Inserted
  <2>3. \A e \in batch[r] : Release(Inserted(r), r)[e] # Absent
    BY <2>1, <2>2, NonceAssumption DEF Release
  <2>4. \A e \in batch[r] : ledger'[Project(r)][e] # Absent
    BY <2>1, <2>2, <2>3 DEF MainBatch, TypeOK
  <2> QED BY <1>1, <2>1, <2>4 DEF InLedger
<1>4. /\ pc'[r] # "campaign" => Counting(batch'[r], "campaign") = {}
      /\ pc'[r] = "decide" => Counting(batch'[r], "rage") = {}
  BY <1>1 DEF AfterMain, HasCampaign, HasRage, Counting
<1>5. ProgressInv(r)'
  BY <1>1, <1>2, <1>3, <1>4
  DEF ProgressInv, BeforePut, AfterPut, AfterMainBatch, PastLate, Made
<1>6. AnswerInv(r)'
  BY <1>1, <1>2 DEF AnswerInv
<1> QED BY <1>5, <1>6

(* A late transaction counts its metric if the table was there all along,  *)
(* since migrations are never undone; one that fails ends in a 500.        *)
LEMMA LateAnswers ==
  ASSUME TypeOK, [Next]_vars, NEW r \in Requests, ProgressInv(r),
         CampaignBatch(r) \/ RageBatch(r) \/ LateBatchFails(r)
  PROVE  ProgressInv(r)' /\ AnswerInv(r)'
<1>1. /\ pc[r] \in {"campaign", "rage"} /\ pc'[r] \in {"rage", "release"}
      /\ UNCHANGED <<src, batch, objects, decisions>>
      /\ result'[r] \in {result[r], "error"}
  BY DEF CampaignBatch, RageBatch, LateBatchFails, LateBatch, Goto, Untouched, TypeOK
<1>2. result[r] = "none" /\ r \in objects /\ r \notin decisions /\ InLedger(r)
  BY <1>1 DEF ProgressInv, AfterPut, AfterMainBatch
<1>3. InLedger(r)'
  BY <1>1, <1>2, LedgerStays
<1>4. ASSUME NEW m, Made(r, m), UNCHANGED late \/ late'[r] = late[r] \cup {"rage"}
      PROVE  Made(r, m)'
  BY <1>1, <1>4 DEF Made
<1>5. CASE CampaignBatch(r)
  <2>1. Made(r, "campaign")'
    BY <1>1, <1>5, ClockAssumption
    DEF CampaignBatch, LateBatch, Made, TableThere, CampaignSchema, RageSchema, TypeOK
  <2>2. pc'[r] = "release" => Made(r, "rage")'
    BY <1>1, <1>5 DEF CampaignBatch, Goto, HasRage, Made, Counting, TypeOK
  <2>3. result'[r] = "none"
    BY <1>2, <1>5 DEF CampaignBatch, Goto
  <2> QED
    BY <1>1, <1>2, <1>3, <2>1, <2>2, <2>3
    DEF ProgressInv, AnswerInv, BeforePut, AfterPut, AfterMainBatch, PastLate
<1>6. CASE RageBatch(r)
  <2>1. pc[r] = "rage" /\ pc'[r] = "release" /\ result'[r] = "none"
    BY <1>2, <1>6 DEF RageBatch, Goto, TypeOK
  <2>2. Made(r, "rage")'
    BY <1>1, <1>6, ClockAssumption
    DEF RageBatch, LateBatch, Made, TableThere, CampaignSchema, RageSchema, TypeOK
  <2>3. UNCHANGED late \/ late'[r] = late[r] \cup {"rage"}
    BY <1>6 DEF RageBatch, LateBatch, TypeOK
  <2>4. Made(r, "campaign")'
    BY <2>1, <2>3, <1>4 DEF ProgressInv
  <2> QED
    BY <1>1, <1>2, <1>3, <2>1, <2>2, <2>4
    DEF ProgressInv, AnswerInv, BeforePut, AfterPut, AfterMainBatch, PastLate
<1>7. CASE LateBatchFails(r)
  <2>1. pc'[r] = "release" /\ result'[r] = "error"
    BY <1>7 DEF LateBatchFails, TypeOK
  <2> QED
    BY <1>1, <1>2, <1>3, <2>1
    DEF ProgressInv, AnswerInv, BeforePut, AfterPut, AfterMainBatch, PastLate
<1> QED BY <1>5, <1>6, <1>7

(* Releasing the nonce and saving the decision change nothing counted.     *)
LEMMA DecisionAnswers ==
  ASSUME TypeOK, [Next]_vars, NEW r \in Requests, ProgressInv(r),
         ReleaseNonce(r) \/ SaveDecision(r)
  PROVE  ProgressInv(r)' /\ AnswerInv(r)'
<1>1. /\ pc[r] \in {"release", "decide"}
      /\ UNCHANGED <<src, batch, objects, late>>
  BY DEF ReleaseNonce, SaveDecision, Untouched, counts
<1>2. /\ r \in objects /\ r \notin decisions /\ InLedger(r)
      /\ result[r] \in {"none", "error"}
      /\ pc[r] = "decide" => result[r] = "none"
  BY <1>1 DEF ProgressInv, AfterPut, AfterMainBatch
<1>3. InLedger(r)'
  BY <1>1, <1>2, LedgerStays
<1>4. \A m : Made(r, m) => Made(r, m)'
  BY <1>1 DEF Made
<1>5. result[r] = "none" => Made(r, "campaign")' /\ Made(r, "rage")'
  BY <1>1, <1>4 DEF ProgressInv, PastLate
<1>6. CASE ReleaseNonce(r)
  <2>1. /\ result'[r] = result[r] /\ r \notin decisions'
        /\ pc'[r] = IF result[r] = "error" THEN "done" ELSE "decide"
    BY <1>2, <1>6 DEF ReleaseNonce, Goto, TypeOK
  <2> QED
    BY <1>1, <1>2, <1>3, <1>5, <2>1
    DEF ProgressInv, AnswerInv, BeforePut, AfterPut, AfterMainBatch, PastLate
<1>7. CASE SaveDecision(r)
  <2>1. pc[r] = "decide" /\ pc'[r] = "done" /\ result'[r] = "accepted" /\ r \in decisions'
    BY <1>7 DEF SaveDecision, Answer, TypeOK
  <2> QED
    BY <1>1, <1>2, <1>3, <1>5, <2>1
    DEF ProgressInv, AnswerInv, BeforePut, AfterPut, AfterMainBatch, PastLate, LateMetrics
<1> QED BY <1>6, <1>7

(* Every step of a handler keeps what its own request has been promised.   *)
LEMMA OwnAnswers ==
  ASSUME TypeOK, NonceInv, [Next]_vars, NEW r \in Requests, ProgressInv(r), AnswerInv(r),
         Handle(r) \/ Crash(r)
  PROVE  ProgressInv(r)' /\ AnswerInv(r)'
BY RefusalAnswers, FailureAnswers, StoringAnswers, MainAnswers, LateAnswers,
   DecisionAnswers DEF Handle

LEMMA ArrivalAnswers ==
  ASSUME TypeOK, NEW r \in Requests, NEW s \in Sources, NEW B \in SUBSET Events,
         Arrive(r, s, B), ProgressInv(r)
  PROVE  ProgressInv(r)' /\ AnswerInv(r)' /\ \A q \in Requests \ {r} : Same(q)
<1>1. /\ pc[r] = "idle" /\ pc'[r] = "authorize"
      /\ UNCHANGED <<result, objects, decisions, todo>>
  BY DEF Arrive, Goto, TypeOK
<1>2. result[r] = "none" /\ r \notin objects /\ todo[r] = {} /\ r \notin decisions
  BY <1>1 DEF ProgressInv, BeforePut
<1>3. ProgressInv(r)' /\ AnswerInv(r)'
  BY <1>1, <1>2
  DEF ProgressInv, AnswerInv, BeforePut, AfterPut, AfterMainBatch, PastLate
<1>4. \A q \in Requests \ {r} : Same(q)
  BY DEF Arrive, Goto, counts, Same, TypeOK
<1> QED BY <1>3, <1>4

LEMMA OutsideSame ==
  ASSUME \/ Tick
         \/ ApplyMigration
         \/ \E s \in Sources : SetActive(s)
         \/ UNCHANGED vars
  PROVE  \A q \in Requests : Same(q)
BY DEF Tick, ApplyMigration, SetActive, Outside, handler, vars, Same

LEMMA NextAnswers == TypeOK /\ NonceInv /\ AnswersInv /\ [Next]_vars => AnswersInv'
<1> SUFFICES ASSUME TypeOK, NonceInv, AnswersInv, [Next]_vars,
                    NEW q \in Requests
             PROVE  ProgressInv(q)' /\ AnswerInv(q)'
  BY DEF AnswersInv
<1>1. ProgressInv(q) /\ AnswerInv(q)
  BY DEF AnswersInv
<1>2. Same(q) => ProgressInv(q)' /\ AnswerInv(q)'
  BY <1>1, SameKeepsAnswer
<1>3. ASSUME NEW r \in Requests, Handle(r) \/ Crash(r)
      PROVE  ProgressInv(q)' /\ AnswerInv(q)'
  BY <1>1, <1>2, <1>3, OwnAnswers, OthersSame
<1>4. ASSUME NEW r \in Requests, NEW s \in Sources, NEW B \in SUBSET Events, Arrive(r, s, B)
      PROVE  ProgressInv(q)' /\ AnswerInv(q)'
  BY <1>1, <1>2, <1>4, ArrivalAnswers DEF AnswersInv
<1>5. CASE Tick \/ ApplyMigration \/ (\E s \in Sources : SetActive(s)) \/ UNCHANGED vars
  BY <1>2, <1>5, OutsideSame
<1> QED BY <1>3, <1>4, <1>5 DEF Next

LEMMA InitAnswers == Init => AnswersInv
BY DEF Init, AnswersInv, ProgressInv, AnswerInv, BeforePut, AfterPut, AfterMainBatch, PastLate

(* A 202 "accepted" is given only when the raw batch is in R2, its events  *)
(* are in the ledger, the decision is recorded and the late counts made.   *)
THEOREM AcceptedMeansCounted == Spec => []AcceptedIsCounted
<1>1. AnswersInv => AcceptedIsCounted
  BY DEF AnswersInv, AnswerInv, AcceptedIsCounted, InLedger, Made
<1> QED
  BY <1>1, InitType, NextType, InitNonce, NextNonce, InitAnswers, NextAnswers, PTL DEF Spec

(* A batch that was refused or excluded reached no storage at all.         *)
THEOREM RefusedMeansNothing == Spec => []RefusedLeavesNoTrace
<1>1. AnswersInv => RefusedLeavesNoTrace
  BY DEF AnswersInv, AnswerInv, RefusedLeavesNoTrace
<1> QED
  BY <1>1, InitType, NextType, InitNonce, NextNonce, InitAnswers, NextAnswers, PTL DEF Spec

(***************************************************************************)
(* The nonce.  A step writes no nonce but its own request's, and a request *)
(* that leaves the stretch in which it may hold rows has released them, or *)
(* was cut short.                                                          *)
(***************************************************************************)
Holding(q) == pc[q] \in {"campaign", "rage", "release", "lost"} \/ result[q] = "error"

Held(q) == \E p \in Projects, e \in Events : ledger[p][e] = q

HeldInv == \A q \in Requests : Held(q) => Holding(q)

LEMMA RowsOfOthers ==
  ASSUME TypeOK, NEW r \in Requests, Handle(r) \/ Crash(r), NEW q \in Requests, q # r, Held(q)'
  PROVE  Held(q)
<1>1. PICK p \in Projects, e \in Events : ledger'[p][e] = q
  BY DEF Held
<1>2. CASE MainBatch(r)
  <2>1. Inserted(r)[e] \in {r, ledger[Project(r)][e]}
    BY DEF Inserted
  <2>2. Release(Inserted(r), r)[e] \in {r, Released, ledger[Project(r)][e]}
    BY <2>1 DEF Release
  <2>3. ledger'[p][e] \in {r, Released, ledger[p][e]}
    BY <1>2, <2>1, <2>2 DEF MainBatch, TypeOK
  <2> QED BY <1>1, <2>3, NonceAssumption DEF Held
<1>3. CASE ReleaseNonce(r)
  <2>1. ledger'[p][e] \in {Released, ledger[p][e]}
    BY <1>3 DEF ReleaseNonce, Release, TypeOK
  <2> QED BY <1>1, <2>1, NonceAssumption DEF Held
<1>4. CASE CampaignBatch(r) \/ RageBatch(r)
  BY <1>1, <1>4 DEF CampaignBatch, RageBatch, LateBatch, Held
<1>5. CASE Quiet
  BY <1>1, <1>5 DEF Quiet, Held
<1> QED BY <1>2, <1>3, <1>4, <1>5, QuietHandle DEF Handle

(* Nothing is left under a nonce by the two steps that release it.         *)
LEMMA ReleaseClears ==
  ASSUME TypeOK, NonceInv, NEW r \in Requests,
         ReleaseNonce(r) \/ (MainBatch(r) /\ AfterMain(r) = "decide")
  PROVE  ~Held(r)'
<1> DEFINE P == Project(r)
<1>1. \E rows : ledger' = [ledger EXCEPT ![P] = Release(rows, r)]
  BY DEF ReleaseNonce, MainBatch
<1>2. P \in Projects
  BY SourcesAssumption DEF Project, TypeOK
<1>3. \A e \in Events : ledger'[P][e] # r
  BY <1>1, <1>2, NonceAssumption DEF Release, TypeOK
<1>4. \A p \in Projects \ {P}, e \in Events : ledger'[p][e] # r
  <2>1. \A p \in Projects \ {P}, e \in Events : ledger[p][e] # r
    BY DEF NonceInv
  <2>2. \A p \in Projects \ {P} : ledger'[p] = ledger[p]
    BY <1>1, <1>2 DEF TypeOK
  <2> QED BY <2>1, <2>2
<1> QED BY <1>3, <1>4 DEF Held

(* Any other step of a handler keeps it in the stretch, or ends in error.  *)
LEMMA HoldingStays ==
  ASSUME TypeOK, NEW r \in Requests, ProgressInv(r), Holding(r), Handle(r) \/ Crash(r)
  PROVE  Holding(r)' \/ ReleaseNonce(r)
<1> USE DEF Holding
<1>1. CASE Fail(r) \/ MainBatchMissingTable(r) \/ LateBatchFails(r)
  BY <1>1 DEF Fail, MainBatchMissingTable, LateBatchFails, Answer, TypeOK
<1>2. CASE Crash(r)
  BY <1>2 DEF Crash, Goto, TypeOK
<1>3. CASE CampaignBatch(r) \/ RageBatch(r)
  BY <1>3 DEF CampaignBatch, RageBatch, Goto, TypeOK
<1>4. pc[r] \notin {"campaign", "rage", "release", "lost"} => pc[r] = "done"
  BY DEF ProgressInv
<1>5. Handle(r) =>
        \/ Fail(r) \/ MainBatchMissingTable(r) \/ LateBatchFails(r)
        \/ CampaignBatch(r) \/ RageBatch(r) \/ ReleaseNonce(r)
  BY <1>4 DEF Handle, Refuse, Exclude, Admit, ReserveSecond, ReserveDay, RefuseQuota, PutObject,
              RollupEvent, RollupHour, MainBatch, SaveDecision
<1> QED BY <1>1, <1>2, <1>3, <1>5

LEMMA NextHeld ==
  TypeOK /\ NonceInv /\ AnswersInv /\ HeldInv /\ [Next]_vars => HeldInv'
<1> SUFFICES ASSUME TypeOK, NonceInv, AnswersInv, HeldInv, [Next]_vars,
                    NEW q \in Requests, Held(q)'
             PROVE  Holding(q)'
  BY DEF HeldInv
<1>1. ASSUME Same(q), Held(q) PROVE Holding(q)'
  BY <1>1 DEF HeldInv, Holding, Same
<1>2. ASSUME NEW r \in Requests, Handle(r) \/ Crash(r) PROVE Holding(q)'
  <2>1. CASE q # r
    BY <1>1, <1>2, <2>1, RowsOfOthers, OthersSame
  <2>2. CASE q = r /\ MainBatch(r)
    <3>1. AfterMain(r) \in {"campaign", "rage"}
      BY <2>2, ReleaseClears DEF AfterMain
    <3> QED BY <2>2, <3>1 DEF MainBatch, Goto, Holding, TypeOK
  <2>3. CASE q = r /\ ~MainBatch(r)
    <3>1. Held(q) \/ ReleaseNonce(r)
      <4>1. CASE Quiet
        BY <4>1 DEF Quiet, Held
      <4>2. CASE CampaignBatch(r) \/ RageBatch(r)
        BY <4>2 DEF CampaignBatch, RageBatch, LateBatch, Held
      <4> QED BY <1>2, <2>3, <4>1, <4>2, QuietHandle DEF Handle
    <3>2. Held(q) /\ ~ReleaseNonce(r)
      BY <2>3, <3>1, ReleaseClears
    <3> QED BY <1>2, <2>3, <3>2, HoldingStays DEF HeldInv, AnswersInv
  <2> QED BY <2>1, <2>2, <2>3
<1>3. ASSUME NEW r \in Requests, NEW s \in Sources, NEW B \in SUBSET Events, Arrive(r, s, B)
      PROVE  Holding(q)'
  <2>1. Held(q)
    BY <1>3 DEF Arrive, counts, Held
  <2>2. q # r
    BY <1>3, <2>1 DEF Arrive, HeldInv, Holding, AnswersInv, ProgressInv
  <2> QED BY <1>1, <1>3, <2>1, <2>2, ArrivalAnswers DEF AnswersInv
<1>4. CASE Tick \/ ApplyMigration \/ (\E s \in Sources : SetActive(s)) \/ UNCHANGED vars
  <2>1. Held(q)
    BY <1>4, QuietOutside DEF Quiet, Held
  <2> QED BY <1>1, <1>4, <2>1, OutsideSame
<1> QED BY <1>2, <1>3, <1>4 DEF Next

LEMMA InitHeld == Init => HeldInv
BY NonceAssumption DEF Init, HeldInv, Held

(* A ledger row bears a nonce only while its request is between its main   *)
(* transaction and the release, or if that request failed or was lost.     *)
THEOREM NonceIsReleased == Spec => []NonceHeldOnlyMeanwhile
<1>1. HeldInv => NonceHeldOnlyMeanwhile
  BY DEF HeldInv, Held, Holding, NonceHeldOnlyMeanwhile
<1> QED
  BY <1>1, InitType, NextType, InitNonce, NextNonce, InitAnswers, NextAnswers, InitHeld,
     NextHeld, PTL DEF Spec

(***************************************************************************)
(* The older counters, written event by event before the main transaction. *)
(***************************************************************************)
(* The page views of website s counted in their hour, each by the request  *)
(* that did; and the requests that have counted a view in the daily rollup *)
(* and not yet in its hour.                                                *)
HourDone(s) ==
  {x \in objects \X Events :
     src[x[1]] = s /\ x[2] \in OfKind(batch[x[1]], "view") \ todo[x[1]]}
MidView(s) == {r \in Requests : src[r] = s /\ pc[r] = "hourly"}

(* A request writes its older counters before its main transaction: it is  *)
(* at one of its own events until none is left.                            *)
WriteInv(r) ==
  /\ todo[r] \subseteq batch[r]
  /\ pc[r] \in {"rollup", "hourly"} => todo[r] # {}
  /\ pc[r] = "hourly" => KindOf[Current(r)] = "view"
  /\ pc[r] = "main" => todo[r] = {}
  /\ won[r] # {} => r \in objects /\ todo[r] = {}

(* The hourly counter is the number of views counted there; the daily one  *)
(* is ahead of it by the views in between at least.                        *)
HourInv(s) ==
  /\ IsFiniteSet(HourDone(s)) /\ hourly[s] = Cardinality(HourDone(s))
  /\ IsFiniteSet(MidView(s)) /\ hourly[s] + Cardinality(MidView(s)) <= rollups[s]

WritesInv == \A r \in Requests : WriteInv(r)
LegacyInv == \A s \in Sources : HourInv(s)

(* The event a request is at is one of those it has to write.              *)
LEMMA CurrentIsTodo ==
  ASSUME NEW r, todo[r] # {} PROVE Current(r) \in todo[r]
BY Zenon DEF Current

LEMMA CurrentStays ==
  ASSUME NEW r, todo'[r] = todo[r] PROVE Current(r)' = Current(r)
BY Zenon DEF Current

LEMMA SameKeepsWrites ==
  ASSUME NEW q \in Requests, WriteInv(q), Same(q) PROVE WriteInv(q)'
BY CurrentStays DEF WriteInv, Same

(* Everything but the older counters leaves them, and what is to be        *)
(* written, alone; only the main transaction credits, with nothing left.   *)
LEMMA StepsThatDoNotWrite ==
  ASSUME TypeOK, NEW r \in Requests, Handle(r) \/ Crash(r),
         ~RollupEvent(r), ~RollupHour(r)
  PROVE  /\ UNCHANGED legacy
         /\ pc'[r] # "hourly"
         /\ won'[r] = won[r] \/ pc[r] = "main"
         /\ ~PutObject(r) => /\ pc'[r] \notin {"rollup", "main"}
                             /\ objects' = objects /\ todo'[r] = todo[r]
<1> USE DEF Goto, Answer, Untouched, counts, TypeOK, legacy
<1>1. CASE Refuse(r) BY <1>1 DEF Refuse
<1>2. CASE Exclude(r) BY <1>2 DEF Exclude
<1>3. CASE Admit(r) BY <1>3 DEF Admit
<1>4. CASE ReserveSecond(r) BY <1>4 DEF ReserveSecond
<1>5. CASE ReserveDay(r) BY <1>5 DEF ReserveDay
<1>6. CASE RefuseQuota(r) BY <1>6 DEF RefuseQuota
<1>7. CASE PutObject(r) BY <1>7 DEF PutObject
<1>8. CASE MainBatch(r) BY <1>8 DEF MainBatch, AfterMain
<1>9. CASE MainBatchMissingTable(r) BY <1>9 DEF MainBatchMissingTable
<1>10. CASE CampaignBatch(r) BY <1>10 DEF CampaignBatch, LateBatch
<1>11. CASE RageBatch(r) BY <1>11 DEF RageBatch, LateBatch
<1>12. CASE LateBatchFails(r) BY <1>12 DEF LateBatchFails
<1>13. CASE ReleaseNonce(r) BY <1>13 DEF ReleaseNonce
<1>14. CASE SaveDecision(r) BY <1>14 DEF SaveDecision
<1>15. CASE Fail(r) BY <1>15 DEF Fail
<1>16. CASE Crash(r) BY <1>16 DEF Crash
<1> QED
  BY <1>1, <1>2, <1>3, <1>4, <1>5, <1>6, <1>7, <1>8, <1>9, <1>10, <1>11, <1>12,
     <1>13, <1>14, <1>15, <1>16 DEF Handle

(* An event done: the handler goes on with the next one that is left.      *)
LEMMA EventDoneKeepsWrites ==
  ASSUME TypeOK, NonceInv, NEW r \in Requests, WriteInv(r), EventDone(r),
         pc[r] \in {"rollup", "hourly"}, UNCHANGED <<batch, won>>
  PROVE  /\ WriteInv(r)'
         /\ todo'[r] = todo[r] \ {Current(r)} /\ Current(r) \in todo[r]
         /\ pc'[r] # "hourly"
<1>1. Current(r) \in todo[r]
  BY CurrentIsTodo DEF WriteInv
<1>2. /\ todo'[r] = todo[r] \ {Current(r)}
      /\ pc'[r] = IF todo[r] = {Current(r)} THEN "main" ELSE "rollup"
  BY DEF EventDone, Goto, TypeOK
<1>3. won'[r] = {}
  BY DEF NonceInv, BeforeMain
<1> QED BY <1>1, <1>2, <1>3 DEF WriteInv

(* Every step of a handler keeps what its own request is to write.         *)
LEMMA OwnWrites ==
  ASSUME TypeOK, NonceInv, NEW r \in Requests, ProgressInv(r), WriteInv(r),
         Handle(r) \/ Crash(r)
  PROVE  WriteInv(r)'
<1>1. CASE RollupEvent(r)
  <2>1. pc[r] = "rollup" /\ UNCHANGED <<batch, won, objects>>
    BY <1>1 DEF RollupEvent, counts
  <2>2. CASE KindOf[Current(r)] = "view"
    <3>1. pc'[r] = "hourly" /\ todo'[r] = todo[r]
      BY <1>1, <2>2 DEF RollupEvent, Goto, TypeOK
    <3>2. Current(r)' = Current(r)
      BY <3>1, CurrentStays
    <3> QED BY <2>1, <2>2, <3>1, <3>2 DEF WriteInv
  <2>3. CASE KindOf[Current(r)] # "view"
    BY <1>1, <2>1, <2>3, EventDoneKeepsWrites DEF RollupEvent
  <2> QED BY <2>2, <2>3
<1>2. CASE RollupHour(r)
  BY <1>2, EventDoneKeepsWrites DEF RollupHour, counts
<1>3. CASE PutObject(r)
  <2> DEFINE plain == OfKind(batch[r], "view") \cup OfKind(batch[r], "custom")
  <2>1. /\ todo'[r] = plain
        /\ pc'[r] = IF plain = {} THEN "main" ELSE "rollup"
    BY <1>3 DEF PutObject, Goto, TypeOK
  <2>2. won'[r] = {} /\ batch'[r] = batch[r]
    BY <1>3 DEF PutObject, counts, NonceInv, BeforeMain
  <2> QED BY <2>1, <2>2 DEF WriteInv, OfKind
<1>4. CASE ~RollupEvent(r) /\ ~RollupHour(r) /\ ~PutObject(r)
  <2>1. /\ pc'[r] \notin {"rollup", "hourly", "main"}
        /\ objects' = objects /\ todo'[r] = todo[r] /\ batch'[r] = batch[r]
        /\ won'[r] = won[r] \/ pc[r] = "main"
    BY <1>4, StepsThatDoNotWrite, OthersSame
  <2>2. pc[r] = "main" => r \in objects /\ todo[r] = {}
    BY DEF ProgressInv, AfterPut, WriteInv
  <2> QED BY <2>1, <2>2 DEF WriteInv
<1> QED BY <1>1, <1>2, <1>3, <1>4

LEMMA ArrivalWrites ==
  ASSUME TypeOK, NonceInv, NEW r \in Requests, NEW s \in Sources, NEW B \in SUBSET Events,
         Arrive(r, s, B), ProgressInv(r)
  PROVE  WriteInv(r)'
<1>1. pc[r] = "idle" /\ pc'[r] = "authorize" /\ UNCHANGED <<todo, won>>
  BY DEF Arrive, Goto, counts, TypeOK
<1>2. todo[r] = {} /\ won[r] = {}
  BY <1>1 DEF ProgressInv, BeforePut, NonceInv, BeforeMain
<1> QED BY <1>1, <1>2 DEF WriteInv

LEMMA NextWrites ==
  TypeOK /\ NonceInv /\ AnswersInv /\ WritesInv /\ [Next]_vars => WritesInv'
<1> SUFFICES ASSUME TypeOK, NonceInv, AnswersInv, WritesInv, [Next]_vars, NEW q \in Requests
             PROVE  WriteInv(q)'
  BY DEF WritesInv
<1>1. WriteInv(q) /\ ProgressInv(q)
  BY DEF WritesInv, AnswersInv
<1>2. ASSUME NEW r \in Requests, Handle(r) \/ Crash(r) PROVE WriteInv(q)'
  BY <1>1, <1>2, OwnWrites, OthersSame, SameKeepsWrites
<1>3. ASSUME NEW r \in Requests, NEW s \in Sources, NEW B \in SUBSET Events, Arrive(r, s, B)
      PROVE  WriteInv(q)'
  BY <1>1, <1>3, ArrivalWrites, ArrivalAnswers, SameKeepsWrites DEF AnswersInv
<1>4. CASE Tick \/ ApplyMigration \/ (\E s \in Sources : SetActive(s)) \/ UNCHANGED vars
  BY <1>1, <1>4, OutsideSame, SameKeepsWrites
<1> QED BY <1>2, <1>3, <1>4 DEF Next

(***************************************************************************)
(* The hour of a view.                                                     *)
(***************************************************************************)
(* Requests that keep their objects and what they have written leave the   *)
(* hours alone, and may only leave the middle of a view.                   *)
LEMMA HoursStay ==
  ASSUME LegacyInv, UNCHANGED legacy,
         \A q \in Requests : /\ q \in objects' <=> q \in objects
                             /\ q \in objects => /\ src'[q] = src[q] /\ batch'[q] = batch[q]
                                                 /\ todo'[q] = todo[q]
                             /\ pc'[q] = "hourly" => pc[q] = "hourly" /\ src'[q] = src[q],
         objects \subseteq Requests, objects' \subseteq Requests,
         rollups \in [Sources -> Nat], hourly \in [Sources -> Nat]
  PROVE  LegacyInv'
<1> SUFFICES ASSUME NEW s \in Sources PROVE HourInv(s)'
  BY DEF LegacyInv
<1>1. HourDone(s)' = HourDone(s)
  BY DEF HourDone
<1>2. MidView(s)' \in SUBSET MidView(s)
  BY DEF MidView
<1>3. IsFiniteSet(MidView(s)) /\ IsFiniteSet(HourDone(s))
  BY DEF LegacyInv, HourInv
<1>4. /\ IsFiniteSet(MidView(s)') /\ Cardinality(MidView(s)') <= Cardinality(MidView(s))
      /\ Cardinality(MidView(s)') \in Nat /\ Cardinality(MidView(s)) \in Nat
  BY <1>2, <1>3, FS_Subset, FS_CardinalityType
<1>5. hourly[s] \in Nat /\ rollups[s] \in Nat /\ hourly' = hourly /\ rollups' = rollups
  BY DEF legacy
<1>6. hourly[s] + Cardinality(MidView(s)') <= rollups[s]
  BY <1>4, <1>5 DEF LegacyInv, HourInv
<1>7. hourly'[s] = Cardinality(HourDone(s)')
  BY <1>1, <1>5 DEF LegacyInv, HourInv
<1> QED BY <1>1, <1>3, <1>4, <1>5, <1>6, <1>7 DEF HourInv

(* A page view counted in the daily rollup is in the middle from then on.  *)
LEMMA RollupCounts ==
  ASSUME TypeOK, LegacyInv, NEW r \in Requests, ProgressInv(r), WriteInv(r), RollupEvent(r)
  PROVE  LegacyInv'
<1> SUFFICES ASSUME NEW s \in Sources PROVE HourInv(s)'
  BY DEF LegacyInv
<1>1. /\ pc[r] = "rollup" /\ r \in objects /\ UNCHANGED <<src, batch, objects, hourly>>
      /\ rollups'[s] = IF s = src[r] THEN rollups[s] + 1 ELSE rollups[s]
  BY DEF RollupEvent, ProgressInv, AfterPut, TypeOK
<1>2. /\ IsFiniteSet(MidView(s)) /\ IsFiniteSet(HourDone(s))
      /\ Cardinality(MidView(s)) \in Nat /\ hourly[s] \in Nat /\ rollups[s] \in Nat
      /\ hourly[s] + Cardinality(MidView(s)) <= rollups[s]
      /\ hourly[s] = Cardinality(HourDone(s))
  BY FS_CardinalityType DEF LegacyInv, HourInv, TypeOK
<1>3. HourDone(s)' = HourDone(s)
  <2>1. CASE KindOf[Current(r)] = "view"
    BY <1>1, <2>1 DEF RollupEvent, HourDone
  <2>2. CASE KindOf[Current(r)] # "view"
    <3>1. todo' = [todo EXCEPT ![r] = @ \ {Current(r)}]
      BY <2>2 DEF RollupEvent, EventDone
    <3>2. OfKind(batch'[r], "view") \ todo'[r] = OfKind(batch[r], "view") \ todo[r]
      BY <1>1, <2>2, <3>1 DEF OfKind, TypeOK
    <3>3. \A q \in Requests :
            OfKind(batch'[q], "view") \ todo'[q] = OfKind(batch[q], "view") \ todo[q]
      BY <1>1, <3>1, <3>2 DEF TypeOK
    <3> QED BY <1>1, <3>3 DEF HourDone, TypeOK
  <2> QED BY <2>1, <2>2
<1>4. MidView(s)' \in {MidView(s), MidView(s) \cup {r}} /\ (s # src[r] => MidView(s)' = MidView(s))
  BY <1>1 DEF RollupEvent, EventDone, Goto, MidView, TypeOK
<1>5. IsFiniteSet(MidView(s)') /\ hourly[s] + Cardinality(MidView(s)') <= rollups'[s]
  <2>1. /\ IsFiniteSet(MidView(s) \cup {r})
        /\ Cardinality(MidView(s) \cup {r}) <= Cardinality(MidView(s)) + 1
        /\ Cardinality(MidView(s) \cup {r}) \in Nat
    <3>1. /\ IsFiniteSet(MidView(s) \cup {r})
          /\ Cardinality(MidView(s) \cup {r})
               = IF r \in MidView(s) THEN Cardinality(MidView(s)) ELSE Cardinality(MidView(s)) + 1
      BY <1>2, FS_AddElement, Zenon
    <3>2. Cardinality(MidView(s) \cup {r}) \in Nat
      BY <3>1, FS_CardinalityType
    <3> QED BY <1>2, <3>1, <3>2
  <2>2. CASE MidView(s)' = MidView(s)
    BY <1>1, <1>2, <2>2
  <2>3. CASE MidView(s)' = MidView(s) \cup {r} /\ s = src[r]
    BY <1>1, <1>2, <2>1, <2>3
  <2> QED BY <1>4, <2>2, <2>3
<1> QED BY <1>1, <1>2, <1>3, <1>5 DEF HourInv

(* Its hour is counted once, by the request that was in the middle.        *)
LEMMA HourCounts ==
  ASSUME TypeOK, NonceInv, LegacyInv, NEW r \in Requests, ProgressInv(r), WriteInv(r),
         RollupHour(r)
  PROVE  LegacyInv'
<1> DEFINE new == <<r, Current(r)>>
<1> SUFFICES ASSUME NEW s \in Sources PROVE HourInv(s)'
  BY DEF LegacyInv
<1>1. /\ pc[r] = "hourly" /\ r \in objects /\ UNCHANGED <<src, batch, objects, rollups>>
      /\ hourly'[s] = IF s = src[r] THEN hourly[s] + 1 ELSE hourly[s]
      /\ todo' = [todo EXCEPT ![r] = @ \ {Current(r)}]
  BY DEF RollupHour, EventDone, ProgressInv, AfterPut, TypeOK
<1>2. /\ IsFiniteSet(MidView(s)) /\ IsFiniteSet(HourDone(s))
      /\ Cardinality(MidView(s)) \in Nat /\ hourly[s] \in Nat /\ rollups[s] \in Nat
      /\ hourly[s] + Cardinality(MidView(s)) <= rollups[s]
      /\ hourly[s] = Cardinality(HourDone(s))
  BY FS_CardinalityType DEF LegacyInv, HourInv, TypeOK
<1>3. Current(r) \in todo[r] /\ Current(r) \in OfKind(batch[r], "view") /\ Current(r) \in Events
  <2>1. Current(r) \in todo[r] /\ KindOf[Current(r)] = "view" /\ todo[r] \subseteq batch[r]
    BY <1>1, CurrentIsTodo DEF WriteInv
  <2> QED BY <2>1 DEF OfKind, TypeOK
<1>4. pc'[r] # "hourly" /\ \A q \in Requests : q # r => pc'[q] = pc[q]
  BY DEF RollupHour, EventDone, Goto, TypeOK
<1>5. CASE s = src[r]
  <2>1. HourDone(s)' = HourDone(s) \cup {new}
    <3>1. OfKind(batch'[r], "view") \ todo'[r] = (OfKind(batch[r], "view") \ todo[r]) \cup {Current(r)}
      BY <1>1, <1>3 DEF TypeOK
    <3>2. \A q \in Requests : q # r =>
            OfKind(batch'[q], "view") \ todo'[q] = OfKind(batch[q], "view") \ todo[q]
      BY <1>1 DEF TypeOK
    <3>3. \A x \in objects \X Events : x = <<x[1], x[2]>> /\ x[1] \in Requests
      BY DEF TypeOK
    <3>4. ASSUME NEW x PROVE x \in HourDone(s)' => x \in HourDone(s) \cup {new}
      BY <1>1, <3>1, <3>2, <3>3 DEF HourDone
    <3>5. ASSUME NEW x PROVE x \in HourDone(s) \cup {new} => x \in HourDone(s)'
      BY <1>1, <1>3, <1>5, <3>1, <3>2, <3>3 DEF HourDone
    <3> QED BY <3>4, <3>5
  <2>2. new \notin HourDone(s)
    BY <1>3 DEF HourDone
  <2>3. IsFiniteSet(HourDone(s)') /\ Cardinality(HourDone(s)') = hourly[s] + 1
    <3>1. /\ IsFiniteSet(HourDone(s) \cup {new})
          /\ Cardinality(HourDone(s) \cup {new})
               = IF new \in HourDone(s) THEN Cardinality(HourDone(s)) ELSE Cardinality(HourDone(s)) + 1
      BY <1>2, FS_AddElement, Zenon
    <3> QED BY <1>2, <2>1, <2>2, <3>1
  <2>4. MidView(s)' = MidView(s) \ {r} /\ r \in MidView(s)
    BY <1>1, <1>4, <1>5 DEF MidView
  <2>5. IsFiniteSet(MidView(s)') /\ Cardinality(MidView(s)') = Cardinality(MidView(s)) - 1
    BY <1>2, <2>4, FS_RemoveElement
  <2>6. hourly'[s] = hourly[s] + 1 /\ rollups'[s] = rollups[s]
    BY <1>1, <1>5
  <2> QED BY <1>2, <2>3, <2>5, <2>6 DEF HourInv
<1>6. CASE s # src[r]
  <2>1. HourDone(s)' = HourDone(s)
    <3>1. \A q \in Requests : q # r => todo'[q] = todo[q]
      BY <1>1 DEF TypeOK
    <3> QED BY <1>1, <1>6, <3>1 DEF HourDone, TypeOK
  <2>2. MidView(s)' = MidView(s)
    BY <1>1, <1>4, <1>6 DEF MidView
  <2> QED BY <1>1, <1>2, <1>6, <2>1, <2>2 DEF HourInv
<1> QED BY <1>5, <1>6

LEMMA NextLegacy ==
  TypeOK /\ NonceInv /\ AnswersInv /\ WritesInv /\ LegacyInv /\ [Next]_vars => LegacyInv'
<1> SUFFICES ASSUME TypeOK, NonceInv, AnswersInv, WritesInv, LegacyInv, [Next]_vars
             PROVE  LegacyInv'
  OBVIOUS
<1>1. /\ objects \subseteq Requests /\ objects' \subseteq Requests
      /\ rollups \in [Sources -> Nat] /\ hourly \in [Sources -> Nat]
  BY NextType DEF TypeOK
<1>2. ASSUME NEW r \in Requests, Handle(r) \/ Crash(r) PROVE LegacyInv'
  <2>1. ProgressInv(r) /\ WriteInv(r)
    BY DEF AnswersInv, WritesInv
  <2>2. CASE RollupEvent(r)
    BY <2>1, <2>2, RollupCounts
  <2>3. CASE RollupHour(r)
    BY <2>1, <2>3, HourCounts
  <2>4. CASE PutObject(r)
    <3>1. pc[r] = "put" /\ r \notin objects /\ UNCHANGED <<src, batch, legacy>>
      BY <2>1, <2>4 DEF PutObject, ProgressInv, BeforePut
    <3>2. objects' = objects \cup {r} /\ pc'[r] # "hourly"
          /\ todo'[r] = OfKind(batch[r], "view") \cup OfKind(batch[r], "custom")
      BY <2>4 DEF PutObject, Goto, TypeOK
    <3>3. \A q \in Requests \ {r} : Same(q)
      BY <1>2, OthersSame
    <3>4. ASSUME NEW s \in Sources PROVE HourDone(s)' = HourDone(s)
      BY <3>1, <3>2, <3>3 DEF HourDone, Same, TypeOK
    <3>5. ASSUME NEW s \in Sources PROVE MidView(s)' = MidView(s)
      BY <3>1, <3>2, <3>3 DEF MidView, Same
    <3> QED BY <3>1, <3>4, <3>5 DEF LegacyInv, HourInv, legacy
  <2>5. CASE ~RollupEvent(r) /\ ~RollupHour(r) /\ ~PutObject(r)
    <3>1. UNCHANGED legacy /\ objects' = objects /\ todo'[r] = todo[r] /\ pc'[r] # "hourly"
      BY <1>2, <2>5, StepsThatDoNotWrite
    <3>2. src'[r] = src[r] /\ batch'[r] = batch[r] /\ \A q \in Requests \ {r} : Same(q)
      BY <1>2, OthersSame
    <3> QED BY <1>1, <3>1, <3>2, HoursStay DEF Same
  <2> QED BY <2>2, <2>3, <2>4, <2>5
<1>3. ASSUME NEW r \in Requests, NEW s \in Sources, NEW B \in SUBSET Events, Arrive(r, s, B)
      PROVE  LegacyInv'
  <2>1. r \notin objects /\ objects' = objects /\ pc'[r] # "hourly" /\ UNCHANGED legacy
    BY <1>3 DEF Arrive, Goto, AnswersInv, ProgressInv, BeforePut, TypeOK
  <2>2. \A q \in Requests \ {r} : Same(q)
    BY <1>3, ArrivalAnswers DEF AnswersInv
  <2> QED BY <1>1, <2>1, <2>2, HoursStay DEF Same
<1>4. CASE Tick \/ ApplyMigration \/ (\E s \in Sources : SetActive(s)) \/ UNCHANGED vars
  <2>1. UNCHANGED legacy
    BY <1>4 DEF Tick, ApplyMigration, SetActive, Outside, vars, legacy
  <2> QED BY <1>1, <1>4, <2>1, OutsideSame, HoursStay DEF Same
<1> QED BY <1>2, <1>3, <1>4 DEF Next

LEMMA InitLegacy == Init => WritesInv /\ LegacyInv
<1> SUFFICES ASSUME Init PROVE WritesInv /\ LegacyInv
  OBVIOUS
<1>1. WritesInv
  BY DEF Init, WritesInv, WriteInv
<1>2. ASSUME NEW s \in Sources PROVE HourDone(s) = {} /\ MidView(s) = {}
  BY DEF Init, HourDone, MidView
<1>3. \A s \in Sources : hourly[s] = 0 /\ rollups[s] = 0
  BY DEF Init
<1> QED BY <1>1, <1>2, <1>3, FS_EmptySet DEF LegacyInv, HourInv

(* Each credited view was counted in its hour before, by the request that  *)
(* credited it: so the deduplicated count is the smaller one.              *)
LEMMA CreditedViewsHaveTheirHour ==
  ASSUME TypeOK, NonceInv, WritesInv, LegacyInv, NEW s \in Sources
  PROVE  Cardinality(OfKind(Credited(s), "view")) <= Cardinality(HourDone(s))
<1> DEFINE views == OfKind(Credited(s), "view")
           hour == [e \in views |-> CHOOSE x \in HourDone(s) : x[2] = e]
<1>1. ASSUME NEW e \in views PROVE \E x \in HourDone(s) : x[2] = e
  <2>1. PICK r \in Requests : src[r] = s /\ e \in won[r]
    BY DEF Credited, OfKind
  <2>2. r \in objects /\ todo[r] = {}
    BY <2>1 DEF WritesInv, WriteInv
  <2>3. e \in batch[r] /\ e \in Events /\ KindOf[e] = "view"
    BY <2>1 DEF NonceInv, OfKind, TypeOK
  <2>4. <<r, e>> \in HourDone(s)
    BY <2>1, <2>2, <2>3 DEF HourDone, OfKind
  <2> QED BY <2>4
<1>2. \A e \in views : hour[e] \in HourDone(s) /\ hour[e][2] = e
  BY <1>1, Zenon
<1>3. hour \in [views -> HourDone(s)]
  BY <1>2
<1>4. hour \in Injection(views, HourDone(s))
  BY <1>2, <1>3 DEF Injection, IsInjective
<1> QED BY <1>4, FS_Injection DEF LegacyInv, HourInv

(* The older hourly counter may run ahead of the deduplicated one (a       *)
(* repeated delivery is counted again) and is never behind it, whatever    *)
(* fails or is lost: it is written first.                                  *)
THEOREM LegacyStaysAhead == Spec => []LegacyNeverBehind
<1>1. TypeOK /\ NonceInv /\ CountedOnce /\ WritesInv /\ LegacyInv => LegacyNeverBehind
  <2> SUFFICES ASSUME TypeOK, NonceInv, CountedOnce, WritesInv, LegacyInv, NEW s \in Sources
               PROVE  tally[s]["view"] <= hourly[s] /\ hourly[s] <= rollups[s]
    BY DEF LegacyNeverBehind
  <2>1. tally[s]["view"] = Cardinality(OfKind(Credited(s), "view"))
    BY DEF CountedOnce, MainKinds
  <2>2. hourly[s] = Cardinality(HourDone(s)) /\ hourly[s] + Cardinality(MidView(s)) <= rollups[s]
    BY DEF LegacyInv, HourInv
  <2>3. Cardinality(MidView(s)) \in Nat
    BY FS_CardinalityType DEF LegacyInv, HourInv
  <2>4. hourly[s] \in Nat /\ rollups[s] \in Nat
    BY DEF TypeOK
  <2> QED BY <2>1, <2>2, <2>3, <2>4, CreditedViewsHaveTheirHour
<1> QED
  BY <1>1, InitType, NextType, InitNonce, NextNonce, InitCounts, NextCounts, InitAnswers,
     NextAnswers, InitLegacy, NextWrites, NextLegacy, PTL DEF Spec
=============================================================================
