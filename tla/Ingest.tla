------------------------------- MODULE Ingest -------------------------------
(***************************************************************************)
(* The collector's write path: ingestBatch (apps/ingest-api) running on    *)
(* the D1 and R2 repositories of the Worker (apps/ingest-worker).          *)
(*                                                                         *)
(* A request is one delivery of a batch of events to one website.  Every   *)
(* `await` of the handler is a step of its own, so any number of requests  *)
(* interleave between two statements.  A retry, or a duplicate delivery,   *)
(* is another request whose batch shares event ids with an earlier one.    *)
(*                                                                         *)
(* A D1 batch is one transaction: all of its statements or none.  A call   *)
(* to D1 or R2 may fail (Fail), which the handler turns into a 500 after   *)
(* its `finally` block, and the isolate may be evicted at any step         *)
(* (Crash), in which case nothing more of the handler runs.                *)
(***************************************************************************)
EXTENDS Naturals, FiniteSets

CONSTANTS
  Requests,      \* deliveries; also the random nonce of each one
  Sources,       \* websites
  Projects,
  Events,        \* event ids
  ProjectOf,     \* [Sources -> Projects]
  KindOf,        \* [Events -> Kinds]
  Labelled,      \* the page views that carry campaign labels
  MaxPerBatch,   \* quota policy: maxEventsPerBatch
  MaxPerSecond,  \* quota policy: maxEventsPerSecond
  MaxPerDay,     \* quota policy: maxEventsPerDay
  SecondsPerDay,
  LastSecond,    \* bound on the clock
  FirstSchema,   \* migration the database is at when the Worker starts
  Absent,        \* no row in dashboard_seen_events
  Released       \* a row whose request_nonce is NULL

(* Page views, actions, custom events, and rage-click signals (action      *)
(* events with the rage flag).                                             *)
Kinds == {"view", "action", "custom", "rage"}

(* The kinds counted by the main transaction; rage clicks and campaign     *)
(* labels are counted by transactions of their own.                        *)
MainKinds == {"view", "action", "custom"}
LateMetrics == {"campaign", "rage"}
Metrics == MainKinds \cup LateMetrics

(* The migration that creates the table a metric is counted in.  Actions   *)
(* and page views are older than any database this module starts from.     *)
CustomSchema   == 4
CampaignSchema == 5
ExcludedSchema == 6
RageSchema     == 7
CurrentSchema  == 7

ASSUME EventsAssumption ==
  /\ IsFiniteSet(Events)
  /\ KindOf \in [Events -> Kinds]
  /\ Labelled \subseteq {e \in Events : KindOf[e] = "view"}

ASSUME SourcesAssumption ==
  /\ Sources # {}
  /\ ProjectOf \in [Sources -> Projects]

ASSUME NonceAssumption ==
  /\ Absent \notin Requests
  /\ Released \notin Requests
  /\ Absent # Released

(* safePolicy, the only policy the console creates, allows 25 events in a  *)
(* batch and 100 in a day: a whole batch always fits an empty day.         *)
ASSUME QuotaAssumption ==
  /\ MaxPerBatch \in Nat /\ MaxPerSecond \in Nat /\ MaxPerDay \in Nat
  /\ MaxPerBatch <= MaxPerDay

ASSUME ClockAssumption ==
  /\ SecondsPerDay \in Nat \ {0}
  /\ LastSecond \in Nat
  /\ FirstSchema \in 3..CurrentSchema

VARIABLES
  pc,          \* where each request's handler is
  result,      \* how it was answered
  src,         \* the website it is for
  batch,       \* its events
  at,          \* the second whose quota it reserves
  todo,        \* events whose legacy rollups are still to be written
  won,         \* history: events whose ledger row this request inserted
  late,        \* history: the late metrics this request has counted
  now,         \* the clock, in seconds
  schema,      \* last migration applied
  active,      \* the websites that are active, in an active project
  secondUsed,  \* quota_windows, window_kind 'second'
  dayUsed,     \* quota_windows, window_kind 'day'
  objects,     \* R2: the requests whose batch is stored
  rollups,     \* dashboard_rollups: events counted per website
  hourly,      \* dashboard_hourly_page_views: page views per website
  ledger,      \* dashboard_seen_events: the nonce of each row
  tally,       \* the minute tables: one counter per website and metric
  excluded,    \* dashboard_excluded_hits
  decisions    \* ingestion_decisions: requests recorded as accepted

handler == <<pc, result, src, batch, at, todo, won, late>>
world   == <<now, schema, active>>
quotas  == <<secondUsed, dayUsed>>
legacy  == <<rollups, hourly>>
counts  == <<ledger, tally, won, late>>
vars == <<pc, result, src, batch, at, todo, won, late, now, schema, active, secondUsed,
          dayUsed, objects, rollups, hourly, ledger, tally, excluded, decisions>>

Steps == {"idle", "authorize", "second", "day", "put", "rollup", "hourly",
          "main", "campaign", "rage", "release", "decide", "done", "lost"}
Results == {"none", "accepted", "excluded", "rejected", "throttled", "error"}
Seconds == 0..LastSecond
Day(t) == t \div SecondsPerDay
Days == {Day(t) : t \in Seconds}

OfKind(E, k) == {e \in E : KindOf[e] = k}

(* The events of E that count towards metric m.                            *)
Counting(E, m) == IF m = "campaign" THEN E \cap Labelled ELSE OfKind(E, m)

Project(r) == ProjectOf[src[r]]

Running(r) == pc[r] \notin {"idle", "done", "lost"}

Init ==
  /\ pc = [r \in Requests |-> "idle"]
  /\ result = [r \in Requests |-> "none"]
  /\ src = [r \in Requests |-> CHOOSE s \in Sources : TRUE]
  /\ batch = [r \in Requests |-> {}]
  /\ at = [r \in Requests |-> 0]
  /\ todo = [r \in Requests |-> {}]
  /\ won = [r \in Requests |-> {}]
  /\ late = [r \in Requests |-> {}]
  /\ now = 0
  /\ schema = FirstSchema
  /\ active = Sources
  /\ secondUsed = [s \in Sources |-> [t \in Seconds |-> 0]]
  /\ dayUsed = [s \in Sources |-> [d \in Days |-> 0]]
  /\ objects = {}
  /\ rollups = [s \in Sources |-> 0]
  /\ hourly = [s \in Sources |-> 0]
  /\ ledger = [p \in Projects |-> [e \in Events |-> Absent]]
  /\ tally = [s \in Sources |-> [m \in Metrics |-> 0]]
  /\ excluded = [s \in Sources |-> 0]
  /\ decisions = {}

(***************************************************************************)
(* Control of a handler.                                                   *)
(***************************************************************************)
Goto(r, step) == pc' = [pc EXCEPT ![r] = step] /\ UNCHANGED result

Answer(r, outcome) ==
  /\ pc' = [pc EXCEPT ![r] = "done"]
  /\ result' = [result EXCEPT ![r] = outcome]

(* A batch arrives for a website; ingestBatch will read it.                *)
Arrive(r, s, B) ==
  /\ pc[r] = "idle"
  /\ B # {}
  /\ src' = [src EXCEPT ![r] = s]
  /\ batch' = [batch EXCEPT ![r] = B]
  /\ Goto(r, "authorize")
  /\ UNCHANGED <<at, todo, world, quotas, objects, legacy, counts, excluded,
                 decisions>>

Untouched == UNCHANGED <<src, batch, todo, world, objects, legacy, counts>>

(* Everything up to the quota reservation that can refuse the batch.  The  *)
(* website read by authorizeSource is the one the rest of the handler      *)
(* uses; a token, an origin, a payload or a size may be refused whatever   *)
(* the website, and a website that is not active always is.                *)
Refuse(r) ==
  /\ pc[r] = "authorize"
  /\ \E outcome \in {"rejected", "throttled"} : Answer(r, outcome)
  /\ Untouched /\ UNCHANGED <<at, quotas, excluded, decisions>>

Admissible(r) == src[r] \in active

(* An internal address: answered 202 and dropped.  The hit is counted if   *)
(* that succeeds, and an error there is swallowed.                         *)
Exclude(r) ==
  /\ pc[r] = "authorize"
  /\ Admissible(r)
  /\ schema >= ExcludedSchema
  /\ Answer(r, "excluded")
  /\ \/ excluded' = [excluded EXCEPT ![src[r]] = @ + Cardinality(batch[r])]
     \/ UNCHANGED excluded
  /\ Untouched /\ UNCHANGED <<at, quotas, decisions>>

Admit(r) ==
  /\ pc[r] = "authorize"
  /\ Admissible(r)
  /\ Cardinality(batch[r]) <= MaxPerBatch
  /\ at' = [at EXCEPT ![r] = now]
  /\ Goto(r, "second")
  /\ Untouched /\ UNCHANGED <<quotas, excluded, decisions>>

(***************************************************************************)
(* reserveQuota: one upsert for the second, then one for the day.  The     *)
(* limit is the WHERE of the conflict branch, so the first reservation of  *)
(* a window, which inserts the row, is never compared with it.             *)
(***************************************************************************)
(* Mutants: the limit is compared with what was used before the batch; a   *)
(* window that exists is never refused.                                    *)
FitsBefore(used, n, limit) == used <= limit
FitsAlways(used, n, limit) == TRUE

Fits(used, n, limit) == used = 0 \/ used + n <= limit

ReserveSecond(r) ==
  LET s == src[r]  t == at[r]  n == Cardinality(batch[r]) IN
  /\ pc[r] = "second"
  /\ Fits(secondUsed[s][t], n, MaxPerSecond)
  /\ secondUsed' = [secondUsed EXCEPT ![s][t] = @ + n]
  /\ Goto(r, "day")
  /\ Untouched /\ UNCHANGED <<at, dayUsed, excluded, decisions>>

ReserveDay(r) ==
  LET s == src[r]  d == Day(at[r])  n == Cardinality(batch[r]) IN
  /\ pc[r] = "day"
  /\ Fits(dayUsed[s][d], n, MaxPerDay)
  /\ dayUsed' = [dayUsed EXCEPT ![s][d] = @ + n]
  /\ Goto(r, "put")
  /\ Untouched /\ UNCHANGED <<at, secondUsed, excluded, decisions>>

(* A refused day leaves the reservation of the second behind.              *)
RefuseQuota(r) ==
  LET n == Cardinality(batch[r]) IN
  /\ \/ pc[r] = "second" /\ ~Fits(secondUsed[src[r]][at[r]], n, MaxPerSecond)
     \/ pc[r] = "day" /\ ~Fits(dayUsed[src[r]][Day(at[r])], n, MaxPerDay)
  /\ Answer(r, "throttled")
  /\ Untouched /\ UNCHANGED <<at, quotas, excluded, decisions>>

(***************************************************************************)
(* saveAcceptedEvents: one new R2 object, before any counter moves.        *)
(***************************************************************************)
PutObject(r) ==
  LET plain == OfKind(batch[r], "view") \cup OfKind(batch[r], "custom") IN
  /\ pc[r] = "put"
  /\ objects' = objects \cup {r}
  /\ todo' = [todo EXCEPT ![r] = plain]
  /\ Goto(r, IF plain = {} THEN "main" ELSE "rollup")
  /\ UNCHANGED <<src, batch, at, world, quotas, legacy, counts, excluded,
                 decisions>>

(***************************************************************************)
(* recordDashboardRollups.  First the legacy counters, one event after     *)
(* another in the batch's order (one fixed order here): an event adds one  *)
(* to the daily rollup and, if it is a page view, one to its hour.         *)
(* Actions and rage clicks are skipped.                                    *)
(***************************************************************************)
Current(r) == CHOOSE e \in todo[r] : TRUE

EventDone(r) ==
  /\ todo' = [todo EXCEPT ![r] = @ \ {Current(r)}]
  /\ Goto(r, IF todo[r] = {Current(r)} THEN "main" ELSE "rollup")

RollupEvent(r) ==
  /\ pc[r] = "rollup"
  /\ rollups' = [rollups EXCEPT ![src[r]] = @ + 1]
  /\ IF KindOf[Current(r)] = "view"
     THEN Goto(r, "hourly") /\ UNCHANGED todo
     ELSE EventDone(r)
  /\ UNCHANGED <<src, batch, at, world, quotas, objects, hourly, counts,
                 excluded, decisions>>

RollupHour(r) ==
  /\ pc[r] = "hourly"
  /\ hourly' = [hourly EXCEPT ![src[r]] = @ + 1]
  /\ EventDone(r)
  /\ UNCHANGED <<src, batch, at, world, quotas, objects, rollups, counts,
                 excluded, decisions>>

(***************************************************************************)
(* Then the deduplicated counters.  The main transaction writes a ledger   *)
(* row under the request's nonce for every event that has none (INSERT OR  *)
(* IGNORE), adds to the counters the events whose row bears that nonce,    *)
(* and, when no campaign or rage count is to follow, releases the nonce.   *)
(***************************************************************************)
(* Mutant: INSERT OR REPLACE, which takes over a row that exists.          *)
InsertedOrReplaced(r) ==
  [e \in Events |-> IF e \in batch[r] THEN r ELSE ledger[Project(r)][e]]

Inserted(r) ==
  [e \in Events |-> IF e \in batch[r] /\ ledger[Project(r)][e] = Absent
                    THEN r ELSE ledger[Project(r)][e]]

Release(rows, r) == [e \in Events |-> IF rows[e] = r THEN Released ELSE rows[e]]

(* Mutant: a count that ignores the nonce.                                 *)
MineIgnoringNonce(rows, r) == {e \in batch[r] : rows[e] # Absent}

(* The events of the batch that a row of this table marks with the nonce.  *)
Mine(rows, r) == {e \in batch[r] : rows[e] = r}

(* tally after counting the events E of website s in the metrics M.        *)
Add(s, E, M) ==
  [tally EXCEPT ![s] =
     [m \in Metrics |-> IF m \in M THEN @[m] + Cardinality(Counting(E, m)) ELSE @[m]]]

HasCampaign(r) == batch[r] \cap Labelled # {}
HasRage(r) == OfKind(batch[r], "rage") # {}

AfterMain(r) ==
  IF HasCampaign(r) THEN "campaign" ELSE IF HasRage(r) THEN "rage" ELSE "decide"

MainBatch(r) ==
  LET s == src[r]  rows == Inserted(r) IN
  /\ pc[r] = "main"
  /\ OfKind(batch[r], "custom") # {} => schema >= CustomSchema
  /\ ledger' = [ledger EXCEPT ![Project(r)] =
                  IF AfterMain(r) = "decide" THEN Release(rows, r) ELSE rows]
  /\ tally' = Add(s, Mine(rows, r), MainKinds)
  /\ won' = [won EXCEPT ![r] = Mine(rows, r)]
  /\ Goto(r, AfterMain(r))
  /\ UNCHANGED <<src, batch, at, todo, late, world, quotas, objects,
                 legacy, excluded, decisions>>

(* A custom event before migration 4: the whole transaction fails, and the *)
(* batch's page views are lost with it.                                    *)
MainBatchMissingTable(r) ==
  /\ pc[r] = "main"
  /\ OfKind(batch[r], "custom") # {} /\ schema < CustomSchema
  /\ Answer(r, "error")
  /\ Untouched /\ UNCHANGED <<at, quotas, excluded, decisions>>

(* Campaign and rage counts, a transaction each.  A missing table is       *)
(* tolerated and loses these counts only.                                  *)
LateBatch(r, m, needs) ==
  /\ IF schema >= needs
     THEN /\ tally' = Add(src[r], Mine(ledger[Project(r)], r), {m})
          /\ late' = [late EXCEPT ![r] = @ \cup {m}]
     ELSE UNCHANGED <<tally, late>>
  /\ UNCHANGED <<src, batch, at, todo, won, world, quotas, objects, legacy,
                 ledger, excluded, decisions>>

CampaignBatch(r) ==
  /\ pc[r] = "campaign"
  /\ LateBatch(r, "campaign", CampaignSchema)
  /\ Goto(r, IF HasRage(r) THEN "rage" ELSE "release")

RageBatch(r) ==
  /\ pc[r] = "rage"
  /\ LateBatch(r, "rage", RageSchema)
  /\ Goto(r, "release")

(* Mutant: every error is tolerated, not only a missing table.             *)
LateBatchFailsSilently(r) ==
  /\ pc[r] \in {"campaign", "rage"}
  /\ Goto(r, "release")
  /\ Untouched /\ UNCHANGED <<at, quotas, excluded, decisions>>

(* Any other error there skips what is left, but not the `finally`.        *)
LateBatchFails(r) ==
  /\ pc[r] \in {"campaign", "rage"}
  /\ pc' = [pc EXCEPT ![r] = "release"]
  /\ result' = [result EXCEPT ![r] = "error"]
  /\ Untouched /\ UNCHANGED <<at, quotas, excluded, decisions>>

(* Mutant: a batch whose late counts failed is counted again, forever.     *)
ReleaseNonceAndRetry(r) ==
  /\ pc[r] = "release"
  /\ ledger' = [ledger EXCEPT ![Project(r)] = Release(@, r)]
  /\ Goto(r, IF result[r] = "error" THEN "main" ELSE "decide")
  /\ UNCHANGED <<src, batch, at, todo, won, late, world, quotas, objects,
                 legacy, tally, excluded, decisions>>

(* The `finally`: release the nonce, then go on, or rethrow the error.     *)
ReleaseNonce(r) ==
  /\ pc[r] = "release"
  /\ ledger' = [ledger EXCEPT ![Project(r)] = Release(@, r)]
  /\ Goto(r, IF result[r] = "error" THEN "done" ELSE "decide")
  /\ UNCHANGED <<src, batch, at, todo, won, late, world, quotas, objects,
                 legacy, tally, excluded, decisions>>

(***************************************************************************)
(* saveDecision and the 202.                                               *)
(***************************************************************************)
SaveDecision(r) ==
  /\ pc[r] = "decide"
  /\ decisions' = decisions \cup {r}
  /\ Answer(r, "accepted")
  /\ Untouched /\ UNCHANGED <<at, quotas, excluded>>

(* A D1 or R2 call fails with nothing written: a 500.                      *)
Fail(r) ==
  /\ Running(r)
  /\ pc[r] \notin {"campaign", "rage"}
  /\ Answer(r, "error")
  /\ Untouched /\ UNCHANGED <<at, quotas, excluded, decisions>>

(* The isolate goes away between two steps; no `finally` runs.             *)
Crash(r) ==
  /\ Running(r)
  /\ Goto(r, "lost")
  /\ Untouched /\ UNCHANGED <<at, quotas, excluded, decisions>>

(***************************************************************************)
(* Around the handlers: the clock, the console (de)activating a website or *)
(* its project, and an operator applying migrations.                       *)
(***************************************************************************)
Outside == UNCHANGED <<handler, quotas, objects, legacy, ledger, tally, excluded,
                       decisions>>

Tick ==
  /\ now < LastSecond
  /\ now' = now + 1
  /\ Outside /\ UNCHANGED <<schema, active>>

SetActive(s) ==
  /\ active' = IF s \in active THEN active \ {s} ELSE active \cup {s}
  /\ Outside /\ UNCHANGED <<now, schema>>

ApplyMigration ==
  /\ schema < CurrentSchema
  /\ schema' = schema + 1
  /\ Outside /\ UNCHANGED <<now, active>>

(* What the handler itself does next, successfully or not.                 *)
Handle(r) ==
  \/ Refuse(r) \/ Exclude(r) \/ Admit(r)
  \/ ReserveSecond(r) \/ ReserveDay(r) \/ RefuseQuota(r)
  \/ PutObject(r) \/ RollupEvent(r) \/ RollupHour(r)
  \/ MainBatch(r) \/ MainBatchMissingTable(r)
  \/ CampaignBatch(r) \/ RageBatch(r) \/ LateBatchFails(r) \/ ReleaseNonce(r)
  \/ SaveDecision(r) \/ Fail(r)

Next ==
  \/ \E r \in Requests : Handle(r) \/ Crash(r)
  \/ \E r \in Requests, s \in Sources, B \in SUBSET Events : Arrive(r, s, B)
  \/ \E s \in Sources : SetActive(s)
  \/ Tick
  \/ ApplyMigration

Spec == Init /\ [][Next]_vars

(* Every awaited D1 or R2 call settles, so a handler that was not evicted  *)
(* is resumed.  Nothing is assumed about arrivals, crashes, the clock, the *)
(* console or the operator.                                                *)
FairSpec == Spec /\ \A r \in Requests : WF_vars(Handle(r))
(***************************************************************************)
(* Properties.                                                             *)
(***************************************************************************)

(* Every variable has its type; in particular a handler reserves quota for *)
(* a second of the clock and leaves a ledger row to a request or released. *)
TypeOK ==
  /\ pc \in [Requests -> Steps]
  /\ result \in [Requests -> Results]
  /\ src \in [Requests -> Sources]
  /\ batch \in [Requests -> SUBSET Events]
  /\ at \in [Requests -> Seconds]
  /\ todo \in [Requests -> SUBSET Events]
  /\ won \in [Requests -> SUBSET Events]
  /\ late \in [Requests -> SUBSET LateMetrics]
  /\ now \in Seconds
  /\ schema \in FirstSchema..CurrentSchema
  /\ active \subseteq Sources
  /\ secondUsed \in [Sources -> [Seconds -> Nat]]
  /\ dayUsed \in [Sources -> [Days -> Nat]]
  /\ objects \subseteq Requests
  /\ rollups \in [Sources -> Nat]
  /\ hourly \in [Sources -> Nat]
  /\ ledger \in [Projects -> [Events -> Requests \cup {Absent, Released}]]
  /\ tally \in [Sources -> [Metrics -> Nat]]
  /\ excluded \in [Sources -> Nat]
  /\ decisions \subseteq Requests

(* The events credited to a website: those whose ledger row one of its     *)
(* requests inserted.                                                      *)
Credited(s) == UNION {won[r] : r \in {q \in Requests : src[q] = s}}

LateCredited(s, m) ==
  UNION {won[r] : r \in {q \in Requests : src[q] = s /\ m \in late[q]}}

(* Minute totals, actions and custom events count each credited event      *)
(* once, whatever is retried, duplicated, failed or lost: the guarantee of *)
(* recordDashboardRollups' nonce.                                          *)
CountedOnce ==
  \A s \in Sources, m \in MainKinds :
     tally[s][m] = Cardinality(OfKind(Credited(s), m))

(* Campaign and rage counts, made by later transactions under the same     *)
(* nonce, count each event of the requests that got that far once.         *)
LateCountedOnce ==
  \A s \in Sources, m \in LateMetrics :
     tally[s][m] = Cardinality(Counting(LateCredited(s, m), m))

(* Why the counters are exact: the strengthening the proof carries.  A     *)
(* row is inserted by one request, no two requests of a project insert the *)
(* same event, and between its main transaction and the release the rows   *)
(* that bear a request's nonce are exactly those it inserted.              *)
BeforeMain == {"idle", "authorize", "second", "day", "put", "rollup", "hourly", "main"}
HoldingNonce == {"campaign", "rage", "release"}

NonceInv ==
  /\ \A r \in Requests :
       /\ won[r] \subseteq batch[r]
       /\ pc[r] \in BeforeMain => won[r] = {} /\ late[r] = {}
       /\ pc[r] = "campaign" => late[r] = {}
       /\ pc[r] = "rage" => "rage" \notin late[r]
       /\ \A e \in won[r] : ledger[Project(r)][e] # Absent
       /\ pc[r] \in HoldingNonce => \A e \in won[r] : ledger[Project(r)][e] = r
  /\ \A p \in Projects, e \in Events, r \in Requests :
       ledger[p][e] = r => p = Project(r) /\ e \in won[r]
  /\ \A r, q \in Requests : r # q /\ Project(r) = Project(q) => won[r] \cap won[q] = {}

(* The database had the table a late metric needs all along.               *)
TableThere(m) ==
  FirstSchema >= (IF m = "campaign" THEN CampaignSchema ELSE RageSchema)

(* A 202 "accepted" is given only when the raw batch is in R2, each event  *)
(* is in the ledger, the decision is recorded, and the campaign and rage   *)
(* counts are made unless their table was missing.                         *)
AcceptedIsCounted ==
  \A r \in Requests : result[r] = "accepted" =>
    /\ r \in objects /\ r \in decisions
    /\ \A e \in batch[r] : ledger[Project(r)][e] # Absent
    /\ \A m \in LateMetrics :
         Counting(batch[r], m) # {} /\ TableThere(m) => m \in late[r]

(* A batch that is refused or excluded reached no storage at all.          *)
RefusedLeavesNoTrace ==
  \A r \in Requests : result[r] \in {"rejected", "throttled", "excluded"} =>
    r \notin objects /\ r \notin decisions /\ won[r] = {} /\ todo[r] = {}

(* A day never goes over its limit, and a second only by a first batch     *)
(* that is larger than the limit by itself.                                *)
QuotasHold ==
  \A s \in Sources :
    /\ \A d \in Days : dayUsed[s][d] <= MaxPerDay
    /\ \A t \in Seconds :
         secondUsed[s][t] <= MaxPerSecond \/ secondUsed[s][t] <= MaxPerBatch

(* A row keeps a nonce only while the request that wrote it is between its *)
(* main transaction and the release, or if that request ended in an error  *)
(* or was lost: no accepted request leaves one behind.                     *)
NonceHeldOnlyMeanwhile ==
  \A p \in Projects, e \in Events : ledger[p][e] \in Requests =>
    LET r == ledger[p][e] IN
    \/ pc[r] \in {"campaign", "rage", "release", "lost"}
    \/ result[r] = "error"

(* The older hourly counter, written first and without deduplication, may  *)
(* run ahead of the deduplicated one and never behind it.                  *)
LegacyNeverBehind ==
  \A s \in Sources : tally[s]["view"] <= hourly[s] /\ hourly[s] <= rollups[s]

(* A ledger row, once written, is never removed or handed to another       *)
(* request; a released one stays released.                                 *)
LedgerNeverForgets ==
  [][\A p \in Projects, e \in Events :
       ledger[p][e] # Absent => ledger'[p][e] \in {ledger[p][e], Released}]_vars

(* A batch that arrived is answered, unless its isolate is lost.           *)
Answered ==
  \A r \in Requests : pc[r] = "authorize" ~> pc[r] \in {"done", "lost"}

(* The deduplicated counters implement CountOnce.                          *)
Once == INSTANCE CountOnce WITH
          Kinds    <- MainKinds,
          credited <- [s \in Sources |-> Credited(s)],
          counter  <- [s \in Sources |-> [k \in MainKinds |-> tally[s][k]]]

ImplementsCountOnce == Once!Spec
=============================================================================
