----------------------------- MODULE Housekeeping -----------------------------
(***************************************************************************)
(* The daily job (expired rows, then the salts of ended days) beside the   *)
(* requests that use what it deletes: page views and other events that     *)
(* take the day's salt for their visitor's identifier, pixel hits that     *)
(* take a slot, and reports (Reports), which one transaction reads.  How a *)
(* batch is counted is Ingest's; here an event is counted in one step.     *)
(***************************************************************************)
EXTENDS Reports

CONSTANTS
  Expiring,    \* bound: the tables the job empties, of sixteen
  Keep,        \* how long rows are kept: 32 days
  BatchRows,   \* rows one DELETE removes: 1000
  MaxPasses,   \* passes of one run: 200
  MaxPaths,    \* paths a website's pixel counts
  Isolates,    \* instances of the Worker: each caches one salt
  Templates,   \* [kind, website, page, label, person, pixel] of events sent
  Behind,      \* tables a database that is migrations behind does not have
  Horizon,     \* bound: the last minute
  MaxEvents,   \* bound: events sent
  MaxFailures  \* bound: D1 calls of the job that fail

ASSUME KeepAssumption == Keep \in Nat /\ MaxReport < Keep /\ Day \in 1..Keep
ASSUME BatchAssumption == BatchRows \in Nat \ {0} /\ MaxPasses \in Nat \ {0} /\ MaxPaths \in Nat
ASSUME BoundsAssumption == Horizon \in Nat /\ MaxEvents \in Nat /\ MaxFailures \in Nat

Kinds == {"view", "campaign", "action", "custom", "rage"}
Names == DOMAIN LabelRank

ASSUME TablesAssumption ==
  /\ Expiring \subseteq MinuteTables \cup {"seen", "slots"} /\ "slots" \in Expiring /\ Behind \subseteq Expiring
  /\ Templates \subseteq [kind : Kinds, website : Websites, page : Names, label : Names,
                          person : STRING, pixel : BOOLEAN]

VARIABLES
  now,       \* the clock
  stored,    \* [tables but "slots" -> the events that contribute to them]
  slots,     \* pixel_paths: set of [website, path, seen]
  missing,   \* the tables the database does not have
  salts,     \* daily_visitor_salts: set of [day, n], n counting its makings
  made,      \* history: [day -> salts ever made for it]
  cache,     \* [isolates -> a salt]
  hit,       \* the request that counts an event
  cron,      \* the job: pc, boundary, pending tables, passes, tables left to try singly
  sent,      \* number of events sent
  counted,   \* history: every event counted
  failures

vars == <<now, stored, slots, missing, salts, made, cache, hit, cron, sent, counted, failures>>
clock == <<now, missing>>
visitorVars == <<salts, made, cache>>
data == <<stored, slots>>

NoSalt == [day |-> 0, n |-> 0]
DayOf(t) == t \div Day
IdleHit == [pc |-> "idle"]
IdleCron == [pc |-> "idle", before |-> 0, pending |-> {}, passes |-> 0, single |-> {}]

Init ==
  /\ now = 0
  /\ stored = [t \in Expiring \ {"slots"} |-> {}]
  /\ slots = {}
  /\ missing \in {{}, Behind}
  /\ salts = {} /\ made = [d \in 0..DayOf(Horizon) |-> 0]
  /\ cache = [i \in Isolates |-> NoSalt]
  /\ hit = IdleHit
  /\ cron = IdleCron
  /\ sent = 0 /\ counted = {} /\ failures = 0

-----------------------------------------------------------------------------
(* Time.  A request may outlive its minute, and so its day.                *)
Tick ==
  /\ now < Horizon
  /\ hit.pc # "idle" => now = hit.arrived
  /\ now' = now + 1
  /\ UNCHANGED <<data, missing, visitorVars, hit, cron, sent, counted, failures>>

Migrate ==
  /\ missing # {}
  /\ missing' = {}
  /\ UNCHANGED <<now, data, visitorVars, hit, cron, sent, counted, failures>>

-----------------------------------------------------------------------------
(* Counting an event.                                                      *)

(* dailyVisitorId: the cached salt when it is today's.                     *)
Arrive(i, e) ==
  /\ hit.pc = "idle" /\ sent < MaxEvents
  /\ sent' = sent + 1
  /\ hit' = [pc |-> IF cache[i] # NoSalt /\ cache[i].day = DayOf(now) THEN "admit" ELSE "insert",
             isolate |-> i, event |-> e, arrived |-> now, taken |-> now,
             salt |-> IF cache[i] # NoSalt /\ cache[i].day = DayOf(now) THEN cache[i] ELSE NoSalt]
  /\ UNCHANGED <<clock, data, visitorVars, cron, counted, failures>>

(* Mutant: INSERT OR REPLACE.                                              *)
ReplaceSalt ==
  /\ hit.pc = "insert"
  /\ LET d == DayOf(hit.arrived) IN
     /\ made' = [made EXCEPT ![d] = @ + 1]
     /\ salts' = {s \in salts : s.day # d} \cup {[day |-> d, n |-> made[d] + 1]}
  /\ hit' = [hit EXCEPT !.pc = "select"]
  /\ UNCHANGED <<clock, data, cache, cron, sent, counted, failures>>

(* INSERT OR IGNORE of a fresh salt for the day the request arrived on.    *)
InsertSalt ==
  /\ hit.pc = "insert"
  /\ LET d == DayOf(hit.arrived) IN
     IF \E s \in salts : s.day = d THEN UNCHANGED <<salts, made>>
     ELSE /\ made' = [made EXCEPT ![d] = @ + 1]
          /\ salts' = salts \cup {[day |-> d, n |-> made[d] + 1]}
  /\ hit' = [hit EXCEPT !.pc = "select"]
  /\ UNCHANGED <<clock, data, cache, cron, sent, counted, failures>>

(* The row may be gone again; the browser's identifier then stands in.     *)
SelectSalt ==
  /\ hit.pc = "select"
  /\ LET mine == {s \in salts : s.day = DayOf(hit.arrived)} IN
     IF mine = {} THEN hit' = [hit EXCEPT !.pc = "admit"] /\ UNCHANGED cache
     ELSE LET s == CHOOSE s \in mine : TRUE IN
          /\ cache' = [cache EXCEPT ![hit.isolate] = s]
          /\ hit' = [hit EXCEPT !.pc = "admit", !.salt = s, !.taken = now]
  /\ UNCHANGED <<clock, data, salts, made, cron, sent, counted, failures>>

(* Anything but a pixel hit needs no slot.                                 *)
NeedsNoSlot ==
  /\ hit.pc = "admit" /\ ~hit.event.pixel
  /\ hit' = [hit EXCEPT !.pc = "count"]
  /\ UNCHANGED <<clock, data, visitorVars, cron, sent, counted, failures>>

SlotOf(w, p) == {s \in slots : s.website = w /\ s.path = p}
HitSlot == SlotOf(hit.event.website, hit.event.page)

(* admitPixelPath: one statement checks the cap and inserts.               *)
InsertSlot ==
  /\ hit.pc = "admit" /\ hit.event.pixel
  /\ slots' = IF HitSlot = {} /\ Cardinality({s \in slots : s.website = hit.event.website}) < MaxPaths
              THEN slots \cup {[website |-> hit.event.website, path |-> hit.event.page, seen |-> hit.arrived]}
              ELSE slots
  /\ hit' = [hit EXCEPT !.pc = "refresh"]
  /\ UNCHANGED <<clock, stored, visitorVars, cron, sent, counted, failures>>

(* Mutant: a path is never refreshed.                                      *)
RefreshNever ==
  /\ hit.pc = "refresh"
  /\ hit' = [hit EXCEPT !.pc = "known"]
  /\ UNCHANGED <<clock, data, visitorVars, cron, sent, counted, failures>>

(* At most once a day.                                                     *)
RefreshSlot ==
  /\ hit.pc = "refresh"
  /\ slots' = {IF s \in HitSlot /\ s.seen + Day < hit.arrived THEN [s EXCEPT !.seen = hit.arrived] ELSE s : s \in slots}
  /\ hit' = [hit EXCEPT !.pc = "known"]
  /\ UNCHANGED <<clock, stored, visitorVars, cron, sent, counted, failures>>

KnownSlot ==
  /\ hit.pc = "known"
  /\ hit' = IF HitSlot = {} THEN IdleHit ELSE [hit EXCEPT !.pc = "count"]
  /\ UNCHANGED <<clock, data, visitorVars, cron, sent, counted, failures>>

(* saveAcceptedEvents and recordDashboardRollups, under the time the       *)
(* request was received.  Tables that are missing lose the event.          *)
Count ==
  /\ hit.pc = "count"
  /\ LET visitor == IF hit.salt = NoSalt THEN [day |-> 0, n |-> 0, of |-> sent]
                    ELSE [day |-> hit.salt.day, n |-> hit.salt.n, of |-> hit.event.person]
         e == [kind |-> hit.event.kind, website |-> hit.event.website, page |-> hit.event.page,
               label |-> hit.event.label, pixel |-> hit.event.pixel,
               id |-> sent, at |-> hit.arrived, visitor |-> visitor, taken |-> hit.taken,
               lost |-> missing]
     IN /\ counted' = counted \cup {e}
        /\ stored' = [t \in DOMAIN stored |->
             IF t \in missing THEN stored[t]
             ELSE IF t = "seen" \/ (t \in MinuteTables /\ Counts(t, e))
             THEN stored[t] \cup {e} ELSE stored[t]]
  /\ hit' = IdleHit
  /\ UNCHANGED <<clock, slots, visitorVars, cron, sent, failures>>

-----------------------------------------------------------------------------
(* The job.                                                                *)

Before(t) == IF t = "slots" THEN {s \in slots : s.seen < cron.before}
             ELSE {e \in stored[t] : e.at < cron.before}
RowOf(t, x) == IF t = "slots" THEN x ELSE IF t = "seen" THEN x.id ELSE Row(t, x)
ExpiredRows(t) == {RowOf(t, x) : x \in Before(t)}

(* Mutant: rows are kept for no longer than a report reaches.              *)
StartSooner ==
  /\ cron.pc = "idle"
  /\ now >= Keep
  /\ cron' = [pc |-> "pass", before |-> now - MaxReport, pending |-> Expiring, passes |-> 0, single |-> {}]
  /\ UNCHANGED <<clock, data, visitorVars, hit, sent, counted, failures>>

Start ==
  /\ cron.pc = "idle"
  /\ now >= Keep
  /\ cron' = [pc |-> "pass", before |-> now - Keep, pending |-> Expiring, passes |-> 0, single |-> {}]
  /\ UNCHANGED <<clock, data, visitorVars, hit, sent, counted, failures>>

Batch(t) ==
  LET all == ExpiredRows(t) IN
  IF Cardinality(all) <= BatchRows THEN all
  ELSE CHOOSE rows \in SUBSET all : Cardinality(rows) = BatchRows

(* One DELETE of a batch of rows from each of these tables.                *)
Delete(tables) ==
  /\ stored' = [t \in DOMAIN stored |->
       IF t \in tables THEN LET rows == Batch(t) IN {e \in stored[t] : RowOf(t, e) \notin rows} ELSE stored[t]]
  /\ slots' = IF "slots" \in tables THEN slots \ Batch("slots") ELSE slots

(* A table that returned a full batch is tried again.                      *)
StillFull(tables) == {t \in tables : Cardinality(Batch(t)) >= BatchRows}

(* Mutant: a table that is missing fails the run.                          *)
PassFails ==
  /\ cron.pc = "pass" /\ cron.pending # {} /\ cron.passes < MaxPasses
  /\ IF cron.pending \cap missing = {}
     THEN /\ Delete(cron.pending)
          /\ cron' = [cron EXCEPT !.pending = StillFull(cron.pending), !.passes = @ + 1]
     ELSE cron' = IdleCron /\ UNCHANGED data
  /\ UNCHANGED <<clock, visitorVars, hit, sent, counted, failures>>

(* A pass is one transaction, unless a table is missing: then nothing of   *)
(* it happened and its statements run one by one.                          *)
Pass ==
  /\ cron.pc = "pass" /\ cron.pending # {} /\ cron.passes < MaxPasses
  /\ IF cron.pending \cap missing = {}
     THEN /\ Delete(cron.pending)
          /\ cron' = [cron EXCEPT !.pending = StillFull(cron.pending), !.passes = @ + 1]
     ELSE /\ cron' = [cron EXCEPT !.pc = "single", !.single = cron.pending, !.pending = {}]
          /\ UNCHANGED data
  /\ UNCHANGED <<clock, visitorVars, hit, sent, counted, failures>>

(* In a fixed order; a missing table counts as drained.                    *)
Single ==
  /\ cron.pc = "single" /\ cron.single # {}
  /\ LET t == CHOOSE t \in cron.single : TRUE
         found == {t} \ missing
     IN /\ Delete(found)
        /\ cron' = [cron EXCEPT !.single = @ \ {t}, !.pending = @ \cup StillFull(found)]
  /\ UNCHANGED <<clock, visitorVars, hit, sent, counted, failures>>

SinglesDone ==
  /\ cron.pc = "single" /\ cron.single = {}
  /\ cron' = [cron EXCEPT !.pc = "pass", !.passes = @ + 1]
  /\ UNCHANGED <<clock, data, visitorVars, hit, sent, counted, failures>>

PassesDone ==
  /\ cron.pc = "pass" /\ (cron.pending = {} \/ cron.passes = MaxPasses)
  /\ cron' = [cron EXCEPT !.pc = "salts"]
  /\ UNCHANGED <<clock, data, visitorVars, hit, sent, counted, failures>>

(* deleteVisitorSaltsBefore(today); the purge that follows is Purge's.     *)
DeleteSalts ==
  /\ cron.pc = "salts"
  /\ salts' = {s \in salts : s.day >= DayOf(now)}
  /\ cron' = IdleCron
  /\ UNCHANGED <<clock, data, made, cache, hit, sent, counted, failures>>

(* A failure before the salts ends the run; one of theirs is swallowed.    *)
JobFails ==
  /\ cron.pc \in {"pass", "single", "salts"}
  /\ failures < MaxFailures
  /\ failures' = failures + 1
  /\ cron' = IdleCron
  /\ UNCHANGED <<clock, data, visitorVars, hit, sent, counted>>

-----------------------------------------------------------------------------
CollectorStep == InsertSalt \/ SelectSalt \/ NeedsNoSlot \/ InsertSlot \/ RefreshSlot \/ KnownSlot \/ Count
RunStep == Pass \/ SinglesDone \/ PassesDone \/ DeleteSalts \/ Single

Next ==
  \/ Tick \/ Migrate
  \/ \E i \in Isolates, e \in Templates : Arrive(i, e)
  \/ CollectorStep
  \/ Start \/ RunStep \/ JobFails

(* Time passes, the job is scheduled every day, and what was begun goes on *)
(* (or fails, a bounded number of times).                                  *)
Spec == Init /\ [][Next]_vars
FairSpec == Spec /\ WF_vars(Tick) /\ WF_vars(Start) /\ WF_vars(RunStep) /\ WF_vars(CollectorStep)

-----------------------------------------------------------------------------
Days == 0..DayOf(Horizon)
Salt == [day : Days, n : Nat]
Slot == [website : Websites, path : Names, seen : 0..Horizon]
Request == [pc : {"insert", "select", "admit", "refresh", "known", "count"}, isolate : Isolates,
            event : Templates, arrived : 0..Horizon, taken : 0..Horizon, salt : Salt]
Run == [pc : {"idle", "pass", "single", "salts"}, before : 0..Horizon, pending : SUBSET Expiring,
        passes : 0..MaxPasses, single : SUBSET Expiring]

(* Types of the variables.                                                 *)
TypeOK ==
  /\ now \in 0..Horizon /\ missing \in SUBSET Expiring
  /\ stored \in [Expiring \ {"slots"} -> SUBSET counted]
  /\ slots \subseteq Slot /\ IsFiniteSet(slots)
  /\ salts \subseteq Salt /\ made \in [Days -> Nat] /\ cache \in [Isolates -> Salt]
  /\ hit \in {IdleHit} \cup Request
  /\ hit.pc # "idle" => hit.arrived <= now /\ hit.taken <= now
  /\ cron \in Run /\ (cron.pc = "single" => cron.passes < MaxPasses)
  /\ sent \in 0..MaxEvents /\ failures \in 0..MaxFailures
  /\ IsFiniteSet(counted)
  /\ \A e \in counted : /\ e.kind \in Kinds /\ e.website \in Websites /\ e.page \in Names
                        /\ e.at \in 0..now /\ e.taken \in 0..now
                        /\ e.visitor.day \in Days /\ e.visitor.n \in Nat

(* No report over the last 30 days, even one asked for two days before it  *)
(* is read, misses an event that was counted, however long the job runs:   *)
(* its rows are still there.                                               *)
ReportsAreWhole ==
  \A t \in Expiring \cap MinuteTables :
    {e \in counted : Counts(t, e) /\ t \notin e.lost /\ e.at + Keep >= now} \subseteq stored[t]

(* All who took their identifier during a day took the same salt, in every *)
(* instance of the Worker, so a visitor is one visitor that day (a request *)
(* that outlived its day may make a new one after the job deleted it); and *)
(* no two days share one.                                                  *)
OneSaltADay ==
  LET onTheirDay == {e \in counted : e.visitor.n > 0 /\ DayOf(e.taken) = e.visitor.day} IN
  \A e, f \in onTheirDay : e.visitor.day = f.visitor.day => e.visitor.n = f.visitor.n

(* Paths a pixel counted within 31 days (what is kept, less the day a slot *)
(* may go unrefreshed) hold their slots, and a website has at most         *)
(* MaxPaths of those: so no more than that many paths are ever counted in  *)
(* a report, whatever interleaving of hits and job.                        *)
PixelPathsBounded ==
  /\ \A w \in Websites : Cardinality({s \in slots : s.website = w}) <= MaxPaths
  /\ \A e \in counted : e.pixel /\ e.at + Keep - Day > now => SlotOf(e.website, e.page) # {}

(* Whatever has expired is deleted in the end, and so are the salts of     *)
(* days that are over.                                                     *)
ExpiredGo ==
  /\ \A t \in Expiring \ {"slots"} : []<>(\A e \in stored[t] : e.at + Keep >= now)
  /\ []<>(\A s \in slots : s.seen + Keep >= now)
  /\ []<>(now < Keep \/ \A s \in salts : s.day >= DayOf(now))
=============================================================================
