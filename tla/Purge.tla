-------------------------------- MODULE Purge --------------------------------
(***************************************************************************)
(* The physical purge of deleted projects and websites: purgeDeleted, run  *)
(* by the daily cron and by the admin endpoint, together with the requests *)
(* that write what it removes.                                             *)
(*                                                                         *)
(* A run lists what is deleted (two queries), empties the R2 prefix of     *)
(* each target, then deletes rows table by table, the rows of `sources`    *)
(* and `projects` last; every D1 statement and R2 call is one step and     *)
(* costs one unit of the run's budget.  Runs may overlap, and a request    *)
(* that checked a website before it was deleted may write after.           *)
(*                                                                         *)
(* An owner is a project or a website.  A table that a database update has *)
(* not created yet is one whose rows were never written.                   *)
(***************************************************************************)
EXTENDS Naturals, FiniteSets

CONSTANTS
  Runs,              \* purge invocations that may overlap
  Requests,          \* deliveries and console requests
  Earlier,           \* the deliveries before the start
  Projects,
  Sources,           \* websites
  ProjectOf,         \* [Sources -> Projects]
  Policies,          \* quota policies
  PolicyOf,          \* [Projects \cup Sources -> Policies]
  Existing,          \* the websites that are there at the start
  Deleted,           \* ... and deleted already
  DataTables,        \* tables with rows of websites and projects: 22
  PageSize,          \* objects in a page of an R2 listing: 1000
  RowsPerStatement,  \* rows one DELETE removes at most: 1000
  BudgetOf,          \* [Runs -> Nat]: operations of a run: 40 unless its caller says
  MaxFailures        \* bound: failed or lost invocations

Owners == Projects \cup Sources

ASSUME OwnersAssumption ==
  /\ Owners # {} /\ Projects \cap Sources = {}
  /\ ProjectOf \in [Sources -> Projects]
  /\ PolicyOf \in [Owners -> Policies]
  /\ Existing \subseteq Sources
  /\ Deleted \subseteq Existing
  /\ Earlier \cap Requests = {}

ASSUME NumbersAssumption ==
  /\ DataTables \in Nat \ {0}
  /\ PageSize \in Nat \ {0}
  /\ RowsPerStatement \in Nat \ {0}
  /\ BudgetOf \in [Runs -> Nat \ {0, 1}]
  /\ MaxFailures \in Nat

VARIABLES
  pc,        \* where each request's handler is
  owner,     \* the project or website it is about
  status,    \* the row in `projects` or `sources`: none, live, deleted, purged
  policies,  \* the quota_policies table
  rows,      \* rows of the other tables: their table, owner and writer
  objects,   \* raw batches in R2: their website and writer
  stage,     \* where each run is
  targets,   \* what it listed
  todo,      \* the targets whose prefix is not yet empty
  page,      \* the objects it listed last
  more,      \* that listing was truncated
  table,     \* the table its next statement is about
  budget,    \* operations it has left
  report,    \* how its last invocation ended
  failures,  \* invocations that failed or were lost
  stray,     \* history: requests that wrote for an owner no longer live
  missed     \* history: owners deleted after a run under way listed them

handlers == <<pc, owner>>
run      == <<stage, targets, todo, page, more, table, budget, report>>
vars == <<pc, owner, status, policies, rows, objects, stage, targets, todo, page, more,
          table, budget, report, failures, stray, missed>>

Seen         == DataTables + 1   \* dashboard_seen_events: projects only
PolicyTable  == DataTables + 2   \* quota_policies
KeyTable     == DataTables + 3   \* access_keys
SourceTable  == DataTables + 4   \* sources
ProjectTable == DataTables + 5   \* projects
Tables == 1..ProjectTable

Statuses == {"none", "live", "deleted", "purged"}
Steps == {"idle", "put", "count", "policy", "source", "watermark", "key", "cascade",
          "record", "done"}
Stages == {"idle", "sources", "prefix", "delete", "rows"}
Reports == {"none", "complete", "partial"}
Writers == Requests \cup Earlier
Row == [table : Tables, owner : Owners, by : Writers]
Object == [website : Sources, by : Writers]

Init ==
  /\ pc = [r \in Requests |-> "idle"]
  /\ owner = [r \in Requests |-> CHOOSE o \in Owners : TRUE]
  /\ status = [o \in Owners |-> IF o \in Deleted THEN "deleted"
                                ELSE IF o \in Projects \cup Existing THEN "live" ELSE "none"]
  /\ policies = {PolicyOf[o] : o \in Projects \cup Existing}
  /\ rows = [table : {1}, owner : Existing, by : Earlier]
  /\ objects = [website : Existing, by : Earlier]
  /\ stage = [u \in Runs |-> "idle"]
  /\ targets = [u \in Runs |-> {}]
  /\ todo = [u \in Runs |-> {}]
  /\ page = [u \in Runs |-> {}]
  /\ more = [u \in Runs |-> FALSE]
  /\ table = [u \in Runs |-> 1]
  /\ budget = [u \in Runs |-> 0]
  /\ report = [u \in Runs |-> "none"]
  /\ failures = 0
  /\ stray = {}
  /\ missed = {}

Websites(p) == {s \in Sources : ProjectOf[s] = p}
Family(o) == IF o \in Projects THEN {o} \cup Websites(o) ELSE {o}
ProjectHolding(o) == IF o \in Projects THEN o ELSE ProjectOf[o]

(* What authorizeSource and the console accept.                            *)
Live(o) == status[o] = "live" /\ status[ProjectHolding(o)] = "live"

(***************************************************************************)
(* Requests.  The rows a handler reads before its first write are read in  *)
(* one step: deletion is terminal, so the check of a second read could     *)
(* have been made at the first.                                            *)
(***************************************************************************)
Goto(r, step) == pc' = [pc EXCEPT ![r] = step] /\ UNCHANGED owner

Start(r, o, step) ==
  /\ pc[r] = "idle"
  /\ pc' = [pc EXCEPT ![r] = step]
  /\ owner' = [owner EXCEPT ![r] = o]

(* The history of a write of r: was its owner still live?                  *)
Wrote(r) == stray' = IF Live(owner[r]) THEN stray ELSE stray \cup {r}

StartDelivery(r, s) ==
  /\ Live(s)
  /\ Start(r, s, "put")
  /\ UNCHANGED <<status, policies, rows, objects, run, failures, stray, missed>>

PutBatch(r) ==
  /\ pc[r] = "put"
  /\ objects' = objects \cup {[website |-> owner[r], by |-> r]}
  /\ Wrote(r) /\ Goto(r, "count")
  /\ UNCHANGED <<status, policies, rows, run, failures, missed>>

CountBatch(r) ==
  /\ pc[r] = "count"
  /\ rows' = rows \cup {[table |-> 1, owner |-> owner[r], by |-> r],
                        [table |-> Seen, owner |-> ProjectOf[owner[r]], by |-> r]}
  /\ Wrote(r) /\ Goto(r, "record")
  /\ UNCHANGED <<status, policies, objects, run, failures, missed>>

(* A website may be created in any project that has a row, whatever its    *)
(* status; its id, its key and its quota policy are new.                   *)
StartCreate(r, s) ==
  /\ status[s] = "none"
  /\ \A q \in Requests : pc[q] # "idle" => owner[q] # s
  /\ status[ProjectOf[s]] \in {"live", "deleted"}
  /\ Start(r, s, "policy")
  /\ UNCHANGED <<status, policies, rows, objects, run, failures, stray, missed>>

InsertPolicy(r) ==
  /\ pc[r] = "policy"
  /\ policies' = policies \cup {PolicyOf[owner[r]]}
  /\ Goto(r, "source")
  /\ UNCHANGED <<status, rows, objects, run, failures, stray, missed>>

InsertSource(r) ==
  /\ pc[r] = "source"
  /\ status' = [status EXCEPT ![owner[r]] = "live"]
  /\ stray' = IF status[ProjectOf[owner[r]]] = "live" THEN stray ELSE stray \cup {r}
  /\ Goto(r, "watermark")
  /\ UNCHANGED <<policies, rows, objects, run, failures, missed>>

InsertWatermark(r) ==
  /\ pc[r] = "watermark"
  /\ rows' = rows \cup {[table |-> 1, owner |-> owner[r], by |-> r]}
  /\ Wrote(r) /\ Goto(r, "record")
  /\ UNCHANGED <<status, policies, objects, run, failures, missed>>

StartKey(r, o) ==
  /\ Live(o)
  /\ Start(r, o, "key")
  /\ UNCHANGED <<status, policies, rows, objects, run, failures, stray, missed>>

InsertKey(r) ==
  /\ pc[r] = "key"
  /\ rows' = rows \cup {[table |-> KeyTable, owner |-> owner[r], by |-> r]}
  /\ Wrote(r) /\ Goto(r, "done")
  /\ UNCHANGED <<status, policies, objects, run, failures, missed>>

(***************************************************************************)
(* Deletion: setSourceStatus, or setProjectStatus and then the websites of *)
(* the project; only what is not deleted yet is.  `missed` gets what a run *)
(* under way can no longer list.                                           *)
(***************************************************************************)
UnderWay == {u \in Runs : stage[u] # "idle"}
PastListing == {u \in UnderWay : stage[u] # "sources"}

DeleteSource(r, s) ==
  /\ s \in Sources /\ status[s] # "none"
  /\ Start(r, s, "record")
  /\ IF status[s] = "live"
     THEN /\ status' = [status EXCEPT ![s] = "deleted"]
          /\ missed' = IF PastListing = {} THEN missed ELSE missed \cup {s}
     ELSE UNCHANGED <<status, missed>>
  /\ UNCHANGED <<policies, rows, objects, run, failures, stray>>

DeleteProject(r, p) ==
  /\ p \in Projects
  /\ IF status[p] = "live"
     THEN /\ Start(r, p, "cascade")
          /\ status' = [status EXCEPT ![p] = "deleted"]
          /\ missed' = IF UnderWay = {} THEN missed ELSE missed \cup Family(p)
     ELSE Start(r, p, "record") /\ UNCHANGED <<status, missed>>
  /\ UNCHANGED <<policies, rows, objects, run, failures, stray>>

Cascade(r) ==
  LET cascaded == {s \in Websites(owner[r]) : status[s] = "live"} IN
  /\ pc[r] = "cascade"
  /\ status' = [o \in Owners |-> IF o \in cascaded THEN "deleted" ELSE status[o]]
  /\ missed' = IF PastListing = {} \/ status[owner[r]] = "deleted"
               THEN missed ELSE missed \cup cascaded
  /\ Goto(r, "record")
  /\ UNCHANGED <<policies, rows, objects, run, failures, stray>>

(* The last write of a request: its decision or its audit entry.           *)
Record(r) ==
  /\ pc[r] = "record"
  /\ rows' = rows \cup {[table |-> DataTables, owner |-> owner[r], by |-> r]}
  /\ Wrote(r) /\ Goto(r, "done")
  /\ UNCHANGED <<status, policies, objects, run, failures, missed>>

FailRequest(r) ==
  /\ pc[r] \notin {"idle", "done"} /\ failures < MaxFailures
  /\ failures' = failures + 1
  /\ Goto(r, "done")
  /\ UNCHANGED <<status, policies, rows, objects, run, stray, missed>>

(***************************************************************************)
(* A run.                                                                  *)
(***************************************************************************)
(* DELETED_SOURCES: a website is purged when it is deleted itself or its   *)
(* project is.                                                             *)
DeletedSource(s) ==
  status[s] = "deleted" \/ (status[s] = "live" /\ status[ProjectOf[s]] = "deleted")

Doomed(o) == IF o \in Projects THEN status[o] = "deleted" ELSE DeletedSource(o)

Spend(u, n) == budget' = [budget EXCEPT ![u] = @ - n]

(* An invocation ends, and its local variables with it; a complete one has *)
(* promised that its targets are gone.                                     *)
Finish(u, outcome) ==
  /\ targets' = [targets EXCEPT ![u] = IF outcome = "complete" THEN @ ELSE {}]
  /\ stage' = [stage EXCEPT ![u] = "idle"]
  /\ report' = [report EXCEPT ![u] = outcome]
  /\ todo' = [todo EXCEPT ![u] = {}]
  /\ page' = [page EXCEPT ![u] = {}]
  /\ more' = [more EXCEPT ![u] = FALSE]
  /\ table' = [table EXCEPT ![u] = 1]
  /\ budget' = [budget EXCEPT ![u] = 0]

(* listPurgeTargets: the deleted projects, ...                             *)
ListProjects(u) ==
  LET listed == {p \in Projects : status[p] = "deleted"} IN
  /\ stage[u] = "idle"
  /\ stage' = [stage EXCEPT ![u] = "sources"]
  /\ targets' = [targets EXCEPT ![u] = listed]
  /\ todo' = [todo EXCEPT ![u] = listed]
  /\ table' = [table EXCEPT ![u] = 1]
  /\ budget' = [budget EXCEPT ![u] = BudgetOf[u] - 2]
  /\ report' = [report EXCEPT ![u] = "none"]
  /\ UNCHANGED <<handlers, status, policies, rows, objects, page, more, failures, stray, missed>>

AfterPrefixes(T) == IF T = {} THEN "rows" ELSE "prefix"

(* ... then the deleted websites whose project is not.                     *)
ListSources(u) ==
  LET listed == {s \in Sources : status[s] = "deleted" /\ status[ProjectOf[s]] # "deleted"} IN
  /\ stage[u] = "sources"
  /\ targets' = [targets EXCEPT ![u] = @ \cup listed]
  /\ todo' = [todo EXCEPT ![u] = @ \cup listed]
  /\ stage' = [stage EXCEPT ![u] = AfterPrefixes(todo[u] \cup listed)]
  /\ UNCHANGED <<handlers, status, policies, rows, objects, page, more, table, budget,
                 report, failures, stray, missed>>

(* What a call limited to n takes of S: all of it, or some n.              *)
Portions(S, n) ==
  IF Cardinality(S) <= n THEN {S} ELSE {P \in SUBSET S : Cardinality(P) = n}

(* purgePrefix, for the projects first.                                    *)
First(T) == CHOOSE o \in T : o \in Projects \/ T \cap Projects = {}

Prefix(u) == First(todo[u])

Under(o) == {x \in objects : x.website \in Family(o)}

PrefixDone(u) ==
  /\ todo' = [todo EXCEPT ![u] = @ \ {Prefix(u)}]
  /\ stage' = [stage EXCEPT ![u] = AfterPrefixes(todo[u] \ {Prefix(u)})]

ListPage(u) ==
  /\ stage[u] = "prefix" /\ budget[u] >= 2
  /\ \E listed \in Portions(Under(Prefix(u)), PageSize) :
       /\ page' = [page EXCEPT ![u] = listed]
       /\ more' = [more EXCEPT ![u] = listed # Under(Prefix(u))]
       /\ IF listed = {} THEN PrefixDone(u)
          ELSE stage' = [stage EXCEPT ![u] = "delete"] /\ UNCHANGED todo
  /\ Spend(u, 1)
  /\ UNCHANGED <<handlers, status, policies, rows, objects, targets, table, report,
                 failures, stray, missed>>

(* Mutant: the rest of a truncated listing is forgotten.                   *)
DeletePageOnce(u) ==
  /\ stage[u] = "delete"
  /\ objects' = objects \ page[u]
  /\ PrefixDone(u)
  /\ page' = [page EXCEPT ![u] = {}] /\ more' = [more EXCEPT ![u] = FALSE]
  /\ Spend(u, 1)
  /\ UNCHANGED <<handlers, status, policies, rows, targets, table, report, failures, stray,
                 missed>>

(* A truncated prefix is listed again from the start.                      *)
DeletePage(u) ==
  /\ stage[u] = "delete"
  /\ objects' = objects \ page[u]
  /\ IF more[u] THEN stage' = [stage EXCEPT ![u] = "prefix"] /\ UNCHANGED todo
                ELSE PrefixDone(u)
  /\ page' = [page EXCEPT ![u] = {}] /\ more' = [more EXCEPT ![u] = FALSE]
  /\ Spend(u, 1)
  /\ UNCHANGED <<handlers, status, policies, rows, targets, table, report, failures, stray,
                 missed>>

(***************************************************************************)
(* purgeDeletedRows.  Each WHERE is evaluated by its own statement.        *)
(***************************************************************************)
(* Mutant: a policy goes although a live website still uses it.            *)
UnusedPoliciesShared ==
  {q \in policies : \E o \in Owners : Doomed(o) /\ PolicyOf[o] = q}

(* A deleted owner's policy, unless a row that stays refers to it.         *)
UnusedPolicies ==
  {q \in policies :
     /\ \E o \in Owners : Doomed(o) /\ PolicyOf[o] = q
     /\ \A o \in Owners : status[o] = "live" /\ ~Doomed(o) => PolicyOf[o] # q}

(* Mutant: a row goes by its own website's status, not by its project's.   *)
DoomedRowsOfDeleted(t) == {w \in rows : w.table = t /\ status[w.owner] = "deleted"}

DoomedRows(t) ==
  {w \in rows : w.table = t /\ (Doomed(w.owner) \/ status[ProjectHolding(w.owner)] = "deleted")}

(* What the DELETE of table t matches.                                     *)
Matching(t) ==
  CASE t = PolicyTable  -> UnusedPolicies
    [] t = SourceTable  -> {s \in Sources : DeletedSource(s)}
    [] t = ProjectTable -> {p \in Projects : Doomed(p)}
    [] OTHER            -> DoomedRows(t)

Remove(t, gone) ==
  /\ rows' = IF t \in {PolicyTable, SourceTable, ProjectTable} THEN rows ELSE rows \ gone
  /\ policies' = IF t = PolicyTable THEN policies \ gone ELSE policies
  /\ status' = IF t \in {SourceTable, ProjectTable}
               THEN [o \in Owners |-> IF o \in gone THEN "purged" ELSE status[o]]
               ELSE status

NextTable(u) ==
  IF table[u] = ProjectTable
  THEN Finish(u, "complete")
  ELSE /\ table' = [table EXCEPT ![u] = @ + 1]
       /\ Spend(u, 1)
       /\ UNCHANGED <<stage, report, targets, todo, page, more>>

SameTable(u) ==
  /\ Spend(u, 1)
  /\ UNCHANGED <<table, stage, report, targets, todo, page, more>>

(* A statement that removed less than a full batch was the last one of its *)
(* table; that of `projects` is the last one of the run.                   *)
DeleteRows(u) ==
  /\ stage[u] = "rows" /\ budget[u] >= 1
  /\ \E gone \in Portions(Matching(table[u]), RowsPerStatement) :
       /\ Remove(table[u], gone)
       /\ IF Cardinality(gone) < RowsPerStatement THEN NextTable(u) ELSE SameTable(u)
  /\ UNCHANGED <<handlers, objects, failures, stray, missed>>

(* The budget is spent: what is left waits for another run.                *)
OutOfBudget(u) ==
  /\ \/ stage[u] = "prefix" /\ budget[u] < 2
     \/ stage[u] = "rows" /\ budget[u] < 1
  /\ Finish(u, "partial")
  /\ UNCHANGED <<handlers, status, policies, rows, objects, failures, stray, missed>>

(* A call fails or the isolate is evicted: nothing is reported.            *)
FailRun(u) ==
  /\ stage[u] # "idle" /\ failures < MaxFailures
  /\ failures' = failures + 1
  /\ Finish(u, "none")
  /\ UNCHANGED <<handlers, status, policies, rows, objects, stray, missed>>

Step(u) ==
  \/ ListProjects(u) \/ ListSources(u)
  \/ ListPage(u) \/ DeletePage(u)
  \/ DeleteRows(u) \/ OutOfBudget(u)

Request(r) ==
  \/ \E s \in Sources : StartDelivery(r, s) \/ StartCreate(r, s) \/ DeleteSource(r, s)
  \/ \E o \in Owners : StartKey(r, o)
  \/ \E p \in Projects : DeleteProject(r, p)
  \/ PutBatch(r) \/ CountBatch(r)
  \/ InsertPolicy(r) \/ InsertSource(r) \/ InsertWatermark(r)
  \/ InsertKey(r) \/ Cascade(r) \/ Record(r)

Next ==
  \/ \E u \in Runs : Step(u) \/ FailRun(u)
  \/ \E r \in Requests : Request(r) \/ FailRequest(r)

Spec == Init /\ [][Next]_vars

(* The cron starts a run every day, and an awaited call settles.           *)
FairSpec == Spec /\ \A u \in Runs : WF_vars(Step(u))

(***************************************************************************)
(* Properties.                                                             *)
(***************************************************************************)

(* Every variable has its type; in particular a run never spends more than *)
(* its budget.                                                             *)
TypeOK ==
  /\ pc \in [Requests -> Steps]
  /\ owner \in [Requests -> Owners]
  /\ status \in [Owners -> Statuses]
  /\ policies \subseteq Policies
  /\ rows \subseteq Row
  /\ objects \subseteq Object
  /\ stage \in [Runs -> Stages]
  /\ targets \in [Runs -> SUBSET Owners]
  /\ todo \in [Runs -> SUBSET Owners]
  /\ page \in [Runs -> SUBSET Object]
  /\ more \in [Runs -> BOOLEAN]
  /\ table \in [Runs -> Tables]
  /\ budget \in [Runs -> Nat] /\ \A u \in Runs : budget[u] <= BudgetOf[u]
  /\ report \in [Runs -> Reports]
  /\ failures \in 0..MaxFailures
  /\ stray \subseteq Requests
  /\ missed \subseteq Owners

(* The purge takes nothing from a website or project that is live, the     *)
(* quota policy it refers to included, whoever deletes or creates what     *)
(* meanwhile.                                                              *)
LiveUntouched ==
  [][/\ \A x \in objects \ objects' : ~Live(x.website)
     /\ \A w \in rows \ rows' : ~Live(w.owner)
     /\ \A o \in Owners : Live(o) =>
          status'[o] # "purged" /\ PolicyOf[o] \notin policies \ policies']_vars

(* A row still leads to the objects of website s: its own, or that of its  *)
(* deleted project.                                                        *)
Found(s) == status[s] \in {"live", "deleted"} \/ status[ProjectOf[s]] = "deleted"

(* purge-deleted.ts:47 "an interrupted run can be repeated": whatever      *)
(* fails or runs out of budget, and however runs overlap, every object is  *)
(* still led to by a row, unless it was written for a website no longer    *)
(* live or the website was deleted while a run was under way.              *)
ObjectsAreFound ==
  \A x \in objects : Found(x.website) \/ x.by \in stray \/ x.website \in missed

(* A run that reports "complete" has left nothing of what it listed: no    *)
(* object, no row, with the same two exceptions.                           *)
CompleteMeansGone ==
  \A u \in Runs : report[u] = "complete" => \A o \in targets[u] :
    /\ status[o] = "purged"
    /\ \A x \in objects : x.website \in Family(o) => x.by \in stray
    /\ \A w \in rows : w.owner \in Family(o) \ missed => w.by \in stray

(* Whatever is deleted is purged in the end: docs/operations/cloudflare.md *)
(* :312 "the next daily run removes all its data", :322 "a large purge may *)
(* take several passes; the command handles that", and the comment on      *)
(* purgeDeletedRows, "rerunning resumes where it stopped".  The code does  *)
(* not keep this: every run pays again for each prefix and for each table  *)
(* before `sources`, and with enough deleted websites none gets to the     *)
(* rows that would make the next one cheaper.                              *)
DeletedIsPurged ==
  \A o \in Owners : status[o] = "deleted" ~> status[o] = "purged"

=============================================================================
