----------------------------- MODULE PurgeProofs -----------------------------
(***************************************************************************)
(* Proofs about Purge, for any number of websites, runs and requests, any  *)
(* page and batch size and any budget.                                     *)
(*                                                                         *)
(* RequestInv: a website under creation has no row and one request.        *)
(* StageInv and DeadInv: what a run works on is dead for good.  CoverInv:  *)
(* it covers whatever is deleted, unless `missed` says so.  PrefixInv and  *)
(* RowsInv: a prefix it has finished holds only stray objects, a table it  *)
(* has finished only stray rows of its targets; so what is purged left     *)
(* nothing but stray rows, whichever of several runs purged it.            *)
(***************************************************************************)
EXTENDS Purge, FiniteSetTheorems, TLAPS

Creating(r) == pc[r] \in {"policy", "source"}

RequestInv ==
  /\ \A r \in Requests :
       /\ pc[r] \in {"put", "count", "policy", "source", "watermark"} => owner[r] \in Sources
       /\ pc[r] = "cascade" => owner[r] \in Projects
       /\ Creating(r) => status[owner[r]] = "none"
  /\ \A q, r \in Requests : Creating(r) /\ q # r /\ pc[q] # "idle" => owner[q] # owner[r]

Dead(o) == status[o] \in {"deleted", "purged"}

(* The stages of a run, and what its variables hold in each.               *)
StageInv ==
  \A u \in Runs :
    /\ stage[u] = "delete" => budget[u] >= 1
    /\ stage[u] \in {"idle", "rows"} => todo[u] = {}
    /\ stage[u] \in {"prefix", "delete"} => todo[u] # {}
    /\ stage[u] = "sources" => todo[u] = targets[u]
    /\ stage[u] # "rows" => table[u] = 1
    /\ stage[u] # "delete" => page[u] = {}
    /\ report[u] = "complete" => stage[u] = "idle"

(* A run only works on what is deleted or purged, and only on that.        *)
DeadInv ==
  \A u \in Runs :
    /\ todo[u] \subseteq targets[u]
    /\ \A o \in targets[u] : Dead(o)
    /\ \A x \in page[u] : \E o \in targets[u] : x.website \in Family(o)

(* Everything deleted is a target of a run under way, or missed by it.     *)
CoverInv ==
  \A u \in Runs :
    /\ stage[u] # "idle" => \A p \in Projects :
         status[p] = "deleted" => p \in targets[u] \/ Family(p) \subseteq missed
    /\ stage[u] \notin {"idle", "sources"} => \A s \in Sources :
         status[s] = "deleted" => s \in targets[u] \/ ProjectOf[s] \in targets[u] \/ s \in missed

OnlyStray(o) == \A x \in objects : x.website \in Family(o) => x.by \in stray

(* A finished prefix is empty but for stray objects; so is, after its last *)
(* page is deleted, the prefix a run is at.                                *)
PrefixInv ==
  \A u \in Runs :
    /\ stage[u] # "sources" => \A o \in targets[u] \ todo[u] : OnlyStray(o)
    /\ stage[u] = "delete" /\ ~more[u] =>
         \A x \in Under(Prefix(u)) : x \in page[u] \/ x.by \in stray

OnlyStrayRows(o, k) ==
  \A w \in rows : w.table < k /\ w.owner \in Family(o) \ missed => w.by \in stray

(* What is purged, and the tables a run has finished, hold only stray rows *)
(* of what it listed; past its last table its websites are purged.         *)
RowsInv ==
  /\ \A w \in rows : w.table \notin {PolicyTable, SourceTable, ProjectTable}
  /\ \A o \in Owners : status[o] = "purged" => OnlyStrayRows(o, ProjectTable)
  /\ \A u \in Runs : stage[u] = "rows" =>
       /\ \A o \in targets[u] : OnlyStrayRows(o, table[u])
       /\ table[u] = ProjectTable => \A s \in targets[u] \cap Sources : status[s] = "purged"


(* A completed run has purged its targets.                                 *)
CompleteInv ==
  \A u \in Runs : report[u] = "complete" => \A o \in targets[u] : status[o] = "purged"

(***************************************************************************)
(* What a call removes at most.                                            *)
(***************************************************************************)
LEMMA PortionsAreParts ==
  ASSUME NEW S, NEW n, NEW P \in Portions(S, n)
  PROVE  P \subseteq S
  BY DEF Portions

(* A call that removed less than its limit has removed everything.         *)
LEMMA ShortPortionIsAll ==
  ASSUME NEW S, NEW n \in Nat, NEW P \in Portions(S, n), Cardinality(P) < n
  PROVE  P = S
  BY DEF Portions

LEMMA EmptyPortionIsAll ==
  ASSUME NEW S, NEW n \in Nat \ {0}, {} \in Portions(S, n)
  PROVE  S = {}
  BY FS_EmptySet DEF Portions

LEMMA PrefixIsTodo ==
  ASSUME NEW u, todo[u] # {}
  PROVE  Prefix(u) \in todo[u]
<1>1. \E o \in todo[u] : o \in Projects \/ todo[u] \cap Projects = {}
  OBVIOUS
<1> QED
  BY <1>1 DEF Prefix, First

LEMMA FamilyTyped ==
  ASSUME NEW o \in Owners
  PROVE  Family(o) \subseteq Owners /\ o \in Family(o) /\ ProjectHolding(o) \in Projects
  BY OwnersAssumption DEF Owners, Family, Websites, ProjectHolding

(* Nothing in the family of a dead owner is live.                          *)
LEMMA DeadFamily ==
  ASSUME NEW o \in Owners, Dead(o), NEW s \in Family(o)
  PROVE  ~Live(s)
  BY OwnersAssumption DEF Owners, Dead, Family, Websites, Live, ProjectHolding

(***************************************************************************)
(* Types.                                                                  *)
(***************************************************************************)
TypeInv == TypeOK /\ StageInv /\ RequestInv

LEMMA TypeInit == Init => TypeInv
<1> SUFFICES ASSUME Init PROVE TypeInv
  OBVIOUS
<1>1. (CHOOSE o \in Owners : TRUE) \in Owners
  BY OwnersAssumption
<1>2. rows \subseteq Row /\ objects \subseteq Object
  BY OwnersAssumption, NumbersAssumption
  DEF Init, Row, Object, Owners, Writers, Tables, ProjectTable
<1>3. policies \subseteq Policies
  BY OwnersAssumption DEF Init, Owners
<1>4. 1 \in Tables /\ 0 \in 0..MaxFailures /\ \A u \in Runs : 0 <= BudgetOf[u]
  BY NumbersAssumption DEF Tables, ProjectTable
<1>5. status \in [Owners -> Statuses]
  BY DEF Init, Statuses
<1>6. TypeOK
  BY <1>1, <1>2, <1>3, <1>4, <1>5 DEF Init, TypeOK, Steps, Stages, Reports
<1>7. StageInv
  BY DEF Init, StageInv
<1>8. RequestInv
  BY DEF Init, RequestInv, Creating
<1> QED
  BY <1>6, <1>7, <1>8 DEF TypeInv

LEMMA RequestTypes ==
  ASSUME TypeInv, NEW r \in Requests, Request(r) \/ FailRequest(r)
  PROVE  TypeOK' /\ StageInv' /\ UNCHANGED run
<1> USE DEF TypeInv, TypeOK, Steps, Start, Goto, Wrote, handlers, run
<1>1. ASSUME NEW s \in Sources, StartDelivery(r, s) \/ StartCreate(r, s) PROVE TypeOK' /\ UNCHANGED run
  BY <1>1 DEF StartDelivery, StartCreate, Owners
<1>2. ASSUME NEW s \in Sources, DeleteSource(r, s) PROVE TypeOK' /\ UNCHANGED run
  BY <1>2 DEF DeleteSource, Owners, Statuses
<1>3. ASSUME NEW o \in Owners, StartKey(r, o) PROVE TypeOK' /\ UNCHANGED run
  BY <1>3 DEF StartKey
<1>4. ASSUME NEW p \in Projects, DeleteProject(r, p) PROVE TypeOK' /\ UNCHANGED run
  <2>1. p \in Owners /\ Family(p) \subseteq Owners
    BY FamilyTyped DEF Owners
  <2> QED
    BY <1>4, <2>1 DEF DeleteProject, Statuses
<1>5. ASSUME PutBatch(r) PROVE TypeOK' /\ UNCHANGED run
  BY <1>5 DEF PutBatch, RequestInv, Object, Writers
<1>6. ASSUME CountBatch(r) PROVE TypeOK' /\ UNCHANGED run
  <2>1. owner[r] \in Sources /\ ProjectOf[owner[r]] \in Owners
    BY <1>6, OwnersAssumption DEF CountBatch, RequestInv, Owners
  <2>2. 1 \in Tables /\ Seen \in Tables
    BY NumbersAssumption DEF Tables, Seen, ProjectTable
  <2>3. rows' \subseteq Row
    BY <1>6, <2>1, <2>2 DEF CountBatch, Row, Writers
  <2> QED
    BY <1>6, <2>3 DEF CountBatch
<1>7. ASSUME InsertPolicy(r) PROVE TypeOK' /\ UNCHANGED run
  BY <1>7, OwnersAssumption DEF InsertPolicy
<1>8. ASSUME InsertSource(r) PROVE TypeOK' /\ UNCHANGED run
  BY <1>8 DEF InsertSource, Statuses
<1>9. ASSUME InsertWatermark(r) \/ InsertKey(r) \/ Record(r) PROVE TypeOK' /\ UNCHANGED run
  <2>1. 1 \in Tables /\ KeyTable \in Tables /\ DataTables \in Tables
    BY NumbersAssumption DEF Tables, KeyTable, ProjectTable
  <2>2. rows' \subseteq Row
    BY <1>9, <2>1 DEF InsertWatermark, InsertKey, Record, Row, Writers
  <2> QED
    BY <1>9, <2>2 DEF InsertWatermark, InsertKey, Record
<1>10. ASSUME Cascade(r) PROVE TypeOK' /\ UNCHANGED run
  BY <1>10 DEF Cascade, Statuses, Websites, Owners
<1>11. ASSUME FailRequest(r) PROVE TypeOK' /\ UNCHANGED run
  BY <1>11, NumbersAssumption DEF FailRequest
<1>12. TypeOK' /\ UNCHANGED run
  BY <1>1, <1>2, <1>3, <1>4, <1>5, <1>6, <1>7, <1>8, <1>9, <1>10, <1>11 DEF Request
<1> QED
  BY <1>12 DEF StageInv

LEMMA UnderTyped ==
  ASSUME TypeOK, NEW o
  PROVE  Under(o) \subseteq Object
  BY DEF TypeOK, Under

(* What a DELETE takes away, and what it leaves alone.                     *)
LEMMA RemoveTyped ==
  ASSUME TypeOK, NEW t \in Tables, NEW gone, Remove(t, gone)
  PROVE  /\ rows' \subseteq rows /\ policies' \subseteq policies
         /\ status' \in [Owners -> Statuses]
  BY DEF TypeOK, Remove, Statuses

LEMMA SpecialTables ==
  /\ PolicyTable # SourceTable /\ PolicyTable # ProjectTable /\ SourceTable # ProjectTable
  /\ {PolicyTable, SourceTable, ProjectTable} \subseteq Tables
  BY NumbersAssumption DEF Tables, PolicyTable, SourceTable, ProjectTable

LEMMA MatchingCases ==
  /\ Matching(PolicyTable) = UnusedPolicies
  /\ Matching(SourceTable) = {s \in Sources : DeletedSource(s)}
  /\ Matching(ProjectTable) = {p \in Projects : Doomed(p)}
  /\ \A t : t \notin {PolicyTable, SourceTable, ProjectTable} => Matching(t) = DoomedRows(t)
<1>1. Matching(PolicyTable) = UnusedPolicies
  BY SpecialTables, Zenon DEF Matching
<1>2. Matching(SourceTable) = {s \in Sources : DeletedSource(s)}
  BY SpecialTables, Zenon DEF Matching
<1>3. Matching(ProjectTable) = {p \in Projects : Doomed(p)}
  BY SpecialTables, Zenon DEF Matching
<1>4. ASSUME NEW t, t \notin {PolicyTable, SourceTable, ProjectTable}
      PROVE  Matching(t) = DoomedRows(t)
  BY <1>4, Zenon DEF Matching
<1> QED
  BY <1>1, <1>2, <1>3, <1>4

LEMMA FinishStage ==
  ASSUME TypeOK, NEW u \in Runs, NEW outcome \in Reports, Finish(u, outcome)
  PROVE  /\ targets' \in [Runs -> SUBSET Owners] /\ stage' \in [Runs -> Stages]
         /\ report' \in [Runs -> Reports] /\ todo' \in [Runs -> SUBSET Owners]
         /\ page' \in [Runs -> SUBSET Object] /\ more' \in [Runs -> BOOLEAN]
         /\ table' \in [Runs -> Tables] /\ budget' \in [Runs -> Nat]
         /\ \A v \in Runs : budget'[v] <= BudgetOf[v]
<1>1. 1 \in Tables /\ \A v \in Runs : BudgetOf[v] \in Nat
  BY NumbersAssumption DEF Tables, ProjectTable
<1> QED
  BY <1>1 DEF TypeOK, Finish, Stages

LEMMA StepTypes ==
  ASSUME TypeInv, NEW u \in Runs, Step(u) \/ FailRun(u)
  PROVE  TypeInv'
<1> USE DEF TypeInv, TypeOK, handlers, Spend, AfterPrefixes
<1>1. 1 \in Tables /\ BudgetOf[u] \in Nat /\ BudgetOf[u] - 2 \in 0..BudgetOf[u]
  BY NumbersAssumption DEF Tables, ProjectTable
<1>2. CASE ListProjects(u)
  <2>1. TypeOK'
    BY <1>1, <1>2 DEF ListProjects, Owners, Stages, Reports
  <2> QED
    BY <1>2, <2>1 DEF ListProjects, StageInv, RequestInv, Creating
<1>3. CASE ListSources(u)
  <2>1. TypeOK'
    BY <1>3 DEF ListSources, Owners, Stages
  <2> QED
    BY <1>3, <2>1 DEF ListSources, StageInv, RequestInv, Creating
<1>4. CASE ListPage(u)
  <2>1. PICK listed \in Portions(Under(Prefix(u)), PageSize) :
          /\ page' = [page EXCEPT ![u] = listed]
          /\ more' = [more EXCEPT ![u] = listed # Under(Prefix(u))]
          /\ IF listed = {} THEN PrefixDone(u)
             ELSE stage' = [stage EXCEPT ![u] = "delete"] /\ UNCHANGED todo
    BY <1>4 DEF ListPage
  <2>2. listed \subseteq Object
    BY PortionsAreParts, UnderTyped
  <2>3. budget[u] - 1 \in 0..BudgetOf[u] /\ budget[u] - 1 >= 1
    BY <1>1, <1>4 DEF ListPage
  <2>4. budget' = [budget EXCEPT ![u] = @ - 1]
    BY <1>4 DEF ListPage
  <2>5. TypeOK'
    BY <1>4, <2>1, <2>2, <2>3, <2>4 DEF ListPage, PrefixDone, Stages
  <2>6. StageInv'
    BY <1>4, <2>1, <2>3, <2>4 DEF ListPage, PrefixDone, StageInv
  <2> QED
    BY <1>4, <2>5, <2>6 DEF ListPage, RequestInv, Creating
<1>5. CASE DeletePage(u)
  <2>1. budget[u] - 1 \in 0..BudgetOf[u]
    BY <1>1, <1>5 DEF DeletePage, StageInv
  <2>2. TypeOK'
    BY <1>5, <2>1 DEF DeletePage, PrefixDone, Stages
  <2>3. StageInv'
    BY <1>5 DEF DeletePage, PrefixDone, StageInv
  <2> QED
    BY <1>5, <2>2, <2>3 DEF DeletePage, RequestInv, Creating
<1>6. CASE DeleteRows(u)
  <2>1. PICK gone \in Portions(Matching(table[u]), RowsPerStatement) :
          /\ Remove(table[u], gone)
          /\ NextTable(u) \/ SameTable(u)
    BY <1>6 DEF DeleteRows
  <2>2. /\ rows' \subseteq rows /\ policies' \subseteq policies
        /\ status' \in [Owners -> Statuses]
    BY <2>1, RemoveTyped
  <2>3. budget[u] - 1 \in 0..BudgetOf[u]
    BY <1>1, <1>6 DEF DeleteRows
  <2>4. table[u] # ProjectTable => table[u] + 1 \in Tables
    BY NumbersAssumption DEF Tables, ProjectTable
  <2>5. TypeOK'
    <3>1. CASE Finish(u, "complete")
      BY <1>6, <2>2, <3>1, FinishStage DEF DeleteRows, Reports
    <3>2. CASE ~Finish(u, "complete")
      BY <1>6, <2>1, <2>2, <2>3, <2>4, <3>2 DEF DeleteRows, NextTable, SameTable
    <3> QED
      BY <3>1, <3>2
  <2>6. StageInv'
    BY <1>6, <2>1 DEF DeleteRows, StageInv, NextTable, SameTable, Finish
  <2>7. \A s \in Sources : s \in Matching(SourceTable) => status[s] # "none"
    BY MatchingCases DEF DeletedSource
  <2>8. \A s \in Sources : status[s] = "none" => status'[s] = "none"
    <3>1. table[u] = ProjectTable => gone \subseteq Projects
      BY <2>1, MatchingCases, PortionsAreParts
    <3>2. gone \subseteq Matching(table[u])
      BY <2>1, PortionsAreParts
    <3> QED
      BY <2>1, <2>7, <3>1, <3>2, OwnersAssumption DEF Remove, Owners
  <2>9. RequestInv'
    BY <1>6, <2>8 DEF DeleteRows, RequestInv, Creating
  <2> QED
    BY <2>5, <2>6, <2>9
<1>7. CASE OutOfBudget(u)
  <2>1. TypeOK'
    BY <1>7, FinishStage DEF OutOfBudget, Reports
  <2> QED
    BY <1>7, <2>1 DEF OutOfBudget, Finish, StageInv, RequestInv, Creating
<1>8. CASE FailRun(u)
  <2>1. TypeOK'
    BY <1>8, NumbersAssumption, FinishStage DEF FailRun, Reports
  <2> QED
    BY <1>8, <2>1 DEF FailRun, Finish, StageInv, RequestInv, Creating
<1> QED
  BY <1>2, <1>3, <1>4, <1>5, <1>6, <1>7, <1>8 DEF Step

LEMMA RequestsStay ==
  ASSUME TypeInv, NEW r \in Requests, Request(r) \/ FailRequest(r)
  PROVE  RequestInv'
<1> USE DEF TypeInv, TypeOK, RequestInv, Creating, Start, Goto
<1>1. ASSUME NEW s \in Sources, StartDelivery(r, s) \/ DeleteSource(r, s) PROVE RequestInv'
  BY <1>1 DEF StartDelivery, DeleteSource, Live, Owners
<1>2. ASSUME NEW s \in Sources, StartCreate(r, s) PROVE RequestInv'
  BY <1>2 DEF StartCreate, Owners
<1>3. ASSUME NEW o \in Owners, StartKey(r, o) PROVE RequestInv'
  BY <1>3 DEF StartKey, Live
<1>4. ASSUME NEW p \in Projects, DeleteProject(r, p) PROVE RequestInv'
  BY <1>4, OwnersAssumption DEF DeleteProject, Owners
<1>5. ASSUME PutBatch(r) \/ CountBatch(r) \/ InsertPolicy(r) PROVE RequestInv'
  BY <1>5 DEF PutBatch, CountBatch, InsertPolicy
<1>6. ASSUME InsertSource(r) PROVE RequestInv'
  BY <1>6 DEF InsertSource
<1>7. ASSUME InsertWatermark(r) \/ InsertKey(r) \/ Record(r) \/ FailRequest(r) PROVE RequestInv'
  BY <1>7 DEF InsertWatermark, InsertKey, Record, FailRequest
<1>8. ASSUME Cascade(r) PROVE RequestInv'
  BY <1>8 DEF Cascade
<1> QED
  BY <1>1, <1>2, <1>3, <1>4, <1>5, <1>6, <1>7, <1>8 DEF Request

LEMMA TypeStep == TypeInv /\ [Next]_vars => TypeInv'
<1> SUFFICES ASSUME TypeInv, [Next]_vars PROVE TypeInv'
  OBVIOUS
<1>1. ASSUME NEW r \in Requests, Request(r) \/ FailRequest(r) PROVE TypeInv'
  BY <1>1, RequestTypes, RequestsStay DEF TypeInv
<1>2. ASSUME NEW u \in Runs, Step(u) \/ FailRun(u) PROVE TypeInv'
  BY <1>2, StepTypes
<1>3. CASE UNCHANGED vars
  BY <1>3 DEF vars, handlers, run, TypeInv, TypeOK, StageInv, RequestInv, Creating
<1> QED
  BY <1>1, <1>2, <1>3 DEF Next

(* Every behaviour is well typed; in particular no run spends more than    *)
(* its budget of D1 and R2 operations.                                     *)
THEOREM TypeCorrect == Spec => []TypeOK
<1>1. TypeInv => TypeOK
  BY DEF TypeInv
<1> QED
  BY TypeInit, TypeStep, <1>1, PTL DEF Spec

(***************************************************************************)
(* What a step may do to the database and to R2: a deletion is never       *)
(* undone, and what is written is for a live owner or stray.               *)
(***************************************************************************)
Advance ==
  /\ stray \subseteq stray' /\ missed \subseteq missed'
  /\ \A o \in Owners : Dead(o) => status'[o] \in {"deleted", "purged"}
  /\ \A o \in Owners : status[o] = "purged" => status'[o] = "purged"
  /\ \A x \in objects' : x \in objects \/ Live(x.website) \/ x.by \in stray'
  /\ \A w \in rows' : w \in rows \/ Live(w.owner) \/ w.by \in stray'
  /\ \A w \in rows' : w \in rows \/ w.table \notin {PolicyTable, SourceTable, ProjectTable}

OnlyRemoves ==
  /\ rows' \subseteq rows /\ objects' \subseteq objects /\ policies' \subseteq policies
  /\ UNCHANGED <<handlers, stray, missed>>
  /\ \A o \in Owners : status'[o] \in {status[o], "purged"}

LEMMA PlainTables ==
  {1, DataTables, Seen, KeyTable} \cap {PolicyTable, SourceTable, ProjectTable} = {}
  BY NumbersAssumption DEF Seen, KeyTable, PolicyTable, SourceTable, ProjectTable

LEMMA RequestAdvances ==
  ASSUME TypeInv, NEW r \in Requests, Request(r) \/ FailRequest(r)
  PROVE  Advance
<1> USE DEF TypeInv, TypeOK, Advance, Dead, Start, Goto
<1>1. ASSUME NEW s \in Sources, StartDelivery(r, s) \/ StartCreate(r, s) PROVE Advance
  BY <1>1 DEF StartDelivery, StartCreate
<1>2. ASSUME NEW s \in Sources, DeleteSource(r, s) PROVE Advance
  BY <1>2 DEF DeleteSource
<1>3. ASSUME NEW o \in Owners, StartKey(r, o) PROVE Advance
  BY <1>3 DEF StartKey
<1>4. ASSUME NEW p \in Projects, DeleteProject(r, p) PROVE Advance
  BY <1>4 DEF DeleteProject
<1>5. ASSUME PutBatch(r) PROVE Advance
  BY <1>5 DEF PutBatch, Wrote
<1>6. ASSUME CountBatch(r) PROVE Advance
  <2>1. owner[r] \in Sources
    BY <1>6 DEF CountBatch, RequestInv
  <2>2. Live(owner[r]) => Live(ProjectOf[owner[r]])
    BY <2>1, OwnersAssumption DEF Live, ProjectHolding
  <2>3. \A w \in rows' : w \in rows \/
          (w.by = r /\ w.table \in {1, Seen} /\ w.owner \in {owner[r], ProjectOf[owner[r]]})
    BY <1>6 DEF CountBatch
  <2>4. UNCHANGED <<status, objects, missed>> /\ Wrote(r)
    BY <1>6 DEF CountBatch
  <2>5. \A w \in rows' : w \in rows \/ Live(w.owner) \/ w.by \in stray'
    BY <2>2, <2>3, <2>4 DEF Wrote
  <2>6. \A w \in rows' : w \in rows \/ w.table \notin {PolicyTable, SourceTable, ProjectTable}
    BY <2>3, PlainTables
  <2> QED
    BY <2>4, <2>5, <2>6 DEF Wrote
<1>7. ASSUME InsertPolicy(r) \/ FailRequest(r) PROVE Advance
  BY <1>7 DEF InsertPolicy, FailRequest
<1>8. ASSUME InsertSource(r) PROVE Advance
  BY <1>8 DEF InsertSource, RequestInv, Creating
<1>9. ASSUME InsertWatermark(r) \/ InsertKey(r) \/ Record(r) PROVE Advance
  <2>1. \A w \in rows' : w \in rows \/
          (w.by = r /\ w.table \in {1, KeyTable, DataTables} /\ w.owner = owner[r])
    BY <1>9 DEF InsertWatermark, InsertKey, Record
  <2>2. UNCHANGED <<status, objects, missed>> /\ Wrote(r)
    BY <1>9 DEF InsertWatermark, InsertKey, Record
  <2>3. \A w \in rows' : w \in rows \/ Live(w.owner) \/ w.by \in stray'
    BY <2>1, <2>2 DEF Wrote
  <2>4. \A w \in rows' : w \in rows \/ w.table \notin {PolicyTable, SourceTable, ProjectTable}
    BY <2>1, PlainTables
  <2> QED
    BY <2>2, <2>3, <2>4 DEF Wrote
<1>10. ASSUME Cascade(r) PROVE Advance
  BY <1>10 DEF Cascade
<1> QED
  BY <1>1, <1>2, <1>3, <1>4, <1>5, <1>6, <1>7, <1>8, <1>9, <1>10 DEF Request

LEMMA StepOnlyRemoves ==
  ASSUME TypeInv, NEW u \in Runs, Step(u) \/ FailRun(u)
  PROVE  OnlyRemoves
<1> USE DEF TypeInv, TypeOK, OnlyRemoves
<1>1. CASE ListProjects(u) \/ ListSources(u) \/ ListPage(u) \/ DeletePage(u)
           \/ OutOfBudget(u) \/ FailRun(u)
  BY <1>1 DEF ListProjects, ListSources, ListPage, DeletePage, OutOfBudget, FailRun
<1>2. CASE DeleteRows(u)
  BY <1>2 DEF DeleteRows, Remove
<1> QED
  BY <1>1, <1>2 DEF Step

LEMMA StepAdvances ==
  ASSUME TypeInv, NEW u \in Runs, Step(u) \/ FailRun(u)
  PROVE  Advance
  BY StepOnlyRemoves DEF OnlyRemoves, Advance, Dead, TypeInv, TypeOK

(***************************************************************************)
(* What a run works on.                                                    *)
(***************************************************************************)
LEMMA DeadInit == Init => DeadInv /\ CoverInv /\ PrefixInv
  BY DEF Init, DeadInv, CoverInv, PrefixInv

LEMMA RequestKeepsDead ==
  ASSUME TypeInv, DeadInv, Advance, UNCHANGED run
  PROVE  DeadInv'
  BY DEF TypeInv, TypeOK, DeadInv, Dead, Advance, run

LEMMA StepKeepsDead ==
  ASSUME TypeInv, DeadInv, NEW u \in Runs, Step(u) \/ FailRun(u)
  PROVE  DeadInv'
<1> USE DEF TypeInv, TypeOK, DeadInv, Dead, Advance
<1>1. Advance
  BY StepAdvances
<1>2. CASE ListProjects(u)
  BY <1>1, <1>2 DEF ListProjects, Owners, StageInv
<1>3. CASE ListSources(u)
  BY <1>1, <1>3 DEF ListSources, Owners, StageInv
<1>4. CASE ListPage(u)
  <2>1. PICK listed \in Portions(Under(Prefix(u)), PageSize) :
          /\ page' = [page EXCEPT ![u] = listed]
          /\ IF listed = {} THEN PrefixDone(u)
             ELSE stage' = [stage EXCEPT ![u] = "delete"] /\ UNCHANGED todo
    BY <1>4 DEF ListPage
  <2>2. Prefix(u) \in targets[u]
    BY <1>4, PrefixIsTodo DEF ListPage, StageInv
  <2>3. \A x \in listed : x.website \in Family(Prefix(u))
    BY <2>1, PortionsAreParts DEF Under
  <2>4. \A v \in Runs : todo'[v] \subseteq todo[v]
    BY <2>1 DEF PrefixDone
  <2> QED
    BY <1>1, <1>4, <2>1, <2>2, <2>3, <2>4 DEF ListPage
<1>5. CASE DeletePage(u)
  BY <1>1, <1>5 DEF DeletePage, PrefixDone
<1>6. CASE DeleteRows(u)
  BY <1>1, <1>6 DEF DeleteRows, NextTable, SameTable, Finish
<1>7. CASE OutOfBudget(u) \/ FailRun(u)
  BY <1>1, <1>7 DEF OutOfBudget, FailRun, Finish
<1> QED
  BY <1>2, <1>3, <1>4, <1>5, <1>6, <1>7 DEF Step

(* What is not Live in a step it takes away from.                          *)
LEMMA NothingLiveRemoved ==
  ASSUME TypeInv, DeadInv, NEW u \in Runs, Step(u) \/ FailRun(u)
  PROVE  /\ \A x \in objects \ objects' : ~Live(x.website)
         /\ \A w \in rows \ rows' : ~Live(w.owner)
         /\ \A o \in Owners : Live(o) =>
              status'[o] # "purged" /\ PolicyOf[o] \notin policies \ policies'
<1> USE DEF TypeInv, TypeOK
<1>1. CASE ListProjects(u) \/ ListSources(u) \/ ListPage(u) \/ OutOfBudget(u) \/ FailRun(u)
  BY <1>1 DEF ListProjects, ListSources, ListPage, OutOfBudget, FailRun, Live
<1>2. CASE DeletePage(u)
  <2>1. \A x \in page[u] : ~Live(x.website)
    BY DeadFamily DEF DeadInv
  <2> QED
    BY <1>2, <2>1 DEF DeletePage, Live
<1>3. CASE DeleteRows(u)
  <2>1. PICK gone : gone \subseteq Matching(table[u]) /\ Remove(table[u], gone)
    BY <1>3, PortionsAreParts DEF DeleteRows
  <2>2. UNCHANGED objects
    BY <1>3 DEF DeleteRows
  <2>3. \A o \in Owners : Live(o) => ~Doomed(o) /\ status[ProjectHolding(o)] # "deleted"
    BY OwnersAssumption DEF Live, Doomed, DeletedSource, ProjectHolding, Owners
  <2>4. CASE table[u] = PolicyTable
    <3>1. \A o \in Owners : Live(o) => PolicyOf[o] \notin UnusedPolicies
      BY <2>3 DEF UnusedPolicies, Live
    <3> QED
      BY <2>1, <2>2, <2>4, <3>1, SpecialTables, MatchingCases DEF Remove, Live
  <2>5. CASE table[u] \in {SourceTable, ProjectTable}
    <3>1. \A o \in gone : o \in Owners /\ Doomed(o)
      BY <2>1, <2>5, MatchingCases, OwnersAssumption DEF Doomed, Owners
    <3> QED
      BY <2>1, <2>2, <2>3, <2>5, <3>1, SpecialTables DEF Remove, Live
  <2>6. CASE table[u] \notin {PolicyTable, SourceTable, ProjectTable}
    <3>1. \A w \in gone : ~Live(w.owner)
      BY <2>1, <2>3, <2>6, MatchingCases DEF DoomedRows, Row
    <3> QED
      BY <2>1, <2>2, <2>6, <3>1 DEF Remove, Live
  <2> QED
    BY <2>4, <2>5, <2>6
<1> QED
  BY <1>1, <1>2, <1>3 DEF Step

LEMMA RequestsPurgeNothing ==
  ASSUME TypeInv, NEW r \in Requests, Request(r) \/ FailRequest(r)
  PROVE  \A o \in Owners : /\ status'[o] = "purged" => status[o] = "purged"
                           /\ status[o] # "none" => status'[o] # "none"
<1> USE DEF TypeInv, TypeOK
<1>1. CASE InsertSource(r)
  BY <1>1 DEF InsertSource
<1>2. CASE Cascade(r)
  BY <1>2 DEF Cascade
<1>3. ASSUME NEW o \in Owners, DeleteSource(r, o) \/ DeleteProject(r, o)
      PROVE  UNCHANGED status \/ status' = [status EXCEPT ![o] = "deleted"]
  BY <1>3 DEF DeleteSource, DeleteProject
<1>4. CASE \E o \in Owners : DeleteSource(r, o) \/ DeleteProject(r, o)
  BY <1>3, <1>4
<1>5. CASE \/ PutBatch(r) \/ CountBatch(r) \/ InsertPolicy(r) \/ InsertWatermark(r)
           \/ InsertKey(r) \/ Record(r) \/ FailRequest(r)
           \/ \E o \in Owners : StartDelivery(r, o) \/ StartCreate(r, o) \/ StartKey(r, o)
  BY <1>5 DEF PutBatch, CountBatch, InsertPolicy, InsertWatermark, InsertKey, Record,
              FailRequest, StartDelivery, StartCreate, StartKey
<1> QED
  BY <1>1, <1>2, <1>4, <1>5 DEF Request, Owners

(***************************************************************************)
(* A run covers what is deleted.                                           *)
(***************************************************************************)
LEMMA NothingNewDeleted ==
  ASSUME CoverInv, UNCHANGED <<stage, targets>>, missed \subseteq missed',
         \A o \in Owners : status'[o] = "deleted" => status[o] = "deleted"
  PROVE  CoverInv'
  BY DEF CoverInv, Owners

LEMMA RequestKeepsCover ==
  ASSUME TypeInv, CoverInv, NEW r \in Requests, Request(r) \/ FailRequest(r)
  PROVE  CoverInv'
<1> USE DEF TypeInv, TypeOK
<1>1. UNCHANGED <<stage, targets>> /\ missed \subseteq missed'
  BY RequestTypes, RequestAdvances DEF run, Advance
<1>2. ASSUME NEW s \in Sources, DeleteSource(r, s) PROVE CoverInv'
  BY <1>1, <1>2, OwnersAssumption
  DEF DeleteSource, CoverInv, PastListing, UnderWay, Owners
<1>3. ASSUME NEW p \in Projects, DeleteProject(r, p) PROVE CoverInv'
  <2>1. CASE status[p] # "live"
    BY <1>1, <1>3, <2>1, NothingNewDeleted DEF DeleteProject
  <2>2. CASE status[p] = "live" /\ UnderWay = {}
    BY <1>1, <2>2 DEF CoverInv, UnderWay
  <2>3. CASE status[p] = "live" /\ UnderWay # {}
    <3>1. status' = [status EXCEPT ![p] = "deleted"] /\ missed' = missed \cup Family(p)
      BY <1>3, <2>3 DEF DeleteProject
    <3> QED
      BY <1>1, <3>1, OwnersAssumption DEF CoverInv, Owners
  <2> QED
    BY <2>1, <2>2, <2>3
<1>4. ASSUME Cascade(r) PROVE CoverInv'
  <2>1. owner[r] \in Projects
    BY <1>4 DEF Cascade, RequestInv
  <2>2. \A o \in Owners : status'[o] = "deleted" /\ status[o] # "deleted" =>
          o \in {s \in Websites(owner[r]) : status[s] = "live"}
    BY <1>4 DEF Cascade
  <2>3. CASE PastListing = {}
    BY <1>1, <2>2, <2>3, OwnersAssumption
    DEF CoverInv, PastListing, UnderWay, Websites, Owners
  <2>4. CASE PastListing # {} /\ status[owner[r]] = "deleted"
    <3>1. \A s \in Websites(owner[r]) :
            s \in Family(owner[r]) /\ ProjectOf[s] = owner[r] /\ s \notin Projects
      BY <2>1, OwnersAssumption DEF Family, Websites
    <3>2. \A u \in Runs : stage[u] # "idle" =>
            owner[r] \in targets[u] \/ Family(owner[r]) \subseteq missed
      BY <2>1, <2>4 DEF CoverInv
    <3> QED
      BY <1>1, <2>2, <3>1, <3>2 DEF CoverInv, Owners
  <2>5. CASE PastListing # {} /\ status[owner[r]] # "deleted"
    <3>1. missed' = missed \cup {s \in Websites(owner[r]) : status[s] = "live"}
      BY <1>4, <2>5 DEF Cascade
    <3>2. \A s \in Websites(owner[r]) : s \notin Projects
      BY OwnersAssumption DEF Websites
    <3> QED
      BY <1>1, <2>2, <3>1, <3>2 DEF CoverInv, Owners
  <2> QED
    BY <2>3, <2>4, <2>5
<1>5. CASE InsertSource(r)
  BY <1>1, <1>5, NothingNewDeleted DEF InsertSource
<1>6. CASE \/ PutBatch(r) \/ CountBatch(r) \/ InsertPolicy(r) \/ InsertWatermark(r)
           \/ InsertKey(r) \/ Record(r) \/ FailRequest(r)
           \/ \E o \in Owners : StartDelivery(r, o) \/ StartCreate(r, o) \/ StartKey(r, o)
  <2>1. UNCHANGED status
    BY <1>6 DEF PutBatch, CountBatch, InsertPolicy, InsertWatermark, InsertKey, Record,
                FailRequest, StartDelivery, StartCreate, StartKey
  <2> QED
    BY <1>1, <2>1, NothingNewDeleted
<1> QED
  BY <1>2, <1>3, <1>4, <1>5, <1>6 DEF Request, Owners

LEMMA StepKeepsCover ==
  ASSUME TypeInv, CoverInv, NEW u \in Runs, Step(u) \/ FailRun(u)
  PROVE  CoverInv'
<1> USE DEF TypeInv, TypeOK
<1>1. CASE ListProjects(u)
  BY <1>1 DEF ListProjects, CoverInv
<1>2. CASE ListSources(u)
  <2>1. \A s \in Sources : s \in Family(ProjectOf[s]) /\ ProjectOf[s] \in Projects
    BY OwnersAssumption DEF Family, Websites
  <2> QED
    BY <1>2, <2>1 DEF ListSources, CoverInv
<1>3. CASE ListPage(u) \/ DeletePage(u)
  BY <1>3 DEF ListPage, DeletePage, PrefixDone, AfterPrefixes, CoverInv
<1>4. CASE DeleteRows(u)
  <2>1. \A o \in Owners : status'[o] = "deleted" => status[o] = "deleted"
    BY StepOnlyRemoves DEF OnlyRemoves
  <2>2. PICK gone : NextTable(u) \/ SameTable(u)
    BY <1>4 DEF DeleteRows
  <2>3. \A v \in Runs : stage'[v] # "idle" => stage'[v] = stage[v] /\ targets'[v] = targets[v]
    BY <2>2 DEF NextTable, SameTable, Finish
  <2>4. UNCHANGED missed
    BY <1>4 DEF DeleteRows
  <2> QED
    BY <2>1, <2>3, <2>4 DEF CoverInv, Owners
<1>5. CASE OutOfBudget(u) \/ FailRun(u)
  BY <1>5 DEF OutOfBudget, FailRun, Finish, CoverInv
<1> QED
  BY <1>1, <1>2, <1>3, <1>4, <1>5 DEF Step

(***************************************************************************)
(* Finished prefixes.                                                      *)
(***************************************************************************)
LEMMA RequestKeepsPrefix ==
  ASSUME TypeInv, DeadInv, PrefixInv, NEW r \in Requests, Request(r) \/ FailRequest(r)
  PROVE  PrefixInv'
<1>1. Advance /\ UNCHANGED run
  BY RequestAdvances, RequestTypes
<1>2. ASSUME NEW u \in Runs, NEW o \in targets[u], NEW x \in objects', x.website \in Family(o)
      PROVE  x \in objects \/ x.by \in stray'
  <2>1. o \in Owners /\ Dead(o)
    BY DEF DeadInv, TypeInv, TypeOK
  <2> QED
    BY <1>1, <1>2, <2>1, DeadFamily DEF Advance
<1>3. ASSUME NEW u \in Runs, stage[u] # "sources", NEW o \in targets[u] \ todo[u]
      PROVE  OnlyStray(o)'
  BY <1>1, <1>2, <1>3 DEF PrefixInv, OnlyStray, Advance
<1>4. ASSUME NEW u \in Runs, stage[u] = "delete" /\ ~more[u]
      PROVE  \A x \in Under(Prefix(u))' : x \in page[u] \/ x.by \in stray'
  <2>1. Prefix(u) \in targets[u]
    BY <1>4, PrefixIsTodo DEF TypeInv, StageInv, DeadInv
  <2>2. Under(Prefix(u))' = {x \in objects' : x.website \in Family(Prefix(u))}
    BY <1>1 DEF Under, Prefix, run
  <2>3. \A x \in Under(Prefix(u)) : x \in page[u] \/ x.by \in stray
    BY <1>4 DEF PrefixInv
  <2> QED
    BY <1>1, <1>2, <2>1, <2>2, <2>3 DEF Under, Advance
<1> QED
  BY <1>1, <1>3, <1>4 DEF PrefixInv, run

LEMMA StepKeepsPrefix ==
  ASSUME TypeInv, DeadInv, PrefixInv, NEW u \in Runs, Step(u) \/ FailRun(u)
  PROVE  PrefixInv'
<1> USE DEF TypeInv, TypeOK
<1>1. objects' \subseteq objects /\ UNCHANGED stray
  BY StepOnlyRemoves DEF OnlyRemoves
<1>2. \A o : OnlyStray(o) => OnlyStray(o)'
  BY <1>1 DEF OnlyStray
<1>3. ASSUME NEW v \in Runs \ {u}
      PROVE  /\ stage'[v] = stage[v] /\ targets'[v] = targets[v] /\ todo'[v] = todo[v]
             /\ page'[v] = page[v] /\ more'[v] = more[v]
  BY <1>3 DEF Step, ListProjects, ListSources, ListPage, DeletePage, DeleteRows, OutOfBudget,
              FailRun, PrefixDone, NextTable, SameTable, Finish
<1> DEFINE Finished(v) == stage[v] # "sources" =>
             \A o \in targets[v] \ todo[v] : OnlyStray(o)
           LastPage(v) == stage[v] = "delete" /\ ~more[v] =>
             \A x \in objects : x.website \in Family(First(todo[v])) =>
               x \in page[v] \/ x.by \in stray
<1>4. PrefixInv <=> \A v \in Runs : Finished(v) /\ LastPage(v)
  BY DEF PrefixInv, Under, Prefix
<1>5. PrefixInv' <=> \A v \in Runs : Finished(v)' /\ LastPage(v)'
  BY DEF PrefixInv, Under, Prefix
<1>6. \A v \in Runs \ {u} : Finished(v)' /\ LastPage(v)'
  BY <1>1, <1>2, <1>3, <1>4
<1>7. Finished(u)' /\ LastPage(u)'
  <2>1. CASE ListProjects(u)
    BY <2>1 DEF ListProjects
  <2>2. CASE ListSources(u)
    <3>1. todo'[u] = targets'[u] /\ stage'[u] # "delete"
      BY <2>2 DEF ListSources, StageInv, AfterPrefixes
    <3> QED
      BY <3>1
  <2>3. CASE ListPage(u)
    <3>1. PICK listed \in Portions(Under(Prefix(u)), PageSize) :
            /\ page' = [page EXCEPT ![u] = listed]
            /\ more' = [more EXCEPT ![u] = listed # Under(Prefix(u))]
            /\ IF listed = {} THEN PrefixDone(u)
               ELSE stage' = [stage EXCEPT ![u] = "delete"] /\ UNCHANGED todo
      BY <2>3 DEF ListPage
    <3>2. UNCHANGED <<objects, targets, stray>> /\ stage[u] = "prefix"
      BY <2>3 DEF ListPage
    <3>3. CASE listed = {}
      <4>1. Under(Prefix(u)) = {}
        BY <3>1, <3>3, EmptyPortionIsAll, NumbersAssumption
      <4>2. OnlyStray(Prefix(u))
        BY <4>1 DEF Under, OnlyStray
      <4>3. todo'[u] = todo[u] \ {Prefix(u)} /\ stage'[u] # "delete"
        BY <3>1, <3>3 DEF PrefixDone, AfterPrefixes
      <4> QED
        BY <1>2, <1>4, <3>2, <4>2, <4>3
    <3>4. CASE listed # {}
      <4>1. stage'[u] = "delete" /\ todo' = todo
        BY <3>1, <3>4
      <4>2. ~more'[u] => page'[u] = {x \in objects : x.website \in Family(First(todo[u]))}
        BY <3>1 DEF Under, Prefix
      <4> QED
        BY <1>2, <1>4, <3>2, <4>1, <4>2
    <3> QED
      BY <3>3, <3>4
  <2>4. CASE DeletePage(u)
    <3>1. UNCHANGED <<targets, stray>> /\ objects' = objects \ page[u] /\ stage[u] = "delete"
      BY <2>4 DEF DeletePage
    <3>2. stage'[u] # "delete"
      BY <2>4 DEF DeletePage, PrefixDone, AfterPrefixes
    <3>3. CASE more[u]
      <4>1. todo' = todo
        BY <2>4, <3>3 DEF DeletePage
      <4> QED
        BY <1>2, <1>4, <3>1, <3>2, <4>1
    <3>4. CASE ~more[u]
      <4>1. todo'[u] = todo[u] \ {First(todo[u])}
        BY <2>4, <3>4 DEF DeletePage, PrefixDone, Prefix
      <4>2. \A x \in objects' : x.website \in Family(First(todo[u])) => x.by \in stray'
        BY <1>4, <3>1, <3>4
      <4>3. \A o \in targets[u] \ todo[u] : OnlyStray(o)'
        BY <1>2, <1>4, <3>1
      <4>4. \A o : o = First(todo[u]) => OnlyStray(o)'
        BY <4>2 DEF OnlyStray
      <4> QED
        BY <3>1, <3>2, <4>1, <4>3, <4>4
    <3> QED
      BY <3>3, <3>4
  <2>5. CASE DeleteRows(u)
    <3>1. stage[u] = "rows" /\ todo[u] = {}
      BY <2>5 DEF DeleteRows, StageInv
    <3>2. targets'[u] = targets[u] /\ stage'[u] # "delete"
      BY <2>5, <3>1 DEF DeleteRows, NextTable, SameTable, Finish
    <3> QED
      BY <1>2, <1>4, <3>1, <3>2
  <2>6. CASE OutOfBudget(u) \/ FailRun(u)
    BY <2>6 DEF OutOfBudget, FailRun, Finish
  <2> QED
    BY <2>1, <2>2, <2>3, <2>4, <2>5, <2>6 DEF Step
<1> QED
  BY <1>5, <1>6, <1>7

(***************************************************************************)
(* Finished tables.                                                        *)
(***************************************************************************)
LEMMA RowsInit == Init => RowsInv /\ CompleteInv
<1>1. 1 \notin {PolicyTable, SourceTable, ProjectTable}
  BY PlainTables
<1> QED
  BY <1>1 DEF Init, RowsInv, CompleteInv

LEMMA RequestKeepsRows ==
  ASSUME TypeInv, DeadInv, RowsInv, NEW r \in Requests, Request(r) \/ FailRequest(r)
  PROVE  RowsInv'
<1>1. Advance /\ UNCHANGED run
  BY RequestAdvances, RequestTypes
<1>2. \A o \in Owners : status'[o] = "purged" => status[o] = "purged"
  BY RequestsPurgeNothing
<1>3. ASSUME NEW o \in Owners, Dead(o), NEW k, OnlyStrayRows(o, k)
      PROVE  \A w \in rows' : w.table < k /\ w.owner \in Family(o) \ missed' => w.by \in stray'
  BY <1>1, <1>3, DeadFamily DEF OnlyStrayRows, Advance
<1>4. \A w \in rows' : w.table \notin {PolicyTable, SourceTable, ProjectTable}
  BY <1>1 DEF Advance, RowsInv
<1>5. ASSUME NEW o \in Owners, status'[o] = "purged" PROVE OnlyStrayRows(o, ProjectTable)'
  BY <1>2, <1>3, <1>5 DEF RowsInv, Dead, OnlyStrayRows
<1>6. ASSUME NEW u \in Runs, stage[u] = "rows"
      PROVE  /\ \A o \in targets[u] : \A w \in rows' :
                  w.table < table[u] /\ w.owner \in Family(o) \ missed' => w.by \in stray'
             /\ table[u] = ProjectTable =>
                  \A s \in targets[u] \cap Sources : status'[s] = "purged"
  <2>1. targets[u] \subseteq Owners /\ \A o \in targets[u] : Dead(o)
    BY DEF TypeInv, TypeOK, DeadInv
  <2>2. \A o \in targets[u] : OnlyStrayRows(o, table[u])
    BY <1>6 DEF RowsInv
  <2> QED
    BY <1>1, <1>3, <1>6, <2>1, <2>2 DEF RowsInv, Advance
<1>7. UNCHANGED <<stage, targets, table>>
  BY <1>1 DEF run
<1> QED
  BY <1>4, <1>5, <1>6, <1>7 DEF RowsInv, OnlyStrayRows

(* The family of what a run purges was listed by it, or is missed.         *)
LEMMA PurgedIsCovered ==
  ASSUME TypeInv, CoverInv, NEW u \in Runs, stage[u] = "rows", NEW o \in Owners, Doomed(o)
  PROVE  \/ \E t \in targets[u] : Family(o) \subseteq Family(t)
         \/ Family(o) \subseteq missed
<1>1. CASE o \in Projects
  BY <1>1 DEF Doomed, CoverInv
<1>2. CASE o \in Sources
  <2>1. Family(o) = {o} /\ ProjectOf[o] \in Projects /\ o \in Family(ProjectOf[o]) /\ o \notin Projects
    BY <1>2, OwnersAssumption DEF Family, Websites
  <2>2. CASE status[o] = "deleted"
    BY <1>2, <2>1, <2>2 DEF CoverInv
  <2>3. CASE status[ProjectOf[o]] = "deleted"
    BY <1>2, <2>1, <2>3 DEF CoverInv
  <2> QED
    BY <2>1, <2>2, <2>3 DEF Doomed, DeletedSource
<1> QED
  BY <1>1, <1>2 DEF Owners

(* What a statement on `sources` or `projects` removed leaves stray rows   *)
(* only.                                                                   *)
LEMMA PurgedLeavesNoRows ==
  ASSUME TypeInv, CoverInv, RowsInv, NEW u \in Runs, stage[u] = "rows",
         table[u] \in {SourceTable, ProjectTable}, NEW o \in Owners, Doomed(o)
  PROVE  OnlyStrayRows(o, ProjectTable)
<1> SUFFICES ASSUME NEW w \in rows, w.owner \in Family(o) \ missed
             PROVE  w.by \in stray
  BY DEF OnlyStrayRows
<1>1. w.table \in Tables /\ w.table \notin {PolicyTable, SourceTable, ProjectTable}
  BY DEF TypeInv, TypeOK, Row, RowsInv
<1>2. w.table < table[u]
  BY <1>1, NumbersAssumption DEF Tables, SourceTable, ProjectTable
<1>3. PICK t \in targets[u] : Family(o) \subseteq Family(t)
  BY PurgedIsCovered
<1> QED
  BY <1>2, <1>3 DEF RowsInv, OnlyStrayRows

(* The last statement of a table leaves it with stray rows only.           *)
LEMMA TableDone ==
  ASSUME TypeInv, DeadInv, RowsInv, NEW u \in Runs, stage[u] = "rows",
         Remove(table[u], Matching(table[u])), UNCHANGED <<stray, missed>>,
         NEW o \in targets[u], NEW w \in rows', w.table < table[u] + 1,
         w.owner \in Family(o) \ missed
  PROVE  w.by \in stray
<1> DEFINE k == table[u]
<1>1. k \in Tables /\ o \in Owners /\ Dead(o) /\ OnlyStrayRows(o, k)
  BY DEF TypeInv, TypeOK, DeadInv, RowsInv
<1>2. w \in rows /\ w \in Row /\ w.table \notin {PolicyTable, SourceTable, ProjectTable}
  BY <1>1, RemoveTyped DEF TypeInv, TypeOK, RowsInv
<1>3. CASE w.table < k
  BY <1>1, <1>2, <1>3 DEF OnlyStrayRows
<1>4. CASE w.table = k
  <2>1. w \notin DoomedRows(k)
    BY <1>2, <1>4, MatchingCases DEF Remove
  <2>2. status[o] # "deleted"
    BY <1>1, <1>2, <1>4, <2>1, OwnersAssumption
    DEF DoomedRows, Doomed, DeletedSource, Family, Websites, ProjectHolding, Owners
  <2>3. OnlyStrayRows(o, ProjectTable)
    BY <1>1, <2>2 DEF Dead, RowsInv
  <2>4. w.table < ProjectTable
    BY <1>2, NumbersAssumption DEF Row, Tables, ProjectTable
  <2> QED
    BY <1>2, <2>3, <2>4 DEF OnlyStrayRows
<1>5. w.table \in Nat /\ k \in Nat
  BY <1>1, <1>2 DEF Row, Tables
<1> QED
  BY <1>3, <1>4, <1>5

LEMMA DeleteRowsKeepsRows ==
  ASSUME TypeInv, DeadInv, CoverInv, RowsInv, NEW u \in Runs, DeleteRows(u)
  PROVE  RowsInv'
<1> USE DEF TypeInv, TypeOK
<1>1. PICK gone \in Portions(Matching(table[u]), RowsPerStatement) :
        /\ Remove(table[u], gone)
        /\ IF Cardinality(gone) < RowsPerStatement THEN NextTable(u) ELSE SameTable(u)
  BY DEF DeleteRows
<1>2. stage[u] = "rows" /\ UNCHANGED <<stray, missed>> /\ rows' \subseteq rows
  BY StepOnlyRemoves DEF DeleteRows, Step, OnlyRemoves
<1>3. gone \subseteq Matching(table[u])
  BY <1>1, PortionsAreParts
<1>4. \A o, k : OnlyStrayRows(o, k) => OnlyStrayRows(o, k)'
  BY <1>2 DEF OnlyStrayRows
<1>5. ASSUME NEW o \in Owners, status'[o] = "purged" PROVE OnlyStrayRows(o, ProjectTable)
  <2>1. CASE status[o] = "purged"
    BY <2>1 DEF RowsInv
  <2>2. CASE status[o] # "purged"
    <3>1. table[u] \in {SourceTable, ProjectTable} /\ o \in gone
      BY <1>1, <1>5, <2>2 DEF Remove
    <3>2. Doomed(o)
      BY <1>3, <3>1, MatchingCases, OwnersAssumption DEF Doomed
    <3> QED
      BY <1>2, <3>1, <3>2, PurgedLeavesNoRows
  <2> QED
    BY <2>1, <2>2
<1>6. \A o \in Owners : status[o] = "purged" => status'[o] = "purged"
  BY StepAdvances DEF Advance, Step
<1>7. ASSUME NEW v \in Runs, stage'[v] = "rows"
      PROVE  /\ \A o \in targets'[v] : \A w \in rows' :
                  w.table < table'[v] /\ w.owner \in Family(o) \ missed => w.by \in stray
             /\ table'[v] = ProjectTable =>
                  \A s \in targets'[v] \cap Sources : status'[s] = "purged"
  <2>1. CASE v # u \/ SameTable(u)
    <3>1. stage[v] = "rows" /\ targets'[v] = targets[v] /\ table'[v] = table[v]
      BY <1>1, <1>2, <1>7, <2>1 DEF NextTable, SameTable, Finish
    <3> QED
      BY <1>2, <1>6, <3>1 DEF RowsInv, OnlyStrayRows, Owners
  <2>2. CASE v = u /\ ~SameTable(u)
    <3>1. Cardinality(gone) < RowsPerStatement /\ NextTable(u)
      BY <1>1, <2>2
    <3>2. gone = Matching(table[u])
      BY <1>1, <3>1, ShortPortionIsAll, NumbersAssumption
    <3>3. /\ table[u] # ProjectTable
          /\ table'[u] = table[u] + 1 /\ targets'[u] = targets[u]
      BY <1>7, <2>2, <3>1 DEF NextTable, Finish
    <3>4. \A o \in targets[u] : \A w \in rows' :
            w.table < table[u] + 1 /\ w.owner \in Family(o) \ missed => w.by \in stray
      BY <1>1, <1>2, <3>2, TableDone
    <3>5. ASSUME table'[u] = ProjectTable, NEW s \in targets[u] \cap Sources
          PROVE  status'[s] = "purged"
      <4>1. table[u] = SourceTable
        BY <3>3, <3>5, NumbersAssumption DEF Tables, SourceTable, ProjectTable
      <4>2. Dead(s) /\ s \in Owners
        BY DEF DeadInv
      <4>3. CASE status[s] = "deleted"
        <5>1. s \in gone
          BY <3>2, <4>1, <4>3, MatchingCases DEF DeletedSource
        <5> QED
          BY <1>1, <4>1, <4>2, <5>1 DEF Remove
      <4> QED
        BY <1>6, <4>2, <4>3 DEF Dead
    <3> QED
      BY <2>2, <3>3, <3>4, <3>5
  <2> QED
    BY <2>1, <2>2
<1>8. \A w \in rows' : w.table \notin {PolicyTable, SourceTable, ProjectTable}
  BY <1>2 DEF RowsInv
<1> QED
  BY <1>2, <1>4, <1>5, <1>7, <1>8 DEF RowsInv, OnlyStrayRows

LEMMA StepKeepsRows ==
  ASSUME TypeInv, DeadInv, CoverInv, RowsInv, NEW u \in Runs, Step(u) \/ FailRun(u)
  PROVE  RowsInv'
<1> USE DEF TypeInv, TypeOK
<1>1. CASE DeleteRows(u)
  BY <1>1, DeleteRowsKeepsRows
<1>2. CASE ListProjects(u) \/ ListSources(u) \/ ListPage(u) \/ DeletePage(u)
           \/ OutOfBudget(u) \/ FailRun(u)
  <2>1. UNCHANGED <<rows, status, stray, missed>>
    BY <1>2 DEF ListProjects, ListSources, ListPage, DeletePage, OutOfBudget, FailRun
  <2>2. ASSUME NEW v \in Runs, stage'[v] = "rows", stage[v] = "rows"
        PROVE  targets'[v] = targets[v] /\ table'[v] = table[v]
    BY <1>2, <2>2 DEF ListProjects, ListSources, ListPage, DeletePage, OutOfBudget, FailRun,
                      PrefixDone, Finish
  <2>3. ASSUME NEW v \in Runs, stage'[v] = "rows", stage[v] # "rows"
        PROVE  table'[v] = 1
    BY <1>2, <2>3 DEF ListProjects, ListSources, ListPage, DeletePage, OutOfBudget, FailRun,
                      PrefixDone, Finish, StageInv
  <2>4. \A w \in rows : ~(w.table < 1)
    BY DEF Row, Tables
  <2>5. ProjectTable # 1
    BY PlainTables
  <2> QED
    BY <2>1, <2>2, <2>3, <2>4, <2>5 DEF RowsInv, OnlyStrayRows
<1> QED
  BY <1>1, <1>2 DEF Step

LEMMA RequestKeepsComplete ==
  ASSUME TypeInv, CompleteInv, Advance, UNCHANGED run
  PROVE  CompleteInv'
  BY DEF TypeInv, TypeOK, CompleteInv, Advance, run

LEMMA StepKeepsComplete ==
  ASSUME TypeInv, DeadInv, RowsInv, CompleteInv, NEW u \in Runs, Step(u) \/ FailRun(u)
  PROVE  CompleteInv'
<1> USE DEF TypeInv, TypeOK
<1>1. \A o \in Owners : status[o] = "purged" => status'[o] = "purged"
  BY StepAdvances DEF Advance
<1>2. CASE ListProjects(u) \/ ListSources(u) \/ ListPage(u) \/ DeletePage(u)
           \/ OutOfBudget(u) \/ FailRun(u)
  BY <1>1, <1>2 DEF ListProjects, ListSources, ListPage, DeletePage, OutOfBudget, FailRun,
                    Finish, CompleteInv, StageInv
<1>3. CASE DeleteRows(u)
  <2>1. PICK gone \in Portions(Matching(table[u]), RowsPerStatement) :
          /\ Remove(table[u], gone)
          /\ IF Cardinality(gone) < RowsPerStatement THEN NextTable(u) ELSE SameTable(u)
    BY <1>3 DEF DeleteRows
  <2>2. CASE SameTable(u) \/ table[u] # ProjectTable
    BY <1>1, <2>1, <2>2 DEF NextTable, SameTable, CompleteInv
  <2>3. CASE ~SameTable(u) /\ table[u] = ProjectTable
    <3>1. gone = {p \in Projects : Doomed(p)}
      BY <2>1, <2>3, ShortPortionIsAll, MatchingCases, NumbersAssumption
    <3>2. Finish(u, "complete")
      BY <2>1, <2>3 DEF NextTable
    <3>3. \A s \in targets[u] \cap Sources : status[s] = "purged"
      BY <1>3, <2>3 DEF DeleteRows, RowsInv
    <3>4. \A p \in targets[u] \cap Projects : status[p] = "deleted" => status'[p] = "purged"
      BY <2>1, <2>3, <3>1 DEF Remove, Doomed
    <3>5. \A o \in targets[u] : status'[o] = "purged"
      BY <1>1, <3>3, <3>4 DEF DeadInv, Dead, Owners
    <3> QED
      BY <1>1, <3>2, <3>5 DEF Finish, CompleteInv
  <2> QED
    BY <2>2, <2>3
<1> QED
  BY <1>2, <1>3 DEF Step

(***************************************************************************)
(* The invariant, and what follows from it.                                *)
(***************************************************************************)
PurgeInv ==
  TypeInv /\ DeadInv /\ CoverInv /\ PrefixInv /\ RowsInv /\ CompleteInv

LEMMA PurgeInvStep == PurgeInv /\ [Next]_vars => PurgeInv'
<1> SUFFICES ASSUME PurgeInv, [Next]_vars PROVE PurgeInv'
  OBVIOUS
<1> USE DEF PurgeInv
<1>1. TypeInv'
  BY TypeStep
<1>2. ASSUME NEW r \in Requests, Request(r) \/ FailRequest(r) PROVE PurgeInv'
  <2>1. Advance /\ UNCHANGED run
    BY <1>2, RequestAdvances, RequestTypes
  <2> QED
    BY <1>1, <1>2, <2>1, RequestKeepsDead, RequestKeepsCover, RequestKeepsPrefix,
       RequestKeepsRows, RequestKeepsComplete
<1>3. ASSUME NEW u \in Runs, Step(u) \/ FailRun(u) PROVE PurgeInv'
  BY <1>1, <1>3, StepKeepsDead, StepKeepsCover, StepKeepsPrefix, StepKeepsRows,
     StepKeepsComplete
<1>4. CASE UNCHANGED vars
  BY <1>1, <1>4
  DEF vars, run, DeadInv, Dead, CoverInv, PrefixInv, OnlyStray, Under, Prefix, RowsInv,
      OnlyStrayRows, CompleteInv
<1> QED
  BY <1>2, <1>3, <1>4 DEF Next

LEMMA PurgeInvAlways == Spec => []PurgeInv
<1>1. Init => PurgeInv
  BY TypeInit, DeadInit, RowsInit DEF PurgeInv
<1> QED
  BY <1>1, PurgeInvStep, PTL DEF Spec

(* No step of a run, a page or a row deletion of a run that listed its     *)
(* targets long before included, takes anything from what is live.         *)
THEOREM LiveStays == Spec => LiveUntouched
<1> DEFINE Untouched ==
      /\ \A x \in objects \ objects' : ~Live(x.website)
      /\ \A w \in rows \ rows' : ~Live(w.owner)
      /\ \A o \in Owners : Live(o) =>
           status'[o] # "purged" /\ PolicyOf[o] \notin policies \ policies'
<1>1. ASSUME PurgeInv, [Next]_vars PROVE [Untouched]_vars
  <2>1. ASSUME NEW u \in Runs, Step(u) \/ FailRun(u) PROVE Untouched
    BY <1>1, <2>1, NothingLiveRemoved DEF PurgeInv
  <2>2. ASSUME NEW r \in Requests, Request(r) \/ FailRequest(r) PROVE Untouched
    <3>1. objects \subseteq objects' /\ rows \subseteq rows' /\ policies \subseteq policies'
      BY <2>2
      DEF Request, StartDelivery, StartCreate, DeleteSource, DeleteProject, StartKey, PutBatch,
          CountBatch, InsertPolicy, InsertSource, InsertWatermark, InsertKey, Cascade, Record,
          FailRequest
    <3>2. \A o \in Owners : status'[o] = "purged" => status[o] = "purged"
      BY <1>1, <2>2, RequestsPurgeNothing DEF PurgeInv
    <3> QED
      BY <3>1, <3>2 DEF Live
  <2> QED
    BY <1>1, <2>1, <2>2 DEF Next
<1> QED
  BY <1>1, PurgeInvAlways, PTL DEF Spec, LiveUntouched

(* Whatever runs fail, stop or overlap: an object whose row is gone was    *)
(* written for a website no longer live, or its website was deleted while  *)
(* a run was under way.                                                    *)
THEOREM RowsLeadToObjects == Spec => []ObjectsAreFound
<1>1. Init => ObjectsAreFound
  BY OwnersAssumption DEF Init, ObjectsAreFound, Found, Owners
<1>2. ASSUME PurgeInv, ObjectsAreFound, [Next]_vars PROVE ObjectsAreFound'
  <2> USE <1>2 DEF PurgeInv, TypeInv, TypeOK
  <2> SUFFICES ASSUME NEW x \in objects'
               PROVE  Found(x.website)' \/ x.by \in stray' \/ x.website \in missed'
    BY DEF ObjectsAreFound
  <2> DEFINE s == x.website
             p == ProjectOf[s]
  <2>1. x \in objects => x \in Object
    OBVIOUS
  <2>2. s \in Sources /\ p \in Projects /\ s \in Owners /\ p \in Owners /\ s # p
    BY TypeStep, OwnersAssumption DEF Object, Owners
  <2>3. ASSUME NEW r \in Requests, Request(r) \/ FailRequest(r)
        PROVE  Found(s)' \/ x.by \in stray' \/ s \in missed'
    <3>1. Advance
      BY <2>3, RequestAdvances
    <3>2. \A o \in {s, p} : /\ status'[o] = "purged" => status[o] = "purged"
                            /\ status[o] # "none" => status'[o] # "none"
      BY <2>2, <2>3, RequestsPurgeNothing
    <3>3. status[s] \in {"live", "deleted"} => status'[s] \in {"live", "deleted"}
      BY <2>2, <3>2, TypeStep DEF Statuses
    <3>4. status[p] = "deleted" => status'[p] = "deleted"
      BY <2>2, <3>1, <3>2 DEF Advance, Dead
    <3>5. Found(s) => Found(s)'
      BY <3>3, <3>4 DEF Found
    <3>6. Live(s) => Found(s)
      BY DEF Live, Found
    <3> QED
      BY <3>1, <3>5, <3>6 DEF Advance, ObjectsAreFound
  <2>4. ASSUME NEW u \in Runs, Step(u) \/ FailRun(u)
        PROVE  Found(s)' \/ x.by \in stray' \/ s \in missed'
    <3>1. x \in objects /\ UNCHANGED <<stray, missed>>
      BY <2>4, StepOnlyRemoves DEF OnlyRemoves
    <3>2. CASE status'[s] = status[s] /\ status'[p] = status[p]
      BY <3>1, <3>2 DEF ObjectsAreFound, Found
    <3>3. CASE status'[s] # status[s] \/ status'[p] # status[p]
      <4>1. DeleteRows(u)
        BY <2>4, <3>3
        DEF Step, ListProjects, ListSources, ListPage, DeletePage, OutOfBudget, FailRun
      <4>2. stage[u] = "rows" /\ todo[u] = {}
        BY <4>1 DEF DeleteRows, StageInv
      <4>3. PICK gone : gone \subseteq Matching(table[u]) /\ Remove(table[u], gone)
        BY <4>1, PortionsAreParts DEF DeleteRows
      <4>4. \A o \in targets[u] : OnlyStray(o)
        BY <4>2 DEF PrefixInv
      <4>5. \A o \in Owners : Doomed(o) /\ s \in Family(o) => x.by \in stray \/ s \in missed
        BY <3>1, <4>2, <4>4, PurgedIsCovered DEF OnlyStray
      <4>6. \A o \in gone : o \in Owners /\ status'[o] # status[o] => Doomed(o)
        BY <4>3, MatchingCases, OwnersAssumption DEF Remove, Doomed
      <4>7. s \in Family(s) /\ s \in Family(p)
        BY <2>2 DEF Family, Websites
      <4>8. \A o \in Owners : status'[o] # status[o] => o \in gone
        BY <4>3 DEF Remove
      <4> QED
        BY <2>2, <3>1, <3>3, <4>5, <4>6, <4>7, <4>8
    <3> QED
      BY <3>2, <3>3
  <2>5. CASE UNCHANGED vars
    BY <2>5 DEF vars, ObjectsAreFound, Found
  <2> QED
    BY <2>3, <2>4, <2>5 DEF Next
<1> QED
  BY <1>1, <1>2, PurgeInvAlways, PTL DEF Spec

(* What a run that ended "complete" listed is purged, and nothing of it is *)
(* left but what was written or deleted too late for the run.              *)
THEOREM CompleteIsComplete == Spec => []CompleteMeansGone
<1>1. ASSUME PurgeInv PROVE CompleteMeansGone
  <2> USE <1>1 DEF PurgeInv, TypeInv, TypeOK
  <2> SUFFICES ASSUME NEW u \in Runs, report[u] = "complete", NEW o \in targets[u]
               PROVE  /\ status[o] = "purged"
                      /\ \A x \in objects : x.website \in Family(o) => x.by \in stray
                      /\ \A w \in rows : w.owner \in Family(o) \ missed => w.by \in stray
    BY DEF CompleteMeansGone
  <2>1. status[o] = "purged"
    BY DEF CompleteInv
  <2>2. OnlyStray(o)
    BY DEF StageInv, PrefixInv
  <2>3. OnlyStrayRows(o, ProjectTable)
    BY <2>1 DEF RowsInv
  <2>4. \A w \in rows : w.table < ProjectTable
    BY NumbersAssumption DEF Row, Tables, ProjectTable, RowsInv
  <2> QED
    BY <2>1, <2>2, <2>3, <2>4 DEF OnlyStray, OnlyStrayRows
<1> QED
  BY <1>1, PurgeInvAlways, PTL
=============================================================================
