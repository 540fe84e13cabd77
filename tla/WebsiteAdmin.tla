---------------------------- MODULE WebsiteAdmin ----------------------------
(***************************************************************************)
(* The admin API on a website that exists (edit, disable, delete, its      *)
(* goals, deletion of its project) beside the collector's requests, which  *)
(* read the website and its project before they accept anything.           *)
(*                                                                         *)
(* Every D1 statement is a step.  updateSource reads the row and writes    *)
(* name, origins and status back whatever it was asked (WrittenBack), the  *)
(* newer columns only when the request names them.                         *)
(***************************************************************************)
EXTENDS Naturals, FiniteSets

CONSTANTS
  Calls,        \* admin requests; also goal ids
  Hits,         \* requests to the collector
  Callers,      \* who sends admin requests
  RoleOf,       \* [Callers -> {"admin", "owner", "analyst"}]
  InScope,      \* callers whose key covers the website
  InProject,    \* callers whose key covers its project
  WrittenBack,  \* columns every edit writes: name, origins
  NamedOnly,    \* columns only an edit that names them writes
  NewColumns,   \* those of NamedOnly the database may not have yet
  Values,       \* [columns -> set of values]
  First,        \* [columns -> value] when the website was created
  Edits,        \* bound: what requests may ask to change
  Senders,      \* [origin, token, claim, address] of collector requests
  Admits(_, _), \* an origin is allowed by these columns
  Excludes(_, _), \* an address is excluded by these columns
  Unsigned(_),  \* these columns do not require a token
  MaxGoals,     \* active goals a website may have: 20
  MaxFailures   \* bound: D1 calls that fail

Columns == WrittenBack \cup NamedOnly
Status == {"active", "disabled", "deleted"}
Filled == {f \in [Columns -> UNION {Values[x] : x \in Columns}] : \A x \in Columns : f[x] \in Values[x]}
Row == [status : Status, col : Filled]

ASSUME CallsAssumption == IsFiniteSet(Calls) /\ "none" \notin Calls /\ Callers # {} /\ Senders # {}

ASSUME ColumnsAssumption ==
  /\ WrittenBack \cap NamedOnly = {} /\ NewColumns \subseteq NamedOnly
  /\ First \in Filled
  /\ \A e \in Edits : /\ DOMAIN e.col \subseteq Columns
                      /\ \A c \in DOMAIN e.col : e.col[c] \in Values[c]
                      /\ e.status \in {"same", "active", "disabled"}

ASSUME LimitsAssumption == MaxGoals \in Nat /\ MaxFailures \in Nat

VARIABLES
  row,       \* the website's row of `sources`
  project,   \* the status of its project
  columns,   \* the columns the database has
  goals,     \* its active goals
  gate,      \* whether the next denial is audited
  audits,    \* the admin audit: <<call, outcome>>
  failures,  \* D1 calls that failed
  job,       \* the admin requests
  hit,       \* the collector's requests
  stop       \* history: the call that stopped collection last, or "none"

vars == <<row, project, columns, goals, gate, audits, failures, job, hit, stop>>
table == <<row, project, columns, goals>>

Ops == {"edit", "disable", "delete", "deleteProject", "addGoal", "dropGoal"}
NoEdit == [status |-> "same", col |-> <<>>]

Init ==
  /\ row = [status |-> "active", col |-> First]
  /\ project = "active"
  /\ columns \in {Columns, Columns \ NewColumns}
  /\ goals = {}
  /\ gate = TRUE
  /\ audits = {}
  /\ failures = 0
  /\ job = [c \in Calls |-> [pc |-> "idle", op |-> "none", caller |-> CHOOSE k \in Callers : TRUE,
                             edit |-> NoEdit, seen |-> row, seenStop |-> "none",
                             wrote |-> FALSE, answer |-> "none"]]
  /\ hit = [h \in Hits |-> [pc |-> "idle", sender |-> CHOOSE s \in Senders : TRUE, seen |-> row,
                            stopped |-> FALSE, answer |-> "none"]]
  /\ stop = "none"

-----------------------------------------------------------------------------
(* Who may write.                                                          *)

(* guardProjectWrite and guardSourceWrite.                                 *)
MayWrite(caller, op) ==
  \/ RoleOf[caller] = "admin"
  \/ /\ RoleOf[caller] = "owner"
     /\ caller \in IF op = "deleteProject" THEN InProject ELSE InScope

Goto(c, step) == job' = [job EXCEPT ![c].pc = step]
Answer(c, outcome) == job' = [job EXCEPT ![c].pc = "done", ![c].answer = outcome]

FirstStep(op) ==
  CASE op = "edit" -> "read" [] op \in {"disable", "delete"} -> "status"
    [] op = "deleteProject" -> "project" [] op = "addGoal" -> "source" [] op = "dropGoal" -> "goal"

(* An edit must change something.                                          *)
ValidEdit(e) == e.status # "same" \/ DOMAIN e.col # {}

(* A refused request is audited only when the gate is open, then answered. *)
Arrive(c, k, op, e) ==
  /\ job[c].pc = "idle"
  /\ op # "edit" => e = NoEdit
  /\ LET start(pc, answer) == job' = [job EXCEPT ![c] =
           [@ EXCEPT !.pc = pc, !.op = op, !.caller = k, !.edit = e, !.answer = answer]]
     IN IF MayWrite(k, op)
        THEN /\ IF op = "edit" /\ ~ValidEdit(e) THEN start("done", "refused")
                                               ELSE start(FirstStep(op), "none")
             /\ UNCHANGED gate
        ELSE IF gate THEN start("denied", "none") /\ gate' = FALSE
        ELSE start("done", "refused") /\ UNCHANGED gate
  /\ UNCHANGED <<table, audits, failures, hit, stop>>

AuditDenied(c) ==
  /\ job[c].pc = "denied"
  /\ audits' = audits \cup {<<c, "denied">>}
  /\ Answer(c, "refused")
  /\ UNCHANGED <<table, gate, failures, hit, stop>>

(* The interval of the denial gate has passed.                             *)
IntervalPasses ==
  /\ ~gate
  /\ gate' = TRUE
  /\ UNCHANGED <<table, audits, failures, job, hit, stop>>

(* saveAdminAudit, the last call of a handler; a reread that changes       *)
(* nothing comes before it.                                                *)
SaveAudit(c, step, outcome, answer) ==
  /\ job[c].pc = step
  /\ audits' = audits \cup {<<c, outcome>>}
  /\ Answer(c, answer)
  /\ UNCHANGED <<table, gate, failures, hit, stop>>

AuditAllowed(c) == SaveAudit(c, "audit", "allowed", "ok")
AuditNotFound(c) == SaveAudit(c, "missing", "denied", "refused")

(* Mutant: nobody is told that the audit entry is missing.                 *)
FailUntold(c) ==
  /\ job[c].pc \notin {"idle", "done"}
  /\ failures < MaxFailures
  /\ failures' = failures + 1
  /\ Answer(c, IF job[c].pc = "audit" THEN "ok" ELSE "error")
  /\ UNCHANGED <<table, gate, audits, hit, stop>>

(* Any D1 call may fail; the handler then answers with an error.           *)
Fail(c) ==
  /\ job[c].pc \notin {"idle", "done"}
  /\ failures < MaxFailures
  /\ failures' = failures + 1
  /\ Answer(c, "error")
  /\ UNCHANGED <<table, gate, audits, hit, stop>>

-----------------------------------------------------------------------------
(* Editing.                                                                *)

ReadRow(c) ==
  /\ job[c].pc = "read"
  /\ IF row.status = "deleted" THEN Answer(c, "refused")
     ELSE job' = [job EXCEPT ![c].pc = "write", ![c].seen = row, ![c].seenStop = stop]
  /\ UNCHANGED <<table, gate, audits, failures, hit, stop>>

(* Mutant: every column is written back, the newer ones too.               *)
EditedWhole(c, old, kept) ==
  LET e == job[c].edit IN
  [status |-> IF e.status = "same" THEN kept.status ELSE e.status,
   col |-> [x \in Columns |-> IF x \in DOMAIN e.col THEN e.col[x] ELSE kept.col[x]]]

Edited(c, old, kept) ==
  LET e == job[c].edit IN
  [status |-> IF e.status = "same" THEN kept.status ELSE e.status,
   col |-> [x \in Columns |-> IF x \in DOMAIN e.col THEN e.col[x]
                              ELSE IF x \in WrittenBack THEN kept.col[x] ELSE old.col[x]]]

(* Whether what an edit writes may turn on what a stop turned off.         *)
Restarts(c) ==
  \/ job[c].edit.status = "active"
  \/ job[c].edit.status = "same" /\ job[c].seenStop # stop

StopAfter(c) ==
  IF job[c].edit.status = "disabled" THEN c ELSE IF Restarts(c) THEN "none" ELSE stop

(* One UPDATE: it fails as a whole when it names a column that is missing, *)
(* and the operator is told to update the database.                        *)
WriteRow(c) ==
  /\ job[c].pc = "write"
  /\ IF DOMAIN job[c].edit.col \subseteq columns /\ row.status # "deleted"
     THEN /\ row' = Edited(c, row, job[c].seen)
          /\ stop' = StopAfter(c)
          /\ job' = [job EXCEPT ![c].pc = "audit", ![c].wrote = TRUE]
     ELSE /\ Answer(c, IF DOMAIN job[c].edit.col \subseteq columns THEN "refused" ELSE "outdated")
          /\ UNCHANGED <<row, stop>>
  /\ UNCHANGED <<project, columns, goals, gate, audits, failures, hit>>

-----------------------------------------------------------------------------
(* Disabling and deleting.                                                 *)

(* setSourceStatus.                                                        *)
SetStatus(c) ==
  /\ job[c].pc = "status"
  /\ IF row.status = "deleted" THEN Goto(c, "missing") /\ UNCHANGED <<row, stop>>
     ELSE /\ row' = [row EXCEPT !.status = IF job[c].op = "delete" THEN "deleted" ELSE "disabled"]
          /\ stop' = c
          /\ job' = [job EXCEPT ![c].pc = "audit", ![c].wrote = TRUE]
  /\ UNCHANGED <<project, columns, goals, gate, audits, failures, hit>>

(* setProjectStatus: the project, then all its websites.                   *)
DeleteProject(c) ==
  /\ job[c].pc = "project"
  /\ IF project = "deleted" THEN Goto(c, "missing") /\ UNCHANGED <<project, stop>>
     ELSE /\ project' = "deleted"
          /\ stop' = c
          /\ job' = [job EXCEPT ![c].pc = "websites", ![c].wrote = TRUE]
  /\ UNCHANGED <<row, columns, goals, gate, audits, failures, hit>>

DeleteWebsites(c) ==
  /\ job[c].pc = "websites"
  /\ row' = [row EXCEPT !.status = "deleted"]
  /\ stop' = c
  /\ Goto(c, "audit")
  /\ UNCHANGED <<project, columns, goals, gate, audits, failures, hit>>

-----------------------------------------------------------------------------
(* Goals.                                                                  *)

ReadSourceForGoal(c) ==
  /\ job[c].pc = "source"
  /\ IF row.status = "deleted" THEN Answer(c, "refused") ELSE Goto(c, "insert")
  /\ UNCHANGED <<table, gate, audits, failures, hit, stop>>

(* The count and the insert are one statement.                             *)
InsertGoal(c) ==
  /\ job[c].pc = "insert"
  /\ IF Cardinality(goals) < MaxGoals
     THEN /\ goals' = goals \cup {c}
          /\ job' = [job EXCEPT ![c].pc = "audit", ![c].wrote = TRUE]
     ELSE Answer(c, "refused") /\ UNCHANGED goals
  /\ UNCHANGED <<row, project, columns, gate, audits, failures, hit, stop>>

(* The goal asked for is one there was, or not.                            *)
DropGoal(c, g) ==
  /\ job[c].pc = "goal"
  /\ IF g \in goals
     THEN /\ goals' = goals \ {g}
          /\ job' = [job EXCEPT ![c].pc = "audit", ![c].wrote = TRUE]
     ELSE Goto(c, "missing") /\ UNCHANGED goals
  /\ UNCHANGED <<row, project, columns, gate, audits, failures, hit, stop>>

(* The migration that adds the newer columns.                              *)
Migrate ==
  /\ columns # Columns
  /\ columns' = Columns
  /\ UNCHANGED <<row, project, goals, gate, audits, failures, job, hit, stop>>

-----------------------------------------------------------------------------
(* The collector: two reads, then a decision on what was read.             *)

(* An invalid token, or neither token nor origin, is refused unread.       *)
Hit(h, s) ==
  /\ hit[h].pc = "idle"
  /\ hit' = [hit EXCEPT ![h] =
       [@ EXCEPT !.sender = s,
                 !.stopped = stop # "none" /\ job[stop].answer = "ok",
                 !.pc = IF s.token = "invalid" \/ (s.token = "missing" /\ s.origin = "none")
                        THEN "done" ELSE "source",
                 !.answer = IF s.token = "invalid" \/ (s.token = "missing" /\ s.origin = "none")
                            THEN "refused" ELSE "none"]]
  /\ UNCHANGED <<table, gate, audits, failures, job, stop>>

(* `stopped` is history: stopped when it arrived and until it was looked   *)
(* up.  Mutant: only a disabled website is refused.                        *)
FindSourceNotDeleted(h) ==
  /\ hit[h].pc = "source"
  /\ hit' = [hit EXCEPT ![h].pc = IF row.status = "disabled" THEN "done" ELSE "project",
                        ![h].answer = IF row.status = "disabled" THEN "refused" ELSE "none",
                        ![h].seen = row, ![h].stopped = @ /\ stop # "none"]
  /\ UNCHANGED <<table, gate, audits, failures, job, stop>>

FindSource(h) ==
  /\ hit[h].pc = "source"
  /\ hit' = [hit EXCEPT ![h].pc = IF row.status = "active" THEN "project" ELSE "done",
                        ![h].answer = IF row.status = "active" THEN "none" ELSE "refused",
                        ![h].seen = row, ![h].stopped = @ /\ stop # "none"]
  /\ UNCHANGED <<table, gate, audits, failures, job, stop>>

(* A token names one website and an origin and expires; a static website   *)
(* requires none, only an origin.                                          *)
Authorized(s, col) ==
  LET origin == IF s.origin = "none" THEN s.claim ELSE s.origin IN
  /\ s.token \in {"own", "missing"}
  /\ s.token = "own" => s.origin \in {"none", s.claim}
  /\ s.token = "missing" => Unsigned(col)
  /\ origin # "none" => Admits(origin, col)

Decide(h) ==
  /\ hit[h].pc = "project"
  /\ hit' = [hit EXCEPT ![h].pc = "done",
       ![h].answer =
          IF project # "active" \/ ~Authorized(hit[h].sender, hit[h].seen.col) THEN "refused"
          ELSE IF Excludes(hit[h].sender.address, hit[h].seen.col) THEN "excluded" ELSE "accepted"]
  /\ UNCHANGED <<table, gate, audits, failures, job, stop>>

-----------------------------------------------------------------------------
Handle(c) ==
  \/ AuditDenied(c) \/ AuditAllowed(c) \/ AuditNotFound(c) \/ Fail(c)
  \/ ReadRow(c) \/ WriteRow(c) \/ SetStatus(c) \/ DeleteProject(c) \/ DeleteWebsites(c)
  \/ ReadSourceForGoal(c) \/ InsertGoal(c)
  \/ \E g \in Calls : DropGoal(c, g)

Next ==
  \/ \E c \in Calls, k \in Callers, op \in Ops, e \in Edits \cup {NoEdit} : Arrive(c, k, op, e)
  \/ \E c \in Calls : Handle(c)
  \/ \E h \in Hits : FindSource(h) \/ Decide(h) \/ \E s \in Senders : Hit(h, s)
  \/ Migrate
  \/ IntervalPasses

Spec == Init /\ [][Next]_vars

-----------------------------------------------------------------------------
Steps == {"idle", "denied", "read", "write", "status", "project", "websites", "source", "insert",
          "goal", "audit", "missing", "done"}
Answers == {"none", "ok", "refused", "outdated", "error"}
Job == [pc : Steps, op : Ops \cup {"none"}, caller : Callers, edit : Edits \cup {NoEdit},
        seen : Row, seenStop : Calls \cup {"none"}, wrote : BOOLEAN,
        answer : Answers]
Request == [pc : {"idle", "source", "project", "done"}, sender : Senders, seen : Row,
            stopped : BOOLEAN, answer : {"none", "accepted", "excluded", "refused"}]

(* Types of the variables.                                                 *)
TypeOK ==
  /\ row \in Row /\ project \in {"active", "deleted"} /\ columns \in SUBSET Columns
  /\ goals \in SUBSET Calls
  /\ gate \in BOOLEAN /\ failures \in 0..MaxFailures
  /\ audits \in SUBSET (Calls \X {"allowed", "denied"})
  /\ job \in [Calls -> Job]
  /\ hit \in [Hits -> Request]
  /\ stop \in Calls \cup {"none"}

(* Once a request that disabled or deleted the website, or deleted its     *)
(* project, was answered, no batch that arrives later is accepted, unless, *)
(* before it is looked up, an edit asks for `active`, or one that asks     *)
(* nothing of the status and had read the row before the stop writes it    *)
(* back (the lost update of updateSource).                                 *)
StoppedIsStopped ==
  \A h \in Hits : hit[h].stopped => hit[h].answer \notin {"accepted", "excluded"}

(* An edit leaves alone what it does not name: always the columns that are *)
(* written only when named, and the others too when nobody wrote the row   *)
(* since it read it.                                                       *)
EditsKeepOthers ==
  [][\A c \in Calls :
       job[c].pc = "write" /\ job'[c].wrote =>
         \A x \in Columns \ DOMAIN job[c].edit.col :
           x \in NamedOnly \/ job[c].seen = row => row'.col[x] = row.col[x]]_vars

(* Whatever a request changed is in the audit once it was answered, except *)
(* when the answer is an error; nobody is told "ok" without an entry; and  *)
(* a request that was refused changed nothing.                             *)
ChangesAreAudited ==
  \A c \in Calls : LET j == job[c] IN
    /\ j.answer = "ok" => j.wrote /\ <<c, "allowed">> \in audits
    /\ j.wrote /\ j.pc = "done" => j.answer \in {"ok", "error"}
    /\ <<c, "allowed">> \in audits => j.wrote
    /\ j.wrote => MayWrite(j.caller, j.op)
=============================================================================
