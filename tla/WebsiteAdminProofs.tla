------------------------- MODULE WebsiteAdminProofs -------------------------
(***************************************************************************)
(* Proofs about WebsiteAdmin, for any number of requests, callers, columns *)
(* and limits.                                                             *)
(*                                                                         *)
(* JobInv ties what a request has written to the step it is at, and what   *)
(* it has read to the stop that had happened by then.  StopInv says that a *)
(* website somebody stopped is inactive, or its project deleted, until an  *)
(* edit turns it on; it needs the edits that will write back a status they *)
(* read after the stop.  HitInv carries that through the two reads of the  *)
(* collector: a batch that saw an active website saw a deleted project.    *)
(***************************************************************************)
EXTENDS WebsiteAdmin, TLAPS

Unwritten == {"idle", "denied", "read", "write", "status", "project", "source", "insert", "goal", "missing"}

Off(r) == r.status # "active" \/ project = "deleted"

JobInv ==
  /\ \A c \in Calls : LET j == job[c] IN
       /\ j.pc \in Unwritten => ~j.wrote
       /\ j.pc \in {"audit", "websites"} => j.wrote
       /\ j.pc = "websites" => project = "deleted"
       /\ j.pc \notin {"idle", "denied", "done"} \/ j.wrote => MayWrite(j.caller, j.op)
       /\ j.answer # "none" => j.pc = "done"
       /\ j.answer = "ok" => j.wrote /\ <<c, "allowed">> \in audits
       /\ j.wrote /\ j.pc = "done" => j.answer \in {"ok", "error"}
       /\ <<c, "allowed">> \in audits => j.wrote
       /\ j.seenStop # "none" => job[j.seenStop].wrote
  /\ stop # "none" => job[stop].wrote

StopInv ==
  /\ stop # "none" => Off(row)
  /\ \A c \in Calls :
       job[c].pc = "write" /\ job[c].seenStop = stop /\ stop # "none" => Off(job[c].seen)

HitInv ==
  \A h \in Hits :
    hit[h].stopped => /\ hit[h].pc # "idle"
                      /\ hit[h].pc = "project" => project = "deleted"
                      /\ hit[h].answer \in {"none", "refused"}

(***************************************************************************)
(* Types.                                                                  *)
(***************************************************************************)
LEMMA FirstRow == [status |-> "active", col |-> First] \in Row
  BY ColumnsAssumption DEF Row, Filled, Status

(* What an edit writes is a row again.                                     *)
LEMMA EditedRow ==
  ASSUME NEW c \in Calls, NEW old \in Row, NEW kept \in Row, job \in [Calls -> Job]
  PROVE  Edited(c, old, kept) \in Row
<1> DEFINE e == job[c].edit
           f == [x \in Columns |-> IF x \in DOMAIN e.col THEN e.col[x]
                                   ELSE IF x \in WrittenBack THEN kept.col[x] ELSE old.col[x]]
<1>1. e \in Edits \cup {NoEdit}
  BY DEF Job
<1>2. /\ \A x \in DOMAIN e.col : e.col[x] \in Values[x]
      /\ e.status \in {"same", "active", "disabled"}
  BY <1>1, ColumnsAssumption DEF NoEdit
<1>3. ASSUME NEW x \in Columns PROVE f[x] \in Values[x]
  BY <1>2, <1>3 DEF Row, Filled
<1>4. f \in Filled
  BY <1>3 DEF Filled
<1>5. (IF e.status = "same" THEN kept.status ELSE e.status) \in Status
  BY <1>2 DEF Row, Status
<1> QED
  BY <1>4, <1>5 DEF Edited, Row

(* Where a request is that arrived, and all that its arrival changes.      *)
Begun == {"read", "status", "project", "source", "goal", "denied", "done"}

Becomes(c, k, op, e, pc, answer) ==
  /\ job' = [job EXCEPT ![c] =
       [@ EXCEPT !.pc = pc, !.op = op, !.caller = k, !.edit = e, !.answer = answer]]
  /\ pc \notin {"denied", "done"} => MayWrite(k, op)
  /\ answer # "none" => pc = "done"
  /\ gate' \in {gate, FALSE}
  /\ UNCHANGED <<row, project, columns, goals, audits, failures, hit, stop>>

LEMMA Arrived ==
  ASSUME NEW c \in Calls, NEW k \in Callers, NEW op \in Ops, NEW e \in Edits \cup {NoEdit},
         Arrive(c, k, op, e)
  PROVE  \E pc \in Begun, answer \in {"none", "refused"} : Becomes(c, k, op, e, pc, answer)
<1> USE DEF Begun, Becomes, table
<1>1. CASE ~MayWrite(k, op) /\ gate
  BY <1>1 DEF Arrive
<1>2. CASE ~MayWrite(k, op) /\ ~gate
  BY <1>2 DEF Arrive
<1>3. CASE MayWrite(k, op) /\ op = "edit" /\ ~ValidEdit(e)
  BY <1>3 DEF Arrive
<1>4. CASE MayWrite(k, op) /\ ~(op = "edit" /\ ~ValidEdit(e))
  <2>1. FirstStep(op) \in Begun \ {"denied", "done"}
    BY DEF FirstStep, Ops
  <2> QED
    BY <1>4, <2>1 DEF Arrive
<1> QED
  BY <1>1, <1>2, <1>3, <1>4

(* What becomes of a request that arrives, or is answered, is one again.   *)
LEMMA JobArrived ==
  ASSUME job \in [Calls -> Job], NEW c \in Calls, NEW k \in Callers, NEW op \in Ops,
         NEW e \in Edits \cup {NoEdit}, NEW pc \in Steps, NEW answer \in Answers
  PROVE  [job EXCEPT ![c] = [@ EXCEPT !.pc = pc, !.op = op, !.caller = k, !.edit = e, !.answer = answer]]
           \in [Calls -> Job]
  BY ZenonT(30) DEF Job

LEMMA JobAnswered ==
  ASSUME job \in [Calls -> Job], NEW c \in Calls, NEW answer \in Answers
  PROVE  [job EXCEPT ![c].pc = "done", ![c].answer = answer] \in [Calls -> Job]
<1>1. [job EXCEPT ![c].pc = "done", ![c].answer = answer]
        = [job EXCEPT ![c] = [@ EXCEPT !.pc = "done", !.answer = answer]]
  OBVIOUS
<1>2. "done" \in Steps
  BY DEF Steps
<1>3. [job EXCEPT ![c] = [@ EXCEPT !.pc = "done", !.answer = answer]] \in [Calls -> Job]
  BY <1>2, Zenon DEF Job
<1> QED
  BY <1>1, <1>3

LEMMA TypeInit == Init => TypeOK
<1> SUFFICES ASSUME Init PROVE TypeOK
  OBVIOUS
<1>1. row \in Row
  BY FirstRow DEF Init
<1>2. (CHOOSE k \in Callers : TRUE) \in Callers /\ (CHOOSE s \in Senders : TRUE) \in Senders
  BY CallsAssumption
<1>3. job \in [Calls -> Job]
  BY <1>1, <1>2 DEF Init, Job, Steps, Answers
<1>4. hit \in [Hits -> Request]
  BY <1>1, <1>2 DEF Init, Request
<1> QED
  BY <1>1, <1>3, <1>4, LimitsAssumption DEF Init, TypeOK

LEMMA TypeStep == TypeOK /\ [Next]_vars => TypeOK'
<1> SUFFICES ASSUME TypeOK, [Next]_vars PROVE TypeOK'
  OBVIOUS
<1> USE DEF TypeOK, table, Goto, Answer
<1>1. ASSUME NEW c \in Calls, NEW k \in Callers, NEW op \in Ops, NEW e \in Edits \cup {NoEdit},
             Arrive(c, k, op, e)
      PROVE  TypeOK'
  <2>1. PICK pc \in Begun, answer \in {"none", "refused"} : Becomes(c, k, op, e, pc, answer)
    BY <1>1, Arrived
  <2>2. job' \in [Calls -> Job]
    <3>1. pc \in Steps /\ answer \in Answers
      BY DEF Begun, Steps, Answers
    <3> QED
      BY <2>1, <3>1, JobArrived DEF Becomes
  <2> QED
    BY <2>1, <2>2 DEF Becomes
<1>2. ASSUME NEW c \in Calls, AuditDenied(c) \/ AuditAllowed(c) \/ AuditNotFound(c) PROVE TypeOK'
  BY <1>2 DEF AuditDenied, AuditAllowed, AuditNotFound, SaveAudit, Job, Steps, Answers
<1>3. ASSUME NEW c \in Calls, Fail(c) PROVE TypeOK'
  <2>1. job' \in [Calls -> Job]
    BY <1>3, JobAnswered DEF Fail, Answers
  <2>2. failures' \in 0..MaxFailures
    BY <1>3, LimitsAssumption DEF Fail
  <2> QED
    BY <1>3, <2>1, <2>2 DEF Fail
<1>4. ASSUME NEW c \in Calls, ReadRow(c) PROVE TypeOK'
  BY <1>4 DEF ReadRow, Job, Steps, Answers
<1>5. ASSUME NEW c \in Calls, WriteRow(c) PROVE TypeOK'
  <2>1. job[c].seen \in Row
    BY DEF Job
  <2>2. row' \in Row
    BY <1>5, <2>1, EditedRow DEF WriteRow
  <2>3. stop' \in Calls \cup {"none"}
    BY <1>5 DEF WriteRow, StopAfter
  <2>4. job' \in [Calls -> Job]
    BY <1>5 DEF WriteRow, Job, Steps, Answers
  <2> QED
    BY <1>5, <2>2, <2>3, <2>4 DEF WriteRow
<1>6. ASSUME NEW c \in Calls, SetStatus(c) PROVE TypeOK'
  <2>1. row' \in Row
    BY <1>6 DEF SetStatus, Row, Status
  <2>2. job' \in [Calls -> Job]
    BY <1>6 DEF SetStatus, Job, Steps, Answers
  <2> QED
    BY <1>6, <2>1, <2>2 DEF SetStatus
<1>7. ASSUME NEW c \in Calls, DeleteProject(c) PROVE TypeOK'
  BY <1>7 DEF DeleteProject, Job, Steps, Answers
<1>8. ASSUME NEW c \in Calls, DeleteWebsites(c) PROVE TypeOK'
  <2>1. row' \in Row
    BY <1>8 DEF DeleteWebsites, Row, Status
  <2>2. job' \in [Calls -> Job]
    BY <1>8 DEF DeleteWebsites, Job, Steps, Answers
  <2> QED
    BY <1>8, <2>1, <2>2 DEF DeleteWebsites
<1>9. ASSUME NEW c \in Calls, ReadSourceForGoal(c) \/ InsertGoal(c) PROVE TypeOK'
  BY <1>9 DEF ReadSourceForGoal, InsertGoal, Job, Steps, Answers
<1>10. ASSUME NEW c \in Calls, NEW g \in Calls, DropGoal(c, g) PROVE TypeOK'
  BY <1>10 DEF DropGoal, Job, Steps, Answers
<1>11. ASSUME NEW h \in Hits, NEW s \in Senders, Hit(h, s) PROVE TypeOK'
  <2>1. PICK pc \in {"source", "done"}, stopped \in BOOLEAN, answer \in {"none", "refused"} :
           hit' = [hit EXCEPT ![h] = [@ EXCEPT !.sender = s, !.stopped = stopped, !.pc = pc, !.answer = answer]]
    BY <1>11, Zenon DEF Hit
  <2>2. hit' \in [Hits -> Request]
    BY <2>1, ZenonT(40) DEF Request
  <2> QED
    BY <1>11, <2>2 DEF Hit
<1>12. ASSUME NEW h \in Hits, FindSource(h) \/ Decide(h) PROVE TypeOK'
  BY <1>12 DEF FindSource, Decide, Request
<1>13. CASE Migrate \/ IntervalPasses \/ UNCHANGED vars
  BY <1>13, ColumnsAssumption DEF Migrate, IntervalPasses, vars, Columns
<1> QED
  BY <1>1, <1>2, <1>3, <1>4, <1>5, <1>6, <1>7, <1>8, <1>9, <1>10, <1>11, <1>12, <1>13 DEF Next, Handle

(* Every behaviour is well typed.                                          *)
THEOREM TypeCorrect == Spec => []TypeOK
  BY TypeInit, TypeStep, PTL DEF Spec

(***************************************************************************)
(* What requests wrote, and what was answered.                             *)
(***************************************************************************)
LEMMA JobInit == Init => JobInv
  BY DEF Init, JobInv, Unwritten

(* A step of one request that leaves its reading alone keeps JobInv when   *)
(* what it becomes satisfies it.                                           *)
LEMMA JobStep == TypeOK /\ JobInv /\ [Next]_vars => JobInv'
<1> SUFFICES ASSUME TypeOK, JobInv, [Next]_vars PROVE JobInv'
  OBVIOUS
<1> USE DEF TypeOK, JobInv, Unwritten, table, Goto, Answer, Job
<1>0. "none" \notin Calls
  BY CallsAssumption
<1>1. ASSUME NEW c \in Calls, NEW k \in Callers, NEW op \in Ops, NEW e \in Edits \cup {NoEdit},
             Arrive(c, k, op, e)
      PROVE  JobInv'
  <2>1. PICK pc \in Begun, answer \in {"none", "refused"} : Becomes(c, k, op, e, pc, answer)
    BY <1>1, Arrived
  <2>2. ~job[c].wrote
    BY <1>1 DEF Arrive
  <2> QED
    BY <1>0, <2>1, <2>2 DEF Becomes, Begun, MayWrite
<1>2. ASSUME NEW c \in Calls, AuditDenied(c) PROVE JobInv'
  BY <1>0, <1>2 DEF AuditDenied
<1>3. ASSUME NEW c \in Calls, AuditAllowed(c) PROVE JobInv'
  BY <1>0, <1>3 DEF AuditAllowed, SaveAudit
<1>4. ASSUME NEW c \in Calls, AuditNotFound(c) PROVE JobInv'
  BY <1>0, <1>4 DEF AuditNotFound, SaveAudit
<1>5. ASSUME NEW c \in Calls, Fail(c) PROVE JobInv'
  BY <1>0, <1>5 DEF Fail
<1>6. ASSUME NEW c \in Calls, ReadRow(c) PROVE JobInv'
  BY <1>0, <1>6 DEF ReadRow
<1>7. ASSUME NEW c \in Calls, WriteRow(c) PROVE JobInv'
  BY <1>0, <1>7 DEF WriteRow, StopAfter
<1>8. ASSUME NEW c \in Calls, SetStatus(c) PROVE JobInv'
  BY <1>0, <1>8 DEF SetStatus
<1>9. ASSUME NEW c \in Calls, DeleteProject(c) \/ DeleteWebsites(c) PROVE JobInv'
  <2>1. CASE DeleteProject(c)
    BY <1>0, <2>1 DEF DeleteProject
  <2>2. CASE DeleteWebsites(c)
    <3>1. /\ job[c].pc = "websites" /\ job' = [job EXCEPT ![c].pc = "audit"]
          /\ stop' = c /\ UNCHANGED <<project, audits>>
      BY <2>2 DEF DeleteWebsites
    <3>2. job[c].wrote
      BY <3>1, Zenon DEF JobInv
    <3>3. \A d \in Calls : job'[d].wrote = job[d].wrote /\ job'[d].seenStop = job[d].seenStop
      BY <3>1
    <3> QED
      BY <1>0, <3>1, <3>2, <3>3
  <2> QED
    BY <1>9, <2>1, <2>2
<1>10. ASSUME NEW c \in Calls, ReadSourceForGoal(c) \/ InsertGoal(c) PROVE JobInv'
  BY <1>0, <1>10 DEF ReadSourceForGoal, InsertGoal
<1>11. ASSUME NEW c \in Calls, NEW g \in Calls, DropGoal(c, g) PROVE JobInv'
  BY <1>0, <1>11 DEF DropGoal
<1>12. ASSUME NEW h \in Hits, FindSource(h) \/ Decide(h) \/ \E s \in Senders : Hit(h, s) PROVE JobInv'
  <2>1. UNCHANGED <<project, audits, job, stop>>
    BY <1>12 DEF FindSource, Decide, Hit
  <2> QED
    BY <2>1
<1>13. CASE Migrate \/ IntervalPasses \/ UNCHANGED vars
  BY <1>13 DEF Migrate, IntervalPasses, vars
<1> QED
  BY <1>1, <1>2, <1>3, <1>4, <1>5, <1>6, <1>7, <1>8, <1>9, <1>10, <1>11, <1>12, <1>13 DEF Next, Handle

(***************************************************************************)
(* Stopping.                                                               *)
(***************************************************************************)
LEMMA StopInit == Init => StopInv /\ HitInv
  BY CallsAssumption DEF Init, StopInv, HitInv, Off

LEMMA StillUnwritten ==
  ASSUME JobInv, NEW c \in Calls, job[c].pc \in Unwritten
  PROVE  ~job[c].wrote
  BY Zenon DEF JobInv

(* Nobody has seen a stop by a request that has written nothing.           *)
LEMMA SeenStops ==
  ASSUME TypeOK, JobInv, NEW c \in Calls, ~job[c].wrote
  PROVE  \A d \in Calls : job[d].seenStop # c
<1> SUFFICES ASSUME NEW d \in Calls, job[d].seenStop = c PROVE FALSE
  OBVIOUS
<1>1. c # "none"
  BY CallsAssumption
<1>2. job[job[d].seenStop].wrote
  BY <1>1, Zenon DEF JobInv
<1> QED
  BY <1>2, Zenon

LEMMA StopStep == TypeOK /\ JobInv /\ StopInv /\ [Next]_vars => StopInv'
<1> SUFFICES ASSUME TypeOK, JobInv, StopInv, [Next]_vars PROVE StopInv'
  OBVIOUS
<1> USE DEF TypeOK, StopInv, Off, table, Goto, Answer, Job
<1>0. "none" \notin Calls
  BY CallsAssumption
<1>1. ASSUME NEW c \in Calls, NEW k \in Callers, NEW op \in Ops, NEW e \in Edits \cup {NoEdit},
             Arrive(c, k, op, e)
      PROVE  StopInv'
  <2>1. PICK pc \in Begun, answer \in {"none", "refused"} : Becomes(c, k, op, e, pc, answer)
    BY <1>1, Arrived
  <2> QED
    BY <2>1 DEF Becomes, Begun
<1>2. ASSUME NEW c \in Calls, AuditDenied(c) \/ AuditAllowed(c) \/ AuditNotFound(c) \/ Fail(c) PROVE StopInv'
  BY <1>2 DEF AuditDenied, AuditAllowed, AuditNotFound, SaveAudit, Fail
<1>3. ASSUME NEW c \in Calls, ReadRow(c) PROVE StopInv'
  BY <1>3 DEF ReadRow
<1>4. ASSUME NEW c \in Calls, WriteRow(c) PROVE StopInv'
  <2>1. CASE row' = Edited(c, row, job[c].seen) /\ stop' = StopAfter(c)
    <3>1. /\ job[c].pc = "write"
          /\ UNCHANGED project /\ \A d \in Calls \ {c} : job'[d] = job[d]
          /\ job'[c].pc # "write"
      BY <1>4, <2>1 DEF WriteRow
    <3>4. ~job[c].wrote
      BY <3>1, StillUnwritten DEF Unwritten
    <3>2. \A d \in Calls : job[d].seenStop # c
      BY <3>4, SeenStops
    <3>3. stop' # "none" => Off(row)'
      BY <2>1, <3>1 DEF Edited, StopAfter, Restarts
    <3> QED
      BY <1>0, <2>1, <3>1, <3>2, <3>3 DEF StopAfter
  <2>2. CASE UNCHANGED <<row, stop>>
    BY <1>4, <2>2 DEF WriteRow
  <2> QED
    BY <1>4, <2>1, <2>2 DEF WriteRow
<1>5. ASSUME NEW c \in Calls, SetStatus(c) PROVE StopInv'
  <2>1. CASE UNCHANGED <<row, stop>>
    BY <1>5, <2>1 DEF SetStatus
  <2>2. CASE row.status # "deleted"
    <3>1. /\ row'.status # "active" /\ stop' = c
          /\ \A d \in Calls \ {c} : job'[d] = job[d]
          /\ job'[c].pc # "write"
      BY <1>5, <2>2 DEF SetStatus, Row
    <3>2. \A d \in Calls : job[d].seenStop # c
      <4>1. job[c].pc \in Unwritten
        BY <1>5 DEF SetStatus, Unwritten
      <4> QED
        BY <4>1, StillUnwritten, SeenStops
    <3> QED
      BY <3>1, <3>2
  <2> QED
    BY <1>5, <2>1, <2>2 DEF SetStatus
<1>6. ASSUME NEW c \in Calls, DeleteProject(c) \/ DeleteWebsites(c) PROVE StopInv'
  BY <1>6 DEF DeleteProject, DeleteWebsites, JobInv
<1>7. ASSUME NEW c \in Calls, ReadSourceForGoal(c) \/ InsertGoal(c) \/ \E g \in Calls : DropGoal(c, g)
      PROVE  StopInv'
  BY <1>7 DEF ReadSourceForGoal, InsertGoal, DropGoal
<1>8. ASSUME NEW h \in Hits, FindSource(h) \/ Decide(h) \/ \E s \in Senders : Hit(h, s) PROVE StopInv'
  BY <1>8 DEF FindSource, Decide, Hit
<1>9. CASE Migrate \/ IntervalPasses \/ UNCHANGED vars
  BY <1>9 DEF Migrate, IntervalPasses, vars
<1> QED
  BY <1>1, <1>2, <1>3, <1>4, <1>5, <1>6, <1>7, <1>8, <1>9 DEF Next, Handle

LEMMA HitStep == TypeOK /\ StopInv /\ HitInv /\ [Next]_vars => HitInv'
<1> SUFFICES ASSUME TypeOK, StopInv, HitInv, [Next]_vars PROVE HitInv'
  OBVIOUS
<1> USE DEF TypeOK, HitInv, Request
<1>1. ASSUME NEW h \in Hits, NEW s \in Senders, Hit(h, s) PROVE HitInv'
  BY <1>1 DEF Hit, table
<1>2. ASSUME NEW h \in Hits, FindSource(h) PROVE HitInv'
  BY <1>2 DEF FindSource, table, StopInv, Off
<1>3. ASSUME NEW h \in Hits, Decide(h) PROVE HitInv'
  BY <1>3 DEF Decide, table
<1>4. ASSUME UNCHANGED hit, project = "deleted" => project' = "deleted" PROVE HitInv'
  BY <1>4
<1>5. ASSUME NEW c \in Calls, Handle(c) PROVE UNCHANGED hit /\ (project = "deleted" => project' = "deleted")
  BY <1>5 DEF Handle, AuditDenied, AuditAllowed, AuditNotFound, SaveAudit, Fail, ReadRow, WriteRow, SetStatus,
              DeleteProject, DeleteWebsites, ReadSourceForGoal, InsertGoal, DropGoal, table
<1>6. ASSUME NEW c \in Calls, NEW k \in Callers, NEW op \in Ops, NEW e \in Edits \cup {NoEdit},
             Arrive(c, k, op, e)
      PROVE  UNCHANGED <<hit, project>>
  BY <1>6 DEF Arrive, table
<1>7. ASSUME Migrate \/ IntervalPasses \/ UNCHANGED vars PROVE UNCHANGED <<hit, project>>
  BY <1>7 DEF Migrate, IntervalPasses, table, vars
<1> QED
  BY <1>1, <1>2, <1>3, <1>4, <1>5, <1>6, <1>7 DEF Next

(***************************************************************************)
(* What holds of every behaviour.                                          *)
(***************************************************************************)
LEMMA InvAlways == Spec => [](TypeOK /\ JobInv /\ StopInv /\ HitInv)
<1>1. Init => TypeOK /\ JobInv /\ StopInv /\ HitInv
  BY TypeInit, JobInit, StopInit
<1>2. TypeOK /\ JobInv /\ StopInv /\ HitInv /\ [Next]_vars => (TypeOK /\ JobInv /\ StopInv /\ HitInv)'
  BY TypeStep, JobStep, StopStep, HitStep
<1> QED
  BY <1>1, <1>2, PTL DEF Spec

(* Once a request that stopped collection was answered, no batch that      *)
(* arrives later is accepted before an edit turns the website on again,    *)
(* although the collector reads the website and its project at two moments *)
(* and an edit may write back a status it read long ago.                   *)
THEOREM StoppedStaysStopped == Spec => []StoppedIsStopped
<1>1. HitInv => StoppedIsStopped
  BY DEF HitInv, StoppedIsStopped
<1> QED
  BY <1>1, InvAlways, PTL

(* Whatever a request changed was asked for by somebody who may, and is in *)
(* the audit once it was answered with anything but an error.              *)
THEOREM ChangesAlwaysAudited == Spec => []ChangesAreAudited
<1>1. JobInv => ChangesAreAudited
  <2> SUFFICES ASSUME JobInv, NEW c \in Calls
               PROVE  LET j == job[c] IN
                        /\ j.answer = "ok" => j.wrote /\ <<c, "allowed">> \in audits
                        /\ j.wrote /\ j.pc = "done" => j.answer \in {"ok", "error"}
                        /\ <<c, "allowed">> \in audits => j.wrote
                        /\ j.wrote => MayWrite(j.caller, j.op)
    BY DEF ChangesAreAudited
  <2> QED
    BY Zenon DEF JobInv
<1> QED
  BY <1>1, InvAlways, PTL

(* An edit leaves alone the columns it does not name, whatever was written *)
(* between its read and its write: always the newer ones, and the ones it  *)
(* writes back when nobody else wrote the row meanwhile.                   *)
THEOREM EditsAlwaysKeepOthers == Spec => EditsKeepOthers
<1> DEFINE Kept == \A c \in Calls :
             job[c].pc = "write" /\ job'[c].wrote =>
               \A x \in Columns \ DOMAIN job[c].edit.col :
                 x \in NamedOnly \/ job[c].seen = row => row'.col[x] = row.col[x]
<1>1. ASSUME TypeOK, JobInv, [Next]_vars PROVE Kept
  <2> SUFFICES ASSUME NEW c \in Calls, job[c].pc = "write", job'[c].wrote,
                      NEW x \in Columns, x \notin DOMAIN job[c].edit.col,
                      x \in NamedOnly \/ job[c].seen = row
               PROVE  row'.col[x] = row.col[x]
    BY Zenon
  <2>1. ~job[c].wrote
    BY <1>1, StillUnwritten DEF Unwritten
  <2>2. job'[c] # job[c]
    BY <2>1, Zenon
  <2> USE <1>1 DEF TypeOK, table, Goto, Answer
  <2>3. ASSUME NEW d \in Calls, NEW k \in Callers, NEW op \in Ops, NEW e \in Edits \cup {NoEdit},
               Arrive(d, k, op, e)
        PROVE  FALSE
    <3>1. PICK pc \in Begun, answer \in {"none", "refused"} : Becomes(d, k, op, e, pc, answer)
      BY <2>3, Arrived
    <3>2. d # c
      BY <2>3 DEF Arrive
    <3> QED
      BY <2>2, <3>1, <3>2 DEF Becomes
  <2>4. ASSUME NEW d \in Calls, Handle(d) PROVE d = c /\ (WriteRow(c) \/ Fail(c))
    BY <2>2, <2>4 DEF Handle, AuditDenied, AuditAllowed, AuditNotFound, SaveAudit, Fail, ReadRow, WriteRow,
                      SetStatus, DeleteProject, DeleteWebsites, ReadSourceForGoal, InsertGoal, DropGoal
  <2>5. ~Fail(c)
    <3>1. Fail(c) => job'[c].wrote = job[c].wrote
      BY ZenonT(40) DEF Fail, Job
    <3> QED
      BY <2>1, <3>1, Zenon
  <2>6. WriteRow(c)
    BY <2>2, <2>3, <2>4, <2>5 DEF Next, FindSource, Decide, Hit, Migrate, IntervalPasses, vars
  <2>7. row' = Edited(c, row, job[c].seen)
    <3>1. ASSUME row' # Edited(c, row, job[c].seen) PROVE job'[c].wrote = job[c].wrote
      <4>1. ~(DOMAIN job[c].edit.col \subseteq columns /\ row.status # "deleted")
        BY <2>6, <3>1 DEF WriteRow
      <4>2. PICK answer : job' = [job EXCEPT ![c].pc = "done", ![c].answer = answer]
        BY <2>6, <4>1 DEF WriteRow
      <4> QED
        BY <4>2, ZenonT(40) DEF Job
    <3> QED
      BY <2>1, <3>1, Zenon
  <2>8. row'.col[x] = IF x \in WrittenBack THEN job[c].seen.col[x] ELSE row.col[x]
    BY <2>7 DEF Edited
  <2> QED
    BY <2>8, ColumnsAssumption
<1> QED
  BY <1>1, InvAlways, PTL DEF Spec, EditsKeepOthers
=============================================================================
