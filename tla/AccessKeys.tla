----------------------------- MODULE AccessKeys -----------------------------
(***************************************************************************)
(* Management of access keys by the Worker's admin API: create, rotate,    *)
(* rename and revoke, the use of a key, and the purge that removes the     *)
(* keys of a deleted project or website.                                   *)
(*                                                                         *)
(* Every request is a sequence of D1 statements, one per step, so requests *)
(* interleave between two statements.  A request generates at most one     *)
(* secret, which bears its name; a key is named after the request that     *)
(* created it, and a label after the request that chose it.                *)
(***************************************************************************)
EXTENDS Naturals, FiniteSets

CONSTANTS
  Calls,        \* requests; also key ids, secrets and labels
  MaxKeys,      \* active keys a backend may have: 200
  MaxCreating,  \* bound: create requests that run at the same time
  NoKey         \* no row

ASSUME CallsAssumption == IsFiniteSet(Calls)

ASSUME KeysAssumption ==
  /\ MaxKeys \in Nat \ {0}
  /\ MaxCreating \in Nat \ {0}
  /\ NoKey \notin [secret : Calls, label : Calls, revoked : BOOLEAN]

VARIABLES
  pc,      \* where each request's handler is
  answer,  \* how it was answered
  op,      \* what it asks for
  target,  \* the key it is about
  row,     \* the row it read: updateAccessKey's `existing`
  before,  \* history: the requests already answered when it arrived
  keys     \* the access_keys table

vars == <<pc, answer, op, target, row, before, keys>>

Ops == {"none", "create", "rotate", "rename", "revoke"}
Updates == {"rotate", "rename"}
Steps == {"idle", "scope", "count", "insert", "find", "write", "mark", "audit", "done"}
Answers == {"none", "ok", "refused", "not_found", "too_many_keys", "error"}
Row == [secret : Calls, label : Calls, revoked : BOOLEAN]

Init ==
  /\ pc = [c \in Calls |-> "idle"]
  /\ answer = [c \in Calls |-> "none"]
  /\ op = [c \in Calls |-> "none"]
  /\ target = [c \in Calls |-> c]
  /\ row = [c \in Calls |-> NoKey]
  /\ before = [c \in Calls |-> {}]
  /\ keys = [k \in Calls |-> NoKey]

Active == {k \in Calls : keys[k] # NoKey /\ ~keys[k].revoked}

(* resolvePrincipal accepts key k presented with this secret.              *)
Works(k, secret) == k \in Active /\ keys[k].secret = secret

Running(c) == pc[c] \notin {"idle", "done"}

Creating == {c \in Calls : op[c] = "create" /\ Running(c)}

Goto(c, step) == pc' = [pc EXCEPT ![c] = step] /\ UNCHANGED answer

Answer(c, outcome) ==
  /\ pc' = [pc EXCEPT ![c] = "done"]
  /\ answer' = [answer EXCEPT ![c] = outcome]

(* Ids are random: one that no create request generated is never asked for *)
(* (it would be answered "not_found").                                     *)
Arrive(c, o, k) ==
  /\ pc[c] = "idle"
  /\ IF o = "create" THEN k = c /\ Cardinality(Creating) < MaxCreating
                      ELSE op[k] = "create"
  /\ op' = [op EXCEPT ![c] = o]
  /\ target' = [target EXCEPT ![c] = k]
  /\ before' = [before EXCEPT ![c] = {d \in Calls : pc[d] = "done"}]
  /\ Goto(c, IF o = "create" THEN "scope" ELSE "find")
  /\ UNCHANGED <<row, keys>>

(***************************************************************************)
(* Create.  The project and the website of the key's scope must be there,  *)
(* and the active keys fewer than the limit: two reads before the insert.  *)
(***************************************************************************)
CheckScope(c) ==
  /\ pc[c] = "scope"
  /\ Goto(c, "count") \/ Answer(c, "refused") \/ Answer(c, "not_found")
  /\ UNCHANGED <<op, target, row, before, keys>>

(* Mutant: one key too many.                                               *)
CountKeysOffByOne(c) ==
  /\ pc[c] = "count"
  /\ IF Cardinality(Active) > MaxKeys THEN Answer(c, "too_many_keys") ELSE Goto(c, "insert")
  /\ UNCHANGED <<op, target, row, before, keys>>

CountKeys(c) ==
  /\ pc[c] = "count"
  /\ IF Cardinality(Active) >= MaxKeys THEN Answer(c, "too_many_keys") ELSE Goto(c, "insert")
  /\ UNCHANGED <<op, target, row, before, keys>>

InsertKey(c) ==
  /\ pc[c] = "insert"
  /\ keys' = [keys EXCEPT ![c] = [secret |-> c, label |-> c, revoked |-> FALSE]]
  /\ Goto(c, "audit")
  /\ UNCHANGED <<op, target, row, before>>

(***************************************************************************)
(* Rotate and rename: updateAccessKey reads the row, then writes back both *)
(* columns, the one it does not change from what it read.  The write only  *)
(* touches an active row, but the answer does not depend on whether it     *)
(* touched one.                                                            *)
(***************************************************************************)
FindForUpdate(c) ==
  LET found == keys[target[c]] IN
  /\ pc[c] = "find"
  /\ op[c] \in Updates
  /\ IF target[c] \in Active
     THEN row' = [row EXCEPT ![c] = found] /\ Goto(c, "write")
     ELSE Answer(c, "not_found") /\ UNCHANGED row
  /\ UNCHANGED <<op, target, before, keys>>

(* Mutant: a rename writes the secret the key was created with.            *)
UpdatedFromFirst(c) ==
  [secret  |-> IF op[c] = "rotate" THEN c ELSE target[c],
   label   |-> IF op[c] = "rename" THEN c ELSE row[c].label,
   revoked |-> FALSE]

Updated(c) ==
  [secret  |-> IF op[c] = "rotate" THEN c ELSE row[c].secret,
   label   |-> IF op[c] = "rename" THEN c ELSE row[c].label,
   revoked |-> FALSE]

(* Mutant: the update loses its `revoked_at IS NULL`.                      *)
WriteWholeRow(c) ==
  /\ pc[c] = "write"
  /\ keys' = IF keys[target[c]] # NoKey THEN [keys EXCEPT ![target[c]] = Updated(c)] ELSE keys
  /\ Goto(c, "audit")
  /\ UNCHANGED <<op, target, row, before>>

WriteKey(c) ==
  /\ pc[c] = "write"
  /\ keys' = IF target[c] \in Active THEN [keys EXCEPT ![target[c]] = Updated(c)] ELSE keys
  /\ Goto(c, "audit")
  /\ UNCHANGED <<op, target, row, before>>

(***************************************************************************)
(* Revoke: find the row, then stamp it; a stamp that is there is kept.     *)
(***************************************************************************)
FindForRevoke(c) ==
  /\ pc[c] = "find"
  /\ op[c] = "revoke"
  /\ IF keys[target[c]] # NoKey THEN Goto(c, "mark") ELSE Answer(c, "not_found")
  /\ UNCHANGED <<op, target, row, before, keys>>

MarkRevoked(c) ==
  /\ pc[c] = "mark"
  /\ keys' = IF keys[target[c]] # NoKey
             THEN [keys EXCEPT ![target[c]].revoked = TRUE] ELSE keys
  /\ Goto(c, "audit")
  /\ UNCHANGED <<op, target, row, before>>

(* saveAdminAudit, then the answer; a new secret is only ever in an "ok".  *)
Audit(c) ==
  /\ pc[c] = "audit"
  /\ Answer(c, "ok")
  /\ UNCHANGED <<op, target, row, before, keys>>

(* A D1 call fails or the isolate is evicted: an error for the caller.     *)
Fail(c) ==
  /\ Running(c)
  /\ Answer(c, "error")
  /\ UNCHANGED <<op, target, row, before, keys>>

(* purgeDeletedRows on access_keys: the project or the website of a key's  *)
(* scope was deleted.                                                      *)
PurgeKey(k) ==
  /\ keys[k] # NoKey
  /\ keys' = [keys EXCEPT ![k] = NoKey]
  /\ UNCHANGED <<pc, answer, op, target, row, before>>

Handle(c) ==
  \/ CheckScope(c) \/ CountKeys(c) \/ InsertKey(c)
  \/ FindForUpdate(c) \/ WriteKey(c)
  \/ FindForRevoke(c) \/ MarkRevoked(c)
  \/ Audit(c) \/ Fail(c)

Next ==
  \/ \E c \in Calls : Handle(c) \/ PurgeKey(c)
  \/ \E c, k \in Calls, o \in Ops \ {"none"} : Arrive(c, o, k)

Spec == Init /\ [][Next]_vars

(***************************************************************************)
(* Properties.                                                             *)
(***************************************************************************)

(* Every variable has its type; a request between its read and its write   *)
(* holds the active row it read.                                           *)
TypeOK ==
  /\ pc \in [Calls -> Steps]
  /\ answer \in [Calls -> Answers]
  /\ op \in [Calls -> Ops]
  /\ target \in [Calls -> Calls]
  /\ row \in [Calls -> Row \cup {NoKey}]
  /\ before \in [Calls -> SUBSET Calls]
  /\ keys \in [Calls -> Row \cup {NoKey}]
  /\ \A c \in Calls : pc[c] = "write" => row[c] # NoKey

(* docs/privacy/access-keys-review.md:33 "Revoking a key is immediate and  *)
(* irreversible": no step, an update that read the row while it was active *)
(* included, changes a revoked row other than purging it.                  *)
RevokedIsFinal ==
  [][\A k \in Calls :
       keys[k] # NoKey /\ keys[k].revoked => keys'[k] \in {keys[k], NoKey}]_vars

(* ... so once a revoke was answered, no secret of that key is accepted.   *)
RevokedStaysOut ==
  \A c \in Calls : op[c] = "revoke" /\ answer[c] = "ok" =>
    \A s \in Calls : ~Works(target[c], s)

(* The limit is read before the insert, in a statement of its own: it is   *)
(* exceeded by at most the other creates that were running.                *)
CapHolds == Cardinality(Active) <= MaxKeys + MaxCreating - 1

(* A key only ever stores a secret made for it and a label given to it,    *)
(* whichever columns were written back from an older read.                 *)
OwnSecretAndLabel ==
  \A k \in Calls : keys[k] # NoKey =>
    /\ \/ keys[k].secret = k
       \/ op[keys[k].secret] = "rotate" /\ target[keys[k].secret] = k
    /\ \/ keys[k].label = k
       \/ op[keys[k].label] = "rename" /\ target[keys[k].label] = k

(* The other updates of c's key that are running or have run.              *)
OtherUpdates(c) ==
  {d \in Calls \ {c} : op[d] \in Updates /\ target[d] = target[c]}

(* No other update of the key overlaps c, and only renames come after it.  *)
Serial(c) ==
  \A d \in OtherUpdates(c) :
    d \in before[c] \/ (c \in before[d] /\ op[d] = "rename")

(* A rotation that was answered, that no other update of the key overlaps, *)
(* and that no later rotation follows, holds: the secret it handed out is  *)
(* the stored one, however many renames come after.                        *)
RotationSticks ==
  \A c \in Calls :
    op[c] = "rotate" /\ answer[c] = "ok" /\ Serial(c) /\ target[c] \in Active
    => Works(target[c], c)

=============================================================================
