-------------------------- MODULE AccessKeysProofs --------------------------
(***************************************************************************)
(* Proofs about AccessKeys, for any number of requests and any limits, and *)
(* about Manage, the pages keys and settings are changed on, for any       *)
(* projects, websites, keys and goals.                                     *)
(*                                                                         *)
(* KeyInv ties each key to the requests about it: a row exists only once   *)
(* its create request has inserted it, so a purged key never comes back;   *)
(* what an update writes back was read from the row of the same key; a     *)
(* revoke that has stamped its key left no active row behind.  StickInv    *)
(* adds what a rotation that overlaps no other update knows about the key  *)
(* and about the rows later renames have read.  CapInv counts the create   *)
(* requests that are past the check as keys already.                       *)
(*                                                                         *)
(* KeyFormInv says what the form of a key holds, with SitesInv, how the    *)
(* websites of a project are asked for; CleanInv, what is not touched in   *)
(* the form of the settings; GoalsInv, which website's goals are listed or *)
(* on their way; BusyInv, what a busy page awaits.                         *)
(***************************************************************************)
EXTENDS AccessKeys, Manage, FiniteSetTheorems, TLAPS

Inserted(k) == pc[k] \in {"audit", "done"}

OwnRow(k, r) ==
  /\ r.secret = k \/ (op[r.secret] = "rotate" /\ target[r.secret] = k)
  /\ r.label = k \/ (op[r.label] = "rename" /\ target[r.label] = k)

KeyInv ==
  /\ \A c \in Calls :
       /\ pc[c] = "idle" <=> op[c] = "none"
       /\ pc[c] \in {"scope", "count", "insert"} => op[c] = "create"
       /\ op[c] = "create" => target[c] = c
       /\ pc[c] = "write" => op[c] \in Updates
       /\ pc[c] = "mark" => op[c] = "revoke"
       /\ answer[c] # "none" => pc[c] = "done"
       /\ before[c] \subseteq {d \in Calls : pc[d] = "done"}
       /\ pc[c] \in {"write", "mark"} => Inserted(target[c])
       /\ op[c] # "create" /\ (pc[c] = "audit" \/ answer[c] = "ok") => Inserted(target[c])
       /\ op[c] = "revoke" /\ (pc[c] = "audit" \/ answer[c] = "ok") => target[c] \notin Active
       /\ pc[c] = "write" => OwnRow(target[c], row[c])
  /\ \A k \in Calls : keys[k] # NoKey => Inserted(k) /\ OwnRow(k, keys[k])

StickInv ==
  \A c \in Calls :
    op[c] = "rotate" /\ (pc[c] = "audit" \/ answer[c] = "ok") /\ Serial(c) =>
      /\ target[c] \in Active => keys[target[c]].secret = c
      /\ \A d \in OtherUpdates(c) : pc[d] = "write" => row[d].secret = c

Inserting == {c \in Calls : pc[c] = "insert"}

CapInv ==
  /\ Cardinality(Creating) <= MaxCreating
  /\ Cardinality(Active \cup Inserting) <= MaxKeys + MaxCreating - 1

(***************************************************************************)
(* Types.                                                                  *)
(***************************************************************************)
LEMMA TypeInit == Init => TypeOK
  BY KeysAssumption DEF Init, TypeOK, Steps, Answers, Ops, Row

LEMMA TypeStep == TypeOK /\ [Next]_vars => TypeOK'
<1> SUFFICES ASSUME TypeOK, [Next]_vars PROVE TypeOK'
  OBVIOUS
<1> USE DEF TypeOK, Steps, Answers, Ops, Goto, Answer
<1>1. ASSUME NEW c \in Calls, NEW k \in Calls, NEW o \in Ops \ {"none"}, Arrive(c, o, k)
      PROVE  TypeOK'
  BY <1>1 DEF Arrive
<1>2. ASSUME NEW c \in Calls, CheckScope(c) \/ CountKeys(c) PROVE TypeOK'
  BY <1>2 DEF CheckScope, CountKeys
<1>3. ASSUME NEW c \in Calls, InsertKey(c) PROVE TypeOK'
  BY <1>3 DEF InsertKey, Row
<1>4. ASSUME NEW c \in Calls, FindForUpdate(c) PROVE TypeOK'
  BY <1>4 DEF FindForUpdate, Active
<1>5. ASSUME NEW c \in Calls, WriteKey(c) PROVE TypeOK'
  <2>1. row[c] \in Row
    BY <1>5 DEF WriteKey
  <2>2. Updated(c) \in Row
    BY <2>1 DEF Updated, Row
  <2>3. keys' \in [Calls -> Row \cup {NoKey}]
    BY <1>5, <2>2 DEF WriteKey
  <2> QED
    BY <1>5, <2>3 DEF WriteKey
<1>6. ASSUME NEW c \in Calls, FindForRevoke(c) PROVE TypeOK'
  BY <1>6 DEF FindForRevoke
<1>7. ASSUME NEW c \in Calls, MarkRevoked(c) PROVE TypeOK'
  BY <1>7 DEF MarkRevoked, Row
<1>8. ASSUME NEW c \in Calls, Audit(c) \/ Fail(c) PROVE TypeOK'
  BY <1>8 DEF Audit, Fail
<1>9. ASSUME NEW k \in Calls, PurgeKey(k) PROVE TypeOK'
  BY <1>9 DEF PurgeKey
<1>10. CASE UNCHANGED vars
  BY <1>10 DEF vars
<1> QED
  BY <1>1, <1>2, <1>3, <1>4, <1>5, <1>6, <1>7, <1>8, <1>9, <1>10 DEF Next, Handle

(* Every behaviour is well typed.                                          *)
THEOREM TypeCorrect == Spec => []TypeOK
  BY TypeInit, TypeStep, PTL DEF Spec

(***************************************************************************)
(* Keys and the requests about them.                                       *)
(***************************************************************************)
LEMMA KeyInit == Init => KeyInv
  BY DEF Init, KeyInv, Inserted, OwnRow, Active, Updates

(* What becomes of the requests' own variables in a step of c: nobody      *)
(* else's program counter, operation, target or row moves.                 *)
LEMMA KeyStep == TypeOK /\ KeyInv /\ [Next]_vars => KeyInv'
<1> SUFFICES ASSUME TypeOK, KeyInv, [Next]_vars PROVE KeyInv'
  OBVIOUS
<1> USE DEF TypeOK, KeyInv, Inserted, OwnRow, Active, Goto, Answer, Updates
<1>1. ASSUME NEW c \in Calls, NEW k \in Calls, NEW o \in Ops \ {"none"}, Arrive(c, o, k)
      PROVE  KeyInv'
  BY <1>1 DEF Arrive, Row, Ops
<1>2. ASSUME NEW c \in Calls, CheckScope(c) \/ CountKeys(c) PROVE KeyInv'
  BY <1>2 DEF CheckScope, CountKeys
<1>3. ASSUME NEW c \in Calls, InsertKey(c) PROVE KeyInv'
  BY <1>3 DEF InsertKey
<1>4. ASSUME NEW c \in Calls, FindForUpdate(c) PROVE KeyInv'
  BY <1>4 DEF FindForUpdate
<1>5. ASSUME NEW c \in Calls, WriteKey(c) PROVE KeyInv'
  BY <1>5 DEF WriteKey, Updated, Row
<1>6. ASSUME NEW c \in Calls, FindForRevoke(c) PROVE KeyInv'
  BY <1>6 DEF FindForRevoke
<1>7. ASSUME NEW c \in Calls, MarkRevoked(c) PROVE KeyInv'
  BY <1>7 DEF MarkRevoked, Row
<1>8. ASSUME NEW c \in Calls, Audit(c) \/ Fail(c) PROVE KeyInv'
  BY <1>8 DEF Audit, Fail, Running
<1>9. ASSUME NEW k \in Calls, PurgeKey(k) PROVE KeyInv'
  BY <1>9 DEF PurgeKey
<1>10. CASE UNCHANGED vars
  BY <1>10 DEF vars
<1> QED
  BY <1>1, <1>2, <1>3, <1>4, <1>5, <1>6, <1>7, <1>8, <1>9, <1>10 DEF Next, Handle

(* Revoking a key is final: no later step, and in particular no update     *)
(* that read the row while it was active, changes a revoked row.           *)
THEOREM RevocationFinal == Spec => RevokedIsFinal
<1> DEFINE Final == \A k \in Calls :
             keys[k] # NoKey /\ keys[k].revoked => keys'[k] \in {keys[k], NoKey}
<1>1. ASSUME TypeOK, KeyInv, [Next]_vars PROVE Final
  <2> USE <1>1 DEF TypeOK, Goto, Answer
  <2>1. ASSUME NEW c \in Calls, InsertKey(c) PROVE Final
    BY <2>1 DEF InsertKey, KeyInv, Inserted
  <2>2. ASSUME NEW c \in Calls, WriteKey(c) PROVE Final
    BY <2>2 DEF WriteKey, Active
  <2>3. ASSUME NEW c \in Calls, MarkRevoked(c) PROVE Final
    BY <2>3 DEF MarkRevoked, Row
  <2>4. ASSUME NEW k \in Calls, PurgeKey(k) PROVE Final
    BY <2>4 DEF PurgeKey
  <2>5. ASSUME keys' = keys PROVE Final
    BY <2>5
  <2> QED
    BY <2>1, <2>2, <2>3, <2>4, <2>5
    DEF Next, Handle, Arrive, CheckScope, CountKeys, FindForUpdate, FindForRevoke, Audit,
        Fail, vars
<1> QED
  BY <1>1, TypeInit, TypeStep, KeyInit, KeyStep, PTL DEF Spec, RevokedIsFinal

(* Once a revoke was answered, no secret of the key is accepted again.     *)
THEOREM RevokedNeverWorks == Spec => []RevokedStaysOut
<1>1. TypeOK /\ KeyInv => RevokedStaysOut
  BY DEF RevokedStaysOut, KeyInv, Works
<1> QED
  BY <1>1, TypeInit, TypeStep, KeyInit, KeyStep, PTL DEF Spec

(* A key only ever stores a secret and a label that were made for it.      *)
THEOREM RowsAreOwn == Spec => []OwnSecretAndLabel
<1>1. TypeOK /\ KeyInv => OwnSecretAndLabel
  BY DEF OwnSecretAndLabel, KeyInv, OwnRow
<1> QED
  BY <1>1, TypeInit, TypeStep, KeyInit, KeyStep, PTL DEF Spec

(***************************************************************************)
(* Rotations.                                                              *)
(***************************************************************************)
LEMMA StickInit == Init => StickInv
  BY DEF Init, StickInv

(* While no update of its key overlaps c, none did before: a request joins *)
(* the updates of a key when it arrives, and stays.                        *)
LEMMA SerialBefore ==
  ASSUME TypeOK, KeyInv, [Next]_vars, NEW c \in Calls, op[c] # "none", Serial(c)'
  PROVE  Serial(c) /\ OtherUpdates(c) \subseteq OtherUpdates(c)'
<1> DEFINE Kept == \A d \in Calls : op[d] # "none" =>
             op'[d] = op[d] /\ target'[d] = target[d] /\ before'[d] = before[d]
<1>1. Kept
  <2>1. ASSUME NEW e \in Calls, NEW k \in Calls, NEW o \in Ops \ {"none"}, Arrive(e, o, k)
        PROVE  Kept
    BY <2>1 DEF Arrive, KeyInv, TypeOK
  <2>2. ASSUME UNCHANGED <<op, target, before>> PROVE Kept
    BY <2>2
  <2> QED
    BY <2>1, <2>2 DEF Next, Handle, CheckScope, CountKeys, InsertKey, FindForUpdate, WriteKey,
       FindForRevoke, MarkRevoked, Audit, Fail, PurgeKey, vars
<1>2. OtherUpdates(c) \subseteq OtherUpdates(c)'
  BY <1>1 DEF OtherUpdates, Updates
<1>3. Serial(c)
  BY <1>1, <1>2 DEF Serial, OtherUpdates, Updates
<1> QED
  BY <1>2, <1>3

LEMMA StickStep == TypeOK /\ KeyInv /\ StickInv /\ [Next]_vars => StickInv'
<1> DEFINE Rotated(c) == op[c] = "rotate" /\ (pc[c] = "audit" \/ answer[c] = "ok")
           Stuck(c) == target[c] \in Active => keys[target[c]].secret = c
           Knows(c) == \A d \in OtherUpdates(c) : pc[d] = "write" => row[d].secret = c
<1> SUFFICES ASSUME TypeOK, KeyInv, StickInv, [Next]_vars,
                    NEW c \in Calls, Rotated(c)', Serial(c)'
             PROVE  Stuck(c)' /\ Knows(c)'
  BY DEF StickInv
<1> USE DEF TypeOK, KeyInv, Goto, Answer
<1>0. /\ Serial(c)
      /\ OtherUpdates(c) \subseteq OtherUpdates(c)'
      /\ op[c] = "rotate"
  <2>1. ASSUME op[c] = "none" PROVE FALSE
    <3>1. pc[c] = "idle" /\ answer[c] = "none"
      BY <2>1 DEF Answers
    <3>2. ASSUME NEW e \in Calls, NEW k \in Calls, NEW o \in Ops \ {"none"}, Arrive(e, o, k)
          PROVE  FALSE
      BY <3>1, <3>2 DEF Arrive
    <3>3. ASSUME NEW e \in Calls, Handle(e) PROVE FALSE
      <4>1. e # c
        BY <3>1, <3>3 DEF Handle, CheckScope, CountKeys, InsertKey, FindForUpdate, WriteKey,
           FindForRevoke, MarkRevoked, Audit, Fail, Running
      <4>2. pc'[c] = pc[c] /\ answer'[c] = answer[c]
        BY <3>3, <4>1 DEF Handle, CheckScope, CountKeys, InsertKey, FindForUpdate, WriteKey,
           FindForRevoke, MarkRevoked, Audit, Fail
      <4> QED
        BY <3>1, <4>2
    <3> QED
      BY <3>1, <3>2, <3>3 DEF Next, PurgeKey, vars
  <2>2. op'[c] = op[c]
    <3>1. ASSUME NEW e \in Calls, NEW k \in Calls, NEW o \in Ops \ {"none"}, Arrive(e, o, k)
          PROVE  op'[c] = op[c]
      BY <2>1, <3>1 DEF Arrive
    <3>2. ASSUME op' = op PROVE op'[c] = op[c]
      BY <3>2
    <3> QED
      BY <3>1, <3>2 DEF Next, Handle, CheckScope, CountKeys, InsertKey, FindForUpdate, WriteKey,
         FindForRevoke, MarkRevoked, Audit, Fail, PurgeKey, vars
  <2> QED
    BY <2>1, <2>2, SerialBefore
<1>before. Rotated(c) => Stuck(c) /\ Knows(c)
  BY <1>0 DEF StickInv
<1>1. ASSUME NEW e \in Calls, NEW k \in Calls, NEW o \in Ops \ {"none"}, Arrive(e, o, k)
      PROVE  Stuck(c)' /\ Knows(c)'
  <2>1. c # e /\ Rotated(c)
    BY <1>0, <1>1 DEF Arrive
  <2>2. Stuck(c)'
    BY <1>1, <1>before, <2>1 DEF Arrive, Active
  <2>3. ASSUME NEW d \in OtherUpdates(c)', pc'[d] = "write" PROVE d \in OtherUpdates(c)
    BY <1>1, <2>1, <2>3 DEF Arrive, OtherUpdates
  <2>4. Knows(c)'
    BY <1>1, <1>before, <2>1, <2>3 DEF Arrive, OtherUpdates
  <2> QED
    BY <2>2, <2>4
<1>2. ASSUME NEW e \in Calls, CheckScope(e) \/ CountKeys(e) \/ FindForRevoke(e)
      PROVE  Stuck(c)' /\ Knows(c)'
  <2>1. Rotated(c)
    BY <1>0, <1>2 DEF CheckScope, CountKeys, FindForRevoke
  <2> QED
    BY <1>2, <1>before, <2>1 DEF CheckScope, CountKeys, FindForRevoke, Active, OtherUpdates
<1>3. ASSUME NEW e \in Calls, InsertKey(e) PROVE Stuck(c)' /\ Knows(c)'
  <2>1. Rotated(c) /\ target[c] # e
    BY <1>0, <1>3 DEF InsertKey, Inserted
  <2> QED
    BY <1>3, <1>before, <2>1 DEF InsertKey, Active, OtherUpdates
<1>4. ASSUME NEW e \in Calls, FindForUpdate(e) PROVE Stuck(c)' /\ Knows(c)'
  <2>1. Rotated(c) /\ c # e
    BY <1>0, <1>4 DEF FindForUpdate
  <2>2. Stuck(c)'
    BY <1>4, <1>before, <2>1 DEF FindForUpdate, Active
  <2>3. OtherUpdates(c)' = OtherUpdates(c)
    BY <1>4 DEF FindForUpdate, OtherUpdates
  <2>4. ASSUME NEW d \in OtherUpdates(c), pc'[d] = "write" PROVE row'[d].secret = c
    <3>1. CASE d = e
      BY <1>4, <1>before, <2>1, <2>4, <3>1 DEF FindForUpdate, OtherUpdates
    <3>2. CASE d # e
      BY <1>4, <1>before, <2>1, <2>4, <3>2 DEF FindForUpdate, OtherUpdates
    <3> QED
      BY <3>1, <3>2
  <2> QED
    BY <2>2, <2>3, <2>4
<1>5. ASSUME NEW e \in Calls, WriteKey(e) PROVE Stuck(c)' /\ Knows(c)'
  <2>1. OtherUpdates(c)' = OtherUpdates(c)
    BY <1>5 DEF WriteKey, OtherUpdates
  <2>2. CASE c = e
    <3>1. \A d \in OtherUpdates(c) : pc[d] # "write"
      BY <1>0, <1>5, <2>2 DEF WriteKey, Serial, OtherUpdates
    <3>2. Stuck(c)'
      BY <1>0, <1>5, <2>2 DEF WriteKey, Updated, Active
    <3> QED
      BY <1>5, <2>1, <2>2, <3>1, <3>2 DEF WriteKey, OtherUpdates
  <2>3. CASE c # e
    <3>1. Rotated(c)
      BY <1>0, <1>5, <2>3 DEF WriteKey
    <3>2. Knows(c)'
      BY <1>5, <1>before, <2>1, <3>1 DEF WriteKey, OtherUpdates
    <3>3. CASE target[e] # target[c]
      BY <1>5, <1>before, <3>1, <3>2, <3>3 DEF WriteKey, Active
    <3>4. CASE target[e] = target[c]
      <4>1. e \in OtherUpdates(c)
        BY <1>5, <2>3, <3>4 DEF WriteKey, OtherUpdates
      <4>2. op[e] = "rename" /\ row[e].secret = c
        BY <1>0, <1>5, <1>before, <3>1, <4>1 DEF WriteKey, Serial
      <4>3. Stuck(c)'
        BY <1>5, <3>4, <4>2 DEF WriteKey, Updated, Active
      <4> QED
        BY <3>2, <4>3
    <3> QED
      BY <3>3, <3>4
  <2> QED
    BY <2>2, <2>3
<1>6. ASSUME NEW e \in Calls, MarkRevoked(e) PROVE Stuck(c)' /\ Knows(c)'
  <2>1. Rotated(c)
    BY <1>0, <1>6 DEF MarkRevoked
  <2>2. Stuck(c)'
    BY <1>6, <1>before, <2>1 DEF MarkRevoked, Active, Row
  <2>3. Knows(c)'
    BY <1>6, <1>before, <2>1 DEF MarkRevoked, OtherUpdates
  <2> QED
    BY <2>2, <2>3
<1>7. ASSUME NEW e \in Calls, Audit(e) \/ Fail(e) PROVE Stuck(c)' /\ Knows(c)'
  <2>1. Rotated(c)
    BY <1>0, <1>7 DEF Audit, Fail
  <2> QED
    BY <1>7, <1>before, <2>1 DEF Audit, Fail, Active, OtherUpdates
<1>8. ASSUME NEW k \in Calls, PurgeKey(k) PROVE Stuck(c)' /\ Knows(c)'
  <2>1. Rotated(c)
    BY <1>8 DEF PurgeKey
  <2> QED
    BY <1>8, <1>before, <2>1 DEF PurgeKey, Active, OtherUpdates
<1>9. CASE UNCHANGED vars
  BY <1>9, <1>before DEF vars, Active, OtherUpdates
<1> QED
  BY <1>1, <1>2, <1>3, <1>4, <1>5, <1>6, <1>7, <1>8, <1>9 DEF Next, Handle

(* A rotation that overlaps no other update of its key holds until the     *)
(* next one: renames write back the secret they read, and it is this one.  *)
THEOREM RotationHolds == Spec => []RotationSticks
<1>1. TypeOK /\ KeyInv /\ StickInv => RotationSticks
  BY DEF RotationSticks, StickInv, Works, TypeOK
<1> QED
  BY <1>1, TypeInit, TypeStep, KeyInit, KeyStep, StickInit, StickStep, PTL DEF Spec

(***************************************************************************)
(* The limit on active keys.                                               *)
(***************************************************************************)
LEMMA SubsetsAreSmaller ==
  ASSUME NEW S \in SUBSET Calls, NEW T \in SUBSET S
  PROVE  /\ IsFiniteSet(S) /\ IsFiniteSet(T)
         /\ Cardinality(S) \in Nat /\ Cardinality(T) \in Nat
         /\ Cardinality(T) <= Cardinality(S)
<1>1. IsFiniteSet(S)
  BY CallsAssumption, FS_Subset
<1> QED
  BY <1>1, FS_Subset, FS_CardinalityType

LEMMA CapInit == Init => CapInv
<1> SUFFICES ASSUME Init PROVE CapInv
  OBVIOUS
<1>1. Creating = {} /\ Active = {} /\ Inserting = {}
  BY DEF Init, Creating, Running, Active, Inserting
<1> QED
  BY <1>1, FS_EmptySet, KeysAssumption DEF CapInv

(* A step that creates nothing and admits no create to the insert leaves   *)
(* no more keys, made or about to be made, than there were.                *)
LEMMA CapKept ==
  ASSUME CapInv, Creating' \subseteq Creating, Active' \cup Inserting' \subseteq Active \cup Inserting
  PROVE  CapInv'
<1>1. Creating \in SUBSET Calls /\ Active \cup Inserting \in SUBSET Calls
  BY DEF Creating, Active, Inserting
<1>2. Cardinality(Creating') <= Cardinality(Creating) /\ Cardinality(Creating') \in Nat
      /\ Cardinality(Creating) \in Nat
  BY <1>1, SubsetsAreSmaller
<1>3. /\ Cardinality(Active' \cup Inserting') <= Cardinality(Active \cup Inserting)
      /\ Cardinality(Active' \cup Inserting') \in Nat
      /\ Cardinality(Active \cup Inserting) \in Nat
  BY <1>1, SubsetsAreSmaller
<1> QED
  BY <1>2, <1>3, KeysAssumption DEF CapInv

LEMMA CapStep == TypeOK /\ KeyInv /\ CapInv /\ [Next]_vars => CapInv'
<1> SUFFICES ASSUME TypeOK, KeyInv, CapInv, [Next]_vars PROVE CapInv'
  OBVIOUS
<1> USE DEF TypeOK, Goto, Answer
<1>1. ASSUME NEW c \in Calls, NEW k \in Calls, NEW o \in Ops \ {"none"}, Arrive(c, o, k)
      PROVE  CapInv'
  <2>1. Active' \cup Inserting' \subseteq Active \cup Inserting
    BY <1>1 DEF Arrive, Active, Inserting
  <2>2. CASE o # "create"
    <3>1. Creating' \subseteq Creating
      BY <1>1, <2>2 DEF Arrive, Creating, Running
    <3> QED
      BY <2>1, <3>1, CapKept
  <2>3. CASE o = "create"
    <3>1. Creating' \subseteq Creating \cup {c} /\ Cardinality(Creating) < MaxCreating
      BY <1>1, <2>3 DEF Arrive, Creating, Running
    <3>2. Creating \cup {c} \in SUBSET Calls
      BY DEF Creating
    <3>3. IsFiniteSet(Creating) /\ Cardinality(Creating) \in Nat
      BY <3>2, SubsetsAreSmaller
    <3>4. Cardinality(Creating \cup {c}) <= Cardinality(Creating) + 1
      <4>1. Cardinality(Creating \cup {c})
              = IF c \in Creating THEN Cardinality(Creating) ELSE Cardinality(Creating) + 1
        BY <3>3, FS_AddElement, Zenon
      <4> QED
        BY <3>3, <4>1
    <3>5. Cardinality(Creating') <= MaxCreating
      BY <3>1, <3>2, <3>3, <3>4, SubsetsAreSmaller, KeysAssumption
    <3>6. /\ Cardinality(Active' \cup Inserting') <= Cardinality(Active \cup Inserting)
          /\ Cardinality(Active' \cup Inserting') \in Nat
          /\ Cardinality(Active \cup Inserting) \in Nat
      <4>1. Active \cup Inserting \in SUBSET Calls
        BY DEF Active, Inserting
      <4> QED
        BY <2>1, <4>1, SubsetsAreSmaller
    <3> QED
      BY <3>5, <3>6, KeysAssumption DEF CapInv
  <2> QED
    BY <2>2, <2>3
<1>2. ASSUME NEW c \in Calls, CountKeys(c) PROVE CapInv'
  <2>1. CASE Cardinality(Active) >= MaxKeys
    <3>1. Creating' \subseteq Creating /\ Active' = Active /\ Inserting' \subseteq Inserting
      BY <1>2, <2>1 DEF CountKeys, Creating, Running, Active, Inserting
    <3> QED
      BY <3>1, CapKept
  <2>2. CASE ~(Cardinality(Active) >= MaxKeys)
    <3>1. /\ Creating' = Creating /\ Active' = Active
          /\ Inserting' \subseteq Creating
      BY <1>2, <2>2 DEF CountKeys, Creating, Running, Active, Inserting, KeyInv
    <3>2. Creating \in SUBSET Calls /\ Active \in SUBSET Calls
      BY DEF Creating, Active
    <3>3. /\ IsFiniteSet(Inserting') /\ IsFiniteSet(Active)
          /\ Cardinality(Inserting') \in Nat /\ Cardinality(Active) \in Nat
          /\ Cardinality(Inserting') <= Cardinality(Creating)
          /\ Cardinality(Creating) \in Nat
      BY <3>1, <3>2, SubsetsAreSmaller
    <3>4. Cardinality(Active \cup Inserting') <= Cardinality(Active) + Cardinality(Inserting')
      <4>1. /\ IsFiniteSet(Active \cap Inserting')
            /\ Cardinality(Active \cap Inserting') \in Nat
        BY <3>2, SubsetsAreSmaller
      <4>2. Cardinality(Active \cup Inserting')
              = Cardinality(Active) + Cardinality(Inserting') - Cardinality(Active \cap Inserting')
        BY <3>3, FS_Union, Zenon
      <4> QED
        BY <3>3, <4>1, <4>2
    <3>5. Cardinality(Active \cup Inserting') \in Nat
      BY <3>3, FS_Union, FS_CardinalityType
    <3> QED
      BY <2>2, <3>1, <3>3, <3>4, <3>5, KeysAssumption DEF CapInv
  <2> QED
    BY <2>1, <2>2
<1>3. ASSUME NEW c \in Calls, InsertKey(c) PROVE CapInv'
  <2>1. Creating' \subseteq Creating
    BY <1>3 DEF InsertKey, Creating, Running
  <2>2. Active' \cup Inserting' \subseteq Active \cup Inserting
    BY <1>3 DEF InsertKey, Active, Inserting
  <2> QED
    BY <2>1, <2>2, CapKept
<1>4. ASSUME NEW c \in Calls, FindForUpdate(c) \/ FindForRevoke(c) \/ CheckScope(c)
             \/ Audit(c) \/ Fail(c)
      PROVE  CapInv'
  <2>1. Creating' \subseteq Creating
    BY <1>4 DEF FindForUpdate, FindForRevoke, CheckScope, Audit, Fail, Creating, Running
  <2>2. Active' \cup Inserting' \subseteq Active \cup Inserting
    BY <1>4 DEF FindForUpdate, FindForRevoke, CheckScope, Audit, Fail, Active, Inserting
  <2> QED
    BY <2>1, <2>2, CapKept
<1>5. ASSUME NEW c \in Calls, WriteKey(c) PROVE CapInv'
  <2>1. Creating' \subseteq Creating
    BY <1>5 DEF WriteKey, Creating, Running
  <2>2. Active' \cup Inserting' \subseteq Active \cup Inserting
    BY <1>5 DEF WriteKey, Active, Inserting
  <2> QED
    BY <2>1, <2>2, CapKept
<1>6. ASSUME NEW c \in Calls, MarkRevoked(c) PROVE CapInv'
  <2>1. Creating' \subseteq Creating
    BY <1>6 DEF MarkRevoked, Creating, Running
  <2>2. Active' \cup Inserting' \subseteq Active \cup Inserting
    BY <1>6 DEF MarkRevoked, Active, Inserting, Row
  <2> QED
    BY <2>1, <2>2, CapKept
<1>7. ASSUME NEW k \in Calls, PurgeKey(k) PROVE CapInv'
  <2>1. Creating' \subseteq Creating /\ Active' \cup Inserting' \subseteq Active \cup Inserting
    BY <1>7 DEF PurgeKey, Creating, Running, Active, Inserting
  <2> QED
    BY <2>1, CapKept
<1>8. CASE UNCHANGED vars
  BY <1>8 DEF vars, CapInv, Creating, Running, Active, Inserting
<1> QED
  BY <1>1, <1>2, <1>3, <1>4, <1>5, <1>6, <1>7, <1>8 DEF Next, Handle

(* However create requests interleave, the active keys exceed the limit by *)
(* at most the other creates that can run at the same time.                *)
THEOREM KeysAreCapped == Spec => []CapHolds
<1>1. CapInv => CapHolds
  <2> SUFFICES ASSUME CapInv PROVE CapHolds
    OBVIOUS
  <2>1. Active \cup Inserting \in SUBSET Calls
    BY DEF Active, Inserting
  <2>2. /\ Cardinality(Active) <= Cardinality(Active \cup Inserting)
        /\ Cardinality(Active) \in Nat /\ Cardinality(Active \cup Inserting) \in Nat
    BY <2>1, SubsetsAreSmaller
  <2> QED
    BY <2>2, KeysAssumption DEF CapInv, CapHolds
<1> QED
  BY <1>1, TypeInit, TypeStep, KeyInit, KeyStep, CapInit, CapStep, PTL DEF Spec

-----------------------------------------------------------------------------
(* Manage: types.                                                          *)

LEMMA AskTyped ==
  ASSUME NEW o, NEW of, About(o, of)
  PROVE  Typed(Post(o, of))
BY DEF Typed, Post

LEMMA AnsweredTyped ==
  ASSUME NEW w, Typed(w), NEW got, Gives(w.op, got)
  PROVE  Typed(Answered(w, got))
BY DEF Typed, Answered

LEMMA OrphanTyped ==
  ASSUME NEW w, Typed(w)
  PROVE  Typed(Orphan(w))
BY DEF Typed, Orphan

LEMMA DroppedTyped ==
  ASSUME NEW ws, \A w \in ws : Typed(w)
  PROVE  \A w \in Dropped(ws) : Typed(w)
BY OrphanTyped DEF Dropped

LEMMA NeededTyped ==
  ASSUME NEW a \in Access
  PROVE  Needed(a) \in Access /\ \A w \in AskSites(a) : Typed(w)
<1>1. Needed(a) \in Access
  <2> DEFINE sites == [p \in Projects |-> IF p \in Unnamed(a) THEN "loading" ELSE a.sites[p]]
  <2>1. sites \in [Projects -> {"unasked", "loading", "loaded", "error"}]
    BY DEF Access
  <2> HIDE DEF sites
  <2>2. [a EXCEPT !.sites = sites] \in Access
    BY <2>1 DEF Access
  <2> QED BY <2>2 DEF Needed, sites
<1>2. \A p \in Unnamed(a) : About("sites", [project |-> p])
  BY DEF Unnamed, About
<1> QED BY <1>1, <1>2, AskTyped DEF AskSites

LEMMA NewAccessTyped ==
  ASSUME NEW pg \in Pages, NEW p \in Projects
  PROVE  NewAccess(pg, p) \in Access
BY DEF NewAccess, Access, Pages, Nowhere, Kinds

LEMMA OpenedTyped ==
  ASSUME NEW pg \in Pages, NEW p \in Projects
  PROVE  Opened(pg, p) \in Access /\ \A w \in Loads(pg, p) : Typed(w)
<1>1. NewAccess(pg, p) \in Access
  BY NewAccessTyped
<1>2. Opened(pg, p) \in Access
  BY <1>1, NeededTyped DEF Opened
<1>3. CASE pg.at = "keys"
  <2>1. About("keys", [ends |-> FALSE])
    BY DEF About
  <2> QED BY <1>1, <1>2, <1>3, <2>1, AskTyped, NeededTyped DEF Loads
<1>4. CASE pg.at = "site"
  <2>1. About("goals", [project |-> p, site |-> pg.site])
    BY <1>4 DEF About, Pages, Nowhere
  <2> QED BY <1>2, <1>4, <2>1, AskTyped DEF Loads
<1> QED BY <1>2, <1>3, <1>4 DEF Loads

LEMMA NewFormTyped ==
  ASSUME NEW pg \in Pages, NEW from \in Settings
  PROVE  NewForm(pg, from) \in Form
<1>1. pg.at = "edit" => pg.site \in Sites
  BY DEF Pages, Nowhere
<1> QED BY <1>1 DEF NewForm, Form, Settings

LEMMA NewPanelTyped == NewPanel \in Panel
BY DEF NewPanel, Panel

LEMMA ManageTypeInit == ManageInit => ManageTypeOK
<1> SUFFICES ASSUME ManageInit PROVE ManageTypeOK
  OBVIOUS
<1>1. stored \in Settings /\ listed \in Settings
  BY DEF ManageInit, Settings
<1>2. issued \in [KeyIds -> Key]
  BY DEF ManageInit, Unissued, Key
<1>3. page \in Pages /\ project \in Projects /\ listOf \in Projects
  BY DEF ManageInit
<1>4. access \in Access /\ form \in Form /\ panel \in Panel /\ \A w \in sent : Typed(w)
  BY <1>1, <1>3, OpenedTyped, NewFormTyped, NewPanelTyped DEF ManageInit
<1>5. acts \in 0..MaxActs /\ failures \in 0..MaxFailures
  BY ManageAssumption DEF ManageInit
<1> QED BY <1>1, <1>2, <1>3, <1>4, <1>5 DEF ManageInit, ManageTypeOK

LEMMA ActTyped ==
  ASSUME ManageTypeOK, Act
  PROVE  acts' \in 0..MaxActs
BY ManageAssumption DEF ManageTypeOK, Act

ScreenOK ==
  /\ project \in Projects /\ page \in Pages
  /\ access \in Access /\ form \in Form /\ panel \in Panel
  /\ \A w \in sent : Typed(w)
  /\ strayed \in BOOLEAN

LEMMA ShowTyped ==
  ASSUME NEW pg \in Pages, NEW p \in Projects, NEW from \in Settings,
         NEW rest, \A w \in rest : Typed(w), Show(pg, p, from, rest)
  PROVE  ScreenOK'
<1>1. page' \in Pages /\ project' \in Projects /\ strayed' \in BOOLEAN
  BY DEF Show
<1>2. access' \in Access /\ form' \in Form /\ panel' \in Panel
  BY OpenedTyped, NewFormTyped, NewPanelTyped DEF Show
<1>3. \A w \in sent' : Typed(w)
  BY OpenedTyped, DroppedTyped DEF Show
<1> QED BY <1>1, <1>2, <1>3 DEF ScreenOK

LEMMA BecomeTyped ==
  ASSUME ManageTypeOK, NEW pg \in Pages, NEW rest, \A w \in rest : Typed(w), Become(pg, rest)
  PROVE  ScreenOK'
<1> USE DEF ManageTypeOK
<1>1. page' \in Pages /\ project' \in Projects /\ strayed' \in BOOLEAN /\ access' \in Access
  BY DEF Become
<1>2. form' \in Form
  BY NewFormTyped DEF Become
<1>3. panel' \in Panel
  BY DEF Become, Panel
<1>4. \A w \in sent' : Typed(w)
  BY OpenedTyped, DroppedTyped DEF Become, Remaining
<1> QED BY <1>1, <1>2, <1>3, <1>4 DEF ScreenOK

LEMMA HoldsTyped ==
  ASSUME NEW a \in Access, NEW rest, \A w \in rest : Typed(w), Holds(a, rest)
  PROVE  access' \in Access /\ \A w \in sent' : Typed(w)
BY NeededTyped DEF Holds

(* What the person does leaves the backend, the list but for the project   *)
(* chosen, and the histories.                                              *)
LEMMA MovingTyped ==
  ASSUME ManageTypeOK, Moving
  PROVE  ManageTypeOK'
<1> USE DEF ManageTypeOK
<1>0. Nowhere \in Pages
  BY DEF Pages
<1>1. ASSUME NEW pg \in Pages, Go(pg) PROVE ManageTypeOK'
  <2>1. ScreenOK'
    BY <1>1, ShowTyped DEF Go
  <2> QED BY <1>1, <2>1, ActTyped DEF Go, ScreenOK, backend, list
<1>2. ASSUME NEW p \in Projects, ChooseTop(p) PROVE ManageTypeOK'
  <2>1. CASE page = [at |-> "keys", site |-> Nil]
    <3>1. ForProject(access, p) \in Access
      BY DEF ForProject, Access
    <3>2. access' \in Access /\ \A w \in sent' : Typed(w)
      BY <1>2, <2>1, <3>1, HoldsTyped DEF ChooseTop
    <3> QED BY <1>2, <2>1, <3>2, ActTyped DEF ChooseTop, backend
  <2>2. CASE page # [at |-> "keys", site |-> Nil]
    <3>1. ScreenOK'
      BY <1>0, <1>2, <2>2, ShowTyped DEF ChooseTop
    <3> QED BY <1>2, <3>1, ActTyped DEF ChooseTop, ScreenOK, backend
  <2> QED BY <2>1, <2>2
<1>3. ASSUME NEW s \in Sites, Jump(s) PROVE ManageTypeOK'
  <2>1. [at |-> page.at, site |-> s] \in Pages
    BY <1>3 DEF Jump, Pages, Nowhere
  <2>2. ScreenOK'
    BY <1>3, <2>1, BecomeTyped DEF Jump
  <2> QED BY <1>3, <2>2, ActTyped DEF Jump, ScreenOK, backend, list
<1> QED BY <1>1, <1>2, <1>3 DEF Moving

LEMMA TouchTyped ==
  ASSUME ManageTypeOK, NEW a \in Access, NEW requests, \A w \in requests : Typed(w), Touch(a, requests)
  PROVE  ManageTypeOK'
<1> USE DEF ManageTypeOK
<1>1. access' \in Access /\ \A w \in sent' : Typed(w)
  BY HoldsTyped DEF Touch
<1> QED BY <1>1, ActTyped DEF Touch, backend, list

LEMMA ChangeTyped ==
  ASSUME ManageTypeOK, NEW o, NEW of, About(o, of), Change(o, of)
  PROVE  ManageTypeOK'
<1>1. [access EXCEPT !.busy = TRUE] \in Access
  BY DEF ManageTypeOK, Access
<1> QED BY <1>1, AskTyped, TouchTyped DEF Change

LEMMA AccessPageTyped ==
  ASSUME ManageTypeOK, AccessPage
  PROVE  ManageTypeOK'
<1> USE DEF ManageTypeOK
<1>1. CASE AddKey
  <2>1. [access EXCEPT !.creating = TRUE, !.shown = Nil] \in Access
    BY DEF Access
  <2> QED BY <1>1, <2>1, TouchTyped DEF AddKey
<1>2. CASE CancelKey
  <2>1. [access EXCEPT !.creating = FALSE] \in Access
    BY DEF Access
  <2> QED BY <1>2, <2>1, TouchTyped DEF CancelKey
<1>3. CASE CreateKey
  <2>1. About("create", [scope |-> For(access.website), said |-> For(Chosen), strayed |-> strayed])
    BY DEF About, KeyOps, For, Access
  <2> QED BY <1>3, <2>1, ChangeTyped DEF CreateKey
<1>4. CASE Dismiss
  <2>1. [access EXCEPT !.shown = Nil] \in Access
    BY DEF Access
  <2> QED BY <1>4, <2>1, TouchTyped DEF Dismiss
<1>5. ASSUME NEW kind \in {"everything", "project", "website"}, ChooseKind(kind) PROVE ManageTypeOK'
  <2>1. [access EXCEPT !.kind = kind] \in Access
    BY DEF Access, Kinds
  <2> QED BY <1>5, <2>1, TouchTyped DEF ChooseKind, Fill
<1>6. ASSUME NEW p \in Projects, ChooseProject(p) PROVE ManageTypeOK'
  <2>1. ForProject(access, p) \in Access
    BY DEF ForProject, Access
  <2> QED BY <1>6, <2>1, TouchTyped DEF ChooseProject, Fill
<1>7. ASSUME NEW s \in Sites, ChooseWebsite(s) PROVE ManageTypeOK'
  <2>1. [access EXCEPT !.website = s] \in Access
    BY DEF Access
  <2> QED BY <1>7, <2>1, TouchTyped DEF ChooseWebsite, Fill
<1>8. ASSUME NEW o \in {"rotate", "rename", "revoke"}, NEW k \in KeyIds, ChangeKey(o, k) PROVE ManageTypeOK'
  <2>1. About(o, [key |-> k])
    BY DEF About, KeyOps
  <2> QED BY <1>8, <2>1, ChangeTyped DEF ChangeKey
<1> QED BY <1>1, <1>2, <1>3, <1>4, <1>5, <1>6, <1>7, <1>8 DEF AccessPage

LEMMA OnHubTyped ==
  ASSUME ManageTypeOK, NEW p \in Panel, NEW w, Typed(w), OnHub(p, w)
  PROVE  ManageTypeOK'
BY ActTyped DEF ManageTypeOK, OnHub, backend, list

LEMMA WebsitePagesTyped ==
  ASSUME ManageTypeOK, WebsitePages
  PROVE  ManageTypeOK'
<1> USE DEF ManageTypeOK
<1>1. ASSUME NEW f \in Fields, Type(f) PROVE ManageTypeOK'
  <2>1. form.draft[f] \in 0..1 /\ 1 - form.draft[f] \in 0..1
    BY DEF Form
  <2>2. [form.draft EXCEPT ![f] = 1 - form.draft[f]] \in [Fields -> 0..1]
    BY <2>1 DEF Form
  <2>3. form' \in Form
    BY <1>1, <2>2 DEF Type, Form
  <2> QED BY <1>1, <2>3, ActTyped DEF Type, backend, list
<1>2. CASE Save
  <2>1. page.site \in Sites
    BY <1>2 DEF Save, AtForm, Pages, Nowhere
  <2> DEFINE of == [project |-> project, site |-> page.site, fields |-> Body(page.site),
                    draft |-> form.draft, touched |-> form.touched, under |-> form.under]
  <2>2. About("save", of)
    BY <2>1 DEF About, Body, Differs, Fields, Form
  <2>3. form' \in Form
    BY <1>2 DEF Save, Form
  <2>4. \A w \in sent' : Typed(w)
    BY <1>2, <2>2, AskTyped DEF Save
  <2> QED BY <1>2, <2>3, <2>4, ActTyped DEF Save, backend, list
<1>3. page.at = "site" => page.site \in Sites
  BY DEF Pages, Nowhere
<1>4. CASE Toggle
  <2>1. [panel EXCEPT !.toggling = TRUE] \in Panel
    BY DEF Panel
  <2>2. About("toggle", Here)
    BY <1>3, <1>4 DEF Toggle, OnHub, About, Here
  <2> QED BY <1>4, <2>1, <2>2, AskTyped, OnHubTyped DEF Toggle
<1>5. CASE RetryGoals
  <2>1. [panel EXCEPT !.list = {}, !.failed = FALSE] \in Panel
    BY DEF Panel
  <2>2. About("goals", Here)
    BY <1>3, <1>5 DEF RetryGoals, OnHub, About, Here
  <2> QED BY <1>5, <2>1, <2>2, AskTyped, OnHubTyped DEF RetryGoals
<1>6. [panel EXCEPT !.busy = TRUE] \in Panel
  BY DEF Panel
<1>7. ASSUME NEW id \in GoalIds, AddGoal(id) PROVE ManageTypeOK'
  <2>1. About("addGoal", Goal(id))
    BY <1>3, <1>7 DEF AddGoal, OnHub, About, Goal
  <2> QED BY <1>6, <1>7, <2>1, AskTyped, OnHubTyped DEF AddGoal
<1>8. ASSUME NEW id \in GoalIds, RemoveGoal(id) PROVE ManageTypeOK'
  <2>1. About("removeGoal", Goal(id))
    BY <1>3, <1>8 DEF RemoveGoal, OnHub, About, Goal
  <2> QED BY <1>6, <1>8, <2>1, AskTyped, OnHubTyped DEF RemoveGoal
<1> QED BY <1>1, <1>2, <1>4, <1>5, <1>7, <1>8 DEF WebsitePages

LEMMA ReplyTyped ==
  ASSUME ManageTypeOK, NEW w \in sent, NEW got, Gives(w.op, got), Serve(w, got)
  PROVE  \A v \in sent' : Typed(v)
BY AnsweredTyped DEF ManageTypeOK, Serve

BackendOK == /\ stored \in Settings /\ issued \in [KeyIds -> Key] /\ goals \subseteq Goals
             /\ \A v \in sent : Typed(v)

LEMMA ReplyToTyped ==
  ASSUME ManageTypeOK, NEW w \in sent, ReplyTo(w)
  PROVE  ManageTypeOK'
<1> USE DEF ManageTypeOK
<1>0. Typed(w)
  OBVIOUS
<1>1. ASSUME Issue(w) PROVE BackendOK'
  <2>1. PICK k \in KeyIds :
          /\ issued' = [issued EXCEPT ![k] = [project |-> w.of.scope.project, website |-> w.of.scope.website,
                                              secret |-> 1, live |-> TRUE]]
          /\ Serve(w, [secret |-> <<k, 1>>])
    BY <1>1 DEF Issue
  <2>2. issued' \in [KeyIds -> Key]
    BY <1>0, <1>1, <2>1 DEF Typed, About, Issue, Key
  <2>3. Gives(w.op, [secret |-> <<k, 1>>])
    BY <1>1 DEF Issue, Gives
  <2> QED BY <1>1, <2>1, <2>2, <2>3, ReplyTyped DEF Issue, BackendOK
<1>2. ASSUME OnKey(w) PROVE BackendOK'
  <2>1. w.of.key \in KeyIds
    BY <1>0, <1>2 DEF OnKey, Typed, About
  <2>2. issued[w.of.key] \in Key
    BY <2>1
  <2>3. issued' \in [KeyIds -> Key]
    BY <1>2, <2>1, <2>2 DEF OnKey, Key
  <2>4. Gives(w.op, [secret |-> <<w.of.key, issued[w.of.key].secret + 1>>])
    BY <1>2, <2>1, <2>2 DEF OnKey, Gives, Key
  <2> QED BY <1>2, <2>3, <2>4, ReplyTyped DEF OnKey, BackendOK
<1>3. ASSUME OnGoal(w) PROVE BackendOK'
  <2>1. [site |-> w.of.site, id |-> w.of.id] \in Goals
    BY <1>0, <1>3 DEF OnGoal, Typed, About, Goals
  <2>2. Gives(w.op, Nil)
    BY <1>3 DEF OnGoal, Gives
  <2> QED BY <1>3, <2>1, <2>2, ReplyTyped DEF OnGoal, BackendOK
<1>4. ASSUME OnSettings(w) PROVE BackendOK'
  <2>1. /\ w.of.site \in Sites /\ w.of.project \in Projects
        /\ w.of.draft \in [Fields -> 0..1]
    BY <1>0, <1>4 DEF OnSettings, Typed, About
  <2>2. stored' \in Settings
    BY <1>4, <2>1 DEF OnSettings, Settings
  <2>3. \A v \in sent' : Typed(v)
    BY <1>0, <1>4, <2>1 DEF OnSettings, Typed, About
  <2> QED BY <1>4, <2>2, <2>3 DEF OnSettings, BackendOK
<1>5. ASSUME Read(w) PROVE BackendOK'
  <2>1. \A v \in sent' : Typed(v)
    <3>1. ASSUME w.op = "keys" PROVE Gives(w.op, [keys |-> {[key |-> k, live |-> issued[k].live] :
                                                  k \in {x \in KeyIds : issued[x] # Unissued}}])
      <4>1. \A k \in KeyIds : issued[k].live \in BOOLEAN
        BY DEF Key
      <4> QED BY <3>1, <4>1 DEF Gives
    <3>2. w.op = "sites" => Gives(w.op, Nil)
      BY DEF Gives
    <3>3. w.op = "goals" => Gives(w.op, [goals |-> {g \in goals : g.site = w.of.site}])
      BY DEF Gives
    <3>4. w.op \in {"toggle", "refresh"} => Gives(w.op, [settings |-> stored])
      BY DEF Gives
    <3> QED BY <1>5, <3>1, <3>2, <3>3, <3>4, ReplyTyped DEF Read
  <2> QED BY <1>5, <2>1 DEF Read, backend, BackendOK
<1>6. BackendOK'
  BY <1>1, <1>2, <1>3, <1>4, <1>5 DEF ReplyTo
<1> QED BY <1>6 DEF ReplyTo, list, shown, BackendOK

LEMMA SecretsTyped ==
  ASSUME NEW ws, \A w \in ws : Typed(w)
  PROVE  SecretsOf(ws) \subseteq KeyIds \X Nat
BY DEF SecretsOf, Typed, Gives

LEMMA SettleTyped ==
  ASSUME ManageTypeOK, NEW w \in sent, Settle(w)
  PROVE  ManageTypeOK'
<1> USE DEF ManageTypeOK
<1>0. Typed(w) /\ w.stage = "answered" /\ Gives(w.op, w.got) /\ \A v \in sent \ {w} : Typed(v)
  BY DEF Settle, Typed
<1> DEFINE RestOK == ScreenOK /\ listed \in Settings /\ listOf \in Projects
                     /\ told \subseteq KeyIds \X Nat /\ lost \subseteq KeyIds \X Nat
<1>1. CASE ArriveUnseen(w)
  <2>1. SecretsOf({w}) \subseteq KeyIds \X Nat
    BY <1>0, SecretsTyped
  <2> QED BY <1>0, <1>1, <2>1 DEF Settle, ArriveUnseen, backend, list, shown
<1>2. CASE ArriveKey(w)
  <2>1. Reveal(w) \in Access
    BY <1>0, <1>2 DEF ArriveKey, Reveal, Access, Gives
  <2>2. About("keys", [ends |-> TRUE])
    BY DEF About
  <2>3. \A v \in sent' : Typed(v)
    BY <1>0, <1>2, <2>2, AskTyped DEF ArriveKey
  <2>4. Reveal(w).shown \in (KeyIds \X Nat) \cup {Nil}
    BY <2>1 DEF Access
  <2> QED BY <1>2, <2>1, <2>3, <2>4 DEF Settle, ArriveKey, backend, list
<1>3. CASE ArriveKeys(w)
  <2>1. [access EXCEPT !.list = w.got.keys, !.busy = access.busy /\ ~w.of.ends] \in Access
    BY <1>0, <1>3 DEF ArriveKeys, Access, Gives
  <2>2. access' \in Access /\ \A v \in sent' : Typed(v)
    BY <1>0, <1>3, <2>1, HoldsTyped DEF ArriveKeys
  <2> QED BY <1>3, <2>2 DEF Settle, ArriveKeys, backend, list
<1>4. CASE ArriveSites(w)
  <2>1. access' \in Access
    BY <1>0, <1>4 DEF ArriveSites, Access
  <2> QED BY <1>0, <1>4, <2>1 DEF Settle, ArriveSites, backend, list
<1>5. CASE ArriveGoals(w)
  <2>1. panel' \in Panel
    <3>1. CASE w.op = "goals"
      BY <1>0, <1>5, <3>1 DEF ArriveGoals, Panel, Gives
    <3>2. CASE w.op = "addGoal"
      <4>1. [site |-> w.of.site, id |-> w.of.id] \in Goals
        BY <1>0, <3>2 DEF Typed, About, Goals
      <4>2. panel.list \cup {[site |-> w.of.site, id |-> w.of.id]} \subseteq Goals
        BY <4>1 DEF Panel
      <4> QED BY <1>5, <3>2, <4>2 DEF ArriveGoals, Panel
    <3>3. CASE w.op = "removeGoal"
      <4>1. {g \in panel.list : g.id # w.of.id} \subseteq Goals
        BY DEF Panel
      <4> QED BY <1>5, <3>3, <4>1 DEF ArriveGoals, Panel
    <3> QED BY <1>5, <3>1, <3>2, <3>3 DEF ArriveGoals
  <2> QED BY <1>0, <1>5, <2>1 DEF Settle, ArriveGoals, backend, list
<1>6. ASSUME w.op \in ToList
      PROVE  w.got.settings \in Settings /\ w.of.project \in Projects /\ w.of.site \in Sites
  BY <1>0, <1>6 DEF ToList, Typed, About, Gives
<1>7. CASE ArriveToggled(w)
  <2>1. ScreenOK'
    <3>1. CASE InList(w)
      <4>1. form' \in Form
        BY <1>7, <3>1 DEF ArriveToggled, Form
      <4>2. panel' \in Panel
        BY <1>7, <3>1 DEF ArriveToggled, Panel
      <4> QED BY <1>0, <1>7, <3>1, <4>1, <4>2 DEF ArriveToggled, ScreenOK
    <3>2. CASE ~InList(w)
      <4>1. Nowhere \in Pages
        BY DEF Pages
      <4> QED BY <1>0, <1>6, <1>7, <3>2, <4>1, ShowTyped DEF ArriveToggled, ToList
    <3> QED BY <3>1, <3>2
  <2> QED BY <1>6, <1>7, <2>1 DEF Settle, ArriveToggled, Relist, ToList, ScreenOK, backend
<1>8. CASE ArriveSaved(w)
  <2> DEFINE hub == [at |-> "site", site |-> w.of.site]
  <2>0. hub \in Pages
    BY <1>6, <1>8 DEF ArriveSaved, ToList, Pages
  <2>1. ScreenOK'
    <3>1. CASE page = hub
      BY <1>0, <1>8, <3>1 DEF ArriveSaved, ScreenOK, shown
    <3>2. CASE page # hub /\ page.at = "site" /\ InList(w)
      BY <1>0, <1>8, <2>0, <3>2, BecomeTyped DEF ArriveSaved
    <3>3. CASE page # hub /\ ~(page.at = "site" /\ InList(w))
      BY <1>0, <1>6, <1>8, <2>0, <3>3, ShowTyped DEF ArriveSaved, ToList
    <3> QED BY <3>1, <3>2, <3>3
  <2> QED BY <1>6, <1>8, <2>1 DEF Settle, ArriveSaved, Relist, ToList, ScreenOK, backend
<1> QED BY <1>1, <1>2, <1>3, <1>4, <1>5, <1>7, <1>8 DEF Settle

LEMMA FailTyped ==
  ASSUME ManageTypeOK, NEW w \in sent, FailRequest(w)
  PROVE  ManageTypeOK'
<1> USE DEF ManageTypeOK
<1>1. Typed(w)
  OBVIOUS
<1>2. failures' \in 0..MaxFailures
  BY ManageAssumption DEF FailRequest
<1>3. lost' \subseteq KeyIds \X Nat
  BY <1>1, SecretsTyped DEF FailRequest
<1>4. access' \in Access
  BY <1>1 DEF FailRequest, FreedKeys, Access
<1>5. panel' \in Panel
  BY <1>1 DEF FailRequest, FreedPanel, Panel
<1>6. form' \in Form
  BY DEF FailRequest, Form
<1> QED BY <1>2, <1>3, <1>4, <1>5, <1>6 DEF FailRequest, backend, list

LEMMA OthersTyped ==
  ASSUME ManageTypeOK, Others
  PROVE  ManageTypeOK'
<1> USE DEF ManageTypeOK
<1>1. ASSUME NEW s \in Sites, NEW f \in Fields, stored' = [stored EXCEPT ![s][f] = 1 - @],
             UNCHANGED <<issued, lost>>
      PROVE  ManageTypeOK'
  <2>1. stored' \in Settings
    BY <1>1 DEF Settings
  <2> QED BY <1>1, <2>1, ActTyped DEF Others, list, shown
<1>2. ASSUME NEW k \in KeyIds, NEW stays \in BOOLEAN,
             issued' = [issued EXCEPT ![k].secret = @ + 1, ![k].live = stays],
             lost' = lost \cup {<<k, issued[k].secret + 1>>}, UNCHANGED stored
      PROVE  ManageTypeOK'
  <2>1. issued[k] \in Key
    OBVIOUS
  <2>2. issued[k].secret + 1 \in Nat
    BY <2>1 DEF Key
  <2>3. issued' \in [KeyIds -> Key]
    BY <1>2, <2>1, <2>2 DEF Key
  <2>4. lost' \subseteq KeyIds \X Nat
    BY <1>2, <2>2
  <2> QED BY <1>2, <2>3, <2>4, ActTyped DEF Others, list, shown
<1> QED BY <1>1, <1>2 DEF Others

LEMMA ManageTypeStep == ManageTypeOK /\ [ManageNext]_manageVars => ManageTypeOK'
<1> SUFFICES ASSUME ManageTypeOK, [ManageNext]_manageVars PROVE ManageTypeOK'
  OBVIOUS
<1>1. CASE UNCHANGED manageVars
  BY <1>1 DEF manageVars, ManageTypeOK
<1> QED BY <1>1, MovingTyped, AccessPageTyped, WebsitePagesTyped, OthersTyped, ReplyToTyped, SettleTyped,
           FailTyped DEF ManageNext

(* Every variable of the pages keeps its type.                             *)
THEOREM ManageTypeCorrect == ManageSpec => []ManageTypeOK
<1>1. ManageInit => ManageTypeOK
  BY ManageTypeInit
<1>2. ManageTypeOK /\ [ManageNext]_manageVars => ManageTypeOK'
  BY ManageTypeStep
<1> QED BY <1>1, <1>2, PTL DEF ManageSpec

-----------------------------------------------------------------------------
(* Manage: the shape of the steps.                                         *)

(* What is pressed on the keys page asks for nothing, or frees its buttons *)
(* only when that ends.                                                    *)
Pressed(a, requests) ==
  \/ requests = {} /\ a.busy = access.busy
  \/ \E o \in KeyOps : \E of : ~access.busy /\ a = [access EXCEPT !.busy = TRUE] /\ requests = {Post(o, of)}

LEMMA PressedShape ==
  ASSUME ManageTypeOK, AccessPage
  PROVE  \E a \in Access : \E requests : /\ Touch(a, requests) /\ a.sites = access.sites
                                          /\ Pressed(a, requests)
<1> USE DEF ManageTypeOK
<1>1. ASSUME NEW a \in Access, a.sites = access.sites, a.busy = access.busy, Touch(a, {})
      PROVE  \E b \in Access : \E requests : /\ Touch(b, requests) /\ b.sites = access.sites
                                              /\ Pressed(b, requests)
  BY <1>1 DEF Pressed
<1>2. CASE AddKey
  <2>1. [access EXCEPT !.creating = TRUE, !.shown = Nil] \in Access
    BY DEF Access
  <2> QED BY <1>1, <1>2, <2>1 DEF AddKey, Access
<1>3. CASE CancelKey
  <2>1. [access EXCEPT !.creating = FALSE] \in Access
    BY DEF Access
  <2> QED BY <1>1, <1>3, <2>1 DEF CancelKey, Access
<1>4. CASE Dismiss
  <2>1. [access EXCEPT !.shown = Nil] \in Access
    BY DEF Access
  <2> QED BY <1>1, <1>4, <2>1 DEF Dismiss, Access
<1>5. ASSUME NEW kind \in {"everything", "project", "website"}, ChooseKind(kind)
      PROVE  Touch([access EXCEPT !.kind = kind], {}) /\ [access EXCEPT !.kind = kind] \in Access
  BY <1>5 DEF ChooseKind, Fill, Access, Kinds
<1>6. ASSUME NEW p \in Projects, ChooseProject(p)
      PROVE  Touch(ForProject(access, p), {}) /\ ForProject(access, p) \in Access
  BY <1>6 DEF ChooseProject, Fill, ForProject, Access
<1>7. ASSUME NEW s \in Sites, ChooseWebsite(s)
      PROVE  Touch([access EXCEPT !.website = s], {}) /\ [access EXCEPT !.website = s] \in Access
  BY <1>7 DEF ChooseWebsite, Fill, Access
<1>8. ASSUME NEW o \in KeyOps, NEW of, Change(o, of)
      PROVE  \E b \in Access : \E requests : /\ Touch(b, requests) /\ b.sites = access.sites
                                              /\ Pressed(b, requests)
  <2>1. [access EXCEPT !.busy = TRUE] \in Access /\ [access EXCEPT !.busy = TRUE].sites = access.sites
    BY DEF Access
  <2> QED BY <1>8, <2>1 DEF Change, Pressed
<1>9. \A kind, s : /\ [access EXCEPT !.kind = kind].sites = access.sites
                   /\ [access EXCEPT !.kind = kind].busy = access.busy
                   /\ [access EXCEPT !.website = s].sites = access.sites
                   /\ [access EXCEPT !.website = s].busy = access.busy
  BY DEF Access
<1>10. \A p : ForProject(access, p).sites = access.sites /\ ForProject(access, p).busy = access.busy
  BY DEF ForProject, Access
<1>11. CASE CreateKey
  BY <1>8, <1>11 DEF CreateKey, KeyOps
<1>12. ASSUME NEW o \in {"rotate", "rename", "revoke"}, NEW k \in KeyIds, ChangeKey(o, k)
       PROVE  Change(o, [key |-> k]) /\ o \in KeyOps
  BY <1>12 DEF ChangeKey, KeyOps
<1>13. CASE \E kind \in {"everything", "project", "website"} : ChooseKind(kind)
  BY <1>1, <1>5, <1>9, <1>13
<1>14. CASE \E p \in Projects : ChooseProject(p)
  BY <1>1, <1>6, <1>10, <1>14
<1>15. CASE \E s \in Sites : ChooseWebsite(s)
  BY <1>1, <1>7, <1>9, <1>15
<1>16. CASE \E o \in {"rotate", "rename", "revoke"}, k \in KeyIds : ChangeKey(o, k)
  BY <1>8, <1>12, <1>16
<1> QED BY <1>2, <1>3, <1>4, <1>11, <1>13, <1>14, <1>15, <1>16 DEF AccessPage

(* On a website's pages one request is added, or a field is typed.         *)
LEMMA WebsiteShape ==
  ASSUME ManageTypeOK, WebsitePages
  PROVE  /\ UNCHANGED <<stored, issued, goals, listed, listOf, project, page, access, told, lost, strayed>>
         /\ \/ AtForm /\ panel' = panel
            \/ page.at = "site" /\ form' = form
         /\ \/ sent' = sent /\ form'.busy = form.busy
            \/ \E o \in {"save", "toggle", "goals", "addGoal", "removeGoal"} :
                 \E of : sent' = sent \cup {Post(o, of)}
<1> USE DEF ManageTypeOK, backend, list
<1>1. ASSUME NEW f \in Fields, Type(f)
      PROVE  sent' = sent /\ form'.busy = form.busy
  BY <1>1 DEF Type, Form
<1>2. CASE Save
  BY <1>2 DEF Save
<1>3. ASSUME NEW p, NEW o \in {"toggle", "goals", "addGoal", "removeGoal"}, NEW of, OnHub(p, Post(o, of))
      PROVE  /\ UNCHANGED <<stored, issued, goals, listed, listOf, project, page, access, form,
                            told, lost, strayed>>
             /\ page.at = "site" /\ sent' = sent \cup {Post(o, of)}
  BY <1>3 DEF OnHub
<1>4. CASE \E f \in Fields : Type(f)
  BY <1>1, <1>4 DEF Type
<1>5. CASE Toggle
  BY <1>3, <1>5 DEF Toggle
<1>6. CASE RetryGoals
  BY <1>3, <1>6 DEF RetryGoals
<1>7. CASE \E id \in GoalIds : AddGoal(id) \/ RemoveGoal(id)
  BY <1>3, <1>7 DEF AddGoal, RemoveGoal
<1> QED BY <1>2, <1>4, <1>5, <1>6, <1>7 DEF WebsitePages

(* The answer stands where the request stood; a save goes on as a refresh. *)
LEMMA ReplyShape ==
  ASSUME ManageTypeOK, NEW w \in sent, ReplyTo(w)
  PROVE  /\ UNCHANGED <<listed, listOf, project, page, access, form, panel, strayed, told, lost>>
         /\ w.stage = "sent"
         /\ \/ w.op # "save" /\ \E got : sent' = (sent \ {w}) \cup {Answered(w, got)}
            \/ /\ w.op = "save"
               /\ \E v : sent' = (sent \ {w}) \cup {v} /\ v.op = "refresh" /\ v.alive = w.alive
<1> USE DEF ReplyTo, list, shown
<1>1. CASE Issue(w)
  BY <1>1 DEF Issue, Serve
<1>2. CASE OnKey(w)
  BY <1>2 DEF OnKey, Serve
<1>3. CASE OnGoal(w)
  BY <1>3 DEF OnGoal, Serve
<1>4. CASE OnSettings(w)
  <2> DEFINE v == [op |-> "refresh", of |-> [project |-> w.of.project, site |-> w.of.site],
                   alive |-> w.alive, stage |-> "sent", got |-> Nil]
  <2>1. sent' = (sent \ {w}) \cup {v} /\ v.op = "refresh" /\ v.alive = w.alive /\ w.op = "save"
    BY <1>4 DEF OnSettings
  <2> QED BY <2>1
<1>5. CASE Read(w)
  BY <1>5 DEF Read, Serve
<1> QED BY <1>1, <1>2, <1>3, <1>4, <1>5

-----------------------------------------------------------------------------
(* Manage: the websites of a project are asked for once.                   *)

(* What is read for a page is dropped with it; the websites of a project   *)
(* are "loading" while they are asked for, and asked for once.             *)
SitesFine(a, ws) ==
  /\ \A w \in ws : w.op \in Reads => w.alive
  /\ \A w \in ws : w.op = "sites" => a.sites[w.of.project] = "loading"
  /\ \A v, w \in ws : v.op = "sites" /\ w.op = "sites" /\ v.of.project = w.of.project => v = w
SitesInv == SitesFine(access, sent)

LEMMA AskedFine ==
  ASSUME NEW a \in Access, NEW ws, \A w \in ws : w.op = "sites" => Typed(w), SitesFine(a, ws)
  PROVE  SitesFine(Needed(a), ws \cup AskSites(a))
<1>1. \A p \in Projects : Needed(a).sites[p] = IF p \in Unnamed(a) THEN "loading" ELSE a.sites[p]
  BY DEF Needed, Access
<1>2. \A w \in AskSites(a) : /\ w.op = "sites" /\ w.alive /\ w.of.project \in Unnamed(a)
                             /\ w = Post("sites", [project |-> w.of.project])
  BY DEF AskSites, Post
<1>3. \A p \in Unnamed(a) : p \in Projects /\ a.sites[p] = "unasked"
  BY DEF Unnamed
<1>4. \A w \in ws : w.op = "sites" => /\ w.of.project \in Projects /\ a.sites[w.of.project] = "loading"
                                      /\ w.of.project \notin Unnamed(a)
  BY <1>3 DEF SitesFine, Typed, About
<1>5. \A w \in ws \cup AskSites(a) : w.op \in Reads => w.alive
  BY <1>2 DEF SitesFine
<1>6. \A w \in ws \cup AskSites(a) : w.op = "sites" => Needed(a).sites[w.of.project] = "loading"
  BY <1>1, <1>2, <1>3, <1>4
<1>7. \A v, w \in ws \cup AskSites(a) :
        v.op = "sites" /\ w.op = "sites" /\ v.of.project = w.of.project => v = w
  <2>1. \A v, w \in ws : v.op = "sites" /\ w.op = "sites" /\ v.of.project = w.of.project => v = w
    BY DEF SitesFine
  <2> QED BY <1>2, <1>4, <2>1
<1> QED BY <1>5, <1>6, <1>7 DEF SitesFine

LEMMA KeptFine ==
  ASSUME NEW a, NEW b, b.sites = a.sites, NEW ws, NEW vs, SitesFine(a, ws),
         \A v \in vs : v \in ws \/ (v.op # "sites" /\ (v.op \in Reads => v.alive))
  PROVE  SitesFine(b, vs)
BY DEF SitesFine

LEMMA DroppedOps ==
  ASSUME NEW ws
  PROVE  \A v \in Dropped(ws) : v.op \notin Reads /\ v.alive = FALSE
BY DEF Dropped, Orphan

LEMMA OpenedFine ==
  ASSUME NEW pg \in Pages, NEW p \in Projects, NEW rest, \A w \in rest : Typed(w)
  PROVE  SitesFine(Opened(pg, p), Dropped(rest) \cup Loads(pg, p))
<1>1. \A v \in Dropped(rest) : v.op # "sites" /\ v.op \notin Reads
  BY DroppedOps DEF Reads
<1>2. CASE pg.at = "keys"
  <2> DEFINE ws == Dropped(rest) \cup {Post("keys", [ends |-> FALSE])}
             a == NewAccess(pg, p)
  <2>1. Post("keys", [ends |-> FALSE]).alive /\ Post("keys", [ends |-> FALSE]).op = "keys"
    BY DEF Post
  <2>2. SitesFine(a, ws)
    BY <1>1, <2>1 DEF SitesFine
  <2>3. \A w \in ws : Typed(w)
    <3>1. About("keys", [ends |-> FALSE])
      BY DEF About
    <3> QED BY <3>1, AskTyped, DroppedTyped
  <2>4. SitesFine(Needed(a), ws \cup AskSites(a))
    BY <2>2, <2>3, AskedFine, NewAccessTyped
  <2>5. Opened(pg, p) = Needed(a) /\ Dropped(rest) \cup Loads(pg, p) = ws \cup AskSites(a)
    BY <1>2 DEF Opened, Loads
  <2> QED BY <2>4, <2>5
<1>3. CASE pg.at # "keys"
  <2>1. \A w \in Loads(pg, p) : w.op = "goals" /\ w.alive
    BY <1>3 DEF Loads, Post
  <2> QED BY <1>1, <2>1 DEF SitesFine
<1> QED BY <1>2, <1>3

LEMMA BecomeFine ==
  ASSUME ManageTypeOK, NEW pg, NEW rest \in SUBSET sent, SitesInv, Become(pg, rest)
  PROVE  SitesInv'
<1>1. access' = access
  BY DEF Become
<1>2. \A w \in Loads(pg, project) : pg.at = "site" => w.op = "goals" /\ w.alive
  BY DEF Loads, Post
<1>3. \A v \in sent' : v \in sent \/ (v.op # "sites" /\ (v.op \in Reads => v.alive))
  BY <1>2, DroppedOps DEF Become, Remaining, Reads
<1> QED BY <1>1, <1>3, KeptFine DEF SitesInv

LEMMA SitesSettle ==
  ASSUME ManageTypeOK, SitesInv, NEW w \in sent, Settle(w)
  PROVE  SitesInv'
<1> USE DEF ManageTypeOK
<1>1. \A v \in sent \ {w} : Typed(v)
  OBVIOUS
<1>2. SitesFine(access, sent \ {w})
  BY KeptFine DEF SitesInv
<1>3. CASE ArriveUnseen(w)
  BY <1>2, <1>3 DEF ArriveUnseen, shown, SitesInv
<1>4. CASE ArriveKey(w)
  <2>1. Reveal(w).sites = access.sites
    BY DEF Reveal, Access
  <2>2. Post("keys", [ends |-> TRUE]).op = "keys" /\ Post("keys", [ends |-> TRUE]).alive
    BY DEF Post
  <2> QED BY <1>4, <2>1, <2>2, KeptFine DEF ArriveKey, SitesInv
<1>5. CASE ArriveKeys(w)
  <2> DEFINE a == [access EXCEPT !.list = w.got.keys, !.busy = access.busy /\ ~w.of.ends]
  <2>1. a \in Access /\ a.sites = access.sites
    BY <1>5 DEF Settle, ArriveKeys, Access, Typed, Gives
  <2>2. Holds(a, sent \ {w})
    BY <1>5 DEF ArriveKeys
  <2> HIDE DEF a
  <2>3. SitesFine(a, sent \ {w})
    BY <1>2, <2>1 DEF SitesFine
  <2> QED BY <1>1, <2>1, <2>2, <2>3, AskedFine DEF Holds, SitesInv
<1>6. CASE ArriveSites(w)
  <2>1. \A v \in sent' : v.op = "sites" => v.of.project # w.of.project
    BY <1>6 DEF ArriveSites, SitesInv, SitesFine
  <2>2. \A p \in Projects : p # w.of.project => access'.sites[p] = access.sites[p]
    BY <1>6 DEF ArriveSites, Access
  <2>3. \A v \in sent' : v.op = "sites" => v.of.project \in Projects
    BY <1>1, <1>6 DEF ArriveSites, Typed, About
  <2> QED BY <1>6, <2>1, <2>2, <2>3 DEF ArriveSites, SitesInv, SitesFine
<1>7. CASE ArriveGoals(w)
  BY <1>2, <1>7 DEF ArriveGoals, SitesInv
<1>8. CASE ArriveToggled(w)
  <2>1. CASE InList(w)
    BY <1>2, <1>8, <2>1 DEF ArriveToggled, SitesInv
  <2>2. CASE ~InList(w)
    BY <1>1, <1>8, <2>2, OpenedFine DEF ArriveToggled, Show, SitesInv, Pages
  <2> QED BY <2>1, <2>2
<1>9. CASE ArriveSaved(w)
  <2> DEFINE hub == [at |-> "site", site |-> w.of.site]
  <2>1. hub \in Pages
    BY <1>9 DEF ArriveSaved, Typed, About, Pages
  <2>2. CASE page = hub
    BY <1>2, <1>9, <2>2 DEF ArriveSaved, shown, SitesInv
  <2>3. CASE page # hub /\ page.at = "site" /\ InList(w)
    BY <1>9, <2>3, BecomeFine DEF ArriveSaved
  <2>4. CASE page # hub /\ ~(page.at = "site" /\ InList(w))
    BY <1>1, <1>9, <2>1, <2>4, OpenedFine DEF ArriveSaved, Show, SitesInv
  <2> QED BY <2>2, <2>3, <2>4
<1> QED BY <1>3, <1>4, <1>5, <1>6, <1>7, <1>8, <1>9 DEF Settle

LEMMA SitesFail ==
  ASSUME ManageTypeOK, SitesInv, NEW w \in sent, FailRequest(w)
  PROVE  SitesInv'
<1> USE DEF ManageTypeOK
<1>1. sent' = sent \ {w} /\ access' = IF w.alive THEN FreedKeys(w) ELSE access
  BY DEF FailRequest
<1>2. CASE w.op # "sites" \/ ~w.alive
  <2>1. access'.sites = access.sites
    BY <1>1, <1>2 DEF FreedKeys, Access
  <2> QED BY <1>1, <2>1, KeptFine DEF SitesInv
<1>3. CASE w.op = "sites" /\ w.alive
  <2>1. \A v \in sent' : v.op = "sites" => v.of.project # w.of.project
    BY <1>1, <1>3 DEF SitesInv, SitesFine
  <2>2. \A p \in Projects : p # w.of.project => access'.sites[p] = access.sites[p]
    BY <1>1, <1>3 DEF FreedKeys, Access
  <2>3. \A v \in sent' : v.op = "sites" => v.of.project \in Projects
    BY <1>1 DEF Typed, About
  <2> QED BY <1>1, <2>1, <2>2, <2>3 DEF SitesInv, SitesFine
<1> QED BY <1>2, <1>3

LEMMA SitesStep == ManageTypeOK /\ SitesInv /\ [ManageNext]_manageVars => SitesInv'
<1> SUFFICES ASSUME ManageTypeOK, SitesInv, [ManageNext]_manageVars PROVE SitesInv'
  OBVIOUS
<1> USE DEF ManageTypeOK
<1>1. CASE UNCHANGED manageVars
  BY <1>1 DEF manageVars, SitesInv
<1>2. ASSUME NEW pg \in Pages, Go(pg) PROVE SitesInv'
  BY <1>2, OpenedFine DEF Go, Show, SitesInv
<1>3. ASSUME NEW p \in Projects, ChooseTop(p) PROVE SitesInv'
  <2>1. CASE page = [at |-> "keys", site |-> Nil]
    <3>1. ForProject(access, p) \in Access /\ ForProject(access, p).sites = access.sites
      BY DEF ForProject, Access
    <3>2. SitesFine(ForProject(access, p), sent)
      BY <3>1, KeptFine DEF SitesInv
    <3> QED BY <1>3, <2>1, <3>1, <3>2, AskedFine DEF ChooseTop, Holds, SitesInv
  <2>2. CASE page # [at |-> "keys", site |-> Nil]
    BY <1>3, <2>2, OpenedFine DEF ChooseTop, Show, SitesInv, Pages
  <2> QED BY <2>1, <2>2
<1>4. ASSUME NEW s \in Sites, Jump(s) PROVE SitesInv'
  BY <1>4, BecomeFine DEF Jump
<1>5. CASE AccessPage
  <2>1. PICK a, requests : /\ a \in Access /\ Touch(a, requests)
                           /\ a.sites = access.sites /\ Pressed(a, requests)
    BY <1>5, PressedShape
  <2>2. \A v \in requests : v.op \in KeyOps
    BY <2>1 DEF Pressed, Post
  <2>3. SitesFine(a, sent \cup requests)
    BY <2>1, <2>2, KeptFine DEF SitesInv, KeyOps, Reads
  <2>4. \A w \in sent \cup requests : w.op = "sites" => Typed(w)
    BY <2>2 DEF KeyOps
  <2> QED BY <2>1, <2>3, <2>4, AskedFine DEF Touch, Holds, SitesInv
<1>6. CASE WebsitePages
  <2>1. \A o, of : Post(o, of).op = o /\ Post(o, of).alive
    BY DEF Post
  <2>2. \A v \in sent' : v \in sent \/ (v.op # "sites" /\ (v.op \in Reads => v.alive))
    BY <1>6, <2>1, WebsiteShape
  <2>3. access' = access
    BY <1>6, WebsiteShape
  <2> QED BY <2>2, <2>3, KeptFine DEF SitesInv
<1>7. CASE Others
  BY <1>7 DEF Others, shown, SitesInv
<1>8. ASSUME NEW w \in sent, ReplyTo(w) PROVE SitesInv'
  <2>1. access' = access
    BY <1>8, ReplyShape
  <2>2. CASE w.op = "save"
    <3>1. \A v \in sent' : v \in sent \/ v.op = "refresh"
      BY <1>8, <2>2, ReplyShape
    <3> QED BY <2>1, <3>1, KeptFine DEF SitesInv, Reads
  <2>3. CASE w.op # "save"
    <3>1. PICK got : sent' = (sent \ {w}) \cup {Answered(w, got)}
      BY <1>8, <2>3, ReplyShape
    <3>2. /\ Answered(w, got).op = w.op /\ Answered(w, got).of = w.of
          /\ Answered(w, got).alive = w.alive
      BY DEF Answered
    <3> QED BY <2>1, <3>1, <3>2 DEF SitesInv, SitesFine
  <2> QED BY <2>2, <2>3
<1> QED BY <1>1, <1>2, <1>3, <1>4, <1>5, <1>6, <1>7, <1>8, SitesSettle, SitesFail DEF ManageNext, Moving

(* The websites of a project are asked for once, and are "loading" until   *)
(* they are there or have failed (`requested`).                            *)
LEMMA SitesInvariant == ManageSpec => []SitesInv
<1>1. ManageInit => SitesInv
  <2> SUFFICES ASSUME ManageInit PROVE SitesInv
    OBVIOUS
  <2>1. page \in Pages /\ project \in Projects
    BY DEF ManageInit
  <2>2. SitesFine(Opened(page, project), Dropped({}) \cup Loads(page, project))
    BY <2>1, OpenedFine
  <2>3. Dropped({}) = {}
    BY DEF Dropped
  <2> QED BY <2>2, <2>3 DEF ManageInit, SitesInv
<1> QED BY <1>1, SitesStep, ManageTypeCorrect, PTL DEF ManageSpec

-----------------------------------------------------------------------------
(* Manage: a key is asked for as it is described.                          *)

(* On the page of all keys the website chosen is of the project chosen,    *)
(* whose websites are there; on a website's page it is that website.       *)
KeyForms(pg, a, other) ==
  /\ pg.at = "keys" /\ pg.site = Nil /\ a.website # Nil =>
       a.website \in SitesOf(a.project) /\ a.sites[a.project] = "loaded"
  /\ pg.at = "keys" /\ pg.site # Nil /\ ~other => a.website = pg.site
KeyFormInv == KeyForms(page, access, strayed)

LEMMA NeededKeeps ==
  ASSUME NEW a \in Access
  PROVE  /\ Needed(a).website = a.website /\ Needed(a).project = a.project
         /\ \A p \in Projects : a.sites[p] = "loaded" => Needed(a).sites[p] = "loaded"
BY DEF Needed, Access, Unnamed

LEMMA OpenedForms ==
  ASSUME NEW pg \in Pages, NEW p \in Projects, NEW other
  PROVE  KeyForms(pg, Opened(pg, p), other)
<1>1. NewAccess(pg, p).website = pg.site
  BY DEF NewAccess
<1>2. Opened(pg, p).website = pg.site
  BY <1>1, NeededKeeps, NewAccessTyped DEF Opened
<1> QED BY <1>2 DEF KeyForms

LEMMA BecomeForms ==
  ASSUME ManageTypeOK, NEW pg \in Pages, pg.at = page.at, page.site # Nil, pg.site # Nil,
         NEW rest, Become(pg, rest)
  PROVE  KeyFormInv'
BY DEF Become, KeyFormInv, KeyForms

LEMMA FormSettle ==
  ASSUME ManageTypeOK, SitesInv, KeyFormInv, NEW w \in sent, Settle(w)
  PROVE  KeyFormInv'
<1> USE DEF ManageTypeOK
<1>1. CASE ArriveUnseen(w)
  BY <1>1 DEF ArriveUnseen, shown, KeyFormInv
<1>2. CASE ArriveKey(w)
  <2>1. access'.website = access.website /\ access'.project = access.project /\ access'.sites = access.sites
    BY <1>2 DEF ArriveKey, Reveal, Access
  <2> QED BY <1>2, <2>1 DEF ArriveKey, KeyFormInv, KeyForms
<1>3. CASE ArriveKeys(w)
  <2> DEFINE a == [access EXCEPT !.list = w.got.keys, !.busy = access.busy /\ ~w.of.ends]
  <2>1. /\ a \in Access /\ a.sites = access.sites
        /\ a.website = access.website /\ a.project = access.project
    BY <1>3 DEF Settle, ArriveKeys, Access, Typed, Gives
  <2>2. access' = Needed(a)
    BY <1>3 DEF ArriveKeys, Holds
  <2> HIDE DEF a
  <2>3. access.project \in Projects
    BY DEF Access
  <2> QED BY <1>3, <2>1, <2>2, <2>3, NeededKeeps DEF ArriveKeys, KeyFormInv, KeyForms
<1>4. CASE ArriveSites(w)
  <2>1. /\ access'.website = access.website /\ access'.project = access.project
        /\ \A p \in Projects : access.sites[p] = "loaded" => access'.sites[p] = "loaded"
    BY <1>4 DEF ArriveSites, Access
  <2>2. access.project \in Projects
    BY DEF Access
  <2> QED BY <1>4, <2>1, <2>2 DEF ArriveSites, KeyFormInv, KeyForms
<1>5. CASE ArriveGoals(w)
  BY <1>5 DEF ArriveGoals, KeyFormInv
<1>6. Nowhere \in Pages /\ Nowhere.at # "keys"
  BY DEF Pages, Nowhere
<1>7. CASE ArriveToggled(w)
  BY <1>6, <1>7 DEF ArriveToggled, Show, KeyFormInv, KeyForms
<1>8. CASE ArriveSaved(w)
  BY <1>8 DEF ArriveSaved, Show, Become, shown, KeyFormInv, KeyForms
<1> QED BY <1>1, <1>2, <1>3, <1>4, <1>5, <1>7, <1>8 DEF Settle

LEMMA FormFail ==
  ASSUME ManageTypeOK, SitesInv, KeyFormInv, NEW w \in sent, FailRequest(w)
  PROVE  KeyFormInv'
<1> USE DEF ManageTypeOK
<1>1. /\ access'.website = access.website /\ access'.project = access.project
      /\ page' = page /\ strayed' = strayed
  BY DEF FailRequest, FreedKeys, Access
<1>2. access.sites[access.project] = "loaded" => access'.sites[access.project] = "loaded"
  <2>1. /\ access.project \in Projects
        /\ access.sites \in [Projects -> {"unasked", "loading", "loaded", "error"}]
    BY DEF Access
  <2>2. CASE w.op = "sites" /\ w.alive
    <3>1. access.sites[w.of.project] = "loading"
      BY <2>2 DEF SitesInv, SitesFine
    <3>2. access' = [access EXCEPT !.sites[w.of.project] = "error"]
      BY <2>2 DEF FailRequest, FreedKeys
    <3> QED BY <2>1, <3>1, <3>2 DEF Access
  <2>3. CASE ~(w.op = "sites" /\ w.alive)
    BY <2>3 DEF FailRequest, FreedKeys, Access
  <2> QED BY <2>2, <2>3
<1> QED BY <1>1, <1>2 DEF KeyFormInv, KeyForms

LEMMA FormPressed ==
  ASSUME ManageTypeOK, KeyFormInv, AccessPage
  PROVE  KeyFormInv'
<1> USE DEF ManageTypeOK
<1>0. access.project \in Projects
  BY DEF Access
<1>1. ASSUME NEW a \in Access, NEW requests, Touch(a, requests),
             a.website = access.website, a.project = access.project, a.sites = access.sites
      PROVE  KeyFormInv'
  BY <1>0, <1>1, NeededKeeps DEF Touch, Holds, KeyFormInv, KeyForms
<1>2. CASE AddKey
  <2>1. [access EXCEPT !.creating = TRUE, !.shown = Nil] \in Access
    BY DEF Access
  <2> QED BY <1>1, <1>2, <2>1 DEF AddKey, Access
<1>3. CASE CancelKey
  <2>1. [access EXCEPT !.creating = FALSE] \in Access
    BY DEF Access
  <2> QED BY <1>1, <1>3, <2>1 DEF CancelKey, Access
<1>4. CASE Dismiss
  <2>1. [access EXCEPT !.shown = Nil] \in Access
    BY DEF Access
  <2> QED BY <1>1, <1>4, <2>1 DEF Dismiss, Access
<1>5. ASSUME NEW kind \in {"everything", "project", "website"}, ChooseKind(kind) PROVE KeyFormInv'
  <2>1. [access EXCEPT !.kind = kind] \in Access
    BY DEF Access, Kinds
  <2> QED BY <1>1, <1>5, <2>1 DEF ChooseKind, Fill, Access
<1>6. ASSUME NEW p \in Projects, ChooseProject(p) PROVE KeyFormInv'
  <2>1. ForProject(access, p) \in Access /\ ForProject(access, p).website = Nil
    BY DEF ForProject, Access
  <2> QED BY <1>6, <2>1, NeededKeeps DEF ChooseProject, Fill, Touch, Holds, KeyFormInv, KeyForms
<1>7. ASSUME NEW s \in Sites, ChooseWebsite(s) PROVE KeyFormInv'
  <2> DEFINE a == [access EXCEPT !.website = s]
  <2>1. a \in Access /\ a.website = s /\ a.project = access.project /\ a.sites = access.sites
    BY DEF Access
  <2>2. Touch(a, {})
    BY <1>7 DEF ChooseWebsite, Fill
  <2> HIDE DEF a
  <2> QED BY <1>0, <1>7, <2>1, <2>2, NeededKeeps DEF ChooseWebsite, Fill, Touch, Holds, KeyFormInv, KeyForms
<1>8. ASSUME NEW o, NEW of, Change(o, of) PROVE KeyFormInv'
  <2>1. [access EXCEPT !.busy = TRUE] \in Access
    BY DEF Access
  <2> QED BY <1>1, <1>8, <2>1 DEF Change, Access
<1> QED BY <1>2, <1>3, <1>4, <1>5, <1>6, <1>7, <1>8 DEF AccessPage, CreateKey, ChangeKey

LEMMA KeyFormStep == ManageTypeOK /\ SitesInv /\ KeyFormInv /\ [ManageNext]_manageVars => KeyFormInv'
<1> SUFFICES ASSUME ManageTypeOK, SitesInv, KeyFormInv, [ManageNext]_manageVars PROVE KeyFormInv'
  OBVIOUS
<1> USE DEF ManageTypeOK
<1>1. CASE UNCHANGED manageVars
  BY <1>1 DEF manageVars, KeyFormInv
<1>2. ASSUME NEW pg \in Pages, Go(pg) PROVE KeyFormInv'
  BY <1>2, OpenedForms DEF Go, Show, KeyFormInv
<1>3. ASSUME NEW p \in Projects, ChooseTop(p) PROVE KeyFormInv'
  <2>1. CASE page = [at |-> "keys", site |-> Nil]
    <3>1. ForProject(access, p) \in Access /\ ForProject(access, p).website = Nil
      BY DEF ForProject, Access
    <3> QED BY <1>3, <2>1, <3>1, NeededKeeps DEF ChooseTop, Holds, KeyFormInv, KeyForms
  <2>2. CASE page # [at |-> "keys", site |-> Nil]
    BY <1>3, <2>2 DEF ChooseTop, Show, KeyFormInv, KeyForms, Nowhere
  <2> QED BY <2>1, <2>2
<1>4. ASSUME NEW s \in Sites, Jump(s) PROVE KeyFormInv'
  <2>1. [at |-> page.at, site |-> s] \in Pages
    BY <1>4 DEF Jump, Pages, Nowhere
  <2> QED BY <1>4, <2>1, BecomeForms, ManageAssumption DEF Jump
<1>5. CASE WebsitePages
  BY <1>5, WebsiteShape DEF KeyFormInv
<1>6. CASE Others
  BY <1>6 DEF Others, shown, KeyFormInv
<1>7. ASSUME NEW w \in sent, ReplyTo(w) PROVE KeyFormInv'
  BY <1>7, ReplyShape DEF KeyFormInv
<1> QED BY <1>1, <1>2, <1>3, <1>4, <1>5, <1>6, <1>7, FormPressed, FormSettle, FormFail
        DEF ManageNext, Moving

(* What is asked for goes on as it was.                                    *)
Goes(o, ws, vs) == \A v \in vs : v.op = o => \E w \in ws : w.op = o /\ w.of = v.of

LEMMA LoadsOps ==
  ASSUME NEW pg, NEW p
  PROVE  \A v \in Loads(pg, p) : v.op \in Reads
BY DEF Loads, AskSites, Post, Reads

LEMMA AskSitesOps ==
  ASSUME NEW a
  PROVE  \A v \in AskSites(a) : v.op \in Reads
BY DEF AskSites, Post, Reads

LEMMA DroppedGoes ==
  ASSUME NEW o, NEW ws
  PROVE  Goes(o, ws, Dropped(ws))
BY DEF Dropped, Orphan, Goes

LEMMA ShowGoes ==
  ASSUME NEW o, o \notin Reads, NEW pg, NEW p, NEW from, NEW rest \in SUBSET sent, Show(pg, p, from, rest)
  PROVE  Goes(o, sent, sent')
BY LoadsOps, DroppedGoes DEF Show, Goes

LEMMA BecomeGoes ==
  ASSUME NEW o, o \notin Reads, NEW pg, NEW rest \in SUBSET sent, Become(pg, rest)
  PROVE  Goes(o, sent, sent')
BY LoadsOps, DroppedGoes DEF Become, Remaining, Goes

LEMMA SettleGoes ==
  ASSUME NEW o, o \notin Reads, NEW w \in sent, Settle(w)
  PROVE  Goes(o, sent, sent')
<1>1. CASE ArriveKey(w)
  BY <1>1 DEF ArriveKey, Post, Goes, Reads
<1>2. CASE ArriveKeys(w)
  BY <1>2, AskSitesOps DEF ArriveKeys, Holds, Goes
<1>3. CASE ArriveToggled(w)
  BY <1>3, ShowGoes DEF ArriveToggled, Goes
<1>4. CASE ArriveSaved(w)
  BY <1>4, ShowGoes, BecomeGoes DEF ArriveSaved, Goes
<1>5. CASE ArriveUnseen(w) \/ ArriveSites(w) \/ ArriveGoals(w)
  BY <1>5 DEF ArriveUnseen, ArriveSites, ArriveGoals, Goes
<1> QED BY <1>1, <1>2, <1>3, <1>4, <1>5 DEF Settle

(* Every step but those of the pages, on which something is asked for.     *)
LEMMA StepGoes ==
  ASSUME ManageTypeOK, NEW o, o \notin Reads \cup {"refresh"},
         \/ Moving \/ Others \/ UNCHANGED manageVars
         \/ \E w \in sent : ReplyTo(w) \/ Settle(w) \/ FailRequest(w)
  PROVE  Goes(o, sent, sent')
<1>1. ASSUME NEW pg \in Pages, Go(pg) PROVE Goes(o, sent, sent')
  BY <1>1, ShowGoes DEF Go
<1>2. ASSUME NEW p \in Projects, ChooseTop(p) PROVE Goes(o, sent, sent')
  <2>1. CASE page = [at |-> "keys", site |-> Nil]
    BY <1>2, <2>1, AskSitesOps DEF ChooseTop, Holds, Goes
  <2> QED BY <1>2, <2>1, ShowGoes DEF ChooseTop
<1>3. ASSUME NEW s \in Sites, Jump(s) PROVE Goes(o, sent, sent')
  BY <1>3, BecomeGoes DEF Jump
<1>4. ASSUME NEW w \in sent, ReplyTo(w) PROVE Goes(o, sent, sent')
  BY <1>4, ReplyShape DEF Answered, Goes
<1>5. ASSUME NEW w \in sent, FailRequest(w) PROVE Goes(o, sent, sent')
  BY <1>5 DEF FailRequest, Goes
<1>6. CASE Others
  BY <1>6 DEF Others, Goes
<1>7. CASE UNCHANGED manageVars
  BY <1>7 DEF manageVars, Goes
<1> QED BY <1>1, <1>2, <1>3, <1>4, <1>5, <1>6, <1>7, SettleGoes DEF Moving

LEMMA DescribedStep ==
  ManageTypeOK /\ KeyFormInv /\ KeyAsDescribed /\ [ManageNext]_manageVars => KeyAsDescribed'
<1> SUFFICES ASSUME ManageTypeOK, KeyFormInv, KeyAsDescribed, [ManageNext]_manageVars PROVE KeyAsDescribed'
  OBVIOUS
<1> USE DEF ManageTypeOK
<1>1. Goes("create", sent, sent') => KeyAsDescribed'
  BY DEF Goes, KeyAsDescribed
<1>2. ASSUME NEW o, NEW of, o # "create", Change(o, of) PROVE Goes("create", sent, sent')
  BY <1>2, AskSitesOps DEF Change, Touch, Holds, Post, Goes, Reads
<1>3. ASSUME NEW a, Touch(a, {}) PROVE Goes("create", sent, sent')
  BY <1>3, AskSitesOps DEF Touch, Holds, Goes, Reads
<1>4. CASE CreateKey
  <2> DEFINE of == [scope |-> For(access.website), said |-> For(Chosen), strayed |-> strayed]
  <2>1. strayed \/ For(access.website) = For(Chosen)
    BY <1>4 DEF CreateKey, Change, Touch, AtKeys, For, Chosen, KeyFormInv, KeyForms
  <2>2. \A v \in sent' : v.op = "create" => v \in sent \/ v = Post("create", of)
    BY <1>4, AskSitesOps DEF CreateKey, Change, Touch, Holds, Reads
  <2> QED BY <2>1, <2>2 DEF KeyAsDescribed, Post
<1>5. CASE AccessPage /\ ~CreateKey
  <2>1. CASE AddKey \/ CancelKey \/ Dismiss
    BY <1>1, <1>3, <2>1 DEF AddKey, CancelKey, Dismiss
  <2>2. CASE \E kind \in {"everything", "project", "website"} : ChooseKind(kind)
    BY <1>1, <1>3, <2>2 DEF ChooseKind, Fill
  <2>3. CASE \E p \in Projects : ChooseProject(p)
    BY <1>1, <1>3, <2>3 DEF ChooseProject, Fill
  <2>4. CASE \E s \in Sites : ChooseWebsite(s)
    BY <1>1, <1>3, <2>4 DEF ChooseWebsite, Fill
  <2>5. CASE \E o \in {"rotate", "rename", "revoke"}, k \in KeyIds : ChangeKey(o, k)
    BY <1>1, <1>2, <2>5 DEF ChangeKey
  <2> QED BY <1>5, <2>1, <2>2, <2>3, <2>4, <2>5 DEF AccessPage
<1>6. CASE WebsitePages
  <2>1. \A o, of : Post(o, of).op = o
    BY DEF Post
  <2>2. \A v \in sent' : v.op = "create" => v \in sent
    BY <1>6, <2>1, WebsiteShape
  <2> QED BY <1>1, <2>2 DEF Goes
<1>7. CASE ~AccessPage /\ ~WebsitePages
  BY <1>1, <1>7, StepGoes DEF ManageNext, Reads
<1> QED BY <1>4, <1>5, <1>6, <1>7

(* A key is asked for with the access that is described beside its button. *)
THEOREM KeysAreAsDescribed == ManageSpec => []KeyAsDescribed
<1>1. ManageInit => KeyFormInv /\ KeyAsDescribed
  <2> SUFFICES ASSUME ManageInit PROVE KeyFormInv /\ KeyAsDescribed
    OBVIOUS
  <2>1. KeyFormInv
    BY OpenedForms DEF ManageInit, KeyFormInv
  <2>2. \A w \in sent : w.op # "create"
    BY LoadsOps DEF ManageInit, Reads
  <2> QED BY <2>1, <2>2 DEF KeyAsDescribed
<1> QED BY <1>1, KeyFormStep, DescribedStep, SitesInvariant, ManageTypeCorrect, PTL DEF ManageSpec

-----------------------------------------------------------------------------
(* Manage: pages keep to their own website.                                *)

(* What is not touched in the form is what the list holds, unless the list *)
(* changed under it.                                                       *)
Clean(pg, fm, from) ==
  pg.at = "edit" /\ ~fm.under => \A f \in Fields \ fm.touched : fm.draft[f] = from[pg.site][f]
CleanInv == Clean(page, form, listed)

(* The goals asked for are the website's that is shown; a goal that is     *)
(* being added is, unless the page was made another website's.             *)
GoalsFine(pg, ws, other) ==
  /\ \A w \in ws : w.op = "goals" =>
       /\ pg.at = "site" /\ w.of.site = pg.site
       /\ w.stage = "answered" => \A g \in w.got.goals : g.site = pg.site
  /\ \A w \in ws : w.op = "addGoal" /\ w.alive /\ ~other => w.of.site = pg.site
GoalsShown(pg, l, other) == pg.at = "site" => other \/ \A g \in l : g.site = pg.site
GoalsInv == GoalsFine(page, sent, strayed) /\ GoalsShown(page, panel.list, strayed)
SaveInv == \A w \in sent : w.op = "save" => w.of.under \/ w.of.fields \ {"always"} \subseteq w.of.touched

LEMMA NewFormClean ==
  ASSUME NEW pg, NEW from
  PROVE  Clean(pg, NewForm(pg, from), from)
BY DEF Clean, NewForm

LEMMA CleanStep == ManageTypeOK /\ CleanInv /\ [ManageNext]_manageVars => CleanInv'
<1> SUFFICES ASSUME ManageTypeOK, CleanInv, [ManageNext]_manageVars PROVE CleanInv'
  OBVIOUS
<1> USE DEF ManageTypeOK
<1>1. CASE UNCHANGED manageVars
  BY <1>1 DEF manageVars, CleanInv
<1>2. ASSUME NEW pg \in Pages, Go(pg) PROVE CleanInv'
  BY <1>2, NewFormClean DEF Go, Show, list, CleanInv
<1>3. ASSUME NEW p \in Projects, ChooseTop(p) PROVE CleanInv'
  BY <1>3 DEF ChooseTop, Show, Nowhere, CleanInv, Clean
<1>4. ASSUME NEW s \in Sites, Jump(s) PROVE CleanInv'
  <2>1. CASE page.at = "edit"
    BY <1>4, <2>1, NewFormClean DEF Jump, Become, list, CleanInv
  <2>2. CASE page.at # "edit"
    BY <1>4, <2>2 DEF Jump, Become, CleanInv, Clean
  <2> QED BY <2>1, <2>2
<1>5. CASE AccessPage
  <2>1. PICK a, requests : Touch(a, requests)
    BY <1>5, PressedShape
  <2> QED BY <2>1 DEF Touch, AtKeys, list, CleanInv, Clean
<1>6. ASSUME NEW f \in Fields, Type(f) PROVE CleanInv'
  <2>1. \A g \in Fields \ {f} : form'.draft[g] = form.draft[g]
    BY <1>6 DEF Type, Form
  <2>2. form'.touched = form.touched \cup {f} /\ form'.under = form.under
    BY <1>6 DEF Type, Form
  <2> QED BY <1>6, <2>1, <2>2 DEF Type, list, CleanInv, Clean
<1>7. CASE Save
  <2>1. form'.draft = form.draft /\ form'.touched = form.touched /\ form'.under = form.under
    BY <1>7 DEF Save, Form
  <2> QED BY <1>7, <2>1 DEF Save, list, CleanInv, Clean
<1>8. ASSUME NEW p, NEW w, OnHub(p, w) PROVE CleanInv'
  BY <1>8 DEF OnHub, list, CleanInv
<1>9. CASE Others
  BY <1>9 DEF Others, shown, list, CleanInv
<1>10. ASSUME NEW w \in sent, ReplyTo(w) PROVE CleanInv'
  BY <1>10, ReplyShape DEF CleanInv
<1>11. ASSUME NEW w \in sent, FailRequest(w) PROVE CleanInv'
  <2>1. form'.draft = form.draft /\ form'.touched = form.touched /\ form'.under = form.under
    BY <1>11 DEF FailRequest, Form
  <2> QED BY <1>11, <2>1 DEF FailRequest, list, CleanInv, Clean
<1>12. ASSUME NEW w \in sent, Settle(w) PROVE CleanInv'
  <2>1. CASE ArriveUnseen(w)
    BY <2>1 DEF ArriveUnseen, shown, list, CleanInv
  <2>2. CASE ArriveKey(w) \/ ArriveKeys(w) \/ ArriveSites(w) \/ ArriveGoals(w)
    BY <2>2 DEF ArriveKey, ArriveKeys, ArriveSites, ArriveGoals, list, CleanInv
  <2>3. CASE ArriveToggled(w)
    <3>1. CASE InList(w)
      <4>1. /\ form'.draft = form.draft /\ form'.touched = form.touched
            /\ form'.under = (form.under \/ (AtForm /\ w.got.settings[page.site] # listed[page.site]))
        BY <2>3, <3>1 DEF ArriveToggled, Form
      <4>2. listed' = w.got.settings /\ page' = page
        BY <2>3, <3>1 DEF ArriveToggled, Relist
      <4> QED BY <4>1, <4>2 DEF CleanInv, Clean, AtForm
    <3>2. CASE ~InList(w)
      BY <2>3, <3>2 DEF ArriveToggled, Show, Nowhere, CleanInv, Clean
    <3> QED BY <3>1, <3>2
  <2>4. CASE ArriveSaved(w)
    BY <2>4 DEF ArriveSaved, Show, Become, shown, CleanInv, Clean
  <2> QED BY <1>12, <2>1, <2>2, <2>3, <2>4 DEF Settle
<1> QED BY <1>1, <1>2, <1>3, <1>4, <1>5, <1>6, <1>7, <1>8, <1>9, <1>10, <1>11, <1>12
        DEF ManageNext, Moving, WebsitePages, Toggle, RetryGoals, AddGoal, RemoveGoal

LEMMA SaveStep == ManageTypeOK /\ CleanInv /\ SaveInv /\ [ManageNext]_manageVars => SaveInv'
<1> SUFFICES ASSUME ManageTypeOK, CleanInv, SaveInv, [ManageNext]_manageVars PROVE SaveInv'
  OBVIOUS
<1>1. Goes("save", sent, sent') => SaveInv'
  BY DEF Goes, SaveInv
<1>2. CASE AccessPage
  <2>1. PICK a, requests : Touch(a, requests) /\ Pressed(a, requests)
    BY <1>2, PressedShape
  <2>2. Goes("save", sent, sent')
    BY <2>1, AskSitesOps DEF Touch, Holds, Pressed, KeyOps, Post, Goes, Reads
  <2> QED BY <1>1, <2>2
<1>3. CASE Save
  <2> DEFINE of == [project |-> project, site |-> page.site, fields |-> Body(page.site),
                    draft |-> form.draft, touched |-> form.touched, under |-> form.under]
  <2>1. form.under \/ Body(page.site) \ {"always"} \subseteq form.touched
    BY <1>3 DEF Save, AtForm, Body, Differs, CleanInv, Clean
  <2>2. \A v \in sent' : v \in sent \/ v = Post("save", of)
    BY <1>3 DEF Save
  <2> QED BY <2>1, <2>2 DEF SaveInv, Post
<1>4. CASE WebsitePages /\ ~Save
  <2>1. ASSUME NEW p, NEW o, NEW of, o # "save", OnHub(p, Post(o, of)) PROVE Goes("save", sent, sent')
    BY <2>1 DEF OnHub, Post, Goes
  <2>2. ASSUME NEW f, Type(f) PROVE Goes("save", sent, sent')
    BY <2>2 DEF Type, Goes
  <2> QED BY <1>1, <1>4, <2>1, <2>2 DEF WebsitePages, Toggle, RetryGoals, AddGoal, RemoveGoal
<1>5. CASE ~AccessPage /\ ~WebsitePages
  BY <1>1, <1>5, StepGoes DEF ManageNext, Reads
<1> QED BY <1>2, <1>3, <1>4, <1>5

LEMMA NewGoals ==
  ASSUME NEW pg, NEW p, NEW rest
  PROVE  GoalsFine(pg, Dropped(rest) \cup Loads(pg, p), FALSE) /\ GoalsShown(pg, NewPanel.list, FALSE)
<1>1. \A w \in Loads(pg, p) :
        /\ w.op \in Reads
        /\ w.op = "goals" => pg.at = "site" /\ w.of.site = pg.site /\ w.stage = "sent"
  BY DEF Loads, AskSites, Post, Reads
<1>2. GoalsFine(pg, Dropped(rest) \cup Loads(pg, p), FALSE)
  BY <1>1, DroppedOps DEF GoalsFine, Reads
<1> QED BY <1>2 DEF NewPanel, GoalsShown

LEMMA ShowGoals ==
  ASSUME NEW pg, NEW p, NEW from, NEW rest, Show(pg, p, from, rest)
  PROVE  GoalsInv'
BY NewGoals DEF Show, GoalsInv

LEMMA BecomeGoals ==
  ASSUME ManageTypeOK, NEW pg, pg.at \in {"keys", "edit", "site"}, NEW rest \in SUBSET sent, Become(pg, rest)
  PROVE  GoalsInv'
<1>1. panel'.list = {}
  BY DEF Become, ManageTypeOK, Panel
<1>2. \A w \in Loads(pg, project) :
        pg.at = "site" => w.op = "goals" /\ w.of.site = pg.site /\ w.stage = "sent"
  BY DEF Loads, Post
<1>3. CASE pg.at = "edit"
  BY <1>1, <1>3, DroppedOps DEF Become, GoalsInv, GoalsFine, GoalsShown, Reads
<1>4. CASE pg.at # "edit"
  <2>1. page' = pg /\ (pg.at = "keys" => strayed')
    BY DEF Become
  <2>2. \A w \in rest : w.op = "addGoal" /\ w.alive => strayed'
    BY DEF Become
  <2>3. \A w \in sent' : (w \in rest /\ w.op # "goals") \/ (pg.at = "site" /\ w \in Loads(pg, project))
    BY <1>4 DEF Become, Remaining
  <2> QED BY <1>1, <1>2, <2>1, <2>2, <2>3 DEF GoalsInv, GoalsFine, GoalsShown
<1> QED BY <1>3, <1>4

(* With the same page, requests that neither list nor add goals are of no  *)
(* account.                                                                *)
LEMMA SameGoals ==
  ASSUME GoalsInv, UNCHANGED <<page, panel, strayed>>,
         \A v \in sent' : v \in sent \/ v.op \notin {"goals", "addGoal"}
  PROVE  GoalsInv'
BY DEF GoalsInv, GoalsFine, GoalsShown

LEMMA GoalsReply ==
  ASSUME ManageTypeOK, GoalsInv, NEW w \in sent, ReplyTo(w)
  PROVE  GoalsInv'
<1>1. UNCHANGED <<page, panel, strayed>>
  BY ReplyShape
<1>2. CASE w.op = "goals"
  <2>1. sent' = (sent \ {w}) \cup {Answered(w, [goals |-> {g \in goals : g.site = w.of.site}])}
    BY <1>2 DEF ReplyTo, Issue, OnKey, OnGoal, OnSettings, Read, Serve
  <2>2. w.of.site = page.site /\ page.at = "site"
    BY <1>2 DEF GoalsInv, GoalsFine
  <2> QED BY <1>1, <1>2, <2>1, <2>2 DEF Answered, GoalsInv, GoalsFine, GoalsShown
<1>3. CASE w.op \notin {"goals", "save"}
  <2>1. PICK got : sent' = (sent \ {w}) \cup {Answered(w, got)}
    BY <1>3, ReplyShape
  <2>2. Answered(w, got).op = w.op /\ Answered(w, got).of = w.of /\ Answered(w, got).alive = w.alive
    BY DEF Answered
  <2> QED BY <1>1, <1>3, <2>1, <2>2 DEF GoalsInv, GoalsFine, GoalsShown
<1>4. CASE w.op = "save"
  BY <1>1, <1>4, ReplyShape, SameGoals
<1> QED BY <1>2, <1>3, <1>4

LEMMA GoalsSettle ==
  ASSUME ManageTypeOK, GoalsInv, NEW w \in sent, Settle(w)
  PROVE  GoalsInv'
<1> USE DEF ManageTypeOK
<1>1. CASE ArriveUnseen(w)
  BY <1>1, SameGoals DEF ArriveUnseen, shown
<1>2. CASE ArriveKey(w)
  BY <1>2, SameGoals DEF ArriveKey, Post
<1>3. CASE ArriveKeys(w)
  <2>1. \A a : \A v \in AskSites(a) : v.op = "sites"
    BY DEF AskSites, Post
  <2> QED BY <1>3, <2>1, SameGoals DEF ArriveKeys, Holds
<1>4. CASE ArriveSites(w)
  BY <1>4, SameGoals DEF ArriveSites
<1>5. CASE ArriveGoals(w)
  <2>0. UNCHANGED <<page, strayed>> /\ sent' = sent \ {w} /\ w.alive /\ w.stage = "answered"
    BY <1>5 DEF Settle, ArriveGoals
  <2>1. GoalsFine(page, sent', strayed)
    BY <2>0 DEF GoalsInv, GoalsFine
  <2>2. GoalsShown(page, panel'.list, strayed)
    <3>1. CASE w.op = "goals"
      <4>1. panel'.list = w.got.goals
        BY <1>5, <3>1 DEF ArriveGoals, Panel
      <4> QED BY <2>0, <3>1, <4>1 DEF GoalsInv, GoalsFine, GoalsShown
    <3>2. CASE w.op = "addGoal"
      <4>1. panel'.list = panel.list \cup {[site |-> w.of.site, id |-> w.of.id]}
        BY <1>5, <3>2 DEF ArriveGoals, Panel
      <4> QED BY <2>0, <3>2, <4>1 DEF GoalsInv, GoalsFine, GoalsShown
    <3>3. CASE w.op = "removeGoal"
      <4>1. panel'.list \subseteq panel.list
        BY <1>5, <3>3 DEF ArriveGoals, Panel
      <4> QED BY <4>1 DEF GoalsInv, GoalsShown
    <3> QED BY <1>5, <3>1, <3>2, <3>3 DEF ArriveGoals
  <2> QED BY <2>0, <2>1, <2>2 DEF GoalsInv
<1>6. CASE ArriveToggled(w)
  <2>1. CASE InList(w)
    <3>1. panel'.list = panel.list /\ sent' = sent \ {w} /\ page' = page /\ strayed' = strayed
      BY <1>6, <2>1 DEF ArriveToggled, Panel
    <3> QED BY <3>1 DEF GoalsInv, GoalsFine, GoalsShown
  <2>2. CASE ~InList(w)
    BY <1>6, <2>2, ShowGoals DEF ArriveToggled
  <2> QED BY <2>1, <2>2
<1>7. CASE ArriveSaved(w)
  <2> DEFINE hub == [at |-> "site", site |-> w.of.site]
  <2>1. CASE page = hub
    BY <1>7, <2>1, SameGoals DEF ArriveSaved, shown
  <2>2. CASE page # hub /\ page.at = "site" /\ InList(w)
    BY <1>7, <2>2, BecomeGoals DEF ArriveSaved
  <2>3. CASE page # hub /\ ~(page.at = "site" /\ InList(w))
    BY <1>7, <2>3, ShowGoals DEF ArriveSaved
  <2> QED BY <2>1, <2>2, <2>3
<1> QED BY <1>1, <1>2, <1>3, <1>4, <1>5, <1>6, <1>7 DEF Settle

LEMMA GoalsFail ==
  ASSUME ManageTypeOK, GoalsInv, NEW w \in sent, FailRequest(w)
  PROVE  GoalsInv'
<1>1. page' = page /\ strayed' = strayed /\ sent' = sent \ {w}
  BY DEF FailRequest
<1>2. panel'.list \subseteq panel.list
  BY DEF FailRequest, FreedPanel, ManageTypeOK, Panel
<1> QED BY <1>1, <1>2 DEF GoalsInv, GoalsFine, GoalsShown

LEMMA GoalsPressed ==
  ASSUME ManageTypeOK, GoalsInv, WebsitePages
  PROVE  GoalsInv'
<1> USE DEF ManageTypeOK
<1>1. ASSUME NEW p, NEW o \in {"toggle", "goals", "addGoal", "removeGoal"}, NEW of,
             of.site = page.site, p.list \subseteq panel.list, OnHub(p, Post(o, of))
      PROVE  GoalsInv'
  <2>1. \A v \in sent' : v \in sent \/ (v.of.site = page.site /\ v.stage = "sent")
    BY <1>1 DEF OnHub, Post
  <2>2. UNCHANGED <<page, strayed>> /\ panel' = p /\ page.at = "site"
    BY <1>1 DEF OnHub
  <2> QED BY <1>1, <2>1, <2>2 DEF GoalsInv, GoalsFine, GoalsShown
<1>2. CASE Save
  BY <1>2, SameGoals DEF Save, Post
<1>3. ASSUME NEW f, Type(f) PROVE GoalsInv'
  BY <1>3, SameGoals DEF Type
<1>4. CASE Toggle
  BY <1>1, <1>4 DEF Toggle, Here, Panel
<1>5. CASE RetryGoals
  <2> DEFINE p == [panel EXCEPT !.list = {}, !.failed = FALSE]
  <2>1. p.list \subseteq panel.list
    BY DEF Panel
  <2>2. OnHub(p, Post("goals", Here)) /\ Here.site = page.site
    BY <1>5 DEF RetryGoals, Here
  <2> HIDE DEF p
  <2> QED BY <1>1, <2>1, <2>2
<1>6. ASSUME NEW id, AddGoal(id) PROVE GoalsInv'
  BY <1>1, <1>6 DEF AddGoal, Goal, Panel
<1>7. ASSUME NEW id, RemoveGoal(id) PROVE GoalsInv'
  BY <1>1, <1>7 DEF RemoveGoal, Goal, Panel
<1> QED BY <1>2, <1>3, <1>4, <1>5, <1>6, <1>7 DEF WebsitePages

LEMMA GoalsStep == ManageTypeOK /\ GoalsInv /\ [ManageNext]_manageVars => GoalsInv'
<1> SUFFICES ASSUME ManageTypeOK, GoalsInv, [ManageNext]_manageVars PROVE GoalsInv'
  OBVIOUS
<1>0. \A a : \A v \in AskSites(a) : v.op = "sites"
  BY DEF AskSites, Post
<1>1. CASE UNCHANGED manageVars
  BY <1>1 DEF manageVars, GoalsInv
<1>2. ASSUME NEW pg \in Pages, Go(pg) PROVE GoalsInv'
  BY <1>2, ShowGoals DEF Go
<1>3. ASSUME NEW p \in Projects, ChooseTop(p) PROVE GoalsInv'
  <2>1. CASE page = [at |-> "keys", site |-> Nil]
    BY <1>0, <1>3, <2>1, SameGoals DEF ChooseTop, Holds
  <2>2. CASE page # [at |-> "keys", site |-> Nil]
    BY <1>3, <2>2, ShowGoals DEF ChooseTop
  <2> QED BY <2>1, <2>2
<1>4. ASSUME NEW s \in Sites, Jump(s) PROVE GoalsInv'
  <2>1. page.at \in {"keys", "edit", "site"}
    BY <1>4 DEF Jump, ManageTypeOK, Pages, Nowhere
  <2> QED BY <1>4, <2>1, BecomeGoals DEF Jump
<1>5. CASE AccessPage
  <2>1. PICK a, requests : Touch(a, requests) /\ Pressed(a, requests)
    BY <1>5, PressedShape
  <2>2. \A v \in requests : v.op \in KeyOps
    BY <2>1 DEF Pressed, Post
  <2> QED BY <1>0, <2>1, <2>2, SameGoals DEF Touch, Holds, KeyOps
<1>6. CASE Others
  BY <1>6, SameGoals DEF Others, shown
<1> QED BY <1>1, <1>2, <1>3, <1>4, <1>5, <1>6, GoalsPressed, GoalsReply, GoalsSettle, GoalsFail
        DEF ManageNext, Moving

(* A save leaves alone what was not touched, and the goals listed are of   *)
(* the website shown.                                                      *)
THEOREM PagesKeepToTheirOwn == ManageSpec => []KeepsToTheirOwn
<1>1. ManageInit => CleanInv /\ SaveInv /\ GoalsInv
  <2> SUFFICES ASSUME ManageInit PROVE CleanInv /\ SaveInv /\ GoalsInv
    OBVIOUS
  <2>1. CleanInv
    BY NewFormClean DEF ManageInit, CleanInv
  <2>2. \A w \in sent : w.op \in Reads
    BY LoadsOps DEF ManageInit
  <2>3. Dropped({}) = {}
    BY DEF Dropped
  <2>4. GoalsInv
    BY <2>3, NewGoals DEF ManageInit, GoalsInv
  <2> QED BY <2>1, <2>2, <2>4 DEF SaveInv, Reads
<1>2. SaveInv /\ GoalsInv => KeepsToTheirOwn
  BY DEF SaveInv, GoalsInv, GoalsShown, KeepsToTheirOwn
<1> QED BY <1>1, <1>2, CleanStep, SaveStep, GoalsStep, ManageTypeCorrect, PTL DEF ManageSpec

-----------------------------------------------------------------------------
(* Manage: a page is busy only while it awaits something.                  *)

AwaitsIn(ws, ops) == \E w \in ws : w.alive /\ w.op \in ops
Reloads(ws) == \E w \in ws : w.op = "keys" /\ w.of.ends /\ w.alive
KeysAwaited(a, ws) == a.busy => AwaitsIn(ws, KeyOps) \/ Reloads(ws)
FormAwaited(fm, ws) == fm.busy => AwaitsIn(ws, {"save", "refresh"})
PanelAwaited(pn, ws) ==
  /\ pn.busy => AwaitsIn(ws, {"addGoal", "removeGoal"})
  /\ pn.toggling => AwaitsIn(ws, {"toggle"})

(* A page that is not on the screen is not busy.                           *)
Idle(pg, a, fm, pn) ==
  /\ pg.at # "keys" => ~a.busy
  /\ pg.at # "edit" => ~fm.busy
  /\ pg.at # "site" => ~pn.busy /\ ~pn.toggling

BusyInv ==
  /\ KeysAwaited(access, sent) /\ FormAwaited(form, sent) /\ PanelAwaited(panel, sent)
  /\ Idle(page, access, form, panel)

LEMMA BusyMeans == BusyInv => BusyIsAwaited
BY DEF BusyInv, KeysAwaited, FormAwaited, PanelAwaited, AwaitsIn, Reloads, BusyIsAwaited, Awaits

LEMMA NewBusy ==
  ASSUME NEW pg \in Pages, NEW p \in Projects, NEW from, NEW rest, Show(pg, p, from, rest)
  PROVE  BusyInv'
<1>1. ~NewAccess(pg, p).busy
  BY DEF NewAccess
<1>2. Needed(NewAccess(pg, p)).busy = NewAccess(pg, p).busy
  BY NewAccessTyped DEF Needed, Access
<1>3. ~access'.busy /\ ~form'.busy /\ ~panel'.busy /\ ~panel'.toggling
  BY <1>1, <1>2 DEF Show, Opened, NewForm, NewPanel
<1> QED BY <1>3 DEF BusyInv, KeysAwaited, FormAwaited, PanelAwaited, Idle

(* While the page and its parts are as they were, the requests that free   *)
(* them must stay.                                                         *)
LEMMA SameBusy ==
  ASSUME BusyInv, page'.at = page.at, access'.busy => access.busy, form'.busy => form.busy,
         panel'.busy => panel.busy, panel'.toggling => panel.toggling,
         \A v \in sent : v.alive /\ v.op # "goals" /\ v.op # "sites" /\ ~(v.op = "keys" /\ ~v.of.ends) =>
           v \in sent'
  PROVE  BusyInv'
<1>1. AwaitsIn(sent, KeyOps) => AwaitsIn(sent', KeyOps)
  BY DEF AwaitsIn, KeyOps
<1>2. AwaitsIn(sent, {"save", "refresh"}) => AwaitsIn(sent', {"save", "refresh"})
  BY DEF AwaitsIn
<1>3. AwaitsIn(sent, {"addGoal", "removeGoal"}) => AwaitsIn(sent', {"addGoal", "removeGoal"})
  BY DEF AwaitsIn
<1>4. AwaitsIn(sent, {"toggle"}) => AwaitsIn(sent', {"toggle"})
  BY DEF AwaitsIn
<1>5. Reloads(sent) => Reloads(sent')
  BY DEF Reloads
<1> QED BY <1>1, <1>2, <1>3, <1>4, <1>5 DEF BusyInv, KeysAwaited, FormAwaited, PanelAwaited, Idle

LEMMA AskFields == \A o, of : Post(o, of).op = o /\ Post(o, of).of = of /\ Post(o, of).alive
BY DEF Post

(* One request is removed: what awaited it, and only it, must be freed.    *)
LEMMA OneLess ==
  ASSUME BusyInv, page'.at = page.at, NEW w \in sent, sent \ {w} \subseteq sent',
         access'.busy => access.busy, form'.busy => form.busy,
         panel'.busy => panel.busy, panel'.toggling => panel.toggling,
         w.alive => /\ w.op \in KeyOps \/ (w.op = "keys" /\ w.of.ends) => KeysAwaited(access', sent')
                    /\ w.op \in {"save", "refresh"} => FormAwaited(form', sent')
                    /\ w.op \in {"addGoal", "removeGoal"} => ~panel'.busy
                    /\ w.op = "toggle" => ~panel'.toggling
  PROVE  BusyInv'
<1>1. \A ops : AwaitsIn(sent, ops) /\ ~(w.alive /\ w.op \in ops) => AwaitsIn(sent', ops)
  BY DEF AwaitsIn
<1>2. Reloads(sent) /\ ~(w.alive /\ w.op = "keys" /\ w.of.ends) => Reloads(sent')
  BY DEF Reloads
<1>3. KeysAwaited(access', sent')
  BY <1>1, <1>2 DEF BusyInv, KeysAwaited
<1>4. FormAwaited(form', sent')
  BY <1>1 DEF BusyInv, FormAwaited
<1>5. panel'.busy => AwaitsIn(sent', {"addGoal", "removeGoal"})
  <2>1. CASE w.alive /\ w.op \in {"addGoal", "removeGoal"}
    BY <2>1
  <2>2. CASE ~(w.alive /\ w.op \in {"addGoal", "removeGoal"})
    BY <1>1, <2>2 DEF BusyInv, PanelAwaited
  <2> QED BY <2>1, <2>2
<1>6. panel'.toggling => AwaitsIn(sent', {"toggle"})
  <2>1. CASE w.alive /\ w.op = "toggle"
    BY <2>1
  <2>2. CASE ~(w.alive /\ w.op = "toggle")
    BY <1>1, <2>2 DEF BusyInv, PanelAwaited
  <2> QED BY <2>1, <2>2
<1> QED BY <1>3, <1>4, <1>5, <1>6 DEF BusyInv, PanelAwaited, Idle

LEMMA BecomeBusy ==
  ASSUME ManageTypeOK, BusyInv, NEW pg, pg.at = page.at, pg.at \in {"keys", "edit", "site"},
         NEW rest, \A v \in sent \ rest : v.op = "refresh", Become(pg, rest)
  PROVE  BusyInv'
<1> USE DEF ManageTypeOK
<1>1. CASE pg.at = "edit"
  <2>1. ~form'.busy /\ access' = access
    BY <1>1 DEF Become, NewForm
  <2>2. panel'.busy = panel.busy /\ panel'.toggling = panel.toggling
    BY DEF Become, Panel
  <2>3. ~access.busy /\ ~panel.busy /\ ~panel.toggling
    BY <1>1 DEF BusyInv, Idle
  <2> QED BY <2>1, <2>2, <2>3 DEF BusyInv, KeysAwaited, FormAwaited, PanelAwaited, Idle
<1>2. CASE pg.at # "edit"
  <2>1. access' = access /\ form' = form /\ page' = pg
    BY <1>2 DEF Become
  <2>2. panel'.busy = panel.busy /\ panel'.toggling = panel.toggling
    BY DEF Become, Panel
  <2>3. \A v \in sent : v.op \notin {"refresh", "goals"} => v \in sent'
    BY <1>2 DEF Become, Remaining
  <2>4. ~form.busy
    BY <1>2 DEF BusyInv, Idle
  <2>5. \A ops : AwaitsIn(sent, ops) /\ "goals" \notin ops /\ "refresh" \notin ops => AwaitsIn(sent', ops)
    BY <2>3 DEF AwaitsIn
  <2>6. Reloads(sent) => Reloads(sent')
    BY <2>3 DEF Reloads
  <2>7. KeysAwaited(access', sent') /\ PanelAwaited(panel', sent')
    BY <2>1, <2>2, <2>5, <2>6 DEF BusyInv, KeysAwaited, PanelAwaited, KeyOps
  <2> QED BY <2>1, <2>2, <2>4, <2>7 DEF BusyInv, FormAwaited, Idle
<1> QED BY <1>1, <1>2

LEMMA BusyReply ==
  ASSUME ManageTypeOK, BusyInv, NEW w \in sent, ReplyTo(w)
  PROVE  BusyInv'
<1>1. UNCHANGED <<page, access, form, panel>>
  BY ReplyShape
<1>2. PICK v : /\ sent' = (sent \ {w}) \cup {v} /\ v.alive = w.alive
               /\ \/ v.op = w.op /\ v.of = w.of
                  \/ w.op = "save" /\ v.op = "refresh"
  <2>1. CASE w.op = "save"
    BY <2>1, ReplyShape
  <2>2. CASE w.op # "save"
    <3>1. PICK got : sent' = (sent \ {w}) \cup {Answered(w, got)}
      BY <2>2, ReplyShape
    <3>2. /\ Answered(w, got).op = w.op /\ Answered(w, got).of = w.of
          /\ Answered(w, got).alive = w.alive
      BY DEF Answered
    <3> QED BY <3>1, <3>2
  <2> QED BY <2>1, <2>2
<1>3. \A ops : AwaitsIn(sent, ops) /\ ("save" \in ops => "refresh" \in ops) => AwaitsIn(sent', ops)
  BY <1>2 DEF AwaitsIn
<1>4. Reloads(sent) => Reloads(sent')
  BY <1>2 DEF Reloads
<1> QED BY <1>1, <1>3, <1>4 DEF BusyInv, KeysAwaited, FormAwaited, PanelAwaited, Idle, KeyOps

LEMMA BusySettle ==
  ASSUME ManageTypeOK, BusyInv, NEW w \in sent, Settle(w)
  PROVE  BusyInv'
<1> USE DEF ManageTypeOK
<1>1. CASE ArriveUnseen(w)
  BY <1>1, OneLess DEF ArriveUnseen, shown
<1>2. CASE ArriveKey(w)
  <2>1. access'.busy = access.busy
    BY <1>2 DEF ArriveKey, Reveal, Access
  <2>2. Reloads(sent')
    BY <1>2, AskFields DEF ArriveKey, Reloads
  <2>3. sent \ {w} \subseteq sent' /\ UNCHANGED <<page, form, panel>> /\ w.op \in KeyOps
    BY <1>2 DEF ArriveKey
  <2>4. KeysAwaited(access', sent')
    BY <2>2 DEF KeysAwaited
  <2> QED BY <2>1, <2>3, <2>4, OneLess DEF KeyOps
<1>3. CASE ArriveKeys(w)
  <2> DEFINE a == [access EXCEPT !.list = w.got.keys, !.busy = access.busy /\ ~w.of.ends]
  <2>1. a \in Access /\ a.busy = (access.busy /\ ~w.of.ends)
    BY <1>3 DEF Settle, ArriveKeys, Access, Typed, Gives
  <2>2. /\ access' = Needed(a) /\ sent \ {w} \subseteq sent' /\ w.op = "keys"
        /\ UNCHANGED <<page, form, panel>>
    BY <1>3 DEF ArriveKeys, Holds
  <2> HIDE DEF a
  <2>3. access'.busy = (access.busy /\ ~w.of.ends)
    BY <2>1, <2>2 DEF Needed, Access
  <2>4. w.of.ends => KeysAwaited(access', sent')
    BY <2>3 DEF KeysAwaited
  <2> QED BY <2>2, <2>3, <2>4, OneLess DEF KeyOps
<1>4. CASE ArriveSites(w)
  <2>1. access'.busy = access.busy
    BY <1>4 DEF ArriveSites, Access
  <2> QED BY <1>4, <2>1, OneLess DEF ArriveSites, KeyOps
<1>5. CASE ArriveGoals(w)
  <2>1. /\ panel'.busy => panel.busy /\ w.op = "goals"
        /\ panel'.toggling = panel.toggling /\ w.op \in {"goals", "addGoal", "removeGoal"}
    BY <1>5 DEF ArriveGoals, Panel
  <2> QED BY <1>5, <2>1, OneLess DEF ArriveGoals, KeyOps
<1>6. CASE ArriveToggled(w)
  <2>1. CASE InList(w)
    <3>1. /\ form'.busy = form.busy /\ panel'.busy = panel.busy
          /\ panel'.toggling = (panel.toggling /\ ~w.alive)
      BY <1>6, <2>1 DEF ArriveToggled, Form, Panel
    <3> QED BY <1>6, <2>1, <3>1, OneLess DEF ArriveToggled, KeyOps
  <2>2. CASE ~InList(w)
    <3>1. Nowhere \in Pages
      BY DEF Pages
    <3> QED BY <1>6, <2>2, <3>1, NewBusy DEF ArriveToggled
  <2> QED BY <2>1, <2>2
<1>7. CASE ArriveSaved(w)
  <2> DEFINE hub == [at |-> "site", site |-> w.of.site]
  <2>0. hub \in Pages
    BY <1>7 DEF ArriveSaved, Typed, About, Pages
  <2>1. CASE page = hub
    <3>1. ~form.busy
      BY <2>1 DEF BusyInv, Idle
    <3> QED BY <1>7, <2>1, <3>1, OneLess DEF ArriveSaved, shown, FormAwaited, KeyOps
  <2>2. CASE page # hub /\ page.at = "site" /\ InList(w)
    BY <1>7, <2>2, BecomeBusy DEF ArriveSaved
  <2>3. CASE page # hub /\ ~(page.at = "site" /\ InList(w))
    BY <1>7, <2>0, <2>3, NewBusy DEF ArriveSaved
  <2> QED BY <2>1, <2>2, <2>3
<1> QED BY <1>1, <1>2, <1>3, <1>4, <1>5, <1>6, <1>7 DEF Settle

LEMMA BusyFail ==
  ASSUME ManageTypeOK, BusyInv, NEW w \in sent, FailRequest(w)
  PROVE  BusyInv'
<1> USE DEF ManageTypeOK
<1>1. page' = page /\ sent' = sent \ {w}
  BY DEF FailRequest
<1>2. /\ access'.busy => access.busy
      /\ w.alive /\ (w.op \in KeyOps \/ (w.op = "keys" /\ w.of.ends)) => ~access'.busy
  BY DEF FailRequest, FreedKeys, Access, KeyOps
<1>3. /\ form'.busy => form.busy
      /\ w.alive /\ w.op \in {"save", "refresh"} => ~form'.busy
  BY DEF FailRequest, Form
<1>4. /\ panel'.busy => panel.busy /\ (panel'.toggling => panel.toggling)
      /\ panel'.toggling => panel.toggling
      /\ w.alive /\ w.op \in {"addGoal", "removeGoal"} => ~panel'.busy
      /\ w.alive /\ w.op = "toggle" => ~panel'.toggling
  BY DEF FailRequest, FreedPanel, Panel
<1> QED BY <1>1, <1>2, <1>3, <1>4, OneLess DEF KeysAwaited, FormAwaited

LEMMA BusyPressed ==
  ASSUME ManageTypeOK, BusyInv, AccessPage
  PROVE  BusyInv'
<1>1. PICK a, requests : a \in Access /\ Touch(a, requests) /\ Pressed(a, requests)
  BY PressedShape
<1>2. /\ access' = Needed(a) /\ page' = page /\ form' = form /\ panel' = panel
      /\ sent \cup requests \subseteq sent' /\ page.at = "keys"
  BY <1>1 DEF Touch, Holds, AtKeys
<1>3. access'.busy = a.busy
  BY <1>2 DEF Needed, Access
<1>4. CASE a.busy = access.busy
  BY <1>2, <1>3, <1>4, SameBusy
<1>5. CASE a.busy # access.busy
  <2>1. PICK o, of : o \in KeyOps /\ requests = {Post(o, of)}
    BY <1>1, <1>5 DEF Pressed
  <2>2. AwaitsIn(sent', KeyOps)
    BY <1>2, <2>1, AskFields DEF AwaitsIn
  <2>3. FormAwaited(form', sent') /\ PanelAwaited(panel', sent')
    BY <1>2 DEF BusyInv, Idle, FormAwaited, PanelAwaited
  <2> QED BY <1>2, <2>2, <2>3 DEF BusyInv, KeysAwaited, Idle
<1> QED BY <1>4, <1>5

LEMMA BusyOnSite ==
  ASSUME ManageTypeOK, BusyInv, WebsitePages
  PROVE  BusyInv'
<1> USE DEF ManageTypeOK
<1>1. ASSUME NEW f, Type(f) PROVE BusyInv'
  <2>1. form'.busy = form.busy
    BY <1>1 DEF Type, Form
  <2> QED BY <1>1, <2>1, SameBusy DEF Type
<1>2. CASE Save
  <2>1. AwaitsIn(sent', {"save", "refresh"})
    BY <1>2, AskFields DEF Save, AwaitsIn
  <2>2. page.at = "edit" /\ page' = page /\ access' = access /\ panel' = panel
    BY <1>2 DEF Save, AtForm
  <2>3. ~access.busy /\ ~panel.busy /\ ~panel.toggling
    BY <2>2 DEF BusyInv, Idle
  <2> QED BY <2>1, <2>2, <2>3 DEF BusyInv, KeysAwaited, FormAwaited, PanelAwaited, Idle
<1>3. ASSUME NEW p, NEW o, NEW of, OnHub(p, Post(o, of)),
             p.busy => panel.busy \/ o \in {"addGoal", "removeGoal"},
             p.toggling => panel.toggling \/ o = "toggle"
      PROVE  BusyInv'
  <2>1. /\ page.at = "site" /\ page' = page /\ access' = access /\ form' = form /\ panel' = p
        /\ sent' = sent \cup {Post(o, of)}
    BY <1>3 DEF OnHub
  <2>2. ~access.busy /\ ~form.busy
    BY <2>1 DEF BusyInv, Idle
  <2>3. \A ops : AwaitsIn(sent, ops) \/ o \in ops => AwaitsIn(sent', ops)
    BY <2>1, AskFields DEF AwaitsIn
  <2>4. PanelAwaited(p, sent')
    BY <1>3, <2>3 DEF BusyInv, PanelAwaited
  <2> QED BY <2>1, <2>2, <2>4 DEF BusyInv, KeysAwaited, FormAwaited, Idle
<1>4. \A l, b : /\ [panel EXCEPT !.busy = TRUE].toggling = panel.toggling
                /\ [panel EXCEPT !.toggling = TRUE].busy = panel.busy
                /\ [panel EXCEPT !.list = {}, !.failed = FALSE].busy = panel.busy
                /\ [panel EXCEPT !.list = {}, !.failed = FALSE].toggling = panel.toggling
  BY DEF Panel
<1>5. CASE Toggle
  BY <1>3, <1>4, <1>5 DEF Toggle
<1>6. CASE RetryGoals
  BY <1>3, <1>4, <1>6 DEF RetryGoals
<1>7. ASSUME NEW id, AddGoal(id) PROVE BusyInv'
  BY <1>3, <1>4, <1>7 DEF AddGoal
<1>8. ASSUME NEW id, RemoveGoal(id) PROVE BusyInv'
  BY <1>3, <1>4, <1>8 DEF RemoveGoal
<1> QED BY <1>1, <1>2, <1>5, <1>6, <1>7, <1>8 DEF WebsitePages

LEMMA BusyStep == ManageTypeOK /\ BusyInv /\ [ManageNext]_manageVars => BusyInv'
<1> SUFFICES ASSUME ManageTypeOK, BusyInv, [ManageNext]_manageVars PROVE BusyInv'
  OBVIOUS
<1> USE DEF ManageTypeOK
<1>1. CASE UNCHANGED manageVars
  BY <1>1, SameBusy DEF manageVars
<1>2. ASSUME NEW pg \in Pages, Go(pg) PROVE BusyInv'
  BY <1>2, NewBusy DEF Go
<1>3. ASSUME NEW p \in Projects, ChooseTop(p) PROVE BusyInv'
  <2>1. CASE page = [at |-> "keys", site |-> Nil]
    <3>1. ForProject(access, p) \in Access /\ ForProject(access, p).busy = access.busy
      BY DEF ForProject, Access
    <3>2. access'.busy = access.busy
      BY <1>3, <2>1, <3>1 DEF ChooseTop, Holds, Needed, Access
    <3> QED BY <1>3, <2>1, <3>2, SameBusy DEF ChooseTop, Holds
  <2>2. CASE page # [at |-> "keys", site |-> Nil]
    <3>1. Nowhere \in Pages
      BY DEF Pages
    <3> QED BY <1>3, <2>2, <3>1, NewBusy DEF ChooseTop
  <2> QED BY <2>1, <2>2
<1>4. ASSUME NEW s \in Sites, Jump(s) PROVE BusyInv'
  <2>1. page.at \in {"keys", "edit", "site"}
    BY <1>4 DEF Jump, Pages, Nowhere
  <2>2. Become([at |-> page.at, site |-> s], sent)
    BY <1>4 DEF Jump
  <2>3. [at |-> page.at, site |-> s].at = page.at
    OBVIOUS
  <2>4. \A v \in sent \ sent : v.op = "refresh"
    OBVIOUS
  <2> QED BY <2>1, <2>2, <2>3, <2>4, BecomeBusy
<1>5. CASE Others
  BY <1>5, SameBusy DEF Others, shown
<1> QED BY <1>1, <1>2, <1>3, <1>4, <1>5, BusyPressed, BusyOnSite, BusyReply, BusySettle, BusyFail
        DEF ManageNext, Moving

(* No order of answers, failures and pages left leaves a page disabled.    *)
THEOREM BusyPagesAreFreed == ManageSpec => []BusyIsAwaited
<1>1. ManageInit => BusyInv
  <2> SUFFICES ASSUME ManageInit PROVE BusyInv
    OBVIOUS
  <2>1. ~NewAccess(page, project).busy /\ NewAccess(page, project) \in Access
    BY NewAccessTyped DEF ManageInit, NewAccess
  <2>2. ~access.busy
    BY <2>1 DEF ManageInit, Opened, Needed, Access
  <2>3. ~form.busy /\ ~panel.busy /\ ~panel.toggling
    BY DEF ManageInit, NewForm, NewPanel
  <2> QED BY <2>2, <2>3 DEF BusyInv, KeysAwaited, FormAwaited, PanelAwaited, Idle
<1> QED BY <1>1, BusyStep, BusyMeans, ManageTypeCorrect, PTL DEF ManageSpec

-----------------------------------------------------------------------------
(* Manage: the secret a key works with was shown.                          *)

Telling(w) == w.op \in {"create", "rotate"} /\ w.stage = "answered"
Keeps(ws, vs) == \A w \in ws : Telling(w) => \E v \in vs : Telling(v) /\ v.got = w.got

LEMMA KeepsSecrets ==
  ASSUME NEW ws, NEW vs, Keeps(ws, vs)
  PROVE  SecretsOf(ws) \subseteq SecretsOf(vs)
BY DEF Keeps, Telling, SecretsOf

LEMMA SecretsStay ==
  ASSUME SecretsAreShown, issued' = issued, told \subseteq told', lost \subseteq lost', Keeps(sent, sent')
  PROVE  SecretsAreShown'
<1>1. SecretsOf(sent) \subseteq SecretsOf(sent')
  BY KeepsSecrets
<1>2. SecretsOf(sent)' = SecretsOf(sent')
  BY DEF SecretsOf
<1> QED BY <1>1, <1>2 DEF SecretsAreShown

(* The answer itself goes, once what it tells is told or lost.             *)
LEMMA SecretsGo ==
  ASSUME SecretsAreShown, issued' = issued, told \subseteq told', lost \subseteq lost', NEW w \in sent,
         Keeps(sent \ {w}, sent'), Telling(w) => w.got.secret \in told' \cup lost'
  PROVE  SecretsAreShown'
<1>1. SecretsOf(sent \ {w}) \subseteq SecretsOf(sent')
  BY KeepsSecrets
<1>2. SecretsOf(sent) \subseteq SecretsOf(sent \ {w}) \cup told' \cup lost'
  BY DEF SecretsOf, Telling
<1>3. SecretsOf(sent)' = SecretsOf(sent')
  BY DEF SecretsOf
<1> QED BY <1>1, <1>2, <1>3 DEF SecretsAreShown

LEMMA DroppedKeeps ==
  ASSUME NEW ws, NEW vs
  PROVE  Keeps(ws, Dropped(ws) \cup vs)
<1> SUFFICES ASSUME NEW w \in ws, Telling(w)
             PROVE  \E v \in Dropped(ws) \cup vs : Telling(v) /\ v.got = w.got
  BY DEF Keeps
<1>1. Orphan(w) \in Dropped(ws)
  BY DEF Dropped, Telling, Reads
<1>2. Telling(Orphan(w)) /\ Orphan(w).got = w.got
  BY DEF Orphan, Telling
<1> QED BY <1>1, <1>2

LEMMA BecomeKeeps ==
  ASSUME NEW pg, NEW rest, Become(pg, rest)
  PROVE  Keeps(rest, sent')
<1>1. CASE pg.at = "edit"
  <2>1. sent' = Dropped(rest) \cup {}
    BY <1>1 DEF Become
  <2> QED BY <2>1, DroppedKeeps
<1>2. CASE pg.at # "edit"
  <2>1. Remaining(rest) \subseteq sent'
    BY <1>2 DEF Become
  <2> QED BY <2>1 DEF Remaining, Keeps, Telling
<1> QED BY <1>1, <1>2

LEMMA SecretsReply ==
  ASSUME ManageTypeOK, SecretsAreShown, NEW w \in sent, ReplyTo(w)
  PROVE  SecretsAreShown'
<1> USE DEF ManageTypeOK
<1>0. w.stage = "sent" /\ told' = told /\ lost' = lost
  BY ReplyShape
<1>1. ~Telling(w)
  BY <1>0 DEF Telling
<1>2. ASSUME sent \ {w} \subseteq sent'
      PROVE  Keeps(sent, sent') /\ SecretsOf(sent) \subseteq SecretsOf(sent')
  <2>1. Keeps(sent, sent')
    BY <1>1, <1>2 DEF Keeps
  <2> QED BY <2>1, KeepsSecrets
<1>3. SecretsOf(sent)' = SecretsOf(sent')
  BY DEF SecretsOf
<1>4. ASSUME NEW got, w.op \in {"create", "rotate"}, Serve(w, [secret |-> got])
      PROVE  got \in SecretsOf(sent') /\ SecretsOf(sent) \subseteq SecretsOf(sent')
  <2> DEFINE v == Answered(w, [secret |-> got])
  <2>1. v \in sent' /\ sent \ {w} \subseteq sent'
    BY <1>4 DEF Serve
  <2>2. v.op = w.op /\ v.stage = "answered" /\ v.got.secret = got
    BY DEF Answered
  <2>3. got \in SecretsOf(sent')
    BY <1>4, <2>1, <2>2 DEF SecretsOf
  <2> QED BY <1>2, <2>1, <2>3
<1>5. CASE Issue(w)
  <2>1. PICK k \in KeyIds :
          /\ issued' = [issued EXCEPT ![k] = [project |-> w.of.scope.project, website |-> w.of.scope.website,
                                              secret |-> 1, live |-> TRUE]]
          /\ Serve(w, [secret |-> <<k, 1>>])
    BY <1>5 DEF Issue
  <2>2. <<k, 1>> \in SecretsOf(sent') /\ SecretsOf(sent) \subseteq SecretsOf(sent')
    BY <1>4, <1>5, <2>1 DEF Issue
  <2>3. issued'[k].secret = 1 /\ \A j \in KeyIds \ {k} : issued'[j] = issued[j]
    BY <2>1
  <2> QED BY <1>0, <1>3, <2>2, <2>3 DEF SecretsAreShown
<1>6. CASE OnKey(w)
  <2> DEFINE k == w.of.key
  <2>1. k \in KeyIds
    BY <1>6 DEF OnKey, Typed, About
  <2>2. issued[k] \in Key
    BY <2>1
  <2>3. /\ issued'[k].secret = IF w.op = "rotate" THEN issued[k].secret + 1 ELSE issued[k].secret
        /\ issued'[k].live => issued[k].live
        /\ \A j \in KeyIds \ {k} : issued'[j] = issued[j]
    BY <1>6, <2>1, <2>2 DEF OnKey, Key
  <2>4. Serve(w, [secret |-> <<k, issued[k].secret + 1>>])
    BY <1>6 DEF OnKey
  <2>5. SecretsOf(sent) \subseteq SecretsOf(sent')
    BY <1>2, <2>4 DEF Serve
  <2>6. w.op = "rotate" => <<k, issued[k].secret + 1>> \in SecretsOf(sent')
    BY <1>4, <2>4
  <2> HIDE DEF k
  <2>7. ASSUME NEW j \in KeyIds, issued'[j].live
        PROVE  <<j, issued'[j].secret>> \in told \cup lost \cup SecretsOf(sent')
    <3>1. CASE j = k /\ w.op = "rotate"
      BY <2>3, <2>6, <3>1
    <3>2. CASE j # k \/ w.op # "rotate"
      <4>1. issued[j].live /\ issued'[j].secret = issued[j].secret
        BY <2>3, <2>7, <3>2
      <4> QED BY <2>5, <4>1 DEF SecretsAreShown
    <3> QED BY <3>1, <3>2
  <2> QED BY <1>0, <1>3, <2>7 DEF SecretsAreShown
<1>7. CASE OnGoal(w) \/ OnSettings(w) \/ Read(w)
  <2>1. issued' = issued /\ sent \ {w} \subseteq sent'
    BY <1>7 DEF OnGoal, OnSettings, Read, Serve, backend
  <2> QED BY <1>0, <1>2, <2>1, SecretsStay
<1> QED BY <1>5, <1>6, <1>7 DEF ReplyTo

LEMMA SecretsSettle ==
  ASSUME ManageTypeOK, SecretsAreShown, NEW w \in sent, Settle(w)
  PROVE  SecretsAreShown'
<1> USE DEF ManageTypeOK
<1>0. issued' = issued /\ w.stage = "answered" /\ Typed(w)
  BY DEF Settle, backend
<1>1. \A vs : sent \ {w} \subseteq vs => Keeps(sent \ {w}, vs)
  BY DEF Keeps
<1>2. CASE ArriveUnseen(w)
  <2>1. Telling(w) => w.got.secret \in lost'
    BY <1>2 DEF ArriveUnseen, SecretsOf, Telling
  <2> QED BY <1>0, <1>1, <1>2, <2>1, SecretsGo DEF ArriveUnseen
<1>3. CASE ArriveKey(w)
  <2>1. Telling(w) => w.got.secret \in told'
    <3>1. SUFFICES ASSUME Telling(w) PROVE w.got.secret \in told'
      OBVIOUS
    <3>2. w.got.secret \in KeyIds \X Nat
      BY <1>0, <3>1 DEF Typed, Gives, Telling
    <3>3. w.got.secret # Nil
      BY <3>2, ManageAssumption
    <3>4. Reveal(w).shown = w.got.secret
      BY <3>1 DEF Reveal, Telling, Access
    <3> QED BY <1>3, <3>3, <3>4 DEF ArriveKey
  <2>2. sent \ {w} \subseteq sent' /\ told \subseteq told' /\ lost' = lost
    BY <1>3 DEF ArriveKey
  <2> QED BY <1>0, <1>1, <2>1, <2>2, SecretsGo
<1>4. ASSUME ~Telling(w), told' = told, lost' = lost, Keeps(sent \ {w}, sent') PROVE SecretsAreShown'
  BY <1>0, <1>4, SecretsGo
<1>5. CASE ArriveKeys(w) \/ ArriveSites(w) \/ ArriveGoals(w)
  <2>1. told' = told /\ lost' = lost /\ sent \ {w} \subseteq sent' /\ ~Telling(w)
    BY <1>5 DEF ArriveKeys, Holds, ArriveSites, ArriveGoals, Telling
  <2> QED BY <1>1, <1>4, <2>1
<1>6. CASE ArriveToggled(w)
  <2>1. told' = told /\ lost' = lost /\ ~Telling(w)
    BY <1>6 DEF ArriveToggled, Relist, Telling
  <2>2. Keeps(sent \ {w}, sent')
    BY <1>1, <1>6, DroppedKeeps DEF ArriveToggled, Show
  <2> QED BY <1>4, <2>1, <2>2
<1>7. CASE ArriveSaved(w)
  <2>1. told' = told /\ lost' = lost /\ ~Telling(w)
    BY <1>7 DEF ArriveSaved, Relist, Telling
  <2>2. Keeps(sent \ {w}, sent')
    BY <1>1, <1>7, DroppedKeeps, BecomeKeeps DEF ArriveSaved, Show
  <2> QED BY <1>4, <2>1, <2>2
<1> QED BY <1>2, <1>3, <1>5, <1>6, <1>7 DEF Settle

LEMMA SecretsStep == ManageTypeOK /\ SecretsAreShown /\ [ManageNext]_manageVars => SecretsAreShown'
<1> SUFFICES ASSUME ManageTypeOK, SecretsAreShown, [ManageNext]_manageVars PROVE SecretsAreShown'
  OBVIOUS
<1> USE DEF ManageTypeOK
<1>0. \A vs : sent \subseteq vs => Keeps(sent, vs)
  BY DEF Keeps
<1>1. CASE UNCHANGED manageVars
  BY <1>0, <1>1, SecretsStay DEF manageVars
<1>2. ASSUME NEW pg \in Pages, Go(pg) PROVE SecretsAreShown'
  BY <1>2, DroppedKeeps, SecretsStay DEF Go, Show, backend
<1>3. ASSUME NEW p \in Projects, ChooseTop(p) PROVE SecretsAreShown'
  <2>1. Keeps(sent, sent')
    BY <1>0, <1>3, DroppedKeeps DEF ChooseTop, Holds, Show
  <2> QED BY <1>3, <2>1, SecretsStay DEF ChooseTop, backend
<1>4. ASSUME NEW s \in Sites, Jump(s) PROVE SecretsAreShown'
  BY <1>4, BecomeKeeps, SecretsStay DEF Jump, backend
<1>5. CASE AccessPage
  <2>1. PICK a, requests : Touch(a, requests)
    BY <1>5, PressedShape
  <2> QED BY <1>0, <2>1, SecretsStay DEF Touch, Holds, backend
<1>6. CASE WebsitePages
  BY <1>0, <1>6, WebsiteShape, SecretsStay
<1>7. CASE Others
  <2>1. sent' = sent /\ told' = told
    BY <1>7 DEF Others
  <2>2. SecretsOf(sent)' = SecretsOf(sent)
    BY <2>1 DEF SecretsOf
  <2>3. CASE issued' = issued /\ lost' = lost
    BY <1>0, <2>1, <2>3, SecretsStay
  <2>4. CASE \E k \in KeyIds, stays \in BOOLEAN :
               /\ issued[k].live
               /\ issued' = [issued EXCEPT ![k].secret = @ + 1, ![k].live = stays]
               /\ lost' = lost \cup {<<k, issued[k].secret + 1>>}
    <3>1. PICK k \in KeyIds, stays \in BOOLEAN :
               /\ issued' = [issued EXCEPT ![k].secret = @ + 1, ![k].live = stays]
               /\ lost' = lost \cup {<<k, issued[k].secret + 1>>}
      BY <2>4
    <3>2. issued[k] \in Key
      OBVIOUS
    <3>3. issued'[k].secret = issued[k].secret + 1 /\ \A j \in KeyIds \ {k} : issued'[j] = issued[j]
      BY <3>1, <3>2 DEF Key
    <3> QED BY <2>1, <2>2, <3>1, <3>3 DEF SecretsAreShown
  <2> QED BY <1>7, <2>3, <2>4 DEF Others
<1>8. ASSUME NEW w \in sent, FailRequest(w) PROVE SecretsAreShown'
  <2>1. Telling(w) => w.got.secret \in lost'
    BY <1>8 DEF FailRequest, SecretsOf, Telling
  <2>2. issued' = issued /\ told' = told /\ lost \subseteq lost' /\ sent' = sent \ {w}
    BY <1>8 DEF FailRequest, backend
  <2>3. Keeps(sent \ {w}, sent')
    BY <2>2 DEF Keeps
  <2> QED BY <2>1, <2>2, <2>3, SecretsGo
<1> QED BY <1>1, <1>2, <1>3, <1>4, <1>5, <1>6, <1>7, <1>8, SecretsReply, SecretsSettle
        DEF ManageNext, Moving

(* The secret a key works with was on the screen, is on its way there, or  *)
(* its answer was lost.                                                    *)
THEOREM SecretsWereShown == ManageSpec => []SecretsAreShown
<1>1. ManageInit => SecretsAreShown
  BY DEF ManageInit, Unissued, SecretsAreShown
<1> QED BY <1>1, SecretsStep, ManageTypeCorrect, PTL DEF ManageSpec

=============================================================================
