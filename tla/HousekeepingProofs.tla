-------------------------- MODULE HousekeepingProofs --------------------------
(***************************************************************************)
(* Proofs about Housekeeping, for any tables, limits, instances and        *)
(* horizon.                                                                *)
(*                                                                         *)
(* SaltInv: until its day is over a day has had at most one salt, and it   *)
(* is still there; so an identifier taken on its day is of the first salt. *)
(* KeptInv: the job looks no further than rows that were expired when it   *)
(* started.  SlotInv: a path that was counted has a slot seen no more than *)
(* a day before, for as long as that slot is kept.                         *)
(***************************************************************************)
EXTENDS Housekeeping, FiniteSetTheorems, TLAPS

FirstOnItsDay(salt, taken) == salt.n > 0 /\ DayOf(taken) = salt.day => salt.n = 1

SaltInv ==
  /\ \A d \in Days : DayOf(now) <= d => made[d] = 0 \/ (made[d] = 1 /\ [day |-> d, n |-> 1] \in salts)
  /\ \A s \in salts : s.n \in 1..made[s.day]
  /\ \A i \in Isolates : cache[i] # NoSalt => cache[i].n \in 1..made[cache[i].day]
  /\ hit.pc # "idle" => FirstOnItsDay(hit.salt, hit.taken)
  /\ \A e \in counted : FirstOnItsDay(e.visitor, e.taken)

KeptInv == cron.pc # "idle" => cron.before + Keep <= now

Fresh(s, at) == at <= s.seen + Day
CoveredBy(S, t, w, p, at) ==
  at + Keep <= t + Day \/ \E s \in S : s.website = w /\ s.path = p /\ Fresh(s, at)
Covers(w, p, at) == CoveredBy(slots, now, w, p, at)

SlotInv ==
  /\ \A w \in Websites : Cardinality({s \in slots : s.website = w}) <= MaxPaths
  /\ hit.pc = "known" => \A s \in HitSlot : Fresh(s, hit.arrived)
  /\ hit.pc = "count" /\ hit.event.pixel => Covers(hit.event.website, hit.event.page, hit.arrived)
  /\ \A e \in counted : e.pixel => Covers(e.website, e.page, e.at)

(***************************************************************************)
(* Numbers, rows and batches.                                              *)
(***************************************************************************)
LEMMA DaysGrow ==
  ASSUME NEW a \in Nat, NEW b \in Nat, a <= b
  PROVE  DayOf(a) \in Nat /\ DayOf(b) \in Nat /\ DayOf(a) <= DayOf(b)
  BY ReportsAssumption DEF DayOf

LEMMA DayInDays ==
  ASSUME NEW a \in 0..Horizon
  PROVE  DayOf(a) \in Days
  BY DaysGrow, BoundsAssumption DEF Days

(* Two events in one row of a per-minute table are of the same minute.     *)
LEMMA RowHasMinute ==
  ASSUME NEW t \in MinuteTables, NEW e, NEW x, Row(t, e) = Row(t, x)
  PROVE  e.at = x.at
  BY DEF Row, MinuteTables

(* A finite set has a subset of every size up to its own.                  *)
LEMMA SubsetOfSize ==
  ASSUME NEW S, IsFiniteSet(S), NEW k \in Nat, k <= Cardinality(S)
  PROVE  \E T \in SUBSET S : Cardinality(T) = k
<1>1. PICK f : f \in Bijection(1..Cardinality(S), S)
  BY FS_CardinalityType DEF ExistsBijection
<1> DEFINE g == [n \in 1..k |-> f[n]]
           T == {f[n] : n \in 1..k}
<1>2. Cardinality(S) \in Nat
  BY FS_CardinalityType
<1>3. 1..k \subseteq 1..Cardinality(S)
  BY <1>2
<1>4. T \subseteq S
  BY <1>1, <1>3 DEF Bijection, Injection
<1>5. g \in Bijection(1..k, T)
  <2>1. g \in [1..k -> T]
    OBVIOUS
  <2>2. \A m, n \in 1..k : g[m] = g[n] => m = n
    BY <1>1, <1>3 DEF Bijection, Injection, IsInjective
  <2>3. \A y \in T : \E n \in 1..k : g[n] = y
    OBVIOUS
  <2> QED
    BY <2>1, <2>2, <2>3 DEF Bijection, Injection, Surjection, IsInjective
<1>6. ExistsBijection(1..k, T)
  BY <1>5 DEF ExistsBijection
<1>7. Cardinality(T) = k
  BY <1>6, FS_CountingElements
<1> QED
  BY <1>4, <1>7

LEMMA RowsFinite ==
  ASSUME TypeOK, NEW t \in Expiring
  PROVE  IsFiniteSet(ExpiredRows(t))
<1> DEFINE f == [x \in Before(t) |-> RowOf(t, x)]
<1>1. IsFiniteSet(Before(t))
  <2>1. CASE t = "slots"
    BY <2>1, FS_Subset DEF TypeOK, Before
  <2>2. CASE t # "slots"
    <3>1. stored[t] \subseteq counted
      BY <2>2 DEF TypeOK
    <3>2. Before(t) \in SUBSET counted
      BY <2>2, <3>1 DEF Before
    <3> QED
      BY <3>2, FS_Subset DEF TypeOK
  <2> QED
    BY <2>1, <2>2
<1>2. f \in Surjection(Before(t), ExpiredRows(t))
  BY DEF ExpiredRows, Surjection
<1> QED
  BY <1>1, <1>2, FS_Surjection

(* A batch holds rows that are expired, and nothing else.                  *)
LEMMA BatchIsExpired ==
  ASSUME TypeOK, NEW t \in Expiring
  PROVE  Batch(t) \subseteq ExpiredRows(t)
<1> DEFINE all == ExpiredRows(t)
<1>1. CASE Cardinality(all) <= BatchRows
  BY <1>1 DEF Batch
<1>2. CASE ~(Cardinality(all) <= BatchRows)
  <2>1. Cardinality(all) \in Nat
    BY RowsFinite, FS_CardinalityType
  <2>2. \E rows \in SUBSET all : Cardinality(rows) = BatchRows
    BY <1>2, <2>1, RowsFinite, SubsetOfSize, BatchAssumption
  <2> QED
    BY <1>2, <2>2 DEF Batch
<1> QED
  BY <1>1, <1>2

(* A DELETE of batches removes no event and no slot from within the time   *)
(* the run looks back over.                                                *)
LEMMA DeleteKeeps ==
  ASSUME TypeOK, NEW tables \in SUBSET Expiring, Delete(tables)
  PROVE  /\ stored' \in [Expiring \ {"slots"} -> SUBSET counted]
         /\ \A t \in (Expiring \cap MinuteTables) : \A e \in stored[t] :
              e.at >= cron.before => e \in stored'[t]
         /\ slots' \subseteq slots
         /\ \A s \in slots : s.seen >= cron.before => s \in slots'
<1> USE DEF TypeOK
<1>1. stored' \in [Expiring \ {"slots"} -> SUBSET counted]
  BY DEF Delete
<1>2. ASSUME NEW t \in Expiring \cap MinuteTables, NEW e \in stored[t], e.at >= cron.before
      PROVE  e \in stored'[t]
  <2>1. t # "slots" /\ t # "seen"
    BY DEF MinuteTables
  <2>2. e \in counted /\ e.at \in Nat
    BY <2>1, <1>2
  <2>3. ASSUME RowOf(t, e) \in ExpiredRows(t) PROVE FALSE
    <3>1. PICK x \in Before(t) : RowOf(t, e) = RowOf(t, x)
      BY <2>3 DEF ExpiredRows
    <3>2. x \in counted /\ x.at < cron.before
      BY <2>1 DEF Before
    <3>3. e.at = x.at
      BY <2>1, <3>1, RowHasMinute DEF RowOf
    <3>4. x.at \in Nat /\ cron.before \in Nat
      BY <3>2, BoundsAssumption DEF Run
    <3> QED
      BY <1>2, <3>2, <3>3, <3>4
  <2>4. RowOf(t, e) \notin Batch(t)
    BY <2>3, BatchIsExpired
  <2> QED
    BY <1>2, <2>1, <2>4 DEF Delete
<1>3. slots' \subseteq slots
  BY DEF Delete
<1>4. ASSUME NEW s \in slots, s.seen >= cron.before PROVE s \in slots'
  <2>1. s.seen \in Nat /\ cron.before \in Nat
    BY BoundsAssumption DEF Run, Slot
  <2>2. s \notin ExpiredRows("slots")
    BY <1>4, <2>1 DEF ExpiredRows, Before, RowOf
  <2>3. s \notin Batch("slots")
    BY <2>2, BatchIsExpired, TablesAssumption
  <2> QED
    BY <2>3 DEF Delete
<1> QED
  BY <1>1, <1>2, <1>3, <1>4

(***************************************************************************)
(* Types.                                                                  *)
(***************************************************************************)
LEMMA TypeInit == Init => TypeOK
<1> SUFFICES ASSUME Init PROVE TypeOK
  OBVIOUS
<1>1. 0 \in Days /\ 0 \in 0..Horizon
  BY DaysGrow, BoundsAssumption, ReportsAssumption DEF Days, DayOf
<1>2. made \in [Days -> Nat] /\ cache \in [Isolates -> Salt]
  BY <1>1 DEF Init, NoSalt, Salt, Days
<1>3. cron \in Run
  BY <1>1, BatchAssumption DEF Init, IdleCron, Run
<1> QED
  BY <1>1, <1>2, <1>3, FS_EmptySet, BoundsAssumption, TablesAssumption
     DEF Init, TypeOK, Salt, Slot, IdleHit, IdleCron

LEMMA TypeStep == TypeOK /\ [Next]_vars => TypeOK'
<1> SUFFICES ASSUME TypeOK, [Next]_vars PROVE TypeOK'
  OBVIOUS
<1> USE DEF TypeOK, clock, visitorVars, data
<1>0. Horizon \in Nat /\ MaxPasses \in Nat /\ MaxEvents \in Nat /\ MaxFailures \in Nat
  BY BoundsAssumption, BatchAssumption
<1>1. CASE Tick
  <2>1. hit.pc # "idle" => hit.arrived \in 0..now /\ hit.taken \in 0..now
    BY DEF IdleHit, Request
  <2>2. now' \in 0..Horizon /\ now' = now + 1
    BY <1>0, <1>1 DEF Tick
  <2>3. UNCHANGED <<stored, slots, missing, salts, made, cache, hit, cron, sent, counted, failures>>
    BY <1>1 DEF Tick
  <2>4. \A e \in counted' : e.at \in 0..now' /\ e.taken \in 0..now'
    BY <2>2, <2>3
  <2> QED
    BY <2>1, <2>2, <2>3, <2>4
<1>2. CASE Migrate
  BY <1>2 DEF Migrate
<1>3. ASSUME NEW i \in Isolates, NEW e \in Templates, Arrive(i, e) PROVE TypeOK'
  <2>1. NoSalt \in Salt
    BY DayInDays, <1>0, DaysGrow, ReportsAssumption DEF NoSalt, Salt, Days
  <2>2. hit' \in Request
    BY <1>3, <2>1 DEF Arrive, Request
  <2> QED
    BY <1>0, <1>3, <2>2 DEF Arrive
<1>4. CASE InsertSalt
  <2>1. hit \in Request /\ DayOf(hit.arrived) \in Days
    BY <1>4, DayInDays DEF InsertSalt, IdleHit, Request
  <2>2. hit' \in Request
    BY <1>4, <2>1 DEF InsertSalt, Request
  <2>3. made' \in [Days -> Nat] /\ salts' \subseteq Salt
    BY <1>4, <2>1 DEF InsertSalt, Salt
  <2> QED
    BY <1>4, <2>2, <2>3 DEF InsertSalt
<1>5. CASE SelectSalt
  <2>1. hit \in Request
    BY <1>5 DEF SelectSalt, IdleHit
  <2> DEFINE mine == {s \in salts : s.day = DayOf(hit.arrived)}
             s == CHOOSE s \in mine : TRUE
  <2>2. CASE mine = {}
    BY <1>5, <2>1, <2>2 DEF SelectSalt, Request
  <2>3. CASE mine # {}
    <3>1. s \in Salt
      BY <2>3
    <3>2. cache' \in [Isolates -> Salt] /\ hit' \in Request
      BY <1>5, <2>1, <2>3, <3>1 DEF SelectSalt, Request
    <3>3. hit'.arrived = hit.arrived /\ hit'.taken = now /\ hit.arrived <= now
      BY <1>5, <2>1, <2>3 DEF SelectSalt, Request
    <3> QED
      BY <1>5, <3>2, <3>3 DEF SelectSalt
  <2> QED
    BY <2>2, <2>3
<1>6. CASE NeedsNoSlot
  <2>1. hit \in Request
    BY <1>6 DEF NeedsNoSlot, IdleHit
  <2> QED
    BY <1>6, <2>1 DEF NeedsNoSlot, Request
<1>7. CASE InsertSlot
  <2>1. hit \in Request
    BY <1>7 DEF InsertSlot, IdleHit
  <2>2. [website |-> hit.event.website, path |-> hit.event.page, seen |-> hit.arrived] \in Slot
    BY <2>1, TablesAssumption DEF Request, Slot
  <2>3. slots' \subseteq Slot /\ IsFiniteSet(slots')
    BY <1>7, <2>2, FS_AddElement DEF InsertSlot
  <2>4. hit' \in Request
    BY <1>7, <2>1 DEF InsertSlot, Request
  <2> QED
    BY <1>7, <2>3, <2>4 DEF InsertSlot
<1>8. CASE RefreshSlot
  <2>1. hit \in Request
    BY <1>8 DEF RefreshSlot, IdleHit
  <2> DEFINE g == [s \in slots |->
                    IF s \in HitSlot /\ s.seen + Day < hit.arrived THEN [s EXCEPT !.seen = hit.arrived] ELSE s]
  <2>2. slots' \subseteq Slot
    BY <1>8, <2>1 DEF RefreshSlot, Request, Slot
  <2>3. g \in Surjection(slots, slots')
    BY <1>8 DEF RefreshSlot, Surjection
  <2>4. IsFiniteSet(slots')
    BY <2>3, FS_Surjection
  <2>5. hit' \in Request
    BY <1>8, <2>1 DEF RefreshSlot, Request
  <2> QED
    BY <1>8, <2>2, <2>4, <2>5 DEF RefreshSlot
<1>9. CASE KnownSlot
  <2>1. hit \in Request
    BY <1>9 DEF KnownSlot, IdleHit
  <2> QED
    BY <1>9, <2>1 DEF KnownSlot, IdleHit, Request
<1>10. CASE Count
  <2>1. hit \in Request
    BY <1>10 DEF Count, IdleHit
  <2> DEFINE visitor == IF hit.salt = NoSalt THEN [day |-> 0, n |-> 0, of |-> sent]
                        ELSE [day |-> hit.salt.day, n |-> hit.salt.n, of |-> hit.event.person]
             e == [kind |-> hit.event.kind, website |-> hit.event.website, page |-> hit.event.page,
                   label |-> hit.event.label, pixel |-> hit.event.pixel,
                   id |-> sent, at |-> hit.arrived, visitor |-> visitor, taken |-> hit.taken,
                   lost |-> missing]
  <2>2. visitor.day \in Days /\ visitor.n \in Nat
    <3>1. 0 \in Days
      BY DayInDays, <1>0, DaysGrow, ReportsAssumption DEF Days
    <3> QED
      BY <2>1, <3>1 DEF Request, Salt
  <2>3. counted' = counted \cup {e}
    BY <1>10 DEF Count
  <2>4. stored' \in [Expiring \ {"slots"} -> SUBSET counted']
    BY <1>10, <2>3 DEF Count
  <2>5. /\ e.kind \in Kinds /\ e.website \in Websites /\ e.page \in Names
    BY <2>1, TablesAssumption DEF Request
  <2> QED
    <3>1. hit' = IdleHit /\ UNCHANGED <<now, missing, slots, salts, made, cache, cron, sent, failures>>
      BY <1>10 DEF Count
    <3>2. e.at \in 0..now /\ e.taken \in 0..now
      BY <2>1, <1>0, <1>10 DEF Request, Count
    <3>3. \A f \in counted' : /\ f.kind \in Kinds /\ f.website \in Websites /\ f.page \in Names
                              /\ f.at \in 0..now /\ f.taken \in 0..now
                              /\ f.visitor.day \in Days /\ f.visitor.n \in Nat
      BY <2>2, <2>3, <2>5, <3>2
    <3>4. IsFiniteSet(counted')
      BY <2>3, FS_AddElement
    <3> QED
      BY <2>4, <3>1, <3>3, <3>4 DEF IdleHit
<1>11. CASE Start
  BY <1>0, <1>11, KeepAssumption DEF Start, Run
<1>12. CASE Pass
  <2>1. CASE cron.pending \cap missing = {}
    <3>1. Delete(cron.pending) /\ cron.pending \in SUBSET Expiring
      BY <1>12, <2>1 DEF Pass, Run
    <3>2. stored' \in [Expiring \ {"slots"} -> SUBSET counted] /\ slots' \subseteq slots
      BY <3>1, DeleteKeeps
    <3>3. cron' \in Run /\ cron'.pc = "pass"
      <4>1. StillFull(cron.pending) \in SUBSET Expiring
        BY <3>1 DEF StillFull
      <4>2. cron.passes + 1 \in 0..MaxPasses
        BY <1>0, <1>12 DEF Pass, Run
      <4>3. cron.pc = "pass" /\ cron' = [cron EXCEPT !.pending = StillFull(cron.pending), !.passes = @ + 1]
        BY <1>12, <2>1 DEF Pass
      <4> QED
        BY <4>1, <4>2, <4>3 DEF Run
    <3> QED
      BY <1>12, <3>2, <3>3, FS_Subset DEF Pass
  <2>2. CASE cron.pending \cap missing # {}
    BY <1>0, <1>12, <2>2 DEF Pass, Run
  <2> QED
    BY <2>1, <2>2
<1>13. CASE Single
  <2>1. PICK t \in cron.single :
           /\ Delete({t} \ missing)
           /\ cron' = [cron EXCEPT !.single = @ \ {t}, !.pending = @ \cup StillFull({t} \ missing)]
    BY <1>13 DEF Single
  <2>2. {t} \ missing \in SUBSET Expiring
    BY DEF Run
  <2>3. stored' \in [Expiring \ {"slots"} -> SUBSET counted] /\ slots' \subseteq slots
    BY <2>1, <2>2, DeleteKeeps
  <2>4. cron' \in Run /\ (cron'.pc = "single" => cron'.passes < MaxPasses)
    BY <2>1, <2>2 DEF Run, StillFull
  <2> QED
    BY <1>13, <2>3, <2>4, FS_Subset DEF Single
<1>14. CASE SinglesDone \/ PassesDone \/ DeleteSalts \/ JobFails
  <2>1. IdleCron \in Run /\ IdleCron.pc = "idle"
    BY <1>0 DEF IdleCron, Run
  <2>2. CASE SinglesDone
    <3>1. cron.passes + 1 \in 0..MaxPasses
      BY <1>0, <2>2 DEF SinglesDone, Run
    <3>2. cron' = [cron EXCEPT !.pc = "pass", !.passes = cron.passes + 1]
      BY <2>2 DEF SinglesDone
    <3>3. cron' \in Run /\ cron'.pc = "pass"
      BY <3>1, <3>2 DEF Run
    <3> QED
      BY <2>2, <3>3 DEF SinglesDone
  <2>3. CASE PassesDone
    BY <2>3 DEF PassesDone, Run
  <2>4. CASE DeleteSalts
    BY <2>1, <2>4 DEF DeleteSalts
  <2>5. CASE JobFails
    BY <1>0, <2>1, <2>5 DEF JobFails
  <2> QED
    BY <1>14, <2>2, <2>3, <2>4, <2>5
<1>15. CASE UNCHANGED vars
  BY <1>15 DEF vars
<1> QED
  BY <1>1, <1>2, <1>3, <1>4, <1>5, <1>6, <1>7, <1>8, <1>9, <1>10, <1>11, <1>12, <1>13, <1>14, <1>15
     DEF Next, CollectorStep, RunStep

(* Every behaviour is well typed.                                          *)
THEOREM TypeCorrect == Spec => []TypeOK
  BY TypeInit, TypeStep, PTL DEF Spec

(***************************************************************************)
(* Salts.                                                                  *)
(***************************************************************************)
LEMMA SaltInit == Init => SaltInv
  BY DEF Init, SaltInv, IdleHit, Days

(* A salt of today, wherever it was found, is the first.                   *)
LEMMA TodayIsFirst ==
  ASSUME TypeOK, SaltInv, NEW s \in Salt, s.n \in 1..made[s.day], DayOf(now) <= s.day
  PROVE  s.n = 1
<1>1. s.day \in Days /\ s.n \in Nat
  BY DEF Salt
<1>2. made[s.day] = 0 \/ made[s.day] = 1
  BY <1>1 DEF SaltInv
<1> QED
  BY <1>1, <1>2

LEMMA SaltStep == TypeOK /\ TypeOK' /\ SaltInv /\ [Next]_vars => SaltInv'
<1> SUFFICES ASSUME TypeOK, TypeOK', SaltInv, [Next]_vars PROVE SaltInv'
  OBVIOUS
<1> USE DEF SaltInv, clock, visitorVars, data
<1>0. Horizon \in Nat /\ now \in Nat /\ DayOf(now) \in Nat
  BY BoundsAssumption, DaysGrow DEF TypeOK
<1>1. CASE Tick
  <2>1. now' = now + 1
    BY <1>1 DEF Tick
  <2>2. DayOf(now) <= DayOf(now') /\ DayOf(now') \in Nat
    BY <1>0, <2>1, DaysGrow
  <2>3. UNCHANGED <<salts, made, cache, hit, counted>>
    BY <1>1 DEF Tick
  <2> QED
    BY <1>0, <2>2, <2>3 DEF Days, FirstOnItsDay
<1>2. ASSUME NEW i \in Isolates, NEW e \in Templates, Arrive(i, e) PROVE SaltInv'
  <2>1. hit'.taken = now /\ hit'.salt = IF cache[i] # NoSalt /\ cache[i].day = DayOf(now) THEN cache[i] ELSE NoSalt
    BY <1>2 DEF Arrive
  <2>2. FirstOnItsDay(hit'.salt, hit'.taken)
    <3>1. CASE cache[i] # NoSalt /\ cache[i].day = DayOf(now)
      BY <1>0, <2>1, <3>1, TodayIsFirst DEF TypeOK, FirstOnItsDay
    <3>2. CASE ~(cache[i] # NoSalt /\ cache[i].day = DayOf(now))
      BY <2>1, <3>2 DEF FirstOnItsDay, NoSalt
    <3> QED
      BY <3>1, <3>2
  <2>3. UNCHANGED <<now, salts, made, cache, counted>>
    BY <1>2 DEF Arrive
  <2> QED
    BY <2>2, <2>3 DEF FirstOnItsDay
<1>3. CASE InsertSalt
  <2> DEFINE d == DayOf(hit.arrived)
  <2>1. hit \in Request /\ d \in Days /\ d \in Nat /\ d <= DayOf(now)
    BY <1>0, <1>3, DayInDays, DaysGrow DEF InsertSalt, IdleHit, Request, TypeOK
  <2>2. hit'.salt = hit.salt /\ hit'.taken = hit.taken /\ UNCHANGED <<now, cache, counted>>
    BY <1>3, <2>1 DEF InsertSalt, Request
  <2>3. hit.pc # "idle"
    BY <1>3 DEF InsertSalt
  <2>4. CASE \E s \in salts : s.day = d
    BY <1>3, <2>2, <2>3, <2>4 DEF InsertSalt, FirstOnItsDay
  <2>5. CASE ~\E s \in salts : s.day = d
    <3>1. made' = [made EXCEPT ![d] = made[d] + 1] /\ salts' = salts \cup {[day |-> d, n |-> made[d] + 1]}
      BY <1>3, <2>5 DEF InsertSalt
    <3>2. made \in [Days -> Nat] /\ \A s \in salts : s.day \in Days /\ s.n \in Nat
      BY DEF TypeOK, Salt
    <3>3. made'[d] = made[d] + 1 /\ \A x \in Days \ {d} : made'[x] = made[x]
      BY <2>1, <3>1, <3>2
    <3>4. DayOf(now) <= d => made[d] = 0
      BY <2>1, <2>5
    <3>5. \A x \in Days : DayOf(now) <= x => made'[x] = 0 \/ (made'[x] = 1 /\ [day |-> x, n |-> 1] \in salts')
      BY <2>1, <3>1, <3>3, <3>4
    <3>6. \A s \in salts' : s.n \in 1..made'[s.day]
      BY <2>1, <3>1, <3>2, <3>3
    <3>7. \A i \in Isolates : cache[i] # NoSalt => cache[i].n \in 1..made'[cache[i].day]
      <4> SUFFICES ASSUME NEW i \in Isolates, cache[i] # NoSalt
                   PROVE  cache[i].n \in 1..made'[cache[i].day]
        OBVIOUS
      <4>1. cache[i].day \in Days /\ cache[i].n \in 1..made[cache[i].day] /\ made[cache[i].day] \in Nat
        BY <3>2 DEF TypeOK, Salt
      <4>2. made'[cache[i].day] \in {made[cache[i].day], made[cache[i].day] + 1}
        BY <2>1, <3>3, <4>1
      <4> QED
        BY <4>1, <4>2
    <3> QED
      BY <2>2, <2>3, <3>5, <3>6, <3>7 DEF FirstOnItsDay
  <2> QED
    BY <2>4, <2>5
<1>4. CASE SelectSalt
  <2>1. hit \in Request /\ hit.pc # "idle"
    BY <1>4 DEF SelectSalt, IdleHit, TypeOK
  <2> DEFINE mine == {s \in salts : s.day = DayOf(hit.arrived)}
             s == CHOOSE s \in mine : TRUE
  <2>2. CASE mine = {}
    BY <1>4, <2>1, <2>2 DEF SelectSalt, Request, FirstOnItsDay
  <2>3. CASE mine # {}
    <3>1. s \in salts /\ s \in Salt /\ s.n \in 1..made[s.day]
      BY <2>3 DEF TypeOK
    <3>2. /\ cache' = [cache EXCEPT ![hit.isolate] = s]
          /\ hit'.salt = s /\ hit'.taken = now
          /\ UNCHANGED <<now, salts, made, counted>>
      BY <1>4, <2>1, <2>3 DEF SelectSalt, Request
    <3>3. FirstOnItsDay(s, now)
      BY <1>0, <3>1, TodayIsFirst DEF FirstOnItsDay
    <3>4. \A i \in Isolates : cache'[i] = cache[i] \/ cache'[i] = s
      BY <3>2 DEF TypeOK
    <3> HIDE DEF s, mine
    <3> QED
      BY <3>1, <3>2, <3>3, <3>4 DEF FirstOnItsDay
  <2> QED
    BY <2>2, <2>3
<1>5. CASE NeedsNoSlot \/ InsertSlot \/ RefreshSlot \/ KnownSlot
  <2>1. hit \in Request /\ hit.pc # "idle"
    BY <1>5 DEF NeedsNoSlot, InsertSlot, RefreshSlot, KnownSlot, IdleHit, TypeOK
  <2>2. hit' = IdleHit \/ (hit'.salt = hit.salt /\ hit'.taken = hit.taken)
    BY <1>5, <2>1 DEF NeedsNoSlot, InsertSlot, RefreshSlot, KnownSlot, Request
  <2>3. UNCHANGED <<now, salts, made, cache, counted>>
    BY <1>5 DEF NeedsNoSlot, InsertSlot, RefreshSlot, KnownSlot
  <2> QED
    BY <2>1, <2>2, <2>3 DEF FirstOnItsDay, IdleHit
<1>6. CASE Count
  <2>1. hit \in Request /\ hit.pc # "idle" /\ hit' = IdleHit /\ UNCHANGED <<now, salts, made, cache>>
    BY <1>6 DEF Count, IdleHit, TypeOK
  <2>2. PICK e : /\ counted' = counted \cup {e} /\ e.taken = hit.taken
                 /\ e.visitor.n = 0 \/ (e.visitor.n = hit.salt.n /\ e.visitor.day = hit.salt.day)
    BY <1>6 DEF Count
  <2>3. FirstOnItsDay(e.visitor, e.taken)
    BY <2>1, <2>2 DEF FirstOnItsDay
  <2> QED
    BY <2>1, <2>2, <2>3 DEF FirstOnItsDay, IdleHit
<1>7. CASE DeleteSalts
  <2>1. salts' = {s \in salts : s.day >= DayOf(now)} /\ UNCHANGED <<now, made, cache, hit, counted>>
    BY <1>7 DEF DeleteSalts
  <2>2. \A d \in Days : d \in Nat
    BY DEF Days
  <2> QED
    BY <1>0, <2>1, <2>2 DEF FirstOnItsDay
<1>8. CASE Migrate \/ Start \/ Pass \/ Single \/ SinglesDone \/ PassesDone \/ JobFails \/ UNCHANGED vars
  <2>1. UNCHANGED <<now, salts, made, cache, hit, counted>>
    BY <1>8 DEF Migrate, Start, Pass, Single, SinglesDone, PassesDone, JobFails, vars
  <2> QED
    BY <2>1 DEF FirstOnItsDay
<1> QED
  BY <1>1, <1>2, <1>3, <1>4, <1>5, <1>6, <1>7, <1>8 DEF Next, CollectorStep, RunStep

(* Whoever took an identifier during a day took that day's one salt, in    *)
(* every instance of the Worker, whatever the job deleted meanwhile.       *)
THEOREM OneSalt == Spec => []OneSaltADay
<1>1. TypeOK /\ SaltInv => OneSaltADay
  BY DEF TypeOK, SaltInv, OneSaltADay, FirstOnItsDay
<1> QED
  BY <1>1, TypeInit, TypeStep, SaltInit, SaltStep, PTL DEF Spec

(***************************************************************************)
(* What the job leaves.                                                    *)
(***************************************************************************)
LEMMA KeptStep == TypeOK /\ KeptInv /\ [Next]_vars => KeptInv'
<1> SUFFICES ASSUME TypeOK, KeptInv, [Next]_vars PROVE KeptInv'
  OBVIOUS
<1> USE DEF KeptInv, clock
<1>0. now \in Nat /\ Keep \in Nat /\ cron.before \in Nat
  BY BoundsAssumption, KeepAssumption DEF TypeOK, Run
<1>1. CASE Tick
  BY <1>0, <1>1 DEF Tick
<1>2. CASE Start
  BY <1>0, <1>2 DEF Start
<1>3. CASE DeleteSalts \/ JobFails
  BY <1>3 DEF DeleteSalts, JobFails, IdleCron
<1>4. CASE Pass \/ Single \/ SinglesDone \/ PassesDone
  <2>1. cron'.before = cron.before /\ cron.pc # "idle" /\ now' = now
    BY <1>4 DEF Pass, Single, SinglesDone, PassesDone, TypeOK, Run
  <2> QED
    BY <2>1
<1>5. CASE UNCHANGED <<now, cron>>
  BY <1>5
<1>6. ASSUME NEW i \in Isolates, NEW e \in Templates, Arrive(i, e) PROVE UNCHANGED <<now, cron>>
  BY <1>6 DEF Arrive
<1>7. ASSUME CollectorStep \/ Migrate \/ UNCHANGED vars PROVE UNCHANGED <<now, cron>>
  BY <1>7 DEF CollectorStep, InsertSalt, SelectSalt, NeedsNoSlot, InsertSlot, RefreshSlot, KnownSlot, Count,
              Migrate, vars
<1> QED
  BY <1>1, <1>2, <1>3, <1>4, <1>5, <1>6, <1>7 DEF Next, RunStep

(* What a step of the job deletes was older than what is kept.             *)
LEMMA JobDeletes ==
  ASSUME TypeOK, KeptInv, Pass \/ Single
  PROVE  /\ UNCHANGED <<now, counted, hit>>
         /\ \A t \in Expiring \cap MinuteTables : \A e \in stored[t] : e.at + Keep >= now => e \in stored'[t]
         /\ slots' \subseteq slots
         /\ \A s \in slots : s.seen + Keep >= now => s \in slots'
<1> DEFINE Kept == /\ \A t \in Expiring \cap MinuteTables : \A e \in stored[t] :
                        e.at >= cron.before => e \in stored'[t]
                   /\ slots' \subseteq slots
                   /\ \A s \in slots : s.seen >= cron.before => s \in slots'
<1>1. UNCHANGED <<now, counted, hit>>
  BY DEF Pass, Single, clock
<1>2. /\ cron.before \in Nat /\ now \in Nat /\ Keep \in Nat /\ cron.before + Keep <= now
      /\ \A e \in counted : e.at \in Nat
      /\ \A s \in slots : s.seen \in Nat
      /\ \A t \in Expiring \cap MinuteTables : stored[t] \subseteq counted
  BY BoundsAssumption, KeepAssumption DEF TypeOK, Run, Slot, KeptInv, Pass, Single, MinuteTables
<1>3. Kept
  <2>1. ASSUME NEW tables \in SUBSET Expiring, Delete(tables) PROVE Kept
    BY <2>1, DeleteKeeps
  <2>2. CASE Pass
    <3>1. cron.pending \in SUBSET Expiring
      BY DEF TypeOK, Run
    <3>2. CASE cron.pending \cap missing = {}
      BY <2>1, <2>2, <3>1, <3>2 DEF Pass
    <3>3. CASE cron.pending \cap missing # {}
      BY <2>2, <3>3 DEF Pass, data
    <3> QED
      BY <3>2, <3>3
  <2>3. CASE Single
    <3>1. PICK t \in cron.single : Delete({t} \ missing)
      BY <2>3 DEF Single
    <3>2. {t} \ missing \in SUBSET Expiring
      BY DEF TypeOK, Run
    <3> QED
      BY <2>1, <3>1, <3>2
  <2> QED
    BY <2>2, <2>3
<1> QED
  BY <1>1, <1>2, <1>3

LEMMA WholeStep == TypeOK /\ KeptInv /\ ReportsAreWhole /\ [Next]_vars => ReportsAreWhole'
<1> SUFFICES ASSUME TypeOK, KeptInv, ReportsAreWhole, [Next]_vars,
                    NEW t \in Expiring \cap MinuteTables,
                    NEW e \in counted', Counts(t, e), t \notin e.lost, e.at + Keep >= now'
             PROVE  e \in stored'[t]
  BY DEF ReportsAreWhole
<1>0. now \in Nat /\ Keep \in Nat /\ t \in Expiring \ {"slots"}
  BY KeepAssumption, BoundsAssumption DEF TypeOK, MinuteTables
<1>1. ASSUME e \in counted, e.at + Keep >= now PROVE e \in stored[t]
  BY <1>1 DEF ReportsAreWhole
<1>2. CASE Tick
  <2>1. now' = now + 1 /\ UNCHANGED <<stored, counted>>
    BY <1>2 DEF Tick, data
  <2>2. e.at \in Nat
    BY <1>0, <2>1 DEF TypeOK
  <2> QED
    BY <1>0, <1>1, <2>1, <2>2
<1>3. CASE Count
  <2>1. PICK f : /\ counted' = counted \cup {f} /\ f.lost = missing
                 /\ t \notin missing /\ Counts(t, f) => f \in stored'[t]
                 /\ stored[t] \subseteq stored'[t]
    BY <1>0, <1>3 DEF Count, TypeOK
  <2>2. now' = now
    BY <1>3 DEF Count, clock
  <2> QED
    BY <1>1, <2>1, <2>2
<1>4. CASE Pass \/ Single
  BY <1>1, <1>4, JobDeletes
<1>5. CASE UNCHANGED <<now, counted, stored>>
  BY <1>1, <1>5
<1>6. ASSUME NEW i \in Isolates, NEW x \in Templates, Arrive(i, x) PROVE UNCHANGED <<now, counted, stored>>
  BY <1>6 DEF Arrive, clock, data
<1>7. ASSUME \/ InsertSalt \/ SelectSalt \/ NeedsNoSlot \/ InsertSlot \/ RefreshSlot \/ KnownSlot
             \/ Migrate \/ Start \/ SinglesDone \/ PassesDone \/ DeleteSalts \/ JobFails \/ UNCHANGED vars
      PROVE  UNCHANGED <<now, counted, stored>>
  BY <1>7 DEF InsertSalt, SelectSalt, NeedsNoSlot, InsertSlot, RefreshSlot, KnownSlot, Migrate, Start,
              SinglesDone, PassesDone, DeleteSalts, JobFails, vars, clock, data
<1> QED
  BY <1>2, <1>3, <1>4, <1>5, <1>6, <1>7 DEF Next, CollectorStep, RunStep

(* No report of the last 30 days misses an event that was counted in a     *)
(* table the database had, however long a run of the job takes.            *)
THEOREM ReportsStayWhole == Spec => []ReportsAreWhole
<1>1. Init => KeptInv /\ ReportsAreWhole
  BY DEF Init, KeptInv, ReportsAreWhole, IdleCron
<1> QED
  BY <1>1, TypeInit, TypeStep, KeptStep, WholeStep, PTL DEF Spec

(***************************************************************************)
(* Pixel paths.                                                            *)
(***************************************************************************)
OfSite(w) == {s \in slots : s.website = w}

LEMMA SlotNumbers ==
  ASSUME TypeOK
  PROVE  /\ now \in Nat /\ Keep \in Nat /\ Day \in Nat /\ MaxPaths \in Nat
         /\ \A s \in slots : s.seen \in Nat
         /\ hit.pc # "idle" => hit \in Request /\ hit.arrived \in Nat
         /\ \A e \in counted : e.at \in Nat
         /\ \A w : IsFiniteSet(OfSite(w)) /\ Cardinality(OfSite(w)) \in Nat
<1>1. /\ now \in Nat /\ Keep \in Nat /\ Day \in Nat /\ MaxPaths \in Nat
      /\ \A s \in slots : s.seen \in Nat
      /\ hit.pc # "idle" => hit \in Request /\ hit.arrived \in Nat
      /\ \A e \in counted : e.at \in Nat
  BY BoundsAssumption, KeepAssumption, ReportsAssumption, BatchAssumption DEF TypeOK, Slot, Request, IdleHit
<1>2. ASSUME NEW w PROVE IsFiniteSet(OfSite(w)) /\ Cardinality(OfSite(w)) \in Nat
  BY FS_Subset, FS_CardinalityType DEF TypeOK, OfSite
<1> QED
  BY <1>1, <1>2

(* The number of slots of a website grows by InsertSlot only, below its    *)
(* bound: refreshing maps slots to slots of the same website.              *)
LEMMA CapStep ==
  ASSUME TypeOK, SlotInv, [Next]_vars, NEW w \in Websites
  PROVE  Cardinality({s \in slots : s.website = w}') <= MaxPaths
<1> DEFINE old == {s \in slots : s.website = w}
           new == {s \in slots' : s.website = w}
<1>0. /\ IsFiniteSet(old) /\ Cardinality(old) \in Nat /\ MaxPaths \in Nat
      /\ Cardinality(old) <= MaxPaths
  BY SlotNumbers DEF OfSite, SlotInv
<1>1. CASE InsertSlot
  <2>1. CASE slots' = slots
    BY <1>0, <2>1
  <2>2. CASE /\ slots' = slots \cup {[website |-> hit.event.website, path |-> hit.event.page, seen |-> hit.arrived]}
             /\ Cardinality({s \in slots : s.website = hit.event.website}) < MaxPaths
    <3>1. CASE w = hit.event.website
      <4> DEFINE slot == [website |-> hit.event.website, path |-> hit.event.page, seen |-> hit.arrived]
      <4>1. slots' = slots \cup {slot} /\ slot.website = w
        BY <2>2, <3>1
      <4> HIDE DEF slot
      <4>2. new = old \cup {slot}
        BY <4>1
      <4> HIDE DEF old, new
      <4>3. IsFiniteSet(new) /\ Cardinality(new) = IF slot \in old THEN Cardinality(old) ELSE Cardinality(old) + 1
        BY <1>0, <4>2, FS_AddElement
      <4>4. Cardinality(old) < MaxPaths
        BY <2>2, <3>1 DEF old
      <4> QED
        BY <1>0, <4>3, <4>4 DEF new
    <3>2. CASE w # hit.event.website
      <4>1. new = old
        BY <2>2, <3>2
      <4> QED
        BY <1>0, <4>1
    <3> QED
      BY <3>1, <3>2
  <2> QED
    BY <1>1, <2>1, <2>2 DEF InsertSlot, HitSlot
<1>2. CASE RefreshSlot
  <2> DEFINE g == [s \in old |->
                    IF s \in HitSlot /\ s.seen + Day < hit.arrived THEN [s EXCEPT !.seen = hit.arrived] ELSE s]
  <2>1. \A s \in slots : s \in Slot
    BY DEF TypeOK
  <2>2. g \in Surjection(old, new)
    BY <1>2, <2>1 DEF RefreshSlot, Surjection, Slot
  <2>3. Cardinality(new) <= Cardinality(old) /\ Cardinality(new) \in Nat
    BY <1>0, <2>2, FS_Surjection, FS_CardinalityType
  <2> QED
    BY <1>0, <2>3
<1>3. ASSUME slots' \subseteq slots PROVE Cardinality(new) <= MaxPaths
  <2>1. new \in SUBSET old
    BY <1>3
  <2>2. Cardinality(new) <= Cardinality(old) /\ Cardinality(new) \in Nat
    BY <1>0, <2>1, FS_Subset, FS_CardinalityType
  <2> QED
    BY <1>0, <2>2
<1>4. CASE Pass \/ Single
  <2>1. slots' \subseteq slots
    BY <1>4 DEF Pass, Single, Delete, data
  <2> QED
    BY <1>3, <2>1
<1>5. ASSUME NEW i \in Isolates, NEW x \in Templates, Arrive(i, x) PROVE slots' = slots
  BY <1>5 DEF Arrive, data
<1>6. ASSUME \/ InsertSalt \/ SelectSalt \/ NeedsNoSlot \/ KnownSlot \/ Count
             \/ Tick \/ Migrate \/ Start \/ SinglesDone \/ PassesDone \/ DeleteSalts \/ JobFails \/ UNCHANGED vars
      PROVE  slots' = slots
  BY <1>6 DEF InsertSalt, SelectSalt, NeedsNoSlot, KnownSlot, Count, Tick, Migrate, Start,
              SinglesDone, PassesDone, DeleteSalts, JobFails, vars, data
<1> QED
  BY <1>1, <1>2, <1>3, <1>4, <1>5, <1>6 DEF Next, CollectorStep, RunStep

(* A path stays covered while slots within the time that is kept stay, or  *)
(* are refreshed.                                                          *)
LEMMA CoverKept ==
  ASSUME NEW S, NEW T, NEW n \in Nat, NEW m \in Nat, n <= m, NEW w, NEW p, NEW at \in Nat,
         \A s \in S : s.seen \in Nat,
         \A s \in S : s.seen + Keep >= n =>
           \E r \in T : r.website = s.website /\ r.path = s.path /\ r.seen >= s.seen /\ r.seen \in Nat,
         CoveredBy(S, n, w, p, at)
  PROVE  CoveredBy(T, m, w, p, at)
<1>0. Keep \in Nat /\ Day \in Nat
  BY KeepAssumption, ReportsAssumption
<1>1. CASE at + Keep <= n + Day
  BY <1>0, <1>1 DEF CoveredBy
<1>2. CASE at + Keep > n + Day
  <2>1. PICK s \in S : s.website = w /\ s.path = p /\ at <= s.seen + Day
    BY <1>0, <1>2 DEF CoveredBy, Fresh
  <2>2. s.seen + Keep >= n
    BY <1>0, <1>2, <2>1
  <2>3. PICK r \in T : r.website = w /\ r.path = p /\ r.seen >= s.seen /\ r.seen \in Nat
    BY <2>1, <2>2
  <2>4. at <= r.seen + Day
    BY <1>0, <2>1, <2>3
  <2> QED
    BY <2>3, <2>4 DEF CoveredBy, Fresh
<1> QED
  BY <1>0, <1>1, <1>2

LEMMA SlotStep == TypeOK /\ TypeOK' /\ KeptInv /\ SlotInv /\ [Next]_vars => SlotInv'
<1> SUFFICES ASSUME TypeOK, TypeOK', KeptInv, SlotInv, [Next]_vars PROVE SlotInv'
  OBVIOUS
<1> DEFINE Known == hit.pc = "known" => \A s \in HitSlot : Fresh(s, hit.arrived)
           Counting == hit.pc = "count" /\ hit.event.pixel =>
                         Covers(hit.event.website, hit.event.page, hit.arrived)
           Counted == \A e \in counted : e.pixel => Covers(e.website, e.page, e.at)
<1>0. \A w \in Websites : Cardinality({s \in slots : s.website = w}') <= MaxPaths
  BY CapStep
<1>1. SUFFICES Known' /\ Counting' /\ Counted'
  BY <1>0 DEF SlotInv
<1>2. Known /\ Counting /\ Counted
  BY DEF SlotInv
<1>3. /\ now \in Nat /\ \A e \in counted : e.at \in Nat
      /\ \A s \in slots : s \in Slot /\ s.seen \in Nat
      /\ hit.pc # "idle" => hit \in Request /\ hit.arrived \in Nat
  BY SlotNumbers DEF TypeOK
<1> HIDE DEF Known, Counting, Counted
<1>4. ASSUME now' \in Nat, now <= now',
             \A s \in slots : s.seen + Keep >= now =>
               \E r \in slots' : r.website = s.website /\ r.path = s.path /\ r.seen >= s.seen /\ r.seen \in Nat
      PROVE  /\ \A e \in counted : e.pixel => CoveredBy(slots', now', e.website, e.page, e.at)
             /\ hit.pc = "count" /\ hit.event.pixel =>
                  CoveredBy(slots', now', hit.event.website, hit.event.page, hit.arrived)
  <2>1. ASSUME NEW e \in counted, e.pixel PROVE CoveredBy(slots', now', e.website, e.page, e.at)
    <3>1. CoveredBy(slots, now, e.website, e.page, e.at)
      BY <1>2, <2>1 DEF Counted, Covers
    <3> QED
      BY <1>3, <1>4, <3>1, CoverKept
  <2>2. ASSUME hit.pc = "count", hit.event.pixel
        PROVE  CoveredBy(slots', now', hit.event.website, hit.event.page, hit.arrived)
    <3>1. CoveredBy(slots, now, hit.event.website, hit.event.page, hit.arrived)
      BY <1>2, <2>2 DEF Counting, Covers
    <3>2. hit.arrived \in Nat
      BY <1>3, <2>2
    <3> QED
      BY <1>3, <1>4, <3>1, <3>2, CoverKept
  <2> QED
    BY <2>1, <2>2
<1>5. ASSUME UNCHANGED <<slots, hit, counted>>, now' \in {now, now + 1} PROVE Known' /\ Counting' /\ Counted'
  <2>1. /\ now' \in Nat /\ now <= now'
        /\ \A s \in slots : s.seen + Keep >= now =>
             \E r \in slots' : r.website = s.website /\ r.path = s.path /\ r.seen >= s.seen /\ r.seen \in Nat
    BY <1>3, <1>5
  <2> QED
    BY <1>2, <1>4, <1>5, <2>1 DEF Known, Counting, Counted, Covers, HitSlot, SlotOf
<1>6. CASE Pass \/ Single
  <2>1. /\ UNCHANGED <<now, counted, hit>> /\ slots' \subseteq slots
        /\ \A s \in slots : s.seen + Keep >= now => s \in slots'
    BY <1>6, JobDeletes
  <2>2. \A s \in slots : s.seen + Keep >= now =>
          \E r \in slots' : r.website = s.website /\ r.path = s.path /\ r.seen >= s.seen /\ r.seen \in Nat
    BY <1>3, <2>1
  <2> QED
    BY <1>2, <1>3, <1>4, <2>1, <2>2 DEF Known, Counting, Counted, Covers, HitSlot, SlotOf
<1>7. CASE InsertSlot
  <2>1. hit \in Request /\ hit'.pc = "refresh" /\ slots \subseteq slots' /\ UNCHANGED <<now, counted>>
    BY <1>3, <1>7 DEF InsertSlot, Request, clock
  <2>2. \A s \in slots : s.seen + Keep >= now =>
          \E r \in slots' : r.website = s.website /\ r.path = s.path /\ r.seen >= s.seen /\ r.seen \in Nat
    BY <1>3, <2>1
  <2> QED
    BY <1>2, <1>3, <1>4, <2>1, <2>2 DEF Known, Counting, Counted, Covers
<1>8. CASE RefreshSlot
  <2>1. /\ hit \in Request /\ hit.pc = "refresh" /\ hit' = [hit EXCEPT !.pc = "known"]
        /\ UNCHANGED <<now, counted>>
    BY <1>3, <1>8 DEF RefreshSlot, clock
  <2>2. /\ hit'.arrived = hit.arrived /\ hit'.event = hit.event /\ hit'.pc = "known"
        /\ hit.arrived \in Nat
    BY <1>3, <2>1 DEF Request
  <2>3. slots' = {IF s \in HitSlot /\ s.seen + Day < hit.arrived THEN [s EXCEPT !.seen = hit.arrived] ELSE s : s \in slots}
    BY <1>8 DEF RefreshSlot
  <2>4. Day \in Nat
    BY ReportsAssumption
  <2>5. \A s \in slots : \E r \in slots' : r.website = s.website /\ r.path = s.path /\ r.seen >= s.seen /\ r.seen \in Nat
    <3> SUFFICES ASSUME NEW s \in slots
                 PROVE  \E r \in slots' : r.website = s.website /\ r.path = s.path /\ r.seen >= s.seen /\ r.seen \in Nat
      OBVIOUS
    <3>1. CASE s \in HitSlot /\ s.seen + Day < hit.arrived
      <4>1. [s EXCEPT !.seen = hit.arrived] \in slots'
        BY <2>3, <3>1
      <4> QED
        BY <1>3, <2>2, <2>4, <3>1, <4>1 DEF Slot
    <3>2. CASE ~(s \in HitSlot /\ s.seen + Day < hit.arrived)
      BY <1>3, <2>3, <3>2
    <3> QED
      BY <3>1, <3>2
  <2>6. ASSUME NEW r \in slots', r.website = hit.event.website, r.path = hit.event.page
        PROVE  Fresh(r, hit.arrived)
    <3>1. PICK s \in slots : r = IF s \in HitSlot /\ s.seen + Day < hit.arrived THEN [s EXCEPT !.seen = hit.arrived] ELSE s
      BY <2>3
    <3>2. s \in HitSlot
      BY <1>3, <2>6, <3>1 DEF HitSlot, SlotOf, Slot
    <3> QED
      BY <1>3, <2>2, <2>4, <3>1, <3>2 DEF Fresh, Slot
  <2>7. Known'
    BY <2>2, <2>6 DEF Known, HitSlot, SlotOf
  <2> QED
    BY <1>2, <1>3, <1>4, <2>1, <2>2, <2>5, <2>7 DEF Counting, Counted, Covers
<1>9. CASE KnownSlot
  <2>1. /\ hit.pc = "known" /\ hit \in Request /\ UNCHANGED <<now, slots, counted>>
        /\ hit' = IF HitSlot = {} THEN IdleHit ELSE [hit EXCEPT !.pc = "count"]
    BY <1>3, <1>9 DEF KnownSlot, clock, data
  <2>2. Known' /\ Counted'
    BY <1>2, <2>1 DEF Known, Counted, Covers, IdleHit, Request
  <2>3. CASE HitSlot = {}
    BY <2>1, <2>2, <2>3 DEF Counting, IdleHit
  <2>4. CASE HitSlot # {}
    <3>1. \E s \in slots : s.website = hit.event.website /\ s.path = hit.event.page /\ Fresh(s, hit.arrived)
      BY <1>2, <2>1, <2>4 DEF Known, HitSlot, SlotOf
    <3>2. hit'.event = hit.event /\ hit'.arrived = hit.arrived
      BY <2>1, <2>4 DEF Request
    <3> QED
      BY <2>1, <2>2, <3>1, <3>2 DEF Counting, Covers, CoveredBy
  <2> QED
    BY <2>3, <2>4
<1>10. CASE Count
  <2>1. hit.pc = "count" /\ hit' = IdleHit /\ UNCHANGED <<now, slots>>
    BY <1>10 DEF Count, clock
  <2>2. PICK e : /\ counted' = counted \cup {e}
                 /\ e.website = hit.event.website /\ e.page = hit.event.page /\ e.at = hit.arrived
                 /\ e.pixel = hit.event.pixel
    BY <1>10 DEF Count
  <2>3. ASSUME e.pixel PROVE CoveredBy(slots, now, e.website, e.page, e.at)
    <3>1. hit.event.pixel
      BY <2>2, <2>3, Zenon
    <3> QED
      BY <1>2, <2>1, <2>2, <3>1 DEF Counting, Covers
  <2> QED
    BY <1>2, <2>1, <2>2, <2>3 DEF Known, Counting, Counted, Covers, IdleHit
<1>11. CASE NeedsNoSlot \/ InsertSalt \/ SelectSalt
  <2>1. /\ hit \in Request /\ UNCHANGED <<now, slots, counted>>
        /\ hit'.pc # "known" /\ hit'.event = hit.event
        /\ hit'.pc = "count" => ~hit.event.pixel
    <3>1. CASE NeedsNoSlot
      <4>1. /\ hit \in Request /\ UNCHANGED <<now, slots, counted>>
            /\ hit'.pc = "count" /\ hit'.event = hit.event
        BY <1>3, <3>1 DEF NeedsNoSlot, Request, clock, data
      <4> QED
        BY <3>1, <4>1, Zenon DEF NeedsNoSlot
    <3>2. CASE InsertSalt
      BY <1>3, <3>2 DEF InsertSalt, Request, clock, data
    <3>3. CASE SelectSalt
      <4>1. hit \in Request /\ UNCHANGED <<now, slots, counted>>
        BY <1>3, <3>3 DEF SelectSalt, clock, data
      <4> DEFINE mine == {s \in salts : s.day = DayOf(hit.arrived)}
                 s == CHOOSE s \in mine : TRUE
      <4>2. \/ hit' = [hit EXCEPT !.pc = "admit"]
            \/ hit' = [hit EXCEPT !.pc = "admit", !.salt = s, !.taken = now]
        BY <3>3 DEF SelectSalt
      <4> HIDE DEF s
      <4>3. CASE hit' = [hit EXCEPT !.pc = "admit"]
        BY <4>1, <4>3 DEF Request
      <4>4. CASE hit' = [hit EXCEPT !.pc = "admit", !.salt = s, !.taken = now]
        BY <4>1, <4>4 DEF Request
      <4> QED
        BY <4>2, <4>3, <4>4
    <3> QED
      BY <1>11, <3>1, <3>2, <3>3, Zenon
  <2> QED
    BY <1>2, <2>1, Zenon DEF Known, Counting, Counted, Covers
<1>12. ASSUME NEW i \in Isolates, NEW x \in Templates, Arrive(i, x) PROVE Known' /\ Counting' /\ Counted'
  <2>1. hit'.pc \in {"admit", "insert"} /\ UNCHANGED <<now, slots, counted>>
    BY <1>12 DEF Arrive, clock, data
  <2> QED
    BY <1>2, <2>1 DEF Known, Counting, Counted, Covers
<1>13. CASE Tick \/ Migrate \/ Start \/ SinglesDone \/ PassesDone \/ DeleteSalts \/ JobFails \/ UNCHANGED vars
  <2>1. UNCHANGED <<slots, hit, counted>> /\ now' \in {now, now + 1}
    BY <1>13 DEF Tick, Migrate, Start, SinglesDone, PassesDone, DeleteSalts, JobFails, vars, data, clock
  <2> QED
    BY <1>5, <2>1
<1> QED
  BY <1>6, <1>7, <1>8, <1>9, <1>10, <1>11, <1>12, <1>13 DEF Next, CollectorStep, RunStep

(* A website never holds more pixel slots than it may, and every path a    *)
(* pixel counted holds one for as long as reports look back, less the day  *)
(* a slot may go unrefreshed.                                              *)
THEOREM PathsStayBounded == Spec => []PixelPathsBounded
<1>1. Init => KeptInv /\ SlotInv
  <2> SUFFICES ASSUME Init PROVE KeptInv /\ SlotInv
    OBVIOUS
  <2>1. \A w \in Websites : {s \in slots : s.website = w} = {}
    BY DEF Init
  <2> QED
    BY <2>1, FS_EmptySet, BatchAssumption DEF Init, KeptInv, SlotInv, IdleCron, IdleHit
<1>2. TypeOK /\ SlotInv => PixelPathsBounded
  <2> SUFFICES ASSUME TypeOK, SlotInv, NEW e \in counted, e.pixel, e.at + Keep - Day > now
               PROVE  SlotOf(e.website, e.page) # {}
    BY DEF SlotInv, PixelPathsBounded
  <2>1. CoveredBy(slots, now, e.website, e.page, e.at)
    BY DEF SlotInv, Covers
  <2> QED
    BY <2>1, SlotNumbers DEF CoveredBy, SlotOf
<1> QED
  BY <1>1, <1>2, TypeInit, TypeStep, KeptStep, SlotStep, PTL DEF Spec
=============================================================================
