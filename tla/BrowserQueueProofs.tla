------------------------- MODULE BrowserQueueProofs -------------------------
(***************************************************************************)
(* Proofs about the browser SDK: its queue (BrowserQueue), for any finite  *)
(* set of events, any number of overlapping flushes and any limits; the    *)
(* life of a page (Page), for any pages, tags, loaders and navigations;    *)
(* and the click watcher (Clicks), for any windows and limits.             *)
(*                                                                         *)
(* PlaceInv says that an event tracked is in exactly one place, and at     *)
(* most once in a queue or a flush, and that a batch is of one class.      *)
(* AckInv follows an event to the collector: what was sent was tracked,    *)
(* what was answered with 2xx was credited, and each counter is the number *)
(* of events credited.  RefuseInv says that a batch answered with 400 had  *)
(* an event that asked for it.  LoaderInv, OptInv and WatchInv, further    *)
(* down, are the page's invariants; WindowInv and PressInv the watcher's.  *)
(***************************************************************************)
EXTENDS BrowserQueue, Page, Clicks, SequenceTheorems, FiniteSetTheorems, TLAPS

(* No event twice in a sequence.                                           *)
Distinct(s) == \A i, j \in DOMAIN s : s[i] = s[j] => i = j
(* The events that are done with.                                          *)
Settled == acked \cup refused \cup dropped \cup gone

(* What flushes hold, t[f][k] of class k each: sorted, and all apart.      *)
Flying(t) == UNION {Elements(t[f][k]) : f \in Flushes, k \in Classes}
Apart(t) == \A f, g \in Flushes, k, l \in Classes :
              <<f, k>> # <<g, l>> => Elements(t[f][k]) \cap Elements(t[g][l]) = {}
Tidy(t) ==
  /\ t \in [Flushes -> [Classes -> Seq(Events)]]
  /\ \A f \in Flushes, k \in Classes :
       Distinct(t[f][k]) /\ \A e \in Elements(t[f][k]) : ClassOf[e] = k
  /\ Apart(t)

(* One place for every event.                                              *)
PlaceInv ==
  /\ Distinct(queue) /\ Tidy(taken)
  /\ Elements(queue) \cap Flying(taken) = {}
  /\ (Elements(queue) \cup Flying(taken)) \cap Settled = {}
  /\ acked \cap (refused \cup dropped \cup gone) = {}
  /\ refused \cap (dropped \cup gone) = {}
  /\ dropped \cap gone = {}
  /\ tracked = Elements(queue) \cup Flying(taken) \cup Settled
  /\ open => gone = {}
  /\ open \/ (queue = <<>> /\ \A f \in Flushes : taken[f] = Nothing)

(* The batch whose turn it is, from what its flush holds.                  *)
TurnIn(h) ==
  LET left == {i \in DOMAIN Order : h[Order[i]] # <<>>}
  IN Order[CHOOSE i \in left : \A j \in left : i <= j]
BatchIn(h) == h[TurnIn(h)]

(* From the browser to the collector and back.                             *)
AckInv ==
  /\ \A f \in Flushes :
       wire[f] = "accepted" => Elements(BatchIn(taken[f])) \subseteq credited[Site]
  /\ acked \subseteq credited[Site]
  /\ \A E \in loose : E \subseteq tracked
  /\ credited \in [{Site} -> SUBSET tracked]
  /\ counter = [s \in {Site} |-> [k \in {"plain", "action"} |->
                                   Cardinality(Collector!OfKind(credited[s], k))]]

(* Who asked for a refusal.                                                *)
RefuseInv ==
  /\ \A f \in Flushes :
       wire[f] = "refused" => Elements(BatchIn(taken[f])) \cap (Unknown \cup stale) # {}
  /\ RefusalIsOwn

(***************************************************************************)
(* Sequences.                                                              *)
(***************************************************************************)
LEMMA ElementsOf ==
  ASSUME NEW E, NEW s \in Seq(E)
  PROVE  /\ Elements(s) = {s[i] : i \in 1..Len(s)} /\ Elements(s) \subseteq E
         /\ Elements(<<>>) = {} /\ Distinct(<<>>)
         /\ Len(s) \in Nat /\ DOMAIN s = 1..Len(s)
         /\ Elements(s) = {} <=> s = <<>>
  BY DEF Elements, Distinct

LEMMA DistinctSize ==
  ASSUME NEW E, NEW s \in Seq(E), Distinct(s)
  PROVE  IsFiniteSet(Elements(s)) /\ Cardinality(Elements(s)) = Len(s)
<1>1. Len(s) \in Nat /\ DOMAIN s = 1..Len(s) /\ s \in [1..Len(s) -> E]
  BY LenProperties
<1>2. s \in Bijection(1..Len(s), Elements(s))
  <2>1. s \in [1..Len(s) -> Elements(s)]
    BY <1>1 DEF Elements
  <2>2. \A i, j \in 1..Len(s) : s[i] = s[j] => i = j
    BY <1>1 DEF Distinct
  <2>3. \A y \in Elements(s) : \E i \in 1..Len(s) : s[i] = y
    BY <1>1 DEF Elements
  <2> QED
    BY <2>1, <2>2, <2>3 DEF Bijection, Injection, Surjection, IsInjective
<1>3. ExistsBijection(1..Len(s), Elements(s))
  BY <1>2 DEF ExistsBijection
<1> QED
  BY <1>1, <1>3, FS_CountingElements, FS_NatBijection

LEMMA Joined ==
  ASSUME NEW E, NEW s \in Seq(E), NEW t \in Seq(E)
  PROVE  /\ s \o t \in Seq(E)
         /\ Elements(s \o t) = Elements(s) \cup Elements(t)
         /\ Distinct(s) /\ Distinct(t) /\ Elements(s) \cap Elements(t) = {} => Distinct(s \o t)
<1> DEFINE u == s \o t
<1>1. /\ u \in Seq(E) /\ Len(u) = Len(s) + Len(t) /\ Len(s) \in Nat /\ Len(t) \in Nat
      /\ \A i \in 1..Len(s) + Len(t) : u[i] = IF i <= Len(s) THEN s[i] ELSE t[i - Len(s)]
      /\ DOMAIN u = 1..Len(u) /\ DOMAIN s = 1..Len(s) /\ DOMAIN t = 1..Len(t)
  BY ConcatProperties, LenProperties
<1> HIDE DEF u
<1>2. \A i \in 1..Len(s) : i \in 1..Len(u) /\ u[i] = s[i]
  BY <1>1
<1>3. \A i \in 1..Len(t) : Len(s) + i \in 1..Len(u) /\ u[Len(s) + i] = t[i]
  BY <1>1, SMTT(30)
<1>4. \A i \in 1..Len(u) : \/ i \in 1..Len(s)
                           \/ i - Len(s) \in 1..Len(t) /\ u[i] = t[i - Len(s)] /\ i > Len(s)
  BY <1>1
<1>5. Elements(u) = Elements(s) \cup Elements(t)
  <2>1. ASSUME NEW x \in Elements(u) PROVE x \in Elements(s) \cup Elements(t)
    BY <1>1, <1>2, <1>4 DEF Elements
  <2>2. ASSUME NEW x \in Elements(s) PROVE x \in Elements(u)
    BY <1>1, <1>2 DEF Elements
  <2>3. ASSUME NEW x \in Elements(t) PROVE x \in Elements(u)
    <3>1. PICK i \in 1..Len(t) : x = t[i]
      BY <1>1, <2>3 DEF Elements
    <3>2. Len(s) + i \in 1..Len(u) /\ u[Len(s) + i] = x
      BY <1>3, <3>1
    <3> QED
      BY <1>1, <3>2 DEF Elements
  <2> QED
    BY <2>1, <2>2, <2>3
<1>6. ASSUME Distinct(s), Distinct(t), Elements(s) \cap Elements(t) = {} PROVE Distinct(u)
  <2> SUFFICES ASSUME NEW i \in 1..Len(u), NEW j \in 1..Len(u), u[i] = u[j] PROVE i = j
    BY <1>1 DEF Distinct
  <2>1. CASE i <= Len(s) /\ j <= Len(s)
    BY <1>1, <1>2, <1>6, <2>1, SMTT(30) DEF Distinct
  <2>2. CASE i > Len(s) /\ j > Len(s)
    <3>1. i - Len(s) = j - Len(s)
      <4> DEFINE x == i - Len(s)
                 y == j - Len(s)
      <4>1. x \in 1..Len(t) /\ y \in 1..Len(t) /\ t[x] = t[y]
        BY <1>1, <1>4, <2>2
      <4> HIDE DEF x, y
      <4>2. x = y
        BY <1>1, <1>6, <4>1 DEF Distinct
      <4> QED
        BY <4>2 DEF x, y
    <3> QED
      BY <1>1, <3>1
  <2>3. ASSUME NEW x \in 1..Len(u), NEW y \in 1..Len(u), x <= Len(s), y > Len(s) PROVE u[x] # u[y]
    <3>1. u[x] \in Elements(s)
      <4>1. x \in 1..Len(s) /\ u[x] = s[x]
        BY <1>1, <1>2, <2>3
      <4> QED
        BY <1>1, <4>1 DEF Elements
    <3>2. u[y] \in Elements(t)
      <4> DEFINE z == y - Len(s)
      <4>1. z \in 1..Len(t) /\ u[y] = t[z]
        BY <1>1, <1>4, <2>3
      <4> HIDE DEF z
      <4> QED
        BY <1>1, <4>1 DEF Elements
    <3> QED
      BY <1>6, <3>1, <3>2
  <2> QED
    <3>1. /\ i \in Nat /\ j \in Nat /\ Len(s) \in Nat
          /\ i <= Len(s) /\ j > Len(s) => FALSE
          /\ j <= Len(s) /\ i > Len(s) => FALSE
      BY <1>1, <2>3
    <3> QED
      BY <2>1, <2>2, <3>1
<1> QED
  BY <1>1, <1>5, <1>6 DEF u

LEMMA Splits ==
  ASSUME NEW E, NEW s \in Seq(E), NEW n \in Nat
  PROVE  /\ Front(s, n) \in Seq(E) /\ Rest(s, n) \in Seq(E)
         /\ Len(Front(s, n)) <= n /\ Len(Rest(s, n)) <= Len(s)
         /\ n > 0 /\ s # <<>> => Front(s, n) # <<>>
         /\ Elements(s) = Elements(Front(s, n)) \cup Elements(Rest(s, n))
         /\ Distinct(s) => /\ Distinct(Front(s, n)) /\ Distinct(Rest(s, n))
                           /\ Elements(Front(s, n)) \cap Elements(Rest(s, n)) = {}
<1> DEFINE m == IF n < Len(s) THEN n ELSE Len(s)
           a == Front(s, n)
           b == Rest(s, n)
<1>1. Len(s) \in Nat /\ DOMAIN s = 1..Len(s) /\ \A i \in 1..Len(s) : s[i] \in E
  BY LenProperties, ElementOfSeq
<1>2. m \in Nat /\ m <= n /\ m <= Len(s)
  BY <1>1
<1>3. /\ a \in Seq(E) /\ Len(a) = m /\ \A i \in 1..m : a[i] = s[i]
  <2>1. \A i \in 1..m : s[i] \in E
    BY <1>1, <1>2
  <2>2. a = SubSeq(s, 1, m)
    BY DEF Front
  <2> HIDE DEF m
  <2> QED
    BY <1>2, <2>1, <2>2, SubSeqProperties
<1>4. /\ b \in Seq(E) /\ Len(b) = (IF n + 1 <= Len(s) THEN Len(s) - n ELSE 0)
      /\ \A i \in 1..Len(s) - n : b[i] = s[n + i]
  <2>1. \A i \in (n + 1)..Len(s) : s[i] \in E
    BY <1>1
  <2>2. b = SubSeq(s, n + 1, Len(s))
    BY DEF Rest
  <2> QED
    BY <1>1, <2>1, <2>2, SubSeqProperties
<1>5. DOMAIN a = 1..m /\ DOMAIN b = 1..Len(b)
  BY <1>3, <1>4, LenProperties
<1> HIDE DEF a, b
<1>6. \A i \in 1..Len(b) : n + i \in 1..Len(s) /\ n + i > m /\ b[i] = s[n + i]
  <2>1. CASE n + 1 <= Len(s)
    <3>1. Len(b) = Len(s) - n
      BY <1>4, <2>1
    <3>2. n < Len(s)
      BY <1>1, <2>1
    <3>3. m = n
      BY <3>2
    <3> HIDE DEF m
    <3>4. ASSUME NEW i \in 1..Len(s) - n PROVE n + i \in 1..Len(s) /\ n + i > n
      BY <1>1
    <3> QED
      BY <1>4, <3>1, <3>3, <3>4
  <2>2. CASE ~(n + 1 <= Len(s))
    <3>1. Len(b) = 0
      BY <1>4, <2>2
    <3> QED
      BY <3>1
  <2> QED
    BY <2>1, <2>2
<1>7. \A i \in 1..Len(s) : i \in 1..m \/ (i - n \in 1..Len(b) /\ b[i - n] = s[i])
  <2> SUFFICES ASSUME NEW i \in 1..Len(s), i > n PROVE i - n \in 1..Len(b) /\ b[i - n] = s[i]
    BY <1>1
  <2>1. n + 1 <= Len(s) /\ i - n \in 1..Len(s) - n /\ n + (i - n) = i
    BY <1>1
  <2>2. Len(b) = Len(s) - n
    BY <1>4, <2>1
  <2> QED
    BY <1>4, <2>1, <2>2
<1> HIDE DEF m
<1>8. Elements(s) = Elements(a) \cup Elements(b)
  <2>1. ASSUME NEW x \in Elements(s) PROVE x \in Elements(a) \cup Elements(b)
    BY <1>1, <1>3, <1>5, <1>7 DEF Elements
  <2>2. ASSUME NEW x \in Elements(a) PROVE x \in Elements(s)
    BY <1>1, <1>2, <1>3, <1>5 DEF Elements
  <2>3. ASSUME NEW x \in Elements(b) PROVE x \in Elements(s)
    BY <1>1, <1>5, <1>6 DEF Elements
  <2> QED
    BY <2>1, <2>2, <2>3
<1>9. ASSUME Distinct(s) PROVE Distinct(a) /\ Distinct(b) /\ Elements(a) \cap Elements(b) = {}
  <2>1. Distinct(a)
    BY <1>1, <1>2, <1>3, <1>5, <1>9 DEF Distinct
  <2>2. Distinct(b)
    <3> SUFFICES ASSUME NEW i \in 1..Len(b), NEW j \in 1..Len(b), b[i] = b[j] PROVE i = j
      BY <1>5 DEF Distinct
    <3>1. n + i = n + j
      BY <1>1, <1>6, <1>9 DEF Distinct
    <3>2. i \in Int /\ j \in Int
      BY <1>4, LenProperties
    <3> QED
      BY <3>1, <3>2
  <2>3. Elements(a) \cap Elements(b) = {}
    BY <1>1, <1>2, <1>3, <1>5, <1>6, <1>9 DEF Distinct, Elements
  <2> QED
    BY <2>1, <2>2, <2>3
<1>10. Len(b) <= Len(s)
  <2>1. CASE n + 1 <= Len(s)
    BY <1>1, <1>4, <2>1
  <2>2. CASE ~(n + 1 <= Len(s))
    BY <1>1, <1>4, <2>2
  <2> QED
    BY <2>1, <2>2
<1>11. ASSUME n > 0, s # <<>> PROVE a # <<>>
  <2>1. m > 0
    BY <1>1, <1>11 DEF m
  <2> QED
    BY <1>3, <2>1
<1> QED
  BY <1>2, <1>3, <1>4, <1>8, <1>9, <1>10, <1>11 DEF a, b

(* Array.filter keeps the events of the class, each as often as it was.    *)
LEMMA OfClassKeeps ==
  ASSUME NEW s \in Seq(Events), NEW k
  PROVE  /\ OfClass(s, k) \in Seq(Events)
         /\ Elements(OfClass(s, k)) = {e \in Elements(s) : ClassOf[e] = k}
         /\ Distinct(s) => Distinct(OfClass(s, k))
<1> DEFINE kept == {i \in DOMAIN s : ClassOf[s[i]] = k}
           upTo(i) == {j \in kept : j <= i}
           p == [i \in kept |-> Cardinality(upTo(i))]
           N == Cardinality(kept)
           c == [n \in 1..N |-> CHOOSE i \in kept : p[i] = n]
           o == OfClass(s, k)
<1>1. /\ Len(s) \in Nat /\ DOMAIN s = 1..Len(s) /\ \A i \in 1..Len(s) : s[i] \in Events
      /\ kept \subseteq 1..Len(s)
  BY LenProperties, ElementOfSeq
<1>2. IsFiniteSet(kept) /\ N \in Nat
  <2>1. IsFiniteSet(1..Len(s))
    BY <1>1, FS_Interval
  <2> QED
    BY <1>1, <2>1, FS_Subset, FS_CardinalityType
<1>3. o = [n \in 1..N |-> s[c[n]]]
  <2>1. \A n \in 1..N : (CHOOSE i \in kept : Cardinality(upTo(i)) = n) = c[n]
    <3>1. ASSUME NEW n \in 1..N PROVE (CHOOSE i \in kept : Cardinality(upTo(i)) = n)
                                        = (CHOOSE i \in kept : p[i] = n)
      BY Zenon
    <3>2. \A n \in 1..N : c[n] = (CHOOSE i \in kept : p[i] = n)
      BY Zenon
    <3> HIDE DEF c, p, kept
    <3> QED
      BY <3>1, <3>2
  <2>2. o = [n \in 1..N |-> s[CHOOSE i \in kept : Cardinality(upTo(i)) = n]]
    BY Zenon DEF OfClass
  <2> QED
    BY <2>1, <2>2, Zenon
<1>4. \A i \in kept : p[i] = Cardinality(upTo(i)) /\ upTo(i) \subseteq kept /\ i \in upTo(i)
  BY <1>1
<1> HIDE DEF p, o
<1>5. \A i \in kept : p[i] \in 1..N
  <2> SUFFICES ASSUME NEW i \in kept PROVE p[i] \in 1..N
    OBVIOUS
  <2> HIDE DEF upTo
  <2>1. IsFiniteSet(upTo(i)) /\ Cardinality(upTo(i)) <= N /\ Cardinality(upTo(i)) \in Nat
    BY <1>2, <1>4, FS_Subset, FS_CardinalityType
  <2>2. Cardinality(upTo(i)) # 0
    BY <1>4, <2>1, FS_EmptySet
  <2> QED
    BY <1>2, <1>4, <2>1, <2>2
<1>6. \A i, j \in kept : i < j => p[i] < p[j]
  <2> SUFFICES ASSUME NEW i \in kept, NEW j \in kept, i < j PROVE p[i] < p[j]
    OBVIOUS
  <2>1. j \notin upTo(i) /\ upTo(i) \cup {j} \subseteq upTo(j)
    BY <1>1
  <2> HIDE DEF upTo
  <2>2. IsFiniteSet(upTo(i)) /\ IsFiniteSet(upTo(j))
    BY <1>2, <1>4, FS_Subset
  <2>3. Cardinality(upTo(i) \cup {j}) = Cardinality(upTo(i)) + 1
    BY <2>1, <2>2, FS_AddElement
  <2>4. Cardinality(upTo(i) \cup {j}) <= Cardinality(upTo(j))
    BY <2>1, <2>2, FS_Subset
  <2>5. Cardinality(upTo(i)) \in Nat /\ Cardinality(upTo(j)) \in Nat
    BY <2>2, FS_CardinalityType
  <2> QED
    BY <1>4, <2>3, <2>4, <2>5
<1>7. \A i, j \in kept : p[i] = p[j] => i = j
  <2> SUFFICES ASSUME NEW i \in kept, NEW j \in kept, p[i] = p[j] PROVE i = j
    OBVIOUS
  <2>1. i \in Nat /\ j \in Nat /\ p[i] \in Nat
    BY <1>1, <1>2, <1>5, SMTT(30)
  <2>2. ~(i < j) /\ ~(j < i)
    BY <1>6, <2>1
  <2> QED
    BY <2>1, <2>2
<1>8. \A n \in 1..N : \E i \in kept : p[i] = n
  <2>1. p \in [kept -> 1..N]
    BY <1>5 DEF p
  <2>2. p \in Injection(kept, 1..N)
    BY <1>7, <2>1 DEF Injection, IsInjective
  <2>3. IsFiniteSet(1..N) /\ Cardinality(1..N) = N
    BY <1>2, FS_Interval
  <2>4. p \in Surjection(kept, 1..N)
    BY <2>2, <2>3, FS_Injection
  <2> QED
    BY <2>4 DEF Surjection
<1>9. \A n \in 1..N : c[n] \in kept /\ p[c[n]] = n
  BY <1>8
<1> HIDE DEF c
<1>10. /\ o \in Seq(Events) /\ DOMAIN o = 1..N
       /\ \A n \in 1..N : o[n] = s[c[n]]
  <2>1. \A n \in 1..N : s[c[n]] \in Events
    BY <1>1, <1>9
  <2> QED
    BY <1>2, <1>3, <2>1
<1>11. Elements(o) = {e \in Elements(s) : ClassOf[e] = k}
  <2>1. ASSUME NEW e \in Elements(o) PROVE e \in Elements(s) /\ ClassOf[e] = k
    BY <1>9, <1>10, <2>1 DEF Elements
  <2>2. ASSUME NEW e \in Elements(s), ClassOf[e] = k PROVE e \in Elements(o)
    <3>1. PICK i \in kept : s[i] = e
      BY <2>2 DEF Elements
    <3>2. p[i] \in 1..N /\ c[p[i]] = i
      BY <1>5, <1>7, <1>9
    <3> QED
      BY <1>10, <3>1, <3>2 DEF Elements
  <2> QED
    BY <2>1, <2>2
<1>12. ASSUME Distinct(s) PROVE Distinct(o)
  <2> SUFFICES ASSUME NEW m \in 1..N, NEW n \in 1..N, o[m] = o[n] PROVE m = n
    BY <1>10 DEF Distinct
  <2>1. c[m] = c[n]
    BY <1>9, <1>10, <1>12 DEF Distinct
  <2> QED
    BY <1>9, <2>1
<1> QED
  BY <1>10, <1>11, <1>12 DEF o

(* enqueue keeps the limit, and loses only what it pushes out.             *)
LEMMA EnqueuedKeeps ==
  ASSUME NEW e \in Events, queue \in Seq(Events), Len(queue) <= MaxQueue
  PROVE  /\ Enqueued(e) \in Seq(Events) /\ Len(Enqueued(e)) <= MaxQueue
         /\ Enqueued(e) # <<>>
         /\ e \in Elements(Enqueued(e)) /\ Elements(Enqueued(e)) \subseteq Elements(queue) \cup {e}
         /\ Distinct(queue) /\ e \notin Elements(queue) => Distinct(Enqueued(e))
<1> DEFINE full == Len(queue) >= MaxQueue
           q == IF full THEN Tail(queue) ELSE queue
<1>1. MaxQueue \in Nat \ {0} /\ Len(queue) \in Nat /\ DOMAIN queue = 1..Len(queue)
  BY BoundsAssumption, LenProperties
<1>2. /\ q \in Seq(Events) /\ Len(q) < MaxQueue
      /\ Elements(q) \subseteq Elements(queue)
      /\ Distinct(queue) => Distinct(q)
  <2>1. CASE full
    <3>1. queue # <<>>
      BY <1>1, <2>1
    <3>2. /\ q \in Seq(Events) /\ Len(q) = Len(queue) - 1
          /\ \A i \in 1..Len(q) : q[i] = queue[i + 1]
      BY <2>1, <3>1, HeadTailProperties
    <3> HIDE DEF q
    <3>3. \A i \in 1..Len(q) : i + 1 \in 1..Len(queue)
      BY <1>1, <3>2
    <3>4. DOMAIN q = 1..Len(q)
      BY <3>2, LenProperties
    <3>5. Elements(q) \subseteq Elements(queue)
      BY <1>1, <3>2, <3>3, <3>4 DEF Elements
    <3>6. ASSUME Distinct(queue) PROVE Distinct(q)
      <4> SUFFICES ASSUME NEW i \in 1..Len(q), NEW j \in 1..Len(q), q[i] = q[j] PROVE i = j
        BY <3>4 DEF Distinct
      <4>1. i + 1 = j + 1
        BY <1>1, <3>2, <3>3, <3>6 DEF Distinct
      <4> QED
        BY <4>1
    <3> QED
      BY <1>1, <3>2, <3>5, <3>6
  <2>2. CASE ~full
    BY <1>1, <2>2
  <2> QED
    BY <2>1, <2>2
<1>3. Enqueued(e) = q \o <<e>>
  BY <1>2 DEF Enqueued
<1> HIDE DEF q, full
<1>4. /\ <<e>> \in Seq(Events) /\ Len(<<e>>) = 1
      /\ Elements(<<e>>) = {e} /\ Distinct(<<e>>)
  BY DEF Elements, Distinct
<1>5. Len(q \o <<e>>) = Len(q) + 1 /\ Len(q) \in Nat
  BY <1>2, <1>4, ConcatProperties
<1>6. /\ Enqueued(e) \in Seq(Events)
      /\ Elements(Enqueued(e)) = Elements(q) \cup {e}
      /\ Distinct(q) /\ e \notin Elements(q) => Distinct(Enqueued(e))
  <2>1. \A t \in Seq(Events) :
          /\ q \o t \in Seq(Events)
          /\ Elements(q \o t) = Elements(q) \cup Elements(t)
          /\ Distinct(q) /\ Distinct(t) /\ Elements(q) \cap Elements(t) = {} => Distinct(q \o t)
    BY <1>2, Joined
  <2> DEFINE t == <<e>>
  <2>2. t \in Seq(Events) /\ Elements(t) = {e} /\ Distinct(t) /\ Enqueued(e) = q \o t
    BY <1>3, <1>4
  <2> HIDE DEF t
  <2> QED
    BY <2>1, <2>2
<1> QED
  BY <1>1, <1>2, <1>3, <1>5, <1>6

(***************************************************************************)
(* What flushes hold.                                                      *)
(***************************************************************************)
LEMMA FlyingIn ==
  ASSUME NEW t, NEW e
  PROVE  e \in Flying(t) <=> \E f \in Flushes, k \in Classes : e \in Elements(t[f][k])
  BY DEF Flying

(* A flush that drains the queue q.                                        *)
TakenFrom(q) == [k \in Classes |-> OfClass(Front(q, Drain), k)]
Takes(t, f, q) == [t EXCEPT ![f] = TakenFrom(q)]

LEMMA TakesKeeps ==
  ASSUME NEW t, Tidy(t), NEW f \in Flushes, t[f] = Nothing,
         NEW q \in Seq(Events), Distinct(q), q # <<>>, Elements(q) \cap Flying(t) = {},
         NEW u, u = Takes(t, f, q)
  PROVE  /\ Tidy(u) /\ u[f] # Nothing
         /\ \A g \in Flushes : g # f => u[g] = t[g]
         /\ Rest(q, Drain) \in Seq(Events) /\ Len(Rest(q, Drain)) <= Len(q)
         /\ Distinct(Rest(q, Drain))
         /\ Elements(Rest(q, Drain)) \cap Flying(u) = {}
         /\ Elements(Rest(q, Drain)) \cup Flying(u) = Elements(q) \cup Flying(t)
<1> DEFINE a == Front(q, Drain)
           b == Rest(q, Drain)
           r == TakenFrom(q)
<1>1. Drain \in Nat /\ Drain > 0 /\ ClassOf \in [Events -> Classes]
  BY BoundsAssumption, EventsAssumption
<1>2. /\ a \in Seq(Events) /\ b \in Seq(Events) /\ Len(b) <= Len(q) /\ a # <<>>
      /\ Elements(q) = Elements(a) \cup Elements(b)
      /\ Distinct(a) /\ Distinct(b) /\ Elements(a) \cap Elements(b) = {}
  BY <1>1, Splits
<1> HIDE DEF a, b
<1>3. Elements(a) \subseteq Events /\ Elements(a) # {}
  BY <1>2, ElementsOf
<1>4. \A k \in Classes : /\ r[k] \in Seq(Events) /\ Distinct(r[k])
                         /\ Elements(r[k]) = {e \in Elements(a) : ClassOf[e] = k}
  <2>1. \A k \in Classes : r[k] = OfClass(a, k)
    BY DEF a, TakenFrom
  <2> QED
    BY <1>2, <2>1, OfClassKeeps
<1>5. r \in [Classes -> Seq(Events)]
  <2>1. r = [k \in Classes |-> r[k]]
    BY DEF TakenFrom
  <2> QED
    BY <1>4, <2>1
<1>6. PICK e \in Elements(a) : ClassOf[e] \in Classes
  BY <1>1, <1>3
<1>7. r # Nothing
  <2>1. e \in Elements(r[ClassOf[e]])
    BY <1>4, <1>6
  <2>2. Elements(Nothing[ClassOf[e]]) = {}
    BY <1>6 DEF Nothing, Elements
  <2> QED
    BY <2>1, <2>2
<1>8. t \in [Flushes -> [Classes -> Seq(Events)]]
  BY DEF Tidy
<1>9. /\ u \in [Flushes -> [Classes -> Seq(Events)]] /\ u[f] = r
      /\ \A g \in Flushes : g # f => u[g] = t[g]
  BY <1>5, <1>8 DEF Takes
<1> HIDE DEF r
<1>10. \A k \in Classes : Elements(t[f][k]) = {}
  BY DEF Nothing, Elements
<1> HIDE DEF Classes, Nothing
<1>11. \A x : x \in Flying(u) <=> x \in Flying(t) \/ x \in Elements(a)
  <2> SUFFICES ASSUME NEW x PROVE x \in Flying(u) <=> x \in Flying(t) \/ x \in Elements(a)
    OBVIOUS
  <2>1. ASSUME x \in Flying(u) PROVE x \in Flying(t) \/ x \in Elements(a)
    <3>1. PICK g \in Flushes, k \in Classes : x \in Elements(u[g][k])
      BY <2>1, FlyingIn
    <3>2. CASE g = f
      BY <1>4, <1>9, <3>1, <3>2
    <3>3. CASE g # f
      BY <1>9, <3>1, <3>3, FlyingIn
    <3> QED
      BY <3>2, <3>3
  <2>2. ASSUME x \in Flying(t) PROVE x \in Flying(u)
    <3>1. PICK g \in Flushes, k \in Classes : x \in Elements(t[g][k])
      BY <2>2, FlyingIn
    <3>2. g # f
      BY <1>10, <3>1
    <3> QED
      BY <1>9, <3>1, <3>2, FlyingIn
  <2>3. ASSUME x \in Elements(a) PROVE x \in Flying(u)
    <3>1. ClassOf[x] \in Classes /\ x \in Elements(u[f][ClassOf[x]])
      BY <1>1, <1>3, <1>4, <1>9, <2>3
    <3> QED
      BY <3>1, FlyingIn
  <2> QED
    BY <2>1, <2>2, <2>3
<1>12. Apart(u)
  <2> SUFFICES ASSUME NEW g \in Flushes, NEW h \in Flushes, NEW k \in Classes, NEW l \in Classes,
                      <<g, k>> # <<h, l>>, NEW x \in Elements(u[g][k]), x \in Elements(u[h][l])
               PROVE  FALSE
    BY DEF Apart
  <2>1. CASE g = f /\ h = f
    <3>1. k # l /\ x \in Elements(r[k]) /\ x \in Elements(r[l])
      BY <1>9, <2>1
    <3>2. \A m \in Classes : x \in Elements(r[m]) => ClassOf[x] = m
      BY <1>4
    <3> QED
      BY <3>1, <3>2
  <2>2. ASSUME NEW i \in Flushes, NEW m \in Classes, i # f, x \in Elements(u[i][m])
        PROVE  x \notin Elements(a)
    BY <1>2, <1>9, <2>2, FlyingIn, ZenonT(40)
  <2>3. CASE g = f /\ h # f
    BY <1>4, <1>9, <2>2, <2>3
  <2>4. CASE g # f /\ h = f
    BY <1>4, <1>9, <2>2, <2>4
  <2>5. CASE g # f /\ h # f
    BY <1>9, <2>5 DEF Tidy, Apart
  <2> QED
    BY <2>1, <2>3, <2>4, <2>5
<1>13. \A g \in Flushes, k \in Classes :
         Distinct(u[g][k]) /\ \A x \in Elements(u[g][k]) : ClassOf[x] = k
  BY <1>4, <1>9 DEF Tidy
<1>14. Tidy(u)
  BY <1>9, <1>12, <1>13 DEF Tidy
<1> QED
  BY <1>2, <1>7, <1>9, <1>11, <1>14 DEF b

(* A flush that has settled its batch of class k.                          *)
Gives(t, f, k) == [t EXCEPT ![f] = [t[f] EXCEPT ![k] = <<>>]]

LEMMA GivesKeeps ==
  ASSUME NEW t, Tidy(t), NEW f \in Flushes, NEW k \in Classes, NEW u, u = Gives(t, f, k)
  PROVE  /\ Tidy(u)
         /\ \A g \in Flushes : g # f => u[g] = t[g]
         /\ Flying(u) = Flying(t) \ Elements(t[f][k])
         /\ Elements(t[f][k]) \subseteq Flying(t)
         /\ t[f][k] \in Seq(Events) /\ Distinct(t[f][k])
<1>1. t \in [Flushes -> [Classes -> Seq(Events)]]
  BY DEF Tidy
<1> HIDE DEF Classes
<1>2. <<>> \in Seq(Events) /\ Distinct(<<>>) /\ Elements(<<>>) = {}
  BY DEF Distinct, Elements
<1> DEFINE none == <<>>
<1>3. [t[f] EXCEPT ![k] = none] \in [Classes -> Seq(Events)]
  BY <1>1, <1>2
<1>4. /\ u \in [Flushes -> [Classes -> Seq(Events)]]
      /\ u[f] = [t[f] EXCEPT ![k] = none]
      /\ \A g \in Flushes : g # f => u[g] = t[g]
  BY <1>1, <1>3 DEF Gives
<1>5. /\ u[f][k] = none
      /\ \A g \in Flushes, l \in Classes : <<g, l>> # <<f, k>> => u[g][l] = t[g][l]
  BY <1>1, <1>4
<1>6. Elements(none) = {} /\ Distinct(none)
  BY <1>2
<1> HIDE DEF none
<1>7. \A g \in Flushes, l \in Classes : Elements(u[g][l]) \subseteq Elements(t[g][l])
  BY <1>5, <1>6
<1>8. Apart(u)
  <2> SUFFICES ASSUME NEW g \in Flushes, NEW h \in Flushes, NEW m \in Classes, NEW l \in Classes,
                      <<g, m>> # <<h, l>>
               PROVE  Elements(u[g][m]) \cap Elements(u[h][l]) = {}
    BY DEF Apart
  <2>1. Elements(t[g][m]) \cap Elements(t[h][l]) = {}
    BY DEF Tidy, Apart
  <2> QED
    BY <1>7, <2>1
<1>9. \A g \in Flushes, l \in Classes :
        Distinct(u[g][l]) /\ \A e \in Elements(u[g][l]) : ClassOf[e] = l
  BY <1>5, <1>6 DEF Tidy
<1>10. ASSUME NEW x PROVE x \in Flying(u) <=> x \in Flying(t) /\ x \notin Elements(t[f][k])
  <2>1. ASSUME x \in Flying(u) PROVE x \in Flying(t) /\ x \notin Elements(t[f][k])
    <3>1. PICK g \in Flushes, l \in Classes : x \in Elements(u[g][l])
      BY <2>1, FlyingIn
    <3>2. <<g, l>> # <<f, k>> /\ x \in Elements(t[g][l])
      BY <1>5, <1>6, <1>7, <3>1
    <3> QED
      BY <3>2, FlyingIn DEF Tidy, Apart
  <2>2. ASSUME x \in Flying(t), x \notin Elements(t[f][k]) PROVE x \in Flying(u)
    <3>1. PICK g \in Flushes, l \in Classes : x \in Elements(t[g][l])
      BY <2>2, FlyingIn
    <3>2. <<g, l>> # <<f, k>>
      BY <2>2, <3>1
    <3> QED
      BY <1>5, <3>1, <3>2, FlyingIn
  <2> QED
    BY <2>1, <2>2
<1>11. Elements(t[f][k]) \subseteq Flying(t)
  BY FlyingIn
<1>12. t[f][k] \in Seq(Events) /\ Distinct(t[f][k])
  BY <1>1 DEF Tidy
<1>13. Tidy(u)
  BY <1>4, <1>8, <1>9 DEF Tidy
<1> QED
  BY <1>4, <1>10, <1>11, <1>12, <1>13

(***************************************************************************)
(* The batch of a flush.                                                   *)
(***************************************************************************)
LEMMA BatchOf ==
  ASSUME NEW f
  PROVE  /\ Turn(f) = TurnIn(taken[f]) /\ Turn(f)' = TurnIn(taken'[f])
         /\ Batch(f) = BatchIn(taken[f]) /\ Batch(f)' = BatchIn(taken'[f])
  BY DEF Turn, TurnIn, Batch, BatchIn

LEMMA TurnIsLeft ==
  ASSUME NEW h, h \in [Classes -> Seq(Events)], h # Nothing
  PROVE  TurnIn(h) \in Classes /\ BatchIn(h) # <<>>
<1> DEFINE left == {i \in DOMAIN Order : h[Order[i]] # <<>>}
<1>1. DOMAIN Order = 1..3 /\ Order[1] = "plain" /\ Order[2] = "action" /\ Order[3] = "rage"
  BY DEF Order
<1>2. PICK k \in Classes : h[k] # <<>>
  BY DEF Nothing
<1>3. \E i \in 1..3 : Order[i] = k
  BY <1>1 DEF Classes
<1>4. left # {} /\ left \subseteq 1..3
  BY <1>1, <1>2, <1>3
<1>5. \E i \in left : \A j \in left : i <= j
  <2>1. CASE 1 \in left
    BY <1>4, <2>1
  <2>2. CASE 1 \notin left /\ 2 \in left
    BY <1>4, <2>2
  <2>3. CASE 1 \notin left /\ 2 \notin left
    BY <1>4, <2>3, SMTT(30)
  <2> QED
    BY <2>1, <2>2, <2>3
<1>6. PICK i \in left : TurnIn(h) = Order[i]
  BY <1>5 DEF TurnIn
<1> QED
  BY <1>1, <1>6 DEF BatchIn, Classes

LEMMA BatchHeld ==
  ASSUME TypeOK, Tidy(taken), NEW f \in Flushes, wire[f] # "none"
  PROVE  /\ Turn(f) \in Classes /\ Batch(f) = taken[f][Turn(f)] /\ Batch(f) # <<>>
         /\ Batch(f) \in Seq(Events) /\ Distinct(Batch(f))
         /\ Elements(Batch(f)) \subseteq Flying(taken)
         /\ \A e \in Elements(Batch(f)) : ClassOf[e] = Turn(f)
<1>1. taken[f] \in [Classes -> Seq(Events)] /\ taken[f] # Nothing
  BY DEF TypeOK
<1>2. Turn(f) \in Classes /\ Batch(f) = taken[f][Turn(f)] /\ Batch(f) # <<>>
  BY <1>1, BatchOf, TurnIsLeft DEF BatchIn
<1>3. \A e \in Elements(Batch(f)) : e \in Flying(taken)
  BY <1>2, FlyingIn
<1> QED
  BY <1>1, <1>2, <1>3 DEF Tidy

(* The batch of one flush is settled.                                      *)
LEMMA SettleKeeps ==
  ASSUME TypeOK, Tidy(taken), NEW f \in Flushes, wire[f] # "none", Settle(f)
  PROVE  /\ Tidy(taken') /\ Flying(taken') = Flying(taken) \ Elements(Batch(f))
         /\ wire' \in [Flushes -> {"none", "sent", "accepted", "refused", "failed"}]
         /\ \A g \in Flushes : wire'[g] = "none" <=> taken'[g] = Nothing
         /\ \A g \in Flushes : g # f => taken'[g] = taken[g] /\ wire'[g] = wire[g]
         /\ wire'[f] \in {"none", "sent"}
<1> DEFINE left == [taken[f] EXCEPT ![Turn(f)] = <<>>]
<1>1. Turn(f) \in Classes /\ Batch(f) = taken[f][Turn(f)]
  BY BatchHeld
<1>2. taken' = [taken EXCEPT ![f] = left]
  BY DEF Settle
<1>3. Tidy(taken') /\ Flying(taken') = Flying(taken) \ Elements(Batch(f))
  <2>1. taken' = Gives(taken, f, Turn(f))
    BY <1>2 DEF Gives
  <2> QED
    BY <1>1, <2>1, GivesKeeps
<1>4. taken \in [Flushes -> [Classes -> Seq(Events)]]
  BY DEF Tidy
<1>5. wire' = [wire EXCEPT ![f] = IF left = Nothing THEN "none" ELSE "sent"]
  BY DEF Settle
<1> HIDE DEF left
<1>6. taken'[f] = left /\ \A g \in Flushes : g # f => taken'[g] = taken[g]
  BY <1>2, <1>4
<1>7. /\ wire \in [Flushes -> {"none", "sent", "accepted", "refused", "failed"}]
      /\ \A g \in Flushes : wire[g] = "none" <=> taken[g] = Nothing
  BY DEF TypeOK
<1>8. /\ wire' \in [Flushes -> {"none", "sent", "accepted", "refused", "failed"}]
      /\ wire'[f] = IF left = Nothing THEN "none" ELSE "sent"
      /\ \A g \in Flushes : g # f => wire'[g] = wire[g]
  BY <1>5, <1>7
<1> QED
  BY <1>3, <1>6, <1>7, <1>8

(* The batch of one flush is put back, and the newest events give way.     *)
LEMMA RequeueKeeps ==
  ASSUME TypeOK, PlaceInv, NEW f \in Flushes, wire[f] # "none", Requeue(f)
  PROVE  /\ queue' \in Seq(Events) /\ Len(queue') <= MaxQueue /\ Distinct(queue')
         /\ \E R \in SUBSET Events :
              /\ dropped' = dropped \cup R
              /\ Elements(queue') \cap R = {}
              /\ Elements(queue') \cup R = Elements(queue) \cup Elements(Batch(f))
<1> DEFINE b == Batch(f)
           s == b \o queue
           R == Elements(Rest(s, MaxQueue))
<1>1. b \in Seq(Events) /\ Distinct(b) /\ Elements(b) \subseteq Flying(taken)
  BY BatchHeld DEF PlaceInv
<1>2. queue \in Seq(Events) /\ Distinct(queue) /\ Elements(queue) \cap Flying(taken) = {}
  BY DEF TypeOK, PlaceInv
<1>3. queue' = Front(s, MaxQueue) /\ dropped' = dropped \cup R
  BY DEF Requeue
<1> HIDE DEF b
<1>4. s \in Seq(Events) /\ Distinct(s) /\ Elements(s) = Elements(b) \cup Elements(queue)
  BY <1>1, <1>2, Joined
<1> HIDE DEF s
<1>5. MaxQueue \in Nat
  BY BoundsAssumption
<1>6. /\ Front(s, MaxQueue) \in Seq(Events) /\ Len(Front(s, MaxQueue)) <= MaxQueue
      /\ Distinct(Front(s, MaxQueue)) /\ Elements(Front(s, MaxQueue)) \cap R = {}
      /\ Elements(s) = Elements(Front(s, MaxQueue)) \cup R
      /\ Rest(s, MaxQueue) \in Seq(Events)
  BY <1>4, <1>5, Splits
<1>7. R \in SUBSET Events
  BY <1>6, ElementsOf
<1> HIDE DEF R
<1> QED
  BY <1>3, <1>4, <1>6, <1>7 DEF b

(* A flush that starts, whatever the queue it finds.                       *)
LEMMA StartKeeps ==
  ASSUME TypeOK, PlaceInv, NEW f \in Flushes, taken[f] = Nothing,
         NEW q \in Seq(Events), Len(q) <= MaxQueue, Distinct(q), q # <<>>,
         Elements(q) \cap Flying(taken) = {},
         queue' = Rest(q, Drain),
         taken' = [taken EXCEPT ![f] = [k \in Classes |-> OfClass(Front(q, Drain), k)]],
         wire' = [wire EXCEPT ![f] = "sent"]
  PROVE  /\ queue' \in Seq(Events) /\ Len(queue') <= MaxQueue /\ Distinct(queue')
         /\ Tidy(taken') /\ Elements(queue') \cap Flying(taken') = {}
         /\ Elements(queue') \cup Flying(taken') = Elements(q) \cup Flying(taken)
         /\ wire' \in [Flushes -> {"none", "sent", "accepted", "refused", "failed"}]
         /\ \A g \in Flushes : wire'[g] = "none" <=> taken'[g] = Nothing
         /\ \A g \in Flushes : g # f => taken'[g] = taken[g] /\ wire'[g] = wire[g]
         /\ wire'[f] = "sent"
<1>1. Tidy(taken) /\ taken' = Takes(taken, f, q)
  BY DEF PlaceInv, Takes, TakenFrom
<1>2. /\ Tidy(taken') /\ taken'[f] # Nothing
      /\ \A g \in Flushes : g # f => taken'[g] = taken[g]
      /\ queue' \in Seq(Events) /\ Len(queue') <= Len(q) /\ Distinct(queue')
      /\ Elements(queue') \cap Flying(taken') = {}
      /\ Elements(queue') \cup Flying(taken') = Elements(q) \cup Flying(taken)
  <2>1. \A u : u = Takes(taken, f, q) =>
          /\ Tidy(u) /\ u[f] # Nothing
          /\ \A g \in Flushes : g # f => u[g] = taken[g]
          /\ Rest(q, Drain) \in Seq(Events) /\ Len(Rest(q, Drain)) <= Len(q)
          /\ Distinct(Rest(q, Drain))
          /\ Elements(Rest(q, Drain)) \cap Flying(u) = {}
          /\ Elements(Rest(q, Drain)) \cup Flying(u) = Elements(q) \cup Flying(taken)
    BY <1>1, TakesKeeps, Zenon
  <2> QED
    BY <1>1, <2>1
<1>3. /\ wire \in [Flushes -> {"none", "sent", "accepted", "refused", "failed"}]
      /\ \A g \in Flushes : wire[g] = "none" <=> taken[g] = Nothing
  BY DEF TypeOK
<1>4. /\ wire' \in [Flushes -> {"none", "sent", "accepted", "refused", "failed"}]
      /\ wire'[f] = "sent"
      /\ \A g \in Flushes : g # f => wire'[g] = wire[g]
  BY <1>3
<1>5. Len(queue') <= MaxQueue
  BY <1>2, BoundsAssumption, LenProperties
<1> QED
  BY <1>2, <1>3, <1>4, <1>5

(***************************************************************************)
(* Types, and one place for every event.                                   *)
(***************************************************************************)
LEMMA PlaceInit == Init => TypeOK /\ PlaceInv
<1> SUFFICES ASSUME Init PROVE TypeOK /\ PlaceInv
  OBVIOUS
<1>1. queue = <<>> /\ taken = [f \in Flushes |-> Nothing] /\ wire = [f \in Flushes |-> "none"]
  BY DEF Init
<1>2. \A k \in Classes : Nothing[k] = <<>>
  BY DEF Nothing
<1>3. <<>> \in Seq(Events) /\ Len(<<>>) = 0 /\ Distinct(<<>>) /\ Elements(<<>>) = {}
  BY DEF Distinct, Elements
<1> DEFINE none == <<>>
<1>4. \A f \in Flushes : taken[f] = Nothing /\ wire[f] = "none"
  BY <1>1
<1>5. Nothing \in [Classes -> Seq(Events)]
  BY <1>3 DEF Nothing
<1>6. taken \in [Flushes -> [Classes -> Seq(Events)]]
  BY <1>1, <1>5
<1>7. \A f \in Flushes, k \in Classes : Elements(taken[f][k]) = {} /\ Distinct(taken[f][k])
  BY <1>2, <1>3, <1>4
<1>8. Flying(taken) = {} /\ Tidy(taken)
  <2>1. Flying(taken) = {}
    BY <1>7, FlyingIn
  <2>2. Apart(taken)
    BY <1>7 DEF Apart
  <2> QED
    BY <1>6, <1>7, <2>1, <2>2 DEF Tidy
<1>9. TypeOK
  BY <1>1, <1>3, <1>4, <1>6, BoundsAssumption DEF Init, TypeOK
<1>10. PlaceInv
  BY <1>1, <1>3, <1>4, <1>8 DEF Init, PlaceInv, Settled
<1> QED
  BY <1>9, <1>10

LEMMA PlaceTrack ==
  ASSUME TypeOK, PlaceInv, NEW e \in Events, NEW f \in Flushes, Track(e, f)
  PROVE  TypeOK' /\ PlaceInv'
<1> DEFINE q == Enqueued(e)
           R == Elements(queue) \ Elements(q)
<1>1. /\ open /\ taken[f] = Nothing /\ e \notin tracked
      /\ tracked' = tracked \cup {e} /\ dropped' = dropped \cup R
      /\ queue' = Rest(q, Drain)
      /\ taken' = [taken EXCEPT ![f] = [k \in Classes |-> OfClass(Front(q, Drain), k)]]
      /\ wire' = [wire EXCEPT ![f] = "sent"]
      /\ UNCHANGED <<loose, stale, acked, refused, gone, open, troubles>>
  BY DEF Track, Idle, StartWith
<1>2. /\ queue \in Seq(Events) /\ Len(queue) <= MaxQueue /\ Distinct(queue)
      /\ Elements(queue) \subseteq tracked /\ Flying(taken) \subseteq tracked
      /\ tracked \subseteq Events /\ dropped \subseteq Events
  BY DEF TypeOK, PlaceInv
<1>3. /\ q \in Seq(Events) /\ Len(q) <= MaxQueue /\ q # <<>> /\ Distinct(q)
      /\ e \in Elements(q) /\ Elements(q) \subseteq Elements(queue) \cup {e}
  BY <1>1, <1>2, EnqueuedKeeps
<1> HIDE DEF q
<1>4. Elements(q) \cap Flying(taken) = {}
  BY <1>1, <1>2, <1>3 DEF PlaceInv
<1>5. /\ queue' \in Seq(Events) /\ Len(queue') <= MaxQueue /\ Distinct(queue')
      /\ Tidy(taken') /\ Elements(queue') \cap Flying(taken') = {}
      /\ Elements(queue') \cup Flying(taken') = Elements(q) \cup Flying(taken)
      /\ wire' \in [Flushes -> {"none", "sent", "accepted", "refused", "failed"}]
      /\ \A g \in Flushes : wire'[g] = "none" <=> taken'[g] = Nothing
  BY <1>1, <1>3, <1>4, StartKeeps, Zenon
<1>6. TypeOK'
  BY <1>1, <1>2, <1>5 DEF TypeOK, Tidy
<1>7. R \subseteq Elements(queue) /\ Elements(q) \cup R = Elements(queue) \cup {e}
      /\ Elements(q) \cap R = {} /\ Flying(taken) \cap R = {}
  BY <1>3 DEF PlaceInv
<1> HIDE DEF R
<1>8. PlaceInv'
  <2>1. /\ (Elements(queue) \cup Flying(taken)) \cap (acked \cup refused \cup dropped \cup gone) = {}
        /\ acked \cap (refused \cup dropped \cup gone) = {}
        /\ refused \cap (dropped \cup gone) = {}
        /\ dropped \cap gone = {} /\ gone = {}
        /\ tracked = Elements(queue) \cup Flying(taken) \cup acked \cup refused \cup dropped \cup gone
    BY <1>1 DEF PlaceInv, Settled
  <2> DEFINE Q == Elements(queue)
             F == Flying(taken)
             P == Elements(queue')
             G == Flying(taken')
  <2>2. /\ P \cup G = Elements(q) \cup F /\ P \cap G = {}
        /\ Elements(q) \cup R = Q \cup {e} /\ Elements(q) \cap R = {}
        /\ R \subseteq Q /\ F \cap R = {} /\ Q \cap F = {} /\ e \notin tracked
    BY <1>1, <1>5, <1>7 DEF PlaceInv
  <2>3. /\ Q \cup F \subseteq tracked /\ acked \subseteq tracked /\ refused \subseteq tracked
        /\ dropped \subseteq tracked
    BY <2>1
  <2> HIDE DEF Q, F, P, G
  <2>4. P \cup G \cup R = Q \cup F \cup {e}
    BY <2>2
  <2>5. /\ (P \cup G) \cap (acked \cup refused \cup dropped' \cup gone) = {}
        /\ acked \cap (refused \cup dropped' \cup gone) = {}
        /\ refused \cap (dropped' \cup gone) = {}
        /\ dropped' \cap gone = {}
    <3>1. dropped' = dropped \cup R
      BY <1>1
    <3>2. (P \cup G) \cap R = {} /\ acked \cap R = {} /\ refused \cap R = {}
      BY <2>1, <2>2 DEF Q, F
    <3>3. (P \cup G) \cap (acked \cup refused \cup dropped) = {}
      BY <2>1, <2>2, <2>3, <2>4 DEF Q, F
    <3> QED
      BY <2>1, <3>1, <3>2, <3>3
  <2>6. tracked' = P \cup G \cup acked \cup refused \cup dropped' \cup gone
    BY <1>1, <2>1, <2>2, <2>4 DEF Q, F
  <2> QED
    BY <1>1, <1>5, <2>1, <2>5, <2>6 DEF PlaceInv, Settled, P, G
<1> QED
  BY <1>6, <1>8

LEMMA PlaceFlush ==
  ASSUME TypeOK, PlaceInv, NEW f \in Flushes, Flush(f)
  PROVE  TypeOK' /\ PlaceInv'
<1>1. /\ open /\ taken[f] = Nothing /\ queue # <<>>
      /\ queue' = Rest(queue, Drain)
      /\ taken' = [taken EXCEPT ![f] = [k \in Classes |-> OfClass(Front(queue, Drain), k)]]
      /\ wire' = [wire EXCEPT ![f] = "sent"]
      /\ UNCHANGED <<tracked, loose, stale, acked, refused, dropped, gone, open, troubles>>
  BY DEF Flush, Idle, StartWith, fate
<1>2. /\ queue \in Seq(Events) /\ Len(queue) <= MaxQueue /\ Distinct(queue)
      /\ Elements(queue) \cap Flying(taken) = {}
  BY DEF TypeOK, PlaceInv
<1>3. /\ queue' \in Seq(Events) /\ Len(queue') <= MaxQueue /\ Distinct(queue')
      /\ Tidy(taken') /\ Elements(queue') \cap Flying(taken') = {}
      /\ Elements(queue') \cup Flying(taken') = Elements(queue) \cup Flying(taken)
      /\ wire' \in [Flushes -> {"none", "sent", "accepted", "refused", "failed"}]
      /\ \A g \in Flushes : wire'[g] = "none" <=> taken'[g] = Nothing
  BY <1>1, <1>2, StartKeeps, Zenon
<1>4. TypeOK'
  BY <1>1, <1>3 DEF TypeOK, Tidy
<1>5. PlaceInv'
  BY <1>1, <1>3 DEF PlaceInv, Settled
<1> QED
  BY <1>4, <1>5

(* Nothing the browser holds moves when the collector is reached.          *)
LEMMA PlaceStill ==
  ASSUME TypeOK, PlaceInv, UNCHANGED <<tracked, queue, taken, fate, open>>,
         stale' \subseteq Events, loose' \subseteq SUBSET Events, troubles' \in 0..MaxTroubles,
         wire' \in [Flushes -> {"none", "sent", "accepted", "refused", "failed"}],
         \A f \in Flushes : wire'[f] = "none" <=> wire[f] = "none"
  PROVE  TypeOK' /\ PlaceInv'
<1>1. /\ tracked' = tracked /\ queue' = queue /\ taken' = taken /\ open' = open
      /\ acked' = acked /\ refused' = refused /\ dropped' = dropped /\ gone' = gone
  BY DEF fate
<1>2. TypeOK'
  BY <1>1 DEF TypeOK
<1>3. PlaceInv'
  BY <1>1 DEF PlaceInv, Settled
<1> QED
  BY <1>2, <1>3

LEMMA WireStep ==
  ASSUME TypeOK, NEW f \in Flushes, wire[f] # "none",
         NEW w \in {"sent", "accepted", "refused", "failed"}, wire' = [wire EXCEPT ![f] = w]
  PROVE  /\ wire' \in [Flushes -> {"none", "sent", "accepted", "refused", "failed"}]
         /\ wire'[f] = w /\ \A g \in Flushes : g # f => wire'[g] = wire[g]
         /\ \A g \in Flushes : wire'[g] = "none" <=> wire[g] = "none"
<1>1. wire \in [Flushes -> {"none", "sent", "accepted", "refused", "failed"}]
  BY DEF TypeOK
<1>2. wire' \in [Flushes -> {"none", "sent", "accepted", "refused", "failed"}]
  BY <1>1
<1>3. wire'[f] = w /\ \A g \in Flushes : g # f => wire'[g] = wire[g]
  BY <1>1
<1> QED
  BY <1>2, <1>3

LEMMA PlaceReach ==
  ASSUME TypeOK, PlaceInv, NEW f \in Flushes, Reach(f)
  PROVE  /\ TypeOK' /\ PlaceInv'
         /\ UNCHANGED <<tracked, queue, taken, fate, open, stale, loose>>
         /\ wire[f] = "sent" /\ \A g \in Flushes : g # f => wire'[g] = wire[g]
         /\ wire'[f] \in {"accepted", "refused", "failed"}
<1>1. PICK w \in {"accepted", "refused", "failed"} :
        wire[f] = "sent" /\ wire' = [wire EXCEPT ![f] = w]
  BY DEF Reach, Deliver, Refuse, Fail
<1>2. UNCHANGED <<tracked, queue, taken, fate, open, stale, loose>>
  BY DEF Reach, Deliver, Refuse, Fail
<1>3. troubles' \in 0..MaxTroubles
  <2>1. troubles' = troubles \/ (troubles < MaxTroubles /\ troubles' = troubles + 1)
    BY DEF Reach, Deliver, Refuse, Fail, Trouble
  <2>2. troubles \in 0..MaxTroubles /\ MaxTroubles \in Nat
    BY BoundsAssumption DEF TypeOK
  <2> QED
    BY <2>1, <2>2
<1>4. /\ wire' \in [Flushes -> {"none", "sent", "accepted", "refused", "failed"}]
      /\ wire'[f] = w /\ \A g \in Flushes : g # f => wire'[g] = wire[g]
      /\ \A g \in Flushes : wire'[g] = "none" <=> wire[g] = "none"
  BY <1>1, WireStep
<1>5. stale' \subseteq Events /\ loose' \subseteq SUBSET Events
  BY <1>2 DEF TypeOK
<1>6. UNCHANGED <<tracked, queue, taken, fate, open>>
  BY <1>2
<1>7. TypeOK' /\ PlaceInv'
  BY <1>3, <1>4, <1>5, <1>6, PlaceStill
<1> QED
  BY <1>1, <1>2, <1>4, <1>7

(* A batch answered, given up or put back: D is what went to `acked`, A    *)
(* to `refused`, and the rest to the queue or out of it.                   *)
LEMMA PlaceSettled ==
  ASSUME TypeOK, PlaceInv, NEW f \in Flushes, wire[f] # "none", Settle(f),
         UNCHANGED <<tracked, stale, gone, open>>,
         loose' \subseteq SUBSET Events, troubles' \in 0..MaxTroubles,
         \/ acked' = acked \cup Elements(Batch(f)) /\ UNCHANGED <<queue, refused, dropped>>
         \/ refused' = refused \cup Elements(Batch(f)) /\ UNCHANGED <<queue, acked, dropped>>
         \/ Requeue(f) /\ UNCHANGED <<acked, refused>>
  PROVE  TypeOK' /\ PlaceInv'
<1> DEFINE B == Elements(Batch(f))
           Q == Elements(queue)
           F == Flying(taken)
           P == Elements(queue')
           G == Flying(taken')
<1>1. /\ Tidy(taken') /\ G = F \ B
      /\ wire' \in [Flushes -> {"none", "sent", "accepted", "refused", "failed"}]
      /\ \A g \in Flushes : wire'[g] = "none" <=> taken'[g] = Nothing
  BY SettleKeeps DEF PlaceInv
<1>2. B \subseteq F
  BY BatchHeld DEF PlaceInv
<1>3. /\ Q \cap F = {} /\ (Q \cup F) \cap (acked \cup refused \cup dropped \cup gone) = {}
      /\ acked \cap (refused \cup dropped \cup gone) = {}
      /\ refused \cap (dropped \cup gone) = {}
      /\ dropped \cap gone = {}
      /\ tracked = Q \cup F \cup acked \cup refused \cup dropped \cup gone
      /\ tracked \subseteq Events
  BY DEF PlaceInv, Settled, TypeOK
<1>4. /\ tracked' = tracked /\ stale' = stale /\ gone' = gone /\ open' = open
      /\ open => gone = {}
  BY DEF PlaceInv
<1>5. open
  <2>1. taken[f] # Nothing
    BY DEF TypeOK
  <2> QED
    BY <2>1 DEF PlaceInv
<1>6. \E R \in SUBSET Events :
        /\ queue' \in Seq(Events) /\ Len(queue') <= MaxQueue /\ Distinct(queue')
        /\ P \cap R = {} /\ P \cup R \subseteq Q \cup B
        /\ \/ acked' = acked \cup B /\ refused' = refused /\ dropped' = dropped \cup R /\ R = {} /\ P = Q
           \/ acked' = acked /\ refused' = refused \cup B /\ dropped' = dropped \cup R /\ R = {} /\ P = Q
           \/ acked' = acked /\ refused' = refused /\ dropped' = dropped \cup R /\ P \cup R = Q \cup B
  <2>1. queue \in Seq(Events) /\ Len(queue) <= MaxQueue /\ Distinct(queue)
    BY DEF TypeOK, PlaceInv
  <2>2. CASE acked' = acked \cup B /\ UNCHANGED <<queue, refused, dropped>>
    <3> WITNESS {} \in SUBSET Events
    <3> QED
      BY <2>1, <2>2
  <2>3. CASE refused' = refused \cup B /\ UNCHANGED <<queue, acked, dropped>>
    <3> WITNESS {} \in SUBSET Events
    <3> QED
      BY <2>1, <2>3
  <2>4. CASE Requeue(f) /\ UNCHANGED <<acked, refused>>
    BY <2>4, RequeueKeeps
  <2> QED
    BY <2>2, <2>3, <2>4
<1>7. PICK R \in SUBSET Events :
        /\ queue' \in Seq(Events) /\ Len(queue') <= MaxQueue /\ Distinct(queue')
        /\ P \cap R = {} /\ P \cup R \subseteq Q \cup B
        /\ \/ acked' = acked \cup B /\ refused' = refused /\ dropped' = dropped \cup R /\ R = {} /\ P = Q
           \/ acked' = acked /\ refused' = refused \cup B /\ dropped' = dropped \cup R /\ R = {} /\ P = Q
           \/ acked' = acked /\ refused' = refused /\ dropped' = dropped \cup R /\ P \cup R = Q \cup B
  BY <1>6
<1> HIDE DEF B, Q, F, P, G
<1>8. B \subseteq Events
  BY <1>2, <1>3
<1>9. P \cap G = {}
  BY <1>1, <1>2, <1>3, <1>7
<1>10. tracked' = P \cup G \cup acked' \cup refused' \cup dropped' \cup gone'
  BY <1>1, <1>2, <1>3, <1>4, <1>7
<1>11. /\ acked' \cap (refused' \cup dropped' \cup gone') = {}
       /\ refused' \cap (dropped' \cup gone') = {}
       /\ dropped' \cap gone' = {}
  BY <1>2, <1>3, <1>4, <1>7
<1>12. (P \cup G) \cap (acked' \cup refused' \cup dropped' \cup gone') = {}
  BY <1>1, <1>2, <1>3, <1>4, <1>7
<1>13. TypeOK'
  <2>1. acked' \subseteq Events /\ refused' \subseteq Events /\ dropped' \subseteq Events
    BY <1>7, <1>8 DEF TypeOK
  <2> QED
    BY <1>1, <1>4, <1>7, <2>1 DEF TypeOK, Tidy
<1>14. PlaceInv'
  BY <1>1, <1>4, <1>5, <1>7, <1>9, <1>10, <1>11, <1>12 DEF PlaceInv, Settled, P, G
<1> QED
  BY <1>13, <1>14

(* What Timeout and Close know of the batches on their way.                *)
LEMMA BatchTracked ==
  ASSUME TypeOK, PlaceInv, NEW f \in Flushes, wire[f] # "none"
  PROVE  Elements(Batch(f)) \subseteq tracked /\ Elements(Batch(f)) \in SUBSET Events
<1>1. Elements(Batch(f)) \subseteq Flying(taken)
  BY BatchHeld DEF PlaceInv
<1>2. Flying(taken) \subseteq tracked /\ tracked \subseteq Events
  BY DEF PlaceInv, TypeOK
<1> QED
  BY <1>1, <1>2

LEMMA PlaceAnswer ==
  ASSUME TypeOK, PlaceInv, NEW f \in Flushes, Answer(f) \/ Timeout(f)
  PROVE  /\ TypeOK' /\ PlaceInv' /\ Settle(f) /\ wire[f] # "none"
         /\ UNCHANGED <<tracked, stale, gone, open, collector>>
         /\ loose' \subseteq loose \cup {Elements(Batch(f))}
         /\ \/ wire[f] = "accepted" /\ acked' = acked \cup Elements(Batch(f)) /\ refused' = refused
            \/ wire[f] = "refused" /\ refused' = refused \cup Elements(Batch(f)) /\ acked' = acked
            \/ acked' = acked /\ refused' = refused
<1>1. /\ wire[f] # "none" /\ Settle(f)
      /\ UNCHANGED <<tracked, stale, gone, open, collector>>
      /\ loose' \subseteq loose \cup {Elements(Batch(f))}
  BY DEF Answer, Accepted, Refused, Failed, Timeout
<1>2. \/ /\ wire[f] = "accepted" /\ acked' = acked \cup Elements(Batch(f))
         /\ UNCHANGED <<queue, refused, dropped>>
      \/ /\ wire[f] = "refused" /\ refused' = refused \cup Elements(Batch(f))
         /\ UNCHANGED <<queue, acked, dropped>>
      \/ Requeue(f) /\ UNCHANGED <<acked, refused>>
  BY DEF Answer, Accepted, Refused, Failed, Timeout
<1>3. loose' \subseteq SUBSET Events
  <2>1. Elements(Batch(f)) \in SUBSET Events
    BY <1>1, BatchTracked
  <2> QED
    BY <1>1, <2>1 DEF TypeOK
<1>4. troubles' \in 0..MaxTroubles
  <2>1. troubles' = troubles \/ (troubles < MaxTroubles /\ troubles' = troubles + 1)
    BY DEF Answer, Accepted, Refused, Failed, Timeout, Trouble
  <2>2. troubles \in 0..MaxTroubles /\ MaxTroubles \in Nat
    BY BoundsAssumption DEF TypeOK
  <2> QED
    BY <2>1, <2>2
<1>5. UNCHANGED <<tracked, stale, gone, open>>
  BY <1>1
<1>6. TypeOK' /\ PlaceInv'
  BY <1>1, <1>2, <1>3, <1>4, <1>5, PlaceSettled
<1> QED
  BY <1>1, <1>2, <1>6

LEMMA PlaceClose ==
  ASSUME TypeOK, PlaceInv, Close
  PROVE  TypeOK' /\ PlaceInv'
<1>1. /\ open /\ ~open' /\ queue' = <<>>
      /\ gone' = Elements(queue) \cup InFlight
      /\ loose' = loose \cup {Elements(Batch(f)) : f \in {g \in Flushes : wire[g] = "sent"}}
      /\ taken' = [f \in Flushes |-> Nothing] /\ wire' = [f \in Flushes |-> "none"]
      /\ UNCHANGED <<tracked, stale, acked, refused, dropped, troubles>>
  BY DEF Close
<1>2. InFlight = Flying(taken)
  BY DEF InFlight, Flying
<1>3. \A k \in Classes : Nothing[k] = <<>>
  BY DEF Nothing
<1>4. <<>> \in Seq(Events) /\ Len(<<>>) = 0 /\ Distinct(<<>>) /\ Elements(<<>>) = {}
  BY DEF Distinct, Elements
<1>5. Nothing \in [Classes -> Seq(Events)]
  BY <1>4 DEF Nothing
<1>6. \A f \in Flushes : taken'[f] = Nothing /\ wire'[f] = "none"
  BY <1>1
<1>7. taken' \in [Flushes -> [Classes -> Seq(Events)]]
  BY <1>1, <1>5
<1>8. \A f \in Flushes, k \in Classes : Elements(taken'[f][k]) = {} /\ Distinct(taken'[f][k])
  BY <1>3, <1>4, <1>6
<1>9. Flying(taken') = {} /\ Tidy(taken')
  <2>1. Flying(taken') = {}
    BY <1>8, FlyingIn
  <2>2. Apart(taken')
    BY <1>8 DEF Apart
  <2> QED
    BY <1>7, <1>8, <2>1, <2>2 DEF Tidy
<1>10. loose' \subseteq SUBSET Events
  <2>1. \A f \in Flushes : wire[f] = "sent" => Elements(Batch(f)) \in SUBSET Events
    BY BatchTracked
  <2> QED
    BY <1>1, <2>1 DEF TypeOK
<1>11. /\ gone = {} /\ tracked = Elements(queue) \cup Flying(taken) \cup acked \cup refused \cup dropped
       /\ (Elements(queue) \cup Flying(taken)) \cap (acked \cup refused \cup dropped) = {}
       /\ acked \cap (refused \cup dropped) = {} /\ refused \cap dropped = {}
       /\ tracked \subseteq Events
  BY <1>1 DEF PlaceInv, Settled, TypeOK
<1>12. gone' \subseteq Events
  BY <1>1, <1>2, <1>11
<1>13. TypeOK'
  <2>1. Len(queue') <= MaxQueue /\ queue' \in Seq(Events)
    BY <1>1, <1>4, BoundsAssumption
  <2>2. open' \in BOOLEAN
    BY DEF Close
  <2>3. wire' \in [Flushes -> {"none", "sent", "accepted", "refused", "failed"}]
    BY <1>1
  <2> QED
    BY <1>1, <1>6, <1>7, <1>10, <1>12, <2>1, <2>2, <2>3 DEF TypeOK
<1>14. PlaceInv'
  <2>1. Elements(queue') = {} /\ Distinct(queue')
    BY <1>1, <1>4
  <2> DEFINE Q == Elements(queue)
             F == Flying(taken)
  <2>2. gone' = Q \cup F
    BY <1>1, <1>2
  <2>3. tracked' = acked' \cup refused' \cup dropped' \cup gone'
    BY <1>1, <1>11, <2>2
  <2>4. /\ acked' \cap (refused' \cup dropped' \cup gone') = {}
        /\ refused' \cap (dropped' \cup gone') = {} /\ dropped' \cap gone' = {}
    BY <1>1, <1>11, <2>2
  <2> QED
    BY <1>1, <1>6, <1>9, <2>1, <2>3, <2>4 DEF PlaceInv, Settled
<1> QED
  BY <1>13, <1>14

LEMMA PlaceNext == TypeOK /\ PlaceInv /\ [Next]_vars => TypeOK' /\ PlaceInv'
<1> SUFFICES ASSUME TypeOK, PlaceInv, [Next]_vars PROVE TypeOK' /\ PlaceInv'
  OBVIOUS
<1>1. CASE \E e \in Events, f \in Flushes : Track(e, f)
  BY <1>1, PlaceTrack
<1>2. CASE \E f \in Flushes : Flush(f) \/ Reach(f) \/ Answer(f) \/ Timeout(f)
  BY <1>2, PlaceFlush, PlaceReach, PlaceAnswer
<1>3. CASE \E E \in loose : ArriveLate(E)
  <2>1. /\ UNCHANGED <<tracked, queue, taken, fate, open>>
        /\ stale' = stale /\ wire' = wire /\ troubles' = troubles /\ loose' \subseteq loose
    BY <1>3 DEF ArriveLate, page
  <2> QED
    BY <2>1, PlaceStill DEF TypeOK
<1>4. CASE \E e \in Events : Expire(e)
  <2>1. /\ UNCHANGED <<tracked, queue, taken, fate, open>>
        /\ stale' \subseteq stale \cup tracked
        /\ wire' = wire /\ troubles' = troubles /\ loose' = loose
    BY <1>4 DEF Expire, page
  <2>2. stale' \subseteq Events
    BY <2>1 DEF TypeOK
  <2> QED
    BY <2>1, <2>2, PlaceStill DEF TypeOK
<1>5. CASE Close
  BY <1>5, PlaceClose
<1>6. CASE UNCHANGED vars
  <2>1. UNCHANGED <<tracked, queue, taken, fate, open>> /\ UNCHANGED <<wire, loose, stale, troubles>>
    BY <1>6 DEF vars, fate
  <2> QED
    BY <2>1, PlaceStill DEF TypeOK
<1> QED
  BY <1>1, <1>2, <1>3, <1>4, <1>5, <1>6 DEF Next

(* Every variable keeps its type, and the queue its limit.                 *)
THEOREM TypeCorrect == Spec => []TypeOK
<1>1. Init => TypeOK /\ PlaceInv
  BY PlaceInit
<1>2. TypeOK /\ PlaceInv /\ [Next]_vars => (TypeOK /\ PlaceInv)'
  BY PlaceNext
<1> QED
  BY <1>1, <1>2, PTL DEF Spec

LEMMA DisjointSize ==
  ASSUME NEW S, NEW T, IsFiniteSet(S), IsFiniteSet(T), S \cap T = {}
  PROVE  IsFiniteSet(S \cup T) /\ Cardinality(S \cup T) = Cardinality(S) + Cardinality(T)
  BY FS_Union, FS_EmptySet, FS_CardinalityType, SMTT(30)

(* However flushes overlap, fail and put back, an event is in one place.   *)
THEOREM EventsInOnePlace == Spec => []OnePlace
<1>1. TypeOK /\ PlaceInv => OnePlace
  <2> SUFFICES ASSUME TypeOK, PlaceInv PROVE OnePlace
    OBVIOUS
  <2> DEFINE Q == Elements(queue)
             F == Flying(taken)
  <2>1. /\ tracked = Q \cup F \cup acked \cup refused \cup dropped \cup gone
        /\ Q \cap F = {} /\ (Q \cup F) \cap (acked \cup refused \cup dropped \cup gone) = {}
        /\ acked \cap (refused \cup dropped \cup gone) = {}
        /\ refused \cap (dropped \cup gone) = {} /\ dropped \cap gone = {}
        /\ tracked \subseteq Events
    BY DEF PlaceInv, Settled, TypeOK
  <2>2. Cardinality(Q) = Len(queue)
    BY DistinctSize DEF TypeOK, PlaceInv
  <2>3. InFlight = F
    BY DEF InFlight, Flying
  <2>4. \A f \in Flushes, k \in Classes : Cardinality(Elements(taken[f][k])) = Len(taken[f][k])
    BY DistinctSize DEF PlaceInv, Tidy
  <2>5. \A f, g \in Flushes, k, l \in Classes :
          <<f, k>> # <<g, l>> => Elements(taken[f][k]) \cap Elements(taken[g][l]) = {}
    BY DEF PlaceInv, Tidy, Apart
  <2> HIDE DEF Q, F
  <2>6. /\ IsFiniteSet(Q) /\ IsFiniteSet(F) /\ IsFiniteSet(acked) /\ IsFiniteSet(refused)
        /\ IsFiniteSet(dropped) /\ IsFiniteSet(gone)
    BY <2>1, EventsAssumption, FS_Subset
  <2>7. IsFiniteSet(Q \cup F) /\ Cardinality(Q \cup F) = Cardinality(Q) + Cardinality(F)
    BY <2>1, <2>6, DisjointSize
  <2>8. /\ IsFiniteSet(dropped \cup gone)
        /\ Cardinality(dropped \cup gone) = Cardinality(dropped) + Cardinality(gone)
    BY <2>1, <2>6, DisjointSize
  <2>9. /\ IsFiniteSet(refused \cup (dropped \cup gone))
        /\ Cardinality(refused \cup (dropped \cup gone)) = Cardinality(refused) + Cardinality(dropped \cup gone)
    BY <2>1, <2>6, <2>8, DisjointSize
  <2>10. /\ IsFiniteSet(acked \cup (refused \cup (dropped \cup gone)))
         /\ Cardinality(acked \cup (refused \cup (dropped \cup gone)))
              = Cardinality(acked) + Cardinality(refused \cup (dropped \cup gone))
    <3>1. acked \cap (refused \cup (dropped \cup gone)) = {}
      BY <2>1
    <3> QED
      BY <2>6, <2>9, <3>1, DisjointSize
  <2>11. Cardinality((Q \cup F) \cup (acked \cup (refused \cup (dropped \cup gone))))
           = Cardinality(Q \cup F) + Cardinality(acked \cup (refused \cup (dropped \cup gone)))
    <3>1. (Q \cup F) \cap (acked \cup (refused \cup (dropped \cup gone))) = {}
      BY <2>1
    <3> QED
      BY <2>7, <2>10, <3>1, DisjointSize
  <2>12. tracked = (Q \cup F) \cup (acked \cup (refused \cup (dropped \cup gone)))
    BY <2>1
  <2>13. /\ Cardinality(Q) \in Nat /\ Cardinality(F) \in Nat /\ Cardinality(acked) \in Nat
         /\ Cardinality(refused) \in Nat /\ Cardinality(dropped) \in Nat /\ Cardinality(gone) \in Nat
    BY <2>6, FS_CardinalityType
  <2>14. Cardinality(tracked) = Len(queue) + Cardinality(F) + Cardinality(acked)
           + Cardinality(refused) + Cardinality(dropped) + Cardinality(gone)
    BY <2>2, <2>7, <2>8, <2>9, <2>10, <2>11, <2>12, <2>13
  <2> QED
    BY <2>1, <2>3, <2>4, <2>5, <2>14 DEF OnePlace, Q
<1>2. Init => TypeOK /\ PlaceInv
  BY PlaceInit
<1>3. TypeOK /\ PlaceInv /\ [Next]_vars => (TypeOK /\ PlaceInv)'
  BY PlaceNext
<1> QED
  BY <1>1, <1>2, <1>3, PTL DEF Spec

(***************************************************************************)
(* What the collector counted.                                             *)
(***************************************************************************)
LEMMA SameCardinality == \A S : Collector!Cardinality(S) = Cardinality(S)
  BY DEF Collector!Cardinality, Cardinality

(* One step of the collector, for events E that were tracked.              *)
LEMMA CreditCounts ==
  ASSUME TypeOK, AckInv, NEW E, E \subseteq tracked, Credit(E)
  PROVE  /\ credited' \in [{Site} -> SUBSET tracked]
         /\ credited'[Site] = credited[Site] \cup E
         /\ counter' = [s \in {Site} |-> [k \in {"plain", "action"} |->
                                           Cardinality(Collector!OfKind(credited'[s], k))]]
<1> DEFINE N == E \ credited[Site]
<1>1. /\ credited \in [{Site} -> SUBSET tracked]
      /\ counter = [s \in {Site} |-> [k \in {"plain", "action"} |->
                                       Cardinality(Collector!OfKind(credited[s], k))]]
      /\ tracked \subseteq Events /\ IsFiniteSet(Events)
  BY EventsAssumption DEF AckInv, TypeOK
<1>2. /\ credited' = [credited EXCEPT ![Site] = @ \cup N]
      /\ counter' = [counter EXCEPT
                       ![Site] = [k \in {"plain", "action"} |->
                                    counter[Site][k] + Cardinality(Collector!OfKind(N, k))]]
  <2>1. Collector!Credit(Site, N)
    BY DEF Credit
  <2> HIDE DEF N
  <2> QED
    BY <2>1, SameCardinality DEF Collector!Credit
<1>3. credited'[Site] = credited[Site] \cup E /\ credited' \in [{Site} -> SUBSET tracked]
  BY <1>1, <1>2
<1>4. ASSUME NEW k PROVE Cardinality(Collector!OfKind(credited[Site], k)) + Cardinality(Collector!OfKind(N, k))
                           = Cardinality(Collector!OfKind(credited'[Site], k))
  <2> DEFINE S == Collector!OfKind(credited[Site], k)
             T == Collector!OfKind(N, k)
  <2>1. S \cap T = {} /\ S \cup T = Collector!OfKind(credited'[Site], k)
    BY <1>3 DEF Collector!OfKind
  <2>2. S \subseteq Events /\ T \subseteq Events
    BY <1>1 DEF Collector!OfKind
  <2> HIDE DEF S, T
  <2>3. IsFiniteSet(S) /\ IsFiniteSet(T)
    BY <1>1, <2>2, FS_Subset
  <2>4. Cardinality(S \cup T) = Cardinality(S) + Cardinality(T)
    BY <2>1, <2>3, DisjointSize
  <2> QED
    BY <2>1, <2>4 DEF S, T
<1> HIDE DEF N
<1>5. counter'[Site] = [k \in {"plain", "action"} |-> Cardinality(Collector!OfKind(credited'[Site], k))]
  BY <1>1, <1>2, <1>4
<1>6. counter' = [s \in {Site} |-> counter'[s]]
  BY <1>1, <1>2
<1> QED
  BY <1>3, <1>5, <1>6

(* A flush that starts has been answered nothing yet.                      *)
LEMMA StartsSent ==
  ASSUME TypeOK, NEW f \in Flushes, (\E e \in Events : Track(e, f)) \/ Flush(f)
  PROVE  /\ wire'[f] = "sent"
         /\ \A g \in Flushes : g # f => wire'[g] = wire[g] /\ taken'[g] = taken[g]
         /\ tracked \subseteq tracked'
         /\ UNCHANGED <<acked, refused, loose, stale, credited, counter>>
<1>1. /\ wire \in [Flushes -> {"none", "sent", "accepted", "refused", "failed"}]
      /\ taken \in [Flushes -> [Classes -> Seq(Events)]]
  BY DEF TypeOK
<1>2. /\ wire' = [wire EXCEPT ![f] = "sent"]
      /\ \E r : taken' = [taken EXCEPT ![f] = r]
      /\ tracked \subseteq tracked'
      /\ UNCHANGED <<acked, refused, loose, stale, credited, counter>>
  BY DEF Track, Flush, StartWith, fate, collector
<1> QED
  BY <1>1, <1>2

LEMMA AckNext == TypeOK /\ PlaceInv /\ AckInv /\ [Next]_vars => AckInv'
<1> SUFFICES ASSUME TypeOK, PlaceInv, AckInv, [Next]_vars PROVE AckInv'
  OBVIOUS
<1>1. /\ \A f \in Flushes :
           wire[f] = "accepted" => Elements(BatchIn(taken[f])) \subseteq credited[Site]
      /\ acked \subseteq credited[Site] /\ \A E \in loose : E \subseteq tracked
      /\ credited \in [{Site} -> SUBSET tracked]
  BY DEF AckInv
<1>2. CASE \E f \in Flushes : (\E e \in Events : Track(e, f)) \/ Flush(f)
  <2>1. PICK f \in Flushes :
          /\ wire'[f] = "sent"
          /\ \A g \in Flushes : g # f => wire'[g] = wire[g] /\ taken'[g] = taken[g]
          /\ tracked \subseteq tracked'
          /\ UNCHANGED <<acked, refused, loose, stale, credited, counter>>
    BY <1>2, StartsSent
  <2>2. \A g \in Flushes : wire'[g] = "accepted" => Elements(BatchIn(taken'[g])) \subseteq credited'[Site]
    BY <1>1, <2>1
  <2>3. credited' \in [{Site} -> SUBSET tracked']
    BY <1>1, <2>1
  <2>4. \A E \in loose' : E \subseteq tracked'
    BY <1>1, <2>1
  <2> QED
    BY <1>1, <2>1, <2>2, <2>3, <2>4 DEF AckInv
<1>3. CASE \E f \in Flushes : Deliver(f)
  <2>1. PICK f \in Flushes : Deliver(f)
    BY <1>3
  <2>2. /\ UNCHANGED <<tracked, queue, taken, fate, open, stale, loose>>
        /\ wire[f] = "sent" /\ \A g \in Flushes : g # f => wire'[g] = wire[g]
    BY <2>1, PlaceReach DEF Reach
  <2>3. Elements(Batch(f)) \subseteq tracked /\ Batch(f) = BatchIn(taken[f])
    BY <2>2, BatchTracked, BatchOf
  <2>4. /\ credited' \in [{Site} -> SUBSET tracked]
        /\ credited'[Site] = credited[Site] \cup Elements(Batch(f))
        /\ counter' = [s \in {Site} |-> [k \in {"plain", "action"} |->
                                           Cardinality(Collector!OfKind(credited'[s], k))]]
    BY <2>1, <2>3, CreditCounts DEF Deliver
  <2>5. /\ tracked' = tracked /\ taken' = taken /\ acked' = acked /\ loose' = loose
    BY <2>2 DEF fate
  <2>6. \A g \in Flushes : wire'[g] = "accepted" => Elements(BatchIn(taken'[g])) \subseteq credited'[Site]
    BY <1>1, <2>2, <2>3, <2>4, <2>5
  <2> QED
    BY <1>1, <2>4, <2>5, <2>6 DEF AckInv
<1>4. CASE \E f \in Flushes : Refuse(f) \/ Fail(f)
  <2>1. PICK f \in Flushes :
          /\ UNCHANGED <<tracked, taken, acked, loose, credited, counter>>
          /\ wire' = [wire EXCEPT ![f] = "refused"] \/ wire' = [wire EXCEPT ![f] = "failed"]
    BY <1>4 DEF Refuse, Fail, fate, collector
  <2>2. wire \in [Flushes -> {"none", "sent", "accepted", "refused", "failed"}]
    BY DEF TypeOK
  <2>3. \A g \in Flushes : wire'[g] = "accepted" => wire[g] = "accepted"
    BY <2>1, <2>2
  <2>4. \A g \in Flushes : wire'[g] = "accepted" => Elements(BatchIn(taken'[g])) \subseteq credited'[Site]
    BY <1>1, <2>1, <2>3
  <2> QED
    BY <1>1, <2>1, <2>4 DEF AckInv
<1>5. CASE \E f \in Flushes : Answer(f) \/ Timeout(f)
  <2>1. PICK f \in Flushes : Answer(f) \/ Timeout(f)
    BY <1>5
  <2>2. /\ Settle(f) /\ wire[f] # "none"
        /\ UNCHANGED <<tracked, stale, gone, open, collector>>
        /\ loose' \subseteq loose \cup {Elements(Batch(f))}
        /\ \/ wire[f] = "accepted" /\ acked' = acked \cup Elements(Batch(f))
           \/ acked' = acked
    BY <2>1, PlaceAnswer
  <2>3. Elements(Batch(f)) \subseteq tracked /\ Batch(f) = BatchIn(taken[f])
    BY <2>2, BatchTracked, BatchOf
  <2>4. /\ \A g \in Flushes : g # f => taken'[g] = taken[g] /\ wire'[g] = wire[g]
        /\ wire'[f] \in {"none", "sent"}
    BY <2>2, SettleKeeps DEF PlaceInv
  <2>5. credited' = credited /\ counter' = counter /\ tracked' = tracked
    BY <2>2 DEF collector
  <2>6. \A g \in Flushes : wire'[g] = "accepted" => Elements(BatchIn(taken'[g])) \subseteq credited'[Site]
    BY <1>1, <2>4, <2>5
  <2>7. acked' \subseteq credited'[Site]
    BY <1>1, <2>2, <2>3, <2>5
  <2>8. \A E \in loose' : E \subseteq tracked'
    BY <1>1, <2>2, <2>3, <2>5
  <2> QED
    BY <2>5, <2>6, <2>7, <2>8 DEF AckInv
<1>6. CASE \E E \in loose : ArriveLate(E)
  <2>1. PICK E \in loose : ArriveLate(E)
    BY <1>6
  <2>2. /\ tracked' = tracked /\ taken' = taken /\ wire' = wire /\ acked' = acked
        /\ loose' \subseteq loose /\ Credit(E)
    BY <2>1 DEF ArriveLate, page, fate
  <2>3. /\ credited' \in [{Site} -> SUBSET tracked]
        /\ credited'[Site] = credited[Site] \cup E
        /\ counter' = [s \in {Site} |-> [k \in {"plain", "action"} |->
                                           Cardinality(Collector!OfKind(credited'[s], k))]]
    BY <1>1, <2>2, CreditCounts
  <2>4. \A g \in Flushes : wire'[g] = "accepted" => Elements(BatchIn(taken'[g])) \subseteq credited'[Site]
    BY <1>1, <2>2, <2>3
  <2> QED
    BY <1>1, <2>2, <2>3, <2>4 DEF AckInv
<1>7. CASE (\E e \in Events : Expire(e)) \/ UNCHANGED vars
  <2>1. UNCHANGED <<tracked, taken, wire, acked, loose, credited, counter>>
    BY <1>7 DEF Expire, page, fate, collector, vars
  <2> QED
    BY <1>1, <2>1 DEF AckInv
<1>8. CASE Close
  <2>1. /\ wire' = [f \in Flushes |-> "none"]
        /\ loose' = loose \cup {Elements(Batch(f)) : f \in {g \in Flushes : wire[g] = "sent"}}
        /\ UNCHANGED <<tracked, acked, credited, counter>>
    BY <1>8 DEF Close, collector
  <2>2. \A f \in Flushes : wire[f] = "sent" => Elements(Batch(f)) \subseteq tracked
    BY BatchTracked
  <2>3. \A E \in loose' : E \subseteq tracked'
    BY <1>1, <2>1, <2>2
  <2>4. \A g \in Flushes : wire'[g] # "accepted"
    BY <2>1
  <2> QED
    BY <1>1, <2>1, <2>3, <2>4 DEF AckInv
<1> QED
  BY <1>2, <1>3, <1>4, <1>5, <1>6, <1>7, <1>8 DEF Next, Reach

LEMMA AckInit == Init => AckInv
<1> SUFFICES ASSUME Init PROVE AckInv
  OBVIOUS
<1>1. /\ tracked = {} /\ acked = {} /\ loose = {}
      /\ \A f \in Flushes : wire[f] = "none"
  BY DEF Init
<1>2. credited = [s \in {Site} |-> {}] /\ counter = [s \in {Site} |-> [k \in {"plain", "action"} |-> 0]]
  BY DEF Init, Collector!Init
<1>3. \A s \in {Site}, k \in {"plain", "action"} : Cardinality(Collector!OfKind(credited[s], k)) = 0
  BY <1>2, FS_EmptySet DEF Collector!OfKind
<1>4. counter = [s \in {Site} |-> [k \in {"plain", "action"} |->
                                    Cardinality(Collector!OfKind(credited[s], k))]]
  BY <1>2, <1>3
<1> QED
  BY <1>1, <1>2, <1>4 DEF AckInv

(* What the browser was told was accepted is counted, and nothing that did *)
(* not happen is: retries, late arrivals and lost answers change neither.  *)
THEOREM CountsStayHonest == Spec => []CountsAreHonest
<1>1. TypeOK /\ AckInv => CountsAreHonest
  <2> SUFFICES ASSUME TypeOK, AckInv, NEW k \in {"plain", "action"}
               PROVE  /\ Cardinality(Collector!OfKind(acked, k)) <= counter[Site][k]
                      /\ counter[Site][k] <= Cardinality(Collector!OfKind(tracked, k))
    BY DEF CountsAreHonest
  <2> DEFINE A == Collector!OfKind(acked, k)
             C == Collector!OfKind(credited[Site], k)
             T == Collector!OfKind(tracked, k)
  <2>1. acked \subseteq credited[Site] /\ credited[Site] \subseteq tracked /\ tracked \subseteq Events
    BY DEF AckInv, TypeOK
  <2>2. A \subseteq C /\ C \subseteq T /\ T \subseteq Events
    BY <2>1 DEF Collector!OfKind
  <2>3. counter[Site][k] = Cardinality(C)
    BY DEF AckInv
  <2> HIDE DEF A, C, T
  <2>4. IsFiniteSet(T) /\ IsFiniteSet(C)
    BY <2>2, EventsAssumption, FS_Subset
  <2>5. Cardinality(A) <= Cardinality(C) /\ Cardinality(C) <= Cardinality(T)
    BY <2>2, <2>4, FS_Subset
  <2> QED
    BY <2>3, <2>5 DEF A, T
<1>2. Init => TypeOK /\ PlaceInv /\ AckInv
  BY PlaceInit, AckInit
<1>3. TypeOK /\ PlaceInv /\ AckInv /\ [Next]_vars => (TypeOK /\ PlaceInv /\ AckInv)'
  BY PlaceNext, AckNext
<1> QED
  BY <1>1, <1>2, <1>3, PTL DEF Spec

(***************************************************************************)
(* What is given up.                                                       *)
(***************************************************************************)
LEMMA RefuseNext == TypeOK /\ PlaceInv /\ RefuseInv /\ [Next]_vars => RefuseInv'
<1> SUFFICES ASSUME TypeOK, PlaceInv, RefuseInv, [Next]_vars PROVE RefuseInv'
  OBVIOUS
<1>1. /\ \A f \in Flushes :
           wire[f] = "refused" => Elements(BatchIn(taken[f])) \cap (Unknown \cup stale) # {}
      /\ \A e \in refused : \E x \in refused \cap (Unknown \cup stale) : ClassOf[x] = ClassOf[e]
  BY DEF RefuseInv, RefusalIsOwn
<1>2. wire \in [Flushes -> {"none", "sent", "accepted", "refused", "failed"}]
  BY DEF TypeOK
<1>3. CASE \E f \in Flushes : (\E e \in Events : Track(e, f)) \/ Flush(f)
  <2>1. PICK f \in Flushes :
          /\ wire'[f] = "sent"
          /\ \A g \in Flushes : g # f => wire'[g] = wire[g] /\ taken'[g] = taken[g]
          /\ UNCHANGED <<refused, stale>>
    BY <1>3, StartsSent
  <2>2. \A g \in Flushes :
          wire'[g] = "refused" => Elements(BatchIn(taken'[g])) \cap (Unknown \cup stale') # {}
    BY <1>1, <2>1
  <2> QED
    BY <1>1, <2>1, <2>2 DEF RefuseInv, RefusalIsOwn
<1>4. CASE \E f \in Flushes : Deliver(f) \/ Fail(f)
  <2>1. PICK f \in Flushes :
          /\ UNCHANGED <<taken, refused, stale>>
          /\ wire' = [wire EXCEPT ![f] = "accepted"] \/ wire' = [wire EXCEPT ![f] = "failed"]
    BY <1>4 DEF Deliver, Fail, fate
  <2>2. \A g \in Flushes : wire'[g] = "refused" => wire[g] = "refused"
    BY <1>2, <2>1
  <2>3. \A g \in Flushes :
          wire'[g] = "refused" => Elements(BatchIn(taken'[g])) \cap (Unknown \cup stale') # {}
    BY <1>1, <2>1, <2>2
  <2> QED
    BY <1>1, <2>1, <2>3 DEF RefuseInv, RefusalIsOwn
<1>5. CASE \E f \in Flushes : Refuse(f)
  <2>1. PICK f \in Flushes :
          /\ UNCHANGED <<taken, refused, stale>>
          /\ wire' = [wire EXCEPT ![f] = "refused"]
          /\ Elements(Batch(f)) \cap (Unknown \cup stale) # {}
    BY <1>5 DEF Refuse, Acceptable, fate
  <2>2. Batch(f) = BatchIn(taken[f]) /\ \A g \in Flushes : g # f => wire'[g] = wire[g]
    BY <1>2, <2>1, BatchOf
  <2>3. \A g \in Flushes :
          wire'[g] = "refused" => Elements(BatchIn(taken'[g])) \cap (Unknown \cup stale') # {}
    BY <1>1, <2>1, <2>2
  <2> QED
    BY <1>1, <2>1, <2>3 DEF RefuseInv, RefusalIsOwn
<1>6. CASE \E f \in Flushes : Answer(f) \/ Timeout(f)
  <2>1. PICK f \in Flushes : Answer(f) \/ Timeout(f)
    BY <1>6
  <2>2. /\ Settle(f) /\ wire[f] # "none" /\ stale' = stale
        /\ \/ wire[f] = "refused" /\ refused' = refused \cup Elements(Batch(f))
           \/ refused' = refused
    BY <2>1, PlaceAnswer
  <2>3. /\ \A g \in Flushes : g # f => taken'[g] = taken[g] /\ wire'[g] = wire[g]
        /\ wire'[f] \in {"none", "sent"}
    BY <2>2, SettleKeeps DEF PlaceInv
  <2>4. \A g \in Flushes :
          wire'[g] = "refused" => Elements(BatchIn(taken'[g])) \cap (Unknown \cup stale') # {}
    BY <1>1, <2>2, <2>3
  <2>5. Batch(f) = BatchIn(taken[f]) /\ \A e \in Elements(Batch(f)) : ClassOf[e] = Turn(f)
    BY <2>2, BatchHeld, BatchOf DEF PlaceInv
  <2>6. RefusalIsOwn'
    <3>1. CASE refused' = refused
      BY <1>1, <2>2, <3>1 DEF RefusalIsOwn
    <3>2. CASE wire[f] = "refused" /\ refused' = refused \cup Elements(Batch(f))
      <4>1. PICK x \in Elements(Batch(f)) : x \in Unknown \cup stale
        BY <1>1, <2>5, <3>2
      <4>2. \A e \in Elements(Batch(f)) : ClassOf[x] = ClassOf[e]
        BY <2>5, <4>1
      <4> SUFFICES ASSUME NEW e \in refused'
                   PROVE  \E y \in refused' \cap (Unknown \cup stale') : ClassOf[y] = ClassOf[e]
        BY DEF RefusalIsOwn
      <4>3. CASE e \in refused
        BY <1>1, <2>2, <3>2, <4>3
      <4>4. CASE e \in Elements(Batch(f))
        BY <2>2, <3>2, <4>1, <4>2, <4>4
      <4> QED
        BY <3>2, <4>3, <4>4
    <3> QED
      BY <2>2, <3>1, <3>2
  <2> QED
    BY <2>4, <2>6 DEF RefuseInv
<1>7. CASE (\E E \in loose : ArriveLate(E)) \/ (\E e \in Events : Expire(e)) \/ UNCHANGED vars
  <2>1. UNCHANGED <<taken, wire, refused>> /\ stale \subseteq stale'
    BY <1>7 DEF ArriveLate, Expire, page, fate, vars
  <2>2. \A g \in Flushes :
          wire'[g] = "refused" => Elements(BatchIn(taken'[g])) \cap (Unknown \cup stale') # {}
    BY <1>1, <2>1
  <2>3. RefusalIsOwn'
    BY <1>1, <2>1 DEF RefusalIsOwn
  <2> QED
    BY <2>2, <2>3 DEF RefuseInv
<1>8. CASE Close
  <2>1. wire' = [f \in Flushes |-> "none"] /\ UNCHANGED <<refused, stale>>
    BY <1>8 DEF Close
  <2>2. \A g \in Flushes : wire'[g] # "refused"
    BY <2>1
  <2> QED
    BY <1>1, <2>1, <2>2 DEF RefuseInv, RefusalIsOwn
<1> QED
  BY <1>3, <1>4, <1>5, <1>6, <1>7, <1>8 DEF Next, Reach

(* Nothing is given up for an event of another class.                      *)
THEOREM OwnRefusals == Spec => []RefusalIsOwn
<1>1. Init => TypeOK /\ PlaceInv /\ RefuseInv
  <2>1. Init => RefuseInv
    BY DEF Init, RefuseInv, RefusalIsOwn
  <2> QED
    BY <2>1, PlaceInit
<1>2. TypeOK /\ PlaceInv /\ RefuseInv /\ [Next]_vars => (TypeOK /\ PlaceInv /\ RefuseInv)'
  BY PlaceNext, RefuseNext
<1>3. RefuseInv => RefusalIsOwn
  BY DEF RefuseInv
<1> QED
  BY <1>1, <1>2, <1>3, PTL DEF Spec

(***************************************************************************)
(* Page: loaders, the opt-out and navigation.                              *)
(***************************************************************************)
(* A loader that fetches the configuration, or has inserted its script.    *)
Active(l) == loader[l] = "fetching" \/ script[l] # "absent"

(* Of the loaders one at most is active, and it saw none of the tags.      *)
LoaderInv ==
  /\ \A l, m \in Loaders : Active(l) /\ Active(m) => l = m
  /\ \A l \in Loaders : Active(l) => started
  /\ \A l \in Loaders : script[l] # "absent" => loader[l] = "done" /\ late = Tags

(* An opt-out some script has stored is still there.                       *)
OptInv == (ignored => storage.out) /\ (storage.out => storage.works)

(* Views `v` count each page once, the last of them `p`.                   *)
AutoOf(v) == {i \in DOMAIN v : v[i].by # "call"}
CountsTo(v, p) ==
  /\ \E last \in AutoOf(v) : v[last].page = p /\ \A i \in AutoOf(v) : i <= last
  /\ \A i, j \in AutoOf(v) :
       i < j /\ (\A k \in AutoOf(v) : k <= i \/ k >= j) => v[i].page # v[j].page

(* A client that watches is told of every call and event, and has counted  *)
(* up to the page it looked at last.                                       *)
WatchInv ==
  \A s \in Scripts : client[s].listens =>
    /\ \A m \in Methods : s \in Range(history.wrappers[m])
    /\ client[s].checks = 0 => client[s].last = address.key
    /\ CountsTo(client[s].views, client[s].last)

(***************************************************************************)
(* Views.                                                                  *)
(***************************************************************************)
LEMMA AppendsView ==
  ASSUME NEW v \in Seq(View), NEW e \in View
  PROVE  /\ Append(v, e) \in Seq(View) /\ Len(v) \in Nat /\ DOMAIN v = 1..Len(v)
         /\ DOMAIN Append(v, e) = 1..(Len(v) + 1)
         /\ Append(v, e)[Len(v) + 1] = e
         /\ \A i \in DOMAIN v : Append(v, e)[i] = v[i]
  OBVIOUS

LEMMA CallsCount ==
  ASSUME NEW v \in Seq(View), NEW e \in View, e.by = "call", NEW p, CountsTo(v, p)
  PROVE  CountsTo(Append(v, e), p)
<1> DEFINE w == Append(v, e)
<1>1. AutoOf(w) = AutoOf(v) /\ \A i \in AutoOf(v) : w[i] = v[i]
  BY AppendsView DEF AutoOf
<1> HIDE DEF w
<1>2. CountsTo(w, p)
  BY <1>1 DEF CountsTo
<1> QED
  BY <1>2 DEF w

LEMMA FirstCounts ==
  ASSUME NEW e \in View, e.by # "call"
  PROVE  CountsTo(Append(<<>>, e), e.page)
<1> DEFINE w == Append(<<>>, e)
<1>1. DOMAIN w = {1} /\ w[1] = e
  OBVIOUS
<1> HIDE DEF w
<1>2. AutoOf(w) = {1}
  BY <1>1 DEF AutoOf
<1>3. w[1].page = e.page /\ (\A i \in AutoOf(w) : i <= 1)
      /\ \A i, j \in AutoOf(w) : ~(i < j)
  BY <1>1, <1>2
<1>4. CountsTo(w, e.page)
  BY <1>2, <1>3 DEF CountsTo
<1> QED
  BY <1>4 DEF w

LEMMA NextCounts ==
  ASSUME NEW v \in Seq(View), NEW e \in View, e.by # "call", NEW p, CountsTo(v, p), e.page # p
  PROVE  CountsTo(Append(v, e), e.page)
<1> DEFINE w == Append(v, e)
           n == Len(v) + 1
<1>1. AutoOf(w) = AutoOf(v) \cup {n} /\ w[n] = e /\ \A i \in AutoOf(v) : w[i] = v[i]
  BY AppendsView DEF AutoOf
<1>2. n \in Nat /\ AutoOf(v) \subseteq 1..Len(v) /\ Len(v) \in Nat
  BY AppendsView DEF AutoOf
<1>3. \A i \in AutoOf(v) : i \in Nat /\ i < n
  BY <1>2
<1>4. PICK last \in AutoOf(v) : v[last].page = p /\ \A i \in AutoOf(v) : i <= last
  BY DEF CountsTo
<1> HIDE DEF w, n
<1>5. w[n].page = e.page /\ \A i \in AutoOf(w) : i <= n
  BY <1>1, <1>2, <1>3
<1>6. ASSUME NEW i \in AutoOf(w), NEW j \in AutoOf(w), i < j, \A k \in AutoOf(w) : k <= i \/ k >= j
      PROVE  w[i].page # w[j].page
  <2>1. i \in AutoOf(v)
    BY <1>1, <1>2, <1>3, <1>6
  <2>2. CASE j \in AutoOf(v)
    BY <1>1, <1>6, <2>1, <2>2 DEF CountsTo
  <2>3. CASE j = n
    <3>1. last <= i \/ last >= n
      BY <1>1, <1>4, <1>6, <2>3
    <3>2. i <= last /\ last < n
      BY <1>3, <1>4, <2>1
    <3>3. i = last
      BY <1>2, <1>3, <1>4, <2>1, <3>1, <3>2
    <3> QED
      BY <1>1, <1>4, <2>3, <3>3
  <2> QED
    BY <1>1, <2>2, <2>3
<1> QED
  BY <1>1, <1>5, <1>6 DEF CountsTo, w

(***************************************************************************)
(* Clients.                                                                *)
(***************************************************************************)
(* A client that watches has counted up to the page it looked at, and owes *)
(* no look unless the address has moved, which is `key` now.               *)
Watching(c, key) ==
  c.listens => /\ c.checks = 0 => c.last = key
               /\ CountsTo(c.views, c.last)

Told(s) == \A m \in Methods : s \in Range(history.wrappers[m])

LEMMA WatchParts ==
  WatchInv <=> \A s \in Scripts : Watching(client[s], address.key) /\ (client[s].listens => Told(s))
  BY DEF WatchInv, Watching, Told

(* The fields of a client that has one more view.                          *)
LEMMA ViewAdded ==
  ASSUME PageTypeOK, NEW c \in Client, NEW by \in {"landing", "navigation", "call"}
  PROVE  LET e == [page |-> address.key, by |-> by]
             d == WithView(c, by) IN
         /\ e \in View /\ d \in Client /\ d.views = Append(c.views, e) /\ d.views \in Seq(View)
         /\ d.state = c.state /\ d.last = c.last /\ d.listens = c.listens /\ d.checks = c.checks
<1> DEFINE e == [page |-> address.key, by |-> by]
<1>1. e \in View /\ c.views \in Seq(View)
  BY DEF PageTypeOK, View, Client
<1>2. Append(c.views, e) \in Seq(View)
  BY <1>1
<1> HIDE DEF e
<1>3. WithView(c, by) = [c EXCEPT !.views = Append(c.views, e)]
  BY DEF WithView, e, Client
<1> QED
  BY <1>1, <1>2, <1>3 DEF Client, e

LEMMA CountedTyped ==
  ASSUME PageTypeOK, NEW c \in Client, Watching(c, address.key) \/ (c.listens => CountsTo(c.views, c.last))
  PROVE  /\ Counted(c) \in Client
         /\ Counted(c).listens = c.listens /\ Counted(c).checks = c.checks /\ Counted(c).state = c.state
         /\ Watching(Counted(c), address.key)
<1>1. CASE c.last = address.key
  <2>1. Counted(c) = c
    BY <1>1 DEF Counted
  <2> QED
    BY <1>1, <2>1 DEF Watching
<1>2. CASE c.last # address.key
  <2> DEFINE d == [c EXCEPT !.last = address.key]
             e == [page |-> address.key, by |-> "navigation"]
  <2>1. /\ d \in Client /\ d.last = address.key /\ d.listens = c.listens /\ d.checks = c.checks
        /\ d.state = c.state /\ d.views = c.views /\ c.views \in Seq(View)
    BY DEF PageTypeOK, Client
  <2>2. Counted(c) = WithView(d, "navigation")
    BY <1>2 DEF Counted
  <2> HIDE DEF d
  <2>3. /\ e \in View /\ Counted(c) \in Client /\ Counted(c).views = Append(c.views, e)
        /\ Counted(c).listens = c.listens /\ Counted(c).checks = c.checks /\ Counted(c).state = c.state
        /\ Counted(c).last = address.key
    BY <2>1, <2>2, ViewAdded
  <2>4. e.page = address.key /\ e.by # "call"
    OBVIOUS
  <2> HIDE DEF e
  <2>5. c.listens => CountsTo(Append(c.views, e), address.key)
    BY <1>2, <2>1, <2>3, <2>4, NextCounts DEF Watching
  <2> QED
    BY <2>3, <2>5 DEF Watching
<1> QED
  BY <1>1, <1>2

(***************************************************************************)
(* Types.                                                                  *)
(***************************************************************************)
LEMMA NoClientTyped == NoClient \in Client /\ ~NoClient.listens /\ NoClient.checks = 0
  BY DEF NoClient, Client

LEMMA PageTypeInit == PageInit => PageTypeOK
<1> SUFFICES ASSUME PageInit PROVE PageTypeOK
  OBVIOUS
<1>1. history \in [accepts : BOOLEAN, wrappers : [Methods -> Seq(Scripts \cup {Library})]]
  BY DEF PageInit
<1>2. 0 \in 0..MaxMoves /\ 0 \in 0..MaxCalls
  BY PageBounds
<1> QED
  BY <1>1, <1>2, NoClientTyped DEF PageInit, PageTypeOK

LEMMA Resolved ==
  ASSUME PageTypeOK, OptInv, ResolveIgnore
  PROVE  /\ storage' \in [works : BOOLEAN, out : BOOLEAN] /\ ignored' \in BOOLEAN
         /\ OptInv' /\ (ignored /\ ignored' => Ignored)
<1>1. storage \in [works : BOOLEAN, out : BOOLEAN] /\ ignored \in BOOLEAN
      /\ address.switch \in {"on", "off", "none"} /\ Ignored \in BOOLEAN
  BY DEF PageTypeOK, Ignored
<1> QED
  BY <1>1 DEF ResolveIgnore, OptInv, Ignored

(***************************************************************************)
(* The loaders.                                                            *)
(***************************************************************************)
PageInv == PageTypeOK /\ LoaderInv /\ OptInv /\ WatchInv

(* Nothing a client looks at.                                              *)
LEMMA WatchStays ==
  ASSUME WatchInv, UNCHANGED <<address, history, client>>
  PROVE  WatchInv'
  BY DEF WatchInv

LEMMA LoaderRunsKeeps ==
  ASSUME PageInv, NEW l \in Loaders, LoaderRuns(l)
  PROVE  PageInv' /\ (ignored /\ ignored' => Live' \subseteq Live)
<1>1. UNCHANGED <<address, history, shown, option, script, sdkInserted, client, late, moves, calls>>
  BY DEF LoaderRuns
<1>2. PageTypeOK /\ LoaderInv /\ OptInv /\ WatchInv /\ loader \in [Loaders -> {"absent", "fetching", "done"}]
  BY DEF PageInv, PageTypeOK
<1>3. WatchInv' /\ Live' = Live
  BY <1>1, <1>2, WatchStays DEF Live
<1>4. CASE started \/ SdkThere
  <2>1. loader' = [loader EXCEPT ![l] = "done"] /\ UNCHANGED <<storage, ignored, started>>
    BY <1>4 DEF LoaderRuns
  <2>2. PageTypeOK' /\ OptInv'
    BY <1>1, <1>2, <2>1 DEF PageTypeOK, OptInv
  <2>3. LoaderInv'
    BY <1>1, <1>2, <2>1 DEF LoaderInv, Active
  <2> QED
    BY <1>3, <2>2, <2>3 DEF PageInv
<1>5. CASE ~(started \/ SdkThere)
  <2>1. started' = TRUE /\ ResolveIgnore /\ loader[l] = "absent"
        /\ loader' = [loader EXCEPT ![l] = IF Ignored THEN "done" ELSE "fetching"]
    BY <1>5 DEF LoaderRuns
  <2>2. PageTypeOK' /\ OptInv'
    BY <1>1, <1>2, <2>1, Resolved DEF PageTypeOK
  <2>3. \A m \in Loaders : ~Active(m)
    BY <1>2, <1>5 DEF LoaderInv
  <2>4. \A m \in Loaders : Active(m)' => m = l
    BY <1>1, <1>2, <2>1, <2>3 DEF Active
  <2>5. \A m \in Loaders : script'[m] = "absent"
    BY <1>1, <2>3 DEF Active
  <2>6. LoaderInv'
    BY <2>1, <2>4, <2>5 DEF LoaderInv
  <2> QED
    BY <1>3, <2>2, <2>6 DEF PageInv
<1> QED
  BY <1>4, <1>5

LEMMA ConfigArrivesKeeps ==
  ASSUME PageInv, NEW l \in Loaders, NEW valid \in BOOLEAN, ConfigArrives(l, valid)
  PROVE  PageInv' /\ Live' = Live
<1>1. /\ UNCHANGED <<address, storage, history, shown, option, started, client, ignored, moves, calls>>
      /\ loader[l] = "fetching" /\ loader' = [loader EXCEPT ![l] = "done"]
  BY DEF ConfigArrives
<1>2. /\ PageTypeOK /\ LoaderInv /\ OptInv /\ WatchInv /\ loader \in [Loaders -> {"absent", "fetching", "done"}]
      /\ script \in [Scripts -> {"absent", "loading", "failed", "ran"}] /\ l \in Scripts /\ Loaders \subseteq Scripts
  BY DEF PageInv, PageTypeOK, Scripts
<1>3. WatchInv' /\ OptInv' /\ Live' = Live
  BY <1>1, <1>2, WatchStays DEF OptInv, Live
<1>4. CASE ~valid \/ SdkThere
  <2>1. UNCHANGED <<script, sdkInserted, late>>
    BY <1>4 DEF ConfigArrives
  <2>2. PageTypeOK'
    BY <1>1, <1>2, <2>1 DEF PageTypeOK
  <2>3. LoaderInv'
    BY <1>1, <1>2, <2>1 DEF LoaderInv, Active
  <2> QED
    BY <1>3, <2>2, <2>3 DEF PageInv
<1>5. CASE ~(~valid \/ SdkThere)
  <2>1. /\ sdkInserted' = TRUE /\ script' = [script EXCEPT ![l] = "loading"]
        /\ late' = {t \in Tags : script[t] = "absent" \/ (t \notin shown /\ script[t] # "ran")}
    BY <1>5 DEF ConfigArrives
  <2>2. PageTypeOK'
    BY <1>1, <1>2, <2>1 DEF PageTypeOK
  <2>3. late' = Tags
    BY <1>5, <2>1 DEF SdkThere, Global, TagFound, Scripts
  <2>4. \A m \in Loaders : Active(m) => m = l
    BY <1>1, <1>2 DEF LoaderInv, Active
  <2>5. \A m \in Loaders : Active(m)' => m = l
    BY <1>1, <1>2, <2>1, <2>4 DEF Active
  <2>6. started' /\ loader'[l] = "done"
    BY <1>1, <1>2 DEF LoaderInv, Active
  <2>7. \A m \in Loaders : script'[m] # "absent" => m = l
    BY <2>5 DEF Active
  <2>8. LoaderInv'
    BY <2>3, <2>5, <2>6, <2>7 DEF LoaderInv
  <2> QED
    BY <1>3, <2>2, <2>8 DEF PageInv
<1> QED
  BY <1>4, <1>5

(* A script moves on in its life, once it was inserted.                    *)
LEMMA ScriptMoves ==
  ASSUME PageTypeOK, LoaderInv, NEW s \in Scripts, NEW to \in {"loading", "failed", "ran"},
         s \in Tags \/ script[s] # "absent", script' = [script EXCEPT ![s] = to],
         UNCHANGED <<loader, started, late>>
  PROVE  LoaderInv' /\ script' \in [Scripts -> {"absent", "loading", "failed", "ran"}]
<1>1. script \in [Scripts -> {"absent", "loading", "failed", "ran"}]
  BY DEF PageTypeOK
<1>2. \A l \in Loaders : script'[l] # "absent" <=> script[l] # "absent"
  BY <1>1, ScriptsAssumption DEF Scripts
<1>3. \A l \in Loaders : Active(l)' <=> Active(l)
  BY <1>2 DEF Active
<1> QED
  BY <1>1, <1>2, <1>3 DEF LoaderInv

LEMMA TagParsedKeeps ==
  ASSUME PageInv, NEW t \in Tags, TagParsed(t)
  PROVE  PageInv' /\ Live' = Live
<1>1. /\ UNCHANGED <<address, storage, history, shown, option, loader, started, sdkInserted, client, late,
                     ignored, moves, calls>>
      /\ script' = [script EXCEPT ![t] = "loading"] /\ t \in Scripts
  BY DEF TagParsed, Scripts
<1>2. PageTypeOK /\ LoaderInv /\ OptInv /\ WatchInv
  BY DEF PageInv
<1>3. LoaderInv' /\ script' \in [Scripts -> {"absent", "loading", "failed", "ran"}]
  BY <1>1, <1>2, ScriptMoves
<1>4. PageTypeOK' /\ OptInv' /\ WatchInv' /\ Live' = Live
  BY <1>1, <1>2, <1>3, WatchStays DEF PageTypeOK, OptInv, Live
<1> QED
  BY <1>3, <1>4 DEF PageInv

LEMMA ScriptFailsKeeps ==
  ASSUME PageInv, NEW s \in Scripts, ScriptFails(s)
  PROVE  PageInv' /\ Live' = Live
<1>1. /\ UNCHANGED <<address, storage, history, shown, option, loader, started, client, late,
                     ignored, moves, calls>>
      /\ script[s] = "loading" /\ script' = [script EXCEPT ![s] = "failed"]
      /\ sdkInserted' = IF s \in Loaders THEN FALSE ELSE sdkInserted
  BY DEF ScriptFails
<1>2. PageTypeOK /\ LoaderInv /\ OptInv /\ WatchInv
  BY DEF PageInv
<1>3. LoaderInv' /\ script' \in [Scripts -> {"absent", "loading", "failed", "ran"}]
  BY <1>1, <1>2, ScriptMoves
<1>4. PageTypeOK' /\ OptInv' /\ WatchInv' /\ Live' = Live
  BY <1>1, <1>2, <1>3, WatchStays DEF PageTypeOK, OptInv, Live
<1> QED
  BY <1>3, <1>4 DEF PageInv

(***************************************************************************)
(* The clients.                                                            *)
(***************************************************************************)
LEMMA LoadersStay ==
  ASSUME LoaderInv, UNCHANGED <<script, loader, started, late>>
  PROVE  LoaderInv'
  BY DEF LoaderInv, Active

LEMMA Prefixed ==
  ASSUME NEW E, NEW w \in Seq(E), NEW e \in E
  PROVE  /\ <<e>> \o w \in Seq(E) /\ e \in Range(<<e>> \o w)
         /\ \A x : x \in Range(w) => x \in Range(<<e>> \o w)
<1>1. <<e>> \o w \in Seq(E) /\ DOMAIN w = 1..Len(w) /\ Len(w) \in Nat
      /\ DOMAIN (<<e>> \o w) = 1..(Len(w) + 1) /\ (<<e>> \o w)[1] = e
      /\ \A i \in 1..Len(w) : (<<e>> \o w)[i + 1] = w[i]
  OBVIOUS
<1>2. e \in Range(<<e>> \o w)
  BY <1>1 DEF Range
<1>3. ASSUME NEW x, x \in Range(w) PROVE x \in Range(<<e>> \o w)
  <2>1. PICK i \in 1..Len(w) : w[i] = x
    BY <1>1, <1>3 DEF Range
  <2>2. i + 1 \in 1..(Len(w) + 1)
    BY <1>1
  <2> QED
    BY <1>1, <2>1, <2>2 DEF Range
<1> QED
  BY <1>1, <1>2, <1>3

LEMMA UnwrappedKeeps ==
  ASSUME NEW E, NEW w \in Seq(E), NEW s
  PROVE  /\ Unwrapped(w, s) \in Seq(E)
         /\ \A x : x \in Range(w) /\ x # s => x \in Range(Unwrapped(w, s))
<1>1. CASE w # <<>> /\ Head(w) = s
  <2>1. Unwrapped(w, s) = Tail(w)
    BY <1>1 DEF Unwrapped
  <2>2. /\ Tail(w) \in Seq(E) /\ Len(w) \in Nat /\ DOMAIN w = 1..Len(w) /\ w[1] = s
        /\ DOMAIN Tail(w) = 1..(Len(w) - 1) /\ \A i \in 1..(Len(w) - 1) : Tail(w)[i] = w[i + 1]
    BY <1>1
  <2>3. ASSUME NEW x, x \in Range(w), x # s PROVE x \in Range(Tail(w))
    <3>1. PICK i \in 1..Len(w) : w[i] = x
      BY <2>2, <2>3 DEF Range
    <3>2. i - 1 \in 1..(Len(w) - 1) /\ i = (i - 1) + 1
      BY <2>2, <2>3, <3>1
    <3> QED
      BY <2>2, <3>1, <3>2 DEF Range
  <2> QED
    BY <2>1, <2>2, <2>3
<1>2. CASE ~(w # <<>> /\ Head(w) = s)
  BY <1>2 DEF Unwrapped
<1> QED
  BY <1>1, <1>2

HistoryTyped(h) == h \in [accepts : BOOLEAN, wrappers : [Methods -> Seq(Scripts \cup {Library})]]

LEMMA ScriptRunsKeeps ==
  ASSUME PageInv, NEW s \in Scripts, ScriptRuns(s)
  PROVE  PageInv' /\ (ignored /\ ignored' => Live' \subseteq Live)
<1> DEFINE new == [NoClient EXCEPT !.state = "live", !.last = address.key]
           landed == IF option[s] = "manual" THEN new ELSE WithView(new, "landing")
           mine == [landed EXCEPT !.listens = Watches(s)]
<1>1. /\ UNCHANGED <<address, shown, option, loader, started, sdkInserted, late, moves, calls>>
      /\ script[s] = "loading" /\ script' = [script EXCEPT ![s] = "ran"] /\ ResolveIgnore
  BY DEF ScriptRuns
<1>2. PageTypeOK /\ LoaderInv /\ OptInv /\ WatchInv
  BY DEF PageInv
<1>3. LoaderInv' /\ script' \in [Scripts -> {"absent", "loading", "failed", "ran"}]
  BY <1>1, <1>2, ScriptMoves
<1>4. /\ storage' \in [works : BOOLEAN, out : BOOLEAN] /\ ignored' \in BOOLEAN
      /\ OptInv' /\ (ignored /\ ignored' => Ignored)
  BY <1>1, <1>2, Resolved
<1>5. /\ HistoryTyped(history) /\ client \in [Scripts -> Client] /\ client[s] \in Client
      /\ address.key \in Keys /\ option[s] \in Options
      /\ \A p \in Scripts : Watching(client[p], address.key) /\ (client[p].listens => Told(p))
  BY <1>2, WatchParts DEF PageTypeOK, HistoryTyped
<1>6. CASE Ignored
  <2> DEFINE c == [client[s] EXCEPT !.state = "silent"]
  <2>1. client' = [client EXCEPT ![s] = c] /\ history' = history
    BY <1>5, <1>6 DEF ScriptRuns
  <2>2. /\ c \in Client /\ c.listens = client[s].listens /\ c.checks = client[s].checks /\ c.last = client[s].last
        /\ c.views = client[s].views /\ c.state = "silent"
    BY <1>5 DEF Client
  <2> HIDE DEF c
  <2>3. Watching(c, address.key) /\ (c.listens => Told(s))
    BY <1>5, <2>2 DEF Watching
  <2>4. \A p \in Scripts : Watching(client'[p], address.key) /\ (client'[p].listens => Told(p))
    BY <1>5, <2>1, <2>3
  <2>5. WatchInv'
    BY <1>1, <2>1, <2>4 DEF WatchInv, Watching, Told
  <2>6. Live' \subseteq Live
    BY <1>5, <2>1, <2>2 DEF Live
  <2>7. PageTypeOK'
    BY <1>1, <1>2, <1>3, <1>4, <2>1, <2>2 DEF PageTypeOK
  <2> QED
    BY <1>3, <1>4, <2>5, <2>6, <2>7 DEF PageInv
<1>7. CASE ~Ignored
  <2>1. /\ client' = [client EXCEPT ![s] = mine]
        /\ history' = IF ~Watches(s) THEN history
                      ELSE [history EXCEPT !.wrappers = [m \in Methods |-> <<s>> \o @[m]]]
    BY <1>7 DEF ScriptRuns
  <2>2. /\ new \in Client /\ new.views = <<>> /\ new.last = address.key /\ new.checks = 0
        /\ <<>> \in Seq(View)
    BY <1>5, NoClientTyped DEF NoClient, Client
  <2> HIDE DEF new
  <2>3. /\ landed \in Client /\ landed.last = address.key /\ landed.checks = 0
        /\ option[s] # "manual" => CountsTo(landed.views, address.key)
    <3> DEFINE e == [page |-> address.key, by |-> "landing"]
    <3>1. e.page = address.key /\ e.by # "call"
      OBVIOUS
    <3>2. CASE option[s] = "manual"
      BY <2>2, <3>2
    <3>3. CASE option[s] # "manual"
      <4>1. e \in View /\ landed \in Client /\ landed.views = Append(<<>>, e) /\ landed.last = address.key
            /\ landed.checks = 0
        BY <1>2, <2>2, <3>3, ViewAdded
      <4> HIDE DEF e
      <4> QED
        BY <3>1, <4>1, FirstCounts
    <3> QED
      BY <3>2, <3>3
  <2>4. Watches(s) \in BOOLEAN /\ (Watches(s) => option[s] # "manual")
    BY DEF Watches
  <2> HIDE DEF landed
  <2>5. /\ mine \in Client /\ mine.last = address.key /\ mine.checks = 0 /\ mine.views = landed.views
        /\ mine.listens = Watches(s)
    <3> DEFINE b == Watches(s)
    <3>1. b \in BOOLEAN
      BY <2>4
    <3> HIDE DEF b
    <3> QED
      BY <2>3, <3>1 DEF Client, b
  <2> HIDE DEF mine
  <2>6. Watching(mine, address.key)
    BY <2>3, <2>4, <2>5 DEF Watching
  <2>7. HistoryTyped(history') /\ (Watches(s) => Told(s)') /\ \A p \in Scripts : Told(p) => Told(p)'
    <3>1. CASE ~Watches(s)
      BY <1>5, <2>1, <3>1 DEF Told
    <3>2. CASE Watches(s)
      <4> DEFINE ws == [m \in Methods |-> <<s>> \o history.wrappers[m]]
      <4>1. history' = [history EXCEPT !.wrappers = ws]
        BY <2>1, <3>2
      <4>2. \A m \in Methods : /\ history.wrappers[m] \in Seq(Scripts \cup {Library})
                               /\ ws[m] \in Seq(Scripts \cup {Library}) /\ s \in Range(ws[m])
                               /\ \A x : x \in Range(history.wrappers[m]) => x \in Range(ws[m])
        BY <1>5, Prefixed DEF HistoryTyped
      <4> HIDE DEF ws
      <4>3. history'.wrappers = ws /\ history'.accepts = history.accepts
        BY <1>5, <4>1 DEF HistoryTyped
      <4>4. ws \in [Methods -> Seq(Scripts \cup {Library})]
        BY <4>2 DEF ws
      <4>5. HistoryTyped(history')
        BY <1>5, <4>1, <4>4 DEF HistoryTyped
      <4> QED
        BY <4>2, <4>3, <4>5 DEF Told
    <3> QED
      BY <3>1, <3>2
  <2>8. \A p \in Scripts : Watching(client'[p], address.key) /\ (client'[p].listens => Told(p)')
    BY <1>5, <2>1, <2>5, <2>6, <2>7
  <2>9. WatchInv'
    BY <1>1, <2>8 DEF WatchInv, Watching, Told
  <2>10. PageTypeOK'
    BY <1>1, <1>2, <1>3, <1>4, <1>5, <2>1, <2>5, <2>7 DEF PageTypeOK, HistoryTyped
  <2> QED
    BY <1>3, <1>4, <1>7, <2>9, <2>10 DEF PageInv
<1> QED
  BY <1>6, <1>7

(* The scripts that watch are told of a change of the address.             *)
LEMMA MoveToKeeps ==
  ASSUME PageInv, NEW k \in Keys, NEW tidied \in BOOLEAN, NEW told \in [Scripts -> Nat], MoveTo(k, tidied, told),
         \A s \in Scripts : client[s].listens => told[s] > 0
  PROVE  PageInv' /\ Live' = Live
<1>1. /\ UNCHANGED <<storage, history, ignored, calls, loading>> /\ moves < MaxMoves /\ moves' = moves + 1
      /\ address' = [key |-> k, switch |-> IF tidied THEN "none" ELSE address.switch]
      /\ client' = [s \in Scripts |-> [client[s] EXCEPT !.checks = client[s].checks + told[s]]]
  BY DEF MoveTo, PageInv, PageTypeOK, Client
<1>2. /\ PageTypeOK /\ LoaderInv /\ OptInv /\ WatchInv
      /\ address \in [key : Keys, switch : {"on", "off", "none"}] /\ client \in [Scripts -> Client]
  BY DEF PageInv, PageTypeOK
<1>3. ASSUME NEW s \in Scripts
      PROVE  /\ client'[s] \in Client /\ client'[s].state = client[s].state
             /\ client'[s].listens = client[s].listens /\ client'[s].last = client[s].last
             /\ client'[s].views = client[s].views /\ client'[s].checks = client[s].checks + told[s]
  BY <1>1, <1>2 DEF Client
<1>4. WatchInv'
  <2>1. ASSUME NEW s \in Scripts, client'[s].listens
        PROVE  client'[s].checks # 0 /\ CountsTo(client'[s].views, client'[s].last) /\ Told(s)'
    <3>1. client[s].checks \in Nat /\ told[s] \in Nat /\ told[s] > 0
      BY <1>2, <1>3, <2>1 DEF Client
    <3> QED
      BY <1>1, <1>2, <1>3, <2>1, <3>1 DEF WatchInv, Told
  <2> QED
    BY <2>1 DEF WatchInv, Told
<1>5. PageTypeOK'
  <2>1. client' \in [Scripts -> Client]
    BY <1>1, <1>3
  <2>2. moves' \in 0..MaxMoves
    BY <1>1, <1>2, PageBounds DEF PageTypeOK
  <2>3. address' \in [key : Keys, switch : {"on", "off", "none"}]
    BY <1>1, <1>2
  <2> QED
    BY <1>1, <1>2, <2>1, <2>2, <2>3 DEF PageTypeOK, loading
<1>6. Live' = Live
  BY <1>3 DEF Live
<1> QED
  BY <1>1, <1>2, <1>4, <1>5, <1>6, LoadersStay DEF PageInv, OptInv, loading

LEMMA CallHistoryKeeps ==
  ASSUME PageInv, NEW m \in Methods, NEW k \in Keys, NEW tidied \in BOOLEAN, CallHistory(m, k, tidied)
  PROVE  PageInv' /\ Live' = Live
<1> DEFINE told == [s \in Scripts |-> IF s \in Range(history.wrappers[m]) THEN 1 ELSE 0]
<1>1. MoveTo(k, tidied, told) /\ told \in [Scripts -> Nat]
  BY DEF CallHistory
<1>2. \A s \in Scripts : client[s].listens => told[s] > 0
  BY DEF PageInv, WatchInv
<1> HIDE DEF told
<1> QED
  BY <1>1, <1>2, MoveToKeeps

LEMMA TraverseKeeps ==
  ASSUME PageInv, NEW k \in Keys, NEW tidied \in BOOLEAN, NEW events \in 1..2, Traverse(k, tidied, events)
  PROVE  PageInv' /\ Live' = Live
<1> DEFINE told == [s \in Scripts |-> IF client[s].listens THEN events ELSE 0]
<1>1. MoveTo(k, tidied, told) /\ told \in [Scripts -> Nat]
  BY DEF Traverse
<1>2. \A s \in Scripts : client[s].listens => told[s] > 0
  OBVIOUS
<1> HIDE DEF told
<1> QED
  BY <1>1, <1>2, MoveToKeeps

(* A client changes, on its own.                                           *)
LEMMA ClientMoves ==
  ASSUME PageInv, NEW s \in Scripts, NEW c \in Client, client' = [client EXCEPT ![s] = c],
         UNCHANGED <<address, storage, ignored, moves, loading>>, calls' \in 0..MaxCalls,
         c.state = client[s].state, Watching(c, address.key), HistoryTyped(history'),
         c.listens => Told(s)', \A p \in Scripts \ {s} : client[p].listens /\ Told(p) => Told(p)'
  PROVE  PageInv' /\ Live' = Live
<1>1. /\ PageTypeOK /\ LoaderInv /\ OptInv /\ client \in [Scripts -> Client]
      /\ \A p \in Scripts : Watching(client[p], address.key) /\ (client[p].listens => Told(p))
  BY WatchParts DEF PageInv, PageTypeOK
<1>2. \A p \in Scripts : Watching(client'[p], address.key) /\ (client'[p].listens => Told(p)')
  BY <1>1
<1>3. WatchInv'
  BY <1>2 DEF WatchInv, Watching, Told
<1>4. PageTypeOK'
  BY <1>1 DEF PageTypeOK, HistoryTyped, loading
<1>5. Live' = Live
  BY <1>1 DEF Live
<1> QED
  BY <1>1, <1>3, <1>4, <1>5, LoadersStay DEF PageInv, OptInv, loading

LEMMA CheckKeeps ==
  ASSUME PageInv, NEW s \in Scripts, Check(s)
  PROVE  PageInv' /\ Live' = Live
<1> DEFINE d == [client[s] EXCEPT !.checks = client[s].checks - 1]
<1>1. /\ PageTypeOK /\ client[s] \in Client /\ HistoryTyped(history) /\ calls \in 0..MaxCalls
      /\ Watching(client[s], address.key) /\ (client[s].listens => Told(s))
  BY WatchParts DEF PageInv, PageTypeOK, HistoryTyped
<1>2. client[s].checks > 0 /\ client' = [client EXCEPT ![s] = Counted(d)]
      /\ UNCHANGED <<address, storage, history, ignored, moves, calls, loading>>
  <2>1. Check(s)
    OBVIOUS
  <2> QED
    BY <2>1 DEF Check
<1>3. /\ d \in Client /\ d.listens = client[s].listens /\ d.last = client[s].last /\ d.views = client[s].views
      /\ d.state = client[s].state
  BY <1>1, <1>2 DEF Client
<1> HIDE DEF d
<1>4. /\ Counted(d) \in Client /\ Watching(Counted(d), address.key)
      /\ Counted(d).listens = client[s].listens /\ Counted(d).state = client[s].state
  BY <1>1, <1>3, CountedTyped DEF Watching
<1> DEFINE c == Counted(d)
<1>5. client' = [client EXCEPT ![s] = c]
  BY <1>2
<1>6. /\ c \in Client /\ Watching(c, address.key) /\ c.listens = client[s].listens /\ c.state = client[s].state
  BY <1>4
<1> HIDE DEF c
<1>7. (c.listens => Told(s)') /\ \A p \in Scripts \ {s} : client[p].listens /\ Told(p) => Told(p)'
  BY <1>1, <1>2, <1>6 DEF Told
<1> QED
  BY <1>1, <1>2, <1>5, <1>6, <1>7, ClientMoves

LEMMA StopKeeps ==
  ASSUME PageInv, NEW s \in Scripts, Stop(s)
  PROVE  PageInv' /\ Live' = Live
<1> DEFINE c == [client[s] EXCEPT !.listens = FALSE]
           ws == [m \in Methods |-> Unwrapped(history.wrappers[m], s)]
<1>1. /\ client[s] \in Client /\ HistoryTyped(history) /\ calls \in 0..MaxCalls /\ client \in [Scripts -> Client]
  BY DEF PageInv, PageTypeOK, HistoryTyped
<1>2. /\ client' = [client EXCEPT ![s] = c] /\ history' = [history EXCEPT !.wrappers = ws]
      /\ UNCHANGED <<address, storage, ignored, moves, calls, loading>>
  BY <1>1 DEF Stop
<1>3. c \in Client /\ c.state = client[s].state /\ ~c.listens
  BY <1>1 DEF Client
<1>4. \A m \in Methods : /\ ws[m] \in Seq(Scripts \cup {Library})
                         /\ \A p : p \in Range(history.wrappers[m]) /\ p # s => p \in Range(ws[m])
  BY <1>1, UnwrappedKeeps DEF HistoryTyped
<1>5. ws \in [Methods -> Seq(Scripts \cup {Library})]
  BY <1>4
<1> HIDE DEF ws, c
<1>6. HistoryTyped(history') /\ history'.wrappers = ws
  BY <1>1, <1>2, <1>5 DEF HistoryTyped
<1>7. \A p \in Scripts \ {s} : client[p].listens /\ Told(p) => Told(p)'
  BY <1>4, <1>6 DEF Told
<1>8. Watching(c, address.key)
  BY <1>3 DEF Watching
<1> QED
  BY <1>1, <1>2, <1>3, <1>6, <1>7, <1>8, ClientMoves

LEMMA CallPageKeeps ==
  ASSUME PageInv, NEW s \in Scripts, CallPage(s)
  PROVE  PageInv' /\ Live' = Live
<1> DEFINE c == WithView(client[s], "call")
           e == [page |-> address.key, by |-> "call"]
<1>1. /\ PageTypeOK /\ client[s] \in Client /\ HistoryTyped(history) /\ client \in [Scripts -> Client]
      /\ Watching(client[s], address.key) /\ (client[s].listens => Told(s)) /\ client[s].views \in Seq(View)
  BY WatchParts DEF PageInv, PageTypeOK, HistoryTyped, Client
<1>2. /\ client' = [client EXCEPT ![s] = c] /\ calls < MaxCalls /\ calls' = calls + 1
      /\ UNCHANGED <<address, storage, history, ignored, moves, loading>>
  BY <1>1 DEF CallPage
<1>3. /\ e \in View /\ c \in Client /\ c.views = Append(client[s].views, e) /\ c.state = client[s].state
      /\ c.last = client[s].last /\ c.listens = client[s].listens /\ c.checks = client[s].checks
  BY <1>1, ViewAdded
<1>4. e.by = "call"
  OBVIOUS
<1> HIDE DEF c, e
<1>5. Watching(c, address.key)
  BY <1>1, <1>3, <1>4, CallsCount DEF Watching
<1>6. calls' \in 0..MaxCalls
  BY <1>1, <1>2, PageBounds DEF PageTypeOK
<1>7. (c.listens => Told(s)') /\ \A p \in Scripts \ {s} : client[p].listens /\ Told(p) => Told(p)'
  BY <1>1, <1>2, <1>3 DEF Told
<1> QED
  BY <1>1, <1>2, <1>3, <1>5, <1>6, <1>7, ClientMoves DEF HistoryTyped

LEMMA HistoryMoves ==
  ASSUME PageInv, HistoryTyped(history'), UNCHANGED <<address, storage, client, ignored, moves, calls, loading>>,
         \A p \in Scripts : Told(p) => Told(p)'
  PROVE  PageInv' /\ Live' = Live
<1>1. PageTypeOK /\ LoaderInv /\ OptInv /\ WatchInv
  BY DEF PageInv
<1>2. WatchInv'
  BY <1>1 DEF WatchInv, Told
<1>3. PageTypeOK'
  BY <1>1 DEF PageTypeOK, HistoryTyped, loading
<1> QED
  BY <1>1, <1>2, <1>3, LoadersStay DEF PageInv, OptInv, Live, loading

LEMMA OtherWrapsKeeps ==
  ASSUME PageInv, NEW m \in Methods, OtherWraps(m)
  PROVE  PageInv' /\ Live' = Live
<1> DEFINE w == <<Library>> \o history.wrappers[m]
           ws == [history.wrappers EXCEPT ![m] = w]
<1>1. HistoryTyped(history)
  BY DEF PageInv, PageTypeOK, HistoryTyped
<1>2. history' = [history EXCEPT !.wrappers = ws] /\ UNCHANGED <<address, storage, client, ignored, moves, calls, loading>>
  BY <1>1 DEF OtherWraps
<1>3. /\ w \in Seq(Scripts \cup {Library})
      /\ \A p : p \in Range(history.wrappers[m]) => p \in Range(w)
  BY <1>1, Prefixed DEF HistoryTyped
<1> HIDE DEF w
<1>4. /\ ws \in [Methods -> Seq(Scripts \cup {Library})]
      /\ \A n \in Methods : \A p : p \in Range(history.wrappers[n]) => p \in Range(ws[n])
  BY <1>1, <1>3 DEF HistoryTyped
<1> HIDE DEF ws
<1>5. HistoryTyped(history') /\ history'.wrappers = ws
  BY <1>1, <1>2, <1>4 DEF HistoryTyped
<1>6. \A p \in Scripts : Told(p) => Told(p)'
  BY <1>4, <1>5 DEF Told
<1> QED
  BY <1>2, <1>5, <1>6, HistoryMoves

LEMMA FreezeKeeps ==
  ASSUME PageInv, Freeze
  PROVE  PageInv' /\ Live' = Live
<1>1. HistoryTyped(history)
  BY DEF PageInv, PageTypeOK, HistoryTyped
<1>2. HistoryTyped(history') /\ history'.wrappers = history.wrappers
  BY <1>1 DEF HistoryTyped, Freeze
<1> QED
  BY <1>2, HistoryMoves DEF Freeze, Told

LEMMA OtherTabKeeps ==
  ASSUME PageInv, NEW out \in BOOLEAN, OtherTab(out)
  PROVE  PageInv' /\ Live' = Live
<1>1. /\ PageTypeOK /\ LoaderInv /\ OptInv /\ WatchInv
      /\ storage \in [works : BOOLEAN, out : BOOLEAN]
  BY DEF PageInv, PageTypeOK
<1>2. /\ storage' = [storage EXCEPT !.out = out] /\ storage.works /\ ignored' = out
      /\ calls < MaxCalls /\ calls' = calls + 1 /\ UNCHANGED <<address, history, client, moves, loading>>
  BY DEF OtherTab
<1>3. OptInv' /\ storage' \in [works : BOOLEAN, out : BOOLEAN]
  BY <1>1, <1>2 DEF OptInv
<1>4. calls' \in 0..MaxCalls
  BY <1>1, <1>2, PageBounds DEF PageTypeOK
<1>5. PageTypeOK'
  BY <1>1, <1>2, <1>3, <1>4 DEF PageTypeOK, loading
<1> QED
  BY <1>1, <1>2, <1>3, <1>5, LoadersStay, WatchStays DEF PageInv, Live, loading

(***************************************************************************)
(* The theorems.                                                           *)
(***************************************************************************)
LEMMA PageInvInit == PageInit => PageInv
<1> SUFFICES ASSUME PageInit PROVE PageInv
  OBVIOUS
<1>1. LoaderInv /\ OptInv
  BY DEF PageInit, LoaderInv, OptInv, Active, Scripts
<1>2. WatchInv
  BY NoClientTyped DEF PageInit, WatchInv
<1> QED
  BY <1>1, <1>2, PageTypeInit DEF PageInv

LEMMA PageInvNext ==
  ASSUME PageInv, [PageNext]_pageVars
  PROVE  PageInv' /\ (ignored /\ ignored' => Live' \subseteq Live)
<1>1. CASE UNCHANGED pageVars
  BY <1>1 DEF pageVars, loading, PageInv, PageTypeOK, LoaderInv, Active, OptInv, WatchInv, Live
<1>2. CASE PageNext
  BY <1>2, LoaderRunsKeeps, ConfigArrivesKeeps, TagParsedKeeps, ScriptFailsKeeps, ScriptRunsKeeps,
     CallHistoryKeeps, TraverseKeeps, CheckKeeps, StopKeeps, CallPageKeeps, OtherWrapsKeeps, FreezeKeeps,
     OtherTabKeeps DEF PageNext
<1> QED
  BY <1>1, <1>2

(* Every variable of a page has its type.                                  *)
THEOREM PageTypeCorrect == PageSpec => []PageTypeOK
<1> QED
  BY PageInvInit, PageInvNext, PTL DEF PageSpec, PageInv

(* A page a visitor stays on is counted once by every client that watches, *)
(* for any pages, scripts, navigations and wrappers of others.             *)
THEOREM NavigationAlwaysCounted == PageSpec => []NavigationCounted
<1>1. PageInv => NavigationCounted
  <2> SUFFICES ASSUME PageInv, NEW s \in Live, client[s].listens, Quiet
               PROVE  /\ \E last \in Automatic(s) :
                           client[s].views[last].page = address.key /\ \A i \in Automatic(s) : i <= last
                      /\ \A i, j \in Automatic(s) :
                           i < j /\ (\A k \in Automatic(s) : k <= i \/ k >= j)
                             => client[s].views[i].page # client[s].views[j].page
    BY DEF NavigationCounted
  <2>1. s \in Scripts /\ client[s].checks = 0
    BY DEF Live, Quiet
  <2>2. CountsTo(client[s].views, address.key)
    BY <2>1 DEF PageInv, WatchInv
  <2>3. Automatic(s) = AutoOf(client[s].views)
    BY DEF Automatic, AutoOf
  <2> QED
    BY <2>2, <2>3 DEF CountsTo
<1> QED
  BY <1>1, PageInvInit, PageInvNext, PTL DEF PageSpec

(* However many copies of the loader and tags a page has, in whatever      *)
(* order they run: the loaders insert one script at most, and none beside a*)
(* tag they could see.                                                     *)
THEOREM OneClientOnly == PageSpec => []OneClient
<1>1. PageInv => OneClient
  <2> SUFFICES ASSUME LoaderInv PROVE OneClient
    BY DEF PageInv
  <2> DEFINE inserted == {l \in Loaders : script[l] # "absent"}
  <2>1. \A l, m \in inserted : l = m
    BY DEF LoaderInv, Active
  <2>2. Cardinality(inserted) <= 1
    <3>1. CASE inserted = {}
      BY <3>1, FS_EmptySet
    <3>2. CASE inserted # {}
      <4>1. PICK l : inserted = {l}
        BY <2>1, <3>2
      <4> HIDE DEF inserted
      <4> QED
        BY <4>1, FS_Singleton
    <3> QED
      BY <3>1, <3>2
  <2>3. \A l \in Loaders, t \in Tags : script[l] = "ran" /\ script[t] = "ran" => t \in late
    BY DEF LoaderInv
  <2> QED
    BY <2>2, <2>3 DEF OneClient
<1> QED
  BY <1>1, PageInvInit, PageInvNext, PTL DEF PageSpec

(* No client starts while an opt-out stands that some script has stored.   *)
THEOREM OptOutAlwaysHolds == PageSpec => OptOutHolds
<1>1. PageInv /\ [PageNext]_pageVars => [ignored /\ ignored' => Live' \subseteq Live]_pageVars
  BY PageInvNext
<1> QED
  BY <1>1, PageInvInit, PageInvNext, PTL DEF PageSpec, OptOutHolds

(***************************************************************************)
(* What the watcher keeps, told by the clicks there have been.             *)
(***************************************************************************)
(* What is noted at instant t of the clicks J of cs: only of them, and of  *)
(* all that are in the window still.                                       *)
NotesOf(noted, J, window, cs, t) ==
  /\ \A n \in noted : n.by \in J /\ n.at = cs[n.by].at
  /\ \A j \in J : t - cs[j].at < window => [by |-> j, at |-> cs[j].at] \in noted

(* The real clicks on a control that no burst has used, and the controls   *)
(* that had a real click.                                                  *)
Unused(k) ==
  {j \in DOMAIN clicks : /\ clicks[j].key = k /\ clicks[j].real
                         /\ ~\E m \in Rage : clicks[m].key = k /\ j <= m}
ReallyClicked == {j \in DOMAIN clicks : clicks[j].real}
Clicked == {clicks[j].key : j \in ReallyClicked}

PastInv == \A j \in DOMAIN clicks : clicks[j].at <= now /\ (clicks[j].rage => clicks[j].real)

StampsInv ==
  NotesOf(stamps, Actions, Minute, clicks, now) /\ NotesOf(rageStamps, Rage, Minute, clicks, now)

(* A control clicked within the window of a double click is remembered     *)
(* with its last click.                                                    *)
RecentInv ==
  /\ \A k \in DOMAIN recent :
       \E j \in DOMAIN clicks : clicks[j].key = k /\ clicks[j].at = recent[k]
  /\ \A j \in DOMAIN clicks : now - clicks[j].at < DuplicateWindow =>
       clicks[j].key \in DOMAIN recent /\ clicks[j].at <= recent[clicks[j].key]

(* A burst holds the unused clicks of its control; a control that reported *)
(* within the cooldown is known to have, or there have been too many.      *)
BurstsInv ==
  /\ DOMAIN bursts \subseteq Clicked
  /\ \A k \in DOMAIN bursts :
       /\ NotesOf(bursts[k].clicks, Unused(k), RageWindow, clicks, now)
       /\ bursts[k].reportedAt # Never =>
            \E m \in Rage : clicks[m].key = k /\ clicks[m].at = bursts[k].reportedAt
  /\ \A j \in DOMAIN clicks :
       j \in Unused(clicks[j].key) /\ now - clicks[j].at < RageWindow =>
         clicks[j].key \in DOMAIN bursts
  /\ \A m \in Rage : now - clicks[m].at < RageCooldown =>
       \/ Cardinality(Clicked) > MaxKeys
       \/ /\ clicks[m].key \in DOMAIN bursts
          /\ bursts[clicks[m].key].reportedAt # Never
          /\ clicks[m].at <= bursts[clicks[m].key].reportedAt

(* The press that a click will use was made on the page that is shown, or  *)
(* that page was left since.                                               *)
PressInv ==
  /\ held # None => interaction = held
  /\ interaction # None =>
       /\ interaction.at <= now
       /\ \/ interaction.page = location
          \/ interaction.at <= leftAt[interaction.page] /\ leftAt[interaction.page] <= now

WindowInv == PastInv /\ StampsInv /\ RecentInv /\ BurstsInv

(***************************************************************************)
(* Notes.                                                                  *)
(***************************************************************************)
(* Time only makes notes stale.                                            *)
LEMMA NotesAge ==
  ASSUME NEW noted, NEW J, NEW w \in Nat, NEW cs, NEW t \in Nat, NEW u \in Nat, t <= u,
         \A j \in J : cs[j].at \in Nat, NotesOf(noted, J, w, cs, t)
  PROVE  NotesOf(noted, J, w, cs, u)
BY DEF NotesOf

(* Dropping what is stale keeps the rest.                                  *)
LEMMA NotesKept ==
  ASSUME NEW noted, NEW J, NEW w, NotesOf(noted, J, w, clicks, now),
         \A j \in J : clicks[j].at <= now
  PROVE  NotesOf(InWindow(noted, w), J, w, clicks, now)
BY DEF NotesOf, InWindow, Within

(* Another sequence that agrees on the clicks.                             *)
LEMMA NotesMoved ==
  ASSUME NEW noted, NEW J, NEW w, NEW cs, NEW ds, NEW t, NotesOf(noted, J, w, cs, t),
         \A j \in J : ds[j] = cs[j]
  PROVE  NotesOf(noted, J, w, ds, t)
BY DEF NotesOf

LEMMA NotesAdded ==
  ASSUME NEW noted, NEW J, NEW w, NEW cs, NEW t, NotesOf(noted, J, w, cs, t),
         NEW i, NEW a, cs[i].at = a
  PROVE  NotesOf(noted \cup {[by |-> i, at |-> a]}, J \cup {i}, w, cs, t)
BY DEF NotesOf

(* There are as many recent notes as recent clicks.                        *)
LEMMA NotesCount ==
  ASSUME clicks \in Seq(ClickRecord), now \in Nat, PastInv,
         NEW J \in SUBSET (DOMAIN clicks), NEW w \in Nat, NEW noted \in SUBSET Notes,
         NotesOf(noted, J, w, clicks, now)
  PROVE  /\ IsFiniteSet(InWindow(noted, w))
         /\ Cardinality(InWindow(noted, w)) = Cardinality({j \in J : now - clicks[j].at < w})
         /\ Cardinality(InWindow(noted, w)) \in Nat
         /\ IsFiniteSet({j \in J : now - clicks[j].at < w})
<1> DEFINE S == {j \in J : now - clicks[j].at < w}
           T == InWindow(noted, w)
           f == [j \in S |-> [by |-> j, at |-> clicks[j].at]]
<1>1. DOMAIN clicks = 1..Len(clicks) /\ Len(clicks) \in Nat
  OBVIOUS
<1>2. IsFiniteSet(S)
  <2>1. S \in SUBSET (1..Len(clicks)) /\ IsFiniteSet(1..Len(clicks))
    BY <1>1, FS_Interval
  <2> QED BY <2>1, FS_Subset
<1>3. \A j \in DOMAIN clicks : clicks[j].at \in Nat /\ clicks[j].at <= now
  <2>1. Horizon \in Nat /\ \A j \in DOMAIN clicks : clicks[j] \in ClickRecord
    BY ClicksBounds
  <2> QED BY <2>1 DEF PastInv, ClickRecord, Instants
<1>4. \A j \in S : f[j] \in T
  BY <1>3 DEF NotesOf, InWindow, Within
<1>5. f \in [S -> T]
  BY <1>4
<1>6. ASSUME NEW n \in T PROVE \E j \in S : f[j] = n
  <2>1. n \in noted /\ n \in Notes /\ now - n.at < w
    BY DEF InWindow, Within
  <2>2. n.by \in S /\ n.at = clicks[n.by].at
    BY <2>1 DEF NotesOf
  <2>3. n = [by |-> n.by, at |-> n.at]
    BY <2>1 DEF Notes
  <2> QED BY <2>2, <2>3
<1>7. \A i, j \in S : f[i] = f[j] => i = j
  <2>1. \A j \in S : f[j].by = j
    OBVIOUS
  <2> QED BY <2>1
<1>8. f \in Bijection(S, T)
  BY <1>5, <1>6, <1>7 DEF Bijection, Injection, Surjection, IsInjective
<1>9. IsFiniteSet(T) /\ Cardinality(T) = Cardinality(S)
  BY <1>2, <1>8, FS_Bijection DEF ExistsBijection
<1> QED BY <1>2, <1>9, FS_CardinalityType

(***************************************************************************)
(* Steps that are not a click on a control.                                *)
(***************************************************************************)
LEMMA ClicksTyped ==
  ASSUME ClicksTypeOK
  PROVE  /\ Horizon \in Nat /\ now \in Nat
         /\ DuplicateWindow \in Nat /\ InteractionWindow \in Nat /\ RageWindow \in Nat
         /\ RageCooldown \in Nat /\ Minute \in Nat /\ MaxKeys \in Nat
         /\ clicks \in Seq(ClickRecord) /\ Len(clicks) \in Nat /\ DOMAIN clicks = 1..Len(clicks)
         /\ \A j \in DOMAIN clicks :
              /\ clicks[j] \in ClickRecord /\ clicks[j].at \in Nat
              /\ clicks[j].key \in Pages \X Controls /\ clicks[j].real \in BOOLEAN
<1>1. /\ Horizon \in Nat /\ DuplicateWindow \in Nat /\ InteractionWindow \in Nat
      /\ RageWindow \in Nat /\ RageCooldown \in Nat /\ Minute \in Nat /\ MaxKeys \in Nat
  BY ClicksBounds, WindowsAssumption, ClickLimits
<1>2. now \in Nat /\ clicks \in Seq(ClickRecord)
  BY <1>1 DEF ClicksTypeOK, Instants
<1>3. Len(clicks) \in Nat /\ DOMAIN clicks = 1..Len(clicks)
  BY <1>2
<1>4. ASSUME NEW j \in DOMAIN clicks
      PROVE  /\ clicks[j] \in ClickRecord /\ clicks[j].at \in Nat
             /\ clicks[j].key \in Pages \X Controls /\ clicks[j].real \in BOOLEAN
  <2>1. clicks[j] \in ClickRecord
    BY <1>2, <1>3
  <2> QED BY <1>1, <2>1 DEF ClickRecord, Instants
<1> QED BY <1>1, <1>2, <1>3, <1>4

LEMMA TimePasses ==
  ASSUME ClicksTypeOK, WindowInv, UNCHANGED <<windows, clicks>>, now' \in Nat, now <= now'
  PROVE  WindowInv'
<1>1. clicks' = clicks /\ recent' = recent /\ stamps' = stamps /\ bursts' = bursts
      /\ rageStamps' = rageStamps
  BY DEF windows
<1>2. Rage' = Rage /\ Actions' = Actions /\ Clicked' = Clicked
  BY <1>1 DEF Rage, Actions, Clicked, ReallyClicked
<1>3. \A k : Unused(k)' = Unused(k)
  BY <1>1, <1>2 DEF Unused
<1>4. PastInv'
  BY <1>1, ClicksTyped DEF WindowInv, PastInv
<1>5. StampsInv'
  <2>1. Rage \subseteq DOMAIN clicks /\ Actions \subseteq DOMAIN clicks
    BY DEF Rage, Actions
  <2>2. /\ NotesOf(stamps, Actions, Minute, clicks, now')
        /\ NotesOf(rageStamps, Rage, Minute, clicks, now')
    BY <2>1, ClicksTyped, NotesAge DEF WindowInv, StampsInv
  <2> QED BY <1>1, <1>2, <2>2 DEF StampsInv
<1>6. RecentInv'
  BY <1>1, ClicksTyped DEF WindowInv, RecentInv
<1>7. BurstsInv'
  <2>1. ASSUME NEW k \in DOMAIN bursts
        PROVE  NotesOf(bursts[k].clicks, Unused(k), RageWindow, clicks, now')
    BY ClicksTyped, NotesAge DEF WindowInv, BurstsInv, Unused
  <2>2. ASSUME NEW j \in DOMAIN clicks, now' - clicks[j].at < RageWindow
        PROVE  now - clicks[j].at < RageWindow
    BY <2>2, ClicksTyped
  <2>3. ASSUME NEW m \in Rage, now' - clicks[m].at < RageCooldown
        PROVE  now - clicks[m].at < RageCooldown
    BY <2>3, ClicksTyped DEF Rage
  <2>4. DOMAIN bursts' = DOMAIN bursts /\ DOMAIN clicks' = DOMAIN clicks
    BY <1>1
  <2>5. DOMAIN bursts' \subseteq Clicked'
    BY <1>2, <2>4 DEF WindowInv, BurstsInv
  <2>6. ASSUME NEW k \in DOMAIN bursts'
        PROVE  /\ NotesOf(bursts'[k].clicks, Unused(k)', RageWindow, clicks', now')
               /\ bursts'[k].reportedAt # Never =>
                    \E m \in Rage' : clicks'[m].key = k /\ clicks'[m].at = bursts'[k].reportedAt
    BY <1>1, <1>2, <1>3, <2>1, <2>4 DEF WindowInv, BurstsInv
  <2>7. ASSUME NEW j \in DOMAIN clicks', j \in Unused(clicks[j].key)',
               now' - clicks'[j].at < RageWindow
        PROVE  clicks'[j].key \in DOMAIN bursts'
    <3>1. j \in Unused(clicks[j].key) /\ j \in DOMAIN clicks /\ now - clicks[j].at < RageWindow
      BY <1>1, <2>2, <2>7 DEF Unused, Rage
    <3> QED BY <1>1, <3>1 DEF WindowInv, BurstsInv
  <2>8. ASSUME NEW m \in Rage', now' - clicks'[m].at < RageCooldown
        PROVE  \/ Cardinality(Clicked') > MaxKeys
               \/ /\ clicks'[m].key \in DOMAIN bursts'
                  /\ bursts'[clicks'[m].key].reportedAt # Never
                  /\ clicks'[m].at <= bursts'[clicks'[m].key].reportedAt
    BY <1>1, <1>2, <2>3, <2>8 DEF WindowInv, BurstsInv
  <2> QED BY <2>5, <2>6, <2>7, <2>8 DEF BurstsInv
<1> QED BY <1>4, <1>5, <1>6, <1>7 DEF WindowInv

(* What has been said of earlier clicks stays said.                        *)
LEMMA SameClicks ==
  ASSUME UNCHANGED clicks
  PROVE  (BurstsAreReal <=> BurstsAreReal') /\ (ActionsOfTheirPage <=> ActionsOfTheirPage')
BY DEF BurstsAreReal, BurstIsReal, MayReport, Cooling, Forgets, RealUpTo, BurstAt, Used, Same,
       Before, Rage, Actions, ActionsOfTheirPage, ActionOfItsPage

(* A page that is left was left now.                                       *)
LEMMA GoesAway ==
  ASSUME ClicksTypeOK, NEW to \in Pages, GoTo(to)
  PROVE  /\ location' = to /\ moved' \in 0..MaxMoved
         /\ leftAt' \in [Pages -> Instants \cup {Never}]
         /\ \A p \in Pages : leftAt'[p] = IF p = location /\ to # location THEN now ELSE leftAt[p]
<1>1. moved \in Nat /\ MaxMoved \in Nat /\ moved <= MaxMoved
  BY ClicksBounds DEF ClicksTypeOK
<1> QED BY <1>1 DEF GoTo, ClicksTypeOK

LEMMA PressesTyped ==
  ASSUME ClicksTypeOK
  PROVE  /\ interaction # None => interaction.page \in Pages /\ interaction.at \in Nat
         /\ now \in Nat /\ now <= Horizon
BY ClicksTyped DEF ClicksTypeOK, PagePress, Instants

LEMMA OtherSteps ==
  ASSUME ClicksTypeOK, PressInv,
         \/ Wait \/ OtherClick \/ UNCHANGED clicksVars
         \/ \E p \in Pages : Leave(p)
         \/ \E pointer \in BOOLEAN : Press(pointer)
  PROVE  /\ ClicksTypeOK' /\ PressInv'
         /\ UNCHANGED <<windows, clicks>> /\ now' \in Nat /\ now <= now'
<1>1. /\ now \in Nat /\ Horizon \in Nat /\ now <= Horizon
      /\ presses \in Nat /\ MaxPresses \in Nat /\ presses <= MaxPresses
  BY ClicksTyped, ClicksBounds DEF ClicksTypeOK, Instants
<1>2. CASE Wait
  <2>1. now' = now + 1 /\ now < Horizon /\ now' \in Instants
    BY <1>1, <1>2 DEF Wait, Instants
  <2>2. ClicksTypeOK'
    BY <1>2, <2>1 DEF Wait, ClicksTypeOK, windows
  <2>3. leftAt \in [Pages -> Instants \cup {Never}] /\ \A p \in Pages : leftAt[p] <= now => leftAt[p] <= now'
    BY <1>1, <2>1, WindowsAssumption DEF ClicksTypeOK, Instants, Never
  <2>4. PressInv'
    BY <1>1, <1>2, <2>1, <2>3, PressesTyped DEF Wait, PressInv
  <2> QED BY <1>1, <1>2, <2>1, <2>2, <2>4 DEF Wait, windows
<1>3. CASE OtherClick
  BY <1>1, <1>3 DEF OtherClick, ClicksTypeOK, PressInv, PagePress, windows
<1>4. CASE UNCHANGED clicksVars
  BY <1>1, <1>4 DEF clicksVars, ClicksTypeOK, PressInv, windows
<1>5. ASSUME NEW p \in Pages, Leave(p)
      PROVE  /\ ClicksTypeOK' /\ PressInv'
             /\ UNCHANGED <<windows, clicks>> /\ now' \in Nat /\ now <= now'
  <2>1. /\ location' = p /\ moved' \in 0..MaxMoved /\ p # location
        /\ leftAt' \in [Pages -> Instants \cup {Never}]
        /\ \A q \in Pages : leftAt'[q] = IF q = location THEN now ELSE leftAt[q]
        /\ UNCHANGED <<now, interaction, windows, held, clicks, presses>>
    BY <1>5, GoesAway DEF Leave
  <2>2. ClicksTypeOK'
    BY <2>1 DEF ClicksTypeOK, windows
  <2>3. PressInv'
    BY <1>1, <2>1, PressesTyped DEF PressInv
  <2> QED BY <1>1, <2>1, <2>2, <2>3
<1>6. ASSUME NEW pointer \in BOOLEAN, Press(pointer)
      PROVE  /\ ClicksTypeOK' /\ PressInv'
             /\ UNCHANGED <<windows, clicks>> /\ now' \in Nat /\ now <= now'
  <2>1. /\ interaction' = [page |-> location, at |-> now] /\ interaction' \in PagePress
        /\ held' \in {interaction', None}
    BY <1>6 DEF Press, PagePress, ClicksTypeOK
  <2>2. /\ UNCHANGED <<now, location, windows, clicks, leftAt, moved>>
        /\ presses' \in 0..MaxPresses
    BY <1>1, <1>6 DEF Press
  <2>3. held' \in PagePress
    BY <2>1 DEF PagePress
  <2>4. ClicksTypeOK'
    BY <2>1, <2>2, <2>3 DEF ClicksTypeOK, windows
  <2>5. PressInv'
    BY <1>1, <2>1, <2>2 DEF PressInv
  <2> QED BY <1>1, <2>2, <2>4, <2>5
<1> QED BY <1>2, <1>3, <1>4, <1>5, <1>6

LEMMA InitWindows ==
  ClicksInit => ClicksTypeOK /\ PressInv /\ WindowInv /\ BurstsAreReal /\ ActionsOfTheirPage
<1> SUFFICES ASSUME ClicksInit
             PROVE  ClicksTypeOK /\ PressInv /\ WindowInv /\ BurstsAreReal /\ ActionsOfTheirPage
  OBVIOUS
<1>1. DOMAIN clicks = {} /\ DOMAIN recent = {} /\ DOMAIN bursts = {} /\ clicks \in Seq(ClickRecord)
  BY DEF ClicksInit
<1>2. 0 \in Instants /\ 0 \in 0..MaxPresses /\ 0 \in 0..MaxMoved
  BY ClicksBounds DEF Instants
<1>3. ClicksTypeOK
  BY <1>1, <1>2 DEF ClicksInit, ClicksTypeOK, PagePress
<1>4. Rage = {} /\ Actions = {}
  BY <1>1 DEF Rage, Actions
<1>5. WindowInv
  BY <1>1, <1>4 DEF ClicksInit, WindowInv, PastInv, StampsInv, NotesOf, RecentInv, BurstsInv
<1> QED BY <1>1, <1>3, <1>5 DEF ClicksInit, PressInv, BurstsAreReal, ActionsOfTheirPage

(***************************************************************************)
(* A click on a control: one more, after all that have been.               *)
(***************************************************************************)
New == Len(clicks) + 1

LEMMA Appended ==
  ASSUME ClicksTypeOK, NEW r \in ClickRecord, clicks' = Append(clicks, r)
  PROVE  /\ New \in Nat /\ DOMAIN clicks' = 1..New /\ clicks' \in Seq(ClickRecord)
         /\ DOMAIN clicks' = DOMAIN clicks \cup {New} /\ New \notin DOMAIN clicks
         /\ \A j \in DOMAIN clicks : clicks'[j] = clicks[j] /\ j < New
         /\ clicks'[New] = r
         /\ Rage' = IF r.rage THEN Rage \cup {New} ELSE Rage
         /\ Actions' = IF r.action THEN Actions \cup {New} ELSE Actions
<1>1. /\ New \in Nat /\ DOMAIN clicks' = 1..New /\ clicks' \in Seq(ClickRecord)
      /\ DOMAIN clicks = 1..Len(clicks) /\ Len(clicks) \in Nat
      /\ \A j \in DOMAIN clicks : clicks'[j] = clicks[j]
      /\ clicks'[New] = r
  BY ClicksTyped DEF New
<1>2. DOMAIN clicks' = DOMAIN clicks \cup {New} /\ New \notin DOMAIN clicks
  BY <1>1 DEF New
<1>3. \A j \in DOMAIN clicks : j < New
  BY <1>1 DEF New
<1>4. Rage' = IF r.rage THEN Rage \cup {New} ELSE Rage
  BY <1>1, <1>2 DEF Rage
<1>5. Actions' = IF r.action THEN Actions \cup {New} ELSE Actions
  BY <1>1, <1>2 DEF Actions
<1> QED BY <1>1, <1>2, <1>3, <1>4, <1>5

(* What a click may be told by is what came before it.                     *)
LEMMA PastStays ==
  ASSUME ClicksTypeOK, NEW r \in ClickRecord, clicks' = Append(clicks, r),
         NEW i \in DOMAIN clicks
  PROVE  /\ BurstIsReal(i) <=> BurstIsReal(i)'
         /\ ActionOfItsPage(i) <=> ActionOfItsPage(i)'
<1>1. /\ DOMAIN clicks = 1..Len(clicks) /\ Len(clicks) \in Nat /\ i \in Nat
      /\ \A j \in 1..(i - 1) : j \in DOMAIN clicks
      /\ \A j \in 1..i : j \in DOMAIN clicks
  BY ClicksTyped
<1>2. /\ \A j \in DOMAIN clicks : clicks'[j] = clicks[j]
      /\ New \notin DOMAIN clicks
      /\ Rage' \in {Rage, Rage \cup {New}} /\ Actions' \in {Actions, Actions \cup {New}}
  BY Appended
<1>3. Same(i)' = Same(i)
  BY <1>1, <1>2 DEF Same
<1>4. \A w : Before(i, w)' = Before(i, w)
  BY <1>1, <1>2 DEF Before
<1>5. Same(i) \subseteq DOMAIN clicks /\ \A w : Before(i, w) \subseteq DOMAIN clicks
  BY <1>1 DEF Same, Before
<1>6. Same(i) \cap Rage' = Same(i) \cap Rage
  BY <1>2, <1>5
<1>7. \A w : Before(i, w) \cap Rage' = Before(i, w) \cap Rage
             /\ Before(i, w) \cap Actions' = Before(i, w) \cap Actions
  BY <1>2, <1>5
<1>8. Used(i)' = Used(i)
  BY <1>3, <1>6 DEF Used
<1>9. BurstAt(i)' = BurstAt(i)
  <2>1. (Before(i, RageWindow))' = Before(i, RageWindow)
    BY <1>4
  <2> QED BY <1>2, <1>3, <1>5, <1>8, <2>1 DEF BurstAt
<1>10. MayReport(i)' <=> MayReport(i)
  <2>1. Before(i, Minute)' \cap Rage' = Before(i, Minute) \cap Rage
    BY <1>4, <1>7
  <2> QED BY <1>2, <1>9, <2>1 DEF MayReport
<1>11. Cooling(i)' <=> Cooling(i)
  <2>1. Same(i)' \cap Before(i, RageCooldown)' \cap Rage' = Same(i) \cap Before(i, RageCooldown) \cap Rage
    BY <1>3, <1>4, <1>6
  <2> QED BY <2>1 DEF Cooling
<1>12. Forgets(i)' <=> Forgets(i)
  <2>1. RealUpTo(i)' = RealUpTo(i) /\ RealUpTo(i) \subseteq DOMAIN clicks
    BY <1>1, <1>2 DEF RealUpTo
  <2>2. {clicks'[j].key : j \in RealUpTo(i)'} = {clicks[j].key : j \in RealUpTo(i)}
    BY <1>2, <2>1
  <2> QED BY <2>2 DEF Forgets
<1>13. BurstIsReal(i) <=> BurstIsReal(i)'
  BY <1>2, <1>10, <1>11, <1>12 DEF BurstIsReal
<1>14. ActionOfItsPage(i) <=> ActionOfItsPage(i)'
  <2>1. Same(i)' \cap Before(i, DuplicateWindow)' = Same(i) \cap Before(i, DuplicateWindow)
    BY <1>3, <1>4
  <2>2. Before(i, Minute)' \cap Actions' = Before(i, Minute) \cap Actions
    BY <1>4, <1>7
  <2> QED BY <1>2, <2>1, <2>2 DEF ActionOfItsPage
<1> QED BY <1>13, <1>14

(* And what a new click is told by.                                        *)
LEMMA NewIsToldBy ==
  ASSUME ClicksTypeOK, NEW r \in ClickRecord, clicks' = Append(clicks, r), r.at = now,
         NEW i, i = New
  PROVE  /\ Same(i)' = {j \in DOMAIN clicks : clicks[j].key = r.key}
         /\ \A w : Before(i, w)' = {j \in DOMAIN clicks : now - clicks[j].at < w}
         /\ \A w : Before(i, w)' \cap Rage' = {j \in Rage : now - clicks[j].at < w}
         /\ \A w : Before(i, w)' \cap Actions' = {j \in Actions : now - clicks[j].at < w}
<1>1. /\ DOMAIN clicks = 1..Len(clicks) /\ Len(clicks) \in Nat /\ 1..(i - 1) = DOMAIN clicks
      /\ \A j \in DOMAIN clicks : clicks'[j] = clicks[j]
      /\ clicks'[i] = r /\ i \notin DOMAIN clicks
  BY ClicksTyped, Appended DEF New
<1>2. Same(i)' = {j \in DOMAIN clicks : clicks[j].key = r.key}
  BY <1>1 DEF Same
<1>3. ASSUME NEW w PROVE Before(i, w)' = {j \in DOMAIN clicks : now - clicks[j].at < w}
  BY <1>1 DEF Before
<1>4. /\ Rage \subseteq DOMAIN clicks /\ Actions \subseteq DOMAIN clicks
      /\ Rage' \in {Rage, Rage \cup {i}} /\ Actions' \in {Actions, Actions \cup {i}}
  BY Appended DEF Rage, Actions
<1>5. ASSUME NEW w
      PROVE  /\ Before(i, w)' \cap Rage' = {j \in Rage : now - clicks[j].at < w}
             /\ Before(i, w)' \cap Actions' = {j \in Actions : now - clicks[j].at < w}
  BY <1>1, <1>3, <1>4
<1> QED BY <1>2, <1>3, <1>5

KeyOf(c, to) == <<PageOf(to), c>>
IsNew(k) == k \notin DOMAIN recent \/ ~Within(recent[k], DuplicateWindow)

(* What a click is recorded as.                                            *)
LEMMA ClickRecorded ==
  ASSUME ClicksTypeOK, NEW c \in Controls, NEW real \in BOOLEAN, NEW to \in Pages,
         Click(c, real, to)
  PROVE  \E r \in ClickRecord :
           /\ clicks' = Append(clicks, r) /\ now' = now
           /\ r.key = KeyOf(c, to) /\ r.at = now /\ r.real = real
           /\ r.from = IF real THEN held ELSE None
           /\ r.action = (IsNew(r.key) /\ Cardinality(InWindow(stamps, Minute)) < MaxActions)
           /\ r.rage = (real /\ RageOf(r.key).report)
           /\ r.shown = {p \in Pages : p = to \/ Within(leftAt'[p], InteractionWindow)}
<1> DEFINE r == [key |-> KeyOf(c, to), at |-> now, real |-> real, from |-> IF real THEN held ELSE None,
                 action |-> IsNew(KeyOf(c, to)) /\ Cardinality(InWindow(stamps, Minute)) < MaxActions,
                 rage |-> real /\ RageOf(KeyOf(c, to)).report,
                 shown |-> {p \in Pages : p = to \/ Within(leftAt'[p], InteractionWindow)}]
<1>1. clicks' = Append(clicks, r) /\ now' = now
  <2>1. now' = now
    BY DEF Click
  <2> QED BY <2>1 DEF Click, KeyOf, IsNew, Within
<1>2. PageOf(to) \in Pages
  BY PressesTyped DEF PageOf
<1>3. (RageOf(KeyOf(c, to)).report) \in BOOLEAN
  BY Zenon DEF RageOf
<1>4. now \in Instants /\ held \in PagePress /\ None \in PagePress
  BY DEF ClicksTypeOK, PagePress
<1>5. r \in ClickRecord
  <2>1. KeyOf(c, to) \in Pages \X Controls
    BY <1>2 DEF KeyOf
  <2>2. (IsNew(KeyOf(c, to)) /\ Cardinality(InWindow(stamps, Minute)) < MaxActions) \in BOOLEAN
    OBVIOUS
  <2>3. (real /\ RageOf(KeyOf(c, to)).report) \in BOOLEAN
    OBVIOUS
  <2> HIDE DEF IsNew, RageOf, KeyOf
  <2> QED BY <1>4, <2>1, <2>2, <2>3 DEF ClickRecord
<1> QED BY <1>1, <1>5

(* Of a map what is not stale is kept.                                     *)
LEMMA PrunedKeeps ==
  ASSUME NEW map, NEW expired
  PROVE  /\ DOMAIN Pruned(map, expired) \subseteq DOMAIN map
         /\ DOMAIN map \ expired \subseteq DOMAIN Pruned(map, expired)
         /\ \A k \in DOMAIN Pruned(map, expired) : Pruned(map, expired)[k] = map[k]
         /\ DOMAIN Pruned(map, expired) # DOMAIN map => Cardinality(DOMAIN map) > MaxKeys
         /\ \A S : map \in [DOMAIN map -> S] =>
              Pruned(map, expired) \in [DOMAIN Pruned(map, expired) -> S]
BY DEF Pruned

LEMMA WithKeeps ==
  ASSUME NEW map, NEW key, NEW value
  PROVE  /\ DOMAIN With(map, key, value) = DOMAIN map \cup {key}
         /\ \A k \in DOMAIN map : k # key => With(map, key, value)[k] = map[k]
         /\ With(map, key, value)[key] = value
         /\ \A S : map \in [DOMAIN map -> S] /\ value \in S =>
              With(map, key, value) \in [DOMAIN map \cup {key} -> S]
BY DEF With

(* A double click is told from what is remembered of the control.          *)
LEMMA NewIsNew ==
  ASSUME ClicksTypeOK, PastInv, RecentInv, NEW k \in Pages \X Controls
  PROVE  IsNew(k) <=> {j \in DOMAIN clicks : clicks[j].key = k}
                        \cap {j \in DOMAIN clicks : now - clicks[j].at < DuplicateWindow} = {}
<1>1. \A j \in DOMAIN clicks : clicks[j].at \in Nat /\ clicks[j].at <= now
  BY ClicksTyped DEF PastInv
<1>2. now \in Nat /\ DuplicateWindow \in Nat
  BY ClicksTyped
<1>3. ASSUME k \in DOMAIN recent PROVE recent[k] \in Nat /\ recent[k] <= now
  BY <1>1, <1>3 DEF RecentInv
<1>4. ASSUME ~IsNew(k)
      PROVE  \E j \in DOMAIN clicks : clicks[j].key = k /\ now - clicks[j].at < DuplicateWindow
  BY <1>4 DEF IsNew, Within, RecentInv
<1>5. ASSUME NEW j \in DOMAIN clicks, clicks[j].key = k, now - clicks[j].at < DuplicateWindow
      PROVE  ~IsNew(k)
  BY <1>1, <1>2, <1>3, <1>5 DEF IsNew, Within, RecentInv
<1> QED BY <1>4, <1>5

LEMMA ClickIsRemembered ==
  ASSUME ClicksTypeOK, PastInv, RecentInv, NEW r \in ClickRecord, clicks' = Append(clicks, r),
         r.at = now, now' = now, recent' = Recent(r.key)
  PROVE  /\ RecentInv'
         /\ DOMAIN recent' \subseteq Pages \X Controls /\ recent' \in [DOMAIN recent' -> Instants]
<1> DEFINE all == With(recent, r.key, now)
           expired == {k \in DOMAIN all : now - all[k] > DuplicateWindow}
<1>1. recent' = Pruned(all, expired)
  BY DEF Recent
<1>2. /\ DOMAIN all = DOMAIN recent \cup {r.key} /\ all[r.key] = now
      /\ \A k \in DOMAIN recent : k # r.key => all[k] = recent[k]
      /\ all \in [DOMAIN all -> Instants]
  <2>1. recent \in [DOMAIN recent -> Instants] /\ now \in Instants
    BY DEF ClicksTypeOK
  <2> QED BY <2>1 DEF With
<1>3. /\ DOMAIN recent' \subseteq DOMAIN all /\ DOMAIN all \ expired \subseteq DOMAIN recent'
      /\ \A k \in DOMAIN recent' : recent'[k] = all[k]
      /\ recent' \in [DOMAIN recent' -> Instants]
  <2> HIDE DEF all, expired
  <2> QED BY <1>1, <1>2, PrunedKeeps
<1>4. r.key \in Pages \X Controls /\ now \in Nat /\ DuplicateWindow \in Nat
  BY ClicksTyped DEF ClickRecord
<1>5. /\ DOMAIN clicks' = DOMAIN clicks \cup {New} /\ clicks'[New] = r
      /\ \A j \in DOMAIN clicks : clicks'[j] = clicks[j] /\ clicks[j].at \in Nat /\ clicks[j].at <= now
  BY Appended, ClicksTyped DEF PastInv
<1>6. ASSUME NEW k \in DOMAIN recent'
      PROVE  \E j \in DOMAIN clicks' : clicks'[j].key = k /\ clicks'[j].at = recent'[k]
  <2> HIDE DEF all, expired
  <2>1. CASE k = r.key
    BY <1>2, <1>3, <1>5, <2>1
  <2>2. CASE k # r.key
    <3>1. k \in DOMAIN recent /\ recent'[k] = recent[k]
      BY <1>2, <1>3, <2>2
    <3> QED BY <1>5, <3>1 DEF RecentInv
  <2> QED BY <2>1, <2>2
<1>7. ASSUME NEW j \in DOMAIN clicks', now - clicks'[j].at < DuplicateWindow
      PROVE  clicks'[j].key \in DOMAIN recent' /\ clicks'[j].at <= recent'[clicks'[j].key]
  <2> DEFINE k == clicks'[j].key
  <2>1. k \in DOMAIN all /\ clicks'[j].at <= all[k] /\ all[k] \in Nat /\ clicks'[j].at \in Nat
    <3>1. CASE k = r.key
      BY <1>2, <1>4, <1>5, <3>1
    <3>2. CASE k # r.key
      <4>1. j \in DOMAIN clicks /\ clicks'[j] = clicks[j]
        BY <1>5, <3>2
      <4>2. k \in DOMAIN recent /\ clicks[j].at <= recent[k] /\ all[k] = recent[k]
        BY <1>2, <1>7, <3>2, <4>1 DEF RecentInv
      <4>3. recent[k] \in Nat
        BY <4>2, ClicksTyped DEF ClicksTypeOK, Instants
      <4> QED BY <1>2, <1>5, <4>1, <4>2, <4>3
    <3> QED BY <3>1, <3>2
  <2>2. ~(now - all[k] > DuplicateWindow)
    BY <1>4, <1>7, <2>1
  <2>3. k \notin expired
    BY <2>2
  <2>4. k \in DOMAIN recent' /\ recent'[k] = all[k]
    BY <1>3, <2>1, <2>3
  <2> QED BY <2>1, <2>4
<1>8. RecentInv'
  BY <1>6, <1>7 DEF RecentInv
<1> QED BY <1>2, <1>3, <1>4, <1>8 DEF ClicksTypeOK

(* A note taken of the new click, among those still in their window.       *)
LEMMA NotedClick ==
  ASSUME ClicksTypeOK, PastInv, NEW r \in ClickRecord, clicks' = Append(clicks, r),
         r.at = now, now' = now, NEW J \in SUBSET (DOMAIN clicks), NEW w,
         NEW noted \in SUBSET Notes, NotesOf(noted, J, w, clicks, now)
  PROVE  /\ NotesOf(noted, J, w, clicks', now')
         /\ NotesOf(InWindow(noted, w), J, w, clicks', now')
         /\ NotesOf(InWindow(noted, w) \cup {ThisClick}, J \cup {New}, w, clicks', now')
         /\ InWindow(noted, w) \in SUBSET Notes
         /\ InWindow(noted, w) \cup {ThisClick} \in SUBSET Notes
         /\ ThisClick \notin InWindow(noted, w)
<1>1. /\ \A j \in DOMAIN clicks : clicks'[j] = clicks[j] /\ clicks[j].at <= now
      /\ clicks'[New] = r /\ New \notin DOMAIN clicks /\ New \in Nat
  BY Appended DEF PastInv
<1>2. ThisClick = [by |-> New, at |-> now]
  BY DEF ThisClick, New
<1>3. NotesOf(InWindow(noted, w), J, w, clicks, now)
  BY <1>1, NotesKept
<1>4. /\ NotesOf(noted, J, w, clicks', now)
      /\ NotesOf(InWindow(noted, w), J, w, clicks', now)
  BY <1>1, <1>3, NotesMoved
<1>5. NotesOf(InWindow(noted, w) \cup {ThisClick}, J \cup {New}, w, clicks', now)
  BY <1>1, <1>2, <1>4, NotesAdded
<1>6. ThisClick \in Notes
  BY <1>1, <1>2 DEF Notes, ClicksTypeOK
<1>7. ThisClick \notin InWindow(noted, w)
  BY <1>1, <1>2, <1>3 DEF NotesOf
<1> QED BY <1>4, <1>5, <1>6, <1>7 DEF InWindow

(* The page of a click: the one its press was made on, if that was within  *)
(* the window; it is shown, or was left since.                             *)
LEMMA PageWasShown ==
  ASSUME ClicksTypeOK, PressInv, NEW to \in Pages, GoTo(to)
  PROVE  /\ PageOf(to) = to \/ Within(leftAt'[PageOf(to)], InteractionWindow)
         /\ PageOf(to) \in Pages
         /\ held # None /\ now - held.at < InteractionWindow => PageOf(to) = held.page
<1>1. /\ interaction # None => interaction.page \in Pages /\ interaction.at \in Nat
      /\ now \in Nat /\ InteractionWindow \in Nat
  BY PressesTyped, ClicksTyped
<1>2. /\ location' = to
      /\ \A p \in Pages : leftAt'[p] = IF p = location /\ to # location THEN now ELSE leftAt[p]
  BY GoesAway
<1>3. \A p \in Pages : leftAt[p] \in Nat
  BY ClicksTyped, ClicksBounds, WindowsAssumption DEF ClicksTypeOK, Instants, Never
<1>4. CASE interaction # None /\ Within(interaction.at, InteractionWindow)
  <2>1. PageOf(to) = interaction.page
    BY <1>4 DEF PageOf
  <2>2. interaction.page = to \/ Within(leftAt'[interaction.page], InteractionWindow)
    BY <1>1, <1>2, <1>3, <1>4 DEF PressInv, Within
  <2> QED BY <1>1, <1>4, <2>1, <2>2 DEF PressInv
<1>5. CASE ~(interaction # None /\ Within(interaction.at, InteractionWindow))
  <2>1. PageOf(to) = to
    BY <1>5 DEF PageOf
  <2>2. ~(held # None /\ now - held.at < InteractionWindow)
    BY <1>1, <1>5 DEF PressInv, Within
  <2> QED BY <2>1, <2>2
<1> QED BY <1>4, <1>5

LEMMA ActionIsCounted ==
  ASSUME ClicksTypeOK, PastInv, StampsInv, RecentInv, PressInv,
         NEW c \in Controls, NEW real \in BOOLEAN, NEW to \in Pages, Click(c, real, to)
  PROVE  /\ NotesOf(stamps', Actions', Minute, clicks', now') /\ stamps' \subseteq Notes
         /\ \A i : i = New => ActionOfItsPage(i)'
<1>1. PICK r \in ClickRecord :
        /\ clicks' = Append(clicks, r) /\ now' = now
        /\ r.key = KeyOf(c, to) /\ r.at = now /\ r.real = real
        /\ r.from = IF real THEN held ELSE None
        /\ r.action = (IsNew(r.key) /\ Cardinality(InWindow(stamps, Minute)) < MaxActions)
        /\ r.shown = {p \in Pages : p = to \/ Within(leftAt'[p], InteractionWindow)}
  BY ClickRecorded
<1>2. r.key \in Pages \X Controls
  BY DEF ClickRecord
<1>3. stamps' = IF ~IsNew(r.key) THEN stamps
                ELSE IF r.action THEN InWindow(stamps, Minute) \cup {ThisClick}
                ELSE InWindow(stamps, Minute)
  BY <1>1 DEF Click, KeyOf, IsNew
<1>4. /\ Actions \subseteq DOMAIN clicks /\ stamps \subseteq Notes
      /\ NotesOf(stamps, Actions, Minute, clicks, now)
      /\ now \in Nat /\ Minute \in Nat /\ clicks \in Seq(ClickRecord)
  BY ClicksTyped DEF StampsInv, ClicksTypeOK, Actions
<1>5. Actions' = IF r.action THEN Actions \cup {New} ELSE Actions
  BY <1>1, Appended
<1>6. NotesOf(stamps', Actions', Minute, clicks', now') /\ stamps' \subseteq Notes
  <2>1. /\ NotesOf(stamps, Actions, Minute, clicks', now')
        /\ NotesOf(InWindow(stamps, Minute), Actions, Minute, clicks', now')
        /\ NotesOf(InWindow(stamps, Minute) \cup {ThisClick}, Actions \cup {New}, Minute, clicks', now')
        /\ InWindow(stamps, Minute) \in SUBSET Notes
        /\ InWindow(stamps, Minute) \cup {ThisClick} \in SUBSET Notes
    BY <1>1, <1>4, NotedClick
  <2> QED BY <1>1, <1>3, <1>4, <1>5, <2>1
<1>7. ASSUME NEW i, i = New PROVE ActionOfItsPage(i)'
  <2>1. clicks'[i] = r
    BY <1>1, <1>7, Appended
  <2>2. /\ Same(i)' = {j \in DOMAIN clicks : clicks[j].key = r.key}
        /\ Before(i, DuplicateWindow)' = {j \in DOMAIN clicks : now - clicks[j].at < DuplicateWindow}
        /\ Before(i, Minute)' \cap Actions' = {j \in Actions : now - clicks[j].at < Minute}
    BY <1>1, <1>7, NewIsToldBy
  <2>3. Cardinality(InWindow(stamps, Minute)) = Cardinality({j \in Actions : now - clicks[j].at < Minute})
    BY <1>4, NotesCount
  <2>4. r.action <=> /\ Same(i)' \cap Before(i, DuplicateWindow)' = {}
                     /\ Cardinality(Before(i, Minute)' \cap Actions') < MaxActions
    BY <1>1, <1>2, <2>2, <2>3, NewIsNew
  <2>5. GoTo(to)
    BY DEF Click
  <2>6. r.key[1] \in r.shown
    BY <1>1, <2>5, PageWasShown DEF KeyOf
  <2>7. r.from # None /\ r.at - r.from.at < InteractionWindow => r.key[1] = r.from.page
    BY <1>1, <2>5, PageWasShown DEF KeyOf
  <2> QED BY <2>1, <2>4, <2>6, <2>7 DEF ActionOfItsPage
<1> QED BY <1>6, <1>7

(***************************************************************************)
(* Bursts.                                                                 *)
(***************************************************************************)
LEMMA KeysFinite ==
  ASSUME NEW cs \in Seq(ClickRecord), NEW J \in SUBSET (DOMAIN cs)
  PROVE  IsFiniteSet({cs[j].key : j \in J})
<1> DEFINE K == {cs[j].key : j \in J}
           f == [j \in J |-> cs[j].key]
<1>1. DOMAIN cs = 1..Len(cs) /\ Len(cs) \in Nat
  OBVIOUS
<1>2. IsFiniteSet(J)
  <2>1. IsFiniteSet(DOMAIN cs)
    BY <1>1, FS_Interval
  <2> QED BY <2>1, FS_Subset
<1>3. f \in Surjection(J, K)
  BY DEF Surjection
<1> QED BY <1>2, <1>3, FS_Surjection

(* What a new real click brings to its control: the unused clicks of its   *)
(* window and itself.                                                      *)
LEMMA BurstGathers ==
  ASSUME ClicksTypeOK, PastInv, BurstsInv, NEW k \in Pages \X Controls,
         NEW near, near = {j \in Unused(k) : now - clicks[j].at < RageWindow}
  PROVE  /\ BurstOf(k).clicks \in SUBSET Notes /\ ThisClick \in BurstOf(k).clicks
         /\ Cardinality(BurstOf(k).clicks) = Cardinality(near) + 1
         /\ IsFiniteSet(near) /\ Cardinality(near) \in Nat
         /\ \A r \in ClickRecord :
              clicks' = Append(clicks, r) /\ r.at = now /\ now' = now =>
                NotesOf(BurstOf(k).clicks, Unused(k) \cup {New}, RageWindow, clicks', now')
<1> DEFINE old == IF k \in DOMAIN bursts THEN bursts[k].clicks ELSE {}
<1>1. old \in SUBSET Notes /\ Unused(k) \in SUBSET (DOMAIN clicks)
  BY DEF ClicksTypeOK, Unused
<1>2. NotesOf(old, Unused(k), RageWindow, clicks, now)
  <2>1. CASE k \in DOMAIN bursts
    BY <2>1 DEF BurstsInv
  <2>2. CASE k \notin DOMAIN bursts
    <3>1. \A j \in Unused(k) : ~(now - clicks[j].at < RageWindow)
      BY <2>2 DEF BurstsInv, Unused
    <3> QED BY <2>2, <3>1 DEF NotesOf
  <2> QED BY <2>1, <2>2
<1>3. BurstOf(k).clicks = InWindow(old, RageWindow) \cup {ThisClick}
  <2>1. CASE k \in DOMAIN bursts
    <3>1. bursts[k] \in [clicks : SUBSET Notes, reportedAt : Instants \cup {Never}]
      BY <2>1 DEF ClicksTypeOK
    <3> QED BY <2>1, <3>1 DEF BurstOf
  <2>2. CASE k \notin DOMAIN bursts
    BY <2>2 DEF BurstOf, InWindow
  <2> QED BY <2>1, <2>2
<1> HIDE DEF old
<1>4. /\ now \in Nat /\ RageWindow \in Nat /\ clicks \in Seq(ClickRecord)
      /\ IsFiniteSet(InWindow(old, RageWindow)) /\ IsFiniteSet(near)
      /\ Cardinality(InWindow(old, RageWindow)) = Cardinality(near)
      /\ Cardinality(InWindow(old, RageWindow)) \in Nat
  BY <1>1, <1>2, ClicksTyped, NotesCount
<1>5. ThisClick \in Notes /\ ThisClick \notin InWindow(old, RageWindow)
  <2>1. New \in Nat /\ New \notin DOMAIN clicks
    BY ClicksTyped DEF New
  <2>2. ThisClick = [by |-> New, at |-> now]
    BY DEF ThisClick, New
  <2> QED BY <1>1, <1>2, <2>1, <2>2 DEF Notes, NotesOf, InWindow, ClicksTypeOK
<1>6. Cardinality(BurstOf(k).clicks) = Cardinality(near) + 1
  BY <1>3, <1>4, <1>5, FS_AddElement
<1>7. ASSUME NEW r \in ClickRecord, clicks' = Append(clicks, r), r.at = now, now' = now
      PROVE  NotesOf(BurstOf(k).clicks, Unused(k) \cup {New}, RageWindow, clicks', now')
  BY <1>1, <1>2, <1>3, <1>7, NotedClick
<1>8. BurstOf(k).clicks \in SUBSET Notes
  BY <1>1, <1>3, <1>5 DEF InWindow
<1> QED BY <1>3, <1>4, <1>6, <1>7, <1>8

(* A control is cooling down when it is known to have reported lately.     *)
LEMMA CoolingIsKnown ==
  ASSUME ClicksTypeOK, PastInv, BurstsInv, NEW k \in Pages \X Controls
  PROVE  /\ Within(BurstOf(k).reportedAt, RageCooldown) =>
              \E m \in Rage : clicks[m].key = k /\ now - clicks[m].at < RageCooldown
         /\ \A m \in Rage : clicks[m].key = k /\ now - clicks[m].at < RageCooldown =>
              \/ Within(BurstOf(k).reportedAt, RageCooldown)
              \/ Cardinality(Clicked) > MaxKeys
<1>1. /\ now \in Nat /\ now <= Horizon /\ Horizon \in Nat /\ Minute \in Nat /\ RageCooldown \in Nat
      /\ \A j \in DOMAIN clicks : clicks[j].at \in Nat /\ clicks[j].at <= now
      /\ Rage \subseteq DOMAIN clicks
  BY ClicksTyped, PressesTyped DEF PastInv, Rage
<1>2. Never \in Nat /\ ~Within(Never, RageCooldown)
  BY <1>1 DEF Never, Within
<1>3. CASE k \in DOMAIN bursts
  <2>1. BurstOf(k).reportedAt = bursts[k].reportedAt
    <3>1. bursts[k] \in [clicks : SUBSET Notes, reportedAt : Instants \cup {Never}]
      BY <1>3 DEF ClicksTypeOK
    <3> QED BY <1>3, <3>1 DEF BurstOf
  <2>2. bursts[k].reportedAt # Never =>
          \E m \in Rage : clicks[m].key = k /\ clicks[m].at = bursts[k].reportedAt
    BY <1>3 DEF BurstsInv
  <2>3. Within(bursts[k].reportedAt, RageCooldown) =>
          \E m \in Rage : clicks[m].key = k /\ now - clicks[m].at < RageCooldown
    BY <1>2, <2>2 DEF Within
  <2>4. ASSUME NEW m \in Rage, clicks[m].key = k, now - clicks[m].at < RageCooldown,
               ~(Cardinality(Clicked) > MaxKeys)
        PROVE  Within(bursts[k].reportedAt, RageCooldown)
    <3>1. bursts[k].reportedAt # Never /\ clicks[m].at <= bursts[k].reportedAt
      BY <2>4 DEF BurstsInv
    <3>2. bursts[k].reportedAt \in Nat /\ bursts[k].reportedAt <= now
      BY <1>1, <2>2, <3>1
    <3> QED BY <1>1, <2>4, <3>1, <3>2 DEF Within
  <2> QED BY <2>1, <2>3, <2>4
<1>4. CASE k \notin DOMAIN bursts
  <2>1. BurstOf(k).reportedAt = Never
    BY <1>4 DEF BurstOf
  <2> QED BY <1>2, <1>4, <2>1 DEF BurstsInv
<1> QED BY <1>3, <1>4

Report(k) == RageOf(k).report

(* A report is made when a burst is full, its control not cooling down,    *)
(* and the minute not full.                                                *)
LEMMA ReportMeans ==
  ASSUME NEW k
  PROVE  /\ Report(k) <=> /\ Cardinality(BurstOf(k).clicks) >= RageClicks
                          /\ ~Within(BurstOf(k).reportedAt, RageCooldown)
                          /\ Cardinality(InWindow(rageStamps, Minute)) < MaxRage
         /\ RageOf(k).rageStamps \in {rageStamps, InWindow(rageStamps, Minute),
                                      InWindow(rageStamps, Minute) \cup {ThisClick}}
         /\ Report(k) => RageOf(k).rageStamps = InWindow(rageStamps, Minute) \cup {ThisClick}
         /\ ~Report(k) => RageOf(k).rageStamps \in {rageStamps, InWindow(rageStamps, Minute)}
BY DEF Report, RageOf

LEMMA BurstIsCounted ==
  ASSUME ClicksTypeOK, PastInv, StampsInv, BurstsInv,
         NEW r \in ClickRecord, clicks' = Append(clicks, r), now' = now, r.at = now,
         r.rage = (r.real /\ Report(r.key)),
         rageStamps' = IF r.real THEN RageOf(r.key).rageStamps ELSE rageStamps
  PROVE  /\ NotesOf(rageStamps', Rage', Minute, clicks', now') /\ rageStamps' \subseteq Notes
         /\ \A i : i = New => BurstIsReal(i)'
<1>1. r.key \in Pages \X Controls /\ r.real \in BOOLEAN
  BY DEF ClickRecord
<1>2. /\ Rage \subseteq DOMAIN clicks /\ rageStamps \subseteq Notes
      /\ NotesOf(rageStamps, Rage, Minute, clicks, now)
      /\ now \in Nat /\ Minute \in Nat /\ clicks \in Seq(ClickRecord)
  BY ClicksTyped DEF StampsInv, ClicksTypeOK, Rage
<1>3. Rage' = IF r.rage THEN Rage \cup {New} ELSE Rage
  BY Appended
<1>4. NotesOf(rageStamps', Rage', Minute, clicks', now') /\ rageStamps' \subseteq Notes
  <2>1. /\ NotesOf(rageStamps, Rage, Minute, clicks', now')
        /\ NotesOf(InWindow(rageStamps, Minute), Rage, Minute, clicks', now')
        /\ NotesOf(InWindow(rageStamps, Minute) \cup {ThisClick}, Rage \cup {New}, Minute, clicks', now')
        /\ InWindow(rageStamps, Minute) \in SUBSET Notes
        /\ InWindow(rageStamps, Minute) \cup {ThisClick} \in SUBSET Notes
    BY <1>2, NotedClick
  <2>2. CASE r.rage
    BY <1>1, <1>3, <2>1, <2>2, ReportMeans
  <2>3. CASE ~r.rage
    BY <1>1, <1>2, <1>3, <2>1, <2>3, ReportMeans
  <2> QED BY <2>2, <2>3
<1>5. ASSUME NEW i, i = New PROVE BurstIsReal(i)'
  <2> DEFINE near == {j \in Unused(r.key) : now - clicks[j].at < RageWindow}
  <2>1. clicks'[i] = r /\ i \notin DOMAIN clicks /\ \A j \in DOMAIN clicks : clicks'[j] = clicks[j]
    BY <1>5, Appended
  <2>2. /\ Same(i)' = {j \in DOMAIN clicks : clicks[j].key = r.key}
        /\ Before(i, RageWindow)' = {j \in DOMAIN clicks : now - clicks[j].at < RageWindow}
        /\ Before(i, RageCooldown)' = {j \in DOMAIN clicks : now - clicks[j].at < RageCooldown}
        /\ Before(i, RageCooldown)' \cap Rage' = {j \in Rage : now - clicks[j].at < RageCooldown}
        /\ Before(i, Minute)' \cap Rage' = {j \in Rage : now - clicks[j].at < Minute}
    BY <1>5, NewIsToldBy
  <2>3. Same(i)' \cap Rage' = {j \in Rage : clicks[j].key = r.key}
    BY <1>2, <1>3, <1>5, <2>1, <2>2
  <2>4. BurstAt(i)' = {i} \cup near
    <3>1. Used(i)' = {j \in DOMAIN clicks : clicks[j].key = r.key
                        /\ \E m \in Rage : clicks[m].key = r.key /\ j <= m}
      BY <2>2, <2>3 DEF Used
    <3> QED BY <2>1, <2>2, <3>1 DEF BurstAt, Unused
  <2>5. IsFiniteSet(near) /\ Cardinality(near) \in Nat
        /\ Cardinality(BurstOf(r.key).clicks) = Cardinality(near) + 1
    BY <1>1, BurstGathers
  <2>6. Cardinality(BurstAt(i)') = Cardinality(BurstOf(r.key).clicks)
    <3>1. i \notin near
      BY <2>1 DEF Unused
    <3>2. BurstAt(i)' = near \cup {i}
      BY <2>4
    <3> HIDE DEF near
    <3> QED BY <2>5, <3>1, <3>2, FS_AddElement
  <2>7. Cardinality(Before(i, Minute)' \cap Rage') = Cardinality(InWindow(rageStamps, Minute))
    BY <1>2, <2>2, NotesCount DEF PastInv
  <2>8. MayReport(i)' <=> /\ r.real /\ Cardinality(BurstOf(r.key).clicks) >= RageClicks
                          /\ Cardinality(InWindow(rageStamps, Minute)) < MaxRage
    BY <2>1, <2>6, <2>7 DEF MayReport
  <2>9. Cooling(i)' <=> \E m \in Rage : clicks[m].key = r.key /\ now - clicks[m].at < RageCooldown
    <3>1. Same(i)' \cap Before(i, RageCooldown)' \cap Rage'
            = {j \in Rage : clicks[j].key = r.key /\ now - clicks[j].at < RageCooldown}
      BY <1>2, <2>2, <2>3
    <3> QED BY <3>1 DEF Cooling
  <2>10. r.real /\ Cardinality(Clicked) > MaxKeys => Forgets(i)'
    <3>1. SUFFICES ASSUME r.real, Cardinality(Clicked) > MaxKeys PROVE Forgets(i)'
      OBVIOUS
    <3>2. RealUpTo(i)' = ReallyClicked \cup {i} /\ RealUpTo(i)' \subseteq DOMAIN clicks'
          /\ ReallyClicked \subseteq DOMAIN clicks
      BY <1>5, <2>1, <3>1, Appended, ClicksTyped DEF RealUpTo, ReallyClicked, New
    <3> DEFINE keys == {clicks'[j].key : j \in RealUpTo(i)'}
    <3>3. Clicked \subseteq keys
      BY <2>1, <3>2 DEF Clicked
    <3>4. IsFiniteSet(keys)
      BY <3>2, KeysFinite, Appended
    <3>5. Cardinality(Clicked) <= Cardinality(keys) /\ Cardinality(keys) \in Nat
          /\ Cardinality(Clicked) \in Nat
      <4> HIDE DEF keys
      <4> QED BY <3>3, <3>4, FS_Subset, FS_CardinalityType
    <3>6. Cardinality(keys) > MaxKeys
      <4>1. MaxKeys \in Nat
        BY ClicksTyped
      <4> HIDE DEF keys
      <4> QED BY <3>1, <3>5, <4>1
    <3> QED BY <3>6 DEF Forgets
  <2>11.
         /\ Within(BurstOf(r.key).reportedAt, RageCooldown) => Cooling(i)'
         /\ r.real /\ Cooling(i)' =>
              Within(BurstOf(r.key).reportedAt, RageCooldown) \/ Forgets(i)'
    BY <1>1, <2>9, <2>10, CoolingIsKnown
  <2> QED BY <1>1, <2>1, <2>8, <2>11, ReportMeans DEF BurstIsReal
<1> QED BY <1>4, <1>5

(* What is kept of a control after its own click, and of the others.       *)
KeptBurst(k) == IF Report(k) THEN [clicks |-> {}, reportedAt |-> now] ELSE BurstOf(k)

LEMMA BurstTyped ==
  ASSUME ClicksTypeOK, PastInv, BurstsInv, NEW k \in Pages \X Controls
  PROVE  /\ BurstOf(k) \in [clicks : SUBSET Notes, reportedAt : Instants \cup {Never}]
         /\ KeptBurst(k) \in [clicks : SUBSET Notes, reportedAt : Instants \cup {Never}]
         /\ k \in DOMAIN bursts => BurstOf(k).reportedAt = bursts[k].reportedAt
         /\ k \notin DOMAIN bursts => BurstOf(k).reportedAt = Never
<1>1. now \in Instants
  BY DEF ClicksTypeOK
<1>2. BurstOf(k).clicks \in SUBSET Notes
  BY BurstGathers
<1>3. CASE k \in DOMAIN bursts
  <2>1. bursts[k] \in [clicks : SUBSET Notes, reportedAt : Instants \cup {Never}]
    BY <1>3 DEF ClicksTypeOK
  <2>2. BurstOf(k) \in [clicks : SUBSET Notes, reportedAt : Instants \cup {Never}]
        /\ BurstOf(k).reportedAt = bursts[k].reportedAt
    BY <1>2, <1>3, <2>1 DEF BurstOf
  <2> QED BY <1>1, <1>3, <2>2 DEF KeptBurst
<1>4. CASE k \notin DOMAIN bursts
  <2>1. BurstOf(k) \in [clicks : SUBSET Notes, reportedAt : Instants \cup {Never}]
        /\ BurstOf(k).reportedAt = Never
    BY <1>2, <1>4 DEF BurstOf
  <2> QED BY <1>1, <1>4, <2>1 DEF KeptBurst
<1> QED BY <1>3, <1>4

(* The control's own burst is there, unless nothing of it could matter;    *)
(* another one is unless it was idle and there were too many.              *)
LEMMA BurstsAfter ==
  ASSUME ClicksTypeOK, PastInv, BurstsInv, NEW k \in Pages \X Controls,
         bursts' = RageOf(k).bursts
  PROVE  /\ DOMAIN bursts' \subseteq DOMAIN bursts \cup {k}
         /\ bursts' \in [DOMAIN bursts' -> [clicks : SUBSET Notes, reportedAt : Instants \cup {Never}]]
         /\ k \in DOMAIN bursts' => bursts'[k] = KeptBurst(k)
         /\ RageCooldown > 0 => k \in DOMAIN bursts'
         /\ \A q \in DOMAIN bursts' \ {k} : bursts'[q] = bursts[q]
         /\ \A q \in DOMAIN bursts \ {k} : q \notin DOMAIN bursts' =>
              /\ InWindow(bursts[q].clicks, RageCooldown) = {}
              /\ Cardinality(DOMAIN bursts \cup {k}) > MaxKeys
<1> DEFINE all == With(bursts, k, BurstOf(k))
           others == Pruned(all, Dormant(all))
           Kind == [clicks : SUBSET Notes, reportedAt : Instants \cup {Never}]
<1>1. bursts' = IF Report(k) THEN With(others, k, [clicks |-> {}, reportedAt |-> now]) ELSE others
  BY DEF RageOf, Report
<1>2. /\ DOMAIN all = DOMAIN bursts \cup {k} /\ all[k] = BurstOf(k)
      /\ \A q \in DOMAIN bursts : q # k => all[q] = bursts[q]
  BY DEF With
<1>3. all \in [DOMAIN all -> Kind]
  <2>1. bursts \in [DOMAIN bursts -> Kind] /\ BurstOf(k) \in Kind
    BY BurstTyped DEF ClicksTypeOK
  <2> HIDE DEF Kind
  <2> QED BY <2>1 DEF With
<1> HIDE DEF all
<1>4. /\ DOMAIN others \subseteq DOMAIN all /\ DOMAIN all \ Dormant(all) \subseteq DOMAIN others
      /\ \A q \in DOMAIN others : others[q] = all[q]
      /\ DOMAIN others # DOMAIN all => Cardinality(DOMAIN all) > MaxKeys
      /\ others \in [DOMAIN others -> Kind]
  <2> HIDE DEF Kind
  <2> QED BY <1>3, PrunedKeeps
<1> HIDE DEF others
<1>5. RageCooldown > 0 => k \notin Dormant(all)
  <2>1. ThisClick \in all[k].clicks
    BY <1>2, BurstGathers
  <2>2. RageCooldown > 0 => ThisClick \in InWindow(all[k].clicks, RageCooldown)
    BY <2>1, ClicksTyped DEF InWindow, Within, ThisClick
  <2> QED BY <2>2 DEF Dormant
<1>6. \A q \in DOMAIN bursts \ {k} : q \in Dormant(all) => InWindow(bursts[q].clicks, RageCooldown) = {}
  BY <1>2 DEF Dormant
<1>7. /\ DOMAIN bursts' = IF Report(k) THEN DOMAIN others \cup {k} ELSE DOMAIN others
      /\ \A q \in DOMAIN bursts' \ {k} : bursts'[q] = others[q]
      /\ k \in DOMAIN bursts' => bursts'[k] = KeptBurst(k)
      /\ bursts' \in [DOMAIN bursts' -> Kind]
  <2>1. CASE Report(k)
    <3>1. [clicks |-> {}, reportedAt |-> now] \in Kind
      BY DEF ClicksTypeOK
    <3> HIDE DEF Kind
    <3> QED BY <1>1, <1>4, <2>1, <3>1 DEF With, KeptBurst
  <2>2. CASE ~Report(k)
    BY <1>1, <1>2, <1>4, <2>2 DEF KeptBurst
  <2> QED BY <2>1, <2>2
<1> QED BY <1>2, <1>4, <1>5, <1>6, <1>7

LEMMA BurstsAreKept ==
  ASSUME ClicksTypeOK, PastInv, BurstsInv,
         NEW r \in ClickRecord, clicks' = Append(clicks, r), now' = now, r.at = now,
         r.rage = (r.real /\ Report(r.key)),
         bursts' = IF r.real THEN RageOf(r.key).bursts ELSE bursts
  PROVE  /\ BurstsInv' /\ DOMAIN bursts' \subseteq Pages \X Controls
         /\ bursts' \in [DOMAIN bursts' -> [clicks : SUBSET Notes, reportedAt : Instants \cup {Never}]]
<1> DEFINE k == r.key
<1>1. k \in Pages \X Controls /\ r.real \in BOOLEAN
  BY DEF ClickRecord
<1>2. /\ DOMAIN clicks' = DOMAIN clicks \cup {New} /\ New \notin DOMAIN clicks
      /\ clicks' \in Seq(ClickRecord) /\ clicks'[New] = r
      /\ \A j \in DOMAIN clicks : clicks'[j] = clicks[j] /\ j < New /\ clicks[j].at \in Nat
                                  /\ clicks[j].at <= now
      /\ Rage' = IF r.rage THEN Rage \cup {New} ELSE Rage
      /\ Rage \subseteq DOMAIN clicks /\ DOMAIN clicks \subseteq Nat /\ New \in Nat
  BY Appended, ClicksTyped DEF PastInv, Rage
<1>3. /\ now \in Nat /\ now <= Horizon /\ Horizon \in Nat /\ Minute \in Nat
      /\ RageWindow \in Nat /\ RageCooldown \in Nat /\ RageWindow <= RageCooldown
  BY ClicksTyped, PressesTyped, WindowsAssumption
<1>4. DOMAIN bursts \subseteq Pages \X Controls /\ DOMAIN bursts \subseteq Clicked
      /\ bursts \in [DOMAIN bursts -> [clicks : SUBSET Notes, reportedAt : Instants \cup {Never}]]
  BY DEF ClicksTypeOK, BurstsInv
<1>5. Clicked' = IF r.real THEN Clicked \cup {k} ELSE Clicked
  BY <1>2 DEF Clicked, ReallyClicked
<1>6. \A q : q # k \/ ~r.real => Unused(q)' = Unused(q)
  <2>1. ASSUME NEW q, q # k \/ ~r.real PROVE Unused(q)' = Unused(q)
    <3>1. ASSUME NEW j \in DOMAIN clicks
          PROVE  (\E m \in Rage' : clicks'[m].key = q /\ j <= m)
                   <=> (\E m \in Rage : clicks[m].key = q /\ j <= m)
      <4>1. \A m \in Rage : clicks'[m] = clicks[m] /\ m \in Rage'
        BY <1>2
      <4>2. \A m \in Rage' : clicks'[m].key = q => m \in Rage
        BY <1>2, <2>1
      <4> QED BY <4>1, <4>2
    <3>2. New \notin Unused(q)'
      BY <1>2, <2>1 DEF Unused
    <3>3. Unused(q)' = {j \in DOMAIN clicks :
                          /\ clicks[j].key = q /\ clicks[j].real
                          /\ ~\E m \in Rage' : clicks'[m].key = q /\ j <= m}
      BY <1>2, <3>2 DEF Unused
    <3> QED BY <3>1, <3>3 DEF Unused
  <2> QED BY <2>1
<1>7. r.real => Unused(k)' = IF r.rage THEN {} ELSE Unused(k) \cup {New}
  <2>1. CASE r.real /\ r.rage
    <3>1. \A j \in DOMAIN clicks' : j <= New
      BY <1>2
    <3> QED BY <1>2, <2>1, <3>1 DEF Unused
  <2>2. CASE r.real /\ ~r.rage
    <3>1. \A m \in Rage : ~(New <= m)
      BY <1>2
    <3> QED BY <1>2, <2>2, <3>1 DEF Unused
  <2> QED BY <1>1, <2>1, <2>2
(* A control's notes are of the same clicks as before.                     *)
<1>8. ASSUME NEW q \in DOMAIN bursts, q # k \/ ~r.real
      PROVE  /\ NotesOf(bursts[q].clicks, Unused(q)', RageWindow, clicks', now')
             /\ bursts[q].reportedAt # Never =>
                  \E m \in Rage' : clicks'[m].key = q /\ clicks'[m].at = bursts[q].reportedAt
  <2>1. /\ NotesOf(bursts[q].clicks, Unused(q), RageWindow, clicks, now)
        /\ bursts[q].reportedAt # Never =>
             \E m \in Rage : clicks[m].key = q /\ clicks[m].at = bursts[q].reportedAt
    BY DEF BurstsInv
  <2>2. Unused(q) \subseteq DOMAIN clicks
    BY DEF Unused
  <2>3. NotesOf(bursts[q].clicks, Unused(q), RageWindow, clicks', now')
    BY <1>2, <2>1, <2>2, NotesMoved
  <2>4. Unused(q)' = Unused(q)
    BY <1>6, <1>8
  <2> QED BY <1>2, <2>1, <2>3, <2>4
<1>9. CASE ~r.real
  <2>1. bursts' = bursts /\ Rage' = Rage /\ Clicked' = Clicked
    BY <1>2, <1>5, <1>9
  <2>2. ASSUME NEW j \in DOMAIN clicks', j \in Unused(clicks[j].key)',
               now' - clicks'[j].at < RageWindow
        PROVE  clicks'[j].key \in DOMAIN bursts'
    <3>1. j \in DOMAIN clicks /\ clicks'[j].real
      BY <1>2, <1>9, <2>2 DEF Unused
    <3>2. j \in Unused(clicks[j].key)
      BY <1>2, <1>6, <1>9, <2>2, <3>1
    <3> QED BY <1>2, <2>1, <2>2, <3>1, <3>2 DEF BurstsInv
  <2>3. ASSUME NEW m \in Rage', now' - clicks'[m].at < RageCooldown
        PROVE  \/ Cardinality(Clicked') > MaxKeys
               \/ /\ clicks'[m].key \in DOMAIN bursts'
                  /\ bursts'[clicks'[m].key].reportedAt # Never
                  /\ clicks'[m].at <= bursts'[clicks'[m].key].reportedAt
    BY <1>2, <2>1, <2>3 DEF BurstsInv
  <2>4. ASSUME NEW q \in DOMAIN bursts'
        PROVE  /\ NotesOf(bursts'[q].clicks, Unused(q)', RageWindow, clicks', now')
               /\ bursts'[q].reportedAt # Never =>
                    \E m \in Rage' : clicks'[m].key = q /\ clicks'[m].at = bursts'[q].reportedAt
    BY <1>8, <1>9, <2>1
  <2>5. BurstsInv'
    BY <1>4, <2>1, <2>2, <2>3, <2>4 DEF BurstsInv
  <2> QED BY <1>4, <2>1, <2>5
<1>10. CASE r.real
  <2>1. /\ DOMAIN bursts' \subseteq DOMAIN bursts \cup {k}
        /\ bursts' \in [DOMAIN bursts' -> [clicks : SUBSET Notes, reportedAt : Instants \cup {Never}]]
        /\ k \in DOMAIN bursts' => bursts'[k] = KeptBurst(k)
        /\ RageCooldown > 0 => k \in DOMAIN bursts'
        /\ \A q \in DOMAIN bursts' \ {k} : bursts'[q] = bursts[q]
        /\ \A q \in DOMAIN bursts \ {k} : q \notin DOMAIN bursts' =>
             /\ InWindow(bursts[q].clicks, RageCooldown) = {}
             /\ Cardinality(DOMAIN bursts \cup {k}) > MaxKeys
    BY <1>1, <1>10, BurstsAfter
  <2>2. r.rage <=> Report(k)
    BY <1>10
  <2>3. ASSUME NEW q \in DOMAIN bursts'
        PROVE  /\ NotesOf(bursts'[q].clicks, Unused(q)', RageWindow, clicks', now')
               /\ bursts'[q].reportedAt # Never =>
                    \E m \in Rage' : clicks'[m].key = q /\ clicks'[m].at = bursts'[q].reportedAt
    <3>1. CASE q # k
      <4>1. q \in DOMAIN bursts /\ bursts'[q] = bursts[q]
        BY <2>1, <3>1
      <4> QED BY <1>8, <3>1, <4>1
    <3>2. CASE q = k /\ Report(k)
      <4>1. bursts'[q] = [clicks |-> {}, reportedAt |-> now] /\ Unused(q)' = {}
        BY <1>7, <1>10, <2>1, <2>2, <3>2 DEF KeptBurst
      <4> QED BY <1>2, <2>2, <3>2, <4>1 DEF NotesOf
    <3>3. CASE q = k /\ ~Report(k)
      <4>1. bursts'[q] = BurstOf(k) /\ Unused(q)' = Unused(k) \cup {New}
        BY <1>7, <1>10, <2>1, <2>2, <3>3 DEF KeptBurst
      <4>2. NotesOf(BurstOf(k).clicks, Unused(k) \cup {New}, RageWindow, clicks', now')
        BY <1>1, BurstGathers
      <4>3. BurstOf(k).reportedAt # Never =>
              \E m \in Rage : clicks[m].key = k /\ clicks[m].at = BurstOf(k).reportedAt
        BY <1>1, BurstTyped DEF BurstsInv
      <4> QED BY <1>2, <3>3, <4>1, <4>2, <4>3
    <3> QED BY <3>1, <3>2, <3>3
  <2>4. ASSUME NEW j \in DOMAIN clicks', j \in Unused(clicks[j].key)',
               now' - clicks'[j].at < RageWindow
        PROVE  clicks'[j].key \in DOMAIN bursts'
    <3> DEFINE q == clicks'[j].key
    <3>1. RageCooldown > 0
      BY <1>2, <1>3, <2>4
    <3>2. CASE q = k
      BY <2>1, <3>1, <3>2
    <3>3. CASE q # k
      <4>1. j \in DOMAIN clicks /\ clicks'[j] = clicks[j]
        BY <1>2, <3>3
      <4>2. j \in Unused(q) /\ q = clicks[j].key
        BY <1>6, <2>4, <3>3, <4>1
      <4>3. q \in DOMAIN bursts
        BY <2>4, <4>1, <4>2 DEF BurstsInv
      <4>4. [by |-> j, at |-> clicks[j].at] \in bursts[q].clicks
        BY <2>4, <4>1, <4>2, <4>3 DEF BurstsInv, NotesOf
      <4>5. Within(clicks[j].at, RageCooldown)
        BY <1>2, <1>3, <2>4, <4>1 DEF Within
      <4>6. InWindow(bursts[q].clicks, RageCooldown) # {}
        BY <4>4, <4>5 DEF InWindow
      <4> QED BY <2>1, <3>3, <4>3, <4>6
    <3> QED BY <3>2, <3>3
  <2>5. ASSUME NEW m \in Rage', now' - clicks'[m].at < RageCooldown
        PROVE  \/ Cardinality(Clicked') > MaxKeys
               \/ /\ clicks'[m].key \in DOMAIN bursts'
                  /\ bursts'[clicks'[m].key].reportedAt # Never
                  /\ clicks'[m].at <= bursts'[clicks'[m].key].reportedAt
    <3> DEFINE q == clicks'[m].key
    <3>1. RageCooldown > 0 /\ now # Never /\ clicks'[m].at \in Nat /\ clicks'[m].at <= now
      BY <1>2, <1>3, <2>5 DEF Never
    <3>2. IsFiniteSet(Clicked')
      <4>1. ReallyClicked' \in SUBSET (DOMAIN clicks')
        BY DEF ReallyClicked
      <4> QED BY <1>2, <4>1, KeysFinite DEF Clicked
    <3>3. CASE q = k /\ Report(k)
      <4>1. k \in DOMAIN bursts' /\ bursts'[k] = [clicks |-> {}, reportedAt |-> now]
        BY <2>1, <3>1, <3>3 DEF KeptBurst
      <4>2. bursts'[q].reportedAt = now
        BY <3>3, <4>1
      <4> QED BY <3>1, <3>3, <4>1, <4>2
    <3>4. CASE ~(q = k /\ Report(k))
      <4>1. m \in Rage /\ m \in DOMAIN clicks /\ clicks'[m] = clicks[m]
        BY <1>2, <2>2, <3>4
      <4>2. CASE Cardinality(Clicked) > MaxKeys
        <5>1. Cardinality(Clicked) <= Cardinality(Clicked') /\ Cardinality(Clicked') \in Nat
              /\ Cardinality(Clicked) \in Nat /\ MaxKeys \in Nat
          BY <1>5, <3>2, FS_Subset, FS_CardinalityType, ClicksTyped
        <5> QED BY <4>2, <5>1
      <4>3. CASE ~(Cardinality(Clicked) > MaxKeys)
        <5>1. q \in DOMAIN bursts /\ bursts[q].reportedAt # Never /\ clicks[m].at <= bursts[q].reportedAt
          BY <2>5, <4>1, <4>3 DEF BurstsInv
        <5>2. CASE q = k
          BY <1>1, <2>1, <3>1, <3>4, <4>1, <5>1, <5>2, BurstTyped DEF KeptBurst
        <5>3. CASE q # k /\ q \in DOMAIN bursts'
          BY <2>1, <4>1, <5>1, <5>3
        <5>4. CASE q # k /\ q \notin DOMAIN bursts'
          <6>1. Cardinality(DOMAIN bursts \cup {k}) > MaxKeys
            BY <2>1, <5>1, <5>4
          <6>2. DOMAIN bursts \cup {k} \in SUBSET Clicked'
            BY <1>4, <1>5, <1>10
          <6>3. Cardinality(DOMAIN bursts \cup {k}) <= Cardinality(Clicked')
                /\ Cardinality(DOMAIN bursts \cup {k}) \in Nat /\ Cardinality(Clicked') \in Nat
            BY <3>2, <6>2, FS_Subset, FS_CardinalityType
          <6> QED BY <6>1, <6>3, ClicksTyped
        <5> QED BY <5>2, <5>3, <5>4
      <4> QED BY <4>2, <4>3
    <3> QED BY <3>3, <3>4
  <2>6. DOMAIN bursts' \subseteq Clicked' /\ DOMAIN bursts' \subseteq Pages \X Controls
    BY <1>1, <1>4, <1>5, <1>10, <2>1
  <2> QED BY <2>1, <2>3, <2>4, <2>5, <2>6 DEF BurstsInv
<1> QED BY <1>1, <1>9, <1>10

(***************************************************************************)
(* The invariant.                                                          *)
(***************************************************************************)
ClicksInv == ClicksTypeOK /\ PressInv /\ WindowInv /\ BurstsAreReal /\ ActionsOfTheirPage

LEMMA ClickKeeps ==
  ASSUME ClicksInv, NEW c \in Controls, NEW real \in BOOLEAN, NEW to \in Pages,
         Click(c, real, to)
  PROVE  ClicksInv'
<1>1. ClicksTypeOK /\ PressInv /\ PastInv /\ StampsInv /\ RecentInv /\ BurstsInv
      /\ BurstsAreReal /\ ActionsOfTheirPage
  BY DEF ClicksInv, WindowInv
<1>2. PICK r \in ClickRecord :
        /\ clicks' = Append(clicks, r) /\ now' = now
        /\ r.key = KeyOf(c, to) /\ r.at = now /\ r.real = real
        /\ r.rage = (real /\ Report(r.key))
  BY <1>1, ClickRecorded DEF Report
<1>3. /\ recent' = Recent(r.key)
      /\ bursts' = IF r.real THEN RageOf(r.key).bursts ELSE bursts
      /\ rageStamps' = IF r.real THEN RageOf(r.key).rageStamps ELSE rageStamps
      /\ interaction' = None /\ held' = None /\ GoTo(to) /\ presses' = presses
  BY <1>2 DEF Click, KeyOf
<1>4. /\ NotesOf(stamps', Actions', Minute, clicks', now') /\ stamps' \subseteq Notes
      /\ \A i : i = New => ActionOfItsPage(i)'
  BY <1>1, ActionIsCounted
<1>5. /\ NotesOf(rageStamps', Rage', Minute, clicks', now') /\ rageStamps' \subseteq Notes
      /\ \A i : i = New => BurstIsReal(i)'
  BY <1>1, <1>2, <1>3, BurstIsCounted
<1>6. /\ RecentInv'
      /\ DOMAIN recent' \subseteq Pages \X Controls /\ recent' \in [DOMAIN recent' -> Instants]
  BY <1>1, <1>2, <1>3, ClickIsRemembered
<1>7. /\ BurstsInv' /\ DOMAIN bursts' \subseteq Pages \X Controls
      /\ bursts' \in [DOMAIN bursts' -> [clicks : SUBSET Notes, reportedAt : Instants \cup {Never}]]
  BY <1>1, <1>2, <1>3, BurstsAreKept
<1>8. /\ DOMAIN clicks' = DOMAIN clicks \cup {New} /\ clicks' \in Seq(ClickRecord)
      /\ \A j \in DOMAIN clicks : clicks'[j] = clicks[j]
      /\ clicks'[New] = r
  BY <1>1, <1>2, Appended
<1>9. ClicksTypeOK'
  <2>1. /\ location' \in Pages /\ moved' \in 0..MaxMoved
        /\ leftAt' \in [Pages -> Instants \cup {Never}]
    BY <1>1, <1>3, GoesAway
  <2>2. interaction' \in PagePress /\ held' \in PagePress
    BY <1>3 DEF PagePress
  <2>3. now' \in Instants /\ presses' \in 0..MaxPresses
    BY <1>1, <1>2, <1>3 DEF ClicksTypeOK
  <2> QED BY <1>4, <1>5, <1>6, <1>7, <1>8, <2>1, <2>2, <2>3 DEF ClicksTypeOK
<1>10. PressInv'
  BY <1>3 DEF PressInv
<1>11. PastInv'
  <2>1. now \in Nat
    BY <1>1, ClicksTyped
  <2>2. ASSUME NEW j \in DOMAIN clicks'
        PROVE  clicks'[j].at <= now' /\ (clicks'[j].rage => clicks'[j].real)
    BY <1>1, <1>2, <1>8, <2>1 DEF PastInv
  <2> QED BY <2>2 DEF PastInv
<1>12. WindowInv'
  BY <1>4, <1>5, <1>6, <1>7, <1>11 DEF WindowInv, StampsInv
<1>13. BurstsAreReal'
  <2>1. ASSUME NEW i \in DOMAIN clicks' PROVE BurstIsReal(i)'
    BY <1>1, <1>2, <1>5, <1>8, PastStays DEF BurstsAreReal
  <2> QED BY <2>1 DEF BurstsAreReal
<1>14. ActionsOfTheirPage'
  <2>1. ASSUME NEW i \in DOMAIN clicks' PROVE ActionOfItsPage(i)'
    BY <1>1, <1>2, <1>4, <1>8, PastStays DEF ActionsOfTheirPage
  <2> QED BY <2>1 DEF ActionsOfTheirPage
<1> QED BY <1>9, <1>10, <1>12, <1>13, <1>14 DEF ClicksInv

LEMMA NextClicks == ClicksInv /\ [ClicksNext]_clicksVars => ClicksInv'
<1> SUFFICES ASSUME ClicksInv, [ClicksNext]_clicksVars PROVE ClicksInv'
  OBVIOUS
<1>1. ASSUME \/ Wait \/ OtherClick \/ UNCHANGED clicksVars
             \/ \E p \in Pages : Leave(p)
             \/ \E pointer \in BOOLEAN : Press(pointer)
      PROVE  ClicksInv'
  BY <1>1, OtherSteps, TimePasses, SameClicks DEF ClicksInv
<1>2. ASSUME NEW c \in Controls, NEW real \in BOOLEAN, NEW to \in Pages, Click(c, real, to)
      PROVE  ClicksInv'
  BY <1>2, ClickKeeps
<1> QED BY <1>1, <1>2 DEF ClicksNext

LEMMA InitClicks == ClicksInit => ClicksInv
BY InitWindows DEF ClicksInv

(* Types of the watcher's variables.                                       *)
THEOREM ClicksTypeCorrect == ClicksSpec => []ClicksTypeOK
<1>1. ClicksInv => ClicksTypeOK
  BY DEF ClicksInv
<1> QED BY <1>1, InitClicks, NextClicks, PTL DEF ClicksSpec

(* A burst is reported for as many unused real clicks on one control as it *)
(* takes, when the minute has room, and not while the control cools down   *)
(* unless more controls were clicked than the watcher remembers; and every *)
(* such burst is.                                                          *)
THEOREM BurstsStayReal == ClicksSpec => []BurstsAreReal
<1>1. ClicksInv => BurstsAreReal
  BY DEF ClicksInv
<1> QED BY <1>1, InitClicks, NextClicks, PTL DEF ClicksSpec

(* Each click but a double click or one beyond the minute's limit is an    *)
(* action, of the page its press was made on, wherever a router has moved. *)
THEOREM ActionsStayOfTheirPage == ClicksSpec => []ActionsOfTheirPage
<1>1. ClicksInv => ActionsOfTheirPage
  BY DEF ClicksInv
<1> QED BY <1>1, InitClicks, NextClicks, PTL DEF ClicksSpec
=============================================================================
