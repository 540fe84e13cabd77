---------------------------- MODULE BrowserQueue ----------------------------
(***************************************************************************)
(* The browser SDK's way of delivering events (packages/browser-sdk): a    *)
(* bounded queue in memory, and flushes that overlap, since every event    *)
(* tracked starts one and a timer or the page may start others.            *)
(*                                                                         *)
(* A flush drains at most Drain events, synchronously, and sends them in   *)
(* up to three requests, one after another: page views and custom events,  *)
(* then actions, then rage clicks.  A batch answered with 2xx is done, one *)
(* answered with 400 or 413 is given up, anything else puts it back at the *)
(* front of the queue.  A request that times out is put back as well,      *)
(* although it may have reached the collector or may still do so.          *)
(*                                                                         *)
(* The collector is CountOnce, which Ingest is shown to implement: it      *)
(* credits, in one step, the events of a batch it has not credited yet.    *)
(***************************************************************************)
EXTENDS Naturals, Sequences, FiniteSets

CONSTANTS
  Events,      \* the events a page tracks
  ClassOf,     \* [Events -> Classes]
  Unknown,     \* the events the collector does not accept, such as rage
               \* clicks before version 0.12 or an invalid custom name
  Flushes,     \* bound: flushes under way at the same time
  MaxQueue,    \* maxQueueSize: 100
  Drain,       \* events in a flush: 25
  MaxTroubles, \* bound: timeouts and answers that ask for another attempt
  Site         \* the website

(* In the order in which a flush sends them.                               *)
Classes == {"plain", "action", "rage"}
Order == <<"plain", "action", "rage">>

ASSUME EventsAssumption ==
  /\ IsFiniteSet(Events)
  /\ ClassOf \in [Events -> Classes]
  /\ Unknown \subseteq Events

ASSUME BoundsAssumption ==
  /\ IsFiniteSet(Flushes)
  /\ MaxQueue \in Nat \ {0} /\ Drain \in Nat \ {0}
  /\ MaxTroubles \in Nat

VARIABLES
  tracked,   \* events enqueued so far
  queue,     \* BoundedQueue.items
  taken,     \* what each flush drained and has not settled yet, by class
  wire,      \* the request each flush awaits
  loose,     \* requests nobody awaits any more, which may still arrive
  stale,     \* events older than a day, which the collector refuses
  acked,     \* history: events answered with 2xx
  refused,   \* history: events given up after 400 or 413
  dropped,   \* history: events pushed out of the full queue
  gone,      \* history: events in memory when the page was closed
  open,      \* the page is open
  troubles,  \* timeouts and failures so far
  credited, counter  \* the collector

page == <<tracked, queue, taken, wire, open>>
fate == <<acked, refused, dropped, gone>>
collector == <<credited, counter>>
vars == <<tracked, queue, taken, wire, loose, stale, acked, refused, dropped, gone, open,
          troubles, credited, counter>>

Collector == INSTANCE CountOnce WITH
               Sources   <- {Site},
               Kinds     <- {"plain", "action"},
               ProjectOf <- [s \in {Site} |-> s],
               KindOf    <- ClassOf

Elements(s) == {s[i] : i \in DOMAIN s}

(* Array.splice(0, n): what it returns and what it leaves.                 *)
Front(s, n) == SubSeq(s, 1, IF n < Len(s) THEN n ELSE Len(s))
Rest(s, n) == SubSeq(s, n + 1, Len(s))

(* Array.filter: the events of s of class k, in their order.               *)
OfClass(s, k) ==
  LET kept == {i \in DOMAIN s : ClassOf[s[i]] = k}
      place(i) == Cardinality({j \in kept : j <= i})
  IN [n \in 1..Cardinality(kept) |-> s[CHOOSE i \in kept : place(i) = n]]

Nothing == [k \in Classes |-> <<>>]

Init ==
  /\ tracked = {} /\ queue = <<>>
  /\ taken = [f \in Flushes |-> Nothing]
  /\ wire = [f \in Flushes |-> "none"]
  /\ loose = {} /\ stale = {}
  /\ acked = {} /\ refused = {} /\ dropped = {} /\ gone = {}
  /\ open = TRUE
  /\ troubles = 0
  /\ Collector!Init

(***************************************************************************)
(* The queue and the start of a flush.                                     *)
(***************************************************************************)
Idle(f) == open /\ taken[f] = Nothing

(* flush() up to its first request.                                        *)
StartWith(f, queued) ==
  /\ queue' = Rest(queued, Drain)
  /\ taken' = [taken EXCEPT ![f] = [k \in Classes |-> OfClass(Front(queued, Drain), k)]]
  /\ wire' = [wire EXCEPT ![f] = "sent"]

(* enqueue: a full queue loses its oldest event.                           *)
Enqueued(e) == Append(IF Len(queue) >= MaxQueue THEN Tail(queue) ELSE queue, e)

(* track, page or an observed click: enqueue, then `void flush()`.         *)
Track(e, f) ==
  /\ Idle(f) /\ e \notin tracked
  /\ tracked' = tracked \cup {e}
  /\ dropped' = dropped \cup (Elements(queue) \ Elements(Enqueued(e)))
  /\ StartWith(f, Enqueued(e))
  /\ UNCHANGED <<loose, stale, acked, refused, gone, open, troubles, collector>>

(* The timer, or the page, calls flush.                                    *)
Flush(f) ==
  /\ Idle(f) /\ queue # <<>>
  /\ StartWith(f, queue)
  /\ UNCHANGED <<tracked, loose, stale, fate, open, troubles, collector>>

(* The class whose turn it is: the first with any of its events left.      *)
Turn(f) ==
  LET left == {i \in DOMAIN Order : taken[f][Order[i]] # <<>>}
  IN Order[CHOOSE i \in left : \A j \in left : i <= j]

Drained(f) == taken[f]["plain"] \o taken[f]["action"] \o taken[f]["rage"]

(* The request a flush makes now.                                          *)
Batch(f) == taken[f][Turn(f)]

(* After a batch is settled: its flush goes on with the next class.        *)
Settle(f) ==
  LET left == [taken[f] EXCEPT ![Turn(f)] = <<>>] IN
  /\ taken' = [taken EXCEPT ![f] = left]
  /\ wire' = [wire EXCEPT ![f] = IF left = Nothing THEN "none" ELSE "sent"]

(***************************************************************************)
(* The collector.                                                          *)
(***************************************************************************)
Acceptable(E) == E \cap (Unknown \cup stale) = {}

Credit(E) == Collector!Credit(Site, E \ credited[Site])

Trouble == troubles < MaxTroubles /\ troubles' = troubles + 1

(* The batch is counted; the answer is 202, or an error after the counting.*)
Deliver(f) ==
  /\ wire[f] = "sent" /\ Acceptable(Elements(Batch(f)))
  /\ Credit(Elements(Batch(f)))
  /\ \/ wire' = [wire EXCEPT ![f] = "accepted"] /\ UNCHANGED troubles
     \/ wire' = [wire EXCEPT ![f] = "failed"] /\ Trouble
  /\ UNCHANGED <<tracked, queue, taken, loose, stale, fate, open>>

(* An event that is not accepted has its whole batch refused, with a 400.  *)
Refuse(f) ==
  /\ wire[f] = "sent" /\ ~Acceptable(Elements(Batch(f)))
  /\ wire' = [wire EXCEPT ![f] = "refused"]
  /\ UNCHANGED <<tracked, queue, taken, loose, stale, fate, open, troubles, collector>>

(* The network fails, no token is to be had, or the answer is a 401, 403,  *)
(* 429 or 5xx with nothing counted.                                        *)
Fail(f) ==
  /\ wire[f] = "sent"
  /\ Trouble
  /\ wire' = [wire EXCEPT ![f] = "failed"]
  /\ UNCHANGED <<tracked, queue, taken, loose, stale, fate, open, collector>>

(* A request that was given up arrives all the same, or never does.        *)
ArriveLate(E) ==
  /\ E \in loose
  /\ loose' = loose \ {E}
  /\ Acceptable(E) /\ Credit(E)
  /\ UNCHANGED <<page, stale, fate, troubles>>

(***************************************************************************)
(* The answer, in `send`.                                                  *)
(***************************************************************************)
Accepted(f) ==
  /\ wire[f] = "accepted"
  /\ acked' = acked \cup Elements(Batch(f))
  /\ Settle(f)
  /\ UNCHANGED <<tracked, queue, loose, stale, refused, dropped, gone, open, troubles,
                 collector>>

(* Mutant: a refused batch is put back like any other.                     *)
RefusedRequeued(f) ==
  /\ wire[f] = "refused"
  /\ queue' = Front(Batch(f) \o queue, MaxQueue)
  /\ dropped' = dropped \cup Elements(Rest(Batch(f) \o queue, MaxQueue))
  /\ Settle(f)
  /\ UNCHANGED <<tracked, loose, stale, acked, refused, gone, open, troubles, collector>>

(* permanentRejection: sending it again can never succeed.                 *)
Refused(f) ==
  /\ wire[f] = "refused"
  /\ refused' = refused \cup Elements(Batch(f))
  /\ Settle(f)
  /\ UNCHANGED <<tracked, queue, loose, stale, acked, dropped, gone, open, troubles,
                 collector>>

(* Mutant: everything drained is put back.                                 *)
RequeueAll(f) ==
  /\ queue' = Front(Drained(f) \o queue, MaxQueue)
  /\ dropped' = dropped \cup Elements(Rest(Drained(f) \o queue, MaxQueue))

(* requeueFront: a queue that gets too long loses its newest events.       *)
Requeue(f) ==
  /\ queue' = Front(Batch(f) \o queue, MaxQueue)
  /\ dropped' = dropped \cup Elements(Rest(Batch(f) \o queue, MaxQueue))

Failed(f) ==
  /\ wire[f] = "failed"
  /\ Requeue(f) /\ Settle(f)
  /\ UNCHANGED <<tracked, loose, stale, acked, refused, gone, open, troubles, collector>>

(* Mutant: an aborted request is taken for delivered.                      *)
TimeoutAcks(f) ==
  /\ wire[f] \in {"sent", "accepted", "refused"}
  /\ loose' = IF wire[f] = "sent" THEN loose \cup {Elements(Batch(f))} ELSE loose
  /\ acked' = acked \cup Elements(Batch(f))
  /\ Trouble /\ Settle(f)
  /\ UNCHANGED <<tracked, queue, dropped, stale, refused, gone, open, collector>>

(* The abort fires first, whatever the collector has done or will do.      *)
Timeout(f) ==
  /\ wire[f] \in {"sent", "accepted", "refused"}
  /\ loose' = IF wire[f] = "sent" THEN loose \cup {Elements(Batch(f))} ELSE loose
  /\ Trouble /\ Requeue(f) /\ Settle(f)
  /\ UNCHANGED <<tracked, stale, acked, refused, gone, open, collector>>

(***************************************************************************)
(* Around the SDK: time passes, the page is closed.                        *)
(***************************************************************************)
(* More than a day has passed since the event.                             *)
Expire(e) ==
  /\ e \in tracked \ stale
  /\ stale' = stale \cup {e}
  /\ UNCHANGED <<page, loose, fate, troubles, collector>>

InFlight == UNION {Elements(taken[f][k]) : f \in Flushes, k \in Classes}

(* What is in memory is gone; `keepalive` lets a request arrive still.     *)
Close ==
  /\ open
  /\ open' = FALSE
  /\ gone' = Elements(queue) \cup InFlight
  /\ loose' = loose \cup {Elements(Batch(f)) : f \in {g \in Flushes : wire[g] = "sent"}}
  /\ queue' = <<>>
  /\ taken' = [f \in Flushes |-> Nothing]
  /\ wire' = [f \in Flushes |-> "none"]
  /\ UNCHANGED <<tracked, stale, acked, refused, dropped, troubles, collector>>

Reach(f) == Deliver(f) \/ Refuse(f) \/ Fail(f)
Answer(f) == Accepted(f) \/ Refused(f) \/ Failed(f)

Next ==
  \/ \E e \in Events, f \in Flushes : Track(e, f)
  \/ \E f \in Flushes : Flush(f) \/ Reach(f) \/ Answer(f) \/ Timeout(f)
  \/ \E E \in loose : ArriveLate(E)
  \/ \E e \in Events : Expire(e)
  \/ Close

Spec == Init /\ [][Next]_vars

(* A client with `flushIntervalMs` flushes again and again while its page  *)
(* is open; the abort timer settles every request, and the browser's own   *)
(* timeout the fetch of a token before it.                                 *)
FairSpec ==
  /\ Spec
  /\ WF_vars(\E f \in Flushes : Flush(f))
  /\ \A f \in Flushes : WF_vars(Reach(f) \/ Answer(f))

(***************************************************************************)
(* Properties.                                                             *)
(***************************************************************************)

(* Every variable has its type; in particular the queue never holds more   *)
(* than MaxQueue events, whatever is put back when.                        *)
TypeOK ==
  /\ tracked \subseteq Events
  /\ queue \in Seq(Events) /\ Len(queue) <= MaxQueue
  /\ taken \in [Flushes -> [Classes -> Seq(Events)]]
  /\ wire \in [Flushes -> {"none", "sent", "accepted", "refused", "failed"}]
  /\ \A f \in Flushes : wire[f] = "none" <=> taken[f] = Nothing
  /\ loose \subseteq SUBSET Events
  /\ stale \subseteq Events
  /\ acked \subseteq Events /\ refused \subseteq Events
  /\ dropped \subseteq Events /\ gone \subseteq Events
  /\ open \in BOOLEAN
  /\ troubles \in 0..MaxTroubles

(* However flushes overlap, fail and put back, an event is in one place:   *)
(* queued, held by one flush, answered, given up, pushed out, or lost with *)
(* the page.  None vanishes and none is doubled.                           *)
OnePlace ==
  /\ tracked = Elements(queue) \cup InFlight \cup acked \cup refused \cup dropped \cup gone
  /\ Cardinality(tracked) =
       Len(queue) + Cardinality(InFlight) + Cardinality(acked) + Cardinality(refused)
         + Cardinality(dropped) + Cardinality(gone)
  /\ \A f \in Flushes, k \in Classes : Cardinality(Elements(taken[f][k])) = Len(taken[f][k])
  /\ \A f, g \in Flushes, k, l \in Classes :
       <<f, k>> # <<g, l>> => Elements(taken[f][k]) \cap Elements(taken[g][l]) = {}

(* The counters a report reads are at least what the browser was told was  *)
(* accepted and at most what happened, whatever is sent twice, answered    *)
(* too late or never.                                                      *)
CountsAreHonest ==
  \A k \in {"plain", "action"} :
    /\ Cardinality(Collector!OfKind(acked, k)) <= counter[Site][k]
    /\ counter[Site][k] <= Cardinality(Collector!OfKind(tracked, k))

(* index.ts:64 "A backend that does not know the action type rejects that  *)
(* batch outright, and page views must not be lost with it": an event is   *)
(* given up only together with an unacceptable one of its own class.       *)
RefusalIsOwn ==
  \A e \in refused : \E x \in refused \cap (Unknown \cup stale) : ClassOf[x] = ClassOf[e]

(* With a timer and finitely many failures, every event tracked is         *)
(* answered, given up, pushed out or lost with the page: nothing blocks    *)
(* the queue for good.                                                     *)
Settles ==
  \A e \in Events : e \in tracked ~> e \in acked \cup refused \cup dropped \cup gone
=============================================================================
