----------------------------- MODULE CountOnce -----------------------------
(***************************************************************************)
(* What the collector promises about its deduplicated counters, with no    *)
(* request, table, nonce or failure in sight: an event id is credited to   *)
(* at most one website of its project, ever, and the counter of a kind     *)
(* grows by exactly the events credited.  However often a browser retries  *)
(* a batch, a report built on these counters does not move twice.          *)
(***************************************************************************)
EXTENDS Naturals, FiniteSets

CONSTANTS
  Sources,     \* websites
  Events,      \* event ids
  Kinds,       \* the kinds of event that have a counter here
  ProjectOf,   \* [Sources -> projects]
  KindOf       \* [Events -> kinds]

VARIABLES
  credited,    \* [Sources -> SUBSET Events]: events credited so far
  counter      \* [Sources -> [Kinds -> Nat]]

vars == <<credited, counter>>

(* Every event credited to some website of the project of s.               *)
CreditedInProject(s) ==
  UNION {credited[t] : t \in {u \in Sources : ProjectOf[u] = ProjectOf[s]}}

OfKind(E, k) == {e \in E : KindOf[e] = k}

Init ==
  /\ credited = [s \in Sources |-> {}]
  /\ counter = [s \in Sources |-> [k \in Kinds |-> 0]]

(* Credit the not yet credited events E to website s and count them.       *)
Credit(s, E) ==
  /\ E \cap CreditedInProject(s) = {}
  /\ credited' = [credited EXCEPT ![s] = @ \cup E]
  /\ counter' = [counter EXCEPT
                   ![s] = [k \in Kinds |-> @[k] + Cardinality(OfKind(E, k))]]

Next == \E s \in Sources, E \in SUBSET Events : Credit(s, E)

Spec == Init /\ [][Next]_vars
=============================================================================
