------------------------------ MODULE MCPurge ------------------------------
(***************************************************************************)
(* Purge on small instances: the websites of one project, and either two   *)
(* runs that may overlap and may each complete, or runs one after the      *)
(* other of a budget that ends inside a prefix of two pages.               *)
(***************************************************************************)
EXTENDS Purge, TLC

CONSTANTS p1, s1, u1, u2, u3

MCProjectOf == [s \in Sources |-> p1]

(* The first website shares the policy of its project.                     *)
MCPolicyOf == [o \in Owners |-> IF o = s1 THEN p1 ELSE o]

MCBudgetOf == [u \in Runs |-> IF u = u3 THEN 5 ELSE 11]

VARIABLE started  \* the runs of this behaviour

MCInit == Init /\ started \in {{u1, u2}, {u3}}

MCNext ==
  /\ Next
  /\ \A u \in Runs \ started : stage'[u] = "idle"
  /\ UNCHANGED started

MCSpec == MCInit /\ [][MCNext]_<<vars, started>>

AnyOrder == Permutations(Requests) \cup Permutations({u1, u2})
=============================================================================
