--------------------------- MODULE MCPurgeBacklog ---------------------------
(***************************************************************************)
(* Purge with the numbers of the code, and a live project of which more    *)
(* websites are deleted than a run can pay for.                            *)
(***************************************************************************)
EXTENDS Purge

CONSTANT p1

MCProjectOf == [s \in Sources |-> p1]

MCPolicyOf == [o \in Owners |-> o]

MCBudgetOf == [u \in Runs |-> 40]
=============================================================================
