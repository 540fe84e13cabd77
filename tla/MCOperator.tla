------------------------------ MODULE MCOperator ------------------------------
(***************************************************************************)
(* Operator with a deployed environment and a new one, two terminals and   *)
(* two kinds of secret; or Deployment with two actors, two configurations  *)
(* and two profiles.  The two tools share nothing: a behaviour is of one   *)
(* of them.                                                                *)
(***************************************************************************)
EXTENDS Operator, Deployment, TLC

VARIABLE tool

MCInit ==
  /\ Init /\ DeploymentInit
  /\ \/ tool = "vizoalica"
     \/ tool = "profile" /\ \A e \in Names : file[e] = Absent

MCNext ==
  \/ tool = "vizoalica" /\ Next /\ UNCHANGED <<tool, deploymentVars>>
  \/ tool = "profile" /\ DeploymentNext /\ UNCHANGED <<tool, vars>>

MCSpec == MCInit /\ [][MCNext]_<<tool, vars, deploymentVars>>

MCSymmetry == Permutations(Terminals) \cup Permutations(Configs) \cup Permutations(Profiles)
=============================================================================
