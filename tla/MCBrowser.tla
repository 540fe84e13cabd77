------------------------------ MODULE MCBrowser ------------------------------
(***************************************************************************)
(* Clicks with two pages and two controls; or Page with the same two       *)
(* pages, a tag and two loaders.  The click watcher and the navigation     *)
(* watcher share nothing but the address: a behaviour is of one of them,   *)
(* and the other one stays at a start that is the same for all.            *)
(***************************************************************************)
EXTENDS Clicks, Page, TLC

VARIABLE watcher

PageAtRest ==
  /\ address.switch = "none" /\ ~storage.works
  /\ shown = {}
  /\ option = [s \in Scripts |-> "plain"]

MCInit ==
  /\ ClicksInit /\ PageInit
  /\ address.key = location
  /\ watcher \in {"clicks", "navigation"}
  /\ watcher = "clicks" => PageAtRest

MCNext ==
  \/ watcher = "clicks" /\ ClicksNext /\ UNCHANGED <<watcher, pageVars>>
  \/ watcher = "navigation" /\ PageNext /\ UNCHANGED <<watcher, clicksVars>>

MCSpec == MCInit /\ [][MCNext]_<<watcher, clicksVars, pageVars>>

MCSymmetry ==
  Permutations(Pages) \cup Permutations(Controls) \cup Permutations(Loaders)
=============================================================================
