------------------------------ MODULE MCConsole ------------------------------
(***************************************************************************)
(* Two environments; one at another address and the other renamed; one     *)
(* removed; nothing but an invalid entry.  Or, of the pages in a tab, a    *)
(* project of two websites and one of a single website, a key, and a goal  *)
(* for each website.  A behaviour is of the local service or of the pages. *)
(***************************************************************************)
EXTENDS Console, Manage, TLC

CONSTANTS A, B, a1, a2, b1

At(n, u) == [name |-> n, url |-> u]
MCFirst == {<<At("prod", "u1"), At("test", "u2")>>}
MCContents == MCFirst \cup {<<At("prod", "u3"), At("stage", "u2")>>,
               <<At("prod", None)>>, <<At("test", "u2")>>}

MCProjectOf == (a1 :> A) @@ (a2 :> A) @@ (b1 :> B)

VARIABLE side

MCInit ==
  /\ ConsoleInit /\ ManageInit
  /\ \/ side = "pages" /\ prefs = None
     \/ side = "service" /\ project = A /\ page = Nowhere

MCNext ==
  \/ side = "service" /\ ConsoleNext /\ UNCHANGED <<side, manageVars>>
  \/ side = "pages" /\ ManageNext /\ UNCHANGED <<side, consoleVars>>

MCSpec == MCInit /\ [][MCNext]_<<side, consoleVars, manageVars>>

MCSymmetry == Permutations(Requests) \cup Permutations(Calls) \cup Permutations({a1, a2})
=============================================================================
