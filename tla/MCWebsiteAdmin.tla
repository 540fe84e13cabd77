--------------------------- MODULE MCWebsiteAdmin ---------------------------
(***************************************************************************)
(* WebsiteAdmin with an administrator, an owner of another website of the  *)
(* project and an analyst; a website whose columns are its origins, its    *)
(* token switch and its excluded addresses; and senders with and without   *)
(* a token.                                                                *)
(***************************************************************************)
EXTENDS WebsiteAdmin, Matching, TLC

MCCallers == {"admin", "neighbour", "analyst"}
MCRoleOf == [k \in MCCallers |-> IF k = "neighbour" THEN "owner" ELSE k]

MCValues == ("origins" :> {"own", "other"}) @@ ("tokenRequired" :> {"yes", "no"})
            @@ ("excluded" :> {"nobody", "office"})
MCFirst == ("origins" :> "own") @@ ("tokenRequired" :> "yes") @@ ("excluded" :> "nobody")

Change(s, f) == [status |-> s, col |-> f]
MCEdits == {Change("same", <<>>), Change("active", <<>>), Change("disabled", <<>>), Change("same", "origins" :> "other"),
            Change("same", "tokenRequired" :> "no"), Change("same", "excluded" :> "office"),
            Change("disabled", ("origins" :> "other") @@ ("excluded" :> "office"))}

Sender(o, t, c, a) == [origin |-> o, token |-> t, claim |-> c, address |-> a]
MCSenders == {Sender("own", "missing", "none", "office"), Sender("other", "own", "other", "home"),
              Sender("none", "own", "own", "office"), Sender("none", "missing", "none", "home"),
              Sender("own", "own", "other", "home"), Sender("own", "another", "own", "home"),
              Sender("own", "expired", "own", "home"), Sender("own", "invalid", "none", "home")}

MCAdmits(origin, col) == origin = col["origins"]
MCExcludes(address, col) == address = col["excluded"]
MCUnsigned(col) == col["tokenRequired"] = "no"

MCSymmetry == Permutations(Calls)

(* The pure algorithms of the collector agree with their reference         *)
(* definitions on all inputs within the bounds: excluded addresses,        *)
(* grouping patterns, page keys and the ranges of reports.  They depend on *)
(* no variable, so any state will do.                                      *)
AlgorithmsAgree ==
  stop = "none" =>
    /\ ExclusionIsByPrefix
    /\ PatternsMatchWhatTheyStandFor
    /\ PageKeysHideIdentifiers
    /\ PresetsAreAccepted
=============================================================================
