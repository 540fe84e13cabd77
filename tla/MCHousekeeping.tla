---------------------------- MODULE MCHousekeeping ----------------------------
(***************************************************************************)
(* Housekeeping with views of one person on two websites, one of them of a *)
(* campaign, and pixel hits on two paths; and the reports on every small   *)
(* set of events.                                                          *)
(***************************************************************************)
EXTENDS Housekeeping, TLC

Event(k, w, p, l, x) == [kind |-> k, website |-> w, page |-> p, label |-> l, person |-> "ann", pixel |-> x]
MCTemplates == {Event("campaign", "w2", "/a", "x", FALSE),
                Event("view", "w1", "/a", "x", TRUE), Event("view", "w1", "/b", "x", TRUE)}

MCLabelRank == ("x" :> 1) @@ ("y" :> 2) @@ ("/a" :> 3) @@ ("/b" :> 4) @@ ("" :> 0) @@ ("w1" :> 6) @@ ("w2" :> 7)

Reported(k, w, at, p, l, v) ==
  [kind |-> k, website |-> w, at |-> at, page |-> p, label |-> l, visitor |-> v]
Views == {Reported("view", w, at, p, l, "ann") :
            w \in {"w1", "w2"}, at \in {1, 3}, p \in {"/a", "/b"}, l \in {"x"}}
         \cup {Reported("campaign", "w1", 2, "/a", "y", "bob"), Reported("campaign", "w1", 3, "/a", "x", "ann")}
Others == {Reported(k, "w1", 1, "/a", l, "ann") : k \in {"action", "rage", "custom"}, l \in {"x", "y"}}
          \cup {Reported("action", "w2", 0, "/b", "x", "bob"), Reported("action", "w1", 1, "/a", "x", "bob"),
                Reported("custom", "w1", 1, "", "x", "bob")}
MCSamples == UNION {{{a, b, c} : a \in S, b \in S, c \in S} : S \in {Views, Others}}
MCRanges == {<<0, 2>>, <<1, 3>>, <<1, 4>>}
MCPrincipals == {[role |-> "admin", website |-> "all"], [role |-> "owner", website |-> "all"],
                 [role |-> "analyst", website |-> "w1"]}

(* The figures of reports agree with each other (Reports) for up to three  *)
(* events.  They depend on no variable, so any state will do.              *)
FiguresAgree == sent = 0 => ReportsAddUp
=============================================================================
