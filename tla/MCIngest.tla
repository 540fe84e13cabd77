------------------------------ MODULE MCIngest ------------------------------
(***************************************************************************)
(* Ingest on small instances: two deliveries, whose batches may overlap,   *)
(* to two websites of one project.                                         *)
(***************************************************************************)
EXTENDS Ingest, TLC

CONSTANTS s1, s2, p1, view, landing, custom, rage

MCProjectOf == [s \in Sources |-> p1]

(* `landing` is a page view with campaign labels.                          *)
MCKindOf == [e \in Events |-> CASE e \in {view, landing} -> "view"
                                [] e = custom -> "custom"
                                [] e = rage -> "rage"]
MCLabelled == Events \cap {landing}

(* Deliveries are interchangeable.                                         *)
AnyOrder == Permutations(Requests)

=============================================================================
