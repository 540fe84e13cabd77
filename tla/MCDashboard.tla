----------------------------- MODULE MCDashboard -----------------------------
(***************************************************************************)
(* A backend with two projects, one of which has a website and the other   *)
(* may get one, and with a project to come; another backend with a         *)
(* project.                                                                *)
(***************************************************************************)
EXTENDS Dashboard, TLC

CONSTANTS A, B, C, New, a1, b1, East, West

MCEnvironmentOf == (A :> East) @@ (B :> East) @@ (New :> East) @@ (C :> West)
MCProjectOf == (a1 :> A) @@ (b1 :> B)
=============================================================================
