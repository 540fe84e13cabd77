--------------------------- MODULE MCBrowserQueue ---------------------------
(***************************************************************************)
(* BrowserQueue with a page view, a custom event and an action, of which a *)
(* backend may not know the action.                                        *)
(***************************************************************************)
EXTENDS BrowserQueue, TLC

CONSTANTS view, custom, click

MCClassOf == [e \in Events |-> IF e = click THEN "action" ELSE "plain"]
=============================================================================
