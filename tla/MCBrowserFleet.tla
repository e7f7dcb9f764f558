-------------------------- MODULE MCBrowserFleet ---------------------------
(* Sessions of one account that want the same profile, with room for all.  *)
EXTENDS BrowserFleet

CONSTANTS p1, a1

MCProfile == [s \in Session |-> p1]
MCAccount == [s \in Session |-> a1]
MCLimit == [a \in Account |-> 2]
=============================================================================
