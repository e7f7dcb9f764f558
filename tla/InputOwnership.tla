--------------------------- MODULE InputOwnership ----------------------------
(***************************************************************************)
(* What browser session control promises: whoever's turn it is, the other  *)
(* one gets the browser only after it belonged to nobody.                  *)
(***************************************************************************)

VARIABLE turn           \* who can have an effect on the page

AbsInit == turn \in {"ai", "nobody"}

Grant == turn = "nobody" /\ turn' \in {"ai", "human"}

Revoke == turn # "nobody" /\ turn' = "nobody"

AbsSpec == AbsInit /\ [][Grant \/ Revoke]_turn
=============================================================================
