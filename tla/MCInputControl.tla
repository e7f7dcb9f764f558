-------------------------- MODULE MCInputControl ---------------------------
(* Two runs with a tab each.  The second one is a bystander: connected     *)
(* before anything else happens, it perceives again and again, meets no    *)
(* challenge and does not end.  A browser that ended is left alone.        *)
EXTENDS InputControl

CONSTANTS a1, a2, t1, t2

MCTab == [a \in Agent |-> IF a = a1 THEN t1 ELSE t2]

Bystander ==
    /\ session.status # "ended"
    /\ session.kind = "execution" /\ conn[a2].pc \in {"off", "claimed"}
          => conn'[a2] # conn[a2]
    /\ conn[a2].pc = "idle" => conn'[a2].pc # "off"
    /\ conn'[a2].live /\ conn'[a2].pc # "challenged" /\ conn'[a2].method = "perceive"
    /\ conn'[a2].pc # conn[a2].pc => loose' = loose /\ late' = late
=============================================================================
