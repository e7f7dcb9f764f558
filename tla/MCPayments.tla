----------------------------- MODULE MCPayments -----------------------------
(* Model checking Payments: lives of one account, each a few events. *)
EXTENDS Payments

CONSTANTS r1, r2, a1, a2, tx, s1, s2

Notice(kind, of, status, at) == [kind |-> kind, of |-> of, status |-> status, at |-> at]

Completed == Notice("completed", tx, "completed", 1)
CompletedAgain == Notice("completed", tx, "completed", 2)
Asked == Notice("adjustment", a1, "pending_approval", 1)
Agreed == Notice("adjustment", a1, "approved", 2)
Reversed == Notice("adjustment", a1, "reversed", 3)
Chargeback == Notice("adjustment", a2, "approved", 1)
Declined == Notice("adjustment", a2, "rejected", 1)
Subscribed == Notice("subscribed", s1, "completed", 1)
SubscribedTwice == Notice("subscribed", s2, "completed", 1)
Metadata == Notice("subscription", s1, "active", 1)

MCEvent == {Completed, CompletedAgain, Asked, Agreed, Reversed, Chargeback,
            Declined, Subscribed, SubscribedTwice, Metadata}

(* Two refunds of a purchase whose completion is told twice; one refund    *)
(* that is reversed and one that is declined; a subscription whose         *)
(* metadata overtakes its payment and a second one paid for; a refund      *)
(* while two operations hold money.                                        *)
MCScenario ==
    {[events |-> {Completed, CompletedAgain, Asked, Agreed, Chargeback}, holds |-> {}],
     [events |-> {Completed, Asked, Agreed, Reversed, Declined}, holds |-> {}],
     [events |-> {Completed, Chargeback, Subscribed, SubscribedTwice, Metadata}, holds |-> {}],
     [events |-> {Completed, Chargeback}, holds |-> {r1, r2}]}

(* 1 of 3 paid gives 5/3 units: rounding each adjustment would take 2 + 4. *)
MCAmount == (a1 :> 1) @@ (a2 :> 2)
(* Either hold fits into 5 units, both do not. *)
MCHold == (r1 :> 3) @@ (r2 :> 3)
MCMovement == [k \in {"overage"} |-> -2]

(* Every life chosen here is one OutcomeOfAll speaks of. *)
ASSUME ScenariosCoherent == \A life \in Scenario : Coherent(life)
=============================================================================
