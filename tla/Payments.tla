------------------------------ MODULE Payments ------------------------------
(***************************************************************************)
(* Prepaid purchases over the credit ledger (packages/engine,              *)
(* paddle-payments.ts and the inbox of paddle-webhooks.ts): one purchase   *)
(* of one account, the notifications Paddle sends about it and about the   *)
(* account's subscription, the web route that stores and tries each, and   *)
(* the engine's timer that retries the stored ones oldest first.           *)
(*                                                                         *)
(* An event is a record: kind "completed" (of a transaction), "adjustment" *)
(* (of an adjustment, with the status it reports), "subscribed" (a paid    *)
(* transaction of a subscription) or "subscription" (its metadata); at is  *)
(* occurred_at.                                                            *)
(***************************************************************************)
EXTENDS CreditLedger, SequencesExt

CONSTANTS
    Event,              \* what Paddle may send
    Scenario,           \* what comes in one life of the account: the events
                        \* Paddle sends, the reservations asked for
    Transaction,        \* the transaction Paddle makes for the purchase
    Adjustment,         \* refunds, credits and chargebacks of it
    Amount,             \* Amount[a]: minor units adjustment a gives back
    Total,              \* minor units paid
    Units,              \* credit units of the pack
    Nobody,             \* no transaction, no subscription
    Batch,              \* rows a retry pass reads (100 in the code)
    MaxDeaths           \* bound: engines that die within a pass

ASSUME PaymentsAssumption ==
    /\ Amount \in [Adjustment -> Nat \ {0}]
    /\ Total \in Nat
    /\ Units \in Nat \ {0}
    /\ Batch \in Nat \ {0}
    /\ \A e \in Event :
         /\ e.of # Nobody
         /\ e.kind = "adjustment" =>
              /\ e.of \in Adjustment /\ e.at \in Nat
              /\ e.status \in {"pending_approval", "approved", "rejected", "reversed"}
    /\ Scenario \subseteq [events : SUBSET Event, holds : SUBSET Reservation]
    /\ MaxDeaths \in Nat

VARIABLES
    scenario,           \* chosen once
    purchase,           \* the payment_purchases row
    call,               \* the request creating it: idle, or what Paddle answered
    transaction,        \* Paddle has a transaction for the purchase
    event,              \* event[e]: status of its inbox row, "absent" before
                        \* it; "waiting" is the code's received and pending
    queue,              \* the waiting rows by created_at
    adjustment,         \* adjustment[a]: its row
    owner,              \* the account's subscription
    pass,               \* rows the running retry pass has yet to visit
    deaths              \* engines that died within one

inboxVars == <<event, queue>>
moneyVars == <<ledger, purchase, adjustment>>
checkoutVars == <<call, transaction>>
vars == <<scenario, ledgerVars, inboxVars, purchase, adjustment, checkoutVars, owner, pass, deaths>>

AfterCredit == {"completed", "partially_refunded", "refunded"}

TypeOK ==
    /\ LedgerTypeOK
    /\ scenario \in Scenario
    /\ purchase \in [status : {"none", "creating", "pending", "failed"} \cup AfterCredit,
                     tx : {Nobody, Transaction} \cup {e.of : e \in Event},
                     credited : BOOLEAN, refunded : 0 .. Units]
    /\ call \in {"idle", "calling", "made", "lost"}
    /\ transaction \in BOOLEAN
    /\ event \in [Event -> {"absent", "waiting", "processed", "failed"}]
    /\ queue \in Seq(Event)
    /\ adjustment \in [Adjustment -> [status : {"none", "pending_approval", "approved", "rejected"},
                                      at : Nat]]
    /\ owner \in {Nobody} \cup {e.of : e \in Event}
    /\ pass \in Seq(Event)
    /\ deaths \in 0 .. MaxDeaths

PaymentsInit ==
    /\ scenario \in Scenario
    /\ purchase = [status |-> "none", tx |-> Nobody, credited |-> FALSE, refunded |-> 0]
    /\ call = "idle"
    /\ transaction = FALSE
    /\ event = [e \in Event |-> "absent"]
    /\ queue = << >>
    /\ adjustment = [a \in Adjustment |-> [status |-> "none", at |-> 0]]
    /\ owner = Nobody
    /\ pass = << >>
    /\ deaths = 0

Init == LedgerInit /\ PaymentsInit

-----------------------------------------------------------------------------
(* createPaddleCreditPurchase: the row, the request, the record of its     *)
(* outcome.  A repeated operation only returns the row, and a web process  *)
(* that dies here takes no further step.                                   *)
InsertPurchase ==
    /\ purchase.status = "none"
    /\ purchase' = [purchase EXCEPT !.status = "creating"]
    /\ call' = "calling"
    /\ UNCHANGED <<transaction, ledger, adjustment>>

PaddleAnswers ==
    /\ call = "calling"
    /\ \/ call' = "made" /\ transaction' = TRUE
       \/ call' = "lost" /\ transaction' \in BOOLEAN
    /\ UNCHANGED moneyVars

StillCreating == purchase.status = "creating"

(* If a notification was faster, the request ends with an error here. *)
RecordTransaction ==
    /\ call = "made"
    /\ call' = "idle"
    /\ purchase' = IF StillCreating
                   THEN [purchase EXCEPT !.status = "pending", !.tx = Transaction]
                   ELSE purchase
    /\ UNCHANGED <<transaction, ledger, adjustment>>

RecordFailure ==
    /\ call = "lost"
    /\ call' = "idle"
    /\ purchase' = IF StillCreating THEN [purchase EXCEPT !.status = "failed"] ELSE purchase
    /\ UNCHANGED <<transaction, ledger, adjustment>>

Checkout ==
    /\ InsertPurchase \/ PaddleAnswers \/ RecordTransaction \/ RecordFailure
    /\ UNCHANGED <<scenario, inboxVars, owner, pass, deaths, reservation, expiring>>

-----------------------------------------------------------------------------
(* Tests of processPaddleWebhookEvent, in its order of returns. *)
Terminal(e) == event[e] \in {"processed", "failed"}

(* processSubscriptionEvent throws: metadata before its payment, or a paid *)
(* subscription of an account that has another one.                        *)
Throws(e) ==
    /\ ~Terminal(e)
    /\ \/ e.kind = "subscription" /\ owner # e.of
       \/ e.kind = "subscribed" /\ owner \notin {Nobody, e.of}

Invalid(e) == e.kind = "adjustment" /\ e.status = "reversed"

(* What it is about is not there yet. *)
Premature(e) ==
    \/ e.kind = "completed" /\ purchase.status = "none"
    \/ e.kind = "adjustment" /\ ~(purchase.credited /\ purchase.status \in AfterCredit)

Foreign(e) == e.kind = "completed" /\ purchase.tx \notin {Nobody, e.of}

(* The adjustment's row has seen a later event. *)
Stale(e) == adjustment[e.of].status # "none" /\ adjustment[e.of].at > e.at

Contradicts(e) ==
    /\ adjustment[e.of].status \in {"approved", "rejected"}
    /\ e.status # adjustment[e.of].status

(* The event approves what was not approved before. *)
Approves(e) == e.status = "approved" /\ adjustment[e.of].status # "approved"

Approved == {a \in Adjustment : adjustment[a].status = "approved"}

(* Mutant: earlier adjustments are forgotten. *)
CumulativeAlone(e) == Amount[e.of]

Cumulative(e) == SumFunctionOnSet(Amount, Approved \cup {e.of})

(* proportionalRefundedUnits: the cumulative share, rounded up once. *)
ProportionalUnits(amount) ==
    IF amount >= Total THEN Units ELSE (amount * Units + Total - 1) \div Total

RefundTarget(e) == ProportionalUnits(Cumulative(e))

Exceeds(e) ==
    Approves(e) /\ (Cumulative(e) > Total \/ RefundTarget(e) < purchase.refunded)

(* An adjustment that can be looked at, and one that has an effect. *)
Timely(e) == e.kind = "adjustment" /\ ~Invalid(e) /\ ~Premature(e)
Applies(e) == Timely(e) /\ ~Stale(e) /\ ~Contradicts(e) /\ ~Exceeds(e)

Refused(e) ==
    \/ Invalid(e)
    \/ ~Premature(e) /\ Foreign(e)
    \/ Timely(e) /\ ~Stale(e) /\ (Contradicts(e) \/ Exceeds(e))

(* setEventStatus. *)
SetEventStatus(e, status) ==
    /\ event' = [event EXCEPT ![e] = status]
    /\ queue' = RemoveFirst(queue, e)

-----------------------------------------------------------------------------
(* processPaddleWebhookEvent and processAdjustmentEvent, one alternative   *)
(* per outcome; each is one transaction over the locked inbox row,         *)
(* purchase, adjustment and account.                                       *)
Repeat(e) == (Terminal(e) \/ Throws(e)) /\ UNCHANGED <<inboxVars, moneyVars, owner>>

Subscribe(e) ==
    /\ e.kind \in {"subscribed", "subscription"}
    /\ owner' = e.of
    /\ SetEventStatus(e, "processed")
    /\ UNCHANGED moneyVars

Refuse(e) ==
    /\ Refused(e)
    /\ SetEventStatus(e, "failed")
    /\ UNCHANGED <<moneyVars, owner>>

(* Mutants: an early event is failed, or not looked at again. *)
DeferFails(e) ==
    /\ ~Invalid(e) /\ Premature(e)
    /\ SetEventStatus(e, "failed")
    /\ UNCHANGED <<moneyVars, owner>>

DeferForgotten(e) ==
    /\ ~Invalid(e) /\ Premature(e)
    /\ queue' = RemoveFirst(queue, e)
    /\ UNCHANGED <<event, moneyVars, owner>>

Defer(e) ==
    /\ ~Invalid(e) /\ Premature(e)
    /\ UNCHANGED <<inboxVars, moneyVars, owner>>

(* Mutant: the key names the event, not the transaction. *)
PurchaseKeyOfEvent(e) == <<"purchase", e.of, e.at>>

PurchaseKey(e) == <<"purchase", e.of>>
RefundKey(a) == <<"refund", a>>

Credit(e) ==
    /\ e.kind = "completed" /\ ~Premature(e) /\ ~Foreign(e)
    /\ Enter(PurchaseKey(e), Units)
    /\ purchase' = [purchase EXCEPT !.tx = e.of, !.status = "completed", !.credited = TRUE]
    /\ SetEventStatus(e, "processed")
    /\ UNCHANGED <<adjustment, owner>>

Ignore(e) ==
    /\ Timely(e) /\ Stale(e)
    /\ SetEventStatus(e, "processed")
    /\ UNCHANGED <<moneyVars, owner>>

RecordAdjustment(e) ==
    adjustment' = [adjustment EXCEPT ![e.of] = [status |-> e.status, at |-> e.at]]

Note(e) ==
    /\ Applies(e) /\ ~Approves(e)
    /\ RecordAdjustment(e)
    /\ SetEventStatus(e, "processed")
    /\ UNCHANGED <<ledger, purchase, owner>>

DebitedUnits(e) == RefundTarget(e) - purchase.refunded

Debit(e) ==
    /\ Applies(e) /\ Approves(e)
    /\ IF DebitedUnits(e) > 0 THEN Enter(RefundKey(e.of), -DebitedUnits(e))
                              ELSE UNCHANGED ledger
    /\ RecordAdjustment(e)
    /\ purchase' = [purchase EXCEPT
         !.refunded = @ + DebitedUnits(e),
         !.status = IF RefundTarget(e) = Units THEN "refunded" ELSE "partially_refunded"]
    /\ SetEventStatus(e, "processed")
    /\ UNCHANGED owner

Process(e) ==
    /\ \/ Repeat(e)
       \/ /\ ~Terminal(e) /\ ~Throws(e)
          /\ \/ Subscribe(e) \/ Refuse(e) \/ Defer(e) \/ Credit(e)
             \/ Ignore(e) \/ Note(e) \/ Debit(e)
    /\ UNCHANGED <<scenario, checkoutVars, deaths, reservation, expiring>>

-----------------------------------------------------------------------------
(* Paddle tells of a purchase only once it has the transaction. *)
Sent(e) == e.kind \in {"completed", "adjustment"} => transaction

(* ingestPaddleWebhook; a repeated delivery finds its row. *)
Ingest(e) ==
    /\ event[e] = "absent" /\ Sent(e)
    /\ event' = [event EXCEPT ![e] = "waiting"]
    /\ queue' = Append(queue, e)
    /\ UNCHANGED <<scenario, ledgerVars, purchase, adjustment, checkoutVars, owner, pass, deaths>>

(* The second half of a delivery, the first or a repeated one; it may      *)
(* never come, if the web process dies in between.                         *)
RouteProcess(e) ==
    /\ event[e] # "absent"
    /\ Process(e)
    /\ UNCHANGED pass

(* processPendingPaddleWebhookEvents: the list ...  The timer does not     *)
(* wait for its last pass and every engine has one; what the passes beside *)
(* this one do to an event is what RouteProcess may do to it at any time.  *)
StartPass ==
    /\ pass = << >> /\ queue # << >>
    /\ pass' = SubSeq(queue, 1, IF Len(queue) < Batch THEN Len(queue) ELSE Batch)
    /\ UNCHANGED <<scenario, ledgerVars, inboxVars, purchase, adjustment, checkoutVars, owner, deaths>>

(* ... and one row of it.  An exception ends the pass. *)
PassProcess ==
    /\ pass # << >>
    /\ \E e \in Event :
         /\ e = Head(pass)
         /\ Process(e)
         /\ pass' = IF Throws(e) THEN << >> ELSE Tail(pass)

EngineDies ==
    /\ deaths < MaxDeaths
    /\ pass # << >>
    /\ pass' = << >>
    /\ deaths' = deaths + 1
    /\ UNCHANGED <<scenario, ledgerVars, inboxVars, purchase, adjustment, checkoutVars, owner>>

(* What else happens to the account's balance. *)
Spending ==
    /\ scenario.holds # {}
    /\ \/ \E r \in scenario.holds : ReservationNext(r)
       \/ \E k \in DOMAIN Movement : Adjust(k)
       \/ ListExpired
       \/ ExpiryDies
    /\ UNCHANGED <<scenario, purchase, adjustment, checkoutVars, inboxVars, owner, pass, deaths>>

Next ==
    \/ Checkout
    \/ \E e \in scenario.events : Ingest(e) \/ RouteProcess(e)
    \/ StartPass \/ PassProcess \/ EngineDies
    \/ Spending

Spec == Init /\ [][Next]_vars

(* The engine's timer ticks every two seconds and a pass goes on.  Neither *)
(* Paddle nor its repeated deliveries can be counted on.                   *)
FairSpec == Spec /\ WF_vars(StartPass) /\ WF_vars(PassProcess)

-----------------------------------------------------------------------------
(* A purchase puts its units on the ledger once, however many completion   *)
(* events of its transaction are processed, by whom, and whatever became   *)
(* of the request that created it.                                         *)
CreditedOnce ==
    SumOf({key \in DOMAIN ledger : key[1] = "purchase"}) = IF purchase.credited THEN Units ELSE 0

(* What was taken back is the cumulative share of what was approved,       *)
(* rounded up once ("several small adjustments cannot compound rounding"), *)
(* and the purchase and the ledger agree on it.                            *)
RefundExact ==
    /\ purchase.refunded = IF Approved = {} THEN 0
                           ELSE ProportionalUnits(SumFunctionOnSet(Amount, Approved))
    /\ purchase.refunded = -SumOf({RefundKey(a) : a \in Adjustment})

(* What Paddle tells of a purchase in one life fits together: it was paid,  *)
(* no adjustment is both approved and rejected, nothing told of an         *)
(* adjustment is later than its approval, no more is approved than paid.   *)
Coherent(life) ==
    LET completions == {e \in life.events : e.kind = "completed"}
        adjustments == {e \in life.events : e.kind = "adjustment" /\ e.status # "reversed"}
        approvals == {e \in adjustments : e.status = "approved"}
    IN /\ IsFiniteSet(life.events)
       /\ completions # {}
       /\ \A e \in completions : e.of = Transaction /\ e.status # "approved"
       /\ \A e \in approvals, x \in adjustments :
             x.of = e.of => x.status # "rejected" /\ x.at <= e.at
       /\ SumFunctionOnSet(Amount, {e.of : e \in approvals}) <= Total

AboutPurchase == {e \in scenario.events : e.kind \in {"completed", "adjustment"}}

(* Once everything Paddle sent about the purchase is through, what was     *)
(* credited and approved is what the events say, in whatever order they    *)
(* came ("arrival order never determines crediting").                      *)
OutcomeOfAll ==
    (\A e \in AboutPurchase : Terminal(e)) =>
      /\ purchase.credited
      /\ Approved = {e.of : e \in {x \in AboutPurchase : x.status = "approved"}}

(* A credited purchase never falls back: the request that created it may   *)
(* be slower than the notification and finds it no longer its own.         *)
CreditIsKept ==
    [][purchase.credited =>
         /\ purchase'.credited /\ purchase'.tx = purchase.tx
         /\ purchase'.status \in AfterCredit]_vars

Waiting(e) == event[e] = "waiting"
Ripe == {e \in Event : Waiting(e) /\ ~Premature(e)}
Jammed == (\E e \in Event : Waiting(e) /\ Throws(e)) \/ Len(queue) > Batch

(* The retry pass gets the stored events through once what they need is    *)
(* there, unless one of them throws or more than a batch is waiting.       *)
AppliedUnlessJammed == (Ripe # {}) ~> (Ripe = {} \/ Jammed)
=============================================================================
