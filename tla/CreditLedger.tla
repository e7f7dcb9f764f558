---------------------------- MODULE CreditLedger ----------------------------
(***************************************************************************)
(* The prepaid balance of one account (packages/engine, credits.ts): an    *)
(* append-only table of signed movements and the reservations that hold    *)
(* money for an operation.  Every operation is one transaction under the   *)
(* account's advisory lock, hence one action; only the expiry batch reads  *)
(* its list before it takes the lock.                                      *)
(***************************************************************************)
EXTENDS Integers, Functions

CONSTANTS
    Reservation,        \* reservation rows, one per operation id
    Hold,               \* Hold[r]: the units operation r asks for
    Owned,              \* reservations another billing table refers to
    Movement            \* Movement[k]: units of an authorised movement k

ASSUME LedgerAssumption ==
    /\ Hold \in [Reservation -> Nat \ {0}]
    /\ Owned \subseteq Reservation
    /\ Movement \in [DOMAIN Movement -> Int \ {0}]

VARIABLES
    ledger,             \* idempotency key -> units of the entry it names
    reservation,        \* reservation[r]: the row, "none" before its insert
    expiring            \* rows some expiry batch has listed and not visited

ledgerVars == <<ledger, reservation, expiring>>

HoldKey(r) == <<"hold", r>>
SettlementKey(r) == <<"settlement", r>>
ReleaseKey(r) == <<"release", r>>
MovementKey(k) == <<"movement", k>>

Closed == {"settled", "released", "expired"}

LedgerTypeOK ==
    /\ \A key \in DOMAIN ledger : ledger[key] \in Int \ {0}
    /\ reservation \in [Reservation -> [status : {"none", "active"} \cup Closed,
                                        settled : Nat, lapsed : BOOLEAN]]
    /\ expiring \subseteq Reservation

LedgerInit ==
    /\ ledger = << >>
    /\ reservation = [r \in Reservation |->
                        [status |-> "none", settled |-> 0, lapsed |-> FALSE]]
    /\ expiring = {}

(* What the entries named by these keys come to. *)
SumOf(keys) == SumFunctionOnSet(ledger, keys \cap DOMAIN ledger)

(* availableUnits. *)
Available == SumOf(DOMAIN ledger)

(* appendCreditAdjustmentLocked: a key is entered once; a repetition finds *)
(* its earlier entry.                                                      *)
Enter(key, units) ==
    ledger' = [k \in DOMAIN ledger \cup {key} |->
                 IF k \in DOMAIN ledger THEN ledger[k] ELSE units]

-----------------------------------------------------------------------------
(* appendCreditAdjustment: coupons, welcome balance, metered overage. *)
Adjust(k) ==
    /\ Enter(MovementKey(k), Movement[k])
    /\ UNCHANGED <<reservation, expiring>>

(* Mutant: the balance is not looked at. *)
ReserveUnchecked(r) ==
    /\ reservation[r].status = "none"
    /\ reservation' = [reservation EXCEPT ![r].status = "active"]
    /\ Enter(HoldKey(r), -Hold[r])
    /\ UNCHANGED expiring

(* reserveCredits.  A repetition returns the row; too little money throws. *)
Reserve(r) ==
    /\ reservation[r].status = "none"
    /\ Available >= Hold[r]
    /\ reservation' = [reservation EXCEPT ![r].status = "active"]
    /\ Enter(HoldKey(r), -Hold[r])
    /\ UNCHANGED expiring

(* settleCreditReservation: what was not used goes back. *)
Settle(r, used) ==
    /\ reservation[r].status = "active"
    /\ used \in 0 .. Hold[r]
    /\ reservation' = [reservation EXCEPT ![r].status = "settled", ![r].settled = used]
    /\ IF used < Hold[r] THEN Enter(SettlementKey(r), Hold[r] - used)
                         ELSE UNCHANGED ledger
    /\ UNCHANGED expiring

(* Mutant: the row is not read again under the lock. *)
MayCloseAny(r) == reservation[r].status # "none"

(* closeCreditReservation: all of it goes back. *)
MayClose(r) == reservation[r].status = "active"

Close(r, status) ==
    /\ reservation' = [reservation EXCEPT ![r].status = status]
    /\ Enter(ReleaseKey(r), Hold[r])

Release(r) ==
    /\ MayClose(r)
    /\ Close(r, "released")
    /\ UNCHANGED expiring

(* expires_at passes. *)
Lapse(r) ==
    /\ reservation[r].status # "none"
    /\ ~reservation[r].lapsed
    /\ reservation' = [reservation EXCEPT ![r].lapsed = TRUE]
    /\ UNCHANGED <<ledger, expiring>>

(* expireCreditReservations reads its batch; batches of several callers are *)
(* one set, as a row visited twice is closed once.                          *)
ListExpired ==
    /\ expiring' = expiring \cup
         {r \in Reservation \ Owned : reservation[r].status = "active" /\ reservation[r].lapsed}
    /\ UNCHANGED <<ledger, reservation>>

(* ... and visits one row of it; a row closed meanwhile is skipped. *)
VisitExpired(r) ==
    /\ r \in expiring
    /\ expiring' = expiring \ {r}
    /\ IF MayClose(r) THEN Close(r, "expired") ELSE UNCHANGED <<ledger, reservation>>

(* The caller of the batch dies. *)
ExpiryDies ==
    /\ expiring # {}
    /\ expiring' = {}
    /\ UNCHANGED <<ledger, reservation>>

ReservationNext(r) ==
    \/ Reserve(r)
    \/ \E used \in 0 .. Hold[r] : Settle(r, used)
    \/ Release(r)
    \/ Lapse(r)
    \/ VisitExpired(r)

-----------------------------------------------------------------------------
(* What a reservation costs in the end is what was settled: its hold and   *)
(* what came back of it add up to minus the hold while it is active, minus *)
(* the settled units once settled, and nothing once released or expired,   *)
(* whatever a settlement, a release and the expiry batch raced for.        *)
HoldsAccounted ==
    \A r \in Reservation :
      SumOf({HoldKey(r), SettlementKey(r), ReleaseKey(r)}) =
        CASE reservation[r].status = "active" -> -Hold[r]
          [] reservation[r].status = "settled" -> -reservation[r].settled
          [] OTHER -> 0

(* Entries that may take the balance below zero: money given back to the   *)
(* payer, and overage, which is charged after the fact.                    *)
Unconditional == {key \in DOMAIN ledger : ledger[key] < 0 /\ key[1] # "hold"}

(* "Serializes spend admission per account so concurrent operations cannot *)
(* overspend" (reserveCredits): reservations alone never make the balance  *)
(* negative; only refunds and overage can.                                 *)
NoOverspend == Available - SumOf(Unconditional) >= 0

(* A reservation that was closed stays closed, in the way it was. *)
CloseIsFinal ==
    [][\A r \in Reservation : reservation[r].status \in Closed =>
         /\ reservation'[r].status = reservation[r].status
         /\ reservation'[r].settled = reservation[r].settled]_ledgerVars
=============================================================================
