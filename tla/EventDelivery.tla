---------------------------- MODULE EventDelivery ----------------------------
(***************************************************************************)
(* What the transactional outbox (packages/bus) promises the rest of       *)
(* Tabductor, with no dispatcher, batch, lock or retry in sight: an event  *)
(* is published once, and later it is either delivered to everybody or     *)
(* given up on.  Giving up on a domain event publishes, in the same step,  *)
(* one notice about it; nobody is notified about a notice.                 *)
(***************************************************************************)
EXTENDS Naturals, FiniteSets

CONSTANT Row            \* identities of outbox rows

VARIABLES
    fate,               \* fate[r]: where the event of row r is
    about               \* about[r]: 0, or the row a notice tells about

abstractVars == <<fate, about>>

AbsInit ==
    /\ fate = [r \in Row |-> "unpublished"]
    /\ about = [r \in Row |-> 0]

(* A producer's transaction commits one domain event. *)
AbsPublish(r) ==
    /\ fate[r] = "unpublished"
    /\ fate' = [fate EXCEPT ![r] = "pending"]
    /\ UNCHANGED about

(* One commit settles a set of pending rows: those delivered, and those   *)
(* given up on, each domain row among the latter with its own new notice. *)
AbsSettle(delivered, dead, notices) ==
    /\ delivered \cap dead = {}
    /\ \A r \in delivered \cup dead : fate[r] = "pending"
    /\ \A n \in notices : fate[n] = "unpublished"
    /\ fate' = [r \in Row |->
                  IF r \in delivered THEN "delivered"
                  ELSE IF r \in dead THEN "dead"
                  ELSE IF r \in notices THEN "pending" ELSE fate[r]]
    /\ \A r \in Row \ notices : about'[r] = about[r]
    /\ {about'[n] : n \in notices} = {r \in dead : about[r] = 0}
    /\ \A m, n \in notices : about'[m] = about'[n] => m = n
    /\ DOMAIN about' = Row

AbsNext ==
    \/ \E r \in Row : AbsPublish(r)
    \/ \E delivered, dead, notices \in SUBSET Row :
          AbsSettle(delivered, dead, notices)

AbsSpec == AbsInit /\ [][AbsNext]_abstractVars
=============================================================================
