-------------------------- MODULE ExecutionAttempts --------------------------
(***************************************************************************)
(* What an execution looks like from outside the engine: a chain of        *)
(* attempts, one after the other, then an outcome, then a settled runtime. *)
(* There is no moment between a failed attempt and its retry at which the  *)
(* execution looks over, and nothing happens to it once it is settled.     *)
(***************************************************************************)
EXTENDS Naturals

CONSTANTS Execution, MaxRuns

VARIABLES
    stage,              \* stage[x]: none, live, or how the last attempt ended
    made,               \* made[x]: attempts made
    runtime             \* runtime[x]: none, or the settled outcome

abstractVars == <<stage, made, runtime>>

Ended == {"succeeded", "failed", "timed_out", "cancelled"}

AbsInit ==
    /\ stage = [x \in Execution |-> "none"]
    /\ made = [x \in Execution |-> 0]
    /\ runtime = [x \in Execution |-> "none"]

AbsBegin(x) ==
    /\ stage[x] = "none"
    /\ stage' = [stage EXCEPT ![x] = "live"]
    /\ made' = [made EXCEPT ![x] = 1]
    /\ UNCHANGED runtime

(* The live attempt fails and the next one replaces it. *)
AbsRetry(x) ==
    /\ stage[x] = "live"
    /\ made[x] < MaxRuns
    /\ made' = [made EXCEPT ![x] = @ + 1]
    /\ UNCHANGED <<stage, runtime>>

AbsEnd(x) ==
    /\ stage[x] = "live"
    /\ \E outcome \in Ended : stage' = [stage EXCEPT ![x] = outcome]
    /\ UNCHANGED <<made, runtime>>

(* The runtime is cancelled exactly when the last attempt was, and         *)
(* succeeds only if it did (records left unfinished make it fail).         *)
AbsSettle(x) ==
    /\ stage[x] \in Ended
    /\ runtime[x] = "none"
    /\ \E outcome \in {"succeeded", "failed", "cancelled"} :
          /\ outcome = "cancelled" <=> stage[x] = "cancelled"
          /\ outcome = "succeeded" => stage[x] = "succeeded"
          /\ runtime' = [runtime EXCEPT ![x] = outcome]
    /\ UNCHANGED <<stage, made>>

AbsNext ==
    \E x \in Execution : AbsBegin(x) \/ AbsRetry(x) \/ AbsEnd(x) \/ AbsSettle(x)

AbsSpec == AbsInit /\ [][AbsNext]_abstractVars
=============================================================================
