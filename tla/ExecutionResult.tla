--------------------------- MODULE ExecutionResult ---------------------------
(***************************************************************************)
(* What the finalizer promises: an execution whose runtime is over gets    *)
(* one final status, once, and a good one only for a good runtime, and no  *)
(* more than Limit questions are asked about it.                           *)
(***************************************************************************)
EXTENDS Naturals

CONSTANTS Execution, Limit

VARIABLES
    runtime,            \* runtime[x]: none, succeeded or failed
    final,              \* final[x]: running, or the status of the execution
    asked               \* asked[x]: paid calls of the model for x

abstractVars == <<runtime, final, asked>>

AbsInit ==
    /\ runtime = [x \in Execution |-> "none"]
    /\ final = [x \in Execution |-> "running"]
    /\ asked = [x \in Execution |-> 0]

AbsSettle(x) ==
    /\ runtime[x] = "none" /\ final[x] = "running"
    /\ \E outcome \in {"succeeded", "failed"} :
          runtime' = [runtime EXCEPT ![x] = outcome]
    /\ UNCHANGED <<final, asked>>

AbsAsk(x) ==
    /\ runtime[x] # "none" /\ asked[x] < Limit
    /\ asked' = [asked EXCEPT ![x] = @ + 1]
    /\ UNCHANGED <<runtime, final>>

AbsFinish(x) ==
    /\ final[x] = "running"
    /\ \/ runtime[x] # "none" /\ final' = [final EXCEPT ![x] = runtime[x]]
       \/ runtime[x] # "none" /\ final' = [final EXCEPT ![x] = "failed"]
       \/ final' = [final EXCEPT ![x] = "cancelled"]
    /\ UNCHANGED <<runtime, asked>>

AbsNext == \E x \in Execution : AbsSettle(x) \/ AbsAsk(x) \/ AbsFinish(x)

AbsSpec == AbsInit /\ [][AbsNext]_abstractVars
=============================================================================
