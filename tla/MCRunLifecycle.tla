--------------------------- MODULE MCRunLifecycle ---------------------------
(* Model checking RunLifecycle. *)
EXTENDS RunLifecycle, TLC

MCRun == 1 .. 2
MCRetryMax == [t \in Task |-> 1]
MCRunBeyondBudget == 1 .. 3
MCRetryBeyondBudget == [t \in Task |-> 2]
MCNoPolicy == [t \in Task |-> 0]
MCRecordEvent == Timed \X Key
EngineSymmetry == Permutations(Engine)

(* A run is deferred, or does work, not both: a bound, on choices nobody    *)
(* owes.                                                                    *)
DeferredOrWorking ==
    \A e \in Engine, r \in Run :
        (job'[e][r].result = "deferred" \/ runs'[r].gen > 1) =>
            emitClaims' = {} /\ \A x \in Execution : record'[x] = NoRecord

(* Two executions meet over the keys of their events, and do nothing else:  *)
(* bounds on choices nobody owes (a trigger, a record, a missing            *)
(* prerequisite, an executor's answer, a cancel, a crash).                  *)
First == CHOOSE x \in Execution : TRUE

OnlyEmitting ==
    /\ faults = 0
    /\ \A x \in Execution : record[x] = NoRecord
    /\ \A r \in Run :
          /\ runs[r].gen <= 1 /\ runs[r].error # "cancelled"
          /\ runs[r].status = "queued" => runs[r].due
          /\ \A e \in Engine : job[e][r].result \in {"none", "ok", "permanent"}

OneWorksOrTwoEmit ==
    LET second == \A x \in Execution : executions[x].status # "absent"
    IN /\ \A x \in Execution : executions'[x].status # "absent" =>
             executions'[First].status # "absent"
       /\ second' => OnlyEmitting'
       /\ (second' /\ ~second) => \A r \in Run : ~runs[r].stale /\ runs[r].deadline # "passed"
=============================================================================
