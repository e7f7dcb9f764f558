----------------------------- MODULE Finalizer ------------------------------
(***************************************************************************)
(* The result phase of an execution (packages/agent, workflow-finalizer):  *)
(* a worker in each engine process claims an execution whose runtime is    *)
(* over, asks a model for the result, and writes it if its claim is still  *)
(* the current one.  A claim older than two minutes may be taken over;     *)
(* finalization_attempts is the fencing token.                             *)
(***************************************************************************)
EXTENDS Naturals

CONSTANTS
    Worker,             \* one finalizer loop per engine process
    Execution,
    Nobody,             \* a worker with no job
    Limit,              \* claims that may call the model (3 in the code)
    MaxFaults           \* bound: crashes, and stalls of two minutes

ASSUME FinalizerAssumption ==
    /\ Limit \in Nat \ {0}
    /\ MaxFaults \in Nat
    /\ Nobody \notin Execution

(* Every claim after the first follows a failed try or a fault. *)
MaxAttempts == Limit + MaxFaults

VARIABLES
    execution,          \* execution[x]: the finalization columns of the row
    claim,              \* claim[w]: the job w claimed, as read then
    calls,              \* calls[x]: model calls made for x
    faults

vars == <<execution, claim, calls, faults>>

Row == [status : {"running", "succeeded", "failed", "cancelled"},
        runtime : {"none", "succeeded", "failed"},
        finalization : {"pending", "running", "succeeded", "failed", "skipped"},
        attempts : 0 .. MaxAttempts,
        old : BOOLEAN,
        result : 0 .. MaxAttempts]

NoClaim == [job |-> Nobody, attempts |-> 0, runtime |-> "none", called |-> FALSE]

TypeOK ==
    /\ execution \in [Execution -> Row]
    /\ claim \in [Worker -> [job : Execution \cup {Nobody}, attempts : 0 .. MaxAttempts,
                             runtime : {"none", "succeeded", "failed"}, called : BOOLEAN]]
    /\ calls \in [Execution -> Nat]
    /\ faults \in 0 .. MaxFaults

Init ==
    /\ execution = [x \in Execution |->
                      [status |-> "running", runtime |-> "none",
                       finalization |-> "pending", attempts |-> 0,
                       old |-> FALSE, result |-> 0]]
    /\ claim = [w \in Worker |-> NoClaim]
    /\ calls = [x \in Execution |-> 0]
    /\ faults = 0

-----------------------------------------------------------------------------
(* settleWorkflowExecutions, as the finalizer sees it. *)
RuntimeSettles(x, outcome) ==
    /\ execution[x].status = "running"
    /\ execution[x].runtime = "none"
    /\ execution' = IF outcome = "cancelled"
                    THEN [execution EXCEPT ![x].status = "cancelled",
                                           ![x].finalization = "skipped"]
                    ELSE [execution EXCEPT ![x].runtime = outcome]
    /\ UNCHANGED <<claim, calls, faults>>

(* Deleting the workflow cancels its running executions, at any moment.    *)
CancelForDeletion(x) ==
    /\ execution[x].status = "running"
    /\ execution' = [execution EXCEPT ![x].status = "cancelled"]
    /\ UNCHANGED <<claim, calls, faults>>

(* Mutant: a claim is never taken over. *)
ClaimablePending(x) ==
    /\ execution[x].status = "running"
    /\ execution[x].runtime # "none"
    /\ execution[x].finalization = "pending"

Claimable(x) ==
    /\ execution[x].status = "running"
    /\ execution[x].runtime # "none"
    /\ \/ execution[x].finalization = "pending"
       \/ execution[x].finalization = "running" /\ execution[x].old

Claim(w, x) ==
    /\ claim[w] = NoClaim
    /\ Claimable(x)
    /\ execution' = [execution EXCEPT ![x].finalization = "running",
                                      ![x].attempts = @ + 1,
                                      ![x].old = FALSE]
    /\ claim' = [claim EXCEPT ![w] = [job |-> x, attempts |-> execution[x].attempts + 1,
                                      runtime |-> execution[x].runtime, called |-> FALSE]]
    /\ UNCHANGED <<calls, faults>>

MayCall(w) == ~(claim[w].attempts > Limit)

(* Past the limit the job throws before it reaches the model. *)
CallModel(w) ==
    /\ claim[w] # NoClaim
    /\ ~claim[w].called
    /\ MayCall(w)
    /\ calls' = [calls EXCEPT ![claim[w].job] = @ + 1]
    /\ claim' = [claim EXCEPT ![w].called = TRUE]
    /\ UNCHANGED <<execution, faults>>

(* Mutants: the write is not fenced by the claim, or by the status. *)
OwnedByAnyClaim(w) ==
    LET x == claim[w].job IN
    execution[x].status = "running" /\ execution[x].finalization = "running"
OwnedByClaimOnly(w) ==
    LET x == claim[w].job IN
    execution[x].finalization = "running" /\ execution[x].attempts = claim[w].attempts

Owned(w) ==
    LET x == claim[w].job IN
    /\ execution[x].status = "running"
    /\ execution[x].finalization = "running"
    /\ execution[x].attempts = claim[w].attempts

FinalStatus(w) == claim[w].runtime

(* The answer parses: written if the claim is still ours, else dropped. *)
Succeed(w) ==
    LET x == claim[w].job IN
    /\ claim[w].called
    /\ execution' = IF Owned(w)
                    THEN [execution EXCEPT ![x].finalization = "succeeded",
                                           ![x].status = FinalStatus(w),
                                           ![x].result = claim[w].attempts]
                    ELSE execution
    /\ claim' = [claim EXCEPT ![w] = NoClaim]
    /\ UNCHANGED <<calls, faults>>

Exhausted(w) == claim[w].attempts >= Limit

(* Anything thrown: back to pending, or failed once the limit is reached.  *)
Fail(w) ==
    LET x == claim[w].job
        exhausted == Exhausted(w)
    IN /\ claim[w] # NoClaim
       /\ execution' = IF Owned(w)
                       THEN [execution EXCEPT
                               ![x].finalization = IF exhausted THEN "failed" ELSE "pending",
                               ![x].status = IF exhausted THEN "failed" ELSE @]
                       ELSE execution
       /\ claim' = [claim EXCEPT ![w] = NoClaim]
       /\ UNCHANGED <<calls, faults>>

Crash(w) ==
    /\ faults < MaxFaults
    /\ claim[w] # NoClaim
    /\ claim' = [claim EXCEPT ![w] = NoClaim]
    /\ faults' = faults + 1
    /\ UNCHANGED <<execution, calls>>

(* Two minutes pass since finalization_claimed_at.  A job is over in one   *)
(* minute unless its process died or stalled, and a stall is a fault.      *)
Alive(x) == \E w \in Worker : /\ claim[w].job = x
                              /\ claim[w].attempts = execution[x].attempts

ClaimAges(x) ==
    /\ execution[x].finalization = "running"
    /\ ~execution[x].old
    /\ \/ ~Alive(x) /\ UNCHANGED faults
       \/ Alive(x) /\ faults < MaxFaults /\ faults' = faults + 1
    /\ execution' = [execution EXCEPT ![x].old = TRUE]
    /\ UNCHANGED <<claim, calls>>

Next ==
    \/ \E x \in Execution :
          \/ \E outcome \in {"succeeded", "failed", "cancelled"} : RuntimeSettles(x, outcome)
          \/ CancelForDeletion(x)
          \/ ClaimAges(x)
    \/ \E w \in Worker :
          \/ \E x \in Execution : Claim(w, x)
          \/ CallModel(w) \/ Succeed(w) \/ Fail(w) \/ Crash(w)

(* The one-second interval keeps claiming; a model call is cut off after   *)
(* sixty seconds, so a claimed job always ends one way or the other.       *)
Fairness ==
    /\ \A x \in Execution : WF_vars(ClaimAges(x))
    /\ \A w \in Worker : /\ WF_vars(\E x \in Execution : Claim(w, x))
                         /\ WF_vars(Succeed(w) \/ Fail(w))

Spec == Init /\ [][Next]_vars
FairSpec == Spec /\ Fairness

-----------------------------------------------------------------------------
(* The result on the row is the one of the last claim: a worker that was   *)
(* taken over, or slow, never overwrites the worker that replaced it.      *)
ResultOfLastClaim ==
    \A x \in Execution : execution[x].finalization = "succeeded" =>
        execution[x].result = execution[x].attempts

(* Every execution whose runtime is over ends. *)
SettledEnds ==
    \A x \in Execution : (execution[x].runtime # "none") ~> (execution[x].status # "running")

(* The workers implement ExecutionResult; so an ended execution is never   *)
(* reopened or relabelled, by a late answer after a cancel either, and no  *)
(* takeover buys a call of the model beyond the limit.                     *)
Result == INSTANCE ExecutionResult
            WITH runtime <- [x \in Execution |-> execution[x].runtime],
                 final <- [x \in Execution |-> execution[x].status],
                 asked <- calls

ImplementsResult == Result!AbsSpec
=============================================================================
