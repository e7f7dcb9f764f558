-------------------------- MODULE FinalizerProofs ---------------------------
(***************************************************************************)
(* The finalizer's promises for any number of workers and executions, any  *)
(* limit and any number of faults.                                         *)
(***************************************************************************)
EXTENDS Finalizer, FiniteSetTheorems, TLAPS

Job == [job : Execution \cup {Nobody}, attempts : 0 .. MaxAttempts,
        runtime : {"none", "succeeded", "failed"}, called : BOOLEAN]

Held(x) == {w \in Worker : claim[w].job = x}

-----------------------------------------------------------------------------
(* Why the attempts are bounded: within the limit by tries that failed,    *)
(* beyond it only by a fault for every takeover.                           *)
AttemptsLeft ==
    \A x \in Execution :
       /\ execution[x].attempts <= Limit + faults
       /\ execution[x].status = "running" =>
             /\ execution[x].finalization = "pending" => execution[x].attempts < Limit
             /\ execution[x].finalization = "running" /\ (execution[x].old \/ ~Alive(x)) =>
                   execution[x].attempts < Limit + faults

(* A claim is a number handed out once, to one worker, after the runtime.  *)
ClaimsDiffer ==
    \A v, w \in Worker :
       /\ claim[v] = NoClaim \/ claim[v].job \in Execution
       /\ v # w /\ claim[v].job = claim[w].job /\ claim[v].job \in Execution =>
             claim[v].attempts # claim[w].attempts

ClaimsAreOld ==
    \A x \in Execution : \A w \in Held(x) :
       /\ claim[w].attempts \in 1 .. execution[x].attempts
       /\ claim[w].runtime = execution[x].runtime
       /\ execution[x].runtime # "none"

(* The claims that may still buy a call of the model. *)
Pending(x) == {k \in 1 .. Limit :
                 \E w \in Held(x) : claim[w].attempts = k /\ ~claim[w].called}

Claimed(x) == IF execution[x].attempts <= Limit THEN execution[x].attempts ELSE Limit

CallsAccounted ==
    \A x \in Execution : calls[x] + Cardinality(Pending(x)) <= Claimed(x)

IInv == TypeOK /\ AttemptsLeft /\ ClaimsDiffer /\ ClaimsAreOld

-----------------------------------------------------------------------------
LEMMA Numbers ==
    /\ Limit \in Nat /\ Limit > 0 /\ MaxFaults \in Nat
    /\ MaxAttempts \in Nat /\ MaxAttempts = Limit + MaxFaults
BY FinalizerAssumption DEF MaxAttempts

LEMMA Rows ==
    ASSUME TypeOK, NEW x \in Execution
    PROVE  /\ execution[x] \in Row
           /\ execution[x].attempts \in 0 .. MaxAttempts
           /\ execution[x].attempts \in Nat
           /\ calls[x] \in Nat
BY Numbers DEF TypeOK, Row

LEMMA Claims ==
    ASSUME TypeOK, NEW w \in Worker
    PROVE  /\ claim[w] \in Job
           /\ claim[w].attempts \in Nat
           /\ claim[w].job \in Execution \cup {Nobody}
BY Numbers DEF TypeOK, Job

LEMMA NoClaimIsNobodys ==
    ASSUME NEW w \in Worker, claim[w] = NoClaim
    PROVE  claim[w].job \notin Execution
BY FinalizerAssumption DEF NoClaim

-----------------------------------------------------------------------------
(* The two ways to let go of a job: with an answer or an error, when the   *)
(* row changes only if the claim is still current, and by dying.           *)
Answers(w) == Succeed(w) \/ Fail(w)

LEMMA AnswersEffect ==
    ASSUME IInv, NEW w \in Worker, Answers(w)
    PROVE  /\ claim[w].job \in Execution
           /\ claim' = [claim EXCEPT ![w] = NoClaim]
           /\ UNCHANGED <<calls, faults>>
           /\ execution' \in [Execution -> Row]
           /\ \A y \in Execution :
                 /\ execution'[y].attempts = execution[y].attempts
                 /\ execution'[y].runtime = execution[y].runtime
                 /\ execution'[y].old = execution[y].old
                 /\ y # claim[w].job \/ ~Owned(w) => execution'[y] = execution[y]
           /\ Owned(w) =>
                 LET y == execution'[claim[w].job] IN
                 \/ /\ y.finalization = "succeeded"
                    /\ y.status = claim[w].runtime
                    /\ y.result = claim[w].attempts
                 \/ y.finalization = "failed" /\ y.status = "failed"
                 \/ /\ y.finalization = "pending" /\ y.status = "running"
                    /\ y.attempts < Limit
<1> DEFINE x == claim[w].job
<1>1. claim[w] # NoClaim
  BY DEF Answers, Succeed, Fail, NoClaim
<1>2. x \in Execution
  BY <1>1 DEF IInv, ClaimsDiffer
<1>3. TypeOK /\ claim[w].attempts \in 0 .. MaxAttempts
  BY Claims DEF IInv, Job
<1>4. claim[w].runtime \in {"succeeded", "failed"}
  BY <1>2, <1>3, Rows, Claims DEF IInv, ClaimsAreOld, Held, Job, Row
<1>5. claim' = [claim EXCEPT ![w] = NoClaim] /\ UNCHANGED <<calls, faults>>
  BY DEF Answers, Succeed, Fail
<1>6. CASE ~Owned(w)
  <2>1. execution' = execution
    BY <1>6 DEF Answers, Succeed, Fail
  <2>2. QED
    BY <1>2, <1>3, <1>5, <1>6, <2>1 DEF TypeOK
<1>7. CASE Owned(w) /\ Succeed(w)
  <2>1. execution' = [execution EXCEPT ![x].finalization = "succeeded",
                                       ![x].status = claim[w].runtime,
                                       ![x].result = claim[w].attempts]
    BY <1>7 DEF Succeed, FinalStatus
  <2>2. execution' \in [Execution -> Row]
    BY <1>2, <1>3, <1>4, <2>1 DEF TypeOK, Row
  <2>3. execution \in [Execution -> Row]
    BY <1>3 DEF TypeOK
  <2>4. /\ execution'[x].finalization = "succeeded"
        /\ execution'[x].status = claim[w].runtime
        /\ execution'[x].result = claim[w].attempts
    BY <1>2, <2>1, <2>3 DEF Row
  <2>5. \A y \in Execution :
           /\ execution'[y].attempts = execution[y].attempts
           /\ execution'[y].runtime = execution[y].runtime
           /\ execution'[y].old = execution[y].old
           /\ y # x => execution'[y] = execution[y]
    BY <1>2, <2>1, <2>3 DEF Row
  <2>6. QED
    BY <1>2, <1>5, <1>7, <2>2, <2>4, <2>5
<1>8. CASE Owned(w) /\ Fail(w) /\ Exhausted(w)
  <2>1. execution' = [execution EXCEPT ![x].finalization = "failed",
                                       ![x].status = "failed"]
    BY <1>8 DEF Fail
  <2>2. QED
    BY <1>2, <1>3, <1>5, <1>8, <2>1 DEF TypeOK, Row
<1>9. CASE Owned(w) /\ Fail(w) /\ ~Exhausted(w)
  <2>1. execution' = [execution EXCEPT ![x].finalization = "pending",
                                       ![x].status = execution[x].status]
    BY <1>9 DEF Fail
  <2>2. execution[x].attempts < Limit /\ execution[x].status = "running"
    BY <1>2, <1>3, <1>9, Numbers, Rows, Claims DEF Owned, Exhausted
  <2>3. QED
    BY <1>2, <1>3, <1>5, <1>9, <2>1, <2>2 DEF TypeOK, Row
<1>10. QED
  BY <1>6, <1>7, <1>8, <1>9 DEF Answers

LEMMA ClaimEffect ==
    ASSUME IInv, NEW w \in Worker, NEW x \in Execution, Claim(w, x)
    PROVE  /\ UNCHANGED <<calls, faults>>
           /\ claim[w].job \notin Execution
           /\ claim' \in [Worker -> Job]
           /\ \A v \in Worker \ {w} : claim'[v] = claim[v]
           /\ claim'[w].job = x /\ ~claim'[w].called
           /\ claim'[w].attempts = execution[x].attempts + 1
           /\ claim'[w].runtime = execution[x].runtime
           /\ execution' \in [Execution -> Row]
           /\ \A y \in Execution \ {x} : execution'[y] = execution[y]
           /\ execution[x].runtime # "none"
           /\ execution[x].status = "running"
           /\ execution[x].attempts < Limit + faults
           /\ execution'[x].finalization = "running"
           /\ execution'[x].attempts = execution[x].attempts + 1
           /\ ~execution'[x].old
           /\ execution'[x].runtime = execution[x].runtime
           /\ execution'[x].status = execution[x].status
<1>1. claim[w].job \notin Execution
  BY NoClaimIsNobodys DEF Claim
<1>2. execution[x].runtime # "none" /\ execution[x].status = "running"
  BY DEF Claim, Claimable
<1>3. faults \in 0 .. MaxFaults
  BY DEF IInv, TypeOK
<1>4. execution[x].attempts < Limit + faults
  BY <1>3, Numbers, Rows DEF IInv, AttemptsLeft, Claim, Claimable
<1>5. execution[x].attempts + 1 \in 0 .. MaxAttempts
  BY <1>3, <1>4, Numbers, Rows DEF IInv
<1>6. execution[x] \in Row /\ execution \in [Execution -> Row]
  BY DEF IInv, TypeOK
<1>7. [execution[x] EXCEPT !.finalization = "running",
                           !.attempts = execution[x].attempts + 1,
                           !.old = FALSE] \in Row
  BY <1>5, <1>6 DEF Row
<1>8. execution' = [execution EXCEPT
                      ![x] = [execution[x] EXCEPT !.finalization = "running",
                                                  !.attempts = execution[x].attempts + 1,
                                                  !.old = FALSE]]
  BY <1>6 DEF Claim
<1>9. [job |-> x, attempts |-> execution[x].attempts + 1,
       runtime |-> execution[x].runtime, called |-> FALSE] \in Job
  BY <1>5, <1>6 DEF Job, Row
<1>10. claim \in [Worker -> Job]
  BY DEF IInv, TypeOK, Job
<1>11. claim' \in [Worker -> Job] /\ \A v \in Worker \ {w} : claim'[v] = claim[v]
  BY <1>9, <1>10 DEF Claim
<1>12. claim'[w] = [job |-> x, attempts |-> execution[x].attempts + 1,
                    runtime |-> execution[x].runtime, called |-> FALSE]
  BY <1>10 DEF Claim
<1>13. execution' \in [Execution -> Row] /\ \A y \in Execution \ {x} : execution'[y] = execution[y]
  BY <1>6, <1>7, <1>8
<1>14. execution'[x] = [execution[x] EXCEPT !.finalization = "running",
                                            !.attempts = execution[x].attempts + 1,
                                            !.old = FALSE]
  BY <1>6, <1>8
<1>15. UNCHANGED <<calls, faults>>
  BY DEF Claim
<1>16. QED
  BY <1>1, <1>2, <1>4, <1>6, <1>11, <1>12, <1>13, <1>14, <1>15 DEF Row

(* Steps that touch one row, in what no claim is compared with. *)
RowStep(x) ==
    \/ \E outcome \in {"succeeded", "failed", "cancelled"} : RuntimeSettles(x, outcome)
    \/ CancelForDeletion(x)
    \/ ClaimAges(x)

LEMMA RowStepEffect ==
    ASSUME IInv, NEW x \in Execution, RowStep(x)
    PROVE  /\ UNCHANGED <<claim, calls>>
           /\ execution' \in [Execution -> Row]
           /\ \A y \in Execution \ {x} : execution'[y] = execution[y]
           /\ execution'[x].attempts = execution[x].attempts
           /\ execution'[x].result = execution[x].result
           /\ faults' \in 0 .. MaxFaults
           /\ execution[x].runtime # "none" =>
                 execution'[x].runtime = execution[x].runtime
           /\ execution'[x].finalization \in {execution[x].finalization, "skipped"}
           /\ execution'[x].status = "running" =>
                 /\ execution[x].status = "running"
                 /\ execution'[x].finalization = execution[x].finalization
           /\ \/ execution'[x].old = execution[x].old /\ faults' = faults
              \/ ~Alive(x) /\ faults' = faults
              \/ faults' = faults + 1
<1>1. TypeOK /\ execution[x] \in Row /\ execution \in [Execution -> Row]
  BY DEF IInv, TypeOK
<1>2. ASSUME NEW outcome \in {"succeeded", "failed"},
             execution' = [execution EXCEPT ![x].runtime = outcome]
      PROVE  execution' \in [Execution -> Row]
  BY <1>1, <1>2 DEF Row
<1>3. ASSUME NEW outcome \in {"succeeded", "failed"}, RuntimeSettles(x, outcome)
      PROVE  /\ execution' = [execution EXCEPT ![x].runtime = outcome]
             /\ execution[x].runtime = "none"
             /\ UNCHANGED <<claim, calls, faults>>
  BY <1>3 DEF RuntimeSettles
<1>4. CASE \E outcome \in {"succeeded", "failed"} : RuntimeSettles(x, outcome)
  <2>1. PICK outcome \in {"succeeded", "failed"} : RuntimeSettles(x, outcome)
    BY <1>4
  <2>2. faults \in 0 .. MaxFaults
    BY <1>1 DEF TypeOK
  <2>3. execution' \in [Execution -> Row]
    BY <1>2, <1>3, <2>1
  <2>4. execution'[x] = [execution[x] EXCEPT !.runtime = outcome]
    BY <1>1, <1>3, <2>1
  <2>5. \A y \in Execution \ {x} : execution'[y] = execution[y]
    BY <1>1, <1>3, <2>1
  <2>6. QED
    BY <1>1, <1>3, <2>1, <2>2, <2>3, <2>4, <2>5 DEF Row
<1>5. CASE RuntimeSettles(x, "cancelled")
  BY <1>1, <1>5 DEF RuntimeSettles, Row, TypeOK
<1>6. CASE CancelForDeletion(x)
  BY <1>1, <1>6 DEF CancelForDeletion, Row, TypeOK
<1>7. CASE ClaimAges(x)
  <2>1. execution'[x] = [execution[x] EXCEPT !.old = TRUE]
    BY <1>1, <1>7 DEF ClaimAges
  <2>2. faults' \in 0 .. MaxFaults
    BY <1>1, <1>7, Numbers DEF ClaimAges, TypeOK
  <2>3. [execution[x] EXCEPT !.old = TRUE] \in Row
    BY <1>1 DEF Row
  <2>4. execution' \in [Execution -> Row]
        /\ \A y \in Execution \ {x} : execution'[y] = execution[y]
    BY <1>1, <1>7, <2>3 DEF ClaimAges
  <2>5. QED
    BY <1>1, <1>7, <2>1, <2>2, <2>4 DEF ClaimAges, Row
<1>8. QED
  BY <1>4, <1>5, <1>6, <1>7 DEF RowStep

LEMMA CallEffect ==
    ASSUME IInv, NEW w \in Worker, CallModel(w)
    PROVE  /\ claim[w].job \in Execution
           /\ claim[w].attempts \in 1 .. Limit
           /\ ~claim[w].called
           /\ UNCHANGED <<execution, faults>>
           /\ claim' \in [Worker -> Job]
           /\ \A v \in Worker \ {w} : claim'[v] = claim[v]
           /\ claim'[w].called
           /\ \A v \in Worker : /\ claim'[v].job = claim[v].job
                                /\ claim'[v].attempts = claim[v].attempts
                                /\ claim'[v].runtime = claim[v].runtime
           /\ calls' \in [Execution -> Nat]
           /\ calls' = [calls EXCEPT ![claim[w].job] = calls[claim[w].job] + 1]
<1>1. claim[w].job \in Execution
  BY DEF IInv, ClaimsDiffer, CallModel
<1>2. claim[w].attempts \in 1 .. Limit
  BY <1>1, Numbers, Rows, Claims DEF IInv, ClaimsAreOld, Held, CallModel, MayCall
<1>3. claim[w] \in Job /\ claim \in [Worker -> Job] /\ calls \in [Execution -> Nat]
  BY DEF IInv, TypeOK, Job
<1>4. [claim[w] EXCEPT !.called = TRUE] \in Job
  BY <1>3 DEF Job
<1>5. claim' = [claim EXCEPT ![w] = [claim[w] EXCEPT !.called = TRUE]]
  BY <1>3 DEF CallModel
<1>6. QED
  BY <1>1, <1>2, <1>3, <1>4, <1>5 DEF CallModel, Job

LEMMA CrashEffect ==
    ASSUME IInv, NEW w \in Worker, Crash(w)
    PROVE  /\ claim[w].job \in Execution
           /\ claim' = [claim EXCEPT ![w] = NoClaim]
           /\ UNCHANGED <<execution, calls>>
           /\ faults' = faults + 1 /\ faults' \in 0 .. MaxFaults
BY Numbers DEF Crash, IInv, ClaimsDiffer, TypeOK

(* The ways a step of the finalizer can go. *)
LEMMA Steps ==
    ASSUME [Next]_vars
    PROVE  \/ \E x \in Execution : RowStep(x)
           \/ \E w \in Worker : \/ \E x \in Execution : Claim(w, x)
                                \/ CallModel(w) \/ Answers(w) \/ Crash(w)
           \/ UNCHANGED vars
BY DEF Next, RowStep, Answers

-----------------------------------------------------------------------------
(* The parts of the invariant, over every step. *)
LEMMA TypesKept == IInv /\ [Next]_vars => TypeOK'
<1> SUFFICES ASSUME IInv, [Next]_vars PROVE TypeOK'
  OBVIOUS
<1>1. /\ execution \in [Execution -> Row] /\ claim \in [Worker -> Job]
      /\ calls \in [Execution -> Nat] /\ faults \in 0 .. MaxFaults
  BY DEF IInv, TypeOK, Job
<1>2. NoClaim \in Job
  BY Numbers DEF NoClaim, Job
<1>3. ASSUME NEW x \in Execution, RowStep(x) PROVE TypeOK'
  BY <1>1, <1>3, RowStepEffect DEF TypeOK, Job
<1>4. ASSUME NEW w \in Worker, NEW x \in Execution, Claim(w, x) PROVE TypeOK'
  BY <1>1, <1>4, ClaimEffect DEF TypeOK, Job
<1>5. ASSUME NEW w \in Worker, CallModel(w) PROVE TypeOK'
  BY <1>1, <1>5, CallEffect DEF TypeOK, Job
<1>6. ASSUME NEW w \in Worker, Answers(w) PROVE TypeOK'
  <2>1. claim' \in [Worker -> Job]
    BY <1>1, <1>2, <1>6, AnswersEffect
  <2>2. QED
    BY <1>1, <1>6, <2>1, AnswersEffect DEF TypeOK, Job
<1>7. ASSUME NEW w \in Worker, Crash(w) PROVE TypeOK'
  <2>1. claim' \in [Worker -> Job]
    BY <1>1, <1>2, <1>7, CrashEffect
  <2>2. QED
    BY <1>1, <1>7, <2>1, CrashEffect DEF TypeOK, Job
<1>8. CASE UNCHANGED vars
  BY <1>1, <1>8 DEF vars, TypeOK, Job
<1>9. QED
  BY <1>3, <1>4, <1>5, <1>6, <1>7, <1>8, Steps

(* What AttemptsLeft says of one row. *)
LeftOf(y) ==
    /\ execution[y].attempts <= Limit + faults
    /\ execution[y].status = "running" =>
          /\ execution[y].finalization = "pending" => execution[y].attempts < Limit
          /\ execution[y].finalization = "running" /\ (execution[y].old \/ ~Alive(y)) =>
                execution[y].attempts < Limit + faults

LEMMA AttemptsKept == IInv /\ [Next]_vars => AttemptsLeft'
<1> SUFFICES ASSUME IInv, [Next]_vars, NEW y \in Execution PROVE LeftOf(y)'
  BY DEF AttemptsLeft, LeftOf
<1>1. LeftOf(y) /\ execution[y].attempts \in Nat /\ Limit \in Nat /\ faults \in Nat
  BY Numbers, Rows DEF IInv, AttemptsLeft, LeftOf, TypeOK
<1>2. ASSUME claim' = claim, execution'[y].attempts = execution[y].attempts
      PROVE  Alive(y)' = Alive(y)
  BY <1>2 DEF Alive
<1>3. ASSUME NEW x \in Execution, RowStep(x) PROVE LeftOf(y)'
  <2>1. execution'[y].attempts = execution[y].attempts /\ claim' = claim
    BY <1>3, RowStepEffect
  <2>2. Alive(y)' = Alive(y)
    BY <1>2, <2>1
  <2>3. faults' = faults \/ faults' = faults + 1
    BY <1>3, RowStepEffect
  <2>4. CASE y # x
    BY <1>1, <1>3, <2>1, <2>2, <2>3, <2>4, RowStepEffect DEF LeftOf
  <2>5. CASE y = x /\ faults' = faults + 1
    BY <1>1, <1>3, <2>1, <2>5, RowStepEffect DEF LeftOf
  <2>6. CASE y = x /\ faults' = faults
    BY <1>1, <1>3, <2>1, <2>2, <2>6, RowStepEffect DEF LeftOf
  <2>7. QED
    BY <2>3, <2>4, <2>5, <2>6
<1>4. ASSUME NEW w \in Worker, NEW x \in Execution, Claim(w, x) PROVE LeftOf(y)'
  <2>1. CASE y = x
    <3>1. /\ execution'[x].attempts = execution[x].attempts + 1
          /\ execution'[x].finalization = "running" /\ ~execution'[x].old
      BY <1>4, ClaimEffect DEF IInv, TypeOK, Row
    <3>2. claim'[w].job = x /\ claim'[w].attempts = execution[x].attempts + 1
      BY <1>4, ClaimEffect
    <3>3. Alive(x)'
      BY <3>1, <3>2 DEF Alive
    <3>4. execution[x].attempts < Limit + faults /\ faults' = faults
      BY <1>4, ClaimEffect
    <3>5. QED
      BY <1>1, <2>1, <3>1, <3>3, <3>4 DEF LeftOf
  <2>2. CASE y # x
    <3>1. execution'[y] = execution[y] /\ faults' = faults
      BY <1>4, <2>2, ClaimEffect
    <3>2. Alive(y) => Alive(y)'
      BY <1>4, <3>1, ClaimEffect DEF Alive
    <3>3. QED
      BY <1>1, <3>1, <3>2 DEF LeftOf
  <2>3. QED
    BY <2>1, <2>2
<1>5. ASSUME NEW w \in Worker, CallModel(w) PROVE LeftOf(y)'
  <2>1. /\ execution' = execution /\ faults' = faults
        /\ \A v \in Worker : claim'[v].job = claim[v].job
                             /\ claim'[v].attempts = claim[v].attempts
    BY <1>5, CallEffect DEF IInv, TypeOK
  <2>2. Alive(y)' = Alive(y)
    BY <2>1 DEF Alive
  <2>3. QED
    BY <1>1, <2>1, <2>2 DEF LeftOf
<1>6. ASSUME NEW w \in Worker, Answers(w) PROVE LeftOf(y)'
  <2>1. /\ execution'[y].attempts = execution[y].attempts
        /\ execution'[y].old = execution[y].old /\ faults' = faults
    BY <1>6, AnswersEffect
  <2>2. CASE y = claim[w].job /\ Owned(w)
    BY <1>1, <1>6, <2>1, <2>2, AnswersEffect DEF LeftOf
  <2>3. CASE ~(y = claim[w].job /\ Owned(w))
    <3>1. execution'[y] = execution[y]
      BY <1>6, <2>3, AnswersEffect
    <3>2. ASSUME execution[y].status = "running", execution[y].finalization = "running",
                 Alive(y)
          PROVE  Alive(y)'
      <4>1. PICK v \in Worker : claim[v].job = y /\ claim[v].attempts = execution[y].attempts
        BY <3>2 DEF Alive
      <4>2. v # w
        BY <2>3, <3>2, <4>1 DEF Owned
      <4>3. claim'[v] = claim[v]
        BY <1>6, <4>2, AnswersEffect DEF IInv, TypeOK
      <4>4. QED
        BY <3>1, <4>1, <4>3 DEF Alive
    <3>3. QED
      BY <1>1, <2>1, <3>1, <3>2 DEF LeftOf
  <2>4. QED
    BY <2>2, <2>3
<1>7. ASSUME NEW w \in Worker, Crash(w) PROVE LeftOf(y)'
  BY <1>1, <1>7, CrashEffect DEF LeftOf
<1>8. CASE UNCHANGED vars
  BY <1>1, <1>8 DEF vars, LeftOf, Alive
<1>9. QED
  BY <1>3, <1>4, <1>5, <1>6, <1>7, <1>8, Steps

LEMMA ClaimsStayOld == IInv /\ [Next]_vars => ClaimsAreOld'
<1> SUFFICES ASSUME IInv, [Next]_vars, NEW y \in Execution, NEW v \in Worker,
                    claim'[v].job = y
             PROVE  /\ claim'[v].attempts \in 1 .. execution'[y].attempts
                    /\ claim'[v].runtime = execution'[y].runtime
                    /\ execution'[y].runtime # "none"
  BY DEF ClaimsAreOld, Held
<1> DEFINE Goal == /\ claim'[v].attempts \in 1 .. execution'[y].attempts
                   /\ claim'[v].runtime = execution'[y].runtime
                   /\ execution'[y].runtime # "none"
<1>1. execution[y].attempts \in Nat
  BY Rows DEF IInv
<1>2. claim[v].job = y => /\ claim[v].attempts \in 1 .. execution[y].attempts
                          /\ claim[v].runtime = execution[y].runtime
                          /\ execution[y].runtime # "none"
  BY DEF IInv, ClaimsAreOld, Held
<1>3. ASSUME NEW x \in Execution, RowStep(x) PROVE Goal
  BY <1>1, <1>2, <1>3, RowStepEffect
<1>4. ASSUME NEW w \in Worker, NEW x \in Execution, Claim(w, x) PROVE Goal
  <2>1. /\ execution'[x].attempts = execution[x].attempts + 1
        /\ execution'[x].runtime = execution[x].runtime
    BY <1>4, ClaimEffect DEF IInv, TypeOK, Row
  <2>2. CASE v = w
    BY <1>1, <1>4, <2>1, <2>2, ClaimEffect
  <2>3. CASE v # w
    BY <1>1, <1>2, <1>4, <2>1, <2>3, ClaimEffect
  <2>4. QED
    BY <2>2, <2>3
<1>5. ASSUME NEW w \in Worker, CallModel(w) PROVE Goal
  <2>1. /\ claim'[v].job = claim[v].job
        /\ claim'[v].attempts = claim[v].attempts
        /\ claim'[v].runtime = claim[v].runtime
    BY <1>5, CallEffect DEF IInv, TypeOK
  <2>2. QED
    BY <1>2, <1>5, <2>1, CallEffect
<1>6. ASSUME NEW w \in Worker, Answers(w) \/ Crash(w) PROVE Goal
  <2>1. claim' = [claim EXCEPT ![w] = NoClaim]
        /\ execution'[y].attempts = execution[y].attempts
        /\ execution'[y].runtime = execution[y].runtime
    BY <1>6, AnswersEffect, CrashEffect
  <2>2. v # w
    BY <2>1, FinalizerAssumption DEF IInv, TypeOK, NoClaim
  <2>3. QED
    BY <1>2, <2>1, <2>2 DEF IInv, TypeOK
<1>7. CASE UNCHANGED vars
  BY <1>2, <1>7 DEF vars
<1>8. QED
  BY <1>3, <1>4, <1>5, <1>6, <1>7, Steps

LEMMA ClaimsStayDifferent == IInv /\ [Next]_vars => ClaimsDiffer'
<1> SUFFICES ASSUME IInv, [Next]_vars, NEW u \in Worker, NEW v \in Worker
             PROVE  /\ claim'[u] = NoClaim \/ claim'[u].job \in Execution
                    /\ u # v /\ claim'[u].job = claim'[v].job /\ claim'[u].job \in Execution =>
                          claim'[u].attempts # claim'[v].attempts
  BY DEF ClaimsDiffer
<1> DEFINE Goal == /\ claim'[u] = NoClaim \/ claim'[u].job \in Execution
                   /\ u # v /\ claim'[u].job = claim'[v].job /\ claim'[u].job \in Execution =>
                         claim'[u].attempts # claim'[v].attempts
<1>1. /\ claim[u] = NoClaim \/ claim[u].job \in Execution
      /\ u # v /\ claim[u].job = claim[v].job /\ claim[u].job \in Execution =>
            claim[u].attempts # claim[v].attempts
  BY DEF IInv, ClaimsDiffer
<1>2. ASSUME claim' = claim PROVE Goal
  BY <1>1, <1>2
<1>3. ASSUME NEW w \in Worker, NEW x \in Execution, Claim(w, x) PROVE Goal
  <2>1. ASSUME NEW k \in Worker, k # w, claim[k].job = x
        PROVE  claim[k].attempts # execution[x].attempts + 1
    BY <2>1, Rows DEF IInv, ClaimsAreOld, Held
  <2>2. QED
    BY <1>1, <1>3, <2>1, ClaimEffect
<1>4. ASSUME NEW w \in Worker, CallModel(w) PROVE Goal
  <2>1. \A k \in Worker : claim'[k].job = claim[k].job
                          /\ claim'[k].attempts = claim[k].attempts
    BY <1>4, CallEffect DEF IInv, TypeOK
  <2>2. claim'[u] = claim[u] \/ claim[u].job \in Execution
    BY <1>4, CallEffect
  <2>3. QED
    BY <1>1, <2>1, <2>2
<1>5. ASSUME NEW w \in Worker, Answers(w) \/ Crash(w) PROVE Goal
  <2>1. claim' = [claim EXCEPT ![w] = NoClaim]
    BY <1>5, AnswersEffect, CrashEffect
  <2>2. NoClaim.job \notin Execution
    BY FinalizerAssumption DEF NoClaim
  <2>3. QED
    BY <1>1, <2>1, <2>2 DEF IInv, TypeOK
<1>6. QED
  BY <1>2, <1>3, <1>4, <1>5, RowStepEffect, Steps DEF vars

LEMMA InvariantHolds == Spec => []IInv
<1>1. Init => IInv
  <2> SUFFICES ASSUME Init PROVE IInv
    OBVIOUS
  <2>1. NoClaim \in Job
    BY Numbers DEF NoClaim, Job
  <2>2. NoClaim.job \notin Execution
    BY FinalizerAssumption DEF NoClaim
  <2>3. TypeOK
    <3>1. [status |-> "running", runtime |-> "none", finalization |-> "pending",
           attempts |-> 0, old |-> FALSE, result |-> 0] \in Row
      BY Numbers DEF Row
    <3>2. execution \in [Execution -> Row] /\ claim \in [Worker -> Job]
      BY <2>1, <3>1 DEF Init
    <3>3. QED
      BY <3>2, Numbers DEF Init, TypeOK, Job
  <2>4. AttemptsLeft
    BY Numbers DEF Init, AttemptsLeft
  <2>5. ClaimsDiffer /\ ClaimsAreOld
    BY <2>2 DEF Init, ClaimsDiffer, ClaimsAreOld, Held
  <2>6. QED
    BY <2>3, <2>4, <2>5 DEF IInv
<1>2. IInv /\ [Next]_vars => IInv'
  BY TypesKept, AttemptsKept, ClaimsStayOld, ClaimsStayDifferent DEF IInv
<1>3. QED
  BY <1>1, <1>2, PTL DEF Spec

(* Every variable stays in its type; in particular takeovers beyond the    *)
(* limit are bounded by the faults that caused them.                       *)
THEOREM TypeCorrect == Spec => []TypeOK
<1>1. IInv => TypeOK
  BY DEF IInv
<1>2. QED
  BY <1>1, InvariantHolds, PTL

-----------------------------------------------------------------------------
(* The result on the row is the one of the last claim: a worker that was   *)
(* taken over, or slow, never overwrites the worker that replaced it.      *)
THEOREM LastClaimWrites == Spec => []ResultOfLastClaim
<1>1. Init => ResultOfLastClaim
  BY DEF Init, ResultOfLastClaim
<1>2. IInv /\ ResultOfLastClaim /\ [Next]_vars => ResultOfLastClaim'
  <2> SUFFICES ASSUME IInv, ResultOfLastClaim, [Next]_vars, NEW y \in Execution,
                      execution'[y].finalization = "succeeded"
               PROVE  execution'[y].result = execution'[y].attempts
    BY DEF ResultOfLastClaim
  <2>1. execution[y].finalization = "succeeded" => execution[y].result = execution[y].attempts
    BY DEF ResultOfLastClaim
  <2>2. ASSUME NEW x \in Execution, RowStep(x)
        PROVE  execution'[y].result = execution'[y].attempts
    BY <2>1, <2>2, RowStepEffect
  <2>3. ASSUME NEW w \in Worker, NEW x \in Execution, Claim(w, x)
        PROVE  execution'[y].result = execution'[y].attempts
    BY <2>1, <2>3, ClaimEffect
  <2>4. ASSUME NEW w \in Worker, Answers(w)
        PROVE  execution'[y].result = execution'[y].attempts
    BY <2>1, <2>4, AnswersEffect DEF Owned
  <2>5. ASSUME execution' = execution
        PROVE  execution'[y].result = execution'[y].attempts
    BY <2>1, <2>5
  <2>6. QED
    BY <2>2, <2>3, <2>4, <2>5, CallEffect, CrashEffect, Steps DEF vars
<1>3. QED
  BY <1>1, <1>2, InvariantHolds, PTL DEF Spec

-----------------------------------------------------------------------------
(* Calls of the model.  Every number up to the limit is handed out once,   *)
(* and pays for one call; Pending(x) are those not yet spent.              *)
LEMMA PendingFinite ==
    ASSUME NEW x
    PROVE  IsFiniteSet(Pending(x)) /\ Cardinality(Pending(x)) \in Nat
<1>1. IsFiniteSet(1 .. Limit)
  BY Numbers, FS_Interval
<1>2. Pending(x) \in SUBSET (1 .. Limit)
  BY DEF Pending
<1>3. QED
  BY <1>1, <1>2, FS_Subset, FS_CardinalityType

LEMMA FewerPending ==
    ASSUME NEW S, NEW T \in SUBSET S, IsFiniteSet(S)
    PROVE  Cardinality(T) <= Cardinality(S)
BY FS_Subset

LEMMA CallsInvariant == IInv /\ CallsAccounted /\ [Next]_vars => CallsAccounted'
<1> SUFFICES ASSUME IInv, CallsAccounted, [Next]_vars, NEW y \in Execution
             PROVE  calls'[y] + Cardinality(Pending(y)') <= Claimed(y)'
  BY DEF CallsAccounted
<1> DEFINE Goal == calls'[y] + Cardinality(Pending(y)') <= Claimed(y)'
<1>1. calls[y] + Cardinality(Pending(y)) <= Claimed(y)
  BY DEF CallsAccounted
<1>2. /\ calls[y] \in Nat /\ execution[y].attempts \in Nat /\ Limit \in Nat
      /\ Cardinality(Pending(y)) \in Nat /\ IsFiniteSet(Pending(y))
  BY Numbers, Rows, PendingFinite DEF IInv
<1>3. Pending(y)' \in SUBSET (1 .. Limit)
  BY DEF Pending
<1>4. IsFiniteSet(Pending(y)') /\ Cardinality(Pending(y)') \in Nat
  <2>1. IsFiniteSet(1 .. Limit)
    BY Numbers, FS_Interval
  <2>2. IsFiniteSet(Pending(y)')
    BY <1>3, <2>1, FS_Subset
  <2>3. QED
    BY <2>2, FS_CardinalityType
<1>5. ASSUME Pending(y)' \in SUBSET Pending(y), calls'[y] = calls[y],
             execution'[y].attempts = execution[y].attempts
      PROVE  Goal
  <2>1. Cardinality(Pending(y)') <= Cardinality(Pending(y))
    BY <1>2, <1>5, FewerPending
  <2>2. Claimed(y)' = Claimed(y)
    BY <1>5 DEF Claimed
  <2>3. QED
    BY <1>1, <1>2, <1>4, <1>5, <2>1, <2>2 DEF Claimed
<1>6. ASSUME NEW x \in Execution, RowStep(x) PROVE Goal
  <2>1. /\ claim' = claim /\ calls' = calls
        /\ execution'[y].attempts = execution[y].attempts
    BY <1>6, RowStepEffect
  <2>2. Pending(y)' = Pending(y)
    BY <2>1 DEF Pending, Held
  <2>3. QED
    BY <1>5, <2>1, <2>2
<1>7. ASSUME NEW w \in Worker, NEW x \in Execution, Claim(w, x) PROVE Goal
  <2>1. calls' = calls
    BY <1>7, ClaimEffect
  <2>2. CASE y # x
    <3>1. execution'[y] = execution[y]
      BY <1>7, <2>2, ClaimEffect
    <3>2. Pending(y)' \in SUBSET Pending(y)
      BY <1>7, <2>2, ClaimEffect DEF Pending, Held
    <3>3. QED
      BY <1>5, <2>1, <3>1, <3>2
  <2>3. CASE y = x
    <3> DEFINE n == execution[x].attempts + 1
    <3>1. execution'[y].attempts = n /\ n \in Nat /\ n > 0
      BY <1>2, <1>7, <2>3, ClaimEffect
    <3>2. Pending(y)' \in SUBSET (Pending(y) \cup {n})
      BY <1>7, <2>3, ClaimEffect DEF Pending, Held
    <3>3. CASE n <= Limit
      <4>1. /\ IsFiniteSet(Pending(y) \cup {n})
            /\ Cardinality(Pending(y) \cup {n}) <= Cardinality(Pending(y)) + 1
            /\ Cardinality(Pending(y) \cup {n}) \in Nat
        <5>1. /\ IsFiniteSet(Pending(y) \cup {n})
              /\ Cardinality(Pending(y) \cup {n}) =
                    IF n \in Pending(y) THEN Cardinality(Pending(y))
                                       ELSE Cardinality(Pending(y)) + 1
          BY <1>2, FS_AddElement
        <5>2. QED
          BY <1>2, <5>1
      <4>2. Cardinality(Pending(y)') <= Cardinality(Pending(y) \cup {n})
        BY <3>2, <4>1, FewerPending
      <4>3. Claimed(y)' = Claimed(y) + 1 /\ Claimed(y) \in Nat
        BY <1>2, <2>3, <3>1, <3>3 DEF Claimed
      <4>4. QED
        BY <1>1, <1>2, <1>4, <2>1, <4>1, <4>2, <4>3
    <3>4. CASE n > Limit
      <4>1. Pending(y)' \in SUBSET Pending(y)
        BY <1>2, <1>3, <3>1, <3>2, <3>4
      <4>2. Cardinality(Pending(y)') <= Cardinality(Pending(y))
        BY <1>2, <4>1, FewerPending
      <4>3. Claimed(y)' = Claimed(y) /\ Claimed(y) \in Nat
        BY <1>2, <2>3, <3>1, <3>4 DEF Claimed
      <4>4. QED
        BY <1>1, <1>2, <1>4, <2>1, <4>2, <4>3
    <3>5. QED
      BY <1>2, <3>1, <3>3, <3>4
  <2>4. QED
    BY <2>2, <2>3
<1>8. ASSUME NEW w \in Worker, CallModel(w) PROVE Goal
  <2> DEFINE k == claim[w].attempts
  <2>1. /\ execution' = execution /\ k \in 1 .. Limit /\ ~claim[w].called
        /\ claim[w].job \in Execution
    BY <1>8, CallEffect
  <2>2. CASE y # claim[w].job
    <3>1. calls'[y] = calls[y]
      BY <1>8, <2>2, CallEffect DEF IInv, TypeOK
    <3>2. Pending(y)' \in SUBSET Pending(y)
      BY <1>8, <2>2, CallEffect DEF Pending, Held
    <3>3. QED
      BY <1>5, <2>1, <3>1, <3>2
  <2>3. CASE y = claim[w].job
    <3>1. calls'[y] = calls[y] + 1
      BY <1>8, <2>3, CallEffect DEF IInv, TypeOK
    <3>2. k \in Pending(y)
      BY <2>1, <2>3 DEF Pending, Held
    <3>3. Pending(y)' \in SUBSET (Pending(y) \ {k})
      <4> SUFFICES ASSUME NEW n \in Pending(y)' PROVE n \in Pending(y) /\ n # k
        OBVIOUS
      <4>1. PICK v \in Worker : /\ claim'[v].job = y /\ claim'[v].attempts = n
                                /\ ~claim'[v].called /\ n \in 1 .. Limit
        BY DEF Pending, Held
      <4>2. v # w
        BY <1>8, <4>1, CallEffect
      <4>3. claim'[v] = claim[v]
        BY <1>8, <4>2, CallEffect
      <4>4. claim[v].attempts # k
        BY <2>1, <2>3, <4>1, <4>2, <4>3 DEF IInv, ClaimsDiffer
      <4>5. QED
        BY <4>1, <4>3, <4>4 DEF Pending, Held
    <3>4. /\ IsFiniteSet(Pending(y) \ {k})
          /\ Cardinality(Pending(y) \ {k}) = Cardinality(Pending(y)) - 1
      BY <1>2, <3>2, FS_RemoveElement
    <3>5. Cardinality(Pending(y)') <= Cardinality(Pending(y)) - 1
      BY <3>3, <3>4, FewerPending
    <3>6. Claimed(y)' = Claimed(y) /\ Claimed(y) \in Nat
      BY <1>2, <2>1 DEF Claimed
    <3>7. QED
      BY <1>1, <1>2, <1>4, <3>1, <3>5, <3>6
  <2>4. QED
    BY <2>2, <2>3
<1>9. ASSUME NEW w \in Worker, Answers(w) \/ Crash(w) PROVE Goal
  <2>1. /\ claim' = [claim EXCEPT ![w] = NoClaim] /\ calls' = calls
        /\ execution'[y].attempts = execution[y].attempts
    BY <1>9, AnswersEffect, CrashEffect
  <2>2. NoClaim.job # y
    BY FinalizerAssumption DEF NoClaim
  <2>3. Pending(y)' \in SUBSET Pending(y)
    BY <2>1, <2>2 DEF Pending, Held, IInv, TypeOK
  <2>4. QED
    BY <1>5, <2>1, <2>3
<1>10. CASE UNCHANGED vars
  BY <1>1, <1>10 DEF vars, Pending, Held, Claimed
<1>11. QED
  BY <1>6, <1>7, <1>8, <1>9, <1>10, Steps

LEMMA CallsAlwaysAccounted == Spec => []CallsAccounted
<1>1. Init => CallsAccounted
  <2> SUFFICES ASSUME Init, NEW x \in Execution
               PROVE  calls[x] + Cardinality(Pending(x)) <= Claimed(x)
    BY DEF CallsAccounted
  <2>1. NoClaim.job \notin Execution
    BY FinalizerAssumption DEF NoClaim
  <2>2. Pending(x) = {}
    BY <2>1 DEF Init, Pending, Held
  <2>3. QED
    BY <2>2, Numbers, FS_EmptySet DEF Init, Claimed
<1>2. QED
  BY <1>1, CallsInvariant, InvariantHolds, PTL DEF Spec

-----------------------------------------------------------------------------
(* The workers implement ExecutionResult: one final status, a good one     *)
(* only for a good runtime, never reopened or relabelled, and no more than *)
(* Limit calls of the model, whatever crashes and is taken over.           *)
THEOREM WorkersImplementResult == Spec => ImplementsResult
<1> DEFINE runtime == [x \in Execution |-> execution[x].runtime]
           final == [x \in Execution |-> execution[x].status]
<1>1. Init => Result!AbsInit
  BY DEF Init, Result!AbsInit
<1>2. ASSUME IInv, CallsAccounted, [Next]_vars
      PROVE  [Result!AbsNext]_Result!abstractVars
  <2>1. ASSUME UNCHANGED <<execution, calls>>
        PROVE  UNCHANGED Result!abstractVars
    BY <2>1 DEF Result!abstractVars
  <2>2. ASSUME NEW x \in Execution, NEW outcome \in {"succeeded", "failed", "cancelled"},
               RuntimeSettles(x, outcome)
        PROVE  Result!AbsSettle(x) \/ Result!AbsFinish(x)
    BY <1>2, <2>2 DEF RuntimeSettles, Result!AbsSettle, Result!AbsFinish, IInv, TypeOK, Row
  <2>3. ASSUME NEW x \in Execution, CancelForDeletion(x)
        PROVE  Result!AbsFinish(x)
    BY <1>2, <2>3 DEF CancelForDeletion, Result!AbsFinish, IInv, TypeOK, Row
  <2>4. ASSUME NEW x \in Execution, ClaimAges(x)
        PROVE  UNCHANGED Result!abstractVars
    BY <1>2, <2>4 DEF ClaimAges, Result!abstractVars, IInv, TypeOK, Row
  <2>5. ASSUME NEW w \in Worker, NEW x \in Execution, Claim(w, x)
        PROVE  UNCHANGED Result!abstractVars
    <3>1. \A y \in Execution : /\ execution'[y].runtime = execution[y].runtime
                               /\ execution'[y].status = execution[y].status
      BY <1>2, <2>5, ClaimEffect
    <3>2. calls' = calls
      BY <1>2, <2>5, ClaimEffect
    <3>3. QED
      BY <3>1, <3>2 DEF Result!abstractVars
  <2>6. ASSUME NEW w \in Worker, CallModel(w)
        PROVE  Result!AbsAsk(claim[w].job)
    <3> DEFINE x == claim[w].job
    <3>1. /\ x \in Execution /\ claim[w].attempts \in 1 .. Limit /\ ~claim[w].called
          /\ execution' = execution
          /\ calls' = [calls EXCEPT ![x] = calls[x] + 1]
      BY <1>2, <2>6, CallEffect
    <3>2. execution[x].runtime # "none"
      BY <1>2, <3>1 DEF IInv, ClaimsAreOld, Held
    <3>3. claim[w].attempts \in Pending(x)
      BY <3>1 DEF Pending, Held
    <3>4. Cardinality(Pending(x)) \in Nat /\ Cardinality(Pending(x)) # 0
      <4>1. IsFiniteSet(Pending(x)) /\ Cardinality(Pending(x)) \in Nat
        BY PendingFinite
      <4>2. QED
        BY <3>3, <4>1, FS_EmptySet
    <3>5. calls[x] + Cardinality(Pending(x)) <= Limit
      <4>1. calls[x] + Cardinality(Pending(x)) <= Claimed(x)
        BY <1>2, <3>1 DEF CallsAccounted
      <4>2. Claimed(x) <= Limit /\ Claimed(x) \in Nat
        BY <1>2, <3>1, Numbers, Rows DEF IInv, Claimed
      <4>3. calls[x] \in Nat
        BY <1>2, <3>1, Rows DEF IInv
      <4>4. QED
        BY <3>4, <4>1, <4>2, <4>3, Numbers
    <3>6. calls[x] \in Nat /\ Limit \in Nat
      BY <1>2, <3>1, Numbers, Rows DEF IInv
    <3>7. calls[x] < Limit
      BY <3>4, <3>5, <3>6
    <3>8. QED
      BY <3>1, <3>2, <3>7 DEF Result!AbsAsk
  <2>7. ASSUME NEW w \in Worker, Answers(w)
        PROVE  Result!AbsNext \/ UNCHANGED Result!abstractVars
    <3> DEFINE x == claim[w].job
    <3>1. /\ x \in Execution /\ calls' = calls
          /\ \A y \in Execution : execution'[y].runtime = execution[y].runtime
          /\ \A y \in Execution \ {x} : execution'[y].status = execution[y].status
      BY <1>2, <2>7, AnswersEffect
    <3>2. UNCHANGED <<runtime, calls>>
      BY <3>1
    <3>3. CASE execution'[x].status = execution[x].status
      <4>1. final' = final
        BY <3>1, <3>3
      <4>2. QED
        BY <3>2, <4>1 DEF Result!abstractVars
    <3>4. CASE execution'[x].status # execution[x].status
      <4>1. Owned(w)
        BY <1>2, <2>7, <3>1, <3>4, AnswersEffect
      <4>2. execution[x].status = "running"
        BY <4>1 DEF Owned
      <4>3. execution'[x].status \in {claim[w].runtime, "failed"}
        BY <1>2, <2>7, <3>4, <4>1, <4>2, AnswersEffect
      <4>4. claim[w].runtime = execution[x].runtime /\ execution[x].runtime # "none"
        BY <1>2, <3>1 DEF IInv, ClaimsAreOld, Held
      <4>5. final' = [final EXCEPT ![x] = execution'[x].status]
        BY <3>1
      <4>6. /\ final[x] = "running" /\ runtime[x] # "none"
            /\ execution'[x].status \in {runtime[x], "failed"}
        BY <3>1, <4>2, <4>3, <4>4
      <4> HIDE DEF final, runtime
      <4>7. QED
        BY <3>1, <3>2, <4>5, <4>6 DEF Result!AbsNext, Result!AbsFinish, final, runtime
    <3>5. QED
      BY <3>3, <3>4
  <2>8. ASSUME NEW w \in Worker, CallModel(w)
        PROVE  Result!AbsNext
    <3>1. claim[w].job \in Execution
      BY <1>2, <2>8, CallEffect
    <3>2. Result!AbsAsk(claim[w].job)
      BY <2>6, <2>8
    <3>3. QED
      BY <3>1, <3>2 DEF Result!AbsNext
  <2>9. ASSUME NEW w \in Worker, Crash(w)
        PROVE  UNCHANGED Result!abstractVars
    BY <1>2, <2>1, <2>9, CrashEffect
  <2>10. CASE UNCHANGED vars
    BY <2>1, <2>10 DEF vars
  <2>11. QED
    <3> DEFINE Goal == Result!AbsNext \/ UNCHANGED Result!abstractVars
    <3>1. ASSUME NEW x \in Execution, RowStep(x) PROVE Goal
      BY <2>2, <2>3, <2>4, <3>1 DEF RowStep, Result!AbsNext
    <3>2. QED
      BY <1>2, <2>5, <2>7, <2>8, <2>9, <2>10, <3>1, Steps
<1>3. QED
  BY <1>1, <1>2, InvariantHolds, CallsAlwaysAccounted, PTL
     DEF Spec, ImplementsResult, Result!AbsSpec
=============================================================================
