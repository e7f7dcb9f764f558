------------------------------ MODULE FastPath -------------------------------
(***************************************************************************)
(* How a browser task earns, keeps and loses its compiled script           *)
(* (packages/agent: compile-loop, learning-loop, compiled-executor;        *)
(* packages/compiler: jobs, promotion, registry; packages/policy: the      *)
(* changes of grants).                                                     *)
(*                                                                         *)
(* Runs leave learning jobs; learning workers turn them, one at a time and *)
(* in the order the runs ended, into prompts and recommendations to        *)
(* compile; compile workers turn those into candidates and promote them;   *)
(* runs of the script that deopt demote it.  Meanwhile grants change,      *)
(* workers die, and workers thought dead answer.                           *)
(*                                                                         *)
(* One task: all queues are per task.  The transactions of the queues and  *)
(* of promotion lock the task's row first and are one step.  A change of   *)
(* grants takes the row when it writes the hash, and is one step from      *)
(* there.  Backoff is left out: a retry may be claimed at any time.  What  *)
(* a run saw of the task is what it was started with.                      *)
(***************************************************************************)
EXTENDS Integers, Sequences, FiniteSets

CONSTANTS
    Run, Script, None,
    Definition,         \* contents of the task, by hash: grants change them
    Learner, Compiler,  \* the two workers of each engine
    LearnAttempts,      \* learning-loop: 3
    CompileAttempts,    \* compile_jobs.max_attempts: 2
    DemoteDeopts, DeoptWindow, \* promotion: 3 of 10
    MaxFaults           \* bound: workers that die or seem dead, failing calls

ASSUME FastPathAssumption ==
    /\ None \notin Run \cup Script
    /\ IsFiniteSet(Run)
    /\ Definition # {}
    /\ LearnAttempts \in Nat \ {0} /\ CompileAttempts \in Nat \ {0}
    /\ DemoteDeopts \in Nat \ {0} /\ DeoptWindow \in Nat \ {0}
    /\ MaxFaults \in Nat

VARIABLES
    task,               \* the task's row: mode, definition, revision, deopts
    script,             \* compiled_scripts
    run,                \* runs and what their executors hold
    ended,              \* runs in the order they ended
    learn,              \* browser_learning_jobs, one per run
    job,                \* compile_jobs, one per learning job
    learner,            \* learning workers
    compiler,           \* compile workers
    faults

rows == <<task, script, learn, job>>
vars == <<rows, run, ended, learner, compiler, faults>>

Mode == {"ai", "compiled"}
JobStatus == {"none", "queued", "running", "succeeded", "refused", "failed"}

TypeOK ==
    /\ task \in [mode : Mode, def : Definition, rev : Nat, deopts : Seq(BOOLEAN)]
    /\ script \in [Script -> [status : {"none", "candidate", "active", "invalidated"},
                              def : Definition, from : Run \cup {None}]]
    /\ run \in [Run -> [pc : {"new", "started", "loaded", "over", "queued", "gone"},
                        status : {"none", "running", "succeeded", "failed"},
                        mode : Mode, def : Definition, script : Script \cup {None},
                        ok : BOOLEAN, deopt : {"no", "planned", "guard"}]]
    /\ ended \in Seq(Run)
    /\ learn \in [Run -> [status : JobStatus, def : Definition,
                          script : Script \cup {None}, attempts : Nat,
                          wanted : BOOLEAN, sent : BOOLEAN]]
    /\ job \in [Run -> [status : JobStatus, def : Definition,
                        expected : Script \cup {None}, attempts : Nat]]
    /\ learner \in [Learner -> [run : Run \cup {None}, attempts : Nat, rev : Nat]]
    /\ compiler \in [Compiler -> [pc : {"idle", "compiling", "compiled", "promoted"},
                                  run : Run \cup {None}, attempts : Nat,
                                  script : Script \cup {None}]]
    /\ faults \in 0 .. MaxFaults

IdleLearner == [run |-> None, attempts |-> 0, rev |-> 0]
IdleCompiler == [pc |-> "idle", run |-> None, attempts |-> 0, script |-> None]

Init ==
    /\ LET d == CHOOSE d \in Definition : TRUE IN
          /\ task = [mode |-> "ai", def |-> d, rev |-> 0, deopts |-> <<>>]
          /\ script = [s \in Script |-> [status |-> "none", def |-> d, from |-> None]]
          /\ run = [r \in Run |-> [pc |-> "new", status |-> "none", mode |-> "ai", def |-> d,
                                   script |-> None, ok |-> FALSE, deopt |-> "no"]]
          /\ learn = [r \in Run |-> [status |-> "none", def |-> d, script |-> None,
                                     attempts |-> 0, wanted |-> FALSE, sent |-> FALSE]]
          /\ job = [r \in Run |-> [status |-> "none", def |-> d, expected |-> None,
                                   attempts |-> 0]]
    /\ ended = <<>>
    /\ learner = [l \in Learner |-> IdleLearner]
    /\ compiler = [c \in Compiler |-> IdleCompiler]
    /\ faults = 0

Fault == faults < MaxFaults /\ faults' = faults + 1

-----------------------------------------------------------------------------
(* The shelf of scripts, and what its changes do to the task. *)

Active == {s \in Script : script[s].status = "active"}
ActiveScript == IF Active = {} THEN None ELSE CHOOSE s \in Active : TRUE

Invalidated(gone) == [s \in Script |-> IF s \in gone
                                       THEN [script[s] EXCEPT !.status = "invalidated"]
                                       ELSE script[s]]

(* Mutant: the scripts of a task survive a change of its grants. *)
ChangeGrantsOnly(d) ==
    /\ task' = [task EXCEPT !.def = d]
    /\ UNCHANGED <<script, run, ended, learn, job, learner, compiler, faults>>

(* grantTask, revokeTaskGrant and decideProposedGrant, from the UPDATE that *)
(* writes the hash on.  The grants it was computed from were read without   *)
(* the row, so of two changes the older hash may be written last: any d.    *)
ChangeGrants(d) ==
    /\ task' = [task EXCEPT !.def = d, !.mode = IF Active # {} THEN "ai" ELSE @]
    /\ script' = Invalidated(Active)
    /\ UNCHANGED <<run, ended, learn, job, learner, compiler, faults>>

-----------------------------------------------------------------------------
(* A run of the task, by the agent or by the script. *)

(* Which id comes next does not matter. *)
NextRun == CHOOSE r \in Run : run[r].pc = "new"

Start(r) ==
    /\ run[r].pc = "new" /\ r = NextRun
    /\ run' = [run EXCEPT ![r].pc = IF task.mode = "ai" THEN "loaded" ELSE "started",
                          ![r].status = "running", ![r].mode = task.mode, ![r].def = task.def]
    /\ UNCHANGED <<rows, ended, learner, compiler, faults>>

(* The script may have gone since the run was started: that is permanent. *)
Load(r) ==
    /\ run[r].pc = "started"
    /\ run' = [run EXCEPT ![r].pc = IF ActiveScript = None THEN "over" ELSE "loaded",
                          ![r].script = ActiveScript]
    /\ UNCHANGED <<rows, ended, learner, compiler, faults>>

(* Another browser than the script was made for: the agent starts afresh. *)
RuntimeChanged(r) ==
    /\ run[r].pc = "loaded" /\ run[r].mode = "compiled" /\ run[r].status = "running"
    /\ IF run[r].script \in Active
       THEN /\ script' = Invalidated({run[r].script})
            /\ task' = [task EXCEPT !.mode = "ai"]
       ELSE UNCHANGED <<script, task>>
    /\ \E ok \in BOOLEAN :
          run' = [run EXCEPT ![r].pc = "over", ![r].ok = ok, ![r].deopt = "guard"]
    /\ UNCHANGED <<ended, learn, job, learner, compiler, faults>>

Execute(r) ==
    /\ run[r].pc = "loaded"
    /\ \E ok \in BOOLEAN, deopt \in {"no", "planned", "guard"} :
          /\ run[r].mode = "ai" => deopt = "no"
          /\ run' = [run EXCEPT ![r].pc = "over", ![r].ok = ok, ![r].deopt = deopt]
    /\ UNCHANGED <<rows, ended, learner, compiler, faults>>

(* The hooks enqueue once per run; clean successes of a script teach nothing. *)
Teaches(r) == run[r].mode = "ai" \/ run[r].deopt # "no" \/ ~run[r].ok

Enqueue(r) ==
    /\ run[r].pc = "over"
    /\ learn' = IF Teaches(r)
                THEN [learn EXCEPT ![r].status = "queued", ![r].def = run[r].def,
                                   ![r].script = run[r].script]
                ELSE learn
    /\ run' = [run EXCEPT ![r].pc = IF run[r].mode = "ai" THEN "gone" ELSE "queued"]
    /\ UNCHANGED <<task, script, job, ended, learner, compiler, faults>>

Last(seq, n) == SubSeq(seq, IF Len(seq) > n THEN Len(seq) - n + 1 ELSE 1, Len(seq))
Deopts(window) == Cardinality({i \in DOMAIN window : window[i]})

(* Mutant: the deopts of a script that was replaced count against the next. *)
ConcernsAnybody(r) == TRUE

(* A run without a script concerns whatever is active. *)
Concerns(r) == run[r].script \in {None, ActiveScript}

(* recordCompiledRun *)
Record(r) ==
    /\ run[r].pc = "queued"
    /\ run' = [run EXCEPT ![r].pc = "gone"]
    /\ LET window == Last(Append(task.deopts, run[r].deopt = "guard"), DeoptWindow)
       IN  \/ /\ ~Concerns(r)
              /\ UNCHANGED <<task, script>>
           \/ /\ Concerns(r) /\ Deopts(window) < DemoteDeopts
              /\ task' = [task EXCEPT !.deopts = window]
              /\ UNCHANGED script
           \/ /\ Concerns(r) /\ Deopts(window) >= DemoteDeopts
              /\ script' = Invalidated(Active)
              /\ task' = [task EXCEPT !.mode = "ai", !.deopts = <<>>]
    /\ UNCHANGED <<learn, job, ended, learner, compiler, faults>>

Settle(r) ==
    /\ run[r].pc = "gone" /\ run[r].status = "running"
    /\ run' = [run EXCEPT ![r].status = IF run[r].ok THEN "succeeded" ELSE "failed"]
    /\ ended' = Append(ended, r)
    /\ UNCHANGED <<rows, learner, compiler, faults>>

(* The watchdog gives up a run whose executor died, or goes on. *)
Reap(r) ==
    /\ run[r].status = "running"
    /\ Fault
    /\ \E pc \in {run[r].pc, "gone"} :
          run' = [run EXCEPT ![r].status = "failed", ![r].pc = pc]
    /\ ended' = Append(ended, r)
    /\ UNCHANGED <<rows, learner, compiler>>

Terminal(r) == run[r].status \in {"succeeded", "failed"}

-----------------------------------------------------------------------------
(* The learning worker: dispatch what is recommended, then learn from the  *)
(* run that ended first.                                                   *)

Open(r) == job[r].status \in {"queued", "running"}
Pending(r) == learn[r].status = "succeeded" /\ learn[r].wanted /\ ~learn[r].sent

Superseded(r) == \/ task.def # learn[r].def
                 \/ Active # {} /\ ActiveScript # learn[r].script

(* The oldest pending recommendation, if nothing is being compiled: before *)
(* it claims and after it applied, so whenever it is not learning.         *)
Dispatch(l, r) ==
    /\ learner[l].run = None
    /\ Pending(r) /\ \A q \in Run : ~Open(q)
    /\ IF Superseded(r)
       THEN learn' = [learn EXCEPT ![r].wanted = FALSE] /\ UNCHANGED job
       ELSE /\ learn' = [learn EXCEPT ![r].sent = TRUE]
            /\ job' = [job EXCEPT ![r].status = "queued", ![r].def = task.def,
                                  ![r].expected = ActiveScript]
    /\ UNCHANGED <<task, script, run, ended, learner, compiler, faults>>

EndedBefore(q, r) == \E i, j \in DOMAIN ended : i < j /\ ended[i] = q /\ ended[j] = r

Holds(l, r) == /\ learner[l].run = r
               /\ learn[r].status = "running" /\ learn[r].attempts = learner[l].attempts

(* Mutant: a job is claimed once, whatever becomes of its worker. *)
LearningDueOnce(r) ==
    /\ Terminal(r) /\ learn[r].status = "queued"
    /\ \A q \in Run : learn[q].status = "running" \/ learn[q].status = "queued" =>
         ~EndedBefore(q, r)

(* Queued, or claimed by a worker that died since. *)
LearningDue(r) ==
    /\ Terminal(r)
    /\ \A q \in Run \ {r} : learn[q].status # "running"
    /\ \/ /\ learn[r].status = "queued"
          /\ \A q \in Run : learn[q].status = "queued" => ~EndedBefore(q, r)
       \/ learn[r].status = "running" /\ \A l \in Learner : ~Holds(l, r)

(* That a worker only seems to have died is a fault. *)
ClaimLearning(l, r) ==
    /\ learner[l].run = None
    /\ \/ LearningDue(r) /\ UNCHANGED faults
       \/ learn[r].status = "running" /\ ~LearningDue(r) /\ Fault
    /\ learn' = [learn EXCEPT ![r].attempts = @ + 1,
                              ![r].status = IF task.def = learn[r].def THEN "running"
                                            ELSE "refused"]
    /\ learner' = [learner EXCEPT ![l] =
                     IF task.def # learn[r].def THEN IdleLearner
                     ELSE [run |-> r, attempts |-> learn[r].attempts + 1,
                           rev |-> task.rev]]
    /\ UNCHANGED <<task, script, job, run, ended, compiler>>

(* The model fails, answers nonsense or not in time. *)
LearningFails(l) ==
    /\ learner[l].run # None
    /\ Fault
    /\ learn' = [learn EXCEPT ![learner[l].run].status =
                   IF ~Holds(l, learner[l].run) THEN @
                   ELSE IF learner[l].attempts < LearnAttempts THEN "queued" ELSE "failed"]
    /\ learner' = [learner EXCEPT ![l] = IdleLearner]
    /\ UNCHANGED <<task, script, job, run, ended, compiler>>

NoEvidence(l) ==
    /\ learner[l].run # None
    /\ learn' = [learn EXCEPT ![learner[l].run].status =
                   IF Holds(l, learner[l].run) THEN "refused" ELSE @]
    /\ learner' = [learner EXCEPT ![l] = IdleLearner]
    /\ UNCHANGED <<task, script, job, run, ended, compiler, faults>>

(* Mutant: an answer is applied whoever has the claim by now. *)
OwnedByAnybody(l) == TRUE

Owned(l) == Holds(l, learner[l].run)

(* applyResult: the claim, the definition and the revision are checked again. *)
Apply(l) ==
    LET r == learner[l].run IN
    /\ learner[l].run # None
    /\ \/ /\ ~Owned(l)
          /\ UNCHANGED <<task, learn>>
       \/ /\ Owned(l) /\ (task.def # learn[r].def \/ task.rev # learner[l].rev)
          /\ learn' = [learn EXCEPT ![r].status = "refused"]
          /\ UNCHANGED task
       \/ /\ Owned(l) /\ task.def = learn[r].def /\ task.rev = learner[l].rev
          /\ \E changed, wanted \in BOOLEAN :
                /\ wanted => run[r].status = "succeeded"
                /\ task' = [task EXCEPT !.rev = IF changed THEN @ + 1 ELSE @]
                /\ learn' = [learn EXCEPT ![r].status = "succeeded", ![r].wanted = wanted]
    /\ learner' = [learner EXCEPT ![l] = IdleLearner]
    /\ UNCHANGED <<script, job, run, ended, compiler, faults>>

LearnerDies(l) ==
    /\ learner[l].run # None
    /\ Fault
    /\ learner' = [learner EXCEPT ![l] = IdleLearner]
    /\ UNCHANGED <<rows, run, ended, compiler>>

-----------------------------------------------------------------------------
(* The compile worker. *)

HasClaim(c) == /\ job[compiler[c].run].status = "running"
               /\ job[compiler[c].run].attempts = compiler[c].attempts

(* finishCompileJob: only the claim that is still held. *)
Finished(c, status) ==
    job' = [job EXCEPT ![compiler[c].run].status = IF HasClaim(c) THEN status ELSE @]

Done(c) == compiler' = [compiler EXCEPT ![c] = IdleCompiler]

(* The learner approved this run, and the task is what it was. *)
Current(r) == /\ task.def = job[r].def /\ task.def = learn[r].def
              /\ learn[r].status = "succeeded" /\ learn[r].wanted

Compiles(c, r) == compiler[c].run = r /\ HasClaim(c)

ClaimCompile(c, r) ==
    /\ compiler[c].pc = "idle"
    /\ Terminal(r)
    /\ \/ job[r].status = "queued" /\ UNCHANGED faults
       \/ /\ job[r].status = "running"
          /\ IF \E d \in Compiler : Compiles(d, r) THEN Fault ELSE UNCHANGED faults
    /\ job' = [job EXCEPT ![r].attempts = @ + 1,
                          ![r].status = IF Current(r) THEN "running" ELSE "refused"]
    /\ compiler' = [compiler EXCEPT ![c] =
                      IF Current(r) THEN [pc |-> "compiling", run |-> r, script |-> None,
                                          attempts |-> job[r].attempts + 1]
                      ELSE IdleCompiler]
    /\ UNCHANGED <<task, script, learn, run, ended, learner>>

CompileRefused(c) ==
    /\ compiler[c].pc = "compiling"
    /\ Finished(c, "refused")
    /\ Done(c)
    /\ UNCHANGED <<task, script, learn, run, ended, learner, faults>>

CompileFails(c) ==
    /\ compiler[c].pc = "compiling"
    /\ Fault
    /\ Finished(c, IF compiler[c].attempts < CompileAttempts THEN "queued" ELSE "failed")
    /\ Done(c)
    /\ UNCHANGED <<task, script, learn, run, ended, learner>>

(* Evidence of other contents than the task's is refused.  Bound: Script. *)
Candidate(c, s) ==
    /\ compiler[c].pc = "compiling"
    /\ script[s].status = "none" /\ s = CHOOSE t \in Script : script[t].status = "none"
    /\ script' = [script EXCEPT ![s] = [status |-> "candidate", from |-> compiler[c].run,
                                        def |-> run[compiler[c].run].def]]
    /\ compiler' = [compiler EXCEPT ![c].pc = "compiled", ![c].script = s]
    /\ UNCHANGED <<task, learn, job, run, ended, learner, faults>>

Promotable(c) ==
    LET r == compiler[c].run IN
    /\ task.def = job[r].def /\ task.def = learn[r].def
    /\ HasClaim(c)
    /\ ActiveScript = job[r].expected
    /\ script[compiler[c].script].status # "invalidated"

Promote(c) ==
    /\ compiler[c].pc = "compiled" /\ Promotable(c)
    /\ script' = [Invalidated(Active) EXCEPT ![compiler[c].script].status = "active"]
    /\ task' = [task EXCEPT !.mode = "compiled"]
    /\ compiler' = [compiler EXCEPT ![c].pc = "promoted"]
    /\ UNCHANGED <<learn, job, run, ended, learner, faults>>

NotPromoted(c) ==
    /\ compiler[c].pc = "compiled" /\ ~Promotable(c)
    /\ Finished(c, "refused")
    /\ Done(c)
    /\ UNCHANGED <<task, script, learn, run, ended, learner, faults>>

FinishCompile(c) ==
    /\ compiler[c].pc = "promoted"
    /\ Finished(c, "succeeded")
    /\ Done(c)
    /\ UNCHANGED <<task, script, learn, run, ended, learner, faults>>

CompilerDies(c) ==
    /\ compiler[c].pc # "idle"
    /\ Fault
    /\ Done(c)
    /\ UNCHANGED <<rows, run, ended, learner>>

-----------------------------------------------------------------------------
RunStep(r) == \/ Load(r) \/ Execute(r) \/ Enqueue(r) \/ Record(r) \/ Settle(r)

LearnerStep(l) ==
    \/ \E r \in Run : ClaimLearning(l, r)
    \/ Apply(l) \/ NoEvidence(l)

CompilerStep(c) ==
    \/ \E r \in Run : ClaimCompile(c, r)
    \/ \E s \in Script : Candidate(c, s)
    \/ CompileRefused(c) \/ Promote(c) \/ NotPromoted(c) \/ FinishCompile(c)

Next ==
    \/ \E l \in Learner, r \in Run : Dispatch(l, r)
    \/ \E d \in Definition : ChangeGrants(d)
    \/ \E r \in Run : Start(r) \/ RunStep(r) \/ RuntimeChanged(r) \/ Reap(r)
    \/ \E l \in Learner : LearnerStep(l) \/ LearningFails(l) \/ LearnerDies(l)
    \/ \E c \in Compiler : CompilerStep(c) \/ CompileFails(c) \/ CompilerDies(c)

Spec == Init /\ [][Next]_vars

(* Executors come to an end; workers poll every second and their calls of  *)
(* the model have time limits.                                             *)
Fairness ==
    /\ \A r \in Run : WF_vars(RunStep(r))
    /\ WF_vars(\E l \in Learner, r \in Run : Dispatch(l, r))
    /\ \A l \in Learner : WF_vars(LearnerStep(l))
    /\ \A c \in Compiler : WF_vars(CompilerStep(c))

FairSpec == Spec /\ Fairness

-----------------------------------------------------------------------------
(* What serves is what the task is: the active script was compiled from a  *)
(* run of the present contents, it is the only one, and the task runs      *)
(* compiled exactly while it has one.                                      *)
(* Safety of promoteTask against changes of grants, demotions and workers  *)
(* that come back late.                                                    *)
ServedFitsTask ==
    /\ \A s \in Active : script[s].def = task.def
    /\ Cardinality(Active) <= 1
    /\ task.mode = "compiled" <=> Active # {}

(* However often a claim is lost and answered all the same, no run changes *)
(* the prompt twice.                                                       *)
(* Safety of applyResult, docs/browser-node-learning.md "A stale worker    *)
(* cannot apply a second revision".                                        *)
LearnedOnce == task.rev <= Cardinality({r \in Run : learn[r].status = "succeeded"})

(* A script stops serving only when grants are decided, when a run of its  *)
(* own says so, or for a script compiled from a run of its own.            *)
(* Action property of recordCompiledRun, dispatchLearningCompile and       *)
(* promoteTask together.                                                   *)
Retired(s) == s \in Active /\ script'[s].status = "invalidated"
RetiredOnOwnEvidence ==
    [][\A s \in Script : Retired(s) =>
         \/ \E d \in Definition : ChangeGrants(d)
         \/ \E r \in Run : run[r].script = s /\ run'[r] # run[r]
         \/ \E n \in Script : /\ script[n].status = "candidate"
                             /\ script'[n].status = "active"
                             /\ run[script[n].from].script = s]_vars

(* Every run that ended is learned from or given up, and what the learner  *)
(* recommends is compiled, refused or superseded: nothing is forgotten     *)
(* with the worker that had it.                                            *)
(* Liveness of both queues, packages/compiler/src/jobs.ts "the next worker *)
(* reclaims it instead of losing the eligibility".                         *)
Owed(r) == \/ learn[r].status \in {"queued", "running"}
           \/ Pending(r) \/ Open(r)

QueuesDrain == \A r \in Run : Owed(r) ~> ~Owed(r)
=============================================================================
