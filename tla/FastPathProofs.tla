--------------------------- MODULE FastPathProofs ---------------------------
(***************************************************************************)
(* The fast path's promises for any number of runs, scripts, workers and   *)
(* contents of the task, any limits and any number of faults.              *)
(***************************************************************************)
EXTENDS FastPath, FiniteSetTheorems, SequenceTheorems, TLAPS

ScriptRow == [status : {"none", "candidate", "active", "invalidated"},
              def : Definition, from : Run \cup {None}]
RunRow == [pc : {"new", "started", "loaded", "over", "queued", "gone"},
           status : {"none", "running", "succeeded", "failed"},
           mode : Mode, def : Definition, script : Script \cup {None},
           ok : BOOLEAN, deopt : {"no", "planned", "guard"}]
LearnRow == [status : JobStatus, def : Definition, script : Script \cup {None},
             attempts : Nat, wanted : BOOLEAN, sent : BOOLEAN]
JobRow == [status : JobStatus, def : Definition, expected : Script \cup {None},
           attempts : Nat]
LearnerRow == [run : Run \cup {None}, attempts : Nat, rev : Nat]
CompilerRow == [pc : {"idle", "compiling", "compiled", "promoted"},
                run : Run \cup {None}, attempts : Nat, script : Script \cup {None}]

(* A learning job is about its run as it was started, and once only.       *)
LearnsItsRun ==
    \A r \in Run :
       /\ learn[r].status # "none" =>
             learn[r].def = run[r].def /\ run[r].pc \in {"queued", "gone"}
       /\ job[r].status # "none" => learn[r].status = "succeeded"

(* A compile worker has a run that was learned from, and what it compiled  *)
(* is of that run's contents.                                              *)
WorksFor(c) ==
    /\ compiler[c].pc # "idle" =>
          compiler[c].run \in Run /\ job[compiler[c].run].status # "none"
    /\ compiler[c].pc = "compiled" =>
          /\ compiler[c].script \in Script
          /\ script[compiler[c].script].status # "none"
          /\ script[compiler[c].script].def = run[compiler[c].run].def

CompilesItsRun == \A c \in Compiler : WorksFor(c)

(* ServedFitsTask without counting. *)
Served ==
    /\ \A s \in Active : script[s].def = task.def
    /\ \A s, t \in Active : s = t
    /\ task.mode = "compiled" <=> Active # {}

Learned == {r \in Run : learn[r].status = "succeeded"}

IInv == TypeOK /\ LearnsItsRun /\ CompilesItsRun /\ Served /\ LearnedOnce

-----------------------------------------------------------------------------
LEMMA Types ==
    TypeOK <=>
       /\ task \in [mode : Mode, def : Definition, rev : Nat, deopts : Seq(BOOLEAN)]
       /\ script \in [Script -> ScriptRow]
       /\ run \in [Run -> RunRow]
       /\ ended \in Seq(Run)
       /\ learn \in [Run -> LearnRow]
       /\ job \in [Run -> JobRow]
       /\ learner \in [Learner -> LearnerRow]
       /\ compiler \in [Compiler -> CompilerRow]
       /\ faults \in 0 .. MaxFaults
BY DEF TypeOK, ScriptRow, RunRow, LearnRow, JobRow, LearnerRow, CompilerRow

LEMMA Constants ==
    /\ None \notin Run /\ None \notin Script /\ IsFiniteSet(Run)
    /\ LearnAttempts \in Nat /\ CompileAttempts \in Nat
    /\ DemoteDeopts \in Nat /\ DeoptWindow \in Nat /\ DeoptWindow > 0
    /\ MaxFaults \in Nat
BY FastPathAssumption

(* The shelf. *)
LEMMA TheActiveScript ==
    /\ Active = {} => ActiveScript = None
    /\ Active # {} => ActiveScript \in Active /\ ActiveScript \in Script
    /\ ActiveScript \in Script \cup {None}
<1>1. CASE Active = {}
  BY <1>1 DEF ActiveScript
<1>2. CASE Active # {}
  <2>1. \E s \in Active : TRUE
    BY <1>2
  <2>2. ActiveScript \in Active
    BY <1>2, <2>1 DEF ActiveScript
  <2>3. QED
    BY <1>2, <2>2 DEF Active
<1>3. QED
  BY <1>1, <1>2

LEMMA InvalidatedShelf ==
    ASSUME script \in [Script -> ScriptRow], NEW gone \in SUBSET Script
    PROVE  /\ Invalidated(gone) \in [Script -> ScriptRow]
           /\ \A s \in Script :
                 /\ Invalidated(gone)[s].def = script[s].def
                 /\ Invalidated(gone)[s].from = script[s].from
                 /\ s \in gone => Invalidated(gone)[s].status = "invalidated"
                 /\ s \notin gone => Invalidated(gone)[s] = script[s]
<1>1. ASSUME NEW s \in Script
      PROVE  /\ [script[s] EXCEPT !.status = "invalidated"] \in ScriptRow
             /\ [script[s] EXCEPT !.status = "invalidated"].def = script[s].def
             /\ [script[s] EXCEPT !.status = "invalidated"].from = script[s].from
             /\ [script[s] EXCEPT !.status = "invalidated"].status = "invalidated"
  <2>1. script[s] \in ScriptRow
    OBVIOUS
  <2>2. QED
    BY <2>1 DEF ScriptRow
<1>2. QED
  BY <1>1 DEF Invalidated

LEMMA LastTyped ==
    ASSUME NEW seq \in Seq(BOOLEAN), NEW n \in Nat, n > 0
    PROVE  Last(seq, n) \in Seq(BOOLEAN)
<1> DEFINE m == IF Len(seq) > n THEN Len(seq) - n + 1 ELSE 1
<1>1. m \in Int /\ m >= 1 /\ Len(seq) \in Int
  OBVIOUS
<1>2. \A i \in m .. Len(seq) : seq[i] \in BOOLEAN
  BY <1>1
<1>3. QED
  BY <1>1, <1>2, SubSeqProperties DEF Last

-----------------------------------------------------------------------------
(* Who may change what. *)
Grants == \E d \in Definition : ChangeGrants(d)
Demotes == \E r \in Run : RuntimeChanged(r) \/ Record(r)
Runs == \E r \in Run : Start(r) \/ Load(r) \/ Execute(r) \/ Settle(r) \/ Reap(r)
Enqueues == \E r \in Run : Enqueue(r)
Dispatches == \E l \in Learner, r \in Run : Dispatch(l, r)
Learns == \E l \in Learner :
             \/ \E r \in Run : ClaimLearning(l, r)
             \/ LearningFails(l) \/ NoEvidence(l) \/ LearnerDies(l)
Applies == \E l \in Learner : Apply(l)
Compiling == \E c \in Compiler :
             \/ \E r \in Run : ClaimCompile(c, r)
             \/ CompileRefused(c) \/ CompileFails(c) \/ NotPromoted(c)
             \/ FinishCompile(c) \/ CompilerDies(c)
Yields == \E c \in Compiler, s \in Script : Candidate(c, s)
Promotes == \E c \in Compiler : Promote(c)

LEMMA Steps ==
    ASSUME [Next]_vars
    PROVE  \/ Grants \/ Demotes \/ Runs \/ Enqueues \/ Dispatches \/ Learns \/ Applies
           \/ Compiling \/ Yields \/ Promotes \/ UNCHANGED vars
BY DEF Next, RunStep, LearnerStep, CompilerStep, Grants, Demotes, Runs, Enqueues, Dispatches,
       Learns, Applies, Compiling, Yields, Promotes

LEMMA Frames ==
    /\ Grants => UNCHANGED <<run, ended, learn, job, learner, compiler, faults>>
    /\ Demotes => UNCHANGED <<ended, learn, job, learner, compiler, faults>>
    /\ Runs => UNCHANGED <<task, script, learn, job, learner, compiler>>
    /\ Enqueues => UNCHANGED <<task, script, job, ended, learner, compiler, faults>>
    /\ Dispatches => UNCHANGED <<task, script, run, ended, learner, compiler, faults>>
    /\ Learns => UNCHANGED <<task, script, job, run, ended, compiler>>
    /\ Applies => UNCHANGED <<script, job, run, ended, compiler, faults>>
    /\ Compiling => UNCHANGED <<task, script, learn, run, ended, learner>>
    /\ Yields => UNCHANGED <<task, learn, job, run, ended, learner, faults>>
    /\ Promotes => UNCHANGED <<learn, job, run, ended, learner, faults>>
<1>1. Grants => UNCHANGED <<run, ended, learn, job, learner, compiler, faults>>
  BY DEF Grants, ChangeGrants
<1>2. Demotes => UNCHANGED <<ended, learn, job, learner, compiler, faults>>
  BY DEF Demotes, RuntimeChanged, Record
<1>3. Runs => UNCHANGED <<task, script, learn, job, learner, compiler>>
  BY DEF Runs, Start, Load, Execute, Settle, Reap, rows
<1>4. Enqueues => UNCHANGED <<task, script, job, ended, learner, compiler, faults>>
  BY DEF Enqueues, Enqueue
<1>5. Dispatches => UNCHANGED <<task, script, run, ended, learner, compiler, faults>>
  BY DEF Dispatches, Dispatch
<1>6. Learns => UNCHANGED <<task, script, job, run, ended, compiler>>
  BY DEF Learns, ClaimLearning, LearningFails, NoEvidence, LearnerDies, rows
<1>7. Applies => UNCHANGED <<script, job, run, ended, compiler, faults>>
  BY DEF Applies, Apply
<1>8. Compiling => UNCHANGED <<task, script, learn, run, ended, learner>>
  BY DEF Compiling, ClaimCompile, CompileRefused, CompileFails, NotPromoted, FinishCompile,
         CompilerDies, rows
<1>9. Yields => UNCHANGED <<task, learn, job, run, ended, learner, faults>>
  BY DEF Yields, Candidate
<1>10. Promotes => UNCHANGED <<learn, job, run, ended, learner, faults>>
  BY DEF Promotes, Promote
<1>11. QED
  BY <1>1, <1>2, <1>3, <1>4, <1>5, <1>6, <1>7, <1>8, <1>9, <1>10

-----------------------------------------------------------------------------
(* The parts of a step, each about what it changes. *)
Emptied ==
    /\ \A s \in Script : /\ script'[s].def = script[s].def
                         /\ (script'[s].status = "none") <=> (script[s].status = "none")
                         /\ script'[s].status # "active"
    /\ task'.mode = "ai"

ShelfKept ==
    /\ \A s \in Script : /\ script'[s].def = script[s].def
                         /\ (script'[s].status = "none") <=> (script[s].status = "none")
                         /\ (script'[s].status = "active") <=> (script[s].status = "active")
    /\ task'.mode = task.mode /\ task'.def = task.def

TaskRow == [mode : Mode, def : Definition, rev : Nat, deopts : Seq(BOOLEAN)]

LEMMA EmptyingEffect ==
    ASSUME IInv, NEW d \in Definition, NEW m \in Mode, NEW w \in Seq(BOOLEAN),
           NEW gone \in SUBSET Script, Active \subseteq gone, gone \subseteq Active,
           task' = [task EXCEPT !.def = d, !.mode = m, !.deopts = w],
           Active # {} => m = "ai", Active = {} => m = task.mode,
           script' = Invalidated(gone)
    PROVE  Emptied /\ task'.rev = task.rev /\ task' \in TaskRow /\ script' \in [Script -> ScriptRow]
<1>1. task \in TaskRow /\ script \in [Script -> ScriptRow]
  BY Types DEF IInv, TaskRow
<1>2. task' \in TaskRow /\ task'.rev = task.rev /\ task'.mode = m
  BY <1>1 DEF TaskRow
<1>3. m = "ai"
  <2>1. task.mode \in {"ai", "compiled"}
    BY <1>1 DEF TaskRow, Mode
  <2>2. QED
    BY <2>1 DEF IInv, Served
<1>4. /\ script' \in [Script -> ScriptRow]
      /\ \A s \in Script : /\ script'[s].def = script[s].def
                           /\ s \in gone => script'[s].status = "invalidated"
                           /\ s \notin gone => script'[s] = script[s]
  BY <1>1, InvalidatedShelf
<1>5. \A s \in Script : s \in gone <=> script[s].status = "active"
  BY DEF Active
<1>6. QED
  BY <1>2, <1>3, <1>4, <1>5 DEF Emptied

(* The same for a shelf that is emptied because somebody demotes. *)
LEMMA DemotingEffect ==
    ASSUME IInv, NEW w \in Seq(BOOLEAN), Active = {} => task.mode = "ai",
           NEW gone, gone = Active, script' = Invalidated(gone),
           task' = [task EXCEPT !.mode = "ai", !.deopts = w]
    PROVE  Emptied /\ task'.rev = task.rev /\ task' \in TaskRow /\ script' \in [Script -> ScriptRow]
<1>1. task \in TaskRow
  BY Types DEF IInv, TaskRow
<1> DEFINE m == "ai"
<1>2. m \in Mode /\ gone \in SUBSET Script /\ Active \subseteq gone /\ gone \subseteq Active
  BY DEF Mode, Active
<1>3. (Active # {} => m = "ai") /\ (Active = {} => m = task.mode)
  OBVIOUS
<1>4. task' = [task EXCEPT !.def = task.def, !.mode = m, !.deopts = w] /\ task.def \in Definition
  BY <1>1 DEF TaskRow
<1> HIDE DEF m
<1>5. QED
  BY <1>2, <1>3, <1>4, EmptyingEffect

LEMMA GrantsEffect ==
    ASSUME IInv, Grants
    PROVE  Emptied /\ task'.rev = task.rev /\ task' \in TaskRow /\ script' \in [Script -> ScriptRow]
<1>1. PICK d \in Definition : ChangeGrants(d)
  BY DEF Grants
<1>2. task \in TaskRow
  BY Types DEF IInv, TaskRow
<1> DEFINE m == IF Active # {} THEN "ai" ELSE task.mode
<1>3. m \in Mode /\ task.deopts \in Seq(BOOLEAN) /\ Active \subseteq Script
  BY <1>2 DEF TaskRow, Mode, Active
<1>4. task' = [task EXCEPT !.def = d, !.mode = m] /\ script' = Invalidated(Active)
  BY <1>1 DEF ChangeGrants
<1>5. task' = [task EXCEPT !.def = d, !.mode = m, !.deopts = task.deopts]
  BY <1>2, <1>4 DEF TaskRow
<1>6. QED
  BY <1>3, <1>4, <1>5, EmptyingEffect

LEMMA DemotesEffect ==
    ASSUME IInv, Demotes
    PROVE  /\ Emptied \/ ShelfKept
           /\ task'.rev = task.rev /\ task' \in TaskRow
           /\ script' \in [Script -> ScriptRow]
<1>1. task \in TaskRow /\ script \in [Script -> ScriptRow] /\ run \in [Run -> RunRow]
  BY Types DEF IInv, TaskRow
<1>2. task.def \in Definition /\ task.deopts \in Seq(BOOLEAN) /\ task.mode \in Mode
  BY <1>1 DEF TaskRow
<1>3. ASSUME UNCHANGED script, NEW w \in Seq(BOOLEAN), task' = [task EXCEPT !.deopts = w]
      PROVE  ShelfKept /\ task'.rev = task.rev /\ task' \in TaskRow
  BY <1>1, <1>3 DEF ShelfKept, TaskRow
<1>4. task = [task EXCEPT !.deopts = task.deopts]
  BY <1>1 DEF TaskRow
<1>5. ASSUME NEW r \in Run, RuntimeChanged(r), run[r].script \in Active
      PROVE  Emptied /\ task'.rev = task.rev /\ task' \in TaskRow
             /\ script' \in [Script -> ScriptRow]
  <2>1. script' = Invalidated({run[r].script}) /\ task' = [task EXCEPT !.mode = "ai"]
    BY <1>5 DEF RuntimeChanged
  <2>2. task' = [task EXCEPT !.mode = "ai", !.deopts = task.deopts]
    BY <1>1, <2>1 DEF TaskRow
  <2>3. {run[r].script} = Active
    BY <1>5 DEF IInv, Served
  <2>4. QED
    BY <1>2, <2>1, <2>2, <2>3, DemotingEffect
<1>6. ASSUME NEW r \in Run, RuntimeChanged(r), run[r].script \notin Active
      PROVE  UNCHANGED <<task, script>>
  BY <1>6 DEF RuntimeChanged
<1>7. ASSUME NEW r \in Run, Record(r)
      PROVE  /\ Emptied \/ ShelfKept
             /\ task'.rev = task.rev /\ task' \in TaskRow
             /\ script' \in [Script -> ScriptRow]
  <2> DEFINE window == Last(Append(task.deopts, run[r].deopt = "guard"), DeoptWindow)
  <2>1. window \in Seq(BOOLEAN)
    <3>1. Append(task.deopts, run[r].deopt = "guard") \in Seq(BOOLEAN)
      BY <1>2, AppendProperties
    <3>2. QED
      BY <3>1, Constants, LastTyped
  <2>2. \/ UNCHANGED <<task, script>>
        \/ task' = [task EXCEPT !.deopts = window] /\ UNCHANGED script
        \/ script' = Invalidated(Active) /\ task' = [task EXCEPT !.mode = "ai", !.deopts = <<>>]
    BY <1>7 DEF Record
  <2>3. CASE UNCHANGED <<task, script>>
    BY <1>1, <1>2, <1>3, <1>4, <2>3
  <2>4. CASE task' = [task EXCEPT !.deopts = window] /\ UNCHANGED script
    BY <1>1, <1>3, <2>1, <2>4
  <2>5. CASE script' = Invalidated(Active) /\ task' = [task EXCEPT !.mode = "ai", !.deopts = <<>>]
    <3>1. Active = {} => task.mode = "ai"
      BY <1>2 DEF IInv, Served, Mode
    <3>2. <<>> \in Seq(BOOLEAN)
      OBVIOUS
    <3>3. QED
      BY <2>5, <3>1, <3>2, DemotingEffect
  <2>6. QED
    BY <2>2, <2>3, <2>4, <2>5
<1>8. QED
  BY <1>1, <1>2, <1>3, <1>4, <1>5, <1>6, <1>7 DEF Demotes

(* What a run's own steps keep: what it was started with, and that it has  *)
(* been enqueued.                                                          *)
RunsKept ==
    \A r \in Run :
       /\ run[r].pc # "new" => run'[r].def = run[r].def
       /\ run[r].pc \in {"queued", "gone"} => run'[r].pc \in {"queued", "gone"}

(* How the rows of the runs may be rewritten. *)
LEMMA RunRewritten ==
    ASSUME IInv, NEW r \in Run, NEW x \in RunRow, run' = [run EXCEPT ![r] = x],
           run[r].pc # "new" => x.def = run[r].def,
           run[r].pc \in {"queued", "gone"} => x.pc \in {"queued", "gone"}
    PROVE  run' \in [Run -> RunRow] /\ RunsKept
BY Types DEF IInv, RunsKept

LEMMA RunsEffect ==
    ASSUME IInv, Runs
    PROVE  run' \in [Run -> RunRow] /\ RunsKept /\ ended' \in Seq(Run) /\ faults' \in 0 .. MaxFaults
<1>1. /\ task \in TaskRow /\ run \in [Run -> RunRow] /\ ended \in Seq(Run)
      /\ faults \in 0 .. MaxFaults
  BY Types DEF IInv, TaskRow
<1>2. PICK r \in Run : Start(r) \/ Load(r) \/ Execute(r) \/ Settle(r) \/ Reap(r)
  BY DEF Runs
<1>3. run[r] \in RunRow
  BY <1>1
<1>4. CASE Start(r)
  <2> DEFINE x == [run[r] EXCEPT !.pc = IF task.mode = "ai" THEN "loaded" ELSE "started",
                                 !.status = "running", !.mode = task.mode, !.def = task.def]
  <2>1. run' = [run EXCEPT ![r] = x] /\ UNCHANGED <<ended, faults>> /\ run[r].pc = "new"
    BY <1>1, <1>4 DEF Start
  <2>2. task.mode \in Mode /\ task.def \in Definition
    BY <1>1 DEF TaskRow
  <2>3. x \in RunRow
    BY <1>3, <2>2 DEF RunRow
  <2> HIDE DEF x
  <2>4. QED
    BY <1>1, <2>1, <2>3, RunRewritten
<1>5. CASE Load(r)
  <2> DEFINE x == [run[r] EXCEPT !.pc = IF ActiveScript = None THEN "over" ELSE "loaded",
                                 !.script = ActiveScript]
  <2>1. run' = [run EXCEPT ![r] = x] /\ UNCHANGED <<ended, faults>> /\ run[r].pc = "started"
    BY <1>1, <1>5 DEF Load
  <2>2. x \in RunRow /\ x.def = run[r].def
    BY <1>3, TheActiveScript DEF RunRow
  <2> HIDE DEF x
  <2>3. QED
    BY <1>1, <2>1, <2>2, RunRewritten
<1>6. CASE Execute(r)
  <2>1. PICK ok \in BOOLEAN, deopt \in {"no", "planned", "guard"} :
           run' = [run EXCEPT ![r].pc = "over", ![r].ok = ok, ![r].deopt = deopt]
    BY <1>6 DEF Execute
  <2> DEFINE x == [run[r] EXCEPT !.pc = "over", !.ok = ok, !.deopt = deopt]
  <2>2. run' = [run EXCEPT ![r] = x] /\ UNCHANGED <<ended, faults>> /\ run[r].pc = "loaded"
    BY <1>1, <1>6, <2>1 DEF Execute, rows
  <2>3. x \in RunRow /\ x.def = run[r].def
    BY <1>3 DEF RunRow
  <2> HIDE DEF x
  <2>4. QED
    BY <1>1, <2>2, <2>3, RunRewritten
<1>7. CASE Settle(r)
  <2> DEFINE x == [run[r] EXCEPT !.status = IF run[r].ok THEN "succeeded" ELSE "failed"]
  <2>1. run' = [run EXCEPT ![r] = x] /\ ended' = Append(ended, r) /\ UNCHANGED faults
    BY <1>1, <1>7 DEF Settle
  <2>2. x \in RunRow /\ x.def = run[r].def /\ x.pc = run[r].pc
    BY <1>3 DEF RunRow
  <2>3. Append(ended, r) \in Seq(Run)
    BY <1>1
  <2> HIDE DEF x
  <2>4. QED
    BY <1>1, <2>1, <2>2, <2>3, RunRewritten
<1>8. CASE Reap(r)
  <2>1. PICK pc \in {run[r].pc, "gone"} :
           run' = [run EXCEPT ![r].status = "failed", ![r].pc = pc]
    BY <1>8 DEF Reap
  <2> DEFINE x == [run[r] EXCEPT !.status = "failed", !.pc = pc]
  <2>2. run' = [run EXCEPT ![r] = x] /\ ended' = Append(ended, r)
    BY <1>1, <1>8, <2>1 DEF Reap
  <2>3. x \in RunRow /\ x.def = run[r].def /\ x.pc = pc
    BY <1>3 DEF RunRow
  <2>4. Append(ended, r) \in Seq(Run) /\ faults' \in 0 .. MaxFaults
    BY <1>1, <1>8, Constants DEF Reap, Fault
  <2> HIDE DEF x
  <2>5. QED
    BY <1>1, <2>2, <2>3, <2>4, RunRewritten
<1>9. QED
  BY <1>2, <1>4, <1>5, <1>6, <1>7, <1>8

LEMMA DemotesKeepsRuns ==
    ASSUME IInv, Demotes
    PROVE  run' \in [Run -> RunRow] /\ RunsKept
<1>1. run \in [Run -> RunRow]
  BY Types DEF IInv
<1>2. ASSUME NEW r \in Run, RuntimeChanged(r)
      PROVE  run' \in [Run -> RunRow] /\ RunsKept
  <2>1. PICK ok \in BOOLEAN :
           run' = [run EXCEPT ![r].pc = "over", ![r].ok = ok, ![r].deopt = "guard"]
    BY <1>2 DEF RuntimeChanged
  <2> DEFINE x == [run[r] EXCEPT !.pc = "over", !.ok = ok, !.deopt = "guard"]
  <2>2. run' = [run EXCEPT ![r] = x] /\ run[r].pc = "loaded"
    BY <1>1, <1>2, <2>1 DEF RuntimeChanged
  <2>3. x \in RunRow /\ x.def = run[r].def
    BY <1>1 DEF RunRow
  <2> HIDE DEF x
  <2>4. QED
    BY <2>2, <2>3, RunRewritten
<1>3. ASSUME NEW r \in Run, Record(r)
      PROVE  run' \in [Run -> RunRow] /\ RunsKept
  <2> DEFINE x == [run[r] EXCEPT !.pc = "gone"]
  <2>1. run' = [run EXCEPT ![r] = x]
    BY <1>1, <1>3 DEF Record
  <2>2. x \in RunRow /\ x.def = run[r].def /\ x.pc = "gone"
    BY <1>1 DEF RunRow
  <2> HIDE DEF x
  <2>3. QED
    BY <2>1, <2>2, RunRewritten
<1>4. QED
  BY <1>2, <1>3 DEF Demotes

(* Enqueue: the learning job of a run is made once, from the run. *)
LEMMA EnqueueEffect ==
    ASSUME IInv, NEW r \in Run, Enqueue(r)
    PROVE  /\ run' \in [Run -> RunRow] /\ RunsKept
           /\ learn' \in [Run -> LearnRow]
           /\ run[r].pc = "over" /\ run'[r].pc \in {"queued", "gone"}
           /\ run'[r].def = run[r].def
           /\ \A q \in Run \ {r} : learn'[q] = learn[q]
           /\ \/ learn'[r] = learn[r]
              \/ learn'[r].status = "queued" /\ learn'[r].def = run[r].def
<1>1. run \in [Run -> RunRow] /\ learn \in [Run -> LearnRow]
  BY Types DEF IInv
<1>2. run[r] \in RunRow /\ learn[r] \in LearnRow
  BY <1>1
<1> DEFINE x == [run[r] EXCEPT !.pc = IF run[r].mode = "ai" THEN "gone" ELSE "queued"]
           y == [learn[r] EXCEPT !.status = "queued", !.def = run[r].def, !.script = run[r].script]
<1>3. run' = [run EXCEPT ![r] = x] /\ run[r].pc = "over"
  BY <1>1 DEF Enqueue
<1>4. x \in RunRow /\ x.def = run[r].def /\ x.pc \in {"queued", "gone"}
  BY <1>2 DEF RunRow
<1>5. y \in LearnRow /\ y.status = "queued" /\ y.def = run[r].def
  BY <1>2 DEF LearnRow, RunRow, JobStatus
<1>6. learn' = learn \/ learn' = [learn EXCEPT ![r] = y]
  BY <1>1 DEF Enqueue
<1> HIDE DEF x, y
<1>7. run' \in [Run -> RunRow] /\ RunsKept
  BY <1>3, <1>4, RunRewritten
<1>8. run'[r] = x
  BY <1>1, <1>3
<1>9. QED
  BY <1>1, <1>3, <1>4, <1>5, <1>6, <1>7, <1>8

-----------------------------------------------------------------------------
(* The queues. *)
LearnKept ==
    \A r \in Run : /\ learn'[r].def = learn[r].def
                   /\ learn'[r].status = "none" <=> learn[r].status = "none"
                   /\ learn'[r].status = "succeeded" <=> learn[r].status = "succeeded"

JobsKept ==
    \A r \in Run : job'[r].status = "none" <=> job[r].status = "none"

LEMMA LearnRewritten ==
    ASSUME IInv, NEW r \in Run, NEW x \in LearnRow, learn' = [learn EXCEPT ![r] = x],
           x.def = learn[r].def,
           x.status = "none" <=> learn[r].status = "none",
           x.status = "succeeded" <=> learn[r].status = "succeeded"
    PROVE  learn' \in [Run -> LearnRow] /\ LearnKept
BY Types DEF IInv, LearnKept

LEMMA JobRewritten ==
    ASSUME IInv, NEW r \in Run, NEW x \in JobRow, job' = [job EXCEPT ![r] = x],
           x.status = "none" <=> job[r].status = "none"
    PROVE  job' \in [Run -> JobRow] /\ JobsKept
BY Types DEF IInv, JobsKept

LEMMA DispatchesEffect ==
    ASSUME IInv, Dispatches
    PROVE  /\ learn' \in [Run -> LearnRow] /\ LearnKept
           /\ job' \in [Run -> JobRow]
           /\ \A r \in Run : \/ job'[r].status = "none" <=> job[r].status = "none"
                             \/ learn[r].status = "succeeded"
<1>1. /\ learn \in [Run -> LearnRow] /\ job \in [Run -> JobRow] /\ task \in TaskRow
  BY Types DEF IInv, TaskRow
<1>2. PICK l \in Learner, r \in Run : Dispatch(l, r)
  BY DEF Dispatches
<1>3. learn[r] \in LearnRow /\ job[r] \in JobRow /\ learn[r].status = "succeeded"
  BY <1>1, <1>2 DEF Dispatch, Pending
<1>4. CASE Superseded(r)
  <2> DEFINE x == [learn[r] EXCEPT !.wanted = FALSE]
  <2>1. learn' = [learn EXCEPT ![r] = x] /\ job' = job
    BY <1>1, <1>2, <1>4 DEF Dispatch
  <2>2. x \in LearnRow /\ x.def = learn[r].def /\ x.status = learn[r].status
    BY <1>3 DEF LearnRow
  <2> HIDE DEF x
  <2>3. QED
    BY <1>1, <2>1, <2>2, LearnRewritten
<1>5. CASE ~Superseded(r)
  <2> DEFINE x == [learn[r] EXCEPT !.sent = TRUE]
             y == [job[r] EXCEPT !.status = "queued", !.def = task.def, !.expected = ActiveScript]
  <2>1. learn' = [learn EXCEPT ![r] = x] /\ job' = [job EXCEPT ![r] = y]
    BY <1>1, <1>2, <1>5 DEF Dispatch
  <2>2. x \in LearnRow /\ x.def = learn[r].def /\ x.status = learn[r].status
    BY <1>3 DEF LearnRow
  <2>3. y \in JobRow
    BY <1>1, <1>3, TheActiveScript DEF JobRow, JobStatus, TaskRow
  <2> HIDE DEF x, y
  <2>4. learn' \in [Run -> LearnRow] /\ LearnKept
    BY <2>1, <2>2, LearnRewritten
  <2>5. QED
    BY <1>1, <1>3, <2>1, <2>3, <2>4
<1>6. QED
  BY <1>4, <1>5

LEMMA LearnsEffect ==
    ASSUME IInv, Learns
    PROVE  /\ learn' \in [Run -> LearnRow] /\ LearnKept
           /\ learner' \in [Learner -> LearnerRow] /\ faults' \in 0 .. MaxFaults
<1>1. /\ learn \in [Run -> LearnRow] /\ learner \in [Learner -> LearnerRow]
      /\ task \in TaskRow /\ faults \in 0 .. MaxFaults
  BY Types DEF IInv, TaskRow
<1>2. Fault => faults' \in 0 .. MaxFaults
  BY <1>1, Constants DEF Fault
<1>3. IdleLearner \in LearnerRow
  BY DEF IdleLearner, LearnerRow
<1>4. UNCHANGED learn => learn' \in [Run -> LearnRow] /\ LearnKept
  BY <1>1 DEF LearnKept
<1>5. ASSUME NEW l \in Learner, NEW r \in Run, ClaimLearning(l, r)
      PROVE  /\ learn' \in [Run -> LearnRow] /\ LearnKept
             /\ learner' \in [Learner -> LearnerRow] /\ faults' \in 0 .. MaxFaults
  <2> DEFINE st == IF task.def = learn[r].def THEN "running" ELSE "refused"
             n == learn[r].attempts + 1
             x == [learn[r] EXCEPT !.attempts = n, !.status = st]
             y == IF task.def # learn[r].def THEN IdleLearner
                  ELSE [run |-> r, attempts |-> learn[r].attempts + 1, rev |-> task.rev]
  <2>1. learn' = [learn EXCEPT ![r] = x] /\ learner' = [learner EXCEPT ![l] = y]
    BY <1>1, <1>5 DEF ClaimLearning
  <2>2. learn[r] \in LearnRow /\ learn[r].attempts \in Nat /\ task.rev \in Nat
    BY <1>1 DEF LearnRow, TaskRow
  <2>3. learn[r].status \in {"queued", "running"}
    BY <1>5 DEF ClaimLearning, LearningDue
  <2>4. x \in LearnRow /\ x.def = learn[r].def /\ x.status \in {"running", "refused"}
    <3>1. st \in {"running", "refused"} /\ n \in Nat
      BY <2>2
    <3> HIDE DEF st, n
    <3>2. QED
      BY <2>2, <3>1 DEF LearnRow, JobStatus
  <2>5. y \in LearnerRow
    BY <1>3, <2>2 DEF LearnerRow
  <2> HIDE DEF x, y
  <2>6. learn' \in [Run -> LearnRow] /\ LearnKept
    BY <2>1, <2>3, <2>4, LearnRewritten
  <2>7. faults' \in 0 .. MaxFaults
    BY <1>1, <1>2, <1>5 DEF ClaimLearning
  <2>8. QED
    BY <1>1, <2>1, <2>5, <2>6, <2>7
<1>6. ASSUME NEW l \in Learner, LearningFails(l) \/ NoEvidence(l)
      PROVE  learn' \in [Run -> LearnRow] /\ LearnKept
  <2> DEFINE r == learner[l].run
  <2>1. r \in Run
    BY <1>1, <1>6 DEF LearningFails, NoEvidence, LearnerRow
  <2>2. PICK st \in {"queued", "failed", "refused"} :
           learn' = [learn EXCEPT ![r].status = IF ~Holds(l, r) THEN @ ELSE st]
    BY <1>6 DEF LearningFails, NoEvidence
  <2> DEFINE x == [learn[r] EXCEPT !.status = st]
  <2>3. CASE ~Holds(l, r)
    <3>1. learn' = learn
      <4>1. learn' = [learn EXCEPT ![r].status = learn[r].status]
        BY <2>2, <2>3
      <4>2. learn[r] \in LearnRow
        BY <1>1, <2>1
      <4>3. QED
        BY <1>1, <2>1, <4>1, <4>2 DEF LearnRow
    <3>2. QED
      BY <1>4, <3>1
  <2>4. CASE Holds(l, r)
    <3>1. learn' = [learn EXCEPT ![r] = x] /\ learn[r].status = "running"
      BY <1>1, <2>1, <2>2, <2>4 DEF Holds
    <3>2. learn[r] \in LearnRow
      BY <1>1, <2>1
    <3>3. x \in LearnRow /\ x.def = learn[r].def /\ x.status \in {"queued", "failed", "refused"}
      BY <3>2 DEF LearnRow, JobStatus
    <3> HIDE DEF x, r
    <3>4. QED
      BY <2>1, <3>1, <3>3, LearnRewritten
  <2>5. QED
    BY <2>3, <2>4
<1>7. ASSUME NEW l \in Learner, LearningFails(l) \/ NoEvidence(l) \/ LearnerDies(l)
      PROVE  learner' \in [Learner -> LearnerRow] /\ faults' \in 0 .. MaxFaults
  BY <1>1, <1>2, <1>3, <1>7 DEF LearningFails, NoEvidence, LearnerDies
<1>8. ASSUME NEW l \in Learner, LearnerDies(l)
      PROVE  learn' \in [Run -> LearnRow] /\ LearnKept
  BY <1>4, <1>8 DEF LearnerDies, rows
<1>9. QED
  BY <1>5, <1>6, <1>7, <1>8 DEF Learns

(* applyResult: the prompt changes only with a job that leaves "running"   *)
(* for "succeeded".                                                        *)
LEMMA AppliesEffect ==
    ASSUME IInv, Applies
    PROVE  /\ task' \in TaskRow /\ task'.mode = task.mode /\ task'.def = task.def
           /\ learner' \in [Learner -> LearnerRow]
           /\ learn' \in [Run -> LearnRow]
           /\ \A r \in Run : /\ learn'[r].def = learn[r].def
                             /\ learn'[r].status = "none" <=> learn[r].status = "none"
           /\ \/ LearnKept /\ task'.rev = task.rev
              \/ /\ task'.rev \in {task.rev, task.rev + 1}
                 /\ \E r \in Run : /\ learn[r].status = "running"
                                   /\ learn'[r].status = "succeeded"
                                   /\ \A q \in Run \ {r} : learn'[q] = learn[q]
<1>1. /\ learn \in [Run -> LearnRow] /\ learner \in [Learner -> LearnerRow] /\ task \in TaskRow
  BY Types DEF IInv, TaskRow
<1>2. PICK l \in Learner : Apply(l)
  BY DEF Applies
<1> DEFINE r == learner[l].run
<1>3. r \in Run /\ learner' = [learner EXCEPT ![l] = IdleLearner]
  BY <1>1, <1>2 DEF Apply, LearnerRow
<1>4. learner' \in [Learner -> LearnerRow]
  BY <1>1, <1>3 DEF IdleLearner, LearnerRow
<1>5. learn[r] \in LearnRow
  BY <1>1, <1>3
<1>6. CASE UNCHANGED <<task, learn>>
  BY <1>1, <1>4, <1>6 DEF LearnKept
<1>7. CASE Owned(l) /\ learn' = [learn EXCEPT ![r].status = "refused"] /\ UNCHANGED task
  <2> DEFINE x == [learn[r] EXCEPT !.status = "refused"]
  <2>1. learn' = [learn EXCEPT ![r] = x] /\ learn[r].status = "running"
    BY <1>1, <1>7 DEF Owned, Holds
  <2>2. x \in LearnRow /\ x.def = learn[r].def /\ x.status = "refused"
    BY <1>5 DEF LearnRow, JobStatus
  <2> HIDE DEF x, r
  <2>3. learn' \in [Run -> LearnRow] /\ LearnKept
    BY <1>3, <2>1, <2>2, LearnRewritten
  <2>4. QED
    BY <1>1, <1>4, <1>7, <2>3 DEF LearnKept
<1>8. CASE /\ Owned(l)
           /\ \E changed, wanted \in BOOLEAN :
                 /\ task' = [task EXCEPT !.rev = IF changed THEN @ + 1 ELSE @]
                 /\ learn' = [learn EXCEPT ![r].status = "succeeded", ![r].wanted = wanted]
  <2>1. PICK changed \in BOOLEAN, wanted \in BOOLEAN :
           /\ task' = [task EXCEPT !.rev = IF changed THEN @ + 1 ELSE @]
           /\ learn' = [learn EXCEPT ![r].status = "succeeded", ![r].wanted = wanted]
    BY <1>8
  <2> DEFINE x == [learn[r] EXCEPT !.status = "succeeded", !.wanted = wanted]
  <2>2. learn' = [learn EXCEPT ![r] = x] /\ learn[r].status = "running"
    <3>1. learn[r].status = "running"
      BY <1>8 DEF Owned, Holds
    <3>2. learn' = [learn EXCEPT ![r] = x]
      <4> HIDE DEF r
      <4> QED BY <2>1
    <3> QED BY <3>1, <3>2
  <2>3. x \in LearnRow /\ x.def = learn[r].def /\ x.status = "succeeded"
    BY <1>5 DEF LearnRow, JobStatus
  <2>4. /\ task' \in TaskRow /\ task'.mode = task.mode /\ task'.def = task.def
        /\ task'.rev \in {task.rev, task.rev + 1}
    BY <1>1, <2>1 DEF TaskRow
  <2> HIDE DEF x, r
  <2>5. learn'[r] = x /\ \A q \in Run \ {r} : learn'[q] = learn[q]
    BY <1>1, <1>3, <2>2
  <2>6. learn' \in [Run -> LearnRow]
    BY <1>1, <1>3, <2>2, <2>3
  <2>7. QED
    BY <1>3, <1>4, <2>2, <2>3, <2>4, <2>5, <2>6
<1>9. QED
  BY <1>2, <1>6, <1>7, <1>8 DEF Apply

(* A compile worker ends up idle, or with a job it has just claimed. *)
CompilersKept ==
    \A c \in Compiler :
       \/ compiler'[c] = compiler[c]
       \/ compiler'[c].pc = "idle"
       \/ /\ compiler'[c].pc = "compiling" /\ compiler'[c].run \in Run
          /\ job[compiler'[c].run].status # "none"

LEMMA CompilingEffect ==
    ASSUME IInv, Compiling
    PROVE  /\ job' \in [Run -> JobRow] /\ JobsKept
           /\ compiler' \in [Compiler -> CompilerRow] /\ CompilersKept
           /\ faults' \in 0 .. MaxFaults
<1>1. /\ job \in [Run -> JobRow] /\ compiler \in [Compiler -> CompilerRow]
      /\ faults \in 0 .. MaxFaults
  BY Types DEF IInv
<1>2. Fault => faults' \in 0 .. MaxFaults
  BY <1>1, Constants DEF Fault
<1>3. IdleCompiler \in CompilerRow /\ IdleCompiler.pc = "idle"
  BY DEF IdleCompiler, CompilerRow
<1>4. ASSUME NEW c \in Compiler, Done(c)
      PROVE  compiler' \in [Compiler -> CompilerRow] /\ CompilersKept
  BY <1>1, <1>3, <1>4 DEF Done, CompilersKept
<1>5. ASSUME NEW c \in Compiler, NEW r \in Run, ClaimCompile(c, r)
      PROVE  /\ job' \in [Run -> JobRow] /\ JobsKept
             /\ compiler' \in [Compiler -> CompilerRow] /\ CompilersKept
             /\ faults' \in 0 .. MaxFaults
  <2> DEFINE n == job[r].attempts + 1
             st == IF Current(r) THEN "running" ELSE "refused"
             x == [job[r] EXCEPT !.attempts = n, !.status = st]
             y == IF Current(r)
                  THEN [pc |-> "compiling", run |-> r, script |-> None, attempts |-> n]
                  ELSE IdleCompiler
  <2>1. job' = [job EXCEPT ![r] = x] /\ compiler' = [compiler EXCEPT ![c] = y]
    BY <1>1, <1>5 DEF ClaimCompile
  <2>2. job[r] \in JobRow /\ n \in Nat /\ st \in {"running", "refused"}
    BY <1>1 DEF JobRow
  <2>3. job[r].status \in {"queued", "running"}
    BY <1>5 DEF ClaimCompile
  <2>4. y \in CompilerRow /\ (y.pc = "idle" \/ (y.pc = "compiling" /\ y.run = r))
    BY <1>3, <2>2 DEF CompilerRow
  <2> HIDE DEF st, n, y
  <2>5. x \in JobRow /\ x.status \in {"running", "refused"}
    BY <2>2 DEF JobRow, JobStatus
  <2> HIDE DEF x
  <2>6. job' \in [Run -> JobRow] /\ JobsKept
    BY <2>1, <2>3, <2>5, JobRewritten
  <2>7. compiler' \in [Compiler -> CompilerRow] /\ CompilersKept
    BY <1>1, <2>1, <2>3, <2>4 DEF CompilersKept
  <2>8. faults' \in 0 .. MaxFaults
    BY <1>1, <1>2, <1>5 DEF ClaimCompile
  <2>9. QED
    BY <2>6, <2>7, <2>8
<1>6. ASSUME NEW c \in Compiler, compiler[c].run \in Run,
             NEW st \in {"queued", "failed", "refused", "succeeded"}, Finished(c, st)
      PROVE  job' \in [Run -> JobRow] /\ JobsKept
  <2> DEFINE r == compiler[c].run
             x == [job[r] EXCEPT !.status = IF HasClaim(c) THEN st ELSE @]
  <2>1. job' = [job EXCEPT ![r] = x]
    BY <1>1, <1>6 DEF Finished
  <2>2. job[r] \in JobRow /\ (HasClaim(c) => job[r].status = "running")
    BY <1>1, <1>6 DEF HasClaim
  <2>3. x \in JobRow /\ (x.status = "none" <=> job[r].status = "none")
    BY <2>2 DEF JobRow, JobStatus
  <2> HIDE DEF x, r
  <2>4. r \in Run
    BY <1>6 DEF r
  <2>5. QED
    BY <2>1, <2>3, <2>4, JobRewritten
<1>7. ASSUME NEW c \in Compiler,
             CompileRefused(c) \/ CompileFails(c) \/ NotPromoted(c) \/ FinishCompile(c)
      PROVE  \E st \in {"queued", "failed", "refused", "succeeded"} : Finished(c, st)
  BY <1>7 DEF CompileRefused, CompileFails, NotPromoted, FinishCompile
<1>8. ASSUME NEW c \in Compiler,
             CompileRefused(c) \/ CompileFails(c) \/ NotPromoted(c) \/ FinishCompile(c)
      PROVE  /\ compiler[c].run \in Run /\ Done(c) /\ faults' \in 0 .. MaxFaults
  BY <1>1, <1>2, <1>8 DEF CompileRefused, CompileFails, NotPromoted, FinishCompile,
                          IInv, CompilesItsRun, WorksFor
<1>9. ASSUME NEW c \in Compiler, CompilerDies(c)
      PROVE  job' = job /\ Done(c) /\ faults' \in 0 .. MaxFaults
  BY <1>2, <1>9 DEF CompilerDies, rows
<1>10. job' = job => job' \in [Run -> JobRow] /\ JobsKept
  BY <1>1 DEF JobsKept
<1>11. QED
  BY <1>4, <1>5, <1>6, <1>7, <1>8, <1>9, <1>10 DEF Compiling

LEMMA YieldsEffect ==
    ASSUME IInv, NEW c \in Compiler, NEW s \in Script, Candidate(c, s)
    PROVE  /\ script' \in [Script -> ScriptRow]
           /\ compiler' \in [Compiler -> CompilerRow]
           /\ script[s].status = "none" /\ script'[s].status = "candidate"
           /\ \A t \in Script \ {s} : script'[t] = script[t]
           /\ compiler[c].run \in Run /\ job[compiler[c].run].status # "none"
           /\ script'[s].def = run[compiler[c].run].def
           /\ compiler'[c].pc = "compiled" /\ compiler'[c].run = compiler[c].run
           /\ compiler'[c].script = s
           /\ \A d \in Compiler \ {c} : compiler'[d] = compiler[d]
<1>1. /\ script \in [Script -> ScriptRow] /\ compiler \in [Compiler -> CompilerRow]
      /\ run \in [Run -> RunRow]
  BY Types DEF IInv
<1>2. compiler[c].run \in Run /\ job[compiler[c].run].status # "none"
  BY DEF IInv, CompilesItsRun, WorksFor, Candidate
<1> DEFINE d == run[compiler[c].run].def
           x == [status |-> "candidate", from |-> compiler[c].run, def |-> d]
           y == [compiler[c] EXCEPT !.pc = "compiled", !.script = s]
<1>3. d \in Definition
  BY <1>1, <1>2 DEF RunRow
<1>4. x \in ScriptRow /\ x.status = "candidate" /\ x.def = d
  BY <1>2, <1>3 DEF ScriptRow
<1>5. compiler[c] \in CompilerRow
  BY <1>1
<1>6. y \in CompilerRow /\ y.pc = "compiled" /\ y.script = s /\ y.run = compiler[c].run
  BY <1>5 DEF CompilerRow
<1>7. script' = [script EXCEPT ![s] = x] /\ compiler' = [compiler EXCEPT ![c] = y]
  BY <1>1 DEF Candidate
<1>8. script[s].status = "none"
  BY DEF Candidate
<1> HIDE DEF x, y
<1>9. QED
  BY <1>1, <1>2, <1>4, <1>6, <1>7, <1>8

(* Promotion: the new script is of the task's present contents, because    *)
(* it is of its run's, that run was learned from, and promoteTask compares *)
(* what was learned with the task.                                         *)
LEMMA PromotesEffect ==
    ASSUME IInv, NEW c \in Compiler, Promote(c)
    PROVE  /\ script' \in [Script -> ScriptRow] /\ task' \in TaskRow
           /\ compiler' \in [Compiler -> CompilerRow]
           /\ compiler'[c].pc = "promoted" /\ compiler'[c].run = compiler[c].run
           /\ \A d \in Compiler \ {c} : compiler'[d] = compiler[d]
           /\ compiler[c].script \in Script
           /\ script[compiler[c].script].def = task.def
           /\ \A s \in Script : /\ script'[s].def = script[s].def
                                /\ script'[s].status = "none" <=> script[s].status = "none"
                                /\ script'[s].status = "active" <=> s = compiler[c].script
           /\ task'.mode = "compiled" /\ task'.def = task.def /\ task'.rev = task.rev
<1>1. /\ script \in [Script -> ScriptRow] /\ compiler \in [Compiler -> CompilerRow]
      /\ task \in TaskRow
  BY Types DEF IInv, TaskRow
<1> DEFINE n == compiler[c].script
           r == compiler[c].run
<1>2. n \in Script /\ script[n].status # "none" /\ script[n].def = run[r].def /\ r \in Run
      /\ job[r].status # "none"
  BY DEF IInv, CompilesItsRun, WorksFor, Promote
<1>3. learn[r].status = "succeeded"
  BY <1>2 DEF IInv, LearnsItsRun
<1>4. learn[r].def = run[r].def
  BY <1>2, <1>3 DEF IInv, LearnsItsRun
<1>5. task.def = learn[r].def
  BY DEF Promote, Promotable
<1>6. Active \in SUBSET Script
  BY DEF Active
<1> DEFINE Shelf == Invalidated(Active)
           x == [Shelf[n] EXCEPT !.status = "active"]
           y == [compiler[c] EXCEPT !.pc = "promoted"]
<1>7. /\ Shelf \in [Script -> ScriptRow]
      /\ \A s \in Script : /\ Shelf[s].def = script[s].def
                           /\ s \in Active => Shelf[s].status = "invalidated"
                           /\ s \notin Active => Shelf[s] = script[s]
  BY <1>1, <1>6, InvalidatedShelf
<1> HIDE DEF Shelf
<1>8. x \in ScriptRow /\ x.status = "active" /\ x.def = Shelf[n].def
  BY <1>2, <1>7 DEF ScriptRow
<1>9. script' = [Shelf EXCEPT ![n] = x]
  BY <1>2, <1>7 DEF Promote, Shelf
<1> HIDE DEF x
<1>10. /\ script' \in [Script -> ScriptRow] /\ script'[n] = x
       /\ \A s \in Script \ {n} : script'[s] = Shelf[s]
  BY <1>2, <1>7, <1>8, <1>9
<1>11. \A s \in Script : s \in Active <=> script[s].status = "active"
  BY DEF Active
<1>12. \A s \in Script : /\ script'[s].def = script[s].def
                         /\ script'[s].status = "none" <=> script[s].status = "none"
                         /\ script'[s].status = "active" <=> s = n
  <2> SUFFICES ASSUME NEW s \in Script
               PROVE  /\ script'[s].def = script[s].def
                      /\ script'[s].status = "none" <=> script[s].status = "none"
                      /\ script'[s].status = "active" <=> s = n
    OBVIOUS
  <2>1. CASE s = n
    BY <1>2, <1>7, <1>8, <1>10, <2>1
  <2>2. CASE s # n /\ s \in Active
    BY <1>7, <1>10, <1>11, <2>2
  <2>3. CASE s # n /\ s \notin Active
    BY <1>7, <1>10, <1>11, <2>3
  <2>4. QED
    BY <2>1, <2>2, <2>3
<1>13. compiler[c] \in CompilerRow
  BY <1>1
<1>14. y \in CompilerRow /\ y.pc = "promoted" /\ y.run = r
  BY <1>13 DEF CompilerRow
<1>15. compiler' = [compiler EXCEPT ![c] = y]
  BY <1>1 DEF Promote
<1> HIDE DEF y
<1>16. /\ compiler' \in [Compiler -> CompilerRow] /\ compiler'[c] = y
       /\ \A d \in Compiler \ {c} : compiler'[d] = compiler[d]
  BY <1>1, <1>14, <1>15
<1>17. task' \in TaskRow /\ task'.mode = "compiled" /\ task'.def = task.def /\ task'.rev = task.rev
  BY <1>1 DEF Promote, TaskRow, Mode
<1>18. QED
  BY <1>2, <1>4, <1>5, <1>10, <1>12, <1>14, <1>16, <1>17

-----------------------------------------------------------------------------
(* The invariant, part by part. *)
LEMMA TypesKept == IInv /\ [Next]_vars => TypeOK'
<1> SUFFICES ASSUME IInv, [Next]_vars PROVE TypeOK'
  OBVIOUS
<1>1. /\ task \in TaskRow /\ script \in [Script -> ScriptRow] /\ run \in [Run -> RunRow]
      /\ ended \in Seq(Run) /\ learn \in [Run -> LearnRow] /\ job \in [Run -> JobRow]
      /\ learner \in [Learner -> LearnerRow] /\ compiler \in [Compiler -> CompilerRow]
      /\ faults \in 0 .. MaxFaults
  BY Types DEF IInv, TaskRow
<1> DEFINE Goal == /\ task' \in TaskRow /\ script' \in [Script -> ScriptRow]
                   /\ run' \in [Run -> RunRow]
                   /\ ended' \in Seq(Run) /\ learn' \in [Run -> LearnRow]
                   /\ job' \in [Run -> JobRow]
                   /\ learner' \in [Learner -> LearnerRow]
                   /\ compiler' \in [Compiler -> CompilerRow]
                   /\ faults' \in 0 .. MaxFaults
<1>2. Goal => TypeOK'
  BY DEF TypeOK, TaskRow, ScriptRow, RunRow, LearnRow, JobRow, LearnerRow, CompilerRow
<1>3. CASE Grants
  BY <1>1, <1>2, <1>3, Frames, GrantsEffect
<1>4. CASE Demotes
  BY <1>1, <1>2, <1>4, Frames, DemotesEffect, DemotesKeepsRuns
<1>5. CASE Runs
  BY <1>1, <1>2, <1>5, Frames, RunsEffect
<1>6. CASE Enqueues
  <2>1. run' \in [Run -> RunRow] /\ learn' \in [Run -> LearnRow]
    BY <1>6, EnqueueEffect DEF Enqueues
  <2>2. QED
    BY <1>1, <1>2, <1>6, <2>1, Frames
<1>7. CASE Dispatches
  BY <1>1, <1>2, <1>7, Frames, DispatchesEffect
<1>8. CASE Learns
  BY <1>1, <1>2, <1>8, Frames, LearnsEffect
<1>9. CASE Applies
  BY <1>1, <1>2, <1>9, Frames, AppliesEffect
<1>10. CASE Compiling
  BY <1>1, <1>2, <1>10, Frames, CompilingEffect
<1>11. CASE Yields
  <2>1. script' \in [Script -> ScriptRow] /\ compiler' \in [Compiler -> CompilerRow]
    BY <1>11, YieldsEffect DEF Yields
  <2>2. QED
    BY <1>1, <1>2, <1>11, <2>1, Frames
<1>12. CASE Promotes
  <2>1. /\ script' \in [Script -> ScriptRow] /\ task' \in TaskRow
        /\ compiler' \in [Compiler -> CompilerRow]
    BY <1>12, PromotesEffect DEF Promotes
  <2>2. QED
    BY <1>1, <1>2, <1>12, <2>1, Frames
<1>13. CASE UNCHANGED vars
  BY <1>1, <1>2, <1>13 DEF vars, rows
<1>14. QED
  BY <1>3, <1>4, <1>5, <1>6, <1>7, <1>8, <1>9, <1>10, <1>11, <1>12, <1>13, Steps

LEMMA LearnsItsRunKept == IInv /\ [Next]_vars => LearnsItsRun'
<1> SUFFICES ASSUME IInv, [Next]_vars, NEW r \in Run
             PROVE  /\ learn'[r].status # "none" =>
                          learn'[r].def = run'[r].def /\ run'[r].pc \in {"queued", "gone"}
                    /\ job'[r].status # "none" => learn'[r].status = "succeeded"
  BY DEF LearnsItsRun
<1> DEFINE Goal == /\ learn'[r].status # "none" =>
                          learn'[r].def = run'[r].def /\ run'[r].pc \in {"queued", "gone"}
                   /\ job'[r].status # "none" => learn'[r].status = "succeeded"
<1>1. /\ learn[r].status # "none" =>
            learn[r].def = run[r].def /\ run[r].pc \in {"queued", "gone"}
      /\ job[r].status # "none" => learn[r].status = "succeeded"
  BY DEF IInv, LearnsItsRun
<1>2. ASSUME RunsKept, UNCHANGED <<learn, job>> PROVE Goal
  BY <1>1, <1>2 DEF RunsKept
<1>3. ASSUME UNCHANGED <<run, learn, job>> PROVE Goal
  BY <1>1, <1>3
<1>4. ASSUME UNCHANGED <<run, job>>, LearnKept PROVE Goal
  BY <1>1, <1>4 DEF LearnKept
<1>5. CASE Grants
  BY <1>3, <1>5, Frames
<1>6. CASE Demotes
  BY <1>2, <1>6, Frames, DemotesKeepsRuns
<1>7. CASE Runs
  BY <1>2, <1>7, Frames, RunsEffect
<1>8. CASE Enqueues
  <2>1. PICK q \in Run : Enqueue(q)
    BY <1>8 DEF Enqueues
  <2>2. job' = job
    BY <1>8, Frames
  <2>3. CASE q = r
    BY <1>1, <2>1, <2>2, <2>3, EnqueueEffect
  <2>4. CASE q # r
    <3>1. learn'[r] = learn[r] /\ RunsKept
      BY <2>1, <2>4, EnqueueEffect
    <3>2. QED
      BY <1>1, <2>2, <3>1 DEF RunsKept
  <2>5. QED
    BY <2>3, <2>4
<1>9. CASE Dispatches
  BY <1>1, <1>9, Frames, DispatchesEffect DEF LearnKept
<1>10. CASE Learns
  BY <1>4, <1>10, Frames, LearnsEffect
<1>11. CASE Applies
  <2>1. /\ learn'[r].def = learn[r].def
        /\ learn'[r].status = "none" <=> learn[r].status = "none"
    BY <1>11, AppliesEffect
  <2>2. learn[r].status = "succeeded" => learn'[r].status = "succeeded"
    BY <1>11, AppliesEffect DEF LearnKept
  <2>3. QED
    BY <1>1, <1>11, <2>1, <2>2, Frames
<1>12. CASE Compiling
  BY <1>1, <1>12, Frames, CompilingEffect DEF JobsKept
<1>13. CASE Yields \/ Promotes
  BY <1>3, <1>13, Frames
  DEF Yields, Promotes, Candidate, Promote
<1>14. CASE UNCHANGED vars
  BY <1>3, <1>14 DEF vars, rows
<1>15. QED
  BY <1>5, <1>6, <1>7, <1>8, <1>9, <1>10, <1>11, <1>12, <1>13, <1>14, Steps

ScriptsKept == \A s \in Script : /\ script'[s].def = script[s].def
                                 /\ script[s].status # "none" => script'[s].status # "none"
StartedRunsKept == \A r \in Run : run[r].pc # "new" => run'[r].def = run[r].def
HeldJobsKept == \A r \in Run : job[r].status # "none" => job'[r].status # "none"

LEMMA CompilesItsRunKept == IInv /\ [Next]_vars => CompilesItsRun'
<1> SUFFICES ASSUME IInv, [Next]_vars, NEW c \in Compiler PROVE WorksFor(c)'
  BY DEF CompilesItsRun
<1>1. /\ compiler[c].pc # "idle" =>
            /\ compiler[c].run \in Run /\ job[compiler[c].run].status # "none"
            /\ run[compiler[c].run].pc # "new"
      /\ compiler[c].pc = "compiled" =>
            /\ compiler[c].script \in Script
            /\ script[compiler[c].script].status # "none"
            /\ script[compiler[c].script].def = run[compiler[c].run].def
  BY DEF IInv, CompilesItsRun, WorksFor, LearnsItsRun
<1>2. ASSUME compiler'[c] = compiler[c], ScriptsKept, StartedRunsKept, HeldJobsKept
      PROVE  WorksFor(c)'
  BY <1>1, <1>2 DEF WorksFor, ScriptsKept, StartedRunsKept, HeldJobsKept
<1>3. script' = script => ScriptsKept
  BY DEF ScriptsKept
<1>4. (run' = run => StartedRunsKept) /\ (RunsKept => StartedRunsKept)
  BY DEF RunsKept, StartedRunsKept
<1>5. (job' = job => HeldJobsKept) /\ (JobsKept => HeldJobsKept)
  BY DEF JobsKept, HeldJobsKept
<1>6. Emptied \/ ShelfKept => ScriptsKept
  BY DEF Emptied, ShelfKept, ScriptsKept
<1>7. CASE Grants
  BY <1>2, <1>4, <1>5, <1>6, <1>7, Frames, GrantsEffect
<1>8. CASE Demotes
  BY <1>2, <1>4, <1>5, <1>6, <1>8, Frames, DemotesEffect, DemotesKeepsRuns
<1>9. CASE Runs
  BY <1>2, <1>3, <1>4, <1>5, <1>9, Frames, RunsEffect
<1>10. CASE Enqueues
  <2>1. RunsKept
    BY <1>10, EnqueueEffect DEF Enqueues
  <2>2. QED
    BY <1>2, <1>3, <1>4, <1>5, <1>10, <2>1, Frames
<1>11. CASE Dispatches
  <2>1. HeldJobsKept
    <3>1. \A r \in Run : \/ job'[r].status = "none" <=> job[r].status = "none"
                         \/ learn[r].status = "succeeded"
      BY <1>11, DispatchesEffect
    <3>2. PICK r \in Run : job' = job \/ job' = [job EXCEPT ![r].status = "queued",
                                                          ![r].def = task.def,
                                                          ![r].expected = ActiveScript]
      BY <1>11 DEF Dispatches, Dispatch
    <3>3. job \in [Run -> JobRow]
      BY Types DEF IInv
    <3>4. QED
      BY <3>2, <3>3 DEF HeldJobsKept, JobRow
  <2>2. QED
    BY <1>2, <1>3, <1>4, <1>11, <2>1, Frames
<1>12. CASE Learns
  BY <1>2, <1>3, <1>4, <1>5, <1>12, Frames
<1>13. CASE Applies
  BY <1>2, <1>3, <1>4, <1>5, <1>13, Frames
<1>14. CASE Compiling
  <2>1. UNCHANGED <<script, run>> /\ JobsKept /\ CompilersKept
    BY <1>14, Frames, CompilingEffect
  <2>2. CASE compiler'[c] = compiler[c]
    BY <1>2, <1>3, <1>4, <1>5, <2>1, <2>2
  <2>3. CASE compiler'[c].pc = "idle"
    BY <2>3 DEF WorksFor
  <2>4. CASE /\ compiler'[c].pc = "compiling" /\ compiler'[c].run \in Run
             /\ job[compiler'[c].run].status # "none"
    BY <2>1, <2>4 DEF WorksFor, JobsKept
  <2>5. QED
    BY <2>1, <2>2, <2>3, <2>4 DEF CompilersKept
<1>15. CASE Yields
  <2>1. PICK d \in Compiler, s \in Script : Candidate(d, s)
    BY <1>15 DEF Yields
  <2>2. UNCHANGED <<run, job>>
    BY <1>15, Frames
  <2>3. CASE c = d
    BY <2>1, <2>2, <2>3, YieldsEffect DEF WorksFor
  <2>4. CASE c # d
    <3>1. compiler'[c] = compiler[c] /\ script[s].status = "none"
          /\ \A t \in Script \ {s} : script'[t] = script[t]
      BY <2>1, <2>4, YieldsEffect
    <3>2. QED
      BY <1>1, <2>2, <3>1 DEF WorksFor
  <2>5. QED
    BY <2>3, <2>4
<1>16. CASE Promotes
  <2>1. PICK d \in Compiler : Promote(d)
    BY <1>16 DEF Promotes
  <2>2. UNCHANGED <<run, job>>
    BY <1>16, Frames
  <2>3. ScriptsKept
    BY <2>1, PromotesEffect DEF ScriptsKept
  <2>4. CASE c = d
    <3>1. compiler'[c].pc = "promoted" /\ compiler'[c].run = compiler[c].run
      BY <2>1, <2>4, PromotesEffect
    <3>2. compiler[c].pc # "idle"
      BY <2>1, <2>4 DEF Promote
    <3>3. QED
      BY <1>1, <2>2, <3>1, <3>2 DEF WorksFor
  <2>5. CASE c # d
    BY <1>2, <1>4, <1>5, <2>1, <2>2, <2>3, <2>5, PromotesEffect
  <2>6. QED
    BY <2>4, <2>5
<1>17. CASE UNCHANGED vars
  BY <1>2, <1>3, <1>4, <1>5, <1>17 DEF vars, rows
<1>18. QED
  BY <1>7, <1>8, <1>9, <1>10, <1>11, <1>12, <1>13, <1>14, <1>15, <1>16, <1>17, Steps

LEMMA ServedKept == IInv /\ [Next]_vars => Served'
<1> SUFFICES ASSUME IInv, [Next]_vars PROVE Served'
  OBVIOUS
<1>1. \A s \in Script : /\ s \in Active <=> script[s].status = "active"
                        /\ s \in Active' <=> script'[s].status = "active"
  BY DEF Active
<1>2. Active \subseteq Script /\ Active' \subseteq Script
  BY DEF Active
<1>3. Emptied => Served'
  <2> SUFFICES ASSUME Emptied PROVE Served'
    OBVIOUS
  <2>1. Active' = {}
    BY <1>1, <1>2 DEF Emptied
  <2>2. task'.mode = "ai"
    BY DEF Emptied
  <2>3. QED
    BY <2>1, <2>2 DEF Served
<1>4. ShelfKept => Served'
  <2> SUFFICES ASSUME ShelfKept PROVE Served'
    OBVIOUS
  <2>1. Active' = Active
    BY <1>1, <1>2 DEF ShelfKept
  <2>2. \A s \in Active : script'[s].def = script[s].def
    BY <1>2 DEF ShelfKept
  <2>3. task'.mode = task.mode /\ task'.def = task.def
    BY DEF ShelfKept
  <2>4. QED
    BY <2>1, <2>2, <2>3 DEF IInv, Served
<1>5. (UNCHANGED <<task, script>>) => Served'
  BY DEF IInv, Served, Active
<1>6. CASE Grants \/ Demotes
  BY <1>3, <1>4, <1>6, GrantsEffect, DemotesEffect
<1>7. CASE Runs \/ Enqueues \/ Dispatches \/ Learns \/ Compiling
  BY <1>5, <1>7, Frames
<1>8. CASE Applies
  <2>1. ShelfKept
    BY <1>8, Frames, AppliesEffect DEF ShelfKept
  <2>2. QED
    BY <1>4, <2>1
<1>9. CASE Yields
  <2>1. PICK c \in Compiler, s \in Script : Candidate(c, s)
    BY <1>9 DEF Yields
  <2>2. /\ script[s].status = "none" /\ script'[s].status = "candidate"
        /\ \A t \in Script \ {s} : script'[t] = script[t]
    BY <2>1, YieldsEffect
  <2>3. Active' = Active /\ \A t \in Active : script'[t] = script[t]
    BY <1>1, <1>2, <2>2
  <2>4. task' = task
    BY <1>9, Frames
  <2>5. QED
    BY <2>3, <2>4 DEF IInv, Served
<1>10. CASE Promotes
  <2>1. PICK c \in Compiler : Promote(c)
    BY <1>10 DEF Promotes
  <2> DEFINE n == compiler[c].script
  <2>2. /\ n \in Script /\ script[n].def = task.def
        /\ \A s \in Script : /\ script'[s].def = script[s].def
                             /\ script'[s].status = "active" <=> s = n
        /\ task'.mode = "compiled" /\ task'.def = task.def
    BY <2>1, PromotesEffect
  <2> HIDE DEF n
  <2>3. Active' = {n}
    BY <1>1, <1>2, <2>2
  <2>4. QED
    BY <2>2, <2>3 DEF Served
<1>11. CASE UNCHANGED vars
  BY <1>5, <1>11 DEF vars, rows
<1>12. QED
  BY <1>6, <1>7, <1>8, <1>9, <1>10, <1>11, Steps

LEMMA LearnedOnceKept == IInv /\ [Next]_vars => LearnedOnce'
<1> SUFFICES ASSUME IInv, [Next]_vars PROVE LearnedOnce'
  OBVIOUS
<1>1. task.rev <= Cardinality(Learned) /\ task.rev \in Nat
  BY Types DEF IInv, LearnedOnce, Learned
<1>2. IsFiniteSet(Learned) /\ Cardinality(Learned) \in Nat
  <2>1. Learned \in SUBSET Run
    BY DEF Learned
  <2>2. IsFiniteSet(Learned)
    BY <2>1, Constants, FS_Subset
  <2>3. QED
    BY <2>2, FS_CardinalityType
<1>3. ASSUME Learned' = Learned, task'.rev = task.rev PROVE LearnedOnce'
  BY <1>1, <1>3 DEF LearnedOnce, Learned
<1>4. LearnKept => Learned' = Learned
  BY DEF LearnKept, Learned
<1>5. learn' = learn => Learned' = Learned
  BY DEF Learned
<1>6. CASE Grants \/ Demotes
  BY <1>3, <1>5, <1>6, Frames, GrantsEffect, DemotesEffect
<1>7. CASE Runs \/ Compiling \/ Yields
  BY <1>3, <1>5, <1>7, Frames
<1>8. CASE Enqueues
  <2>1. PICK r \in Run : Enqueue(r)
    BY <1>8 DEF Enqueues
  <2>2. learn[r].status = "none"
    BY <2>1, EnqueueEffect DEF IInv, LearnsItsRun
  <2>3. /\ \A q \in Run \ {r} : learn'[q] = learn[q]
        /\ learn'[r] = learn[r] \/ learn'[r].status = "queued"
    BY <2>1, EnqueueEffect
  <2>4. Learned' = Learned
    BY <2>2, <2>3 DEF Learned
  <2>5. QED
    BY <1>3, <1>8, <2>4, Frames
<1>9. CASE Dispatches \/ Learns
  BY <1>3, <1>4, <1>9, Frames, DispatchesEffect, LearnsEffect
<1>10. CASE Applies
  <2>1. CASE LearnKept /\ task'.rev = task.rev
    BY <1>3, <1>4, <2>1
  <2>2. CASE /\ task'.rev \in {task.rev, task.rev + 1}
             /\ \E r \in Run : /\ learn[r].status = "running"
                               /\ learn'[r].status = "succeeded"
                               /\ \A q \in Run \ {r} : learn'[q] = learn[q]
    <3>1. PICK r \in Run : /\ learn[r].status = "running"
                           /\ learn'[r].status = "succeeded"
                           /\ \A q \in Run \ {r} : learn'[q] = learn[q]
      BY <2>2
    <3>2. r \notin Learned /\ Learned' = Learned \cup {r}
      BY <3>1 DEF Learned
    <3>3. Cardinality(Learned') = Cardinality(Learned) + 1
      BY <1>2, <3>2, FS_AddElement
    <3>4. QED
      BY <1>1, <1>2, <2>2, <3>3 DEF LearnedOnce, Learned
  <2>3. QED
    BY <1>10, <2>1, <2>2, AppliesEffect
<1>11. CASE Promotes
  BY <1>3, <1>5, <1>11, Frames, PromotesEffect DEF Promotes
<1>12. CASE UNCHANGED vars
  BY <1>3, <1>5, <1>12 DEF vars, rows
<1>13. QED
  BY <1>6, <1>7, <1>8, <1>9, <1>10, <1>11, <1>12, Steps

LEMMA InitHolds == Init => IInv
<1> SUFFICES ASSUME Init PROVE IInv
  OBVIOUS
<1> DEFINE d == CHOOSE e \in Definition : TRUE
<1>1. d \in Definition
  BY FastPathAssumption
<1>2. /\ task = [mode |-> "ai", def |-> d, rev |-> 0, deopts |-> <<>>]
      /\ script = [s \in Script |-> [status |-> "none", def |-> d, from |-> None]]
      /\ run = [r \in Run |-> [pc |-> "new", status |-> "none", mode |-> "ai", def |-> d,
                               script |-> None, ok |-> FALSE, deopt |-> "no"]]
      /\ learn = [r \in Run |-> [status |-> "none", def |-> d, script |-> None,
                                 attempts |-> 0, wanted |-> FALSE, sent |-> FALSE]]
      /\ job = [r \in Run |-> [status |-> "none", def |-> d, expected |-> None,
                               attempts |-> 0]]
  BY DEF Init
<1> HIDE DEF d
<1>3. TypeOK
  <2>1. task \in [mode : Mode, def : Definition, rev : Nat, deopts : Seq(BOOLEAN)]
    BY <1>1, <1>2 DEF Mode
  <2>2. script \in [Script -> ScriptRow]
    BY <1>1, <1>2 DEF ScriptRow
  <2>3. run \in [Run -> RunRow]
    BY <1>1, <1>2 DEF RunRow, Mode
  <2>4. learn \in [Run -> LearnRow] /\ job \in [Run -> JobRow]
    BY <1>1, <1>2 DEF LearnRow, JobRow, JobStatus
  <2>5. learner \in [Learner -> LearnerRow] /\ compiler \in [Compiler -> CompilerRow]
    BY DEF Init, IdleLearner, IdleCompiler, LearnerRow, CompilerRow
  <2>6. ended \in Seq(Run) /\ faults \in 0 .. MaxFaults
    BY Constants DEF Init
  <2>7. QED
    BY <2>1, <2>2, <2>3, <2>4, <2>5, <2>6, Types
<1>4. LearnsItsRun /\ CompilesItsRun
  BY <1>2 DEF Init, LearnsItsRun, CompilesItsRun, WorksFor, IdleCompiler
<1>5. Active = {} /\ task.mode = "ai" /\ task.rev = 0 /\ Learned = {}
  BY <1>2 DEF Active, Learned
<1>6. Served /\ LearnedOnce
  <2>1. Cardinality(Learned) = 0
    BY <1>5, FS_EmptySet
  <2>2. LearnedOnce
    BY <1>5, <2>1 DEF LearnedOnce, Learned
  <2>3. QED
    BY <1>5, <2>2 DEF Served
<1>7. QED
  BY <1>3, <1>4, <1>6 DEF IInv

LEMMA InvariantKept == IInv /\ [Next]_vars => IInv'
BY TypesKept, LearnsItsRunKept, CompilesItsRunKept, ServedKept, LearnedOnceKept DEF IInv

LEMMA InvariantHolds == Spec => []IInv
BY InitHolds, InvariantKept, PTL DEF Spec

(* Every variable stays in its type. *)
THEOREM TypeCorrect == Spec => []TypeOK
<1>1. IInv => TypeOK
  BY DEF IInv
<1>2. QED
  BY <1>1, InvariantHolds, PTL

(* What serves is what the task is (promoteTask against changes of grants, *)
(* demotions and late workers), for any number of each.                    *)
THEOREM ServedAlwaysFitsTask == Spec => []ServedFitsTask
<1>1. IInv => ServedFitsTask
  <2> SUFFICES ASSUME IInv PROVE ServedFitsTask
    OBVIOUS
  <2>1. Cardinality(Active) <= 1
    <3>1. CASE Active = {}
      BY <3>1, FS_EmptySet
    <3>2. CASE Active # {}
      <4>1. PICK s : Active = {s}
        BY <3>2 DEF IInv, Served
      <4>2. Cardinality(Active) = 1
        BY <4>1, FS_Singleton
      <4>3. QED
        BY <4>2
    <3>3. QED
      BY <3>1, <3>2
  <2>2. QED
    BY <2>1 DEF IInv, Served, ServedFitsTask
<1>2. QED
  BY <1>1, InvariantHolds, PTL

(* No run changes the prompt twice, however often its claim is lost and    *)
(* answered all the same (applyResult of the learning loop).               *)
THEOREM EachRunIsLearnedOnce == Spec => []LearnedOnce
<1>1. IInv => LearnedOnce
  BY DEF IInv
<1>2. QED
  BY <1>1, InvariantHolds, PTL

-----------------------------------------------------------------------------
(* What more a script's retirement needs.  The window of a demoted script  *)
(* starts afresh, so there is always room for one more run.                *)
BelowLimit == Deopts(task.deopts) < DemoteDeopts

(* Only a run that has a script has a deopt to count. *)
DeoptFits(x) ==
    /\ x.pc \in {"new", "started", "loaded"} => x.deopt = "no"
    /\ x.pc = "loaded" /\ x.mode = "compiled" => x.script # None
    /\ x.script = None => x.deopt = "no"

DeoptsHaveScripts == \A r \in Run : DeoptFits(run[r])

(* Jobs are about the script their run had, or about none. *)
LearnsOfItsScript ==
    \A r \in Run :
       /\ learn[r].status # "none" => learn[r].script = run[r].script
       /\ job[r].status # "none" => job[r].expected \in {None, run[r].script}

(* What a worker has compiled is a candidate from its run, and its own. *)
CandidateOf(c) ==
    /\ script[compiler[c].script].status = "candidate"
    /\ script[compiler[c].script].from = compiler[c].run
    /\ \A d \in Compiler \ {c} :
          compiler[d].pc = "compiled" => compiler[d].script # compiler[c].script

CandidatesAreOwn == \A c \in Compiler : compiler[c].pc = "compiled" => CandidateOf(c)

EvidenceInv == IInv /\ BelowLimit /\ DeoptsHaveScripts /\ LearnsOfItsScript /\ CandidatesAreOwn

-----------------------------------------------------------------------------
(* A run without a deopt adds none to the window. *)
LEMMA NoDeoptAdded ==
    ASSUME NEW seq \in Seq(BOOLEAN), NEW n \in Nat, n > 0
    PROVE  Deopts(Last(Append(seq, FALSE), n)) <= Deopts(seq)
<1> DEFINE w == Append(seq, FALSE)
           m == IF Len(w) > n THEN Len(w) - n + 1 ELSE 1
           v == SubSeq(w, m, Len(w))
           A == {i \in DOMAIN v : v[i]}
           B == {i \in DOMAIN seq : seq[i]}
           f == [i \in A |-> i + m - 1]
<1>1. /\ w \in Seq(BOOLEAN) /\ Len(w) = Len(seq) + 1 /\ Len(seq) \in Nat
      /\ w[Len(w)] = FALSE /\ \A i \in 1 .. Len(seq) : w[i] = seq[i]
  BY AppendProperties
<1> HIDE DEF w
<1>2. m \in 1 .. Len(w)
  BY <1>1
<1> HIDE DEF m
<1>3. /\ DOMAIN v = 1 .. (Len(w) - m + 1)
      /\ \A i \in 1 .. (Len(w) - m + 1) : v[i] = w[m + i - 1]
  <2>1. /\ m \in Int /\ Len(w) \in Int
        /\ \A i \in m .. Len(w) : w[i] \in BOOLEAN
        /\ m <= Len(w) + 1
    BY <1>1, <1>2
  <2>2. /\ Len(v) = Len(w) - m + 1 /\ v \in Seq(BOOLEAN)
        /\ \A i \in 1 .. (Len(w) - m + 1) : v[i] = w[m + i - 1]
    BY <2>1, SubSeqProperties
  <2> QED BY <2>2
<1> HIDE DEF v
<1>4. \A i \in A : i + m - 1 \in B
  <2> SUFFICES ASSUME NEW i \in A PROVE i + m - 1 \in B
    OBVIOUS
  <2>1. i \in 1 .. (Len(w) - m + 1) /\ w[m + i - 1]
    BY <1>3
  <2>2. m + i - 1 \in 1 .. Len(w) /\ m + i - 1 # Len(w) /\ m + i - 1 = i + m - 1
    BY <1>1, <1>2, <2>1
  <2>3. i + m - 1 \in 1 .. Len(seq)
    BY <1>1, <2>2
  <2> QED BY <1>1, <2>1, <2>2, <2>3
<1>5. f \in Injection(A, B)
  <2>1. f \in [A -> B]
    BY <1>4
  <2>2. \A i, j \in A : f[i] = f[j] => i = j
    BY <1>2, <1>3
  <2> HIDE DEF f, A, B
  <2> QED BY <2>1, <2>2 DEF Injection, IsInjective
<1>6. IsFiniteSet(B)
  <2> HIDE DEF A, f
  <2>1. B \subseteq 1 .. Len(seq)
    OBVIOUS
  <2>2. IsFiniteSet(1 .. Len(seq))
    BY <1>1, FS_Interval
  <2> HIDE DEF B
  <2> QED BY <2>1, <2>2, FS_Subset
<1>7. Cardinality(A) <= Cardinality(B)
  <2> HIDE DEF A, B, f
  <2> QED BY <1>5, <1>6, FS_Injection
<1>8. Last(w, n) = v
  BY DEF Last, v, m
<1> QED BY <1>7, <1>8 DEF Deopts, w

LEMMA DeoptsTyped ==
    ASSUME NEW seq \in Seq(BOOLEAN)
    PROVE  Deopts(seq) \in Nat
<1>1. {i \in DOMAIN seq : seq[i]} \in SUBSET (1 .. Len(seq)) /\ Len(seq) \in Nat
  OBVIOUS
<1>2. IsFiniteSet({i \in DOMAIN seq : seq[i]})
  BY <1>1, FS_Interval, FS_Subset
<1> QED BY <1>2, FS_CardinalityType DEF Deopts

(* What one step of a run leaves of it. *)
LEMMA RunFitsOn ==
    ASSUME IInv, DeoptsHaveScripts, NEW r \in Run,
           \/ Start(r) \/ Load(r) \/ Execute(r) \/ Settle(r) \/ Reap(r)
           \/ RuntimeChanged(r) \/ Record(r) \/ Enqueue(r)
    PROVE  /\ DeoptFits(run'[r])
           /\ run[r].pc # "started" => run'[r].script = run[r].script
           /\ \A q \in Run \ {r} : run'[q] = run[q]
<1>1. run \in [Run -> RunRow] /\ run[r] \in RunRow /\ DeoptFits(run[r])
  BY Types DEF IInv, DeoptsHaveScripts
<1> DEFINE Goal == /\ DeoptFits(run'[r])
                   /\ run[r].pc # "started" => run'[r].script = run[r].script
                   /\ \A q \in Run \ {r} : run'[q] = run[q]
<1>2. ASSUME NEW x \in RunRow, run' = [run EXCEPT ![r] = x], DeoptFits(x),
             run[r].pc # "started" => x.script = run[r].script
      PROVE  Goal
  BY <1>1, <1>2
<1>3. CASE Start(r)
  <2> DEFINE x == [run[r] EXCEPT !.pc = IF task.mode = "ai" THEN "loaded" ELSE "started",
                                 !.status = "running", !.mode = task.mode, !.def = task.def]
  <2>1. run' = [run EXCEPT ![r] = x] /\ run[r].pc = "new"
    BY <1>1, <1>3 DEF Start
  <2>2. task.mode \in Mode /\ task.def \in Definition
    BY Types DEF IInv
  <2>3. x \in RunRow /\ x.script = run[r].script
    BY <1>1, <2>2 DEF RunRow
  <2>4. DeoptFits(x)
    BY <1>1, <2>1, <2>2 DEF RunRow, DeoptFits
  <2> HIDE DEF x
  <2> QED BY <1>2, <2>1, <2>3, <2>4
<1>4. CASE Load(r)
  <2> DEFINE x == [run[r] EXCEPT !.pc = IF ActiveScript = None THEN "over" ELSE "loaded",
                                 !.script = ActiveScript]
  <2>1. run' = [run EXCEPT ![r] = x] /\ run[r].pc = "started"
    BY <1>1, <1>4 DEF Load
  <2>2. x \in RunRow
    BY <1>1, TheActiveScript DEF RunRow
  <2>3. DeoptFits(x)
    BY <1>1, <2>1 DEF RunRow, DeoptFits
  <2> HIDE DEF x
  <2> QED BY <1>2, <2>1, <2>2, <2>3
<1>5. ASSUME NEW ok \in BOOLEAN, NEW deopt \in {"no", "planned", "guard"},
             run' = [run EXCEPT ![r].pc = "over", ![r].ok = ok, ![r].deopt = deopt],
             run[r].script = None => deopt = "no", run[r].pc = "loaded"
      PROVE  Goal
  <2> DEFINE x == [run[r] EXCEPT !.pc = "over", !.ok = ok, !.deopt = deopt]
  <2>1. run' = [run EXCEPT ![r] = x]
    BY <1>1, <1>5
  <2>2. x \in RunRow /\ x.script = run[r].script
    BY <1>1 DEF RunRow
  <2>3. DeoptFits(x)
    BY <1>1, <1>5 DEF RunRow, DeoptFits
  <2> HIDE DEF x
  <2> QED BY <1>2, <2>1, <2>2, <2>3
<1>6. CASE Execute(r)
  <2>1. PICK ok \in BOOLEAN, deopt \in {"no", "planned", "guard"} :
           /\ run[r].mode = "ai" => deopt = "no"
           /\ run' = [run EXCEPT ![r].pc = "over", ![r].ok = ok, ![r].deopt = deopt]
    BY <1>6 DEF Execute
  <2>2. run[r].pc = "loaded" /\ run[r].mode \in {"ai", "compiled"}
    BY <1>1, <1>6 DEF Execute, RunRow, Mode
  <2>3. run[r].script = None => deopt = "no"
    BY <1>1, <2>1, <2>2 DEF DeoptFits
  <2> QED BY <1>5, <2>1, <2>2, <2>3
<1>7. CASE RuntimeChanged(r)
  <2>1. PICK ok \in BOOLEAN :
           run' = [run EXCEPT ![r].pc = "over", ![r].ok = ok, ![r].deopt = "guard"]
    BY <1>7 DEF RuntimeChanged
  <2>2. run[r].pc = "loaded" /\ run[r].script # None
    BY <1>1, <1>7 DEF RuntimeChanged, DeoptFits
  <2> QED BY <1>5, <2>1, <2>2
<1>8. ASSUME NEW pc \in {run[r].pc, "queued", "gone"}, NEW status,
             status \in {"none", "running", "succeeded", "failed"},
             run' = [run EXCEPT ![r].pc = pc, ![r].status = status]
      PROVE  Goal
  <2> DEFINE x == [run[r] EXCEPT !.pc = pc, !.status = status]
  <2>1. run' = [run EXCEPT ![r] = x]
    BY <1>1, <1>8
  <2>2. x \in RunRow /\ x.script = run[r].script
    BY <1>1, <1>8 DEF RunRow
  <2>3. DeoptFits(x)
    BY <1>1, <1>8 DEF RunRow, DeoptFits
  <2> HIDE DEF x
  <2> QED BY <1>2, <2>1, <2>2, <2>3
<1>9. CASE Settle(r)
  <2>1. run' = [run EXCEPT ![r].pc = run[r].pc,
                           ![r].status = IF run[r].ok THEN "succeeded" ELSE "failed"]
    BY <1>1, <1>9 DEF Settle, RunRow
  <2> QED BY <1>8, <2>1
<1>10. CASE Reap(r)
  <2>1. PICK pc \in {run[r].pc, "gone"} :
           run' = [run EXCEPT ![r].status = "failed", ![r].pc = pc]
    BY <1>10 DEF Reap
  <2>2. run' = [run EXCEPT ![r].pc = pc, ![r].status = "failed"]
    BY <1>1, <2>1 DEF RunRow
  <2> QED BY <1>8, <2>2
<1>11. CASE Record(r) \/ Enqueue(r)
  <2>1. PICK pc \in {"queued", "gone"} : run' = [run EXCEPT ![r].pc = pc]
    BY <1>11 DEF Record, Enqueue
  <2>2. run' = [run EXCEPT ![r].pc = pc, ![r].status = run[r].status]
    BY <1>1, <2>1 DEF RunRow
  <2>3. run[r].status \in {"none", "running", "succeeded", "failed"}
    BY <1>1 DEF RunRow
  <2> QED BY <1>8, <2>2, <2>3
<1> QED BY <1>3, <1>4, <1>6, <1>7, <1>9, <1>10, <1>11

-----------------------------------------------------------------------------
(* Each part of the invariant. *)
LEMMA BelowLimitKept == EvidenceInv /\ [Next]_vars => BelowLimit'
<1> SUFFICES ASSUME EvidenceInv, [Next]_vars PROVE BelowLimit'
  OBVIOUS
<1>1. task \in TaskRow /\ Deopts(task.deopts) < DemoteDeopts
  BY Types DEF EvidenceInv, IInv, TaskRow, BelowLimit
<1>2. task'.deopts = task.deopts => BelowLimit'
  BY <1>1 DEF BelowLimit
<1>3. CASE Grants
  <2>1. task'.deopts = task.deopts
    BY <1>1, <1>3 DEF Grants, ChangeGrants, TaskRow
  <2> QED BY <1>2, <2>1
<1>4. CASE Demotes
  <2>1. ASSUME NEW r \in Run, RuntimeChanged(r) PROVE task'.deopts = task.deopts
    BY <1>1, <2>1 DEF RuntimeChanged, TaskRow
  <2>2. ASSUME NEW r \in Run, Record(r) PROVE BelowLimit'
    <3> DEFINE window == Last(Append(task.deopts, run[r].deopt = "guard"), DeoptWindow)
    <3>1. CASE task' = task
      BY <1>2, <3>1
    <3>2. CASE task' = [task EXCEPT !.deopts = window] /\ Deopts(window) < DemoteDeopts
      <4> HIDE DEF window
      <4>1. task'.deopts = window
        BY <1>1, <3>2 DEF TaskRow
      <4> QED BY <3>2, <4>1 DEF BelowLimit
    <3>3. CASE task' = [task EXCEPT !.mode = "ai", !.deopts = <<>>]
      <4>1. task'.deopts = <<>>
        BY <1>1, <3>3 DEF TaskRow
      <4>2. {i \in DOMAIN <<>> : (<<>>)[i]} = {}
        OBVIOUS
      <4>3. Deopts(<<>>) = 0
        BY <4>2, FS_EmptySet DEF Deopts
      <4> QED BY <4>1, <4>3, FastPathAssumption DEF BelowLimit
    <3> QED BY <2>2, <3>1, <3>2, <3>3 DEF Record
  <2> QED BY <1>2, <1>4, <2>1, <2>2 DEF Demotes
<1>5. CASE Applies
  <2>1. task'.deopts = task.deopts
    BY <1>1, <1>5 DEF Applies, Apply, TaskRow
  <2> QED BY <1>2, <2>1
<1>6. CASE Promotes
  <2>1. task'.deopts = task.deopts
    BY <1>1, <1>6 DEF Promotes, Promote, TaskRow
  <2> QED BY <1>2, <2>1
<1>7. CASE Runs \/ Enqueues \/ Dispatches \/ Learns \/ Compiling \/ Yields \/ UNCHANGED vars
  BY <1>2, <1>7, Frames DEF vars, rows
<1> QED BY <1>3, <1>4, <1>5, <1>6, <1>7, Steps

(* What every step does to the runs. *)
LEMMA RunsFitOn ==
    ASSUME EvidenceInv, [Next]_vars, NEW r \in Run
    PROVE  /\ DeoptFits(run'[r])
           /\ run[r].pc # "started" => run'[r].script = run[r].script
<1>1. DeoptFits(run[r])
  BY DEF EvidenceInv, DeoptsHaveScripts
<1>2. ASSUME NEW q \in Run,
             \/ Start(q) \/ Load(q) \/ Execute(q) \/ Settle(q) \/ Reap(q)
             \/ RuntimeChanged(q) \/ Record(q) \/ Enqueue(q)
      PROVE  /\ DeoptFits(run'[r])
             /\ run[r].pc # "started" => run'[r].script = run[r].script
  <2>1. CASE q = r
    BY <1>2, <2>1, RunFitsOn DEF EvidenceInv
  <2>2. CASE q # r
    <3>1. run'[r] = run[r]
      BY <1>2, <2>2, RunFitsOn DEF EvidenceInv
    <3> QED BY <1>1, <3>1
  <2> QED BY <2>1, <2>2
<1>3. CASE run' = run
  BY <1>1, <1>3
<1>4. CASE Demotes \/ Runs \/ Enqueues
  BY <1>2, <1>4 DEF Demotes, Runs, Enqueues
<1>5. CASE Grants \/ Dispatches \/ Learns \/ Applies \/ Compiling \/ Yields \/ Promotes
           \/ UNCHANGED vars
  BY <1>3, <1>5, Frames DEF vars
<1> QED BY <1>4, <1>5, Steps

LEMMA LearnsOfItsScriptKept == EvidenceInv /\ [Next]_vars => LearnsOfItsScript'
<1> SUFFICES ASSUME EvidenceInv, [Next]_vars, NEW r \in Run
             PROVE  /\ learn'[r].status # "none" => learn'[r].script = run'[r].script
                    /\ job'[r].status # "none" => job'[r].expected \in {None, run'[r].script}
  BY DEF LearnsOfItsScript
<1> DEFINE Goal == /\ learn'[r].status # "none" => learn'[r].script = run'[r].script
                   /\ job'[r].status # "none" => job'[r].expected \in {None, run'[r].script}
<1>1. /\ learn[r].status # "none" =>
            learn[r].script = run[r].script /\ run[r].pc \in {"queued", "gone"}
      /\ job[r].status # "none" =>
            job[r].expected \in {None, run[r].script} /\ learn[r].status # "none"
  BY DEF EvidenceInv, IInv, LearnsOfItsScript, LearnsItsRun
<1>2. learn \in [Run -> LearnRow] /\ job \in [Run -> JobRow]
  BY Types DEF EvidenceInv, IInv
<1>3. learn[r].status # "none" => run'[r].script = run[r].script
  BY <1>1, RunsFitOn
<1>4. ASSUME learn'[r].script = learn[r].script,
             learn'[r].status = "none" <=> learn[r].status = "none",
             job'[r].expected = job[r].expected,
             job'[r].status = "none" <=> job[r].status = "none"
      PROVE  Goal
  BY <1>1, <1>3, <1>4
<1>5. CASE Grants \/ Demotes \/ Runs \/ Yields \/ Promotes \/ UNCHANGED vars
  BY <1>4, <1>5, Frames DEF vars, rows
<1>6. CASE Enqueues
  <2>1. PICK q \in Run : Enqueue(q)
    BY <1>6 DEF Enqueues
  <2>2. job' = job /\ (q # r => learn'[r] = learn[r])
    BY <1>6, <2>1, Frames, EnqueueEffect DEF EvidenceInv
  <2>3. CASE q # r \/ learn' = learn
    BY <1>4, <2>2, <2>3
  <2>4. CASE q = r /\ learn' # learn
    <3>1. run[r].pc = "over"
      BY <2>1, <2>4 DEF Enqueue
    <3>2. learn[r].status = "none" /\ job[r].status = "none"
      BY <1>1, <3>1
    <3>3. learn'[r].script = run[r].script
      BY <1>2, <2>1, <2>4 DEF Enqueue, LearnRow
    <3>4. run'[r].script = run[r].script
      BY <3>1, RunsFitOn
    <3> QED BY <2>2, <3>2, <3>3, <3>4
  <2> QED BY <2>3, <2>4
<1>7. CASE Dispatches
  <2>1. PICK l \in Learner, q \in Run : Dispatch(l, q)
    BY <1>7 DEF Dispatches
  <2>2. learn'[r].script = learn[r].script /\ learn'[r].status = learn[r].status
    BY <1>2, <2>1 DEF Dispatch, LearnRow
  <2>3. CASE job'[r] = job[r]
    BY <1>4, <2>2, <2>3
  <2>4. CASE job'[r] # job[r]
    <3>1. q = r /\ ~Superseded(r)
      BY <1>2, <2>1, <2>4 DEF Dispatch
    <3>2. job'[r].expected = ActiveScript /\ learn[r].status = "succeeded"
      BY <1>2, <2>1, <3>1 DEF Dispatch, JobRow, Pending
    <3>3. ActiveScript \in {None, learn[r].script}
      BY <3>1, TheActiveScript DEF Superseded
    <3> QED BY <1>1, <1>3, <2>2, <3>2, <3>3
  <2> QED BY <2>3, <2>4
<1>8. CASE Learns
  <2>1. /\ learn'[r].script = learn[r].script
        /\ learn'[r].status = "none" <=> learn[r].status = "none"
    <3>1. PICK l \in Learner : \/ \E q \in Run : ClaimLearning(l, q)
                              \/ LearningFails(l) \/ NoEvidence(l) \/ LearnerDies(l)
      BY <1>8 DEF Learns
    <3>2. ASSUME NEW q \in Run, ClaimLearning(l, q)
          PROVE  learn'[r].script = learn[r].script
      BY <1>2, <3>2 DEF ClaimLearning, LearnRow
    <3>3. ASSUME LearningFails(l) \/ NoEvidence(l)
          PROVE  learn'[r].script = learn[r].script
      <4> DEFINE q == learner[l].run
      <4>1. PICK status : learn' = [learn EXCEPT ![q].status = status]
        BY <3>3 DEF LearningFails, NoEvidence
      <4> HIDE DEF q
      <4>2. learn'[r] = learn[r] \/ learn'[r] = [learn[r] EXCEPT !.status = status]
        BY <1>2, <4>1
      <4>3. learn[r] \in LearnRow
        BY <1>2
      <4> QED BY <4>2, <4>3 DEF LearnRow
    <3>4. LearnerDies(l) => learn' = learn
      BY DEF LearnerDies, rows
    <3>5. learn'[r].script = learn[r].script
      BY <3>1, <3>2, <3>3, <3>4
    <3> QED BY <1>8, <3>5, LearnsEffect DEF EvidenceInv, LearnKept
  <2> QED BY <1>4, <1>8, <2>1, Frames
<1>9. CASE Applies
  <2>1. learn'[r].script = learn[r].script
    <3>1. PICK l \in Learner : Apply(l)
      BY <1>9 DEF Applies
    <3>2. CASE learn' = learn
      BY <3>2
    <3>3. CASE learn' = [learn EXCEPT ![learner[l].run].status = "refused"]
      BY <1>2, <3>3 DEF LearnRow
    <3>4. CASE \E wanted \in BOOLEAN :
                 learn' = [learn EXCEPT ![learner[l].run].status = "succeeded",
                                        ![learner[l].run].wanted = wanted]
      BY <1>2, <3>4 DEF LearnRow
    <3> QED BY <3>1, <3>2, <3>3, <3>4 DEF Apply
  <2> QED BY <1>4, <1>9, <2>1, Frames, AppliesEffect DEF EvidenceInv
<1>10. CASE Compiling
  <2>1. job'[r].expected = job[r].expected
    <3>1. CASE job' = job
      BY <3>1
    <3>2. ASSUME NEW c \in Compiler, NEW q \in Run, ClaimCompile(c, q)
          PROVE  job'[r].expected = job[r].expected
      BY <1>2, <3>2 DEF ClaimCompile, JobRow
    <3>3. ASSUME NEW c \in Compiler, NEW status, Finished(c, status)
          PROVE  job'[r].expected = job[r].expected
      BY <1>2, <3>3 DEF Finished, JobRow
    <3> QED BY <1>10, <3>1, <3>2, <3>3
        DEF Compiling, CompileRefused, CompileFails, NotPromoted, FinishCompile, CompilerDies, rows
  <2> QED BY <1>4, <1>10, <2>1, Frames, CompilingEffect DEF EvidenceInv, JobsKept
<1> QED BY <1>5, <1>6, <1>7, <1>8, <1>9, <1>10, Steps

(* Who loses its candidate loses it to nobody. *)
LEMMA CandidatesAreOwnKept == EvidenceInv /\ [Next]_vars => CandidatesAreOwn'
<1> SUFFICES ASSUME EvidenceInv, [Next]_vars, NEW c \in Compiler, compiler'[c].pc = "compiled"
             PROVE  CandidateOf(c)'
  BY DEF CandidatesAreOwn
<1>1. script \in [Script -> ScriptRow] /\ compiler \in [Compiler -> CompilerRow]
  BY Types DEF EvidenceInv, IInv
<1>2. \A d \in Compiler : compiler[d].pc = "compiled" =>
         compiler[d].script \in Script /\ CandidateOf(d)
  BY DEF EvidenceInv, IInv, CompilesItsRun, WorksFor, CandidatesAreOwn
<1>3. ASSUME compiler'[c] = compiler[c],
             script'[compiler[c].script] = script[compiler[c].script],
             \A d \in Compiler \ {c} : compiler'[d].pc = "compiled" =>
                compiler'[d] = compiler[d]
      PROVE  CandidateOf(c)'
  BY <1>2, <1>3 DEF CandidateOf
<1>4. \A gone \in SUBSET Script : gone \subseteq Active =>
         \A d \in Compiler : compiler[d].pc = "compiled" =>
            Invalidated(gone)[compiler[d].script] = script[compiler[d].script]
  BY <1>1, <1>2, InvalidatedShelf DEF CandidateOf, Active
<1>5. CASE Grants
  <2>1. script' = Invalidated(Active) /\ Active \subseteq Script
    BY <1>5 DEF Grants, ChangeGrants, Active
  <2> QED BY <1>3, <1>4, <1>5, <2>1, Frames
<1>6. CASE Demotes
  <2>1. PICK gone \in SUBSET Script : gone \subseteq Active /\ script' \in {script, Invalidated(gone)}
    <3>1. ASSUME NEW r \in Run, RuntimeChanged(r), run[r].script \in Active
          PROVE  {run[r].script} \subseteq Active /\ script' = Invalidated({run[r].script})
      BY <3>1 DEF RuntimeChanged
    <3>2. ASSUME NEW r \in Run, RuntimeChanged(r), run[r].script \notin Active
          PROVE  script' = script
      BY <3>2 DEF RuntimeChanged
    <3>3. ASSUME NEW r \in Run, Record(r)
          PROVE  script' \in {script, Invalidated(Active)}
      BY <3>3 DEF Record
    <3>4. Active \subseteq Script /\ {} \subseteq Active
      BY DEF Active
    <3> QED BY <1>6, <3>1, <3>2, <3>3, <3>4 DEF Demotes
  <2>2. compiler' = compiler
    BY <1>6, Frames
  <2>3. script'[compiler[c].script] = script[compiler[c].script]
    BY <1>4, <2>1, <2>2
  <2> QED BY <1>3, <2>2, <2>3
<1>7. CASE Runs \/ Enqueues \/ Dispatches \/ Learns \/ Applies \/ UNCHANGED vars
  BY <1>3, <1>7, Frames DEF vars, rows
<1>8. CASE Compiling
  BY <1>3, <1>8, Frames, CompilingEffect DEF EvidenceInv, CompilersKept
<1>9. CASE Yields
  <2>1. PICK d \in Compiler, s \in Script : Candidate(d, s)
    BY <1>9 DEF Yields
  <2>2. /\ script[s].status = "none" /\ compiler'[d].script = s /\ script'[s].status = "candidate"
        /\ compiler'[d].run = compiler[d].run
        /\ \A t \in Script \ {s} : script'[t] = script[t]
        /\ \A e \in Compiler \ {d} : compiler'[e] = compiler[e]
    BY <2>1, YieldsEffect DEF EvidenceInv
  <2>3. \A e \in Compiler : compiler[e].pc = "compiled" => compiler[e].script # s
    BY <1>2, <2>2 DEF CandidateOf
  <2>4. script'[s].from = compiler[d].run
    BY <1>1, <2>1 DEF Candidate
  <2>5. CASE c = d
    BY <2>2, <2>3, <2>4, <2>5 DEF CandidateOf
  <2>6. CASE c # d
    <3>1. compiler'[c] = compiler[c] /\ script'[compiler[c].script] = script[compiler[c].script]
      BY <1>2, <2>2, <2>3, <2>6
    <3> QED BY <1>2, <2>2, <2>3, <3>1 DEF CandidateOf
  <2> QED BY <2>5, <2>6
<1>10. CASE Promotes
  <2>1. PICK d \in Compiler : Promote(d)
    BY <1>10 DEF Promotes
  <2> DEFINE n == compiler[d].script
  <2>2. /\ compiler[d].pc = "compiled" /\ compiler'[d].pc = "promoted"
        /\ \A e \in Compiler \ {d} : compiler'[e] = compiler[e]
    BY <2>1, PromotesEffect DEF EvidenceInv, Promote
  <2>3. c # d /\ compiler[c].script # n /\ compiler'[c] = compiler[c]
    BY <1>2, <2>2 DEF CandidateOf
  <2>4. script' = [Invalidated(Active) EXCEPT ![n].status = "active"]
    BY <2>1 DEF Promote
  <2>5. script'[compiler[c].script] = Invalidated(Active)[compiler[c].script]
    <3>1. Invalidated(Active) \in [Script -> ScriptRow]
      BY <1>1, InvalidatedShelf DEF Active
    <3>2. compiler[c].script \in Script
      BY <1>2, <2>3
    <3> HIDE DEF n
    <3> QED BY <2>3, <2>4, <3>1, <3>2
  <2>6. script'[compiler[c].script] = script[compiler[c].script]
    BY <1>4, <2>3, <2>5 DEF Active
  <2> QED BY <1>3, <2>2, <2>3, <2>6
<1> QED BY <1>5, <1>6, <1>7, <1>8, <1>9, <1>10, Steps

LEMMA EvidenceInvariant == Spec => []EvidenceInv
<1>1. Init => EvidenceInv
  <2> SUFFICES ASSUME Init PROVE EvidenceInv
    OBVIOUS
  <2>1. IInv
    BY InitHolds
  <2>2. BelowLimit
    <3>1. {i \in DOMAIN <<>> : (<<>>)[i]} = {}
      OBVIOUS
    <3>2. Deopts(<<>>) = 0
      BY <3>1, FS_EmptySet DEF Deopts
    <3> QED BY <3>2, FastPathAssumption DEF Init, BelowLimit
  <2>3. DeoptsHaveScripts /\ LearnsOfItsScript /\ CandidatesAreOwn
    BY DEF Init, DeoptsHaveScripts, DeoptFits, LearnsOfItsScript, CandidatesAreOwn, IdleCompiler
  <2> QED BY <2>1, <2>2, <2>3 DEF EvidenceInv
<1>2. EvidenceInv /\ [Next]_vars => EvidenceInv'
  <2> SUFFICES ASSUME EvidenceInv, [Next]_vars PROVE EvidenceInv'
    OBVIOUS
  <2>1. IInv'
    BY InvariantKept DEF EvidenceInv
  <2>2. DeoptsHaveScripts'
    BY RunsFitOn DEF DeoptsHaveScripts
  <2> QED BY <2>1, <2>2, BelowLimitKept, LearnsOfItsScriptKept, CandidatesAreOwnKept DEF EvidenceInv
<1> QED BY <1>1, <1>2, PTL DEF Spec

-----------------------------------------------------------------------------
(* The reasons for which a script may stop serving. *)
RetiredRightly(s) ==
    \/ \E d \in Definition : ChangeGrants(d)
    \/ \E r \in Run : run[r].script = s /\ run'[r] # run[r]
    \/ \E n \in Script : /\ script[n].status = "candidate"
                        /\ script'[n].status = "active"
                        /\ run[script[n].from].script = s

(* Another browser: only the run's own script. *)
LEMMA RetiredByGuard ==
    ASSUME EvidenceInv, NEW r \in Run, RuntimeChanged(r), NEW s \in Script, Retired(s)
    PROVE  RetiredRightly(s)
<1>1. script \in [Script -> ScriptRow] /\ run \in [Run -> RunRow]
  BY Types DEF EvidenceInv, IInv
<1>2. script[s].status = "active" /\ script'[s].status = "invalidated"
  BY DEF Retired, Active
<1>3. run[r].script \in Active /\ script' = Invalidated({run[r].script})
  BY <1>2 DEF RuntimeChanged
<1>4. s = run[r].script
  <2>1. {run[r].script} \in SUBSET Script
    BY <1>3 DEF Active
  <2> QED BY <1>1, <1>2, <1>3, <2>1, InvalidatedShelf
<1>5. run[r].pc = "loaded" /\ run'[r].pc = "over"
  <2>1. PICK ok \in BOOLEAN :
           run' = [run EXCEPT ![r].pc = "over", ![r].ok = ok, ![r].deopt = "guard"]
    BY DEF RuntimeChanged
  <2> QED BY <1>1, <2>1 DEF RuntimeChanged, RunRow
<1> QED BY <1>4, <1>5 DEF RetiredRightly

(* recordCompiledRun: a run without a script cannot fill the window, so    *)
(* the run that did is one of the script that serves.                      *)
LEMMA RetiredByRecord ==
    ASSUME EvidenceInv, NEW r \in Run, Record(r), NEW s \in Script, Retired(s)
    PROVE  RetiredRightly(s)
<1>1. run \in [Run -> RunRow] /\ task \in TaskRow
  BY Types DEF EvidenceInv, IInv, TaskRow
<1>2. script[s].status = "active" /\ script'[s].status = "invalidated" /\ s \in Active
  BY DEF Retired, Active
<1> DEFINE window == Last(Append(task.deopts, run[r].deopt = "guard"), DeoptWindow)
<1>3. Concerns(r) /\ Deopts(window) >= DemoteDeopts
  BY <1>2 DEF Record
<1>4. run[r].script # None
  <2> SUFFICES ASSUME run[r].script = None PROVE FALSE
    OBVIOUS
  <2>1. (run[r].deopt = "guard") = FALSE
    BY DEF EvidenceInv, DeoptsHaveScripts, DeoptFits
  <2>2. window = Last(Append(task.deopts, FALSE), DeoptWindow)
    BY <2>1
  <2>3. task.deopts \in Seq(BOOLEAN)
    BY <1>1 DEF TaskRow
  <2> HIDE DEF window
  <2>4. Deopts(window) <= Deopts(task.deopts)
    BY <2>2, <2>3, NoDeoptAdded, Constants
  <2>5. Deopts(task.deopts) \in Int /\ Deopts(window) \in Int
    <3>1. Append(task.deopts, FALSE) \in Seq(BOOLEAN)
      BY <2>3, AppendProperties
    <3>2. window \in Seq(BOOLEAN)
      BY <2>2, <3>1, LastTyped, Constants
    <3> QED BY <2>3, <3>2, DeoptsTyped
  <2> QED BY <1>3, <2>4, <2>5, Constants DEF EvidenceInv, BelowLimit
<1>5. run[r].script = s
  BY <1>2, <1>3, <1>4, TheActiveScript DEF Concerns, EvidenceInv, IInv, Served
<1>6. run[r].pc = "queued" /\ run'[r].pc = "gone"
  BY <1>1 DEF Record, RunRow
<1> QED BY <1>5, <1>6 DEF RetiredRightly

(* promoteTask: the job expected the script it replaces, and expects only  *)
(* the script its own run had.                                             *)
LEMMA RetiredByPromotion ==
    ASSUME EvidenceInv, NEW c \in Compiler, Promote(c), NEW s \in Script, Retired(s)
    PROVE  RetiredRightly(s)
<1> DEFINE n == compiler[c].script
           r == compiler[c].run
<1>1. s \in Active /\ s # None
  BY Constants DEF Retired
<1>2. /\ n \in Script /\ script[n].status = "candidate" /\ script[n].from = r
      /\ r \in Run /\ job[r].status # "none"
  BY DEF Promote, EvidenceInv, IInv, CompilesItsRun, WorksFor, CandidatesAreOwn, CandidateOf
<1>3. script'[n].status = "active"
  BY PromotesEffect DEF EvidenceInv
<1>4. ActiveScript = job[r].expected
  BY DEF Promote, Promotable
<1>5. ActiveScript = s
  BY <1>1, TheActiveScript DEF EvidenceInv, IInv, Served
<1>6. job[r].expected \in {None, run[r].script}
  BY <1>2 DEF EvidenceInv, LearnsOfItsScript
<1> QED BY <1>1, <1>2, <1>3, <1>4, <1>5, <1>6 DEF RetiredRightly

(* A script stops serving only when grants are decided, when a run of its  *)
(* own says so, or for a script compiled from a run of its own             *)
(* (recordCompiledRun, dispatchLearningCompile and promoteTask together):  *)
(* nobody is retired on the evidence of a predecessor.                     *)
THEOREM ScriptsRetiredRightly == Spec => RetiredOnOwnEvidence
<1>1. EvidenceInv /\ [Next]_vars =>
         [\A s \in Script : Retired(s) =>
            \/ \E d \in Definition : ChangeGrants(d)
            \/ \E r \in Run : run[r].script = s /\ run'[r] # run[r]
            \/ \E n \in Script : /\ script[n].status = "candidate"
                                /\ script'[n].status = "active"
                                /\ run[script[n].from].script = s]_vars
  <2> SUFFICES ASSUME EvidenceInv, [Next]_vars, NEW s \in Script, Retired(s)
               PROVE  RetiredRightly(s)
    BY DEF RetiredRightly
  <2>1. s \in Active /\ script[s].status = "active" /\ script'[s].status = "invalidated"
    BY DEF Retired, Active
  <2>2. CASE Grants
    BY <2>2 DEF Grants, RetiredRightly
  <2>3. CASE Demotes
    BY <2>3, RetiredByGuard, RetiredByRecord DEF Demotes
  <2>4. CASE Promotes
    BY <2>4, RetiredByPromotion DEF Promotes
  <2>5. CASE Yields
    <3>1. PICK c \in Compiler, t \in Script : Candidate(c, t)
      BY <2>5 DEF Yields
    <3> QED BY <2>1, <3>1, YieldsEffect DEF EvidenceInv
  <2>6. CASE Runs \/ Enqueues \/ Dispatches \/ Learns \/ Applies \/ Compiling \/ UNCHANGED vars
    BY <2>1, <2>6, Frames DEF vars, rows
  <2> QED BY <2>2, <2>3, <2>4, <2>5, <2>6, Steps
<1> QED BY <1>1, EvidenceInvariant, PTL DEF Spec, RetiredOnOwnEvidence
=============================================================================
