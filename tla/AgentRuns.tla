----------------------------- MODULE AgentRuns ------------------------------
(***************************************************************************)
(* What executors do with a browser run (packages/agent: executor.ts,      *)
(* compiled-executor.ts, loop.ts, python-tool.ts, browser-continuity.ts,   *)
(* browser-loop-control.ts, context-history.ts).                           *)
(*                                                                         *)
(* The runs of one task in one execution.  Each belongs to a trigger (a    *)
(* record to process); runs of one trigger are attempts, one after the     *)
(* other.  All of them share one history, kept by one run at a time.  A    *)
(* run executes Python cells, of the compiled script or of the agent, and  *)
(* a cell calls operations on a website.  They are journaled per trigger   *)
(* before and after, so that the next attempt knows what may have          *)
(* happened.  Processes die, and runs are taken from live processes by     *)
(* cancel, watchdog and recovery (RunLifecycle).                           *)
(*                                                                         *)
(* Operations are those with an effect; reads, which are never in flight   *)
(* in the journal, are left out.  So are prompts, results, perception,     *)
(* memory, files, what a keeper is told about its predecessor, and         *)
(* compaction, which rewords the conversation and drops no turn.           *)
(***************************************************************************)
EXTENDS Integers, Sequences, FiniteSets

CONSTANTS
    Run, Trigger, TriggerOf, None,
    Op,                 \* bound: operations called
    MaxCells,           \* bound: cells of one run
    MaxFaults           \* bound: deaths and failed database calls

ASSUME AgentAssumption ==
    /\ Run \cap Trigger = {} /\ None \notin Run \cup Trigger
    /\ TriggerOf \in [Run -> Trigger \cup {None}]
    /\ MaxCells \in Nat /\ MaxFaults \in Nat

VARIABLES
    row,                \* runs.status
    process,            \* the executor of each run
    op,                 \* operations, as the handlers of python-tool have them
    queue,              \* stateQueue of each run's cell: writes to the journal
    journal,            \* task_state agent-code-progress:...
    keeper,             \* task_state browser:...:lease
    history,            \* what browser:...:context refers to
    faults

tables == <<row, journal, keeper, history>>
vars == <<tables, process, op, queue, faults>>

Key == Run \cup Trigger
Turn == Run \X (1 .. MaxCells)
InHandler == {"starting", "ready", "sent", "back", "noted", "read"}

TypeOK ==
    /\ row \in [Run -> {"waiting", "running", "succeeded", "failed", "ended"}]
    /\ process \in [Run -> [pc : {"new", "acquiring", "ready", "cell", "closing",
                                  "returning", "gone"},
                            lane : {"compiled", "ai"}, cells : 0 .. MaxCells,
                            stopped : BOOLEAN, ok : BOOLEAN,
                            seen : Seq(Op), told : SUBSET Turn, left : SUBSET Op]]
    /\ op \in [Op -> [run : Run \cup {None},
                      phase : InHandler \cup {"new", "over"},
                      unknown : BOOLEAN, overtaken : BOOLEAN]]
    /\ queue \in [Run -> Seq(Op)]
    /\ journal \in [Key -> [inFlight : SUBSET Op, flag : BOOLEAN]]
    /\ keeper \in Run \cup {None}
    /\ history \in [archive : Seq(Op), talk : SUBSET Turn]
    /\ faults \in 0 .. MaxFaults

NoProcess(pc) == [pc |-> pc, lane |-> "ai", cells |-> 0, stopped |-> FALSE, ok |-> FALSE,
                  seen |-> <<>>, told |-> {}, left |-> {}]

Init ==
    /\ row = [r \in Run |-> "waiting"]
    /\ process = [r \in Run |-> NoProcess("new")]
    /\ op = [o \in Op |-> [run |-> None, phase |-> "new", unknown |-> FALSE,
                           overtaken |-> FALSE]]
    /\ queue = [r \in Run |-> <<>>]
    /\ journal = [k \in Key |-> [inFlight |-> {}, flag |-> FALSE]]
    /\ keeper = None
    /\ history = [archive |-> <<>>, talk |-> {}]
    /\ faults = 0

Fault == faults < MaxFaults /\ faults' = faults + 1

-----------------------------------------------------------------------------
(* The row of a run, as RunLifecycle has it. *)

JournalKey(r) == IF TriggerOf[r] = None THEN r ELSE TriggerOf[r]

(* Attempts of one trigger follow each other: a retry follows a failure   *)
(* the executor reported, and nothing else.                               *)
Start(r) ==
    /\ row[r] = "waiting"
    /\ \A s \in Run \ {r} : JournalKey(s) = JournalKey(r) => row[s] \in {"waiting", "failed"}
    /\ \E lane \in {"compiled", "ai"} :
          process' = [process EXCEPT ![r].pc = "acquiring", ![r].lane = lane]
    /\ row' = [row EXCEPT ![r] = "running"]
    /\ UNCHANGED <<op, queue, journal, keeper, history, faults>>

(* Cancel, watchdog or recovery ("browser_outcome_uncertain"): no attempt *)
(* follows, and the process learns of it later.                           *)
Revoke(r) ==
    /\ row[r] = "running"
    /\ row' = [row EXCEPT ![r] = "ended"]
    /\ UNCHANGED <<journal, keeper, history, process, op, queue, faults>>

OpsOf(r) == {o \in Op : op[o].run = r}
Active(r) == {o \in OpsOf(r) : op[o].phase \in InHandler}

(* What was sent may have happened. *)
Crash(r) ==
    /\ process[r].pc \notin {"new", "gone"} /\ Fault
    /\ process' = [process EXCEPT ![r] = NoProcess("gone")]
    /\ queue' = [queue EXCEPT ![r] = <<>>]
    /\ op' = [o \in Op |-> IF o \notin Active(r) THEN op[o]
                            ELSE [op[o] EXCEPT !.phase = "over",
                                               !.unknown = @ \/ op[o].phase = "sent"]]
    /\ UNCHANGED tables

(* assertRunLease, and checkOwner of the stores. *)
Leased(r) == row[r] = "running"
Keeps(r) == Leased(r) /\ keeper = r

-----------------------------------------------------------------------------
(* Who keeps the shared history. *)

(* Mutant: only a keeper that released is replaced. *)
BusyUntilReleased(s) == s # None

Busy(s) == s # None /\ row[s] = "running"

(* acquireBrowserContinuity: a keeper whose run is over is replaced, *)
(* whatever its process still does.  The agent reads its messages.   *)
Acquire(r) ==
    /\ process[r].pc = "acquiring" /\ Leased(r) /\ ~Busy(keeper)
    /\ keeper' = r
    /\ process' = [process EXCEPT ![r].pc = "ready", ![r].told = history.talk]
    /\ UNCHANGED <<row, journal, history, op, queue, faults>>

(* finally: only the keeper releases, and a failure is swallowed. *)
Release(r) ==
    /\ process[r].pc = "closing"
    /\ process' = [process EXCEPT ![r].pc = "returning"]
    /\ \/ keeper' = (IF keeper = r THEN None ELSE keeper) /\ UNCHANGED faults
       \/ Fault /\ UNCHANGED keeper
    /\ UNCHANGED <<row, journal, history, op, queue>>

(* The engine settles the run, if it is still the executor's. *)
Settle(r) ==
    /\ process[r].pc = "returning"
    /\ process' = [process EXCEPT ![r] = NoProcess("gone")]
    /\ row' = IF Leased(r)
              THEN [row EXCEPT ![r] = IF process[r].ok THEN "succeeded" ELSE "failed"] ELSE row
    /\ UNCHANGED <<journal, keeper, history, op, queue, faults>>

-----------------------------------------------------------------------------
(* Cells, and the journal of their effects. *)

(* The map "running" of the cell; an entry whose first write failed stays. *)
Running(r) == {o \in OpsOf(r) : \/ op[o].phase \in {"starting", "ready", "sent"}
                                \/ o \in process[r].left}

Journaled(r, inFlight, flag) ==
    journal' = [journal EXCEPT ![JournalKey(r)] = [inFlight |-> inFlight, flag |-> @.flag \/ flag]]

(* Mutant: what an earlier cell left in flight is forgotten. *)
OpenCellForgetting(r) ==
    /\ process[r].pc = "ready" /\ Keeps(r) /\ process[r].cells < MaxCells
    /\ process' = [process EXCEPT ![r].pc = "cell", ![r].cells = @ + 1,
                                  ![r].stopped = FALSE, ![r].left = {}]
    /\ Journaled(r, {}, FALSE)
    /\ UNCHANGED <<row, keeper, history, op, queue, faults>>

OpenCell(r) ==
    /\ process[r].pc = "ready" /\ Keeps(r) /\ process[r].cells < MaxCells
    /\ process' = [process EXCEPT ![r].pc = "cell", ![r].cells = @ + 1,
                                  ![r].stopped = FALSE, ![r].left = {}]
    /\ Journaled(r, {}, journal[JournalKey(r)].inFlight # {})
    /\ UNCHANGED <<row, keeper, history, op, queue, faults>>

(* Which id comes next does not matter. *)
NextOp == CHOOSE o \in Op : op[o].phase = "new"

(* A cell calls one operation at a time, and from callbacks while one is *)
(* under way.                                                            *)
Call(r, o) ==
    /\ process[r].pc = "cell" /\ ~process[r].stopped
    /\ op[o].phase = "new" /\ o = NextOp
    /\ Active(r) = {} \/ \E p \in Active(r) : op[p].phase = "sent"
    /\ op' = [op EXCEPT ![o].run = r, ![o].phase = "starting"]
    /\ queue' = [queue EXCEPT ![r] = Append(@, o)]
    /\ UNCHANGED <<tables, process, faults>>

(* The gate before a call says that a human had the browser. *)
ControlChanged(r) ==
    /\ process[r].pc = "cell" /\ ~process[r].stopped
    /\ process' = [process EXCEPT ![r].stopped = TRUE]
    /\ UNCHANGED <<tables, op, queue, faults>>

(* Of the operations whose outcome is unknown and whose own write is still *)
(* queued, or failed, this write says nothing: they are not running.       *)
Overtaken(r, o) ==
    {u \in journal[JournalKey(r)].inFlight \ (Running(r) \cup {o}) : op[u].unknown}

Written(r, o) ==
    [u \in Op |-> IF u = o
                  THEN [op[o] EXCEPT !.phase = IF @ = "starting" THEN "ready" ELSE "noted",
                                     !.overtaken = FALSE]
                  ELSE [op[u] EXCEPT !.overtaken = @ \/ u \in Overtaken(r, o)]]

(* The next queued write: before an operation or after it. *)
WriteJournal(r) ==
    /\ queue[r] # <<>> /\ Leased(r)
    /\ LET o == Head(queue[r])
           unknown == op[o].phase = "back" /\ op[o].unknown IN
          /\ Journaled(r, Running(r), unknown)
          /\ op' = Written(r, o)
          /\ \E failed \in BOOLEAN :
                /\ failed => op[o].phase = "back" /\ process[r].lane = "compiled"
                /\ unknown /\ process[r].lane = "compiled" => failed
                /\ process' = [process EXCEPT ![r].stopped = @ \/ failed]
    /\ queue' = [queue EXCEPT ![r] = Tail(@)]
    /\ UNCHANGED <<row, keeper, history, faults>>

(* The lease is lost, or the database does not answer: the handler throws, *)
(* before or after its operation, and the program may go on.               *)
JournalLost(r) ==
    /\ queue[r] # <<>>
    /\ IF Leased(r) THEN Fault ELSE UNCHANGED faults
    /\ LET o == Head(queue[r]) IN
          /\ op' = [op EXCEPT ![o].phase = "over"]
          /\ process' = [process EXCEPT ![r].left =
                            IF op[o].phase = "starting" THEN @ \cup {o} ELSE @]
    /\ queue' = [queue EXCEPT ![r] = Tail(@)]
    /\ UNCHANGED tables

(* Mutant: the script goes on over what it does not know. *)
HeedlessScript(r) == FALSE

(* The script does nothing more once something is unknown. *)
MustReconcile(r) == process[r].lane = "compiled" /\ journal[JournalKey(r)].flag

Dispatch(r, o) ==
    /\ o \in OpsOf(r) /\ op[o].phase = "ready" /\ ~MustReconcile(r)
    /\ op' = [op EXCEPT ![o].phase = "sent"]
    /\ UNCHANGED <<tables, process, queue, faults>>

(* The refusal is written down as uncertain like any other error. *)
Refuse(r, o) ==
    /\ o \in OpsOf(r) /\ op[o].phase = "ready" /\ MustReconcile(r)
    /\ op' = [op EXCEPT ![o].phase = "back", ![o].unknown = TRUE]
    /\ queue' = [queue EXCEPT ![r] = Append(@, o)]
    /\ UNCHANGED <<tables, process, faults>>

(* It is known whether the operation took effect, or not. *)
Return(r, o, unknown) ==
    /\ o \in OpsOf(r) /\ op[o].phase = "sent"
    /\ op' = [op EXCEPT ![o].phase = "back", ![o].unknown = unknown]
    /\ queue' = [queue EXCEPT ![r] = Append(@, o)]
    /\ UNCHANGED <<tables, process, faults>>

-----------------------------------------------------------------------------
(* The archive of operations: read and extended one operation at a time *)
(* (historyQueue), in two transactions.                                 *)

ReadArchive(r, o) ==
    /\ o \in OpsOf(r) /\ op[o].phase = "noted"
    /\ \A p \in OpsOf(r) : op[p].phase # "read"
    /\ op' = [op EXCEPT ![o].phase = IF Keeps(r) THEN "read" ELSE "over"]
    /\ process' = [process EXCEPT ![r].seen = IF Keeps(r) THEN history.archive ELSE @]
    /\ UNCHANGED <<tables, queue, faults>>

(* Mutant: ownership is checked on reading only. *)
ExtendArchiveUnfenced(r, o) ==
    /\ o \in OpsOf(r) /\ op[o].phase = "read"
    /\ op' = [op EXCEPT ![o].phase = "over"]
    /\ process' = [process EXCEPT ![r].seen = <<>>]
    /\ history' = [history EXCEPT !.archive = Append(process[r].seen, o)]
    /\ UNCHANGED <<row, journal, keeper, queue, faults>>

ExtendArchive(r, o) ==
    /\ o \in OpsOf(r) /\ op[o].phase = "read"
    /\ op' = [op EXCEPT ![o].phase = "over"]
    /\ history' = IF Keeps(r)
                  THEN [history EXCEPT !.archive = Append(process[r].seen, o)] ELSE history
    /\ process' = [process EXCEPT ![r].seen = <<>>]
    /\ UNCHANGED <<row, journal, keeper, queue, faults>>

-----------------------------------------------------------------------------
(* The end of a cell: all its handlers are done. *)

CellOver(r) == process[r].pc = "cell" /\ Active(r) = {} /\ queue[r] = <<>>

(* The script completed or failed the task. *)
ScriptEnds(r, ok) ==
    /\ CellOver(r) /\ process[r].lane = "compiled" /\ ~process[r].stopped
    /\ process' = [process EXCEPT ![r].pc = "closing", ![r].ok = ok, ![r].told = {}]
    /\ UNCHANGED <<tables, op, queue, faults>>

(* It did neither, or was stopped: the agent takes over the same run, *)
(* with the messages of the history.                                  *)
Deopt(r) ==
    /\ CellOver(r) /\ process[r].lane = "compiled" /\ Keeps(r)
    /\ process' = [process EXCEPT ![r].pc = "ready", ![r].lane = "ai",
                                  ![r].stopped = FALSE, ![r].told = history.talk]
    /\ UNCHANGED <<tables, op, queue, faults>>

(* The results go back to the model and into the history; with done or *)
(* fail the loop is over.                                              *)
EndTurn(r, next, ok) ==
    /\ CellOver(r) /\ process[r].lane = "ai" /\ Keeps(r)
    /\ next = "ready" => ~ok
    /\ LET told == process[r].told \cup {<<r, process[r].cells>>} IN
          /\ process' = [process EXCEPT ![r].pc = next, ![r].ok = ok, ![r].stopped = FALSE,
                                        ![r].told = IF next = "ready" THEN told ELSE {}]
          /\ history' = [history EXCEPT !.talk = told]
    /\ UNCHANGED <<row, journal, keeper, op, queue, faults>>

(* The browser is gone, the program was killed, the model failed, or the *)
(* lease was lost: the executor returns an error, the turn is not saved. *)
Throw(r) ==
    /\ process[r].pc \in {"acquiring", "ready"} \/ CellOver(r)
    /\ process' = [process EXCEPT ![r].pc = "closing", ![r].ok = FALSE,
                                  ![r].stopped = FALSE, ![r].told = {}]
    /\ UNCHANGED <<tables, op, queue, faults>>

-----------------------------------------------------------------------------
Operate(r, o) ==
    \/ Call(r, o) \/ Dispatch(r, o) \/ Refuse(r, o)
    \/ \E unknown \in BOOLEAN : Return(r, o, unknown)
    \/ ReadArchive(r, o) \/ ExtendArchive(r, o)

Next ==
    \E r \in Run :
       \/ Start(r) \/ Revoke(r) \/ Crash(r)
       \/ Acquire(r) \/ Release(r) \/ Settle(r)
       \/ OpenCell(r) \/ ControlChanged(r) \/ WriteJournal(r) \/ JournalLost(r)
       \/ \E o \in Op : Operate(r, o)
       \/ \E ok \in BOOLEAN : ScriptEnds(r, ok) \/ \E next \in {"ready", "closing"} : EndTurn(r, next, ok)
       \/ Deopt(r) \/ Throw(r)

Spec == Init /\ [][Next]_vars

(* A waiting process looks every quarter of a second; the run of a keeper *)
(* ends, by its deadline if by nothing else (see RunsComeToAnEnd).        *)
Fairness ==
    \A r \in Run : /\ WF_vars(Acquire(r))
                   /\ WF_vars(~Leased(r) /\ Throw(r))
                   /\ WF_vars(keeper = r /\ Revoke(r))

FairSpec == Spec /\ Fairness

-----------------------------------------------------------------------------
(* What may have happened to the website without anybody knowing. *)
Unknown == {o \in Op : op[o].phase = "sent" \/ op[o].unknown}

KeyOf(o) == JournalKey(op[o].run)

(* An effect without an answer is in the journal of its trigger, whatever *)
(* failed: still in flight, or as something to reconcile.  The exception  *)
(* is an operation that returned and was overtaken, on the way to its own *)
(* write or after that failed, by the write of another one of its cell.   *)
(* Safety of python-tool's state queue against deaths and failed writes.  *)
UnknownIsFlagged ==
    \A o \in Unknown : \/ op[o].overtaken
                       \/ journal[KeyOf(o)].flag
                       \/ o \in journal[KeyOf(o)].inFlight

(* The script of a run that is still its process's own sends no effect     *)
(* while one of an earlier attempt is unknown, unless that one was         *)
(* overtaken as above.                                                     *)
(* Action property of the retry, docs/python-browser-harness.md "compiled  *)
(* execution deopts before further effects".                               *)
Sends(r, o) == /\ op[o].run = r /\ Leased(r) /\ process[r].lane = "compiled"
               /\ op[o].phase # "sent" /\ op'[o].phase = "sent"
NoBlindReplay ==
    [][\A r \in Run, o \in Op : Sends(r, o) =>
          \A u \in Unknown :
             op[u].run # r /\ KeyOf(u) = JournalKey(r) => op[u].overtaken]_vars

(* Whoever keeps it, archive and conversation lose nothing: no process that *)
(* was replaced writes what it read before.                                 *)
(* Action property of the continuity stores, browser-continuity.ts "cannot  *)
(* subsequently read or write the new owner's state".                       *)
HistoryOnlyGrows ==
    [][/\ Len(history'.archive) >= Len(history.archive)
       /\ SubSeq(history'.archive, 1, Len(history.archive)) = history.archive
       /\ history.talk \subseteq history'.talk]_vars

(* A run that waits for the history gets it or ends, even if the keeper's *)
(* process died without a word.                                           *)
(* Liveness of acquireBrowserContinuity.                                  *)
WaitersServed == \A r \in Run : process[r].pc = "acquiring" ~> process[r].pc # "acquiring"

(* learning-loop: what keeps a run from being compiled.  The journal is *)
(* looked up under the run, not under its trigger.                      *)
Resolved(j) == ~j.flag /\ j.inFlight = {}
MayCompile(r) == row[r] = "succeeded" /\ Resolved(journal[r])

(* A run may be compiled only if nothing its trigger did is unresolved.   *)
(* docs/browser-node-learning.md "Compilation still requires successful,  *)
(* unassisted, complete SDK evidence with no unresolved effects".         *)
CompiledOnlyResolved ==
    \A r \in Run : MayCompile(r) => Resolved(journal[JournalKey(r)])
=============================================================================
