---------------------------- MODULE InputControl -----------------------------
(***************************************************************************)
(* Who may touch one hosted browser (packages/engine,                      *)
(* browser-session-control, browser-hosted, browser-tabs; the session      *)
(* branch of apps/fleet; the command and control endpoints of              *)
(* apps/browser-worker; the view socket of apps/gateway).                  *)
(*                                                                         *)
(* The session row says who owns input, under a generation that grows with *)
(* every revocation.  The fleet controller carries owner and generation to *)
(* the worker and records its answer.  Runs send commands through a pool   *)
(* connection that holds a share lock on the row while it waits.           *)
(*                                                                         *)
(* humanActionPending is never set by the code, so it has no variable.     *)
(* A worker drains and assigns its owner while it holds its command lock;  *)
(* here that is one step, taken when nothing is running.                   *)
(***************************************************************************)
EXTENDS Naturals, FiniteSets

CONSTANTS
    Agent,              \* runs of the execution
    Tab,                \* tabs of its browser
    TabOf,              \* the tab each run's task uses
    Nobody,             \* holds an unclaimed tab
    MaxGen,             \* bound: no takeover or resume starts past it
    MaxLoose,           \* bound: operations at the worker nobody waits for
    MaxFaults           \* bound: lost answers and dying browsers and pods

ASSUME InputAssumption ==
    /\ Nobody \notin Agent
    /\ TabOf \in [Agent -> Tab]
    /\ MaxGen \in Nat \ {0}
    /\ MaxLoose \in Nat
    /\ MaxFaults \in Nat

VARIABLES
    session,            \* the browser_sessions row
    worker,             \* what the browser worker holds
    requests,           \* control and stop requests on their way to it
    controller,         \* the fleet controller's tick
    conn,               \* conn[a]: the pool connection of run a
    holder,             \* holder[t]: the run the lease of tab t names
    loose,              \* operations at the worker that nobody waits for
    late,               \* generations of commands given up on in transit
    viewer,             \* generation of the open control view, 0 for none
    faults

fleetVars == <<requests, controller>>
runVars == <<conn, holder, loose, late>>
vars == <<session, worker, requests, controller, conn, holder, loose, late,
          viewer, faults>>

Generation == Nat \ {0}
Owner == {"ai", "paused", "human"}

Session == [kind : {"execution", "setup"},
            status : {"active", "stopping", "ended"},
            owner : Owner, gen : Generation, ack : Generation,
            asked : BOOLEAN, acked : BOOLEAN,
            window : {"none", "open", "over"}]
Worker == [life : {"up", "closed", "stopped", "gone"}, owner : Owner, gen : Generation]
Request == [op : {"control", "stop"}, owner : Owner, gen : Generation]
Controller == [pc : {"idle", "waiting", "acknowledged", "closed", "stopped"},
               sent : Request, was : Owner, failing : BOOLEAN]
Connection == [pc : {"off", "claimed", "idle", "sent", "running", "challenged",
                     "paused", "refreshing"},
               method : {"perceive", "refresh", "act"},
               gen : Generation,
               evidence : {"none", "current", "stale", "unanswered"},
               live : BOOLEAN]

TypeOK ==
    /\ session \in Session
    /\ worker \in Worker
    /\ requests \subseteq Request
    /\ controller \in Controller
    /\ conn \in [Agent -> Connection]
    /\ holder \in [Tab -> Agent \cup {Nobody}]
    /\ loose \in 0 .. MaxLoose
    /\ late \subseteq Generation
    /\ viewer \in Generation \cup {0}
    /\ faults \in 0 .. MaxFaults

NewConnection(live) ==
    [pc |-> "off", method |-> "perceive", gen |-> 1, evidence |-> "none", live |-> live]

IdleController(failing) ==
    [pc |-> "idle", was |-> "ai", failing |-> failing,
     sent |-> [op |-> "control", owner |-> "ai", gen |-> 1]]

Init ==
    /\ \E kind \in {"execution", "setup"} :
          session = [kind |-> kind, status |-> "active", owner |-> "ai", gen |-> 1,
                     ack |-> 1, asked |-> FALSE, acked |-> FALSE, window |-> "none"]
    /\ worker = [life |-> "up", owner |-> "ai", gen |-> 1]
    /\ requests = {}
    /\ controller = IdleController(FALSE)
    /\ conn = [a \in Agent |-> NewConnection(TRUE)]
    /\ holder = [t \in Tab |-> Nobody]
    /\ loose = 0
    /\ late = {}
    /\ viewer = 0
    /\ faults = 0

-----------------------------------------------------------------------------
(* "ready" and "running" differ in nothing but their name. *)
Active == session.status = "active"

(* browserAutomationIsReady *)
Ready == session.owner = "ai" /\ session.ack = session.gen

(* The transaction that carries a command holds its locks until the answer. *)
Awaiting == {a \in Agent : conn[a].pc \in {"sent", "running"}}
Locked == Awaiting # {}

Running == {a \in Agent : conn[a].pc = "running"}
Drained == Running = {} /\ loose = 0

Idle(a) == [conn[a] EXCEPT !.pc = "idle", !.method = "perceive"]

Fault == faults < MaxFaults /\ faults' = faults + 1

-----------------------------------------------------------------------------
(* The row: takeover, resume, expiry, stop. *)

Takeover ==
    /\ Active
    /\ session.owner \in {"ai", "paused"}
    /\ session.gen < MaxGen
    /\ session' = [session EXCEPT !.owner = "paused", !.gen = @ + 1,
                                  !.asked = TRUE, !.acked = FALSE,
                                  !.window = IF session.kind = "setup" THEN "none"
                                             ELSE "open"]

RequestTakeover ==
    /\ ~Locked
    /\ Takeover
    /\ UNCHANGED <<worker, fleetVars, runVars, viewer, faults>>

(* Mutant: handing input back keeps the generation of the human's turn. *)
ResumeSameGeneration ==
    /\ Active /\ ~Locked
    /\ session.kind = "execution"
    /\ session.owner \in {"paused", "human"}
    /\ session.gen < MaxGen
    /\ session' = [session EXCEPT !.owner = "ai", !.ack = session.gen,
                                  !.asked = FALSE, !.acked = FALSE, !.window = "none"]
    /\ UNCHANGED <<worker, fleetVars, runVars, viewer, faults>>

Resume ==
    /\ Active /\ ~Locked
    /\ session.kind = "execution"
    /\ session.owner \in {"paused", "human"}
    /\ session.gen < MaxGen
    /\ session' = [session EXCEPT !.owner = "ai", !.gen = @ + 1, !.asked = FALSE,
                                  !.acked = FALSE, !.window = "none"]
    /\ UNCHANGED <<worker, fleetVars, runVars, viewer, faults>>

(* The ten minutes of a takeover pass. *)
WindowPasses ==
    /\ session.window = "open"
    /\ session' = [session EXCEPT !.window = "over"]
    /\ UNCHANGED <<worker, fleetVars, runVars, viewer, faults>>

ExpireTakeover ==
    /\ Active /\ ~Locked
    /\ session.kind = "execution"
    /\ session.owner = "human"
    /\ session.window = "over"
    /\ session' = [session EXCEPT !.owner = "paused", !.gen = @ + 1, !.window = "none"]
    /\ UNCHANGED <<worker, fleetVars, runVars, viewer, faults>>

Stopping == [session EXCEPT !.status = "stopping", !.owner = "paused",
                            !.gen = @ + 1, !.window = "none"]

(* A user, the end of the execution, the paid time or the allowance. *)
Stop ==
    /\ Active /\ ~Locked
    /\ session' = Stopping
    /\ UNCHANGED <<worker, fleetVars, runVars, viewer, faults>>

Ended == [session EXCEPT !.status = "ended", !.owner = "paused", !.gen = @ + 1]

-----------------------------------------------------------------------------
(* The fleet controller: one call per tick, fenced by what it read. *)

(* Profile setup always goes back to its human. *)
SetupNeedsHuman ==
    /\ session.kind = "setup"
    /\ \/ session.owner = "ai"
       \/ session.owner = "paused" /\ (~session.asked \/ session.acked)

TickTakesOver ==
    /\ controller.pc = "idle" /\ worker.life # "gone"
    /\ SetupNeedsHuman
    /\ ~Locked
    /\ Takeover
    /\ UNCHANGED <<worker, fleetVars, runVars, viewer, faults>>

(* Mutant: a takeover nobody acknowledged is carried like any pause. *)
WantedAsStored == session.owner

(* The owner to establish: a takeover that waits makes the worker human's. *)
WantedOwner ==
    IF session.owner = "paused" /\ session.asked /\ ~session.acked
    THEN "human" ELSE session.owner

Call(request) ==
    /\ requests' = requests \cup {request}
    /\ controller' = [controller EXCEPT !.pc = "waiting", !.sent = request,
                                        !.was = session.owner]
    /\ UNCHANGED <<session, worker, runVars, viewer, faults>>

SendControl ==
    /\ controller.pc = "idle" /\ worker.life # "gone"
    /\ Active /\ ~SetupNeedsHuman
    /\ Call([op |-> "control", owner |-> WantedOwner, gen |-> session.gen])

SendStop ==
    /\ controller.pc = "idle" /\ worker.life # "gone"
    /\ session.status = "stopping"
    /\ Call([op |-> "stop", owner |-> "paused", gen |-> session.gen])

Done == IdleController(FALSE)
Failed == IdleController(TRUE)

(* The answer's generation is the one sent; the row may have moved on. *)
Current == Active /\ session.gen = controller.sent.gen

RecordResume ==
    /\ controller.pc = "acknowledged" /\ ~Locked
    /\ controller.sent.owner = "ai"
    /\ session' = IF Current /\ session.owner = "ai" /\ session.ack < session.gen
                  THEN [session EXCEPT !.ack = session.gen] ELSE session
    /\ controller' = Done
    /\ UNCHANGED <<worker, requests, runVars, viewer, faults>>

Pausable ==
    /\ Current /\ session.owner = "paused"
    /\ session.kind = "setup" \/ session.window = "open"

(* A stale acknowledgement throws: the worker's heartbeat is not renewed. *)
RecordPause ==
    /\ controller.pc = "acknowledged" /\ ~Locked
    /\ controller.sent.owner = "human" /\ controller.was = "paused"
    /\ session' = IF Pausable THEN [session EXCEPT !.owner = "human", !.acked = TRUE]
                  ELSE session
    /\ controller' = IF Pausable THEN Done ELSE Failed
    /\ UNCHANGED <<worker, requests, runVars, viewer, faults>>

(* Nothing to acknowledge; the session's heartbeat still needs the row. *)
RecordHeartbeat ==
    /\ controller.pc = "acknowledged" /\ ~Locked
    /\ controller.sent.owner # "ai"
    /\ controller.sent.owner = "human" => controller.was = "human"
    /\ controller' = Done
    /\ UNCHANGED <<session, worker, requests, runVars, viewer, faults>>

StopClosed ==
    /\ controller.pc = "closed" /\ ~Locked
    /\ session' = IF Active THEN Stopping ELSE session
    /\ controller' = Done
    /\ UNCHANGED <<worker, requests, runVars, viewer, faults>>

PublishAndEnd ==
    /\ controller.pc = "stopped" /\ ~Locked
    /\ session' = IF session.status = "stopping" THEN Ended ELSE session
    /\ controller' = Done
    /\ UNCHANGED <<worker, requests, runVars, viewer, faults>>

(* Ownership of a dead worker ends only once its pod is gone. *)
EndLost ==
    /\ controller.pc = "idle" /\ worker.life = "gone"
    /\ session.status # "ended" /\ ~Locked
    /\ session' = Ended
    /\ UNCHANGED <<worker, fleetVars, runVars, viewer, faults>>

RpcTimesOut ==
    /\ controller.pc = "waiting"
    /\ Fault
    /\ controller' = Failed
    /\ UNCHANGED <<session, worker, requests, runVars, viewer>>

-----------------------------------------------------------------------------
(* The worker. *)

Answer(request, pc) ==
    /\ requests' = requests \ {request}
    /\ controller' = IF controller.pc = "waiting" /\ controller.sent = request
                     THEN IF pc = "failed" THEN Failed ELSE [controller EXCEPT !.pc = pc]
                     ELSE controller
    /\ UNCHANGED <<session, runVars, viewer, faults>>

(* Mutant: the owner changes under operations that still run. *)
AssignUndrained(r) ==
    /\ r.op = "control" /\ worker.life = "up"
    /\ r.gen > worker.gen
    /\ worker' = [worker EXCEPT !.owner = r.owner, !.gen = r.gen]
    /\ Answer(r, "acknowledged")

Assign(r) ==
    /\ r.op = "control" /\ worker.life = "up"
    /\ r.gen > worker.gen
    /\ Drained
    /\ worker' = [worker EXCEPT !.owner = r.owner, !.gen = r.gen]
    /\ Answer(r, "acknowledged")

Repeat(r) ==
    /\ r.op = "control" /\ worker.life = "up"
    /\ r.gen = worker.gen /\ r.owner = worker.owner
    /\ Answer(r, "acknowledged")
    /\ UNCHANGED worker

Conflict(r) ==
    /\ r.op = "control"
    /\ \/ worker.life = "stopped"
       \/ /\ worker.life = "up"
          /\ r.gen <= worker.gen
          /\ r.gen = worker.gen => r.owner # worker.owner
    /\ Answer(r, "failed")
    /\ UNCHANGED worker

ReportClosed(r) ==
    /\ r.op = "control" /\ worker.life = "closed"
    /\ Answer(r, "closed")
    /\ UNCHANGED worker

(* A repeated stop gets the snapshot of the first. *)
CloseBrowser(r) ==
    /\ r.op = "stop" /\ worker.life \in {"up", "closed", "stopped"}
    /\ worker.life # "stopped" => Drained
    /\ worker' = [worker EXCEPT !.life = "stopped", !.owner = "paused"]
    /\ Answer(r, "stopped")

WorkerServes ==
    \E r \in requests : Assign(r) \/ Repeat(r) \/ Conflict(r) \/ ReportClosed(r) \/ CloseBrowser(r)

(* The window is closed by its user, or the browser crashes. *)
BrowserCloses ==
    /\ worker.life = "up"
    /\ Fault
    /\ worker' = [worker EXCEPT !.life = "closed"]
    /\ UNCHANGED <<session, fleetVars, runVars, viewer>>

(* The pod disappears with all that ran in it; waiting calls fail. *)
PodGone ==
    /\ worker' = [worker EXCEPT !.life = "gone"]
    /\ requests' = {}
    /\ controller' = IF controller.pc = "waiting" THEN Failed ELSE controller
    /\ conn' = [a \in Agent |-> IF a \in Awaiting THEN Idle(a) ELSE conn[a]]
    /\ loose' = 0
    /\ late' = {}
    /\ viewer' = 0
    /\ UNCHANGED <<session, holder>>

PodDies ==
    /\ worker.life # "gone" /\ Fault
    /\ PodGone

(* A tick that failed finds the heartbeat three minutes old. *)
DeleteSilentPod ==
    /\ worker.life # "gone" /\ controller.failing /\ controller.pc = "idle"
    /\ PodGone
    /\ UNCHANGED faults

-----------------------------------------------------------------------------
(* A run's pool connection. *)

(* The lease's row is share-locked as long as its holder awaits an answer. *)
Claimable(t) == holder[t] \in Agent => ~conn[holder[t]].live

Claim(a) ==
    /\ conn[a].pc = "off" /\ conn[a].live
    /\ session.kind = "execution" /\ Active /\ session.owner = "ai"
    /\ Claimable(TabOf[a])
    /\ holder' = [holder EXCEPT ![TabOf[a]] = a]
    /\ conn' = [conn EXCEPT ![a].pc = "claimed"]
    /\ UNCHANGED <<session, worker, fleetVars, loose, late, viewer, faults>>

(* The generation is read after the claim, in a statement of its own. *)
Connect(a) ==
    /\ conn[a].pc = "claimed"
    /\ conn' = [conn EXCEPT ![a].pc = "idle", ![a].gen = session.gen]
    /\ UNCHANGED <<session, worker, fleetVars, holder, loose, late, viewer, faults>>

(* Lease of the run, lease of the tab, the row in share mode. *)
MaySend(a) ==
    /\ conn[a].live /\ holder[TabOf[a]] = a
    /\ Active /\ Ready

Transmit(a, method, evidence) ==
    /\ conn' = [conn EXCEPT ![a].pc = "sent", ![a].method = method,
                            ![a].gen = session.gen, ![a].evidence = evidence]
    /\ UNCHANGED <<session, worker, fleetVars, holder, loose, late, viewer, faults>>

(* Mutant: a connection follows the generation without perceiving. *)
ActUnperceived(a) ==
    /\ conn[a].pc = "idle" /\ MaySend(a)
    /\ Transmit(a, "act", conn[a].evidence)

Act(a) ==
    /\ conn[a].pc = "idle" /\ MaySend(a)
    /\ conn[a].gen = session.gen
    /\ Transmit(a, "act", conn[a].evidence)

(* Perceiving adopts the generation before the answer is there. *)
Perceive(a) ==
    /\ conn[a].pc = "idle" /\ MaySend(a)
    /\ Transmit(a, "perceive", IF conn[a].gen = session.gen THEN conn[a].evidence
                               ELSE "unanswered")

Accepts(g) == worker.life = "up" /\ worker.owner = "ai" /\ worker.gen = g

Accept(a) ==
    /\ conn[a].pc = "sent" /\ Accepts(conn[a].gen)
    /\ conn' = [conn EXCEPT ![a].pc = "running"]
    /\ UNCHANGED <<session, worker, fleetVars, holder, loose, late, viewer, faults>>

Reject(a) ==
    /\ conn[a].pc = "sent" /\ ~Accepts(conn[a].gen)
    /\ conn' = [conn EXCEPT ![a] = Idle(a)]
    /\ UNCHANGED <<session, worker, fleetVars, holder, loose, late, viewer, faults>>

Finish(a) ==
    /\ conn[a].pc = "running"
    /\ \E pc \in {"idle", "challenged"}, evidence \in {"current", conn[a].evidence} :
          /\ conn[a].method = "act" => evidence = conn[a].evidence
          /\ pc = "challenged" => conn[a].method = "perceive" /\ evidence = "current"
          /\ conn' = [conn EXCEPT ![a] = [Idle(a) EXCEPT !.pc = pc, !.evidence = evidence]]
    /\ UNCHANGED <<session, worker, fleetVars, holder, loose, late, viewer, faults>>

(* An invocation that was started answers at once and goes on. *)
Detach(a) ==
    /\ conn[a].pc = "running" /\ conn[a].method = "act"
    /\ loose < MaxLoose
    /\ loose' = loose + 1
    /\ conn' = [conn EXCEPT ![a] = Idle(a)]
    /\ UNCHANGED <<session, worker, fleetVars, holder, late, viewer, faults>>

(* The pool stops waiting, or its process dies: the locks go, the command  *)
(* stays in transit or goes on running.                                    *)
GiveUp(a) ==
    /\ Fault
    /\ \/ /\ conn[a].pc = "sent"
          /\ late' = late \cup {conn[a].gen}
          /\ UNCHANGED loose
       \/ /\ conn[a].pc = "running"
          /\ loose < MaxLoose
          /\ loose' = loose + 1
          /\ UNCHANGED late
    /\ conn' = [conn EXCEPT ![a] = Idle(a)]
    /\ UNCHANGED <<session, worker, fleetVars, holder, viewer>>

LateArrives(g) ==
    /\ late' = late \ {g}
    /\ IF Accepts(g) THEN loose < MaxLoose /\ loose' = loose + 1 ELSE UNCHANGED loose
    /\ UNCHANGED <<session, worker, fleetVars, conn, holder, viewer, faults>>

LooseEnds ==
    /\ loose > 0
    /\ loose' = loose - 1
    /\ UNCHANGED <<session, worker, fleetVars, conn, holder, late, viewer, faults>>

(* No solver could help: the run itself asks for a human. *)
AskHuman(a) ==
    /\ conn[a].pc = "challenged" /\ ~Locked
    /\ Takeover
    /\ conn' = [conn EXCEPT ![a].pc = "paused"]
    /\ UNCHANGED <<worker, fleetVars, holder, loose, late, viewer, faults>>

(* A solver did help, or somebody else holds the input already. *)
SkipHuman(a) ==
    /\ conn[a].pc = "challenged"
    /\ \E pc \in {"refreshing", "idle"} : conn' = [conn EXCEPT ![a].pc = pc]
    /\ UNCHANGED <<session, worker, fleetVars, holder, loose, late, viewer, faults>>

AwaitResume(a) ==
    /\ conn[a].pc = "paused"
    /\ conn[a].live => ~Active \/ Ready
    /\ conn' = IF conn[a].live /\ Active
               THEN [conn EXCEPT ![a].pc = "refreshing", ![a].gen = session.gen,
                                 ![a].evidence = IF conn[a].gen = session.gen THEN @
                                                 ELSE "unanswered"]
               ELSE [conn EXCEPT ![a].pc = "idle"]
    /\ UNCHANGED <<session, worker, fleetVars, holder, loose, late, viewer, faults>>

Refresh(a) ==
    /\ conn[a].pc = "refreshing"
    /\ IF MaySend(a) /\ conn[a].gen = session.gen
       THEN Transmit(a, "refresh", conn[a].evidence)
       ELSE /\ conn' = [conn EXCEPT ![a].pc = "idle"]
            /\ UNCHANGED <<session, worker, fleetVars, holder, loose, late, viewer, faults>>

(* The run is settled, cancelled or loses its lease; not while a command   *)
(* holds its row.                                                          *)
RunEnds(a) ==
    /\ conn[a].live /\ a \notin Awaiting
    /\ conn' = [conn EXCEPT ![a].live = FALSE]
    /\ UNCHANGED <<session, worker, fleetVars, holder, loose, late, viewer, faults>>

Release(a) ==
    /\ conn[a].pc \in {"claimed", "idle"}
    /\ conn' = [conn EXCEPT ![a] = NewConnection(conn[a].live)]
    /\ holder' = [t \in Tab |-> IF holder[t] = a THEN Nobody ELSE holder[t]]
    /\ UNCHANGED <<session, worker, fleetVars, loose, late, viewer, faults>>

-----------------------------------------------------------------------------
(* The human's view through the gateway. *)

(* browserControlIsActive *)
HumanControls ==
    session.owner = "human" /\ (session.kind = "setup" \/ session.window = "open")

OpenView ==
    /\ viewer = 0 /\ Active /\ HumanControls
    /\ worker.life = "up" /\ worker.owner = "human" /\ worker.gen = session.gen
    /\ viewer' = session.gen
    /\ UNCHANGED <<session, worker, fleetVars, runVars, faults>>

(* The worker asks again for every frame; the gateway only twice a second. *)
HumanInput ==
    /\ viewer # 0
    /\ worker.life = "up" /\ worker.owner = "human" /\ worker.gen = viewer
    /\ conn' = [a \in Agent |->
                  IF conn[a].evidence \in {"current", "unanswered"}
                  THEN [conn[a] EXCEPT !.evidence = "stale"] ELSE conn[a]]
    /\ UNCHANGED <<session, worker, fleetVars, holder, loose, late, viewer, faults>>

(* A closed view pauses an execution's browser, unless the gateway died.   *)
CloseView ==
    /\ viewer # 0
    /\ viewer' = 0
    /\ IF session.kind = "execution" /\ session.owner = "human" /\ session.gen = viewer
       THEN /\ ~Locked
            /\ session' = [session EXCEPT !.owner = "paused", !.gen = @ + 1]
       ELSE UNCHANGED session
    /\ UNCHANGED <<worker, fleetVars, runVars, faults>>

GatewayDies ==
    /\ viewer # 0 /\ Fault
    /\ viewer' = 0
    /\ UNCHANGED <<session, worker, fleetVars, runVars>>

-----------------------------------------------------------------------------
Tick == TickTakesOver \/ SendControl \/ SendStop \/ RecordResume \/ RecordPause
        \/ RecordHeartbeat \/ StopClosed \/ PublishAndEnd \/ EndLost

Owners == RequestTakeover \/ Resume \/ WindowPasses \/ ExpireTakeover \/ Stop

RunSteps(a) == Claim(a) \/ Connect(a) \/ Act(a) \/ Perceive(a) \/ AskHuman(a)
               \/ SkipHuman(a) \/ AwaitResume(a) \/ Refresh(a) \/ RunEnds(a) \/ Release(a)

CommandSteps(a) == Accept(a) \/ Reject(a) \/ Finish(a) \/ Detach(a)

Next ==
    \/ Owners
    \/ Tick
    \/ RpcTimesOut
    \/ WorkerServes
    \/ BrowserCloses \/ PodDies \/ DeleteSilentPod
    \/ \E a \in Agent : RunSteps(a) \/ CommandSteps(a) \/ GiveUp(a)
    \/ \E g \in late : LateArrives(g)
    \/ LooseEnds
    \/ OpenView \/ HumanInput \/ CloseView \/ GatewayDies

Spec == Init /\ [][Next]_vars

(* The fleet ticks every second; while its ticks fail the heartbeat ages,  *)
(* and one of them deletes the pod; the worker serves what arrives; every  *)
(* command has a deadline.                                                 *)
Fairness ==
    /\ WF_vars(Tick)
    /\ SF_vars(DeleteSilentPod)
    /\ WF_vars(WorkerServes)
    /\ WF_vars(LooseEnds)
    /\ \A a \in Agent : WF_vars(CommandSteps(a))

FairSpec == Spec /\ Fairness

-----------------------------------------------------------------------------
(* A human's browser is at rest: at the worker nothing of a run goes on,    *)
(* and the row lets no run send anything.                                  *)
(* Safety, docs/techical_plan.md "There is one input owner at a time".     *)
OneInputOwner ==
    worker.life = "up" /\ worker.owner = "human" => Drained /\ ~(Active /\ Ready)

(* What a run saw before a human touched the page is never acted upon: it  *)
(* has at least asked for fresh evidence since.                            *)
(* Safety, the generation check of browser-hosted.                         *)
NoActOnStaleEvidence ==
    \A a \in Running : conn[a].method = "act" => conn[a].evidence # "stale"

Turn ==
    IF worker.life = "up" /\ worker.owner = "human" THEN "human"
    ELSE IF (Active /\ Ready) \/ ~Drained THEN "ai" ELSE "nobody"

Ownership == INSTANCE InputOwnership WITH turn <- Turn

(* The browser never passes from a run to a human, or back, in one step.   *)
(* Refinement of InputOwnership by row, controller and worker together.    *)
ImplementsOwnership == Ownership!AbsSpec

Asking == Active /\ session.owner = "paused" /\ session.asked /\ ~session.acked
Resuming == Active /\ session.owner = "ai" /\ session.ack < session.gen

(* A takeover or a resume is answered, overtaken, or ends with the browser, *)
(* and a browser told to stop ends, whatever its worker does.              *)
(* Liveness of requestBrowserTakeover, resumeBrowserAutomation and         *)
(* stopBrowserSession.                                                     *)
HandoversComplete ==
    /\ Asking ~> ~Asking
    /\ Resuming ~> ~Resuming
    /\ session.status = "stopping" ~> session.status = "ended"
=============================================================================
