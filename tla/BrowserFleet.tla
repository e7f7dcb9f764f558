---------------------------- MODULE BrowserFleet -----------------------------
(***************************************************************************)
(* Sessions, profiles and pods (packages/engine, browser-fleet and the     *)
(* stop of browser-session-control; apps/fleet; start and stop of          *)
(* apps/browser-worker; the import of profile-auth).                       *)
(*                                                                         *)
(* Sessions queue; every second the fleet controller makes the pods its    *)
(* worker rows ask for, starts, attends and stops browsers in them, binds  *)
(* queued sessions to unassigned rows and sizes the warm pool.  A session  *)
(* holds its profile from the moment it is bound until its snapshot is     *)
(* published or its pod is gone.                                           *)
(*                                                                         *)
(* Session and worker ids are used again here once nothing refers to them. *)
(* The allocation request follows its session's status and has no variable *)
(* of its own; generations of sessions stay 1, since nothing calls         *)
(* failBrowserAllocation to retry; binding is one transaction, so no       *)
(* session is allocating without a worker.  Pods are looked at when their  *)
(* worker is visited, not when the tick began.                             *)
(***************************************************************************)
EXTENDS Integers, SequencesExt

CONSTANTS
    Session, Profile, ProfileOf, Account, AccountOf, Worker,
    NoSession,
    MaxAllocated, WarmSlots, PlanLimit,
    MaxFaults           \* bound: failing calls, pods, launches; crashes, delays

ASSUME FleetAssumption ==
    /\ NoSession \notin Session
    /\ ProfileOf \in [Session -> Profile]
    /\ AccountOf \in [Session -> Account]
    /\ MaxAllocated \in Nat \ {0} /\ WarmSlots \in Nat
    /\ PlanLimit \in [Account -> Nat \ {0}]
    /\ MaxFaults \in Nat

VARIABLES
    session,            \* status of each session
    queue,              \* queued sessions, oldest request first
    delayed,            \* queued sessions whose account had no allowance left
    custody,            \* custody[p]: the session that leases profile p
    row,                \* browser_workers
    pod,                \* the pod of each worker
    browser,            \* what the worker process in it holds
    calls,              \* start and stop calls on their way to workers
    tick,               \* the controller
    faults

queueVars == <<session, queue, delayed, custody>>
podVars == <<pod, browser, calls>>
vars == <<queueVars, row, podVars, tick, faults>>

Allocated == {"allocating", "ready", "stopping"}

Row == [status : {"warm", "allocated", "draining", "dead"},
        session : Session \cup {NoSession},
        silent : BOOLEAN]               \* the heartbeat may be minutes old
Browser == [state : {"clean", "open", "closed", "spent"},
            session : Session \cup {NoSession},
            basis : {"current", "stale"}, \* the profile it was started from
            lag : BOOLEAN]              \* more recording than one pull brings
Call == [op : {"start", "stop"}, worker : Worker, session : Session,
         basis : {"current", "stale"}]
Tick == [pc : {"idle", "visiting", "starting", "started", "stopping", "stopped",
               "failed", "sizing"},
         at : Worker \cup {NoSession}, todo : SUBSET Worker, bound : Nat]

TypeOK ==
    /\ session \in [Session -> {"none", "queued", "ended"} \cup Allocated]
    /\ queue \in Seq(Session)
    /\ delayed \subseteq Session
    /\ custody \in [Profile -> Session \cup {NoSession}]
    /\ row \in [Worker -> Row]
    /\ pod \in [Worker -> {"unmade", "starting", "ready", "failed", "terminating", "gone"}]
    /\ browser \in [Worker -> Browser]
    /\ calls \subseteq Call
    /\ tick \in Tick
    /\ faults \in 0 .. MaxFaults

NewRow == [status |-> "warm", session |-> NoSession, silent |-> FALSE]
DeadRow == [NewRow EXCEPT !.status = "dead"]
CleanBrowser == [state |-> "clean", session |-> NoSession, basis |-> "current", lag |-> FALSE]
AtRest == [pc |-> "idle", at |-> NoSession, todo |-> {}, bound |-> 0]

Init ==
    /\ session = [s \in Session |-> "none"]
    /\ queue = <<>>
    /\ delayed = {}
    /\ custody = [p \in Profile |-> NoSession]
    /\ row = [w \in Worker |-> DeadRow]
    /\ pod = [w \in Worker |-> "unmade"]
    /\ browser = [w \in Worker |-> CleanBrowser]
    /\ calls = {}
    /\ tick = AtRest
    /\ faults = 0

Fault == faults < MaxFaults /\ faults' = faults + 1

Of(w) == row[w].session
Bound(w) == Of(w) # NoSession
Live(w) == row[w].status # "dead"
Exists(w) == pod[w] \notin {"unmade", "gone"}

-----------------------------------------------------------------------------
(* Asking for a browser and giving it back. *)

Without(s) == RemoveFirst(queue, s)

(* Opening again returns the session that is there: nothing changes. *)
Request(s) ==
    /\ session[s] \in {"none", "ended"}
    /\ \A w \in Worker : Live(w) => Of(w) # s
    /\ session' = [session EXCEPT ![s] = "queued"]
    /\ queue' = Append(queue, s)
    /\ UNCHANGED <<delayed, custody, row, podVars, tick, faults>>

(* A user, the end of the execution, the allowance or a closed window. *)
Stop(s) ==
    /\ \/ /\ session[s] = "queued"
          /\ session' = [session EXCEPT ![s] = "ended"]
          /\ queue' = Without(s)
          /\ delayed' = delayed \ {s}
       \/ /\ session[s] \in {"allocating", "ready"}
          /\ session' = [session EXCEPT ![s] = "stopping"]
          /\ UNCHANGED <<queue, delayed>>
    /\ UNCHANGED <<custody, row, podVars, tick, faults>>

(* Half a minute later the request is considered again. *)
DelayPasses(s) ==
    /\ s \in delayed
    /\ delayed' = delayed \ {s}
    /\ UNCHANGED <<session, queue, custody, row, podVars, tick, faults>>

(* What was started from profile p before it changed. *)
Outdated(p) ==
    /\ browser' = [w \in Worker |->
                     IF browser[w].session \in Session
                        /\ ProfileOf[browser[w].session] = p
                     THEN [browser[w] EXCEPT !.basis = "stale"] ELSE browser[w]]
    /\ calls' = {IF ProfileOf[c.session] = p THEN [c EXCEPT !.basis = "stale"] ELSE c :
                    c \in calls}

(* Mutant: authentication is imported into a profile somebody has open. *)
ImportUnleased(p) ==
    /\ Outdated(p)
    /\ UNCHANGED <<queueVars, row, pod, tick, faults>>

(* importProfileAuth *)
Import(p) ==
    /\ custody[p] = NoSession
    /\ Outdated(p)
    /\ UNCHANGED <<queueVars, row, pod, tick, faults>>

EndSession(s) ==
    /\ session' = [session EXCEPT ![s] = "ended"]
    /\ custody' = [p \in Profile |-> IF custody[p] = s THEN NoSession ELSE custody[p]]
    /\ UNCHANGED <<queue, delayed>>

-----------------------------------------------------------------------------
(* A tick of the controller: first every recorded worker, one by one. *)

Turn(w) == tick.pc = "visiting" /\ w \in tick.todo
Visited(w) == tick' = [tick EXCEPT !.pc = "visiting", !.todo = @ \ {w}, !.at = NoSession]

BeginTick ==
    /\ tick.pc = "idle"
    /\ tick' = [AtRest EXCEPT !.pc = "visiting", !.todo = {w \in Worker : Live(w)}]
    /\ UNCHANGED <<queueVars, row, podVars, faults>>

Full == Cardinality({w \in Worker : Exists(w)}) >= MaxAllocated + WarmSlots

Unmade(w) == Turn(w) /\ row[w].status = "warm" /\ ~Exists(w)

CreatePod(w) ==
    /\ Unmade(w) /\ ~Full
    /\ pod' = [pod EXCEPT ![w] = "starting"]
    /\ browser' = [browser EXCEPT ![w] = CleanBrowser]
    /\ Visited(w)
    /\ UNCHANGED <<queueVars, row, calls, faults>>

NoPodYet(w) ==
    /\ Unmade(w)
    /\ IF Full THEN UNCHANGED faults ELSE Fault
    /\ Visited(w)
    /\ UNCHANGED <<queueVars, row, podVars>>

Over(w) == row[w].status = "draining" \/ (Bound(w) /\ session[Of(w)] = "ended")

(* Mutant: a worker no longer needed is forgotten while its pod runs. *)
RetireAtOnce(w) ==
    /\ Turn(w) /\ Over(w)
    /\ row' = [row EXCEPT ![w] = DeadRow]
    /\ Visited(w)
    /\ UNCHANGED <<queueVars, podVars, faults>>

Retire(w) ==
    /\ Turn(w) /\ Over(w)
    /\ IF Exists(w) THEN pod' = [pod EXCEPT ![w] = "terminating"] /\ UNCHANGED row
       ELSE row' = [row EXCEPT ![w] = DeadRow] /\ UNCHANGED pod
    /\ Visited(w)
    /\ UNCHANGED <<queueVars, browser, calls, faults>>

InUse(w) == row[w].status \in {"warm", "allocated"} /\ ~Over(w)

(* A bound row without a pod, or any row whose pod has failed. *)
Dead(w) == InUse(w) /\ (pod[w] = "failed" \/ (row[w].status = "allocated" /\ ~Exists(w)))

(* Mutant: a session whose pod died keeps its status and its profile. *)
EndBoundForgotten(w) == UNCHANGED queueVars

EndBound(w) == IF Bound(w) THEN EndSession(Of(w)) ELSE UNCHANGED queueVars

(* Ownership ends only now that nothing runs any more. *)
Bury(w) ==
    /\ Turn(w) /\ Dead(w)
    /\ EndBound(w)
    /\ pod' = IF Exists(w) THEN [pod EXCEPT ![w] = "terminating"] ELSE pod
    /\ row' = [row EXCEPT ![w] = DeadRow]
    /\ Visited(w)
    /\ UNCHANGED <<browser, calls, faults>>

(* A call fails after the session ended: the row is left draining. *)
BuryHalf(w) ==
    /\ Turn(w) /\ Dead(w) /\ Bound(w)
    /\ Fault
    /\ EndSession(Of(w))
    /\ row' = [row EXCEPT ![w].status = "draining"]
    /\ Visited(w)
    /\ UNCHANGED podVars

StillStarting(w) ==
    /\ Turn(w) /\ InUse(w) /\ pod[w] \in {"starting", "terminating"}
    /\ row' = [row EXCEPT ![w].silent = TRUE]
    /\ \/ UNCHANGED pod
       \/ row[w].silent /\ pod' = [pod EXCEPT ![w] = "terminating"]
    /\ Visited(w)
    /\ UNCHANGED <<queueVars, browser, calls, faults>>

(* A pod that was told to go may answer, and count as ready, until it has   *)
(* gone: the controller looks at the Ready condition only.                  *)
Answers(w) == pod[w] \in {"ready", "terminating"}

Reachable(w) == Turn(w) /\ InUse(w) /\ Answers(w)

(* Nothing to do, or the control call of InputControl. *)
Attend(w) ==
    /\ Reachable(w)
    /\ Bound(w) => session[Of(w)] = "ready"
    /\ row' = [row EXCEPT ![w].silent = FALSE]
    /\ Visited(w)
    /\ UNCHANGED <<queueVars, podVars, faults>>

Send(w, op, pc) ==
    /\ calls' = calls \cup {[op |-> op, worker |-> w, session |-> Of(w),
                             basis |-> "current"]}
    /\ tick' = [tick EXCEPT !.pc = pc, !.at = w]
    /\ UNCHANGED <<queueVars, row, pod, browser, faults>>

SendStart(w) ==
    /\ Reachable(w) /\ Bound(w) /\ session[Of(w)] = "allocating"
    /\ Send(w, "start", "starting")

SendStop(w) ==
    /\ Reachable(w) /\ Bound(w) /\ session[Of(w)] = "stopping"
    /\ Send(w, "stop", "stopping")

Fails(w) == tick' = [tick EXCEPT !.pc = "failed", !.at = w]

VisitFails(w) ==
    /\ Reachable(w) /\ Bound(w)
    /\ Fault
    /\ Fails(w)
    /\ UNCHANGED <<queueVars, row, podVars>>

Awaits(op) == tick.pc = IF op = "start" THEN "starting" ELSE "stopping"

Underway == {c \in calls : c.worker = tick.at /\ Awaits(c.op)}

(* The call is lost with its pod, or nobody answers in time. *)
Abandon ==
    /\ tick.pc \in {"starting", "stopping"}
    /\ IF Underway = {} THEN UNCHANGED faults ELSE Fault
    /\ Fails(tick.at)
    /\ UNCHANGED <<queueVars, row, podVars>>

(* After a visit that failed the heartbeat stays old. *)
FailedVisit ==
    /\ tick.pc = "failed"
    /\ row' = [row EXCEPT ![tick.at].silent = TRUE]
    /\ Visited(tick.at)
    /\ UNCHANGED <<queueVars, podVars, faults>>

(* Nothing was heard for minutes: the pod is deleted, ownership stays. *)
DeleteSilentPod ==
    /\ tick.pc = "failed" /\ row[tick.at].silent
    /\ pod[tick.at] = "ready"
    /\ pod' = [pod EXCEPT ![tick.at] = "terminating"]
    /\ Visited(tick.at)
    /\ UNCHANGED <<queueVars, row, browser, calls, faults>>

Fulfil ==
    /\ tick.pc = "started"
    /\ session[Of(tick.at)] = "allocating"
    /\ session' = [session EXCEPT ![Of(tick.at)] = "ready"]
    /\ row' = [row EXCEPT ![tick.at].silent = FALSE]
    /\ Visited(tick.at)
    /\ UNCHANGED <<queue, delayed, custody, podVars, faults>>

(* The session was stopped while its browser started. *)
FulfilTooLate ==
    /\ tick.pc = "started"
    /\ session[Of(tick.at)] # "allocating"
    /\ Fails(tick.at)
    /\ UNCHANGED <<queueVars, row, podVars, faults>>

PullRecording ==
    /\ tick.pc = "stopped" /\ browser[tick.at].lag
    /\ browser' = [browser EXCEPT ![tick.at].lag = FALSE]
    /\ Visited(tick.at)
    /\ UNCHANGED <<queueVars, row, pod, calls, faults>>

(* Snapshot, end and drain in one transaction, fenced by the lease. *)
Publish ==
    /\ tick.pc = "stopped" /\ ~browser[tick.at].lag
    /\ custody[ProfileOf[Of(tick.at)]] = Of(tick.at)
    /\ EndSession(Of(tick.at))
    /\ row' = [row EXCEPT ![tick.at].status = "draining", ![tick.at].silent = FALSE]
    /\ Outdated(ProfileOf[Of(tick.at)])
    /\ Visited(tick.at)
    /\ UNCHANGED <<pod, faults>>

ControllerDies ==
    /\ tick.pc # "idle" /\ Fault
    /\ tick' = AtRest
    /\ UNCHANGED <<queueVars, row, podVars>>

-----------------------------------------------------------------------------
(* Then queued sessions get unassigned workers. *)

ActiveOf(a) == Cardinality({s \in Session : AccountOf[s] = a /\ session[s] \in Allocated})
ActiveSessions == Cardinality({s \in Session : session[s] \in Allocated})

Before(s, t) == \E i, j \in DOMAIN queue : i < j /\ queue[i] = s /\ queue[j] = t

(* Mutant: a profile somebody has is no obstacle. *)
WaitingAny == {s \in Session : session[s] = "queued" /\ s \notin delayed}

Waiting == {s \in Session : /\ session[s] = "queued" /\ s \notin delayed
                            /\ custody[ProfileOf[s]] = NoSession}

(* The oldest request of every account that may have one more browser. *)
Heads == {s \in Waiting :
            /\ \A t \in Waiting : AccountOf[t] = AccountOf[s] => ~Before(t, s)
            /\ ActiveOf(AccountOf[s]) < PlanLimit[AccountOf[s]]}

Precedes(s, t) ==
    \/ ActiveOf(AccountOf[s]) < ActiveOf(AccountOf[t])
    \/ ActiveOf(AccountOf[s]) = ActiveOf(AccountOf[t]) /\ Before(s, t)

Candidates == {s \in Heads : /\ ActiveSessions < MaxAllocated
                             /\ \A t \in Heads \ {s} : Precedes(s, t)}

(* Workers whose pod was never made are unassigned, too. *)
Unassigned == {w \in Worker : row[w].status = "warm" /\ ~Bound(w)}

Binding == tick.pc = "visiting" /\ tick.todo = {}

Bind(s, w) ==
    /\ Binding
    /\ s \in Candidates /\ w \in Unassigned
    /\ session' = [session EXCEPT ![s] = "allocating"]
    /\ queue' = Without(s)
    /\ custody' = [custody EXCEPT ![ProfileOf[s]] = s]
    /\ row' = [row EXCEPT ![w].status = "allocated", ![w].session = s]
    /\ tick' = [tick EXCEPT !.bound = @ + 1]
    /\ UNCHANGED <<delayed, podVars, faults>>

(* The allowance is used up: nobody else is bound in this tick. *)
Delay(s) ==
    /\ Binding /\ Unassigned # {} /\ s \in Candidates
    /\ Fault
    /\ delayed' = delayed \cup {s}
    /\ tick' = [tick EXCEPT !.pc = "sizing"]
    /\ UNCHANGED <<session, queue, custody, row, podVars>>

-----------------------------------------------------------------------------
(* Last, the warm pool. *)

Larger(m, n) == IF m > n THEN m ELSE n
Smaller(m, n) == IF m < n THEN m ELSE n

Warm == {w \in Worker : row[w].status = "warm"}
DesiredWarm == Larger(WarmSlots, IF \E s \in Session : session[s] = "queued" THEN 1 ELSE 0)

(* The first of the list that was bound from: what was bound is in front. *)
Excess == Larger(0, Larger(0, Cardinality(Warm) - DesiredWarm) - tick.bound)

Recorded == Cardinality({w \in Worker : Live(w)})
Needed == Larger(0, Smaller(DesiredWarm - Cardinality(Warm),
                            MaxAllocated + WarmSlots - Recorded))

(* A new row gets an id nothing refers to; bound: as many as there are. *)
Unused == {w \in Worker : ~Live(w) /\ ~Exists(w)}

Resize ==
    /\ \/ tick.pc = "sizing"
       \/ Binding /\ (Unassigned = {} \/ Candidates = {})
    /\ \E out \in SUBSET Warm, in \in SUBSET Unused :
          /\ Cardinality(out) = Excess
          /\ Cardinality(in) = Smaller(Needed, Cardinality(Unused))
          /\ row' = [w \in Worker |->
                       IF w \in out THEN [row[w] EXCEPT !.status = "draining"]
                       ELSE IF w \in in THEN NewRow ELSE row[w]]
          /\ pod' = [w \in Worker |-> IF w \in in THEN "unmade" ELSE pod[w]]
    /\ tick' = AtRest
    /\ UNCHANGED <<queueVars, browser, calls, faults>>

-----------------------------------------------------------------------------
(* The worker in a pod runs one session in its life. *)

Answer(c, ok) ==
    /\ calls' = calls \ {c}
    /\ IF Awaits(c.op) /\ tick.at = c.worker
       THEN tick' = [tick EXCEPT !.pc = IF ~ok THEN "failed"
                                        ELSE IF c.op = "start" THEN "started" ELSE "stopped"]
       ELSE UNCHANGED tick
    /\ UNCHANGED <<queueVars, row, pod>>

Served(c) == browser[c.worker].state = "open" /\ browser[c.worker].session = c.session

Launch(c) ==
    /\ c.op = "start" /\ browser[c.worker].state = "clean"
    /\ browser' = [browser EXCEPT ![c.worker] =
                     [state |-> "open", session |-> c.session, basis |-> c.basis,
                      lag |-> FALSE]]
    /\ Answer(c, TRUE)
    /\ UNCHANGED faults

LaunchFails(c) ==
    /\ c.op = "start" /\ browser[c.worker].state = "clean"
    /\ Fault
    /\ browser' = [browser EXCEPT ![c.worker].state = "spent"]
    /\ Answer(c, FALSE)

LaunchedBefore(c) ==
    /\ c.op = "start" /\ browser[c.worker].state # "clean"
    /\ Answer(c, Served(c))
    /\ UNCHANGED <<browser, faults>>

Close(c) ==
    /\ c.op = "stop" /\ Served(c)
    /\ \E lag \in BOOLEAN :
          browser' = [browser EXCEPT ![c.worker].state = "closed", ![c.worker].lag = lag]
    /\ Answer(c, TRUE)
    /\ UNCHANGED faults

(* The snapshot of the first stop again, or there is no session. *)
NotOpen(c) ==
    /\ c.op = "stop" /\ ~Served(c)
    /\ Answer(c, browser[c.worker].state = "closed")
    /\ UNCHANGED <<browser, faults>>

WorkerServes ==
    \E c \in calls : /\ Answers(c.worker)
                     /\ \/ Launch(c) \/ LaunchFails(c) \/ LaunchedBefore(c)
                        \/ Close(c) \/ NotOpen(c)

(* The cluster starts pods and ends them with all that runs in them. *)
PodStarts(w) ==
    /\ pod[w] = "starting"
    /\ pod' = [pod EXCEPT ![w] = "ready"]
    /\ UNCHANGED <<queueVars, row, browser, calls, tick, faults>>

PodEnds(w, state) ==
    /\ pod' = [pod EXCEPT ![w] = state]
    /\ browser' = [browser EXCEPT ![w] = CleanBrowser]
    /\ calls' = {c \in calls : c.worker # w}
    /\ UNCHANGED <<queueVars, row, tick>>

PodDeleted(w) ==
    /\ pod[w] = "terminating"
    /\ PodEnds(w, "gone")
    /\ UNCHANGED faults

PodLost(w) ==
    /\ pod[w] \in {"starting", "ready"}
    /\ Fault
    /\ \E state \in {"failed", "gone"} : PodEnds(w, state)

-----------------------------------------------------------------------------
VisitStep(w) ==
    \/ CreatePod(w) \/ NoPodYet(w) \/ Retire(w) \/ Bury(w) \/ BuryHalf(w)
    \/ StillStarting(w) \/ Attend(w) \/ SendStart(w) \/ SendStop(w) \/ VisitFails(w)

TickStep ==
    \/ BeginTick
    \/ \E w \in Worker : VisitStep(w)
    \/ Abandon \/ FailedVisit \/ DeleteSilentPod
    \/ Fulfil \/ FulfilTooLate \/ PullRecording \/ Publish
    \/ \E s \in Session : Delay(s) \/ \E w \in Worker : Bind(s, w)
    \/ Resize

Cluster == \E w \in Worker : PodStarts(w) \/ PodDeleted(w)

Next ==
    \/ TickStep \/ ControllerDies
    \/ WorkerServes
    \/ Cluster
    \/ \E w \in Worker : PodLost(w)
    \/ \E s \in Session : Request(s) \/ Stop(s) \/ DelayPasses(s)
    \/ \E p \in Profile : Import(p)

Spec == Init /\ [][Next]_vars

(* The controller ticks every second and finds a heartbeat old in the end  *)
(* if its visits go on failing; workers answer, the cluster starts and     *)
(* removes pods, a delay passes, and nobody keeps a browser for ever: its  *)
(* execution ends, its allowance is used up or its user stops it.          *)
Fairness ==
    /\ WF_vars(TickStep) /\ SF_vars(DeleteSilentPod)
    /\ WF_vars(WorkerServes)
    /\ \A w \in Worker : WF_vars(PodStarts(w)) /\ WF_vars(PodDeleted(w))
    /\ \A s \in Session : /\ WF_vars(DelayPasses(s))
                          /\ WF_vars(session[s] = "ready" /\ Stop(s))

FairSpec == Spec /\ Fairness

-----------------------------------------------------------------------------
(* A snapshot about to be published was made from what the profile holds:  *)
(* no save and no import in between is lost.                               *)
(* Safety of the lease in the publication of apps/fleet.                   *)
SnapshotsFollowEachOther ==
    tick.pc = "stopped" => browser[tick.at].basis = "current"

(* Nothing is left behind: a pod whose row is dead is on its way out, and  *)
(* whoever has a browser has one live row that will end it.                *)
(* Safety of every step of the reconciliation that ends rows and pods.     *)
NothingLeftBehind ==
    /\ \A w \in Worker : ~Live(w) => pod[w] \in {"unmade", "terminating", "gone"}
    /\ \A s \in Session : session[s] \in Allocated =>
         /\ custody[ProfileOf[s]] = s
         /\ \E w \in Worker : /\ row[w].status = "allocated" /\ Of(w) = s
                             /\ \A v \in Worker \ {w} : Live(v) => Of(v) # s

Running == {s \in Session : \E w \in Worker : browser[w].state = "open" /\ browser[w].session = s}

Custody == INSTANCE ProfileCustody WITH holder <- custody, open <- Running

(* A profile changes hands only while no browser has it open, whatever     *)
(* calls are lost or late and whichever pods or controllers die.           *)
(* Refinement of ProfileCustody by sessions, rows, pods and workers.       *)
ImplementsCustody == Custody!AbsSpec

(* A queued session gets its browser or is stopped, and a session told to  *)
(* stop ends; whoever else comes, fails or never starts.                   *)
(* Liveness of claimBrowserAllocation and of the reconciliation.           *)
RequestsSettle ==
    \A s \in Session : /\ session[s] = "queued" ~> session[s] # "queued"
                       /\ session[s] = "stopping" ~> session[s] = "ended"
=============================================================================
