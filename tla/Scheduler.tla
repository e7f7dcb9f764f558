----------------------------- MODULE Scheduler ------------------------------
(***************************************************************************)
(* The cron scheduler of packages/engine, for one schedule row and the     *)
(* engine processes that each run a scheduler loop over it.  A pass reads  *)
(* the row, later decides from what it read and from the clock, later      *)
(* still writes: other processes act in between.                           *)
(*                                                                         *)
(* Cron ticks are the positive multiples of Period.                        *)
(***************************************************************************)
EXTENDS Naturals

CONSTANTS
    Engine,
    Period,             \* clock units between two cron ticks
    Never,              \* last_fired_at is null
    MaxTime,            \* bound: the clock
    MaxFaults           \* bound: stops and crashes of engines

ASSUME SchedulerAssumption ==
    /\ Period \in Nat \ {0}
    /\ MaxTime \in Nat
    /\ MaxFaults \in Nat
    /\ Never \notin Nat

VARIABLES
    schedule,           \* the row: lastFired and its two policies
    queued, running,    \* live runs of the task
    now,                \* the clock
    ticking,            \* ticking[e]: the tick() under way in e
    booted,             \* engines that have seen the schedule since they started
    up,                 \* engines whose scheduler is started
    faults,
    lastFire,           \* history: when the schedule last fired
    pinnedBack          \* history: a pin moved lastFired backwards

schedulerVars == <<schedule, queued, running, now, ticking, booted, up, faults, lastFire, pinnedBack>>

Time == 0 .. MaxTime
NoPass == [pc |-> "idle", row |-> Never, at |-> 0]

SchedulerTypeOK ==
    /\ schedule \in [lastFired : Time \cup {Never},
                     missedPolicy : {"skip", "fire_once_catchup"},
                     overlapPolicy : {"skip", "queue"}]
    /\ queued \in Nat /\ running \in Nat
    /\ now \in Time
    /\ ticking \in [Engine -> [pc : {"idle", "read", "pin", "fire"},
                            row : Time \cup {Never}, at : Time]]
    /\ booted \subseteq Engine /\ up \subseteq Engine
    /\ faults \in 0 .. MaxFaults
    /\ lastFire \in Time \cup {Never}
    /\ pinnedBack \in BOOLEAN

SchedulerInit ==
    /\ schedule \in [lastFired : {Never},
                     missedPolicy : {"skip", "fire_once_catchup"},
                     overlapPolicy : {"skip", "queue"}]
    /\ queued = 0 /\ running = 0
    /\ now = 0
    /\ ticking = [e \in Engine |-> NoPass]
    /\ booted = {} /\ up = {}
    /\ faults = 0
    /\ lastFire = Never
    /\ pinnedBack = FALSE

NextRun(t) == (t \div Period + 1) * Period

(* Mutant: a tick fires only at the very instant it is due. *)
DueExactly(row, at) == row # Never /\ NextRun(row) = at

Due(row, at) == row # Never /\ NextRun(row) <= at

-----------------------------------------------------------------------------
(* tick() reads the rows; one pass at a time in each process. *)
TickRead(e) ==
    /\ e \in up
    /\ ticking[e] = NoPass
    /\ ticking' = [ticking EXCEPT ![e] = [pc |-> "read", row |-> schedule.lastFired, at |-> 0]]
    /\ UNCHANGED <<schedule, queued, running, now, booted, up, faults, lastFire, pinnedBack>>

(* visit: the first sight of the schedule goes through the missed policy;  *)
(* afterwards the row fires when its next tick has come.                   *)
Visit(e) ==
    LET firstSight == e \notin booted
        due == Due(ticking[e].row, now)
        catchUp == schedule.missedPolicy = "fire_once_catchup"
        decision == IF firstSight THEN IF due /\ catchUp THEN "fire" ELSE "pin"
                    ELSE IF due THEN "fire" ELSE "idle"
    IN /\ ticking[e].pc = "read"
       /\ booted' = booted \cup {e}
       /\ ticking' = [ticking EXCEPT ![e] = IF decision = "idle" THEN NoPass
                                      ELSE [@ EXCEPT !.pc = decision, !.at = now]]
       /\ UNCHANGED <<schedule, queued, running, now, up, faults, lastFire, pinnedBack>>

PinTo(e) == ticking[e].at

(* First sight, nothing to catch up: the row is moved to the `at` computed *)
(* before the write was sent.  The update has no condition on lastFired.   *)
Pin(e) ==
    /\ ticking[e].pc = "pin"
    /\ schedule' = [schedule EXCEPT !.lastFired = PinTo(e)]
    /\ ticking' = [ticking EXCEPT ![e] = NoPass]
    /\ pinnedBack' = (pinnedBack \/ (/\ schedule.lastFired # Never
                                     /\ ticking[e].at < schedule.lastFired))
    /\ UNCHANGED <<queued, running, now, booted, up, faults, lastFire>>

Allowed == IF schedule.overlapPolicy = "queue" THEN 2 ELSE 1
Live == queued + running

(* Mutant: one live run too many. *)
RoomForOneMore == Live <= Allowed

Room == Live < Allowed

(* Mutant: the claim is not a compare-and-set. *)
ClaimsBlindly(e) == ticking[e].pc = "fire"

(* fireInSpan, one transaction: compare-and-set the tick, then a skip for  *)
(* overlap or a missing prerequisite, which consumes it, or a trigger.     *)
Claims(e) == ticking[e].pc = "fire" /\ schedule.lastFired = ticking[e].row

ConsumeTick(e) ==
    /\ schedule' = [schedule EXCEPT !.lastFired = ticking[e].at]
    /\ ticking' = [ticking EXCEPT ![e] = NoPass]
    /\ UNCHANGED <<running, now, booted, up, faults, pinnedBack>>

Fire(e) ==
    /\ Claims(e)
    /\ Room
    /\ ConsumeTick(e)
    /\ queued' = queued + 1
    /\ lastFire' = ticking[e].at

SkipOverlap(e) ==
    /\ Claims(e)
    /\ ~Room
    /\ ConsumeTick(e)
    /\ UNCHANGED <<queued, lastFire>>

SkipBlocked(e) ==
    /\ Claims(e)
    /\ ConsumeTick(e)
    /\ UNCHANGED <<queued, lastFire>>

(* The claim is lost, or triggerTask threw and took the claim with it.     *)
FireUndone(e) ==
    /\ ticking[e].pc = "fire"
    /\ ticking' = [ticking EXCEPT ![e] = NoPass]
    /\ UNCHANGED <<schedule, queued, running, now, booted, up, faults, lastFire, pinnedBack>>

Start(e) ==
    /\ e \notin up
    /\ up' = up \cup {e}
    /\ UNCHANGED <<schedule, queued, running, now, ticking, booted, faults, lastFire, pinnedBack>>

(* stop() clears the timer and what has been seen; a pass under way goes on *)
(* until the process exits.                                                 *)
Stop(e) ==
    /\ e \in up
    /\ faults < MaxFaults
    /\ up' = up \ {e}
    /\ booted' = booted \ {e}
    /\ faults' = faults + 1
    /\ UNCHANGED <<schedule, queued, running, now, ticking, lastFire, pinnedBack>>

(* The process exits or dies, its pass with it. *)
Crash(e) ==
    /\ e \in up \/ ticking[e] # NoPass
    /\ faults < MaxFaults
    /\ up' = up \ {e}
    /\ booted' = booted \ {e}
    /\ ticking' = [ticking EXCEPT ![e] = NoPass]
    /\ faults' = faults + 1
    /\ UNCHANGED <<schedule, queued, running, now, lastFire, pinnedBack>>

(* The engine's side of the task's runs. *)
RunStarts ==
    /\ queued > 0
    /\ queued' = queued - 1 /\ running' = running + 1
    /\ UNCHANGED <<schedule, now, ticking, booted, up, faults, lastFire, pinnedBack>>

RunEnds ==
    /\ running > 0
    /\ running' = running - 1
    /\ UNCHANGED <<schedule, queued, now, ticking, booted, up, faults, lastFire, pinnedBack>>

ClockTicks ==
    /\ now < MaxTime
    /\ now' = now + 1
    /\ UNCHANGED <<schedule, queued, running, ticking, booted, up, faults, lastFire, pinnedBack>>

Step(e) ==
    \/ TickRead(e) \/ Visit(e) \/ Pin(e)
    \/ Fire(e) \/ SkipOverlap(e) \/ SkipBlocked(e) \/ FireUndone(e)
    \/ Start(e) \/ Stop(e) \/ Crash(e)

SchedulerNext == (\E e \in Engine : Step(e)) \/ RunStarts \/ RunEnds \/ ClockTicks

(* The interval timer keeps making passes and a supervisor restarts the    *)
(* process.  A trigger that throws (a monthly limit) is retried by the     *)
(* next pass and does not throw for ever: strong fairness of firing.       *)
Fairness ==
    \A e \in Engine :
        /\ WF_schedulerVars(Start(e))
        /\ WF_schedulerVars(TickRead(e)) /\ WF_schedulerVars(Visit(e)) /\ WF_schedulerVars(Pin(e))
        /\ SF_schedulerVars(Fire(e) \/ SkipOverlap(e)) /\ WF_schedulerVars(FireUndone(e))

SchedulerSpec == SchedulerInit /\ [][SchedulerNext]_schedulerVars
SchedulerFairSpec == SchedulerSpec /\ Fairness

-----------------------------------------------------------------------------
(* No tick fires twice and no backlog is replayed: between two fires there *)
(* is always a cron tick, restarts and catch-ups included.  The compare-   *)
(* and-set of fireInSpan gives this with any number of engines as long as  *)
(* no starting process has pinned the row backwards over a fire.           *)
TickFiredOnceUnlessPinnedBack ==
    [][(\E e \in Engine : Fire(e)) /\ lastFire # Never /\ ~pinnedBack =>
          NextRun(lastFire) <= lastFire']_schedulerVars

(* The overlap policy bounds what schedules pile up: one live run under    *)
(* `skip`, one more behind it under `queue`, whichever engines fire.       *)
OverlapBounded == Live <= Allowed

(* A tick that has come is eventually fired or skipped, not forgotten.     *)
TicksConsumed ==
    \A t \in Time : (schedule.lastFired # Never /\ schedule.lastFired < t
                        /\ t <= now /\ t % Period = 0)
                    ~> (schedule.lastFired # Never /\ schedule.lastFired >= t)
=============================================================================
