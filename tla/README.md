# Tabductor in TLA+

Tabductor runs browser automations ("workflows") as durable runs in Postgres.
Engine processes poll a table, execute, ping, retry and settle; an outbox
carries events; a cron scheduler triggers; a finalizer asks a model for the
result of an execution; browsers live in pods that people take over; successful
runs are compiled into scripts that replace the agent.  Everything that makes it
correct is a protocol over rows that several processes read, think about, and
write later.  This directory models those protocols, checks them with TLC on
small instances and proves the central ones with TLAPS.

## Inventory

| component | state it keeps | operations | talks to |
| --- | --- | --- | --- |
| outbox and dispatcher (`packages/bus`) | `events`, `outbox` rows; the batch transaction | publish, claim a batch (`FOR UPDATE SKIP LOCKED`), deliver, settle, dead-letter notice, start, stop | every producer publishes inside its own transaction; subscribers are callbacks in the dispatcher's process |
| run lifecycle (`engine.ts`, `run-state.ts`, `run-lease.ts`) | `runs`; in memory the set of claimed runs, a job per run, the abort signal | poll, start (lease), heartbeat, settle, watchdog sweep, crash recovery, cancel, stop | executors, records, retries, outbox |
| triggers, retries, budget (`dispatch.ts`, `retry.ts`, `execution-budget.ts`) | `workflow_executions`, `task_state` claims | trigger, schedule a retry, admit a run | called from the control plane, the scheduler and `finishRun` |
| records and prerequisites (`record-progress.ts`, `prerequisites.ts`) | `workflow_records` | record an outcome, fail a run's record, completion check, block on a prerequisite | executors and `settle` |
| scheduler (`scheduler.ts`) | `schedules`; in memory the schedules seen since boot | tick, missed-fire policy, pin, claim, overlap skip, fire | triggers |
| finalizer (`agent/workflow-finalizer.ts`) | the finalization columns of an execution | claim, take over, call the model, write or give up | runs after the watchdog settled the runtime |
| agent runs (`agent/browser-loop*.ts`, `python-tool.ts`, `compiled-executor.ts`) | the shared history of a record's attempts and its keeper; the journal of host calls; in memory the pending write and the cell | wait for the history, run a cell, send an operation, write the journal, hand over from script to agent | lease of the run, policy, browser session, learner |
| fast path (`compiler`, `agent/learning-loop.ts`, `policy`) | the task's script, its versions and their trust, learning and compile jobs, learned prompt | learn from a run, dispatch, compile, reclaim, promote, demote, retire, change grants | finished runs, the executor's choice |
| browser session control (`browser-session-control.ts`, `browser-tabs.ts`, worker, gateway) | the session row with its input generation, tab leases; in the worker the owner and the open invocations | take over, acknowledge, resume, expire, stop, lease a tab, send a command, drain | people, agent runs, the worker's pod |
| browser fleet (`browser-fleet.ts`, `apps/fleet`) | allocations, sessions, pods, profile leases and snapshots | request, claim, bind, start, fulfil, stop, publish a snapshot, retire, warm, import | Kubernetes, workers, session control |
| credit ledger (`credits.ts`) | ledger entries, reservations; in memory the list of an expiry batch | adjust, reserve, settle, release, expire | purchases, model calls, browser time |
| credit purchases and webhook inbox (`paddle-payments.ts`, `paddle-webhooks.ts`) | purchase, adjustments, stored notifications; in memory the request to Paddle and the retry pass | create a purchase, store and process a notification, retry the stored ones | Paddle, the credit ledger, subscriptions |
| model funding, subscriptions, captcha jobs, workflow deletion, workflow store, browser pool | see "Not modelled" | | |

`PROJECT.json` lists every part with its status and every hazard with its line.

Hard behaviours, and the property each calls for:

* **Two processes, one row.**  Two engines poll the same queued run; two
  dispatchers the same outbox row; two schedulers the same tick; a run and a
  person the same browser.  *At most one acts.*
* **Reads that age.**  The watchdog and crash recovery walk a list read
  earlier; the finalizer writes a minute after it read; the scheduler decides on
  a row it no longer holds; an agent acts on a page it saw before a person
  touched it; a compiler promotes what it built for yesterday's task.  *The
  write is fenced by what was read, or does no harm.*
* **Four ways to end a run**: executor, watchdog, recovery, cancel.  *One wins,
  one event says so, nothing happens afterwards.*
* **Retry without a gap.**  A failed attempt and its retry must be one step for
  the settler that looks for executions without live runs.
* **Death between steps.**  Process memory goes, tables stay.  *Every row can be
  picked up again, and what is dangerous to repeat is not repeated.*
* **Effects without an answer.**  A click was sent and the process died.  *The
  next attempt knows that it does not know.*
* **State that changes hands**: a profile between pods, the history of a record
  between attempts, input between runs and people.  *One holder, nothing lost,
  nothing overwritten from an older copy.*
* **Messages from outside**, reordered, repeated, overtaking the request that
  caused them.  *The same money in whatever order; no credit twice, no refund
  rounded twice.*
* **Limits**: dead-letter attempts, run budget, retry policy, overlap,
  model calls.  *Exact at the boundary, whoever counts.*
* **Liveness**: every event settles, every timed run ends, every quiet
  execution settles, every settled execution is finalized, every tick is
  consumed, every handover, stop, browser request and compile job comes to an
  end, whoever waits for the history gets it.

## Modules

| module | models | abstracts |
| --- | --- | --- |
| `EventDelivery` | what the outbox promises: delivered or given up on, one notice per domain event given up on | everything else |
| `Outbox` | `packages/bus/src/outbox.ts` and the start order of `apps/engine/src/main.ts` | payloads; the backoff's length is one flag per row |
| `ExecutionAttempts` | what an execution is to the outside: a gapless chain of attempts, an outcome, a settled runtime | engines, leases, time |
| `RunLifecycle` | engine, run state, retries, budget, records, settler, watchdog, recovery | see below |
| `Scheduler` | `packages/engine/src/scheduler.ts` for one schedule row | cron expressions: ticks are multiples of `Period` |
| `ExecutionResult` | what the finalizer promises | |
| `Finalizer` | `packages/agent/src/workflow-finalizer.ts`, with cancelling by a deletion | prompt and answer; a claim's age is one flag |
| `AgentRuns` | attempts at one record and a rival for their history: shared history, cells, host calls with journal and archive | what an operation is; memory, checkpoints, perception, prompts |
| `FastPath` | `packages/compiler` jobs and promotion, the learning loop, what grants do to a task, for one task | text; validation and linting are an outcome |
| `InputOwnership` | who may send input to a browser: a run, a person, nobody | |
| `InputControl` | `browser-session-control.ts`, tab leases, command transaction, the worker's control and drain | which page operation a command is |
| `ProfileCustody` | who has a profile open and what its saved snapshots follow from | |
| `BrowserFleet` | `browser-fleet.ts` and the controller's tick against pods, workers and sessions | Kubernetes by what the code observes of it |
| `CreditLedger` | `packages/engine/src/credits.ts` for one account | legacy units, operating-cost rows; time is the flag `lapsed` |
| `Payments` | `paddle-payments.ts`, the inbox of `paddle-webhooks.ts` and the web route, over `CreditLedger`, for one purchase | payloads, signatures, prices, currencies; of subscription events, whether they throw |
| `RunLifecycleProofs`, `OutboxProofs`, `FinalizerProofs`, `AgentRunsProofs`, `FastPathProofs`, `InputControlProofs`, `BrowserFleetProofs`, `EngineTimersProofs` | theorems; the last has those of what the engine's two timers drive, `Payments` with its ledger and `Scheduler` | |
| `MC...` | TLC instances | |

### How the code becomes actions

A database transaction is one action.  An `await` between two transactions is a
point where every other process may act, so what a process carries across it is
explicit state: `job[e][r]` is the stack frame of `executeRun` for one run
(`loading` before `startRun`, `executing`, `checking` between the executor's
return and `recordCompletionError`, `settling` before the last transaction,
with the lease generation and the result it holds); `sweep[e]` and `recover[e]`
are the row lists of `reapTimedOutRuns` and `recoverStaleRuns`; `trx[d]` is the
dispatcher's batch; `ticking[e]` the scheduler's pass; `claim[w]` the finalizer's
job.  A crash clears them and leaves the tables.

`FinishRun` is the whole of `finishRun`: status, record, lifecycle event, the
retry decision with its claim, the budget and the notices, in one step, because
the code does it in one transaction.  `Held(r, g)` is the `WHERE` clause of
every fenced update.  Clocks are flags that passage-of-time actions set: `due`,
`deadline`, `stale` for runs, `ripe` for outbox rows, `old` for claims; only
`Scheduler` has a numeric clock, because cron ticks are compared.

In `Payments` an event is a record of what `processPaddleWebhookEvent` looks at
and its tests are operators in the order of the code's returns (`Terminal`,
`Throws`, `Invalid`, `Premature`, `Foreign`, `Stale`, `Contradicts`,
`Exceeds`); each outcome is one alternative of `Process`, one transaction.  The
statuses received and pending are one, "waiting", as the code treats them
alike.  The request that creates a purchase is `call`, the retry loop is `pass`;
further passes, of overlapping timers or other engines, do to an event what
`RouteProcess` may do at any time.  Reservations are spent by operations whose
callers (model calls, browser time) are not modelled: `Spending` may call any
operation of the ledger.

An emit claims a key of `task_state` before it publishes, and there are two
kinds (`EmitClaim`).  An event whose type is the task's record-processing type
is told apart by the record it is about (`Identified`): it claims
`record:<execution>:<type>:<identity>`, once for each execution, whatever dedupe
key it was given or if it was given none.  Any other emit claims
`emit:<type>:<dedupeKey>`, once for the task, and claims nothing without a
dedupe key.  `RecordEvent` says which keys of which tasks are of the first kind.

Left out of `RunLifecycle`: the statuses `awaiting_approval` and
`awaiting_human` and the `suspended` result (declared, but no wired code enters
them), emits that claim nothing (of other types than the record's, without a
dedupe key), which prerequisite blocks a run, the `LIMIT 100` of the poll, a second record in an execution, workflow
deletion (it is in `Finalizer`, where it matters), telemetry.  `ExecutorReturns`
may happen at any moment and with any result: it stands for the whole agent.

`InputControl` has the three parties of a handover with their own memory: the
row, the controller that reads the row and then talks to the worker, the worker
that hears it late or not at all, and the runs that hold a session connection.
`ready` and `running` of a session are one status, as no guard tells them apart;
draining and assigning the new owner is one step of the worker (`control` does
not await in between); `humanActionPending` is declared and never set.
`tab.acquire`, `page.create` and `challenge.apply` are left out.

`BrowserFleet` has one controller: a lock in the database admits one at a time.
Ids of allocations are used again once retired, to bound them.  The status of an
allocation request follows its session and is read off it.  A pod's state is
read when the tick visits it, and a pod that was told to go counts as ready and
answers until it has gone (`Answers`), as the controller looks at the pod's
`Ready` condition only.  Stopping because an execution has finished is
part of `Stop`.  Worker generations stay at 1, so the code's `stranded` branch is
not reached.  With one account the order between accounts is not exercised.

`FastPath` is one task: the transactions of its queues and of promotion take the
row lock of the task first, so each is one step.  A change of grants does not:
it reads the grants, computes the task's hash and takes the row when it writes
the hash.  `ChangeGrants` is the transaction from that write on, and it may
write any hash, that of grants read before another change included; what is
proved and checked speaks of the hash in the row, not of the grants it is
computed from.  Backoff of jobs is left out (a job
that may be claimed may be claimed now).  The counter of clean runs has no
reader in the code and no variable here.  Publishing a definition makes a new
task row, so it is the birth of another instance.

`AgentRuns` has two attempts at one trigger (they share the journal row) and a
run of another trigger of the same record (it shares the history only).
`Leased(r)` is the run's lease; taking it from a live process stands for
watchdog and cancel.  A cell (`runCell`) sends operations; `queue` is the
promise chain of journal writes (`stateQueue`), `journal` the row.  A write
stores the operations the cell counts as running (`Running`): those under way,
and in `left` those whose write beforehand failed, which the code takes off the
map only after a call it never made.  Reads, memory, files,
checkpoints, compaction, perception, limits and the JavaScript tool are left out,
and so is which tool an operation is.

## Runs

`browser_fleet` checks deadlock; the other runs set `CHECK_DEADLOCK FALSE`:
their producers, faults and clocks are bounded, so a behaviour that has used
them up really stops.

| run | question | instance |
| --- | --- | --- |
| `outbox` | Is nothing dispatched unhandled, is every death noticed once, does the table refine `EventDelivery`, does every event settle? | 2 dispatchers, 1 subscriber, 2 events and their notices, batches of 2, 2 attempts, 1 fault; fair |
| `run_race` | Do two engines, the watchdog, recovery and the user end each run once, in a chain within budget, without killing the living? Refines `ExecutionAttempts`. | 2 engines (symmetric), one timed task, 3 run ids, retry policy 2 against budget 2, so that the budget cuts off the last retry; 1 fault |
| `run_work` | What does an executor leave behind, and does everything come to an end? | 1 engine, a timed task whose event is told apart by its record and a real-browser task whose event has a dedupe key, 1 key, 2 executions, one retry, two leases per run (a deferral), 1 fault; fair. Two action constraints keep apart what does not meet: deferrals of a run and what an executor writes (`DeferredOrWorking`); all that one execution does and what two do over one key (`OneWorksOrTwoEmit`) |
| `run_overlap` | finding, below | |
| `scheduler` | Is no tick fired twice or never, and overlap bounded? | 2 engines, all four policy combinations, 2 ticks, 1 stop or crash; fair |
| `finalizer` | Does the last claim write, within the call limit, and does every execution end? Refines `ExecutionResult`. | 2 workers, 2 executions, limit 2, 2 faults; fair |
| `payments` | Do ledger, reservations, purchase and adjustments agree, whatever the order? Are stored notifications got through? | 4 lives of an account, chosen at the start (`Scenario`): two refunds told early and a completion told twice; a reversed and a declined refund; a subscription, its metadata and a second subscription; two holds during a refund. 3 minor units buy 5, refunds of 1 and 2; passes of 2, one engine death |
| `input_control` | Does input have one owner, does no run act on what a person outdated, does every handover end? Refines `InputOwnership`. | 2 runs, one of which only makes long calls (action constraint), 2 tabs, 3 generations, 1 given-up command, 1 fault (lost call, dead pod, dead controller); fair |
| `browser_fleet` | Is no saved profile lost or overwritten, nothing left behind, does every request settle? Refines `ProfileCustody`. | 2 sessions of one profile, 2 workers, 2 allocations at a time, no warm pods, 1 fault; fair |
| `fast_path` | Does the script that serves fit the task, does no run teach twice, is each script judged on its own evidence, do the queues drain? | 2 runs, 2 scripts, 2 definitions, 2 learners, 2 compilers, 2 attempts of each job, demotion at 1 of the last 2 runs, 1 fault; fair |
| `agent_runs` | Is no unanswered effect forgotten, repeated by a script, or lost from the history? | 3 runs of 2 triggers, 2 operations, 2 cells, 1 fault; fair. The action constraint `Instance` picks one of the equivalent orders in which runs begin |
| `agent_unresolved` | finding, below | the same without faults |

Why the bounds are enough.  Every race in this code is between two actors over
one row: two engines (dispatchers, workers) reach it, and symmetry makes names
irrelevant.  Limits are compared with counters, so a limit of 2 shows below, at
and beyond it; `run_race` has one run id more than the budget admits, so an
admission too many would be visible.  One fault is enough for a stale process
beside a fresh one, two for a takeover of a takeover (`finalizer`).  Two leases
of a run (`run_work`) suffice to confuse an old lease with a new one.
Deferrals are unbounded in the code and bounded by `MaxLease` here, on
the executor's return, so the engine's own steps are never disabled by a bound.
Two executions of a task (`run_work`) share nothing but the claims of its
emits: once there are two, `OneWorksOrTwoEmit` leaves out triggers, records,
missing prerequisites, deferrals, cancels and crashes, none of which anybody
owes, so no obligation under fairness is cut short.  With one execution
everything happens; with two, both emit keys that are the same for the task and
keys that are the same for the execution only.
`payments` keeps what cannot interact apart: a life has the three to five
notifications that meet each other in one purchase, so every order of them,
with every repetition, is explored; amounts of 1 and 2 in 3 for 5 units make
each refund round and their rounded sum exceed the pack.  Three input
generations are a takeover, a resume and a second takeover, enough for an
acknowledgement of the first to meet the second.  Two sessions of one profile
are a holder and a waiter; the third would only wait.  Two definitions are
before and after a change of grants, so a job, a script and a worker of the old
one meet the new one.  Two operations in flight are the least for one's write to
carry, or to lose, the other; two cells are before and after a journal was
read.

### Fairness

* Timers are `setInterval`s or sleeping loops: a poll, a sweep, a pass, a batch
  or a controller's tick that stays possible is eventually made (weak fairness).
* An `async` function that started goes on: `CheckCompletion`, `Settle`,
  `CommitBatch`, `Visit`, `Pin`, a worker's answer to a call, a learner's and a
  compiler's next step (weak).  A finalizer job is cut off after sixty
  seconds, so it ends one way or the other.
* `StartRun` is strongly fair: a prerequisite may block the run and come back
  any number of times but not for ever.  The same for firing, which a monthly
  limit may refuse.
* The payment timer starts a pass every two seconds and a pass goes on (weak);
  nothing is assumed of Paddle or of repeated deliveries.
* `InputControl`: ticks, the worker's answers, commands and the ends of loose
  calls (weak); `DeleteSilentPod` is strongly fair, because a heartbeat ages
  while ticks fail and the pod is found silent again and again.
* `BrowserFleet`: ticks, workers, pods starting and going away, the delay, and
  the stop of a ready session, whose execution ends.
* `FastPath`: runs end, jobs are dispatched, workers go on.
* `AgentRuns`: a run waiting for the history polls every 250 ms; who has lost
  its lease throws; and whoever keeps the history loses its lease some day: runs
  end, which is `RunsComeToAnEnd` of `run_work`.
* Time passes; a supervisor restarts a dead process.
* **No** fairness for producers, users, executors' returns, deferrals, crashes,
  or an executor's obedience to an abort: liveness holds with a hung executor.

## What is proved

Eight modules hold theorems, for any number of processes, rows, runs, tabs,
attempts, faults, from the components' named assumptions alone.  Each follows
one pattern: an inductive invariant `IInv` (in `RunLifecycleProofs` `TypeInv`)
of named parts, a lemma that `Init` establishes it, one lemma per action that
keeps it, and a temporal step.  TLC has checked every `IInv` on the instances of
the runs before it was proved.

`RunLifecycleProofs`, from `RunAssumption`:

* `TypeCorrect`.  `TypeOK` is not inductive: `startRun` increments the
  generation, so the bound on generations needs to know that a queued run has a
  lease left, which a requeue only keeps because a deferring executor had one
  left; and a retry copies task and execution from the row that failed, so
  existing rows must name them.  `TypeInv` adds these (`LeasesLeft`,
  `RowsRefer`).  `FinishRunEffect` states once what `finishRun` does to the
  tables, for its three callers.
* `OneExecutorAlways`: the lease is a lock.  `OneExecutor` itself is inductive
  together with `TypeInv`, because it speaks of generations: a row that left the
  queue keeps its generation until its only holder requeues it (`Steady`), and a
  process only goes on with what it did (`Continues`); `StartRun` and the
  requeue of `Settle` are the two steps where that fails and the invariant
  itself is needed.
* `PublishedOnce` and `EndIsFinal`: both follow from `RunSteps`, which says of
  any step and any run that it keeps the run, moves it (into the queue, between
  live statuses, to cancelled) or ends it with one event, and that only a
  running run emits.
* `NeverReplayed` and `EnginesImplementAttempts`, the refinement of
  `ExecutionAttempts`.  Whatever a step does to the attempts of an execution is
  one of five things (`ChainSteps`): nothing, a settlement, a first run, the end
  of a run, or a failure with its retry.  `ChainInv` says that a live run is
  alone and the latest (`OneLive`), that attempts have different numbers, and
  that nothing follows a success, a cancel or an uncertain end (`ClosersLast`);
  `CountInv` that an execution has a last run and as many as it admitted.  The
  abstract stage is then read off the last run (`StagesRead`), and each of the
  five is a step of the chain or a stutter.
* `EmittedOnce`, `KillsAreRightful` and `SuccessIsFinished` rest on one lemma
  (`EveryStep`) that says of any step what it may do to leases, claims, lists,
  records and jobs.  What was emitted is claimed (`EmitsClaimed`), every claim
  was made by a run that emitted (`ClaimsEmitted`), and two runs make the same
  claim exactly when one repeats the other (`ClaimsTellRepeats`), which is why a
  dedupe key is spent for the task and a record's identity for the execution,
  and nothing else is held back; what a sweep
  lists is overdue as long as its generation is the current one
  (`SweepsOverdue`), because a new lease has a new generation; the records a
  settlement found finished stay so while its lease holds (`CheckedRecords`),
  because by `OneExecutor` and `OneLive` nobody else may write them.

`OutboxProofs`, from `OutboxAssumption`: `TypeCorrect`, `DispatchedMeansHandled`,
`ClaimsAlwaysExclusive`, `EveryDeathNoticedOnce` and
`DispatchersImplementDelivery`, the refinement of `EventDelivery`.  The
invariant is `TypeOK`, `BatchesHeld`, `ClaimsExclusive`, `AttemptsFit`,
`IdsWithoutGap`, `NoticesFit`, `DomainBounded` and `DispatchedWasHandled`.  A
commit publishes its notices under the next free ids; that they are free, fit
the bound and go one to one to the events that died is a counting argument over
ranks (the `Rank` lemmas), and needs the ids of the table to have no gap.

`FinalizerProofs`, from `FinalizerAssumption`: `TypeCorrect`, `LastClaimWrites`,
`WorkersImplementResult`, the refinement of `ExecutionResult`.  Claims of one
execution differ (`ClaimsDiffer`) and are no newer than the row
(`ClaimsAreOld`), so at most one worker passes the `WHERE` of the write;
`CallsAccounted` and `AttemptsLeft` bound the model's calls.

`InputControlProofs`, from `InputAssumption`: `TypeCorrect`, `OneOwnerOfInput`,
`StaleEvidenceIsNotActedOn`, `HandoversGoThroughNobody` (the refinement of
`InputOwnership`).  The argument orders generations: nothing the worker, a
connection or an acknowledgement carries is ahead of the row (`NothingAhead`,
`RowOrdered`); a row that lets runs send agrees with the worker
(`ReadyMeansAgreed`); a worker that is a person's has drained every run
(`HumanMeansDrained`); what a run saw carries the generation it saw it in
(`EvidenceAged`).

`FastPathProofs`, from `FastPathAssumption`: `TypeCorrect`,
`ServedAlwaysFitsTask`, `EachRunIsLearnedOnce`, `ScriptsRetiredRightly`.  A
learner and a compiler hold jobs of runs that really finished (`LearnsItsRun`,
`CompilesItsRun`); serving and promoting compare with the definition under the
task's lock.  That nobody is retired on the evidence of a predecessor needs
`EvidenceInv` on top: the window of deopts is below its limit between two
actions (`BelowLimit`), so the run that fills it is counted last; only a run
that used a script has a deopt (`DeoptsHaveScripts`), so no other run fills it
(`NoDeoptAdded`); a job to recompile names the script its run used or none
(`LearnsOfItsScript`); and what a compiler promotes is a candidate of its own
job's run, held by no other compiler (`CandidatesAreOwn`).

`AgentRunsProofs`, from `AgentAssumption`: `TypeCorrect`, `UnknownAlwaysFlagged`,
`NothingReplayedBlindly`, `HistoryNeverShrinks`.  Attempts of one trigger do not
overlap (`AttemptsApart`), so only the leased run writes its journal; a write
carries all running operations (`WritesWanted`, `EffectsJournaled`); the next
cell turns what is still in flight into the flag (`CellStartsClean`); whoever
keeps the history has read, or been told, what it holds (`KeeperUpToDate`).

`BrowserFleetProofs`, from `FleetAssumption`: `TypeCorrect`, `SnapshotsFollow`,
`NothingIsLeftBehind` and `ProfilesHaveOneCustodian`, the refinement of
`ProfileCustody`.  The invariant is `FleetInv`.  Rows and sessions agree
(`RowsInv`): no two rows are bound to one session, an allocated row's session
has a browser or is getting one, a draining row's has ended.  Leases and sessions agree (`CustodyInv`): what is allocated has
its profile's lease and a row.  A browser belongs to the session of its row, is
open only while that session is allocated, and has its profile from before the
last save only if its session is no longer allocated (`BrowserFits`).  Calls
under way keep these facts when they arrive late (`CallsInv`), and a visit that
is about to publish finds the browser closed or its pod gone (`TickInv`).  The
last two are what the controller's own memory is for: between the answer of a
worker and the transaction that publishes, only they say that nothing has
changed.  A custody changes hands in three places (binding, publishing, ending
a session with its row); at each the invariant says that no browser has the
profile open, and every other step leaves holders alone and opens nothing for a
profile that is not held (`SameRunning`).

`EngineTimersProofs`, the money, for any events, amounts, reservations and
movements, from `LedgerAssumption` and `PaymentsAssumption`:

* `HoldsAlwaysAccounted`, `NeverOverspent`, `AlwaysCreditedOnce`,
  `RefundAlwaysExact`.  The sums of the model are folds; that a fold over a
  finite set satisfies its equation (`SumEquation`) is shown with a least
  subset on which it would fail (`SmallestSubset`), and from it follow adding an
  entry, splitting a sum, and a sum of naturals or of negative numbers.
  `Accounted` then says of single keys what the rows of reservations, purchase
  and adjustments put on the ledger: a hold, at most one return
  (`HoldsBooked`), the pack's units under the one key of the transaction
  (`PurchaseBooked`), debits of approved adjustments only, which come to the
  share rounded once (`RefundBooked`).  That the share only grows and never
  exceeds the pack is arithmetic of the rounded division (`ShareMonotone`,
  `ShareBounded`).
* `OutcomeIsOfAll`.  `OutcomeInv` says of each event that is through what it
  left: a completion has credited, an approval is approved, and what the row of
  an adjustment says is what some event told.  The
  theorem assumes `LivesCoherent`: in each life what Paddle tells of the
  purchase fits together (it was paid; no adjustment is both approved and
  rejected; nothing told of one is later than its approval; no more is approved
  than was paid).  Without this the code refuses or ignores what contradicts,
  and rightly depends on the order.  `ScenariosCoherent` in `MCPayments` checks
  that the lives of the run meet it.
* `CreditKept`: a credited purchase stays so.  The invariant `CreditedRow` says
  that crediting leaves `creating` for good and binds the transaction, which is
  why the late `RecordTransaction` or `RecordFailure` finds a row that is not
  its own.
* `ClosedForGood`: a closed reservation keeps its status and amount; every path
  to a closed status, the expiry batch with its old list included, asks for
  `active` again.

`EngineTimersProofs`, the scheduler, from `SchedulerAssumption`:
`SchedulerTypeCorrect`, `OverlapAlwaysBounded`, `FiresOnceUnlessPinnedBack`.
What a pass decided to fire was due at the row it read (`DecidedWhenDue`), and a
row only moves forward except by the pin of a boot pass (`RowNotBehind`): a
second firing of a tick therefore names the pin that made it possible.

Only model-checked: liveness (out of the prover's reach: fairness and
`ENABLED`), that is `EveryEventSettles`, `RunsComeToAnEnd`, `TicksConsumed`,
`SettledEnds`, `AppliedUnlessJammed`, `HandoversComplete`, `RequestsSettle`,
`QueuesDrain` and `WaitersServed`.  Every other property of a passing run is a
theorem, and so is the type invariant of every component.

## Findings

Each is a comment or document of the code that a run shows violated.

* `run_overlap`: `run-state.ts:67-70` says a scheduled task's runs must not
  overlap.  The guard is in the query of the poll, not in `startRun`: two queued
  runs in one poll, or two engines, start both.
* `agent_unresolved`: `docs/browser-node-learning.md:42-44` says compilation
  requires evidence with no unresolved effects.  The learner looks the journal
  up under the run's own id (`learning-loop.ts:120`); executors keep it under
  the id of the event that triggered the run (`browser-loop-control.ts:29`).  A
  triggered run with an unknown effect is taken for resolved.

What the passing runs excuse, each named in the property that excuses it:

* `TickFiredOnceUnlessPinnedBack`.  `scheduler.ts:16-18` says the
  compare-and-set keeps two engines from double-firing.  The boot pass writes
  `lastFiredAt` unconditionally with a time taken before the write; between the
  two another engine may fire, and the pin moves the row back over that fire.
  The run and the theorem show this is the only way.
* `AppliedUnlessJammed`.  `paddle-payments.ts:449` says the retry of stored
  deliveries makes arrival order irrelevant.  A stored event that throws (the
  payment of a second subscription, for ever) ends every pass at itself, and
  more than a hundred events that wait for something fill every pass; what was
  stored behind them is not applied.
* `RunsComeToAnEnd` speaks of runs with a deadline.  `engine.ts:319-320` says
  runs left running at shutdown belong to the watchdog; recovery looks once, at
  start (`engine.ts:302`), and only at heartbeats older than thirty seconds
  (`run-state.ts:245`), so a restart within thirty seconds leaves an untimed run
  running until another restart.
* `UnknownIsFlagged` excuses the operations in `overtaken`.
  `docs/python-browser-harness.md:28` says that a failed operation may have
  committed and that a compiled execution hands over before further effects.  An
  operation that returns without an answer leaves the set of running ones before
  its own journal write is queued (`python-tool.ts:196-197`), and every write
  stores the set as it then is.  The write of another operation of the cell that
  lands first drops it from `inFlight`; only its own write sets the flag.  If
  the process dies in between, or that write fails, nothing in the journal tells
  of the effect, and the next attempt's script goes on.

## Not modelled

The project asks ten questions of the code and shows two disagreements with
its comments and documents.  The map
covers about a seventh of the implementation's lines.  Most of the rest has no
state that several steps or actors share: pages and components of the web
application, browser drivers, prompts, parsers, renderers and read queries.
What has such state and is left out:

* **Workflow deletion** (`workflow-deletion.ts`).  Its effect on executions and
  on a running finalizer is in `Finalizer`.  The rest is one pass under an
  advisory lock that waits for runs to settle, deletes every row in one
  transaction and then removes blobs nobody else refers to (lines 117-124).
  Whether a blob becomes shared between that question and the removal depends
  on every table that holds blob references, most of which no module has.
* **Captcha jobs and challenge recovery** (`captcha-service.ts`,
  `challenge-recovery.ts`).  A job is a row keyed by run and idempotency key
  that goes from submitting to pending to an answer, every step under the lock
  of the run's row; automatic challenge recovery is switched off in production (`apps/engine/src/main.ts:87`).
* **Funding of model calls** (`model-funding.ts`).  Calls no longer hold
  credits: `reserveCredits` has no caller but tests.  What
  is left is a look at the balance and an operation row.  The reservations
  themselves are in `CreditLedger`.
* **Subscriptions and metering** (`paddle-subscriptions.ts`,
  `subscriptions.ts`).  `Payments` has what decides whether a subscription's
  event throws, because that is what ends a retry pass; an overage reaches the
  ledger as a movement of `Adjust`.  Entitlements and prices are left out.
* **Endpoint pool** (`packages/browser/src/pool.ts`).  Only tests create it; the
  hosted pool that production uses is in `InputControl`.
* **Policy gate** (`DatabasePolicyGate`).  Exported, and no application
  constructs it.  Grants and the hash they change are in `FastPath`.
* **Workflow tables** (`packages/store`).  Provisioning and migration change
  schemas; their steps are SQL statements whose effect is the database's.
* **Planner, validators, linter, static runtime, secrets, telemetry, MCP, UI.**
  Text, pure functions, cryptography, I/O and presentation.

Hazards the code has and no property covers:

* a second fleet controller starts while the first, having lost its database
  connection and with it the lock, is still in a tick;
* a pending import that the worker refuses fails every start of its profile:
  only a published snapshot clears it (`apps/fleet/src/main.ts:147`, `:167`);
* a run whose script vanished between dispatch and start fails for good
  (`compiled-executor.ts:144`) although the agent could do it;
* two changes of grants compute the task's hash from different reads
  (`policy/src/store.ts:63`) and the older one may be written last; `FastPath`
  lets any hash be written and holds for the hash in the row, so that a hash
  may not be that of the grants is outside what it says;
* more than a hundred stored events that all wait for something
  (`AppliedUnlessJammed` names the case and excuses it).

Outside the prover: liveness.  Temporal properties with fairness are checked by
TLC alone.
