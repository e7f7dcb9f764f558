------------------------------- MODULE Outbox -------------------------------
(***************************************************************************)
(* The transactional outbox of packages/bus and the processes that drain   *)
(* it.  Each engine process runs one dispatcher; all dispatchers share the *)
(* outbox table.  A dispatcher claims a batch of ready rows in one         *)
(* transaction (FOR UPDATE SKIP LOCKED), delivers them to the subscribers  *)
(* of its own process, and settles every row when that transaction         *)
(* commits.  A crash, or a transaction the database refuses, undoes the    *)
(* settling but not what the subscribers did.                              *)
(*                                                                         *)
(* Time is a flag per row: "ripe" is next_attempt_at <= now().             *)
(***************************************************************************)
EXTENDS Naturals, FiniteSets

CONSTANTS
    Dispatcher,         \* engine processes
    Subscriber,         \* handlers every process subscribes
    MaxEvents,          \* bound: domain events ever published
    BatchSize,          \* opts.batchSize
    MaxAttempts,        \* opts.maxAttempts
    MaxFaults          \* bound: crashes, refused commits, shutdowns

ASSUME OutboxAssumption ==
    /\ MaxEvents \in Nat \ {0}
    /\ BatchSize \in Nat \ {0}
    /\ MaxAttempts \in Nat \ {0}
    /\ MaxFaults \in Nat
    /\ IsFiniteSet(Dispatcher)
    /\ IsFiniteSet(Subscriber)

(* outbox.id: at most one notice per domain event, so this is enough ids. *)
Row == 1 .. 2 * MaxEvents

VARIABLES
    outbox,             \* the table: [Row -> row]
    process,            \* process[d]: life of an engine process
    trx,                \* trx[d]: the batch transaction in progress
    handled,            \* <<s, r>>: subscriber s completed the event of row r
    faults             \* crashes, refused commits, shutdowns so far

vars == <<outbox, process, trx, handled, faults>>

Absent == [status |-> "absent", attempts |-> 0, ripe |-> FALSE, about |-> 0]
Fresh(a) == [status |-> "pending", attempts |-> 0, ripe |-> TRUE, about |-> a]
NoTrx == [claimed |-> {}, ok |-> {}, failed |-> {}]

TypeOK ==
    /\ outbox \in [Row -> [status : {"absent", "pending", "dispatched", "dead_letter"},
                           attempts : 0 .. MaxAttempts,
                           ripe : BOOLEAN,
                           about : Row \cup {0}]]
    /\ process \in [Dispatcher -> {"down", "subscribed", "running", "stopping"}]
    /\ trx \in [Dispatcher -> [claimed : SUBSET Row, ok : SUBSET Row, failed : SUBSET Row]]
    /\ handled \subseteq Subscriber \X Row
    /\ faults \in 0 .. MaxFaults

Init ==
    /\ outbox = [r \in Row |-> Absent]
    /\ process = [d \in Dispatcher |-> "down"]
    /\ trx = [d \in Dispatcher |-> NoTrx]
    /\ handled = {}
    /\ faults = 0

Published == {r \in Row : outbox[r].status # "absent"}
NextId == Cardinality(Published) + 1
IsNotice(r) == outbox[r].about # 0

-----------------------------------------------------------------------------
(* publish: the event and its outbox row commit with the caller's writes.  *)
Publish ==
    /\ Cardinality({r \in Published : ~IsNotice(r)}) < MaxEvents
    /\ outbox' = [outbox EXCEPT ![NextId] = Fresh(0)]
    /\ UNCHANGED <<process, trx, handled, faults>>

(* engine.start subscribes before dispatcher.start opens the loop. *)
Subscribe(d) ==
    /\ process[d] = "down"
    /\ process' = [process EXCEPT ![d] = "subscribed"]
    /\ UNCHANGED <<outbox, trx, handled, faults>>

StartDispatcher(d) ==
    /\ process[d] = "subscribed"
    /\ process' = [process EXCEPT ![d] = "running"]
    /\ UNCHANGED <<outbox, trx, handled, faults>>

(* The handlers a delivery reaches: those subscribed in this process. *)
Subscribers(d) == IF process[d] = "down" THEN {} ELSE Subscriber

Locked(d) == UNION {trx[p].claimed : p \in Dispatcher \ {d}}

(* Mutant: the claim never returns to a failed row. *)
ReadyOnce(d) ==
    {r \in Row : /\ outbox[r].status = "pending"
                 /\ outbox[r].attempts = 0
                 /\ r \notin Locked(d)}

Ready(d) ==
    {r \in Row : /\ outbox[r].status = "pending"
                 /\ outbox[r].ripe
                 /\ r \notin Locked(d)}

(* The claim of dispatchBatch: the first BatchSize ready rows, by id. *)
ClaimBatch(d) ==
    /\ process[d] = "running"
    /\ trx[d] = NoTrx
    /\ \E S \in SUBSET Ready(d) :
          /\ S # {}
          /\ Cardinality(S) <= BatchSize
          /\ Cardinality(S) = BatchSize \/ S = Ready(d)
          /\ \A r \in S, q \in Ready(d) \ S : r < q
          /\ trx' = [trx EXCEPT ![d].claimed = S]
    /\ UNCHANGED <<outbox, process, handled, faults>>

Undelivered(d) == trx[d].claimed \ (trx[d].ok \cup trx[d].failed)

(* Mutant: a rejection is logged and forgotten. *)
FailsNever(d, rejecting) == FALSE

Fails(d, rejecting) == rejecting # {}

(* deliver: every subscriber is called and all are awaited; one rejection  *)
(* is enough to fail the row, whatever the others completed.               *)
Deliver(d, r, rejecting) ==
    /\ r \in Undelivered(d)
    /\ \A q \in Undelivered(d) : r <= q
    /\ rejecting \subseteq Subscribers(d)
    /\ handled' = handled \cup ((Subscribers(d) \ rejecting) \X {r})
    /\ trx' = IF Fails(d, rejecting) THEN [trx EXCEPT ![d].failed = @ \cup {r}]
                                     ELSE [trx EXCEPT ![d].ok = @ \cup {r}]
    /\ UNCHANGED <<outbox, process, faults>>

Exhausted(d) == {r \in trx[d].failed : outbox[r].attempts + 1 >= MaxAttempts}

(* Mutant: a dead notice spawns another notice. *)
NotifyAlways(d) == Exhausted(d)

(* Rows whose dead-lettering publishes a notice: never a notice's own. *)
ToNotify(d) == {r \in Exhausted(d) : ~IsNotice(r)}

(* Mutant: the notices of one batch share an id. *)
NoticeIdShared(d, r) == NextId

NoticeId(d, r) == NextId + Cardinality({q \in ToNotify(d) : q < r})

Settled(d, r) ==
    IF r \in trx[d].ok THEN [outbox[r] EXCEPT !.status = "dispatched"]
    ELSE IF r \in Exhausted(d)
         THEN [outbox[r] EXCEPT !.status = "dead_letter", !.attempts = @ + 1]
    ELSE IF r \in trx[d].failed
         THEN [outbox[r] EXCEPT !.attempts = @ + 1, !.ripe = FALSE]
    ELSE IF \E q \in ToNotify(d) : NoticeId(d, q) = r
         THEN Fresh(CHOOSE q \in ToNotify(d) : NoticeId(d, q) = r)
    ELSE outbox[r]

(* The batch transaction commits: every row settled, every notice with it. *)
CommitBatch(d) ==
    /\ trx[d] # NoTrx
    /\ Undelivered(d) = {}
    /\ outbox' = [r \in Row |-> Settled(d, r)]
    /\ trx' = [trx EXCEPT ![d] = NoTrx]
    /\ UNCHANGED <<process, handled, faults>>

(* A batch the database refuses is logged; the loop sleeps and goes on. *)
BatchFails(d) ==
    /\ faults < MaxFaults
    /\ trx[d] # NoTrx
    /\ trx' = [trx EXCEPT ![d] = NoTrx]
    /\ faults' = faults + 1
    /\ UNCHANGED <<outbox, process, handled>>

(* next_attempt_at passes. *)
BackoffElapses(r) ==
    /\ outbox[r].status = "pending"
    /\ ~outbox[r].ripe
    /\ outbox' = [outbox EXCEPT ![r].ripe = TRUE]
    /\ UNCHANGED <<process, trx, handled, faults>>

(* stop(): no new batch; the process goes once the batch in flight ends. *)
Stop(d) ==
    /\ process[d] = "running"
    /\ faults < MaxFaults
    /\ process' = [process EXCEPT ![d] = "stopping"]
    /\ faults' = faults + 1
    /\ UNCHANGED <<outbox, trx, handled>>

Stopped(d) ==
    /\ process[d] = "stopping"
    /\ trx[d] = NoTrx
    /\ process' = [process EXCEPT ![d] = "down"]
    /\ UNCHANGED <<outbox, trx, handled, faults>>

(* The process dies: Postgres rolls its transaction back and unlocks. *)
Crash(d) ==
    /\ faults < MaxFaults
    /\ process[d] # "down"
    /\ process' = [process EXCEPT ![d] = "down"]
    /\ trx' = [trx EXCEPT ![d] = NoTrx]
    /\ faults' = faults + 1
    /\ UNCHANGED <<outbox, handled>>

DeliverAny(d) ==
    \E r \in Row : \E rejecting \in SUBSET Subscriber : Deliver(d, r, rejecting)

Next ==
    \/ Publish
    \/ \E r \in Row : BackoffElapses(r)
    \/ \E d \in Dispatcher :
          \/ Subscribe(d) \/ StartDispatcher(d)
          \/ ClaimBatch(d) \/ DeliverAny(d) \/ CommitBatch(d)
          \/ BatchFails(d) \/ Stop(d) \/ Stopped(d) \/ Crash(d)

(* run() loops while the process lives and the supervisor restarts it; the *)
(* clock moves.  Nothing obliges producers to publish or processes to die. *)
Fairness ==
    /\ \A r \in Row : WF_vars(BackoffElapses(r))
    /\ \A d \in Dispatcher :
          /\ WF_vars(Subscribe(d)) /\ WF_vars(StartDispatcher(d))
          /\ WF_vars(ClaimBatch(d)) /\ WF_vars(DeliverAny(d))
          /\ WF_vars(CommitBatch(d)) /\ WF_vars(Stopped(d))

Spec == Init /\ [][Next]_vars
FairSpec == Spec /\ Fairness

-----------------------------------------------------------------------------
(* No row is marked dispatched unless every subscriber completed it, in    *)
(* whichever process and attempt that was: what main.ts starts the engine  *)
(* before the dispatcher for.                                              *)
DispatchedWasHandled ==
    \A r \in Row : outbox[r].status = "dispatched" =>
        \A s \in Subscriber : <<s, r>> \in handled

(* SKIP LOCKED: two dispatchers never deliver the same row at once, and a  *)
(* row in somebody's batch is still pending, so its attempts are current.  *)
ClaimsExclusive ==
    \A d \in Dispatcher : \A r \in trx[d].claimed :
        /\ outbox[r].status = "pending"
        /\ \A e \in Dispatcher \ {d} : r \notin trx[e].claimed

(* A row goes to the dead letters at its MaxAttempts-th committed failure, *)
(* not before and not after, and if it was a domain event it has exactly   *)
(* one notice; a row still alive has none, nor has a notice.               *)
DeadLettersNoticed ==
    \A r \in Published :
        LET notices == {n \in Published : outbox[n].about = r}
        IN /\ outbox[r].status = "dead_letter" <=> outbox[r].attempts = MaxAttempts
           /\ Cardinality(notices) =
                IF outbox[r].status = "dead_letter" /\ ~IsNotice(r) THEN 1 ELSE 0

(* Every published event is eventually delivered or dead-lettered, however *)
(* many rows fail ahead of it in the queue.                                *)
EveryEventSettles ==
    \A r \in Row : (outbox[r].status = "pending") ~>
                      (outbox[r].status \in {"dispatched", "dead_letter"})

(* The dispatchers implement what EventDelivery promises. *)
Fate(r) ==
    CASE outbox[r].status = "absent" -> "unpublished"
      [] outbox[r].status = "pending" -> "pending"
      [] outbox[r].status = "dispatched" -> "delivered"
      [] outbox[r].status = "dead_letter" -> "dead"

Delivery == INSTANCE EventDelivery
                WITH fate <- [r \in Row |-> Fate(r)],
                     about <- [r \in Row |-> outbox[r].about]

ImplementsDelivery == Delivery!AbsSpec
=============================================================================
