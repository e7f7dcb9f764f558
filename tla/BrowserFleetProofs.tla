------------------------- MODULE BrowserFleetProofs -------------------------
(***************************************************************************)
(* What TLAPS proves of BrowserFleet, for any sessions, profiles, accounts *)
(* and workers, any limits and any number of faults.                       *)
(*                                                                         *)
(* The invariant follows a session through its five places: its row, the   *)
(* lease of its profile, the pod and the browser of the row's worker, the  *)
(* calls under way to it and the visit the controller is in.  They agree   *)
(* on whose session it is, and the lease is the last to go.                *)
(***************************************************************************)
EXTENDS BrowserFleet, SequenceTheorems, WellFoundedInduction, TLAPS

(* A row that holds a session owns it alone, until the session has ended. *)
RowsInv ==
    /\ \A w \in Worker : row[w].status \in {"warm", "dead"} => ~Bound(w)
    /\ \A w \in Worker : row[w].status = "allocated" => Bound(w) /\ session[Of(w)] \in Allocated
    /\ \A w \in Worker : row[w].status = "draining" /\ Bound(w) => session[Of(w)] = "ended"
    /\ \A v, w \in Worker : Bound(w) /\ Of(v) = Of(w) => v = w

(* Allocated sessions and leased profiles are the same thing, and each has *)
(* a row.                                                                  *)
CustodyInv ==
    /\ \A p \in Profile : custody[p] # NoSession =>
         ProfileOf[custody[p]] = p /\ session[custody[p]] \in Allocated
    /\ \A s \in Session : session[s] \in Allocated =>
         custody[ProfileOf[s]] = s /\ \E w \in Worker : Of(w) = s

(* Only a pod that runs holds anything, and never for another session than *)
(* its row's.                                                              *)
BrowserFits(w) ==
    /\ ~Live(w) => pod[w] \in {"unmade", "terminating", "gone"}
    /\ pod[w] \notin {"ready", "terminating"} => browser[w] = CleanBrowser
    /\ browser[w].state = "clean" => browser[w] = CleanBrowser
    /\ browser[w].session \in {NoSession, Of(w)}
    /\ browser[w].state = "open" =>
         Bound(w) /\ browser[w].session = Of(w) /\ session[Of(w)] \in Allocated
    /\ browser[w].basis = "stale" =>
         browser[w].session # NoSession /\ session[browser[w].session] \notin Allocated

BrowsersInv == \A w \in Worker : BrowserFits(w)

(* A call under way concerns the session of the row, and its pod runs.     *)
CallsInv ==
    \A c \in calls :
      /\ Of(c.worker) = c.session
      /\ pod[c.worker] \in {"ready", "terminating"}
      /\ c.op = "start" /\ browser[c.worker].state = "clean" => session[c.session] \in Allocated
      /\ c.basis = "stale" => session[c.session] \notin Allocated

(* The visit is to a row in use; what is to be published was closed, or is *)
(* gone with its pod.                                                      *)
TickInv ==
    /\ tick.pc = "failed" => tick.at \in Worker
    /\ tick.pc \in {"starting", "started", "stopping", "stopped"} =>
         tick.at \in Worker /\ row[tick.at].status = "allocated"
    /\ tick.pc \in {"stopping", "stopped"} => session[Of(tick.at)] = "stopping"
    /\ tick.pc = "stopped" => browser[tick.at].state = "closed" \/ pod[tick.at] \in {"failed", "gone"}

FleetInv ==
    TypeOK /\ RowsInv /\ CustodyInv /\ BrowsersInv /\ CallsInv /\ TickInv

-----------------------------------------------------------------------------
(* A set of positions has a least one ... *)
LEMMA LeastIndex ==
  ASSUME NEW I, NEW n \in Nat, I \subseteq 1 .. n, I # {}
  PROVE  Min(I) \in I
<1> DEFINE Less == {ss \in Nat \X Nat : ss[1] < ss[2]}
<1>1. IsWellFoundedOn(Less, Nat)
  BY ONLY NatLessThanWellFounded, Zenon DEF OpToRel
<1>2. PICK i \in I : \A j \in I : ~(<<j, i>> \in Less)
  <2>1. I \subseteq Nat
    OBVIOUS
  <2> HIDE DEF Less
  <2> QED BY <1>1, <2>1, WFMin
<1>3. ASSUME NEW j \in I PROVE i <= j
  <2>1. i \in Nat /\ j \in Nat /\ (j < i => <<j, i>> \in Less)
    OBVIOUS
  <2> HIDE DEF Less
  <2> QED BY <1>2, <2>1
<1> QED BY <1>3 DEF Min

(* ... so the library removes a session from the queue. *)
LEMMA RemoveFirstTyped ==
  ASSUME NEW S, NEW s \in Seq(S), NEW e
  PROVE  RemoveFirst(s, e) \in Seq(S)
<1> DEFINE I == {i \in 1 .. Len(s) : s[i] = e}
<1>1. CASE I = {}
  BY <1>1 DEF RemoveFirst
<1>2. CASE I # {}
  <2>1. Min(I) \in 1 .. Len(s)
    <3>1. Len(s) \in Nat /\ I \subseteq 1 .. Len(s)
      OBVIOUS
    <3> QED BY <3>1, <1>2, LeastIndex
  <2>2. RemoveFirst(s, e) = RemoveAt(s, Min(I))
    BY <1>2 DEF RemoveFirst, SelectInSeq
  <2> HIDE DEF I
  <2> QED BY <2>1, <2>2 DEF RemoveAt
<1> QED BY <1>1, <1>2

-----------------------------------------------------------------------------
(* Types.                                                                  *)

(* The queue before and after it is left or joined. *)
LEMMA QueueTyped ==
    ASSUME TypeOK, NEW s \in Session
    PROVE  /\ Without(s) \in Seq(Session)
           /\ Append(queue, s) \in Seq(Session)
BY RemoveFirstTyped DEF TypeOK, Without

(* What new rows, pods and ticks begin with. *)
LEMMA RowsTyped ==
    /\ NewRow \in Row /\ DeadRow \in Row /\ CleanBrowser \in Browser /\ AtRest \in Tick
    /\ \A w \in Worker : Of(w) = row[w].session
BY DEF NewRow, DeadRow, Row, CleanBrowser, Browser, AtRest, Tick, Of

(* The visit ends ... *)
LEMMA VisitTyped ==
    ASSUME TypeOK, NEW w \in Worker, Visited(w)
    PROVE  tick' \in Tick /\ tick'.pc = "visiting"
BY DEF TypeOK, Visited, Tick

(* ... or fails. *)
LEMMA FailTyped ==
    ASSUME TypeOK, NEW w \in Worker, Fails(w)
    PROVE  tick' \in Tick /\ tick'.pc = "failed" /\ tick'.at = w
BY DEF TypeOK, Fails, Tick

(* Faults are counted. *)
LEMMA FaultTyped ==
    ASSUME TypeOK, Fault \/ UNCHANGED faults
    PROVE  faults' \in 0 .. MaxFaults
BY FleetAssumption DEF TypeOK, Fault

(* A profile changes. *)
LEMMA OutdatedTyped ==
    ASSUME TypeOK, NEW p \in Profile, Outdated(p)
    PROVE  browser' \in [Worker -> Browser] /\ calls' \subseteq Call
<1>1. browser' \in [Worker -> Browser]
  <2>1. ASSUME NEW w \in Worker
        PROVE  browser[w] \in Browser /\ [browser[w] EXCEPT !.basis = "stale"] \in Browser
    <3>1. browser[w] \in Browser
      BY DEF TypeOK
    <3> QED BY <3>1 DEF Browser
  <2> QED BY <2>1 DEF Outdated
<1>2. ASSUME NEW c \in calls
      PROVE  (IF ProfileOf[c.session] = p THEN [c EXCEPT !.basis = "stale"] ELSE c) \in Call
  <2>1. c \in Call
    BY DEF TypeOK
  <2> QED BY <2>1 DEF Call
<1> QED BY <1>1, <1>2 DEF Outdated

(* A session ends. *)
LEMMA EndTyped ==
    ASSUME TypeOK, NEW s, EndSession(s)
    PROVE  /\ session' \in [Session -> {"none", "queued", "ended"} \cup Allocated]
           /\ queue' \in Seq(Session) /\ delayed' \subseteq Session
           /\ custody' \in [Profile -> Session \cup {NoSession}]
BY DEF TypeOK, EndSession

(* Every visit to a worker. *)
LEMMA VisitStepTyped ==
    ASSUME FleetInv, NEW w \in Worker, VisitStep(w)
    PROVE  TypeOK'
<1> USE DEF FleetInv
<1>1. CASE CreatePod(w)
  BY <1>1, VisitTyped, RowsTyped DEF CreatePod, TypeOK, queueVars
<1>2. CASE NoPodYet(w)
  BY <1>2, VisitTyped, FaultTyped DEF NoPodYet, TypeOK, queueVars, podVars
<1>3. CASE Retire(w)
  BY <1>3, VisitTyped, RowsTyped DEF Retire, TypeOK, queueVars
<1>4. CASE Bury(w)
  <2>1. \/ EndSession(Of(w))
        \/ UNCHANGED queueVars
    BY <1>4 DEF Bury, EndBound
  <2>2. /\ session' \in [Session -> {"none", "queued", "ended"} \cup Allocated]
        /\ queue' \in Seq(Session) /\ delayed' \subseteq Session
        /\ custody' \in [Profile -> Session \cup {NoSession}]
    BY <2>1, EndTyped DEF TypeOK, queueVars
  <2> QED BY <1>4, <2>2, VisitTyped, RowsTyped DEF Bury, TypeOK
<1>5. CASE BuryHalf(w)
  <2>1. EndSession(Of(w)) /\ Visited(w) /\ Fault
        /\ row' = [row EXCEPT ![w].status = "draining"]
        /\ UNCHANGED podVars
    BY <1>5 DEF BuryHalf
  <2> QED BY <2>1, EndTyped, VisitTyped, FaultTyped DEF TypeOK, podVars, Row
<1>6. CASE StillStarting(w)
  <2>1. row' \in [Worker -> Row]
    <3>1. row[w] \in Row /\ row' = [row EXCEPT ![w].silent = TRUE]
      BY <1>6 DEF StillStarting, TypeOK
    <3>2. [row[w] EXCEPT !.silent = TRUE] \in Row
      BY <3>1 DEF Row
    <3> QED BY <3>1, <3>2 DEF TypeOK
  <2> QED BY <1>6, <2>1, VisitTyped DEF StillStarting, TypeOK, queueVars
<1>7. CASE Attend(w)
  BY <1>7, VisitTyped DEF Attend, TypeOK, queueVars, podVars, Row
<1>8. ASSUME NEW op \in {"start", "stop"}, NEW pc \in {"starting", "stopping"},
             Bound(w), Send(w, op, pc)
      PROVE  TypeOK'
  <2>1. [op |-> op, worker |-> w, session |-> Of(w), basis |-> "current"] \in Call
    BY <1>8 DEF TypeOK, Call, Bound, Of, Row
  <2>2. calls' \subseteq Call
    BY <1>8, <2>1 DEF Send, TypeOK
  <2>3. tick' \in Tick
    BY <1>8 DEF Send, TypeOK, Tick
  <2> QED BY <1>8, <2>2, <2>3 DEF Send, TypeOK, queueVars
<1>9. CASE VisitFails(w)
  BY <1>9, FailTyped, FaultTyped DEF VisitFails, TypeOK, queueVars, podVars
<1> QED
  BY <1>1, <1>2, <1>3, <1>4, <1>5, <1>6, <1>7, <1>8, <1>9 DEF VisitStep, SendStart, SendStop

(* Every step of the controller. *)
LEMMA TickStepTyped ==
    ASSUME FleetInv, TickStep
    PROVE  TypeOK'
<1> USE DEF FleetInv
<1>1. CASE BeginTick
  BY <1>1 DEF BeginTick, TypeOK, queueVars, podVars, AtRest, Tick
<1>2. CASE \E w \in Worker : VisitStep(w)
  BY <1>2, VisitStepTyped
<1>3. CASE Abandon
  BY <1>3, FailTyped, FaultTyped DEF Abandon, TickInv, TypeOK, queueVars, podVars
<1>4. CASE FailedVisit
  BY <1>4, VisitTyped DEF FailedVisit, TickInv, TypeOK, queueVars, podVars, Row
<1>5. CASE DeleteSilentPod
  BY <1>5, VisitTyped DEF DeleteSilentPod, TickInv, TypeOK, queueVars
<1>6. CASE Fulfil
  <2>1. tick.at \in Worker /\ tick' \in Tick
    BY <1>6, VisitTyped DEF Fulfil, TickInv
  <2>2. row' \in [Worker -> Row]
    BY <1>6 DEF Fulfil, TypeOK, Row
  <2> QED BY <1>6, <2>1, <2>2 DEF Fulfil, TypeOK, podVars, Allocated
<1>7. CASE FulfilTooLate
  BY <1>7, FailTyped DEF FulfilTooLate, TickInv, TypeOK, queueVars, podVars
<1>8. CASE PullRecording
  <2>1. tick.at \in Worker /\ browser' = [browser EXCEPT ![tick.at].lag = FALSE]
    BY <1>8 DEF PullRecording, TickInv
  <2>2. [browser[tick.at] EXCEPT !.lag = FALSE] \in Browser
    <3>1. browser[tick.at] \in Browser
      BY <2>1 DEF TypeOK
    <3> QED BY <3>1 DEF Browser
  <2>3. browser' \in [Worker -> Browser]
    BY <2>1, <2>2 DEF TypeOK
  <2> QED BY <1>8, <2>1, <2>3, VisitTyped DEF PullRecording, TypeOK, queueVars
<1>9. CASE Publish
  <2>1. tick.at \in Worker /\ Of(tick.at) \in Session
    BY <1>9 DEF Publish, TickInv, RowsInv, TypeOK, Row, Bound, Of
  <2>2. ProfileOf[Of(tick.at)] \in Profile
    BY <2>1, FleetAssumption
  <2>3. browser' \in [Worker -> Browser] /\ calls' \subseteq Call
    BY <1>9, <2>2, OutdatedTyped DEF Publish
  <2>4. row' \in [Worker -> Row]
    BY <1>9 DEF Publish, TypeOK, Row
  <2> QED BY <1>9, <2>1, <2>3, <2>4, EndTyped, VisitTyped DEF Publish, TypeOK
<1>10. ASSUME NEW s \in Session, Delay(s) PROVE TypeOK'
  BY <1>10, FaultTyped DEF Delay, TypeOK, podVars, Tick
<1>11. ASSUME NEW s \in Session, NEW w \in Worker, Bind(s, w) PROVE TypeOK'
  <2>1. queue' \in Seq(Session)
    BY <1>11, QueueTyped DEF Bind
  <2>2. tick' \in Tick
    <3>1. tick.bound + 1 \in Nat
      BY DEF TypeOK, Tick
    <3>2. tick' = [tick EXCEPT !.bound = tick.bound + 1]
      BY <1>11 DEF Bind
    <3> QED BY <3>1, <3>2 DEF TypeOK, Tick
  <2>3. row' \in [Worker -> Row]
    BY <1>11 DEF Bind, TypeOK, Row
  <2> QED BY <1>11, <2>1, <2>2, <2>3 DEF Bind, TypeOK, podVars, Allocated
<1>12. CASE Resize
  <2>1. tick' \in Tick
    BY <1>12, RowsTyped DEF Resize
  <2>2. row' \in [Worker -> Row] /\ pod' \in [Worker -> {"unmade", "starting", "ready", "failed", "terminating", "gone"}]
    <3>1. PICK out \in SUBSET Warm, in \in SUBSET Unused :
          /\ row' = [w \in Worker |->
                       IF w \in out THEN [row[w] EXCEPT !.status = "draining"]
                       ELSE IF w \in in THEN NewRow ELSE row[w]]
          /\ pod' = [w \in Worker |-> IF w \in in THEN "unmade" ELSE pod[w]]
      BY <1>12 DEF Resize
    <3> QED BY <3>1, RowsTyped DEF TypeOK, Row
  <2> QED BY <1>12, <2>1, <2>2 DEF Resize, TypeOK, queueVars
<1> QED
  BY <1>1, <1>2, <1>3, <1>4, <1>5, <1>6, <1>7, <1>8, <1>9, <1>10, <1>11, <1>12 DEF TickStep

(* An answer. *)
LEMMA CallTyped ==
    ASSUME FleetInv, NEW c \in calls, NEW ok, Answer(c, ok)
    PROVE  /\ tick' \in Tick
           /\ calls' \subseteq Call /\ queue' = queue
BY DEF FleetInv, Answer, TypeOK, Tick, queueVars

(* Every answer of a worker. *)
LEMMA WorkerTyped ==
    ASSUME FleetInv, NEW c \in calls, Answers(c.worker),
           Launch(c) \/ LaunchFails(c) \/ LaunchedBefore(c) \/ Close(c) \/ NotOpen(c)
    PROVE  TypeOK'
<1> USE DEF FleetInv
<1>1. PICK ok : Answer(c, ok)
  BY DEF Launch, LaunchFails, LaunchedBefore, Close, NotOpen
<1>2. tick' \in Tick /\ calls' \subseteq Call
  BY <1>1, CallTyped
<1>3. UNCHANGED <<queueVars, row, pod>>
  BY <1>1 DEF Answer
<1>4. c \in Call
  BY DEF TypeOK
<1>5. browser' \in [Worker -> Browser]
  <2>1. c.session \in Session /\ c.basis \in {"current", "stale"} /\ browser \in [Worker -> Browser]
    BY <1>4 DEF TypeOK, Call
  <2>2. CASE Launch(c)
    <3>1. [state |-> "open", session |-> c.session, basis |-> c.basis, lag |-> FALSE] \in Browser
      BY <2>1 DEF Browser
    <3> QED BY <2>1, <2>2, <3>1 DEF Launch
  <2>3. CASE LaunchFails(c)
    <3>1. browser' = [browser EXCEPT ![c.worker].state = "spent"] /\ c.worker \in Worker
      BY <1>4, <2>3 DEF LaunchFails, Call
    <3>2. [browser[c.worker] EXCEPT !.state = "spent"] \in Browser
      BY <2>1, <3>1 DEF Browser
    <3> QED BY <2>1, <3>1, <3>2
  <2>5. CASE Close(c)
    <3>1. PICK lag \in BOOLEAN :
            browser' = [browser EXCEPT ![c.worker].state = "closed", ![c.worker].lag = lag]
      BY <2>5 DEF Close
    <3> QED BY <2>1, <3>1 DEF Browser
  <2>4. CASE LaunchedBefore(c) \/ NotOpen(c)
    BY <2>1, <2>4 DEF LaunchedBefore, NotOpen
  <2> QED BY <2>2, <2>3, <2>4, <2>5
<1>6. faults' \in 0 .. MaxFaults
  BY FaultTyped DEF Launch, LaunchFails, LaunchedBefore, Close, NotOpen
<1> QED BY <1>2, <1>3, <1>5, <1>6 DEF TypeOK, queueVars

(* Every step. *)
LEMMA StepTyped ==
    ASSUME FleetInv, [Next]_vars
    PROVE  TypeOK'
<1> USE DEF FleetInv
<1>1. CASE TickStep
  BY <1>1, TickStepTyped
<1>2. CASE ControllerDies
  BY <1>2, FaultTyped, RowsTyped DEF ControllerDies, TypeOK, queueVars, podVars
<1>3. CASE WorkerServes
  BY <1>3, WorkerTyped DEF WorkerServes
<1>4. ASSUME NEW w \in Worker, PodStarts(w) PROVE TypeOK'
  BY <1>4 DEF PodStarts, TypeOK, queueVars
<1>5. ASSUME NEW w \in Worker, NEW state \in {"failed", "gone"}, PodEnds(w, state),
             Fault \/ UNCHANGED faults
      PROVE  TypeOK'
  BY <1>5, RowsTyped, FaultTyped DEF PodEnds, TypeOK, queueVars
<1>6. ASSUME NEW s \in Session, Request(s) PROVE TypeOK'
  BY <1>6, QueueTyped DEF Request, TypeOK, podVars
<1>7. ASSUME NEW s \in Session, Stop(s) PROVE TypeOK'
  BY <1>7, QueueTyped DEF Stop, TypeOK, podVars, Allocated
<1>8. ASSUME NEW s \in Session, DelayPasses(s) PROVE TypeOK'
  BY <1>8 DEF DelayPasses, TypeOK, podVars
<1>9. ASSUME NEW p \in Profile, Import(p) PROVE TypeOK'
  BY <1>9, OutdatedTyped DEF Import, TypeOK, queueVars
<1>10. CASE UNCHANGED vars
  BY <1>10 DEF vars, TypeOK, queueVars, podVars
<1> QED
  BY <1>1, <1>2, <1>3, <1>4, <1>5, <1>6, <1>7, <1>8, <1>9, <1>10
  DEF Next, Cluster, PodDeleted, PodLost

-----------------------------------------------------------------------------
Owned == RowsInv /\ CustodyInv /\ BrowsersInv /\ CallsInv

(* The parts of the types the proofs use. *)
LEMMA Typed ==
    ASSUME TypeOK
    PROVE  /\ \A w \in Worker :
                /\ row[w].status \in {"warm", "allocated", "draining", "dead"}
                /\ Of(w) \in Session \cup {NoSession}
                /\ Of(w) = row[w].session
                /\ browser[w].state \in {"clean", "open", "closed", "spent"}
                /\ browser[w].session \in Session \cup {NoSession}
                /\ browser[w].basis \in {"current", "stale"}
                /\ pod[w] \in {"unmade", "starting", "ready", "failed", "terminating", "gone"}
           /\ \A c \in calls : /\ c.op \in {"start", "stop"} /\ c.worker \in Worker
                               /\ c.session \in Session /\ c.basis \in {"current", "stale"}
           /\ \A p \in Profile : custody[p] \in Session \cup {NoSession}
           /\ \A s \in Session : ProfileOf[s] \in Profile /\ s # NoSession
           /\ CleanBrowser.state = "clean" /\ CleanBrowser.session = NoSession
           /\ CleanBrowser.basis = "current"
           /\ DeadRow.status = "dead" /\ DeadRow.session = NoSession
           /\ NewRow.status = "warm" /\ NewRow.session = NoSession
BY FleetAssumption DEF TypeOK, Row, Browser, Call, Of, CleanBrowser, DeadRow, NewRow

RowsKept ==
    \A w \in Worker : row'[w].status = row[w].status /\ row'[w].session = row[w].session

PodsKept ==
    \A w \in Worker :
      \/ pod'[w] = pod[w]
      \/ pod[w] \notin {"unmade", "gone"} /\ pod'[w] = "terminating"
      \/ pod[w] = "starting" /\ pod'[w] = "ready"

(* Nobody's place changes but a session that stays allocated or is not. *)
SessionsKept ==
    \A s \in Session :
      /\ (session'[s] \in Allocated) <=> (session[s] \in Allocated)
      /\ session[s] = "ended" /\ (\E w \in Worker : Of(w) = s) => session'[s] = "ended"

(* Such steps disturb no place. *)
LEMMA StillOwned ==
    ASSUME FleetInv, RowsKept, PodsKept, SessionsKept, UNCHANGED <<custody, browser, calls>>
    PROVE  Owned'
<1> USE DEF FleetInv
<1>1. \A w \in Worker : Of(w)' = Of(w) /\ (Bound(w)' <=> Bound(w)) /\ (Live(w)' <=> Live(w))
  BY DEF RowsKept, Of, Bound, Live
<1>2. RowsInv'
  BY <1>1, Typed DEF RowsInv, RowsKept, SessionsKept, Bound
<1>3. CustodyInv'
  BY <1>1, Typed DEF CustodyInv, SessionsKept
<1>4. BrowsersInv'
  <2> SUFFICES ASSUME NEW w \in Worker PROVE BrowserFits(w)'
    BY DEF BrowsersInv
  <2>1. /\ ~Live(w)' => pod'[w] \in {"unmade", "terminating", "gone"}
        /\ pod'[w] \notin {"ready", "terminating"} => browser'[w] = CleanBrowser
    BY <1>1, Typed DEF BrowsersInv, BrowserFits, PodsKept
  <2>2. BrowserFits(w) /\ browser'[w] = browser[w]
    BY DEF BrowsersInv
  <2>3. /\ browser[w].state = "clean" => browser[w] = CleanBrowser
        /\ browser[w].session \in {NoSession, Of(w)}
        /\ browser[w].state = "open" => Bound(w) /\ browser[w].session = Of(w)
    BY <2>2 DEF BrowserFits
  <2>4. browser[w].state = "open" => session'[Of(w)] \in Allocated
    BY <2>2, Typed DEF BrowserFits, SessionsKept, Bound
  <2>5. browser[w].basis = "stale" =>
           browser[w].session # NoSession /\ session'[browser[w].session] \notin Allocated
    BY <2>2, Typed DEF BrowserFits, SessionsKept
  <2> QED BY <1>1, <2>1, <2>2, <2>3, <2>4, <2>5 DEF BrowserFits, CleanBrowser
<1>5. CallsInv'
  BY <1>1, Typed DEF CallsInv, PodsKept, SessionsKept
<1> QED BY <1>2, <1>3, <1>4, <1>5 DEF Owned

(* A visit that ends or fails needs no more. *)
LEMMA TickMoves ==
    ASSUME \/ tick'.pc \in {"idle", "visiting", "sizing"}
           \/ tick'.pc = "failed" /\ tick'.at \in Worker
    PROVE  TickInv'
BY DEF TickInv

(* A step of anybody else finds the controller in the visit it was in. *)
LEMMA TickStays ==
    ASSUME FleetInv, UNCHANGED <<tick, row>>,
           \A s \in Session : session[s] = "stopping" => session'[s] = "stopping",
           \A w \in Worker : browser[w].state = "closed" \/ pod[w] \in {"failed", "gone"} =>
                               browser'[w].state = "closed" \/ pod'[w] \in {"failed", "gone"}
    PROVE  TickInv'
<1> USE DEF FleetInv
<1>1. ASSUME tick.pc \in {"stopping", "stopped"}
      PROVE  tick.at \in Worker /\ Of(tick.at) \in Session /\ Of(tick.at)' = Of(tick.at)
  BY <1>1, Typed DEF TickInv, RowsInv, Bound, Of
<1> QED BY <1>1 DEF TickInv

(* Steps that concern the visit only. *)
LEMMA VisitOnly ==
    ASSUME FleetInv,
           RowsKept, PodsKept, UNCHANGED <<session, custody, browser, calls>>,
           \/ tick'.pc \in {"idle", "visiting", "sizing"}
           \/ tick'.pc = "failed" /\ tick'.at \in Worker
    PROVE  Owned' /\ TickInv'
<1>1. SessionsKept
  BY DEF SessionsKept
<1> QED BY <1>1, StillOwned, TickMoves

-----------------------------------------------------------------------------
(* Nobody's row names a session that waits or was never asked for. *)
LEMMA WaitingIsNowhere ==
    ASSUME FleetInv, NEW s \in Session, session[s] \in {"none", "queued"}
    PROVE  /\ \A w \in Worker : Of(w) # s /\ browser[w].session # s
           /\ \A c \in calls : c.session # s
<1> USE DEF FleetInv
<1>1. \A w \in Worker : Of(w) # s
  BY Typed DEF RowsInv, Bound, Allocated
<1>2. \A w \in Worker : browser[w].session # s
  BY <1>1, Typed DEF BrowsersInv, BrowserFits
<1>3. \A c \in calls : c.session # s
  BY <1>1, Typed DEF CallsInv
<1> QED BY <1>1, <1>2, <1>3

(* A pod that does not run holds nothing, and no call goes to it. *)
LEMMA NothingRuns ==
    ASSUME FleetInv, NEW w \in Worker, pod[w] \notin {"ready", "terminating"}
    PROVE  browser[w] = CleanBrowser /\ \A c \in calls : c.worker # w
BY DEF FleetInv, BrowsersInv, BrowserFits, CallsInv

(* A session asks again only once no row names it. *)
LEMMA RequestOwned ==
    ASSUME FleetInv, NEW s \in Session, Request(s)
    PROVE  Owned' /\ TickInv'
<1> USE DEF FleetInv
<1>1. \A w \in Worker : Of(w) # s
  BY Typed DEF Request, RowsInv, Live, Bound
<1>2. SessionsKept
  BY <1>1 DEF Request, SessionsKept, TypeOK, Allocated
<1>3. RowsKept /\ PodsKept /\ UNCHANGED <<custody, browser, calls, row, tick, pod>>
  BY DEF Request, RowsKept, PodsKept, podVars
<1>4. \A t \in Session : session[t] = "stopping" => session'[t] = "stopping"
  BY DEF Request, TypeOK
<1> QED BY <1>2, <1>3, <1>4, StillOwned, TickStays

(* A session is stopped. *)
LEMMA StopOwned ==
    ASSUME FleetInv, NEW s \in Session, Stop(s)
    PROVE  Owned' /\ TickInv'
<1> USE DEF FleetInv
<1>1. SessionsKept
  BY DEF Stop, SessionsKept, TypeOK, Allocated
<1>2. RowsKept /\ PodsKept /\ UNCHANGED <<custody, browser, calls, row, tick, pod>>
  BY DEF Stop, RowsKept, PodsKept, podVars
<1>3. \A t \in Session : session[t] = "stopping" => session'[t] = "stopping"
  BY DEF Stop, TypeOK
<1> QED BY <1>1, <1>2, <1>3, StillOwned, TickStays

(* What was changed in a profile concerns sessions that are over. *)
LEMMA ImportOwned ==
    ASSUME FleetInv, NEW p \in Profile, Import(p)
    PROVE  Owned' /\ TickInv'
<1> USE DEF FleetInv
<1>1. \A s \in Session : ProfileOf[s] = p => session[s] \notin Allocated
  BY Typed DEF Import, CustodyInv
<1>2. \A w \in Worker :
        /\ browser'[w].state = browser[w].state /\ browser'[w].session = browser[w].session
        /\ \/ browser'[w] = browser[w]
           \/ browser[w].session # NoSession /\ session[browser[w].session] \notin Allocated
  BY <1>1, Typed DEF Import, Outdated, TypeOK, Browser
<1>3. \A c \in calls' :
        \E d \in calls :
          /\ c.op = d.op /\ c.worker = d.worker /\ c.session = d.session
          /\ c.basis = d.basis \/ session[d.session] \notin Allocated
  <2>1. calls' = {IF ProfileOf[c.session] = p THEN [c EXCEPT !.basis = "stale"] ELSE c : c \in calls}
    BY DEF Import, Outdated
  <2>2. ASSUME NEW d \in calls
        PROVE  LET c == IF ProfileOf[d.session] = p THEN [d EXCEPT !.basis = "stale"] ELSE d
               IN  /\ c.op = d.op /\ c.worker = d.worker /\ c.session = d.session
                   /\ c.basis = d.basis \/ session[d.session] \notin Allocated
    <3>1. d \in Call
      BY DEF TypeOK
    <3> QED BY <1>1, <3>1 DEF Call
  <2> QED BY <2>1, <2>2
<1>4. UNCHANGED <<session, custody, row, pod, tick>>
  BY DEF Import, queueVars
<1>5. RowsInv' /\ CustodyInv'
  BY <1>4 DEF RowsInv, CustodyInv, Of, Bound
<1>6. BrowsersInv'
  <2> SUFFICES ASSUME NEW w \in Worker PROVE BrowserFits(w)'
    BY DEF BrowsersInv
  <2>1. BrowserFits(w)
    BY DEF BrowsersInv
  <2>2. browser[w] = CleanBrowser => browser'[w] = browser[w]
    BY <1>2, Typed
  <2>3. Of(w)' = Of(w) /\ (Bound(w)' <=> Bound(w)) /\ (Live(w)' <=> Live(w)) /\ CleanBrowser' = CleanBrowser
    BY <1>4 DEF Of, Bound, Live, CleanBrowser
  <2> QED BY <1>2, <1>4, <2>1, <2>2, <2>3, Typed DEF BrowserFits
<1>7. CallsInv'
  BY <1>2, <1>3, <1>4, Typed DEF CallsInv, Of
<1>8. TickInv'
  BY <1>2, <1>4, TickStays
<1> QED BY <1>5, <1>6, <1>7, <1>8 DEF Owned

-----------------------------------------------------------------------------
(* The controller: pods and rows that come and go.                         *)

(* A pod is made where nothing is left. *)
LEMMA CreateOwned ==
    ASSUME FleetInv, NEW w \in Worker, CreatePod(w)
    PROVE  Owned' /\ TickInv'
<1> USE DEF FleetInv
<1>1. row[w].status = "warm" /\ pod[w] \in {"unmade", "gone"}
  BY Typed DEF CreatePod, Unmade, Exists
<1>2. browser[w] = CleanBrowser /\ \A c \in calls : c.worker # w
  BY <1>1, NothingRuns
<1>3. UNCHANGED <<session, custody, row, calls>> /\ browser' = browser
  BY <1>2 DEF CreatePod, queueVars, TypeOK
<1>4. pod' = [pod EXCEPT ![w] = "starting"]
  BY DEF CreatePod
<1>5. RowsInv' /\ CustodyInv'
  BY <1>3 DEF RowsInv, CustodyInv, Of, Bound
<1>6. BrowsersInv'
  BY <1>1, <1>2, <1>3, <1>4 DEF BrowsersInv, BrowserFits, Of, Bound, Live, CleanBrowser, TypeOK
<1>7. CallsInv'
  BY <1>2, <1>3, <1>4, Typed DEF CallsInv, Of, TypeOK
<1>8. TickInv'
  BY VisitTyped, TickMoves DEF CreatePod
<1> QED BY <1>5, <1>6, <1>7, <1>8 DEF Owned

(* A row that says nothing more about anybody may go.                      *)
LEMMA GoneOwned ==
    ASSUME FleetInv, NEW w \in Worker,
           Bound(w) => session[Of(w)] = "ended",
           pod[w] \notin {"starting", "ready", "terminating"},
           row' = [row EXCEPT ![w] = DeadRow],
           \/ pod' = pod /\ ~Exists(w)
           \/ pod' = [pod EXCEPT ![w] = "terminating"],
           UNCHANGED <<session, custody, browser, calls>>
    PROVE  Owned'
<1> USE DEF FleetInv
<1>1. browser[w] = CleanBrowser /\ \A c \in calls : c.worker # w
  BY NothingRuns
<1>2. /\ Of(w)' = NoSession /\ row'[w].status = "dead"
      /\ \A v \in Worker \ {w} : row'[v] = row[v] /\ Of(v)' = Of(v) /\ pod'[v] = pod[v]
      /\ \A v \in Worker \ {w} : (Bound(v)' <=> Bound(v)) /\ (Live(v)' <=> Live(v))
  BY Typed DEF TypeOK, Of, Bound, Live
<1>3. RowsInv'
  BY <1>2, Typed DEF RowsInv, Bound
<1>4. CustodyInv'
  BY <1>2, Typed DEF CustodyInv, Bound, Allocated
<1>5. BrowsersInv'
  <2> SUFFICES ASSUME NEW v \in Worker PROVE BrowserFits(v)'
    BY DEF BrowsersInv
  <2>1. BrowserFits(v) /\ CleanBrowser' = CleanBrowser
    BY DEF BrowsersInv, CleanBrowser
  <2>2. CASE v = w
    <3>1. pod'[w] \in {"unmade", "terminating", "gone"}
      BY Typed DEF Exists, TypeOK
    <3> QED BY <1>1, <1>2, <2>1, <2>2, <3>1, Typed DEF BrowserFits
  <2>3. CASE v # w
    BY <1>2, <2>1, <2>3 DEF BrowserFits
  <2> QED BY <2>2, <2>3
<1>6. CallsInv'
  BY <1>1, <1>2, Typed DEF CallsInv
<1> QED BY <1>3, <1>4, <1>5, <1>6 DEF Owned

(* A row that is over goes after its pod. *)
LEMMA RetireOwned ==
    ASSUME FleetInv, NEW w \in Worker, Retire(w)
    PROVE  Owned' /\ TickInv'
<1> USE DEF FleetInv
<1>1. tick'.pc = "visiting" /\ UNCHANGED <<session, custody, browser, calls>>
  BY VisitTyped DEF Retire, queueVars
<1>2. CASE Exists(w)
  <2>1. RowsKept /\ PodsKept
    BY <1>2 DEF Retire, RowsKept, PodsKept, Exists, TypeOK
  <2> QED BY <1>1, <2>1, VisitOnly
<1>3. CASE ~Exists(w)
  <2>1. Bound(w) => session[Of(w)] = "ended"
    BY Typed DEF Retire, Over, RowsInv
  <2>2. row' = [row EXCEPT ![w] = DeadRow] /\ pod' = pod
    BY <1>3 DEF Retire
  <2>3. pod[w] \notin {"starting", "ready", "terminating"}
    BY <1>3 DEF Exists
  <2> QED BY <1>1, <1>3, <2>1, <2>2, <2>3, GoneOwned, TickMoves
<1> QED BY <1>2, <1>3

(* A session ends whose row's pod is no more.                              *)
LEMMA DeadHoldsNothing ==
    ASSUME FleetInv, NEW w \in Worker, Dead(w)
    PROVE  /\ pod[w] \in {"unmade", "failed", "gone"}
           /\ browser[w] = CleanBrowser /\ \A c \in calls : c.worker # w
           /\ Bound(w) => row[w].status = "allocated" /\ Of(w) \in Session
<1>1. pod[w] \in {"unmade", "failed", "gone"}
  BY DEF Dead, Exists
<1>2. Bound(w) => row[w].status = "allocated" /\ Of(w) \in Session
  BY Typed DEF FleetInv, Dead, InUse, RowsInv, Bound
<1> QED BY <1>1, <1>2, NothingRuns

(* The session of row w is over, and nobody else's.                        *)
LEMMA EndedOwned ==
    ASSUME FleetInv, NEW w \in Worker, row[w].status = "allocated",
           EndSession(Of(w)),
           browser[w].state # "open",
           \A c \in calls : c.worker = w => browser[w].state # "clean",
           \A v \in Worker \ {w} : row'[v] = row[v] /\ pod'[v] = pod[v],
           \/ row'[w].status = "draining" /\ row'[w].session = Of(w) /\ pod'[w] = pod[w]
           \/ /\ row'[w] = DeadRow /\ browser[w] = CleanBrowser /\ \A c \in calls : c.worker # w
              /\ pod'[w] \in {"unmade", "terminating", "gone"},
           \A v \in Worker :
             /\ browser'[v].state = browser[v].state /\ browser'[v].session = browser[v].session
             /\ \/ browser'[v] = browser[v]
                \/ browser[v].session # NoSession /\ ProfileOf[browser[v].session] = ProfileOf[Of(w)],
           \A c \in calls' :
             \E d \in calls :
               /\ c.op = d.op /\ c.worker = d.worker /\ c.session = d.session
               /\ c.basis = d.basis \/ ProfileOf[d.session] = ProfileOf[Of(w)]
    PROVE  Owned'
<1> USE DEF FleetInv
<1> DEFINE s == Of(w)
<1>1. /\ s \in Session /\ session[s] \in Allocated /\ custody[ProfileOf[s]] = s
      /\ \A t \in Session : session[t] \in Allocated /\ ProfileOf[t] = ProfileOf[s] => t = s
      /\ \A v \in Worker : Of(v) = s => v = w
  BY Typed DEF RowsInv, CustodyInv, Bound
<1>2. /\ session'[s] = "ended" /\ \A t \in Session \ {s} : session'[t] = session[t]
      /\ \A p \in Profile : custody'[p] = IF custody[p] = s THEN NoSession ELSE custody[p]
  BY <1>1 DEF EndSession, TypeOK
<1>3. /\ \A v \in Worker \ {w} : Of(v)' = Of(v) /\ (Bound(v)' <=> Bound(v)) /\ (Live(v)' <=> Live(v))
      /\ Of(w)' = row'[w].session
      /\ Bound(w)' <=> row'[w].session # NoSession
      /\ Live(w)' <=> row'[w].status # "dead"
      /\ CleanBrowser' = CleanBrowser
  BY DEF Of, Bound, Live, CleanBrowser
<1>4. \A t \in Session : session'[t] \in Allocated <=> t # s /\ session[t] \in Allocated
  BY <1>1, <1>2 DEF Allocated
<1> HIDE DEF s
<1>5. RowsInv'
  BY <1>1, <1>2, <1>3, <1>4, Typed DEF RowsInv, Bound, s
<1>6. CustodyInv'
  <2>1. ASSUME NEW p \in Profile, custody'[p] # NoSession
        PROVE  ProfileOf[custody'[p]] = p /\ session'[custody'[p]] \in Allocated
    BY <1>2, <1>4, <2>1, Typed DEF CustodyInv
  <2>2. ASSUME NEW t \in Session, session'[t] \in Allocated
        PROVE  custody'[ProfileOf[t]] = t /\ \E v \in Worker : Of(v)' = t
    <3>1. t # s /\ custody[ProfileOf[t]] = t /\ \E v \in Worker : Of(v) = t
      BY <1>4, <2>2 DEF CustodyInv
    <3> QED BY <1>1, <1>2, <1>3, <3>1, Typed DEF s
  <2> QED BY <2>1, <2>2 DEF CustodyInv
<1>7. BrowsersInv'
  <2> SUFFICES ASSUME NEW v \in Worker PROVE BrowserFits(v)'
    BY DEF BrowsersInv
  <2>1. BrowserFits(v)
    BY DEF BrowsersInv
  <2>2. browser[v].session # NoSession /\ ProfileOf[browser[v].session] = ProfileOf[s]
          => session'[browser[v].session] \notin Allocated
    BY <1>1, <1>4, Typed
  <2>3. browser[v] = CleanBrowser => browser'[v] = CleanBrowser
    BY Typed
  <2>4. CASE v = w
    BY <1>1, <1>2, <1>3, <1>4, <2>1, <2>2, <2>3, <2>4, Typed DEF BrowserFits, s
  <2>5. CASE v # w
    BY <1>1, <1>2, <1>3, <1>4, <2>1, <2>2, <2>3, <2>5, Typed DEF BrowserFits, Bound, s
  <2> QED BY <2>4, <2>5
<1>8. CallsInv'
  <2> SUFFICES ASSUME NEW c \in calls'
               PROVE  /\ Of(c.worker)' = c.session
                      /\ pod'[c.worker] \in {"ready", "terminating"}
                      /\ c.op = "start" /\ browser'[c.worker].state = "clean" =>
                           session'[c.session] \in Allocated
                      /\ c.basis = "stale" => session'[c.session] \notin Allocated
    BY DEF CallsInv
  <2>1. PICK d \in calls :
          /\ c.op = d.op /\ c.worker = d.worker /\ c.session = d.session
          /\ c.basis = d.basis \/ ProfileOf[d.session] = ProfileOf[s]
    BY DEF s
  <2>2. /\ d.worker \in Worker /\ d.session \in Session
        /\ Of(d.worker) = d.session /\ pod[d.worker] \in {"ready", "terminating"}
        /\ d.op = "start" /\ browser[d.worker].state = "clean" => session[d.session] \in Allocated
        /\ d.basis = "stale" => session[d.session] \notin Allocated
    BY Typed DEF CallsInv
  <2> QED BY <1>1, <1>3, <1>4, <2>1, <2>2, Typed DEF s
<1> QED BY <1>5, <1>6, <1>7, <1>8 DEF Owned

(* The session of a dead pod ends with its row ... *)
LEMMA BuryOwned ==
    ASSUME FleetInv, NEW w \in Worker, Bury(w)
    PROVE  Owned' /\ TickInv'
<1> USE DEF FleetInv
<1>1. /\ Dead(w) /\ EndBound(w) /\ UNCHANGED <<browser, calls>>
      /\ row' = [row EXCEPT ![w] = DeadRow]
      /\ pod' = IF Exists(w) THEN [pod EXCEPT ![w] = "terminating"] ELSE pod
  BY DEF Bury
<1>2. TickInv'
  BY VisitTyped, TickMoves DEF Bury
<1>3. CASE Bound(w)
  <2>1. EndSession(Of(w))
    BY <1>1, <1>3 DEF EndBound
  <2>2. /\ row'[w] = DeadRow /\ pod'[w] \in {"unmade", "terminating", "gone"}
        /\ \A v \in Worker \ {w} : row'[v] = row[v] /\ pod'[v] = pod[v]
    BY <1>1, Typed DEF TypeOK, Exists
  <2>3. browser[w].state # "open"
    BY <1>1, DeadHoldsNothing, Typed
  <2> QED BY <1>1, <1>2, <1>3, <2>1, <2>2, <2>3, DeadHoldsNothing, EndedOwned
<1>4. CASE ~Bound(w)
  <2>1. UNCHANGED <<session, custody>>
    BY <1>1, <1>4 DEF EndBound, queueVars
  <2> QED BY <1>1, <1>2, <1>4, <2>1, DeadHoldsNothing, GoneOwned
<1> QED BY <1>3, <1>4

(* ... or before it. *)
LEMMA BuryHalfOwned ==
    ASSUME FleetInv, NEW w \in Worker, BuryHalf(w)
    PROVE  Owned' /\ TickInv'
<1> USE DEF FleetInv
<1>1. /\ Dead(w) /\ Bound(w) /\ EndSession(Of(w)) /\ UNCHANGED <<pod, browser, calls>>
      /\ row' = [row EXCEPT ![w].status = "draining"]
  BY DEF BuryHalf, podVars
<1>2. TickInv'
  BY VisitTyped, TickMoves DEF BuryHalf
<1>3. /\ row'[w].status = "draining" /\ row'[w].session = Of(w)
      /\ \A v \in Worker \ {w} : row'[v] = row[v]
  BY <1>1 DEF TypeOK, Row, Of
<1>4. browser[w].state # "open"
  BY <1>1, DeadHoldsNothing, Typed
<1> QED BY <1>1, <1>2, <1>3, <1>4, DeadHoldsNothing, EndedOwned

-----------------------------------------------------------------------------
(* The controller: calls, snapshots, new sessions, the warm pool.          *)

(* A start or a stop on its way to the row in use. *)
LEMMA SendOwned ==
    ASSUME FleetInv, NEW w \in Worker, SendStart(w) \/ SendStop(w)
    PROVE  Owned' /\ TickInv'
<1> USE DEF FleetInv
<1>1. /\ row[w].status = "allocated" /\ pod[w] \in {"ready", "terminating"} /\ Of(w) \in Session
      /\ session[Of(w)] \in {"allocating", "stopping"}
      /\ SendStop(w) => session[Of(w)] = "stopping"
  BY Typed DEF SendStart, SendStop, Reachable, Answers, InUse, Over, Bound, RowsInv
<1>2. /\ UNCHANGED <<session, custody, row, pod, browser>>
      /\ \A c \in calls' : \/ c \in calls
                           \/ c.worker = w /\ c.session = Of(w) /\ c.basis = "current"
      /\ tick'.pc \in {"starting", "stopping"} /\ tick'.at = w
      /\ tick'.pc = "stopping" => SendStop(w)
  <2>1. PICK op \in {"start", "stop"}, pc \in {"starting", "stopping"} :
          Send(w, op, pc) /\ (pc = "stopping" => SendStop(w))
    BY DEF SendStart, SendStop
  <2>2. UNCHANGED <<session, custody, row, pod, browser>>
    BY <2>1 DEF Send, queueVars
  <2>3. calls' = calls \cup {[op |-> op, worker |-> w, session |-> Of(w), basis |-> "current"]}
    BY <2>1 DEF Send
  <2>4. tick'.pc = pc /\ tick'.at = w
    BY <2>1 DEF Send, TypeOK, Tick
  <2> QED BY <2>1, <2>2, <2>3, <2>4
<1>3. RowsInv' /\ CustodyInv'
  BY <1>2 DEF RowsInv, CustodyInv, Of, Bound
<1>6. BrowsersInv'
  BY <1>2 DEF BrowsersInv, BrowserFits, Of, Bound, Live, CleanBrowser
<1>4. CallsInv'
  <2>1. \A c \in calls' : c.worker \in Worker /\ Of(c.worker)' = Of(c.worker)
    BY <1>2, Typed DEF Of
  <2>2. ASSUME NEW c \in calls', c \notin calls
        PROVE  /\ Of(c.worker) = c.session /\ pod[c.worker] \in {"ready", "terminating"}
               /\ session[c.session] \in Allocated /\ c.basis # "stale"
    BY <1>1, <1>2, <2>2 DEF Allocated
  <2> QED BY <1>2, <2>1, <2>2 DEF CallsInv
<1>5. TickInv'
  <2>1. tick'.at \in Worker /\ row'[tick'.at].status = "allocated"
    BY <1>1, <1>2
  <2>2. tick'.pc = "stopping" => session'[row'[tick'.at].session] = "stopping"
    BY <1>1, <1>2 DEF Of
  <2> QED BY <1>2, <2>1, <2>2 DEF TickInv, Of
<1> QED BY <1>3, <1>4, <1>5, <1>6 DEF Owned

(* The session is ready. *)
LEMMA FulfilOwned ==
    ASSUME FleetInv, Fulfil
    PROVE  Owned' /\ TickInv'
<1> USE DEF FleetInv
<1>1. tick.at \in Worker /\ row[tick.at].status = "allocated" /\ Of(tick.at) \in Session
  BY Typed DEF Fulfil, TickInv, RowsInv, Bound
<1>2. SessionsKept
  BY <1>1 DEF Fulfil, SessionsKept, TypeOK, Allocated
<1>3. RowsKept
  BY <1>1 DEF Fulfil, RowsKept, TypeOK, Row
<1>4. PodsKept /\ UNCHANGED <<custody, browser, calls>>
  BY DEF Fulfil, PodsKept, podVars
<1>5. TickInv'
  BY <1>1, VisitTyped, TickMoves DEF Fulfil
<1> QED BY <1>2, <1>3, <1>4, <1>5, StillOwned

(* Only the recording is pulled.                                           *)
LEMMA PullOwned ==
    ASSUME FleetInv, PullRecording
    PROVE  Owned' /\ TickInv'
<1> USE DEF FleetInv
<1>1. tick.at \in Worker /\ browser[tick.at].lag /\ browser[tick.at] # CleanBrowser
  BY DEF PullRecording, TickInv, CleanBrowser
<1>2. UNCHANGED <<session, custody, row, pod, calls>>
  BY DEF PullRecording, queueVars
<1>3. /\ \A w \in Worker : /\ browser'[w].state = browser[w].state
                           /\ browser'[w].session = browser[w].session
                           /\ browser'[w].basis = browser[w].basis
      /\ \A w \in Worker : browser[w] = CleanBrowser => browser'[w] = browser[w]
  BY <1>1 DEF PullRecording, TypeOK, Browser
<1>4. RowsInv' /\ CustodyInv'
  BY <1>2 DEF RowsInv, CustodyInv, Of, Bound
<1>5. BrowsersInv'
  <2> SUFFICES ASSUME NEW w \in Worker PROVE BrowserFits(w)'
    BY DEF BrowsersInv
  <2>1. BrowserFits(w)
    BY DEF BrowsersInv
  <2>2. Of(w)' = Of(w) /\ Bound(w)' = Bound(w) /\ Live(w)' = Live(w)
    BY <1>2 DEF Of, Bound, Live
  <2> QED BY <1>2, <1>3, <2>1, <2>2 DEF BrowserFits, CleanBrowser
<1>6. CallsInv'
  BY <1>2, <1>3, Typed DEF CallsInv, Of
<1>7. TickInv'
  BY <1>1, VisitTyped, TickMoves DEF PullRecording
<1> QED BY <1>4, <1>5, <1>6, <1>7 DEF Owned

(* What is about to be published is the session of the visited row, closed *)
(* or gone with its pod.                                                   *)
LEMMA Stopped ==
    ASSUME FleetInv, tick.pc = "stopped"
    PROVE  /\ tick.at \in Worker /\ row[tick.at].status = "allocated" /\ Of(tick.at) \in Session
           /\ session[Of(tick.at)] \in Allocated
           /\ browser[tick.at].state # "open" /\ browser[tick.at].basis = "current"
           /\ \A c \in calls : c.worker = tick.at => browser[tick.at].state # "clean"
<1> USE DEF FleetInv
<1>1. tick.at \in Worker /\ row[tick.at].status = "allocated" /\ Of(tick.at) \in Session
      /\ session[Of(tick.at)] \in Allocated
  BY Typed DEF TickInv, RowsInv, Bound
<1>2. browser[tick.at].state = "closed" \/ pod[tick.at] \in {"failed", "gone"}
  BY DEF TickInv
<1>3. CASE pod[tick.at] \in {"failed", "gone"}
  BY <1>1, <1>3, NothingRuns, Typed
<1>4. CASE browser[tick.at].state = "closed"
  BY <1>1, <1>4, Typed DEF BrowsersInv, BrowserFits
<1> QED BY <1>1, <1>2, <1>3, <1>4

(* The snapshot is published and the session over. *)
LEMMA PublishOwned ==
    ASSUME FleetInv, Publish
    PROVE  Owned' /\ TickInv'
<1> USE DEF FleetInv
<1> DEFINE w == tick.at
           s == Of(w)
<1>1. tick.pc = "stopped" /\ EndSession(s) /\ Outdated(ProfileOf[s]) /\ Visited(w) /\ pod' = pod
      /\ row' = [row EXCEPT ![w].status = "draining", ![w].silent = FALSE]
  BY DEF Publish
<1>2. w \in Worker /\ row[w].status = "allocated" /\ s \in Session
      /\ browser[w].state # "open"
      /\ \A c \in calls : c.worker = w => browser[w].state # "clean"
  BY <1>1, Stopped
<1>3. /\ row'[w].status = "draining" /\ row'[w].session = s
      /\ \A v \in Worker \ {w} : row'[v] = row[v]
  BY <1>1, <1>2 DEF TypeOK, Row, Of
<1>4. \A v \in Worker :
        /\ browser'[v].state = browser[v].state /\ browser'[v].session = browser[v].session
        /\ \/ browser'[v] = browser[v]
           \/ browser[v].session # NoSession /\ ProfileOf[browser[v].session] = ProfileOf[s]
  BY <1>1, Typed DEF Outdated, TypeOK, Browser
<1>5. \A c \in calls' :
        \E d \in calls :
          /\ c.op = d.op /\ c.worker = d.worker /\ c.session = d.session
          /\ c.basis = d.basis \/ ProfileOf[d.session] = ProfileOf[s]
  <2>1. calls' = {IF ProfileOf[c.session] = ProfileOf[s] THEN [c EXCEPT !.basis = "stale"] ELSE c :
                     c \in calls}
    BY <1>1 DEF Outdated
  <2>2. ASSUME NEW d \in calls
        PROVE  LET c == IF ProfileOf[d.session] = ProfileOf[s] THEN [d EXCEPT !.basis = "stale"] ELSE d
               IN  /\ c.op = d.op /\ c.worker = d.worker /\ c.session = d.session
                   /\ c.basis = d.basis \/ ProfileOf[d.session] = ProfileOf[s]
    <3>1. d \in Call
      BY DEF TypeOK
    <3> HIDE DEF s
    <3> QED BY <3>1 DEF Call
  <2> QED BY <2>1, <2>2
<1>6. TickInv'
  BY <1>1, <1>2, VisitTyped, TickMoves
<1> HIDE DEF w
<1> QED BY <1>1, <1>2, <1>3, <1>4, <1>5, <1>6, EndedOwned

(* A session that waits gets a row nobody has and its profile.             *)
LEMMA BindOwned ==
    ASSUME FleetInv, NEW s \in Session, NEW w \in Worker, Bind(s, w)
    PROVE  Owned' /\ TickInv'
<1> USE DEF FleetInv
<1>1. /\ session[s] = "queued" /\ custody[ProfileOf[s]] = NoSession
      /\ row[w].status = "warm" /\ ~Bound(w)
  BY DEF Bind, Candidates, Heads, Waiting, Unassigned
<1>2. /\ UNCHANGED <<pod, browser, calls>>
      /\ session'[s] = "allocating" /\ \A t \in Session \ {s} : session'[t] = session[t]
      /\ custody'[ProfileOf[s]] = s
      /\ \A p \in Profile \ {ProfileOf[s]} : custody'[p] = custody[p]
      /\ row'[w].status = "allocated" /\ row'[w].session = s
      /\ \A v \in Worker \ {w} : row'[v] = row[v]
  BY Typed DEF Bind, podVars, TypeOK, Row
<1>3. /\ \A v \in Worker : Of(v) # s /\ browser[v].session # s
      /\ \A c \in calls : c.session # s
  BY <1>1, WaitingIsNowhere
<1>4. /\ Of(w)' = s /\ Bound(w)' /\ Live(w)' /\ Live(w)
      /\ \A v \in Worker \ {w} : Of(v)' = Of(v) /\ (Bound(v)' <=> Bound(v)) /\ (Live(v)' <=> Live(v))
      /\ CleanBrowser' = CleanBrowser
  BY <1>1, <1>2, Typed DEF Of, Bound, Live, CleanBrowser
<1>5. RowsInv'
  BY <1>2, <1>3, <1>4, Typed DEF RowsInv, Bound, Allocated
<1>6. CustodyInv'
  <2>1. ASSUME NEW p \in Profile, custody'[p] # NoSession
        PROVE  ProfileOf[custody'[p]] = p /\ session'[custody'[p]] \in Allocated
    BY <1>1, <1>2, <2>1, Typed DEF CustodyInv, Allocated
  <2>2. ASSUME NEW t \in Session, session'[t] \in Allocated
        PROVE  custody'[ProfileOf[t]] = t /\ \E v \in Worker : Of(v)' = t
    <3>1. CASE t = s
      BY <1>2, <1>4, <3>1
    <3>2. CASE t # s
      <4>1. custody[ProfileOf[t]] = t /\ \E v \in Worker : Of(v) = t
        BY <1>2, <2>2, <3>2 DEF CustodyInv
      <4> QED BY <1>1, <1>2, <1>4, <4>1, Typed DEF Bound
    <3> QED BY <3>1, <3>2
  <2> QED BY <2>1, <2>2 DEF CustodyInv
<1>7. BrowsersInv'
  <2> SUFFICES ASSUME NEW v \in Worker PROVE BrowserFits(v)'
    BY DEF BrowsersInv
  <2>1. BrowserFits(v)
    BY DEF BrowsersInv
  <2> QED BY <1>1, <1>2, <1>3, <1>4, <2>1, Typed DEF BrowserFits, Bound
<1>8. CallsInv'
  BY <1>1, <1>2, <1>3, <1>4, Typed DEF CallsInv, Bound
<1>9. TickInv'
  <2> tick'.pc = "visiting"
    BY DEF Bind, Binding, TypeOK, Tick
  <2> QED BY TickMoves
<1> QED BY <1>5, <1>6, <1>7, <1>8, <1>9 DEF Owned

(* Warm rows are given up and new ones written where nothing is left.      *)
LEMMA ResizeOwned ==
    ASSUME FleetInv, Resize
    PROVE  Owned' /\ TickInv'
<1> USE DEF FleetInv
<1>1. PICK out \in SUBSET Warm, in \in SUBSET Unused :
        /\ row' = [w \in Worker |->
                     IF w \in out THEN [row[w] EXCEPT !.status = "draining"]
                     ELSE IF w \in in THEN NewRow ELSE row[w]]
        /\ pod' = [w \in Worker |-> IF w \in in THEN "unmade" ELSE pod[w]]
  BY DEF Resize
<1>2. UNCHANGED <<session, custody, browser, calls>> /\ tick'.pc = "idle"
  BY DEF Resize, queueVars, AtRest
<1>3. ASSUME NEW w \in Worker
      PROVE  /\ Of(w)' = Of(w) /\ (Bound(w)' <=> Bound(w))
             /\ row'[w] = row[w] \/ (~Bound(w) /\ row'[w].status \in {"draining", "warm"})
             /\ \/ pod'[w] = pod[w] /\ (Live(w) => Live(w)')
                \/ pod'[w] = "unmade" /\ pod[w] \in {"unmade", "gone"}
  <2>1. row[w] \in Row /\ (w \in out => row[w].status = "warm") /\ (w \in in => row[w].status = "dead" /\ ~Exists(w))
    BY DEF TypeOK, Warm, Unused, Live
  <2>2. row'[w] = IF w \in out THEN [row[w] EXCEPT !.status = "draining"]
                  ELSE IF w \in in THEN NewRow ELSE row[w]
    BY <1>1
  <2>3. row'[w].session = row[w].session
    BY <2>1, <2>2, Typed DEF Row, RowsInv, Bound, Of
  <2>4. w \in out \/ w \in in => ~Bound(w)
    BY <2>1 DEF RowsInv
  <2>5. row'[w] = row[w] \/ (w \in out /\ row'[w].status = "draining") \/ (w \in in /\ row'[w].status = "warm")
    BY <2>1, <2>2, Typed DEF Row
  <2>6. Of(w)' = Of(w) /\ (Bound(w)' <=> Bound(w))
    BY <2>3 DEF Of, Bound
  <2>7. CASE w \in in
    <3>1. pod'[w] = "unmade" /\ pod[w] \in {"unmade", "gone"}
      BY <1>1, <2>1, <2>7, Typed DEF Exists
    <3> QED BY <2>4, <2>5, <2>6, <3>1
  <2>8. CASE w \notin in
    <3>1. pod'[w] = pod[w] /\ (Live(w) => Live(w)')
      BY <1>1, <2>5, <2>8 DEF Live
    <3>2. row'[w] = row[w] \/ (~Bound(w) /\ row'[w].status \in {"draining", "warm"})
      BY <2>4, <2>5
    <3> QED BY <2>6, <3>1, <3>2
  <2> QED BY <2>7, <2>8
<1>4. RowsInv'
  BY <1>2, <1>3, Typed DEF RowsInv
<1>5. CustodyInv'
  BY <1>2, <1>3, Typed DEF CustodyInv
<1>6. BrowsersInv'
  <2> SUFFICES ASSUME NEW w \in Worker PROVE BrowserFits(w)'
    BY DEF BrowsersInv
  <2>1. BrowserFits(w) /\ CleanBrowser' = CleanBrowser
    BY DEF BrowsersInv, CleanBrowser
  <2> QED BY <1>2, <1>3, <2>1, Typed DEF BrowserFits
<1>7. CallsInv'
  <2>1. \A c \in calls : pod'[c.worker] = pod[c.worker]
    BY <1>3, Typed DEF CallsInv
  <2> QED BY <1>2, <1>3, <2>1, Typed DEF CallsInv
<1>8. TickInv'
  BY <1>2, TickMoves
<1> QED BY <1>4, <1>5, <1>6, <1>7, <1>8 DEF Owned

-----------------------------------------------------------------------------
(* Workers and pods.  What a worker's answer does to the visit ...         *)
LEMMA AnswerTick ==
    ASSUME FleetInv, NEW c \in calls, NEW ok \in BOOLEAN, Answer(c, ok),
           \A w \in Worker : browser[w].state = "closed" => browser'[w].state = "closed",
           c.op = "stop" /\ ok => browser'[c.worker].state = "closed"
    PROVE  TickInv'
<1> USE DEF FleetInv
<1>1. UNCHANGED <<session, row, pod>>
  BY DEF Answer, queueVars
<1>2. CASE UNCHANGED tick
  BY <1>1, <1>2, TickStays
<1>3. CASE Awaits(c.op) /\ tick.at = c.worker
  <2>1. tick' = [tick EXCEPT !.pc = IF ~ok THEN "failed"
                                    ELSE IF c.op = "start" THEN "started" ELSE "stopped"]
    BY <1>3 DEF Answer
  <2>2. /\ tick'.pc = IF ~ok THEN "failed" ELSE IF c.op = "start" THEN "started" ELSE "stopped"
        /\ tick'.at = tick.at
    BY <2>1 DEF TypeOK, Tick
  <2>3. tick.pc = IF c.op = "start" THEN "starting" ELSE "stopping"
    BY <1>3 DEF Awaits
  <2>4. tick.at \in Worker /\ row[tick.at].status = "allocated" /\ c.op \in {"start", "stop"}
    BY <2>3, Typed DEF TickInv
  <2>5. c.op = "stop" => session'[row'[tick'.at].session] = "stopping"
    BY <1>1, <2>2, <2>3 DEF TickInv, Of
  <2> QED BY <1>1, <1>3, <2>2, <2>4, <2>5 DEF TickInv, Of
<1> QED BY <1>2, <1>3 DEF Answer

(* ... and to the rest.                                                    *)
LEMMA AnswerOwned ==
    ASSUME FleetInv, NEW c \in calls, NEW ok, Answer(c, ok),
           \A w \in Worker \ {c.worker} : browser'[w] = browser[w],
           browser'[c.worker].state = "clean" => browser[c.worker].state = "clean",
           BrowserFits(c.worker)'
    PROVE  Owned'
<1> USE DEF FleetInv
<1>1. UNCHANGED <<session, custody, row, pod>> /\ calls' \subseteq calls
  BY DEF Answer, queueVars
<1>2. RowsInv' /\ CustodyInv'
  BY <1>1 DEF RowsInv, CustodyInv, Of, Bound
<1>3. BrowsersInv'
  <2> SUFFICES ASSUME NEW w \in Worker, w # c.worker PROVE BrowserFits(w)'
    BY DEF BrowsersInv
  <2>1. browser'[w] = browser[w] /\ BrowserFits(w)
    BY DEF BrowsersInv
  <2> QED BY <1>1, <2>1 DEF BrowserFits, Of, Bound, Live, CleanBrowser
<1>4. CallsInv'
  BY <1>1, Typed DEF CallsInv, Of
<1> QED BY <1>2, <1>3, <1>4 DEF Owned

(* Every answer of a worker. *)
LEMMA WorkerOwned ==
    ASSUME FleetInv, NEW c \in calls, Answers(c.worker),
           Launch(c) \/ LaunchFails(c) \/ LaunchedBefore(c) \/ Close(c) \/ NotOpen(c)
    PROVE  Owned' /\ TickInv'
<1> USE DEF FleetInv
<1> DEFINE w == c.worker
<1>1. /\ w \in Worker /\ c.session \in Session /\ c.op \in {"start", "stop"}
      /\ c.basis \in {"current", "stale"}
      /\ Of(w) = c.session /\ Bound(w)
      /\ c.op = "start" /\ browser[w].state = "clean" => session[c.session] \in Allocated
      /\ c.basis = "stale" => session[c.session] \notin Allocated
      /\ BrowserFits(w) /\ pod[w] \in {"ready", "terminating"}
  BY Typed DEF CallsInv, BrowsersInv, Bound, Answers
<1>2. Live(w)
  BY <1>1 DEF RowsInv, Live
<1>3. CASE Launch(c)
  <2>1. /\ browser'[w].state = "open" /\ browser'[w].session = c.session
        /\ browser'[w].basis = c.basis
        /\ \A v \in Worker \ {w} : browser'[v] = browser[v]
        /\ c.op = "start" /\ browser[w].state = "clean" /\ Answer(c, TRUE)
    BY <1>1, <1>3 DEF Launch, TypeOK
  <2>2. UNCHANGED <<session, row, pod>>
    BY <2>1 DEF Answer, queueVars
  <2>3. BrowserFits(w)'
    BY <1>1, <1>2, <2>1, <2>2 DEF BrowserFits, Of, Bound, Live
  <2>4. \A v \in Worker : browser[v].state = "closed" => browser'[v].state = "closed"
    BY <2>1
  <2> HIDE DEF w
  <2> QED BY <2>1, <2>3, <2>4, AnswerOwned, AnswerTick DEF w
<1>4. CASE LaunchFails(c)
  <2>1. /\ browser'[w].state = "spent" /\ browser'[w].session = browser[w].session
        /\ browser'[w].basis = browser[w].basis
        /\ \A v \in Worker \ {w} : browser'[v] = browser[v]
        /\ c.op = "start" /\ browser[w].state = "clean" /\ Answer(c, FALSE)
    BY <1>1, <1>4 DEF LaunchFails, TypeOK, Browser
  <2>2. UNCHANGED <<session, row, pod>>
    BY <2>1 DEF Answer, queueVars
  <2>3. BrowserFits(w)'
    BY <1>1, <1>2, <2>1, <2>2 DEF BrowserFits, Of, Bound, Live
  <2>4. \A v \in Worker : browser[v].state = "closed" => browser'[v].state = "closed"
    BY <2>1
  <2> HIDE DEF w
  <2> QED BY <2>1, <2>3, <2>4, AnswerOwned, AnswerTick DEF w
<1>5. CASE Close(c)
  <2>1. /\ browser'[w].state = "closed" /\ browser'[w].session = browser[w].session
        /\ browser'[w].basis = browser[w].basis
        /\ \A v \in Worker \ {w} : browser'[v] = browser[v]
        /\ Answer(c, TRUE)
    <3>1. PICK lag \in BOOLEAN :
            browser' = [browser EXCEPT ![w].state = "closed", ![w].lag = lag]
      BY <1>5 DEF Close
    <3>2. Answer(c, TRUE)
      BY <1>5 DEF Close
    <3>3. w \in Worker /\ browser \in [Worker -> Browser]
      BY <1>1 DEF TypeOK
    <3> HIDE DEF w
    <3> QED BY <3>1, <3>2, <3>3 DEF Browser
  <2>2. UNCHANGED <<session, row, pod>>
    BY <2>1 DEF Answer, queueVars
  <2>3. BrowserFits(w)'
    BY <1>1, <1>2, <2>1, <2>2 DEF BrowserFits, Of, Bound, Live
  <2>4. \A v \in Worker : browser[v].state = "closed" => browser'[v].state = "closed"
    BY <2>1
  <2> HIDE DEF w
  <2> QED BY <2>1, <2>3, <2>4, AnswerOwned, AnswerTick DEF w
<1>6. CASE LaunchedBefore(c) \/ NotOpen(c)
  <2>1. PICK ok \in BOOLEAN : /\ Answer(c, ok) /\ browser' = browser
                              /\ c.op = "stop" /\ ok => browser[w].state = "closed"
    <3>1. Served(c) \in BOOLEAN
      BY DEF Served
    <3> QED BY <1>6, <3>1 DEF LaunchedBefore, NotOpen
  <2>2. UNCHANGED <<session, row, pod>>
    BY <2>1 DEF Answer, queueVars
  <2>3. BrowserFits(w)'
    BY <1>1, <2>1, <2>2 DEF BrowserFits, Of, Bound, Live, CleanBrowser
  <2> HIDE DEF w
  <2> QED BY <2>1, <2>3, AnswerOwned, AnswerTick DEF w
<1> QED BY <1>3, <1>4, <1>5, <1>6

(* A pod ends with all that is in it. *)
LEMMA PodEndsOwned ==
    ASSUME FleetInv, NEW w \in Worker, NEW state \in {"failed", "gone"}, PodEnds(w, state),
           Live(w) \/ state = "gone"
    PROVE  Owned' /\ TickInv'
<1> USE DEF FleetInv
<1>1. /\ UNCHANGED <<session, custody, row, tick>>
      /\ browser'[w] = CleanBrowser /\ pod'[w] = state
      /\ \A v \in Worker \ {w} : browser'[v] = browser[v] /\ pod'[v] = pod[v]
      /\ calls' \subseteq calls /\ \A c \in calls' : c.worker # w
  BY DEF PodEnds, queueVars, TypeOK
<1>2. RowsInv' /\ CustodyInv'
  BY <1>1 DEF RowsInv, CustodyInv, Of, Bound
<1>3. BrowsersInv'
  <2> SUFFICES ASSUME NEW v \in Worker PROVE BrowserFits(v)'
    BY DEF BrowsersInv
  <2>1. BrowserFits(v) /\ CleanBrowser' = CleanBrowser
    BY DEF BrowsersInv, CleanBrowser
  <2>2. Of(v)' = Of(v) /\ (Bound(v)' <=> Bound(v)) /\ (Live(v)' <=> Live(v))
    BY <1>1 DEF Of, Bound, Live
  <2>3. CASE v = w
    BY <1>1, <2>1, <2>2, <2>3, Typed DEF BrowserFits
  <2>4. CASE v # w
    BY <1>1, <2>1, <2>2, <2>4 DEF BrowserFits
  <2> QED BY <2>3, <2>4
<1>4. CallsInv'
  BY <1>1, Typed DEF CallsInv, Of
<1>5. TickInv'
  BY <1>1, TickStays
<1> QED BY <1>2, <1>3, <1>4, <1>5 DEF Owned

(* A pod starts with nothing in it. *)
LEMMA PodStartsOwned ==
    ASSUME FleetInv, NEW w \in Worker, PodStarts(w)
    PROVE  Owned' /\ TickInv'
<1> USE DEF FleetInv
<1>1. /\ UNCHANGED <<session, custody, row, tick, browser, calls>>
      /\ pod[w] = "starting" /\ pod' = [pod EXCEPT ![w] = "ready"]
  BY DEF PodStarts, queueVars
<1>2. RowsKept /\ PodsKept /\ SessionsKept
  BY <1>1 DEF RowsKept, PodsKept, SessionsKept, TypeOK
<1>3. \A v \in Worker : pod[v] \in {"failed", "gone"} => pod'[v] = pod[v]
  BY <1>1 DEF TypeOK
<1> QED BY <1>1, <1>2, <1>3, StillOwned, TickStays

-----------------------------------------------------------------------------
(* Every visit to a worker. *)
LEMMA VisitStepOwned ==
    ASSUME FleetInv, NEW w \in Worker, VisitStep(w)
    PROVE  Owned' /\ TickInv'
<1> USE DEF FleetInv
<1>1. CASE NoPodYet(w)
  <2>1. RowsKept /\ PodsKept /\ UNCHANGED <<session, custody, browser, calls>>
    BY <1>1 DEF NoPodYet, RowsKept, PodsKept, queueVars, podVars
  <2> QED BY <1>1, <2>1, VisitTyped, VisitOnly DEF NoPodYet
<1>2. CASE StillStarting(w)
  <2>1. RowsKept /\ PodsKept /\ UNCHANGED <<session, custody, browser, calls>>
    BY <1>2 DEF StillStarting, RowsKept, PodsKept, queueVars, TypeOK, Row
  <2> QED BY <1>2, <2>1, VisitTyped, VisitOnly DEF StillStarting
<1>3. CASE Attend(w)
  <2>1. RowsKept /\ PodsKept /\ UNCHANGED <<session, custody, browser, calls>>
    BY <1>3 DEF Attend, RowsKept, PodsKept, queueVars, podVars, TypeOK, Row
  <2> QED BY <1>3, <2>1, VisitTyped, VisitOnly DEF Attend
<1>4. CASE VisitFails(w)
  <2>1. RowsKept /\ PodsKept /\ UNCHANGED <<session, custody, browser, calls>>
    BY <1>4 DEF VisitFails, RowsKept, PodsKept, queueVars, podVars
  <2> QED BY <1>4, <2>1, FailTyped, VisitOnly DEF VisitFails
<1> QED
  BY <1>1, <1>2, <1>3, <1>4, CreateOwned, RetireOwned, BuryOwned, BuryHalfOwned, SendOwned
  DEF VisitStep

(* Every step of the controller. *)
LEMMA TickStepOwned ==
    ASSUME FleetInv, TickStep
    PROVE  Owned' /\ TickInv'
<1> USE DEF FleetInv
<1>1. CASE BeginTick
  <2>1. RowsKept /\ PodsKept /\ UNCHANGED <<session, custody, browser, calls>> /\ tick'.pc = "visiting"
    BY <1>1 DEF BeginTick, RowsKept, PodsKept, queueVars, podVars, AtRest
  <2> QED BY <2>1, VisitOnly
<1>2. CASE Abandon
  <2>1. /\ RowsKept /\ PodsKept /\ UNCHANGED <<session, custody, browser, calls>>
        /\ tick.at \in Worker /\ Fails(tick.at)
    BY <1>2 DEF Abandon, TickInv, RowsKept, PodsKept, queueVars, podVars
  <2> QED BY <2>1, FailTyped, VisitOnly
<1>3. CASE FailedVisit
  <2>1. /\ RowsKept /\ PodsKept /\ UNCHANGED <<session, custody, browser, calls>>
        /\ tick.at \in Worker /\ Visited(tick.at)
    BY <1>3 DEF FailedVisit, TickInv, RowsKept, PodsKept, queueVars, podVars, TypeOK, Row
  <2> QED BY <2>1, VisitTyped, VisitOnly
<1>4. CASE DeleteSilentPod
  <2>1. /\ RowsKept /\ PodsKept /\ UNCHANGED <<session, custody, browser, calls>>
        /\ tick.at \in Worker /\ Visited(tick.at)
    BY <1>4 DEF DeleteSilentPod, TickInv, RowsKept, PodsKept, queueVars, TypeOK
  <2> QED BY <2>1, VisitTyped, VisitOnly
<1>5. CASE FulfilTooLate
  <2>1. /\ RowsKept /\ PodsKept /\ UNCHANGED <<session, custody, browser, calls>>
        /\ tick.at \in Worker /\ Fails(tick.at)
    BY <1>5 DEF FulfilTooLate, TickInv, RowsKept, PodsKept, queueVars, podVars
  <2> QED BY <2>1, FailTyped, VisitOnly
<1>6. ASSUME NEW s \in Session, Delay(s) PROVE Owned' /\ TickInv'
  <2>1. RowsKept /\ PodsKept /\ UNCHANGED <<session, custody, browser, calls>> /\ tick'.pc = "sizing"
    BY <1>6 DEF Delay, RowsKept, PodsKept, podVars, TypeOK, Tick
  <2> QED BY <2>1, VisitOnly
<1> QED
  BY <1>1, <1>2, <1>3, <1>4, <1>5, <1>6,
     VisitStepOwned, FulfilOwned, PullOwned, PublishOwned, BindOwned, ResizeOwned
  DEF TickStep

(* Every step. *)
LEMMA StepOwned ==
    ASSUME FleetInv, [Next]_vars
    PROVE  Owned' /\ TickInv'
<1> USE DEF FleetInv
<1>1. CASE ControllerDies
  <2>1. RowsKept /\ PodsKept /\ UNCHANGED <<session, custody, browser, calls>> /\ tick'.pc = "idle"
    BY <1>1 DEF ControllerDies, RowsKept, PodsKept, queueVars, podVars, AtRest
  <2> QED BY <2>1, VisitOnly
<1>2. ASSUME NEW w \in Worker, PodDeleted(w) \/ PodLost(w) PROVE Owned' /\ TickInv'
  <2>1. PICK state \in {"failed", "gone"} : PodEnds(w, state) /\ (Live(w) \/ state = "gone")
    BY <1>2, Typed DEF PodDeleted, PodLost, BrowsersInv, BrowserFits
  <2> QED BY <2>1, PodEndsOwned
<1>3. ASSUME NEW s \in Session, DelayPasses(s) PROVE Owned' /\ TickInv'
  <2>1. /\ RowsKept /\ PodsKept /\ SessionsKept
        /\ UNCHANGED <<session, custody, browser, calls, row, tick, pod>>
    BY <1>3 DEF DelayPasses, RowsKept, PodsKept, SessionsKept, podVars
  <2> QED BY <2>1, StillOwned, TickStays
<1>4. CASE UNCHANGED vars
  <2>1. /\ RowsKept /\ PodsKept /\ SessionsKept
        /\ UNCHANGED <<session, custody, browser, calls, row, tick, pod>>
    BY <1>4 DEF vars, RowsKept, PodsKept, SessionsKept, queueVars, podVars
  <2> QED BY <2>1, StillOwned, TickStays
<1> QED
  BY <1>1, <1>2, <1>3, <1>4, TickStepOwned, WorkerOwned, PodStartsOwned, RequestOwned, StopOwned,
     ImportOwned
  DEF Next, WorkerServes, Cluster

(* Nothing is there. *)
LEMMA InitInv == Init => FleetInv
<1> SUFFICES ASSUME Init PROVE FleetInv
  OBVIOUS
<1>1. TypeOK
  <2>1. /\ DeadRow \in Row /\ CleanBrowser \in Browser /\ AtRest \in Tick
        /\ << >> \in Seq(Session) /\ 0 \in 0 .. MaxFaults
    BY RowsTyped, FleetAssumption
  <2> QED BY <2>1 DEF Init, TypeOK
<1>2. RowsInv /\ CustodyInv
  BY <1>1, Typed DEF Init, RowsInv, CustodyInv, Bound, Allocated
<1>3. BrowsersInv
  BY <1>1, Typed DEF Init, BrowsersInv, BrowserFits
<1>4. CallsInv /\ TickInv
  BY DEF Init, CallsInv, TickInv, AtRest
<1> QED BY <1>1, <1>2, <1>3, <1>4 DEF FleetInv

(* The inductive invariant of the fleet.                                   *)
LEMMA FleetInvariant == Spec => []FleetInv
<1>1. FleetInv /\ [Next]_vars => FleetInv'
  BY StepTyped, StepOwned DEF FleetInv, Owned
<1> QED BY <1>1, InitInv, PTL DEF Spec

-----------------------------------------------------------------------------
(* Sessions, leases, rows, pods, browsers, calls and the visit stay well   *)
(* formed: the controller's writes are what its tables allow.              *)
THEOREM TypeCorrect == Spec => []TypeOK
<1>1. FleetInv => TypeOK
  BY DEF FleetInv
<1> QED BY <1>1, FleetInvariant, PTL

(* No save and no import is lost between the start of a browser and the    *)
(* publication of its snapshot (the lease in apps/fleet, importProfileAuth *)
(* and apps/browser-worker), whatever fails, dies or comes late.           *)
THEOREM SnapshotsFollow == Spec => []SnapshotsFollowEachOther
<1>1. FleetInv => SnapshotsFollowEachOther
  BY Stopped DEF SnapshotsFollowEachOther
<1> QED BY <1>1, FleetInvariant, PTL

(* The reconciliation leaves nothing behind: no pod without a row that     *)
(* will end it, no session with a browser without its one row and lease.   *)
THEOREM NothingIsLeftBehind == Spec => []NothingLeftBehind
<1>1. FleetInv => NothingLeftBehind
  <2> SUFFICES ASSUME FleetInv PROVE NothingLeftBehind
    OBVIOUS
  <2>1. \A w \in Worker : ~Live(w) => pod[w] \in {"unmade", "terminating", "gone"}
    BY DEF FleetInv, BrowsersInv, BrowserFits
  <2>2. ASSUME NEW s \in Session, session[s] \in Allocated
        PROVE  /\ custody[ProfileOf[s]] = s
               /\ \E w \in Worker : /\ row[w].status = "allocated" /\ Of(w) = s
                                   /\ \A v \in Worker \ {w} : Live(v) => Of(v) # s
    <3>1. custody[ProfileOf[s]] = s
      BY <2>2 DEF FleetInv, CustodyInv
    <3>2. PICK w \in Worker : Of(w) = s
      BY <2>2 DEF FleetInv, CustodyInv
    <3>3. Bound(w) /\ \A v \in Worker \ {w} : Of(v) # s
      BY <3>2, FleetAssumption DEF FleetInv, RowsInv, Bound
    <3>4. row[w].status = "allocated"
      BY <2>2, <3>2, <3>3, Typed DEF FleetInv, RowsInv, Allocated
    <3> QED BY <3>1, <3>2, <3>3, <3>4
  <2> QED BY <2>1, <2>2 DEF NothingLeftBehind
<1> QED BY <1>1, FleetInvariant, PTL

-----------------------------------------------------------------------------
(* Who runs: the browsers that are open, each the only one of its session. *)
LEMMA RunsAlone ==
    ASSUME FleetInv, NEW w \in Worker, browser[w].state = "open"
    PROVE  /\ Of(w) \in Running /\ browser[w].session = Of(w)
           /\ \A v \in Worker : browser[v].state = "open" /\ browser[v].session = Of(w) => v = w
<1> USE DEF FleetInv
<1>1. browser[w].session = Of(w) /\ Of(w) \in Session
  BY Typed DEF BrowsersInv, BrowserFits, Bound
<1>2. \A v \in Worker : browser[v].state = "open" /\ browser[v].session = Of(w) => v = w
  BY <1>1 DEF BrowsersInv, BrowserFits, RowsInv
<1> QED BY <1>1, <1>2 DEF Running

(* Nobody starts or ends. *)
LEMMA SameRunning ==
    ASSUME \A w \in Worker : /\ browser'[w].state = "open" <=> browser[w].state = "open"
                             /\ browser'[w].session = browser[w].session
    PROVE  Running' = Running
BY DEF Running

(* A browser that closes, however, is one session's that no longer runs.   *)
LEMMA OneCloses ==
    ASSUME FleetInv, NEW w \in Worker, browser'[w].state # "open",
           \A v \in Worker \ {w} : browser'[v] = browser[v]
    PROVE  Running' = Running \/ (Of(w) \in Session /\ Running' = Running \ {Of(w)})
<1>1. CASE browser[w].state # "open"
  BY <1>1 DEF Running
<1>2. CASE browser[w].state = "open"
  BY <1>2, RunsAlone DEF Running
<1> QED BY <1>1, <1>2

(* Whoever leaves a profile held it and runs no more.                      *)
LEMMA EndLeaves ==
    ASSUME FleetInv, NEW w \in Worker, row[w].status = "allocated", browser[w].state # "open",
           EndSession(Of(w)), Running' = Running
    PROVE  Of(w) \in Session /\ Custody!Leave(Of(w))
<1> USE DEF FleetInv
<1> DEFINE s == Of(w)
<1>1. s \in Session /\ custody[ProfileOf[s]] = s /\ ProfileOf[s] \in Profile
  BY Typed DEF RowsInv, CustodyInv, Bound
<1>2. s \notin Running
  <2>1. ASSUME NEW v \in Worker, browser[v].state = "open", browser[v].session = s PROVE FALSE
    BY <1>1, <2>1, Typed DEF BrowsersInv, BrowserFits, RowsInv
  <2> QED BY <2>1 DEF Running
<1>3. custody' = [custody EXCEPT ![ProfileOf[s]] = NoSession]
  <2>1. \A p \in Profile : custody[p] = s => p = ProfileOf[s]
    BY <1>1, Typed DEF CustodyInv
  <2> HIDE DEF s
  <2>2. custody' = [p \in Profile |-> IF custody[p] = s THEN NoSession ELSE custody[p]]
    BY DEF EndSession, s
  <2> QED BY <1>1, <2>1, <2>2 DEF TypeOK
<1> QED BY <1>1, <1>2, <1>3 DEF Custody!Leave

(* Workers open and close. *)
LEMMA CustodyWorker ==
    ASSUME FleetInv, NEW c \in calls, Answers(c.worker),
           Launch(c) \/ LaunchFails(c) \/ LaunchedBefore(c) \/ Close(c) \/ NotOpen(c)
    PROVE  [Custody!AbsNext]_<<custody, Running>>
<1> USE DEF FleetInv
<1> DEFINE w == c.worker
<1>1. /\ w \in Worker /\ c.session \in Session /\ custody' = custody
      /\ c.op = "start" /\ browser[w].state = "clean" => custody[ProfileOf[c.session]] = c.session
  <2>1. custody' = custody
    BY DEF Launch, LaunchFails, LaunchedBefore, Close, NotOpen, Answer, queueVars
  <2> QED BY <2>1, Typed DEF CallsInv, CustodyInv
<1>2. CASE Launch(c)
  <2>1. /\ browser'[w].state = "open" /\ browser'[w].session = c.session
        /\ browser[w].state = "clean" /\ c.op = "start"
        /\ \A v \in Worker \ {w} : browser'[v] = browser[v]
    BY <1>1, <1>2 DEF Launch, TypeOK
  <2>2. Running' = Running \cup {c.session}
    BY <1>1, <2>1 DEF Running
  <2> QED BY <1>1, <2>1, <2>2 DEF Custody!AbsNext, Custody!Open
<1>3. CASE LaunchFails(c) \/ Close(c)
  <2>1. browser'[w].state # "open" /\ \A v \in Worker \ {w} : browser'[v] = browser[v]
    <3>1. CASE LaunchFails(c)
      BY <1>1, <3>1 DEF LaunchFails, TypeOK, Browser
    <3>2. CASE Close(c)
      <4>1. PICK lag \in BOOLEAN :
              browser' = [browser EXCEPT ![w].state = "closed", ![w].lag = lag]
        BY <3>2 DEF Close
      <4>2. browser \in [Worker -> Browser]
        BY DEF TypeOK
      <4> HIDE DEF w
      <4> QED BY <1>1, <4>1, <4>2 DEF Browser
    <3> QED BY <1>3, <3>1, <3>2
  <2>2. Running' = Running \/ (Of(w) \in Session /\ Running' = Running \ {Of(w)})
    BY <1>1, <2>1, OneCloses
  <2> QED BY <1>1, <2>2 DEF Custody!AbsNext, Custody!Close
<1>4. CASE LaunchedBefore(c) \/ NotOpen(c)
  <2>1. browser' = browser
    BY <1>4 DEF LaunchedBefore, NotOpen
  <2> QED BY <1>1, <2>1, SameRunning
<1> QED BY <1>2, <1>3, <1>4

(* Visits to workers end sessions whose pods are dead. *)
LEMMA CustodyVisit ==
    ASSUME FleetInv, NEW w \in Worker, VisitStep(w)
    PROVE  [Custody!AbsNext]_<<custody, Running>>
<1> USE DEF FleetInv
<1>1. ASSUME Dead(w), UNCHANGED browser, EndSession(Of(w)), Bound(w)
      PROVE  [Custody!AbsNext]_<<custody, Running>>
  <2>1. row[w].status = "allocated" /\ browser[w].state # "open" /\ Running' = Running
    BY <1>1, DeadHoldsNothing, SameRunning, Typed
  <2> QED BY <1>1, <2>1, EndLeaves DEF Custody!AbsNext
<1>2. CASE Bury(w)
  <2>1. CASE Bound(w)
    BY <1>1, <1>2, <2>1 DEF Bury, EndBound
  <2>2. CASE ~Bound(w)
    <3>1. UNCHANGED <<custody, browser>>
      BY <1>2, <2>2 DEF Bury, EndBound, queueVars
    <3> QED BY <3>1, SameRunning
  <2> QED BY <2>1, <2>2
<1>3. CASE BuryHalf(w)
  BY <1>1, <1>3 DEF BuryHalf, podVars
<1>4. CASE CreatePod(w)
  <2>1. browser[w] = CleanBrowser
    BY <1>4, NothingRuns DEF CreatePod, Unmade, Exists
  <2>2. UNCHANGED <<custody, browser>>
    BY <1>4, <2>1 DEF CreatePod, queueVars, TypeOK
  <2> QED BY <2>2, SameRunning
<1>5. CASE ~(Bury(w) \/ BuryHalf(w) \/ CreatePod(w))
  <2>1. UNCHANGED <<custody, browser>>
    BY <1>5 DEF VisitStep, NoPodYet, Retire, StillStarting, Attend, SendStart, SendStop, Send,
                VisitFails, queueVars, podVars
  <2> QED BY <2>1, SameRunning
<1> QED BY <1>2, <1>3, <1>4, <1>5

(* Publication ends a session whose browser is closed. *)
LEMMA CustodyPublish ==
    ASSUME FleetInv, Publish
    PROVE  [Custody!AbsNext]_<<custody, Running>>
<1>1. /\ tick.at \in Worker /\ row[tick.at].status = "allocated"
      /\ browser[tick.at].state # "open"
  BY Stopped DEF Publish
<1>2. Running' = Running
  <2>1. \A w \in Worker : /\ browser'[w].state = browser[w].state
                          /\ browser'[w].session = browser[w].session
    BY DEF Publish, Outdated, FleetInv, TypeOK, Browser
  <2> QED BY <2>1, SameRunning
<1>3. Of(tick.at) \in Session /\ Custody!Leave(Of(tick.at))
  BY <1>1, <1>2, EndLeaves DEF Publish
<1> QED BY <1>3 DEF Custody!AbsNext

(* Every step of the controller. *)
LEMMA CustodyTick ==
    ASSUME FleetInv, TickStep
    PROVE  [Custody!AbsNext]_<<custody, Running>>
<1> USE DEF FleetInv
<1>1. ASSUME NEW s \in Session, NEW w \in Worker, Bind(s, w)
      PROVE  [Custody!AbsNext]_<<custody, Running>>
  <2>1. custody[ProfileOf[s]] = NoSession /\ custody' = [custody EXCEPT ![ProfileOf[s]] = s]
    BY <1>1 DEF Bind, Candidates, Heads, Waiting
  <2>2. Running' = Running
    BY <1>1, SameRunning DEF Bind, podVars
  <2> QED BY <2>1, <2>2 DEF Custody!AbsNext, Custody!Take
<1>2. CASE PullRecording
  <2>1. \A w \in Worker : /\ browser'[w].state = browser[w].state
                          /\ browser'[w].session = browser[w].session
    BY <1>2 DEF PullRecording, TypeOK, Browser
  <2>2. custody' = custody
    BY <1>2 DEF PullRecording, queueVars
  <2> QED BY <2>1, <2>2, SameRunning
<1>3. CASE \/ BeginTick \/ Abandon \/ FailedVisit \/ DeleteSilentPod \/ Fulfil \/ FulfilTooLate
           \/ Resize \/ \E s \in Session : Delay(s)
  <2>1. UNCHANGED <<custody, browser>>
    BY <1>3 DEF BeginTick, Abandon, FailedVisit, DeleteSilentPod, Fulfil, FulfilTooLate, Resize,
                Delay, queueVars, podVars
  <2> QED BY <2>1, SameRunning
<1> QED BY <1>1, <1>2, <1>3, CustodyVisit, CustodyPublish DEF TickStep

(* Every step. *)
LEMMA CustodyStep ==
    ASSUME FleetInv, [Next]_vars
    PROVE  [Custody!AbsNext]_<<custody, Running>>
<1> USE DEF FleetInv
<1>1. ASSUME NEW w \in Worker, NEW state, PodEnds(w, state)
      PROVE  [Custody!AbsNext]_<<custody, Running>>
  <2>1. /\ browser'[w].state # "open" /\ custody' = custody
        /\ \A v \in Worker \ {w} : browser'[v] = browser[v]
    BY <1>1, Typed DEF PodEnds, queueVars, TypeOK
  <2>2. Running' = Running \/ (Of(w) \in Session /\ Running' = Running \ {Of(w)})
    BY <2>1, OneCloses
  <2> QED BY <2>1, <2>2 DEF Custody!AbsNext, Custody!Close
<1>2. ASSUME NEW p \in Profile, Import(p) PROVE [Custody!AbsNext]_<<custody, Running>>
  <2>1. custody' = custody
    BY <1>2 DEF Import, queueVars
  <2>2. \A w \in Worker : /\ browser'[w].state = browser[w].state
                          /\ browser'[w].session = browser[w].session
    BY <1>2 DEF Import, Outdated, TypeOK, Browser
  <2> QED BY <2>1, <2>2, SameRunning
<1>3. CASE \/ ControllerDies \/ UNCHANGED vars
           \/ \E w \in Worker : PodStarts(w)
           \/ \E s \in Session : Request(s) \/ Stop(s) \/ DelayPasses(s)
  <2>1. UNCHANGED <<custody, browser>>
    BY <1>3 DEF ControllerDies, PodStarts, Request, Stop, DelayPasses, vars, queueVars, podVars
  <2> QED BY <2>1, SameRunning
<1> QED
  BY <1>1, <1>2, <1>3, CustodyTick, CustodyWorker
  DEF Next, WorkerServes, Cluster, PodDeleted, PodLost

(* Sessions, rows, pods and workers implement ProfileCustody: a profile    *)
(* changes hands only while no browser has it open, whatever calls are     *)
(* lost or late and whichever pods or controllers die.                     *)
THEOREM ProfilesHaveOneCustodian == Spec => ImplementsCustody
<1>1. Init => Custody!AbsInit
  <2> SUFFICES ASSUME Init PROVE Custody!AbsInit
    OBVIOUS
  <2>1. Running = {}
    BY RowsTyped DEF Init, Running, CleanBrowser
  <2> QED BY <2>1 DEF Init, Custody!AbsInit
<1>2. FleetInv /\ [Next]_vars => [Custody!AbsNext]_<<custody, Running>>
  BY CustodyStep
<1> QED BY <1>1, <1>2, FleetInvariant, PTL DEF Spec, ImplementsCustody, Custody!AbsSpec
=============================================================================
