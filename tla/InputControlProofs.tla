------------------------- MODULE InputControlProofs --------------------------
(***************************************************************************)
(* Input ownership for any number of runs, tabs, handovers and faults.     *)
(***************************************************************************)
EXTENDS InputControl, TLAPS

(* The owner changes away from automation only under a new generation. *)
RowOrdered ==
    /\ session.ack <= session.gen
    /\ session.owner # "ai" => session.ack < session.gen

(* Nothing on its way, and nothing the worker holds, is ahead of the row. *)
NothingAhead ==
    /\ worker.gen <= session.gen
    /\ \A r \in requests : r.gen <= session.gen
    /\ controller.sent.gen <= session.gen

(* The worker has gone past what it acknowledged, or still agrees with it. *)
Acknowledged ==
    controller.pc = "acknowledged" /\ worker.life = "up" =>
       /\ controller.sent.gen <= worker.gen
       /\ controller.sent.gen = worker.gen => controller.sent.owner = worker.owner

ReadyMeansAgreed ==
    Active /\ Ready /\ worker.life = "up" =>
       worker.owner = "ai" /\ worker.gen = session.gen

HumanMeansDrained == worker.life = "up" /\ worker.owner = "human" => Drained

(* A waiting command's locks keep the row as it was when it was sent. *)
AwaitingMeansReady ==
    \A a \in Awaiting : Active /\ Ready /\ conn[a].gen = session.gen

EvidenceAged ==
    \A a \in Agent :
       /\ conn[a].gen <= session.gen
       /\ conn[a].pc \in {"off", "claimed"} => conn[a].evidence = "none"
       /\ conn[a].evidence # "none" => conn[a].gen <= session.ack
       /\ Active /\ conn[a].evidence = "stale" => conn[a].gen < session.gen
       /\ a \in Awaiting /\ conn[a].method = "act" => conn[a].evidence # "stale"

Typed ==
    /\ session \in Session
    /\ worker \in Worker
    /\ requests \subseteq Request
    /\ controller \in Controller
    /\ conn \in [Agent -> Connection]
    /\ holder \in [Tab -> Agent \cup {Nobody}]
    /\ late \subseteq Generation
    /\ viewer \in Generation \cup {0}

Counted == loose \in 0 .. MaxLoose /\ faults \in 0 .. MaxFaults

IInv == /\ Typed /\ RowOrdered /\ NothingAhead /\ Acknowledged
        /\ ReadyMeansAgreed /\ HumanMeansDrained
        /\ AwaitingMeansReady /\ EvidenceAged

-----------------------------------------------------------------------------
(* Types, one variable at a time. *)

LEMMA Generations == 1 \in Generation /\ \A g \in Generation : g + 1 \in Generation /\ g \in Nat
  BY DEF Generation

LEMMA RowTyped ==
    ASSUME Typed,
           Takeover \/ Resume \/ WindowPasses \/ ExpireTakeover \/ Stop \/ RecordResume
           \/ RecordPause \/ StopClosed \/ PublishAndEnd \/ EndLost \/ CloseView
    PROVE  session' \in Session
<1>1. session \in Session /\ session.gen \in Generation /\ session.gen + 1 \in Generation
  BY Generations DEF Typed, Session
<1> USE <1>1 DEF Session, Owner
<1>2. CASE Takeover
  BY <1>2 DEF Takeover
<1>3. CASE Resume
  BY <1>3 DEF Resume
<1>4. CASE WindowPasses
  BY <1>4 DEF WindowPasses
<1>5. CASE ExpireTakeover
  BY <1>5 DEF ExpireTakeover
<1>6. CASE Stop
  BY <1>6 DEF Stop, Stopping
<1>7. CASE RecordResume
  BY <1>7 DEF RecordResume
<1>8. CASE RecordPause
  BY <1>8 DEF RecordPause
<1>9. CASE StopClosed
  BY <1>9 DEF StopClosed, Stopping
<1>10. CASE PublishAndEnd
  BY <1>10 DEF PublishAndEnd, Ended
<1>11. CASE EndLost
  BY <1>11 DEF EndLost, Ended
<1>12. CASE CloseView
  BY <1>12 DEF CloseView
<1>13. QED
  BY <1>2, <1>3, <1>4, <1>5, <1>6, <1>7, <1>8, <1>9, <1>10, <1>11, <1>12

LEMMA IdleTyped == Done \in Controller /\ Failed \in Controller
  BY Generations DEF Done, Failed, IdleController, Controller, Request, Owner

LEMMA CallTyped ==
    ASSUME Typed, NEW request \in Request, Call(request)
    PROVE  Typed'
<1>1. controller' \in Controller
  BY DEF Typed, Call, Controller, Session
<1>2. QED
  BY <1>1 DEF Typed, Call, runVars

LEMMA AnswerTyped ==
    ASSUME Typed, NEW request \in requests,
           NEW pc \in {"acknowledged", "closed", "stopped", "failed"}, Answer(request, pc)
    PROVE  controller' \in Controller /\ requests' \subseteq Request
<1>1. controller \in Controller
  BY DEF Typed
<1>2. controller' \in Controller
  BY <1>1, IdleTyped DEF Answer, Controller
<1>3. QED
  BY <1>2 DEF Answer, Typed

LEMMA ConnectionTyped ==
    ASSUME Typed, NEW a \in Agent, NEW c \in Connection, conn' = [conn EXCEPT ![a] = c]
    PROVE  conn' \in [Agent -> Connection]
  BY DEF Typed

LEMMA TypeStep ==
    ASSUME Typed, [Next]_vars
    PROVE  Typed'
<1>g. session \in Session /\ session.gen \in Generation
  BY DEF Typed, Session
<1>c. \A a \in Agent : conn[a] \in Connection /\ conn[a].gen \in Generation
                       /\ conn[a].live \in BOOLEAN
  BY DEF Typed, Connection
<1>1. CASE Owners
  BY <1>1, RowTyped DEF Owners, RequestTakeover, Resume, WindowPasses, ExpireTakeover,
       Stop, Typed, fleetVars, runVars
<1>2. CASE Tick
  <2>1. CASE TickTakesOver
    BY <2>1, RowTyped DEF TickTakesOver, Typed, fleetVars, runVars
  <2>2. CASE SendControl
    <3>1. WantedOwner \in Owner
      BY <1>g DEF WantedOwner, Session, Owner
    <3>2. [op |-> "control", owner |-> WantedOwner, gen |-> session.gen] \in Request
      BY <3>1, <1>g DEF Request
    <3>3. QED
      BY <2>2, <3>2, CallTyped DEF SendControl
  <2>3. CASE SendStop
    <3>1. [op |-> "stop", owner |-> "paused", gen |-> session.gen] \in Request
      BY <1>g DEF Request, Owner
    <3>2. QED
      BY <2>3, <3>1, CallTyped DEF SendStop
  <2>4. CASE RecordResume
    BY <2>4, RowTyped, IdleTyped DEF RecordResume, Typed, runVars
  <2>5. CASE RecordPause
    BY <2>5, RowTyped, IdleTyped DEF RecordPause, Typed, runVars
  <2>6. CASE RecordHeartbeat
    BY <2>6, IdleTyped DEF RecordHeartbeat, Typed, runVars
  <2>7. CASE StopClosed
    BY <2>7, RowTyped, IdleTyped DEF StopClosed, Typed, runVars
  <2>8. CASE PublishAndEnd
    BY <2>8, RowTyped, IdleTyped DEF PublishAndEnd, Typed, runVars
  <2>9. CASE EndLost
    BY <2>9, RowTyped DEF EndLost, Typed, fleetVars, runVars
  <2>10. QED
    BY <1>2, <2>1, <2>2, <2>3, <2>4, <2>5, <2>6, <2>7, <2>8, <2>9 DEF Tick
<1>3. CASE RpcTimesOut
  BY <1>3, IdleTyped DEF RpcTimesOut, Typed, runVars
<1>4. ASSUME NEW r \in requests,
             Assign(r) \/ Repeat(r) \/ Conflict(r) \/ ReportClosed(r) \/ CloseBrowser(r)
      PROVE  Typed'
  <2>1. controller' \in Controller /\ requests' \subseteq Request
    BY <1>4, AnswerTyped DEF Assign, Repeat, Conflict, ReportClosed, CloseBrowser
  <2>2. worker \in Worker /\ r.owner \in Owner /\ r.gen \in Generation
    BY DEF Typed, Request
  <2>3. worker' \in Worker
    BY <1>4, <2>2 DEF Assign, Repeat, Conflict, ReportClosed, CloseBrowser, Worker, Owner
  <2>4. UNCHANGED <<session, conn, holder, late, viewer>>
    BY <1>4 DEF Assign, Repeat, Conflict, ReportClosed, CloseBrowser, Answer, runVars
  <2>5. QED
    BY <2>1, <2>3, <2>4 DEF Typed
<1>5. CASE BrowserCloses
  <2>1. worker' \in Worker
    BY <1>5 DEF BrowserCloses, Typed, Worker
  <2>2. QED
    BY <1>5, <2>1 DEF BrowserCloses, Typed, fleetVars, runVars
<1>6. CASE PodGone
  <2>1. worker' \in Worker
    BY <1>6 DEF PodGone, Typed, Worker
  <2>2. conn' \in [Agent -> Connection]
    BY <1>6, <1>c DEF PodGone, Idle, Connection
  <2>3. QED
    BY <1>6, <2>1, <2>2, IdleTyped DEF PodGone, Typed
<1>7. ASSUME NEW a \in Agent, RunSteps(a)
      PROVE  Typed'
  <2>1. CASE Claim(a)
    <3>1. conn' \in [Agent -> Connection]
      BY <2>1, <1>c DEF Claim, Connection, Typed
    <3>2. QED
      BY <2>1, <3>1 DEF Claim, Typed, fleetVars
  <2>2. CASE Connect(a)
    <3>1. [conn[a] EXCEPT !.pc = "idle", !.gen = session.gen] \in Connection
      BY <1>c, <1>g DEF Connection
    <3>2. conn' = [conn EXCEPT ![a] = [conn[a] EXCEPT !.pc = "idle", !.gen = session.gen]]
      BY <2>2 DEF Connect, Typed
    <3>3. conn' \in [Agent -> Connection]
      BY <3>1, <3>2, ConnectionTyped
    <3>4. QED
      BY <2>2, <3>3 DEF Connect, Typed, fleetVars
  <2>3. ASSUME NEW method \in {"perceive", "refresh", "act"},
               NEW evidence \in {"none", "current", "stale", "unanswered"},
               Transmit(a, method, evidence)
        PROVE  Typed'
    <3> DEFINE c == [conn[a] EXCEPT !.pc = "sent", !.method = method,
                                    !.gen = session.gen, !.evidence = evidence]
    <3>1. c \in Connection
      BY <1>c, <1>g DEF Connection
    <3>2. conn' = [conn EXCEPT ![a] = c]
      BY <2>3 DEF Transmit, Typed
    <3>3. conn' \in [Agent -> Connection]
      BY <3>1, <3>2, ConnectionTyped
    <3>4. QED
      BY <2>3, <3>3 DEF Transmit, Typed, fleetVars
  <2>e. conn[a].evidence \in {"none", "current", "stale", "unanswered"}
    BY <1>c DEF Connection
  <2>4. CASE Act(a)
    BY <2>4, <2>3, <2>e DEF Act
  <2>5. CASE Perceive(a)
    BY <2>5, <2>3, <2>e DEF Perceive
  <2>6. CASE AskHuman(a)
    <3>1. conn' \in [Agent -> Connection]
      BY <2>6, <1>c DEF AskHuman, Connection, Typed
    <3>2. QED
      BY <2>6, <3>1, RowTyped DEF AskHuman, Typed, fleetVars
  <2>7. CASE SkipHuman(a)
    <3>1. conn' \in [Agent -> Connection]
      BY <2>7, <1>c DEF SkipHuman, Connection, Typed
    <3>2. QED
      BY <2>7, <3>1 DEF SkipHuman, Typed, fleetVars
  <2>8. CASE AwaitResume(a)
    <3>1. \A e \in {"none", "current", "stale", "unanswered"} :
             [conn[a] EXCEPT !.pc = "refreshing", !.gen = session.gen, !.evidence = e]
                \in Connection
      BY <1>c, <1>g DEF Connection
    <3>2. [conn[a] EXCEPT !.pc = "idle"] \in Connection
      BY <1>c DEF Connection
    <3>3. PICK c \in Connection : conn' = [conn EXCEPT ![a] = c]
      BY <2>8, <2>e, <3>1, <3>2 DEF AwaitResume, Typed
    <3>4. conn' \in [Agent -> Connection]
      BY <3>3, ConnectionTyped
    <3>5. QED
      BY <2>8, <3>4 DEF AwaitResume, Typed, fleetVars
  <2>9. CASE Refresh(a)
    <3>1. CASE Transmit(a, "refresh", conn[a].evidence)
      BY <3>1, <2>3, <2>e
    <3>2. CASE ~Transmit(a, "refresh", conn[a].evidence)
      <4>1. conn' \in [Agent -> Connection]
        BY <2>9, <3>2, <1>c DEF Refresh, Connection, Typed
      <4>2. QED
        BY <2>9, <3>2, <4>1 DEF Refresh, Typed, fleetVars
    <3>3. QED
      BY <3>1, <3>2
  <2>10. CASE RunEnds(a)
    <3>1. [conn[a] EXCEPT !.live = FALSE] \in Connection
      BY <1>c DEF Connection
    <3>2. conn' = [conn EXCEPT ![a] = [conn[a] EXCEPT !.live = FALSE]]
      BY <2>10 DEF RunEnds, Typed
    <3>3. conn' \in [Agent -> Connection]
      BY <3>1, <3>2, ConnectionTyped
    <3>4. QED
      BY <2>10, <3>3 DEF RunEnds, Typed, fleetVars
  <2>11. CASE Release(a)
    <3>1. NewConnection(conn[a].live) \in Connection
      BY <1>c, Generations DEF NewConnection, Connection
    <3>2. conn' \in [Agent -> Connection]
      BY <2>11, <3>1, ConnectionTyped DEF Release
    <3>3. QED
      BY <2>11, <3>2 DEF Release, Typed, fleetVars
  <2>12. QED
    BY <1>7, <2>1, <2>2, <2>4, <2>5, <2>6, <2>7, <2>8, <2>9, <2>10, <2>11 DEF RunSteps
<1>8. ASSUME NEW a \in Agent, CommandSteps(a) \/ GiveUp(a)
      PROVE  Typed'
  <2>1. Idle(a) \in Connection
    BY <1>c DEF Idle, Connection
  <2>2. CASE Accept(a)
    <3>1. conn' \in [Agent -> Connection]
      BY <2>2, <1>c DEF Accept, Connection, Typed
    <3>2. QED
      BY <2>2, <3>1 DEF Accept, Typed, fleetVars
  <2>3. CASE Reject(a)
    BY <2>3, <2>1, ConnectionTyped DEF Reject, Typed, fleetVars
  <2>4. CASE Finish(a)
    <3>1. PICK pc \in {"idle", "challenged"}, evidence \in {"current", conn[a].evidence} :
             conn' = [conn EXCEPT ![a] = [Idle(a) EXCEPT !.pc = pc, !.evidence = evidence]]
      BY <2>4 DEF Finish
    <3>2. [Idle(a) EXCEPT !.pc = pc, !.evidence = evidence] \in Connection
      BY <2>1, <1>c DEF Connection
    <3>3. conn' \in [Agent -> Connection]
      BY <3>1, <3>2, ConnectionTyped
    <3>4. QED
      BY <2>4, <3>3 DEF Finish, Typed, fleetVars
  <2>5. CASE Detach(a)
    BY <2>5, <2>1, ConnectionTyped DEF Detach, Typed, fleetVars
  <2>6. CASE GiveUp(a)
    BY <2>6, <2>1, <1>c, ConnectionTyped DEF GiveUp, Typed, fleetVars
  <2>7. QED
    BY <1>8, <2>2, <2>3, <2>4, <2>5, <2>6 DEF CommandSteps
<1>9. ASSUME NEW g \in late, LateArrives(g)
      PROVE  Typed'
  BY <1>9 DEF LateArrives, Typed, fleetVars
<1>10. CASE LooseEnds
  BY <1>10 DEF LooseEnds, Typed, fleetVars
<1>11. CASE OpenView
  BY <1>11, <1>g DEF OpenView, Typed, fleetVars, runVars
<1>12. CASE HumanInput
  <2>1. conn' \in [Agent -> Connection]
    BY <1>12, <1>c DEF HumanInput, Connection
  <2>2. QED
    BY <1>12, <2>1 DEF HumanInput, Typed, fleetVars
<1>13. CASE CloseView
  BY <1>13, RowTyped DEF CloseView, Typed, fleetVars, runVars
<1>14. CASE GatewayDies
  BY <1>14 DEF GatewayDies, Typed, fleetVars, runVars
<1>15. CASE UNCHANGED vars
  BY <1>15 DEF vars, Typed
<1>16. QED
  BY <1>1, <1>2, <1>3, <1>4, <1>5, <1>6, <1>7, <1>8, <1>9, <1>10, <1>11, <1>12, <1>13,
     <1>14, <1>15 DEF Next, WorkerServes, PodDies, DeleteSilentPod

-----------------------------------------------------------------------------
(* What a step may do to the row: revoke, leave the owner alone, hand over  *)
(* to a human, or record that automation may go on.                         *)

Kept == /\ session'.gen = session.gen /\ session'.ack = session.ack
        /\ session'.owner = session.owner /\ session'.status = session.status

Revokes == /\ Awaiting = {}
           /\ session'.gen = session.gen + 1 /\ session'.ack = session.ack
           /\ Active' => Active

HandsOver == /\ Awaiting = {}
             /\ session'.gen = session.gen /\ session'.ack = session.ack
             /\ session.owner = "paused" /\ session'.owner = "human"
             /\ session'.status = session.status

Readies == /\ Awaiting = {}
           /\ session'.gen = session.gen /\ session'.ack = session.gen
           /\ session.owner = "ai" /\ session'.owner = "ai"
           /\ session'.status = session.status
           /\ controller.pc = "acknowledged" /\ controller.sent.owner = "ai"
           /\ controller.sent.gen = session.gen
           /\ worker' = worker

RowStep == Kept \/ Revokes \/ HandsOver \/ Readies

LEMMA EveryRowStep ==
    ASSUME Typed, [Next]_vars
    PROVE  RowStep
<1>g. session \in Session /\ session.gen \in Nat
  BY Generations DEF Typed, Session
<1>k. session' = session => Kept
  BY DEF Kept
<1> USE <1>g DEF Session, Active, Locked
<1>1. ASSUME Takeover, ~Locked
      PROVE  Revokes
  BY <1>1 DEF Takeover, Revokes
<1>2. CASE Owners
  <2>1. CASE RequestTakeover
    BY <2>1, <1>1 DEF RequestTakeover, RowStep
  <2>2. CASE Resume
    BY <2>2 DEF Resume, RowStep, Revokes
  <2>3. CASE WindowPasses
    BY <2>3 DEF WindowPasses, RowStep, Kept
  <2>4. CASE ExpireTakeover
    BY <2>4 DEF ExpireTakeover, RowStep, Revokes
  <2>5. CASE Stop
    BY <2>5 DEF Stop, Stopping, RowStep, Revokes
  <2>6. QED
    BY <1>2, <2>1, <2>2, <2>3, <2>4, <2>5 DEF Owners
<1>3. CASE Tick
  <2>1. CASE TickTakesOver
    BY <2>1, <1>1 DEF TickTakesOver, RowStep
  <2>2. CASE SendControl \/ SendStop \/ RecordHeartbeat
    BY <2>2, <1>k DEF SendControl, SendStop, RecordHeartbeat, Call, RowStep
  <2>3. CASE RecordResume
    BY <2>3, <1>k DEF RecordResume, RowStep, Readies, Current
  <2>4. CASE RecordPause
    BY <2>4, <1>k DEF RecordPause, RowStep, HandsOver, Pausable
  <2>5. CASE StopClosed
    BY <2>5, <1>k DEF StopClosed, Stopping, RowStep, Revokes
  <2>6. CASE PublishAndEnd
    BY <2>6, <1>k DEF PublishAndEnd, Ended, RowStep, Revokes
  <2>7. CASE EndLost
    BY <2>7 DEF EndLost, Ended, RowStep, Revokes
  <2>8. QED
    BY <1>3, <2>1, <2>2, <2>3, <2>4, <2>5, <2>6, <2>7 DEF Tick
<1>4. ASSUME NEW a \in Agent, AskHuman(a)
      PROVE  RowStep
  BY <1>4, <1>1 DEF AskHuman, RowStep
<1>5. CASE CloseView
  BY <1>5, <1>k DEF CloseView, RowStep, Revokes
<1>6. ASSUME NEW a \in Agent, RunSteps(a) \/ CommandSteps(a) \/ GiveUp(a), ~AskHuman(a)
      PROVE  session' = session
  BY <1>6 DEF RunSteps, CommandSteps, GiveUp, Claim, Connect, Act, Perceive, SkipHuman,
       AwaitResume, Refresh, RunEnds, Release, Accept, Reject, Finish, Detach, Transmit
<1>7. CASE WorkerServes
  BY <1>7, <1>k DEF WorkerServes, Assign, Repeat, Conflict, ReportClosed, CloseBrowser,
       Answer, RowStep
<1>8. CASE RpcTimesOut \/ BrowserCloses \/ PodDies \/ DeleteSilentPod \/ LooseEnds
           \/ OpenView \/ HumanInput \/ GatewayDies \/ (\E g \in late : LateArrives(g))
           \/ UNCHANGED vars
  BY <1>8, <1>k DEF RpcTimesOut, BrowserCloses, PodDies, DeleteSilentPod, PodGone, LooseEnds,
       OpenView, HumanInput, GatewayDies, LateArrives, vars, RowStep
<1>9. QED
  BY <1>2, <1>3, <1>4, <1>5, <1>6, <1>7, <1>8, <1>k DEF Next, RowStep

-----------------------------------------------------------------------------
(* What a step may do to the worker, to the controller and in between.      *)

Assigns ==
    \E r \in requests :
       /\ r.gen > worker.gen /\ Drained
       /\ worker'.gen = r.gen /\ worker'.owner = r.owner /\ worker'.life = worker.life
       /\ UNCHANGED <<session, conn, loose>>

Dies == worker'.gen = worker.gen /\ worker'.life # "up" /\ session' = session

WorkerStep == worker' = worker \/ Dies \/ Assigns

Answered == /\ controller'.sent = controller.sent
            /\ controller'.pc = "acknowledged" =>
                  worker'.gen = controller.sent.gen /\ worker'.owner = controller.sent.owner

ControllerStep ==
    \/ controller' = controller
    \/ controller'.pc = "idle" /\ controller'.sent.gen = 1
    \/ controller'.pc = "waiting" /\ controller'.sent.gen = session.gen /\ session' = session
    \/ Answered

RequestStep ==
    \A r \in requests' : r \in requests \/ (r.gen = session.gen /\ session' = session)

FleetStep == WorkerStep /\ ControllerStep /\ RequestStep

LEMMA IdleShape ==
    /\ Done.pc = "idle" /\ Done.sent.gen = 1
    /\ Failed.pc = "idle" /\ Failed.sent.gen = 1
  BY DEF Done, Failed, IdleController

LEMMA Calls ==
    ASSUME Typed, NEW request, request.gen = session.gen, Call(request)
    PROVE  FleetStep
<1>1. controller'.pc = "waiting" /\ controller'.sent = request
  BY DEF Call, Typed, Controller
<1>2. QED
  BY <1>1 DEF Call, FleetStep, WorkerStep, ControllerStep, RequestStep

LEMMA EveryFleetStep ==
    ASSUME Typed, [Next]_vars
    PROVE  FleetStep
<1>f. UNCHANGED <<worker, fleetVars>> => FleetStep
  BY DEF fleetVars, FleetStep, WorkerStep, ControllerStep, RequestStep
<1>i. UNCHANGED <<worker, requests>> /\ controller' \in {Done, Failed} => FleetStep
  BY IdleShape DEF FleetStep, WorkerStep, ControllerStep, RequestStep
<1>1. CASE Owners \/ OpenView \/ HumanInput \/ CloseView \/ GatewayDies \/ LooseEnds
           \/ (\E g \in late : LateArrives(g)) \/ UNCHANGED vars
  BY <1>1, <1>f DEF Owners, RequestTakeover, Resume, WindowPasses, ExpireTakeover, Stop,
       OpenView, HumanInput, CloseView, GatewayDies, LooseEnds, LateArrives, vars, fleetVars
<1>2. CASE Tick
  <2>1. CASE TickTakesOver \/ EndLost
    BY <2>1, <1>f DEF TickTakesOver, EndLost
  <2>2. CASE SendControl
    BY <2>2, Calls DEF SendControl
  <2>3. CASE SendStop
    BY <2>3, Calls DEF SendStop
  <2>4. CASE RecordResume \/ RecordPause \/ RecordHeartbeat \/ StopClosed \/ PublishAndEnd
    BY <2>4, <1>i DEF RecordResume, RecordPause, RecordHeartbeat, StopClosed, PublishAndEnd
  <2>5. QED
    BY <1>2, <2>1, <2>2, <2>3, <2>4 DEF Tick
<1>3. CASE RpcTimesOut
  BY <1>3, <1>i DEF RpcTimesOut
<1>4. ASSUME NEW r \in requests,
             Assign(r) \/ Repeat(r) \/ Conflict(r) \/ ReportClosed(r) \/ CloseBrowser(r)
      PROVE  FleetStep
  <2>t. worker \in Worker /\ r \in Request /\ controller \in Controller
    BY DEF Typed
  <2>1. WorkerStep
    BY <1>4, <2>t DEF Assign, Repeat, Conflict, ReportClosed, CloseBrowser, Answer, runVars,
         WorkerStep, Assigns, Dies, Worker
  <2>2. RequestStep
    BY <1>4 DEF Assign, Repeat, Conflict, ReportClosed, CloseBrowser, Answer, RequestStep
  <2>3. ASSUME NEW pc \in {"closed", "stopped", "failed"}, Answer(r, pc)
        PROVE  ControllerStep
    BY <2>3, <2>t, IdleShape DEF Answer, ControllerStep, Answered, Controller
  <2>4. ASSUME Answer(r, "acknowledged"), worker'.gen = r.gen, worker'.owner = r.owner
        PROVE  ControllerStep
    BY <2>4, <2>t, IdleShape DEF Answer, ControllerStep, Answered, Controller
  <2>5. ASSUME Assign(r) \/ Repeat(r)
        PROVE  ControllerStep
    BY <2>5, <2>4, <2>t DEF Assign, Repeat, Worker
  <2>6. ASSUME Conflict(r) \/ ReportClosed(r) \/ CloseBrowser(r)
        PROVE  ControllerStep
    BY <2>6, <2>3 DEF Conflict, ReportClosed, CloseBrowser
  <2>7. QED
    BY <1>4, <2>1, <2>2, <2>5, <2>6 DEF FleetStep
<1>5. CASE BrowserCloses
  <2>1. WorkerStep
    BY <1>5 DEF BrowserCloses, WorkerStep, Dies, Typed, Worker
  <2>2. QED
    BY <1>5, <2>1 DEF BrowserCloses, fleetVars, FleetStep, ControllerStep, RequestStep
<1>6. CASE PodGone
  <2>1. WorkerStep
    BY <1>6 DEF PodGone, WorkerStep, Dies, Typed, Worker
  <2>2. QED
    BY <1>6, <2>1, IdleShape DEF PodGone, FleetStep, ControllerStep, RequestStep
<1>7. ASSUME NEW a \in Agent, RunSteps(a) \/ CommandSteps(a) \/ GiveUp(a)
      PROVE  UNCHANGED <<worker, fleetVars>>
  BY <1>7 DEF RunSteps, CommandSteps, GiveUp, Claim, Connect, Act, Perceive, AskHuman,
       SkipHuman, AwaitResume, Refresh, RunEnds, Release, Accept, Reject, Finish, Detach,
       Transmit
<1>8. QED
  BY <1>1, <1>2, <1>3, <1>4, <1>5, <1>6, <1>7, <1>f DEF Next, WorkerServes, PodDies,
     DeleteSilentPod

-----------------------------------------------------------------------------
(* What a step may do to a connection. *)

Waits(c) == c.pc \in {"sent", "running"}

Same(c, d) == c.gen = d.gen /\ c.evidence = d.evidence

Rests(c, d) == /\ Same(c, d)
               /\ Waits(d) => Waits(c) /\ d.method = c.method
               /\ d.pc \in {"off", "claimed"} => c.pc \in {"off", "claimed"}

Adopts(c, d) ==
    /\ Active /\ Ready /\ session' = session
    /\ d.gen = session.gen
    /\ d.pc \notin {"off", "claimed"}
    /\ d.evidence = IF c.gen = session.gen THEN c.evidence ELSE "unanswered"
    /\ Waits(d) /\ d.method = "act" => c.gen = session.gen

Finishes(c, d) ==
    /\ Waits(c) /\ ~Waits(d) /\ d.gen = c.gen
    /\ d.evidence \in {"current", c.evidence}
    /\ d.pc \notin {"off", "claimed"}

Renews(c, d) ==
    /\ session' = session /\ ~Waits(d)
    /\ \/ d.gen = 1 /\ d.evidence = "none"
       \/ c.pc = "claimed" /\ d.gen = session.gen /\ d.evidence = c.evidence

GoesStale(c, d) ==
    /\ worker.life = "up" /\ worker.owner = "human" /\ session' = session
    /\ c.evidence # "none" /\ d.evidence = "stale"
    /\ d.gen = c.gen /\ d.pc = c.pc

ConnectionStep(c, d) ==
    Rests(c, d) \/ Adopts(c, d) \/ Finishes(c, d) \/ Renews(c, d) \/ GoesStale(c, d)

(* Operations start at the worker only while it takes orders from runs.     *)
BusyStep == \/ Drained => Drained'
            \/ worker' = worker /\ worker.owner = "ai"

LEMMA OneConnectionStep ==
    ASSUME Typed, NEW a \in Agent, NEW d, conn' = [conn EXCEPT ![a] = d],
           ConnectionStep(conn[a], d)
    PROVE  \A b \in Agent : ConnectionStep(conn[b], conn'[b])
<1>1. \A b \in Agent : conn'[b] = IF b = a THEN d ELSE conn[b]
  BY DEF Typed
<1>2. \A b \in Agent : Rests(conn[b], conn[b])
  BY DEF Rests, Same
<1>3. QED
  BY <1>1, <1>2 DEF ConnectionStep

LEMMA EveryConnectionStep ==
    ASSUME Typed, [Next]_vars
    PROVE  \A b \in Agent : ConnectionStep(conn[b], conn'[b])
<1>c. \A a \in Agent : conn[a] \in Connection
  BY DEF Typed
<1>k. ASSUME conn' = conn
      PROVE  \A b \in Agent : ConnectionStep(conn[b], conn'[b])
  BY <1>k DEF ConnectionStep, Rests, Same
<1>1. CASE Owners \/ Tick \/ RpcTimesOut \/ WorkerServes \/ BrowserCloses \/ LooseEnds
           \/ OpenView \/ CloseView \/ GatewayDies \/ (\E g \in late : LateArrives(g))
           \/ UNCHANGED vars
  BY <1>1, <1>k DEF Owners, RequestTakeover, Resume, WindowPasses, ExpireTakeover, Stop,
       Tick, TickTakesOver, SendControl, SendStop, Call, RecordResume, RecordPause,
       RecordHeartbeat, StopClosed, PublishAndEnd, EndLost, RpcTimesOut,
       WorkerServes, Assign, Repeat, Conflict, ReportClosed, CloseBrowser, Answer,
       BrowserCloses, LooseEnds, OpenView, CloseView, GatewayDies, LateArrives, runVars, vars
<1>2. CASE PodGone
  <2>1. \A b \in Agent : Rests(conn[b], Idle(b))
    BY <1>c DEF Idle, Connection, Rests, Same, Waits
  <2>2. \A b \in Agent : Rests(conn[b], conn[b])
    BY DEF Rests, Same
  <2>3. QED
    BY <1>2, <2>1, <2>2 DEF PodGone, ConnectionStep
<1>3. CASE HumanInput
  <2>1. \A b \in Agent : conn[b].evidence \in {"current", "unanswered"}
           => GoesStale(conn[b], [conn[b] EXCEPT !.evidence = "stale"])
    BY <1>3, <1>c DEF HumanInput, GoesStale, Connection
  <2>2. \A b \in Agent : Rests(conn[b], conn[b])
    BY DEF Rests, Same
  <2>3. QED
    BY <1>3, <2>1, <2>2 DEF HumanInput, ConnectionStep
<1>4. ASSUME NEW a \in Agent, RunSteps(a) \/ CommandSteps(a) \/ GiveUp(a)
      PROVE  \E d : conn' = [conn EXCEPT ![a] = d] /\ ConnectionStep(conn[a], d)
  <2>c. conn[a] \in Connection
    BY <1>c
  <2> USE <2>c DEF Connection, Typed
  <2>1. CASE Claim(a)
    <3>1. Rests(conn[a], [conn[a] EXCEPT !.pc = "claimed"])
      BY <2>1 DEF Claim, Rests, Same, Waits
    <3>2. QED
      BY <3>1, <2>1 DEF Claim, ConnectionStep
  <2>2. CASE Connect(a)
    <3>1. Renews(conn[a], [conn[a] EXCEPT !.pc = "idle", !.gen = session.gen])
      BY <2>2 DEF Connect, Renews, Waits
    <3>2. QED
      BY <3>1, <2>2 DEF Connect, ConnectionStep
  <2>3. CASE Act(a)
    <3> DEFINE d == [conn[a] EXCEPT !.pc = "sent", !.method = "act", !.gen = session.gen,
                                    !.evidence = conn[a].evidence]
    <3>1. Adopts(conn[a], d)
      BY <2>3 DEF Act, MaySend, Transmit, Adopts, Waits
    <3>2. conn' = [conn EXCEPT ![a] = d]
      BY <2>3 DEF Act, Transmit
    <3>3. QED
      BY <3>1, <3>2 DEF ConnectionStep
  <2>4. CASE Perceive(a)
    <3> DEFINE e == IF conn[a].gen = session.gen THEN conn[a].evidence ELSE "unanswered"
               d == [conn[a] EXCEPT !.pc = "sent", !.method = "perceive",
                                    !.gen = session.gen, !.evidence = e]
    <3>1. Adopts(conn[a], d)
      BY <2>4 DEF Perceive, MaySend, Transmit, Adopts, Waits
    <3>2. conn' = [conn EXCEPT ![a] = d]
      BY <2>4 DEF Perceive, Transmit
    <3>3. QED
      BY <3>1, <3>2 DEF ConnectionStep
  <2>5. CASE AskHuman(a)
    <3>1. Rests(conn[a], [conn[a] EXCEPT !.pc = "paused"])
      BY <2>5 DEF AskHuman, Rests, Same, Waits
    <3>2. QED
      BY <3>1, <2>5 DEF AskHuman, ConnectionStep
  <2>6. CASE SkipHuman(a)
    <3>1. \A pc \in {"refreshing", "idle"} : Rests(conn[a], [conn[a] EXCEPT !.pc = pc])
      BY <2>6 DEF SkipHuman, Rests, Same, Waits
    <3>2. QED
      BY <3>1, <2>6 DEF SkipHuman, ConnectionStep
  <2>7. CASE AwaitResume(a)
    <3>1. CASE conn[a].live /\ Active
      <4> DEFINE e == IF conn[a].gen = session.gen THEN conn[a].evidence ELSE "unanswered"
                 d == [conn[a] EXCEPT !.pc = "refreshing", !.gen = session.gen,
                                      !.evidence = e]
      <4>1. Adopts(conn[a], d)
        BY <3>1, <2>7 DEF AwaitResume, Adopts, Waits
      <4>2. conn' = [conn EXCEPT ![a] = d]
        BY <3>1, <2>7 DEF AwaitResume
      <4>3. QED
        BY <4>1, <4>2 DEF ConnectionStep
    <3>2. CASE ~(conn[a].live /\ Active)
      <4>1. Rests(conn[a], [conn[a] EXCEPT !.pc = "idle"])
        BY <2>7 DEF AwaitResume, Rests, Same, Waits
      <4>2. QED
        BY <4>1, <3>2, <2>7 DEF AwaitResume, ConnectionStep
    <3>3. QED
      BY <3>1, <3>2
  <2>8. CASE Refresh(a)
    <3>1. CASE MaySend(a) /\ conn[a].gen = session.gen
      <4> DEFINE d == [conn[a] EXCEPT !.pc = "sent", !.method = "refresh",
                                      !.gen = session.gen, !.evidence = conn[a].evidence]
      <4>1. Adopts(conn[a], d)
        BY <3>1, <2>8 DEF Refresh, MaySend, Transmit, Adopts, Waits
      <4>2. conn' = [conn EXCEPT ![a] = d]
        BY <3>1, <2>8 DEF Refresh, Transmit
      <4>3. QED
        BY <4>1, <4>2 DEF ConnectionStep
    <3>2. CASE ~(MaySend(a) /\ conn[a].gen = session.gen)
      <4>1. Rests(conn[a], [conn[a] EXCEPT !.pc = "idle"])
        BY <2>8 DEF Refresh, Rests, Same, Waits
      <4>2. QED
        BY <4>1, <3>2, <2>8 DEF Refresh, ConnectionStep
    <3>3. QED
      BY <3>1, <3>2
  <2>9. CASE RunEnds(a)
    <3>1. Rests(conn[a], [conn[a] EXCEPT !.live = FALSE])
      BY <2>9 DEF RunEnds, Rests, Same, Waits
    <3>2. QED
      BY <3>1, <2>9 DEF RunEnds, ConnectionStep
  <2>10. CASE Release(a)
    <3>1. Renews(conn[a], NewConnection(conn[a].live))
      BY <2>10 DEF Release, Renews, Waits, NewConnection
    <3>2. QED
      BY <3>1, <2>10 DEF Release, ConnectionStep
  <2>i. Rests(conn[a], Idle(a))
    BY DEF Idle, Rests, Same, Waits
  <2>11. CASE Accept(a)
    <3>1. Rests(conn[a], [conn[a] EXCEPT !.pc = "running"])
      BY <2>11 DEF Accept, Rests, Same, Waits
    <3>2. QED
      BY <3>1, <2>11 DEF Accept, ConnectionStep
  <2>12. CASE Reject(a) \/ Detach(a) \/ GiveUp(a)
    BY <2>i, <2>12 DEF Reject, Detach, GiveUp, ConnectionStep
  <2>13. CASE Finish(a)
    <3>1. PICK pc \in {"idle", "challenged"}, evidence \in {"current", conn[a].evidence} :
             conn' = [conn EXCEPT ![a] = [Idle(a) EXCEPT !.pc = pc, !.evidence = evidence]]
      BY <2>13 DEF Finish
    <3>2. Finishes(conn[a], [Idle(a) EXCEPT !.pc = pc, !.evidence = evidence])
      BY <2>13 DEF Finish, Idle, Finishes, Waits
    <3>3. QED
      BY <3>1, <3>2 DEF ConnectionStep
  <2>14. QED
    BY <1>4, <2>1, <2>2, <2>3, <2>4, <2>5, <2>6, <2>7, <2>8, <2>9, <2>10, <2>11, <2>12,
       <2>13 DEF RunSteps, CommandSteps
<1>5. ASSUME NEW a \in Agent, RunSteps(a) \/ CommandSteps(a) \/ GiveUp(a)
      PROVE  \A b \in Agent : ConnectionStep(conn[b], conn'[b])
  BY <1>5, <1>4, OneConnectionStep
<1>6. QED
  BY <1>1, <1>2, <1>3, <1>5 DEF Next, PodDies, DeleteSilentPod

LEMMA EveryBusyStep ==
    ASSUME Typed, [Next]_vars
    PROVE  BusyStep
<1>k. UNCHANGED <<conn, loose>> => BusyStep
  BY DEF BusyStep, Drained, Running
<1>1. CASE Owners \/ Tick \/ RpcTimesOut \/ WorkerServes \/ BrowserCloses
           \/ OpenView \/ CloseView \/ GatewayDies \/ UNCHANGED vars
  BY <1>1, <1>k DEF Owners, RequestTakeover, Resume, WindowPasses, ExpireTakeover, Stop,
       Tick, TickTakesOver, SendControl, SendStop, Call, RecordResume, RecordPause,
       RecordHeartbeat, StopClosed, PublishAndEnd, EndLost, RpcTimesOut,
       WorkerServes, Assign, Repeat, Conflict, ReportClosed, CloseBrowser, Answer,
       BrowserCloses, OpenView, CloseView, GatewayDies, runVars, vars
<1>2. CASE PodGone
  <2>1. \A b \in Agent : conn'[b].pc # "running"
    BY <1>2 DEF PodGone, Awaiting, Idle, Typed, Connection
  <2>2. QED
    BY <1>2, <2>1 DEF PodGone, BusyStep, Drained, Running
<1>3. CASE HumanInput
  <2>1. \A b \in Agent : conn'[b].pc = conn[b].pc
    BY <1>3 DEF HumanInput, Typed, Connection
  <2>2. QED
    BY <1>3, <2>1 DEF HumanInput, BusyStep, Drained, Running
<1>4. ASSUME NEW g \in late, LateArrives(g)
      PROVE  BusyStep
  BY <1>4 DEF LateArrives, Accepts, BusyStep, Drained, Running
<1>5. CASE LooseEnds
  BY <1>5 DEF LooseEnds, BusyStep, Drained
<1>6. ASSUME NEW a \in Agent, Accept(a)
      PROVE  BusyStep
  BY <1>6 DEF Accept, Accepts, BusyStep
<1>7. ASSUME NEW a \in Agent, Detach(a) \/ (GiveUp(a) /\ loose' # loose)
      PROVE  BusyStep
  BY <1>7 DEF Detach, GiveUp, BusyStep, Drained, Running
<1>8. ASSUME NEW a \in Agent,
             RunSteps(a) \/ Reject(a) \/ Finish(a) \/ (GiveUp(a) /\ loose' = loose)
      PROVE  BusyStep
  <2>1. PICK c : conn' = [conn EXCEPT ![a] = c] /\ c.pc # "running"
    <3>c. conn[a] \in Connection
      BY DEF Typed
    <3> USE <3>c DEF Connection
    <3>1. Idle(a).pc = "idle"
      BY DEF Idle
    <3>2. CASE Claim(a) \/ Connect(a) \/ AskHuman(a) \/ SkipHuman(a)
      BY <3>2 DEF Claim, Connect, AskHuman, SkipHuman
    <3>3. CASE Act(a) \/ Perceive(a) \/ Refresh(a)
      BY <3>3 DEF Act, Perceive, Refresh, Transmit
    <3>4. CASE AwaitResume(a) \/ Release(a)
      BY <3>4 DEF AwaitResume, Release, NewConnection
    <3>5. CASE RunEnds(a)
      <4>1. conn[a].pc # "running" /\ conn' = [conn EXCEPT ![a].live = FALSE]
        BY <3>5 DEF RunEnds, Awaiting
      <4>2. [conn[a] EXCEPT !.live = FALSE].pc = conn[a].pc
        OBVIOUS
      <4>3. QED
        BY <4>1, <4>2
    <3>6. CASE Reject(a) \/ GiveUp(a)
      BY <3>1, <3>6 DEF Reject, GiveUp
    <3>7. CASE Finish(a)
      <4>1. PICK pc \in {"idle", "challenged"}, evidence \in {"current", conn[a].evidence} :
             conn' = [conn EXCEPT ![a] = [Idle(a) EXCEPT !.pc = pc, !.evidence = evidence]]
        BY <3>7 DEF Finish
      <4>2. [Idle(a) EXCEPT !.pc = pc, !.evidence = evidence].pc # "running"
        BY DEF Idle
      <4>3. QED
        BY <4>1, <4>2
    <3>8. QED
      BY <1>8, <3>2, <3>3, <3>4, <3>5, <3>6, <3>7 DEF RunSteps
  <2>2. \A b \in Agent : conn'[b].pc = "running" => conn[b].pc = "running"
    BY <2>1 DEF Typed
  <2>3. loose' = loose
    BY <1>8 DEF RunSteps, Claim, Connect, Act, Perceive, AskHuman, SkipHuman, AwaitResume,
         Refresh, RunEnds, Release, Reject, Finish, Transmit
  <2>4. QED
    BY <2>2, <2>3 DEF BusyStep, Drained, Running
<1>9. QED
  BY <1>1, <1>2, <1>3, <1>4, <1>5, <1>6, <1>7, <1>8
     DEF Next, PodDies, DeleteSilentPod, CommandSteps

-----------------------------------------------------------------------------
(* The invariant, one conjunct at a time, from what a step may do. *)

LEMMA Numbers ==
    ASSUME Typed
    PROVE  /\ session.gen \in Nat /\ session.ack \in Nat
           /\ session.gen >= 1
           /\ worker.gen \in Nat /\ controller.sent.gen \in Nat
           /\ \A r \in requests : r.gen \in Nat
           /\ \A a \in Agent : conn[a].gen \in Nat
  BY DEF Typed, Generation, Session, Worker, Controller, Request, Connection

LEMMA RowStepOrders ==
    ASSUME Typed, RowOrdered, RowStep
    PROVE  /\ RowOrdered'
           /\ session.gen <= session'.gen /\ session.ack <= session'.ack
           /\ Active' => Active
  BY Numbers DEF RowOrdered, RowStep, Kept, Revokes, HandsOver, Readies, Active

LEMMA FleetStepBehind ==
    ASSUME Typed, IInv, Typed', RowStep, FleetStep
    PROVE  NothingAhead' /\ Acknowledged'
<1>n. /\ session.gen \in Nat /\ session'.gen \in Nat /\ worker.gen \in Nat
      /\ controller.sent.gen \in Nat /\ \A r \in requests : r.gen \in Nat
  BY Numbers DEF Typed, Session, Generation
<1>g. session.gen <= session'.gen /\ 1 <= session'.gen
  BY Numbers, RowStepOrders, <1>n DEF IInv
<1>1. worker'.gen <= session'.gen
  BY <1>n, <1>g DEF IInv, NothingAhead, FleetStep, WorkerStep, Dies, Assigns
<1>2. \A r \in requests' : r.gen <= session'.gen
  BY <1>n, <1>g DEF IInv, NothingAhead, FleetStep, RequestStep
<1>3. controller'.sent.gen <= session'.gen
  BY <1>n, <1>g DEF IInv, NothingAhead, FleetStep, ControllerStep, Answered
<1>4. ASSUME controller'.pc = "acknowledged", worker'.life = "up"
      PROVE  /\ controller'.sent.gen <= worker'.gen
             /\ controller'.sent.gen = worker'.gen => controller'.sent.owner = worker'.owner
  <2>1. CASE controller' = controller
    BY <2>1, <1>4, <1>n DEF IInv, Acknowledged, FleetStep, WorkerStep, Dies, Assigns
  <2>2. CASE Answered
    BY <2>2, <1>4, <1>n DEF Answered
  <2>3. QED
    BY <2>1, <2>2, <1>4 DEF FleetStep, ControllerStep
<1>5. QED
  BY <1>1, <1>2, <1>3, <1>4 DEF NothingAhead, Acknowledged

LEMMA ReadyStaysAgreed ==
    ASSUME Typed, IInv, RowStep, FleetStep
    PROVE  ReadyMeansAgreed'
<1> SUFFICES ASSUME Active', Ready', worker'.life = "up"
             PROVE  worker'.owner = "ai" /\ worker'.gen = session'.gen
  BY DEF ReadyMeansAgreed
<1>w. worker' = worker \/ Assigns
  BY DEF FleetStep, WorkerStep, Dies
<1>1. CASE Kept
  <2>1. worker.life = "up" => worker.owner = "ai" /\ worker.gen = session.gen
    BY <1>1 DEF Kept, IInv, ReadyMeansAgreed, Active, Ready
  <2>2. ~Assigns
    BY <2>1, Numbers DEF Assigns, IInv, NothingAhead
  <2>3. QED
    BY <1>1, <1>w, <2>1, <2>2 DEF Kept
<1>2. CASE Revokes
  BY <1>2, Numbers DEF Revokes, Ready, IInv, RowOrdered
<1>3. CASE HandsOver
  BY <1>3 DEF HandsOver, Ready
<1>4. CASE Readies
  BY <1>4, Numbers DEF Readies, IInv, Acknowledged, NothingAhead
<1>5. QED
  BY <1>1, <1>2, <1>3, <1>4 DEF RowStep

LEMMA HumanStaysDrained ==
    ASSUME IInv, FleetStep, BusyStep
    PROVE  HumanMeansDrained'
<1> SUFFICES ASSUME worker'.life = "up", worker'.owner = "human"
             PROVE  Drained'
  BY DEF HumanMeansDrained
<1>1. CASE worker' = worker
  BY <1>1 DEF IInv, HumanMeansDrained, BusyStep
<1>2. CASE Assigns
  BY <1>2 DEF Assigns, Drained, Running
<1>3. QED
  BY <1>1, <1>2 DEF FleetStep, WorkerStep, Dies

LEMMA ConnectionsStay ==
    ASSUME Typed, IInv, Typed', RowStep,
           \A b \in Agent : ConnectionStep(conn[b], conn'[b])
    PROVE  AwaitingMeansReady' /\ EvidenceAged'
<1>n. /\ session.gen \in Nat /\ session.ack \in Nat /\ session'.gen \in Nat
      /\ session'.ack \in Nat /\ \A a \in Agent : conn[a].gen \in Nat
  BY Numbers DEF Typed, Session, Generation
<1>g. /\ session.gen <= session'.gen /\ session.ack <= session'.ack
      /\ 1 <= session'.gen /\ (Active' => Active)
  BY Numbers, RowStepOrders, <1>n DEF IInv
<1>a. ASSUME NEW a \in Agent
      PROVE  /\ a \in Awaiting <=> Waits(conn[a])
             /\ a \in Awaiting' <=> Waits(conn'[a])
  BY DEF Awaiting, Waits
<1>k. ASSUME NEW a \in Agent, Waits(conn[a])
      PROVE  Kept /\ Active /\ Ready /\ conn[a].gen = session.gen
  BY <1>k, <1>a DEF RowStep, Revokes, HandsOver, Readies, IInv, AwaitingMeansReady
<1>h. worker.life = "up" /\ worker.owner = "human" => ~(Active /\ Ready)
  BY DEF IInv, ReadyMeansAgreed
<1>1. ASSUME NEW a \in Agent
      PROVE  /\ a \in Awaiting' => Active' /\ Ready' /\ conn'[a].gen = session'.gen
             /\ conn'[a].gen <= session'.gen
             /\ conn'[a].pc \in {"off", "claimed"} => conn'[a].evidence = "none"
             /\ conn'[a].evidence # "none" => conn'[a].gen <= session'.ack
             /\ Active' /\ conn'[a].evidence = "stale" => conn'[a].gen < session'.gen
             /\ a \in Awaiting' /\ conn'[a].method = "act" => conn'[a].evidence # "stale"
  <2>e. /\ conn[a].gen <= session.gen
        /\ conn[a].pc \in {"off", "claimed"} => conn[a].evidence = "none"
        /\ conn[a].evidence # "none" => conn[a].gen <= session.ack
        /\ Active /\ conn[a].evidence = "stale" => conn[a].gen < session.gen
        /\ Waits(conn[a]) /\ conn[a].method = "act" => conn[a].evidence # "stale"
    BY <1>a DEF IInv, EvidenceAged
  <2>n. conn[a].gen \in Nat
    BY <1>n
  <2>r. Kept /\ Active /\ Ready => Active' /\ Ready' /\ session'.gen = session.gen
    BY DEF Kept, Active, Ready
  <2>1. CASE Rests(conn[a], conn'[a])
    BY <2>1, <2>e, <2>n, <2>r, <1>n, <1>g, <1>a, <1>k DEF Rests, Same
  <2>2. CASE Adopts(conn[a], conn'[a])
    <3>1. Active' /\ Ready' /\ session'.gen = session.gen /\ session.ack = session.gen
      BY <2>2 DEF Adopts, Active, Ready
    <3>2. QED
      BY <2>2, <2>e, <2>n, <3>1, <1>n, <1>g, <1>a DEF Adopts
  <2>3. CASE Finishes(conn[a], conn'[a])
    <3>1. session.ack = session.gen
      BY <2>3, <1>k DEF Finishes, Ready
    <3>2. QED
      BY <2>3, <2>e, <2>n, <3>1, <1>n, <1>g, <1>a DEF Finishes
  <2>4. CASE Renews(conn[a], conn'[a])
    BY <2>4, <2>e, <1>n, <1>g, <1>a DEF Renews
  <2>5. CASE GoesStale(conn[a], conn'[a])
    <3>1. ~(Active /\ Ready) /\ session' = session
      BY <2>5, <1>h DEF GoesStale
    <3>2. Active => session.ack < session.gen
      BY <3>1, <1>n DEF IInv, RowOrdered, Ready
    <3>3. ~Waits(conn'[a]) /\ a \notin Awaiting'
      BY <2>5, <3>1, <1>k, <1>a DEF GoesStale, Waits
    <3>4. QED
      BY <2>5, <2>e, <2>n, <3>1, <3>2, <3>3, <1>n, <1>g DEF GoesStale, Waits
  <2>6. QED
    BY <2>1, <2>2, <2>3, <2>4, <2>5 DEF ConnectionStep
<1>2. QED
  BY <1>1 DEF AwaitingMeansReady, EvidenceAged, Awaiting

LEMMA InitIsInvariant == Init => IInv
<1> SUFFICES ASSUME Init PROVE IInv
  OBVIOUS
<1>1. session \in Session /\ worker \in Worker
  BY Generations DEF Init, Session, Worker, Owner
<1>2. \A a \in Agent : conn[a] = NewConnection(TRUE) /\ conn[a] \in Connection
  BY Generations DEF Init, NewConnection, Connection
<1>3. Typed
  BY <1>1, <1>2, IdleTyped DEF Init, Typed, Done
<1>4. /\ session.gen = 1 /\ session.ack = 1 /\ session.owner = "ai"
      /\ worker.gen = 1 /\ worker.owner = "ai" /\ requests = {}
  BY DEF Init
<1>5. controller.pc = "idle" /\ controller.sent.gen = 1
  BY DEF Init, IdleController
<1>6. Awaiting = {}
  BY <1>2 DEF Awaiting, NewConnection
<1>7. RowOrdered /\ NothingAhead /\ Acknowledged /\ ReadyMeansAgreed /\ HumanMeansDrained
  BY <1>4, <1>5 DEF RowOrdered, NothingAhead, Acknowledged, ReadyMeansAgreed,
       HumanMeansDrained
<1>8. AwaitingMeansReady /\ EvidenceAged
  BY <1>2, <1>4, <1>6 DEF AwaitingMeansReady, EvidenceAged, NewConnection
<1>9. QED
  BY <1>3, <1>7, <1>8 DEF IInv

LEMMA StepKeepsInvariant == IInv /\ [Next]_vars => IInv'
<1> SUFFICES ASSUME IInv, [Next]_vars PROVE IInv'
  OBVIOUS
<1>1. Typed
  BY DEF IInv
<1>2. Typed' /\ RowStep /\ FleetStep /\ BusyStep
      /\ \A b \in Agent : ConnectionStep(conn[b], conn'[b])
  BY <1>1, TypeStep, EveryRowStep, EveryFleetStep, EveryBusyStep, EveryConnectionStep
<1>3. RowOrdered'
  BY <1>1, <1>2, RowStepOrders DEF IInv
<1>4. NothingAhead' /\ Acknowledged'
  BY <1>1, <1>2, FleetStepBehind
<1>5. ReadyMeansAgreed' /\ HumanMeansDrained'
  BY <1>1, <1>2, ReadyStaysAgreed, HumanStaysDrained
<1>6. AwaitingMeansReady' /\ EvidenceAged'
  BY <1>1, <1>2, ConnectionsStay
<1>7. QED
  BY <1>2, <1>3, <1>4, <1>5, <1>6 DEF IInv

LEMMA InvariantHolds == Spec => []IInv
  BY InitIsInvariant, StepKeepsInvariant, PTL DEF Spec

LEMMA CountsStep ==
    ASSUME Typed, Counted, [Next]_vars
    PROVE  Counted'
<1>1. MaxLoose \in Nat /\ MaxFaults \in Nat /\ loose \in 0 .. MaxLoose /\ faults \in 0 .. MaxFaults
  BY InputAssumption DEF Counted
<1>2. loose' \in 0 .. MaxLoose
  <2>1. CASE Owners \/ Tick \/ RpcTimesOut \/ WorkerServes \/ BrowserCloses \/ HumanInput
             \/ OpenView \/ CloseView \/ GatewayDies \/ UNCHANGED vars
    BY <1>1, <2>1 DEF Owners, RequestTakeover, Resume, WindowPasses, ExpireTakeover, Stop,
       Tick, TickTakesOver, SendControl, SendStop, Call, RecordResume, RecordPause,
       RecordHeartbeat, StopClosed, PublishAndEnd, EndLost, RpcTimesOut,
       WorkerServes, Assign, Repeat, Conflict, ReportClosed, CloseBrowser, Answer,
       BrowserCloses, HumanInput, OpenView, CloseView, GatewayDies, runVars, vars
  <2>2. CASE PodGone \/ LooseEnds \/ (\E g \in late : LateArrives(g))
    BY <1>1, <2>2 DEF PodGone, LooseEnds, LateArrives
  <2>3. ASSUME NEW a \in Agent, RunSteps(a) \/ CommandSteps(a) \/ GiveUp(a)
        PROVE  loose' \in 0 .. MaxLoose
    BY <1>1, <2>3 DEF RunSteps, CommandSteps, GiveUp, Claim, Connect, Act, Perceive, AskHuman,
       SkipHuman, AwaitResume, Refresh, RunEnds, Release, Accept, Reject, Finish, Detach,
       Transmit
  <2>4. QED
    BY <2>1, <2>2, <2>3 DEF Next, PodDies, DeleteSilentPod
<1>3. faults' = faults \/ Fault
  <2>1. CASE Owners \/ Tick \/ WorkerServes \/ HumanInput \/ OpenView \/ CloseView
             \/ UNCHANGED vars \/ LooseEnds \/ (\E g \in late : LateArrives(g))
    BY <2>1 DEF Owners, RequestTakeover, Resume, WindowPasses, ExpireTakeover, Stop,
       Tick, TickTakesOver, SendControl, SendStop, Call, RecordResume, RecordPause,
       RecordHeartbeat, StopClosed, PublishAndEnd, EndLost,
       WorkerServes, Assign, Repeat, Conflict, ReportClosed, CloseBrowser, Answer,
       HumanInput, OpenView, CloseView, LooseEnds, LateArrives, vars
  <2>2. CASE RpcTimesOut \/ BrowserCloses \/ PodDies \/ DeleteSilentPod \/ GatewayDies
    BY <2>2 DEF RpcTimesOut, BrowserCloses, PodDies, DeleteSilentPod, GatewayDies
  <2>3. ASSUME NEW a \in Agent, RunSteps(a) \/ CommandSteps(a) \/ GiveUp(a)
        PROVE  faults' = faults \/ Fault
    BY <2>3 DEF RunSteps, CommandSteps, GiveUp, Claim, Connect, Act, Perceive, AskHuman,
       SkipHuman, AwaitResume, Refresh, RunEnds, Release, Accept, Reject, Finish, Detach,
       Transmit
  <2>4. QED
    BY <2>1, <2>2, <2>3 DEF Next
<1>4. faults' \in 0 .. MaxFaults
  BY <1>1, <1>3 DEF Fault
<1>5. QED
  BY <1>2, <1>4 DEF Counted

LEMMA CountsHold == Spec => []Counted
<1>1. Init => Counted
  BY InputAssumption DEF Init, Counted
<1>2. Typed /\ Counted /\ [Next]_vars => Counted'
  BY CountsStep
<1>3. IInv => Typed
  BY DEF IInv
<1>4. QED
  BY <1>1, <1>2, <1>3, InvariantHolds, PTL DEF Spec

-----------------------------------------------------------------------------
(* Row, worker, calls and connections keep their types, and no counter     *)
(* passes its bound: whatever the row store, the controller and the worker *)
(* do to each other (browser-session-control, apps/fleet, browser-worker). *)
THEOREM TypeCorrect == Spec => []TypeOK
<1>1. IInv /\ Counted => TypeOK
  BY DEF IInv, Typed, Counted, TypeOK
<1>2. QED
  BY <1>1, InvariantHolds, CountsHold, PTL

(* While the worker belongs to a human no operation of a run goes on there *)
(* and the row lets none start, for any number of runs and handovers.      *)
THEOREM OneOwnerOfInput == Spec => []OneInputOwner
<1>1. IInv => OneInputOwner
  BY DEF IInv, HumanMeansDrained, ReadyMeansAgreed, OneInputOwner
<1>2. QED
  BY <1>1, InvariantHolds, PTL

(* No run acts on what it saw before a human touched the page (the         *)
(* generation check of browser-hosted), for any number of handovers.       *)
THEOREM StaleEvidenceIsNotActedOn == Spec => []NoActOnStaleEvidence
<1>1. IInv => NoActOnStaleEvidence
  BY DEF IInv, EvidenceAged, Awaiting, Running, NoActOnStaleEvidence
<1>2. QED
  BY <1>1, InvariantHolds, PTL

(* Row, controller, worker and runs together implement InputOwnership:     *)
(* every handover goes through a browser that belongs to nobody.           *)
THEOREM HandoversGoThroughNobody == Spec => ImplementsOwnership
<1>1. Init => Ownership!AbsInit
  BY DEF Init, Ownership!AbsInit, Turn
<1>2. ASSUME IInv, [Next]_vars
      PROVE  [Ownership!Grant \/ Ownership!Revoke]_Turn
  <2>1. Typed /\ RowStep /\ FleetStep /\ BusyStep
    BY <1>2, EveryRowStep, EveryFleetStep, EveryBusyStep DEF IInv
  <2>2. ASSUME Turn = "human"
        PROVE  Turn' # "ai"
    <3> SUFFICES ASSUME Turn' = "ai" PROVE FALSE
      OBVIOUS
    <3>1. worker.life = "up" /\ worker.owner = "human"
      BY <2>2 DEF Turn
    <3>2. Drained'
      BY <1>2, <2>1, <3>1 DEF IInv, HumanMeansDrained, BusyStep
    <3>3. Active' /\ Ready' /\ worker' # worker
      BY <3>1, <3>2 DEF Turn
    <3>4. ~(Active /\ Ready)
      BY <1>2, <3>1 DEF IInv, ReadyMeansAgreed
    <3>5. ~Revokes
      BY <1>2, <2>1, <3>3, Numbers DEF IInv, RowOrdered, Revokes, Ready
    <3>6. QED
      BY <2>1, <3>3, <3>4, <3>5 DEF RowStep, Kept, HandsOver, Readies, Active, Ready
  <2>3. ASSUME Turn = "ai"
        PROVE  Turn' # "human"
    <3> SUFFICES ASSUME Turn' = "human" PROVE FALSE
      OBVIOUS
    <3>1. worker'.life = "up" /\ worker'.owner = "human"
      BY DEF Turn
    <3>2. ~(worker.life = "up" /\ worker.owner = "human") /\ ((Active /\ Ready) \/ ~Drained)
      BY <2>3 DEF Turn
    <3>3. Assigns
      BY <2>1, <3>1, <3>2 DEF FleetStep, WorkerStep, Dies
    <3>4. Active /\ Ready /\ worker.life = "up"
      BY <3>1, <3>2, <3>3 DEF Assigns
    <3>5. worker.gen = session.gen
      BY <1>2, <3>4 DEF IInv, ReadyMeansAgreed
    <3>6. QED
      BY <1>2, <2>1, <3>3, <3>5, Numbers DEF IInv, NothingAhead, Assigns
  <2>4. Turn \in {"ai", "human", "nobody"} /\ Turn' \in {"ai", "human", "nobody"}
    BY DEF Turn
  <2>5. QED
    BY <2>2, <2>3, <2>4 DEF Ownership!Grant, Ownership!Revoke
<1>3. QED
  BY <1>1, <1>2, InvariantHolds, PTL DEF Spec, ImplementsOwnership, Ownership!AbsSpec
=============================================================================
