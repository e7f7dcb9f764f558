-------------------------- MODULE AgentRunsProofs --------------------------
(***************************************************************************)
(* The journal and the shared history of executors, for any number of      *)
(* runs, triggers, operations and cells and any deaths and failed writes.  *)
(***************************************************************************)
EXTENDS AgentRuns, SequenceTheorems, TLAPS

ProcessRow == [pc : {"new", "acquiring", "ready", "cell", "closing", "returning", "gone"},
               lane : {"compiled", "ai"}, cells : 0 .. MaxCells,
               stopped : BOOLEAN, ok : BOOLEAN, seen : Seq(Op), told : SUBSET Turn,
               left : SUBSET Op]
OpRow == [run : Run \cup {None}, phase : InHandler \cup {"new", "over"},
          unknown : BOOLEAN, overtaken : BOOLEAN]
JournalRow == [inFlight : SUBSET Op, flag : BOOLEAN]

(* Attempts of one trigger do not overlap. *)
AttemptsApart ==
    /\ \A r, s \in Run :
          r # s /\ JournalKey(r) = JournalKey(s) /\ row[r] = "running" => row[s] \in {"waiting", "failed"}
    /\ \A r \in Run : row[r] \in {"waiting", "failed"} => process[r].pc \in {"new", "gone"}

(* Handlers and their writes belong to an open cell. *)
HandlersInCells ==
    /\ \A o \in Op : op[o].run = None <=> op[o].phase = "new"
    /\ \A r \in Run : \A o \in Active(r) : process[r].pc = "cell"
    /\ \A r \in Run : process[r].pc = "cell" => process[r].cells \in 1 .. MaxCells

(* A write is queued once, for a handler that waits for it. *)
WritesOf(r) ==
    /\ queue[r] # <<>> => process[r].pc = "cell"
    /\ \A i \in 1 .. Len(queue[r]) :
          op[queue[r][i]].run = r /\ op[queue[r][i]].phase \in {"starting", "back"}
    /\ \A i, j \in 1 .. Len(queue[r]) : queue[r][i] = queue[r][j] => i = j

WritesWanted == \A r \in Run : WritesOf(r)

(* What the keeper read and was told is what the history holds. *)
KeeperUpToDate ==
    /\ \A o, p \in Op : op[o].run = op[p].run /\ op[o].phase = "read" /\ op[p].phase = "read" => o = p
    /\ \A o \in Op : op[o].phase = "read" /\ keeper = op[o].run => process[op[o].run].seen = history.archive
    /\ \A r \in Run : keeper = r /\ process[r].pc \in {"ready", "cell"} => process[r].told = history.talk

(* What may be sent is in the journal, and until it is answered its        *)
(* outcome is not called unknown.                                          *)
EffectsJournaled ==
    /\ \A o \in Op : op[o].phase \in {"ready", "sent"} =>
          journal[KeyOf(o)].flag \/ o \in journal[KeyOf(o)].inFlight
    /\ \A o \in Op : op[o].unknown => op[o].phase \notin {"new", "starting", "ready", "sent"}

(* An open cell that owes no reconciliation has only its own in flight.    *)
CellStartsClean ==
    \A r \in Run : /\ Leased(r) /\ process[r].pc = "cell" /\ ~journal[JournalKey(r)].flag
                   => journal[JournalKey(r)].inFlight \subseteq OpsOf(r)

IInv ==
    /\ TypeOK /\ AttemptsApart /\ HandlersInCells /\ WritesWanted /\ KeeperUpToDate
    /\ EffectsJournaled /\ CellStartsClean /\ UnknownIsFlagged

-----------------------------------------------------------------------------
LEMMA Types ==
    TypeOK <=>
       /\ row \in [Run -> {"waiting", "running", "succeeded", "failed", "ended"}]
       /\ process \in [Run -> ProcessRow]
       /\ op \in [Op -> OpRow]
       /\ queue \in [Run -> Seq(Op)]
       /\ journal \in [Key -> JournalRow]
       /\ keeper \in Run \cup {None}
       /\ history \in [archive : Seq(Op), talk : SUBSET Turn]
       /\ faults \in 0 .. MaxFaults
BY DEF TypeOK, ProcessRow, OpRow, JournalRow

LEMMA Constants ==
    /\ None \notin Run /\ MaxCells \in Nat /\ MaxFaults \in Nat
    /\ \A r \in Run : JournalKey(r) \in Key
BY AgentAssumption DEF JournalKey, Key

Status == {"waiting", "running", "succeeded", "failed", "ended"}

(* The steps of a process itself: nothing is called, written or saved.     *)
LEMMA ProcessMove ==
    ASSUME IInv, NEW r \in Run, NEW p \in ProcessRow,
           process' = [process EXCEPT ![r] = p], UNCHANGED <<op, queue, journal, history>>,
           \/ p.pc = process[r].pc /\ p.cells = process[r].cells /\ p.seen = process[r].seen
           \/ Active(r) = {} /\ queue[r] = <<>> /\ p.pc # "cell",
           row' \in [Run -> Status], AttemptsApart', faults' \in 0 .. MaxFaults,
           \A s \in Run : row'[s] = "running" => row[s] = "running" \/ (s = r /\ p.pc # "cell"),
           keeper' \in {keeper, None, r},
           keeper' = r => keeper = r \/ Active(r) = {},
           keeper' = r /\ p.pc \in {"ready", "cell"} => p.told = history.talk
    PROVE  IInv'
<1>1. /\ process \in [Run -> ProcessRow] /\ op \in [Op -> OpRow] /\ None \notin Run
      /\ process' \in [Run -> ProcessRow] /\ process'[r] = p
      /\ \A s \in Run : s # r => process'[s] = process[s]
  BY Types, Constants DEF IInv
<1>2. TypeOK'
  BY <1>1, Types DEF IInv, TypeOK, Status, ProcessRow, OpRow, JournalRow
<1>3. HandlersInCells'
  BY <1>1 DEF IInv, HandlersInCells, Active, OpsOf
<1>4. WritesWanted'
  BY <1>1 DEF IInv, WritesWanted, WritesOf
<1>5. KeeperUpToDate'
  <2>1. \A o \in Op : op[o].phase = "read" => o \in Active(op[o].run) /\ op[o].run \in Run
    BY <1>1 DEF IInv, HandlersInCells, Active, OpsOf, InHandler, OpRow
  <2>2. ASSUME NEW o \in Op, op[o].phase = "read", keeper' = op[o].run
        PROVE  process'[op[o].run].seen = history.archive
    BY <1>1, <2>1, <2>2 DEF IInv, KeeperUpToDate
  <2>3. ASSUME NEW s \in Run, keeper' = s, process'[s].pc \in {"ready", "cell"}
        PROVE  process'[s].told = history.talk
    BY <1>1, <2>3 DEF IInv, KeeperUpToDate
  <2>4. QED
    BY <2>2, <2>3 DEF IInv, KeeperUpToDate
<1>6. EffectsJournaled'
  BY DEF IInv, EffectsJournaled, KeyOf, JournalKey
<1>7. CellStartsClean'
  BY <1>1 DEF IInv, CellStartsClean, Leased, JournalKey, OpsOf
<1>8. UnknownIsFlagged'
  BY DEF IInv, UnknownIsFlagged, Unknown, KeyOf, JournalKey
<1>9. QED
  BY <1>2, <1>3, <1>4, <1>5, <1>6, <1>7, <1>8 DEF IInv

(* What may happen to the queue of writes when operation o moves.          *)
LEMMA QueueMove ==
    ASSUME IInv, NEW r \in Run, NEW o \in Op, op' \in [Op -> OpRow],
           \A u \in Op \ {o} : op'[u].run = op[u].run /\ op'[u].phase = op[u].phase,
           op'[o].run = r, op[o].phase # "new" => op[o].run = r,
           process[r].pc = "cell", \A s \in Run : process'[s].pc = process[s].pc,
           \/ /\ queue' = queue
              /\ op[o].phase \notin {"starting", "back"} \/ op'[o].phase = op[o].phase
           \/ /\ queue' = [queue EXCEPT ![r] = Append(queue[r], o)]
              /\ op[o].phase \notin {"starting", "back"} /\ op'[o].phase \in {"starting", "back"}
           \/ /\ queue' = [queue EXCEPT ![r] = Tail(queue[r])]
              /\ queue[r] # <<>> /\ o = Head(queue[r])
    PROVE  WritesWanted' /\ queue' \in [Run -> Seq(Op)]
<1>1. queue \in [Run -> Seq(Op)] /\ op \in [Op -> OpRow] /\ \A s \in Run : WritesOf(s)
  BY Types DEF IInv, WritesWanted
<1>2. ASSUME NEW s \in Run, queue'[s] = queue[s],
             \A i \in 1 .. Len(queue[s]) :
                 queue[s][i] # o \/ (op'[o].phase = op[o].phase /\ op'[o].run = op[o].run)
      PROVE  WritesOf(s)'
  <2>1. \A i \in 1 .. Len(queue[s]) : queue[s][i] \in Op
    BY <1>1
  <2>2. \A i \in 1 .. Len(queue[s]) :
           op'[queue[s][i]].run = s /\ op'[queue[s][i]].phase \in {"starting", "back"}
    BY <1>1, <1>2, <2>1 DEF WritesOf
  <2>3. QED
    BY <1>1, <1>2, <2>2 DEF WritesOf
<1>3. ASSUME op[o].phase \notin {"starting", "back"}, NEW s \in Run
      PROVE  \A i \in 1 .. Len(queue[s]) : queue[s][i] # o
  BY <1>1, <1>3 DEF WritesOf
<1>4. CASE queue' = queue /\ (op[o].phase \notin {"starting", "back"} \/ op'[o].phase = op[o].phase)
  <2>1. ASSUME NEW s \in Run PROVE WritesOf(s)'
    <3>1. \A i \in 1 .. Len(queue[s]) :
             queue[s][i] # o \/ (op'[o].phase = op[o].phase /\ op'[o].run = op[o].run)
      BY <1>1, <1>3, <1>4 DEF WritesOf
    <3>2. QED
      BY <1>2, <1>4, <3>1
  <2>2. QED
    BY <1>1, <1>4, <2>1 DEF WritesWanted
<1>5. CASE /\ queue' = [queue EXCEPT ![r] = Append(queue[r], o)]
           /\ op[o].phase \notin {"starting", "back"} /\ op'[o].phase \in {"starting", "back"}
  <2>1. /\ queue' \in [Run -> Seq(Op)] /\ \A s \in Run : s # r => queue'[s] = queue[s]
        /\ Len(queue[r]) \in Nat /\ Len(queue'[r]) = Len(queue[r]) + 1
        /\ queue'[r][Len(queue[r]) + 1] = o
        /\ \A i \in 1 .. Len(queue[r]) : queue'[r][i] = queue[r][i]
    BY <1>1, <1>5, AppendProperties
  <2>2. \A s \in Run : s # r => WritesOf(s)'
    BY <1>2, <1>3, <1>5, <2>1
  <2>3. \A i \in 1 .. Len(queue'[r]) :
           \/ i \in 1 .. Len(queue[r]) /\ queue'[r][i] = queue[r][i] /\ queue'[r][i] # o /\ queue'[r][i] \in Op
           \/ i = Len(queue[r]) + 1 /\ queue'[r][i] = o
    BY <1>1, <1>3, <1>5, <2>1
  <2>4. ASSUME NEW i \in 1 .. Len(queue'[r])
        PROVE  op'[queue'[r][i]].run = r /\ op'[queue'[r][i]].phase \in {"starting", "back"}
    <3>1. CASE i \in 1 .. Len(queue[r]) /\ queue'[r][i] = queue[r][i] /\ queue'[r][i] # o /\ queue'[r][i] \in Op
      BY <1>1, <3>1 DEF WritesOf
    <3>2. CASE queue'[r][i] = o
      BY <1>5, <3>2
    <3>3. QED
      BY <2>3, <3>1, <3>2
  <2>5. \A i, j \in 1 .. Len(queue'[r]) : queue'[r][i] = queue'[r][j] => i = j
    BY <1>1, <2>3, SMTT(30) DEF WritesOf
  <2>6. QED
    BY <2>1, <2>2, <2>4, <2>5 DEF WritesOf, WritesWanted
<1>6. CASE /\ queue' = [queue EXCEPT ![r] = Tail(queue[r])]
           /\ queue[r] # <<>> /\ o = Head(queue[r])
  <2>1. /\ queue' \in [Run -> Seq(Op)] /\ \A s \in Run : s # r => queue'[s] = queue[s]
        /\ Len(queue[r]) \in Nat /\ Len(queue[r]) > 0
        /\ Len(queue'[r]) = Len(queue[r]) - 1 /\ o = queue[r][1]
        /\ \A i \in 1 .. Len(queue'[r]) : queue'[r][i] = queue[r][i + 1]
    BY <1>1, <1>6, HeadTailProperties, EmptySeq
  <2>2. op[o].run = r
    BY <1>1, <2>1 DEF WritesOf
  <2>3. ASSUME NEW s \in Run, s # r PROVE WritesOf(s)'
    <3>1. \A i \in 1 .. Len(queue[s]) : queue[s][i] # o
      BY <1>1, <2>2, <2>3 DEF WritesOf
    <3>2. QED
      BY <1>2, <2>1, <2>3, <3>1
  <2>4. \A i \in 1 .. Len(queue'[r]) :
           /\ i + 1 \in 1 .. Len(queue[r]) /\ 1 \in 1 .. Len(queue[r])
           /\ queue'[r][i] = queue[r][i + 1] /\ queue[r][i + 1] \in Op
    BY <1>1, <2>1
  <2>5. ASSUME NEW i \in 1 .. Len(queue'[r]), queue'[r][i] = o PROVE FALSE
    <3>1. i \in Int /\ i > 0 /\ i + 1 = 1
      BY <1>1, <2>1, <2>4, <2>5 DEF WritesOf
    <3>2. QED
      BY <3>1
  <2>6. \A i \in 1 .. Len(queue'[r]) :
           op'[queue'[r][i]].run = r /\ op'[queue'[r][i]].phase \in {"starting", "back"}
    <3>1. ASSUME NEW i \in 1 .. Len(queue'[r])
          PROVE  /\ op'[queue'[r][i]].run = op[queue[r][i + 1]].run
                 /\ op'[queue'[r][i]].phase = op[queue[r][i + 1]].phase
      BY <2>4, <2>5, SMTT(30)
    <3>2. \A k \in 1 .. Len(queue[r]) :
             op[queue[r][k]].run = r /\ op[queue[r][k]].phase \in {"starting", "back"}
      BY <1>1 DEF WritesOf
    <3>3. ASSUME NEW i \in 1 .. Len(queue'[r])
          PROVE  op'[queue'[r][i]].run = r /\ op'[queue'[r][i]].phase \in {"starting", "back"}
      <4>1. i + 1 \in 1 .. Len(queue[r])
        BY <2>4
      <4>2. op[queue[r][i + 1]].run = r /\ op[queue[r][i + 1]].phase \in {"starting", "back"}
        BY <3>2, <4>1
      <4>3. QED
        BY <3>1, <4>2
    <3>4. QED
      BY <3>3
  <2>7. ASSUME NEW i \in 1 .. Len(queue'[r]), NEW j \in 1 .. Len(queue'[r]), queue'[r][i] = queue'[r][j]
        PROVE  i = j
    <3>1. i \in Int /\ j \in Int /\ i + 1 = j + 1
      BY <1>1, <2>4, <2>7 DEF WritesOf
    <3>2. QED
      BY <3>1
  <2>8. WritesOf(r)'
    BY <2>6, <2>7 DEF WritesOf
  <2>9. QED
    BY <2>1, <2>3, <2>8 DEF WritesWanted
<1>7. QED
  BY <1>4, <1>5, <1>6

(* The steps of one operation besides its writes to the journal.           *)
LEMMA OpMove ==
    ASSUME IInv, NEW r \in Run, NEW o \in Op, NEW w \in OpRow,
           op' = [op EXCEPT ![o] = w], UNCHANGED <<row, journal, keeper>>,
           w.run = r, w.phase # "new", op[o].phase # "new" => op[o].run = r,
           process[r].pc = "cell",
           process' \in [Run -> ProcessRow],
           \A s \in Run : /\ process'[s].pc = process[s].pc /\ process'[s].cells = process[s].cells
                          /\ process'[s].told = process[s].told,
           w.phase \in {"ready", "sent"} => op[o].phase \in {"ready", "sent"},
           w.unknown => w.phase \notin {"starting", "ready", "sent"},
           w.unknown => op[o].unknown \/ op[o].phase \in {"ready", "sent"},
           w.overtaken = op[o].overtaken
    PROVE  /\ op' \in [Op -> OpRow] /\ op'[o] = w /\ \A u \in Op \ {o} : op'[u] = op[u]
           /\ AttemptsApart' /\ HandlersInCells' /\ EffectsJournaled' /\ CellStartsClean'
           /\ UnknownIsFlagged'
           /\ (/\ history' = history /\ \A s \in Run : process'[s].seen = process[s].seen
               /\ w.phase # "read") => KeeperUpToDate'
<1>1. /\ process \in [Run -> ProcessRow] /\ op \in [Op -> OpRow] /\ op' \in [Op -> OpRow]
      /\ op'[o] = w /\ \A u \in Op \ {o} : op'[u] = op[u]
  BY Types DEF IInv
<1>2. AttemptsApart'
  BY <1>1 DEF IInv, AttemptsApart, JournalKey
<1>3. HandlersInCells'
  <2>1. \A u \in Op : op'[u].run = None <=> op'[u].phase = "new"
    BY <1>1, Constants DEF IInv, HandlersInCells
  <2>2. ASSUME NEW s \in Run, NEW u \in Active(s)' PROVE process'[s].pc = "cell"
    <3>1. u = o => s = r
      BY <1>1, <2>2 DEF Active, OpsOf
    <3>2. u # o => u \in Active(s)
      BY <1>1, <2>2 DEF Active, OpsOf
    <3>3. QED
      BY <3>1, <3>2 DEF IInv, HandlersInCells
  <2>3. QED
    BY <2>1, <2>2 DEF IInv, HandlersInCells
<1>4. \A u \in Op : op[u].phase # "new" => op'[u].run = op[u].run /\ KeyOf(u)' = KeyOf(u)
  BY <1>1 DEF KeyOf, JournalKey
<1>5. EffectsJournaled'
  BY <1>1, <1>4 DEF IInv, EffectsJournaled
<1>6. CellStartsClean'
  <2>1. \A s \in Run : OpsOf(s) \subseteq OpsOf(s)'
    BY <1>1, Constants DEF IInv, HandlersInCells, OpsOf
  <2>2. QED
    BY <2>1 DEF IInv, CellStartsClean, Leased, JournalKey
<1>7. UnknownIsFlagged'
  <2>1. \A u \in Op : u \in Unknown' => op[u].phase # "new"
    BY <1>1 DEF IInv, EffectsJournaled, Unknown
  <2>2. \A u \in Op \ {o} : u \in Unknown' => u \in Unknown
    BY <1>1 DEF Unknown
  <2>3. o \in Unknown' => op[o].overtaken \/ journal[KeyOf(o)].flag \/ o \in journal[KeyOf(o)].inFlight
    BY <1>1 DEF IInv, Unknown, UnknownIsFlagged, EffectsJournaled
  <2>4. ASSUME NEW u \in Op, u \in Unknown'
        PROVE  op'[u].overtaken \/ journal'[KeyOf(u)'].flag \/ u \in journal'[KeyOf(u)'].inFlight
    <3>1. op'[u].overtaken = op[u].overtaken /\ KeyOf(u)' = KeyOf(u)
      BY <1>1, <1>4, <2>1, <2>4
    <3>2. op[u].overtaken \/ journal[KeyOf(u)].flag \/ u \in journal[KeyOf(u)].inFlight
      BY <2>2, <2>3, <2>4 DEF IInv, UnknownIsFlagged
    <3>3. QED
      BY <3>1, <3>2
  <2>5. QED
    BY <2>4 DEF UnknownIsFlagged, Unknown
<1>8. ASSUME history' = history, \A s \in Run : process'[s].seen = process[s].seen,
             w.phase # "read"
      PROVE  KeeperUpToDate'
  <2>1. ASSUME NEW u \in Op, op'[u].phase = "read"
        PROVE  u # o /\ op'[u] = op[u] /\ op[u].phase = "read" /\ op[u].run \in Run
    <3>1. u # o /\ op'[u] = op[u] /\ op[u].phase = "read"
      BY <1>1, <1>8, <2>1
    <3>2. op[u].run # None /\ op[u].run \in Run \cup {None}
      BY <1>1, <3>1 DEF IInv, HandlersInCells, OpRow
    <3>3. QED
      BY <3>1, <3>2
  <2>2. ASSUME NEW u \in Op, NEW q \in Op, op'[u].run = op'[q].run,
               op'[u].phase = "read", op'[q].phase = "read"
        PROVE  u = q
    BY <2>1, <2>2 DEF IInv, KeeperUpToDate
  <2>3. ASSUME NEW u \in Op, op'[u].phase = "read", keeper' = op'[u].run
        PROVE  process'[op'[u].run].seen = history'.archive
    <3>1. op'[u] = op[u] /\ op[u].phase = "read" /\ op[u].run \in Run /\ keeper = op[u].run
      BY <2>1, <2>3
    <3>2. process[op[u].run].seen = history.archive
      BY <3>1 DEF IInv, KeeperUpToDate
    <3>3. QED
      BY <1>8, <3>1, <3>2
  <2>4. ASSUME NEW s \in Run, keeper' = s, process'[s].pc \in {"ready", "cell"}
        PROVE  process'[s].told = history'.talk
    <3>1. keeper = s /\ process[s].pc \in {"ready", "cell"} /\ process'[s].told = process[s].told
      BY <2>4
    <3>2. QED
      BY <1>8, <3>1 DEF IInv, KeeperUpToDate
  <2>5. QED
    BY <2>2, <2>3, <2>4 DEF KeeperUpToDate
<1>9. QED
  BY <1>1, <1>2, <1>3, <1>5, <1>6, <1>7, <1>8
-----------------------------------------------------------------------------
LEMMA OutOfCell ==
    ASSUME IInv, NEW r \in Run, process[r].pc # "cell" PROVE Active(r) = {} /\ queue[r] = <<>>
BY DEF IInv, HandlersInCells, WritesWanted, WritesOf

LEMMA CellIsOver ==
    ASSUME NEW r \in Run, CellOver(r)
    PROVE  process[r].pc = "cell" /\ Active(r) = {} /\ queue[r] = <<>>
BY DEF CellOver

LEMMA SameRow ==
    ASSUME IInv, NEW r \in Run, process[r].pc \notin {"new", "gone"}, row' = row,
           \A s \in Run : s # r => process'[s].pc = process[s].pc
    PROVE  AttemptsApart' /\ row' \in [Run -> Status]
           /\ \A s \in Run : row'[s] = "running" => row[s] = "running"
BY Types DEF IInv, AttemptsApart, JournalKey, Status

LEMMA StartKeeps ==
    ASSUME IInv, NEW r \in Run, Start(r) PROVE IInv'
<1>1. PICK lane \in {"compiled", "ai"} :
         process' = [process EXCEPT ![r].pc = "acquiring", ![r].lane = lane]
  BY DEF Start
<1> DEFINE p == [process[r] EXCEPT !.pc = "acquiring", !.lane = lane]
<1>2. process \in [Run -> ProcessRow] /\ row \in [Run -> Status] /\ faults \in 0 .. MaxFaults
  BY Types DEF IInv, Status
<1>3. p \in ProcessRow /\ p.pc = "acquiring"
  BY <1>2 DEF ProcessRow
<1>4. process' = [process EXCEPT ![r] = p]
  BY <1>1, <1>2
<1>5. row' = [row EXCEPT ![r] = "running"] /\ row' \in [Run -> Status]
  BY <1>2 DEF Start, Status
<1>6. process[r].pc # "cell" /\ Active(r) = {} /\ queue[r] = <<>>
  BY OutOfCell DEF IInv, AttemptsApart, Start
<1>7. AttemptsApart'
  <2>1. process'[r].pc = "acquiring" /\ \A s \in Run : s # r => process'[s] = process[s]
    BY <1>2, <1>3, <1>4
  <2>2. row'[r] = "running" /\ \A s \in Run : s # r => row'[s] = row[s]
    BY <1>2, <1>5
  <2>3. \A s \in Run \ {r} : JournalKey(s) = JournalKey(r) => row[s] \in {"waiting", "failed"}
    BY DEF Start
  <2>4. \A s \in Run : JournalKey(s)' = JournalKey(s)
    BY DEF JournalKey
  <2>5. QED
    BY <2>1, <2>2, <2>3, <2>4 DEF IInv, AttemptsApart
<1>8. \A s \in Run : row'[s] = "running" => row[s] = "running" \/ (s = r /\ p.pc # "cell")
  BY <1>2, <1>3, <1>5
<1>9. keeper' = keeper /\ UNCHANGED <<op, queue, journal, history, faults>>
  BY DEF Start
<1> HIDE DEF p
<1>10. QED
  BY <1>2, <1>3, <1>4, <1>5, <1>6, <1>7, <1>8, <1>9, ProcessMove

LEMMA RevokeKeeps ==
    ASSUME IInv, NEW r \in Run, Revoke(r) PROVE IInv'
<1>1. process \in [Run -> ProcessRow] /\ row \in [Run -> Status] /\ faults \in 0 .. MaxFaults
  BY Types DEF IInv, Status
<1>2. process' = [process EXCEPT ![r] = process[r]]
  BY <1>1 DEF Revoke
<1>3. row' = [row EXCEPT ![r] = "ended"] /\ row' \in [Run -> Status]
  BY <1>1 DEF Revoke, Status
<1>4. AttemptsApart'
  BY <1>1, <1>3 DEF IInv, AttemptsApart, JournalKey, Revoke
<1>5. keeper = r /\ process[r].pc \in {"ready", "cell"} => process[r].told = history.talk
  BY DEF IInv, KeeperUpToDate
<1>6. \A s \in Run : row'[s] = "running" => row[s] = "running"
  BY <1>1, <1>3
<1>7. QED
  BY <1>1, <1>2, <1>3, <1>4, <1>5, <1>6, ProcessMove DEF Revoke

LEMMA AcquireKeeps ==
    ASSUME IInv, NEW r \in Run, Acquire(r) PROVE IInv'
<1> DEFINE p == [process[r] EXCEPT !.pc = "ready", !.told = history.talk]
<1>1. process \in [Run -> ProcessRow] /\ history.talk \in SUBSET Turn /\ faults \in 0 .. MaxFaults
  BY Types DEF IInv
<1>2. p \in ProcessRow /\ p.pc = "ready" /\ p.told = history.talk
  BY <1>1 DEF ProcessRow
<1>3. process' = [process EXCEPT ![r] = p]
  BY <1>1 DEF Acquire
<1>4. Active(r) = {} /\ queue[r] = <<>> /\ process[r].pc \notin {"new", "gone"}
  BY OutOfCell DEF Acquire
<1>5. AttemptsApart' /\ row' \in [Run -> Status] /\ \A s \in Run : row'[s] = "running" => row[s] = "running"
  BY <1>1, <1>3, <1>4, SameRow DEF Acquire
<1> HIDE DEF p
<1>6. QED
  BY <1>1, <1>2, <1>3, <1>4, <1>5, ProcessMove DEF Acquire

LEMMA ReleaseKeeps ==
    ASSUME IInv, NEW r \in Run, Release(r) PROVE IInv'
<1> DEFINE p == [process[r] EXCEPT !.pc = "returning"]
<1>1. process \in [Run -> ProcessRow] /\ faults \in 0 .. MaxFaults /\ MaxFaults \in Nat
  BY Types, Constants DEF IInv
<1>2. p \in ProcessRow /\ p.pc = "returning"
  BY <1>1 DEF ProcessRow
<1>3. process' = [process EXCEPT ![r] = p]
  BY <1>1 DEF Release
<1>4. Active(r) = {} /\ queue[r] = <<>> /\ process[r].pc \notin {"new", "gone"}
  BY OutOfCell DEF Release
<1>5. AttemptsApart' /\ row' \in [Run -> Status] /\ \A s \in Run : row'[s] = "running" => row[s] = "running"
  BY <1>1, <1>3, <1>4, SameRow DEF Release
<1>6. keeper' \in {keeper, None} /\ faults' \in 0 .. MaxFaults
  BY <1>1 DEF Release, Fault
<1>7. keeper' = r => keeper = r \/ Active(r) = {}
  BY <1>4
<1> HIDE DEF p
<1>8. QED
  BY <1>1, <1>2, <1>3, <1>4, <1>5, <1>6, <1>7, ProcessMove DEF Release

LEMMA SettleKeeps ==
    ASSUME IInv, NEW r \in Run, Settle(r) PROVE IInv'
<1> DEFINE p == NoProcess("gone")
<1>1. process \in [Run -> ProcessRow] /\ row \in [Run -> Status] /\ faults \in 0 .. MaxFaults /\ MaxCells \in Nat
  BY Types, Constants DEF IInv, Status
<1>2. p \in ProcessRow /\ p.pc = "gone"
  BY <1>1, EmptySeq DEF ProcessRow, NoProcess
<1>3. process' = [process EXCEPT ![r] = p]
  BY DEF Settle
<1>4. Active(r) = {} /\ queue[r] = <<>> /\ process[r].pc \notin {"new", "gone"}
  BY OutOfCell DEF Settle
<1>5. /\ row' \in [Run -> Status] /\ \A s \in Run : s # r => row'[s] = row[s]
      /\ \/ row'[r] = row[r] /\ row[r] # "running"
         \/ row[r] = "running" /\ row'[r] \in {"succeeded", "failed"}
  BY <1>1 DEF Settle, Leased, Status
<1>6. AttemptsApart'
  <2>1. process'[r].pc = "gone" /\ \A s \in Run : s # r => process'[s] = process[s]
    BY <1>1, <1>2, <1>3
  <2>2. \A s, q \in Run : s # q /\ JournalKey(s)' = JournalKey(q)' /\ row'[s] = "running"
           => row'[q] \in {"waiting", "failed"}
    <3>1. ASSUME NEW s \in Run, NEW q \in Run, s # q, JournalKey(s) = JournalKey(q), row'[s] = "running"
          PROVE  row'[q] \in {"waiting", "failed"}
      <4>1. row[s] = "running" /\ s # r
        BY <1>5, <3>1
      <4>2. row[q] \in {"waiting", "failed"}
        BY <3>1, <4>1 DEF IInv, AttemptsApart
      <4>3. QED
        BY <1>5, <4>2
    <3>2. QED
      BY <3>1 DEF JournalKey
  <2>3. \A s \in Run : row'[s] \in {"waiting", "failed"} => process'[s].pc \in {"new", "gone"}
    BY <1>5, <2>1 DEF IInv, AttemptsApart
  <2>4. QED
    BY <2>2, <2>3 DEF AttemptsApart
<1>7. \A s \in Run : row'[s] = "running" => row[s] = "running"
  BY <1>5
<1>8. keeper' = keeper /\ UNCHANGED <<op, queue, journal, history, faults>>
  BY DEF Settle
<1> HIDE DEF p
<1>9. QED
  BY <1>1, <1>2, <1>3, <1>4, <1>5, <1>6, <1>7, <1>8, ProcessMove

LEMMA ControlChangedKeeps ==
    ASSUME IInv, NEW r \in Run, ControlChanged(r) PROVE IInv'
<1> DEFINE p == [process[r] EXCEPT !.stopped = TRUE]
<1>1. process \in [Run -> ProcessRow] /\ faults \in 0 .. MaxFaults
  BY Types DEF IInv
<1>2. /\ p \in ProcessRow /\ p.pc = process[r].pc /\ p.cells = process[r].cells
      /\ p.seen = process[r].seen /\ p.told = process[r].told
  BY <1>1 DEF ProcessRow
<1>3. process' = [process EXCEPT ![r] = p] /\ UNCHANGED <<tables, op, queue, faults>>
  BY <1>1 DEF ControlChanged
<1>4. AttemptsApart' /\ row' \in [Run -> Status] /\ \A s \in Run : row'[s] = "running" => row[s] = "running"
  BY <1>1, <1>3, SameRow DEF ControlChanged, tables
<1>5. keeper = r /\ p.pc \in {"ready", "cell"} => p.told = history.talk
  BY <1>2 DEF IInv, KeeperUpToDate
<1> HIDE DEF p
<1>6. QED
  BY <1>1, <1>2, <1>3, <1>4, <1>5, ProcessMove DEF tables

LEMMA ScriptEndsKeeps ==
    ASSUME IInv, NEW r \in Run, NEW ok \in BOOLEAN, ScriptEnds(r, ok) PROVE IInv'
<1> DEFINE p == [process[r] EXCEPT !.pc = "closing", !.ok = ok, !.told = {}]
<1>1. process \in [Run -> ProcessRow] /\ faults \in 0 .. MaxFaults
  BY Types DEF IInv
<1>2. p \in ProcessRow /\ p.pc = "closing"
  BY <1>1 DEF ProcessRow
<1>3. process' = [process EXCEPT ![r] = p] /\ UNCHANGED <<tables, op, queue, faults>>
  BY <1>1 DEF ScriptEnds
<1>4. process[r].pc = "cell" /\ Active(r) = {} /\ queue[r] = <<>>
  BY CellIsOver DEF ScriptEnds
<1>5. AttemptsApart' /\ row' \in [Run -> Status] /\ \A s \in Run : row'[s] = "running" => row[s] = "running"
  BY <1>1, <1>3, <1>4, SameRow DEF tables
<1> HIDE DEF p
<1>6. QED
  BY <1>1, <1>2, <1>3, <1>4, <1>5, ProcessMove DEF tables

LEMMA DeoptKeeps ==
    ASSUME IInv, NEW r \in Run, Deopt(r) PROVE IInv'
<1> DEFINE p == [process[r] EXCEPT !.pc = "ready", !.lane = "ai", !.stopped = FALSE,
                                   !.told = history.talk]
<1>1. process \in [Run -> ProcessRow] /\ history.talk \in SUBSET Turn /\ faults \in 0 .. MaxFaults
  BY Types DEF IInv
<1>2. p \in ProcessRow /\ p.pc = "ready" /\ p.told = history.talk
  BY <1>1 DEF ProcessRow
<1>3. process' = [process EXCEPT ![r] = p] /\ UNCHANGED <<tables, op, queue, faults>>
  BY <1>1 DEF Deopt
<1>4. process[r].pc = "cell" /\ Active(r) = {} /\ queue[r] = <<>>
  BY CellIsOver DEF Deopt
<1>5. AttemptsApart' /\ row' \in [Run -> Status] /\ \A s \in Run : row'[s] = "running" => row[s] = "running"
  BY <1>1, <1>3, <1>4, SameRow DEF tables
<1> HIDE DEF p
<1>6. QED
  BY <1>1, <1>2, <1>3, <1>4, <1>5, ProcessMove DEF tables

LEMMA ThrowKeeps ==
    ASSUME IInv, NEW r \in Run, Throw(r) PROVE IInv'
<1> DEFINE p == [process[r] EXCEPT !.pc = "closing", !.ok = FALSE, !.stopped = FALSE, !.told = {}]
<1>1. process \in [Run -> ProcessRow] /\ faults \in 0 .. MaxFaults
  BY Types DEF IInv
<1>2. p \in ProcessRow /\ p.pc = "closing"
  BY <1>1 DEF ProcessRow
<1>3. process' = [process EXCEPT ![r] = p] /\ UNCHANGED <<tables, op, queue, faults>>
  BY <1>1 DEF Throw
<1>4. process[r].pc \notin {"new", "gone"} /\ Active(r) = {} /\ queue[r] = <<>>
  BY CellIsOver, OutOfCell DEF Throw
<1>5. AttemptsApart' /\ row' \in [Run -> Status] /\ \A s \in Run : row'[s] = "running" => row[s] = "running"
  BY <1>1, <1>3, <1>4, SameRow DEF tables
<1> HIDE DEF p
<1>6. QED
  BY <1>1, <1>2, <1>3, <1>4, <1>5, ProcessMove DEF tables

-----------------------------------------------------------------------------
LEMMA InCell ==
    ASSUME IInv, NEW r \in Run, NEW o \in OpsOf(r), op[o].phase \in InHandler
    PROVE  process[r].pc = "cell" /\ op[o].run = r /\ o \in Op
BY DEF IInv, HandlersInCells, Active, OpsOf

LEMMA TypesKept ==
    ASSUME IInv, process' \in [Run -> ProcessRow], op' \in [Op -> OpRow], queue' \in [Run -> Seq(Op)],
           UNCHANGED <<row, journal, keeper>>, faults' \in 0 .. MaxFaults,
           history' \in [archive : Seq(Op), talk : SUBSET Turn]
    PROVE  TypeOK'
BY Types DEF IInv, TypeOK, ProcessRow, OpRow, JournalRow

LEMMA CallKeeps ==
    ASSUME IInv, NEW r \in Run, NEW o \in Op, Call(r, o) PROVE IInv'
<1> DEFINE w == [op[o] EXCEPT !.run = r, !.phase = "starting"]
<1>1. /\ process \in [Run -> ProcessRow] /\ op \in [Op -> OpRow] /\ queue \in [Run -> Seq(Op)]
      /\ faults \in 0 .. MaxFaults /\ history \in [archive : Seq(Op), talk : SUBSET Turn]
  BY Types DEF IInv
<1>2. op[o].phase = "new" /\ process[r].pc = "cell" /\ UNCHANGED <<tables, process, faults>>
  BY DEF Call
<1>3. /\ w \in OpRow /\ w.run = r /\ w.phase = "starting"
      /\ w.unknown = op[o].unknown /\ w.overtaken = op[o].overtaken
  BY <1>1 DEF OpRow, InHandler
<1>4. op' = [op EXCEPT ![o] = w] /\ queue' = [queue EXCEPT ![r] = Append(queue[r], o)]
  BY <1>1 DEF Call
<1>5. ~op[o].unknown
  BY <1>2 DEF IInv, EffectsJournaled
<1> HIDE DEF w
<1>6. /\ op' \in [Op -> OpRow] /\ op'[o] = w /\ \A u \in Op \ {o} : op'[u] = op[u]
      /\ AttemptsApart' /\ HandlersInCells' /\ EffectsJournaled' /\ CellStartsClean'
      /\ UnknownIsFlagged' /\ KeeperUpToDate'
  BY <1>1, <1>2, <1>3, <1>4, <1>5, OpMove DEF tables
<1>7. WritesWanted' /\ queue' \in [Run -> Seq(Op)]
  BY <1>1, <1>2, <1>3, <1>4, <1>6, QueueMove
<1>8. QED
  BY <1>1, <1>2, <1>6, <1>7, TypesKept DEF IInv, tables

LEMMA DispatchKeeps ==
    ASSUME IInv, NEW r \in Run, NEW o \in Op, Dispatch(r, o) PROVE IInv'
<1> DEFINE w == [op[o] EXCEPT !.phase = "sent"]
<1>1. /\ process \in [Run -> ProcessRow] /\ op \in [Op -> OpRow] /\ queue \in [Run -> Seq(Op)]
      /\ faults \in 0 .. MaxFaults /\ history \in [archive : Seq(Op), talk : SUBSET Turn]
  BY Types DEF IInv
<1>2. op[o].phase = "ready" /\ process[r].pc = "cell" /\ op[o].run = r
      /\ UNCHANGED <<tables, process, queue, faults>>
  BY InCell DEF Dispatch, InHandler
<1>3. /\ w \in OpRow /\ w.run = r /\ w.phase = "sent"
      /\ w.unknown = op[o].unknown /\ w.overtaken = op[o].overtaken
  BY <1>1, <1>2 DEF OpRow, InHandler
<1>4. op' = [op EXCEPT ![o] = w]
  BY <1>1 DEF Dispatch
<1>5. ~op[o].unknown
  BY <1>2 DEF IInv, EffectsJournaled
<1> HIDE DEF w
<1>6. /\ op' \in [Op -> OpRow] /\ op'[o] = w /\ \A u \in Op \ {o} : op'[u] = op[u]
      /\ AttemptsApart' /\ HandlersInCells' /\ EffectsJournaled' /\ CellStartsClean'
      /\ UnknownIsFlagged' /\ KeeperUpToDate'
  BY <1>1, <1>2, <1>3, <1>4, <1>5, OpMove DEF tables
<1>7. WritesWanted' /\ queue' \in [Run -> Seq(Op)]
  BY <1>1, <1>2, <1>3, <1>4, <1>6, QueueMove
<1>8. QED
  BY <1>1, <1>2, <1>6, <1>7, TypesKept DEF IInv, tables

(* An operation comes back, or is refused, and its write is queued.        *)
LEMMA ComesBack ==
    ASSUME IInv, NEW r \in Run, NEW o \in Op, NEW unknown \in BOOLEAN,
           o \in OpsOf(r), op[o].phase \in {"ready", "sent"},
           op' = [op EXCEPT ![o].phase = "back", ![o].unknown = unknown],
           queue' = [queue EXCEPT ![r] = Append(@, o)], UNCHANGED <<tables, process, faults>>
    PROVE  IInv'
<1> DEFINE w == [op[o] EXCEPT !.phase = "back", !.unknown = unknown]
<1>1. /\ process \in [Run -> ProcessRow] /\ op \in [Op -> OpRow] /\ queue \in [Run -> Seq(Op)]
      /\ faults \in 0 .. MaxFaults /\ history \in [archive : Seq(Op), talk : SUBSET Turn]
  BY Types DEF IInv
<1>2. process[r].pc = "cell" /\ op[o].run = r
  BY InCell DEF InHandler
<1>3. w \in OpRow /\ w.run = r /\ w.phase = "back" /\ w.overtaken = op[o].overtaken
  BY <1>1, <1>2 DEF OpRow, InHandler
<1>4. op' = [op EXCEPT ![o] = w] /\ queue' = [queue EXCEPT ![r] = Append(queue[r], o)]
  BY <1>1, <1>2
<1> HIDE DEF w
<1>5. /\ op' \in [Op -> OpRow] /\ op'[o] = w /\ \A u \in Op \ {o} : op'[u] = op[u]
      /\ AttemptsApart' /\ HandlersInCells' /\ EffectsJournaled' /\ CellStartsClean'
      /\ UnknownIsFlagged' /\ KeeperUpToDate'
  <2>1. UNCHANGED <<row, journal, keeper, process, history>>
    BY DEF tables
  <2>2. w.phase \notin {"ready", "sent", "starting", "new", "read"}
    BY <1>3
  <2>3. op[o].phase # "new" /\ op[o].phase \in {"ready", "sent"}
    OBVIOUS
  <2>4. \A s \in Run : /\ process'[s].pc = process[s].pc /\ process'[s].cells = process[s].cells
                       /\ process'[s].told = process[s].told
    BY <2>1
  <2>5. process' \in [Run -> ProcessRow] /\ op' = [op EXCEPT ![o] = w]
    BY <1>1, <1>4, <2>1
  <2>6. QED
    BY <1>2, <1>3, <2>1, <2>2, <2>3, <2>4, <2>5, OpMove
<1>6. WritesWanted' /\ queue' \in [Run -> Seq(Op)]
  BY <1>1, <1>2, <1>3, <1>4, <1>5, QueueMove
<1>7. QED
  BY <1>1, <1>2, <1>5, <1>6, TypesKept DEF IInv, tables

LEMMA RefuseKeeps ==
    ASSUME IInv, NEW r \in Run, NEW o \in Op, Refuse(r, o) PROVE IInv'
BY ComesBack DEF Refuse

LEMMA ReturnKeeps ==
    ASSUME IInv, NEW r \in Run, NEW o \in Op, NEW unknown \in BOOLEAN, Return(r, o, unknown)
    PROVE  IInv'
BY ComesBack DEF Return

LEMMA JournalLostKeeps ==
    ASSUME IInv, NEW r \in Run, JournalLost(r) PROVE IInv'
<1> DEFINE o == Head(queue[r])
           w == [op[o] EXCEPT !.phase = "over"]
           left == IF op[o].phase = "starting" THEN process[r].left \cup {o} ELSE process[r].left
           p == [process[r] EXCEPT !.left = left]
<1>1. /\ process \in [Run -> ProcessRow] /\ op \in [Op -> OpRow] /\ queue \in [Run -> Seq(Op)]
      /\ faults \in 0 .. MaxFaults /\ history \in [archive : Seq(Op), talk : SUBSET Turn]
      /\ MaxFaults \in Nat
  BY Types, Constants DEF IInv
<1>2. /\ o \in Op /\ op[o].run = r /\ op[o].phase \in {"starting", "back"} /\ process[r].pc = "cell"
      /\ queue[r] # <<>>
  <2>1. queue[r] # <<>> /\ queue[r] \in Seq(Op)
    BY <1>1 DEF JournalLost
  <2>2. 1 \in 1 .. Len(queue[r]) /\ o = queue[r][1]
    BY <2>1, EmptySeq
  <2>3. QED
    BY <2>1, <2>2 DEF IInv, WritesWanted, WritesOf
<1>3. /\ w \in OpRow /\ w.run = r /\ w.phase = "over"
      /\ w.unknown = op[o].unknown /\ w.overtaken = op[o].overtaken
  BY <1>1, <1>2 DEF OpRow, InHandler
<1>4. /\ op' = [op EXCEPT ![o] = w] /\ queue' = [queue EXCEPT ![r] = Tail(queue[r])]
      /\ process' = [process EXCEPT ![r] = p] /\ UNCHANGED tables
      /\ faults' \in 0 .. MaxFaults
  <2>1. process' = [process EXCEPT ![r].left =
                       IF op[o].phase = "starting" THEN @ \cup {o} ELSE @]
    BY DEF JournalLost
  <2>2. process' = [process EXCEPT ![r] = p]
    BY <2>1
  <2>3. op' = [op EXCEPT ![o].phase = "over"]
    BY DEF JournalLost
  <2>4. queue' = [queue EXCEPT ![r] = Tail(queue[r])] /\ UNCHANGED tables
    BY DEF JournalLost
  <2>5. faults' \in 0 .. MaxFaults
    <3>1. faults' = faults \/ (faults < MaxFaults /\ faults' = faults + 1)
      BY DEF JournalLost, Fault
    <3>2. QED
      BY <1>1, <3>1
  <2>6. QED
    BY <2>2, <2>3, <2>4, <2>5
<1>5. /\ p \in ProcessRow /\ p.pc = process[r].pc /\ p.cells = process[r].cells
      /\ p.told = process[r].told /\ p.seen = process[r].seen
  <2>1. process[r] \in ProcessRow /\ left \in SUBSET Op
    BY <1>1, <1>2 DEF ProcessRow
  <2> HIDE DEF left
  <2>2. QED
    BY <2>1 DEF ProcessRow
<1> HIDE DEF w, o, p
<1>6. /\ process' \in [Run -> ProcessRow]
      /\ \A s \in Run : /\ process'[s].pc = process[s].pc /\ process'[s].cells = process[s].cells
                         /\ process'[s].told = process[s].told /\ process'[s].seen = process[s].seen
  BY <1>1, <1>4, <1>5
<1>7. /\ op' \in [Op -> OpRow] /\ op'[o] = w /\ \A u \in Op \ {o} : op'[u] = op[u]
      /\ AttemptsApart' /\ HandlersInCells' /\ EffectsJournaled' /\ CellStartsClean'
      /\ UnknownIsFlagged' /\ KeeperUpToDate'
  <2>1. row' = row /\ journal' = journal /\ keeper' = keeper /\ history' = history
    BY <1>4 DEF tables
  <2>2. w.phase \notin {"new", "ready", "sent", "read"} /\ (w.unknown => op[o].unknown)
    BY <1>3
  <2>3. (w.unknown => w.phase \notin {"starting", "ready", "sent"}) /\ op[o].run = r
    BY <1>2, <1>3
  <2>4. QED
    BY <1>2, <1>3, <1>4, <1>6, <2>1, <2>2, <2>3, OpMove
<1>8. WritesWanted' /\ queue' \in [Run -> Seq(Op)]
  <2>1. \A u \in Op \ {o} : op'[u].run = op[u].run /\ op'[u].phase = op[u].phase
    BY <1>7
  <2>2. op' \in [Op -> OpRow] /\ op'[o].run = r /\ op[o].run = r
    BY <1>2, <1>3, <1>7
  <2>3. o = Head(queue[r]) /\ queue' = [queue EXCEPT ![r] = Tail(queue[r])] /\ queue[r] # <<>>
    BY <1>2, <1>4 DEF o
  <2>4. QED
    BY <1>2, <1>6, <2>1, <2>2, <2>3, QueueMove
<1>9. QED
  BY <1>1, <1>4, <1>6, <1>7, <1>8, TypesKept DEF IInv, tables

LEMMA ReadArchiveKeeps ==
    ASSUME IInv, NEW r \in Run, NEW o \in Op, ReadArchive(r, o) PROVE IInv'
<1> DEFINE w == [op[o] EXCEPT !.phase = IF Keeps(r) THEN "read" ELSE "over"]
           p == [process[r] EXCEPT !.seen = IF Keeps(r) THEN history.archive ELSE @]
<1>1. /\ process \in [Run -> ProcessRow] /\ op \in [Op -> OpRow] /\ queue \in [Run -> Seq(Op)]
      /\ faults \in 0 .. MaxFaults /\ history \in [archive : Seq(Op), talk : SUBSET Turn]
  BY Types DEF IInv
<1>2. op[o].phase = "noted" /\ process[r].pc = "cell" /\ op[o].run = r
      /\ UNCHANGED <<tables, queue, faults>>
  BY InCell DEF ReadArchive, InHandler
<1>3. /\ w \in OpRow /\ w.run = r /\ w.phase = (IF Keeps(r) THEN "read" ELSE "over")
      /\ w.unknown = op[o].unknown /\ w.overtaken = op[o].overtaken
  BY <1>1, <1>2 DEF OpRow, InHandler
<1>4. /\ p \in ProcessRow /\ p.pc = process[r].pc /\ p.cells = process[r].cells
      /\ p.told = process[r].told /\ (Keeps(r) => p.seen = history.archive)
  BY <1>1 DEF ProcessRow
<1>5. op' = [op EXCEPT ![o] = w] /\ process' = [process EXCEPT ![r] = p]
  BY <1>1 DEF ReadArchive
<1>6. \A q \in OpsOf(r) : op[q].phase # "read"
  BY DEF ReadArchive
<1> HIDE DEF w, p
<1>7. /\ process' \in [Run -> ProcessRow] /\ process'[r] = p
      /\ \A s \in Run : s # r => process'[s] = process[s]
  BY <1>1, <1>4, <1>5
<1>8. /\ op' \in [Op -> OpRow] /\ op'[o] = w /\ \A u \in Op \ {o} : op'[u] = op[u]
      /\ AttemptsApart' /\ HandlersInCells' /\ EffectsJournaled' /\ CellStartsClean'
      /\ UnknownIsFlagged'
  BY <1>1, <1>2, <1>3, <1>4, <1>5, <1>7, OpMove DEF tables
<1>9. WritesWanted' /\ queue' \in [Run -> Seq(Op)]
  BY <1>1, <1>2, <1>3, <1>4, <1>7, <1>8, QueueMove
<1>10. KeeperUpToDate'
  <2>1. ASSUME NEW u \in Op, NEW q \in Op, op'[u].run = op'[q].run, op'[u].phase = "read",
               op'[q].phase = "read"
        PROVE  u = q
    BY <1>2, <1>3, <1>6, <1>8, <2>1 DEF IInv, KeeperUpToDate, OpsOf
  <2>2. ASSUME NEW u \in Op, op'[u].phase = "read", keeper' = op'[u].run
        PROVE  process'[op'[u].run].seen = history'.archive
    <3>1. CASE u = o
      <4>1. w.phase = "read" /\ w.run = r
        BY <1>3, <1>8, <2>2, <3>1
      <4>2. p.seen = history.archive
        BY <1>3, <1>4, <4>1
      <4>3. QED
        BY <1>2, <1>7, <1>8, <3>1, <4>1, <4>2 DEF tables
    <3>2. CASE u # o
      <4>1. op[u].phase = "read" /\ op[u].run = op'[u].run /\ op[u].run # r
        BY <1>6, <1>8, <2>2, <3>2 DEF OpsOf
      <4>2. op[u].run \in Run
        BY <1>1, <4>1 DEF IInv, HandlersInCells, OpRow
      <4>3. QED
        BY <1>2, <1>7, <2>2, <4>1, <4>2 DEF IInv, KeeperUpToDate, tables
    <3>3. QED
      BY <3>1, <3>2
  <2>3. ASSUME NEW s \in Run, keeper' = s, process'[s].pc \in {"ready", "cell"}
        PROVE  process'[s].told = history'.talk
    BY <1>2, <1>4, <1>7, <2>3 DEF IInv, KeeperUpToDate, tables
  <2>4. QED
    BY <2>1, <2>2, <2>3 DEF KeeperUpToDate
<1>11. QED
  BY <1>1, <1>2, <1>7, <1>8, <1>9, <1>10, TypesKept DEF IInv, tables

(* The step that extends the archive extends what is there.                *)
LEMMA ExtendsWhatIsThere ==
    ASSUME IInv, NEW r \in Run, NEW o \in Op, ExtendArchive(r, o)
    PROVE  /\ keeper \in Run => keeper = r \/ history'.archive = history.archive
           /\ \/ history' = history
              \/ history' = [history EXCEPT !.archive = Append(history.archive, o)]
<1>1. history \in [archive : Seq(Op), talk : SUBSET Turn]
  BY Types DEF IInv
<1>2. CASE Keeps(r)
  <2>1. op[o].run = r /\ op[o].phase = "read" /\ keeper = r
    BY <1>2 DEF ExtendArchive, OpsOf, Keeps
  <2>2. process[r].seen = history.archive
    BY <2>1 DEF IInv, KeeperUpToDate
  <2>3. QED
    BY <1>2, <2>1, <2>2 DEF ExtendArchive
<1>3. CASE ~Keeps(r)
  BY <1>3 DEF ExtendArchive
<1>4. QED
  BY <1>2, <1>3

LEMMA ExtendArchiveKeeps ==
    ASSUME IInv, NEW r \in Run, NEW o \in Op, ExtendArchive(r, o) PROVE IInv'
<1> DEFINE w == [op[o] EXCEPT !.phase = "over"]
           p == [process[r] EXCEPT !.seen = <<>>]
<1>1. /\ process \in [Run -> ProcessRow] /\ op \in [Op -> OpRow] /\ queue \in [Run -> Seq(Op)]
      /\ faults \in 0 .. MaxFaults /\ history \in [archive : Seq(Op), talk : SUBSET Turn]
  BY Types DEF IInv
<1>2. op[o].phase = "read" /\ process[r].pc = "cell" /\ op[o].run = r
      /\ UNCHANGED <<row, journal, keeper, queue, faults>>
  BY InCell DEF ExtendArchive, InHandler
<1>3. /\ w \in OpRow /\ w.run = r /\ w.phase = "over"
      /\ w.unknown = op[o].unknown /\ w.overtaken = op[o].overtaken
  BY <1>1, <1>2 DEF OpRow, InHandler
<1>4. /\ p \in ProcessRow /\ p.pc = process[r].pc /\ p.cells = process[r].cells
      /\ p.told = process[r].told
  BY <1>1, EmptySeq DEF ProcessRow
<1>5. op' = [op EXCEPT ![o] = w] /\ process' = [process EXCEPT ![r] = p]
  BY <1>1 DEF ExtendArchive
<1> HIDE DEF w, p
<1>6. /\ process' \in [Run -> ProcessRow] /\ process'[r] = p
      /\ \A s \in Run : s # r => process'[s] = process[s]
  BY <1>1, <1>4, <1>5
<1>7. /\ op' \in [Op -> OpRow] /\ op'[o] = w /\ \A u \in Op \ {o} : op'[u] = op[u]
      /\ AttemptsApart' /\ HandlersInCells' /\ EffectsJournaled' /\ CellStartsClean'
      /\ UnknownIsFlagged'
  BY <1>1, <1>2, <1>3, <1>4, <1>5, <1>6, OpMove
<1>8. WritesWanted' /\ queue' \in [Run -> Seq(Op)]
  BY <1>1, <1>2, <1>3, <1>4, <1>6, <1>7, QueueMove
<1>9. /\ history' \in [archive : Seq(Op), talk : SUBSET Turn] /\ history'.talk = history.talk
      /\ \A s \in Run : keeper = s /\ s # r => history'.archive = history.archive
  <2>1. Append(history.archive, o) \in Seq(Op)
    BY <1>1, AppendProperties
  <2>2. QED
    BY <1>1, <2>1, ExtendsWhatIsThere
<1>10. KeeperUpToDate'
  <2>1. ASSUME NEW u \in Op, op'[u].phase = "read"
        PROVE  op[u].phase = "read" /\ op'[u].run = op[u].run /\ op[u].run \in Run /\ op[u].run # r
    <3>1. u # o
      BY <1>3, <1>7, <2>1
    <3>2. op[u].phase = "read" /\ op'[u].run = op[u].run
      BY <1>7, <2>1, <3>1
    <3>3. QED
      BY <1>1, <1>2, <3>1, <3>2 DEF IInv, KeeperUpToDate, HandlersInCells, OpRow
  <2>2. ASSUME NEW u \in Op, NEW q \in Op, op'[u].run = op'[q].run, op'[u].phase = "read",
               op'[q].phase = "read"
        PROVE  u = q
    BY <2>1, <2>2 DEF IInv, KeeperUpToDate
  <2>3. ASSUME NEW u \in Op, op'[u].phase = "read", keeper' = op'[u].run
        PROVE  process'[op'[u].run].seen = history'.archive
    BY <1>2, <1>6, <1>9, <2>1, <2>3 DEF IInv, KeeperUpToDate
  <2>4. ASSUME NEW s \in Run, keeper' = s, process'[s].pc \in {"ready", "cell"}
        PROVE  process'[s].told = history'.talk
    BY <1>2, <1>4, <1>6, <1>9, <2>4 DEF IInv, KeeperUpToDate
  <2>5. QED
    BY <2>2, <2>3, <2>4 DEF KeeperUpToDate
<1>11. QED
  BY <1>1, <1>2, <1>6, <1>7, <1>8, <1>9, <1>10, TypesKept DEF IInv

LEMMA EndTurnKeeps ==
    ASSUME IInv, NEW r \in Run, NEW next \in {"ready", "closing"}, NEW ok \in BOOLEAN,
           EndTurn(r, next, ok)
    PROVE  IInv' /\ history'.archive = history.archive /\ history.talk \subseteq history'.talk
<1> DEFINE told == process[r].told \cup {<<r, process[r].cells>>}
           p == [process[r] EXCEPT !.pc = next, !.ok = ok, !.stopped = FALSE,
                                   !.told = IF next = "ready" THEN told ELSE {}]
<1>1. /\ process \in [Run -> ProcessRow] /\ op \in [Op -> OpRow] /\ queue \in [Run -> Seq(Op)]
      /\ faults \in 0 .. MaxFaults /\ history \in [archive : Seq(Op), talk : SUBSET Turn]
  BY Types DEF IInv
<1>2. /\ process[r].pc = "cell" /\ Active(r) = {} /\ queue[r] = <<>> /\ keeper = r
      /\ process[r].told = history.talk /\ process[r].cells \in 1 .. MaxCells
      /\ UNCHANGED <<row, journal, keeper, op, queue, faults>>
  BY CellIsOver DEF IInv, HandlersInCells, KeeperUpToDate, EndTurn, Keeps
<1>3. told \in SUBSET Turn
  BY <1>1, <1>2 DEF ProcessRow, Turn
<1>4. p \in ProcessRow /\ p.pc = next /\ (next = "ready" => p.told = told)
  BY <1>1, <1>3 DEF ProcessRow
<1>5. process' = [process EXCEPT ![r] = p] /\ history' = [history EXCEPT !.talk = told]
  BY <1>1 DEF EndTurn
<1>6. history' \in [archive : Seq(Op), talk : SUBSET Turn] /\ history'.talk = told
      /\ history'.archive = history.archive
  BY <1>1, <1>3, <1>5
<1>7. history.talk \subseteq told
  BY <1>2
<1> HIDE DEF p, told
<1>8. /\ process' \in [Run -> ProcessRow] /\ process'[r] = p
      /\ \A s \in Run : s # r => process'[s] = process[s]
  BY <1>1, <1>4, <1>5
<1>9. AttemptsApart'
  BY <1>2, <1>8, SameRow
<1>10. HandlersInCells'
  BY <1>2, <1>4, <1>8 DEF IInv, HandlersInCells, Active, OpsOf
<1>11. WritesWanted'
  BY <1>2, <1>8 DEF IInv, WritesWanted, WritesOf
<1>12. KeeperUpToDate'
  <2>1. ASSUME NEW u \in Op, op[u].phase = "read", op[u].run = r PROVE FALSE
    BY <1>2, <2>1 DEF Active, OpsOf, InHandler
  <2>2. ASSUME NEW u \in Op, op'[u].phase = "read", keeper' = op'[u].run
        PROVE  process'[op'[u].run].seen = history'.archive
    BY <1>2, <2>1, <2>2
  <2>3. ASSUME NEW s \in Run, keeper' = s, process'[s].pc \in {"ready", "cell"}
        PROVE  process'[s].told = history'.talk
    BY <1>2, <1>4, <1>6, <1>8, <2>3
  <2>4. QED
    BY <1>2, <2>2, <2>3 DEF IInv, KeeperUpToDate
<1>13. EffectsJournaled' /\ UnknownIsFlagged'
  BY <1>2 DEF IInv, EffectsJournaled, UnknownIsFlagged, Unknown, KeyOf, JournalKey
<1>14. CellStartsClean'
  BY <1>2, <1>4, <1>8 DEF IInv, CellStartsClean, Leased, JournalKey, OpsOf
<1>15. QED
  BY <1>1, <1>2, <1>6, <1>7, <1>8, <1>9, <1>10, <1>11, <1>12, <1>13, <1>14, TypesKept DEF IInv

-----------------------------------------------------------------------------
LEMMA CrashKeeps ==
    ASSUME IInv, NEW r \in Run, Crash(r) PROVE IInv'
<1>1. /\ process \in [Run -> ProcessRow] /\ op \in [Op -> OpRow] /\ queue \in [Run -> Seq(Op)]
      /\ faults \in 0 .. MaxFaults /\ history \in [archive : Seq(Op), talk : SUBSET Turn]
      /\ MaxCells \in Nat /\ MaxFaults \in Nat
  BY Types, Constants DEF IInv
<1>2. NoProcess("gone") \in ProcessRow /\ NoProcess("gone").pc = "gone"
  BY <1>1, EmptySeq DEF ProcessRow, NoProcess
<1>3. /\ process' \in [Run -> ProcessRow] /\ process'[r].pc = "gone"
      /\ \A s \in Run : s # r => process'[s] = process[s]
  BY <1>1, <1>2 DEF Crash
<1>4. /\ queue' \in [Run -> Seq(Op)] /\ queue'[r] = <<>>
      /\ \A s \in Run : s # r => queue'[s] = queue[s]
  BY <1>1, EmptySeq DEF Crash
<1>5. /\ process[r].pc \notin {"new", "gone"} /\ faults' \in 0 .. MaxFaults
      /\ UNCHANGED <<row, journal, keeper, history>>
  <2>1. process[r].pc \notin {"new", "gone"} /\ UNCHANGED tables
    BY DEF Crash
  <2>2. faults < MaxFaults /\ faults' = faults + 1
    BY DEF Crash, Fault
  <2>3. QED
    BY <1>1, <2>1, <2>2 DEF tables
<1>6. ASSUME NEW u \in Op
      PROVE  /\ op'[u] \in OpRow /\ op'[u].run = op[u].run /\ op'[u].overtaken = op[u].overtaken
             /\ u \notin Active(r) => op'[u] = op[u]
             /\ u \in Active(r) => op'[u].phase = "over"
             /\ op'[u].unknown => op[u].unknown \/ op[u].phase = "sent"
  <2>1. op[u] \in OpRow
    BY <1>1
  <2>2. CASE u \notin Active(r)
    BY <2>1, <2>2 DEF Crash
  <2>3. CASE u \in Active(r)
    <3>1. op'[u] = [op[u] EXCEPT !.phase = "over", !.unknown = op[u].unknown \/ op[u].phase = "sent"]
      BY <2>1, <2>3 DEF Crash, OpRow
    <3>2. QED
      BY <2>1, <2>3, <3>1 DEF OpRow
  <2>4. QED
    BY <2>2, <2>3
<1>7. op' \in [Op -> OpRow]
  <2>1. op' = [u \in Op |-> op'[u]]
    BY DEF Crash
  <2>2. QED
    BY <1>6, <2>1
<1>8. AttemptsApart'
  BY <1>3, <1>5, SameRow
<1>9. HandlersInCells'
  <2>1. \A u \in Op : op'[u].run = None <=> op'[u].phase = "new"
    <3>1. \A u \in Op : u \in Active(r) => op[u].run # None
      BY Constants DEF Active, OpsOf
    <3>2. QED
      BY <1>6, <3>1 DEF IInv, HandlersInCells
  <2>2. ASSUME NEW s \in Run, NEW u \in Active(s)' PROVE process'[s].pc = "cell"
    <3>1. u \in Op /\ op'[u].run = s /\ op'[u].phase \in InHandler
      BY <2>2 DEF Active, OpsOf
    <3>2. u \notin Active(r) /\ op'[u] = op[u]
      BY <1>6, <3>1 DEF InHandler
    <3>3. u \in Active(s) /\ s # r
      BY <3>1, <3>2 DEF Active, OpsOf
    <3>4. QED
      BY <1>3, <3>3 DEF IInv, HandlersInCells
  <2>3. QED
    BY <1>3, <2>1, <2>2 DEF IInv, HandlersInCells
<1>10. WritesWanted'
  <2>1. WritesOf(r)'
    BY <1>4, EmptySeq DEF WritesOf
  <2>2. ASSUME NEW s \in Run, s # r PROVE WritesOf(s)'
    <3>1. WritesOf(s) /\ \A i \in 1 .. Len(queue[s]) : queue[s][i] \in Op
      BY <1>1 DEF IInv, WritesWanted
    <3>2. \A i \in 1 .. Len(queue[s]) : queue[s][i] \notin Active(r)
      BY <2>2, <3>1 DEF WritesOf, Active, OpsOf
    <3>3. \A i \in 1 .. Len(queue[s]) : op'[queue[s][i]] = op[queue[s][i]]
      BY <1>6, <3>1, <3>2
    <3>4. QED
      BY <1>3, <1>4, <2>2, <3>1, <3>3 DEF WritesOf
  <2>3. QED
    BY <2>1, <2>2 DEF WritesWanted
<1>11. KeeperUpToDate'
  <2>1. ASSUME NEW u \in Op, op'[u].phase = "read"
        PROVE  /\ op[u].phase = "read" /\ op'[u].run = op[u].run
               /\ op[u].run \in Run /\ op[u].run # r
    <3>1. u \notin Active(r) /\ op'[u] = op[u]
      BY <1>6, <2>1
    <3>2. QED
      BY <1>1, <2>1, <3>1 DEF IInv, HandlersInCells, Active, OpsOf, InHandler, OpRow
  <2>2. ASSUME NEW u \in Op, NEW q \in Op, op'[u].run = op'[q].run, op'[u].phase = "read",
               op'[q].phase = "read"
        PROVE  u = q
    BY <2>1, <2>2 DEF IInv, KeeperUpToDate
  <2>3. ASSUME NEW u \in Op, op'[u].phase = "read", keeper' = op'[u].run
        PROVE  process'[op'[u].run].seen = history'.archive
    BY <1>3, <1>5, <2>1, <2>3 DEF IInv, KeeperUpToDate
  <2>4. ASSUME NEW s \in Run, keeper' = s, process'[s].pc \in {"ready", "cell"}
        PROVE  process'[s].told = history'.talk
    BY <1>3, <1>5, <2>4 DEF IInv, KeeperUpToDate
  <2>5. QED
    BY <2>2, <2>3, <2>4 DEF KeeperUpToDate
<1>12. \A u \in Op : KeyOf(u)' = KeyOf(u)
  BY <1>6 DEF KeyOf, JournalKey
<1>13. EffectsJournaled'
  BY <1>5, <1>6, <1>12 DEF IInv, EffectsJournaled
<1>14. CellStartsClean'
  <2>1. \A s \in Run : OpsOf(s)' = OpsOf(s)
    BY <1>6 DEF OpsOf
  <2>2. QED
    BY <1>3, <1>5, <2>1 DEF IInv, CellStartsClean, Leased, JournalKey
<1>15. UnknownIsFlagged'
  <2>1. ASSUME NEW u \in Op, u \in Unknown'
        PROVE  op'[u].overtaken \/ journal'[KeyOf(u)'].flag \/ u \in journal'[KeyOf(u)'].inFlight
    <3>1. op[u].unknown \/ op[u].phase = "sent"
      BY <1>6, <2>1 DEF Unknown
    <3>2. op[u].overtaken \/ journal[KeyOf(u)].flag \/ u \in journal[KeyOf(u)].inFlight
      BY <3>1 DEF IInv, UnknownIsFlagged, Unknown
    <3>3. QED
      BY <1>5, <1>6, <1>12, <3>2
  <2>2. QED
    BY <2>1 DEF UnknownIsFlagged, Unknown
<1>16. QED
  BY <1>1, <1>3, <1>4, <1>5, <1>7, <1>8, <1>9, <1>10, <1>11, <1>13, <1>14, <1>15, TypesKept DEF IInv

(* What a write does to the journal: only the run's own key.               *)
LEMMA JournaledEffect ==
    ASSUME IInv, NEW r \in Run, NEW inFlight \in SUBSET Op, NEW flag \in BOOLEAN,
           Journaled(r, inFlight, flag)
    PROVE  /\ journal' \in [Key -> JournalRow]
           /\ journal'[JournalKey(r)].inFlight = inFlight
           /\ journal'[JournalKey(r)].flag = (journal[JournalKey(r)].flag \/ flag)
           /\ \A k \in Key : k # JournalKey(r) => journal'[k] = journal[k]
<1>1. journal \in [Key -> JournalRow] /\ JournalKey(r) \in Key
  BY Types, Constants DEF IInv
<1> DEFINE j == [inFlight |-> inFlight, flag |-> journal[JournalKey(r)].flag \/ flag]
<1>2. journal[JournalKey(r)].flag \in BOOLEAN
  BY <1>1 DEF JournalRow
<1>3. j \in JournalRow
  BY <1>2 DEF JournalRow
<1>4. journal' = [journal EXCEPT ![JournalKey(r)] = j]
  BY DEF Journaled
<1>5. QED
  BY <1>1, <1>3, <1>4

LEMMA OpenCellKeeps ==
    ASSUME IInv, NEW r \in Run, OpenCell(r) PROVE IInv'
<1> DEFINE p == [process[r] EXCEPT !.pc = "cell", !.cells = process[r].cells + 1,
                                   !.stopped = FALSE, !.left = {}]
           k == JournalKey(r)
           flag == journal[k].inFlight # {}
<1>1. /\ process \in [Run -> ProcessRow] /\ op \in [Op -> OpRow] /\ queue \in [Run -> Seq(Op)]
      /\ journal \in [Key -> JournalRow] /\ k \in Key /\ MaxCells \in Nat
  BY Types, Constants DEF IInv
<1>2. /\ process[r].pc = "ready" /\ keeper = r /\ Leased(r) /\ process[r].cells < MaxCells
      /\ UNCHANGED <<row, keeper, history, op, queue, faults>>
  BY DEF OpenCell, Keeps
<1>3. Active(r) = {} /\ queue[r] = <<>>
  BY <1>2, OutOfCell
<1>4. /\ p \in ProcessRow /\ p.pc = "cell" /\ p.cells = process[r].cells + 1
      /\ p.told = process[r].told /\ p.seen = process[r].seen
  <2>1. process[r] \in ProcessRow /\ process[r].cells + 1 \in 0 .. MaxCells
    BY <1>1, <1>2 DEF ProcessRow
  <2>2. QED
    BY <2>1 DEF ProcessRow
<1>5. p.cells \in 1 .. MaxCells
  BY <1>1, <1>2, <1>4 DEF ProcessRow
<1>6. process' = [process EXCEPT ![r] = p]
  BY <1>1 DEF OpenCell
<1> HIDE DEF p
<1>7. /\ process' \in [Run -> ProcessRow] /\ process'[r] = p
      /\ \A s \in Run : s # r => process'[s] = process[s]
  BY <1>1, <1>4, <1>6
<1>8. /\ journal' \in [Key -> JournalRow] /\ journal'[k].inFlight = {}
      /\ journal'[k].flag = (journal[k].flag \/ flag)
      /\ \A l \in Key : l # k => journal'[l] = journal[l]
  BY JournaledEffect DEF OpenCell
<1>9. TypeOK'
  BY <1>2, <1>7, <1>8, Types DEF IInv, TypeOK, ProcessRow, OpRow, JournalRow
<1>10. AttemptsApart'
  BY <1>2, <1>4, <1>7 DEF IInv, AttemptsApart, JournalKey, Leased
<1>11. HandlersInCells'
  BY <1>2, <1>4, <1>5, <1>7 DEF IInv, HandlersInCells, Active, OpsOf
<1>12. WritesWanted'
  BY <1>2, <1>4, <1>7 DEF IInv, WritesWanted, WritesOf
<1>13. KeeperUpToDate'
  <2>1. ASSUME NEW u \in Op, op'[u].phase = "read"
        PROVE  op[u].run \in Run /\ op[u].run # r /\ op'[u] = op[u]
    BY <1>1, <1>2, <1>3, <2>1 DEF IInv, HandlersInCells, Active, OpsOf, InHandler, OpRow
  <2>2. ASSUME NEW u \in Op, op'[u].phase = "read", keeper' = op'[u].run
        PROVE  process'[op'[u].run].seen = history'.archive
    BY <1>2, <2>1, <2>2
  <2>3. ASSUME NEW s \in Run, keeper' = s, process'[s].pc \in {"ready", "cell"}
        PROVE  process'[s].told = history'.talk
    BY <1>2, <1>4, <1>7, <2>3 DEF IInv, KeeperUpToDate
  <2>4. QED
    BY <1>2, <2>2, <2>3 DEF IInv, KeeperUpToDate
<1>14. ASSUME NEW u \in Op, op[u].phase # "new",
              journal[KeyOf(u)].flag \/ u \in journal[KeyOf(u)].inFlight
       PROVE  journal'[KeyOf(u)].flag \/ u \in journal'[KeyOf(u)].inFlight
  <2>1. KeyOf(u) \in Key
    BY <1>1, <1>14, Constants DEF IInv, HandlersInCells, KeyOf, OpRow
  <2>2. QED
    BY <1>8, <1>14, <2>1
<1>15. \A u \in Op : KeyOf(u)' = KeyOf(u)
  BY <1>2 DEF KeyOf, JournalKey
<1>16. EffectsJournaled'
  BY <1>2, <1>14, <1>15 DEF IInv, EffectsJournaled
<1>17. CellStartsClean'
  <2>1. ASSUME NEW s \in Run, Leased(s)', process'[s].pc = "cell", ~journal'[JournalKey(s)].flag
        PROVE  journal'[JournalKey(s)].inFlight \subseteq OpsOf(s)
    <3>1. CASE JournalKey(s) = k
      BY <1>8, <3>1
    <3>2. CASE JournalKey(s) # k
      <4>1. s # r /\ JournalKey(s) \in Key
        BY <3>2, Constants
      <4>2. journal'[JournalKey(s)] = journal[JournalKey(s)]
        BY <1>8, <3>2, <4>1
      <4>3. QED
        BY <1>2, <1>7, <2>1, <4>1, <4>2 DEF IInv, CellStartsClean, Leased
    <3>3. QED
      BY <3>1, <3>2
  <2>2. QED
    BY <1>2, <2>1 DEF CellStartsClean, JournalKey, OpsOf
<1>18. UnknownIsFlagged'
  <2>1. ASSUME NEW u \in Op, u \in Unknown
        PROVE  op[u].overtaken \/ journal'[KeyOf(u)].flag \/ u \in journal'[KeyOf(u)].inFlight
    BY <1>14, <2>1 DEF IInv, UnknownIsFlagged, EffectsJournaled, Unknown
  <2>2. Unknown' = Unknown
    BY <1>2 DEF Unknown
  <2>3. QED
    BY <1>2, <1>15, <2>1, <2>2 DEF UnknownIsFlagged, Unknown
<1>19. QED
  BY <1>9, <1>10, <1>11, <1>12, <1>13, <1>16, <1>17, <1>18 DEF IInv

LEMMA WriteJournalKeeps ==
    ASSUME IInv, NEW r \in Run, WriteJournal(r) PROVE IInv'
<1> DEFINE o == Head(queue[r])
           k == JournalKey(r)
           unknown == op[o].phase = "back" /\ op[o].unknown
<1>1. /\ process \in [Run -> ProcessRow] /\ op \in [Op -> OpRow] /\ queue \in [Run -> Seq(Op)]
      /\ journal \in [Key -> JournalRow] /\ k \in Key
  BY Types, Constants DEF IInv
<1>2. /\ queue[r] # <<>> /\ Leased(r) /\ UNCHANGED <<row, keeper, history, faults>>
      /\ queue' = [queue EXCEPT ![r] = Tail(queue[r])] /\ op' = Written(r, o)
      /\ Journaled(r, Running(r), unknown)
  BY <1>1 DEF WriteJournal
<1>3. o \in Op /\ op[o].run = r /\ op[o].phase \in {"starting", "back"} /\ process[r].pc = "cell"
  <2>1. 1 \in 1 .. Len(queue[r]) /\ o = queue[r][1]
    BY <1>1, <1>2, EmptySeq
  <2>2. QED
    BY <1>1, <1>2, <2>1 DEF IInv, WritesWanted, WritesOf
<1>4. /\ process' \in [Run -> ProcessRow]
      /\ \A s \in Run : /\ process'[s].pc = process[s].pc /\ process'[s].cells = process[s].cells
                        /\ process'[s].told = process[s].told /\ process'[s].seen = process[s].seen
  <2>1. PICK failed \in BOOLEAN : process' = [process EXCEPT ![r].stopped = @ \/ failed]
    BY DEF WriteJournal
  <2> DEFINE p == [process[r] EXCEPT !.stopped = process[r].stopped \/ failed]
  <2>2. /\ p \in ProcessRow /\ p.pc = process[r].pc /\ p.cells = process[r].cells
        /\ p.told = process[r].told /\ p.seen = process[r].seen
    BY <1>1 DEF ProcessRow
  <2>3. process' = [process EXCEPT ![r] = p]
    BY <1>1, <2>1
  <2> HIDE DEF p
  <2>4. QED
    BY <1>1, <2>2, <2>3
<1>5. ASSUME NEW u \in Op, u # o
      PROVE  /\ op'[u] \in OpRow /\ op'[u].run = op[u].run /\ op'[u].phase = op[u].phase
             /\ op'[u].unknown = op[u].unknown
             /\ op'[u].overtaken = (op[u].overtaken \/ u \in Overtaken(r, o))
  <2>1. op'[u] = [op[u] EXCEPT !.overtaken = op[u].overtaken \/ u \in Overtaken(r, o)]
    BY <1>1, <1>2, <1>5 DEF Written, OpRow
  <2>2. QED
    BY <1>1, <2>1 DEF OpRow
<1>6. /\ op'[o] \in OpRow /\ op'[o].run = r /\ op'[o].unknown = op[o].unknown
      /\ op'[o].phase = (IF op[o].phase = "starting" THEN "ready" ELSE "noted")
  <2>1. op'[o] = [op[o] EXCEPT !.phase = IF op[o].phase = "starting" THEN "ready" ELSE "noted",
                               !.overtaken = FALSE]
    BY <1>1, <1>2, <1>3 DEF Written, OpRow
  <2>2. QED
    BY <1>1, <1>3, <2>1 DEF OpRow, InHandler
<1>7. op' \in [Op -> OpRow]
  <2>1. op' = [u \in Op |-> op'[u]]
    BY <1>2 DEF Written
  <2>2. QED
    BY <1>5, <1>6, <2>1
<1>8. /\ journal' \in [Key -> JournalRow] /\ journal'[k].inFlight = Running(r)
      /\ journal'[k].flag = (journal[k].flag \/ unknown)
      /\ \A l \in Key : l # k => journal'[l] = journal[l]
  <2>1. Running(r) \in SUBSET Op /\ unknown \in BOOLEAN
    BY DEF Running, OpsOf
  <2>2. QED
    BY <1>2, <2>1, JournaledEffect
<1>9. WritesWanted' /\ queue' \in [Run -> Seq(Op)]
  <2>1. \A u \in Op \ {o} : op'[u].run = op[u].run /\ op'[u].phase = op[u].phase
    BY <1>5
  <2>2. \A s \in Run : process'[s].pc = process[s].pc
    BY <1>4
  <2>3. op'[o].run = r
    BY <1>6
  <2> HIDE DEF o
  <2>4. QED
    BY <1>2, <1>3, <1>7, <2>1, <2>2, <2>3, QueueMove DEF o
<1>10. TypeOK'
  BY <1>2, <1>4, <1>7, <1>8, <1>9, Types DEF IInv, TypeOK, ProcessRow, OpRow, JournalRow
<1> HIDE DEF o, unknown
<1>11. AttemptsApart'
  BY <1>2, <1>4 DEF IInv, AttemptsApart, JournalKey
<1>12. HandlersInCells'
  <2>1. \A u \in Op : op'[u].run = None <=> op'[u].phase = "new"
    BY <1>3, <1>5, <1>6, Constants DEF IInv, HandlersInCells
  <2>2. ASSUME NEW s \in Run, NEW u \in Active(s)' PROVE process'[s].pc = "cell"
    <3>1. u = o => s = r
      BY <1>6, <2>2 DEF Active, OpsOf
    <3>2. u # o => u \in Active(s)
      BY <1>5, <2>2 DEF Active, OpsOf
    <3>3. QED
      BY <1>3, <1>4, <3>1, <3>2 DEF IInv, HandlersInCells
  <2>3. QED
    BY <1>4, <2>1, <2>2 DEF IInv, HandlersInCells
<1>13. KeeperUpToDate'
  <2>1. ASSUME NEW u \in Op, op'[u].phase = "read"
        PROVE  /\ op[u].phase = "read" /\ op'[u].run = op[u].run /\ op[u].run \in Run
    <3>1. u # o
      BY <1>6, <2>1
    <3>2. QED
      BY <1>1, <1>5, <2>1, <3>1 DEF IInv, HandlersInCells, OpRow
  <2>2. ASSUME NEW u \in Op, NEW q \in Op, op'[u].run = op'[q].run, op'[u].phase = "read",
               op'[q].phase = "read"
        PROVE  u = q
    BY <2>1, <2>2 DEF IInv, KeeperUpToDate
  <2>3. ASSUME NEW u \in Op, op'[u].phase = "read", keeper' = op'[u].run
        PROVE  process'[op'[u].run].seen = history'.archive
    BY <1>2, <1>4, <2>1, <2>3 DEF IInv, KeeperUpToDate
  <2>4. ASSUME NEW s \in Run, keeper' = s, process'[s].pc \in {"ready", "cell"}
        PROVE  process'[s].told = history'.talk
    BY <1>2, <1>4, <2>4 DEF IInv, KeeperUpToDate
  <2>5. QED
    BY <2>2, <2>3, <2>4 DEF KeeperUpToDate
<1>14. \A u \in Op : KeyOf(u)' = KeyOf(u)
  BY <1>3, <1>5, <1>6 DEF KeyOf, JournalKey
(* Whose operation is under way at the key that was written, is r's. *)
<1>15. ASSUME NEW u \in Op, op[u].phase \in InHandler, KeyOf(u) = k PROVE op[u].run = r
  <2>1. op[u].run \in Run /\ process[op[u].run].pc = "cell"
    BY <1>1, <1>15 DEF IInv, HandlersInCells, Active, OpsOf, InHandler, OpRow
  <2>2. row[op[u].run] \notin {"waiting", "failed"}
    BY <2>1 DEF IInv, AttemptsApart
  <2>3. QED
    BY <1>2, <1>15, <2>1, <2>2 DEF IInv, AttemptsApart, Leased, KeyOf
<1>16. EffectsJournaled'
  <2>1. ASSUME NEW u \in Op, op'[u].phase \in {"ready", "sent"}
        PROVE  journal'[KeyOf(u)].flag \/ u \in journal'[KeyOf(u)].inFlight
    <3>1. /\ op[u].phase \in {"starting", "ready", "sent"}
          /\ u # o => op[u].phase \in {"ready", "sent"}
      BY <1>3, <1>5, <1>6, <2>1
    <3>2. KeyOf(u) \in Key
      BY <1>1, <3>1, Constants DEF IInv, HandlersInCells, KeyOf, OpRow
    <3>3. CASE KeyOf(u) = k
      <4>1. u \in Running(r)
        BY <1>15, <3>1, <3>3 DEF Running, OpsOf, InHandler
      <4>2. QED
        BY <1>8, <3>3, <4>1
    <3>4. CASE KeyOf(u) # k
      <4>1. u # o
        BY <1>3, <3>4 DEF KeyOf
      <4>2. QED
        BY <1>8, <3>1, <3>2, <3>4, <4>1 DEF IInv, EffectsJournaled
    <3>5. QED
      BY <3>3, <3>4
  <2>2. \A u \in Op : op'[u].unknown => op'[u].phase \notin {"new", "starting", "ready", "sent"}
    BY <1>3, <1>5, <1>6 DEF IInv, EffectsJournaled
  <2>3. QED
    BY <1>14, <2>1, <2>2 DEF EffectsJournaled
<1>17. CellStartsClean'
  <2>1. ASSUME NEW s \in Run, Leased(s)', process'[s].pc = "cell", ~journal'[JournalKey(s)].flag
        PROVE  journal'[JournalKey(s)].inFlight \subseteq OpsOf(s)
    <3>1. CASE JournalKey(s) = k
      <4>1. s = r
        BY <1>2, <2>1, <3>1 DEF IInv, AttemptsApart, Leased
      <4>2. QED
        BY <1>8, <4>1 DEF Running
    <3>2. CASE JournalKey(s) # k
      <4>1. journal'[JournalKey(s)] = journal[JournalKey(s)]
        BY <1>8, <3>2, Constants
      <4>2. QED
        BY <1>2, <1>4, <2>1, <4>1 DEF IInv, CellStartsClean, Leased
    <3>3. QED
      BY <3>1, <3>2
  <2>2. \A s \in Run : OpsOf(s)' = OpsOf(s)
    BY <1>3, <1>5, <1>6 DEF OpsOf
  <2>3. QED
    BY <2>1, <2>2 DEF CellStartsClean, JournalKey
<1>18. UnknownIsFlagged'
  <2>1. ASSUME NEW u \in Op, u \in Unknown'
        PROVE  op'[u].overtaken \/ journal'[KeyOf(u)].flag \/ u \in journal'[KeyOf(u)].inFlight
    <3>1. op[u].unknown \/ op[u].phase = "sent"
      BY <1>5, <1>6, <2>1 DEF Unknown
    <3>2. KeyOf(u) \in Key
      BY <1>1, <3>1, Constants DEF IInv, HandlersInCells, EffectsJournaled, KeyOf, OpRow
    <3>3. CASE u = o
      <4>1. unknown /\ KeyOf(u) = k
        BY <1>3, <3>1, <3>3 DEF IInv, EffectsJournaled, KeyOf, unknown
      <4>2. QED
        BY <1>8, <4>1
    <3>4. CASE u # o
      <4>1. op[u].overtaken \/ journal[KeyOf(u)].flag \/ u \in journal[KeyOf(u)].inFlight
        BY <3>1 DEF IInv, UnknownIsFlagged, Unknown
      <4>2. CASE op[u].overtaken \/ KeyOf(u) # k
        BY <1>5, <1>8, <3>2, <3>4, <4>1, <4>2
      <4>3. CASE journal[KeyOf(u)].flag
        BY <1>8, <3>2, <4>3
      <4>4. CASE KeyOf(u) = k /\ u \in journal[k].inFlight /\ u \in Running(r)
        BY <1>8, <4>4
      <4>5. CASE KeyOf(u) = k /\ u \in journal[k].inFlight /\ u \notin Running(r)
        <5>1. op[u].unknown
          BY <1>15, <3>1, <4>5 DEF Running, OpsOf, InHandler
        <5>2. u \in Overtaken(r, o)
          BY <3>4, <4>5, <5>1 DEF Overtaken
        <5>3. QED
          BY <1>5, <3>4, <5>2
      <4>6. QED
        BY <4>1, <4>2, <4>3, <4>4, <4>5
    <3>5. QED
      BY <3>3, <3>4
  <2>2. QED
    BY <1>14, <2>1 DEF UnknownIsFlagged, Unknown
<1>19. QED
  BY <1>9, <1>10, <1>11, <1>12, <1>13, <1>16, <1>17, <1>18 DEF IInv

-----------------------------------------------------------------------------
LEMMA InitHolds == ASSUME Init PROVE IInv
<1>1. NoProcess("new") \in ProcessRow /\ NoProcess("new").pc = "new"
  BY Constants, EmptySeq DEF ProcessRow, NoProcess
<1>2. \A r \in Run : process[r].pc = "new" /\ queue[r] = <<>> /\ row[r] = "waiting"
  BY <1>1 DEF Init
<1>3. \A o \in Op : op[o].phase = "new" /\ op[o].run = None /\ ~op[o].unknown
  BY DEF Init
<1>4. TypeOK
  BY <1>1, Types, Constants, EmptySeq DEF Init, OpRow, JournalRow
<1>5. AttemptsApart
  BY <1>2 DEF AttemptsApart
<1>6. HandlersInCells
  BY <1>2, <1>3 DEF HandlersInCells, Active, OpsOf, InHandler
<1>7. WritesWanted
  BY <1>2, EmptySeq DEF WritesWanted, WritesOf
<1>8. KeeperUpToDate
  BY <1>2, <1>3 DEF KeeperUpToDate
<1>9. EffectsJournaled /\ UnknownIsFlagged
  BY <1>3 DEF EffectsJournaled, UnknownIsFlagged, Unknown
<1>10. CellStartsClean
  BY <1>2 DEF CellStartsClean
<1>11. QED
  BY <1>4, <1>5, <1>6, <1>7, <1>8, <1>9, <1>10 DEF IInv

(* The steps that leave operations and history alone. *)
Aside(r) == \/ Start(r) \/ Revoke(r) \/ Acquire(r) \/ Release(r) \/ Settle(r)
            \/ OpenCell(r) \/ ControlChanged(r) \/ Deopt(r) \/ Throw(r)
            \/ \E ok \in BOOLEAN : ScriptEnds(r, ok)

LEMMA Steps ==
    ASSUME Next
    PROVE  \E r \in Run : \/ Aside(r) \/ Crash(r) \/ WriteJournal(r) \/ JournalLost(r)
                          \/ \E o \in Op : Operate(r, o)
                          \/ \E ok \in BOOLEAN, next \in {"ready", "closing"} : EndTurn(r, next, ok)
BY DEF Next, Aside

LEMMA NextKeeps == ASSUME IInv, [Next]_vars PROVE IInv'
<1>1. CASE UNCHANGED vars
  <2>1. /\ row' = row /\ process' = process /\ op' = op /\ queue' = queue /\ journal' = journal
        /\ keeper' = keeper /\ history' = history /\ faults' = faults
    BY <1>1 DEF vars, tables
  <2>2. TypeOK'
    BY <2>1 DEF IInv, TypeOK
  <2>3. AttemptsApart' /\ HandlersInCells' /\ WritesWanted'
    BY <2>1 DEF IInv, AttemptsApart, JournalKey, HandlersInCells, Active, OpsOf, WritesWanted, WritesOf
  <2>4. KeeperUpToDate' /\ EffectsJournaled'
    BY <2>1 DEF IInv, KeeperUpToDate, EffectsJournaled, KeyOf, JournalKey
  <2>5. CellStartsClean' /\ UnknownIsFlagged'
    BY <2>1 DEF IInv, CellStartsClean, Leased, JournalKey, OpsOf, UnknownIsFlagged, Unknown, KeyOf
  <2>6. QED
    BY <2>2, <2>3, <2>4, <2>5 DEF IInv
<1>2. CASE Next
  <2>1. ASSUME NEW r \in Run, Aside(r) PROVE IInv'
    BY <2>1, StartKeeps, RevokeKeeps, AcquireKeeps, ReleaseKeeps, SettleKeeps, OpenCellKeeps,
       ControlChangedKeeps, DeoptKeeps, ThrowKeeps, ScriptEndsKeeps DEF Aside
  <2>2. ASSUME NEW r \in Run, Crash(r) \/ WriteJournal(r) \/ JournalLost(r) PROVE IInv'
    BY <2>2, CrashKeeps, WriteJournalKeeps, JournalLostKeeps
  <2>3. ASSUME NEW r \in Run, NEW o \in Op, Operate(r, o) PROVE IInv'
    BY <2>3, CallKeeps, DispatchKeeps, RefuseKeeps, ReturnKeeps, ReadArchiveKeeps,
       ExtendArchiveKeeps DEF Operate
  <2>4. ASSUME NEW r \in Run, NEW ok \in BOOLEAN, NEW next \in {"ready", "closing"},
               EndTurn(r, next, ok)
        PROVE  IInv'
    BY <2>4, EndTurnKeeps
  <2>5. QED
    BY <1>2, <2>1, <2>2, <2>3, <2>4, Steps
<1>3. QED
  BY <1>1, <1>2

LEMMA Invariance == Spec => []IInv
<1>1. Init => IInv
  BY InitHolds
<1>2. IInv /\ [Next]_vars => IInv'
  BY NextKeeps
<1>3. QED
  BY <1>1, <1>2, PTL DEF Spec

(* Rows, processes, operations, queues, journal and history stay well      *)
(* formed.                                                                 *)
THEOREM TypeCorrect == Spec => []TypeOK
<1>1. IInv => TypeOK
  BY DEF IInv
<1>2. QED
  BY <1>1, Invariance, PTL

(* What may have happened to a website unanswered is in the journal of its *)
(* trigger, whichever attempts, processes and writes fail: the state queue *)
(* of python-tool, for any number of runs, cells and operations.           *)
THEOREM UnknownAlwaysFlagged == Spec => []UnknownIsFlagged
<1>1. IInv => UnknownIsFlagged
  BY DEF IInv
<1>2. QED
  BY <1>1, Invariance, PTL

-----------------------------------------------------------------------------
LEMMA OnlyDispatchSends ==
    ASSUME IInv, [Next]_vars, NEW o \in Op, op[o].phase # "sent", op'[o].phase = "sent"
    PROVE  \E r \in Run : Dispatch(r, o)
<1>1. op \in [Op -> OpRow] /\ queue \in [Run -> Seq(Op)]
  BY Types DEF IInv
<1>2. op' # op
  OBVIOUS
<1>3. CASE Next
  <2>1. PICK r \in Run : \/ Aside(r) \/ Crash(r) \/ WriteJournal(r) \/ JournalLost(r)
                         \/ \E q \in Op : Operate(r, q)
                         \/ \E ok \in BOOLEAN, next \in {"ready", "closing"} : EndTurn(r, next, ok)
    BY <1>3, Steps
  <2>2. ~Aside(r)
    BY <1>2 DEF Aside, Start, Revoke, Acquire, Release, Settle, OpenCell, ControlChanged,
                Deopt, Throw, ScriptEnds, tables
  <2>3. ~\E ok \in BOOLEAN, next \in {"ready", "closing"} : EndTurn(r, next, ok)
    BY <1>2 DEF EndTurn
  <2>4. ~Crash(r)
    <3>1. SUFFICES ASSUME Crash(r) PROVE FALSE
      OBVIOUS
    <3>2. op'[o] = IF o \notin Active(r) THEN op[o]
                   ELSE [op[o] EXCEPT !.phase = "over", !.unknown = @ \/ op[o].phase = "sent"]
      BY <3>1 DEF Crash
    <3>3. QED
      BY <1>1, <3>2 DEF OpRow
  <2>5. ~WriteJournal(r)
    <3>1. SUFFICES ASSUME WriteJournal(r) PROVE FALSE
      OBVIOUS
    <3>2. op' = Written(r, Head(queue[r]))
      BY <3>1 DEF WriteJournal
    <3>3. \/ op'[o] = [op[o] EXCEPT !.phase = IF @ = "starting" THEN "ready" ELSE "noted",
                                    !.overtaken = FALSE]
          \/ op'[o] = [op[o] EXCEPT !.overtaken = @ \/ o \in Overtaken(r, Head(queue[r]))]
      BY <3>2 DEF Written
    <3>4. op[o] \in OpRow
      BY <1>1
    <3>5. CASE op'[o] = [op[o] EXCEPT !.phase = IF @ = "starting" THEN "ready" ELSE "noted",
                                      !.overtaken = FALSE]
      BY <3>4, <3>5 DEF OpRow
    <3>6. CASE op'[o] = [op[o] EXCEPT !.overtaken = @ \/ o \in Overtaken(r, Head(queue[r]))]
      <4>1. op'[o].phase = op[o].phase
        BY <3>4, <3>6 DEF OpRow
      <4>2. QED
        BY <4>1
    <3>7. QED
      BY <3>3, <3>5, <3>6
  <2>6. ~JournalLost(r)
    BY <1>1 DEF JournalLost, OpRow
  <2>7. PICK q \in Op : Operate(r, q)
    BY <2>1, <2>2, <2>3, <2>4, <2>5, <2>6
  <2>8. ~Call(r, q) /\ ~Refuse(r, q) /\ (\A unknown \in BOOLEAN : ~Return(r, q, unknown))
    <3>1. ~Call(r, q)
      BY <1>1 DEF Call, OpRow
    <3>2. ~Refuse(r, q)
      BY <1>1 DEF Refuse, OpRow
    <3>3. ASSUME NEW unknown \in BOOLEAN PROVE ~Return(r, q, unknown)
      BY <1>1 DEF Return, OpRow
    <3>4. QED
      BY <3>1, <3>2, <3>3
  <2>9. ~ReadArchive(r, q) /\ ~ExtendArchive(r, q)
    <3>1. ~ReadArchive(r, q)
      BY <1>1 DEF ReadArchive, OpRow
    <3>2. ~ExtendArchive(r, q)
      BY <1>1 DEF ExtendArchive, OpRow
    <3>3. QED
      BY <3>1, <3>2
  <2>10. Dispatch(r, q)
    BY <2>7, <2>8, <2>9 DEF Operate
  <2>11. q = o
    BY <1>1, <2>10 DEF Dispatch, OpRow
  <2>12. QED
    BY <2>10, <2>11
<1>4. QED
  BY <1>2, <1>3 DEF vars

(* A compiled script sends nothing over an unknown effect of an earlier    *)
(* attempt: an open cell that owes no reconciliation has only its own      *)
(* operations in flight, and a second attempt that finds others owes one.  *)
THEOREM NothingReplayedBlindly == Spec => NoBlindReplay
<1> DEFINE Safe == \A r \in Run, o \in Op : Sends(r, o) =>
                      \A u \in Unknown :
                         op[u].run # r /\ KeyOf(u) = JournalKey(r) => op[u].overtaken
<1>1. ASSUME IInv, [Next]_vars PROVE Safe
  <2>1. SUFFICES ASSUME NEW r \in Run, NEW o \in Op, Sends(r, o),
                        NEW u \in Unknown, op[u].run # r, KeyOf(u) = JournalKey(r)
                 PROVE  op[u].overtaken
    OBVIOUS
  <2>2. PICK q \in Run : Dispatch(q, o)
    BY <1>1, <2>1, OnlyDispatchSends DEF Sends
  <2>3. q = r /\ op[o].phase = "ready" /\ ~MustReconcile(r)
    BY <2>1, <2>2 DEF Dispatch, OpsOf, Sends
  <2>4. process[r].pc = "cell"
    BY <1>1, <2>2, <2>3, InCell DEF Dispatch, InHandler
  <2>5. ~journal[JournalKey(r)].flag
    BY <2>1, <2>3 DEF MustReconcile, Sends
  <2>6. journal[JournalKey(r)].inFlight \subseteq OpsOf(r)
    BY <1>1, <2>1, <2>4, <2>5 DEF IInv, CellStartsClean, Sends
  <2>7. u \notin OpsOf(r)
    BY <2>1 DEF OpsOf
  <2>8. QED
    BY <1>1, <2>1, <2>5, <2>6, <2>7 DEF IInv, UnknownIsFlagged
<1>2. ASSUME IInv, [Next]_vars PROVE [Safe]_vars
  BY <1>1, <1>2
<1>3. QED
  BY <1>2, Invariance, PTL DEF Spec, NoBlindReplay

(* Archive and conversation only grow, whoever keeps them and however late *)
(* a replaced process writes.                                              *)
THEOREM HistoryNeverShrinks == Spec => HistoryOnlyGrows
<1> DEFINE Grows == /\ Len(history'.archive) >= Len(history.archive)
                    /\ SubSeq(history'.archive, 1, Len(history.archive)) = history.archive
                    /\ history.talk \subseteq history'.talk
<1>1. ASSUME IInv, [Next]_vars PROVE Grows
  <2>1. history \in [archive : Seq(Op), talk : SUBSET Turn]
    BY <1>1, Types DEF IInv
  <2>2. SubSeq(history.archive, 1, Len(history.archive)) = history.archive
    BY <2>1, SubSeqProperties
  <2>3. CASE history'.archive = history.archive /\ history.talk \subseteq history'.talk
    BY <2>1, <2>2, <2>3
  <2>4. CASE history' = history
    BY <2>3, <2>4
  <2>5. ASSUME NEW r \in Run, NEW o \in Op, ExtendArchive(r, o) PROVE Grows
    <3>1. CASE history' = [history EXCEPT !.archive = Append(history.archive, o)]
      <4>1. history'.archive = Append(history.archive, o) /\ history'.talk = history.talk
        BY <2>1, <3>1
      <4>2. history.archive \in Seq(Op) /\ Len(history.archive) \in Nat
        BY <2>1
      <4>3. /\ Len(Append(history.archive, o)) = Len(history.archive) + 1
            /\ SubSeq(Append(history.archive, o), 1, Len(history.archive)) = history.archive
        BY <4>2
      <4>4. QED
        BY <4>1, <4>2, <4>3
    <3>2. QED
      BY <1>1, <2>4, <2>5, <3>1, ExtendsWhatIsThere
  <2>6. CASE Next
    <3>1. PICK r \in Run : \/ Aside(r) \/ Crash(r) \/ WriteJournal(r) \/ JournalLost(r)
                           \/ \E o \in Op : Operate(r, o)
                           \/ \E ok \in BOOLEAN, next \in {"ready", "closing"} : EndTurn(r, next, ok)
      BY <2>6, Steps
    <3>2. Aside(r) => history' = history
      BY DEF Aside, Start, Revoke, Acquire, Release, Settle, OpenCell, ControlChanged,
             Deopt, Throw, ScriptEnds, tables
    <3>3. Crash(r) \/ WriteJournal(r) \/ JournalLost(r) => history' = history
      BY DEF Crash, WriteJournal, JournalLost, tables
    <3>4. \A o \in Op : Operate(r, o) => ExtendArchive(r, o) \/ history' = history
      BY DEF Operate, Call, Dispatch, Refuse, Return, ReadArchive, tables
    <3>5. \A ok \in BOOLEAN, next \in {"ready", "closing"} : EndTurn(r, next, ok) => Grows
      BY <1>1, <2>3, EndTurnKeeps
    <3>6. QED
      BY <2>4, <2>5, <3>1, <3>2, <3>3, <3>4, <3>5
  <2>7. QED
    BY <1>1, <2>4, <2>6 DEF vars, tables
<1>2. ASSUME IInv, [Next]_vars PROVE [Grows]_vars
  BY <1>1, <1>2
<1>3. QED
  BY <1>2, Invariance, PTL DEF Spec, HistoryOnlyGrows
=============================================================================
