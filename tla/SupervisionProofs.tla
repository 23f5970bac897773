------------------------- MODULE SupervisionProofs -------------------------
(***************************************************************************)
(* Safety of Supervision, for every number of tasks and supervisors, every *)
(* configuration and every channel capacity: first the types, then who     *)
(* owns the row, its pid and its child, then who owes whom an              *)
(* acknowledgement, then what SupervisionPromises says of the operations   *)
(* that starts and restarts overlap, or do not, and last that all of it    *)
(* implements ProcessLife.                                                 *)
(***************************************************************************)
EXTENDS SupervisionPromises, TLAPS

-----------------------------------------------------------------------------
(* What the shared pieces of the handlers return.                          *)

RowType == row \in Row \cup {NoRow}
SupType == sup \in [Sups -> SupTask]
InboxType == inbox \in [Sups -> Seq(Tasks)]
ChildType == child \in [Sups -> {"none", "running", "exited", "dropped"}]
OpType == op \in [Tasks -> Operation]
AckType == ack \in [Tasks -> Answers]

LEMMA PcNames ==
  /\ "free" \in SupPcs /\ "start" \in SupPcs /\ "born" \in SupPcs /\ "failed" \in SupPcs
  /\ "watch" \in SupPcs /\ "reaped" \in SupPcs /\ "exited" \in SupPcs /\ "decide" \in SupPcs
  /\ "backoff" \in SupPcs /\ "kill" \in SupPcs /\ "sigkill" \in SupPcs /\ "killed" \in SupPcs
  /\ "clear" \in SupPcs
  BY DEF SupPcs

LEMMA OpPcNames ==
  /\ "idle" \in OpPcs /\ "stopFlip" \in OpPcs /\ "restartRead" \in OpPcs /\ "restartFlip" \in OpPcs
  /\ "resetState" \in OpPcs /\ "deleteFlip" \in OpPcs /\ "send" \in OpPcs /\ "await" \in OpPcs
  /\ "settle" \in OpPcs /\ "remove" \in OpPcs /\ "launchGate" \in OpPcs /\ "launchCheck" \in OpPcs
  /\ "spawn" \in OpPcs /\ "awaitSpawn" \in OpPcs /\ "arm" \in OpPcs /\ "snapshot" \in OpPcs
  /\ "drained" \in OpPcs
  BY DEF OpPcs

\* The exit facts always lead to a verdict that fits the row.
LEMMA DecideType ==
  ASSUME NEW r \in Row, NEW clean \in BOOLEAN, NEW quick \in BOOLEAN
  PROVE  Decide(r, clean, quick) \in Verdicts
  BY MaxRestartsAssumption DEF Row, Decide, Verdicts

LEMMA NoVerdictType == NoVerdict \in Verdicts
  BY MaxRestartsAssumption DEF NoVerdict, Verdicts

LEMMA FreeSupType == FreeSup \in SupTask
  BY NoVerdictType, PcNames DEF FreeSup, SupTask

LEMMA IdleOpType == IdleOp \in Operation
  BY OpPcNames DEF IdleOp, Operation

LEMMA NewRowType == NewRow \in Row
  BY MaxRestartsAssumption DEF NewRow, Row, Status

\* A row that is present is one of the table's, whatever is written to it.
LEMMA PresentRow ==
  ASSUME RowType, Present
  PROVE  row \in Row
  BY DEF RowType, Present, NoRow

LEMMA ResolveType ==
  ASSUME AckType, NEW okay, NEW gone, Resolve(okay, gone)
  PROVE  AckType'
  BY DEF AckType, Answers, Resolve

LEMMA ReturnType ==
  ASSUME SupType, InboxType, AckType, NEW s \in Sups, NEW okay, Return(s, okay)
  PROVE  SupType' /\ InboxType' /\ AckType'
<1>1. SupType'
  BY FreeSupType DEF Return, SupType
<1>2. InboxType'
  BY DEF Return, InboxType
<1>3. AckType'
  BY ResolveType DEF Return
<1> QED
  BY <1>1, <1>2, <1>3

LEMMA SetDeadType ==
  ASSUME RowType, NEW status \in Status, SetDead(status)
  PROVE  RowType'
  BY PresentRow DEF RowType, SetDead, Row

LEMMA ManualRestartType ==
  ASSUME RowType, NEW pid \in Sups \cup {NoSup}, ManualRestart(pid)
  PROVE  RowType'
<1>1. CASE Present
  <2>1. row' = [row EXCEPT !.unstable = 0, !.status = "launching", !.pid = pid]
    BY <1>1 DEF ManualRestart
  <2>2. row \in Row /\ "launching" \in Status /\ 0 \in 0..MaxRestarts
    BY <1>1, PresentRow, MaxRestartsAssumption DEF Status
  <2> QED
    BY <2>1, <2>2 DEF RowType, Row
<1>2. CASE ~Present
  BY <1>2 DEF ManualRestart, RowType
<1> QED
  BY <1>1, <1>2

LEMMA RemoveProcType ==
  ASSUME RemoveProc
  PROVE  RowType' /\ watcher' \in BOOLEAN
  BY DEF RemoveProc, RowType

LEMMA GotoType ==
  ASSUME OpType, NEW t \in Tasks, NEW pc \in OpPcs, Goto(t, pc)
  PROVE  OpType'
  BY DEF OpType, Operation, Goto

LEMMA FinishType ==
  ASSUME OpType, NEW t \in Tasks, Finish(t)
  PROVE  OpType'
  BY IdleOpType, OpPcNames DEF OpType, Operation, Finish

LEMMA FallbackType ==
  ASSUME NEW t \in Tasks
  PROVE  Fallback(t) \in OpPcs
  BY OpPcNames DEF Fallback

-----------------------------------------------------------------------------
(* Type correctness.                                                       *)

LEMMA SupStartType ==
  ASSUME TypeOK, NEW s \in Sups, SupStart(s)
  PROVE  TypeOK'
<1>0. RowType /\ SupType /\ InboxType /\ ChildType /\ OpType /\ AckType
  BY DEF TypeOK, RowType, SupType, InboxType, ChildType, OpType, AckType
<1>1. SupType' /\ InboxType' /\ AckType'
  <2>1. CASE Return(s, {})
    BY <1>0, <2>1, ReturnType
  <2>2. CASE UNCHANGED <<inbox, ack>> /\ \E pc \in {"born", "failed"} : sup' = [sup EXCEPT ![s].pc = pc]
    <3>1. PICK pc \in SupPcs : sup' = [sup EXCEPT ![s].pc = pc]
      BY <2>2, PcNames
    <3> QED
      BY <1>0, <2>2, <3>1 DEF SupType, SupTask, InboxType, AckType
  <2> QED
    BY <2>1, <2>2 DEF SupStart
<1>2. ChildType'
  BY <1>0 DEF ChildType, SupStart
<1> QED
  BY <1>0, <1>1, <1>2 DEF TypeOK, RowType, SupType, InboxType, ChildType, OpType, AckType, SupStart

LEMMA SpawnFailedType ==
  ASSUME TypeOK, NEW s \in Sups, SpawnFailed(s)
  PROVE  TypeOK'
<1>0. RowType /\ SupType /\ InboxType /\ ChildType /\ OpType /\ AckType
  BY DEF TypeOK, RowType, SupType, InboxType, ChildType, OpType, AckType
<1>1. RowType'
  BY <1>0, SetDeadType DEF SpawnFailed, Status
<1>2. SupType'
  BY <1>0, PcNames DEF SupType, SupTask, SpawnFailed
<1>3. AckType'
  BY <1>0 DEF AckType, Answers, SpawnFailed
<1> QED
  BY <1>0, <1>1, <1>2, <1>3 DEF TypeOK, RowType, SupType, InboxType, ChildType, OpType, AckType, SpawnFailed

LEMMA ReapType ==
  ASSUME TypeOK, NEW s \in Sups, Reap(s)
  PROVE  TypeOK'
<1>0. RowType /\ SupType /\ InboxType /\ ChildType /\ OpType /\ AckType
  BY DEF TypeOK, RowType, SupType, InboxType, ChildType, OpType, AckType
<1>1. SupType'
  <2>1. PICK pc \in {"reaped", "killed"} : sup' = [sup EXCEPT ![s].pc = pc]
    BY DEF Reap
  <2> QED
    BY <1>0, <2>1, PcNames DEF SupType, SupTask
<1>2. ChildType'
  BY <1>0 DEF ChildType, Reap
<1> QED
  BY <1>0, <1>1, <1>2 DEF TypeOK, RowType, SupType, InboxType, ChildType, OpType, AckType, Reap

LEMMA GoOnlineType ==
  ASSUME TypeOK, NEW s \in Sups, GoOnline(s)
  PROVE  TypeOK'
<1>0. RowType /\ SupType /\ InboxType /\ ChildType /\ OpType /\ AckType
  BY DEF TypeOK, RowType, SupType, InboxType, ChildType, OpType, AckType
<1>1. RowType'
  <2>1. CASE Present
    <3>1. row' = [row EXCEPT !.status = "online", !.pid = s] /\ row \in Row
      BY <1>0, <2>1, PresentRow DEF GoOnline
    <3> QED
      BY <3>1 DEF RowType, Row, Status
  <2> QED
    BY <1>0, <2>1 DEF GoOnline, RowType
<1>2. SupType'
  BY <1>0, PcNames DEF SupType, SupTask, GoOnline
<1>3. AckType'
  BY <1>0, ResolveType DEF GoOnline
<1> QED
  BY <1>0, <1>1, <1>2, <1>3 DEF TypeOK, RowType, SupType, InboxType, ChildType, OpType, AckType, GoOnline

LEMMA NaturalExitType ==
  ASSUME TypeOK, NEW s \in Sups, NaturalExit(s)
  PROVE  TypeOK'
<1>0. RowType /\ SupType /\ InboxType /\ ChildType /\ OpType /\ AckType
  BY DEF TypeOK, RowType, SupType, InboxType, ChildType, OpType, AckType
<1>1. RowType'
  <2>1. CASE Present
    <3>1. row' = [row EXCEPT !.pid = NoSup] /\ row \in Row
      BY <1>0, <2>1, PresentRow DEF NaturalExit
    <3> QED
      BY <3>1 DEF RowType, Row
  <2> QED
    BY <1>0, <2>1 DEF NaturalExit, RowType
<1>2. SupType' /\ InboxType' /\ AckType'
  <2>1. CASE Return(s, {})
    BY <1>0, <2>1, ReturnType
  <2>2. CASE Present /\ UNCHANGED <<inbox, ack>>
    <3>1. PICK clean \in BOOLEAN, quick \in BOOLEAN :
            sup' = [sup EXCEPT ![s].pc = "exited", ![s].verdict = Decide(row, clean, quick)]
      BY <2>2 DEF NaturalExit
    <3>2. Decide(row, clean, quick) \in Verdicts
      BY <1>0, <2>2, PresentRow, DecideType
    <3> QED
      BY <1>0, <2>2, <3>1, <3>2, PcNames DEF SupType, SupTask, InboxType, AckType
  <2> QED
    BY <2>1, <2>2 DEF NaturalExit
<1>3. ChildType'
  BY <1>0 DEF ChildType, NaturalExit
<1> QED
  BY <1>0, <1>1, <1>2, <1>3 DEF TypeOK, RowType, SupType, InboxType, ChildType, OpType, AckType, NaturalExit

LEMMA CheckShutdownType ==
  ASSUME TypeOK, NEW s \in Sups, CheckShutdown(s)
  PROVE  TypeOK'
<1>0. RowType /\ SupType /\ InboxType /\ ChildType /\ OpType /\ AckType
  BY DEF TypeOK, RowType, SupType, InboxType, ChildType, OpType, AckType
<1>1. SupType' /\ InboxType' /\ AckType'
  <2>1. CASE Return(s, {})
    BY <1>0, <2>1, ReturnType
  <2>2. CASE UNCHANGED <<inbox, ack>> /\ sup' = [sup EXCEPT ![s].pc = "decide"]
    BY <1>0, <2>2, PcNames DEF SupType, SupTask, InboxType, AckType
  <2> QED
    BY <2>1, <2>2 DEF CheckShutdown
<1> QED
  BY <1>0, <1>1 DEF TypeOK, RowType, SupType, InboxType, ChildType, OpType, AckType, CheckShutdown

LEMMA ExitStopsType ==
  ASSUME TypeOK, NEW s \in Sups, ExitStops(s)
  PROVE  TypeOK'
<1>0. RowType /\ SupType /\ InboxType /\ ChildType /\ OpType /\ AckType
  BY DEF TypeOK, RowType, SupType, InboxType, ChildType, OpType, AckType
<1>1. RowType'
  BY <1>0, SetDeadType DEF ExitStops, Status
<1>2. SupType'
  BY <1>0, NoVerdictType, PcNames DEF ExitStops, SupType, SupTask
<1> QED
  BY <1>0, <1>1, <1>2 DEF TypeOK, RowType, SupType, InboxType, ChildType, OpType, AckType, ExitStops

LEMMA ExitGivesUpType ==
  ASSUME TypeOK, NEW s \in Sups, ExitGivesUp(s)
  PROVE  TypeOK'
<1>0. RowType /\ SupType /\ InboxType /\ ChildType /\ OpType /\ AckType
  BY DEF TypeOK, RowType, SupType, InboxType, ChildType, OpType, AckType
<1>1. RowType'
  <2>1. CASE Present
    <3>1. row' = [row EXCEPT !.status = "errored", !.unstable = MaxRestarts] /\ row \in Row
      BY <1>0, <2>1, PresentRow DEF ExitGivesUp
    <3>2. MaxRestarts \in 0..MaxRestarts
      BY MaxRestartsAssumption
    <3> QED
      BY <3>1, <3>2 DEF RowType, Row, Status
  <2> QED
    BY <1>0, <2>1 DEF ExitGivesUp, RowType
<1>2. SupType'
  BY <1>0, NoVerdictType, PcNames DEF SupType, SupTask, ExitGivesUp
<1> QED
  BY <1>0, <1>1, <1>2 DEF TypeOK, RowType, SupType, InboxType, ChildType, OpType, AckType, ExitGivesUp

LEMMA ExitRestartsType ==
  ASSUME TypeOK, NEW s \in Sups, ExitRestarts(s)
  PROVE  TypeOK'
<1>0. RowType /\ SupType /\ InboxType /\ ChildType /\ OpType /\ AckType
  BY DEF TypeOK, RowType, SupType, InboxType, ChildType, OpType, AckType
<1>1. RowType'
  <2>1. CASE Present
    <3>1. PICK status \in Status :
            row' = [row EXCEPT !.unstable = sup[s].verdict.unstable, !.status = status]
      BY <2>1 DEF ExitRestarts, Status
    <3>2. row \in Row /\ sup[s].verdict.unstable \in 0..MaxRestarts
      BY <1>0, <2>1, PresentRow DEF SupType, SupTask, Verdicts
    <3> QED
      BY <3>1, <3>2 DEF RowType, Row
  <2> QED
    BY <1>0, <2>1 DEF ExitRestarts, RowType
<1>2. SupType'
  <2>1. PICK pc \in {"backoff", "start"} :
          sup' = [sup EXCEPT ![s].pc = pc, ![s].verdict = NoVerdict]
    BY DEF ExitRestarts
  <2> QED
    BY <1>0, <2>1, NoVerdictType, PcNames DEF SupType, SupTask
<1> QED
  BY <1>0, <1>1, <1>2 DEF TypeOK, RowType, SupType, InboxType, ChildType, OpType, AckType, ExitRestarts

LEMMA BackoffElapsedType ==
  ASSUME TypeOK, NEW s \in Sups, BackoffElapsed(s)
  PROVE  TypeOK'
<1>0. RowType /\ SupType /\ InboxType /\ ChildType /\ OpType /\ AckType
  BY DEF TypeOK, RowType, SupType, InboxType, ChildType, OpType, AckType
<1>1. SupType'
  BY <1>0, PcNames DEF BackoffElapsed, SupType, SupTask
<1> QED
  BY <1>0, <1>1 DEF TypeOK, RowType, SupType, InboxType, ChildType, OpType, AckType, BackoffElapsed

LEMMA BackoffCommandType ==
  ASSUME TypeOK, NEW s \in Sups, BackoffCommand(s)
  PROVE  TypeOK'
<1>0. RowType /\ SupType /\ InboxType /\ ChildType /\ OpType /\ AckType
  BY DEF TypeOK, RowType, SupType, InboxType, ChildType, OpType, AckType
<1>1. PICK t \in Tasks : t = Head(inbox[s]) /\ Tail(inbox[s]) \in Seq(Tasks)
  BY <1>0 DEF InboxType, BackoffCommand
<1>2. CASE BackoffRestart(s, t)
  <2>1. RowType'
    <3>1. Present => row.pid \in Sups \cup {NoSup}
      BY <1>0, PresentRow DEF Row
    <3>2. CASE Present
      BY <1>0, <1>2, <3>1, <3>2, ManualRestartType DEF BackoffRestart
    <3>3. CASE ~Present
      BY <1>0, <1>2, <3>3 DEF BackoffRestart, ManualRestart, RowType
    <3> QED
      BY <3>2, <3>3
  <2>2. SupType' /\ InboxType'
    BY <1>0, <1>1, <1>2, PcNames DEF BackoffRestart, SupType, SupTask, InboxType
  <2>3. AckType'
    BY <1>0, <1>2, ResolveType DEF BackoffRestart
  <2> QED
    BY <1>0, <1>2, <2>1, <2>2, <2>3 DEF TypeOK, RowType, SupType, InboxType, ChildType, OpType, AckType, BackoffCommand, BackoffRestart
<1>3. CASE BackoffStop(s, t)
  <2>1. RowType'
    BY <1>0, <1>3, SetDeadType DEF BackoffStop, Status
  <2>2. SupType' /\ InboxType'
    BY <1>0, <1>1, <1>3, PcNames DEF BackoffStop, SupType, SupTask, InboxType
  <2> QED
    BY <1>0, <1>3, <2>1, <2>2 DEF TypeOK, RowType, SupType, InboxType, ChildType, OpType, AckType, BackoffCommand, BackoffStop
<1>4. CASE BackoffDelete(s, t)
  <2>1. RowType' /\ watcher' \in BOOLEAN
    BY <1>4, RemoveProcType DEF BackoffDelete
  <2>2. SupType' /\ InboxType' /\ AckType'
    BY <1>0, <1>4, ReturnType DEF BackoffDelete
  <2> QED
    BY <1>0, <2>1, <2>2 DEF TypeOK, RowType, SupType, InboxType, ChildType, OpType, AckType, BackoffCommand
<1> QED
  BY <1>0, <1>1, <1>2, <1>3, <1>4 DEF TypeOK, RowType, SupType, InboxType, ChildType, OpType, AckType, BackoffCommand

LEMMA TakeCommandType ==
  ASSUME TypeOK, NEW s \in Sups, TakeCommand(s)
  PROVE  TypeOK'
<1>0. RowType /\ SupType /\ InboxType /\ ChildType /\ OpType /\ AckType
  BY DEF TypeOK, RowType, SupType, InboxType, ChildType, OpType, AckType
<1>1. RowType'
  <2>1. CASE Present
    <3>1. row' = [row EXCEPT !.status = "stopping"] /\ row \in Row
      BY <1>0, <2>1, PresentRow DEF TakeCommand
    <3> QED
      BY <3>1 DEF RowType, Row, Status
  <2> QED
    BY <1>0, <2>1 DEF TakeCommand, RowType
<1>2. Head(inbox[s]) \in Tasks /\ Tail(inbox[s]) \in Seq(Tasks)
  BY <1>0 DEF InboxType, TakeCommand
<1>3. SupType' /\ InboxType'
  BY <1>0, <1>2, PcNames DEF SupType, SupTask, InboxType, TakeCommand
<1> QED
  BY <1>0, <1>1, <1>2, <1>3 DEF TypeOK, RowType, SupType, InboxType, ChildType, OpType, AckType, TakeCommand

LEMMA KillTimeoutType ==
  ASSUME TypeOK, NEW s \in Sups, KillTimeout(s)
  PROVE  TypeOK'
<1>0. RowType /\ SupType /\ InboxType /\ ChildType /\ OpType /\ AckType
  BY DEF TypeOK, RowType, SupType, InboxType, ChildType, OpType, AckType
<1>1. SupType'
  BY <1>0, PcNames DEF KillTimeout, SupType, SupTask
<1> QED
  BY <1>0, <1>1 DEF TypeOK, RowType, SupType, InboxType, ChildType, OpType, AckType, KillTimeout

LEMMA KillDoneType ==
  ASSUME TypeOK, NEW s \in Sups, KillDone(s)
  PROVE  TypeOK'
<1>0. RowType /\ SupType /\ InboxType /\ ChildType /\ OpType /\ AckType
  BY DEF TypeOK, RowType, SupType, InboxType, ChildType, OpType, AckType
<1>1. PICK t \in Tasks \cup {NoTask} : t = sup[s].cmd
  BY <1>0 DEF SupType, SupTask
<1>2. ChildType'
  BY <1>0 DEF ChildType, KillDone
<1>3. CASE KilledForRestart(s, t)
  <2>1. RowType'
    BY <1>0, <1>3, ManualRestartType DEF KilledForRestart
  <2>2. SupType'
    BY <1>0, <1>3, PcNames DEF KilledForRestart, SupType, SupTask
  <2>3. AckType'
    BY <1>0, <1>3, ResolveType DEF KilledForRestart
  <2> QED
    BY <1>0, <1>2, <1>3, <2>1, <2>2, <2>3 DEF TypeOK, RowType, SupType, InboxType, ChildType, OpType, AckType, KillDone, KilledForRestart
<1>4. CASE KilledForStop(s, t)
  <2>1. RowType'
    BY <1>0, <1>4, SetDeadType DEF KilledForStop, Status
  <2>2. SupType'
    BY <1>0, <1>4, PcNames DEF KilledForStop, SupType, SupTask
  <2> QED
    BY <1>0, <1>2, <1>4, <2>1, <2>2 DEF TypeOK, RowType, SupType, InboxType, ChildType, OpType, AckType, KillDone, KilledForStop
<1>5. CASE KilledForDelete(s, t)
  <2>1. RowType' /\ watcher' \in BOOLEAN
    BY <1>5, RemoveProcType DEF KilledForDelete
  <2>2. SupType' /\ InboxType' /\ AckType'
    BY <1>0, <1>5, ReturnType DEF KilledForDelete
  <2> QED
    BY <1>0, <1>2, <2>1, <2>2 DEF TypeOK, RowType, SupType, InboxType, ChildType, OpType, AckType, KillDone
<1> QED
  BY <1>0, <1>1, <1>2, <1>3, <1>4, <1>5 DEF TypeOK, RowType, SupType, InboxType, ChildType, OpType, AckType, KillDone

LEMMA ClearTxType ==
  ASSUME TypeOK, NEW s \in Sups, ClearTx(s)
  PROVE  TypeOK'
<1>0. RowType /\ SupType /\ InboxType /\ ChildType /\ OpType /\ AckType
  BY DEF TypeOK, RowType, SupType, InboxType, ChildType, OpType, AckType
<1>1. RowType'
  <2>1. CASE Present
    BY <1>0, <2>1, PresentRow DEF ClearTx, RowType, Row
  <2> QED
    BY <1>0, <2>1 DEF ClearTx, RowType
<1>2. SupType' /\ InboxType' /\ AckType'
  BY <1>0, ReturnType DEF ClearTx
<1> QED
  BY <1>0, <1>1, <1>2 DEF TypeOK, RowType, SupType, InboxType, ChildType, OpType, AckType, ClearTx

LEMMA SendersGoneType ==
  ASSUME TypeOK, NEW s \in Sups, SendersGone(s)
  PROVE  TypeOK'
<1>0. RowType /\ SupType /\ InboxType /\ ChildType /\ OpType /\ AckType
  BY DEF TypeOK, RowType, SupType, InboxType, ChildType, OpType, AckType
<1>1. SupType' /\ InboxType' /\ AckType'
  BY <1>0, ReturnType DEF SendersGone
<1>2. ChildType'
  BY <1>0 DEF SendersGone, ChildType
<1> QED
  BY <1>0, <1>1, <1>2 DEF TypeOK, RowType, SupType, InboxType, ChildType, OpType, AckType, SendersGone

LEMMA ChildExitsType ==
  ASSUME TypeOK, NEW s \in Sups, ChildExits(s)
  PROVE  TypeOK'
<1>0. RowType /\ SupType /\ InboxType /\ ChildType /\ OpType /\ AckType
  BY DEF TypeOK, RowType, SupType, InboxType, ChildType, OpType, AckType
<1>1. ChildType'
  BY <1>0 DEF ChildExits, ChildType
<1> QED
  BY <1>0, <1>1 DEF TypeOK, RowType, SupType, InboxType, ChildType, OpType, AckType, ChildExits

LEMMA StopFlipType ==
  ASSUME TypeOK, NEW t \in Tasks, StopFlip(t)
  PROVE  TypeOK'
<1>0. RowType /\ SupType /\ InboxType /\ ChildType /\ OpType /\ AckType
  BY DEF TypeOK, RowType, SupType, InboxType, ChildType, OpType, AckType
<1>1. RowType'
  <2>1. CASE UNCHANGED row
    BY <1>0, <2>1 DEF RowType
  <2>2. CASE Present /\ \E status \in Status : row' = [row EXCEPT !.status = status]
    BY <1>0, <2>2, PresentRow DEF RowType, Row
  <2> QED
    BY <2>1, <2>2 DEF StopFlip, Status
<1>2. OpType'
  <2>1. CASE Finish(t)
    BY <1>0, <2>1, FinishType
  <2>2. CASE Present /\ op' = [op EXCEPT ![t].pc = "send", ![t].tx = row.cmdTx]
    BY <1>0, <2>2, PresentRow, OpPcNames DEF OpType, Operation, Row
  <2> QED
    BY <2>1, <2>2 DEF StopFlip
<1> QED
  BY <1>0, <1>1, <1>2 DEF TypeOK, RowType, SupType, InboxType, ChildType, OpType, AckType, StopFlip

LEMMA RestartReadType ==
  ASSUME TypeOK, NEW t \in Tasks, RestartRead(t)
  PROVE  TypeOK'
<1>0. RowType /\ SupType /\ InboxType /\ ChildType /\ OpType /\ AckType
  BY DEF TypeOK, RowType, SupType, InboxType, ChildType, OpType, AckType
<1>1. OpType'
  <2>1. CASE Finish(t)
    BY <1>0, <2>1, FinishType
  <2>2. CASE Present /\ \E pc \in {"resetState", "restartFlip"} :
               op' = [op EXCEPT ![t].pc = pc, ![t].tx = row.cmdTx]
    <3>1. row.cmdTx \in Sups \cup {NoSup}
      BY <1>0, <2>2, PresentRow DEF Row
    <3>2. PICK pc \in OpPcs : op' = [op EXCEPT ![t].pc = pc, ![t].tx = row.cmdTx]
      BY <2>2 DEF OpPcs
    <3> QED
      BY <1>0, <3>1, <3>2 DEF OpType, Operation
  <2> QED
    BY <2>1, <2>2 DEF RestartRead
<1> QED
  BY <1>0, <1>1 DEF TypeOK, RowType, SupType, InboxType, ChildType, OpType, AckType, RestartRead

LEMMA RestartFlipType ==
  ASSUME TypeOK, NEW t \in Tasks, RestartFlip(t)
  PROVE  TypeOK'
<1>0. RowType /\ SupType /\ InboxType /\ ChildType /\ OpType /\ AckType
  BY DEF TypeOK, RowType, SupType, InboxType, ChildType, OpType, AckType
<1>1. RowType'
  <2>1. CASE row.status = "online"
    <3>1. Present /\ row' = [row EXCEPT !.status = "stopping"]
      BY <2>1 DEF RestartFlip, Present
    <3> QED
      BY <1>0, <3>1, PresentRow DEF RowType, Row, Status
  <2> QED
    BY <1>0, <2>1 DEF RestartFlip, RowType
<1>2. OpType'
  BY <1>0, OpPcNames DEF RestartFlip, OpType, Operation
<1> QED
  BY <1>0, <1>1, <1>2 DEF TypeOK, RowType, SupType, InboxType, ChildType, OpType, AckType, RestartFlip

LEMMA ResetStateType ==
  ASSUME TypeOK, NEW t \in Tasks, ResetState(t)
  PROVE  TypeOK'
<1>0. RowType /\ SupType /\ InboxType /\ ChildType /\ OpType /\ AckType
  BY DEF TypeOK, RowType, SupType, InboxType, ChildType, OpType, AckType
<1>1. RowType'
  <2>1. row' = [row EXCEPT !.unstable = 0] /\ 0 \in 0..MaxRestarts
    BY MaxRestartsAssumption DEF ResetState
  <2>2. CASE row \in Row
    BY <2>1, <2>2 DEF RowType, Row
  <2>3. CASE row = NoRow
    BY <2>1, <2>3 DEF RowType, NoRow
  <2> QED
    BY <1>0, <2>2, <2>3 DEF RowType
<1>2. OpType'
  BY <1>0, GotoType, OpPcNames DEF ResetState
<1> QED
  BY <1>0, <1>1, <1>2 DEF TypeOK, RowType, SupType, InboxType, ChildType, OpType, AckType, ResetState

LEMMA DeleteFlipType ==
  ASSUME TypeOK, NEW t \in Tasks, DeleteFlip(t)
  PROVE  TypeOK'
<1>0. RowType /\ SupType /\ InboxType /\ ChildType /\ OpType /\ AckType
  BY DEF TypeOK, RowType, SupType, InboxType, ChildType, OpType, AckType
<1>1. RowType'
  <2>1. CASE UNCHANGED row
    BY <1>0, <2>1 DEF RowType
  <2>2. CASE Present /\ row' = [row EXCEPT !.status = "stopping"]
    BY <1>0, <2>2, PresentRow DEF RowType, Row, Status
  <2> QED
    BY <2>1, <2>2 DEF DeleteFlip
<1>2. OpType'
  <2>1. CASE Finish(t) \/ Goto(t, "remove")
    BY <1>0, <2>1, FinishType, GotoType DEF OpPcs
  <2>2. CASE Present /\ op' = [op EXCEPT ![t].pc = "send", ![t].tx = row.cmdTx]
    BY <1>0, <2>2, PresentRow, OpPcNames DEF OpType, Operation, Row
  <2> QED
    BY <2>1, <2>2 DEF DeleteFlip
<1> QED
  BY <1>0, <1>1, <1>2 DEF TypeOK, RowType, SupType, InboxType, ChildType, OpType, AckType, DeleteFlip

LEMMA SendType ==
  ASSUME TypeOK, NEW t \in Tasks, Send(t)
  PROVE  TypeOK'
<1>0. RowType /\ SupType /\ InboxType /\ ChildType /\ OpType /\ AckType
  BY DEF TypeOK, RowType, SupType, InboxType, ChildType, OpType, AckType
<1>1. InboxType' /\ OpType'
  <2>1. CASE Goto(t, Fallback(t)) /\ UNCHANGED inbox
    BY <1>0, <2>1, GotoType, FallbackType DEF InboxType
  <2>2. CASE /\ inbox' = [inbox EXCEPT ![op[t].tx] = Append(@, t)]
             /\ op' = [op EXCEPT ![t].pc = "await"]
    <3>1. OpType'
      BY <1>0, <2>2, OpPcNames DEF OpType, Operation
    <3>2. CASE op[t].tx \in Sups
      <4>1. Append(inbox[op[t].tx], t) \in Seq(Tasks)
        BY <1>0, <3>2 DEF InboxType
      <4> QED
        BY <1>0, <2>2, <4>1, <3>1 DEF InboxType
    <3>3. CASE op[t].tx \notin Sups
      <4>1. inbox' = inbox
        BY <1>0, <2>2, <3>3 DEF InboxType
      <4> QED
        BY <1>0, <4>1, <3>1 DEF InboxType
    <3> QED
      BY <3>2, <3>3
  <2> QED
    BY <2>1, <2>2 DEF Send
<1> QED
  BY <1>0, <1>1 DEF TypeOK, RowType, SupType, InboxType, ChildType, OpType, AckType, Send

LEMMA AwaitType ==
  ASSUME TypeOK, NEW t \in Tasks, Await(t)
  PROVE  TypeOK'
<1>0. RowType /\ SupType /\ InboxType /\ ChildType /\ OpType /\ AckType
  BY DEF TypeOK, RowType, SupType, InboxType, ChildType, OpType, AckType
<1>1. AckType'
  BY <1>0 DEF Await, AckType, Answers
<1>2. OpType'
  BY <1>0, GotoType, FinishType, FallbackType DEF Await
<1> QED
  BY <1>0, <1>1, <1>2 DEF TypeOK, RowType, SupType, InboxType, ChildType, OpType, AckType, Await

LEMMA SettleType ==
  ASSUME TypeOK, NEW t \in Tasks, Settle(t)
  PROVE  TypeOK'
<1>0. RowType /\ SupType /\ InboxType /\ ChildType /\ OpType /\ AckType
  BY DEF TypeOK, RowType, SupType, InboxType, ChildType, OpType, AckType
<1>1. RowType'
  <2>1. CASE row.status = "stopping"
    <3>1. Present /\ row' = [row EXCEPT !.status = "stopped"]
      BY <2>1 DEF Settle, Present
    <3> QED
      BY <1>0, <3>1, PresentRow DEF RowType, Row, Status
  <2> QED
    BY <1>0, <2>1 DEF Settle, RowType
<1>2. OpType'
  BY <1>0, FinishType DEF Settle
<1> QED
  BY <1>0, <1>1, <1>2 DEF TypeOK, RowType, SupType, InboxType, ChildType, OpType, AckType, Settle

LEMMA RemoveType ==
  ASSUME TypeOK, NEW t \in Tasks, Remove(t)
  PROVE  TypeOK'
<1>0. RowType /\ SupType /\ InboxType /\ ChildType /\ OpType /\ AckType
  BY DEF TypeOK, RowType, SupType, InboxType, ChildType, OpType, AckType
<1>1. RowType' /\ watcher' \in BOOLEAN /\ OpType'
  BY <1>0, RemoveProcType, FinishType DEF Remove
<1> QED
  BY <1>0, <1>1 DEF TypeOK, RowType, SupType, InboxType, ChildType, OpType, AckType, Remove

LEMMA LaunchGateType ==
  ASSUME TypeOK, NEW t \in Tasks, LaunchGate(t)
  PROVE  TypeOK'
<1>0. RowType /\ SupType /\ InboxType /\ ChildType /\ OpType /\ AckType
  BY DEF TypeOK, RowType, SupType, InboxType, ChildType, OpType, AckType
<1>1. OpType'
  BY <1>0, GotoType, FinishType, OpPcNames DEF LaunchGate
<1> QED
  BY <1>0, <1>1 DEF TypeOK, RowType, SupType, InboxType, ChildType, OpType, AckType, LaunchGate

LEMMA LaunchCheckType ==
  ASSUME TypeOK, NEW t \in Tasks, LaunchCheck(t)
  PROVE  TypeOK'
<1>0. RowType /\ SupType /\ InboxType /\ ChildType /\ OpType /\ AckType
  BY DEF TypeOK, RowType, SupType, InboxType, ChildType, OpType, AckType
<1>1. OpType'
  BY <1>0, GotoType, FinishType, OpPcNames DEF LaunchCheck
<1> QED
  BY <1>0, <1>1 DEF TypeOK, RowType, SupType, InboxType, ChildType, OpType, AckType, LaunchCheck

LEMMA SpawnType ==
  ASSUME TypeOK, NEW t \in Tasks, Spawn(t)
  PROVE  TypeOK'
<1>0. RowType /\ SupType /\ InboxType /\ ChildType /\ OpType /\ AckType
  BY DEF TypeOK, RowType, SupType, InboxType, ChildType, OpType, AckType
<1>1. OpType'
  BY <1>0, GotoType, OpPcNames DEF Spawn
<1>2. CASE \E s \in Sups : NewSupervisor(t, s)
  <2>1. PICK s \in Sups : NewSupervisor(t, s)
    BY <1>2
  <2>2. row \in Row
    BY <1>0, <2>1, PresentRow DEF NewSupervisor
  <2>3. RowType'
    BY <2>1, <2>2 DEF NewSupervisor, RowType, Row, Status
  <2>4. SupType'
    BY <1>0, <2>1, FreeSupType, PcNames DEF NewSupervisor, SupType, SupTask
  <2> QED
    BY <1>0, <1>1, <2>1, <2>3, <2>4
    DEF TypeOK, RowType, SupType, InboxType, ChildType, OpType, AckType, Spawn, NewSupervisor
<1>3. CASE AlreadySupervised(t) \/ RowVanished(t)
  BY <1>0, <1>1, <1>3
  DEF TypeOK, RowType, SupType, InboxType, ChildType, OpType, AckType, Answers, Spawn, AlreadySupervised, RowVanished
<1> QED
  BY <1>2, <1>3 DEF Spawn

LEMMA AwaitSpawnType ==
  ASSUME TypeOK, NEW t \in Tasks, AwaitSpawn(t)
  PROVE  TypeOK'
<1>0. RowType /\ SupType /\ InboxType /\ ChildType /\ OpType /\ AckType
  BY DEF TypeOK, RowType, SupType, InboxType, ChildType, OpType, AckType
<1>1. AckType'
  BY <1>0 DEF AwaitSpawn, AckType, Answers
<1>2. OpType'
  BY <1>0, GotoType, FinishType, OpPcNames DEF AwaitSpawn
<1> QED
  BY <1>0, <1>1, <1>2 DEF TypeOK, RowType, SupType, InboxType, ChildType, OpType, AckType, AwaitSpawn

LEMMA ArmType ==
  ASSUME TypeOK, NEW t \in Tasks, Arm(t)
  PROVE  TypeOK'
<1>0. RowType /\ SupType /\ InboxType /\ ChildType /\ OpType /\ AckType
  BY DEF TypeOK, RowType, SupType, InboxType, ChildType, OpType, AckType
<1>1. OpType'
  BY <1>0, FinishType DEF Arm
<1> QED
  BY <1>0, <1>1 DEF TypeOK, RowType, SupType, InboxType, ChildType, OpType, AckType, Arm

LEMMA BeginShutdownType ==
  ASSUME TypeOK, NEW t \in Tasks, BeginShutdown(t)
  PROVE  TypeOK'
<1>0. RowType /\ SupType /\ InboxType /\ ChildType /\ OpType /\ AckType
  BY DEF TypeOK, RowType, SupType, InboxType, ChildType, OpType, AckType
<1>1. OpType'
  BY <1>0, OpPcNames DEF BeginShutdown, OpType, Operation, Operations
<1> QED
  BY <1>0, <1>1 DEF TypeOK, RowType, SupType, InboxType, ChildType, OpType, AckType, BeginShutdown

LEMMA ShutdownSnapshotType ==
  ASSUME TypeOK, NEW t \in Tasks, ShutdownSnapshot(t)
  PROVE  TypeOK'
<1>0. RowType /\ SupType /\ InboxType /\ ChildType /\ OpType /\ AckType
  BY DEF TypeOK, RowType, SupType, InboxType, ChildType, OpType, AckType
<1>1. OpType'
  BY <1>0, GotoType, OpPcNames DEF ShutdownSnapshot
<1> QED
  BY <1>0, <1>1 DEF TypeOK, RowType, SupType, InboxType, ChildType, OpType, AckType, ShutdownSnapshot

LEMMA ExitType ==
  ASSUME TypeOK, NEW t \in Tasks, Exit(t)
  PROVE  TypeOK'
<1>0. RowType /\ SupType /\ InboxType /\ ChildType /\ OpType /\ AckType
  BY DEF TypeOK, RowType, SupType, InboxType, ChildType, OpType, AckType
<1>1. SupType' /\ OpType'
  BY FreeSupType, IdleOpType DEF SupType, OpType, Exit
<1>2. InboxType' /\ AckType'
  BY DEF InboxType, AckType, Answers, Exit
<1>3. RowType' /\ daemon' \in {"up", "draining", "exited"} /\ watcher' \in BOOLEAN
  BY DEF RowType, Exit
<1>4. ChildType'
  BY <1>0 DEF ChildType, Exit
<1> QED
  BY <1>0, <1>1, <1>2, <1>3, <1>4 DEF TypeOK, RowType, SupType, InboxType, ChildType, OpType, AckType, Exit

LEMMA BeginType ==
  ASSUME TypeOK, NEW t \in Tasks, NEW kind \in Kinds, Begin(t, kind)
  PROVE  TypeOK'
<1>1. PICK pc \in OpPcs : op' = [op EXCEPT ![t] = [kind |-> kind, tx |-> NoSup, pc |-> pc]]
  BY KindsAssumption, OpPcNames DEF Begin, Operations
<1>2. op' \in [Tasks -> Operation]
  BY <1>1, KindsAssumption DEF TypeOK, Operation
<1> QED
  BY <1>2 DEF TypeOK, Begin

LEMMA ResetCountersType ==
  ASSUME TypeOK, ResetCounters
  PROVE  TypeOK'
<1>1. row \in Row /\ row' = [row EXCEPT !.unstable = 0] /\ 0 \in 0..MaxRestarts
  BY PresentRow, MaxRestartsAssumption DEF TypeOK, RowType, ResetCounters
<1>2. row' \in Row
  BY <1>1 DEF Row
<1> QED
  BY <1>2 DEF TypeOK, ResetCounters

LEMMA InitType ==
  ASSUME Init
  PROVE  TypeOK
<1>1. op \in [Tasks -> Operation]
  BY IdleOpType, OpPcNames DEF Init, Operation
<1>2. sup \in [Sups -> SupTask] /\ row \in Row \cup {NoRow}
  BY NewRowType, FreeSupType DEF Init
<1>3. inbox \in [Sups -> Seq(Tasks)]
  <2>1. <<>> \in Seq(Tasks)
    OBVIOUS
  <2> QED
    BY <2>1 DEF Init
<1>4. ack \in [Tasks -> Answers]
  BY DEF Init, Answers
<1> QED
  BY <1>1, <1>2, <1>3, <1>4 DEF Init, TypeOK

LEMMA StepType ==
  ASSUME TypeOK, [Next]_vars
  PROVE  TypeOK'
<1>1. ASSUME NEW s \in Sups, SupStep(s) \/ ChildExits(s)
      PROVE  TypeOK'
  BY <1>1, SupStartType, SpawnFailedType, GoOnlineType, ReapType, NaturalExitType, CheckShutdownType,
     ExitStopsType, ExitGivesUpType, ExitRestartsType, BackoffElapsedType, BackoffCommandType,
     TakeCommandType, KillTimeoutType, KillDoneType, ClearTxType, SendersGoneType, ChildExitsType
  DEF SupStep, Receive
<1>2. ASSUME NEW t \in Tasks, Continue(t)
      PROVE  TypeOK'
  BY <1>2, StopFlipType, RestartReadType, RestartFlipType, ResetStateType, DeleteFlipType,
     SendType, AwaitType, SettleType, RemoveType, LaunchGateType, LaunchCheckType, SpawnType,
     AwaitSpawnType, ArmType
  DEF Continue
<1>3. ASSUME NEW t \in Tasks,
             BeginShutdown(t) \/ ShutdownSnapshot(t) \/ Exit(t) \/ \E kind \in Kinds : Begin(t, kind)
      PROVE  TypeOK'
  BY <1>3, BeginShutdownType, ShutdownSnapshotType, ExitType, BeginType
<1>4. CASE UNCHANGED vars
  BY <1>4 DEF vars, TypeOK
<1> QED
  BY <1>1, <1>2, <1>3, <1>4, ResetCountersType DEF Next

\* Every variable keeps its shape: in particular the pid and channel a row
\* names are a supervisor's or none, and the count of unstable restarts never
\* passes max_restarts.
THEOREM TypeCorrect == Spec => []TypeOK
<1>1. Init => TypeOK
  BY InitType
<1>2. TypeOK /\ [Next]_vars => TypeOK'
  BY StepType
<1> QED
  BY <1>1, <1>2, PTL DEF Spec

-----------------------------------------------------------------------------
(* The inductive invariant.                                                *)

\* The parts of run() in which the child it spawned has not been reaped.
HasChild(s) == sup[s].pc \in {"born", "watch", "kill", "sigkill"}

\* The parts in which its pid may be in the row.
Watches(s) == sup[s].pc \in {"watch", "reaped", "kill", "sigkill", "killed"}

\* A supervisor task in those parts has a child, and only there, or after the
\* daemon's exit, does a child run.
ChildPhase ==
  \A s \in Sups : /\ HasChild(s) => child[s] \in {"running", "exited"}
                  /\ child[s] = "running" => HasChild(s) \/ daemon = "exited"

\* No task outlives the daemon.
ExitedIsDead ==
  daemon = "exited" => /\ ~Present
                       /\ \A s \in Sups : sup[s].pc = "free"
                       /\ \A t \in Tasks : op[t].pc = "idle"

\* The pid in a row is of the supervisor whose channel the row holds, in those parts.
PidIsHeld ==
  row.pid # NoSup => /\ row.pid = row.cmdTx
                     /\ sup[row.pid].pc \in {"watch", "reaped", "kill", "sigkill", "killed"}

IInv == TypeOK /\ SingleSupervisor /\ ChildPhase /\ ExitedIsDead /\ OneChild /\ PidIsHeld

LEMMA AbsentRow ==
  ASSUME TypeOK, ~Present
  PROVE  row = NoRow
  BY DEF TypeOK, Present, Row, Status

LEMMA PidPresent ==
  ASSUME NEW r \in Row \cup {NoRow}, r.pid # NoSup
  PROVE  r.status # "absent" /\ r.pid \in Sups
  BY DEF Row, NoRow, Status

-----------------------------------------------------------------------------
(* What a step must leave alone for the parts to stay true.                *)

\* No supervisor task is new, and the row keeps its channel.
Tame ==
  /\ \A s \in Sups : sup'[s].pc # "free" => sup[s].pc # "free"
  /\ Present' => Present /\ row'.cmdTx = row.cmdTx

\* No task begins, and the daemon does not exit.
Steady ==
  /\ daemon' = "exited" => daemon = "exited"
  /\ daemon = "exited" => daemon' = "exited" /\ \A t \in Tasks : op[t].pc = "idle" => op'[t].pc = "idle"

\* No child starts, and none is in other hands than before.
SameChildren ==
  /\ UNCHANGED child
  /\ \A s \in Sups : HasChild(s)' <=> HasChild(s)
  /\ \A s \in Sups : Watches(s) => Watches(s)'
  /\ row'.pid \in {row.pid, NoSup}

LEMMA TameSingle ==
  ASSUME SingleSupervisor, Tame
  PROVE  SingleSupervisor'
  BY DEF SingleSupervisor, Tame

LEMMA TameSteadyExited ==
  ASSUME ExitedIsDead, Tame, Steady
  PROVE  ExitedIsDead'
  BY DEF ExitedIsDead, Tame, Steady

LEMMA QuietStep ==
  ASSUME IInv, TypeOK', Tame, Steady, SameChildren
  PROVE  IInv'
<1>1. SingleSupervisor' /\ ExitedIsDead'
  BY TameSingle, TameSteadyExited DEF IInv
<1>2. ChildPhase'
  BY DEF IInv, ChildPhase, SameChildren, Steady, HasChild
<1>3. OneChild'
  BY DEF IInv, OneChild, SameChildren
<1>4. PidIsHeld'
  <2>1. row' \in Row \cup {NoRow} /\ row \in Row \cup {NoRow}
    BY DEF TypeOK, IInv
  <2>2. row'.pid # NoSup => Present' /\ row'.pid \in Sups
    BY <2>1, PidPresent DEF Present
  <2> QED
    BY <2>2 DEF IInv, PidIsHeld, SameChildren, Watches, Tame
<1> QED
  BY <1>1, <1>2, <1>3, <1>4 DEF IInv

-----------------------------------------------------------------------------
(* The steps of a supervisor task.                                         *)

LEMMA SpawnFailedSafe ==
  ASSUME IInv, NEW s \in Sups, SpawnFailed(s)
  PROVE  IInv'
<1>1. TypeOK'
  BY SpawnFailedType DEF IInv
<1>2. Tame /\ Steady
  BY DEF IInv, TypeOK, SupTask, Tame, Steady, SpawnFailed, SetDead, Present
<1>3. SameChildren
  BY DEF IInv, TypeOK, SupTask, Row, NoRow, SameChildren, HasChild, Watches, SpawnFailed, SetDead, Present
<1> QED
  BY <1>1, <1>2, <1>3, QuietStep

LEMMA ReturnFrees ==
  ASSUME TypeOK, NEW s \in Sups, NEW okay, Return(s, okay)
  PROVE  sup'[s].pc = "free" /\ \A r \in Sups \ {s} : sup'[r] = sup[r]
  BY DEF TypeOK, Return, FreeSup

LEMMA CheckShutdownSafe ==
  ASSUME IInv, NEW s \in Sups, CheckShutdown(s)
  PROVE  IInv'
<1>1. TypeOK'
  BY CheckShutdownType DEF IInv
<1>2. /\ sup[s].pc = "exited" /\ UNCHANGED <<row, daemon, child, op>>
      /\ \A r \in Sups \ {s} : sup'[r] = sup[r]
      /\ sup'[s].pc \in {"decide", "free"}
  <2>1. CASE Return(s, {})
    BY <2>1, ReturnFrees DEF IInv, CheckShutdown
  <2>2. CASE sup' = [sup EXCEPT ![s].pc = "decide"]
    BY <2>2 DEF IInv, TypeOK, SupTask, CheckShutdown
  <2> QED
    BY <2>1, <2>2 DEF CheckShutdown
<1>3. Tame /\ Steady /\ SameChildren
  BY <1>2 DEF Tame, Steady, SameChildren, HasChild, Watches, Present
<1> QED
  BY <1>1, <1>3, QuietStep

LEMMA ExitStopsSafe ==
  ASSUME IInv, NEW s \in Sups, ExitStops(s)
  PROVE  IInv'
<1>1. TypeOK'
  BY ExitStopsType DEF IInv
<1>2. Tame /\ Steady
  BY DEF IInv, TypeOK, SupTask, Tame, Steady, ExitStops, SetDead, Present
<1>3. SameChildren
  BY DEF IInv, TypeOK, SupTask, Row, NoRow, SameChildren, HasChild, Watches, ExitStops, SetDead, Present
<1> QED
  BY <1>1, <1>2, <1>3, QuietStep

LEMMA ExitGivesUpSafe ==
  ASSUME IInv, NEW s \in Sups, ExitGivesUp(s)
  PROVE  IInv'
<1>1. TypeOK'
  BY ExitGivesUpType DEF IInv
<1>2. Tame /\ Steady
  BY DEF IInv, TypeOK, SupTask, Tame, Steady, ExitGivesUp, Present
<1>3. SameChildren
  BY DEF IInv, TypeOK, SupTask, Row, NoRow, SameChildren, HasChild, Watches, ExitGivesUp, Present
<1> QED
  BY <1>1, <1>2, <1>3, QuietStep

LEMMA ExitRestartsSafe ==
  ASSUME IInv, NEW s \in Sups, ExitRestarts(s)
  PROVE  IInv'
<1>1. TypeOK'
  BY ExitRestartsType DEF IInv
<1>2. Tame /\ Steady
  BY DEF IInv, TypeOK, SupTask, Tame, Steady, ExitRestarts, Present
<1>3. SameChildren
  BY DEF IInv, TypeOK, SupTask, Row, NoRow, SameChildren, HasChild, Watches, ExitRestarts, Present
<1> QED
  BY <1>1, <1>2, <1>3, QuietStep

LEMMA BackoffElapsedSafe ==
  ASSUME IInv, NEW s \in Sups, BackoffElapsed(s)
  PROVE  IInv'
<1>1. TypeOK'
  BY BackoffElapsedType DEF IInv
<1>2. Tame /\ Steady
  BY DEF IInv, TypeOK, SupTask, Tame, Steady, BackoffElapsed, Present
<1>3. SameChildren
  BY DEF IInv, TypeOK, SupTask, Row, NoRow, SameChildren, HasChild, Watches, BackoffElapsed, Present
<1> QED
  BY <1>1, <1>2, <1>3, QuietStep

LEMMA TakeCommandSafe ==
  ASSUME IInv, NEW s \in Sups, TakeCommand(s)
  PROVE  IInv'
<1>1. TypeOK'
  BY TakeCommandType DEF IInv
<1>2. Tame /\ Steady
  BY DEF IInv, TypeOK, SupTask, Tame, Steady, TakeCommand, Present
<1>3. SameChildren
  BY DEF IInv, TypeOK, SupTask, Row, NoRow, SameChildren, HasChild, Watches, TakeCommand, Present
<1> QED
  BY <1>1, <1>2, <1>3, QuietStep

LEMMA KillTimeoutSafe ==
  ASSUME IInv, NEW s \in Sups, KillTimeout(s)
  PROVE  IInv'
<1>1. TypeOK'
  BY KillTimeoutType DEF IInv
<1>2. Tame /\ Steady
  BY DEF IInv, TypeOK, SupTask, Tame, Steady, KillTimeout, Present
<1>3. SameChildren
  BY DEF IInv, TypeOK, SupTask, Row, NoRow, SameChildren, HasChild, Watches, KillTimeout, Present
<1> QED
  BY <1>1, <1>2, <1>3, QuietStep

LEMMA BackoffCommandSafe ==
  ASSUME IInv, NEW s \in Sups, BackoffCommand(s)
  PROVE  IInv'
<1>1. TypeOK'
  BY BackoffCommandType DEF IInv
<1>2. PICK t : BackoffRestart(s, t) \/ BackoffStop(s, t) \/ BackoffDelete(s, t)
  BY DEF BackoffCommand
<1>3. /\ sup[s].pc = "backoff" /\ UNCHANGED <<daemon, child, op>>
      /\ \A r \in Sups \ {s} : sup'[r] = sup[r]
      /\ sup'[s].pc \in {"start", "clear", "free"}
  BY <1>2 DEF IInv, TypeOK, SupTask, BackoffCommand, BackoffRestart, BackoffStop, BackoffDelete, Return, FreeSup
<1>4. row'.pid \in {row.pid, NoSup} /\ (Present' => Present /\ row'.cmdTx = row.cmdTx)
  <2>1. CASE BackoffRestart(s, t)
    BY <2>1 DEF BackoffRestart, ManualRestart, IInv, TypeOK, Row, NoRow, Present
  <2>2. CASE BackoffStop(s, t)
    BY <2>2 DEF BackoffStop, SetDead, IInv, TypeOK, Row, NoRow, Present
  <2>3. CASE BackoffDelete(s, t)
    BY <2>3 DEF BackoffDelete, RemoveProc, NoRow, Present
  <2> QED
    BY <1>2, <2>1, <2>2, <2>3
<1>5. Tame /\ Steady /\ SameChildren
  BY <1>3, <1>4 DEF Tame, Steady, SameChildren, HasChild, Watches
<1> QED
  BY <1>1, <1>5, QuietStep

LEMMA SupStartSafe ==
  ASSUME IInv, NEW s \in Sups, SupStart(s)
  PROVE  IInv'
<1>1. TypeOK'
  BY SupStartType DEF IInv
<1>2. CASE child' = child
  <2>1. /\ sup[s].pc = "start" /\ UNCHANGED <<row, daemon, child, op>>
        /\ \A r \in Sups \ {s} : sup'[r] = sup[r]
        /\ sup'[s].pc \in {"failed", "free"} \/ child[s] = "running"
    <3>1. CASE Return(s, {})
      BY <1>2, <3>1, ReturnFrees DEF IInv, SupStart
    <3>2. CASE sup' = [sup EXCEPT ![s].pc = "failed"]
      BY <1>2, <3>2 DEF IInv, TypeOK, SupTask, SupStart
    <3>3. CASE child' = [child EXCEPT ![s] = "running"] /\ sup' = [sup EXCEPT ![s].pc = "born"]
      BY <1>2, <3>3 DEF IInv, TypeOK, SupTask, SupStart
    <3> QED
      BY <3>1, <3>2, <3>3 DEF SupStart
  <2>2. child[s] # "running"
    BY <2>1 DEF IInv, ChildPhase, HasChild, ExitedIsDead
  <2>3. Tame /\ Steady /\ SameChildren
    BY <2>1, <2>2 DEF Tame, Steady, SameChildren, HasChild, Watches, Present
  <2> QED
    BY <1>1, <2>3, QuietStep
<1>3. CASE Present /\ child' = [child EXCEPT ![s] = "running"] /\ sup' = [sup EXCEPT ![s].pc = "born"]
  <2>1. /\ sup[s].pc = "start" /\ sup'[s].pc = "born" /\ UNCHANGED <<row, daemon, op>>
        /\ \A r \in Sups \ {s} : sup'[r] = sup[r] /\ child'[r] = child[r]
        /\ child'[s] = "running"
    BY <1>3 DEF IInv, TypeOK, SupTask, SupStart
  <2>2. SingleSupervisor' /\ ExitedIsDead'
    <3>1. Tame /\ Steady
      BY <2>1 DEF Tame, Steady, Present
    <3> QED
      BY <3>1, TameSingle, TameSteadyExited DEF IInv
  <2>3. ChildPhase'
    BY <2>1 DEF IInv, ChildPhase, HasChild
  \* Whoever else had a running child would be the row's supervisor too.
  <2>4. \A r \in Sups \ {s} : child[r] # "running"
    <3>1. daemon # "exited"
      BY <2>1 DEF IInv, ExitedIsDead
    <3>2. \A r \in Sups : child[r] = "running" => row.cmdTx = r
      BY <1>3, <3>1 DEF IInv, ChildPhase, HasChild, SingleSupervisor
    <3> QED
      BY <1>3, <2>1, <3>2 DEF IInv, SingleSupervisor
  <2>5. OneChild'
    BY <2>1, <2>4 DEF OneChild
  <2>6. PidIsHeld'
    <3>1. row.pid # NoSup => row.pid \in Sups
      BY DEF IInv, TypeOK, Row, NoRow
    <3> QED
      BY <2>1, <3>1 DEF IInv, PidIsHeld
  <2> QED
    BY <1>1, <2>2, <2>3, <2>5, <2>6 DEF IInv
<1> QED
  BY <1>2, <1>3 DEF SupStart

LEMMA GoOnlineSafe ==
  ASSUME IInv, NEW s \in Sups, GoOnline(s)
  PROVE  IInv'
<1>1. TypeOK'
  BY GoOnlineType DEF IInv
<1>2. /\ sup[s].pc = "born" /\ sup'[s].pc = "watch" /\ UNCHANGED <<daemon, child, op>>
      /\ \A r \in Sups \ {s} : sup'[r] = sup[r]
  BY DEF IInv, TypeOK, SupTask, GoOnline
<1>3. /\ Present' => Present /\ row'.cmdTx = row.cmdTx
      /\ row'.pid \in {row.pid, s}
  BY DEF IInv, TypeOK, Row, NoRow, GoOnline, Present
<1>4. SingleSupervisor' /\ ExitedIsDead'
  <2>1. Tame /\ Steady
    BY <1>2, <1>3 DEF Tame, Steady
  <2> QED
    BY <2>1, TameSingle, TameSteadyExited DEF IInv
<1>5. ChildPhase' /\ OneChild'
  BY <1>2 DEF IInv, ChildPhase, OneChild, HasChild
<1>6. PidIsHeld'
  <2>1. row.pid # NoSup => row.pid \in Sups
    BY DEF IInv, TypeOK, Row, NoRow
  <2>2. row'.pid # NoSup => Present'
    BY <1>1, PidPresent DEF TypeOK, Present
  <2> QED
    BY <1>2, <1>3, <2>1, <2>2 DEF IInv, PidIsHeld, SingleSupervisor
<1> QED
  BY <1>1, <1>4, <1>5, <1>6 DEF IInv

LEMMA ReapSafe ==
  ASSUME IInv, NEW s \in Sups, Reap(s)
  PROVE  IInv'
<1>1. TypeOK'
  BY ReapType DEF IInv
<1>2. /\ sup[s].pc \in {"watch", "kill", "sigkill"} /\ sup'[s].pc \in {"reaped", "killed"}
      /\ child'[s] = "none" /\ UNCHANGED <<row, daemon, op>>
      /\ \A r \in Sups \ {s} : sup'[r] = sup[r] /\ child'[r] = child[r]
  BY DEF IInv, TypeOK, SupTask, Reap
<1>3. SingleSupervisor' /\ ExitedIsDead'
  <2>1. Tame /\ Steady
    BY <1>2 DEF Tame, Steady, Present
  <2> QED
    BY <2>1, TameSingle, TameSteadyExited DEF IInv
<1>4. ChildPhase' /\ OneChild'
  BY <1>2 DEF IInv, ChildPhase, OneChild, HasChild
<1>5. PidIsHeld'
  <2>1. row.pid # NoSup => row.pid \in Sups
    BY DEF IInv, TypeOK, Row, NoRow
  <2> QED
    BY <1>2, <2>1 DEF IInv, PidIsHeld
<1> QED
  BY <1>1, <1>3, <1>4, <1>5 DEF IInv

\* Three actions end a supervisor's wait for its child, and free the row of its
\* pid at the same time.
LEMMA LeaveStep ==
  ASSUME IInv, TypeOK', Tame, Steady, NEW s \in Sups,
         \A r \in Sups \ {s} : sup'[r] = sup[r] /\ child'[r] = child[r],
         child'[s] # "running", ~HasChild(s)',
         row'.pid = NoSup \/ (row'.pid = row.pid /\ row.pid # s)
  PROVE  IInv'
<1>1. SingleSupervisor' /\ ExitedIsDead'
  BY TameSingle, TameSteadyExited DEF IInv
<1>2. ChildPhase'
  BY DEF IInv, ChildPhase, HasChild, Steady
<1>3. OneChild'
  BY DEF IInv, OneChild
<1>4. PidIsHeld'
  <2>1. row'.pid # NoSup => Present' /\ row'.pid \in Sups
    BY PidPresent DEF TypeOK, Present
  <2> QED
    BY <2>1 DEF IInv, PidIsHeld, Tame
<1> QED
  BY <1>1, <1>2, <1>3, <1>4 DEF IInv

LEMMA NaturalExitSafe ==
  ASSUME IInv, NEW s \in Sups, NaturalExit(s)
  PROVE  IInv'
<1>1. TypeOK'
  BY NaturalExitType DEF IInv
<1>2. sup[s].pc = "reaped" /\ child[s] # "running" /\ UNCHANGED <<daemon, child, op>>
  BY DEF IInv, ChildPhase, HasChild, ExitedIsDead, NaturalExit
<1>3. /\ sup'[s].pc \in {"exited", "free"}
      /\ \A r \in Sups \ {s} : sup'[r] = sup[r]
  <2>1. CASE Return(s, {})
    BY <2>1, ReturnFrees DEF IInv
  <2>2. CASE \E v : sup' = [sup EXCEPT ![s].pc = "exited", ![s].verdict = v]
    BY <2>2 DEF IInv, TypeOK, SupTask
  <2> QED
    BY <2>1, <2>2 DEF NaturalExit
<1>4. row'.pid = NoSup /\ (Present' => Present /\ row'.cmdTx = row.cmdTx)
  <2>1. CASE Present
    BY <2>1 DEF NaturalExit, IInv, TypeOK, Row, NoRow, Present
  <2>2. CASE ~Present
    BY <2>2, AbsentRow DEF NaturalExit, IInv, NoRow, Present
  <2> QED
    BY <2>1, <2>2
<1>5. Tame /\ Steady
  BY <1>2, <1>3, <1>4 DEF Tame, Steady
<1> QED
  BY <1>1, <1>2, <1>3, <1>4, <1>5, LeaveStep DEF HasChild

LEMMA KillDoneSafe ==
  ASSUME IInv, NEW s \in Sups, KillDone(s)
  PROVE  IInv'
<1>1. TypeOK'
  BY KillDoneType DEF IInv
<1>2. sup[s].pc = "killed" /\ child[s] # "running" /\ UNCHANGED <<daemon, child, op>>
  BY DEF IInv, ChildPhase, HasChild, ExitedIsDead, KillDone
<1>3. PICK t : KilledForStop(s, t) \/ KilledForRestart(s, t) \/ KilledForDelete(s, t)
  BY DEF KillDone
<1>4. /\ sup'[s].pc \in {"clear", "start", "free"}
      /\ \A r \in Sups \ {s} : sup'[r] = sup[r]
  <2>1. CASE KilledForDelete(s, t)
    BY <2>1, ReturnFrees DEF IInv, KilledForDelete
  <2>2. CASE KilledForStop(s, t)
    BY <2>2 DEF KilledForStop, IInv, TypeOK, SupTask
  <2>3. CASE KilledForRestart(s, t)
    BY <2>3 DEF KilledForRestart, IInv, TypeOK, SupTask
  <2> QED
    BY <1>3, <2>1, <2>2, <2>3
<1>5. row'.pid = NoSup /\ (Present' => Present /\ row'.cmdTx = row.cmdTx)
  <2>1. CASE KilledForDelete(s, t)
    BY <2>1 DEF KilledForDelete, RemoveProc, NoRow, Present
  <2>2. CASE KilledForStop(s, t) /\ Present
    BY <2>2 DEF KilledForStop, SetDead, IInv, TypeOK, Row, NoRow, Present
  <2>3. CASE KilledForRestart(s, t) /\ Present
    BY <2>3 DEF KilledForRestart, ManualRestart, IInv, TypeOK, Row, NoRow, Present
  <2>4. CASE (KilledForStop(s, t) \/ KilledForRestart(s, t)) /\ ~Present
    BY <2>4, AbsentRow DEF KilledForStop, SetDead, KilledForRestart, ManualRestart, IInv, NoRow, Present
  <2> QED
    BY <1>3, <2>1, <2>2, <2>3, <2>4
<1>6. Tame /\ Steady
  BY <1>2, <1>4, <1>5 DEF Tame, Steady
<1> QED
  BY <1>1, <1>2, <1>4, <1>5, <1>6, LeaveStep DEF HasChild

\* The channel of a row that is present has a sender, the row: a supervisor
\* that sees none left supervises a removed row.
LEMMA SendersGoneSafe ==
  ASSUME IInv, NEW s \in Sups, SendersGone(s)
  PROVE  IInv'
<1>1. TypeOK'
  BY SendersGoneType DEF IInv
<1>2. row = NoRow
  <2>1. ~Present
    BY DEF SendersGone, SenderHeld, IInv, SingleSupervisor
  <2> QED
    BY <2>1, AbsentRow DEF IInv
<1>3. /\ UNCHANGED <<row, daemon, op>> /\ child'[s] # "running"
      /\ \A r \in Sups \ {s} : child'[r] = child[r]
  BY DEF IInv, TypeOK, SendersGone
<1>4. sup'[s].pc = "free" /\ \A r \in Sups \ {s} : sup'[r] = sup[r]
  BY ReturnFrees DEF IInv, SendersGone
<1>5. Tame /\ Steady
  BY <1>2, <1>3, <1>4 DEF Tame, Steady, Present, NoRow
<1> QED
  BY <1>1, <1>2, <1>3, <1>4, <1>5, LeaveStep DEF HasChild, NoRow

LEMMA ClearTxSafe ==
  ASSUME IInv, NEW s \in Sups, ClearTx(s)
  PROVE  IInv'
<1>1. TypeOK'
  BY ClearTxType DEF IInv
<1>2. /\ sup[s].pc = "clear" /\ UNCHANGED <<daemon, child, op>>
      /\ sup'[s].pc = "free" /\ \A r \in Sups \ {s} : sup'[r] = sup[r]
  BY ReturnFrees DEF IInv, ClearTx
<1>3. row'.pid = row.pid /\ (Present' => Present)
  BY DEF ClearTx, IInv, TypeOK, Row, NoRow, Present
\* The row may lose its channel: it was that of s, the only task there was.
<1>4. SingleSupervisor'
  BY <1>2, <1>3 DEF IInv, SingleSupervisor
<1>5. ExitedIsDead'
  BY <1>2, <1>3 DEF IInv, ExitedIsDead
<1>6. ChildPhase' /\ OneChild'
  BY <1>2 DEF IInv, ChildPhase, OneChild, HasChild
<1>7. PidIsHeld'
  <2>1. row.pid # NoSup => Present /\ row.pid \in Sups
    BY PidPresent DEF IInv, TypeOK, Present
  \* Were there a pid, its task would be the row's, which is s; but s is past it.
  <2>2. row.pid = NoSup
    <3>1. Present => row.cmdTx = s
      BY <1>2 DEF IInv, SingleSupervisor
    <3> QED
      BY <1>2, <2>1, <3>1 DEF IInv, PidIsHeld
  <2> QED
    BY <1>3, <2>2 DEF PidIsHeld
<1> QED
  BY <1>1, <1>4, <1>5, <1>6, <1>7 DEF IInv

LEMMA ChildExitsSafe ==
  ASSUME IInv, NEW s \in Sups, ChildExits(s)
  PROVE  IInv'
<1>1. TypeOK'
  BY ChildExitsType DEF IInv
<1>2. /\ UNCHANGED <<row, daemon, sup, op>> /\ child[s] = "running" /\ child'[s] = "exited"
      /\ \A r \in Sups \ {s} : child'[r] = child[r]
  BY DEF IInv, TypeOK, ChildExits
<1>3. SingleSupervisor' /\ ExitedIsDead'
  BY <1>2 DEF IInv, SingleSupervisor, ExitedIsDead, Present
<1>4. ChildPhase' /\ OneChild'
  BY <1>2 DEF IInv, ChildPhase, OneChild, HasChild
<1>5. PidIsHeld'
  <2>1. row.pid # NoSup => row.pid \in Sups
    BY DEF IInv, TypeOK, Row, NoRow
  <2> QED
    BY <1>2, <2>1 DEF IInv, PidIsHeld
<1> QED
  BY <1>1, <1>3, <1>4, <1>5 DEF IInv

-----------------------------------------------------------------------------
(* The steps of an operation.                                              *)

LEMMA TaskQuiet ==
  ASSUME IInv, TypeOK', UNCHANGED <<sup, child>>, Steady,
         row' = NoRow \/ (row'.cmdTx = row.cmdTx /\ row'.pid = row.pid /\ (Present' => Present))
  PROVE  IInv'
<1>1. Tame
  BY DEF Tame, NoRow, Present
<1>2. SameChildren
  BY DEF SameChildren, HasChild, Watches, NoRow
<1> QED
  BY <1>1, <1>2, QuietStep

\* A task that runs an operation shows that the daemon has not exited.
LEMMA BusySteady ==
  ASSUME IInv, NEW t \in Tasks, op[t].pc # "idle", daemon' # "exited"
  PROVE  Steady
  BY DEF IInv, ExitedIsDead, Steady

LEMMA StopFlipSafe ==
  ASSUME IInv, NEW t \in Tasks, StopFlip(t)
  PROVE  IInv'
<1>1. row' = NoRow \/ (row'.cmdTx = row.cmdTx /\ row'.pid = row.pid /\ (Present' => Present))
  BY DEF IInv, TypeOK, Row, NoRow, Present, StopFlip
<1>2. Steady
  BY BusySteady DEF IInv, ExitedIsDead, StopFlip, Waiting
<1> QED
  BY <1>1, <1>2, TaskQuiet, StopFlipType DEF IInv, StopFlip

LEMMA RestartReadSafe ==
  ASSUME IInv, NEW t \in Tasks, RestartRead(t)
  PROVE  IInv'
<1>1. row' = NoRow \/ (row'.cmdTx = row.cmdTx /\ row'.pid = row.pid /\ (Present' => Present))
  BY DEF Present, RestartRead
<1>2. Steady
  BY BusySteady DEF IInv, ExitedIsDead, RestartRead, Waiting
<1> QED
  BY <1>1, <1>2, TaskQuiet, RestartReadType DEF IInv, RestartRead

LEMMA RestartFlipSafe ==
  ASSUME IInv, NEW t \in Tasks, RestartFlip(t)
  PROVE  IInv'
<1>1. row' = NoRow \/ (row'.cmdTx = row.cmdTx /\ row'.pid = row.pid /\ (Present' => Present))
  BY DEF IInv, TypeOK, Row, NoRow, Present, RestartFlip
<1>2. Steady
  BY BusySteady DEF IInv, ExitedIsDead, RestartFlip, Waiting
<1> QED
  BY <1>1, <1>2, TaskQuiet, RestartFlipType DEF IInv, RestartFlip

LEMMA ResetStateSafe ==
  ASSUME IInv, NEW t \in Tasks, ResetState(t)
  PROVE  IInv'
<1>1. row' = NoRow \/ (row'.cmdTx = row.cmdTx /\ row'.pid = row.pid /\ (Present' => Present))
  BY DEF IInv, TypeOK, Row, NoRow, Present, ResetState
<1>2. Steady
  BY BusySteady DEF IInv, ExitedIsDead, ResetState, Waiting
<1> QED
  BY <1>1, <1>2, TaskQuiet, ResetStateType DEF IInv, ResetState

LEMMA DeleteFlipSafe ==
  ASSUME IInv, NEW t \in Tasks, DeleteFlip(t)
  PROVE  IInv'
<1>1. row' = NoRow \/ (row'.cmdTx = row.cmdTx /\ row'.pid = row.pid /\ (Present' => Present))
  BY DEF IInv, TypeOK, Row, NoRow, Present, DeleteFlip
<1>2. Steady
  BY BusySteady DEF IInv, ExitedIsDead, DeleteFlip, Waiting
<1> QED
  BY <1>1, <1>2, TaskQuiet, DeleteFlipType DEF IInv, DeleteFlip

LEMMA SendSafe ==
  ASSUME IInv, NEW t \in Tasks, Send(t)
  PROVE  IInv'
<1>1. row' = NoRow \/ (row'.cmdTx = row.cmdTx /\ row'.pid = row.pid /\ (Present' => Present))
  BY DEF Present, Send
<1>2. Steady
  BY BusySteady DEF IInv, ExitedIsDead, Send, Waiting
<1> QED
  BY <1>1, <1>2, TaskQuiet, SendType DEF IInv, Send

LEMMA AwaitSafe ==
  ASSUME IInv, NEW t \in Tasks, Await(t)
  PROVE  IInv'
<1>1. row' = NoRow \/ (row'.cmdTx = row.cmdTx /\ row'.pid = row.pid /\ (Present' => Present))
  BY DEF Present, Await
<1>2. Steady
  BY BusySteady DEF IInv, ExitedIsDead, Await, Waiting
<1> QED
  BY <1>1, <1>2, TaskQuiet, AwaitType DEF IInv, Await

LEMMA SettleSafe ==
  ASSUME IInv, NEW t \in Tasks, Settle(t)
  PROVE  IInv'
<1>1. row' = NoRow \/ (row'.cmdTx = row.cmdTx /\ row'.pid = row.pid /\ (Present' => Present))
  BY DEF IInv, TypeOK, Row, NoRow, Present, Settle
<1>2. Steady
  BY BusySteady DEF IInv, ExitedIsDead, Settle, Waiting
<1> QED
  BY <1>1, <1>2, TaskQuiet, SettleType DEF IInv, Settle

LEMMA RemoveSafe ==
  ASSUME IInv, NEW t \in Tasks, Remove(t)
  PROVE  IInv'
<1>1. row' = NoRow \/ (row'.cmdTx = row.cmdTx /\ row'.pid = row.pid /\ (Present' => Present))
  BY DEF Remove, RemoveProc
<1>2. Steady
  BY BusySteady DEF IInv, ExitedIsDead, Remove, Waiting
<1> QED
  BY <1>1, <1>2, TaskQuiet, RemoveType DEF IInv, Remove

LEMMA LaunchGateSafe ==
  ASSUME IInv, NEW t \in Tasks, LaunchGate(t)
  PROVE  IInv'
<1>1. row' = NoRow \/ (row'.cmdTx = row.cmdTx /\ row'.pid = row.pid /\ (Present' => Present))
  BY DEF Present, LaunchGate
<1>2. Steady
  BY BusySteady DEF IInv, ExitedIsDead, LaunchGate, Waiting
<1> QED
  BY <1>1, <1>2, TaskQuiet, LaunchGateType DEF IInv, LaunchGate

LEMMA LaunchCheckSafe ==
  ASSUME IInv, NEW t \in Tasks, LaunchCheck(t)
  PROVE  IInv'
<1>1. row' = NoRow \/ (row'.cmdTx = row.cmdTx /\ row'.pid = row.pid /\ (Present' => Present))
  BY DEF Present, LaunchCheck
<1>2. Steady
  BY BusySteady DEF IInv, ExitedIsDead, LaunchCheck, Waiting
<1> QED
  BY <1>1, <1>2, TaskQuiet, LaunchCheckType DEF IInv, LaunchCheck

LEMMA AwaitSpawnSafe ==
  ASSUME IInv, NEW t \in Tasks, AwaitSpawn(t)
  PROVE  IInv'
<1>1. row' = NoRow \/ (row'.cmdTx = row.cmdTx /\ row'.pid = row.pid /\ (Present' => Present))
  BY DEF Present, AwaitSpawn
<1>2. Steady
  BY BusySteady DEF IInv, ExitedIsDead, AwaitSpawn, Waiting
<1> QED
  BY <1>1, <1>2, TaskQuiet, AwaitSpawnType DEF IInv, AwaitSpawn

LEMMA ArmSafe ==
  ASSUME IInv, NEW t \in Tasks, Arm(t)
  PROVE  IInv'
<1>1. row' = NoRow \/ (row'.cmdTx = row.cmdTx /\ row'.pid = row.pid /\ (Present' => Present))
  BY DEF Present, Arm
<1>2. Steady
  BY BusySteady DEF IInv, ExitedIsDead, Arm, Waiting
<1> QED
  BY <1>1, <1>2, TaskQuiet, ArmType DEF IInv, Arm

\* The atomic check of supervisor::spawn: a row without a channel has no
\* supervisor task, so the new one is the only one.
LEMMA SpawnSafe ==
  ASSUME IInv, NEW t \in Tasks, Spawn(t)
  PROVE  IInv'
<1>1. TypeOK'
  BY SpawnType DEF IInv
<1>2. Steady
  BY BusySteady DEF IInv, ExitedIsDead, Spawn, Waiting
<1>3. CASE UNCHANGED <<row, sup>>
  BY <1>1, <1>2, <1>3, TaskQuiet DEF Spawn, Present
<1>4. CASE \E s \in Sups : NewSupervisor(t, s)
  <2>1. PICK s \in Sups : NewSupervisor(t, s)
    BY <1>4
  <2>2. /\ Present /\ row.cmdTx = NoSup /\ sup[s].pc = "free" /\ child[s] = "none"
        /\ row'.cmdTx = s /\ row'.pid = row.pid
        /\ sup'[s].pc = "start" /\ \A r \in Sups \ {s} : sup'[r] = sup[r]
        /\ UNCHANGED <<daemon, child>>
    BY <2>1 DEF IInv, TypeOK, Row, NoRow, Present, Spawn, NewSupervisor, Unused, FreeSup
  <2>3. \A r \in Sups : sup[r].pc = "free"
    BY <2>2, NullAssumption DEF IInv, SingleSupervisor
  <2>4. SingleSupervisor'
    BY <2>2, <2>3 DEF SingleSupervisor
  <2>5. ExitedIsDead'
    BY <2>2 DEF IInv, ExitedIsDead
  <2>6. ChildPhase' /\ OneChild'
    BY <2>2 DEF IInv, ChildPhase, OneChild, HasChild
  <2>7. PidIsHeld'
    <3>1. row.pid # NoSup => row.pid \in Sups
      BY DEF IInv, TypeOK, Row, NoRow
    <3> QED
      BY <2>2, <2>3, <3>1 DEF IInv, PidIsHeld
  <2> QED
    BY <1>1, <2>4, <2>5, <2>6, <2>7 DEF IInv
<1> QED
  BY <1>3, <1>4 DEF Spawn, AlreadySupervised, RowVanished

LEMMA BeginSafe ==
  ASSUME IInv, NEW t \in Tasks, NEW kind \in Kinds, Begin(t, kind)
  PROVE  IInv'
<1>1. Steady
  BY DEF Steady, Begin
<1> QED
  BY <1>1, TaskQuiet, BeginType DEF IInv, Begin, Present

LEMMA ResetCountersSafe ==
  ASSUME IInv, ResetCounters
  PROVE  IInv'
<1>1. Steady
  BY DEF Steady, ResetCounters
<1>2. row'.cmdTx = row.cmdTx /\ row'.pid = row.pid /\ (Present' => Present)
  BY DEF IInv, TypeOK, Row, NoRow, Present, ResetCounters
<1> QED
  BY <1>1, <1>2, TaskQuiet, ResetCountersType DEF IInv, ResetCounters

LEMMA BeginShutdownSafe ==
  ASSUME IInv, NEW t \in Tasks, BeginShutdown(t)
  PROVE  IInv'
<1>1. Steady
  BY DEF Steady, BeginShutdown
<1> QED
  BY <1>1, TaskQuiet, BeginShutdownType DEF IInv, BeginShutdown, Present

LEMMA ShutdownSnapshotSafe ==
  ASSUME IInv, NEW t \in Tasks, ShutdownSnapshot(t)
  PROVE  IInv'
<1>1. Steady
  BY BusySteady DEF IInv, ExitedIsDead, ShutdownSnapshot, Waiting
<1> QED
  BY <1>1, TaskQuiet, ShutdownSnapshotType DEF IInv, ShutdownSnapshot, Present

LEMMA ExitSafe ==
  ASSUME IInv, NEW t \in Tasks, Exit(t)
  PROVE  IInv'
<1>1. /\ daemon' = "exited" /\ row' = NoRow /\ UNCHANGED child
      /\ \A s \in Sups : sup'[s].pc = "free"
      /\ \A u \in Tasks : op'[u].pc = "idle"
  BY DEF Exit, FreeSup, IdleOp
<1>2. SingleSupervisor' /\ ExitedIsDead' /\ PidIsHeld'
  BY <1>1 DEF SingleSupervisor, ExitedIsDead, PidIsHeld, Present, NoRow
<1>3. ChildPhase' /\ OneChild'
  BY <1>1 DEF IInv, ChildPhase, OneChild, HasChild
<1> QED
  BY <1>2, <1>3, ExitType DEF IInv

-----------------------------------------------------------------------------
(* The invariant is inductive.                                             *)

LEMMA InitSafe ==
  ASSUME Init
  PROVE  IInv
<1>1. TypeOK
  BY InitType
<1>2. \A s \in Sups : sup[s].pc = "free" /\ child[s] = "none"
  BY DEF Init, FreeSup
<1>3. row.pid = NoSup /\ daemon = "up"
  BY DEF Init, NewRow
<1> QED
  BY <1>1, <1>2, <1>3
  DEF IInv, SingleSupervisor, ChildPhase, ExitedIsDead, OneChild, PidIsHeld, HasChild

LEMMA StepSafe ==
  ASSUME IInv, [Next]_vars
  PROVE  IInv'
<1>1. ASSUME NEW s \in Sups, SupStep(s) \/ ChildExits(s)
      PROVE  IInv'
  BY <1>1, SupStartSafe, SpawnFailedSafe, GoOnlineSafe, ReapSafe, NaturalExitSafe, CheckShutdownSafe,
     ExitStopsSafe, ExitGivesUpSafe, ExitRestartsSafe, BackoffElapsedSafe, BackoffCommandSafe,
     TakeCommandSafe, KillTimeoutSafe, KillDoneSafe, ClearTxSafe, SendersGoneSafe, ChildExitsSafe
  DEF SupStep, Receive
<1>2. ASSUME NEW t \in Tasks, Continue(t)
      PROVE  IInv'
  BY <1>2, StopFlipSafe, RestartReadSafe, RestartFlipSafe, ResetStateSafe, DeleteFlipSafe,
     SendSafe, AwaitSafe, SettleSafe, RemoveSafe, LaunchGateSafe, LaunchCheckSafe, SpawnSafe,
     AwaitSpawnSafe, ArmSafe
  DEF Continue
<1>3. ASSUME NEW t \in Tasks,
             BeginShutdown(t) \/ ShutdownSnapshot(t) \/ Exit(t) \/ \E kind \in Kinds : Begin(t, kind)
      PROVE  IInv'
  BY <1>3, BeginShutdownSafe, ShutdownSnapshotSafe, ExitSafe, BeginSafe
<1>4. CASE UNCHANGED vars
  <2>1. TypeOK'
    BY <1>4 DEF IInv, TypeOK, vars
  <2>2. Steady
    BY <1>4 DEF Steady, vars
  <2> QED
    BY <1>4, <2>1, <2>2, TaskQuiet DEF vars, Present
<1> QED
  BY <1>1, <1>2, <1>3, <1>4, ResetCountersSafe DEF Next

\* The inductive invariant holds in every reachable state: types, the supervisor
\* that owns a row, the point at which each supervisor has a child, the one child
\* of a row and the owner of the pid it shows.
THEOREM Inductive == Spec => []IInv
<1>1. Init => IInv
  BY InitSafe
<1>2. IInv /\ [Next]_vars => IInv'
  BY StepSafe
<1> QED
  BY <1>1, <1>2, PTL DEF Spec

\* However many cold starts, restarts, deletes and exits race, a row that is
\* present has at most one supervisor task, the one whose channel it holds.
THEOREM SingleSupervisorAlways == Spec => []SingleSupervisor
<1>1. IInv => SingleSupervisor
  BY DEF IInv
<1> QED
  BY Inductive, <1>1, PTL

\* No row ever has two running processes, not even after its removal or the
\* daemon's exit.
THEOREM OneChildAlways == Spec => []OneChild
<1>1. IInv => OneChild
  BY DEF IInv
<1> QED
  BY Inductive, <1>1, PTL

\* The pid a row shows was spawned by the supervisor whose channel the row holds, and
\* is of a child that runs or has yet to be reaped, unless that supervisor has reaped it
\* and is at its next lock section (rpc.rs:155, supervisor.rs:200-215).
THEOREM PidIsOwnedAlways == Spec => []PidIsOwned
<1>1. IInv => PidIsOwned
  <2> SUFFICES ASSUME IInv, row.pid # NoSup
               PROVE  \/ child[row.pid] \in {"running", "exited"}
                      \/ sup[row.pid].pc \in {"reaped", "killed"}
    BY DEF IInv, PidIsHeld, PidIsOwned
  <2>1. row.pid \in Sups
    BY DEF IInv, TypeOK, Row, NoRow
  <2> QED
    BY <2>1 DEF IInv, PidIsHeld, ChildPhase, HasChild
<1> QED
  BY Inductive, <1>1, PTL

-----------------------------------------------------------------------------
(* Acknowledgements.                                                       *)

\* Task t waits for the acknowledgement of a command it sent to s.
Waits(t, s) == op[t].pc = "await" /\ op[t].tx = s /\ ack[t] = "none"

\* A command is queued once, for a task that waits for it.
QueueWaits ==
  \A s \in Sups : \A i \in DOMAIN inbox[s] :
    /\ Waits(inbox[s][i], s) /\ inbox[s][i] # sup[s].cmd
    /\ \A j \in DOMAIN inbox[s] : inbox[s][i] = inbox[s][j] => i = j

\* A command in the hands of a supervisor task is one that a task waits for.
CmdWaits == \A s \in Sups : sup[s].cmd # NoTask => Waits(sup[s].cmd, s)

\* A supervisor task has a command in its hands while it kills the child for it;
\* the one that ends afterwards was told to stop.
CmdPhase ==
  \A s \in Sups :
    /\ sup[s].pc \in {"kill", "sigkill", "killed"} => sup[s].cmd # NoTask
    /\ sup[s].cmd # NoTask => sup[s].pc \in {"kill", "sigkill", "killed", "clear"}
    /\ sup[s].cmd # NoTask /\ sup[s].pc = "clear" => op[sup[s].cmd].kind \in {"stop", "kill"}

\* The report of a first spawn is owed by one supervisor, to a task that waits.
StarterWaits ==
  \A s \in Sups : sup[s].starter # NoTask =>
    /\ op[sup[s].starter].pc = "awaitSpawn" /\ ack[sup[s].starter] = "none"
    /\ \A r \in Sups : sup[r].starter = sup[s].starter => r = s

\* A slot that runs no task owes nothing.
FreeOwesNothing ==
  \A s \in Sups : sup[s].pc = "free" => inbox[s] = <<>> /\ sup[s].starter = NoTask

\* Where an operation holds a channel, and where it holds an answer.
OpShape ==
  \A t \in Tasks :
    /\ op[t].pc \in {"restartFlip", "send", "await"} => op[t].tx \in Sups
    /\ ack[t] # "none" => op[t].pc \in {"await", "awaitSpawn"}

\* A delete is in one of four places, and is told that it is done only once the
\* row has gone.
DeleteDone ==
  \A t \in Tasks : op[t].kind = "delete" =>
    /\ op[t].pc \in {"deleteFlip", "send", "await", "remove"}
    /\ op[t].pc = "await" /\ ack[t] = "ok" => ~Present

AInv == /\ TypeOK /\ QueueWaits /\ CmdWaits /\ CmdPhase /\ StarterWaits /\ FreeOwesNothing
        /\ OpShape /\ DeleteDone /\ ReplyIsOwed

\* A row that has gone stays away.
RowStaysGone == Present' => Present

-----------------------------------------------------------------------------
(* Steps that answer nobody.                                               *)

\* Channels, operations and answers stay, and what each supervisor owes.
LEMMA NoReplyStep ==
  ASSUME AInv, TypeOK', RowStaysGone, UNCHANGED <<inbox, op, ack>>, CmdPhase',
         \A s \in Sups : /\ sup'[s].starter = sup[s].starter /\ sup'[s].cmd = sup[s].cmd
                         /\ (sup'[s].pc = "free") <=> (sup[s].pc = "free")
  PROVE  AInv'
<1>1. QueueWaits' /\ CmdWaits'
  BY DEF AInv, QueueWaits, CmdWaits, Waits
<1>2. StarterWaits' /\ FreeOwesNothing'
  BY DEF AInv, StarterWaits, FreeOwesNothing
<1>3. OpShape' /\ DeleteDone'
  BY DEF AInv, OpShape, DeleteDone, RowStaysGone
<1>4. ReplyIsOwed'
  BY DEF AInv, ReplyIsOwed, OpShape, Queued
<1> QED
  BY <1>1, <1>2, <1>3, <1>4 DEF AInv

\* An operation goes on that neither waits for an answer nor will.
LEMMA TaskStep ==
  ASSUME AInv, TypeOK', RowStaysGone, UNCHANGED <<sup, inbox, ack>>, NEW t \in Tasks,
         op[t].pc \notin {"await", "awaitSpawn"}, op'[t].pc \notin {"await", "awaitSpawn"},
         \A u \in Tasks \ {t} : op'[u] = op[u],
         op'[t].pc \in {"restartFlip", "send"} => op'[t].tx \in Sups,
         op'[t].kind = "delete" => op'[t].pc \in {"deleteFlip", "send", "remove"}
  PROVE  AInv'
<1>1. \A s \in Sups : /\ sup[s].cmd \in Tasks \cup {NoTask} /\ sup[s].starter \in Tasks \cup {NoTask}
                      /\ \A i \in DOMAIN inbox[s] : inbox[s][i] \in Tasks
  BY DEF AInv, TypeOK, SupTask
<1>2. \A s \in Sups, u \in Tasks : Waits(u, s) => u # t /\ Waits(u, s)'
  BY DEF Waits
<1>3. QueueWaits' /\ CmdWaits'
  BY <1>1, <1>2 DEF AInv, QueueWaits, CmdWaits
<1>4. CmdPhase'
  BY <1>1, <1>2 DEF AInv, CmdPhase, CmdWaits
<1>5. StarterWaits' /\ FreeOwesNothing'
  BY <1>1 DEF AInv, StarterWaits, FreeOwesNothing
<1>6. OpShape' /\ DeleteDone'
  BY DEF AInv, OpShape, DeleteDone, RowStaysGone
<1>7. ReplyIsOwed'
  BY DEF AInv, ReplyIsOwed, Queued
<1> QED
  BY <1>3, <1>4, <1>5, <1>6, <1>7 DEF AInv

-----------------------------------------------------------------------------
(* A supervisor task returns.                                              *)

\* All it owes is answered or dropped, and nothing else.
LEMMA ReturnStep ==
  ASSUME AInv, TypeOK', RowStaysGone, UNCHANGED op, NEW s \in Sups, NEW okay, Return(s, okay),
         okay \subseteq Queued(s) \cup {sup[s].cmd},
         \A t \in okay \cap Tasks : op[t].kind = "delete" => ~Present'
  PROVE  AInv'
<1> DEFINE A == Queued(s) \cup {sup[s].starter, sup[s].cmd}
<1>1. /\ sup'[s].pc = "free" /\ sup'[s].starter = NoTask /\ sup'[s].cmd = NoTask
      /\ inbox'[s] = <<>>
      /\ \A r \in Sups \ {s} : sup'[r] = sup[r] /\ inbox'[r] = inbox[r]
  BY DEF AInv, TypeOK, Return, FreeSup
<1>2. \A t \in Tasks : /\ t \in A => ack'[t] # "none"
                       /\ t \notin A => ack'[t] = ack[t]
                       /\ ack'[t] = "ok" => t \in okay \/ ack[t] = "ok"
  BY DEF Return, Resolve
<1>3. \A r \in Sups : /\ sup[r].cmd \in Tasks \cup {NoTask} /\ sup[r].starter \in Tasks \cup {NoTask}
                      /\ \A i \in DOMAIN inbox[r] : inbox[r][i] \in Tasks
  BY DEF AInv, TypeOK, SupTask
<1>4. \A r \in Sups \ {s}, t \in Tasks : Waits(t, r) => Waits(t, r)'
  <2> SUFFICES ASSUME NEW r \in Sups \ {s}, NEW t \in Tasks, Waits(t, r)
               PROVE  t \notin A
    BY <1>2 DEF Waits
  <2>1. t \notin Queued(s)
    BY DEF AInv, QueueWaits, Waits, Queued
  <2>2. t # sup[s].cmd /\ t # sup[s].starter
    BY NullAssumption DEF AInv, CmdWaits, StarterWaits, Waits
  <2> QED
    BY <2>1, <2>2
<1>5. QueueWaits' /\ CmdWaits'
  BY <1>1, <1>3, <1>4 DEF AInv, QueueWaits, CmdWaits
<1>6. CmdPhase' /\ FreeOwesNothing'
  BY <1>1 DEF AInv, CmdPhase, FreeOwesNothing
<1>7. StarterWaits'
  <2> SUFFICES ASSUME NEW r \in Sups \ {s}, sup[r].starter # NoTask
               PROVE  sup[r].starter \notin A
    BY <1>1, <1>2, <1>3 DEF AInv, StarterWaits
  <2>1. sup[r].starter \notin Queued(s)
    BY DEF AInv, QueueWaits, Waits, Queued, StarterWaits
  <2> QED
    BY <2>1 DEF AInv, CmdWaits, StarterWaits, Waits
<1>8. OpShape'
  <2> SUFFICES ASSUME NEW t \in Tasks, t \in A
               PROVE  op[t].pc \in {"await", "awaitSpawn"}
    BY <1>2 DEF AInv, OpShape
  <2> QED
    BY NullAssumption DEF AInv, QueueWaits, CmdWaits, StarterWaits, Waits, Queued
<1>9. DeleteDone'
  BY <1>2 DEF AInv, DeleteDone, RowStaysGone
<1>10. ReplyIsOwed'
  <2> SUFFICES ASSUME NEW t \in Tasks, ack'[t] = "none"
               PROVE  /\ op[t].pc = "await" =>
                           /\ sup'[op[t].tx].pc # "free"
                           /\ t \in Queued(op[t].tx)' \/ sup'[op[t].tx].cmd = t
                      /\ op[t].pc = "awaitSpawn" => \E r \in Sups : sup'[r].starter = t
    BY DEF ReplyIsOwed
  <2>1. t \notin A /\ ack[t] = "none"
    BY <1>2
  <2>2. CASE op[t].pc = "await"
    <3>1. op[t].tx \in Sups /\ op[t].tx # s
      BY <2>1, <2>2 DEF AInv, OpShape, ReplyIsOwed
    <3> QED
      BY <1>1, <2>1, <2>2, <3>1 DEF AInv, ReplyIsOwed, Queued
  <2>3. CASE op[t].pc = "awaitSpawn"
    BY <1>1, <2>1, <2>3 DEF AInv, ReplyIsOwed
  <2> QED
    BY <2>2, <2>3
<1> QED
  BY <1>5, <1>6, <1>7, <1>8, <1>9, <1>10 DEF AInv

-----------------------------------------------------------------------------
(* A supervisor task receives a command.                                   *)

\* What is left of a queue without its head.
LEMMA TailOf ==
  ASSUME NEW q \in Seq(Tasks), q # <<>>
  PROVE  /\ Head(q) = q[1] /\ 1 \in DOMAIN q
         /\ DOMAIN Tail(q) \subseteq Nat \ {0}
         /\ \A i \in DOMAIN Tail(q) : i + 1 \in DOMAIN q /\ Tail(q)[i] = q[i + 1]
         /\ \A i \in DOMAIN q : i = 1 \/ (i - 1 \in DOMAIN Tail(q) /\ Tail(q)[i - 1] = q[i])
  OBVIOUS

\* The command at the head leaves the queue; the others stay as they are.
LEMMA HeadLeaves ==
  ASSUME AInv, NEW s \in Sups, inbox[s] # <<>>, inbox' = [inbox EXCEPT ![s] = Tail(@)]
  PROVE  /\ Head(inbox[s]) \in Tasks /\ Waits(Head(inbox[s]), s) /\ Head(inbox[s]) # sup[s].cmd
         /\ \A i \in DOMAIN inbox'[s] :
              /\ inbox'[s][i] \in Tasks /\ Waits(inbox'[s][i], s)
              /\ inbox'[s][i] # sup[s].cmd /\ inbox'[s][i] # Head(inbox[s])
              /\ \A j \in DOMAIN inbox'[s] : inbox'[s][i] = inbox'[s][j] => i = j
         /\ \A t \in Queued(s) : t = Head(inbox[s]) \/ t \in Queued(s)'
         /\ \A r \in Sups \ {s} : inbox'[r] = inbox[r]
<1> DEFINE q == inbox[s]
<1>1. q \in Seq(Tasks) /\ inbox'[s] = Tail(q) /\ \A r \in Sups \ {s} : inbox'[r] = inbox[r]
  BY DEF AInv, TypeOK
<1>2. \A i \in DOMAIN q : /\ q[i] \in Tasks /\ Waits(q[i], s) /\ q[i] # sup[s].cmd
                          /\ \A j \in DOMAIN q : q[i] = q[j] => i = j
  BY <1>1 DEF AInv, QueueWaits
<1>3. /\ Head(q) = q[1] /\ 1 \in DOMAIN q
      /\ DOMAIN Tail(q) \subseteq Nat \ {0}
      /\ \A i \in DOMAIN Tail(q) : i + 1 \in DOMAIN q /\ Tail(q)[i] = q[i + 1]
      /\ \A i \in DOMAIN q : i = 1 \/ (i - 1 \in DOMAIN Tail(q) /\ Tail(q)[i - 1] = q[i])
  BY <1>1, TailOf
<1>4. ASSUME NEW i \in DOMAIN Tail(q)
      PROVE  /\ Tail(q)[i] \in Tasks /\ Waits(Tail(q)[i], s) /\ Tail(q)[i] # sup[s].cmd
             /\ Tail(q)[i] # Head(q)
             /\ \A j \in DOMAIN Tail(q) : Tail(q)[i] = Tail(q)[j] => i = j
  <2> HIDE DEF q
  <2>1. i \in Nat /\ i # 0 /\ i + 1 # 1
    BY <1>3, <1>4
  <2>2. \A j \in DOMAIN Tail(q) : i + 1 = j + 1 => i = j
    BY <1>3, <1>4
  <2> QED
    BY <1>2, <1>3, <1>4, <2>1, <2>2
<1>5. \A t \in Queued(s) : t = Head(q) \/ t \in Queued(s)'
  <2> SUFFICES ASSUME NEW i \in DOMAIN q, q[i] # Head(q)
               PROVE  \E j \in DOMAIN Tail(q) : q[i] = Tail(q)[j]
    BY <1>1 DEF Queued
  <2> HIDE DEF q
  <2> QED
    BY <1>3
<1> HIDE DEF q
<1>6. Head(q) \in Tasks /\ Waits(Head(q), s) /\ Head(q) # sup[s].cmd
  BY <1>2, <1>3
<1> USE DEF q
<1> QED
  BY <1>1, <1>4, <1>5, <1>6

\* It goes into the supervisor's hands, where there was none.
LEMMA TakeStep ==
  ASSUME AInv, TypeOK', RowStaysGone, UNCHANGED <<op, ack>>, CmdPhase',
         NEW s \in Sups, inbox[s] # <<>>, inbox' = [inbox EXCEPT ![s] = Tail(@)],
         sup[s].cmd = NoTask, sup'[s].cmd = Head(inbox[s]), sup'[s].starter = sup[s].starter,
         sup'[s].pc # "free", \A r \in Sups \ {s} : sup'[r] = sup[r]
  PROVE  AInv'
<1>1. /\ Head(inbox[s]) \in Tasks /\ Waits(Head(inbox[s]), s)
      /\ \A i \in DOMAIN inbox'[s] :
           /\ Waits(inbox'[s][i], s) /\ inbox'[s][i] # Head(inbox[s])
           /\ \A j \in DOMAIN inbox'[s] : inbox'[s][i] = inbox'[s][j] => i = j
      /\ \A t \in Queued(s) : t = Head(inbox[s]) \/ t \in Queued(s)'
      /\ \A r \in Sups \ {s} : inbox'[r] = inbox[r]
  BY HeadLeaves
<1>2. QueueWaits' /\ CmdWaits'
  BY <1>1 DEF AInv, QueueWaits, CmdWaits, Waits
<1>3. StarterWaits' /\ FreeOwesNothing'
  BY <1>1 DEF AInv, StarterWaits, FreeOwesNothing
<1>4. OpShape' /\ DeleteDone'
  BY DEF AInv, OpShape, DeleteDone, RowStaysGone
<1>5. ReplyIsOwed'
  <2>1. ASSUME NEW t \in Tasks, op[t].pc = "await", ack[t] = "none"
        PROVE  /\ sup'[op[t].tx].pc # "free"
               /\ t \in Queued(op[t].tx)' \/ sup'[op[t].tx].cmd = t
    <3>1. op[t].tx \in Sups
      BY <2>1 DEF AInv, OpShape
    <3>2. CASE op[t].tx = s
      <4>1. t \in Queued(s)
        BY <2>1, <3>2, NullAssumption DEF AInv, ReplyIsOwed
      <4>2. t = Head(inbox[s]) \/ t \in Queued(s)'
        BY <1>1, <4>1
      <4> QED
        BY <3>2, <4>2 DEF Queued
    <3>3. CASE op[t].tx # s
      BY <1>1, <2>1, <3>1, <3>3 DEF AInv, ReplyIsOwed, Queued
    <3> QED
      BY <3>2, <3>3
  <2> QED
    BY <2>1 DEF AInv, ReplyIsOwed
<1> QED
  BY <1>2, <1>3, <1>4, <1>5 DEF AInv

-----------------------------------------------------------------------------
(* A supervisor task answers one task.                                     *)

\* The one whose command it takes from the queue.
LEMMA AnswerHeadStep ==
  ASSUME AInv, TypeOK', RowStaysGone, UNCHANGED op, CmdPhase',
         NEW s \in Sups, inbox[s] # <<>>, inbox' = [inbox EXCEPT ![s] = Tail(@)],
         op[Head(inbox[s])].kind # "delete", Resolve({Head(inbox[s])}, {}),
         sup'[s].cmd = sup[s].cmd, sup'[s].starter = sup[s].starter,
         sup'[s].pc # "free", \A r \in Sups \ {s} : sup'[r] = sup[r]
  PROVE  AInv'
<1> DEFINE h == Head(inbox[s])
<1>1. /\ h \in Tasks /\ Waits(h, s) /\ h # sup[s].cmd
      /\ \A i \in DOMAIN inbox'[s] :
           /\ inbox'[s][i] \in Tasks /\ Waits(inbox'[s][i], s)
           /\ inbox'[s][i] # sup[s].cmd /\ inbox'[s][i] # h
           /\ \A j \in DOMAIN inbox'[s] : inbox'[s][i] = inbox'[s][j] => i = j
      /\ \A t \in Queued(s) : t = h \/ t \in Queued(s)'
      /\ \A r \in Sups \ {s} : inbox'[r] = inbox[r]
  BY HeadLeaves
<1>2. \A t \in Tasks : ack'[t] = IF t = h THEN "ok" ELSE ack[t]
  BY DEF Resolve
<1> HIDE DEF h
<1>3. \A r \in Sups : /\ sup[r].cmd \in Tasks \cup {NoTask} /\ sup[r].starter \in Tasks \cup {NoTask}
                      /\ \A i \in DOMAIN inbox[r] : inbox[r][i] \in Tasks
  BY DEF AInv, TypeOK, SupTask
<1>4. \A r \in Sups, t \in Tasks : Waits(t, r) /\ t # h => Waits(t, r)'
  BY <1>2 DEF Waits
<1>5. \A r \in Sups \ {s} : ~Waits(h, r)
  BY <1>1 DEF Waits
<1>6. QueueWaits' /\ CmdWaits'
  BY <1>1, <1>3, <1>4, <1>5 DEF AInv, QueueWaits, CmdWaits
<1>7. StarterWaits' /\ FreeOwesNothing'
  BY <1>1, <1>2, <1>3 DEF AInv, StarterWaits, FreeOwesNothing, Waits
<1>8. OpShape' /\ DeleteDone'
  BY <1>1, <1>2 DEF AInv, OpShape, DeleteDone, RowStaysGone, Waits, h
<1>9. ReplyIsOwed'
  <2>1. ASSUME NEW t \in Tasks, t # h, op[t].pc = "await", ack[t] = "none"
        PROVE  /\ sup'[op[t].tx].pc # "free"
               /\ t \in Queued(op[t].tx)' \/ sup'[op[t].tx].cmd = t
    <3>1. op[t].tx \in Sups
      BY <2>1 DEF AInv, OpShape
    <3>2. CASE op[t].tx = s
      <4>1. t \in Queued(s) \/ sup[s].cmd = t
        BY <2>1, <3>2 DEF AInv, ReplyIsOwed
      <4>2. t \in Queued(s)' \/ sup'[s].cmd = t
        BY <1>1, <2>1, <4>1
      <4> QED
        BY <3>2, <4>2 DEF Queued
    <3>3. CASE op[t].tx # s
      BY <1>1, <2>1, <3>1, <3>3 DEF AInv, ReplyIsOwed, Queued
    <3> QED
      BY <3>2, <3>3
  <2> QED
    BY <1>2, <2>1 DEF AInv, ReplyIsOwed
<1> QED
  BY <1>6, <1>7, <1>8, <1>9 DEF AInv

\* The one whose command it has handled.
LEMMA AnswerCmdStep ==
  ASSUME AInv, TypeOK', RowStaysGone, UNCHANGED <<op, inbox>>, CmdPhase',
         NEW s \in Sups, sup[s].cmd # NoTask,
         op[sup[s].cmd].kind # "delete", Resolve({sup[s].cmd}, {}),
         sup'[s].cmd = NoTask, sup'[s].starter = sup[s].starter,
         sup'[s].pc # "free", \A r \in Sups \ {s} : sup'[r] = sup[r]
  PROVE  AInv'
<1> DEFINE h == sup[s].cmd
<1>1. \A r \in Sups : /\ sup[r].cmd \in Tasks \cup {NoTask} /\ sup[r].starter \in Tasks \cup {NoTask}
                      /\ \A i \in DOMAIN inbox[r] : inbox[r][i] \in Tasks
  BY DEF AInv, TypeOK, SupTask
<1>2. h \in Tasks /\ Waits(h, s) /\ \A i \in DOMAIN inbox[s] : inbox[s][i] # h
  BY <1>1 DEF AInv, CmdWaits, QueueWaits
<1>3. \A t \in Tasks : ack'[t] = IF t = h THEN "ok" ELSE ack[t]
  BY DEF Resolve
<1>4. \A r \in Sups, t \in Tasks : Waits(t, r) /\ t # h => Waits(t, r)'
  BY <1>3 DEF Waits
<1>5. \A r \in Sups \ {s} : ~Waits(h, r)
  BY <1>2 DEF Waits
<1>6. QueueWaits' /\ CmdWaits'
  BY <1>1, <1>2, <1>4, <1>5, NullAssumption DEF AInv, QueueWaits, CmdWaits
<1>7. StarterWaits' /\ FreeOwesNothing'
  BY <1>1, <1>2, <1>3 DEF AInv, StarterWaits, FreeOwesNothing, Waits
<1>8. OpShape' /\ DeleteDone'
  BY <1>2, <1>3 DEF AInv, OpShape, DeleteDone, RowStaysGone, Waits
<1>9. ReplyIsOwed'
  BY <1>3 DEF AInv, ReplyIsOwed, OpShape, Queued
<1> QED
  BY <1>6, <1>7, <1>8, <1>9 DEF AInv

\* The one that waits for the first spawn, if it still owes that report.
LEMMA AnswerStarterStep ==
  ASSUME AInv, TypeOK', RowStaysGone, UNCHANGED <<op, inbox>>, CmdPhase',
         NEW s \in Sups,
         \A t \in Tasks : /\ t # sup[s].starter => ack'[t] = ack[t]
                          /\ t = sup[s].starter => ack'[t] # "none",
         sup'[s].starter = NoTask, sup'[s].cmd = sup[s].cmd,
         sup'[s].pc # "free", \A r \in Sups \ {s} : sup'[r] = sup[r]
  PROVE  AInv'
<1> DEFINE h == sup[s].starter
<1>1. \A r \in Sups : /\ sup[r].cmd \in Tasks \cup {NoTask} /\ sup[r].starter \in Tasks \cup {NoTask}
                      /\ \A i \in DOMAIN inbox[r] : inbox[r][i] \in Tasks
  BY DEF AInv, TypeOK, SupTask
<1>2. h \in Tasks => op[h].pc = "awaitSpawn" /\ ack[h] = "none"
  BY NullAssumption DEF AInv, StarterWaits
<1>3. \A r \in Sups, t \in Tasks : Waits(t, r) => Waits(t, r)'
  BY <1>2 DEF Waits
<1>4. QueueWaits' /\ CmdWaits'
  BY <1>1, <1>3 DEF AInv, QueueWaits, CmdWaits
<1>5. StarterWaits' /\ FreeOwesNothing'
  BY <1>1 DEF AInv, StarterWaits, FreeOwesNothing
<1>6. OpShape' /\ DeleteDone'
  BY <1>2 DEF AInv, OpShape, DeleteDone, RowStaysGone
<1>7. ReplyIsOwed'
  <2>1. ASSUME NEW t \in Tasks, ack'[t] = "none", op[t].pc = "await"
        PROVE  /\ sup'[op[t].tx].pc # "free"
               /\ t \in Queued(op[t].tx)' \/ sup'[op[t].tx].cmd = t
    BY <2>1 DEF AInv, ReplyIsOwed, OpShape, Queued
  <2>2. ASSUME NEW t \in Tasks, ack'[t] = "none", op[t].pc = "awaitSpawn"
        PROVE  \E r \in Sups : sup'[r].starter = t
    BY <2>2 DEF AInv, ReplyIsOwed
  <2> QED
    BY <2>1, <2>2 DEF ReplyIsOwed
<1> QED
  BY <1>4, <1>5, <1>6, <1>7 DEF AInv

-----------------------------------------------------------------------------
(* An operation sends, waits and collects its answer.                      *)

\* What tasks and supervisors have of each other is of the right type.
LEMMA Hands ==
  ASSUME AInv, NEW s \in Sups
  PROVE  /\ sup[s].cmd \in Tasks \cup {NoTask} /\ sup[s].starter \in Tasks \cup {NoTask}
         /\ \A i \in DOMAIN inbox[s] : inbox[s][i] \in Tasks
  BY DEF AInv, TypeOK, SupTask

\* The answer of t is read: nobody owes it one any more.
LEMMA CollectStep ==
  ASSUME AInv, TypeOK', RowStaysGone, UNCHANGED <<sup, inbox>>, NEW t \in Tasks,
         ack[t] # "none", ack' = [ack EXCEPT ![t] = "none"],
         op'[t].pc \notin {"await", "awaitSpawn", "restartFlip", "send"},
         \A u \in Tasks \ {t} : op'[u] = op[u],
         op'[t].kind = "delete" => op'[t].pc = "remove"
  PROVE  AInv'
<1>1. ack'[t] = "none" /\ \A u \in Tasks \ {t} : ack'[u] = ack[u]
  BY DEF AInv, TypeOK
<1>2. \A s \in Sups, u \in Tasks : Waits(u, s) => u # t /\ Waits(u, s)'
  BY <1>1 DEF Waits
<1>3. QueueWaits' /\ CmdWaits'
  BY <1>2, Hands DEF AInv, QueueWaits, CmdWaits
<1>4. CmdPhase'
  BY <1>2, Hands DEF AInv, CmdPhase, CmdWaits
<1>5. StarterWaits' /\ FreeOwesNothing'
  BY <1>1, Hands DEF AInv, StarterWaits, FreeOwesNothing
<1>6. OpShape' /\ DeleteDone'
  BY <1>1 DEF AInv, OpShape, DeleteDone, RowStaysGone
<1>7. ReplyIsOwed'
  BY <1>1 DEF AInv, ReplyIsOwed, Queued
<1> QED
  BY <1>3, <1>4, <1>5, <1>6, <1>7 DEF AInv

\* A command is queued, behind others of the same channel.
LEMMA QueuedStep ==
  ASSUME AInv, TypeOK', RowStaysGone, UNCHANGED <<sup, ack>>, NEW t \in Tasks,
         NEW s \in Sups, op[t].pc = "send", op[t].tx = s, sup[s].pc # "free",
         inbox' = [inbox EXCEPT ![s] = Append(@, t)],
         op' = [op EXCEPT ![t].pc = "await"]
  PROVE  AInv'
<1>1. ack[t] = "none"
  BY DEF AInv, OpShape
<1>2. /\ op'[t].pc = "await" /\ op'[t].tx = s /\ op'[t].kind = op[t].kind
      /\ \A u \in Tasks \ {t} : op'[u] = op[u]
  BY DEF AInv, TypeOK, Operation
<1>3. /\ inbox[s] \in Seq(Tasks) /\ inbox'[s] = Append(inbox[s], t)
      /\ \A r \in Sups \ {s} : inbox'[r] = inbox[r]
  BY DEF AInv, TypeOK
<1>4. \A r \in Sups, u \in Tasks : Waits(u, r) => u # t /\ Waits(u, r)'
  BY <1>2 DEF Waits
<1>5. Waits(t, s)'
  BY <1>1, <1>2 DEF Waits
<1>6. \A i \in DOMAIN inbox'[s] :
         \/ i \in DOMAIN inbox[s] /\ inbox'[s][i] = inbox[s][i]
         \/ i = Len(inbox[s]) + 1 /\ inbox'[s][i] = t
  BY <1>3
<1>7. QueueWaits'
  <2>1. \A i \in DOMAIN inbox[s] : Waits(inbox[s][i], s) /\ inbox[s][i] # t
    BY <1>4, Hands DEF AInv, QueueWaits
  <2>2. t # sup[s].cmd
    BY <1>4, Hands, NullAssumption DEF AInv, CmdWaits
  <2>3. ASSUME NEW i \in DOMAIN inbox'[s]
        PROVE  /\ Waits(inbox[s][i], s)' /\ inbox'[s][i] # sup[s].cmd
               /\ \A j \in DOMAIN inbox'[s] : inbox'[s][i] = inbox'[s][j] => i = j
    <3>1. CASE i \in DOMAIN inbox[s] /\ inbox'[s][i] = inbox[s][i]
      BY <1>4, <1>6, <2>1, <3>1, Hands DEF AInv, QueueWaits
    <3>2. CASE i = Len(inbox[s]) + 1 /\ inbox'[s][i] = t
      BY <1>5, <1>6, <2>1, <2>2, <3>2
    <3> QED
      BY <1>6, <3>1, <3>2
  <2>4. ASSUME NEW r \in Sups \ {s}, NEW i \in DOMAIN inbox'[r]
        PROVE  /\ Waits(inbox[r][i], r)' /\ inbox'[r][i] # sup[r].cmd
               /\ \A j \in DOMAIN inbox'[r] : inbox'[r][i] = inbox'[r][j] => i = j
    BY <1>3, <1>4, Hands DEF AInv, QueueWaits
  <2> QED
    BY <2>3, <2>4 DEF QueueWaits
<1>8. CmdWaits'
  BY <1>4, Hands DEF AInv, CmdWaits
<1>9. CmdPhase'
  BY <1>2, <1>4, Hands DEF AInv, CmdPhase, CmdWaits
<1>10. StarterWaits' /\ FreeOwesNothing'
  BY <1>2, <1>3, Hands DEF AInv, StarterWaits, FreeOwesNothing
<1>11. OpShape' /\ DeleteDone'
  BY <1>1, <1>2 DEF AInv, OpShape, DeleteDone, RowStaysGone
<1>12. ReplyIsOwed'
  <2>1. \A r \in Sups : Queued(r) \subseteq Queued(r)'
    <3>1. \A i \in DOMAIN inbox[s] : i \in DOMAIN inbox'[s] /\ inbox'[s][i] = inbox[s][i]
      BY <1>3
    <3> QED
      BY <1>3, <3>1 DEF Queued
  <2>2. t \in Queued(s)'
    <3>1. Len(inbox[s]) + 1 \in DOMAIN inbox'[s] /\ inbox'[s][Len(inbox[s]) + 1] = t
      BY <1>3
    <3> QED
      BY <3>1 DEF Queued
  <2>3. ASSUME NEW u \in Tasks \ {t}, op[u].pc = "await", ack[u] = "none"
        PROVE  sup[op[u].tx].pc # "free" /\ (u \in Queued(op[u].tx)' \/ sup[op[u].tx].cmd = u)
    <3>1. op[u].tx \in Sups
      BY <2>3 DEF AInv, OpShape
    <3>2. sup[op[u].tx].pc # "free" /\ (u \in Queued(op[u].tx) \/ sup[op[u].tx].cmd = u)
      BY <2>3 DEF AInv, ReplyIsOwed
    <3>3. PICK r \in Sups : r = op[u].tx
      BY <3>1
    <3>4. u \in Queued(r) => u \in Queued(r)'
      BY <2>1
    <3> QED
      BY <1>2, <3>2, <3>3, <3>4 DEF Queued
  <2> QED
    BY <1>2, <2>2, <2>3 DEF AInv, ReplyIsOwed, Queued
<1> QED
  BY <1>7, <1>8, <1>9, <1>10, <1>11, <1>12 DEF AInv

\* A cold start waits for the report of the new supervisor task, or has it.
LEMMA SpawnWaits ==
  ASSUME AInv, TypeOK', NEW t \in Tasks, Spawn(t)
  PROVE  AInv'
<1>1. /\ op[t].pc = "spawn" /\ op'[t].pc = "awaitSpawn" /\ op'[t].kind = op[t].kind
      /\ \A u \in Tasks \ {t} : op'[u] = op[u]
      /\ UNCHANGED inbox
  BY DEF AInv, TypeOK, Operation, Spawn, Goto, Waiting
<1>2. ack[t] = "none" /\ \A u \in Tasks \ {t} : ack'[u] = ack[u]
  BY <1>1 DEF AInv, TypeOK, OpShape, Spawn, NewSupervisor, AlreadySupervised, RowVanished
<1>3. \A s \in Sups, u \in Tasks : Waits(u, s) => u # t /\ Waits(u, s)'
  BY <1>1, <1>2 DEF Waits
<1>4. RowStaysGone
  BY DEF RowStaysGone, Spawn, NewSupervisor, AlreadySupervised, RowVanished, Present
<1>5. OpShape' /\ DeleteDone'
  BY <1>1, <1>2, <1>4 DEF AInv, OpShape, DeleteDone, RowStaysGone
<1>6. CASE UNCHANGED sup /\ ack'[t] # "none"
  <2>1. QueueWaits' /\ CmdWaits'
    BY <1>1, <1>3, <1>6, Hands DEF AInv, QueueWaits, CmdWaits
  <2>2. CmdPhase'
    BY <1>1, <1>3, <1>6, Hands DEF AInv, CmdPhase, CmdWaits
  <2>3. StarterWaits' /\ FreeOwesNothing'
    BY <1>1, <1>2, <1>6, Hands DEF AInv, StarterWaits, FreeOwesNothing
  <2>4. ReplyIsOwed'
    BY <1>1, <1>2, <1>6 DEF AInv, ReplyIsOwed, Queued
  <2> QED
    BY <1>5, <2>1, <2>2, <2>3, <2>4 DEF AInv
<1>7. CASE \E s \in Sups : NewSupervisor(t, s)
  <2>1. PICK s \in Sups : NewSupervisor(t, s)
    BY <1>7
  <2>2. /\ UNCHANGED ack /\ sup[s].pc = "free"
        /\ sup'[s].pc = "start" /\ sup'[s].starter = t /\ sup'[s].cmd = NoTask
        /\ \A r \in Sups \ {s} : sup'[r] = sup[r]
    BY <2>1 DEF AInv, TypeOK, NewSupervisor, Unused, FreeSup
  <2>3. inbox[s] = <<>> /\ sup[s].starter = NoTask /\ sup[s].cmd = NoTask
    BY <2>2 DEF AInv, FreeOwesNothing, CmdPhase
  <2>4. QueueWaits' /\ CmdWaits'
    BY <1>1, <1>3, <2>2, <2>3, Hands DEF AInv, QueueWaits, CmdWaits
  <2>5. CmdPhase'
    BY <1>1, <1>3, <2>2, Hands DEF AInv, CmdPhase, CmdWaits
  <2>6. FreeOwesNothing'
    BY <1>1, <2>2 DEF AInv, FreeOwesNothing
  <2>7. StarterWaits'
    <3>1. \A r \in Sups : sup[r].starter # NoTask => sup[r].starter \in Tasks \ {t}
      BY <1>1, Hands DEF AInv, StarterWaits
    <3> QED
      BY <1>1, <1>2, <2>2, <2>3, <3>1, NullAssumption DEF AInv, StarterWaits
  <2>8. ReplyIsOwed'
    <3>1. ASSUME NEW u \in Tasks \ {t}, op[u].pc = "await", ack[u] = "none"
          PROVE  sup'[op[u].tx].pc # "free" /\ (u \in Queued(op[u].tx) \/ sup'[op[u].tx].cmd = u)
      BY <2>2, <3>1 DEF AInv, ReplyIsOwed, OpShape
    <3>2. ASSUME NEW u \in Tasks \ {t}, op[u].pc = "awaitSpawn", ack[u] = "none"
          PROVE  \E r \in Sups : sup'[r].starter = u
      BY <2>2, <2>3, <3>2, NullAssumption DEF AInv, ReplyIsOwed
    <3> QED
      BY <1>1, <2>2, <3>1, <3>2 DEF ReplyIsOwed, Queued
  <2> QED
    BY <1>5, <2>4, <2>5, <2>6, <2>7, <2>8 DEF AInv
<1> QED
  BY <1>1, <1>6, <1>7 DEF Spawn, AlreadySupervised, RowVanished, AInv, TypeOK

-----------------------------------------------------------------------------
(* The actions of a supervisor task.                                       *)

LEMMA SetDeadStays ==
  ASSUME NEW status, SetDead(status)
  PROVE  RowStaysGone
  BY DEF SetDead, RowStaysGone, Present

LEMMA ManualRestartStays ==
  ASSUME NEW pid, ManualRestart(pid)
  PROVE  RowStaysGone
  BY DEF ManualRestart, RowStaysGone, Present

\* A step that hands over no command and answers nobody keeps what s owes.
LEMMA SupMoves ==
  ASSUME AInv, TypeOK', RowStaysGone, UNCHANGED <<inbox, op, ack>>, NEW s \in Sups,
         NEW pc \in SupPcs, NEW verdict \in Verdicts,
         sup' = [sup EXCEPT ![s].pc = pc, ![s].verdict = verdict],
         sup[s].pc # "free", pc # "free",
         \/ sup[s].pc \notin {"kill", "sigkill", "killed", "clear"}
            /\ pc \notin {"kill", "sigkill", "killed"}
         \/ sup[s].pc \in {"kill", "sigkill"} /\ pc \in {"sigkill", "killed"}
         \/ sup[s].pc = "killed" /\ pc = "clear" /\ op[sup[s].cmd].kind \in {"stop", "kill"}
  PROVE  AInv'
<1>1. /\ \A r \in Sups \ {s} : sup'[r] = sup[r]
      /\ sup'[s].pc = pc /\ sup'[s].starter = sup[s].starter /\ sup'[s].cmd = sup[s].cmd
  BY DEF AInv, TypeOK, SupTask
<1>2. CmdPhase'
  BY <1>1 DEF AInv, CmdPhase
<1> QED
  BY <1>1, <1>2, NoReplyStep

\* The same, where the step leaves the verdict alone.
LEMMA SupMovesOn ==
  ASSUME AInv, TypeOK', RowStaysGone, UNCHANGED <<inbox, op, ack>>, NEW s \in Sups,
         NEW pc \in SupPcs, sup' = [sup EXCEPT ![s].pc = pc],
         sup[s].pc # "free", pc # "free",
         \/ sup[s].pc \notin {"kill", "sigkill", "killed", "clear"}
            /\ pc \notin {"kill", "sigkill", "killed"}
         \/ sup[s].pc \in {"kill", "sigkill"} /\ pc \in {"sigkill", "killed"}
         \/ sup[s].pc = "killed" /\ pc = "clear" /\ op[sup[s].cmd].kind \in {"stop", "kill"}
  PROVE  AInv'
<1>1. sup[s].verdict \in Verdicts /\ sup' = [sup EXCEPT ![s].pc = pc, ![s].verdict = sup[s].verdict]
  BY DEF AInv, TypeOK, SupTask
<1> QED
  BY <1>1, SupMoves

LEMMA SupStartReply ==
  ASSUME AInv, TypeOK', NEW s \in Sups, SupStart(s)
  PROVE  AInv'
<1>1. RowStaysGone
  BY DEF SupStart, RowStaysGone, Present
<1>2. CASE Return(s, {})
  BY <1>1, <1>2, ReturnStep DEF SupStart
<1>3. CASE sup' = [sup EXCEPT ![s].pc = "born"] /\ UNCHANGED <<inbox, ack>>
  BY <1>1, <1>3, SupMovesOn, PcNames DEF SupStart
<1>4. CASE sup' = [sup EXCEPT ![s].pc = "failed"] /\ UNCHANGED <<inbox, ack>>
  BY <1>1, <1>4, SupMovesOn, PcNames DEF SupStart
<1> QED
  BY <1>2, <1>3, <1>4 DEF SupStart

LEMMA NaturalExitReply ==
  ASSUME AInv, TypeOK', NEW s \in Sups, NaturalExit(s)
  PROVE  AInv'
<1>1. RowStaysGone
  BY DEF NaturalExit, RowStaysGone, Present
<1>2. CASE Return(s, {})
  BY <1>1, <1>2, ReturnStep DEF NaturalExit
<1>3. CASE Present /\ UNCHANGED <<inbox, ack>>
  <2>1. PICK clean, quick \in BOOLEAN :
          sup' = [sup EXCEPT ![s].pc = "exited", ![s].verdict = Decide(row, clean, quick)]
    BY <1>3, <1>2 DEF NaturalExit
  <2>2. Decide(row, clean, quick) \in Verdicts
    BY <1>3, DecideType DEF AInv, TypeOK, Present, NoRow
  <2> QED
    BY <1>1, <1>3, <2>1, <2>2, SupMoves, PcNames DEF NaturalExit
<1> QED
  BY <1>2, <1>3 DEF NaturalExit

LEMMA CheckShutdownReply ==
  ASSUME AInv, TypeOK', NEW s \in Sups, CheckShutdown(s)
  PROVE  AInv'
<1>1. RowStaysGone
  BY DEF CheckShutdown, RowStaysGone, Present
<1>2. CASE Return(s, {})
  BY <1>1, <1>2, ReturnStep DEF CheckShutdown
<1>3. CASE sup' = [sup EXCEPT ![s].pc = "decide"] /\ UNCHANGED <<inbox, ack>>
  BY <1>1, <1>3, SupMovesOn, PcNames DEF CheckShutdown
<1> QED
  BY <1>2, <1>3 DEF CheckShutdown

LEMMA ExitsReply ==
  ASSUME AInv, TypeOK', NEW s \in Sups, ExitStops(s) \/ ExitGivesUp(s) \/ ExitRestarts(s)
  PROVE  AInv'
<1>1. RowStaysGone
  BY SetDeadStays DEF ExitStops, ExitGivesUp, ExitRestarts, RowStaysGone, Present
<1>2. PICK pc \in {"clear", "backoff", "start"} :
        sup' = [sup EXCEPT ![s].pc = pc, ![s].verdict = NoVerdict]
  BY DEF ExitStops, ExitGivesUp, ExitRestarts
<1> QED
  BY <1>1, <1>2, SupMoves, PcNames, NoVerdictType DEF ExitStops, ExitGivesUp, ExitRestarts

LEMMA ReapReply ==
  ASSUME AInv, TypeOK', NEW s \in Sups, Reap(s)
  PROVE  AInv'
<1>1. RowStaysGone
  BY DEF Reap, RowStaysGone, Present
<1>2. PICK pc \in SupPcs : /\ pc = IF sup[s].pc = "watch" THEN "reaped" ELSE "killed"
                           /\ sup' = [sup EXCEPT ![s].pc = pc]
  BY PcNames DEF Reap
<1> QED
  BY <1>1, <1>2, SupMovesOn DEF Reap

LEMMA BackoffElapsedReply ==
  ASSUME AInv, TypeOK', NEW s \in Sups, BackoffElapsed(s)
  PROVE  AInv'
<1>1. RowStaysGone
  BY DEF BackoffElapsed, RowStaysGone, Present
<1> QED
  BY <1>1, SupMovesOn, PcNames DEF BackoffElapsed

LEMMA KillTimeoutReply ==
  ASSUME AInv, TypeOK', NEW s \in Sups, KillTimeout(s)
  PROVE  AInv'
<1>1. RowStaysGone
  BY DEF KillTimeout, RowStaysGone, Present
<1> QED
  BY <1>1, SupMovesOn, PcNames DEF KillTimeout

LEMMA ChildExitsReply ==
  ASSUME AInv, TypeOK', NEW s \in Sups, ChildExits(s)
  PROVE  AInv'
<1>1. RowStaysGone /\ CmdPhase'
  BY DEF ChildExits, RowStaysGone, Present, AInv, CmdPhase
<1> QED
  BY <1>1, NoReplyStep DEF ChildExits

LEMMA SpawnFailedReply ==
  ASSUME AInv, TypeOK', NEW s \in Sups, SpawnFailed(s)
  PROVE  AInv'
<1>1. RowStaysGone
  BY SetDeadStays DEF SpawnFailed
<1>2. /\ \A r \in Sups \ {s} : sup'[r] = sup[r]
      /\ sup'[s].starter = NoTask /\ sup'[s].cmd = sup[s].cmd
      /\ sup[s].pc = "failed" /\ sup'[s].pc = "clear"
  BY DEF AInv, TypeOK, SupTask, SpawnFailed
<1>3. CmdPhase'
  BY <1>2 DEF SpawnFailed, AInv, CmdPhase
<1> QED
  BY <1>1, <1>2, <1>3, AnswerStarterStep DEF SpawnFailed

LEMMA GoOnlineReply ==
  ASSUME AInv, TypeOK', NEW s \in Sups, GoOnline(s)
  PROVE  AInv'
<1>1. RowStaysGone
  BY DEF GoOnline, RowStaysGone, Present
<1>2. /\ \A r \in Sups \ {s} : sup'[r] = sup[r]
      /\ sup'[s].starter = NoTask /\ sup'[s].cmd = sup[s].cmd
      /\ sup[s].pc = "born" /\ sup'[s].pc = "watch"
  BY DEF AInv, TypeOK, SupTask, GoOnline
<1>3. CmdPhase'
  BY <1>2 DEF GoOnline, AInv, CmdPhase
<1> QED
  BY <1>1, <1>2, <1>3, AnswerStarterStep DEF GoOnline, Resolve

LEMMA TakeCommandReply ==
  ASSUME AInv, TypeOK', NEW s \in Sups, TakeCommand(s)
  PROVE  AInv'
<1>1. RowStaysGone
  BY DEF TakeCommand, RowStaysGone, Present
<1>2. /\ \A r \in Sups \ {s} : sup'[r] = sup[r]
      /\ sup'[s].starter = sup[s].starter /\ sup'[s].cmd = Head(inbox[s])
      /\ sup[s].pc = "watch" /\ sup'[s].pc = "kill"
  BY DEF AInv, TypeOK, SupTask, TakeCommand
<1>3. sup[s].cmd = NoTask
  BY <1>2 DEF AInv, CmdPhase
<1>4. CmdPhase'
  <2>1. Head(inbox[s]) # NoTask
    BY HeadLeaves, NullAssumption DEF TakeCommand
  <2> QED
    BY <1>2, <2>1 DEF TakeCommand, AInv, CmdPhase
<1> QED
  BY <1>1, <1>2, <1>3, <1>4, TakeStep DEF TakeCommand

LEMMA BackoffCommandReply ==
  ASSUME AInv, TypeOK', NEW s \in Sups, BackoffCommand(s)
  PROVE  AInv'
<1> DEFINE t == Head(inbox[s])
<1>1. sup[s].pc = "backoff" /\ inbox[s] # <<>> /\ UNCHANGED op
  BY DEF BackoffCommand
<1>2. sup[s].cmd = NoTask
  BY <1>1 DEF AInv, CmdPhase
<1>3. t \in Tasks /\ t \in Queued(s)
  <2>1. inbox[s] \in Seq(Tasks)
    BY DEF AInv, TypeOK
  <2>2. t = inbox[s][1] /\ 1 \in DOMAIN inbox[s] /\ t \in Tasks
    BY <1>1, <2>1
  <2> QED
    BY <2>2 DEF Queued
<1>4. CASE BackoffRestart(s, t)
  <2>1. RowStaysGone
    BY <1>4, ManualRestartStays DEF BackoffRestart
  <2>2. /\ \A r \in Sups \ {s} : sup'[r] = sup[r]
        /\ sup'[s].starter = sup[s].starter /\ sup'[s].cmd = sup[s].cmd /\ sup'[s].pc = "start"
    BY <1>4 DEF AInv, TypeOK, SupTask, BackoffRestart
  <2>3. CmdPhase'
    BY <1>1, <1>2, <2>2 DEF AInv, CmdPhase
  <2> QED
    BY <1>1, <1>4, <2>1, <2>2, <2>3, AnswerHeadStep DEF BackoffRestart
<1>5. CASE BackoffStop(s, t)
  <2>1. RowStaysGone
    BY <1>5, SetDeadStays DEF BackoffStop
  <2>2. /\ \A r \in Sups \ {s} : sup'[r] = sup[r]
        /\ sup'[s].starter = sup[s].starter /\ sup'[s].cmd = t /\ sup'[s].pc = "clear"
    BY <1>5 DEF AInv, TypeOK, SupTask, BackoffStop
  <2>3. CmdPhase'
    BY <1>1, <1>5, <2>2 DEF AInv, CmdPhase, BackoffStop
  <2> QED
    BY <1>1, <1>2, <1>5, <2>1, <2>2, <2>3, TakeStep DEF BackoffStop
<1>6. CASE BackoffDelete(s, t)
  <2>1. RowStaysGone /\ ~Present'
    BY <1>6 DEF BackoffDelete, RemoveProc, RowStaysGone, Present, NoRow
  <2> HIDE DEF t
  <2> QED
    BY <1>1, <1>3, <1>6, <2>1, ReturnStep DEF BackoffDelete
<1> QED
  BY <1>4, <1>5, <1>6 DEF BackoffCommand

LEMMA KillDoneReply ==
  ASSUME AInv, TypeOK', NEW s \in Sups, KillDone(s)
  PROVE  AInv'
<1> DEFINE t == sup[s].cmd
<1>1. sup[s].pc = "killed" /\ UNCHANGED op
  BY DEF KillDone
<1>2. t # NoTask
  BY <1>1 DEF AInv, CmdPhase
<1>3. CASE KilledForStop(s, t)
  <2>1. RowStaysGone
    BY <1>3, SetDeadStays DEF KilledForStop
  <2> QED
    BY <1>1, <1>3, <2>1, SupMovesOn, PcNames DEF KilledForStop
<1>4. CASE KilledForRestart(s, t)
  <2>1. RowStaysGone
    BY <1>4, ManualRestartStays DEF KilledForRestart
  <2>2. /\ \A r \in Sups \ {s} : sup'[r] = sup[r]
        /\ sup'[s].starter = sup[s].starter /\ sup'[s].cmd = NoTask /\ sup'[s].pc = "start"
    BY <1>4 DEF AInv, TypeOK, SupTask, KilledForRestart
  <2>3. CmdPhase'
    BY <1>1, <2>2 DEF AInv, CmdPhase
  <2> QED
    BY <1>1, <1>2, <1>4, <2>1, <2>2, <2>3, AnswerCmdStep DEF KilledForRestart
<1>5. CASE KilledForDelete(s, t)
  <2>1. RowStaysGone /\ ~Present'
    BY <1>5 DEF KilledForDelete, RemoveProc, RowStaysGone, Present, NoRow
  <2> QED
    BY <1>1, <1>5, <2>1, ReturnStep DEF KilledForDelete
<1> QED
  BY <1>3, <1>4, <1>5 DEF KillDone

LEMMA ClearTxReply ==
  ASSUME AInv, TypeOK', NEW s \in Sups, ClearTx(s)
  PROVE  AInv'
<1>1. RowStaysGone
  BY DEF ClearTx, RowStaysGone, Present
<1>2. \A t \in {sup[s].cmd} \cap Tasks : op[t].kind # "delete"
  BY NullAssumption DEF ClearTx, AInv, CmdPhase
<1> QED
  BY <1>1, <1>2, ReturnStep DEF ClearTx

LEMMA SendersGoneReply ==
  ASSUME AInv, TypeOK', NEW s \in Sups, SendersGone(s)
  PROVE  AInv'
<1>1. RowStaysGone
  BY DEF SendersGone, RowStaysGone, Present
<1> QED
  BY <1>1, ReturnStep DEF SendersGone

-----------------------------------------------------------------------------
(* The actions of an operation.                                            *)

LEMMA FinishedOp ==
  ASSUME TypeOK, NEW t \in Tasks, Finish(t)
  PROVE  /\ op'[t].pc \in {"idle", "drained"} /\ op'[t].kind # "delete"
         /\ \A u \in Tasks \ {t} : op'[u] = op[u]
  BY DEF TypeOK, Operation, Finish, IdleOp

LEMMA MovedOp ==
  ASSUME TypeOK, NEW t \in Tasks, NEW pc \in OpPcs, Goto(t, pc)
  PROVE  /\ op'[t].pc = pc /\ op'[t].kind = op[t].kind
         /\ \A u \in Tasks \ {t} : op'[u] = op[u]
  BY DEF TypeOK, Operation, Goto

\* The steps between the waits of an operation.
LEMMA StopFlipReply ==
  ASSUME AInv, TypeOK', NEW t \in Tasks, StopFlip(t)
  PROVE  AInv'
<1>1. RowStaysGone
  BY DEF StopFlip, RowStaysGone, Present
<1>2. op[t].kind # "delete" /\ op[t].pc = "stopFlip"
  BY DEF AInv, DeleteDone, StopFlip, Waiting
<1>3. CASE Finish(t)
  BY <1>1, <1>2, <1>3, FinishedOp, TaskStep DEF StopFlip, AInv
<1>4. CASE row.cmdTx # NoSup /\ op' = [op EXCEPT ![t].pc = "send", ![t].tx = row.cmdTx] /\ Present
  <2>1. /\ op'[t].pc = "send" /\ op'[t].tx = row.cmdTx /\ op'[t].kind = op[t].kind
        /\ \A u \in Tasks \ {t} : op'[u] = op[u]
    BY <1>4 DEF AInv, TypeOK, Operation
  <2>2. row.cmdTx \in Sups
    BY <1>4 DEF AInv, TypeOK, Row, NoRow
  <2> QED
    BY <1>1, <1>2, <2>1, <2>2, TaskStep DEF StopFlip
<1> QED
  BY <1>3, <1>4 DEF StopFlip

LEMMA RestartReadReply ==
  ASSUME AInv, TypeOK', NEW t \in Tasks, RestartRead(t)
  PROVE  AInv'
<1>1. RowStaysGone
  BY DEF RestartRead, RowStaysGone, Present
<1>2. op[t].kind # "delete" /\ op[t].pc = "restartRead"
  BY DEF AInv, DeleteDone, RestartRead, Waiting
<1>3. CASE Finish(t)
  BY <1>1, <1>2, <1>3, FinishedOp, TaskStep DEF RestartRead, AInv
<1>4. CASE Present
  <2>1. /\ op'[t].pc = (IF row.cmdTx = NoSup THEN "resetState" ELSE "restartFlip")
        /\ op'[t].tx = row.cmdTx /\ op'[t].kind = op[t].kind
        /\ \A u \in Tasks \ {t} : op'[u] = op[u]
    BY <1>4 DEF AInv, TypeOK, Operation, RestartRead
  <2>2. row.cmdTx \in Sups \cup {NoSup}
    BY <1>4 DEF AInv, TypeOK, Row, NoRow
  <2> QED
    BY <1>1, <1>2, <2>1, <2>2, TaskStep DEF RestartRead
<1> QED
  BY <1>3, <1>4 DEF RestartRead

LEMMA RestartFlipReply ==
  ASSUME AInv, TypeOK', NEW t \in Tasks, RestartFlip(t)
  PROVE  AInv'
<1>1. RowStaysGone
  BY DEF RestartFlip, RowStaysGone, Present, AInv, TypeOK, Row, NoRow
<1>2. op[t].kind # "delete" /\ op[t].pc = "restartFlip" /\ op[t].tx \in Sups
  BY DEF AInv, DeleteDone, OpShape, RestartFlip, Waiting
<1>3. /\ op'[t].pc = "send" /\ op'[t].tx = op[t].tx /\ op'[t].kind = op[t].kind
      /\ \A u \in Tasks \ {t} : op'[u] = op[u]
  BY DEF AInv, TypeOK, Operation, RestartFlip
<1> QED
  BY <1>1, <1>2, <1>3, TaskStep DEF RestartFlip

LEMMA DeleteFlipReply ==
  ASSUME AInv, TypeOK', NEW t \in Tasks, DeleteFlip(t)
  PROVE  AInv'
<1>1. RowStaysGone
  BY DEF DeleteFlip, RowStaysGone, Present
<1>2. op[t].pc = "deleteFlip"
  BY DEF DeleteFlip, Waiting
<1>3. CASE Finish(t)
  BY <1>1, <1>2, <1>3, FinishedOp, TaskStep DEF DeleteFlip, AInv
<1>4. CASE Goto(t, "remove")
  BY <1>1, <1>2, <1>4, MovedOp, OpPcNames, TaskStep DEF DeleteFlip, AInv
<1>5. CASE row.cmdTx # NoSup /\ op' = [op EXCEPT ![t].pc = "send", ![t].tx = row.cmdTx] /\ Present
  <2>1. /\ op'[t].pc = "send" /\ op'[t].tx = row.cmdTx /\ op'[t].kind = op[t].kind
        /\ \A u \in Tasks \ {t} : op'[u] = op[u]
    BY <1>5 DEF AInv, TypeOK, Operation
  <2>2. row.cmdTx \in Sups
    BY <1>5 DEF AInv, TypeOK, Row, NoRow
  <2> QED
    BY <1>1, <1>2, <2>1, <2>2, TaskStep DEF DeleteFlip
<1> QED
  BY <1>3, <1>4, <1>5 DEF DeleteFlip

LEMMA SendReply ==
  ASSUME AInv, TypeOK', NEW t \in Tasks, Send(t)
  PROVE  AInv'
<1>1. RowStaysGone
  BY DEF Send, RowStaysGone, Present
<1>2. op[t].pc = "send" /\ op[t].tx \in Sups
  BY DEF AInv, OpShape, Send, Waiting
<1>3. CASE Goto(t, Fallback(t)) /\ UNCHANGED inbox
  <2>1. /\ Fallback(t) \in OpPcs /\ Fallback(t) \in {"settle", "launchGate", "remove"}
        /\ op[t].kind = "delete" => Fallback(t) = "remove"
    BY OpPcNames DEF Fallback
  <2>2. /\ op'[t].pc = Fallback(t) /\ op'[t].kind = op[t].kind
        /\ \A u \in Tasks \ {t} : op'[u] = op[u]
    BY <1>3, <2>1, MovedOp DEF AInv
  <2> QED
    BY <1>1, <1>2, <1>3, <2>1, <2>2, TaskStep DEF Send
<1>4. CASE sup[op[t].tx].pc # "free" /\ inbox' = [inbox EXCEPT ![op[t].tx] = Append(@, t)]
           /\ op' = [op EXCEPT ![t].pc = "await"]
  BY <1>1, <1>2, <1>4, QueuedStep DEF Send
<1> QED
  BY <1>3, <1>4 DEF Send

LEMMA AwaitReply ==
  ASSUME AInv, TypeOK', NEW t \in Tasks, Await(t)
  PROVE  AInv'
<1>1. RowStaysGone
  BY DEF Await, RowStaysGone, Present
<1>2. CASE Finish(t)
  BY <1>1, <1>2, FinishedOp, CollectStep DEF Await, AInv
<1>3. CASE Goto(t, Fallback(t))
  <2>1. /\ Fallback(t) \in OpPcs /\ Fallback(t) \in {"settle", "launchGate", "remove"}
        /\ op[t].kind = "delete" => Fallback(t) = "remove"
    BY OpPcNames DEF Fallback
  <2>2. /\ op'[t].pc = Fallback(t) /\ op'[t].kind = op[t].kind
        /\ \A u \in Tasks \ {t} : op'[u] = op[u]
    BY <1>3, <2>1, MovedOp DEF AInv
  <2> QED
    BY <1>1, <2>1, <2>2, CollectStep DEF Await
<1> QED
  BY <1>2, <1>3 DEF Await

LEMMA AwaitSpawnReply ==
  ASSUME AInv, TypeOK', NEW t \in Tasks, AwaitSpawn(t)
  PROVE  AInv'
<1>1. RowStaysGone
  BY DEF AwaitSpawn, RowStaysGone, Present
<1>2. op[t].kind # "delete"
  BY DEF AInv, DeleteDone, AwaitSpawn, Waiting
<1>3. CASE Finish(t)
  BY <1>1, <1>3, FinishedOp, CollectStep DEF AwaitSpawn, AInv
<1>4. CASE Goto(t, "arm")
  BY <1>1, <1>2, <1>4, MovedOp, OpPcNames, CollectStep DEF AwaitSpawn, AInv
<1> QED
  BY <1>3, <1>4 DEF AwaitSpawn

\* The others do not wait, before or after, and hold no channel.
LEMMA FinishReply ==
  ASSUME AInv, TypeOK', NEW t \in Tasks, Settle(t) \/ Remove(t) \/ Arm(t)
  PROVE  AInv'
<1>1. RowStaysGone
  BY DEF Settle, Remove, RemoveProc, Arm, RowStaysGone, Present, AInv, TypeOK, Row, NoRow
<1>2. Finish(t) /\ op[t].pc \in {"settle", "remove", "arm"} /\ UNCHANGED <<sup, inbox, ack>>
  BY DEF Settle, Remove, Arm, Waiting
<1> QED
  BY <1>1, <1>2, FinishedOp, TaskStep DEF AInv

LEMMA MoveReply ==
  ASSUME AInv, TypeOK', NEW t \in Tasks,
         ResetState(t) \/ LaunchGate(t) \/ LaunchCheck(t) \/ ShutdownSnapshot(t)
  PROVE  AInv'
<1>1. RowStaysGone
  BY DEF ResetState, LaunchGate, LaunchCheck, ShutdownSnapshot, RowStaysGone, Present,
         AInv, TypeOK, Row, NoRow
<1>2. /\ op[t].pc \in {"resetState", "launchGate", "launchCheck", "snapshot"} /\ op[t].kind # "delete"
      /\ UNCHANGED <<sup, inbox, ack>>
  BY DEF AInv, DeleteDone, ResetState, LaunchGate, LaunchCheck, ShutdownSnapshot, Waiting
<1>3. CASE Finish(t)
  BY <1>1, <1>2, <1>3, FinishedOp, TaskStep DEF AInv
<1>4. CASE \E pc \in {"launchGate", "launchCheck", "spawn", "stopFlip", "drained"} : Goto(t, pc)
  BY <1>1, <1>2, <1>4, MovedOp, OpPcNames, TaskStep DEF AInv
<1> QED
  BY <1>3, <1>4 DEF ResetState, LaunchGate, LaunchCheck, ShutdownSnapshot

LEMMA BeginReply ==
  ASSUME AInv, TypeOK', NEW t \in Tasks, BeginShutdown(t) \/ \E kind \in Kinds : Begin(t, kind)
  PROVE  AInv'
<1>1. RowStaysGone
  BY DEF BeginShutdown, Begin, RowStaysGone, Present
<1>2. /\ op[t].pc = "idle" /\ UNCHANGED <<sup, inbox, ack>>
      /\ \A u \in Tasks \ {t} : op'[u] = op[u]
      /\ op'[t].pc \in {"snapshot", "stopFlip", "restartRead", "deleteFlip"}
      /\ op'[t].kind = "delete" => op'[t].pc = "deleteFlip"
  BY KindsAssumption DEF Operations, AInv, TypeOK, BeginShutdown, Begin, Waiting
<1> QED
  BY <1>1, <1>2, TaskStep

LEMMA ExitReply ==
  ASSUME AInv, TypeOK', NEW t \in Tasks, Exit(t)
  PROVE  AInv'
<1>1. /\ \A s \in Sups : sup'[s] = FreeSup /\ inbox'[s] = <<>>
      /\ \A u \in Tasks : op'[u] = IdleOp /\ ack'[u] = "none"
  BY DEF Exit
<1>2. QueueWaits' /\ CmdWaits' /\ CmdPhase' /\ StarterWaits' /\ FreeOwesNothing'
  BY <1>1 DEF QueueWaits, CmdWaits, CmdPhase, StarterWaits, FreeOwesNothing, FreeSup
<1>3. OpShape' /\ DeleteDone' /\ ReplyIsOwed'
  BY <1>1 DEF OpShape, DeleteDone, ReplyIsOwed, IdleOp
<1> QED
  BY <1>2, <1>3 DEF AInv

LEMMA ResetCountersReply ==
  ASSUME AInv, TypeOK', ResetCounters
  PROVE  AInv'
<1>1. RowStaysGone /\ CmdPhase'
  BY DEF ResetCounters, RowStaysGone, Present, AInv, CmdPhase
<1> QED
  BY <1>1, NoReplyStep DEF ResetCounters

-----------------------------------------------------------------------------
(* Both properties of acknowledgements.                                    *)

LEMMA InitReply ==
  ASSUME Init
  PROVE  AInv
<1>1. /\ \A s \in Sups : sup[s] = FreeSup /\ inbox[s] = <<>>
      /\ \A t \in Tasks : ack[t] = "none" /\ op[t].pc \in {"idle", "launchGate"} /\ op[t].kind # "delete"
  BY DEF Init, IdleOp
<1>2. QueueWaits /\ CmdWaits /\ CmdPhase /\ StarterWaits /\ FreeOwesNothing
  BY <1>1 DEF QueueWaits, CmdWaits, CmdPhase, StarterWaits, FreeOwesNothing, FreeSup
<1>3. OpShape /\ DeleteDone /\ ReplyIsOwed
  BY <1>1 DEF OpShape, DeleteDone, ReplyIsOwed
<1> QED
  BY <1>2, <1>3, InitType DEF AInv

LEMMA StepReply ==
  ASSUME AInv, [Next]_vars
  PROVE  AInv'
<1>1. TypeOK'
  BY StepType DEF AInv
<1>2. ASSUME NEW s \in Sups, SupStep(s) \/ ChildExits(s)
      PROVE  AInv'
  BY <1>1, <1>2, SupStartReply, SpawnFailedReply, GoOnlineReply, ReapReply, NaturalExitReply,
     CheckShutdownReply, ExitsReply, BackoffElapsedReply, BackoffCommandReply, TakeCommandReply,
     KillTimeoutReply, KillDoneReply, ClearTxReply, SendersGoneReply, ChildExitsReply
  DEF SupStep, Receive
<1>3. ASSUME NEW t \in Tasks, Continue(t)
      PROVE  AInv'
  BY <1>1, <1>3, StopFlipReply, RestartReadReply, RestartFlipReply, DeleteFlipReply, SendReply,
     AwaitReply, SpawnWaits, AwaitSpawnReply, FinishReply, MoveReply
  DEF Continue
<1>4. ASSUME NEW t \in Tasks,
             BeginShutdown(t) \/ ShutdownSnapshot(t) \/ Exit(t) \/ \E kind \in Kinds : Begin(t, kind)
      PROVE  AInv'
  BY <1>1, <1>4, BeginReply, MoveReply, ExitReply
<1>5. CASE UNCHANGED vars
  <2>1. RowStaysGone /\ CmdPhase'
    BY <1>5 DEF vars, RowStaysGone, Present, AInv, CmdPhase
  <2> QED
    BY <1>1, <1>5, <2>1, NoReplyStep DEF vars
<1> QED
  BY <1>1, <1>2, <1>3, <1>4, <1>5, ResetCountersReply DEF Next

\* A delete ends where it finds or leaves no row, or is told that there is none.
LEMMA DeleteEnds ==
  ASSUME AInv, Next, NEW t \in Tasks, op[t].kind = "delete", op'[t].kind # "delete"
  PROVE  ~Present'
<1>1. /\ op[t].pc \in {"deleteFlip", "send", "await", "remove"}
      /\ op[t].pc = "await" /\ ack[t] = "ok" => ~Present
  BY DEF AInv, DeleteDone
<1>2. ASSUME NEW u \in Tasks, Continue(u)
      PROVE  ~Present'
  <2>1. CASE u = t
    <3>1. DeleteFlip(t) \/ Send(t) \/ Await(t) \/ Remove(t)
      BY <1>1, <1>2, <2>1
      DEF Continue, Waiting, StopFlip, RestartRead, RestartFlip, ResetState, Settle, LaunchGate,
          LaunchCheck, Spawn, AwaitSpawn, Arm
    <3>2. CASE DeleteFlip(t)
      BY <3>2 DEF DeleteFlip, Goto, AInv, TypeOK, Operation, Present
    <3>3. CASE Send(t)
      BY <3>3 DEF Send, Goto, AInv, TypeOK, Operation
    <3>4. CASE Await(t)
      BY <1>1, <3>4 DEF Await, Goto, AInv, TypeOK, Operation, Waiting, Present
    <3>5. CASE Remove(t)
      BY <3>5 DEF Remove, RemoveProc, NoRow, Present
    <3> QED
      BY <3>1, <3>2, <3>3, <3>4, <3>5
  <2>2. CASE u # t
    <3>1. op'[t] = op[t]
      BY <1>2, <2>2
      DEF AInv, TypeOK, Continue, StopFlip, RestartRead, RestartFlip, ResetState, DeleteFlip, Send, Await,
          Settle, Remove, LaunchGate, LaunchCheck, Spawn, AwaitSpawn, Arm, Goto, Finish
    <3> QED
      BY <3>1
  <2> QED
    BY <2>1, <2>2
<1>3. ASSUME NEW u \in Tasks,
             BeginShutdown(u) \/ ShutdownSnapshot(u) \/ Exit(u) \/ \E kind \in Kinds : Begin(u, kind)
      PROVE  ~Present'
  <2>1. CASE Exit(u)
    BY <2>1 DEF Exit, NoRow, Present
  <2>2. CASE BeginShutdown(u) \/ ShutdownSnapshot(u) \/ \E kind \in Kinds : Begin(u, kind)
    BY <1>1, <2>2
    DEF AInv, TypeOK, Operation, BeginShutdown, ShutdownSnapshot, Begin, Goto, Waiting
  <2> QED
    BY <1>3, <2>1, <2>2
<1>4. ASSUME NEW s \in Sups, SupStep(s) \/ ChildExits(s)
      PROVE  UNCHANGED op
  BY <1>4
  DEF SupStep, Receive, ChildExits, SupStart, SpawnFailed, GoOnline, Reap, NaturalExit, CheckShutdown,
      ExitStops, ExitGivesUp, ExitRestarts, BackoffElapsed, TakeCommand, BackoffCommand, KillTimeout,
      KillDone, ClearTx, SendersGone
<1> QED
  BY <1>2, <1>3, <1>4 DEF Next, ResetCounters

\* Whoever answers or drops what, a task that waits is owed an answer: its
\* command is queued or in the hands of a supervisor task that has not returned,
\* and each such command belongs to a task that waits for it.
THEOREM ReplyIsOwedAlways == Spec => []ReplyIsOwed
<1>1. Init => AInv
  BY InitReply
<1>2. AInv /\ [Next]_vars => AInv'
  BY StepReply
<1>3. AInv => ReplyIsOwed
  BY DEF AInv
<1> QED
  BY <1>1, <1>2, <1>3, PTL DEF Spec

\* However deletes, restarts and exits race, a delete that returns leaves no row.
THEOREM DeleteSticksAlways == Spec => DeleteSticks
<1>1. Init => AInv
  BY InitReply
<1>2. AInv /\ [Next]_vars => AInv'
  BY StepReply
<1>3. AInv /\ [Next]_vars =>
        [\A t \in Tasks : op[t].kind = "delete" /\ op'[t].kind # "delete" => ~Present']_vars
  BY DeleteEnds DEF vars
<1> QED
  BY <1>1, <1>2, <1>3, PTL DEF Spec, DeleteSticks

-----------------------------------------------------------------------------
(* The way of an operation.                                                *)

\* The operation of t goes to pc with the channel tx, or is over.
Moved(t, pc, tx) == op'[t] = [kind |-> op[t].kind, pc |-> pc, tx |-> tx]
Ended(t) == op'[t] = IF op[t].kind = "kill" THEN [kind |-> "kill", pc |-> "drained", tx |-> NoSup]
                                            ELSE IdleOp

\* Where a step of t's own takes its operation, and what it has seen then.
Begun(t) ==
  /\ op[t].pc = "idle"
  /\ \/ op'[t] = [kind |-> "stop", pc |-> "stopFlip", tx |-> NoSup]
     \/ op'[t] = [kind |-> "restart", pc |-> "restartRead", tx |-> NoSup]
     \/ op'[t] = [kind |-> "delete", pc |-> "deleteFlip", tx |-> NoSup]
     \/ op'[t] = [kind |-> "kill", pc |-> "snapshot", tx |-> NoSup] /\ daemon' = "draining"

Looks(t) ==
  \/ op[t].pc \in {"stopFlip", "restartRead", "deleteFlip"} /\ ~Present /\ Ended(t)
  \/ op[t].pc = "snapshot" /\ (\/ Present /\ Moved(t, "stopFlip", NoSup)
                               \/ ~Present /\ Moved(t, "drained", NoSup))
  \/ /\ Present /\ row.cmdTx = NoSup
     /\ \/ op[t].pc = "stopFlip" /\ Ended(t)
        \/ op[t].pc = "restartRead" /\ Moved(t, "resetState", NoSup)
        \/ op[t].pc = "deleteFlip" /\ Moved(t, "remove", NoSup)
  \/ /\ Present /\ row.cmdTx # NoSup
     /\ \/ op[t].pc \in {"stopFlip", "deleteFlip"} /\ Moved(t, "send", row.cmdTx)
        \/ op[t].pc = "restartRead" /\ Moved(t, "restartFlip", row.cmdTx)

Commands(t) ==
  \/ op[t].pc = "restartFlip" /\ Moved(t, "send", op[t].tx)
  \/ op[t].pc = "send" /\ (\/ sup[op[t].tx].pc # "free" /\ Moved(t, "await", op[t].tx)
                           \/ sup[op[t].tx].pc = "free" /\ Moved(t, Fallback(t), NoSup))
  \/ op[t].pc = "await" /\ ack[t] # "none"
       /\ IF ack[t] = "ok" /\ op[t].kind \in {"restart", "delete"}
          THEN Ended(t) ELSE Moved(t, Fallback(t), NoSup)
  \/ op[t].pc \in {"settle", "remove"} /\ Ended(t)

Launches(t) ==
  \/ op[t].pc = "resetState" /\ Moved(t, "launchGate", NoSup)
  \/ op[t].pc = "launchGate" /\ IF daemon = "draining" THEN Ended(t) ELSE Moved(t, "launchCheck", NoSup)
  \/ op[t].pc = "launchCheck" /\ IF Present /\ row.cmdTx = NoSup THEN Moved(t, "spawn", NoSup) ELSE Ended(t)
  \/ op[t].pc = "spawn" /\ Moved(t, "awaitSpawn", NoSup)
  \/ op[t].pc = "awaitSpawn" /\ ack[t] # "none" /\ (Ended(t) \/ (ack[t] = "ok" /\ Moved(t, "arm", NoSup)))
  \/ op[t].pc = "arm" /\ Ended(t)

Transition(t) == Begun(t) \/ Looks(t) \/ Commands(t) \/ Launches(t)

OthersStay(t) == \A u \in Tasks \ {t} : op'[u] = op[u]

LEMMA FinishIs ==
  ASSUME TypeOK, NEW t \in Tasks, Finish(t)
  PROVE  Ended(t) /\ OthersStay(t)
<1> DEFINE o == op[t]
<1>1. o \in Operation
  BY DEF TypeOK
<1>2. /\ op'[t] = IF o.kind = "kill" THEN [o EXCEPT !.pc = "drained", !.tx = NoSup] ELSE IdleOp
      /\ OthersStay(t)
  BY DEF TypeOK, Finish, OthersStay
<1> HIDE DEF o
<1>3. [o EXCEPT !.pc = "drained", !.tx = NoSup] = [kind |-> o.kind, pc |-> "drained", tx |-> NoSup]
  <2> DEFINE p == [o EXCEPT !.pc = "drained", !.tx = NoSup]
  <2>1. p \in Operation /\ p.kind = o.kind /\ p.pc = "drained" /\ p.tx = NoSup
    BY <1>1, OpPcNames DEF Operation
  <2> HIDE DEF p
  <2>2. p = [kind |-> o.kind, pc |-> "drained", tx |-> NoSup]
    BY <2>1 DEF Operation
  <2> QED
    BY <2>2 DEF p
<1> QED
  BY <1>2, <1>3 DEF Ended, o

LEMMA GotoIs ==
  ASSUME TypeOK, NEW t \in Tasks, NEW pc, Goto(t, pc)
  PROVE  Moved(t, pc, NoSup) /\ OthersStay(t)
  BY DEF TypeOK, Operation, Goto, Moved, OthersStay

LEMMA MovesWith ==
  ASSUME TypeOK, NEW t \in Tasks, NEW pc, NEW tx, op' = [op EXCEPT ![t].pc = pc, ![t].tx = tx]
  PROVE  Moved(t, pc, tx) /\ OthersStay(t)
  BY DEF TypeOK, Operation, Moved, OthersStay

LEMMA MovesOn ==
  ASSUME TypeOK, NEW t \in Tasks, NEW pc, op' = [op EXCEPT ![t].pc = pc]
  PROVE  Moved(t, pc, op[t].tx) /\ OthersStay(t)
  BY DEF TypeOK, Operation, Moved, OthersStay

LEMMA BeginsSo ==
  ASSUME TypeOK, NEW t \in Tasks, BeginShutdown(t) \/ \E kind \in Kinds : Begin(t, kind)
  PROVE  Begun(t) /\ OthersStay(t)
<1>1. CASE BeginShutdown(t)
  BY <1>1 DEF BeginShutdown, TypeOK, Begun, OthersStay, Waiting
<1>2. CASE \E kind \in Kinds : Begin(t, kind)
  BY <1>2, KindsAssumption DEF Begin, TypeOK, Begun, OthersStay, Waiting, Operations
<1> QED
  BY <1>1, <1>2

LEMMA LooksSo ==
  ASSUME TypeOK, NEW t \in Tasks,
         StopFlip(t) \/ RestartRead(t) \/ DeleteFlip(t) \/ ShutdownSnapshot(t)
  PROVE  Looks(t) /\ OthersStay(t)
<1>1. CASE StopFlip(t)
  BY <1>1, FinishIs, MovesWith DEF StopFlip, Looks, Waiting
<1>2. CASE RestartRead(t)
  <2>1. CASE Present
    <3>1. op' = [op EXCEPT ![t].pc = IF row.cmdTx = NoSup THEN "resetState" ELSE "restartFlip",
                           ![t].tx = row.cmdTx]
      BY <1>2, <2>1 DEF RestartRead
    <3>2. Moved(t, IF row.cmdTx = NoSup THEN "resetState" ELSE "restartFlip", row.cmdTx) /\ OthersStay(t)
      BY <3>1, MovesWith
    <3> QED
      BY <1>2, <2>1, <3>2 DEF RestartRead, Looks, Waiting
  <2>2. CASE ~Present
    BY <1>2, <2>2, FinishIs DEF RestartRead, Looks, Waiting
  <2> QED
    BY <2>1, <2>2
<1>3. CASE DeleteFlip(t)
  BY <1>3, FinishIs, GotoIs, MovesWith DEF DeleteFlip, Looks, Waiting
<1>4. CASE ShutdownSnapshot(t)
  BY <1>4, GotoIs DEF ShutdownSnapshot, Looks, Waiting
<1> QED
  BY <1>1, <1>2, <1>3, <1>4

LEMMA CommandsSo ==
  ASSUME TypeOK, NEW t \in Tasks,
         RestartFlip(t) \/ Send(t) \/ Await(t) \/ Settle(t) \/ Remove(t)
  PROVE  Commands(t) /\ OthersStay(t)
<1>1. CASE RestartFlip(t)
  BY <1>1, MovesOn DEF RestartFlip, Commands, Waiting
<1>2. CASE Send(t)
  BY <1>2, MovesOn, GotoIs DEF Send, Commands, Waiting
<1>3. CASE Await(t)
  BY <1>3, FinishIs, GotoIs DEF Await, Commands, Waiting
<1>4. CASE Settle(t) \/ Remove(t)
  BY <1>4, FinishIs DEF Settle, Remove, Commands, Waiting
<1> QED
  BY <1>1, <1>2, <1>3, <1>4

LEMMA LaunchesSo ==
  ASSUME TypeOK, NEW t \in Tasks,
         ResetState(t) \/ LaunchGate(t) \/ LaunchCheck(t) \/ Spawn(t) \/ AwaitSpawn(t) \/ Arm(t)
  PROVE  Launches(t) /\ OthersStay(t)
<1>1. CASE ResetState(t) \/ Spawn(t)
  BY <1>1, GotoIs DEF ResetState, Spawn, Launches, Waiting
<1>2. CASE LaunchGate(t)
  BY <1>2, FinishIs, GotoIs DEF LaunchGate, Launches, Waiting
<1>3. CASE LaunchCheck(t)
  BY <1>3, FinishIs, GotoIs DEF LaunchCheck, Launches, Waiting
<1>4. CASE AwaitSpawn(t)
  <2>1. \/ ack[t] = "ok" /\ Goto(t, "arm")
        \/ Finish(t)
    BY <1>4 DEF AwaitSpawn
  <2>2. op[t].pc = "awaitSpawn" /\ ack[t] # "none"
    BY <1>4 DEF AwaitSpawn, Waiting
  <2>3. OthersStay(t) /\ (Ended(t) \/ (ack[t] = "ok" /\ Moved(t, "arm", NoSup)))
    BY <2>1, FinishIs, GotoIs
  <2> QED
    BY <2>2, <2>3 DEF Launches
<1>5. CASE Arm(t)
  BY <1>5, FinishIs DEF Arm, Launches, Waiting
<1> QED
  BY <1>1, <1>2, <1>3, <1>4, <1>5

\* A step is one operation's, a supervisor's, of neither, or the end of the daemon.
TaskActs(t) == Continue(t) \/ BeginShutdown(t) \/ ShutdownSnapshot(t) \/ \E kind \in Kinds : Begin(t, kind)

LEMMA TaskActsSo ==
  ASSUME TypeOK, NEW t \in Tasks, TaskActs(t)
  PROVE  /\ Transition(t) /\ OthersStay(t)
         /\ UNCHANGED child /\ (UNCHANGED sup \/ Spawn(t))
         /\ daemon' \in {daemon, "draining"}
<1>1. Transition(t) /\ OthersStay(t)
  BY BeginsSo, LooksSo, CommandsSo, LaunchesSo DEF TaskActs, Continue, Transition
<1>2. UNCHANGED child /\ (UNCHANGED sup \/ Spawn(t)) /\ daemon' \in {daemon, "draining"}
  BY DEF TaskActs, Continue, StopFlip, RestartRead, RestartFlip, ResetState, DeleteFlip, Send, Await,
         Settle, Remove, LaunchGate, LaunchCheck, Spawn, AwaitSpawn, Arm, BeginShutdown, ShutdownSnapshot,
         Begin
<1> QED
  BY <1>1, <1>2

LEMMA SupActsSo ==
  ASSUME TypeOK, NEW s \in Sups, SupStep(s) \/ ChildExits(s)
  PROVE  /\ UNCHANGED <<op, daemon>>
         /\ sup[s].pc = "free" => sup'[s].pc = "free"
         /\ \A r \in Sups \ {s} : sup'[r] = sup[r]
  BY DEF TypeOK, SupStep, Receive, ChildExits, SupStart, SpawnFailed, GoOnline, Reap, NaturalExit,
      CheckShutdown, ExitStops, ExitGivesUp, ExitRestarts, BackoffElapsed, TakeCommand, BackoffCommand,
      BackoffRestart, BackoffStop, BackoffDelete, KillTimeout, KillDone, KilledForStop, KilledForRestart,
      KilledForDelete, ClearTx, SendersGone, Return, FreeSup

LEMMA WhoActs ==
  ASSUME Next
  PROVE  \/ \E t \in Tasks : TaskActs(t) \/ Exit(t)
         \/ \E s \in Sups : SupStep(s) \/ ChildExits(s)
         \/ ResetCounters
  BY DEF Next, TaskActs

-----------------------------------------------------------------------------
(* Where each kind of operation can be, and who supervises.                *)

LaunchPcs == {"launchGate", "launchCheck", "spawn", "awaitSpawn", "arm"}

\* The places that belong to one kind or two, and where a channel is held.
OpKind ==
  \A t \in Tasks :
    /\ op[t].pc = "idle" <=> op[t].kind = "none"
    /\ op[t].pc \in {"restartRead", "restartFlip", "resetState"} => op[t].kind = "restart"
    /\ op[t].pc \in LaunchPcs => Starts(t)
    /\ op[t].pc \in {"stopFlip", "settle"} => op[t].kind \in {"stop", "kill"}
    /\ op[t].pc \in {"deleteFlip", "remove"} => op[t].kind = "delete"
    /\ op[t].pc \in {"snapshot", "drained"} => op[t].kind = "kill"
    /\ op[t].pc \in {"send", "await"} => op[t].kind \in Operations
    /\ op[t].pc \notin {"restartFlip", "send", "await"} => op[t].tx = NoSup
    /\ op[t].kind = "kill" => daemon = "draining"

\* Until the daemon drains, the channel that a row holds has a receiver.
Supervised ==
  daemon = "up" /\ Present /\ row.cmdTx # NoSup => sup[row.cmdTx].pc # "free"

\* A caller is answered when the supervisor of its channel leaves, but for a
\* restart that it has done.
Answered ==
  \A t \in Tasks : op[t].pc = "await" /\ ack[t] # "none" =>
    (op[t].kind = "restart" /\ ack[t] = "ok") \/ sup[op[t].tx].pc = "free"

\* A row whose last supervisor has gone, or has only its channel left to clear,
\* is down or about to be called so.
RestStatus ==
  /\ daemon = "up" /\ Present
  /\ \A s \in Sups : sup[s].pc \in {"free", "clear"}
  => row.status \in {"stopping", "stopped", "errored"}

BInv == IInv /\ AInv /\ OpKind

LEMMA TransitionKind ==
  ASSUME TypeOK, OpKind, NEW t \in Tasks, Transition(t), daemon' \in {daemon, "draining"}
  PROVE  /\ op'[t].pc = "idle" <=> op'[t].kind = "none"
         /\ op'[t].pc \in {"restartRead", "restartFlip", "resetState"} => op'[t].kind = "restart"
         /\ op'[t].pc \in LaunchPcs => op'[t].kind \in {"start", "restart"}
         /\ op'[t].pc \in {"stopFlip", "settle"} => op'[t].kind \in {"stop", "kill"}
         /\ op'[t].pc \in {"deleteFlip", "remove"} => op'[t].kind = "delete"
         /\ op'[t].pc \in {"snapshot", "drained"} => op'[t].kind = "kill"
         /\ op'[t].pc \in {"send", "await"} => op'[t].kind \in Operations
         /\ op'[t].pc \notin {"restartFlip", "send", "await"} => op'[t].tx = NoSup
         /\ op'[t].kind = "kill" => daemon' = "draining"
<1>1. CASE Begun(t)
  BY <1>1 DEF Begun, OpKind, LaunchPcs
<1>2. CASE Looks(t)
  BY <1>2 DEF Looks, Moved, Ended, IdleOp, OpKind, LaunchPcs, Operations
<1>3. CASE Commands(t)
  BY <1>3 DEF Commands, Moved, Ended, IdleOp, OpKind, LaunchPcs, Operations, Fallback, Starts
<1>4. CASE Launches(t)
  BY <1>4 DEF Launches, Moved, Ended, IdleOp, OpKind, LaunchPcs, Starts
<1> QED
  BY <1>1, <1>2, <1>3, <1>4 DEF Transition

LEMMA KindStep ==
  ASSUME TypeOK, OpKind, Next
  PROVE  OpKind'
<1>1. ASSUME NEW t \in Tasks, TaskActs(t)
      PROVE  OpKind'
  <2>1. Transition(t) /\ OthersStay(t) /\ daemon' \in {daemon, "draining"}
    BY <1>1, TaskActsSo
  <2>2. \A u \in Tasks \ {t} : op'[u] = op[u]
    BY <2>1 DEF OthersStay
  <2> QED
    BY <2>1, <2>2, TransitionKind DEF OpKind, Starts
<1>2. ASSUME NEW t \in Tasks, Exit(t)
      PROVE  OpKind'
  BY <1>2 DEF Exit, IdleOp, OpKind, LaunchPcs
<1>3. ASSUME UNCHANGED <<op, daemon>>
      PROVE  OpKind'
  BY <1>3 DEF OpKind, Starts
<1> QED
  BY <1>1, <1>2, <1>3, WhoActs, SupActsSo DEF ResetCounters

LEMMA KindInit ==
  ASSUME Init
  PROVE  OpKind
<1> DEFINE Fine(t) == /\ op[t].tx = NoSup
                      /\ \/ op[t].kind = "none" /\ op[t].pc = "idle"
                         \/ op[t].kind = "start" /\ op[t].pc = "launchGate"
<1>1. ASSUME op = [t \in Tasks |-> IdleOp]
      PROVE  \A t \in Tasks : Fine(t)
  BY <1>1 DEF IdleOp
<1>2. ASSUME NEW t0 \in Tasks,
             op = [t \in Tasks |-> IF t = t0 THEN [kind |-> "start", pc |-> "launchGate", tx |-> NoSup]
                                             ELSE IdleOp]
      PROVE  \A t \in Tasks : Fine(t)
  BY <1>2 DEF IdleOp
<1>3. \A t \in Tasks : Fine(t)
  <2> HIDE DEF Fine
  <2>1. CASE Autostart
    BY <2>1, <1>2 DEF Init
  <2>2. CASE ~Autostart
    BY <2>2, <1>1 DEF Init
  <2> QED
    BY <2>1, <2>2
<1> QED
  BY <1>3 DEF OpKind, LaunchPcs, Starts

\* In a step of any kind, either an operation stays where it is or the step is
\* its own, or the daemon exits.
LEMMA MineOrNot ==
  ASSUME TypeOK, Next, NEW t \in Tasks
  PROVE  \/ op'[t] = op[t]
         \/ TaskActs(t) /\ Transition(t) /\ OthersStay(t)
         \/ \E u \in Tasks : Exit(u)
  BY WhoActs, TaskActsSo, SupActsSo DEF OthersStay, ResetCounters

\* A supervisor task begins only in a launch.
LEMMA NewTask ==
  ASSUME TypeOK, OpKind, Next, NEW s \in Sups, sup[s].pc = "free", sup'[s].pc # "free"
  PROVE  \E u \in Tasks : /\ Spawn(u) /\ NewSupervisor(u, s)
                          /\ Starts(u) /\ op[u].pc = "spawn" /\ op'[u].pc = "awaitSpawn"
                          /\ op'[u].kind = op[u].kind /\ OthersStay(u)
<1>1. \A r \in Sups : ~(SupStep(r) \/ ChildExits(r))
  BY SupActsSo
<1>2. ~ResetCounters /\ \A u \in Tasks : ~Exit(u)
  BY DEF ResetCounters, Exit, FreeSup
<1>3. PICK u \in Tasks : TaskActs(u)
  BY <1>1, <1>2, WhoActs
<1>4. Spawn(u) /\ OthersStay(u)
  BY <1>3, TaskActsSo
<1>5. op[u].pc = "spawn" /\ Goto(u, "awaitSpawn")
  BY <1>4 DEF Spawn, Waiting
<1>6. op'[u].pc = "awaitSpawn" /\ op'[u].kind = op[u].kind
  <2>1. Moved(u, "awaitSpawn", NoSup)
    BY <1>5, GotoIs
  <2> QED
    BY <2>1 DEF Moved
<1>7. NewSupervisor(u, s)
  BY <1>4 DEF Spawn, NewSupervisor, AlreadySupervised, RowVanished, TypeOK
<1> QED
  BY <1>4, <1>5, <1>6, <1>7 DEF OpKind, LaunchPcs

-----------------------------------------------------------------------------
(* Who answers whom.                                                       *)

LEMMA TransitionMoves ==
  ASSUME NEW t \in Tasks, Transition(t)
  PROVE  op'[t] # op[t]
  BY DEF Transition, Begun, Looks, Commands, Launches, Moved, Ended, IdleOp, Fallback

\* A supervisor that leaves answers its own callers, who have no answer yet.
LEMMA ReturnAnswers ==
  ASSUME AInv, NEW s \in Sups, NEW okay, Return(s, okay), okay \subseteq Queued(s) \cup {sup[s].cmd},
         NEW t \in Tasks, ack'[t] # ack[t]
  PROVE  /\ ack[t] = "none" /\ sup'[s].pc = "free"
         /\ op[t].pc = "await" => op[t].tx = s
         /\ ack'[t] = "ok" => t \in okay
<1>1. t \in Queued(s) \cup {sup[s].starter, sup[s].cmd}
  BY DEF Return, Resolve
<1>2. sup'[s].pc = "free"
  BY ReturnFrees DEF AInv
<1>3. ack'[t] = "ok" => t \in okay
  BY DEF Return, Resolve
<1>4. CASE t \in Queued(s)
  BY <1>2, <1>4, <1>3 DEF Queued, AInv, QueueWaits, Waits
<1>5. CASE t = sup[s].cmd
  BY <1>2, <1>5, <1>3, NullAssumption DEF AInv, CmdWaits, Waits
<1>6. CASE t = sup[s].starter
  BY <1>2, <1>6, <1>3, NullAssumption DEF AInv, StarterWaits
<1> QED
  BY <1>1, <1>4, <1>5, <1>6

\* Every answer is the first, and comes to a command from a supervisor that
\* leaves, or that goes back to spawn its child for a restart.
LEMMA SupAnswers ==
  ASSUME BInv, NEW s \in Sups, SupStep(s), NEW t \in Tasks, ack'[t] # ack[t]
  PROVE  /\ ack[t] = "none"
         /\ op[t].pc = "await" =>
              /\ op[t].tx = s
              /\ IF op[t].kind = "restart" /\ ack'[t] = "ok"
                 THEN sup[s].pc # "start" /\ sup'[s].pc = "start"
                 ELSE sup'[s].pc = "free"
<1>1. ASSUME NEW okay, Return(s, okay), okay \subseteq Queued(s) \cup {sup[s].cmd},
             \A u \in okay : u \in Tasks => op[u].kind # "restart"
      PROVE  /\ ack[t] = "none" /\ sup'[s].pc = "free"
             /\ op[t].pc = "await" => op[t].tx = s
             /\ ~(op[t].kind = "restart" /\ ack'[t] = "ok")
  BY <1>1, ReturnAnswers DEF BInv
<1>2. CASE SupStart(s) \/ NaturalExit(s) \/ CheckShutdown(s) \/ SendersGone(s)
  <2>1. Return(s, {})
    BY <1>2 DEF SupStart, NaturalExit, CheckShutdown, SendersGone
  <2> QED
    BY <1>1, <2>1
<1>3. CASE ClearTx(s)
  <2>1. Return(s, {sup[s].cmd})
    BY <1>3 DEF ClearTx
  <2>2. sup[s].pc = "clear"
    BY <1>3 DEF ClearTx
  <2>3. sup[s].cmd \in Tasks => op[sup[s].cmd].kind # "restart"
    BY <2>2, NullAssumption DEF BInv, AInv, CmdPhase
  <2> QED
    BY <1>1, <2>1, <2>3
<1>4. CASE SpawnFailed(s) \/ GoOnline(s)
  <2>1. t = sup[s].starter
    BY <1>4 DEF SpawnFailed, GoOnline, Resolve
  <2> QED
    BY <2>1, NullAssumption DEF BInv, AInv, StarterWaits
<1>5. CASE BackoffCommand(s)
  <2> DEFINE h == Head(inbox[s])
  <2>1. sup[s].pc = "backoff" /\ inbox[s] # <<>> /\ (BackoffRestart(s, h) \/ BackoffStop(s, h) \/ BackoffDelete(s, h))
    BY <1>5 DEF BackoffCommand
  <2>2. h \in Queued(s) /\ Waits(h, s)
    <3>1. h = inbox[s][1] /\ 1 \in DOMAIN inbox[s]
      BY <2>1 DEF BInv, IInv, TypeOK
    <3> QED
      BY <3>1 DEF BInv, AInv, Queued, QueueWaits
  <2> HIDE DEF h
  <2>3. CASE BackoffRestart(s, h)
    <3>1. t = h /\ ack'[t] = "ok" /\ op[h].kind = "restart"
      BY <2>3 DEF BackoffRestart, Resolve
    <3>2. sup'[s].pc = "start"
      BY <2>3 DEF BackoffRestart, BInv, IInv, TypeOK, SupTask
    <3> QED
      BY <2>1, <2>2, <3>1, <3>2 DEF Waits
  <2>4. CASE BackoffDelete(s, h)
    BY <1>1, <2>2, <2>4 DEF BackoffDelete
  <2>5. ~BackoffStop(s, h)
    BY DEF BackoffStop
  <2> QED
    BY <2>1, <2>3, <2>4, <2>5
<1>6. CASE KillDone(s)
  <2> DEFINE c == sup[s].cmd
  <2>1. sup[s].pc = "killed" /\ (KilledForStop(s, c) \/ KilledForRestart(s, c) \/ KilledForDelete(s, c))
    BY <1>6 DEF KillDone
  <2>2. Waits(c, s)
    BY <2>1 DEF BInv, AInv, CmdPhase, CmdWaits
  <2>3. CASE KilledForRestart(s, c)
    <3>1. t = c /\ ack'[t] = "ok" /\ op[c].kind = "restart"
      BY <2>3 DEF KilledForRestart, Resolve
    <3>2. sup'[s].pc = "start"
      BY <2>3 DEF KilledForRestart, BInv, IInv, TypeOK, SupTask
    <3> QED
      BY <2>1, <2>2, <3>1, <3>2 DEF Waits
  <2>4. CASE KilledForDelete(s, c)
    BY <1>1, <2>4 DEF KilledForDelete
  <2>5. ~KilledForStop(s, c)
    BY DEF KilledForStop
  <2> QED
    BY <2>1, <2>3, <2>4, <2>5
<1>7. \/ SupStart(s) \/ NaturalExit(s) \/ CheckShutdown(s) \/ SendersGone(s) \/ ClearTx(s)
      \/ SpawnFailed(s) \/ GoOnline(s) \/ BackoffCommand(s) \/ KillDone(s)
  BY DEF SupStep, Receive, Reap, ExitStops, ExitGivesUp, ExitRestarts, BackoffElapsed, TakeCommand, KillTimeout
<1> QED
  BY <1>2, <1>3, <1>4, <1>5, <1>6, <1>7

\* Nobody but itself takes an answer from a task.
LEMMA TaskAnswers ==
  ASSUME TypeOK, NEW u \in Tasks, TaskActs(u), NEW t \in Tasks, ack'[t] # ack[t]
  PROVE  u = t
  BY DEF TypeOK, TaskActs, Continue, StopFlip, RestartRead, RestartFlip, ResetState, DeleteFlip, Send, Await,
         Settle, Remove, LaunchGate, LaunchCheck, Spawn, NewSupervisor, AlreadySupervised, RowVanished,
         AwaitSpawn, Arm, BeginShutdown, ShutdownSnapshot, Begin

LEMMA AnswerStep ==
  ASSUME BInv, Next, NEW t \in Tasks, op'[t] = op[t], ack'[t] # ack[t]
  PROVE  /\ ack[t] = "none"
         /\ op[t].pc = "await" =>
              IF op[t].kind = "restart" /\ ack'[t] = "ok"
              THEN sup[op[t].tx].pc # "start" /\ sup'[op[t].tx].pc = "start"
              ELSE sup'[op[t].tx].pc = "free"
<1>1. CASE \E u \in Tasks : TaskActs(u)
  BY <1>1, TaskAnswers, TaskActsSo, TransitionMoves DEF BInv, IInv
<1>2. CASE \E u \in Tasks : Exit(u)
  <2>1. op[t].pc = "idle" /\ ack'[t] = "none"
    BY <1>2 DEF Exit, IdleOp
  <2> QED
    BY <2>1 DEF BInv, AInv, TypeOK, OpShape
<1>3. CASE \E s \in Sups : SupStep(s)
  BY <1>3, SupAnswers
<1>4. ~ResetCounters /\ \A s \in Sups : ~ChildExits(s)
  BY DEF ResetCounters, ChildExits
<1> QED
  BY <1>1, <1>2, <1>3, <1>4, WhoActs

-----------------------------------------------------------------------------
(* What becomes of the row, its channel and the channel's receiver.        *)

NewSup == \E u \in Tasks, s \in Sups : Spawn(u) /\ NewSupervisor(u, s)

LEMMA NewSupervisorIs ==
  ASSUME TypeOK, NEW t \in Tasks, NEW s \in Sups, NewSupervisor(t, s)
  PROVE  /\ sup[s].pc = "free" /\ sup'[s].pc = "start" /\ (\A r \in Sups \ {s} : sup'[r] = sup[r])
         /\ Present /\ row.cmdTx = NoSup /\ row'.cmdTx = s
<1>1. sup'[s].pc = "start" /\ \A r \in Sups \ {s} : sup'[r] = sup[r]
  BY DEF NewSupervisor, TypeOK, FreeSup
<1>2. row'.cmdTx = s
  BY DEF NewSupervisor, Present, TypeOK, Row, NoRow
<1> QED
  BY <1>1, <1>2 DEF NewSupervisor, Unused

LEMMA RowKeepsSup ==
  ASSUME TypeOK, NEW s \in Sups, SupStep(s) \/ ChildExits(s), Present'
  PROVE  Present /\ row'.cmdTx \in {row.cmdTx, NoSup}
<1>1. row \in Row \cup {NoRow}
  BY DEF TypeOK
<1>2. CASE UNCHANGED row
  BY <1>2 DEF Present
<1>3. CASE RemoveProc
  BY <1>3 DEF RemoveProc, NoRow, Present
<1>4. CASE \E status : SetDead(status)
  BY <1>1, <1>4 DEF SetDead, Row, Present
<1>5. CASE \E pid : ManualRestart(pid)
  BY <1>1, <1>5 DEF ManualRestart, Row, Present
<1>6. CASE GoOnline(s) \/ NaturalExit(s) \/ ExitGivesUp(s) \/ ExitRestarts(s) \/ TakeCommand(s) \/ ClearTx(s)
  BY <1>1, <1>6 DEF GoOnline, NaturalExit, ExitGivesUp, ExitRestarts, TakeCommand, ClearTx, Row, NoRow, Present
<1>7. CASE SpawnFailed(s) \/ ExitStops(s)
  BY <1>4, <1>7 DEF SpawnFailed, ExitStops
<1>8. CASE BackoffCommand(s)
  BY <1>3, <1>4, <1>5, <1>8 DEF BackoffCommand, BackoffRestart, BackoffStop, BackoffDelete
<1>9. CASE KillDone(s)
  BY <1>3, <1>4, <1>5, <1>9 DEF KillDone, KilledForStop, KilledForRestart, KilledForDelete
<1>10. CASE SupStart(s) \/ Reap(s) \/ CheckShutdown(s) \/ BackoffElapsed(s) \/ KillTimeout(s)
            \/ SendersGone(s) \/ ChildExits(s)
  BY <1>2, <1>10 DEF SupStart, Reap, CheckShutdown, BackoffElapsed, KillTimeout, SendersGone, ChildExits
<1> QED
  BY <1>6, <1>7, <1>8, <1>9, <1>10 DEF SupStep, Receive

LEMMA RowKeepsTask ==
  ASSUME TypeOK, NEW t \in Tasks, TaskActs(t), Present'
  PROVE  Present /\ (row'.cmdTx = row.cmdTx \/ \E s \in Sups : Spawn(t) /\ NewSupervisor(t, s))
<1>1. row \in Row \cup {NoRow}
  BY DEF TypeOK
<1>2. CASE UNCHANGED row
  BY <1>2 DEF Present
<1>3. CASE StopFlip(t) \/ RestartFlip(t) \/ DeleteFlip(t) \/ Settle(t) \/ ResetState(t)
  BY <1>1, <1>3 DEF StopFlip, RestartFlip, DeleteFlip, Settle, ResetState, Row, NoRow, Present
<1>4. CASE Remove(t)
  BY <1>4 DEF Remove, RemoveProc, NoRow, Present
<1>5. CASE Spawn(t)
  BY <1>2, <1>5 DEF Spawn, NewSupervisor, AlreadySupervised, RowVanished
<1>6. CASE RestartRead(t) \/ Send(t) \/ Await(t) \/ LaunchGate(t) \/ LaunchCheck(t) \/ AwaitSpawn(t) \/ Arm(t)
           \/ BeginShutdown(t) \/ ShutdownSnapshot(t) \/ \E kind \in Kinds : Begin(t, kind)
  BY <1>2, <1>6 DEF RestartRead, Send, Await, LaunchGate, LaunchCheck, AwaitSpawn, Arm, BeginShutdown,
                    ShutdownSnapshot, Begin
<1> QED
  BY <1>3, <1>4, <1>5, <1>6 DEF TaskActs, Continue

LEMMA RowKeeps ==
  ASSUME TypeOK, Next, Present'
  PROVE  Present /\ (NewSup \/ row'.cmdTx \in {row.cmdTx, NoSup})
<1>1. CASE ResetCounters
  BY <1>1 DEF ResetCounters, TypeOK, Row, NoRow, Present
<1>2. ~\E t \in Tasks : Exit(t)
  BY DEF Exit, NoRow, Present
<1> QED
  BY <1>1, <1>2, RowKeepsSup, RowKeepsTask, WhoActs DEF NewSup

LEMMA SupLeaves ==
  ASSUME TypeOK, NEW s \in Sups, SupStep(s), sup'[s].pc = "free", Present', daemon = "up"
  PROVE  row'.cmdTx # s
<1>1. CASE SupStart(s) \/ NaturalExit(s)
  BY <1>1 DEF SupStart, NaturalExit, Present, TypeOK, SupTask
<1>2. CASE BackoffCommand(s)
  BY <1>2 DEF BackoffCommand, BackoffRestart, BackoffStop, BackoffDelete, RemoveProc, NoRow, Present,
              TypeOK, SupTask
<1>3. CASE KillDone(s)
  BY <1>3 DEF KillDone, KilledForStop, KilledForRestart, KilledForDelete, RemoveProc, NoRow, Present,
              TypeOK, SupTask
<1>4. CASE ClearTx(s)
  BY <1>4, NullAssumption DEF ClearTx, Present, TypeOK, Row, NoRow
<1>5. CASE SendersGone(s)
  BY <1>5 DEF SendersGone, SenderHeld
<1>6. CASE CheckShutdown(s)
  BY <1>6 DEF CheckShutdown, TypeOK, SupTask
<1>7. CASE SpawnFailed(s) \/ GoOnline(s) \/ Reap(s) \/ ExitStops(s) \/ ExitGivesUp(s) \/ ExitRestarts(s)
           \/ BackoffElapsed(s) \/ TakeCommand(s) \/ KillTimeout(s)
  BY <1>7 DEF SpawnFailed, GoOnline, Reap, ExitStops, ExitGivesUp, ExitRestarts, BackoffElapsed, TakeCommand,
              KillTimeout, TypeOK, SupTask
<1> QED
  BY <1>1, <1>2, <1>3, <1>4, <1>5, <1>6, <1>7 DEF SupStep, Receive

LEMMA SupervisedStep ==
  ASSUME BInv, Supervised, Next
  PROVE  Supervised'
<1> SUFFICES ASSUME daemon' = "up", Present', row'.cmdTx # NoSup
             PROVE  sup'[row'.cmdTx].pc # "free"
  BY DEF Supervised
<1>1. TypeOK /\ TypeOK'
  BY StepType DEF BInv, IInv
<1>2. daemon = "up" /\ ~\E u \in Tasks : Exit(u)
  BY <1>1, WhoActs, TaskActsSo, SupActsSo DEF ResetCounters, Exit
<1>3. CASE NewSup
  <2>1. PICK u \in Tasks, s \in Sups : NewSupervisor(u, s)
    BY <1>3 DEF NewSup
  <2> QED
    BY <1>1, <2>1, NewSupervisorIs
<1>4. CASE ~NewSup
  <2> DEFINE s == row.cmdTx
  <2>1. Present /\ row'.cmdTx = s /\ s \in Sups
    <3>1. Present /\ row'.cmdTx = s
      BY <1>1, <1>4, RowKeeps
    <3>2. row' \in Row
      BY <1>1 DEF TypeOK, Present, NoRow
    <3> QED
      BY <3>1, <3>2 DEF Row
  <2>2. sup[s].pc # "free"
    BY <1>2, <2>1 DEF Supervised
  <2> HIDE DEF s
  <2>3. CASE \E u \in Tasks : TaskActs(u)
    <3>1. PICK u \in Tasks : TaskActs(u)
      BY <2>3
    <3>2. Spawn(u) => UNCHANGED sup
      BY <1>4 DEF Spawn, NewSup, AlreadySupervised, RowVanished
    <3>3. UNCHANGED sup
      <4>1. sup' = sup \/ Spawn(u)
        BY <1>1, <3>1, TaskActsSo
      <4> QED
        BY <3>2, <4>1
    <3> QED
      BY <2>1, <2>2, <3>3
  <2>4. CASE \E r \in Sups : SupStep(r)
    <3>1. sup'[s].pc # "free"
      BY <1>1, <1>2, <2>1, <2>2, <2>4, SupLeaves, SupActsSo
    <3> QED
      BY <2>1, <3>1
  <2>5. CASE ResetCounters \/ \E r \in Sups : ChildExits(r)
    BY <2>1, <2>2, <2>5 DEF ResetCounters, ChildExits
  <2> QED
    BY <1>2, <2>1, <2>3, <2>4, <2>5, WhoActs
<1> QED
  BY <1>3, <1>4

LEMMA AnsweredStep ==
  ASSUME BInv, Answered, Next
  PROVE  Answered'
<1> SUFFICES ASSUME NEW t \in Tasks, op'[t].pc = "await", ack'[t] # "none",
                    ~(op'[t].kind = "restart" /\ ack'[t] = "ok")
             PROVE  sup'[op'[t].tx].pc = "free"
  BY DEF Answered
<1>1. TypeOK /\ OpKind
  BY DEF BInv, IInv
<1>2. CASE op'[t] = op[t]
  <2> DEFINE s == op[t].tx
  <2>1. s \in Sups
    BY <1>2 DEF BInv, AInv, OpShape
  <2>2. CASE ack'[t] = ack[t]
    <3>1. sup[s].pc = "free" /\ SenderHeld(s)
      BY <1>2, <2>2 DEF Answered, SenderHeld
    <3>2. \A u \in Tasks : ~NewSupervisor(u, s)
      BY <3>1 DEF NewSupervisor, Unused
    <3>3. sup'[s].pc = "free"
      BY <1>1, <2>1, <3>1, <3>2, NewTask
    <3> QED
      BY <1>2, <3>3
  <2>3. CASE ack'[t] # ack[t]
    BY <1>2, <2>3, AnswerStep
  <2> QED
    BY <2>2, <2>3
<1>3. CASE TaskActs(t) /\ Transition(t)
  <2>1. op[t].pc = "send"
    BY <1>3 DEF Transition, Begun, Looks, Commands, Launches, Moved, Ended, IdleOp, Fallback
  <2>2. Send(t)
    BY <1>3, <2>1 DEF TaskActs, Continue, StopFlip, RestartRead, RestartFlip, ResetState, DeleteFlip, Await,
         Settle, Remove, LaunchGate, LaunchCheck, Spawn, AwaitSpawn, Arm, BeginShutdown, ShutdownSnapshot,
         Begin, Waiting
  <2>3. ack'[t] = ack[t] /\ ack[t] = "none"
    BY <2>1, <2>2 DEF Send, BInv, AInv, OpShape, TypeOK
  <2> QED
    BY <2>3
<1>4. ~\E u \in Tasks : Exit(u)
  BY DEF Exit, IdleOp
<1> QED
  BY <1>1, <1>2, <1>3, <1>4, MineOrNot

LEMMA RestStatusSup ==
  ASSUME TypeOK, SingleSupervisor, RestStatus, NEW s \in Sups, SupStep(s), daemon' = "up", Present',
         \A r \in Sups : sup'[r].pc \in {"free", "clear"}
  PROVE  row'.status \in {"stopping", "stopped", "errored"}
<1>1. row \in Row \cup {NoRow} /\ sup[s] \in SupTask
  BY DEF TypeOK
<1>2. Present /\ daemon = "up" /\ sup'[s].pc \in {"free", "clear"}
  BY RowKeepsSup, SupActsSo
<1>3. CASE SpawnFailed(s) \/ ExitStops(s) \/ ExitGivesUp(s)
  BY <1>1, <1>2, <1>3 DEF SpawnFailed, ExitStops, ExitGivesUp, SetDead, Row, NoRow, Present
<1>4. CASE BackoffCommand(s)
  <2>1. PICK t : BackoffRestart(s, t) \/ BackoffStop(s, t) \/ BackoffDelete(s, t)
    BY <1>4 DEF BackoffCommand
  <2>2. ~BackoffRestart(s, t) /\ ~BackoffDelete(s, t)
    BY <1>2 DEF BackoffRestart, BackoffDelete, RemoveProc, NoRow, Present, TypeOK, SupTask
  <2> QED
    BY <1>1, <1>2, <2>1, <2>2 DEF BackoffStop, SetDead, Row, NoRow, Present
<1>5. CASE KillDone(s)
  <2>1. PICK t : KilledForStop(s, t) \/ KilledForRestart(s, t) \/ KilledForDelete(s, t)
    BY <1>5 DEF KillDone
  <2>2. ~KilledForRestart(s, t) /\ ~KilledForDelete(s, t)
    BY <1>2 DEF KilledForRestart, KilledForDelete, RemoveProc, NoRow, Present, TypeOK, SupTask
  <2> QED
    BY <1>1, <1>2, <2>1, <2>2 DEF KilledForStop, SetDead, Row, NoRow, Present
<1>6. CASE ClearTx(s)
  <2>1. \A r \in Sups : sup[r].pc \in {"free", "clear"}
    BY <1>6, SupActsSo DEF ClearTx
  <2>2. row'.status = row.status
    BY <1>1, <1>6 DEF ClearTx, Row, NoRow, Present
  <2> QED
    BY <1>2, <2>1, <2>2 DEF RestStatus
<1>7. CASE SendersGone(s)
  BY <1>2, <1>7 DEF SendersGone, SenderHeld, SingleSupervisor
<1>8. CASE SupStart(s) \/ NaturalExit(s)
  BY <1>2, <1>8 DEF SupStart, NaturalExit, TypeOK, SupTask
<1>9. CASE CheckShutdown(s)
  BY <1>2, <1>9 DEF CheckShutdown, TypeOK, SupTask
<1>10. CASE GoOnline(s) \/ Reap(s) \/ ExitRestarts(s) \/ BackoffElapsed(s) \/ TakeCommand(s) \/ KillTimeout(s)
  BY <1>2, <1>10 DEF GoOnline, Reap, ExitRestarts, BackoffElapsed, TakeCommand, KillTimeout, TypeOK, SupTask
<1> QED
  BY <1>3, <1>4, <1>5, <1>6, <1>7, <1>8, <1>9, <1>10 DEF SupStep, Receive

LEMMA RestStatusTask ==
  ASSUME TypeOK, RestStatus, NEW t \in Tasks, TaskActs(t), daemon' = "up", Present',
         \A r \in Sups : sup'[r].pc \in {"free", "clear"}
  PROVE  row'.status \in {"stopping", "stopped", "errored"}
<1>1. row \in Row \cup {NoRow}
  BY DEF TypeOK
<1>2. Present /\ daemon = "up"
  BY RowKeepsTask, TaskActsSo
<1>3. ASSUME NEW s \in Sups
      PROVE  ~NewSupervisor(t, s)
  BY NewSupervisorIs
<1>4. UNCHANGED sup
  <2>1. sup' = sup \/ Spawn(t)
    BY TaskActsSo
  <2>2. Spawn(t) => UNCHANGED sup
    BY <1>3 DEF Spawn, AlreadySupervised, RowVanished
  <2> QED
    BY <2>1, <2>2
<1>5. row.status \in {"stopping", "stopped", "errored"}
  BY <1>2, <1>4 DEF RestStatus
<1>6. row'.status \in {row.status, "stopping", "stopped"}
  <2>1. CASE StopFlip(t) \/ RestartFlip(t) \/ DeleteFlip(t) \/ Settle(t) \/ ResetState(t)
    BY <1>1, <2>1 DEF StopFlip, RestartFlip, DeleteFlip, Settle, ResetState, Row, NoRow, Present
  <2>2. CASE Remove(t)
    BY <2>2 DEF Remove, RemoveProc, NoRow, Present
  <2>3. CASE Spawn(t)
    BY <1>3, <2>3 DEF Spawn, AlreadySupervised, RowVanished
  <2>4. CASE RestartRead(t) \/ Send(t) \/ Await(t) \/ LaunchGate(t) \/ LaunchCheck(t) \/ AwaitSpawn(t)
             \/ Arm(t) \/ BeginShutdown(t) \/ ShutdownSnapshot(t) \/ \E kind \in Kinds : Begin(t, kind)
    BY <2>4 DEF RestartRead, Send, Await, LaunchGate, LaunchCheck, AwaitSpawn, Arm, BeginShutdown,
                ShutdownSnapshot, Begin
  <2> QED
    BY <2>1, <2>2, <2>3, <2>4 DEF TaskActs, Continue
<1> QED
  BY <1>5, <1>6

LEMMA RestStatusStep ==
  ASSUME BInv, RestStatus, Next
  PROVE  RestStatus'
<1> SUFFICES ASSUME daemon' = "up", Present', \A r \in Sups : sup'[r].pc \in {"free", "clear"}
             PROVE  row'.status \in {"stopping", "stopped", "errored"}
  BY DEF RestStatus
<1>1. TypeOK /\ SingleSupervisor
  BY DEF BInv, IInv
<1>2. CASE \E t \in Tasks : TaskActs(t)
  BY <1>1, <1>2, RestStatusTask
<1>3. CASE \E s \in Sups : SupStep(s)
  BY <1>1, <1>3, RestStatusSup
<1>4. CASE \E s \in Sups : ChildExits(s)
  BY <1>4 DEF RestStatus, ChildExits, Present
<1>5. CASE ResetCounters
  BY <1>1, <1>5 DEF RestStatus, ResetCounters, Present, TypeOK, Row, NoRow
<1>6. ~\E t \in Tasks : Exit(t)
  BY DEF Exit
<1> QED
  BY <1>2, <1>3, <1>4, <1>5, <1>6, WhoActs

-----------------------------------------------------------------------------
(* What the histories say of the operations that no start overlaps.        *)

\* An operation is calm unless its kind is known to have overlapped a start.
Overlaps ==
  \A t \in Tasks : op[t].pc # "idle" /\ op[t].kind \notin overlapped => t \in calm

\* The places of a stop, restart or delete that has seen a row, and acts on what
\* it has seen.
Looked == {"restartFlip", "send", "await", "settle", "remove"}

\* No supervisor runs but the one whose channel t holds.
Alone(t) == \A s \in Sups : sup[s].pc # "free" => s = op[t].tx

\* A calm operation knows every supervisor there is from its look at the row on.
CalmAlone ==
  \A t \in calm :
    op[t].pc \in Looked \/ (op[t].pc = "drained" /\ "delete" \notin overlapped) => Alone(t)

\* While deletes overlap no start, a row that is removed leaves no supervisor.
GoneIsDead ==
  ~Present /\ "delete" \notin overlapped => \A s \in Sups : sup[s].pc = "free"

\* The shutdown knows every supervisor that is not late.
LateOnly ==
  \A t \in Tasks :
    /\ op[t].kind = "kill"
    /\ op[t].pc \in Looked \/ (op[t].pc = "drained" /\ "delete" \notin overlapped)
    => \A s \in Sups : sup[s].pc # "free" => s = op[t].tx \/ s \in late

LEMMA CalmStep ==
  ASSUME Observe, NEW t \in calm'
  PROVE  t \in Tasks /\ op'[t].pc # "idle" /\ NoStartBut(t)' /\ (Begins(t) \/ t \in calm)
  BY DEF Observe

LEMMA OverlapGrows ==
  ASSUME Observe
  PROVE  overlapped \subseteq overlapped' /\ late \subseteq late'
  BY DEF Observe

LEMMA NotOverlapped ==
  ASSUME Observe, NEW t \in Tasks, op'[t].pc # "idle", op'[t].kind \notin overlapped'
  PROVE  NoStartBut(t)'
  BY DEF Observe

LEMMA KindStays ==
  ASSUME TypeOK, OpKind, Next, NEW t \in Tasks, op[t].pc # "idle", op'[t].pc # "idle"
  PROVE  op'[t].kind = op[t].kind
<1>1. ~\E u \in Tasks : Exit(u)
  BY DEF Exit, IdleOp
<1>2. CASE Transition(t)
  BY <1>2 DEF Transition, Begun, Looks, Commands, Launches, Moved, Ended, IdleOp
<1> QED
  BY <1>1, <1>2, MineOrNot

LEMMA OverlapsStep ==
  ASSUME BInv, Overlaps, Next, Observe
  PROVE  Overlaps'
<1> SUFFICES ASSUME NEW t \in Tasks, op'[t].pc # "idle", op'[t].kind \notin overlapped'
             PROVE  t \in calm'
  BY DEF Overlaps
<1>1. NoStartBut(t)'
  BY NotOverlapped
<1>2. CASE op[t].pc = "idle"
  BY <1>1, <1>2 DEF Observe, Begins
<1>3. CASE op[t].pc # "idle"
  <2>1. op'[t].kind = op[t].kind
    BY <1>3, KindStays DEF BInv, IInv
  <2>2. t \in calm
    BY <1>3, <2>1, OverlapGrows DEF Overlaps
  <2> QED
    BY <1>1, <2>2 DEF Observe
<1> QED
  BY <1>2, <1>3

\* Beside a calm operation no supervisor begins.
LEMMA NoneBeside ==
  ASSUME BInv, Next, Observe, NEW t \in calm', op'[t].pc # "awaitSpawn", NEW s \in Sups, sup'[s].pc # "free"
  PROVE  sup[s].pc # "free"
<1> SUFFICES ASSUME sup[s].pc = "free" PROVE FALSE
  OBVIOUS
<1>1. PICK u \in Tasks : Starts(u) /\ op'[u].pc = "awaitSpawn" /\ op'[u].kind = op[u].kind
  BY NewTask DEF BInv, IInv
<1>2. u # t /\ Starts(u)'
  BY <1>1 DEF Starts
<1> QED
  BY <1>2, CalmStep DEF NoStartBut

\* What an operation that goes on from its look at the row has learned.
LEMMA LookedAt ==
  ASSUME BInv, Answered, NEW t \in Tasks, Transition(t), op'[t].pc \in Looked \cup {"drained"}
  PROVE  \/ Present /\ op'[t].tx = row.cmdTx
         \/ op[t].pc \in Looked /\ (op'[t].tx = op[t].tx \/ sup[op[t].tx].pc = "free")
         \/ ~Present /\ op'[t].pc = "drained"
<1>1. ~Begun(t)
  BY DEF Begun, Looked
<1>2. CASE Looks(t)
  BY <1>2 DEF Looks, Moved, Ended, IdleOp, Looked
<1>3. CASE Commands(t)
  <2>1. op[t].pc \in Looked
    BY <1>3 DEF Commands, Looked
  <2>2. CASE op[t].pc \in {"restartFlip", "settle", "remove"}
    BY <1>3, <2>1, <2>2 DEF Commands, Moved, Ended, IdleOp, Looked, BInv, OpKind
  <2>3. CASE op[t].pc = "send"
    BY <1>3, <2>1, <2>3 DEF Commands, Moved
  <2>4. CASE op[t].pc = "await"
    <3>1. ack[t] # "none" /\ ~(op[t].kind = "restart")
      BY <1>3, <2>4 DEF Commands, Moved, Ended, IdleOp, Looked, Fallback
    <3> QED
      BY <2>1, <2>4, <3>1 DEF Answered
  <2> QED
    BY <2>1, <2>2, <2>3, <2>4 DEF Looked
<1>4. ~Launches(t)
  BY DEF Launches, Moved, Ended, IdleOp, Looked, BInv, OpKind, LaunchPcs, Starts
<1> QED
  BY <1>1, <1>2, <1>3, <1>4 DEF Transition

\* What the look at a row tells: its channel's supervisor is the only one.
LEMMA LookIsAlone ==
  ASSUME SingleSupervisor, Present, NEW t \in Tasks, UNCHANGED sup, op'[t].tx = row.cmdTx
  PROVE  Alone(t)'
  BY DEF SingleSupervisor, Alone

\* The steps of an operation that are no launch leave the supervisors alone.
LEMMA NoSpawn ==
  ASSUME TypeOK, NEW t \in Tasks, TaskActs(t), op'[t].pc # "awaitSpawn"
  PROVE  UNCHANGED <<sup, child>>
<1>1. ~Spawn(t)
  <2> SUFFICES ASSUME Spawn(t) PROVE FALSE
    OBVIOUS
  <2>1. Moved(t, "awaitSpawn", NoSup)
    BY GotoIs DEF Spawn
  <2> QED
    BY <2>1 DEF Moved
<1> QED
  BY <1>1, TaskActsSo

LEMMA CalmAloneStep ==
  ASSUME BInv, Answered, CalmAlone, GoneIsDead, Next, Observe
  PROVE  CalmAlone'
<1> SUFFICES ASSUME NEW t \in calm',
                    op'[t].pc \in Looked \/ (op'[t].pc = "drained" /\ "delete" \notin overlapped')
             PROVE  Alone(t)'
  BY DEF CalmAlone
<1>1. TypeOK /\ OpKind /\ SingleSupervisor /\ t \in Tasks
  BY CalmStep DEF BInv, IInv
<1>2. op'[t].pc # "awaitSpawn" /\ op'[t].pc \in Looked \cup {"drained"} /\ op'[t].pc # "idle"
  BY CalmStep DEF Looked
<1>3. \A s \in Sups : sup'[s].pc # "free" => sup[s].pc # "free"
  BY <1>2, NoneBeside
<1>4. "delete" \notin overlapped' => "delete" \notin overlapped
  BY OverlapGrows
<1>5. CASE op'[t] = op[t]
  <2>1. t \in calm
    BY <1>5, CalmStep DEF Begins
  <2>2. Alone(t)
    BY <1>4, <1>5, <2>1 DEF CalmAlone
  <2> QED
    BY <1>3, <1>5, <2>2 DEF Alone
<1>6. CASE TaskActs(t) /\ Transition(t)
  <2>1. UNCHANGED sup
    BY <1>1, <1>2, <1>6, NoSpawn
  <2>2. CASE Present /\ op'[t].tx = row.cmdTx
    BY <1>1, <2>1, <2>2, LookIsAlone
  <2>3. CASE op[t].pc \in Looked /\ (op'[t].tx = op[t].tx \/ sup[op[t].tx].pc = "free")
    <3>1. t \in calm
      BY <2>3, CalmStep DEF Begins, Looked
    <3>2. Alone(t)
      BY <2>3, <3>1 DEF CalmAlone
    <3> QED
      BY <2>1, <2>3, <3>2 DEF Alone
  <2>4. CASE ~Present /\ op'[t].pc = "drained"
    BY <1>4, <2>1, <2>4 DEF GoneIsDead, Alone, Looked
  <2> QED
    BY <1>1, <1>2, <1>6, <2>2, <2>3, <2>4, LookedAt
<1>7. ~\E u \in Tasks : Exit(u)
  BY <1>1, <1>2 DEF Exit, IdleOp
<1> QED
  BY <1>1, <1>5, <1>6, <1>7, MineOrNot

\* A row is removed by the supervisor that runs, by a delete that found none
\* and by the end of the daemon.
LEMMA Removal ==
  ASSUME BInv, Next, Present, ~Present'
  PROVE  \/ \A s \in Sups : sup'[s].pc = "free"
         \/ \E t \in Tasks : op[t].pc = "remove" /\ UNCHANGED sup
<1>1. CASE \E t \in Tasks : Exit(t)
  BY <1>1 DEF Exit, FreeSup
<1>2. ASSUME NEW t \in Tasks, TaskActs(t)
      PROVE  op[t].pc = "remove" /\ UNCHANGED sup
  <2>1. Remove(t)
    BY <1>2 DEF BInv, IInv, TypeOK, Row, NoRow, Present, TaskActs, Continue, StopFlip, RestartRead, RestartFlip, ResetState,
         DeleteFlip, Send, Await, Settle, LaunchGate, LaunchCheck, Spawn, NewSupervisor, AlreadySupervised,
         RowVanished, AwaitSpawn, Arm, BeginShutdown, ShutdownSnapshot, Begin
  <2> QED
    BY <2>1 DEF Remove, Waiting
<1>3. ASSUME NEW s \in Sups, SupStep(s)
      PROVE  \A r \in Sups : sup'[r].pc = "free"
  <2>1. sup[s].pc # "free" /\ sup'[s].pc = "free"
    <3>1. PICK t : BackoffDelete(s, t) \/ KilledForDelete(s, t)
      BY <1>3 DEF BInv, IInv, TypeOK, Row, NoRow, Present, SupStep, Receive, SupStart, SpawnFailed, SetDead, GoOnline, Reap, NaturalExit,
         CheckShutdown, ExitStops, ExitGivesUp, ExitRestarts, BackoffElapsed, TakeCommand, BackoffCommand,
         BackoffRestart, BackoffStop, ManualRestart, KillTimeout, KillDone, KilledForStop, KilledForRestart,
         ClearTx, SendersGone
    <3>2. sup'[s].pc = "free"
      BY <3>1, ReturnFrees DEF BackoffDelete, KilledForDelete, BInv, IInv
    <3> QED
      BY <1>3, <3>2 DEF BInv, IInv, TypeOK, SupTask, SupStep, Receive, SupStart, SpawnFailed, GoOnline, Reap, NaturalExit,
         CheckShutdown, ExitStops, ExitGivesUp, ExitRestarts, BackoffElapsed, TakeCommand, BackoffCommand,
         KillTimeout, KillDone, ClearTx, SendersGone
  <2>2. row.cmdTx = s
    BY <2>1 DEF BInv, IInv, SingleSupervisor
  <2>3. \A r \in Sups \ {s} : sup[r].pc = "free" /\ sup'[r] = sup[r]
    BY <1>3, <2>2, SupActsSo DEF BInv, IInv, SingleSupervisor
  <2> QED
    BY <2>1, <2>3
<1>4. ~ResetCounters /\ ~\E s \in Sups : ChildExits(s)
  BY DEF BInv, IInv, TypeOK, Row, NoRow, ResetCounters, ChildExits, Present
<1> QED
  BY <1>1, <1>2, <1>3, <1>4, WhoActs

LEMMA GoneIsDeadStep ==
  ASSUME BInv, Overlaps, CalmAlone, GoneIsDead, Next, Observe
  PROVE  GoneIsDead'
<1> SUFFICES ASSUME ~Present', "delete" \notin overlapped', NEW s \in Sups, sup'[s].pc # "free"
             PROVE  FALSE
  BY DEF GoneIsDead
<1>1. TypeOK /\ OpKind /\ "delete" \notin overlapped
  BY OverlapGrows DEF BInv, IInv
<1>2. CASE ~Present
  <2>1. sup[s].pc = "free"
    BY <1>1, <1>2 DEF GoneIsDead
  <2>2. \E u \in Tasks : NewSupervisor(u, s)
    BY <1>1, <2>1, NewTask
  <2> QED
    BY <1>2, <2>2 DEF NewSupervisor
<1>3. CASE Present
  <2>1. PICK t \in Tasks : op[t].pc = "remove" /\ UNCHANGED sup
    BY <1>3, Removal
  <2>2. t \in calm /\ op[t].tx = NoSup
    BY <1>1, <2>1 DEF OpKind, Overlaps
  <2>3. Alone(t)
    BY <2>1, <2>2 DEF CalmAlone, Looked
  <2> QED
    BY <2>1, <2>2, <2>3, NullAssumption DEF Alone
<1> QED
  BY <1>2, <1>3

\* A child is dropped by a supervisor whose senders have all gone.
LEMMA Drops ==
  ASSUME TypeOK, Next, NEW s \in Sups, child'[s] = "dropped", child[s] # "dropped"
  PROVE  SendersGone(s)
<1>1. \E r \in Sups : SupStep(r)
  BY WhoActs, TaskActsSo DEF Exit, ResetCounters, ChildExits, TypeOK
<1>2. PICK r \in Sups : SupStep(r)
  BY <1>1
<1> QED
  BY <1>2 DEF TypeOK, SupStep, Receive, SupStart, SpawnFailed, GoOnline, Reap, NaturalExit,
         CheckShutdown, ExitStops, ExitGivesUp, ExitRestarts, BackoffElapsed, TakeCommand, BackoffCommand,
         KillTimeout, KillDone, ClearTx, SendersGone

LEMMA DropsStep ==
  ASSUME BInv, GoneIsDead, DropsNeedARace, Next, Observe
  PROVE  DropsNeedARace'
<1> SUFFICES ASSUME NEW s \in Sups, child'[s] = "dropped", "delete" \notin overlapped
             PROVE  FALSE
  BY OverlapGrows DEF DropsNeedARace
<1>1. SendersGone(s)
  BY Drops DEF DropsNeedARace, BInv, IInv
<1>2. sup[s].pc # "free" /\ row.cmdTx # s
  BY <1>1 DEF SendersGone, SenderHeld
<1> QED
  BY <1>2 DEF BInv, IInv, SingleSupervisor, GoneIsDead

LEMMA LateOnlyStep ==
  ASSUME BInv, Answered, GoneIsDead, LateOnly, Next, Observe
  PROVE  LateOnly'
<1> SUFFICES ASSUME NEW t \in Tasks, op'[t].kind = "kill",
                    op'[t].pc \in Looked \/ (op'[t].pc = "drained" /\ "delete" \notin overlapped'),
                    NEW s \in Sups, sup'[s].pc # "free"
             PROVE  s = op'[t].tx \/ s \in late'
  BY DEF LateOnly
<1>1. TypeOK /\ OpKind /\ SingleSupervisor
  BY DEF BInv, IInv
<1>2. op'[t].pc # "awaitSpawn" /\ op'[t].pc \in Looked \cup {"drained"} /\ op'[t].pc # "idle"
  BY DEF Looked
<1>3. "delete" \notin overlapped' => "delete" \notin overlapped
  BY OverlapGrows
<1>4. CASE op'[t] = op[t]
  <2>1. CASE sup[s].pc = "free"
    BY <1>1, <1>4, <2>1 DEF OpKind, Observe
  <2>2. CASE sup[s].pc # "free"
    BY <1>3, <1>4, <2>2, OverlapGrows DEF LateOnly
  <2> QED
    BY <2>1, <2>2
<1>5. CASE TaskActs(t) /\ Transition(t)
  <2>1. UNCHANGED sup
    BY <1>1, <1>2, <1>5, NoSpawn
  <2>2. CASE Present /\ op'[t].tx = row.cmdTx
    BY <1>1, <2>1, <2>2 DEF SingleSupervisor
  <2>3. CASE op[t].pc \in Looked /\ (op'[t].tx = op[t].tx \/ sup[op[t].tx].pc = "free")
    <3>1. op[t].kind = "kill"
      BY <1>1, <1>2, <2>3, KindStays DEF Looked
    <3>2. s = op[t].tx \/ s \in late
      BY <2>1, <2>3, <3>1 DEF LateOnly
    <3> QED
      BY <2>1, <2>3, <3>2, OverlapGrows
  <2>4. CASE ~Present /\ op'[t].pc = "drained"
    BY <1>3, <2>1, <2>4 DEF GoneIsDead, Looked
  <2> QED
    BY <1>2, <1>5, <2>2, <2>3, <2>4, LookedAt
<1>6. ~\E u \in Tasks : Exit(u)
  BY <1>2 DEF Exit, IdleOp
<1> QED
  BY <1>1, <1>4, <1>5, <1>6, MineOrNot

LEMMA ChildStarts ==
  ASSUME TypeOK, Next, NEW s \in Sups, child'[s] = "running", child[s] # "running"
  PROVE  sup[s].pc = "start"
<1>1. PICK r \in Sups : SupStep(r)
  BY WhoActs, TaskActsSo DEF Exit, ResetCounters, ChildExits, TypeOK
<1> QED
  BY <1>1 DEF TypeOK, SupStep, Receive, SupStart, SpawnFailed, GoOnline, Reap, NaturalExit,
         CheckShutdown, ExitStops, ExitGivesUp, ExitRestarts, BackoffElapsed, TakeCommand, BackoffCommand,
         KillTimeout, KillDone, ClearTx, SendersGone

LEMMA OrphansStep ==
  ASSUME BInv, LateOnly, OrphansAreLate, Next, Observe
  PROVE  OrphansAreLate'
<1> SUFFICES ASSUME daemon' = "exited", NEW s \in Sups, child'[s] = "running", "delete" \notin overlapped
             PROVE  s \in late
  BY OverlapGrows DEF OrphansAreLate
<1>1. TypeOK /\ OpKind /\ ChildPhase /\ ExitedIsDead
  BY DEF BInv, IInv
<1>2. CASE daemon = "exited"
  BY <1>1, <1>2, ChildStarts DEF ExitedIsDead, OrphansAreLate
<1>3. CASE daemon # "exited"
  <2>1. PICK t \in Tasks : Exit(t)
    BY <1>1, <1>3, WhoActs, TaskActsSo, SupActsSo DEF ResetCounters
  <2>2. child[s] = "running" /\ op[t].pc = "drained"
    BY <2>1 DEF Exit, Waiting
  <2>3. sup[s].pc # "free"
    BY <1>1, <1>3, <2>2 DEF ChildPhase, HasChild
  <2>4. op[t].kind = "kill" /\ op[t].tx = NoSup
    BY <1>1, <2>2 DEF OpKind
  <2> QED
    BY <2>2, <2>3, <2>4, NullAssumption DEF LateOnly
<1> QED
  BY <1>2, <1>3

-----------------------------------------------------------------------------
(* A row that is not shown online while its child runs.                    *)

\* A command of t is on its way to s.
Coming(t, s) == op[t].tx = s /\ (op[t].pc = "send" \/ (op[t].pc = "await" /\ t \in Queued(s)))

\* A supervisor that waits for its child's exit or a command will get one if the
\* row says anything but online, unless a restart has overlapped a start.
Announced ==
  "restart" \notin overlapped =>
    \A s \in Sups : sup[s].pc = "watch" /\ Present /\ row.status # "online" =>
      \E t \in Tasks : Coming(t, s)

\* Who is in the select! has come there just now, or makes no step.
LEMMA Watching ==
  ASSUME TypeOK, Next, NEW s \in Sups, sup'[s].pc = "watch", ~GoOnline(s)
  PROVE  sup[s].pc = "watch" /\ ~SupStep(s)
<1>1. ~SupStep(s)
  BY DEF TypeOK, SupTask, SupStep, Receive, SupStart, SpawnFailed, Reap, NaturalExit,
      CheckShutdown, ExitStops, ExitGivesUp, ExitRestarts, BackoffElapsed, TakeCommand, BackoffCommand,
      BackoffRestart, BackoffStop, BackoffDelete, KillTimeout, KillDone, KilledForStop, KilledForRestart,
      KilledForDelete, ClearTx, SendersGone, Return, FreeSup
<1>2. ASSUME NEW t \in Tasks, Spawn(t)
      PROVE  sup'[s] = sup[s]
  <2>1. ~NewSupervisor(t, s)
    BY NewSupervisorIs
  <2>2. \A r \in Sups \ {s} : NewSupervisor(t, r) => sup'[s] = sup[s]
    BY NewSupervisorIs
  <2> QED
    BY <1>2, <2>1, <2>2 DEF Spawn, AlreadySupervised, RowVanished
<1>3. ASSUME NEW t \in Tasks, TaskActs(t)
      PROVE  sup'[s] = sup[s]
  BY <1>2, <1>3, TaskActsSo
<1>4. ~\E t \in Tasks : Exit(t)
  BY DEF Exit, FreeSup
<1>5. ASSUME NEW r \in Sups, SupStep(r) \/ ChildExits(r)
      PROVE  sup'[s] = sup[s]
  BY <1>1, <1>5, SupActsSo DEF ChildExits
<1> QED
  BY <1>1, <1>3, <1>4, <1>5, WhoActs DEF ResetCounters

LEMMA QueueKeeps ==
  ASSUME TypeOK, Next, NEW s \in Sups, ~SupStep(s), Present'
  PROVE  Queued(s) \subseteq Queued(s)'
<1>1. CASE inbox'[s] = inbox[s]
  BY <1>1 DEF Queued
<1>2. ASSUME NEW t \in Tasks, inbox'[s] = Append(inbox[s], t)
      PROVE  Queued(s) \subseteq Queued(s)'
  <2>1. inbox[s] \in Seq(Tasks)
    BY DEF TypeOK
  <2>2. \A i \in DOMAIN inbox[s] : i \in DOMAIN inbox'[s] /\ inbox'[s][i] = inbox[s][i]
    BY <1>2, <2>1
  <2> QED
    BY <2>2 DEF Queued
<1>3. ASSUME NEW t \in Tasks, TaskActs(t)
      PROVE  inbox'[s] = inbox[s] \/ inbox'[s] = Append(inbox[s], t)
  BY <1>3 DEF TypeOK, TaskActs, Continue, StopFlip, RestartRead, RestartFlip, ResetState, DeleteFlip, Send, Await,
         Settle, Remove, LaunchGate, LaunchCheck, Spawn, AwaitSpawn, Arm, BeginShutdown, ShutdownSnapshot, Begin
<1>4. ASSUME NEW r \in Sups, SupStep(r)
      PROVE  inbox'[s] = inbox[s]
  <2>1. r # s
    BY <1>4
  <2> QED
    BY <1>4, <2>1 DEF TypeOK, SupStep, Receive, SupStart, SpawnFailed, GoOnline, Reap, NaturalExit,
      CheckShutdown, ExitStops, ExitGivesUp, ExitRestarts, BackoffElapsed, TakeCommand, BackoffCommand,
      BackoffRestart, BackoffStop, BackoffDelete, KillTimeout, KillDone, KilledForStop, KilledForRestart,
      KilledForDelete, ClearTx, SendersGone, Return
<1>5. ~\E t \in Tasks : Exit(t)
  BY DEF Exit, NoRow, Present
<1>6. ASSUME ResetCounters \/ \E r \in Sups : ChildExits(r)
      PROVE  inbox'[s] = inbox[s]
  BY <1>6 DEF ResetCounters, ChildExits
<1> QED
  BY <1>1, <1>2, <1>3, <1>4, <1>5, <1>6, WhoActs

\* Only an operation that has a command to send takes online from a row whose
\* supervisor is in its select!.
LEMMA Offline ==
  ASSUME TypeOK, SingleSupervisor, Next, NEW s \in Sups, sup[s].pc = "watch", ~SupStep(s),
         Present, Present', row.status = "online", row'.status # "online"
  PROVE  \E t \in Tasks : op'[t].pc = "send" /\ (op'[t].tx = s \/ (RestartFlip(t) /\ op'[t].tx = op[t].tx))
<1>1. row \in Row /\ row.cmdTx = s /\ s # NoSup
  BY NullAssumption DEF TypeOK, Present, NoRow, SingleSupervisor
<1>2. ASSUME NEW r \in Sups, SupStep(r)
      PROVE  FALSE
  <2>1. r # s /\ sup[r].pc = "free"
    BY <1>1, <1>2 DEF SingleSupervisor
  <2> QED
    BY <1>2, <2>1 DEF SupStep, Receive, SupStart, SpawnFailed, GoOnline, Reap, NaturalExit,
         CheckShutdown, ExitStops, ExitGivesUp, ExitRestarts, BackoffElapsed, TakeCommand, BackoffCommand,
         KillTimeout, KillDone, ClearTx, SendersGone
<1>3. ~ResetCounters /\ ~\E r \in Sups : ChildExits(r)
  BY <1>1 DEF ResetCounters, ChildExits, Row
<1>4. ~\E t \in Tasks : Exit(t)
  BY DEF Exit, NoRow, Present
<1>5. PICK t \in Tasks : TaskActs(t)
  BY <1>2, <1>3, <1>4, WhoActs
<1>6. StopFlip(t) \/ RestartFlip(t) \/ DeleteFlip(t)
  <2>1. ~Settle(t) /\ ~ResetState(t)
    BY <1>1 DEF Settle, ResetState, Row
  <2>2. ~Remove(t)
    BY DEF Remove, RemoveProc, NoRow, Present
  <2>3. ~Spawn(t)
    BY <1>1 DEF Spawn, NewSupervisor, AlreadySupervised, RowVanished
  <2>4. ~(RestartRead(t) \/ Send(t) \/ Await(t) \/ LaunchGate(t) \/ LaunchCheck(t) \/ AwaitSpawn(t) \/ Arm(t)
           \/ BeginShutdown(t) \/ ShutdownSnapshot(t) \/ \E kind \in Kinds : Begin(t, kind))
    BY DEF RestartRead, Send, Await, LaunchGate, LaunchCheck, AwaitSpawn, Arm, BeginShutdown,
                    ShutdownSnapshot, Begin
  <2> QED
    BY <1>5, <2>1, <2>2, <2>3, <2>4 DEF TaskActs, Continue
<1>7. CASE StopFlip(t) \/ DeleteFlip(t)
  <2>1. op' = [op EXCEPT ![t].pc = "send", ![t].tx = row.cmdTx]
    BY <1>1, <1>7 DEF StopFlip, DeleteFlip
  <2>2. Moved(t, "send", s)
    BY <1>1, <2>1, MovesWith
  <2> QED
    BY <2>2 DEF Moved
<1>8. CASE RestartFlip(t)
  <2>1. Moved(t, "send", op[t].tx)
    BY <1>8, MovesOn DEF RestartFlip
  <2> QED
    BY <1>8, <2>1 DEF Moved
<1> QED
  BY <1>6, <1>7, <1>8

LEMMA AnnouncedStep ==
  ASSUME BInv, Overlaps, CalmAlone, Announced, Next, Observe
  PROVE  Announced'
<1> SUFFICES ASSUME "restart" \notin overlapped', NEW s \in Sups, sup'[s].pc = "watch", Present',
                    row'.status # "online"
             PROVE  \E t \in Tasks : Coming(t, s)'
  BY DEF Announced
<1>1. TypeOK /\ OpKind /\ SingleSupervisor /\ "restart" \notin overlapped
  BY OverlapGrows DEF BInv, IInv
<1>2. Present
  BY <1>1, RowKeeps
<1>3. ~GoOnline(s)
  BY <1>1, <1>2 DEF GoOnline, TypeOK, Present, Row, NoRow
<1>4. sup[s].pc = "watch" /\ ~SupStep(s) /\ Queued(s) \subseteq Queued(s)'
  BY <1>1, <1>3, Watching, QueueKeeps
<1>5. CASE row.status = "online"
  <2>1. PICK t \in Tasks : /\ op'[t].pc = "send"
                           /\ op'[t].tx = s \/ (RestartFlip(t) /\ op'[t].tx = op[t].tx)
    BY <1>1, <1>2, <1>4, <1>5, Offline
  <2>2. CASE RestartFlip(t) /\ op'[t].tx = op[t].tx
    <3>1. op[t].pc = "restartFlip"
      BY <2>2 DEF RestartFlip, Waiting
    <3>2. t \in calm
      BY <1>1, <3>1 DEF Overlaps, OpKind
    <3>3. s = op[t].tx
      BY <1>4, <3>1, <3>2 DEF CalmAlone, Alone, Looked
    <3> QED
      BY <2>1, <2>2, <3>3 DEF Coming
  <2> QED
    BY <2>1, <2>2 DEF Coming
<1>6. CASE row.status # "online"
  <2>1. PICK t \in Tasks : Coming(t, s)
    BY <1>1, <1>2, <1>4, <1>6 DEF Announced
  <2>2. CASE op'[t] = op[t]
    BY <1>4, <2>1, <2>2 DEF Coming
  <2>3. CASE TaskActs(t) /\ Transition(t)
    <3>1. op[t].pc = "send"
      <4>1. op[t].pc = "await" => t \notin Queued(s)
        BY <2>3 DEF Transition, Begun, Looks, Commands, Launches, BInv, AInv, QueueWaits, Waits, Queued
      <4> QED
        BY <2>1, <4>1 DEF Coming
    <3>2. Send(t)
      BY <2>3, <3>1 DEF TaskActs, Continue, StopFlip, RestartRead, RestartFlip, ResetState, DeleteFlip, Await,
         Settle, Remove, LaunchGate, LaunchCheck, Spawn, AwaitSpawn, Arm, BeginShutdown, ShutdownSnapshot,
         Begin, Waiting
    <3>3. op[t].tx = s
      BY <2>1 DEF Coming
    <3>4. inbox' = [inbox EXCEPT ![s] = Append(@, t)] /\ op' = [op EXCEPT ![t].pc = "await"]
      BY <1>4, <3>2, <3>3 DEF Send
    <3>5. Moved(t, "await", s)
      BY <1>1, <3>3, <3>4, MovesOn
    <3>6. t \in Queued(s)'
      <4>1. inbox[s] \in Seq(Tasks) /\ inbox'[s] = Append(inbox[s], t)
        BY <1>1, <3>4 DEF TypeOK
      <4>2. Len(inbox[s]) + 1 \in DOMAIN inbox'[s] /\ inbox'[s][Len(inbox[s]) + 1] = t
        BY <4>1
      <4> QED
        BY <4>2 DEF Queued
    <3> QED
      BY <3>5, <3>6 DEF Moved, Coming
  <2>4. ~\E u \in Tasks : Exit(u)
    BY DEF Exit, NoRow, Present
  <2> QED
    BY <1>1, <2>2, <2>3, <2>4, MineOrNot
<1> QED
  BY <1>5, <1>6

-----------------------------------------------------------------------------
(* A restart since whose beginning no supervisor has started.              *)

\* What such a restart t has seen of the row is still so, and it has not been
\* told that all is well.
Untouched(t) ==
  /\ op[t].pc \in {"restartFlip", "send", "await"} /\ Present => row.cmdTx \in {op[t].tx, NoSup}
  /\ op[t].pc = "await" => ack[t] # "ok"
  /\ op[t].pc \in {"resetState", "launchGate", "launchCheck", "spawn"} /\ Present =>
       row.cmdTx = NoSup \/ (daemon = "draining" /\ op[t].pc = "launchGate")
  /\ op[t].pc = "awaitSpawn" => ack[t] = "err"
  /\ op[t].pc # "arm"

Respawned == \A t \in Tasks \ respawned : op[t].kind = "restart" => Untouched(t)

\* A running operation that no start has touched still is one it has not.
LEMMA NotRespawned ==
  ASSUME TypeOK, Next, Observe, NEW t \in Tasks \ respawned', op[t].pc # "idle", op'[t].pc # "idle"
  PROVE  /\ t \notin respawned /\ ~NewSup
         /\ \A s \in Sups : sup'[s].pc = "start" => sup[s].pc = "start"
<1>1. t \notin respawned /\ \A s \in Sups : sup'[s].pc = "start" => sup[s].pc = "start"
  BY DEF Observe, Begins
<1>2. ~NewSup
  BY <1>1, NewSupervisorIs DEF NewSup
<1> QED
  BY <1>1, <1>2

\* The flag of the shutdown is never reset.
LEMMA Draining ==
  ASSUME TypeOK, Next, NEW t \in Tasks, op'[t].pc # "idle"
  PROVE  daemon' \in {daemon, "draining"}
<1>1. ~\E u \in Tasks : Exit(u)
  BY DEF Exit, IdleOp
<1> QED
  BY <1>1, WhoActs, TaskActsSo, SupActsSo DEF ResetCounters

\* A step that others make.
LEMMA UntouchedByOthers ==
  ASSUME BInv, Next, Observe, NEW t \in Tasks \ respawned', op'[t] = op[t], op[t].pc # "idle",
         op[t].kind = "restart", Untouched(t)
  PROVE  Untouched(t)'
<1>1. TypeOK /\ OpKind
  BY DEF BInv, IInv
<1>2. ~NewSup /\ \A s \in Sups : sup'[s].pc = "start" => sup[s].pc = "start"
  BY <1>1, NotRespawned
<1>3. Present' => Present /\ row'.cmdTx \in {row.cmdTx, NoSup}
  BY <1>1, <1>2, RowKeeps
<1>4. ack'[t] # ack[t] => ack[t] = "none" /\ (op[t].pc = "await" => ack'[t] # "ok")
  <2> SUFFICES ASSUME ack'[t] # ack[t], op[t].pc = "await", ack'[t] = "ok" PROVE FALSE
    BY AnswerStep
  <2>1. sup[op[t].tx].pc # "start" /\ sup'[op[t].tx].pc = "start"
    BY AnswerStep
  <2>2. op[t].tx \in Sups
    BY DEF BInv, AInv, OpShape
  <2> QED
    BY <1>2, <2>1, <2>2
<1>5. daemon = "draining" => daemon' = "draining"
  BY <1>1, Draining
<1> QED
  BY <1>3, <1>4, <1>5 DEF Untouched

\* A step of its own.
LEMMA UntouchedByItself ==
  ASSUME BInv, Supervised, Answered, Next, Observe, NEW t \in Tasks \ respawned',
         TaskActs(t), Transition(t), op[t].pc # "idle", op'[t].pc # "idle",
         op[t].kind = "restart", Untouched(t)
  PROVE  Untouched(t)'
<1>1. TypeOK /\ OpKind
  BY DEF BInv, IInv
<1>2. ~NewSup
  BY <1>1, NotRespawned
<1>3. Present' => Present /\ row'.cmdTx \in {row.cmdTx, NoSup}
  BY <1>1, <1>2, RowKeeps
<1>4. daemon' \in {daemon, "draining"} /\ daemon \in {"up", "draining"}
  BY <1>1, Draining DEF BInv, IInv, ExitedIsDead, TypeOK
<1>5. CASE Looks(t)
  BY <1>1, <1>3, <1>5 DEF Looks, Moved, Ended, IdleOp, OpKind, Untouched
<1>6. CASE Commands(t)
  <2>1. CASE op[t].pc = "restartFlip"
    BY <1>3, <1>6, <2>1 DEF Commands, Moved, Untouched
  <2>2. CASE op'[t].pc = "await"
    <3>1. op[t].pc = "send" /\ op'[t].tx = op[t].tx
      BY <1>6, <2>2 DEF Commands, Moved, Ended, IdleOp, Fallback
    <3>2. Send(t)
      BY <3>1 DEF TaskActs, Continue, StopFlip, RestartRead, RestartFlip, ResetState, DeleteFlip, Await,
         Settle, Remove, LaunchGate, LaunchCheck, Spawn, AwaitSpawn, Arm, BeginShutdown, ShutdownSnapshot,
         Begin, Waiting
    <3>3. ack'[t] # "ok"
      BY <3>1, <3>2 DEF Send, BInv, AInv, OpShape, TypeOK
    <3> QED
      BY <1>3, <2>2, <3>1, <3>3 DEF Untouched
  <2>3. CASE op[t].pc \in {"send", "await"} /\ op'[t].pc # "await"
    <3>1. op'[t].pc = "launchGate" /\ sup[op[t].tx].pc = "free"
      BY <1>6, <2>3 DEF Commands, Moved, Ended, IdleOp, Fallback, Answered, Untouched
    <3>2. Present => row.cmdTx \in {op[t].tx, NoSup}
      BY <2>3 DEF Untouched
    <3>3. Present => row.cmdTx = NoSup \/ daemon = "draining"
      BY <1>4, <3>1, <3>2 DEF Supervised
    <3> QED
      BY <1>3, <1>4, <3>1, <3>3 DEF Untouched
  <2> QED
    BY <1>1, <1>6, <2>1, <2>2, <2>3 DEF Commands, OpKind
<1>7. CASE Launches(t)
  <2>1. CASE op[t].pc \in {"resetState", "launchCheck"}
    BY <1>3, <1>7, <2>1 DEF Launches, Moved, Ended, IdleOp, Untouched
  <2>2. CASE op[t].pc = "launchGate"
    BY <1>3, <1>7, <2>2 DEF Launches, Moved, Ended, IdleOp, Untouched
  <2>3. CASE op[t].pc = "spawn"
    <3>1. op'[t].pc = "awaitSpawn"
      BY <1>7, <2>3 DEF Launches, Moved
    <3>2. Spawn(t)
      BY <2>3 DEF TaskActs, Continue, StopFlip, RestartRead, RestartFlip, ResetState, DeleteFlip, Send, Await,
         Settle, Remove, LaunchGate, LaunchCheck, AwaitSpawn, Arm, BeginShutdown, ShutdownSnapshot,
         Begin, Waiting
    <3>3. ~AlreadySupervised(t) /\ \A s \in Sups : ~NewSupervisor(t, s)
      BY <1>2, <2>3, <3>2 DEF NewSup, AlreadySupervised, Untouched
    <3>4. ack'[t] = "err"
      BY <1>1, <3>2, <3>3 DEF Spawn, RowVanished, TypeOK
    <3> QED
      BY <3>1, <3>4 DEF Untouched
  <2>4. CASE op[t].pc \in {"awaitSpawn", "arm"}
    BY <1>7, <2>4 DEF Launches, Moved, Ended, IdleOp, Untouched
  <2> QED
    BY <1>7, <2>1, <2>2, <2>3, <2>4 DEF Launches
<1> QED
  BY <1>5, <1>6, <1>7 DEF Transition, Begun

LEMMA RespawnedStep ==
  ASSUME BInv, Supervised, Answered, Respawned, Next, Observe
  PROVE  Respawned'
<1> SUFFICES ASSUME NEW t \in Tasks \ respawned', op'[t].kind = "restart"
             PROVE  Untouched(t)'
  BY DEF Respawned
<1>1. TypeOK /\ OpKind /\ op'[t].pc # "idle"
  BY KindStep DEF BInv, IInv, OpKind
<1>2. ~\E u \in Tasks : Exit(u)
  BY <1>1 DEF Exit, IdleOp
<1>3. CASE op[t].pc = "idle"
  <2>1. Transition(t)
    BY <1>1, <1>2, <1>3, MineOrNot
  <2>2. op'[t].pc = "restartRead"
    BY <1>3, <2>1 DEF Transition, Begun, Looks, Commands, Launches
  <2> QED
    BY <2>2 DEF Untouched
<1>4. CASE op[t].pc # "idle"
  <2>1. op[t].kind = "restart" /\ t \notin respawned
    BY <1>1, <1>4, KindStays, NotRespawned
  <2>2. Untouched(t)
    BY <2>1 DEF Respawned
  <2> QED
    BY <1>1, <1>2, <1>4, <2>1, <2>2, MineOrNot, UntouchedByOthers, UntouchedByItself
<1> QED
  BY <1>3, <1>4

\* The answer Ok of a restart that nothing has touched is none it can give.
LEMMA RestartEnds ==
  ASSUME BInv, Respawned, Next, NEW t \in Tasks, op[t].kind = "restart", ReturnsOk(t)
  PROVE  t \in respawned
<1> SUFFICES ASSUME Untouched(t) PROVE FALSE
  BY DEF Respawned
<1>1. Transition(t)
  <2>1. ~\E u \in Tasks : Exit(u)
    BY DEF ReturnsOk, Returns, Exit
  <2> QED
    BY <2>1, MineOrNot DEF BInv, IInv, ReturnsOk, Returns
<1>2. op[t].pc # "arm" /\ ~(op[t].pc = "awaitSpawn" /\ ack[t] = "ok")
  BY DEF Untouched
<1>3. CASE op[t].pc = "await"
  BY <1>1, <1>3 DEF Transition, Begun, Looks, Commands, Launches, Moved, Fallback, Untouched, ReturnsOk, Returns
<1>4. CASE op[t].pc = "launchCheck" /\ Present
  BY <1>1, <1>4 DEF Transition, Begun, Looks, Commands, Launches, Moved, Untouched, ReturnsOk, Returns
<1> QED
  BY <1>2, <1>3, <1>4 DEF ReturnsOk

-----------------------------------------------------------------------------
(* What the promises follow from.                                          *)

\* The end of a calm stop or delete: no supervisor is left.
LEMMA EndIsAlone ==
  ASSUME BInv, CalmAlone, GoneIsDead, "delete" \notin overlapped, NEW t \in calm, t \in Tasks,
         Transition(t), Ended(t), op[t].pc # "idle", op[t].kind \in {"stop", "kill", "delete"}
  PROVE  \A s \in Sups : sup[s].pc = "free"
<1>1. OpKind /\ op'[t].pc \in {"idle", "drained"}
  BY DEF BInv, Ended, IdleOp
<1>2. CASE ~Present
  BY <1>2 DEF GoneIsDead
<1>3. CASE Present /\ op[t].pc \in {"settle", "remove"}
  <2>1. Alone(t) /\ op[t].tx = NoSup
    BY <1>1, <1>3 DEF CalmAlone, Looked, OpKind
  <2> QED
    BY <2>1, NullAssumption DEF Alone
<1>4. CASE Present /\ row.cmdTx = NoSup
  BY <1>4, NullAssumption DEF BInv, IInv, SingleSupervisor
<1>5. CASE Present /\ row.cmdTx # NoSup /\ op[t].pc \notin {"settle", "remove"}
  <2>1. ~Looks(t)
    BY <1>1, <1>5 DEF Looks, Moved
  <2>2. ~Launches(t)
    BY <1>1 DEF Launches, OpKind, LaunchPcs, Starts
  <2>3. ~Commands(t)
    BY <1>1, <1>5 DEF Commands, Moved, Fallback, BInv, AInv, DeleteDone
  <2> QED
    BY <2>1, <2>2, <2>3 DEF Transition, Begun
<1> QED
  BY <1>2, <1>3, <1>4, <1>5

\* What the row says then, if it is there.
LEMMA EndIsDown ==
  ASSUME BInv, RestStatus, Next, \A s \in Sups : sup[s].pc = "free", NEW t \in Tasks, TaskActs(t), Ended(t),
         op[t].pc # "idle", op[t].kind \in {"stop", "kill", "delete"}, Present', daemon' = "up"
  PROVE  row'.status \in {"stopped", "errored"}
<1>1. TypeOK /\ OpKind /\ Transition(t)
  BY TaskActsSo DEF BInv, IInv
<1>2. Present /\ daemon = "up"
  BY <1>1, RowKeeps, TaskActsSo
<1>3. op'[t].pc = "idle"
  BY <1>1, <1>2 DEF Ended, IdleOp, OpKind
<1>4. row \in Row
  BY <1>1, <1>2 DEF TypeOK, Present, NoRow
<1>5. CASE op[t].pc = "stopFlip"
  <2>1. StopFlip(t)
    BY <1>5 DEF TaskActs, Continue, Send, RestartRead, RestartFlip, ResetState, DeleteFlip, Await,
         Settle, Remove, LaunchGate, LaunchCheck, Spawn, AwaitSpawn, Arm, BeginShutdown, ShutdownSnapshot,
         Begin, Waiting
  <2>2. row.cmdTx # NoSup => op'[t].pc = "send"
    BY <1>1, <1>2, <1>5 DEF Transition, Begun, Looks, Commands, Launches, Moved, Ended, IdleOp
  <2> QED
    BY <1>2, <1>3, <1>4, <2>1, <2>2 DEF StopFlip, Row
<1>6. CASE op[t].pc = "settle"
  <2>1. Settle(t)
    BY <1>6 DEF TaskActs, Continue, Send, RestartRead, RestartFlip, ResetState, DeleteFlip, Await,
         StopFlip, Remove, LaunchGate, LaunchCheck, Spawn, AwaitSpawn, Arm, BeginShutdown, ShutdownSnapshot,
         Begin, Waiting
  <2>2. row.status \in {"stopping", "stopped", "errored"}
    BY <1>2 DEF RestStatus
  <2> QED
    BY <1>4, <2>1, <2>2 DEF Settle, Row
<1>7. CASE op[t].pc = "remove"
  <2>1. Remove(t)
    BY <1>7 DEF TaskActs, Continue, Send, RestartRead, RestartFlip, ResetState, DeleteFlip, Await,
         StopFlip, Settle, LaunchGate, LaunchCheck, Spawn, AwaitSpawn, Arm, BeginShutdown, ShutdownSnapshot,
         Begin, Waiting
  <2> QED
    BY <2>1 DEF Remove, RemoveProc, NoRow, Present
<1>8. CASE op[t].pc \notin {"stopFlip", "settle", "remove"}
  <2>1. ~Looks(t)
    BY <1>1, <1>2, <1>3, <1>8 DEF Looks, Moved, OpKind
  <2>2. ~Launches(t)
    BY <1>1 DEF Launches, OpKind, LaunchPcs, Starts
  <2>3. ~Commands(t)
    BY <1>2, <1>3, <1>8 DEF Commands, Moved, Fallback, BInv, AInv, DeleteDone
  <2> QED
    BY <1>1, <2>1, <2>2, <2>3 DEF Transition, Begun
<1> QED
  BY <1>5, <1>6, <1>7, <1>8

LEMMA StopEnds ==
  ASSUME BInv, RestStatus, CalmAlone, GoneIsDead, Next, NEW t \in Tasks,
         Returns(t), op[t].kind \in {"stop", "kill", "delete"}, t \in calm, "delete" \notin overlapped
  PROVE  Down'
<1>1. TypeOK /\ OpKind /\ daemon # "exited"
  BY DEF BInv, IInv, ExitedIsDead, Returns
<1>2. TaskActs(t) /\ Transition(t)
  <2>1. ~\E u \in Tasks : Exit(u)
    BY DEF Returns, Exit
  <2> QED
    BY <1>1, <2>1, MineOrNot DEF Returns
<1>3. Ended(t)
  <2>1. ~Begun(t)
    BY DEF Begun, Returns
  <2>2. CASE Looks(t)
    BY <1>1, <2>2 DEF Looks, Moved, Returns, OpKind, Ended
  <2>3. CASE Commands(t) \/ Launches(t)
    BY <2>3 DEF Commands, Launches, Moved, Fallback, Returns, Ended
  <2> QED
    BY <1>2, <2>1, <2>2, <2>3 DEF Transition
<1>4. \A s \in Sups : sup[s].pc = "free"
  BY <1>2, <1>3, EndIsAlone DEF Returns
<1>5. UNCHANGED <<sup, child>>
  BY <1>1, <1>2, NoSpawn DEF Returns
<1>6. \A s \in Sups : child[s] # "running"
  BY <1>1, <1>4 DEF BInv, IInv, ChildPhase, HasChild
<1>7. Present' /\ daemon' = "up" => row'.status \in {"stopped", "errored"}
  BY <1>2, <1>3, <1>4, EndIsDown DEF Returns
<1> QED
  BY <1>4, <1>5, <1>6, <1>7 DEF Down

\* The inductive invariant of the promises: who holds what, who has been
\* answered, what the row says at rest, and what the histories tell of it.
PInv == /\ BInv /\ Supervised /\ Answered /\ RestStatus
        /\ Overlaps /\ CalmAlone /\ GoneIsDead /\ LateOnly /\ Announced /\ Respawned
        /\ DropsNeedARace /\ OrphansAreLate

LEMMA PromiseInit ==
  ASSUME Init, ObserveInit
  PROVE  PInv
<1>1. BInv
  BY InitSafe, InitReply, KindInit DEF BInv
<1>2. /\ Present /\ row.cmdTx = NoSup /\ row.status = "stopped" /\ daemon = "up"
      /\ \A s \in Sups : sup[s].pc = "free" /\ child[s] = "none"
  BY DEF Init, NewRow, Present, FreeSup
<1>3. PICK t0 \in Tasks \cup {NoTask} :
        \A t \in Tasks : op[t] = IF t = t0 THEN [kind |-> "start", pc |-> "launchGate", tx |-> NoSup]
                                           ELSE IdleOp
  <2>1. CASE Autostart
    BY <2>1 DEF Init
  <2>2. CASE ~Autostart
    BY <2>2, NullAssumption DEF Init
  <2> QED
    BY <2>1, <2>2
<1>4. /\ \A t \in Tasks : op[t].pc \in {"idle", "launchGate"} /\ op[t].kind \in {"none", "start"}
      /\ Overlaps
  BY <1>3 DEF IdleOp, Overlaps, ObserveInit, NoStartBut, Starts
<1>5. Supervised /\ Answered /\ RestStatus /\ GoneIsDead /\ Announced /\ DropsNeedARace /\ OrphansAreLate
  BY <1>2, <1>4 DEF Supervised, Answered, RestStatus, GoneIsDead, Announced, DropsNeedARace, OrphansAreLate
<1>6. CalmAlone /\ LateOnly /\ Respawned
  BY <1>4 DEF CalmAlone, LateOnly, Respawned, ObserveInit, Looked
<1> QED
  BY <1>1, <1>4, <1>5, <1>6 DEF PInv

LEMMA PromiseStep ==
  ASSUME PInv, [Next /\ Observe]_allVars
  PROVE  PInv'
<1>1. CASE Next /\ Observe
  <2>1. BInv'
    BY <1>1, StepSafe, StepReply, KindStep DEF PInv, BInv, IInv
  <2>2. Supervised' /\ Answered' /\ RestStatus'
    BY <1>1, SupervisedStep, AnsweredStep, RestStatusStep DEF PInv
  <2>3. Overlaps' /\ CalmAlone' /\ GoneIsDead' /\ LateOnly'
    BY <1>1, OverlapsStep, CalmAloneStep, GoneIsDeadStep, LateOnlyStep DEF PInv
  <2>4. Announced' /\ Respawned' /\ DropsNeedARace' /\ OrphansAreLate'
    BY <1>1, AnnouncedStep, RespawnedStep, DropsStep, OrphansStep DEF PInv
  <2> QED
    BY <2>1, <2>2, <2>3, <2>4 DEF PInv
<1>2. CASE UNCHANGED allVars
  <2>1. UNCHANGED <<row, watcher, daemon, sup, inbox, child, op, ack, calm, respawned, late, overlapped>>
    BY <1>2 DEF allVars, vars, observed
  <2>2. IInv' /\ AInv'
    BY <2>1, StepSafe, StepReply DEF PInv, BInv, vars
  <2>3. OpKind' /\ Supervised' /\ Answered' /\ RestStatus'
    BY <2>1 DEF PInv, BInv, OpKind, Starts, Supervised, Answered, RestStatus, Present
  <2>4. Overlaps' /\ CalmAlone' /\ GoneIsDead' /\ LateOnly'
    BY <2>1 DEF PInv, Overlaps, CalmAlone, GoneIsDead, LateOnly, Alone, Present
  <2>5. Announced' /\ Respawned' /\ DropsNeedARace' /\ OrphansAreLate'
    BY <2>1 DEF PInv, Announced, Coming, Queued, Respawned, Untouched, DropsNeedARace, OrphansAreLate, Present
  <2> QED
    BY <2>2, <2>3, <2>4, <2>5 DEF PInv, BInv
<1> QED
  BY <1>1, <1>2

LEMMA PromiseInvariant == PromiseSpec => []PInv
<1>1. Init /\ ObserveInit => PInv
  BY PromiseInit
<1>2. PInv /\ [Next /\ Observe]_allVars => PInv'
  BY PromiseStep
<1> QED
  BY <1>1, <1>2, PTL DEF PromiseSpec

\* A running child is dropped without its kill sequence only after a delete has
\* overlapped a start or restart: as long as none has, the row goes only when no
\* other supervisor is left, so a supervisor always has its channel in the row.
THEOREM DropsNeedARaceAlways == PromiseSpec => []DropsNeedARace
<1>1. PInv => DropsNeedARace
  BY DEF PInv
<1> QED
  BY <1>1, PromiseInvariant, PTL

\* A row comes to rest at Stopping with its child running only after a restart
\* has overlapped another start: otherwise whoever took online from the row has a
\* command on its way to the supervisor.
THEOREM StuckNeedsARaceAlways == PromiseSpec => []StuckNeedsARace
<1>1. PInv => StuckNeedsARace
  BY DEF PInv, StuckNeedsARace, NeverStuckStopping, AtRest, Announced, Coming
<1> QED
  BY <1>1, PromiseInvariant, PTL

\* graceful_shutdown leaves behind only children of supervisors that started
\* after it had set shutting_down, unless a delete raced a start.
THEOREM OrphansAreLateAlways == PromiseSpec => []OrphansAreLate
<1>1. PInv => OrphansAreLate
  BY DEF PInv
<1> QED
  BY <1>1, PromiseInvariant, PTL

\* A stop, a shutdown's stop or a delete that no start overlapped returns with
\* the process down, whatever exits, automatic restarts, backoff waits, failed
\* spawns and other stops and deletes raced it.
THEOREM StopWinsAlways == PromiseSpec => StopWins
<1> DEFINE Wins == \A t \in Tasks :
                     /\ Returns(t)
                     /\ op[t].kind \in {"stop", "kill", "delete"}
                     /\ t \in calm /\ "delete" \notin overlapped
                     => Down'
<1>1. PInv /\ [Next /\ Observe]_allVars => [Wins]_allVars
  BY StopEnds DEF PInv
<1> QED
  BY <1>1, PromiseInvariant, PTL DEF PromiseSpec, StopWins

\* restart_one never answers Ok for a restart that did nothing: a supervisor has
\* started, or gone back to spawn its child, since the restart began.
THEOREM RestartTakesEffectAlways == PromiseSpec => RestartTakesEffect
<1> DEFINE Took == \A t \in Tasks : op[t].kind = "restart" /\ ReturnsOk(t) => t \in respawned
<1>1. PInv /\ [Next /\ Observe]_allVars => [Took]_allVars
  BY RestartEnds DEF PInv
<1> QED
  BY <1>1, PromiseInvariant, PTL DEF PromiseSpec, RestartTakesEffect

-----------------------------------------------------------------------------
(* One life cycle.                                                         *)

\* Never two supervisors, be the row there or not.
OneSup == \A r, s \in Sups : sup[r].pc # "free" /\ sup[s].pc # "free" => r = s

LInv == BInv /\ Supervised /\ RestStatus /\ OneSup

LEMMA OneSupStep ==
  ASSUME BInv, OneSup, Next
  PROVE  OneSup'
<1>1. TypeOK /\ OpKind /\ SingleSupervisor
  BY DEF BInv, IInv
<1>2. ASSUME NEW r \in Sups, NEW s \in Sups, sup[r].pc = "free", sup'[r].pc # "free", sup'[s].pc # "free"
      PROVE  r = s
  <2>1. PICK u \in Tasks : NewSupervisor(u, r)
    BY <1>1, <1>2, NewTask
  <2>2. Present /\ row.cmdTx = NoSup /\ \A q \in Sups \ {r} : sup'[q] = sup[q]
    BY <1>1, <2>1, NewSupervisorIs
  <2>3. \A q \in Sups : sup[q].pc = "free"
    BY <1>1, <2>2, NullAssumption DEF SingleSupervisor
  <2> QED
    BY <1>2, <2>2, <2>3
<1> QED
  BY <1>2 DEF OneSup

\* The life cycle is at the place of a supervisor beside which there is none.
LEMMA PhaseIs ==
  ASSUME NEW s \in Sups
  PROVE  /\ (\A r \in Sups \ {s} : sup[r].pc = "free") => LifePhase = PhaseOf(s)
         /\ (\A r \in Sups \ {s} : sup'[r].pc = "free") => LifePhase' = PhaseOf(s)'
<1>1. ASSUME \A r \in Sups \ {s} : sup[r].pc = "free" PROVE LifePhase = PhaseOf(s)
  <2>1. CASE sup[s].pc = "free"
    <3>1. PhaseOf(s) = "none"
      BY <2>1 DEF PhaseOf
    <3> QED
      BY <1>1, <2>1, <3>1 DEF LifePhase
  <2>2. CASE sup[s].pc # "free"
    <3>1. (CHOOSE r \in Sups : sup[r].pc # "free") = s
      BY <1>1, <2>2
    <3> QED
      BY <2>2, <3>1 DEF LifePhase
  <2> QED
    BY <2>1, <2>2
<1>2. ASSUME \A r \in Sups \ {s} : sup'[r].pc = "free" PROVE LifePhase' = PhaseOf(s)'
  <2>1. CASE sup'[s].pc = "free"
    <3>1. PhaseOf(s)' = "none"
      BY <2>1 DEF PhaseOf
    <3> QED
      BY <1>2, <2>1, <3>1 DEF LifePhase
  <2>2. CASE sup'[s].pc # "free"
    <3>1. (CHOOSE r \in Sups : sup'[r].pc # "free") = s
      BY <1>2, <2>2
    <3> QED
      BY <2>2, <3>1 DEF LifePhase
  <2> QED
    BY <2>1, <2>2
<1> QED
  BY <1>1, <1>2

\* Nobody looks after the app, or someone does.
LEMMA PhaseNone ==
  /\ (\A s \in Sups : sup[s].pc = "free") => LifePhase = "none"
  /\ (\A s \in Sups : sup'[s].pc = "free") => LifePhase' = "none"
  BY DEF LifePhase

LEMMA PhaseSome ==
  ASSUME TypeOK, NEW s \in Sups, sup[s].pc # "free", OneSup
  PROVE  LifePhase # "none"
<1>1. LifePhase = PhaseOf(s)
  BY PhaseIs DEF OneSup
<1>2. sup[s].pc \in SupPcs
  BY DEF TypeOK, SupTask
<1> QED
  BY <1>1, <1>2 DEF PhaseOf, SupPcs

\* What a step of the one supervisor can change of phase and process.
LEMMA SupShows ==
  ASSUME LInv, NEW s \in Sups, SupStep(s), sup[s].pc # "free"
  PROVE  /\ LifePhase = PhaseOf(s) /\ LifePhase' = PhaseOf(s)'
         /\ Alive = (child[s] = "running") /\ Alive' = (child'[s] = "running")
         /\ UNCHANGED daemon /\ daemon # "exited"
<1>1. /\ \A r \in Sups \ {s} : sup[r].pc = "free" /\ sup'[r] = sup[r]
      /\ UNCHANGED daemon /\ daemon # "exited"
  BY SupActsSo DEF LInv, BInv, IInv, OneSup, ExitedIsDead
<1>2. LifePhase = PhaseOf(s) /\ LifePhase' = PhaseOf(s)'
  BY <1>1, PhaseIs
<1>3. \A r \in Sups \ {s} : child[r] # "running" /\ child'[r] = child[r]
  <2>1. \A r \in Sups \ {s} : child'[r] = child[r]
    BY DEF LInv, BInv, IInv, TypeOK, SupStep, Receive, SupStart, SpawnFailed, GoOnline, Reap, NaturalExit,
      CheckShutdown, ExitStops, ExitGivesUp, ExitRestarts, BackoffElapsed, TakeCommand, BackoffCommand,
      KillTimeout, KillDone, ClearTx, SendersGone
  <2> QED
    BY <1>1, <2>1 DEF LInv, BInv, IInv, ChildPhase, HasChild
<1>4. Alive = (child[s] = "running")
  BY <1>3 DEF Alive
<1>5. Alive' = (child'[s] = "running")
  BY <1>3 DEF Alive
<1> QED
  BY <1>1, <1>2, <1>4, <1>5

\* From place to place, in the life cycle's words.
LEMMA Places ==
  ASSUME NEW s \in Sups
  PROVE  /\ sup[s].pc \in {"start", "failed"} => PhaseOf(s) = "starting"
         /\ sup[s].pc = "born" => PhaseOf(s) = "born"
         /\ sup[s].pc = "watch" => PhaseOf(s) = "up"
         /\ sup[s].pc = "reaped" => PhaseOf(s) = "ended"
         /\ sup[s].pc \in {"exited", "decide"} =>
              PhaseOf(s) = IF sup[s].verdict.kind = "restart" THEN "reviving" ELSE "retiring"
         /\ sup[s].pc = "backoff" => PhaseOf(s) = "waiting"
         /\ sup[s].pc \in {"kill", "sigkill", "killed"} => PhaseOf(s) = "killing"
         /\ sup[s].pc = "clear" => PhaseOf(s) = "leaving"
         /\ sup[s].pc = "free" => PhaseOf(s) = "none"
  BY DEF PhaseOf

LEMMA PlacesNext ==
  ASSUME NEW s \in Sups
  PROVE  /\ sup'[s].pc \in {"start", "failed"} => PhaseOf(s)' = "starting"
         /\ sup'[s].pc = "born" => PhaseOf(s)' = "born"
         /\ sup'[s].pc = "watch" => PhaseOf(s)' = "up"
         /\ sup'[s].pc = "reaped" => PhaseOf(s)' = "ended"
         /\ sup'[s].pc \in {"exited", "decide"} =>
              PhaseOf(s)' = IF sup'[s].verdict.kind = "restart" THEN "reviving" ELSE "retiring"
         /\ sup'[s].pc = "backoff" => PhaseOf(s)' = "waiting"
         /\ sup'[s].pc \in {"kill", "sigkill", "killed"} => PhaseOf(s)' = "killing"
         /\ sup'[s].pc = "clear" => PhaseOf(s)' = "leaving"
         /\ sup'[s].pc = "free" => PhaseOf(s)' = "none"
  BY DEF PhaseOf

\* What the row says after the writes that several steps share.
LEMMA Writes ==
  ASSUME TypeOK
  PROVE  /\ \A what \in Status : SetDead(what) => Life!Says(what)
         /\ \A pid : ManualRestart(pid) => Life!Says("launching")
         /\ RemoveProc => row'.status = "absent"
<1>1. row \in Row \cup {NoRow} /\ (Present => row \in Row)
  BY DEF TypeOK, Present, NoRow
<1>2. ASSUME NEW what \in Status, SetDead(what) PROVE Life!Says(what)
  BY <1>1, <1>2 DEF SetDead, Present, Row, Life!Says, Life!Listed
<1>3. ASSUME NEW pid, ManualRestart(pid) PROVE Life!Says("launching")
  BY <1>1, <1>3 DEF ManualRestart, Present, Row, Life!Says, Life!Listed
<1>4. RemoveProc => row'.status = "absent"
  BY DEF RemoveProc, NoRow
<1> QED
  BY <1>2, <1>3, <1>4

LEMMA StatusNames ==
  /\ "launching" \in Status /\ "online" \in Status /\ "stopping" \in Status
  /\ "stopped" \in Status /\ "errored" \in Status /\ "waiting" \in Status
  BY DEF Status

LEMMA SupLife ==
  ASSUME LInv, NEW s \in Sups, SupStep(s)
  PROVE  Life!LifeCycle \/ UNCHANGED Life!vars
<1> DEFINE p == PhaseOf(s)
           q == PhaseOf(s)'
<1>t. /\ TypeOK /\ sup[s] \in SupTask /\ row \in Row \cup {NoRow}
      /\ (Present => row \in Row) /\ (Present <=> Life!Listed)
  BY DEF LInv, BInv, IInv, TypeOK, Present, NoRow, Life!Listed
<1>f. sup[s].pc # "free"
  BY DEF SupStep, Receive, SupStart, SpawnFailed, GoOnline, Reap, NaturalExit,
      CheckShutdown, ExitStops, ExitGivesUp, ExitRestarts, BackoffElapsed, TakeCommand, BackoffCommand,
      KillTimeout, KillDone, ClearTx, SendersGone
<1>s. /\ LifePhase = p /\ LifePhase' = q
      /\ Alive = (child[s] = "running") /\ Alive' = (child'[s] = "running")
      /\ UNCHANGED daemon /\ daemon # "exited"
  BY <1>f, SupShows
<1>c. /\ ~HasChild(s) => child[s] # "running"
      /\ daemon \in {"up", "draining"}
  BY <1>s, <1>t DEF LInv, BInv, IInv, ChildPhase, TypeOK
<1>r. ASSUME NEW okay, Return(s, okay)
      PROVE  q = "none"
  BY <1>t, <1>r, ReturnFrees, PlacesNext
<1>m. ASSUME NEW pc \in SupPcs, sup' = [sup EXCEPT ![s].pc = pc]
      PROVE  sup'[s].pc = pc /\ sup'[s].verdict = sup[s].verdict
  BY <1>t, <1>m DEF TypeOK, SupTask
<1> HIDE DEF p, q
<1>1. CASE SupStart(s)
  <2>1. p = "starting" /\ ~Alive /\ UNCHANGED row
    BY <1>1, <1>c, <1>s, Places DEF SupStart, HasChild, p
  <2>2. CASE ~Present /\ Return(s, {}) /\ UNCHANGED child
    BY <1>r, <1>s, <1>t, <2>1, <2>2 DEF Life!LifeCycle, Life!Forget, Life!Go
  <2>3. CASE Present /\ sup' = [sup EXCEPT ![s].pc = "born"] /\ child' = [child EXCEPT ![s] = "running"]
    <3>1. q = "born" /\ Alive' = TRUE
      BY <1>m, <1>s, <1>t, <2>3, PcNames, PlacesNext DEF q, TypeOK
    <3> QED
      BY <1>s, <1>t, <2>1, <2>3, <3>1 DEF Life!LifeCycle, Life!Create, Life!Go
  <2>4. CASE sup' = [sup EXCEPT ![s].pc = "failed"] /\ UNCHANGED child
    <3>1. q = "starting"
      BY <1>m, <2>4, PcNames, PlacesNext DEF q
    <3> QED
      BY <1>s, <2>1, <2>4, <3>1 DEF Life!vars
  <2> QED
    BY <1>1, <2>2, <2>3, <2>4 DEF SupStart
<1>2. CASE SpawnFailed(s)
  <2>1. p = "starting" /\ Life!Says("errored") /\ UNCHANGED child
    BY <1>2, <1>t, Places, Writes, StatusNames DEF SpawnFailed, p
  <2>2. q = "leaving"
    BY <1>2, <1>t, PlacesNext DEF SpawnFailed, q, TypeOK, SupTask
  <2> QED
    BY <1>s, <2>1, <2>2 DEF Life!LifeCycle, Life!FailToCreate, Life!Go
<1>3. CASE GoOnline(s)
  <2>1. p = "born" /\ Life!Says("online") /\ UNCHANGED child
    BY <1>3, <1>t, Places DEF GoOnline, p, Present, Row, Life!Says, Life!Listed
  <2>2. q = "up"
    BY <1>3, <1>t, PlacesNext DEF GoOnline, q, TypeOK, SupTask
  <2> QED
    BY <1>s, <2>1, <2>2 DEF Life!LifeCycle, Life!Publish, Life!Go
<1>4. CASE Reap(s)
  <2>1. ~Alive /\ ~Alive' /\ UNCHANGED row
    BY <1>4, <1>s, <1>t DEF Reap, TypeOK
  <2>2. CASE sup[s].pc = "watch"
    <3>1. p = "up" /\ q = "ended"
      BY <1>4, <1>t, <2>2, Places, PlacesNext DEF Reap, p, q, TypeOK, SupTask
    <3> QED
      BY <1>s, <2>1, <3>1 DEF Life!LifeCycle, Life!Notice, Life!Go
  <2>3. CASE sup[s].pc # "watch"
    <3>1. p = "killing" /\ q = "killing"
      BY <1>4, <1>t, <2>3, Places, PlacesNext DEF Reap, p, q, TypeOK, SupTask
    <3> QED
      BY <1>s, <2>1, <3>1 DEF Life!vars
  <2> QED
    BY <2>2, <2>3
<1>5. CASE NaturalExit(s)
  <2>1. p = "ended" /\ ~Alive /\ UNCHANGED child
    BY <1>5, <1>c, <1>s, Places DEF NaturalExit, HasChild, p
  <2>2. CASE ~Present /\ Return(s, {}) /\ UNCHANGED row
    BY <1>r, <1>s, <1>t, <2>1, <2>2 DEF Life!LifeCycle, Life!Forget, Life!Go
  <2>3. CASE Present /\ row' = [row EXCEPT !.pid = NoSup]
    <3>1. PICK clean \in BOOLEAN, quick \in BOOLEAN :
            sup' = [sup EXCEPT ![s].pc = "exited", ![s].verdict = Decide(row, clean, quick)]
      BY <1>5, <2>3 DEF NaturalExit
    <3>2. sup'[s].pc = "exited" /\ sup'[s].verdict = Decide(row, clean, quick)
      BY <1>t, <3>1 DEF TypeOK, SupTask
    <3> DEFINE verdict == Decide(row, clean, quick)
    <3>3. /\ q = IF verdict.kind = "restart" THEN "reviving" ELSE "retiring"
          /\ verdict.kind = "restart" => Autorestart /\ row.status \notin Life!Ending
      <4>1. q = IF verdict.kind = "restart" THEN "reviving" ELSE "retiring"
        BY <3>2, PlacesNext DEF q
      <4>2. verdict.kind = "restart" => Autorestart /\ row.status \notin Life!Ending
        BY DEF Decide, Life!Ending
      <4> QED
        BY <4>1, <4>2
    <3> HIDE DEF verdict
    <3>4. row'.status = row.status
      BY <1>t, <2>3 DEF Row
    <3> QED
      BY <1>s, <1>t, <2>1, <2>3, <3>3, <3>4 DEF Life!LifeCycle, Life!Judge, Life!Go
  <2> QED
    BY <1>5, <2>2, <2>3 DEF NaturalExit
<1>6. CASE CheckShutdown(s)
  <2>1. UNCHANGED <<row, child>>
    BY <1>6 DEF CheckShutdown
  <2>2. CASE daemon = "draining" /\ Return(s, {})
    <3>1. p \in {"retiring", "reviving"} /\ q = "none"
      BY <1>6, <1>r, <2>2, Places DEF CheckShutdown, p
    <3> QED
      BY <1>s, <2>1, <2>2, <3>1 DEF Life!LifeCycle, Life!Abandon, Life!Go
  <2>3. CASE sup' = [sup EXCEPT ![s].pc = "decide"]
    <3>1. p = q
      BY <1>6, <1>m, <2>3, PcNames, Places, PlacesNext DEF CheckShutdown, p, q
    <3> QED
      BY <1>s, <2>1, <3>1 DEF Life!vars
  <2> QED
    BY <1>6, <2>2, <2>3 DEF CheckShutdown
<1>7. CASE ExitStops(s)
  <2>1. p = "retiring" /\ Life!Says("stopped") /\ UNCHANGED child
    BY <1>7, <1>t, Places, Writes, StatusNames DEF ExitStops, p
  <2>2. q = "leaving"
    BY <1>7, <1>t, PlacesNext DEF ExitStops, q, TypeOK, SupTask
  <2> QED
    BY <1>s, <2>1, <2>2 DEF Life!LifeCycle, Life!Retire, Life!Go
<1>8. CASE ExitGivesUp(s)
  <2>1. p = "retiring" /\ Life!Says("errored") /\ UNCHANGED child
    BY <1>8, <1>t, Places DEF ExitGivesUp, p, Present, Row, Life!Says, Life!Listed
  <2>2. q = "leaving"
    BY <1>8, <1>t, PlacesNext DEF ExitGivesUp, q, TypeOK, SupTask
  <2> QED
    BY <1>s, <2>1, <2>2 DEF Life!LifeCycle, Life!Retire, Life!Go
<1>9. CASE ExitRestarts(s)
  <2>1. p = "reviving" /\ UNCHANGED child
    BY <1>9, Places DEF ExitRestarts, p
  <2>2. Life!Says(IF Delayed THEN "waiting" ELSE "launching")
    BY <1>9, <1>t DEF ExitRestarts, Present, Row, Life!Says, Life!Listed
  <2>3. q = IF Delayed THEN "waiting" ELSE "starting"
    BY <1>9, <1>t, PlacesNext DEF ExitRestarts, q, TypeOK, SupTask
  <2> QED
    BY <1>s, <2>1, <2>2, <2>3 DEF Life!LifeCycle, Life!Revive, Life!Go
<1>10. CASE BackoffElapsed(s)
  <2>1. p = "waiting" /\ q = "starting" /\ UNCHANGED <<row, child>>
    BY <1>10, <1>m, PcNames, Places, PlacesNext DEF BackoffElapsed, p, q
  <2> QED
    BY <1>s, <2>1 DEF Life!LifeCycle, Life!Elapse, Life!Go
<1>11. CASE TakeCommand(s)
  <2>1. p = "up" /\ Life!Says("stopping") /\ UNCHANGED child
    BY <1>11, <1>t, Places DEF TakeCommand, p, Present, Row, Life!Says, Life!Listed
  <2>2. q = "killing"
    BY <1>11, <1>t, PlacesNext DEF TakeCommand, q, TypeOK, SupTask
  <2> QED
    BY <1>s, <2>1, <2>2 DEF Life!LifeCycle, Life!BeginKill, Life!Go
<1>o. ASSUME NEW from, p = from, child[s] # "running", UNCHANGED child,
             \/ q = "leaving" /\ Life!Says("stopped")
             \/ q = "starting" /\ Life!Says("launching")
             \/ q = "none" /\ row'.status = "absent"
      PROVE  Life!Obey(from)
  BY <1>s, <1>o DEF Life!Obey, Life!Go
<1>12. CASE BackoffCommand(s)
  <2>1. p = "waiting" /\ child[s] # "running" /\ UNCHANGED child
    BY <1>12, <1>c, Places DEF BackoffCommand, HasChild, p
  <2>2. PICK t : BackoffRestart(s, t) \/ BackoffStop(s, t) \/ BackoffDelete(s, t)
    BY <1>12 DEF BackoffCommand
  <2>3. CASE BackoffRestart(s, t)
    <3>1. q = "starting" /\ Life!Says("launching")
      BY <1>m, <1>t, <2>3, PcNames, PlacesNext, Writes DEF BackoffRestart, q
    <3> QED
      BY <1>o, <2>1, <3>1 DEF Life!LifeCycle
  <2>4. CASE BackoffStop(s, t)
    <3>1. q = "leaving" /\ Life!Says("stopped")
      BY <1>t, <2>4, PlacesNext, Writes, StatusNames DEF BackoffStop, q, TypeOK, SupTask
    <3> QED
      BY <1>o, <2>1, <3>1 DEF Life!LifeCycle
  <2>5. CASE BackoffDelete(s, t)
    <3>1. q = "none" /\ row'.status = "absent"
      BY <1>r, <1>t, <2>5, Writes DEF BackoffDelete
    <3> QED
      BY <1>o, <2>1, <3>1 DEF Life!LifeCycle
  <2> QED
    BY <2>2, <2>3, <2>4, <2>5
<1>13. CASE KillTimeout(s)
  <2>1. p = "killing" /\ q = "killing" /\ UNCHANGED <<row, child>>
    BY <1>13, <1>m, PcNames, Places, PlacesNext DEF KillTimeout, p, q
  <2> QED
    BY <1>s, <2>1 DEF Life!vars
<1>14. CASE KillDone(s)
  <2>1. p = "killing" /\ child[s] # "running" /\ UNCHANGED child
    BY <1>14, <1>c, Places DEF KillDone, HasChild, p
  <2>2. PICK t : KilledForStop(s, t) \/ KilledForRestart(s, t) \/ KilledForDelete(s, t)
    BY <1>14 DEF KillDone
  <2>3. CASE KilledForRestart(s, t)
    <3>1. q = "starting" /\ Life!Says("launching")
      BY <1>t, <2>3, PlacesNext, Writes DEF KilledForRestart, q, TypeOK, SupTask
    <3> QED
      BY <1>o, <2>1, <3>1 DEF Life!LifeCycle
  <2>4. CASE KilledForStop(s, t)
    <3>1. q = "leaving" /\ Life!Says("stopped")
      BY <1>m, <1>t, <2>4, PcNames, PlacesNext, Writes, StatusNames DEF KilledForStop, q
    <3> QED
      BY <1>o, <2>1, <3>1 DEF Life!LifeCycle
  <2>5. CASE KilledForDelete(s, t)
    <3>1. q = "none" /\ row'.status = "absent"
      BY <1>r, <1>t, <2>5, Writes DEF KilledForDelete
    <3> QED
      BY <1>o, <2>1, <3>1 DEF Life!LifeCycle
  <2> QED
    BY <2>2, <2>3, <2>4, <2>5
<1>15. CASE ClearTx(s)
  <2>1. p = "leaving" /\ q = "none" /\ UNCHANGED child
    BY <1>15, <1>r, Places DEF ClearTx, p
  <2>2. row'.status = row.status
    BY <1>15, <1>t DEF ClearTx, Row
  <2> QED
    BY <1>s, <2>1, <2>2 DEF Life!LifeCycle, Life!Leave, Life!Go
<1>16. CASE SendersGone(s)
  <2>1. p \in {"up", "waiting"} /\ q = "none" /\ UNCHANGED row
    BY <1>16, <1>r, Places DEF SendersGone, p
  <2>2. ~Present
    BY <1>16 DEF SendersGone, SenderHeld, LInv, BInv, IInv, SingleSupervisor
  <2>3. ~Alive'
    BY <1>16, <1>s, <1>t DEF SendersGone, TypeOK
  <2> QED
    BY <1>s, <1>t, <2>1, <2>2, <2>3 DEF Life!LifeCycle, Life!Forget, Life!Go
<1> QED
  BY <1>1, <1>2, <1>3, <1>4, <1>5, <1>6, <1>7, <1>8, <1>9, <1>10, <1>11, <1>12, <1>13, <1>14, <1>15, <1>16
  DEF SupStep, Receive

\* A step that leaves supervisors and children alone shows in the row only.
LEMMA TaskShows ==
  ASSUME UNCHANGED <<sup, child>>
  PROVE  UNCHANGED <<LifePhase, Alive>>
  BY DEF LifePhase, PhaseOf, Alive

\* Announcements go to somebody who looks after the app.
LEMMA TaskLife ==
  ASSUME LInv, NEW t \in Tasks, TaskActs(t)
  PROVE  Life!Next \/ UNCHANGED Life!vars
<1>t. /\ TypeOK /\ row \in Row \cup {NoRow} /\ daemon \in {"up", "draining", "exited"}
      /\ (Present => row \in Row) /\ (Present <=> Life!Listed)
  BY DEF LInv, BInv, IInv, TypeOK, Present, NoRow, Life!Listed
<1>u. op[t].pc # "idle" => daemon # "exited"
  BY DEF LInv, BInv, IInv, ExitedIsDead
<1>h. Present => daemon # "exited"
  BY DEF LInv, BInv, IInv, ExitedIsDead
<1>a. ASSUME Present, row.cmdTx # NoSup, daemon # "draining"
      PROVE  LifePhase # "none"
  <2>1. row.cmdTx \in Sups /\ sup[row.cmdTx].pc # "free"
    BY <1>a, <1>h, <1>t DEF Row, LInv, Supervised
  <2> QED
    BY <1>t, <2>1, PhaseSome DEF LInv
<1>n. ASSUME Present, row.cmdTx = NoSup
      PROVE  LifePhase = "none" /\ \A s \in Sups : sup[s].pc = "free"
  <2>1. \A s \in Sups : sup[s].pc = "free"
    BY <1>n, NullAssumption DEF LInv, BInv, IInv, SingleSupervisor
  <2> QED
    BY <2>1, PhaseNone
<1>1. CASE Spawn(t) /\ ~UNCHANGED sup
  <2>1. PICK s \in Sups : NewSupervisor(t, s)
    BY <1>1 DEF Spawn, AlreadySupervised, RowVanished
  <2>2. /\ Present /\ LifePhase = "none" /\ \A r \in Sups : sup[r].pc = "free"
        /\ sup'[s].pc = "start" /\ \A r \in Sups \ {s} : sup'[r] = sup[r]
    BY <1>n, <1>t, <2>1, NewSupervisorIs
  <2>3. LifePhase' = "starting"
    BY <2>2, PhaseIs, PlacesNext
  <2>4. row'.status = "launching"
    BY <1>t, <2>1 DEF NewSupervisor, Row
  <2>5. UNCHANGED <<Alive, daemon>>
    BY <1>1 DEF Spawn, Alive
  <2> QED
    BY <1>t, <2>2, <2>3, <2>4, <2>5 DEF Life!Next, Life!LifeCycle, Life!Launch, Life!Go
<1>2. CASE UNCHANGED sup
  <2>s. UNCHANGED <<LifePhase, Alive>>
    BY <1>2, <1>t, TaskActsSo, TaskShows
  <2>1. CASE UNCHANGED <<row, daemon>>
    BY <2>1, <2>s DEF Life!vars
  <2>2. CASE StopFlip(t) \/ DeleteFlip(t)
    <3>1. UNCHANGED daemon
      BY <2>2 DEF StopFlip, DeleteFlip
    <3>2. \/ UNCHANGED row
          \/ Present /\ row.cmdTx # NoSup /\ row'.status = "stopping"
          \/ Present /\ row.cmdTx = NoSup /\ row'.status = "stopped"
      BY <1>t, <2>2 DEF StopFlip, DeleteFlip, Row
    <3>3. CASE Present /\ row.cmdTx # NoSup /\ row'.status = "stopping"
      BY <1>a, <1>t, <2>s, <3>1, <3>3 DEF Life!Next, Life!Announce
    <3>4. CASE Present /\ row.cmdTx = NoSup /\ row'.status = "stopped"
      BY <1>n, <1>t, <2>s, <3>1, <3>4 DEF Life!Next, Life!Normalise
    <3> QED
      BY <2>1, <3>1, <3>2, <3>3, <3>4
  <2>3. CASE RestartFlip(t)
    <3>1. UNCHANGED daemon /\ daemon # "exited"
      BY <1>u, <2>3 DEF RestartFlip, Waiting
    <3>2. CASE row.status = "online"
      <4>1. Present /\ row'.status = "stopping"
        BY <1>t, <2>3, <3>2 DEF RestartFlip, Present, Row
      <4>2. CASE \A s \in Sups : sup[s].pc \in {"free", "clear"}
        BY <1>t, <3>1, <3>2, <4>1, <4>2, <2>s DEF LInv, RestStatus, Life!Next, Life!Announce
      <4>3. CASE ~\A s \in Sups : sup[s].pc \in {"free", "clear"}
        <5>1. LifePhase # "none"
          BY <1>t, <4>3, PhaseSome DEF LInv
        <5> QED
          BY <1>t, <2>s, <3>1, <4>1, <5>1 DEF Life!Next, Life!Announce
      <4> QED
        BY <4>2, <4>3
    <3> QED
      BY <2>1, <2>3, <3>1, <3>2 DEF RestartFlip
  <2>4. CASE Settle(t)
    <3>1. UNCHANGED daemon
      BY <2>4 DEF Settle
    <3>2. CASE row.status = "stopping"
      <4>1. Present /\ row'.status = "stopped"
        BY <1>t, <2>4, <3>2 DEF Settle, Present, Row
      <4> QED
        BY <1>t, <2>s, <3>1, <3>2, <4>1 DEF Life!Next, Life!Normalise
    <3> QED
      BY <2>1, <2>4, <3>1, <3>2 DEF Settle
  <2>5. CASE ResetState(t)
    <3>1. UNCHANGED <<row.status, daemon>>
      BY <1>t, <2>5 DEF ResetState, Row, NoRow
    <3> QED
      BY <2>s, <3>1 DEF Life!vars
  <2>6. CASE Remove(t)
    BY <2>6, <2>s DEF Remove, RemoveProc, NoRow, Life!Next, Life!Remove
  <2>7. CASE BeginShutdown(t)
    BY <2>7, <2>s DEF BeginShutdown, Life!Next, Life!Shutdown
  <2>8. CASE Spawn(t)
    <3>1. \A s \in Sups : ~NewSupervisor(t, s)
      BY <1>2, <1>t, NewSupervisorIs
    <3> QED
      BY <2>1, <2>8, <3>1 DEF Spawn, AlreadySupervised, RowVanished
  <2>9. CASE RestartRead(t) \/ Send(t) \/ Await(t) \/ LaunchGate(t) \/ LaunchCheck(t) \/ AwaitSpawn(t)
             \/ Arm(t) \/ ShutdownSnapshot(t) \/ \E kind \in Kinds : Begin(t, kind)
    BY <2>1, <2>9 DEF RestartRead, Send, Await, LaunchGate, LaunchCheck, AwaitSpawn, Arm, ShutdownSnapshot,
                      Begin
  <2> QED
    BY <2>2, <2>3, <2>4, <2>5, <2>6, <2>7, <2>8, <2>9 DEF TaskActs, Continue
<1> QED
  BY <1>1, <1>2, <1>t, TaskActsSo

LEMMA NextLife ==
  ASSUME LInv, [Next]_vars
  PROVE  [Life!Next]_(Life!vars)
<1>1. CASE \E t \in Tasks : TaskActs(t)
  BY <1>1, TaskLife
<1>2. CASE \E s \in Sups : SupStep(s)
  BY <1>2, SupLife DEF Life!Next
<1>3. CASE \E s \in Sups : ChildExits(s)
  <2>1. PICK s \in Sups : ChildExits(s)
    BY <1>3
  <2>2. UNCHANGED <<row, daemon, LifePhase>>
    BY <2>1 DEF ChildExits, LifePhase, PhaseOf
  <2>3. Alive /\ Alive' = FALSE
    <3>1. child[s] = "running" /\ child'[s] # "running" /\ \A r \in Sups \ {s} : child'[r] = child[r]
      BY <2>1 DEF ChildExits, LInv, BInv, IInv, TypeOK
    <3> QED
      BY <3>1 DEF LInv, BInv, IInv, OneChild, Alive
  <2> QED
    BY <2>2, <2>3 DEF Life!Next, Life!LifeCycle, Life!Die
<1>4. CASE \E t \in Tasks : Exit(t)
  <2>1. PICK t \in Tasks : Exit(t)
    BY <1>4
  <2>2. daemon = "draining"
    BY <2>1 DEF Exit, Waiting, LInv, BInv, OpKind
  <2>3. row'.status = "absent" /\ LifePhase' = "none" /\ UNCHANGED Alive
    BY <2>1, PhaseNone DEF Exit, NoRow, FreeSup, Alive
  <2> QED
    BY <2>1, <2>2, <2>3 DEF Exit, Life!Next, Life!Exit
<1>5. CASE ResetCounters
  <2>1. UNCHANGED <<row.status, daemon, sup, child>>
    BY <1>5 DEF ResetCounters, LInv, BInv, IInv, TypeOK, Row, NoRow
  <2> QED
    BY <2>1, TaskShows DEF Life!vars
<1>6. CASE UNCHANGED vars
  BY <1>6, TaskShows DEF vars, Life!vars
<1> QED
  BY <1>1, <1>2, <1>3, <1>4, <1>5, <1>6, WhoActs

LEMMA LifeInv == Spec => []LInv
<1>1. Init => LInv
  <2> SUFFICES ASSUME Init PROVE LInv
    OBVIOUS
  <2>1. BInv
    BY InitSafe, InitReply, KindInit DEF BInv
  <2>2. /\ Present /\ row.cmdTx = NoSup /\ row.status = "stopped"
        /\ \A s \in Sups : sup[s].pc = "free"
    BY DEF Init, NewRow, Present, FreeSup
  <2> QED
    BY <2>1, <2>2 DEF LInv, Supervised, RestStatus, OneSup
<1>2. LInv /\ [Next]_vars => LInv'
  <2>1. ASSUME LInv, Next PROVE LInv'
    BY <2>1, StepSafe, StepReply, KindStep, SupervisedStep, RestStatusStep, OneSupStep DEF LInv, BInv, IInv
  <2>2. ASSUME LInv, UNCHANGED vars PROVE LInv'
    <3>1. IInv' /\ AInv'
      BY <2>2, StepSafe, StepReply DEF LInv, BInv
    <3>2. OpKind' /\ Supervised' /\ RestStatus' /\ OneSup'
      BY <2>2 DEF LInv, BInv, vars, OpKind, Starts, Supervised, RestStatus, OneSup, Present
    <3> QED
      BY <3>1, <3>2 DEF LInv, BInv
  <2> QED
    BY <2>1, <2>2
<1> QED
  BY <1>1, <1>2, PTL DEF Spec

\* All the tasks, supervisors, channels and children together act like one life cycle:
\* no process is created while another runs, none is restarted that was to end when its
\* exit was judged, none loses its supervisor before its row, and a command is carried out
\* only when no process runs.
THEOREM OneLifeCycleAlways == Spec => OneLifeCycle
<1>1. Init => Life!Init
  BY PhaseNone DEF Init, NewRow, FreeSup, Alive, Life!Init
<1>2. LInv /\ [Next]_vars => [Life!Next]_(Life!vars)
  BY NextLife
<1> QED
  BY <1>1, <1>2, LifeInv, PTL DEF Spec, OneLifeCycle, Life!Spec

\* A process has somebody who looks after it, until the daemon's exit.
LEMMA AliveIsKept ==
  ASSUME LInv, Present, Alive
  PROVE  LifePhase \in {"born", "up", "killing"}
<1>1. PICK s \in Sups : child[s] = "running"
  BY DEF Alive
<1>2. HasChild(s)
  BY <1>1 DEF LInv, BInv, IInv, ChildPhase, ExitedIsDead
<1>3. LifePhase = PhaseOf(s)
  BY <1>2, PhaseIs DEF LInv, OneSup, HasChild
<1> QED
  BY <1>2, <1>3, Places DEF HasChild

\* Phases fit the status: what StatusIsReal says of the phase alone.
Fits(status, phase, state) ==
  /\ status = "online" =>
       phase \in {"up", "ended", "reviving", "retiring"} \/ (state = "draining" /\ phase = "none")
  /\ status = "launching" => phase \in {"starting", "born"}
  /\ status = "waiting" => phase \in {"waiting", "starting", "born"}
  /\ status = "errored" => phase \in {"leaving", "none"}

LEMMA FitsStep ==
  ASSUME Fits(row.status, LifePhase, daemon), Life!Next
  PROVE  Fits(row'.status, LifePhase', daemon')
<1> USE DEF Fits, Life!Go, Life!Says, Life!Listed
<1>1. CASE Life!Launch \/ Life!Create \/ Life!FailToCreate \/ Life!Publish \/ Life!Die \/ Life!Notice
  BY <1>1 DEF Life!Launch, Life!Create, Life!FailToCreate, Life!Publish, Life!Die, Life!Notice
<1>2. CASE Life!Judge \/ Life!Retire \/ Life!Revive \/ Life!Elapse \/ Life!BeginKill \/ Life!Leave
  BY <1>2 DEF Life!Judge, Life!Retire, Life!Revive, Life!Elapse, Life!BeginKill, Life!Leave
<1>3. CASE Life!Obey("waiting") \/ Life!Obey("killing")
  BY <1>3 DEF Life!Obey
<1>4. CASE Life!Forget \/ Life!Abandon
  BY <1>4 DEF Life!Forget, Life!Abandon
<1>5. CASE Life!Announce \/ Life!Normalise \/ Life!Remove \/ Life!Shutdown \/ Life!Exit
  BY <1>5 DEF Life!Announce, Life!Normalise, Life!Remove, Life!Shutdown, Life!Exit
<1> QED
  BY <1>1, <1>2, <1>3, <1>4, <1>5 DEF Life!Next, Life!LifeCycle

\* What the row says of the process is so: an app shown online has been up and its end is
\* not dealt with yet, one shown launching or waiting is on its way up, and one shown
\* errored has neither a process nor anybody who could bring one up.
THEOREM StatusIsRealAlways == Spec => []StatusIsReal
<1> DEFINE Fit == Fits(row.status, LifePhase, daemon)
<1>1. Init => Fit
  BY DEF Init, NewRow, Fits
<1>2. LInv /\ Fit /\ [Next]_vars => Fit'
  <2>1. ASSUME LInv, Fit, [Next]_vars PROVE Fit'
    <3>1. [Life!Next]_(Life!vars)
      BY <2>1, NextLife
    <3>2. CASE Life!Next
      BY <2>1, <3>2, FitsStep
    <3>3. CASE UNCHANGED Life!vars
      BY <2>1, <3>3 DEF Life!vars, Fits
    <3> QED
      BY <3>1, <3>2, <3>3
  <2> QED
    BY <2>1
<1>3. LInv /\ Fit => StatusIsReal
  <2>1. ASSUME LInv, Fit, row.status = "errored" PROVE ~Alive
    BY <2>1, AliveIsKept DEF Present, Fits
  <2>2. ASSUME LInv, Fit PROVE Life!StatusIsReal
    BY <2>1, <2>2 DEF Fits, Life!StatusIsReal
  <2> QED
    BY <2>2 DEF StatusIsReal
<1> QED
  BY <1>1, <1>2, <1>3, LifeInv, PTL DEF Spec

=============================================================================
