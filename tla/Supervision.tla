---------------------------- MODULE Supervision ----------------------------
(***************************************************************************)
(* The life of one row of pmr's process table, from its insertion by       *)
(* start_app to its removal: the operations of daemon/ops.rs that tasks     *)
(* run on it concurrently, the supervisor tasks of daemon/supervisor.rs     *)
(* that own its child processes, and the shutdown of daemon/mod.rs.         *)
(*                                                                         *)
(* The daemon runs on tokio's multi-threaded runtime.  What is atomic is   *)
(* one critical section of the table mutex, one operation on a channel, or *)
(* one step of a child; every section of the code is an action of its own  *)
(* here, together with the local steps and acknowledgements that follow it *)
(* before the task next touches shared state.                              *)
(***************************************************************************)
EXTENDS Naturals, Sequences

CONSTANTS
  Tasks,        \* tasks that run operations: RPC handlers, automation, shutdown
  Sups,         \* supervisor tasks, each with its own command channel
  NoTask,       \* no task
  NoSup,        \* cmd_tx = None, pid = 0
  Kinds,        \* the operations tasks may issue
  ChanCap,      \* capacity of a command channel (8 in the code)
  Autostart,    \* config.autostart
  Autorestart,  \* config.autorestart
  MaxRestarts,  \* config.max_restarts
  Delayed,      \* whether a restart waits (restart_delay or backoff > 0)
  Watch         \* config.watch

Operations == {"stop", "restart", "delete", "kill"}

ASSUME NullAssumption == NoTask \notin Tasks /\ NoSup \notin Sups
ASSUME KindsAssumption == Kinds \subseteq Operations
ASSUME CapAssumption == ChanCap \in Nat \ {0}
ASSUME MaxRestartsAssumption == MaxRestarts \in Nat
ASSUME ConfigAssumption == {Autostart, Autorestart, Delayed, Watch} \subseteq BOOLEAN

VARIABLES
  row,      \* the row, NoRow once it is removed
  watcher,  \* whether Ctx.watchers holds a watcher for the row
  daemon,   \* "up", "draining" (shutting_down is set), "exited"
  sup,      \* per supervisor: where its task stands
  inbox,    \* per supervisor: the tasks whose commands are queued
  child,    \* per supervisor: its current child process
  op,       \* per task: the operation it runs and where it stands
  ack       \* per task: what became of the oneshot it waits on

vars == <<row, watcher, daemon, sup, inbox, child, op, ack>>

-----------------------------------------------------------------------------
(* Values.                                                                 *)

Status == {"launching", "online", "stopping", "stopped", "errored", "waiting"}

Row == [status : Status, cmdTx : Sups \cup {NoSup}, pid : Sups \cup {NoSup},
        unstable : 0..MaxRestarts]

NoRow == [status |-> "absent", cmdTx |-> NoSup, pid |-> NoSup, unstable |-> 0]

\* Proc::new
NewRow == [status |-> "stopped", cmdTx |-> NoSup, pid |-> NoSup, unstable |-> 0]

\* What an exit leads to, decided when its facts are captured.
Verdicts == [kind : {"none", "stop", "giveup", "restart"}, unstable : 0..MaxRestarts]
NoVerdict == [kind |-> "none", unstable |-> 0]

SupPcs == {"free", "start", "born", "failed", "watch", "reaped", "exited", "decide",
           "backoff", "kill", "sigkill", "killed", "clear"}

OpPcs == {"idle", "stopFlip", "restartRead", "restartFlip", "resetState",
          "deleteFlip", "send", "await", "settle", "remove", "launchGate",
          "launchCheck", "spawn", "awaitSpawn", "arm", "snapshot", "drained"}

SupTask == [pc : SupPcs, starter : Tasks \cup {NoTask}, cmd : Tasks \cup {NoTask},
            verdict : Verdicts]

Operation == [kind : Operations \cup {"none", "start"}, pc : OpPcs, tx : Sups \cup {NoSup}]

Answers == {"none", "ok", "err", "dropped"}

\* A slot of Sups that runs no task.
FreeSup == [pc |-> "free", starter |-> NoTask, cmd |-> NoTask, verdict |-> NoVerdict]

IdleOp == [kind |-> "none", pc |-> "idle", tx |-> NoSup]

Present == row.status # "absent"

-----------------------------------------------------------------------------
(* The pieces the handlers share.                                          *)

Queued(s) == {inbox[s][i] : i \in DOMAIN inbox[s]}

\* Someone still holds a sender of s's channel: the row, or an operation.
SenderHeld(s) == row.cmdTx = s \/ \E t \in Tasks : op[t].tx = s

\* A slot that can stand for a new supervisor task.
Unused(s) == sup[s].pc = "free" /\ child[s] = "none" /\ ~SenderHeld(s)

\* The oneshots of the tasks in okay are answered, those in gone are dropped.
Resolve(okay, gone) ==
  ack' = [t \in Tasks |-> IF t \in okay THEN "ok"
                          ELSE IF t \in gone THEN "dropped" ELSE ack[t]]

\* run() returns: the receiver goes, and with it every command still queued.
Return(s, okay) ==
  /\ sup' = [sup EXCEPT ![s] = FreeSup]
  /\ inbox' = [inbox EXCEPT ![s] = <<>>]
  /\ Resolve(okay, Queued(s) \cup {sup[s].starter, sup[s].cmd})

\* set_dead: a removed row is left alone.
SetDead(status) ==
  row' = IF Present THEN [row EXCEPT !.status = status, !.pid = NoSup] ELSE row

\* remove_proc: the row goes, and its watcher with it.
RemoveProc == row' = NoRow /\ watcher' = FALSE

\* Variant for the mutation runs: a manual restart builds the row anew.
ManualRestartAnew(pid) ==
  row' = IF Present THEN [NewRow EXCEPT !.status = "launching"] ELSE row

\* reset_state and the status a manual restart leaves.
ManualRestart(pid) ==
  row' = IF Present
         THEN [row EXCEPT !.unstable = 0, !.status = "launching", !.pid = pid]
         ELSE row

\* Variant: the limit on unstable restarts is never enforced.
DecideNeverGivesUp(r, clean, quick) ==
  IF r.status \in {"stopping", "stopped", "errored"} \/ ~Autorestart \/ clean
  THEN [kind |-> "stop", unstable |-> r.unstable]
  ELSE [kind |-> "restart", unstable |-> r.unstable + (IF quick THEN 1 ELSE 0)]

\* decide_restart on the facts captured from row r: clean stands for an exit
\* code in stop_exit_codes, quick for an exit inside both uptime windows.
Decide(r, clean, quick) ==
  LET unstable == r.unstable + (IF quick THEN 1 ELSE 0)
      stopping == r.status \in {"stopping", "stopped", "errored"}
  IN IF stopping \/ ~Autorestart \/ clean
     THEN [kind |-> "stop", unstable |-> r.unstable]
     ELSE IF unstable >= MaxRestarts
          THEN [kind |-> "giveup", unstable |-> MaxRestarts]
          ELSE [kind |-> "restart", unstable |-> unstable]

\* Task t moves its operation to pc, and drops its clone of the sender.
Goto(t, pc) == op' = [op EXCEPT ![t].pc = pc, ![t].tx = NoSup]

\* The operation of t returns; the shutdown has more to do.
Finish(t) ==
  op' = [op EXCEPT ![t] = IF @.kind = "kill" THEN [@ EXCEPT !.pc = "drained", !.tx = NoSup]
                                             ELSE IdleOp]

Waiting(t, pc) == op[t].pc = pc

-----------------------------------------------------------------------------
(* The supervisor task: supervisor::run.                                   *)

\* Top of the lifecycle loop: read the row, then try to spawn the child.
SupStart(s) ==
  /\ sup[s].pc = "start"
  /\ \/ /\ ~Present
        /\ Return(s, {})
        /\ UNCHANGED child
     \/ /\ Present
        /\ sup' = [sup EXCEPT ![s].pc = "born"]
        /\ child' = [child EXCEPT ![s] = "running"]
        /\ UNCHANGED <<inbox, ack>>
     \/ /\ Present
        /\ sup' = [sup EXCEPT ![s].pc = "failed"]
        /\ UNCHANGED <<child, inbox, ack>>
  /\ UNCHANGED <<row, watcher, daemon, op>>

\* spawn_child failed: mark the row, tell the launcher, leave.
SpawnFailed(s) ==
  /\ sup[s].pc = "failed"
  /\ SetDead("errored")
  /\ ack' = [t \in Tasks |-> IF t = sup[s].starter THEN "err" ELSE ack[t]]
  /\ sup' = [sup EXCEPT ![s].pc = "clear", ![s].starter = NoTask]
  /\ UNCHANGED <<watcher, daemon, inbox, child, op>>

\* Variant: only a launching row goes online.
GoOnlineIfLaunching(s) ==
  /\ sup[s].pc = "born"
  /\ row' = IF Present
            THEN [row EXCEPT !.status = IF @ = "launching" THEN "online" ELSE @, !.pid = s]
            ELSE row
  /\ Resolve({sup[s].starter}, {})
  /\ sup' = [sup EXCEPT ![s].pc = "watch", ![s].starter = NoTask]
  /\ UNCHANGED <<watcher, daemon, inbox, child, op>>

\* The child runs: publish it in the row, whatever the row's status is by now.
GoOnline(s) ==
  /\ sup[s].pc = "born"
  /\ row' = IF Present THEN [row EXCEPT !.status = "online", !.pid = s] ELSE row
  /\ Resolve({sup[s].starter}, {})
  /\ sup' = [sup EXCEPT ![s].pc = "watch", ![s].starter = NoTask]
  /\ UNCHANGED <<watcher, daemon, inbox, child, op>>

\* child.wait() resolves, in the select! or in do_kill: the child is reaped, and
\* its pid is free for the system to give away.
Reap(s) ==
  /\ sup[s].pc \in {"watch", "kill", "sigkill"} /\ child[s] = "exited"
  /\ child' = [child EXCEPT ![s] = "none"]
  /\ sup' = [sup EXCEPT ![s].pc = IF @ = "watch" THEN "reaped" ELSE "killed"]
  /\ UNCHANGED <<row, watcher, daemon, inbox, op, ack>>

\* Variant: the pid of the reaped child stays in the row.
NaturalExitKeepsPid(s) ==
  /\ sup[s].pc = "reaped" /\ Present
  /\ \E clean, quick \in BOOLEAN :
       sup' = [sup EXCEPT ![s].pc = "exited", ![s].verdict = Decide(row, clean, quick)]
  /\ UNCHANGED <<row, watcher, daemon, inbox, child, op, ack>>

\* select!, first branch: the facts of the exit are captured.
NaturalExit(s) ==
  /\ sup[s].pc = "reaped"
  /\ \/ /\ ~Present
        /\ Return(s, {})
        /\ UNCHANGED row
     \/ /\ Present
        /\ row' = [row EXCEPT !.pid = NoSup]
        /\ \E clean, quick \in BOOLEAN :
             sup' = [sup EXCEPT ![s].pc = "exited", ![s].verdict = Decide(row, clean, quick)]
        /\ UNCHANGED <<inbox, ack>>
  /\ UNCHANGED <<watcher, daemon, child, op>>

\* During shutdown the task just leaves: stop_one owns the row.
CheckShutdown(s) ==
  /\ sup[s].pc = "exited"
  /\ \/ /\ daemon = "draining"
        /\ Return(s, {})
     \/ /\ daemon = "up"
        /\ sup' = [sup EXCEPT ![s].pc = "decide"]
        /\ UNCHANGED <<inbox, ack>>
  /\ UNCHANGED <<row, watcher, daemon, child, op>>

ExitStops(s) ==
  /\ sup[s].pc = "decide" /\ sup[s].verdict.kind = "stop"
  /\ SetDead("stopped")
  /\ sup' = [sup EXCEPT ![s].pc = "clear", ![s].verdict = NoVerdict]
  /\ UNCHANGED <<watcher, daemon, inbox, child, op, ack>>

ExitGivesUp(s) ==
  /\ sup[s].pc = "decide" /\ sup[s].verdict.kind = "giveup"
  /\ row' = IF Present
            THEN [row EXCEPT !.status = "errored", !.unstable = MaxRestarts] ELSE row
  /\ sup' = [sup EXCEPT ![s].pc = "clear", ![s].verdict = NoVerdict]
  /\ UNCHANGED <<watcher, daemon, inbox, child, op, ack>>

ExitRestarts(s) ==
  /\ sup[s].pc = "decide" /\ sup[s].verdict.kind = "restart"
  /\ row' = IF Present
            THEN [row EXCEPT !.unstable = sup[s].verdict.unstable,
                             !.status = IF Delayed THEN "waiting" ELSE "launching"]
            ELSE row
  /\ sup' = [sup EXCEPT ![s].pc = IF Delayed THEN "backoff" ELSE "start",
                        ![s].verdict = NoVerdict]
  /\ UNCHANGED <<watcher, daemon, inbox, child, op, ack>>

BackoffElapsed(s) ==
  /\ sup[s].pc = "backoff"
  /\ sup' = [sup EXCEPT ![s].pc = "start"]
  /\ UNCHANGED <<row, watcher, daemon, inbox, child, op, ack>>

\* A command overtakes the restart delay.
BackoffRestart(s, t) ==
  /\ op[t].kind = "restart"
  /\ ManualRestart(row.pid)
  /\ sup' = [sup EXCEPT ![s].pc = "start"]
  /\ inbox' = [inbox EXCEPT ![s] = Tail(@)]
  /\ Resolve({t}, {})
  /\ UNCHANGED watcher

\* Variant: after the stop the task goes on with its lifecycle.
BackoffStopGoesOn(s, t) ==
  /\ op[t].kind \in {"stop", "kill"}
  /\ SetDead("stopped")
  /\ sup' = [sup EXCEPT ![s].pc = "start"]
  /\ inbox' = [inbox EXCEPT ![s] = Tail(@)]
  /\ Resolve({t}, {})
  /\ UNCHANGED watcher

BackoffStop(s, t) ==
  /\ op[t].kind \in {"stop", "kill"}
  /\ SetDead("stopped")
  /\ sup' = [sup EXCEPT ![s].pc = "clear", ![s].cmd = t]
  /\ inbox' = [inbox EXCEPT ![s] = Tail(@)]
  /\ UNCHANGED <<watcher, ack>>

BackoffDelete(s, t) ==
  /\ op[t].kind = "delete"
  /\ RemoveProc
  /\ Return(s, {t})

BackoffCommand(s) ==
  /\ sup[s].pc = "backoff" /\ inbox[s] # <<>>
  /\ LET t == Head(inbox[s])
     IN BackoffRestart(s, t) \/ BackoffStop(s, t) \/ BackoffDelete(s, t)
  /\ UNCHANGED <<daemon, child, op>>

\* select!, second branch: take a command and begin the kill sequence.
TakeCommand(s) ==
  /\ sup[s].pc = "watch" /\ inbox[s] # <<>>
  /\ sup' = [sup EXCEPT ![s].pc = "kill", ![s].cmd = Head(inbox[s])]
  /\ inbox' = [inbox EXCEPT ![s] = Tail(@)]
  /\ row' = IF Present THEN [row EXCEPT !.status = "stopping"] ELSE row
  /\ UNCHANGED <<watcher, daemon, child, op, ack>>

\* Variant: the timeout repeats the kill signal and never escalates.
KillTimeoutRepeats(s) ==
  /\ sup[s].pc = "kill"
  /\ UNCHANGED vars

\* kill_timeout passed without an exit: SIGKILL.
KillTimeout(s) ==
  /\ sup[s].pc = "kill"
  /\ sup' = [sup EXCEPT ![s].pc = "sigkill"]
  /\ UNCHANGED <<row, watcher, daemon, inbox, child, op, ack>>

\* The kill sequence is over; handle_cmd finishes the command of task t.
KilledForStop(s, t) ==
  /\ op[t].kind \in {"stop", "kill"}
  /\ SetDead("stopped")
  /\ sup' = [sup EXCEPT ![s].pc = "clear"]
  /\ UNCHANGED <<watcher, inbox, ack>>

KilledForRestart(s, t) ==
  /\ op[t].kind = "restart"
  /\ ManualRestart(NoSup)
  /\ sup' = [sup EXCEPT ![s].pc = "start", ![s].cmd = NoTask]
  /\ Resolve({t}, {})
  /\ UNCHANGED <<watcher, inbox>>

KilledForDelete(s, t) ==
  /\ op[t].kind = "delete"
  /\ RemoveProc
  /\ Return(s, {t})

KillDone(s) ==
  /\ sup[s].pc = "killed"
  /\ LET t == sup[s].cmd
     IN KilledForStop(s, t) \/ KilledForRestart(s, t) \/ KilledForDelete(s, t)
  /\ UNCHANGED <<daemon, child, op>>

\* clear_cmd_tx, the acknowledgement of a handled Stop, and the return.
ClearTx(s) ==
  /\ sup[s].pc = "clear"
  /\ row' = IF Present THEN [row EXCEPT !.cmdTx = NoSup] ELSE row
  /\ Return(s, {sup[s].cmd})
  /\ UNCHANGED <<watcher, daemon, child, op>>

\* recv() yields None: every sender is gone.  Dropping the child of a live
\* process sends it SIGKILL (kill_on_drop), without the kill sequence.
SendersGone(s) ==
  /\ sup[s].pc \in {"watch", "backoff"} /\ inbox[s] = <<>> /\ ~SenderHeld(s)
  /\ child' = [child EXCEPT ![s] = IF @ = "running" THEN "dropped" ELSE "none"]
  /\ Return(s, {})
  /\ UNCHANGED <<row, watcher, daemon, op>>

\* A child ends: by itself, by a signal it obeys, or by SIGKILL.
ChildExits(s) ==
  /\ child[s] = "running"
  /\ child' = [child EXCEPT ![s] = "exited"]
  /\ UNCHANGED <<row, watcher, daemon, sup, inbox, op, ack>>

Receive(s) == TakeCommand(s) \/ BackoffCommand(s)

SupStep(s) ==
  \/ SupStart(s) \/ SpawnFailed(s) \/ GoOnline(s) \/ Reap(s) \/ NaturalExit(s)
  \/ CheckShutdown(s) \/ ExitStops(s) \/ ExitGivesUp(s) \/ ExitRestarts(s)
  \/ BackoffElapsed(s) \/ Receive(s) \/ KillTimeout(s) \/ KillDone(s)
  \/ ClearTx(s) \/ SendersGone(s)

-----------------------------------------------------------------------------
(* The operations: ops.rs.                                                 *)

\* A request arrives.  stop_one disarms the watcher before anything else.
Begin(t, kind) ==
  /\ Waiting(t, "idle") /\ daemon # "exited"
  /\ kind \in Kinds \ {"kill"}
  /\ op' = [op EXCEPT ![t] = [kind |-> kind, tx |-> NoSup,
              pc |-> CASE kind = "stop" -> "stopFlip"
                       [] kind = "restart" -> "restartRead"
                       [] kind = "delete" -> "deleteFlip"]]
  /\ watcher' = (watcher /\ kind # "stop")
  /\ UNCHANGED <<row, daemon, sup, inbox, child, ack>>

\* stop_one: flip a supervised row to Stopping, normalise any other.
StopFlip(t) ==
  /\ Waiting(t, "stopFlip")
  /\ \/ /\ ~Present
        /\ Finish(t) /\ UNCHANGED row
     \/ /\ Present /\ row.cmdTx # NoSup
        /\ row' = [row EXCEPT !.status = "stopping"]
        /\ op' = [op EXCEPT ![t].pc = "send", ![t].tx = row.cmdTx]
     \/ /\ Present /\ row.cmdTx = NoSup
        /\ row' = [row EXCEPT !.status = "stopped"]
        /\ Finish(t)
  /\ UNCHANGED <<watcher, daemon, sup, inbox, child, ack>>

\* restart_one: clone the sender, if there is one.
RestartRead(t) ==
  /\ Waiting(t, "restartRead")
  /\ IF ~Present THEN Finish(t)
     ELSE op' = [op EXCEPT ![t].pc = IF row.cmdTx = NoSup THEN "resetState" ELSE "restartFlip",
                           ![t].tx = row.cmdTx]
  /\ UNCHANGED <<row, watcher, daemon, sup, inbox, child, ack>>

\* In a critical section of its own: an online row becomes Stopping.
RestartFlip(t) ==
  /\ Waiting(t, "restartFlip")
  /\ row' = IF row.status = "online" THEN [row EXCEPT !.status = "stopping"] ELSE row
  /\ op' = [op EXCEPT ![t].pc = "send"]
  /\ UNCHANGED <<watcher, daemon, sup, inbox, child, ack>>

\* No supervisor was seen: forgive instability, then cold start.
ResetState(t) ==
  /\ Waiting(t, "resetState")
  /\ row' = [row EXCEPT !.unstable = 0]
  /\ Goto(t, "launchGate")
  /\ UNCHANGED <<watcher, daemon, sup, inbox, child, ack>>

\* delete_one: as stop_one, but an unsupervised row is removed directly.
DeleteFlip(t) ==
  /\ Waiting(t, "deleteFlip")
  /\ \/ /\ ~Present
        /\ Finish(t) /\ UNCHANGED row
     \/ /\ Present /\ row.cmdTx # NoSup
        /\ row' = [row EXCEPT !.status = "stopping"]
        /\ op' = [op EXCEPT ![t].pc = "send", ![t].tx = row.cmdTx]
     \/ /\ Present /\ row.cmdTx = NoSup
        /\ Goto(t, "remove") /\ UNCHANGED row
  /\ UNCHANGED <<watcher, daemon, sup, inbox, child, ack>>

\* Where an operation goes on when its command was not handled.
Fallback(t) == CASE op[t].kind \in {"stop", "kill"} -> "settle"
                 [] op[t].kind = "restart" -> "launchGate"
                 [] OTHER -> "remove"

\* Variant: a send to a closed channel counts as sent.
SendUnchecked(t) ==
  /\ Waiting(t, "send") /\ Len(inbox[op[t].tx]) < ChanCap
  /\ inbox' = [inbox EXCEPT ![op[t].tx] = Append(@, t)]
  /\ op' = [op EXCEPT ![t].pc = "await"]
  /\ UNCHANGED <<row, watcher, daemon, sup, child, ack>>

\* tx.send: waits while the channel is full, fails once the receiver is gone.
Send(t) ==
  /\ Waiting(t, "send")
  /\ LET s == op[t].tx
     IN \/ /\ sup[s].pc = "free"
           /\ Goto(t, Fallback(t))
           /\ UNCHANGED inbox
        \/ /\ sup[s].pc # "free" /\ Len(inbox[s]) < ChanCap
           /\ inbox' = [inbox EXCEPT ![s] = Append(@, t)]
           /\ op' = [op EXCEPT ![t].pc = "await"]
  /\ UNCHANGED <<row, watcher, daemon, sup, child, ack>>

\* Variant: restart_one and delete_one take a dropped oneshot for success.
AwaitIgnoresDrop(t) ==
  /\ Waiting(t, "await") /\ ack[t] # "none"
  /\ ack' = [ack EXCEPT ![t] = "none"]
  /\ IF op[t].kind \in {"restart", "delete"} THEN Finish(t) ELSE Goto(t, Fallback(t))
  /\ UNCHANGED <<row, watcher, daemon, sup, inbox, child>>

\* The command was handled, or dropped with the channel.
Await(t) ==
  /\ Waiting(t, "await") /\ ack[t] # "none"
  /\ ack' = [ack EXCEPT ![t] = "none"]
  /\ IF ack[t] = "ok" /\ op[t].kind \in {"restart", "delete"}
     THEN Finish(t) ELSE Goto(t, Fallback(t))
  /\ UNCHANGED <<row, watcher, daemon, sup, inbox, child>>

\* stop_one's last section: the row must not stick at Stopping.
Settle(t) ==
  /\ Waiting(t, "settle")
  /\ row' = IF row.status = "stopping" THEN [row EXCEPT !.status = "stopped"] ELSE row
  /\ Finish(t)
  /\ UNCHANGED <<watcher, daemon, sup, inbox, child, ack>>

\* delete_one calls remove_proc itself.
Remove(t) ==
  /\ Waiting(t, "remove")
  /\ RemoveProc
  /\ Finish(t)
  /\ UNCHANGED <<daemon, sup, inbox, child, ack>>

\* launch: no start once the daemon shuts down...
LaunchGate(t) ==
  /\ Waiting(t, "launchGate")
  /\ IF daemon = "draining" THEN Finish(t) ELSE Goto(t, "launchCheck")
  /\ UNCHANGED <<row, watcher, daemon, sup, inbox, child, ack>>

\* ...nor for a row that is gone or supervised.
LaunchCheck(t) ==
  /\ Waiting(t, "launchCheck")
  /\ IF Present /\ row.cmdTx = NoSup THEN Goto(t, "spawn") ELSE Finish(t)
  /\ UNCHANGED <<row, watcher, daemon, sup, inbox, child, ack>>

\* Variant: spawn relies on launch's earlier look at the row.
NewSupervisorUnchecked(t, s) ==
  /\ Present /\ Unused(s)
  /\ row' = [row EXCEPT !.cmdTx = s, !.status = "launching"]
  /\ sup' = [sup EXCEPT ![s] = [FreeSup EXCEPT !.pc = "start", !.starter = t]]
  /\ UNCHANGED ack

\* supervisor::spawn: the atomic check, and a new supervisor task.
NewSupervisor(t, s) ==
  /\ Present /\ row.cmdTx = NoSup
  /\ Unused(s)
  /\ row' = [row EXCEPT !.cmdTx = s, !.status = "launching"]
  /\ sup' = [sup EXCEPT ![s] = [FreeSup EXCEPT !.pc = "start", !.starter = t]]
  /\ UNCHANGED ack

AlreadySupervised(t) ==
  /\ Present /\ row.cmdTx # NoSup
  /\ ack' = [ack EXCEPT ![t] = "ok"]
  /\ UNCHANGED <<row, sup>>

RowVanished(t) ==
  /\ ~Present
  /\ ack' = [ack EXCEPT ![t] = "err"]
  /\ UNCHANGED <<row, sup>>

Spawn(t) ==
  /\ Waiting(t, "spawn")
  /\ (\E s \in Sups : NewSupervisor(t, s)) \/ AlreadySupervised(t) \/ RowVanished(t)
  /\ Goto(t, "awaitSpawn")
  /\ UNCHANGED <<watcher, daemon, inbox, child>>

\* The first spawn attempt is reported; watcher::register looks at the row.
AwaitSpawn(t) ==
  /\ Waiting(t, "awaitSpawn") /\ ack[t] # "none"
  /\ ack' = [ack EXCEPT ![t] = "none"]
  /\ IF ack[t] = "ok" /\ Watch /\ Present /\ row.cmdTx # NoSup
     THEN Goto(t, "arm") ELSE Finish(t)
  /\ UNCHANGED <<row, watcher, daemon, sup, inbox, child>>

\* register inserts the watcher it built since.
Arm(t) ==
  /\ Waiting(t, "arm")
  /\ watcher' = TRUE
  /\ Finish(t)
  /\ UNCHANGED <<row, daemon, sup, inbox, child, ack>>

\* A step of an operation that has begun.
Continue(t) ==
  \/ StopFlip(t) \/ RestartRead(t) \/ RestartFlip(t) \/ ResetState(t)
  \/ DeleteFlip(t) \/ Send(t) \/ Await(t) \/ Settle(t) \/ Remove(t)
  \/ LaunchGate(t) \/ LaunchCheck(t) \/ Spawn(t) \/ AwaitSpawn(t) \/ Arm(t)

-----------------------------------------------------------------------------
(* Method::Reset, and graceful_shutdown in daemon/mod.rs.                   *)

ResetCounters ==
  /\ Present
  /\ row' = [row EXCEPT !.unstable = 0]
  /\ UNCHANGED <<watcher, daemon, sup, inbox, child, op, ack>>

\* The serve loop ends: the flag is set, and no task sees it go back.
BeginShutdown(t) ==
  /\ "kill" \in Kinds /\ daemon = "up" /\ Waiting(t, "idle")
  /\ daemon' = "draining"
  /\ op' = [op EXCEPT ![t] = [kind |-> "kill", pc |-> "snapshot", tx |-> NoSup]]
  /\ UNCHANGED <<row, watcher, sup, inbox, child, ack>>

\* Variant: only a row shown online is stopped.
ShutdownSnapshotOnline(t) ==
  /\ Waiting(t, "snapshot")
  /\ Goto(t, IF row.status = "online" THEN "stopFlip" ELSE "drained")
  /\ watcher' = (watcher /\ row.status # "online")
  /\ UNCHANGED <<row, daemon, sup, inbox, child, ack>>

\* After the dump: the rows that exist now are stopped.
ShutdownSnapshot(t) ==
  /\ Waiting(t, "snapshot")
  /\ Goto(t, IF Present THEN "stopFlip" ELSE "drained")
  /\ watcher' = (watcher /\ ~Present)
  /\ UNCHANGED <<row, daemon, sup, inbox, child, ack>>

\* exit(0): the daemon's memory and all its tasks are gone at once.  No
\* destructor runs, so a child that is still running stays.
Exit(t) ==
  /\ Waiting(t, "drained")
  /\ daemon' = "exited"
  /\ row' = NoRow /\ watcher' = FALSE
  /\ sup' = [s \in Sups |-> FreeSup] /\ inbox' = [s \in Sups |-> <<>>]
  /\ op' = [u \in Tasks |-> IdleOp] /\ ack' = [u \in Tasks |-> "none"]
  /\ UNCHANGED child

-----------------------------------------------------------------------------

\* start_app inserted the row and, with autostart, goes on to launch it.
Init ==
  /\ row = NewRow
  /\ watcher = FALSE
  /\ daemon = "up"
  /\ sup = [s \in Sups |-> FreeSup]
  /\ inbox = [s \in Sups |-> <<>>]
  /\ child = [s \in Sups |-> "none"]
  /\ ack = [t \in Tasks |-> "none"]
  /\ IF Autostart
     THEN \E t0 \in Tasks :
            op = [t \in Tasks |-> IF t = t0 THEN [kind |-> "start", pc |-> "launchGate", tx |-> NoSup]
                                            ELSE IdleOp]
     ELSE op = [t \in Tasks |-> IdleOp]

Next ==
  \/ \E t \in Tasks : \/ Continue(t)
                      \/ \E kind \in Kinds : Begin(t, kind)
                      \/ BeginShutdown(t) \/ ShutdownSnapshot(t) \/ Exit(t)
  \/ \E s \in Sups : SupStep(s) \/ ChildExits(s)
  \/ ResetCounters

Spec == Init /\ [][Next]_vars

\* The runtime runs every ready task; select! and the channel's semaphore are
\* fair to a command that keeps coming up; SIGKILL ends a process.
Fairness ==
  /\ \A t \in Tasks : /\ WF_vars(Continue(t) \/ ShutdownSnapshot(t) \/ Exit(t))
                      /\ SF_vars(Send(t))
  /\ \A s \in Sups : /\ WF_vars(SupStep(s))
                     /\ SF_vars(Receive(s))
                     /\ WF_vars(sup[s].pc = "sigkill" /\ ChildExits(s))

FairSpec == Spec /\ Fairness

-----------------------------------------------------------------------------
(* Properties.                                                             *)

\* Every variable has the shape its comment gives it.
TypeOK ==
  /\ row \in Row \cup {NoRow}
  /\ watcher \in BOOLEAN
  /\ daemon \in {"up", "draining", "exited"}
  /\ sup \in [Sups -> SupTask]
  /\ inbox \in [Sups -> Seq(Tasks)]
  /\ child \in [Sups -> {"none", "running", "exited", "dropped"}]
  /\ op \in [Tasks -> Operation]
  /\ ack \in [Tasks -> Answers]

\* While the row exists, a supervisor task that has not returned is the one
\* whose channel the row holds: cold starts that race each other in
\* restart_one, start_app and supervisor::spawn never leave two.
SingleSupervisor ==
  \A s \in Sups : sup[s].pc # "free" /\ Present => row.cmdTx = s

\* A row never has two processes running, through every restart, fallback
\* and racing start of it, and after its removal.
OneChild ==
  \A s1, s2 \in Sups : child[s1] = "running" /\ child[s2] = "running" => s1 = s2

\* The pid a row shows, which SendSignal signals (rpc.rs:155), was spawned by the
\* supervisor task whose channel the row holds, and is of a child that runs or has yet
\* to be reaped, unless that task has reaped it and is at its next lock section: a pid
\* is never left over from an earlier supervisor, a failed spawn, a stop or a restart.
PidIsOwned ==
  row.pid # NoSup =>
    /\ row.pid = row.cmdTx
    /\ sup[row.pid].pc \in {"watch", "reaped", "kill", "sigkill", "killed"}
    /\ child[row.pid] \in {"running", "exited"} \/ sup[row.pid].pc \in {"reaped", "killed"}

\* A task that waits for an acknowledgement waits for someone: its command is
\* queued at, or being handled by, a supervisor task that has not returned, or
\* that task owes it the report of the first spawn.
ReplyIsOwed ==
  \A t \in Tasks :
    /\ op[t].pc = "await" /\ ack[t] = "none" =>
         /\ sup[op[t].tx].pc # "free"
         /\ t \in Queued(op[t].tx) \/ sup[op[t].tx].cmd = t
    /\ op[t].pc = "awaitSpawn" /\ ack[t] = "none" => \E s \in Sups : sup[s].starter = t

\* When delete_one returns, whatever raced it, the row is gone.
DeleteSticks ==
  [][\A t \in Tasks : op[t].kind = "delete" /\ op'[t].kind # "delete" => ~Present']_vars

\* A child ends by itself or through the kill sequence, never because the
\* supervisor's channel closed under it.
KillSequence == \A s \in Sups : child[s] # "dropped"

\* No operation runs and every supervisor task sits in its select!.
AtRest ==
  /\ \A t \in Tasks : op[t].pc = "idle"
  /\ \A s \in Sups : sup[s].pc \in {"free", "watch"} /\ child[s] # "exited"

\* At rest a running child is shown online: the row never sticks at Stopping.
NeverStuckStopping ==
  AtRest => \A s \in Sups : sup[s].pc = "watch" /\ Present => row.status = "online"

\* At rest a stopped row has no watcher that a file change could revive it by.
StoppedIsDisarmed ==
  AtRest /\ row.status = "stopped" => ~watcher

\* The daemon leaves no child behind.
NoOrphan == daemon = "exited" => \A s \in Sups : child[s] # "running"

\* Every operation returns, and a shutdown ends the daemon.
OperationsReturn == \A t \in Tasks : op[t].pc # "idle" ~> op[t].pc = "idle"

-----------------------------------------------------------------------------
(* What it amounts to.                                                     *)

\* The place of a supervisor in the life cycle of the app.
PhaseOf(s) ==
  CASE sup[s].pc \in {"start", "failed"} -> "starting"
    [] sup[s].pc = "born" -> "born"
    [] sup[s].pc = "watch" -> "up"
    [] sup[s].pc = "reaped" -> "ended"
    [] sup[s].pc \in {"exited", "decide"} ->
         IF sup[s].verdict.kind = "restart" THEN "reviving" ELSE "retiring"
    [] sup[s].pc = "backoff" -> "waiting"
    [] sup[s].pc \in {"kill", "sigkill", "killed"} -> "killing"
    [] sup[s].pc = "clear" -> "leaving"
    [] OTHER -> "none"

LifePhase ==
  IF \E s \in Sups : sup[s].pc # "free" THEN PhaseOf(CHOOSE s \in Sups : sup[s].pc # "free") ELSE "none"

Alive == \E s \in Sups : child[s] = "running"

Life == INSTANCE ProcessLife WITH status <- row.status, alive <- Alive, phase <- LifePhase

\* All the tasks and supervisors together act like one life cycle.
OneLifeCycle == Life!Spec

\* The status of the row is true of the process.
StatusIsReal == Life!StatusIsReal

=============================================================================
