----------------------------- MODULE Automation -----------------------------
(***************************************************************************)
(* What restarts a process on its own account: cron (daemon/cron.rs),       *)
(* health checks (daemon/health.rs), the file watcher (daemon/watcher.rs)   *)
(* and the memory limit (daemon/worker.rs), on one id of the table, whose   *)
(* row is stopped, crashes, is deleted and is started again as another app  *)
(* meanwhile.  restart_one and its races are the subject of Supervision:    *)
(* here a restart is one step, but for what a cold start does about the    *)
(* file watcher once the process is up.                                    *)
(***************************************************************************)
EXTENDS Naturals

CONSTANTS
  Agents,      \* tokio tasks that restart the row
  NoAgent,
  Configs,     \* which of Kinds an app's configuration may ask for
  MaxFails     \* health_check.max_fails

Registered == {"cron", "health"}
Kinds == Registered \cup {"watch", "memory"}

\* Tasks of a request to restart, or of start_app at its last step, are "user"; those
\* that were aborted while they ran are "aborted".
TaskKinds == Kinds \cup {"user", "aborted"}

ASSUME AutomationAssumption ==
  NoAgent \notin Agents /\ Configs \subseteq SUBSET Kinds /\ MaxFails \in Nat \ {0}

VARIABLES
  row,       \* none; down: no supervisor; waiting: for a restart; online;
             \* stopping: a stop is on its way
  config,    \* Proc.config: the Kinds that the app in the row asks for
  handle,    \* Proc.cron_task and Proc.health_task
  armed,     \* Ctx.watchers of the id: the task its watcher wakes
  agent,     \* per task: its kind and place
  user,      \* start_app: what it still has to do, and the task it has spawned
  dropping,  \* a remove_proc that has yet to drop the watcher
  earned,    \* history: tasks whose verdict is on a process that ran, or crashed
  stopped,   \* history: what brought the row down, or found it down, was a stop
  raced,     \* history: a stop came between a launch and its look at the watcher
  own,       \* history: tasks whose row is still there
  detached,  \* history: tasks whose row was gone before they were registered
  crossed    \* history: a row was inserted while the remove_proc of the last one was
             \* under way, or started by a task which that has aborted

state == <<row, config, handle, armed, agent, user, dropping>>
vars == <<state, earned, stopped, raced, own, detached, crossed>>

AgentPcs == {"none", "sleep", "check", "debounce", "look", "restart", "launched", "arm"}
UserPcs == {"idle", "launch"} \cup Registered \cup {"cronStore", "healthStore"}

Free == [kind |-> "none", pc |-> "none", fails |-> 0]
Fresh(kind, pc) == [kind |-> kind, pc |-> pc, fails |-> 0]

At(a, kind, pc) == agent[a].kind = kind /\ agent[a].pc = pc
Goes(a, pc) == agent' = [agent EXCEPT ![a].pc = pc]

\* A task whose watcher is dropped has its channel closed.
Woken(a) == armed = a

\* A task that is not there, and that no watcher still wakes.
Unused(a) == agent[a] = Free /\ armed # a

-----------------------------------------------------------------------------
(* Restarting.                                                             *)

\* The end of a task's loop body, or of a task that has only the one.
Again(a) ==
  [agent EXCEPT ![a] = IF agent[a].kind \in {"cron", "health", "watch"}
                       THEN [agent[a] EXCEPT !.pc = "sleep"] ELSE Free]

\* Variant: a cold start goes on without a look at the watcher.
RestartUnarmed(a) ==
  /\ agent[a].pc = "restart"
  /\ row' = IF row \in {"down", "waiting"} THEN "online" ELSE row
  /\ agent' = Again(a)
  /\ UNCHANGED <<config, handle, armed, user, dropping>>

\* restart_one: a row that is down is launched, which may fail, or finds that another
\* task was faster; one that is supervised gets another process; one that is gone is
\* left alone.
Restart(a) ==
  /\ agent[a].pc = "restart"
  /\ \/ agent' = Again(a) /\ UNCHANGED row
     \/ row = "waiting" /\ row' = "online" /\ agent' = Again(a)
     \/ row = "down" /\ row' = "online" /\ Goes(a, "launched")
     \/ row \in {"waiting", "online", "stopping"} /\ UNCHANGED row /\ Goes(a, "launched")
  /\ UNCHANGED <<config, handle, armed, user, dropping>>

\* watcher::register: a row without a supervisor by now is not to be watched...
RegisterWatcher(a) ==
  /\ agent[a].pc = "launched"
  /\ IF "watch" \in config /\ row \notin {"none", "down"} THEN Goes(a, "arm")
     ELSE agent' = Again(a)
  /\ UNCHANGED <<row, config, handle, armed, user, dropping>>

\* ...and the watcher is inserted later, in place of the old one, with a new task.
InsertWatcher(a) ==
  /\ agent[a].pc = "arm"
  /\ \E w \in Agents :
       /\ Unused(w)
       /\ agent' = [Again(a) EXCEPT ![w] = Fresh("watch", "sleep")]
       /\ armed' = w
  /\ UNCHANGED <<row, config, handle, user, dropping>>

\* An aborted task ends where it awaits the launch.
AbortEnds(a) ==
  /\ At(a, "aborted", "launched")
  /\ agent' = [agent EXCEPT ![a] = Free]
  /\ UNCHANGED <<row, config, handle, armed, user, dropping>>

-----------------------------------------------------------------------------
(* start_app, stop, delete, and the process itself.                        *)

After(kind) == IF kind = "cron" THEN "health" ELSE "launch"

Insert ==
  /\ user.pc = "idle" /\ row = "none"
  /\ row' = "down" /\ config' \in Configs
  /\ handle' = [k \in Registered |-> NoAgent]
  /\ user' = [pc |-> "cron", task |-> NoAgent]
  /\ UNCHANGED <<armed, agent, dropping>>

\* register spawns its task, if the row asks for one...
Register(kind) ==
  /\ user.pc = kind
  /\ IF row = "none" \/ kind \notin config
     THEN user' = [user EXCEPT !.pc = After(kind)] /\ UNCHANGED agent
     ELSE \E a \in Agents :
            /\ Unused(a)
            /\ agent' = [agent EXCEPT ![a] = Fresh(kind, "sleep")]
            /\ user' = [pc |-> IF kind = "cron" THEN "cronStore" ELSE "healthStore", task |-> a]
  /\ UNCHANGED <<row, config, handle, armed, dropping>>

\* An aborted task ends where it awaits; one that runs goes on to its next await.
Aborted(tasks) ==
  [a \in Agents |->
     IF a \notin tasks THEN agent[a]
     ELSE IF agent[a].pc \in {"look", "restart", "launched", "arm"} THEN [agent[a] EXCEPT !.kind = "aborted"]
     ELSE Free]

\* ...and stores its handle in the row of that id, if there is one, in place of
\* another one.
Store(kind) ==
  /\ user.pc = IF kind = "cron" THEN "cronStore" ELSE "healthStore"
  /\ IF row = "none" THEN UNCHANGED <<handle, agent>>
     ELSE /\ agent' = Aborted({handle[kind]})
          /\ handle' = [handle EXCEPT ![kind] = user.task]
  /\ user' = [pc |-> After(kind), task |-> NoAgent]
  /\ UNCHANGED <<row, config, armed, dropping>>

\* A task that is to restart the row is there.
Request(a) == Unused(a) /\ agent' = [agent EXCEPT ![a] = Fresh("user", "restart")]

\* The launch of the new row, unless it is not to start by itself.
Launch ==
  /\ user.pc = "launch"
  /\ user' = [user EXCEPT !.pc = "idle"]
  /\ (\E a \in Agents : Request(a)) \/ UNCHANGED agent
  /\ UNCHANGED <<row, config, handle, armed, dropping>>

ManualRestart(a) ==
  /\ row # "none" /\ Request(a)
  /\ UNCHANGED <<row, config, handle, armed, user, dropping>>

\* Variant: a stop leaves the watcher armed.
StopLeavesWatcher ==
  /\ row' = CASE row \in {"online", "waiting"} -> "stopping" [] OTHER -> row
  /\ UNCHANGED <<config, handle, armed, agent, user, dropping>>

\* stop disarms the watcher first; cron and health checks stay.
Stop ==
  /\ armed' = NoAgent
  /\ row' = IF row \in {"online", "waiting"} THEN "stopping" ELSE row
  /\ UNCHANGED <<config, handle, agent, user, dropping>>

\* The process has been killed, its supervisor leaves.
Stopped ==
  /\ row = "stopping" /\ row' = "down"
  /\ UNCHANGED <<config, handle, armed, agent, user, dropping>>

\* The process ends, and is restarted at once, later, or not; or the wait is over.
Exit ==
  /\ row \in {"online", "waiting"}
  /\ row' \in {"online", "waiting", "down"}
  /\ UNCHANGED <<config, handle, armed, agent, user, dropping>>

\* Variant: the tasks of a deleted row are not aborted.
DeleteKeepsTasks ==
  /\ row # "none" /\ ~dropping
  /\ row' = "none" /\ config' = {} /\ dropping' = TRUE
  /\ handle' = [k \in Registered |-> NoAgent]
  /\ UNCHANGED <<armed, agent, user>>

\* remove_proc removes the row and aborts its tasks...
Delete ==
  /\ row # "none" /\ ~dropping
  /\ row' = "none" /\ config' = {} /\ dropping' = TRUE
  /\ agent' = Aborted({handle[k] : k \in Registered})
  /\ handle' = [k \in Registered |-> NoAgent]
  /\ UNCHANGED <<armed, user>>

\* ...and, after it has deleted the log files, drops the watcher of the id.
DropWatcher ==
  /\ dropping /\ dropping' = FALSE
  /\ armed' = NoAgent
  /\ UNCHANGED <<row, config, handle, agent, user>>

-----------------------------------------------------------------------------
(* The tasks.                                                              *)

\* A file has changed.
FileChange(a) ==
  /\ At(a, "watch", "sleep") /\ Woken(a)
  /\ Goes(a, "debounce")
  /\ UNCHANGED <<row, config, handle, armed, user, dropping>>

\* The burst is over.
Debounced(a) ==
  /\ At(a, "watch", "debounce") /\ Woken(a)
  /\ Goes(a, "look")
  /\ UNCHANGED <<row, config, handle, armed, user, dropping>>

Closed(a) ==
  /\ agent[a].kind = "watch" /\ agent[a].pc \in {"sleep", "debounce"} /\ ~Woken(a)
  /\ agent' = [agent EXCEPT ![a] = Free]
  /\ UNCHANGED <<row, config, handle, armed, user, dropping>>

CronDue(a) ==
  /\ At(a, "cron", "sleep")
  /\ Goes(a, "look")
  /\ UNCHANGED <<row, config, handle, armed, user, dropping>>

\* cron and watcher ask only whether the id is in the table.
Look(a) ==
  /\ agent[a].pc = "look"
  /\ IF row = "none" THEN agent' = [agent EXCEPT ![a] = Free] ELSE Goes(a, "restart")
  /\ UNCHANGED <<row, config, handle, armed, user, dropping>>

\* The interval of a health check is over.
Check(a) ==
  /\ At(a, "health", "sleep")
  /\ agent' = [agent EXCEPT ![a] =
                 CASE row = "none" -> Free
                   [] row \in {"down", "waiting", "stopping"} -> [agent[a] EXCEPT !.fails = 0]
                   [] row = "online" -> [agent[a] EXCEPT !.pc = "check"]]
  /\ UNCHANGED <<row, config, handle, armed, user, dropping>>

\* The command has succeeded, or has failed or timed out.
Checked(a, healthy) ==
  /\ At(a, "health", "check")
  /\ agent' = [agent EXCEPT ![a] =
                 IF healthy THEN Fresh("health", "sleep")
                 ELSE IF agent[a].fails + 1 >= MaxFails THEN Fresh("health", "restart")
                 ELSE [agent[a] EXCEPT !.pc = "sleep", !.fails = @ + 1]]
  /\ UNCHANGED <<row, config, handle, armed, user, dropping>>

\* A process that runs, also one that is being stopped, may use more memory than its
\* limit.
Over == "memory" \in config /\ row \in {"online", "stopping"}

\* The worker spawns a restart for each process over its limit, on every tick.
OverLimit(a) ==
  /\ Over /\ Unused(a)
  /\ agent' = [agent EXCEPT ![a] = Fresh("memory", "restart")]
  /\ UNCHANGED <<row, config, handle, armed, user, dropping>>

-----------------------------------------------------------------------------

Init ==
  /\ row = "none" /\ config = {} /\ armed = NoAgent /\ dropping = FALSE
  /\ handle = [k \in Registered |-> NoAgent]
  /\ agent = [a \in Agents |-> Free]
  /\ user = [pc |-> "idle", task |-> NoAgent]
  /\ earned = {} /\ stopped = FALSE /\ raced = FALSE /\ own = {} /\ detached = {} /\ crossed = FALSE

Process ==
  \/ Insert \/ (\E k \in Registered : Register(k) \/ Store(k))
  \/ Launch \/ (\E a \in Agents : ManualRestart(a)) \/ Stop \/ Stopped \/ Exit
  \/ Delete \/ DropWatcher

Step(a) ==
  \/ FileChange(a) \/ Debounced(a) \/ Closed(a) \/ CronDue(a) \/ Look(a) \/ Check(a)
  \/ (\E healthy \in BOOLEAN : Checked(a, healthy)) \/ OverLimit(a)
  \/ Restart(a) \/ RegisterWatcher(a) \/ InsertWatcher(a) \/ AbortEnds(a)

Next == Process \/ \E a \in Agents : Step(a)

\* A task is on its way to a restart.
Deciding(a) == agent[a].pc \in {"check", "debounce", "look", "restart"}
\* Its verdict begins while the process runs, or, on a file change, was not stopped.
Earns(a) ==
  row \in {"online", "stopping"} \/ (agent[a].kind = "watch" /\ ~stopped)
\* A launch has yet to look after the watcher.
Launching == \E a \in Agents : agent[a].pc \in {"launched", "arm"}
Alive(a) == agent[a] # Free
\* A watcher, or what becomes one.
Watching == armed # NoAgent \/ Launching \/ \E a \in Agents : agent[a].kind = "watch"

Observe ==
  /\ earned' = {a \in Agents : /\ Deciding(a)' /\ agent'[a].kind \in Kinds \ {"cron"}
                               /\ IF Deciding(a) THEN a \in earned ELSE Earns(a)}
  /\ stopped' = (row' = "down" /\ (stopped \/ Stop \/ Stopped))
  /\ raced' = (Watching' /\ (raced \/ (Launching' /\ (Stop \/ row' = "stopping"))))
  /\ own' = {a \in Agents : /\ agent'[a].kind \in Registered /\ row' # "none"
                            /\ (a \in own \/ ~Alive(a))}
  /\ detached' = {a \in Agents : /\ agent'[a].kind \in Registered
                                 /\ \/ a \in detached
                                    \/ user.task = a /\ row' = "none"}
  /\ crossed' = (/\ row' # "none"
                 /\ \/ crossed
                    \/ Insert /\ dropping
                    \/ \E a \in Agents : /\ At(a, "aborted", "restart") /\ Restart(a)
                                         /\ row = "down" /\ row' = "online")

Spec == Init /\ [][Next /\ Observe]_vars

-----------------------------------------------------------------------------

\* Every variable has its type, and a handle in the row is of a task that runs.
TypeOK ==
  /\ row \in {"none", "down", "waiting", "online", "stopping"}
  /\ config \subseteq Kinds
  /\ handle \in [Registered -> Agents \cup {NoAgent}]
  /\ \A k \in Registered : handle[k] # NoAgent => agent[handle[k]].kind = k
  /\ armed \in Agents \cup {NoAgent}
  /\ armed # NoAgent => agent[armed].kind \in {"watch", "none"}
  /\ agent \in [Agents -> [kind : TaskKinds \cup {"none"}, pc : AgentPcs,
                           fails : 0..(MaxFails - 1)]]
  /\ user \in [pc : UserPcs, task : Agents \cup {NoAgent}]
  /\ {dropping, crossed, stopped, raced} \subseteq BOOLEAN
  /\ earned \subseteq Agents /\ own \subseteq Agents /\ detached \subseteq Agents

\* What is down is brought up only by cron, on request, by a task aborted too late,
\* or on a verdict that began while the process ran; by a file change also after it
\* crashed.  A stop that no launch was racing is final for the watcher: changes that
\* come after it bring nothing up (CHANGELOG.md:46; health.rs:31-42, worker.rs:204-227,
\* watcher.rs:25-92).
RevivalIsStale ==
  [][\A a \in Agents :
       Restart(a) /\ row \in {"down", "waiting"}
         => \/ agent[a].kind \in {"cron", "user", "aborted"}
            \/ a \in earned
            \/ agent[a].kind = "watch" /\ raced]_vars

\* The cron and health tasks of a deleted row do not restart the next app of that
\* id, unless they were about to restart when it was deleted, or it was deleted
\* before they were registered (cron.rs:8, health.rs:12).
ForeignIsLate ==
  [][\A a \in Agents :
       /\ Restart(a) /\ row # "none"
       /\ agent[a].kind \in Registered /\ a \notin own
       => a \in detached]_vars

\* A process that is up and asks for it is watched, or its launch has yet to see to
\* that; but for a delete of another app of that id that was still under way
\* (supervisor.rs:526-530).
WatchArmed ==
  "watch" \in config /\ row = "online" /\ ~crossed =>
    Launching \/ \E a \in Agents : armed = a /\ agent[a].kind = "watch"

=============================================================================
