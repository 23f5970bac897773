# pmr: a TLA+ model of the daemon

pmr is a process manager. Its daemon keeps a table of processes, spawns and
supervises a child for each, restarts children that exit, and serves commands
over a Unix socket. This directory models the parts of the daemon whose
correctness depends on the order of events, checks them with TLC on small
instances, and proves the central properties with TLAPS for every instance.
Paths below are relative to the repository; `daemon/` is `src/daemon/`.

## The system

The daemon runs on tokio's multi-threaded runtime. Its state is a table behind
one mutex (`ProcessTable`), channels, a few atomics, and files.

| Component | State | Operations | Talks to |
|---|---|---|---|
| supervisor (`daemon/supervisor.rs`) | a task per running row, its command channel, its child | spawn, wait for exit or command, kill sequence, backoff wait, restart or leave | the table; oneshot acknowledgements; the child |
| restart policy (`decide_restart`, counters in `daemon/state.rs`) | unstable restarts, last delay, created_at, uptime | decide on an exit; reset by restarts, `pmr reset`, the worker | called by the supervisor |
| operations (`daemon/ops.rs`) | none across calls | start, launch, stop, restart, delete, scale | the table, command channels |
| process table (`daemon/state.rs`) | rows by pm_id, next id | allocate, insert, remove, resolve, snapshot | everyone, under its mutex |
| shutdown (`daemon/mod.rs`) | `shutting_down` | dump, stop every row, exit | operations, supervisors, launch |
| file watcher (`daemon/watcher.rs`) | `Ctx.watchers` | arm after a launch, disarm on stop and delete, debounce | restart_one |
| health checks, cron (`daemon/health.rs`, `cron.rs`) | a task per row | probe or sleep, restart | restart_one; aborted by remove_proc |
| worker (`daemon/worker.rs`) | sample rate gate | memory limits, backoff reset, log rotation | the table, restart_one, log pumps |
| dump (`daemon/dump.rs`) | dump file, backup, temporary file | save, load, resurrect | the table, start_app |
| log pumps (`daemon/logs.rs`) | files and a generation | append, reopen | worker, supervisor, bus |
| event bus (`Ctx.bus`, `daemon/rpc.rs`) | a broadcast channel of 1024 events | publish, subscribe, forward | clients, `pmr logs`, monit |
| daemon singleton (`daemon/mod.rs`, `src/client.rs`) | flock on the pid file, socket | auto-start, bind, unlink | clients |
| configuration, command line, display | none | parse, print | not concurrent |

What is hard in it:

- A task releases the table's mutex between reading a fact and acting on it. The
  supervisor captures an exit's facts in one section and restarts in another;
  restart_one reads the channel in one and flips the status in another;
  delete_one removes a row whose supervisor it read earlier; launch tests
  `shutting_down` long before it spawns; the watcher is checked and inserted apart.
- A command sits in a bounded channel of a task that may leave. Its sender must
  notice the dropped acknowledgement and compensate, and three operations
  compensate in three ways.
- A child may die, ignore its signal, or fail to spawn at each of these points.
- Restart counters are read at an exit and written at the restart, and three
  other parties reset them.
- Cron, health checks, watcher and worker restart a process on a verdict they
  reached earlier, by its id, and the id may since belong to another app.
- Daemons and clients meet in two names of the file system, which a daemon that
  ends unlinks while others hold the file open.
- So do log pumps with the worker's rotation, deletions and operators: a file keeps
  growing after its name has gone.
- A dump is read after the power loss that interrupted its writing.
- Events go through a ring that overwrites, a filter and a socket to clients that
  may be slow or gone.

What makes it correct: a row has at most one supervisor and one child; every
caller gets an answer; an operation's effect holds when it returns, in spite of
crashes and automatic restarts; a shutdown leaves nothing behind; the pid a row
shows is its own; pmr gives up on a process exactly when its policy says so; what
restarts a process on its own does not revive one that was stopped, nor act on
another app; one daemon serves, and clients find it; a saved dump survives; a
subscriber misses nothing without being told; log lines reach the file that has the name.

## Modules

| Module | What it is |
|---|---|
| `Supervision` | one row, its operations, its supervisors and the shutdown, with safety and liveness properties |
| `ProcessLife` | what all of Supervision amounts to for one app, its status and its process: an abstract specification that Supervision implements |
| `SupervisionPromises` | Supervision with four history variables, and what each operation promises its caller in terms of them |
| `SupervisionProofs` | type correctness, the inductive invariants of Supervision and of its promises, and the theorems from them |
| `RestartPolicy` | decide_restart and its counters over discrete time |
| `RestartPolicyProofs` | its inductive invariant and theorems |
| `ProcessTable` | the rows of all processes: start_app, scale, delete, save, resurrect, and a daemon that takes over |
| `ProcessTableProofs` | its inductive invariant and theorems |
| `Automation` | cron, health checks, watcher and memory limit on one id |
| `AutomationProofs` | its inductive invariant and theorems |
| `DaemonSingleton` | the start and end of daemons, the clients that start and end them, pid file and socket |
| `DaemonSingletonProofs` | its inductive invariant and theorems |
| `EventBus` | events from their publishers through ring, handler and socket to a client |
| `EventBusProofs` | its inductive invariant and theorems |
| `DurableRegister` | what a dump file promises to saves that do not overlap: an abstract specification |
| `Dump` | saves, which may overlap, by system calls on a file system that crashes and loses power; implements DurableRegister |
| `DumpProofs` | the refinement, that resurrect always finds a table, and what overlapping saves do not break |
| `LogFiles` | pumps on a log file that is rotated, moved and deleted |
| `LogFilesProofs` | its inductive invariant and theorems |
| `MCSupervision`, `MCPromises`, `MCTable`, `MCAutomation`, `MCSingleton`, `MCEventBus`, `MCDump` | instances for TLC: symmetry sets, requests, sizes |

### Supervision

The model follows the life of one row, from the moment start_app has inserted it
until it has been removed. Tasks (`op`, `ack`) stand for whoever runs an
operation on it: RPC handlers, `for_each_parallel`, watcher, cron, health check,
worker, and the shutdown. Supervisors (`sup`, `inbox`, `child`) stand for the
tasks `supervisor::spawn` creates. A supervisor's identity is also its channel
(`row.cmdTx`) and the pid of its child (`row.pid`), which is what lets a property
say whose pid a row shows.

**Atomicity.** An action is one critical section of the table mutex, one
channel operation, or one step of a child, together with the local steps up to
the next access to shared state. Acknowledgements are sent in the action after
whose section the code sends them: the receiver is only waiting, so moving the
send to the end of the section removes no behaviour that the receiver could tell
apart. Reaping a child (`Reap`) and the section that publishes it
(`NaturalExit`, `KillDone`) are apart, since every other operation can come between them.
`ClearTx` is apart from `SetDead` because the code takes the mutex twice.
remove_proc drops the row and, after deleting files, the watcher; the two are
one action, because the watcher's map is not read by anyone who can see the row
gone and a watcher that is armed in between is disarmed either way.

**Supervisor.** `sup[s].pc` is the place in `run`:

| pc | place | leaves by |
|---|---|---|
| start | top of 'lifecycle | `SupStart`: row gone, spawn failed (failed), or child running (born) |
| born | spawned, not published | `GoOnline` |
| failed | spawn failed | `SpawnFailed` |
| watch | select! | `Reap`, `TakeCommand`, `SendersGone` |
| reaped | wait() returned | `NaturalExit`: captures the facts and decides |
| exited | facts captured | `CheckShutdown` |
| decide | decision taken | `ExitStops`, `ExitGivesUp`, `ExitRestarts` |
| backoff | the delay's select! | `BackoffElapsed`, `BackoffCommand`, `SendersGone` |
| kill, sigkill | do_kill | `KillTimeout`, `Reap` |
| killed | do_kill returned | `KillDone`: stop, restart or delete |
| clear | before clear_cmd_tx | `ClearTx` |

When a supervisor leaves (`Return`) its receiver is dropped: commands still
queued, and the one being handled, are answered "dropped". When the row's and
every clone of the sender are gone, recv returns None (`SendersGone`), the task
returns and kill_on_drop kills the child: the child becomes "dropped".

**Operations.** `op[t].pc` is the place in stop_one, restart_one, delete_one
or launch: one value per await or critical section. The shutdown is an
operation of its own ("kill"): it sets the flag, takes the ids, runs stop_one on
the row, and exits; exit(0) erases every task at once and leaves children as
they are.

**Data.** A row is its status, channel, pid and count of unstable restarts.
Whether an exit is clean, in stop_exit_codes, or quick is chosen at the exit;
whether restarts wait is a constant. Names, paths, environments, monitoring
figures and the restart counter are left out: no decision of these functions
reads them.

### ProcessLife

Who looks at an app from outside sees its status and whether its process runs. `ProcessLife` has these two and one
life cycle with ten phases, and no tasks, supervisors, channels or acknowledgements. It says what may
happen to an app: a life cycle begins only where there is none (`Launch`), a process is created only while none
runs (`Create`), an exit is followed by a restart only if the row did not say that the process was to end when the
exit was judged (`Judge`), a command is carried out only when no process runs (`Obey`), and a process is let go
only once the row has gone (`Forget`). The row may also be changed from outside the life cycle
(`Announce`, `Normalise`, `Remove`): what operations do to it in sections of their own.

Supervision implements it (`OneLifeCycle`): the phase is the place of the one supervisor that has not
returned (`PhaseOf`), and most steps of operations, and all traffic on channels, are stutters. In
terms of it `StatusIsReal` says what a status is worth: a row that shows online, launching, waiting or
errored is right. Stopping and stopped say what was asked for: a stop that has been overtaken writes
stopped over a process that has not ended yet (`Normalise`).

### RestartPolicy

Time is counted in ticks. `age` and `uptime` are the two differences decide_restart
compares with limits; they stop growing once no comparison can tell them apart.
`Exit` computes the verdict, `Stop`, `GiveUp` and `Restart` carry it out in a
later step, and `ResetCounters` may come between: what the restart then writes
overwrites the reset, and the history variable `crashes` goes on with it. The
history counts the exits that came within min_uptime of coming up and within the
window; the properties compare the code's counters with it.

### ProcessTable

A row is its name and instance number, under an id; what becomes of it while it
exists is Supervision's. Each task runs one operation, and `op[t].pc` says
before which section of the table's mutex it is:

| operation | sections and awaits, in order |
|---|---|
| start_app | name check (`Start`); then per instance `Insert`, which allocates in the same section, and the launch (`Launched`) |
| scale up | the snapshot (`Scale`); then per instance `Alloc`, `InsertFixed`, `Launched` |
| scale down, delete | the ids (`Scale`, `Delete`); then `Remove` for each, in order of instances or in any |
| save | `Save`: its lock section decides what the dump holds |
| resurrect | the file (`Resurrect`), the names in the table (`Preexisting`); then per entry `NextEntry`, `InsertFixed`, `Launched` |

A launch ends Ok or Err and leaves its row; a kill sequence ends with the removal
of whatever row has the id. `NewDaemon` is the end of a daemon at any moment, by
`pmr kill` or a crash, and the empty table of the next one; the dump stays.
Configurations other than the name are left out; the first name check and the
insertions are apart, so two starts of one name may both pass, as in the code.

Two histories serve the properties. `calm` holds the operations that no other
operation, save or new daemon has overlapped since they began: what scale and
resurrect promise, they promise to those. `tangled` holds the names that two
operations were adding rows of at once: instance numbers may collide there
(two starts, two scales, or a start during a resurrect) and nowhere else.

### Automation

One id of the table, whose `row` is none, down, waiting for a restart, online, or
stopping (a stop is on its way: its kill sequence runs), and the `config` of the app in it: which
kinds it asks for. A restart is one step here (the sections of restart_one and stop_one, and
their races, are Supervision's), but for what a cold start does once the process is up.
`agent[a]` is a tokio task with its kind and place:

| kind | places |
|---|---|
| cron | sleep (`CronDue`), look at the table (`Look`), restart |
| health | sleep (`Check`: none, not online, or online), the command (`Checked`), restart |
| watch | recv (`FileChange`), debounce (`Debounced`, `Closed`), look (`Look`), restart |
| memory | restart: the worker spawns one for each process over its limit |
| user | restart: a request (`ManualRestart`), or start_app's launch (`Launch`) |
| all, after `Restart` | launched: a launch that was told ok looks at the row (`RegisterWatcher`); arm: it inserts the watcher and spawns its task (`InsertWatcher`) |

`Stop` disarms the watcher and makes the row stopping; the code has a section for each (ops.rs:163-174), and a
process that is online between the two is not watched any more. A launch that comes whole in between leaves what
one leaves here whose watcher is inserted after the stop. `Stopped` is the end of the kill sequence. A restart of a row that is waiting, online or
stopping may be a command that was obeyed, or one that was dropped and became a launch: it may go on
to `launched` or not.

An abort takes effect where a task awaits. Between a look or a verdict and the
restart there is no await, so a task that is aborted there still restarts: its kind
becomes "aborted", and it may end where it awaits the launch (`AbortEnds`). `user` is
start_app on this id: it inserts the row, then for
cron and for health spawns a task (`Register`) and stores its handle in whatever row has
the id by then (`Store`), then launches. `Delete` removes the row and aborts the
tasks whose handles it holds, `DropWatcher` is the end of the same remove_proc; one
remove_proc is under way at a time. When a schedule is due, a file changes, a
command fails or a process is over its limit is a choice. Two failures to watch are
left out: a watcher that cannot be created, and events that its patterns ignore. A new task needs
a member of `Agents` that is free (`Unused`): a bound.

Histories: `earned`, the tasks on their way to a restart whose verdict began while the process
ran, or, on a file change, while no stop had brought it down; `stopped`, that a stop
brought the row down or found it down; `raced`, that a stop came between a launch and
its look at the watcher, as long as that launch or a watcher is left; `own`, the
tasks whose row is still the one they were made for; `detached`, those whose row was
gone before their handle was stored; `crossed`, that the row was inserted during a
remove_proc of the id, or started by a task that a delete has aborted.

### DaemonSingleton

A daemon goes through open, lock, sweep (unlink the socket), write (its pid), bind,
serve, drain (stop the rows), unlinkPid, exit: each is one system call, and a crash
may come between any two. `file[d]` is the inode it has open, `pidFile` the inode the
name leads to, and `sock` the daemon that the socket's name leads to. `Leave` is the end
of a process: lock and connections go, names stay. A client (`client[c]`)
tries to connect, pings for the version, else spawns a daemon and polls; connected, it is
done, or kills the daemon and waits for the end of the connection. A connection to a
daemon that is shutting down is made, as its listener is open, but never answered.

`GiveUp`, the timeout of wait_connect, is taken only when no daemon is starting:
5 seconds outlast a start. `kill_daemon` may stop waiting as soon as the daemon is
ending (its 60 seconds may be over). `ghost` says that a daemon
has locked a file that had lost its name, until no daemon holds a lock any more; `clear` holds the clients that began when no daemon
was ending or ghost, and since when none has ended.

### EventBus

`log` is everything ever published and a receiver a position in it; the ring holds the
last `Cap` events, so that a receiver behind `Oldest` lags. A connection's handler goes
through asked (`Reply`: the answer is written before the receiver exists), attach
(`Attach`: bus.subscribe()), resolve (`ResolveTarget`, a section of the table's mutex),
then the loop: select (`RecvEvent` with the filters, `RecvLagged`, `HangUp`) and
write (`Write`, which waits while the socket is full). The client reads frames; on a
lagged frame EventStream yields an Err, at which pmr's own clients end and others may go on.
Rows come and go under ids that are given out again (`Insert`, `Remove`), and pumps publish
with the id and name they were started with, after the row has gone too (`had`).
`from` in a frame is a position that only properties read.

The reply comes before the receiver: what is published in between is not seen by a
client that has its answer. The repository promises nothing else, and
`NothingLostSilently` starts at the receiver.

### DurableRegister and Dump

`DurableRegister` says what the comment of dump.rs:58-59 promises: a save takes
effect in one step (`Commit`), is durable once acknowledged, and a crash or power loss
leaves the old value or the new. The promise is to saves that do not overlap, because the code's
share one temporary file and nothing keeps them apart (`pmr save` of two clients, or one with the
shutdown's). `overlap` is "yes" from the beginning of a save during another, "past" when a save
begins alone after that, and "no" again when that one returns Ok; unless it is "no"
the register may change in any way (`Disturb`).

`Dump` has the system calls of save: read and parse the old dump (`Check`), fs::copy in two
(`CopyOpen`, `CopyWrite`), open with truncation (`Open`), `Write`, `Sync`, `Rename`,
`DirSync`. Each but the last may fail or be the last before a `Crash` or `PowerLoss`. A
file has contents that processes see (`data`) and contents one of which a power loss
would leave (`kept`); the directory likewise (`dir`, `dirs`). A write
reaches the disk at once, later, in part or never; `WriteBack` is the system doing it in its own time.
Contents are a table, `Scrap` (empty or cut short), or a table with a longer one's tail behind it: what two
savers make of one temporary file. `Damage` destroys a dump at rest, next to a good
backup: the case the backup is for.

The refinement maps the register's value to what the dump parses to, and a saver anywhere
inside save to "saving". `Rename` is the step that commits.

Assumed of the file system: names and files are as POSIX has them, rename is atomic, a synced file
or directory stays. An error of the directory's sync is ignored by the code and is assumed
not to happen. resurrect reads dump and backup in one step: it runs at boot.

### LogFiles

One log file and the pumps that append to it: those of the instances of an app with
merge_logs, or of an app and of the next one of its name. Of the file the
model has whether its name leads to one (`exists`, `missing`), of a pump whether it has the file
under the name, one that lost it, or none (`file`), and whether its generation is
current (`fresh`). pump_stream goes through open, load (of the generation, after the
open), read, reopen. `TakeLines` is one read that brings lines, with or without the beginning of another;
`Accumulate` one that brings no end of a line. The worker's tick is stat, rename, bump
(`WorkerTick`, `WorkerStat`, `WorkerRename`, `WorkerBump`); remove_proc counts the rows
that share the file and deletes it after releasing the table (`Remove`, `RemoveFile`);
operators delete it, or move it and signal.

`crossed` is the history of two races after which a pump is never told: another pump
made a deleted file anew before the tick could miss it (after an `rm`, an instance with merge_logs starts or
restarts), or the bump came between a pump's own open and its first look at the
generation (logs.rs:104-105). Its file then stays without a name until the next
rotation, signal or restart.

## Runs

Passing:

- `core` (`Core.cfg`): three tasks, three supervisors, stop, restart and delete
  with watching on and a delay before restarts. Types; one supervisor; one child; the pid's owner, whose
  child it is until it has been reaped;
  a caller that waits is owed an answer by someone; a delete that returned has
  removed the row. Deadlock is checked: the system never stops while the daemon
  is up.
- `promises` (`Promises.cfg`): two tasks, every operation and the shutdown,
  watching and delays on. A stop, delete or shutdown that overlapped no start
  leaves the process down (`StopWins`), although it may race crashes, restarts
  after a crash, backoff waits, failed spawns and other stops. A restart that
  returns Ok had an effect (`RestartTakesEffect`). `DropsNeedARace`, `StuckNeedsARace` and `OrphansAreLate` bound the
  broken promises listed below: which race each of them needs. `OneLifeCycle` and `StatusIsReal` are
  checked here because this run has the shutdown. The daemon exits, so deadlock is not
  checked.
- `liveness` (`Liveness.cfg`): two tasks; every operation returns.
- `policy` (`Policy.cfg`): the restart policy without a backoff, and with one that begins below, or past,
  its cap of 5 ticks. It gives up only on early exits (`GiveUpIsEarned`) and ends every crash loop
  (`CrashLoopEnds`), the cold start of a dropped restart included; a delay past the cap is the base
  (`BackoffBounded`); it shrinks only by a reset, by stability or from such a base (`BackoffEndsByStability`).
- `table` (`Table.cfg`): two operations at a time, five in all, with saves and new
  daemons in between. No row is overwritten (`NoClobber`); instance numbers
  of a name differ unless two operations added rows of it at once
  (`DistinctInstances`); an undisturbed scale reaches the number it was asked for
  and deletes from the top (`ScaleExact`); an undisturbed
  resurrect into an empty table restores the dump (`ResurrectRestores`). Deadlock
  is not checked: the number of operations is bounded.
- `automation` (`Automation.cfg`): all kinds on one id that comes and goes. A
  process that is down is brought up only by cron, on request, by a task aborted too late, or on a
  verdict that began while it ran; by a file change also after a crash, and after a stop
  only if that stop raced a launch (`RevivalIsStale`). Tasks of a deleted
  row do not restart the next app of the id, but for those deleted before they
  were stored (`ForeignIsLate`); a process that is up is watched, or its launch has yet to see to
  that (`WatchArmed`).
- `singleton` (`Singleton.cfg`): one daemon has the names at a time (`SingleUnlessGhost`),
  the socket leads to it (`ServingIsReachable`), the pid file names it
  (`PidFileNames`), and a client that met no ending daemon does not fail
  (`AutoStart`).

- `event_bus` (`EventBus.cfg`): one connection, with clients that read slowly, stop and hang
  up. What was asked for arrives once, in order, or is reported as skipped at its place
  (`NothingLostSilently`); a subscription by name shows another app only if both have had the id
  (`ForeignAfterReuse`); a handler whose client has gone ends (`DeadSubscribersLeave`);
  events are dealt with unless the client's own socket stays full (`Forwarded`). The daemon may end, so
  deadlock is not checked.
- `dump` (`Dump.cfg`): two savers that may overlap, two tables of different length. save implements
  the register (`AtomicAndDurable`), and one that runs alone mends what overlapping ones have
  torn; once a save has returned Ok, resurrect finds a table
  whatever happens (`EverLoadable`). The exceptions are overlapping saves, until one that ran alone has
  returned Ok, and `cut`: the daemon ends between the rename over
  a destroyed dump and the sync of the directory, and the next save then trusts and
  backs up a dump that a power loss may still take away.
- `log_files` (`LogFiles.cfg`): two pumps, up to two rows. A pump that writes to a file
  without a name, and is not `crossed`, is about to be told (`StaleIsNoticed`) and is told while its
  process is up (`DeletedIsRecovered`); a pump that waits has flushed, unless the
  beginning of a line came with the last one (`QuietIsFlushed`).

`RestartPolicy`, `Automation`, `Dump`, `LogFiles` and `EventBus` have their type invariants proved; their runs check none.

Violations, each a statement of the repository that the code does not meet (details and
quotations are in PROJECT.json, "findings"):

| run | statement | what happens |
|---|---|---|
| `lag_ends_stream` | subscribers that lag simply drop events | the frame that says so is no event, and the clients end at it |
| `unflushed_line` | flushed when the read buffer runs dry, prompt when quiet | a line stays in the writer if the beginning of another came with it |

More broken statements that the models show; add the invariant to the cfg named to see
a counterexample:

| invariant, cfg | statement | what happens |
|---|---|---|
| `NeverStuckStopping`, Core.cfg | "normalize so the row never sticks at Stopping" (ops.rs:187) | restart_one reads the channel and flips the status in two sections (ops.rs:201-219); with a new supervisor in between a running child is shown as Stopping. `StuckNeedsARace`: only with a restart that overlapped another operation |
| `KillSequence`, Core.cfg | "overwriting drops its cmd_tx and SIGKILLs the running child without a kill sequence" (ops.rs:87), as what to avoid | delete_one whose command was dropped removes the row of a supervisor started meanwhile (ops.rs:264-275). `DropsNeedARace` |
| `NoOrphan`, Promises.cfg | "`start` during daemon shutdown is rejected (previously leaked an unmanaged child)" (CHANGELOG.md:64) | launch passed the check before the flag was set (ops.rs:117). `OrphansAreLate`: the only way |
| `StoppedIsDisarmed`, Core.cfg | "a stopped app is no longer revived by a file change" (CHANGELOG.md:46) | a stop between the check and the insertion of a watcher (watcher.rs:19-27, 72). `RevivalIsStale`: the only way for a change that comes after the stop (`raced`) |
| `DelayCapped`, Policy.cfg | "×1.5, cap 15 s" (README.md:184, CHANGELOG.md:140), "capped at 15000" (config.rs:132) | the first delay is the base, which nothing caps (supervisor.rs:80); the second shrinks to the cap. `BackoffBounded`: only the base |
| `SingleDaemon`, Singleton.cfg | "singleton via `flock`" (CHANGELOG.md:132) | a daemon opened the pid file before another unlinked it and locked it after (mod.rs:52-58, 213): a third one then serves too. `SingleUnlessGhost`: the only way |
| `DumpParses`, Dump.cfg | "Atomic AND durable" (dump.rs:58) | one saver truncates the temporary file that the other renames into place (dump.rs:60, 64-75). `DumpParsesAlone`: only then |

Not statements of the repository, but worth knowing: an exit whose facts were
captured before a stop flipped the row does respawn, though the stop then wins
(supervisor.rs:206-273, ops.rs:171-173); the fallback of a dropped restart keeps the
count of unstable restarts (ops.rs:228, supervisor.rs:349); a backoff with a base of 1 ms never grows
(1 * 3 / 2 is 1, supervisor.rs:83); an event published between the reply to a subscription and its
receiver is not seen (rpc.rs:45, 218); a health check or a memory limit restarts whatever process
is there when its verdict is in (health.rs:75, worker.rs:41); and SendSignal may reach a pid that was
reaped one lock section ago (rpc.rs:155).

### Bounds

- *Tasks and supervisors.* A task starts at most one supervisor per operation, and
  a supervisor that has left is reused: a fresh one is indistinguishable from it
  once no task holds its channel (`Unused`). With as many supervisors as
  tasks a launch never lacks one. Two operations suffice for
  every pairwise race of two sections; the core run has a third, since a third
  task is what re-supervises a row between two sections of another.
- *ChanCap = 1* where the code has 8: with three tasks one slot is the only way
  to fill the channel, and full is the case that differs.
- *MaxRestarts = 2* (1 for liveness): below, at and past the limit.
- *One life of the row.* After its removal the row does not come back. Ids do
  come back in the code when the table empties; that is the planned `IdReuse`.
- *RestartPolicy*: MinUptime 2, MaxRestarts 3, Bases {0, 1, 2, 7}, Cap 5, ResetAfter 3. The
  delays are the fixed one, or 1, 1, 1, or 2, 3, 4, 5, 5, or 7, 5, 5; uptimes lie on both sides of MinUptime
  and ResetAfter; the ages on both sides of the window of 6 ticks.
- *ProcessTable*: `MaxId` 2 (three ids), `MaxNum` 2 (up to two instances asked
  for, instance numbers 0 to 2), two names, `MaxOps` 5. Three ids are enough for
  two instances of a name and a row in their way. Five operations reach a start,
  a save, a new daemon and a resurrect that races a scale or another start, and
  scale up, delete in the middle, scale up again. An allocation past `MaxId` and an
  instance number past `MaxNum` are not taken: the guards name them.
- *Automation*: three agents and three configurations: cron with a watcher, health checks with a watcher,
  and all that is not a watcher. Three tasks are a launch that a stop overtakes, the
  watcher it inserts, and another that restarts or is left over from the last
  row. MaxFails 2: below and at the limit. The proofs have no such bounds.
- *DaemonSingleton*: three daemons, two clients, four files: one daemon ends while a
  second holds its file open and a third creates the next; a daemon holds one file
  and the name leads to one more. A process that has left is used again.
- *EventBus*: one connection (handlers share nothing but the ring, which no receiver
  changes), a ring of 2, a socket of 1, four events, one id that two names have in turn.
  Four events lap a receiver twice: it lags, catches up and lags again. The requests
  are the dashboard's (no target), that of `pmr logs 0` (an id) and a name's.
- *Dump*: two savers, two tables of different length, three files: one for each name, which
  truncation and renaming use again. Once saves have overlapped, states with more than
  `MaxPending` (2) directories, or contents of a file, pending on the disk are not followed
  (`FewPending`): nothing is promised then until a save runs alone, and this one begins from what any
  two contents and directories can be. Before saves overlap there is no such bound, and the proofs have none.
- *LogFiles*: two pumps, two rows, one deletion under way: merge_logs, and an app
  deleted and started again while its old pump still drains a pipe. The worker
  looks at one file; bumps on account of others are `ReloadLogs` at any time.

Symmetry is used in safety runs only: tasks, supervisors, names, agents, daemons,
clients and files are interchangeable.

### Fairness

`FairSpec` assumes that the runtime runs every ready task (weak fairness of a
task's next step and of a supervisor's), that select! is not forever blind to a
command that keeps being ready, that tokio's semaphore lets a waiting sender through when
slots keep becoming free (strong fairness of `Receive` and `Send`: select! picks
at random, the semaphore is first come first served), and that SIGKILL ends a
process. Nothing is assumed of a child that has not been sent SIGKILL: it
may run forever and ignore its signal, so termination rests on the kill timeout.

EventBus assumes that a handler that can go on does (weak fairness of `HandlerStep`: select!
looks at both its branches, and an event or the hang-up stays ready), and nothing of clients.
LogFiles assumes that the worker ticks and that whoever has moved a file sends the
signal; nothing of children, which may never print again, nor of pumps. Dump needs no fairness.

## Proofs

`SupervisionProofs` proves `Spec => []TypeOK`, one lemma per action, then one supervisor,
one child and the pid's owner (`PidIsHeld`, from which `PidIsOwned` follows by `ChildPhase`). None of these three is inductive: a child must be tied to its supervisor's place
(`ChildPhase`: a child exists exactly from the spawn until the reaping or the drop;
`ExitedIsDead`: after the daemon's exit there is no row and no task). Two
children need two supervisors, one of which would have to belong to a row that is
gone; the row's removal is only done by the supervisor itself after its child is
reaped, or by delete_one, after which a supervisor still there is the last one,
as nobody can start another. Steps that touch neither supervisors nor children are
dealt with by common lemmas, the others one by one.

Its last part proves `ReplyIsOwed` and `DeleteSticks`. The invariant says who waits for
whom: the entries of a queue are distinct and of tasks that wait for that very supervisor
(`QueueWaits`), so is the command a supervisor has in hand (`CmdWaits`, and `CmdPhase` says where it may
have one), the first spawn is reported to one starter that waits for it (`StarterWaits`), a supervisor
slot that is free has neither (`FreeOwesNothing`), and a delete has been told ok only once its row has
gone (`DeleteDone`). Without distinctness an answer to one entry would leave another behind whose
task no longer waits.

The promises of `SupervisionPromises` are proved from `PInv`, which adds to the above what the histories tell. At which places an operation can
be (`OpKind`); that a row's channel has a receiver until the shutdown (`Supervised`), that a caller
with an answer has lost its supervisor, or is a restart that was told ok (`Answered`), and that a row
whose last supervisor has gone says so (`RestStatus`). An operation that no start has
overlapped knows every supervisor there is: from its look at the row on, none runs but the one whose channel it
holds (`CalmAlone`). So when it returns there is none, no child, and the row is at rest, which is `StopWins`. The same
for the shutdown, except supervisors that are `late` (`LateOnly`): `OrphansAreLate`. While deletes
overlap no start, a row that is removed leaves no supervisor (`GoneIsDead`): `DropsNeedARace`. While restarts overlap
no start, a supervisor that waits for its child and whose row is not online has a command on its way
(`Announced`): `StuckNeedsARace`. And what a restart has seen of the row is still so if no supervisor has
started since it began (`Respawned`), and then it cannot be told ok: `RestartTakesEffect`. The operations' steps are many, but a task goes
from place to place in few ways: `Transition` lists them, and most lemmas are about it.

The refinement of `ProcessLife` rests on three of these, `Supervised`, `RestStatus` and one child, and on `OneSup`: there are never two
supervisors, with or without a row. So the phase is the place of the supervisor that acts (`PhaseIs`), and `SupLife` goes
through its steps, `TaskLife` through the operations'. An announcement finds somebody who looks after
the app because the row's channel has a receiver, and because a row without one is not online.
`StatusIsReal` is then proved of the life cycle alone (`FitsStep`), by its twenty-one kinds of step and not by
the operations' and supervisors' own; only that an errored app has no process needs Supervision's invariant.

`AutomationProofs` proves the types and the three properties for any number of tasks, any configurations
and any max_fails. A task of cron or of health checks is in start_app's hands or in the row as long
as its row is there, or is detached (`Owned`); the row's handles are free when start_app stores them
(`Storing`); a process that is up or about to be is watched, or a launch that nobody has aborted is
still to see to it (`Watched`, `Pends`), because the only thing that
disarms without taking the process down is a delete, whose row has gone or has been crossed (`Dropping`).
For `RevivalIsStale`: what is stopped or stopping has neither a watcher nor a launch that could insert one,
unless the stop raced a launch (`Quiet`), so that no file change is seen then; and whoever is past
the beginning of a verdict has earned it (`Verdicts`), which for health checks and memory limits needs that
only cron and watchers look at the table before they restart (`Placed`).

`RestartPolicyProofs` proves, for every configuration, that `Counted` (the row's
counter equals the history, or the pending verdict's does), `Capped` and
`Monotone` are invariant, and from them the types and the four properties of the policy. No relation of
base and cap is assumed: `Capped` and `Monotone` let the base be past the cap, and the delay then fall to it.

`ProcessTableProofs` proves the types and the four properties of the table for any number of
operations, names and ids. The types and `NoClobber` do not follow from the guards alone: start_app does not look
whether the id it allocates is taken. What makes it free is `TableType`, that every
id in the table is below next_id, which insertions of pinned ids keep through
bump_next_id and the restart at 0 keeps because it happens in an empty table
only. An id that scale allocated ahead may be handed out a second time after
such a restart; then the check of `InsertFixed` refuses it.

For `DistinctInstances`, what an operation has still to
add must be like no row of the table: a start or a scale counts on from past the highest
number (`Numbered`), and a resurrect has read distinct rows from the dump (`OwnRows`), of names
that were not in the table when it looked (`NewRows`, `NextRow`). Another operation cannot spoil that unless
it adds rows of the same name at once, which is what `tangled` records (`Tangle`); names stay tangled,
in the dump too. That a scale's first number exists at all is that a set of naturals has a least element, which
`LeastElement` takes from the library's well-foundedness of inclusion among finite sets.

`ScaleExact` and `ResurrectRestores` are about operations that nothing overlaps. What has been done and what
is left make up what was asked for (`OnCourse`): for a scale, the instances there are, less those still
to be deleted or plus those still to be added, are as many as wanted; for a resurrect into an empty table,
each row of the dump is in the table, or still among the entries, or the one being inserted, whose id
is free. Steps of others are excluded rather than examined: a task that moves would have begun, and then the
operation is undisturbed no more (`CalmMoves`).

`DaemonSingletonProofs` proves the types and all four properties for any
number of daemons, clients and files. While there is no ghost, a daemon between its
lock and the unlinking of its pid file holds the file that has the name (`NamedFile`);
two such daemons would hold one file, which the lock forbids (`Exclusive`). A daemon
that has opened a file holds one (`Opened`), so a new one is never taken for
it; from `NamedFile` follow that nobody else sweeps or unlinks a serving daemon's
socket (`Socket`) or writes its pid (`Text`). `AutoStart` rests on what an undisturbed client may count
on: there is no ghost and nobody is ending (`Undisturbed`), the socket's name is free from the sweep to the
bind (`Swept`), who listens serves or drains (`Listens`), and a client that pings is connected to a
daemon that serves, while one that waits has a daemon that is starting or serves (`Awaited`).

`EventBusProofs` proves the types, `NothingLostSilently` and `ForeignAfterReuse` for any ring, socket, number of
subscribers and events. The invariant says of each stream that its frames are in
order, end before the receiver's position, and cover every position since the receiver was made
that was asked for; a frame that is pending counts as the last of the stream. For
`ForeignAfterReuse`: an id has had the name it has and the names of its events, the ids a
subscription's names were resolved to had one of them, and a frame shows what it showed when it was taken.

`DumpProofs` proves, for any number of savers, tables and files, that
every step of `Dump` is a step or a stutter of `DurableRegister`, and `EverLoadable`. Some of the invariant
holds however saves overlap: backup and temporary file are never a dump, in no
directory that a power loss may leave (`Apart`); only one file is the backup (`BackupIsOne`); the files
that a saver needs for its next step are there (`Place`); and `overlap` knows of any two
savers (`AtMostOne`). While nothing has overlapped, every file that is or was a dump is on
disk as it is in the cache (`Synced`). Where a save stands that runs alone, be it after others have torn the dump,
its temporary file holds what it should, synced before the rename (`Progress`): this is what makes `Synced` true
again when it returns Ok. For `EverLoadable` also: if
some directory has no dump that parses, then every one has a good and durable backup that no save is about
to touch (`BackedUp`). `DumpParsesAlone` is the part of the broken `DumpParses` that holds, from `AllParse`:
so do the dumps of all directories that a power loss may leave.

`LogFilesProofs` proves the types, `StaleIsNoticed` and `QuietIsFlushed` for any number of
pumps and rows. Steps fall into five kinds, with a lemma each: the name is lost
(`NameLost`), a bump (`Bumped`), a file is opened (`Opened`), input is read (`Read`), and those
that leave pumps and file alone.

The assumptions are those on the constants, named in the modules that declare
them and evaluated by TLC. No theorem assumes anything else.

Only model-checked: liveness (`OperationsReturn`, `DeadSubscribersLeave`, `Forwarded`,
`DeletedIsRecovered`), which is out of the prover's reach.

## Not modelled, and the plan

1. `IdReuse`: Supervision with the reinsertion of a row under the same id, for the
   operations that wait while their row is deleted.

Of modelled components, left out: in the log pumps the contents of files and their .old, failing writes,
disable_log_files, the splitting of long lines, and `pmr flush`, which truncates files
that are opened for appending; the rotation of the daemon's own log; the 250 ms that the shutdown
leaves to the pumps; stray input on a subscribed connection; SendSignal, of whose pid `PidIsOwned` says
when it is that of a child that has not been reaped.

Left out altogether: parsing of configuration and arguments, tables and the
dashboard, service files, serialisation: they keep no state and do not interleave.
