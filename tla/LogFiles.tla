------------------------------ MODULE LogFiles ------------------------------
(***************************************************************************)
(* A log file, the pumps that append to it (daemon/logs.rs), and who moves  *)
(* or deletes it: the worker's rotation, remove_proc, and operators with    *)
(* their logrotate.  Instances of an app share the file with merge_logs, as *)
(* do an app and the next one of its name.                                  *)
(*                                                                         *)
(* What matters of a file is whether the log's name leads to it, and of a   *)
(* generation whether it is the current one.  The contents and the .old     *)
(* backup are left out: nothing here reads them.                            *)
(***************************************************************************)
EXTENDS FiniteSets, Naturals

CONSTANTS
  Pumps,     \* pump tasks: one per child, until the end of its output
  MaxRows,   \* bound: rows whose log is this file
  MaxRemovers \* bound: deletions of the file under way

ASSUME LogAssumption == MaxRows \in Nat \ {0} /\ MaxRemovers \in Nat \ {0} /\ IsFiniteSet(Pumps)

VARIABLES
  exists,    \* the name leads to a file
  missing,   \* how it came to lead nowhere: "deleted", or "moved" with a bump to come; "no"
  rows,      \* rows in the table with this log
  removers,  \* calls of remove_proc that have still to delete the file
  pump,      \* per pump: its place, child and file, whether its generation is current, and
             \* whether it holds the beginning of a line (acc) and unflushed lines (dirty)
  worker,    \* place in rotate_logs
  operator,  \* "signal": has moved the file and will send SIGUSR2
  crossed    \* history: pumps that a new file was hidden from

table == <<rows, removers>>
outside == <<worker, operator>>
vars == <<exists, missing, table, pump, outside, crossed>>

\* Places in pump_stream: before the file is opened, before the generation is read, at
\* the next line, before the file is opened again.  "log" is the file under the name,
\* "lost" one that has lost it.
PumpType ==
  [pc : {"none", "open", "load", "read", "reopen"}, alive : BOOLEAN,
   file : {"none", "log", "lost"}, fresh : BOOLEAN, acc : BOOLEAN, dirty : BOOLEAN]
NoPump == [pc |-> "none", alive |-> FALSE, file |-> "none", fresh |-> FALSE,
           acc |-> FALSE, dirty |-> FALSE]

\* Rows with a pid.
Up == {p \in Pumps : pump[p].alive}

\* Who has moved or missed the file is about to bump the generation.
BumpPending == worker = "bump" \/ operator = "signal"
ToBeSeen == ~ exists /\ missing = "deleted"

\* The pump appends to a file that has lost its name, in the belief that it is the log.
Stale(p) == pump[p].pc = "read" /\ pump[p].fresh /\ pump[p].file = "lost"

\* log_generation.fetch_add
Bump == pump' = [p \in Pumps |-> [pump[p] EXCEPT !.fresh = FALSE]]

\* The name leads nowhere any more; those that have the file open keep it.
LosesName(how) ==
  /\ exists' = FALSE /\ missing' = how
  /\ pump' = [p \in Pumps |-> [pump[p] EXCEPT !.file = IF @ = "log" THEN "lost" ELSE @]]

-----------------------------------------------------------------------------
(* Rows and children.                                                      *)

Insert ==
  /\ rows < MaxRows
  /\ rows' = rows + 1
  /\ UNCHANGED <<exists, missing, removers, pump, outside, crossed>>

\* The supervisor of a row without a child spawns one, publishes its pid and spawns the
\* pump.
Spawn(p) ==
  /\ pump[p].pc = "none" /\ Cardinality(Up) < rows
  /\ pump' = [pump EXCEPT ![p] = [NoPump EXCEPT !.pc = "open", !.alive = TRUE]]
  /\ UNCHANGED <<exists, missing, table, outside, crossed>>

\* The pump goes on with what is in the pipe, or with what a grandchild writes.
ChildDies(p) ==
  /\ pump[p].alive
  /\ pump' = [pump EXCEPT ![p].alive = FALSE]
  /\ UNCHANGED <<exists, missing, table, outside, crossed>>

\* remove_proc of a row without a child: the file goes unless another row has it...
Remove ==
  /\ Cardinality(Up) < rows /\ removers < MaxRemovers
  /\ rows' = rows - 1
  /\ removers' = IF rows = 1 THEN removers + 1 ELSE removers
  /\ UNCHANGED <<exists, missing, pump, outside, crossed>>

\* ...once the table has been released.
RemoveFile ==
  /\ removers > 0
  /\ removers' = removers - 1
  /\ IF exists THEN LosesName("deleted") ELSE UNCHANGED <<exists, missing, pump>>
  /\ UNCHANGED <<rows, outside, crossed>>

-----------------------------------------------------------------------------
(* A pump.                                                                 *)

\* open_append leads to the file of the name, made if there is none, or fails.
Opens(file) ==
  \/ file = "log" /\ exists' = TRUE /\ missing' = "no"
  \/ file = "none" /\ UNCHANGED <<exists, missing>>

\* A deleted file is made anew: pumps that still have the old one, and have not been told,
\* will not be.
Hidden(file) == IF exists \/ file = "none" \/ BumpPending \/ missing = "moved" THEN {}
                ELSE {q \in Pumps : Stale(q)}

Open(p) ==
  /\ pump[p].pc = "open"
  /\ \E file \in {"none", "log"} :
       /\ Opens(file)
       /\ crossed' = (crossed \cup Hidden(file)) \ {p}
       /\ pump' = [pump EXCEPT ![p].pc = "load", ![p].file = file]
  /\ UNCHANGED <<table, outside>>

\* The generation is read after the file was opened: a bump in between has been for
\* nothing.
Load(p) ==
  /\ pump[p].pc = "load"
  /\ pump' = [pump EXCEPT ![p].pc = "read", ![p].fresh = TRUE]
  /\ crossed' = IF pump[p].file = "lost" /\ ~ BumpPending /\ ~ ToBeSeen THEN crossed \cup {p}
                ELSE crossed
  /\ UNCHANGED <<exists, missing, table, outside>>

\* read_capped_line waits for input.
Waiting(p) == pump[p].pc = "read"

\* Variant: each line stays in the writer.
WrittenLate(q, tail) == [q EXCEPT !.acc = tail, !.dirty = q.file # "none"]

\* Lines go into the writer, which is flushed after a line that leaves the read buffer
\* empty: not when the beginning of another line is behind it.
Written(q, tail) == [q EXCEPT !.acc = tail, !.dirty = q.file # "none" /\ tail]

\* Lines have come, and perhaps the beginning of another; or what has been accumulated is
\* a line, since it has reached MAX_LINE or the output has ended.  If the generation is
\* another, the new one is noted.
TakeLines(p) ==
  /\ Waiting(p)
  /\ \E tail \in BOOLEAN :
       pump' = [pump EXCEPT ![p] = IF pump[p].fresh THEN Written(pump[p], tail)
                                   ELSE [pump[p] EXCEPT !.pc = "reopen", !.fresh = TRUE, !.acc = tail]]
  /\ UNCHANGED <<exists, missing, table, outside, crossed>>

\* Not a complete line yet.
Accumulate(p) ==
  /\ Waiting(p)
  /\ pump' = [pump EXCEPT ![p].acc = TRUE]
  /\ UNCHANGED <<exists, missing, table, outside, crossed>>

\* Variant: the file stays as it is until the process starts again.
ReopenNever(p) ==
  /\ pump[p].pc = "reopen"
  /\ pump' = [pump EXCEPT ![p] = Written([pump[p] EXCEPT !.pc = "read"], pump[p].acc)]
  /\ UNCHANGED <<exists, missing, table, outside, crossed>>

\* The generation has been noted: the file is opened again, the old writer is dropped
\* and so flushed, and the lines are written.
Reopen(p) ==
  /\ pump[p].pc = "reopen"
  /\ \E file \in {"none", "log"} :
       /\ Opens(file)
       /\ crossed' = (crossed \cup Hidden(file)) \ {p}
       /\ pump' = [pump EXCEPT ![p] = Written([pump[p] EXCEPT !.pc = "read", !.file = file], pump[p].acc)]
  /\ UNCHANGED <<table, outside>>

\* The output has ended; the writer is flushed.
PumpEnds(p) ==
  /\ Waiting(p) /\ ~ pump[p].acc /\ ~ pump[p].alive
  /\ pump' = [pump EXCEPT ![p] = NoPump]
  /\ crossed' = crossed \ {p}
  /\ UNCHANGED <<exists, missing, table, outside>>

PumpStep(p) ==
  \/ Open(p) \/ Load(p) \/ TakeLines(p) \/ Accumulate(p) \/ Reopen(p) \/ PumpEnds(p)

-----------------------------------------------------------------------------
(* rotate_logs, and what operators do.                                     *)

\* The files of rows with a pid.
WorkerTick ==
  /\ worker = "idle" /\ Up # {}
  /\ worker' = "stat"
  /\ UNCHANGED <<exists, missing, table, pump, operator, crossed>>

\* Variant: only the size matters.
WorkerStatSize ==
  /\ worker = "stat"
  /\ worker' \in IF exists THEN {"rename", "idle"} ELSE {"idle"}
  /\ UNCHANGED <<exists, missing, table, pump, operator, crossed>>

\* metadata: an error means the file has been deleted, a size that it may be over its
\* limit.
WorkerStat ==
  /\ worker = "stat"
  /\ worker' \in IF exists THEN {"rename", "idle"} ELSE {"bump"}
  /\ UNCHANGED <<exists, missing, table, pump, operator, crossed>>

\* Variant: only a file that is missing is worth a bump.
WorkerRenameOnly ==
  /\ worker = "rename" /\ worker' = "idle"
  /\ IF exists THEN LosesName("moved") ELSE UNCHANGED <<exists, missing, pump>>
  /\ UNCHANGED <<table, operator, crossed>>

\* By name, to .old: an error if there is no file any more.
WorkerRename ==
  /\ worker = "rename"
  /\ IF exists THEN LosesName("moved") /\ worker' = "bump"
     ELSE worker' = "idle" /\ UNCHANGED <<exists, missing, pump>>
  /\ UNCHANGED <<table, operator, crossed>>

WorkerBump ==
  /\ worker = "bump" /\ worker' = "idle"
  /\ Bump
  /\ UNCHANGED <<exists, missing, table, operator, crossed>>

WorkerStep == WorkerTick \/ WorkerStat \/ WorkerRename \/ WorkerBump

\* rm, without a signal.
OperatorDeletes ==
  /\ exists /\ LosesName("deleted")
  /\ UNCHANGED <<table, outside, crossed>>

\* logrotate moves the file, may create the next one, then signals.
OperatorMoves ==
  /\ exists /\ LosesName("moved")
  /\ operator' = "signal"
  /\ UNCHANGED <<table, worker, crossed>>

OperatorCreates ==
  /\ operator = "signal" /\ ~ exists
  /\ exists' = TRUE /\ missing' = "no"
  /\ UNCHANGED <<table, pump, outside, crossed>>

\* SIGUSR2 or Method::ReloadLogs, at any time.
ReloadLogs ==
  /\ operator' = "idle"
  /\ Bump
  /\ UNCHANGED <<exists, missing, table, worker, crossed>>

-----------------------------------------------------------------------------
Init ==
  /\ exists = FALSE /\ missing = "deleted"
  /\ rows = 0 /\ removers = 0
  /\ pump = [p \in Pumps |-> NoPump]
  /\ worker = "idle" /\ operator = "idle" /\ crossed = {}

Next ==
  \/ Insert \/ Remove \/ RemoveFile
  \/ \E p \in Pumps : Spawn(p) \/ ChildDies(p) \/ PumpStep(p)
  \/ WorkerStep
  \/ OperatorDeletes \/ OperatorMoves \/ OperatorCreates \/ ReloadLogs

Spec == Init /\ [][Next]_vars

\* The worker ticks for ever; whoever moves the file sends the signal.  Nothing is assumed
\* of children: they may never print another line.
FairSpec == Spec /\ WF_vars(WorkerStep) /\ WF_vars(operator = "signal" /\ ReloadLogs)

-----------------------------------------------------------------------------
(* Properties.                                                             *)

\* Every variable has its type.
TypeOK ==
  /\ exists \in BOOLEAN /\ missing \in {"no", "deleted", "moved"} /\ (exists <=> missing = "no")
  /\ rows \in 0 .. MaxRows /\ removers \in 0 .. MaxRemovers
  /\ pump \in [Pumps -> PumpType]
  /\ worker \in {"idle", "stat", "rename", "bump"} /\ operator \in {"idle", "signal"}
  /\ crossed \subseteq Pumps

\* A pump that appends to a file without a name will learn of it before its next line, or
\* the worker or a signal is about to tell it, or the name is still missing for the next
\* tick to see (worker.rs:89-110, logs.rs:109-113).  The exceptions are `crossed`: another
\* pump made a deleted file anew before the tick, or the bump came between the pump's own
\* open and its first look at the generation.
StaleIsNoticed == \A p \in Pumps : Stale(p) /\ p \notin crossed => BumpPending \/ ToBeSeen

\* ...and this comes to pass while a process is up: "recovers log files an operator
\* deleted" (worker.rs:53-56), and those that a remove_proc deletes under the next app of
\* the name (supervisor.rs:526-529).
DeletedIsRecovered ==
  \A p \in Pumps :
    (Stale(p) /\ p \notin crossed /\ pump[p].alive) ~>
      ~ (Stale(p) /\ p \notin crossed /\ pump[p].alive)

\* While a pump waits, every complete line it has read is in the file (logs.rs:119-128),
\* unless the beginning of another came with it.
QuietIsFlushed == \A p \in Pumps : Waiting(p) /\ pump[p].dirty => pump[p].acc

\* "flushed when the read buffer runs dry (batched during floods, prompt when quiet)"
\* (logs.rs:9-10).
PromptWhenQuiet == \A p \in Pumps : Waiting(p) => ~ pump[p].dirty

=============================================================================
