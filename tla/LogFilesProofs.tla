--------------------------- MODULE LogFilesProofs ---------------------------
(***************************************************************************)
(* Proofs, for any number of pumps and rows, that a pump which appends to a *)
(* file without a name will be told, and that a pump which waits has        *)
(* written its lines.                                                       *)
(***************************************************************************)
EXTENDS LogFiles, FiniteSetTheorems, TLAPS

\* A pump that has not read anything has nothing to flush.
NothingYet == \A p \in Pumps : pump[p].pc \in {"open", "load"} => ~ pump[p].dirty

IInv == TypeOK /\ StaleIsNoticed /\ QuietIsFlushed /\ NothingYet

LEMMA InitInv == Init => IInv
<1> SUFFICES ASSUME Init PROVE IInv
  OBVIOUS
<1>1. NoPump \in PumpType /\ NoPump.pc = "none"
  BY DEF NoPump, PumpType
<1>2. pump \in [Pumps -> PumpType] /\ \A p \in Pumps : pump[p].pc = "none"
  BY <1>1 DEF Init
<1>3. rows \in 0 .. MaxRows /\ removers \in 0 .. MaxRemovers
  BY LogAssumption DEF Init
<1>4. exists \in BOOLEAN /\ missing \in {"no", "deleted", "moved"} /\ (exists <=> missing = "no")
  BY DEF Init
<1> QED
  BY <1>2, <1>3, <1>4 DEF Init, IInv, TypeOK, StaleIsNoticed, Stale, QuietIsFlushed, Waiting, NothingYet

\* The number of rows that have a child.
LEMMA UpIsFinite == Cardinality(Up) \in Nat
<1>1. Up \subseteq Pumps
  BY DEF Up
<1> QED
  BY <1>1, LogAssumption, FS_Subset, FS_CardinalityType

\* Steps that leave the pumps as they are, or only what a pump tells of its child.
LEMMA TableSteps ==
  ASSUME IInv, Insert \/ Remove \/ \E p \in Pumps : Spawn(p) \/ ChildDies(p)
  PROVE  IInv'
<1>t. TypeOK /\ UNCHANGED <<exists, missing, worker, operator, crossed>>
  BY DEF IInv, Insert, Remove, Spawn, ChildDies, outside, table
<1>r. rows' \in 0 .. MaxRows /\ removers' \in 0 .. MaxRemovers
  <2>1. CASE Insert
    BY <1>t, <2>1, LogAssumption DEF Insert, TypeOK
  <2>2. CASE Remove
    BY <1>t, <2>2, UpIsFinite, LogAssumption DEF Remove, TypeOK
  <2>3. CASE \E p \in Pumps : Spawn(p) \/ ChildDies(p)
    BY <1>t, <2>3 DEF Spawn, ChildDies, TypeOK, table
  <2> QED
    BY <2>1, <2>2, <2>3
<1>p. pump' \in [Pumps -> PumpType]
  <2>1. CASE Insert \/ Remove
    BY <1>t, <2>1 DEF TypeOK, Insert, Remove
  <2>2. ASSUME NEW p \in Pumps, Spawn(p) PROVE pump' \in [Pumps -> PumpType]
    <3>1. [NoPump EXCEPT !.pc = "open", !.alive = TRUE] \in PumpType
      BY DEF NoPump, PumpType
    <3> QED
      BY <1>t, <2>2, <3>1 DEF TypeOK, Spawn
  <2>3. ASSUME NEW p \in Pumps, ChildDies(p) PROVE pump' \in [Pumps -> PumpType]
    BY <1>t, <2>3 DEF TypeOK, ChildDies, PumpType
  <2> QED
    BY <2>1, <2>2, <2>3
<1>1. TypeOK'
  BY <1>t, <1>r, <1>p DEF TypeOK
<1>2. /\ UNCHANGED <<exists, missing, worker, operator, crossed>>
      /\ \A p \in Pumps : \/ pump'[p] = [NoPump EXCEPT !.pc = "open", !.alive = TRUE]
                          \/ /\ pump'[p].pc = pump[p].pc /\ pump'[p].file = pump[p].file
                             /\ pump'[p].fresh = pump[p].fresh /\ pump'[p].acc = pump[p].acc
                             /\ pump'[p].dirty = pump[p].dirty
  BY DEF IInv, TypeOK, Insert, Remove, Spawn, ChildDies, PumpType, NoPump, outside, table
<1>3. \A p \in Pumps : Stale(p)' => Stale(p)
  BY <1>2 DEF Stale, NoPump
<1> QED
  BY <1>1, <1>2, <1>3 DEF IInv, StaleIsNoticed, QuietIsFlushed, NothingYet, NoPump, Waiting, BumpPending,
     ToBeSeen

\* The name is lost: every pump that had the file is stale now, and the worker, a signal or
\* the next tick will tell it.
LEMMA NameLost ==
  ASSUME IInv, NEW how \in {"deleted", "moved"}, LosesName(how), UNCHANGED crossed,
         rows' \in 0 .. MaxRows, removers' \in 0 .. MaxRemovers,
         worker' \in {"idle", "stat", "rename", "bump"}, operator' \in {"idle", "signal"},
         how = "deleted" \/ BumpPending'
  PROVE  IInv'
<1>1. /\ TypeOK' /\ exists' = FALSE /\ missing' = how
      /\ \A p \in Pumps : /\ pump'[p].pc = pump[p].pc /\ pump'[p].acc = pump[p].acc
                          /\ pump'[p].dirty = pump[p].dirty
  BY DEF IInv, TypeOK, LosesName, PumpType
<1>2. BumpPending' \/ ToBeSeen'
  BY <1>1 DEF ToBeSeen
<1> QED
  BY <1>1, <1>2 DEF IInv, StaleIsNoticed, QuietIsFlushed, NothingYet, Waiting

\* A bump leaves no pump stale.
LEMMA Bumped ==
  ASSUME IInv, Bump, UNCHANGED <<exists, missing, rows, removers, crossed>>,
         worker' \in {"idle", "stat", "rename", "bump"}, operator' \in {"idle", "signal"}
  PROVE  IInv'
<1>1. /\ TypeOK'
      /\ \A p \in Pumps : /\ pump'[p].pc = pump[p].pc /\ pump'[p].acc = pump[p].acc
                          /\ pump'[p].dirty = pump[p].dirty /\ ~ pump'[p].fresh
  BY DEF IInv, TypeOK, Bump, PumpType
<1> QED
  BY <1>1 DEF IInv, StaleIsNoticed, Stale, QuietIsFlushed, NothingYet, Waiting

\* A file is opened: a pump that is stale, and has not been crossed, is about to be told.
LEMMA Opened ==
  ASSUME IInv, NEW p \in Pumps, NEW file \in {"none", "log"}, Opens(file),
         crossed' = (crossed \cup Hidden(file)) \ {p}, UNCHANGED <<table, outside>>,
         NEW q \in PumpType, pump' = [pump EXCEPT ![p] = q], q.file = file,
         q.pc = "load" => ~ q.dirty, q.pc = "read" => (q.dirty => q.acc), q.pc # "open"
  PROVE  IInv'
<1>1. /\ crossed' \subseteq Pumps /\ exists' \in BOOLEAN /\ missing' \in {"no", "deleted", "moved"}
      /\ exists' <=> missing' = "no"
  <2>1. crossed' \subseteq Pumps
    BY DEF IInv, TypeOK, Hidden
  <2>2. CASE file = "log"
    BY <2>1, <2>2 DEF Opens
  <2>3. CASE file = "none"
    <3>1. exists' = exists /\ missing' = missing
      BY <2>3 DEF Opens
    <3> QED
      BY <2>1, <3>1 DEF IInv, TypeOK
  <2> QED
    BY <2>2, <2>3
<1>2. TypeOK'
  BY <1>1 DEF IInv, TypeOK, table, outside
<1>3. pump'[p] = q /\ \A r \in Pumps : r # p => pump'[r] = pump[r]
  BY DEF IInv, TypeOK
<1>4. ASSUME NEW r \in Pumps, Stale(r)', r \notin crossed' PROVE BumpPending' \/ ToBeSeen'
  <2>1. r # p /\ Stale(r) /\ r \notin crossed /\ r \notin Hidden(file)
    BY <1>3, <1>4 DEF Stale
  <2>2. BumpPending \/ ToBeSeen
    BY <2>1 DEF IInv, StaleIsNoticed
  <2>3. BumpPending' <=> BumpPending
    BY DEF BumpPending, outside
  <2>4. ~ BumpPending => file = "none"
    BY <2>1, <2>2 DEF Hidden, ToBeSeen
  <2> QED
    BY <2>2, <2>3, <2>4 DEF Opens, ToBeSeen
<1> QED
  BY <1>2, <1>3, <1>4 DEF IInv, StaleIsNoticed, QuietIsFlushed, NothingYet, Waiting

\* Input is read: the pump keeps its file and what it knows of the generation, or is about
\* to open the file again, or has ended.
LEMMA Read ==
  ASSUME IInv, NEW p \in Pumps, pump[p].pc = "read",
         UNCHANGED <<exists, missing, rows, removers, worker, operator>>,
         crossed' = crossed \/ crossed' = crossed \ {p},
         NEW q \in PumpType, pump' = [pump EXCEPT ![p] = q],
         \/ q.pc \in {"none", "reopen"}
         \/ /\ q.pc = "read" /\ (q.dirty => q.acc) /\ crossed' = crossed
            /\ q.fresh = pump[p].fresh /\ q.file = pump[p].file
  PROVE  IInv'
<1>1. TypeOK'
  BY DEF IInv, TypeOK
<1>2. pump'[p] = q /\ \A r \in Pumps : r # p => pump'[r] = pump[r]
  BY DEF IInv, TypeOK
<1>3. ASSUME NEW r \in Pumps, Stale(r)', r \notin crossed' PROVE BumpPending \/ ToBeSeen
  <2>1. Stale(r) /\ r \notin crossed
    BY <1>2, <1>3 DEF Stale
  <2> QED
    BY <2>1 DEF IInv, StaleIsNoticed
<1>4. (BumpPending' <=> BumpPending) /\ (ToBeSeen' <=> ToBeSeen)
  BY DEF BumpPending, ToBeSeen
<1> QED
  BY <1>1, <1>2, <1>3, <1>4 DEF IInv, StaleIsNoticed, QuietIsFlushed, NothingYet, Waiting

LEMMA PumpSteps == ASSUME IInv, NEW p \in Pumps, PumpStep(p) PROVE IInv'
<1>p. pump[p] \in PumpType
  BY DEF IInv, TypeOK
<1>1. CASE Open(p)
  <2>1. PICK file \in {"none", "log"} :
          /\ Opens(file)
          /\ crossed' = (crossed \cup Hidden(file)) \ {p}
          /\ pump' = [pump EXCEPT ![p] = [pump[p] EXCEPT !.pc = "load", !.file = file]]
    BY <1>1 DEF Open
  <2> DEFINE q == [pump[p] EXCEPT !.pc = "load", !.file = file]
  <2>2. q \in PumpType /\ q.file = file /\ q.pc = "load" /\ ~ q.dirty
    BY <1>1, <1>p DEF Open, PumpType, IInv, NothingYet
  <2>3. UNCHANGED <<table, outside>>
    BY <1>1 DEF Open
  <2> HIDE DEF q
  <2> QED
    BY <2>1, <2>2, <2>3, Opened DEF q
<1>2. CASE Reopen(p)
  <2>1. PICK file \in {"none", "log"} :
          /\ Opens(file)
          /\ crossed' = (crossed \cup Hidden(file)) \ {p}
          /\ pump' = [pump EXCEPT ![p] = Written([pump[p] EXCEPT !.pc = "read", !.file = file], pump[p].acc)]
    BY <1>2 DEF Reopen
  <2> DEFINE q == Written([pump[p] EXCEPT !.pc = "read", !.file = file], pump[p].acc)
  <2>2. q \in PumpType /\ q.file = file /\ q.pc = "read" /\ (q.dirty => q.acc)
    BY <1>p DEF Written, PumpType
  <2>3. UNCHANGED <<table, outside>>
    BY <1>2 DEF Reopen
  <2> HIDE DEF q
  <2> QED
    BY <2>1, <2>2, <2>3, Opened DEF q
<1>3. CASE Load(p)
  <2>1. TypeOK' /\ UNCHANGED <<exists, missing, worker, operator>>
    BY <1>3, <1>p DEF Load, IInv, TypeOK, PumpType, table, outside
  <2>2. /\ \A r \in Pumps \ {p} : pump'[r] = pump[r]
        /\ pump'[p].file = pump[p].file /\ pump'[p].pc = "read" /\ ~ pump'[p].dirty
    BY <1>3, <1>p DEF Load, IInv, TypeOK, PumpType, NothingYet
  <2>3. ASSUME NEW r \in Pumps, Stale(r)', r \notin crossed' PROVE BumpPending \/ ToBeSeen
    BY <1>3, <2>2, <2>3 DEF Load, IInv, StaleIsNoticed, Stale
  <2>4. (BumpPending' <=> BumpPending) /\ (ToBeSeen' <=> ToBeSeen)
    BY <2>1 DEF BumpPending, ToBeSeen
  <2> QED
    BY <2>1, <2>2, <2>3, <2>4 DEF IInv, StaleIsNoticed, QuietIsFlushed, NothingYet, Waiting
<1>4. CASE TakeLines(p)
  <2>1. PICK tail \in BOOLEAN :
          pump' = [pump EXCEPT ![p] = IF pump[p].fresh THEN Written(pump[p], tail)
                                      ELSE [pump[p] EXCEPT !.pc = "reopen", !.fresh = TRUE, !.acc = tail]]
    BY <1>4 DEF TakeLines
  <2> DEFINE q == IF pump[p].fresh THEN Written(pump[p], tail)
                  ELSE [pump[p] EXCEPT !.pc = "reopen", !.fresh = TRUE, !.acc = tail]
  <2>2. /\ q \in PumpType /\ q.pc \in {"reopen", "read"}
        /\ q.pc = "read" =>
             (q.dirty => q.acc) /\ q.fresh = pump[p].fresh /\ q.file = pump[p].file
    <3>1. pump[p].pc = "read"
      BY <1>4 DEF TakeLines, Waiting
    <3>2. CASE pump[p].fresh
      BY <1>p, <3>1, <3>2 DEF Written, PumpType
    <3>3. CASE ~ pump[p].fresh
      BY <1>p, <3>1, <3>3 DEF PumpType
    <3> QED
      BY <3>2, <3>3
  <2> HIDE DEF q
  <2> QED
    BY <1>4, <2>1, <2>2, Read DEF TakeLines, Waiting, q, table, outside
<1>5. CASE Accumulate(p)
  <2> DEFINE q == [pump[p] EXCEPT !.acc = TRUE]
  <2>1. q \in PumpType /\ q.pc = "read" /\ q.acc /\ q.fresh = pump[p].fresh /\ q.file = pump[p].file
    BY <1>p, <1>5 DEF Accumulate, Waiting, PumpType
  <2>2. pump' = [pump EXCEPT ![p] = q]
    BY <1>5 DEF Accumulate, IInv, TypeOK, PumpType
  <2> HIDE DEF q
  <2> QED
    BY <1>5, <2>1, <2>2, Read DEF Accumulate, Waiting, table, outside
<1>6. CASE PumpEnds(p)
  <2>1. NoPump \in PumpType /\ NoPump.pc = "none"
    BY DEF NoPump, PumpType
  <2> QED
    BY <1>6, <2>1, Read DEF PumpEnds, Waiting, table, outside
<1> QED
  BY <1>1, <1>2, <1>3, <1>4, <1>5, <1>6 DEF PumpStep

\* Steps after which the pumps and the file are as before.
LEMMA QuietSteps ==
  ASSUME IInv, UNCHANGED <<exists, missing, pump, rows, operator, crossed>>,
         removers' \in 0 .. MaxRemovers,
         worker' \in {"idle", "stat", "rename", "bump"}, worker = "bump" => worker' = "bump"
  PROVE  IInv'
  BY DEF IInv, TypeOK, StaleIsNoticed, Stale, BumpPending, ToBeSeen, QuietIsFlushed, NothingYet, Waiting

LEMMA StepInv == IInv /\ [Next]_vars => IInv'
<1> SUFFICES ASSUME IInv, [Next]_vars PROVE IInv'
  OBVIOUS
<1>t. TypeOK
  BY DEF IInv
<1>1. CASE Insert \/ Remove \/ \E p \in Pumps : Spawn(p) \/ ChildDies(p)
  BY <1>1, TableSteps
<1>2. CASE RemoveFile
  BY <1>t, <1>2, NameLost, QuietSteps, LogAssumption DEF RemoveFile, TypeOK, outside
<1>3. CASE \E p \in Pumps : PumpStep(p)
  BY <1>3, PumpSteps
<1>4. CASE WorkerTick \/ WorkerStat
  BY <1>t, <1>4, QuietSteps DEF WorkerTick, WorkerStat, TypeOK, table
<1>5. CASE WorkerRename
  <2>1. CASE exists
    BY <1>t, <1>5, <2>1, NameLost DEF WorkerRename, TypeOK, table, BumpPending
  <2>2. CASE ~ exists
    BY <1>t, <1>5, <2>2, QuietSteps DEF WorkerRename, TypeOK, table
  <2> QED
    BY <2>1, <2>2
<1>6. CASE WorkerBump \/ ReloadLogs
  BY <1>t, <1>6, Bumped DEF WorkerBump, ReloadLogs, TypeOK, table
<1>7. CASE OperatorDeletes
  BY <1>t, <1>7, NameLost DEF OperatorDeletes, TypeOK, table, outside
<1>8. CASE OperatorMoves
  BY <1>t, <1>8, NameLost DEF OperatorMoves, TypeOK, table, BumpPending
<1>9. CASE OperatorCreates
  BY <1>9 DEF OperatorCreates, IInv, TypeOK, StaleIsNoticed, Stale, BumpPending, QuietIsFlushed, NothingYet,
     Waiting, table, outside
<1>10. CASE UNCHANGED vars
  BY <1>10 DEF vars, table, outside, IInv, TypeOK, StaleIsNoticed, Stale, BumpPending, ToBeSeen,
     QuietIsFlushed, NothingYet, Waiting
<1> QED
  BY <1>1, <1>2, <1>3, <1>4, <1>5, <1>6, <1>7, <1>8, <1>9, <1>10 DEF Next, WorkerStep

LEMMA InvHolds == Spec => []IInv
  BY InitInv, StepInv, PTL DEF Spec

\* Every variable has its type.
THEOREM TypesHold == Spec => []TypeOK
<1>1. IInv => TypeOK
  BY DEF IInv
<1> QED
  BY <1>1, InvHolds, PTL

\* A pump whose file has lost its name learns of it before its next line, or is about to
\* be told, but for the two races at opening (worker.rs:89-110, logs.rs:104-113).
THEOREM StaleIsAlwaysNoticed == Spec => []StaleIsNoticed
<1>1. IInv => StaleIsNoticed
  BY DEF IInv
<1> QED
  BY <1>1, InvHolds, PTL

\* A pump that waits has written every complete line, unless the beginning of another came
\* with it (logs.rs:119-128).
THEOREM QuietIsAlwaysFlushed == Spec => []QuietIsFlushed
<1>1. IInv => QuietIsFlushed
  BY DEF IInv
<1> QED
  BY <1>1, InvHolds, PTL

=============================================================================
