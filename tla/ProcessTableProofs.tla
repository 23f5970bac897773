------------------------- MODULE ProcessTableProofs -------------------------
(***************************************************************************)
(* Proofs, for any number of operations, names and ids, of the types of     *)
(* ProcessTable and of its four properties.  The heart of NoClobber is      *)
(* TableType: every id in the table has been passed by next_id, so that an  *)
(* id that is allocated is free, whoever allocates and inserts in between.  *)
(* That of DistinctInstances is Sound: what an operation has still to add   *)
(* is like no row of the table, unless the name is tangled.  That of        *)
(* ScaleExact and ResurrectRestores is OnCourse: what an undisturbed        *)
(* operation has done and what it has still to do make up what it promised. *)
(***************************************************************************)
EXTENDS ProcessTable, FiniteSetTheorems, TLAPS

TableType ==
  /\ procs \in [Ids -> Row \cup {NoRow}]
  /\ nextId \in 0..(MaxId + 1)
  /\ \A id \in Ids : Present(id) => id < nextId
DumpType == dump \in [Ids -> Row \cup {NoRow}]
OpType == op \in [Tasks -> Operation]
Histories == begun \in 0..MaxOps /\ calm \subseteq Tasks /\ tangled \subseteq Names

\* An operation that adds rows has a name, and a start or scale a row to add.
Shaped(o) ==
  /\ o.pc \in {"insert", "alloc", "fixed", "launch"} =>
       /\ o.name \in Names
       /\ o.kind # "resurrect" => o.left >= 1
  /\ o.pc \in {"entry", "preexisting"} => o.kind = "resurrect"

OpShape == \A t \in Tasks : Shaped(op[t])

IInv == TableType /\ DumpType /\ OpType /\ Histories /\ OpShape

-----------------------------------------------------------------------------
(* What the shared pieces of the operations return.                        *)

LEMMA IdFacts ==
  /\ MaxId \in Nat /\ MaxNum \in Nat /\ MaxNum >= 1
  /\ 0 \in Ids /\ \A id \in Ids : id \in Nat /\ id <= MaxId
  BY BoundsAssumption DEF Ids

LEMMA IdleIsAnOperation ==
  ASSUME NEW pc \in Pcs
  PROVE  Idle(pc) \in Operation
  BY IdFacts DEF Idle, Operation, Kinds

LEMMA RestingIsShaped ==
  ASSUME NEW pc \in Resting
  PROVE  Idle(pc) \in Operation /\ Shaped(Idle(pc))
<1>1. pc \in Pcs
  BY DEF Resting, Pcs
<1> QED
  BY <1>1, IdleIsAnOperation DEF Resting, Shaped, Idle

LEMMA BecomeKeeps ==
  ASSUME OpType, OpShape, NEW t \in Tasks, NEW o \in Operation, Shaped(o), Become(t, o)
  PROVE  OpType' /\ OpShape'
<1>1. op' = [op EXCEPT ![t] = o]
  BY DEF Become
<1>2. OpType'
  BY <1>1 DEF OpType
<1>3. \A u \in Tasks : op'[u] = IF u = t THEN o ELSE op[u]
  BY <1>1 DEF OpType
<1> QED
  BY <1>2, <1>3 DEF OpShape, Shaped

LEMMA ReturnKeeps ==
  ASSUME OpType, OpShape, NEW t \in Tasks, NEW pc \in Resting, Return(t, pc)
  PROVE  OpType' /\ OpShape'
  BY RestingIsShaped, BecomeKeeps DEF Return

\* A row that is present is a row.
LEMMA PresentIsARow ==
  ASSUME TableType, NEW id \in Live
  PROVE  id \in Ids /\ procs[id] \in Row
  BY DEF TableType, Live, Present

LEMMA EntriesAreEntries ==
  ASSUME NEW table \in [Ids -> Row \cup {NoRow}]
  PROVE  EntriesOf(table) \subseteq Entry
<1> SUFFICES ASSUME NEW id \in Ids, table[id] # NoRow
             PROVE  [id |-> id, name |-> table[id].name, inst |-> table[id].inst] \in Entry
  BY DEF EntriesOf
<1>1. table[id] \in Row
  OBVIOUS
<1> QED
  BY <1>1 DEF Row, Entry

LEMMA InstancesCounted ==
  ASSUME NEW name
  PROVE  Cardinality(Of(name)) \in Nat
<1>1. IsFiniteSet(Ids)
  BY IdFacts, FS_Interval DEF Ids
<1>2. Of(name) \in SUBSET Ids
  BY DEF Of, Live
<1>3. IsFiniteSet(Of(name))
  BY <1>1, <1>2, FS_Subset
<1> QED
  BY <1>3, FS_CardinalityType

\* The id that is allocated is free: the argument of NoClobber.
LEMMA AllocatedIsFree ==
  ASSUME TableType, AllocId \in Ids
  PROVE  ~Present(AllocId)
<1>1. CASE Live = {}
  BY <1>1 DEF Live
<1>2. CASE Live # {}
  <2>1. AllocId = nextId /\ nextId \in Nat
    BY <1>2, IdFacts DEF AllocId, TableType
  <2> QED
    BY <2>1 DEF TableType
<1> QED
  BY <1>1, <1>2

\* Inserting a row under an id, and passing it with next_id.
LEMMA InsertKeeps ==
  ASSUME TableType, NEW id \in Ids, NEW row \in Row,
         procs' = [procs EXCEPT ![id] = row],
         nextId' \in 0..(MaxId + 1), id < nextId',
         \A other \in Ids : Present(other) => other < nextId'
  PROVE  TableType'
<1>1. procs' \in [Ids -> Row \cup {NoRow}]
  BY DEF TableType
<1>2. \A other \in Ids : Present(other)' => other < nextId'
  BY DEF TableType, Present
<1> QED
  BY <1>1, <1>2 DEF TableType

\* next_id after an allocation passes every row, the new id included.
LEMMA AllocPasses ==
  ASSUME TableType, AllocId \in Ids, nextId' = AllocId + 1
  PROVE  /\ nextId' \in 0..(MaxId + 1) /\ AllocId < nextId'
         /\ \A other \in Ids : Present(other) => other < nextId'
<1>1. nextId' \in 0..(MaxId + 1) /\ AllocId < nextId'
  BY IdFacts
<1>2. CASE Live = {}
  BY <1>1, <1>2 DEF Live
<1>3. CASE Live # {}
  BY <1>1, <1>3, IdFacts DEF AllocId, TableType, Live
<1> QED
  BY <1>1, <1>2, <1>3

-----------------------------------------------------------------------------
(* The invariant.                                                          *)

LEMMA InitInv == Init => IInv
<1> SUFFICES ASSUME Init PROVE IInv
  OBVIOUS
<1>1. TableType /\ DumpType
  BY IdFacts DEF Init, TableType, DumpType, Empty, Present
<1>2. OpType /\ OpShape
  <2>1. Idle("idle") \in Operation /\ Shaped(Idle("idle"))
    BY RestingIsShaped DEF Resting
  <2> QED
    BY <2>1 DEF Init, OpType, OpShape
<1>3. Histories
  BY BoundsAssumption DEF Init, Histories
<1> QED
  BY <1>1, <1>2, <1>3 DEF IInv

LEMMA ObserveKeeps ==
  ASSUME IInv, Next, Observe, begun' \in 0..MaxOps
  PROVE  Histories'
<1>1. calm' \subseteq Tasks /\ tangled' \subseteq Names
  BY DEF IInv, Histories, Observe
<1> QED
  BY <1>1 DEF Histories

LEMMA BeginCounts ==
  ASSUME IInv, NEW t, Begin(t)
  PROVE  begun' \in 0..MaxOps
  BY BoundsAssumption DEF IInv, Histories, Begin

-----------------------------------------------------------------------------
(* One lemma per action: everything but the histories.                     *)

Kept == TableType' /\ DumpType' /\ OpType' /\ OpShape'

LEMMA TableUnchanged ==
  ASSUME IInv, procs' = procs, nextId' = nextId
  PROVE  TableType'
  BY DEF IInv, TableType, Present

LEMMA DumpUnchanged ==
  ASSUME IInv, dump' = dump
  PROVE  DumpType'
  BY DEF IInv, DumpType

LEMMA StartKeeps ==
  ASSUME IInv, NEW t \in Tasks, NEW name \in Names, NEW n \in Nums, Start(t, name, n)
  PROVE  Kept
<1> DEFINE o == [Idle("insert") EXCEPT !.name = name, !.want = n, !.left = n]
<1>1. OpType' /\ OpShape'
  <2>1. CASE Return(t, "failed")
    BY <2>1, ReturnKeeps DEF IInv, Resting
  <2>2. CASE Become(t, o)
    <3>1. Idle("insert") \in Operation
      BY IdleIsAnOperation DEF Pcs
    <3>2. n \in 0..MaxNum /\ n >= 1
      BY IdFacts DEF Nums
    <3>3. o \in Operation /\ o.pc = "insert" /\ o.name = name /\ o.left = n
      BY <3>1, <3>2 DEF Operation, Idle
    <3>4. Shaped(o)
      BY <3>2, <3>3 DEF Shaped
    <3> HIDE DEF o
    <3> QED
      BY <2>2, <3>3, <3>4, BecomeKeeps DEF IInv
  <2> QED
    BY <2>1, <2>2 DEF Start
<1> QED
  BY <1>1, TableUnchanged, DumpUnchanged DEF Start, Kept

\* What an operation becomes that only moves on.
LEMMA MoveKeeps ==
  ASSUME IInv, NEW t \in Tasks, NEW pc \in Pcs, Become(t, [op[t] EXCEPT !.pc = pc]),
         pc \in {"insert", "alloc", "fixed", "launch"} =>
           op[t].pc \in {"insert", "alloc", "fixed", "launch"},
         pc \in {"entry", "preexisting"} => op[t].kind = "resurrect"
  PROVE  OpType' /\ OpShape'
<1> DEFINE o == [op[t] EXCEPT !.pc = pc]
<1>1. op[t] \in Operation
  BY DEF IInv, OpType
<1>2. /\ o \in Operation /\ o.pc = pc /\ o.name = op[t].name
      /\ o.kind = op[t].kind /\ o.left = op[t].left
  BY <1>1 DEF Operation
<1>3. Shaped(o)
  BY <1>2 DEF IInv, OpShape, Shaped
<1> HIDE DEF o
<1> QED
  BY <1>2, <1>3, BecomeKeeps DEF IInv, o

LEMMA InsertStepKeeps ==
  ASSUME IInv, NEW t \in Tasks, Insert(t)
  PROVE  Kept
<1> DEFINE row == [name |-> op[t].name, inst |-> op[t].inst]
<1>1. op[t] \in Operation /\ op[t].name \in Names
  BY DEF IInv, OpType, OpShape, Shaped, Insert, At
<1>2. row \in Row
  BY <1>1 DEF Row, Operation
<1>3. TableType'
  <2>1. nextId' = AllocId + 1 /\ AllocId \in Ids /\ procs' = [procs EXCEPT ![AllocId] = row]
    BY DEF Insert
  <2> HIDE DEF row
  <2> QED
    BY <1>2, <2>1, AllocPasses, InsertKeeps DEF IInv
<1>4. OpType' /\ OpShape'
  BY MoveKeeps DEF Insert, At, Pcs
<1> QED
  BY <1>3, <1>4, DumpUnchanged DEF Insert, Kept

LEMMA InsertFixedKeeps ==
  ASSUME IInv, NEW t \in Tasks, InsertFixed(t)
  PROVE  Kept
<1> DEFINE row == [name |-> op[t].name, inst |-> op[t].inst]
<1>1. op[t] \in Operation /\ op[t].name \in Names
  BY DEF IInv, OpType, OpShape, Shaped, InsertFixed, At
<1>2. DumpType'
  BY DumpUnchanged DEF InsertFixed
<1>3. CASE Present(op[t].id)
  <2>1. TableType'
    BY <1>3, TableUnchanged DEF InsertFixed
  <2>2. OpType' /\ OpShape'
    BY <1>3, MoveKeeps, ReturnKeeps DEF InsertFixed, Pcs, Resting, IInv
  <2> QED
    BY <1>2, <2>1, <2>2 DEF Kept
<1>4. CASE ~Present(op[t].id)
  <2>1. row \in Row /\ op[t].id \in Ids
    BY <1>1 DEF Row, Operation
  <2>2. procs' = [procs EXCEPT ![op[t].id] = row] /\ BumpNextId(op[t].id)
    BY <1>4 DEF InsertFixed
  <2>3. /\ nextId' \in 0..(MaxId + 1) /\ op[t].id < nextId'
        /\ \A other \in Ids : Present(other) => other < nextId'
    BY <2>1, <2>2, IdFacts DEF BumpNextId, IInv, TableType
  <2>4. TableType'
    <3> HIDE DEF row
    <3> QED
      BY <2>1, <2>2, <2>3, InsertKeeps DEF IInv
  <2>5. OpType' /\ OpShape'
    BY <1>4, MoveKeeps DEF InsertFixed, At, Pcs
  <2> QED
    BY <1>2, <2>4, <2>5 DEF Kept
<1> QED
  BY <1>3, <1>4

LEMMA LaunchedKeeps ==
  ASSUME IInv, NEW t \in Tasks, NEW okay \in BOOLEAN, Launched(t, okay)
  PROVE  Kept
<1> DEFINE next == IF op[t].kind = "scale" THEN "alloc" ELSE "insert"
           o == [op[t] EXCEPT !.pc = next, !.left = @ - 1, !.inst = @ + 1]
<1>1. op[t] \in Operation /\ op[t].name \in Names
  BY DEF IInv, OpType, OpShape, Shaped, Launched, At
<1>2. OpType' /\ OpShape'
  <2>1. CASE op[t].kind = "resurrect"
    BY <2>1, MoveKeeps DEF Launched, Pcs
  <2>2. CASE op[t].kind # "resurrect" /\ (~okay \/ op[t].left = 1)
    BY <2>2, ReturnKeeps DEF Launched, Resting, IInv
  <2>3. CASE op[t].kind # "resurrect" /\ okay /\ op[t].left # 1
    <3>1. op[t].left >= 1 /\ op[t].inst < MaxNum
      BY <2>3 DEF IInv, OpShape, Shaped, Launched, At
    <3>2. op[t].left \in 0..MaxNum /\ op[t].inst \in 0..MaxNum
      BY <1>1 DEF Operation
    <3>3. /\ op[t].left - 1 \in 0..MaxNum /\ op[t].left - 1 >= 1
          /\ op[t].inst + 1 \in 0..MaxNum
      BY <2>3, <3>1, <3>2, IdFacts
    <3>4. next \in Pcs /\ next \notin {"entry", "preexisting"}
      BY DEF Pcs
    <3> HIDE DEF next
    <3>5. /\ o \in Operation /\ o.pc = next
          /\ o.name = op[t].name /\ o.left = op[t].left - 1
      BY <1>1, <3>3, <3>4 DEF Operation
    <3>6. Shaped(o)
      BY <1>1, <3>3, <3>4, <3>5 DEF Shaped
    <3>7. Become(t, o)
      BY <2>3 DEF Launched, next
    <3> HIDE DEF o
    <3> QED
      BY <3>5, <3>6, <3>7, BecomeKeeps DEF IInv
  <2> QED
    BY <2>1, <2>2, <2>3
<1> QED
  BY <1>2, TableUnchanged, DumpUnchanged DEF Launched, Kept

LEMMA ScaleKeeps ==
  ASSUME IInv, NEW t \in Tasks, NEW name \in Names, NEW want \in Nums, Scale(t, name, want)
  PROVE  Kept
<1> DEFINE have == Cardinality(Of(name))
           base == [Idle("idle") EXCEPT !.kind = "scale", !.name = name, !.want = want]
<1>1. have \in Nat /\ want \in 0..MaxNum
  BY InstancesCounted, IdFacts DEF Nums
<1>2. base \in Operation /\ base.name = name /\ base.kind = "scale"
  <2>1. Idle("idle") \in Operation
    BY IdleIsAnOperation DEF Pcs
  <2> QED
    BY <1>1, <2>1 DEF Operation, Kinds
<1> HIDE DEF base
<1>3. OpType' /\ OpShape'
  <2>1. CASE Return(t, "failed") \/ Return(t, "idle")
    BY <2>1, ReturnKeeps DEF IInv, Resting
  <2>2. CASE /\ have < want /\ NextInstance(name) \in 0..MaxNum
             /\ Become(t, [base EXCEPT !.pc = "alloc", !.left = want - have,
                                       !.inst = NextInstance(name)])
    <3> DEFINE o == [base EXCEPT !.pc = "alloc", !.left = want - have,
                                 !.inst = NextInstance(name)]
    <3>1. want - have \in 0..MaxNum /\ want - have >= 1
      BY <1>1, <2>2, IdFacts
    <3>2. o \in Operation /\ o.name = name /\ o.left = want - have
      BY <1>2, <2>2, <3>1 DEF Operation, Pcs
    <3>3. Shaped(o)
      BY <3>1, <3>2 DEF Shaped
    <3> HIDE DEF o
    <3> QED
      BY <2>2, <3>2, <3>3, BecomeKeeps DEF IInv, o
  <2>3. CASE \E victims \in SUBSET Ids :
               Become(t, [base EXCEPT !.pc = "deleting",
                                      !.rows = {e \in EntriesOf(procs) : e.id \in victims}])
    <3>1. PICK victims \in SUBSET Ids :
                 Become(t, [base EXCEPT !.pc = "deleting",
                                        !.rows = {e \in EntriesOf(procs) : e.id \in victims}])
      BY <2>3
    <3> DEFINE rows == {e \in EntriesOf(procs) : e.id \in victims}
               o == [base EXCEPT !.pc = "deleting", !.rows = rows]
    <3>2. rows \subseteq Entry
      BY EntriesAreEntries DEF IInv, TableType
    <3>3. Become(t, o)
      BY <3>1
    <3> HIDE DEF rows
    <3>4. o \in Operation /\ o.pc = "deleting"
      BY <1>2, <3>2 DEF Operation, Pcs
    <3>5. Shaped(o)
      BY <3>4 DEF Shaped
    <3> HIDE DEF o
    <3> QED
      BY <3>3, <3>4, <3>5, BecomeKeeps DEF IInv
  <2> QED
    BY <2>1, <2>2, <2>3 DEF Scale, base
<1> QED
  BY <1>3, TableUnchanged, DumpUnchanged DEF Scale, Kept

LEMMA AllocKeeps ==
  ASSUME IInv, NEW t \in Tasks, Alloc(t)
  PROVE  Kept
<1> DEFINE o == [op[t] EXCEPT !.pc = "fixed", !.id = AllocId]
<1>1. op[t] \in Operation /\ Shaped(op[t]) /\ op[t].pc = "alloc" /\ AllocId \in Ids
  BY DEF IInv, OpType, OpShape, Alloc, At
<1>2. /\ o \in Operation /\ o.name = op[t].name /\ o.kind = op[t].kind
      /\ o.left = op[t].left
  BY <1>1 DEF Operation, Pcs
<1>3. Shaped(o)
  BY <1>1, <1>2 DEF Shaped
<1>4. Become(t, o)
  BY DEF Alloc
<1>5. OpType' /\ OpShape'
  <2> HIDE DEF o
  <2> QED
    BY <1>2, <1>3, <1>4, BecomeKeeps DEF IInv
<1>6. TableType'
  <2>1. nextId' = AllocId + 1 /\ procs' = procs
    BY DEF Alloc
  <2>2. /\ nextId' \in 0..(MaxId + 1)
        /\ \A other \in Ids : Present(other) => other < nextId'
    BY <1>1, <2>1, AllocPasses DEF IInv
  <2> QED
    BY <2>1, <2>2 DEF IInv, TableType, Present
<1> QED
  BY <1>5, <1>6, DumpUnchanged DEF Alloc, Kept

\* An operation that starts with rows to delete or to resurrect.
LEMMA RowsKeep ==
  ASSUME IInv, NEW t \in Tasks, NEW pc \in {"deleting", "preexisting"},
         NEW kind \in Kinds, NEW rows \in SUBSET Entry,
         pc = "preexisting" => kind = "resurrect",
         Become(t, [Idle(pc) EXCEPT !.kind = kind, !.rows = rows])
  PROVE  OpType' /\ OpShape'
<1> DEFINE o == [Idle(pc) EXCEPT !.kind = kind, !.rows = rows]
<1>1. Idle(pc) \in Operation
  BY IdleIsAnOperation DEF Pcs
<1>2. o \in Operation
  BY <1>1 DEF Operation
<1>3. o.pc = pc /\ o.kind = kind
  BY DEF Idle
<1>4. Shaped(o)
  BY <1>3 DEF Shaped
<1> HIDE DEF o
<1> QED
  BY <1>2, <1>4, BecomeKeeps DEF IInv, o

LEMMA DeleteKeeps ==
  ASSUME IInv, NEW t \in Tasks, NEW ids, Delete(t, ids)
  PROVE  Kept
<1> DEFINE rows == {e \in EntriesOf(procs) : e.id \in ids}
<1>1. rows \in SUBSET Entry
  BY EntriesAreEntries DEF IInv, TableType
<1>2. Become(t, [Idle("deleting") EXCEPT !.kind = "delete", !.rows = rows])
  BY DEF Delete
<1> HIDE DEF rows
<1>3. OpType' /\ OpShape'
  BY <1>1, <1>2, RowsKeep DEF Kinds
<1> QED
  BY <1>3, TableUnchanged, DumpUnchanged DEF Delete, Kept

LEMMA RemoveKeeps ==
  ASSUME IInv, NEW t \in Tasks, Remove(t)
  PROVE  Kept
<1>1. PICK e \in op[t].rows :
        /\ procs' = [procs EXCEPT ![e.id] = NoRow]
        /\ IF op[t].rows = {e} THEN Return(t, "idle")
           ELSE Become(t, [op[t] EXCEPT !.rows = @ \ {e}])
  BY DEF Remove
<1>2. op[t] \in Operation /\ op[t].pc = "deleting"
  BY DEF IInv, OpType, Remove, At
<1>3. TableType'
  <2>1. procs' \in [Ids -> Row \cup {NoRow}] /\ \A id \in Ids : Present(id)' => Present(id)
    BY <1>1 DEF IInv, TableType, Present
  <2> QED
    BY <2>1 DEF IInv, TableType, Remove
<1>4. OpType' /\ OpShape'
  <2>1. CASE op[t].rows = {e}
    BY <1>1, <2>1, ReturnKeeps DEF IInv, Resting
  <2>2. CASE op[t].rows # {e}
    <3> DEFINE o == [op[t] EXCEPT !.rows = @ \ {e}]
    <3>1. o \in Operation /\ o.pc = "deleting"
      BY <1>2 DEF Operation
    <3>2. Shaped(o)
      BY <3>1 DEF Shaped
    <3>3. Become(t, o)
      BY <1>1, <2>2
    <3> HIDE DEF o
    <3> QED
      BY <3>1, <3>2, <3>3, BecomeKeeps DEF IInv
  <2> QED
    BY <2>1, <2>2
<1> QED
  BY <1>3, <1>4, DumpUnchanged DEF Remove, Kept

LEMMA SaveKeeps ==
  ASSUME IInv, Save
  PROVE  Kept
<1>1. TableType' /\ DumpType'
  BY TableUnchanged DEF Save, IInv, TableType, DumpType
<1>2. OpType' /\ OpShape'
  BY DEF Save, IInv, OpType, OpShape, Shaped
<1> QED
  BY <1>1, <1>2 DEF Kept

LEMMA ResurrectKeeps ==
  ASSUME IInv, NEW t \in Tasks, Resurrect(t)
  PROVE  Kept
<1>1. EntriesOf(dump) \in SUBSET Entry
  BY EntriesAreEntries DEF IInv, DumpType
<1>2. OpType' /\ OpShape'
  BY <1>1, RowsKeep DEF Resurrect, Kinds
<1> QED
  BY <1>2, TableUnchanged, DumpUnchanged DEF Resurrect, Kept

LEMMA PreexistingKeeps ==
  ASSUME IInv, NEW t \in Tasks, Preexisting(t)
  PROVE  Kept
<1> DEFINE names == {procs[id].name : id \in Live}
           o == [op[t] EXCEPT !.pc = "entry", !.pre = names]
<1>1. names \subseteq Names
  BY PresentIsARow DEF IInv, Row
<1>2. op[t] \in Operation /\ op[t].kind = "resurrect" /\ Become(t, o)
  BY DEF IInv, OpType, OpShape, Shaped, Preexisting, At
<1> HIDE DEF names
<1>3. o \in Operation /\ o.pc = "entry" /\ o.kind = "resurrect"
  BY <1>1, <1>2 DEF Operation, Pcs
<1>4. Shaped(o)
  BY <1>3 DEF Shaped
<1>5. OpType' /\ OpShape'
  <2> HIDE DEF o
  <2> QED
    BY <1>2, <1>3, <1>4, BecomeKeeps DEF IInv
<1> QED
  BY <1>5, TableUnchanged, DumpUnchanged DEF Preexisting, Kept

LEMMA NextEntryKeeps ==
  ASSUME IInv, NEW t \in Tasks, NextEntry(t)
  PROVE  Kept
<1>1. op[t] \in Operation /\ op[t].kind = "resurrect" /\ op[t].pc = "entry"
  BY DEF IInv, OpType, OpShape, Shaped, NextEntry, At
<1>2. OpType' /\ OpShape'
  <2>1. CASE Return(t, "idle")
    BY <2>1, ReturnKeeps DEF IInv, Resting
  <2>2. ASSUME NEW e \in op[t].rows, Become(t, [op[t] EXCEPT !.rows = @ \ {e}])
        PROVE  OpType' /\ OpShape'
    <3> DEFINE o == [op[t] EXCEPT !.rows = @ \ {e}]
    <3>1. o \in Operation /\ o.pc = "entry" /\ o.kind = "resurrect"
      BY <1>1 DEF Operation
    <3>2. Shaped(o)
      BY <3>1 DEF Shaped
    <3> HIDE DEF o
    <3> QED
      BY <2>2, <3>1, <3>2, BecomeKeeps DEF IInv, o
  <2>3. ASSUME NEW e \in op[t].rows,
               Become(t, [op[t] EXCEPT !.rows = @ \ {e}, !.pc = "fixed", !.id = e.id,
                                       !.name = e.name, !.inst = e.inst])
        PROVE  OpType' /\ OpShape'
    <3> DEFINE o == [op[t] EXCEPT !.rows = @ \ {e}, !.pc = "fixed", !.id = e.id,
                                  !.name = e.name, !.inst = e.inst]
    <3>1. e.id \in Ids /\ e.name \in Names /\ e.inst \in 0..MaxNum
      BY <1>1 DEF Operation, Entry
    <3>2. o \in Operation /\ o.name = e.name /\ o.kind = "resurrect" /\ o.pc = "fixed"
      BY <1>1, <3>1 DEF Operation, Pcs
    <3>3. Shaped(o)
      BY <3>1, <3>2 DEF Shaped
    <3> HIDE DEF o
    <3> QED
      BY <2>3, <3>2, <3>3, BecomeKeeps DEF IInv, o
  <2> QED
    BY <2>1, <2>2, <2>3 DEF NextEntry
<1> QED
  BY <1>2, TableUnchanged, DumpUnchanged DEF NextEntry, Kept

LEMMA NewDaemonKeeps ==
  ASSUME IInv, NewDaemon
  PROVE  Kept
<1>1. TableType'
  BY IdFacts DEF NewDaemon, TableType, Empty, Present
<1>2. Idle("failed") \in Operation /\ Shaped(Idle("failed"))
  BY RestingIsShaped DEF Resting
<1>3. OpType' /\ OpShape'
  BY <1>2 DEF NewDaemon, OpType, OpShape, Shaped
<1> QED
  BY <1>1, <1>3, DumpUnchanged DEF NewDaemon, Kept

LEMMA StepKeeps ==
  ASSUME IInv, Next, Observe
  PROVE  IInv'
<1>1. Kept
  <2>1. ASSUME NEW t \in Tasks, Step(t)
        PROVE  Kept
    <3>1. ASSUME NEW name \in Names, NEW n \in Nums, Start(t, name, n) \/ Scale(t, name, n)
          PROVE  Kept
      BY <3>1, StartKeeps, ScaleKeeps
    <3>2. ASSUME NEW ids, Delete(t, ids)
          PROVE  Kept
      BY <3>2, DeleteKeeps
    <3>3. ASSUME Insert(t) \/ InsertFixed(t) \/ (\E okay \in BOOLEAN : Launched(t, okay))
          PROVE  Kept
      BY <3>3, InsertStepKeeps, InsertFixedKeeps, LaunchedKeeps
    <3>4. ASSUME Alloc(t) \/ Remove(t) \/ Resurrect(t) \/ Preexisting(t) \/ NextEntry(t)
          PROVE  Kept
      BY <3>4, AllocKeeps, RemoveKeeps, ResurrectKeeps, PreexistingKeeps, NextEntryKeeps
    <3> QED
      BY <2>1, <3>1, <3>2, <3>3, <3>4 DEF Step
  <2> QED
    BY <2>1, SaveKeeps, NewDaemonKeeps DEF Next
<1>2. begun' \in 0..MaxOps
  <2>1. ASSUME NEW t \in Tasks, Begin(t)
        PROVE  begun' \in 0..MaxOps
    BY <2>1, BeginCounts
  <2>2. CASE UNCHANGED begun
    BY <2>2 DEF IInv, Histories
  <2>3. (\E t \in Tasks : Begin(t)) \/ UNCHANGED begun
    <3>1. ASSUME NEW t \in Tasks, Step(t)
          PROVE  Begin(t) \/ UNCHANGED begun
      BY <3>1 DEF Step, Start, Scale, Delete, Insert, InsertFixed, Launched, Alloc, Remove,
                  Resurrect, Preexisting, NextEntry
    <3> QED
      BY <3>1 DEF Next, Save, NewDaemon
  <2> QED
    BY <2>1, <2>2, <2>3
<1>3. Histories'
  BY <1>2, ObserveKeeps
<1> QED
  BY <1>1, <1>3 DEF Kept, IInv

\* The invariant holds in every reachable state of the table, whatever the
\* number of operations, names and ids (ops.rs, dump.rs, state.rs:164-207).
THEOREM TableInductive == Spec => []IInv
<1>1. IInv /\ [Next /\ Observe]_vars => IInv'
  <2> SUFFICES ASSUME IInv, [Next /\ Observe]_vars
               PROVE  IInv'
    OBVIOUS
  <2>1. CASE Next /\ Observe
    BY <2>1, StepKeeps
  <2>2. CASE UNCHANGED vars
    BY <2>2 DEF vars, IInv, TableType, DumpType, OpType, Histories, OpShape, Shaped, Present
  <2> QED
    BY <2>1, <2>2
<1> QED
  BY InitInv, <1>1, PTL DEF Spec

\* Every variable keeps its type, and next_id passes every id in the table
\* (state.rs:171-186), however operations interleave.
THEOREM TableTypes == Spec => []TypeOK
<1>1. IInv => TypeOK
  BY DEF IInv, TypeOK, TableType, DumpType, OpType, Histories
<1> QED
  BY <1>1, TableInductive, PTL

-----------------------------------------------------------------------------
(* No insertion overwrites a row.                                          *)

LEMMA StepClobbersNothing ==
  ASSUME IInv, Next, NEW id \in Ids, Present(id)
  PROVE  procs'[id] \in {procs[id], NoRow}
<1> USE DEF IInv, TableType
<1>1. ASSUME NEW t \in Tasks, Insert(t)
      PROVE  procs'[id] \in {procs[id], NoRow}
  <2>1. ~Present(AllocId)
    BY <1>1, AllocatedIsFree DEF Insert
  <2> QED
    BY <1>1, <2>1 DEF Insert
<1>2. ASSUME NEW t \in Tasks, InsertFixed(t)
      PROVE  procs'[id] \in {procs[id], NoRow}
  BY <1>2 DEF InsertFixed
<1>3. ASSUME NEW t \in Tasks, Remove(t)
      PROVE  procs'[id] \in {procs[id], NoRow}
  BY <1>3 DEF Remove
<1>4. ASSUME NEW t \in Tasks, Step(t), ~Insert(t), ~InsertFixed(t), ~Remove(t)
      PROVE  procs'[id] \in {procs[id], NoRow}
  BY <1>4 DEF Step, Start, Scale, Delete, Launched, Alloc, Resurrect, Preexisting, NextEntry
<1>5. ASSUME Save \/ NewDaemon
      PROVE  procs'[id] \in {procs[id], NoRow}
  BY <1>5 DEF Save, NewDaemon, Empty
<1> QED
  BY <1>1, <1>2, <1>3, <1>4, <1>5 DEF Next

\* A row is replaced by nothing but its absence: an insertion never drops the
\* channel of a live supervisor (ops.rs:86-90), be its id allocated on the spot,
\* allocated ahead by scale, or pinned by resurrect.
THEOREM RowsAreNeverClobbered == Spec => NoClobber
<1>1. IInv /\ [Next /\ Observe]_vars
        => [\A id \in Ids : Present(id) => procs'[id] \in {procs[id], NoRow}]_vars
  BY StepClobbersNothing
<1> QED
  BY <1>1, TableInductive, PTL DEF Spec, NoClobber

-----------------------------------------------------------------------------
(* Instance numbers.                                                       *)

\* Two operations that add rows of a name tangle it.
Tangle ==
  \A t, u \in Tasks, name \in Names : t # u /\ Adds(t, name) /\ Adds(u, name) => name \in tangled

\* Rows that are alike have a name that was tangled.
Distinct(table) ==
  \A i, j \in Ids : i # j /\ table[i] = table[j] /\ table[i] # NoRow => table[i].name \in tangled

\* Which operation is where.
Placed(o) ==
  /\ o.pc = "insert" => o.kind = "start"
  /\ o.pc = "alloc" => o.kind = "scale"
  /\ o.pc = "fixed" => o.kind \in {"scale", "resurrect"}
  /\ o.pc = "launch" => o.kind \in {"start", "scale", "resurrect"}

\* A start or scale adds its next row with a number past those in the table.
Numbered(o) ==
  o.kind \in {"start", "scale"} /\ o.name \notin tangled =>
    \A id \in Ids : procs[id] # NoRow /\ procs[id].name = o.name =>
      /\ o.pc \in {"insert", "alloc", "fixed"} => procs[id].inst < o.inst
      /\ o.pc = "launch" => procs[id].inst <= o.inst

\* The rows a resurrect has still to add are distinct...
OwnRows(o) ==
  o.kind = "resurrect" /\ o.pc \in {"preexisting", "entry", "fixed", "launch"} =>
    \A e, f \in o.rows :
      e.name = f.name /\ e.inst = f.inst /\ e.name \notin tangled => e = f

\* ...and those it may still add are like none in the table...
NewRows(o) ==
  o.kind = "resurrect" /\ o.pc \in {"entry", "fixed", "launch"} =>
    \A e \in o.rows : e.name \notin o.pre /\ e.name \notin tangled =>
      \A id \in Ids : procs[id] # [name |-> e.name, inst |-> e.inst]

\* ...nor is the one it is adding, nor like another that it will.
NextRow(o) ==
  o.kind = "resurrect" /\ o.pc = "fixed" /\ o.name \notin tangled =>
    /\ \A id \in Ids : procs[id] # [name |-> o.name, inst |-> o.inst]
    /\ \A e \in o.rows : ~(e.name = o.name /\ e.inst = o.inst)

Sound(o) == Placed(o) /\ Numbered(o) /\ OwnRows(o) /\ NewRows(o) /\ NextRow(o)

DInv == /\ IInv /\ Tangle /\ Distinct(procs) /\ Distinct(dump)
        /\ \A t \in Tasks : Sound(op[t])

\* A step that is observed.
Seen == IInv' /\ Tangle' /\ tangled \subseteq tangled'

LEMMA ObserveTangles ==
  ASSUME IInv, Next, Observe
  PROVE  Seen
<1>1. IInv'
  BY StepKeeps
<1>2. Tangle'
  BY DEF Tangle, Observe, Adds
<1>3. tangled \subseteq tangled'
  BY DEF Observe
<1> QED
  BY <1>1, <1>2, <1>3 DEF Seen

\* Rows go, and what is added is of a name that this operation was adding: the
\* other operations stay sound.
LEMMA OthersStaySound ==
  ASSUME DInv, Seen, NEW t \in Tasks, NEW u \in Tasks, u # t, op'[u] = op[u],
         \A id \in Ids : \/ procs'[id] \in {procs[id], NoRow}
                         \/ procs'[id].name \in Names /\ Adds(t, procs'[id].name)
  PROVE  Sound(op[u])'
<1>1. Sound(op[u]) /\ tangled \subseteq tangled' /\ op[u] \in Operation
  BY DEF DInv, Seen, IInv, OpType
<1>2. \A id \in Ids : \/ procs'[id] \in {procs[id], NoRow}
                      \/ /\ procs'[id].name \in Names
                         /\ Adds(u, procs'[id].name) => procs'[id].name \in tangled
  BY DEF DInv, Tangle
<1>3. Placed(op[u])' /\ OwnRows(op[u])'
  BY <1>1 DEF Sound, Placed, OwnRows
<1>4. Numbered(op[u])'
  BY <1>1, <1>2 DEF Sound, Placed, Numbered, Adds
\* A row that was not in the table is not in it now, if u was adding its name.
<1>5. ASSUME NEW name \in Names, NEW inst \in 0..MaxNum, Adds(u, name), name \notin tangled',
             \A id \in Ids : procs[id] # [name |-> name, inst |-> inst], NEW id \in Ids
      PROVE  procs'[id] # [name |-> name, inst |-> inst]
  <2>1. [name |-> name, inst |-> inst] # NoRow
    BY NoRowAssumption DEF Row
  <2>2. procs'[id] \in {procs[id], NoRow} \/ procs'[id].name # name
    BY <1>1, <1>2, <1>5
  <2> QED
    BY <1>5, <2>1, <2>2
<1>6. NewRows(op[u])'
  <2> SUFFICES ASSUME op[u].kind = "resurrect", op[u].pc \in {"entry", "fixed", "launch"},
                      NEW e \in op[u].rows, e.name \notin op[u].pre, e.name \notin tangled',
                      NEW id \in Ids
               PROVE  procs'[id] # [name |-> e.name, inst |-> e.inst]
    BY DEF NewRows
  <2>1. e.name \in Names /\ e.inst \in 0..MaxNum /\ Adds(u, e.name)
    BY <1>1 DEF Operation, Entry, Adds
  <2>2. \A i \in Ids : procs[i] # [name |-> e.name, inst |-> e.inst]
    BY <1>1 DEF Sound, NewRows
  <2> QED
    BY <1>5, <2>1, <2>2
<1>7. NextRow(op[u])'
  <2> SUFFICES ASSUME op[u].kind = "resurrect", op[u].pc = "fixed", op[u].name \notin tangled'
               PROVE  /\ \A id \in Ids : procs'[id] # [name |-> op[u].name, inst |-> op[u].inst]
                      /\ \A e \in op[u].rows : ~(e.name = op[u].name /\ e.inst = op[u].inst)
    BY DEF NextRow
  <2>1. op[u].name \in Names /\ op[u].inst \in 0..MaxNum /\ Adds(u, op[u].name)
    BY <1>1 DEF Operation, Adds, DInv, IInv, OpShape, Shaped
  <2>2. /\ \A id \in Ids : procs[id] # [name |-> op[u].name, inst |-> op[u].inst]
        /\ \A e \in op[u].rows : ~(e.name = op[u].name /\ e.inst = op[u].inst)
    BY <1>1 DEF Sound, NextRow
  <2> QED
    BY <1>5, <2>1, <2>2
<1> QED
  BY <1>3, <1>4, <1>6, <1>7 DEF Sound

\* Distinct rows stay so when some go.
LEMMA FewerStayDistinct ==
  ASSUME DInv, Seen, \A id \in Ids : procs'[id] \in {procs[id], NoRow}
  PROVE  Distinct(procs)'
  BY DEF DInv, Seen, Distinct

\* A step of operation t by which no row is added.
LEMMA AddsNothing ==
  ASSUME DInv, Seen, NEW t \in Tasks, \A u \in Tasks \ {t} : op'[u] = op[u],
         \A id \in Ids : procs'[id] \in {procs[id], NoRow}, UNCHANGED dump, Sound(op[t])'
  PROVE  DInv'
<1>1. \A u \in Tasks \ {t} : Sound(op[u])'
  BY OthersStaySound
<1>2. Distinct(dump)'
  BY DEF DInv, Seen, Distinct
<1> QED
  BY <1>1, <1>2, FewerStayDistinct DEF DInv, Seen

\* A step of operation t that adds one row, like none before.
LEMMA AddsOne ==
  ASSUME DInv, Seen, NEW t \in Tasks, \A u \in Tasks \ {t} : op'[u] = op[u],
         NEW id \in Ids, procs'[id].name \in Names, Adds(t, procs'[id].name),
         \A i \in Ids \ {id} : procs'[i] = procs[i],
         procs'[id].name \notin tangled => \A i \in Ids : procs[i] # procs'[id],
         UNCHANGED dump, Sound(op[t])'
  PROVE  DInv'
<1>1. \A u \in Tasks \ {t} : Sound(op[u])'
  BY OthersStaySound
<1>2. Distinct(procs)'
  BY DEF DInv, Seen, Distinct
<1>3. Distinct(dump)'
  BY DEF DInv, Seen, Distinct
<1> QED
  BY <1>1, <1>2, <1>3 DEF DInv, Seen

-----------------------------------------------------------------------------
(* One lemma per operation.                                                *)

LEMMA BecomeIs ==
  ASSUME IInv, NEW t \in Tasks, NEW o, Become(t, o)
  PROVE  op'[t] = o /\ \A u \in Tasks \ {t} : op'[u] = op[u]
  BY DEF IInv, OpType, Become

LEMMA IdleIs ==
  ASSUME NEW pc
  PROVE  Idle(pc).pc = pc /\ Idle(pc).kind = "start" /\ Idle(pc).inst = 0
  BY DEF Idle

\* An operation that adds no rows, or none yet, is sound.
LEMMA AtEase ==
  ASSUME NEW t \in Tasks,
         op'[t].pc \notin {"insert", "alloc", "fixed", "launch", "entry", "preexisting"}
  PROVE  Sound(op[t])'
  BY DEF Sound, Placed, Numbered, OwnRows, NewRows, NextRow

LEMMA RestDistinct ==
  ASSUME DInv, Seen, NEW t \in Tasks, NEW pc \in Resting, Return(t, pc),
         \A id \in Ids : procs'[id] \in {procs[id], NoRow}, UNCHANGED dump
  PROVE  DInv'
<1>1. op'[t] = Idle(pc) /\ \A u \in Tasks \ {t} : op'[u] = op[u]
  BY BecomeIs DEF Return, DInv
<1>2. Sound(op[t])'
  BY <1>1, IdleIs, AtEase DEF Resting
<1> QED
  BY <1>1, <1>2, AddsNothing

LEMMA StartDistinct ==
  ASSUME DInv, Seen, NEW t \in Tasks, NEW name \in Names, NEW n \in Nums, Start(t, name, n)
  PROVE  DInv'
<1>1. CASE Of(name) # {}
  BY <1>1, RestDistinct DEF Start, Resting
<1>2. CASE Of(name) = {}
  <2>1. /\ op'[t].pc = "insert" /\ op'[t].kind = "start" /\ op'[t].name = name
        /\ \A u \in Tasks \ {t} : op'[u] = op[u]
    <3> DEFINE o == [Idle("insert") EXCEPT !.name = name, !.want = n, !.left = n]
    <3>1. o.pc = "insert" /\ o.kind = "start" /\ o.name = name
      BY DEF Idle
    <3> HIDE DEF o
    <3>2. Become(t, o)
      BY <1>2 DEF Start, o
    <3> QED
      BY <3>1, <3>2, BecomeIs DEF DInv
  <2>2. \A id \in Ids : procs[id] # NoRow => procs[id].name # name
    BY <1>2 DEF Of, Live, Present
  <2>3. Sound(op[t])'
    BY <2>1, <2>2 DEF Start, Sound, Placed, Numbered, OwnRows, NewRows, NextRow
  <2> QED
    BY <2>1, <2>3, AddsNothing DEF Start
<1> QED
  BY <1>1, <1>2

LEMMA InsertDistinct ==
  ASSUME DInv, Seen, NEW t \in Tasks, Insert(t)
  PROVE  DInv'
<1>1. PICK id \in Ids, name \in Names, inst \in 0..MaxNum :
        /\ id = AllocId /\ name = op[t].name /\ inst = op[t].inst
  BY DEF DInv, IInv, OpType, Operation, OpShape, Shaped, Insert, At
<1>2. /\ op[t].pc = "insert" /\ op[t].kind = "start" /\ Adds(t, name)
      /\ procs' = [procs EXCEPT ![id] = [name |-> name, inst |-> inst]] /\ UNCHANGED dump
  BY <1>1 DEF Insert, At, Adds, DInv, Sound, Placed
<1>3. /\ op'[t].pc = "launch" /\ op'[t].kind = "start" /\ op'[t].name = name /\ op'[t].inst = inst
      /\ \A u \in Tasks \ {t} : op'[u] = op[u]
  BY <1>1, <1>2, BecomeIs DEF Insert, DInv, IInv, OpType, Operation
<1>4. name \notin tangled => \A i \in Ids : procs[i] # NoRow /\ procs[i].name = name => procs[i].inst < inst
  BY <1>1, <1>2 DEF DInv, Sound, Numbered
<1>5. name \notin tangled => \A i \in Ids : procs[i] # [name |-> name, inst |-> inst]
  <2>1. [name |-> name, inst |-> inst] # NoRow
    BY NoRowAssumption DEF Row
  <2> QED
    BY <1>4, <2>1
<1>6. procs'[id] = [name |-> name, inst |-> inst] /\ \A i \in Ids \ {id} : procs'[i] = procs[i]
  BY <1>2 DEF DInv, IInv, TableType
<1>7. Sound(op[t])'
  <2>1. \A i \in Ids : procs[i] # NoRow => procs[i].inst \in Nat
    BY DEF DInv, IInv, TableType, Row
  <2>2. Numbered(op[t])'
    BY <1>3, <1>4, <1>6, <2>1 DEF Numbered, Seen
  <2> QED
    BY <1>3, <2>2 DEF Sound, Placed, OwnRows, NewRows, NextRow
<1> QED
  BY <1>2, <1>3, <1>5, <1>6, <1>7, AddsOne

LEMMA InsertFixedDistinct ==
  ASSUME DInv, Seen, NEW t \in Tasks, InsertFixed(t)
  PROVE  DInv'
<1>1. PICK id \in Ids, name \in Names, inst \in 0..MaxNum :
        /\ id = op[t].id /\ name = op[t].name /\ inst = op[t].inst
  BY DEF DInv, IInv, OpType, Operation, OpShape, Shaped, InsertFixed, At
<1>2. op[t].pc = "fixed" /\ op[t].kind \in {"scale", "resurrect"} /\ UNCHANGED dump /\ Sound(op[t])
  BY DEF InsertFixed, At, DInv, Sound, Placed
<1>3. CASE Present(op[t].id) /\ op[t].kind # "resurrect"
  BY <1>3, RestDistinct DEF InsertFixed, Resting
<1>4. CASE Present(op[t].id) /\ op[t].kind = "resurrect"
  <2>1. /\ op'[t].pc = "entry" /\ op'[t].kind = "resurrect" /\ op'[t].rows = op[t].rows
        /\ op'[t].pre = op[t].pre /\ \A u \in Tasks \ {t} : op'[u] = op[u]
    BY <1>4, BecomeIs DEF InsertFixed, DInv, IInv, OpType, Operation
  <2>2. UNCHANGED procs
    BY <1>4 DEF InsertFixed
  <2>3. OwnRows(op[t])' /\ NewRows(op[t])'
    BY <1>2, <1>4, <2>1, <2>2 DEF Sound, OwnRows, NewRows, Seen
  <2>4. Sound(op[t])'
    BY <2>1, <2>3 DEF Sound, Placed, Numbered, NextRow
  <2> QED
    BY <1>2, <2>1, <2>2, <2>4, AddsNothing
<1>5. CASE ~Present(op[t].id)
  <2>1. /\ op'[t].pc = "launch" /\ op'[t].kind = op[t].kind /\ op'[t].name = name /\ op'[t].inst = inst
        /\ op'[t].rows = op[t].rows /\ op'[t].pre = op[t].pre
        /\ \A u \in Tasks \ {t} : op'[u] = op[u]
    BY <1>1, <1>5, BecomeIs DEF InsertFixed, DInv, IInv, OpType, Operation
  <2>2. procs' = [procs EXCEPT ![id] = [name |-> name, inst |-> inst]] /\ Adds(t, name)
    BY <1>1, <1>2, <1>5 DEF InsertFixed, Adds
  <2>3. [name |-> name, inst |-> inst] # NoRow
    BY NoRowAssumption DEF Row
  <2>4. procs'[id] = [name |-> name, inst |-> inst] /\ \A i \in Ids \ {id} : procs'[i] = procs[i]
    BY <2>2 DEF DInv, IInv, TableType
  <2>5. CASE op[t].kind = "scale"
    <3>1. name \notin tangled => \A i \in Ids : procs[i] # NoRow /\ procs[i].name = name => procs[i].inst < inst
      BY <1>1, <1>2, <2>5 DEF Sound, Numbered
    <3>2. \A i \in Ids : procs[i] # NoRow => procs[i].inst \in Nat
      BY DEF DInv, IInv, TableType, Row
    <3>3. Numbered(op[t])'
      BY <2>1, <2>4, <3>1, <3>2 DEF Numbered, Seen
    <3>4. Sound(op[t])'
      BY <2>1, <2>5, <3>3 DEF Sound, Placed, OwnRows, NewRows, NextRow
    <3>5. name \notin tangled => \A i \in Ids : procs[i] # [name |-> name, inst |-> inst]
      BY <2>3, <3>1
    <3> QED
      BY <1>2, <2>1, <2>2, <2>4, <3>4, <3>5, AddsOne
  <2>6. CASE op[t].kind = "resurrect"
    <3>1. name \notin tangled => /\ \A i \in Ids : procs[i] # [name |-> name, inst |-> inst]
                                 /\ \A e \in op[t].rows : ~(e.name = name /\ e.inst = inst)
      BY <1>1, <1>2, <2>6 DEF Sound, NextRow
    <3>2. OwnRows(op[t])'
      BY <1>2, <2>1, <2>6 DEF Sound, OwnRows, Seen
    <3>3. NewRows(op[t])'
      BY <1>2, <2>1, <2>4, <2>6, <3>1 DEF Sound, NewRows, Seen
    <3>4. Sound(op[t])'
      BY <2>1, <2>6, <3>2, <3>3 DEF Sound, Placed, Numbered, NextRow
    <3> QED
      BY <1>2, <2>1, <2>2, <2>4, <3>1, <3>4, AddsOne
  <2> QED
    BY <1>2, <2>5, <2>6
<1> QED
  BY <1>3, <1>4, <1>5

\* A set of naturals has a least element: of the intervals from 0 to its elements,
\* one includes no other.
LEMMA LeastElement ==
  ASSUME NEW T, T \subseteq Nat, T # {}
  PROVE  \E m \in T : \A n \in T : m <= n
<1> DEFINE U == {0..n : n \in T}
<1>1. U # {} /\ U \subseteq FiniteSubsetsOf(Nat)
  <2>1. \A n \in T : 0..n \in SUBSET Nat /\ IsFiniteSet(0..n)
    BY FS_Interval
  <2> QED
    BY <2>1 DEF FiniteSubsetsOf
<1>2. PICK I \in U : \A J \in U : <<J, I>> \notin StrictSubsetOrdering(Nat)
  <2> HIDE DEF U
  <2> QED
    BY <1>1, FS_StrictSubsetOrderingWellFounded, WFMin
<1>3. PICK m \in T : I = 0..m
  OBVIOUS
<1>4. ASSUME NEW n \in T, n < m
      PROVE  FALSE
  <2>1. 0..n \in U /\ 0..n \in SUBSET Nat /\ 0..m \in SUBSET Nat
    OBVIOUS
  <2>2. 0..n \subseteq 0..m /\ 0..n # 0..m
    BY <1>4
  <2>3. <<0..n, 0..m>> \in StrictSubsetOrdering(Nat)
    BY <2>1, <2>2 DEF StrictSubsetOrdering
  <2> QED
    BY <1>2, <1>3, <2>1, <2>3
<1> QED
  BY <1>4

\* The number of the next instance is past those of the name that exist.
LEMMA NextInstanceIsNew ==
  ASSUME IInv, NEW name \in Names, Of(name) # {}
  PROVE  \A id \in Of(name) : procs[id].inst < NextInstance(name)
<1> DEFINE T == {n \in 1..(MaxNum + 1) : \A id \in Of(name) : procs[id].inst < n}
<1>1. \A id \in Of(name) : procs[id].inst \in 0..MaxNum
  BY PresentIsARow DEF IInv, Of, Row
<1>2. MaxNum + 1 \in T /\ T \subseteq Nat
  BY <1>1, IdFacts
<1>3. PICK m \in T : \A n \in T : m <= n
  BY <1>2, LeastElement
<1>4. \E id \in Of(name) : procs[id].inst + 1 = m
  <2>1. m \in 1..(MaxNum + 1) /\ \A id \in Of(name) : procs[id].inst < m
    OBVIOUS
  <2>2. CASE m = 1
    BY <1>1, <2>1, <2>2
  <2>3. CASE m # 1
    <3>1. m - 1 \in 1..(MaxNum + 1) /\ m - 1 < m
      BY <2>1, <2>3, IdFacts
    <3>2. PICK id \in Of(name) : ~(procs[id].inst < m - 1)
      BY <1>3, <3>1
    <3> QED
      BY <1>1, <2>1, <3>1, <3>2
  <2> QED
    BY <2>2, <2>3
<1>5. \E n \in 1..(MaxNum + 1) : /\ \A id \in Of(name) : procs[id].inst < n
                                 /\ \E id \in Of(name) : procs[id].inst + 1 = n
  BY <1>4
<1> QED
  BY <1>5 DEF NextInstance

LEMMA ScaleDistinct ==
  ASSUME DInv, Seen, NEW t \in Tasks, NEW name \in Names, NEW want, Scale(t, name, want)
  PROVE  DInv'
<1> DEFINE have == Cardinality(Of(name))
           base == [Idle("idle") EXCEPT !.kind = "scale", !.name = name, !.want = want]
<1>1. CASE Return(t, "failed") \/ Return(t, "idle")
  BY <1>1, RestDistinct DEF Scale, Resting
<1>2. CASE /\ 0 < have
           /\ Become(t, [base EXCEPT !.pc = "alloc", !.left = want - have, !.inst = NextInstance(name)])
  <2>1. PICK inst : inst = NextInstance(name)
    OBVIOUS
  <2>2. PICK o : o = [base EXCEPT !.pc = "alloc", !.left = want - have, !.inst = inst]
    OBVIOUS
  <2>3. o.pc = "alloc" /\ o.kind = "scale" /\ o.name = name /\ o.inst = inst
    BY <2>2 DEF Idle
  <2>4. op'[t] = o /\ \A u \in Tasks \ {t} : op'[u] = op[u]
    BY <1>2, <2>1, <2>2, BecomeIs DEF DInv
  <2>5. Of(name) # {}
    BY <1>2, FS_EmptySet
  <2>6. \A id \in Of(name) : procs[id].inst < inst
    BY <2>1, <2>5, NextInstanceIsNew DEF DInv
  <2>7. UNCHANGED procs
    BY DEF Scale
  <2>8. Numbered(op[t])'
    BY <2>3, <2>4, <2>6, <2>7 DEF Numbered, Of, Live, Present
  <2>9. Sound(op[t])'
    BY <2>3, <2>4, <2>8 DEF Sound, Placed, OwnRows, NewRows, NextRow
  <2> QED
    BY <2>4, <2>7, <2>9, AddsNothing DEF Scale
<1>3. CASE \E rows : Become(t, [base EXCEPT !.pc = "deleting", !.rows = rows])
  <2>1. PICK rows, o : o = [base EXCEPT !.pc = "deleting", !.rows = rows] /\ Become(t, o)
    BY <1>3
  <2>2. o.pc = "deleting"
    BY <2>1 DEF Idle
  <2>3. op'[t] = o /\ \A u \in Tasks \ {t} : op'[u] = op[u]
    BY <2>1, BecomeIs DEF DInv
  <2>4. Sound(op[t])'
    BY <2>2, <2>3, AtEase
  <2> QED
    BY <2>3, <2>4, AddsNothing DEF Scale
<1> QED
  BY <1>1, <1>2, <1>3 DEF Scale

LEMMA LaunchedDistinct ==
  ASSUME DInv, Seen, NEW t \in Tasks, NEW okay, Launched(t, okay)
  PROVE  DInv'
<1>1. /\ op[t].pc = "launch" /\ op[t].kind \in {"start", "scale", "resurrect"} /\ Sound(op[t])
      /\ op[t] \in Operation /\ UNCHANGED <<procs, dump>>
  BY DEF Launched, At, DInv, Sound, Placed, IInv, OpType
<1>2. CASE op[t].kind = "resurrect"
  <2>1. /\ op'[t].pc = "entry" /\ op'[t].kind = "resurrect" /\ op'[t].rows = op[t].rows
        /\ op'[t].pre = op[t].pre /\ \A u \in Tasks \ {t} : op'[u] = op[u]
    BY <1>1, <1>2, BecomeIs DEF Launched, DInv, Operation
  <2>2. OwnRows(op[t])' /\ NewRows(op[t])'
    BY <1>1, <1>2, <2>1 DEF Sound, OwnRows, NewRows, Seen
  <2>3. Sound(op[t])'
    BY <2>1, <2>2 DEF Sound, Placed, Numbered, NextRow
  <2> QED
    BY <1>1, <2>1, <2>3, AddsNothing
<1>3. CASE Return(t, "failed") \/ Return(t, "idle")
  BY <1>1, <1>3, RestDistinct DEF Resting
<1>4. CASE /\ op[t].kind # "resurrect"
           /\ Become(t, [op[t] EXCEPT !.pc = IF op[t].kind = "scale" THEN "alloc" ELSE "insert",
                                      !.left = @ - 1, !.inst = @ + 1])
  <2>1. /\ op'[t].pc = (IF op[t].kind = "scale" THEN "alloc" ELSE "insert")
        /\ op'[t].kind = op[t].kind /\ op'[t].name = op[t].name /\ op'[t].inst = op[t].inst + 1
        /\ \A u \in Tasks \ {t} : op'[u] = op[u]
    <3> DEFINE pc == IF op[t].kind = "scale" THEN "alloc" ELSE "insert"
               o == [op[t] EXCEPT !.pc = pc, !.left = @ - 1, !.inst = @ + 1]
    <3>1. o.pc = pc /\ o.kind = op[t].kind /\ o.name = op[t].name /\ o.inst = op[t].inst + 1
      BY <1>1 DEF Operation
    <3>2. Become(t, o)
      BY <1>4
    <3> HIDE DEF o
    <3> QED
      BY <3>1, <3>2, BecomeIs DEF DInv
  <2>2. op[t].inst \in Nat /\ \A id \in Ids : procs[id] # NoRow => procs[id].inst \in Nat
    BY <1>1, IdFacts DEF Operation, DInv, IInv, TableType, Row
  <2>3. Numbered(op[t])'
    BY <1>1, <1>4, <2>1, <2>2 DEF Sound, Numbered, Seen
  <2>4. Sound(op[t])'
    BY <1>1, <1>4, <2>1, <2>3 DEF Sound, Placed, OwnRows, NewRows, NextRow
  <2> QED
    BY <1>1, <2>1, <2>4, AddsNothing
<1> QED
  BY <1>2, <1>3, <1>4 DEF Launched

LEMMA AllocDistinct ==
  ASSUME DInv, Seen, NEW t \in Tasks, Alloc(t)
  PROVE  DInv'
<1>1. /\ op[t].pc = "alloc" /\ op[t].kind = "scale" /\ Sound(op[t])
      /\ op[t] \in Operation /\ UNCHANGED <<procs, dump>>
  BY DEF Alloc, At, DInv, Sound, Placed, IInv, OpType
<1>2. /\ op'[t].pc = "fixed" /\ op'[t].kind = "scale" /\ op'[t].name = op[t].name
      /\ op'[t].inst = op[t].inst /\ \A u \in Tasks \ {t} : op'[u] = op[u]
  <2> DEFINE o == [op[t] EXCEPT !.pc = "fixed", !.id = AllocId]
  <2>1. o.pc = "fixed" /\ o.kind = op[t].kind /\ o.name = op[t].name /\ o.inst = op[t].inst
    BY <1>1 DEF Operation
  <2>2. Become(t, o)
    BY DEF Alloc
  <2> HIDE DEF o
  <2> QED
    BY <1>1, <2>1, <2>2, BecomeIs DEF DInv
<1>3. Numbered(op[t])'
  BY <1>1, <1>2 DEF Sound, Numbered, Seen
<1>4. Sound(op[t])'
  BY <1>2, <1>3 DEF Sound, Placed, OwnRows, NewRows, NextRow
<1> QED
  BY <1>1, <1>2, <1>4, AddsNothing

LEMMA RemovesDistinct ==
  ASSUME DInv, Seen, NEW t \in Tasks, Remove(t) \/ \E ids : Delete(t, ids)
  PROVE  DInv'
<1>1. UNCHANGED dump /\ \A id \in Ids : procs'[id] \in {procs[id], NoRow}
  BY DEF Remove, Delete, DInv, IInv, TableType
<1>2. CASE Return(t, "idle")
  BY <1>1, <1>2, RestDistinct DEF Resting
<1>3. CASE \E rows : Become(t, [Idle("deleting") EXCEPT !.kind = "delete", !.rows = rows])
  <2>1. PICK rows, o : o = [Idle("deleting") EXCEPT !.kind = "delete", !.rows = rows] /\ Become(t, o)
    BY <1>3
  <2>2. o.pc = "deleting"
    BY <2>1 DEF Idle
  <2>3. op'[t] = o /\ \A u \in Tasks \ {t} : op'[u] = op[u]
    BY <2>1, BecomeIs DEF DInv
  <2>4. Sound(op[t])'
    BY <2>2, <2>3, AtEase
  <2> QED
    BY <1>1, <2>3, <2>4, AddsNothing
<1>4. CASE op[t].pc = "deleting" /\ \E e \in op[t].rows : Become(t, [op[t] EXCEPT !.rows = @ \ {e}])
  <2>1. op'[t].pc = "deleting" /\ \A u \in Tasks \ {t} : op'[u] = op[u]
    BY <1>4, BecomeIs DEF DInv, IInv, OpType, Operation
  <2>2. Sound(op[t])'
    BY <2>1, AtEase
  <2> QED
    BY <1>1, <2>1, <2>2, AddsNothing
<1> QED
  BY <1>2, <1>3, <1>4 DEF Remove, Delete, At

LEMMA ResurrectDistinct ==
  ASSUME DInv, Seen, NEW t \in Tasks, Resurrect(t)
  PROVE  DInv'
<1> DEFINE o == [Idle("preexisting") EXCEPT !.kind = "resurrect", !.rows = EntriesOf(dump)]
<1>1. o.pc = "preexisting" /\ o.kind = "resurrect" /\ o.rows = EntriesOf(dump)
  BY DEF Idle
<1>2. Become(t, o) /\ UNCHANGED <<procs, dump>>
  BY DEF Resurrect
<1> HIDE DEF o
<1>3. op'[t] = o /\ \A u \in Tasks \ {t} : op'[u] = op[u]
  BY <1>2, BecomeIs DEF DInv
<1>4. OwnRows(op[t])'
  <2> SUFFICES ASSUME NEW e \in EntriesOf(dump), NEW f \in EntriesOf(dump),
                      e.name = f.name, e.inst = f.inst, e.name \notin tangled'
               PROVE  e = f
    BY <1>1, <1>3 DEF OwnRows
  <2>1. PICK i \in Ids : /\ dump[i] # NoRow
                      /\ e = [id |-> i, name |-> dump[i].name, inst |-> dump[i].inst]
    BY DEF EntriesOf
  <2>2. PICK j \in Ids : /\ dump[j] # NoRow
                      /\ f = [id |-> j, name |-> dump[j].name, inst |-> dump[j].inst]
    BY DEF EntriesOf
  <2>3. dump[i] = dump[j]
    BY <2>1, <2>2 DEF DInv, IInv, DumpType, Row
  <2>4. dump[i].name \notin tangled
    BY <2>1 DEF Seen
  <2> QED
    BY <2>1, <2>2, <2>3, <2>4 DEF DInv, Distinct
<1>5. Sound(op[t])'
  BY <1>1, <1>3, <1>4 DEF Sound, Placed, Numbered, NewRows, NextRow
<1> QED
  BY <1>2, <1>3, <1>5, AddsNothing

LEMMA PreexistingDistinct ==
  ASSUME DInv, Seen, NEW t \in Tasks, Preexisting(t)
  PROVE  DInv'
<1> DEFINE pre == {procs[id].name : id \in Live}
           o == [op[t] EXCEPT !.pc = "entry", !.pre = pre]
<1>1. op[t].pc = "preexisting" /\ Sound(op[t]) /\ op[t] \in Operation /\ UNCHANGED <<procs, dump>>
  BY DEF Preexisting, At, DInv, IInv, OpType
<1>2. o.pc = "entry" /\ o.kind = op[t].kind /\ o.rows = op[t].rows /\ o.pre = pre
  BY <1>1 DEF Operation
<1>3. Become(t, o)
  BY DEF Preexisting
<1> HIDE DEF o
<1>4. op'[t] = o /\ \A u \in Tasks \ {t} : op'[u] = op[u]
  BY <1>3, BecomeIs DEF DInv
<1>5. OwnRows(op[t])'
  BY <1>1, <1>2, <1>4 DEF Sound, OwnRows, Seen
<1>6. NewRows(op[t])'
  <2> SUFFICES ASSUME NEW e \in op[t].rows, e.name \notin pre, NEW id \in Ids
               PROVE  procs[id] # [name |-> e.name, inst |-> e.inst]
    BY <1>1, <1>2, <1>4 DEF NewRows
  <2>1. e.name \in Names /\ e.inst \in 0..MaxNum
    BY <1>1 DEF Operation, Entry
  <2>2. [name |-> e.name, inst |-> e.inst] # NoRow
    BY <2>1, NoRowAssumption DEF Row
  <2> QED
    BY <2>2 DEF Live, Present
<1>7. Numbered(op[t])'
  BY <1>2, <1>4 DEF Numbered, Placed
<1>8. Sound(op[t])'
  BY <1>2, <1>4, <1>5, <1>6, <1>7 DEF Sound, Placed, NextRow
<1> QED
  BY <1>1, <1>4, <1>8, AddsNothing

LEMMA NextEntryDistinct ==
  ASSUME DInv, Seen, NEW t \in Tasks, NextEntry(t)
  PROVE  DInv'
<1>1. /\ op[t].pc = "entry" /\ op[t].kind = "resurrect" /\ Sound(op[t])
      /\ op[t] \in Operation /\ UNCHANGED <<procs, dump>>
  BY DEF NextEntry, At, DInv, IInv, OpType, OpShape, Shaped
<1>2. CASE Return(t, "idle")
  BY <1>1, <1>2, RestDistinct DEF Resting
<1>3. ASSUME NEW e \in op[t].rows, Occupied(t, e), Become(t, [op[t] EXCEPT !.rows = @ \ {e}])
      PROVE  DInv'
  <2> DEFINE o == [op[t] EXCEPT !.rows = @ \ {e}]
  <2>1. /\ o.pc = "entry" /\ o.kind = "resurrect" /\ o.rows = op[t].rows \ {e}
        /\ o.pre = op[t].pre
    BY <1>1 DEF Operation
  <2>2. Become(t, o)
    BY <1>3
  <2> HIDE DEF o
  <2>3. op'[t] = o /\ \A u \in Tasks \ {t} : op'[u] = op[u]
    BY <2>2, BecomeIs DEF DInv
  <2>4. OwnRows(op[t])' /\ NewRows(op[t])'
    BY <1>1, <2>1, <2>3 DEF Sound, OwnRows, NewRows, Seen
  <2>5. Sound(op[t])'
    BY <2>1, <2>3, <2>4 DEF Sound, Placed, Numbered, NextRow
  <2> QED
    BY <1>1, <2>3, <2>5, AddsNothing
<1>4. ASSUME NEW e \in op[t].rows, ~Occupied(t, e),
             Become(t, [op[t] EXCEPT !.rows = @ \ {e}, !.pc = "fixed", !.id = e.id,
                                     !.name = e.name, !.inst = e.inst])
      PROVE  DInv'
  <2> DEFINE o == [op[t] EXCEPT !.rows = @ \ {e}, !.pc = "fixed", !.id = e.id,
                                !.name = e.name, !.inst = e.inst]
  <2>1. /\ o.pc = "fixed" /\ o.kind = "resurrect" /\ o.rows = op[t].rows \ {e}
        /\ o.pre = op[t].pre /\ o.name = e.name /\ o.inst = e.inst
    BY <1>1 DEF Operation
  <2>2. Become(t, o)
    BY <1>4
  <2> HIDE DEF o
  <2>3. op'[t] = o /\ \A u \in Tasks \ {t} : op'[u] = op[u]
    BY <2>2, BecomeIs DEF DInv
  <2>4. OwnRows(op[t])' /\ NewRows(op[t])'
    BY <1>1, <2>1, <2>3 DEF Sound, OwnRows, NewRows, Seen
  <2>5. NextRow(op[t])'
    <3> SUFFICES ASSUME e.name \notin tangled
                 PROVE  /\ \A id \in Ids : procs[id] # [name |-> e.name, inst |-> e.inst]
                        /\ \A f \in op[t].rows \ {e} : ~(f.name = e.name /\ f.inst = e.inst)
      BY <1>1, <2>1, <2>3 DEF NextRow, Seen
    <3>1. e.name \notin op[t].pre
      BY <1>4 DEF Occupied
    <3>2. \A id \in Ids : procs[id] # [name |-> e.name, inst |-> e.inst]
      BY <1>1, <3>1 DEF Sound, NewRows
    <3>3. \A f \in op[t].rows \ {e} : ~(f.name = e.name /\ f.inst = e.inst)
      BY <1>1 DEF Sound, OwnRows
    <3> QED
      BY <3>2, <3>3
  <2>6. Sound(op[t])'
    BY <2>1, <2>3, <2>4, <2>5 DEF Sound, Placed, Numbered
  <2> QED
    BY <1>1, <2>3, <2>6, AddsNothing
<1> QED
  BY <1>2, <1>3, <1>4 DEF NextEntry

\* Steps that are nobody's.
LEMMA SaveDistinct ==
  ASSUME DInv, Seen, Save
  PROVE  DInv'
<1>1. UNCHANGED <<procs, op>> /\ dump' = procs
  BY DEF Save
<1>2. Distinct(procs)' /\ Distinct(dump)'
  BY <1>1 DEF DInv, Seen, Distinct
<1>3. ASSUME NEW t \in Tasks
      PROVE  Sound(op[t])'
  <2>1. Sound(op[t]) /\ tangled \subseteq tangled'
    BY DEF DInv, Seen
  <2> QED
    BY <1>1, <2>1 DEF Sound, Placed, Numbered, OwnRows, NewRows, NextRow
<1> QED
  BY <1>2, <1>3 DEF DInv, Seen

LEMMA NewDaemonDistinct ==
  ASSUME DInv, Seen, NewDaemon
  PROVE  DInv'
<1>1. \A t \in Tasks : op'[t].pc = "failed"
  BY IdleIs DEF NewDaemon
<1>2. \A t \in Tasks : Sound(op[t])'
  BY <1>1, AtEase
<1>3. Distinct(procs)' /\ Distinct(dump)'
  BY DEF DInv, Seen, Distinct, NewDaemon, Empty
<1> QED
  BY <1>2, <1>3 DEF DInv, Seen

LEMMA InitDistinct == Init => DInv
<1> SUFFICES ASSUME Init
             PROVE  DInv
  OBVIOUS
<1>1. IInv
  BY InitInv
<1>2. \A t \in Tasks : op[t].pc = "idle"
  BY IdleIs DEF Init
<1>3. Tangle
  BY <1>2 DEF Tangle, Adds
<1>4. \A t \in Tasks : Sound(op[t])
  BY <1>2 DEF Sound, Placed, Numbered, OwnRows, NewRows, NextRow
<1>5. Distinct(procs) /\ Distinct(dump)
  BY DEF Init, Empty, Distinct
<1> QED
  BY <1>1, <1>3, <1>4, <1>5 DEF DInv

LEMMA StepDistinct == DInv /\ [Next /\ Observe]_vars => DInv'
<1>1. ASSUME DInv, UNCHANGED vars
      PROVE  DInv'
  <2>1. IInv'
    BY <1>1 DEF DInv, vars, IInv, TableType, DumpType, OpType, Histories, OpShape, Shaped, Present
  <2>2. UNCHANGED <<procs, dump, op, tangled>>
    BY <1>1 DEF vars
  <2> QED
    BY <1>1, <2>1, <2>2 DEF DInv, Tangle, Adds, Distinct, Sound, Placed, Numbered, OwnRows,
                             NewRows, NextRow
<1>2. ASSUME DInv, Next, Observe
      PROVE  DInv'
  <2>1. Seen
    BY <1>2, ObserveTangles DEF DInv
  <2>2. ASSUME NEW t \in Tasks, Step(t)
        PROVE  DInv'
    <3>1. ASSUME NEW name \in Names, NEW n \in Nums, Start(t, name, n) \/ Scale(t, name, n)
          PROVE  DInv'
      BY <1>2, <2>1, <3>1, StartDistinct, ScaleDistinct
    <3>2. ASSUME Remove(t) \/ \E ids : Delete(t, ids)
          PROVE  DInv'
      BY <1>2, <2>1, <3>2, RemovesDistinct
    <3>3. CASE \/ Delete(t, Live) \/ \E name \in Names : Delete(t, Of(name))
               \/ \E id \in Ids : Delete(t, {id})
      BY <3>2, <3>3
    <3>4. CASE \/ Insert(t) \/ InsertFixed(t) \/ Alloc(t)
               \/ \E okay \in BOOLEAN : Launched(t, okay)
      BY <1>2, <2>1, <3>4, InsertDistinct, InsertFixedDistinct, LaunchedDistinct, AllocDistinct
    <3>5. CASE Resurrect(t) \/ Preexisting(t) \/ NextEntry(t)
      BY <1>2, <2>1, <3>5, ResurrectDistinct, PreexistingDistinct, NextEntryDistinct
    <3> QED
      BY <2>2, <3>1, <3>2, <3>3, <3>4, <3>5 DEF Step
  <2> QED
    BY <1>2, <2>1, <2>2, SaveDistinct, NewDaemonDistinct DEF Next
<1> QED
  BY <1>1, <1>2

\* The rows of a name have different instance numbers, whatever operations ran one
\* after the other or beside each other, as long as no two of them were adding rows
\* of that name at once (ops.rs:58-121, 421-478).
THEOREM DistinctInstancesAlways == Spec => []DistinctInstances
<1>1. DInv => DistinctInstances
  BY DEF DInv, Distinct, DistinctInstances, Live, Present
<1> QED
  BY <1>1, InitDistinct, StepDistinct, PTL DEF Spec

-----------------------------------------------------------------------------
(* Undisturbed operations.                                                 *)

EntryOf(table, id) == [id |-> id, name |-> table[id].name, inst |-> table[id].inst]

\* How many rows a scale has left to add or to remove, and which.
Scaling(o) ==
  o.kind = "scale" =>
    LET rest == Of(o.name) \ {e.id : e \in o.rows}
    IN  /\ o.pc \in {"alloc", "fixed", "launch"} => o.rows = {}
        /\ o.pc \in {"alloc", "fixed"} => Cardinality(Of(o.name)) + o.left = o.want
        /\ o.pc = "launch" => Cardinality(Of(o.name)) + o.left = o.want + 1
        /\ o.pc = "deleting" => /\ Cardinality(rest) = o.want
                                /\ o.rows \subseteq EntriesOf(procs)
        /\ \A e \in o.rows, id \in rest : procs[id].inst <= e.inst

\* A resurrect into an empty table has still to restore what is not there yet.
Restoring(o) ==
  o.kind = "resurrect" =>
    /\ o.pc = "preexisting" => o.rows = EntriesOf(dump)
    /\ o.pc \in {"entry", "fixed", "launch"} /\ o.pre = {} =>
         /\ \A id \in Ids : procs[id] \in {NoRow, dump[id]}
         /\ \A e \in o.rows : procs[e.id] = NoRow
         /\ o.rows \subseteq EntriesOf(dump)
         /\ \A id \in Ids : procs[id] = NoRow /\ dump[id] # NoRow =>
              \/ EntryOf(dump, id) \in o.rows
              \/ o.pc = "fixed" /\ o.id = id
         /\ o.pc = "fixed" => /\ procs[o.id] = NoRow
                              /\ dump[o.id] = [name |-> o.name, inst |-> o.inst]
                              /\ \A e \in o.rows : e.id # o.id

\* What is undisturbed runs alone.
Alone == \A t \in calm : Busy(t) /\ \A u \in Tasks \ {t} : ~Busy(u)

OnCourse(o) == Scaling(o) /\ Restoring(o)

UInv == DInv /\ Alone /\ \A t \in calm : OnCourse(op[t])

LEMMA OfIsFinite ==
  ASSUME NEW name
  PROVE  IsFiniteSet(Of(name)) /\ Of(name) \subseteq Ids /\ Cardinality(Of(name)) \in Nat
<1>1. IsFiniteSet(Ids)
  BY IdFacts, FS_Interval DEF Ids
<1>2. Of(name) \in SUBSET Ids
  BY DEF Of, Live
<1> QED
  BY <1>1, <1>2, FS_Subset, InstancesCounted

\* What holds of the table and the operation that takes a step.
LEMMA StepFacts ==
  ASSUME DInv, NEW t \in Tasks
  PROVE  /\ procs \in [Ids -> Row \cup {NoRow}] /\ dump \in [Ids -> Row \cup {NoRow}]
         /\ op[t] \in Operation /\ Placed(op[t]) /\ Shaped(op[t])
  BY DEF DInv, IInv, TableType, DumpType, OpType, OpShape, Sound

\* Operations of other kinds count nothing.
LEMMA OtherKind ==
  ASSUME NEW t \in Tasks, op'[t].kind \notin {"scale", "resurrect"}
  PROVE  OnCourse(op[t])'
  BY DEF OnCourse, Scaling, Restoring

LEMMA RestOnCourse ==
  ASSUME DInv, NEW t \in Tasks, NEW pc, Return(t, pc)
  PROVE  OnCourse(op[t])'
  BY BecomeIs, IdleIs, OtherKind DEF Return, DInv

LEMMA OthersOnCourse ==
  ASSUME DInv, NEW t \in Tasks,
         \/ \E name \in Names, n \in Nums : Start(t, name, n)
         \/ Insert(t)
         \/ \E ids : Delete(t, ids)
  PROVE  OnCourse(op[t])'
<1>1. ASSUME NEW name \in Names, NEW n \in Nums, Start(t, name, n)
      PROVE  OnCourse(op[t])'
  <2> DEFINE o == [Idle("insert") EXCEPT !.name = name, !.want = n, !.left = n]
  <2>1. o.kind = "start"
    BY DEF Idle
  <2>2. Return(t, "failed") \/ Become(t, o)
    BY <1>1 DEF Start
  <2> HIDE DEF o
  <2> QED
    BY <2>1, <2>2, BecomeIs, RestOnCourse, OtherKind DEF DInv
<1>2. CASE Insert(t)
  <2> DEFINE o == [op[t] EXCEPT !.pc = "launch"]
  <2>1. o.kind = "start" /\ Become(t, o)
    BY <1>2, StepFacts DEF Insert, At, Placed, Operation
  <2> HIDE DEF o
  <2> QED
    BY <2>1, BecomeIs, OtherKind DEF DInv
<1>3. ASSUME NEW ids, Delete(t, ids)
      PROVE  OnCourse(op[t])'
  <2> DEFINE o == [Idle("deleting") EXCEPT !.kind = "delete",
                                           !.rows = {e \in EntriesOf(procs) : e.id \in ids}]
  <2>1. o.kind = "delete" /\ Become(t, o)
    BY <1>3 DEF Delete, Idle
  <2> HIDE DEF o
  <2> QED
    BY <2>1, BecomeIs, OtherKind DEF DInv
<1> QED
  BY <1>1, <1>2, <1>3

LEMMA ScaleOnCourse ==
  ASSUME DInv, NEW t \in Tasks, NEW name \in Names, NEW want \in Nums, Scale(t, name, want)
  PROVE  OnCourse(op[t])'
<1> DEFINE have == Cardinality(Of(name))
           base == [Idle("idle") EXCEPT !.kind = "scale", !.name = name, !.want = want]
<1>1. UNCHANGED procs /\ have \in Nat /\ want \in Nat
  <2>1. UNCHANGED procs
    BY DEF Scale
  <2>2. have \in Nat
    BY OfIsFinite
  <2>3. want \in Nat
    BY IdFacts DEF Nums
  <2> QED
    BY <2>1, <2>2, <2>3
<1>2. CASE Return(t, "failed") \/ Return(t, "idle")
  BY <1>2, RestOnCourse
<1>3. CASE /\ 0 < have
           /\ Become(t, [base EXCEPT !.pc = "alloc", !.left = want - have, !.inst = NextInstance(name)])
  <2>1. PICK inst : inst = NextInstance(name)
    OBVIOUS
  <2>2. PICK o : o = [base EXCEPT !.pc = "alloc", !.left = want - have, !.inst = inst]
    OBVIOUS
  <2>3. o.pc = "alloc" /\ o.name = name /\ o.left = want - have /\ o.want = want /\ o.rows = {}
        /\ o.kind = "scale"
    BY <2>2 DEF Idle
  <2>4. op'[t] = o
    BY <1>3, <2>1, <2>2, BecomeIs DEF DInv
  <2>5. Of(name)' = Of(name)
    BY <1>1 DEF Of, Live, Present
  <2> QED
    BY <1>1, <2>3, <2>4, <2>5 DEF OnCourse, Scaling, Restoring
<1>4. ASSUME NEW victims \in SUBSET Ids, Victims(name, want, victims),
             Become(t, [base EXCEPT !.pc = "deleting",
                                    !.rows = {e \in EntriesOf(procs) : e.id \in victims}])
      PROVE  OnCourse(op[t])'
  <2> DEFINE rows == {e \in EntriesOf(procs) : e.id \in victims}
  <2>1. {e.id : e \in rows} = victims
    <3>1. \A id \in victims : EntryOf(procs, id) \in rows /\ EntryOf(procs, id).id = id
      BY <1>4 DEF Victims, Of, Live, Present, EntriesOf, EntryOf
    <3> QED
      BY <3>1
  <2>2. \A e \in rows : e.id \in victims /\ e.inst = procs[e.id].inst
    BY DEF EntriesOf
  <2>3. rows \subseteq EntriesOf(procs)
    OBVIOUS
  <2> HIDE DEF rows
  <2>4. PICK o : o = [base EXCEPT !.pc = "deleting", !.rows = rows] /\ Become(t, o)
    BY <1>4 DEF rows
  <2>5. o.pc = "deleting" /\ o.name = name /\ o.want = want /\ o.rows = rows /\ o.kind = "scale"
    BY <2>4 DEF Idle
  <2>6. op'[t] = o
    BY <2>4, BecomeIs DEF DInv
  <2>7. Of(name)' = Of(name) /\ EntriesOf(procs)' = EntriesOf(procs)
    BY <1>1 DEF Of, Live, Present, EntriesOf
  <2>8. \A e \in rows, id \in Of(name) \ victims : procs'[id].inst <= e.inst
    BY <1>1, <1>4, <2>2 DEF Victims
  <2>9. Cardinality(Of(name) \ victims) = want
    BY <1>4 DEF Victims
  <2> QED
    BY <2>1, <2>3, <2>5, <2>6, <2>7, <2>8, <2>9 DEF OnCourse, Scaling, Restoring
<1> QED
  BY <1>2, <1>3, <1>4 DEF Scale

\* A row more of a name.
LEMMA OneMore ==
  ASSUME DInv, NEW id \in Ids, ~Present(id), NEW name \in Names, NEW inst \in 0..MaxNum,
         procs' = [procs EXCEPT ![id] = [name |-> name, inst |-> inst]]
  PROVE  /\ procs'[id] = [name |-> name, inst |-> inst] /\ procs'[id] # NoRow
         /\ \A i \in Ids \ {id} : procs'[i] = procs[i]
         /\ Cardinality(Of(name)') = Cardinality(Of(name)) + 1
<1>1. [name |-> name, inst |-> inst] # NoRow
  BY NoRowAssumption DEF Row
<1>2. procs'[id] = [name |-> name, inst |-> inst] /\ \A i \in Ids \ {id} : procs'[i] = procs[i]
  BY DEF DInv, IInv, TableType
<1>3. Of(name)' = Of(name) \cup {id} /\ id \notin Of(name)
  BY <1>1, <1>2 DEF Of, Live, Present
<1>4. Cardinality(Of(name) \cup {id}) = Cardinality(Of(name)) + 1
  BY <1>3, OfIsFinite, FS_AddElement
<1> QED
  BY <1>1, <1>2, <1>3, <1>4

LEMMA InsertFixedOnCourse ==
  ASSUME DInv, NEW t \in Tasks, OnCourse(op[t]), InsertFixed(t), UNCHANGED dump
  PROVE  OnCourse(op[t])'
<1>1. PICK id \in Ids, name \in Names, inst \in 0..MaxNum :
        /\ id = op[t].id /\ name = op[t].name /\ inst = op[t].inst
  BY StepFacts DEF Operation, Shaped, InsertFixed, At
<1>2. op[t].pc = "fixed" /\ op[t].kind \in {"scale", "resurrect"} /\ op[t] \in Operation
  BY StepFacts DEF InsertFixed, At, Placed
<1>3. CASE Present(op[t].id) /\ op[t].kind = "scale"
  BY <1>3, RestOnCourse DEF InsertFixed
<1>4. CASE Present(op[t].id) /\ op[t].kind = "resurrect"
  <2> DEFINE o == [op[t] EXCEPT !.pc = "entry"]
  <2>1. o.pc = "entry" /\ o.kind = "resurrect" /\ o.pre = op[t].pre
    BY <1>2, <1>4 DEF Operation
  <2>2. Become(t, o)
    BY <1>4 DEF InsertFixed
  <2> HIDE DEF o
  <2>3. op'[t] = o
    BY <2>2, BecomeIs DEF DInv
  <2>4. op[t].pre # {}
    BY <1>2, <1>4 DEF OnCourse, Restoring, Present
  <2> QED
    BY <2>1, <2>3, <2>4 DEF OnCourse, Scaling, Restoring
<1>5. CASE ~Present(op[t].id)
  <2> DEFINE o == [op[t] EXCEPT !.pc = "launch"]
  <2>1. /\ o.pc = "launch" /\ o.kind = op[t].kind /\ o.name = name /\ o.pre = op[t].pre
        /\ o.rows = op[t].rows /\ o.left = op[t].left /\ o.want = op[t].want
        /\ o.left \in Nat /\ o.want \in Nat
    BY <1>1, <1>2, IdFacts DEF Operation
  <2>2. Become(t, o) /\ procs' = [procs EXCEPT ![id] = [name |-> name, inst |-> inst]]
    BY <1>1, <1>5 DEF InsertFixed
  <2> HIDE DEF o
  <2>3. op'[t] = o
    BY <2>2, BecomeIs DEF DInv
  <2>4. /\ procs'[id] = [name |-> name, inst |-> inst] /\ procs'[id] # NoRow
        /\ \A i \in Ids \ {id} : procs'[i] = procs[i]
        /\ Cardinality(Of(name)') = Cardinality(Of(name)) + 1
    <3>1. ~Present(id)
      BY <1>1, <1>5
    <3> QED
      BY <2>2, <3>1, OneMore
  <2>5. CASE op[t].kind = "scale"
    <3>1. op[t].rows = {} /\ Cardinality(Of(name)) + op[t].left = op[t].want
      BY <1>1, <1>2, <2>5 DEF OnCourse, Scaling
    <3>2. Cardinality(Of(name)') + op[t].left = op[t].want + 1
      BY <2>1, <2>4, <3>1, OfIsFinite
    <3> QED
      BY <2>1, <2>3, <2>5, <3>1, <3>2 DEF OnCourse, Scaling, Restoring
  <2>6. CASE op[t].kind = "resurrect" /\ op[t].pre = {}
    <3>1. /\ \A i \in Ids : procs[i] \in {NoRow, dump[i]}
          /\ \A e \in op[t].rows : procs[e.id] = NoRow /\ e.id # id
          /\ op[t].rows \subseteq EntriesOf(dump)
          /\ \A i \in Ids : procs[i] = NoRow /\ dump[i] # NoRow => EntryOf(dump, i) \in op[t].rows \/ i = id
          /\ dump[id] = [name |-> name, inst |-> inst]
      BY <1>1, <1>2, <2>6 DEF OnCourse, Restoring
    <3>2. /\ \A i \in Ids : procs'[i] \in {NoRow, dump[i]}
          /\ \A i \in Ids : procs'[i] = NoRow /\ dump[i] # NoRow => EntryOf(dump, i) \in op[t].rows
      BY <2>4, <3>1
    <3>3. \A e \in op[t].rows : procs'[e.id] = NoRow
      <4>1. \A e \in op[t].rows : e.id \in Ids
        BY <1>2 DEF Operation, Entry
      <4> QED
        BY <2>4, <3>1, <4>1
    <3>4. EntriesOf(dump)' = EntriesOf(dump) /\ \A i \in Ids : EntryOf(dump, i)' = EntryOf(dump, i)
      BY DEF EntriesOf, EntryOf
    <3> QED
      BY <2>1, <2>3, <2>6, <3>1, <3>2, <3>3, <3>4 DEF OnCourse, Scaling, Restoring
  <2>7. CASE op[t].kind = "resurrect" /\ op[t].pre # {}
    BY <2>1, <2>3, <2>7 DEF OnCourse, Scaling, Restoring
  <2> QED
    BY <1>2, <2>5, <2>6, <2>7
<1> QED
  BY <1>2, <1>3, <1>4, <1>5

LEMMA LaunchedOnCourse ==
  ASSUME DInv, NEW t \in Tasks, OnCourse(op[t]), NEW okay, Launched(t, okay), UNCHANGED dump
  PROVE  OnCourse(op[t])'
<1>1. /\ op[t].pc = "launch" /\ op[t] \in Operation /\ UNCHANGED <<procs, dump>>
      /\ op[t].kind \in {"start", "scale", "resurrect"}
  BY StepFacts DEF Launched, At, Placed
<1>2. /\ Of(op[t].name)' = Of(op'[t].name) /\ EntriesOf(dump)' = EntriesOf(dump)
      /\ \A i \in Ids : EntryOf(dump, i)' = EntryOf(dump, i)
  BY <1>1 DEF Of, Live, Present, EntriesOf, EntryOf
<1>3. CASE Return(t, "failed") \/ Return(t, "idle")
  BY <1>3, RestOnCourse
<1>4. CASE op[t].kind = "resurrect"
  <2> DEFINE o == [op[t] EXCEPT !.pc = "entry"]
  <2>1. o.pc = "entry" /\ o.kind = "resurrect" /\ o.pre = op[t].pre /\ o.rows = op[t].rows
    BY <1>1, <1>4 DEF Operation
  <2>2. Become(t, o)
    BY <1>4 DEF Launched
  <2> HIDE DEF o
  <2>3. op'[t] = o
    BY <2>2, BecomeIs DEF DInv
  <2> QED
    BY <1>1, <1>2, <1>4, <2>1, <2>3 DEF OnCourse, Scaling, Restoring
<1>5. CASE /\ op[t].kind # "resurrect"
           /\ Become(t, [op[t] EXCEPT !.pc = IF op[t].kind = "scale" THEN "alloc" ELSE "insert",
                                      !.left = @ - 1, !.inst = @ + 1])
  <2> DEFINE pc == IF op[t].kind = "scale" THEN "alloc" ELSE "insert"
             o == [op[t] EXCEPT !.pc = pc, !.left = @ - 1, !.inst = @ + 1]
  <2>1. /\ o.pc = pc /\ o.kind = op[t].kind /\ o.name = op[t].name /\ o.rows = op[t].rows
        /\ o.left = op[t].left - 1 /\ o.want = op[t].want
    BY <1>1 DEF Operation
  <2>2. Become(t, o)
    BY <1>5
  <2> HIDE DEF o
  <2>3. op'[t] = o
    BY <2>2, BecomeIs DEF DInv
  <2>4. CASE op[t].kind = "start"
    BY <2>1, <2>3, <2>4, OtherKind
  <2>5. CASE op[t].kind = "scale"
    <3>1. op[t].rows = {} /\ Cardinality(Of(op[t].name)) + op[t].left = op[t].want + 1
      BY <1>1, <2>5 DEF OnCourse, Scaling
    <3>2. op[t].left \in Nat /\ op[t].want \in Nat /\ Cardinality(Of(op[t].name)) \in Nat
      BY <1>1, IdFacts, OfIsFinite DEF Operation
    <3>3. Cardinality(Of(op[t].name)) + (op[t].left - 1) = op[t].want
      BY <3>1, <3>2
    <3>4. Of(op[t].name)' = Of(op[t].name)
      BY <1>2, <2>1, <2>3
    <3> QED
      BY <2>1, <2>3, <2>5, <3>1, <3>3, <3>4 DEF OnCourse, Scaling, Restoring
  <2> QED
    BY <1>1, <1>5, <2>4, <2>5
<1> QED
  BY <1>3, <1>4, <1>5 DEF Launched

LEMMA AllocOnCourse ==
  ASSUME DInv, NEW t \in Tasks, OnCourse(op[t]), Alloc(t)
  PROVE  OnCourse(op[t])'
<1> DEFINE o == [op[t] EXCEPT !.pc = "fixed", !.id = AllocId]
<1>1. op[t].pc = "alloc" /\ op[t].kind = "scale" /\ op[t] \in Operation /\ UNCHANGED procs
  BY StepFacts DEF Alloc, At, Placed
<1>2. /\ o.pc = "fixed" /\ o.kind = "scale" /\ o.name = op[t].name /\ o.rows = op[t].rows
      /\ o.left = op[t].left /\ o.want = op[t].want
  BY <1>1 DEF Operation
<1>3. Become(t, o)
  BY DEF Alloc
<1> HIDE DEF o
<1>4. op'[t] = o
  BY <1>3, BecomeIs DEF DInv
<1>5. Of(op[t].name)' = Of(op[t].name)
  BY <1>1, <1>2, <1>4 DEF Of, Live, Present
<1> QED
  BY <1>1, <1>2, <1>4, <1>5 DEF OnCourse, Scaling, Restoring

\* The rows that a scale does not delete stay when it deletes one.
LEMMA RestStays ==
  ASSUME DInv, NEW name, NEW rows \in SUBSET Entry, NEW e \in rows,
         procs' = [procs EXCEPT ![e.id] = NoRow]
  PROVE  /\ Of(name)' \ {f.id : f \in rows \ {e}} = Of(name) \ {f.id : f \in rows}
         /\ \A id \in Of(name) \ {f.id : f \in rows} : procs'[id] = procs[id]
<1>1. e.id \in Ids
  BY DEF Entry
<1>2. \A i \in Ids : procs'[i] = IF i = e.id THEN NoRow ELSE procs[i]
  BY DEF DInv, IInv, TableType
<1>3. Of(name)' = Of(name) \ {e.id}
  BY <1>2 DEF Of, Live, Present
<1>4. Of(name) \subseteq Ids
  BY OfIsFinite
<1> QED
  BY <1>1, <1>2, <1>3, <1>4

LEMMA RemoveOnCourse ==
  ASSUME DInv, NEW t \in Tasks, OnCourse(op[t]), Remove(t)
  PROVE  OnCourse(op[t])'
<1>1. op[t].pc = "deleting" /\ op[t] \in Operation
  BY StepFacts DEF Remove, At
<1>2. PICK e \in op[t].rows :
        /\ procs' = [procs EXCEPT ![e.id] = NoRow]
        /\ Return(t, "idle") \/ Become(t, [op[t] EXCEPT !.rows = @ \ {e}])
  BY DEF Remove
<1>3. CASE Return(t, "idle")
  BY <1>3, RestOnCourse
<1>4. CASE Become(t, [op[t] EXCEPT !.rows = @ \ {e}])
  <2> DEFINE o == [op[t] EXCEPT !.rows = @ \ {e}]
  <2>1. /\ o.pc = "deleting" /\ o.kind = op[t].kind /\ o.name = op[t].name
        /\ o.rows = op[t].rows \ {e} /\ o.want = op[t].want
    BY <1>1 DEF Operation
  <2>2. Become(t, o)
    BY <1>4
  <2> HIDE DEF o
  <2>3. op'[t] = o
    BY <2>2, BecomeIs DEF DInv
  <2>4. CASE op[t].kind # "scale"
    BY <2>1, <2>3, <2>4 DEF OnCourse, Scaling, Restoring
  <2>5. CASE op[t].kind = "scale"
    <3>0. PICK name, rows : name = op[t].name /\ rows = op[t].rows
      OBVIOUS
    <3> DEFINE rest == Of(name) \ {f.id : f \in rows}
    <3>1. /\ Cardinality(rest) = op[t].want /\ rows \subseteq EntriesOf(procs)
          /\ \A f \in rows, id \in rest : procs[id].inst <= f.inst
      BY <1>1, <2>5, <3>0 DEF OnCourse, Scaling
    <3>2. /\ Of(name)' \ {f.id : f \in rows \ {e}} = rest
          /\ \A id \in rest : procs'[id] = procs[id]
      BY <1>1, <1>2, <3>0, RestStays DEF Operation
    <3>3. rows \ {e} \subseteq EntriesOf(procs)'
      <4> SUFFICES ASSUME NEW f \in rows, f # e
                   PROVE  f \in EntriesOf(procs)'
        OBVIOUS
      <4>1. PICK i \in Ids : procs[i] # NoRow /\ f = EntryOf(procs, i)
        BY <3>1 DEF EntriesOf, EntryOf
      <4>2. PICK j \in Ids : procs[j] # NoRow /\ e = EntryOf(procs, j)
        BY <3>0, <3>1 DEF EntriesOf, EntryOf
      <4>3. i # j /\ e.id = j
        BY <4>1, <4>2 DEF EntryOf
      <4>4. procs'[i] = procs[i]
        BY <1>2, <4>3, StepFacts
      <4> QED
        BY <4>1, <4>4 DEF EntriesOf, EntryOf
    <3>4. /\ Cardinality(Of(name)' \ {f.id : f \in rows \ {e}}) = op[t].want
          /\ \A f \in rows \ {e}, id \in Of(name)' \ {g.id : g \in rows \ {e}} :
               procs'[id].inst <= f.inst
      BY <3>1, <3>2
    <3> HIDE DEF rest
    <3> QED
      BY <2>1, <2>3, <2>5, <3>0, <3>3, <3>4 DEF OnCourse, Scaling, Restoring
  <2> QED
    BY <2>4, <2>5
<1> QED
  BY <1>2, <1>3, <1>4

LEMMA ResurrectOnCourse ==
  ASSUME DInv, NEW t \in Tasks, Resurrect(t)
  PROVE  OnCourse(op[t])'
<1> DEFINE o == [Idle("preexisting") EXCEPT !.kind = "resurrect", !.rows = EntriesOf(dump)]
<1>1. o.pc = "preexisting" /\ o.kind = "resurrect" /\ o.rows = EntriesOf(dump)
  BY DEF Idle
<1>2. Become(t, o) /\ UNCHANGED dump
  BY DEF Resurrect
<1> HIDE DEF o
<1>3. op'[t] = o
  BY <1>2, BecomeIs DEF DInv
<1>4. EntriesOf(dump)' = EntriesOf(dump)
  BY <1>2 DEF EntriesOf
<1> QED
  BY <1>1, <1>3, <1>4 DEF OnCourse, Scaling, Restoring

LEMMA PreexistingOnCourse ==
  ASSUME DInv, NEW t \in Tasks, OnCourse(op[t]), Preexisting(t)
  PROVE  OnCourse(op[t])'
<1> DEFINE pre == {procs[id].name : id \in Live}
           o == [op[t] EXCEPT !.pc = "entry", !.pre = pre]
<1>1. /\ op[t].pc = "preexisting" /\ op[t].kind = "resurrect" /\ op[t] \in Operation
      /\ UNCHANGED <<procs, dump>>
  BY StepFacts DEF Preexisting, At, Shaped
<1>2. o.pc = "entry" /\ o.kind = "resurrect" /\ o.rows = op[t].rows /\ o.pre = pre
  BY <1>1 DEF Operation
<1>3. Become(t, o)
  BY DEF Preexisting
<1> HIDE DEF o
<1>4. op'[t] = o
  BY <1>3, BecomeIs DEF DInv
<1>5. op[t].rows = EntriesOf(dump) /\ EntriesOf(dump)' = EntriesOf(dump)
  BY <1>1 DEF OnCourse, Restoring, EntriesOf
<1>6. \A i \in Ids : EntryOf(dump, i)' = EntryOf(dump, i)
  BY <1>1 DEF EntryOf
<1>7. pre = {} => \A id \in Ids : procs[id] = NoRow
  BY DEF Live, Present
<1>8. /\ \A e \in EntriesOf(dump) : e.id \in Ids
      /\ \A id \in Ids : dump[id] # NoRow => EntryOf(dump, id) \in EntriesOf(dump)
  BY DEF EntriesOf, EntryOf
<1> QED
  BY <1>1, <1>2, <1>4, <1>5, <1>6, <1>7, <1>8 DEF OnCourse, Scaling, Restoring

LEMMA NextEntryOnCourse ==
  ASSUME DInv, NEW t \in Tasks, OnCourse(op[t]), NextEntry(t)
  PROVE  OnCourse(op[t])'
<1>1. /\ op[t].pc = "entry" /\ op[t].kind = "resurrect" /\ op[t] \in Operation
      /\ UNCHANGED <<procs, dump>>
  BY StepFacts DEF NextEntry, At, Shaped
<1>2. CASE Return(t, "idle")
  BY <1>2, RestOnCourse
<1>3. ASSUME NEW e \in op[t].rows, Occupied(t, e), Become(t, [op[t] EXCEPT !.rows = @ \ {e}])
      PROVE  OnCourse(op[t])'
  <2> DEFINE o == [op[t] EXCEPT !.rows = @ \ {e}]
  <2>1. o.pc = "entry" /\ o.kind = "resurrect" /\ o.pre = op[t].pre
    BY <1>1 DEF Operation
  <2>2. Become(t, o)
    BY <1>3
  <2> HIDE DEF o
  <2>3. op'[t] = o
    BY <2>2, BecomeIs DEF DInv
  <2>4. op[t].pre # {}
    BY <1>1, <1>3 DEF OnCourse, Restoring, Occupied, Present
  <2> QED
    BY <2>1, <2>3, <2>4 DEF OnCourse, Scaling, Restoring
<1>4. ASSUME NEW e \in op[t].rows,
             Become(t, [op[t] EXCEPT !.rows = @ \ {e}, !.pc = "fixed", !.id = e.id,
                                     !.name = e.name, !.inst = e.inst])
      PROVE  OnCourse(op[t])'
  <2> DEFINE o == [op[t] EXCEPT !.rows = @ \ {e}, !.pc = "fixed", !.id = e.id,
                                !.name = e.name, !.inst = e.inst]
  <2>1. /\ o.pc = "fixed" /\ o.kind = "resurrect" /\ o.rows = op[t].rows \ {e} /\ o.pre = op[t].pre
        /\ o.id = e.id /\ o.name = e.name /\ o.inst = e.inst
    BY <1>1 DEF Operation
  <2>2. Become(t, o)
    BY <1>4
  <2> HIDE DEF o
  <2>3. op'[t] = o
    BY <2>2, BecomeIs DEF DInv
  <2>4. CASE op[t].pre # {}
    BY <2>1, <2>3, <2>4 DEF OnCourse, Scaling, Restoring
  <2>5. CASE op[t].pre = {}
    <3>1. /\ \A i \in Ids : procs[i] \in {NoRow, dump[i]}
          /\ \A f \in op[t].rows : procs[f.id] = NoRow
          /\ op[t].rows \subseteq EntriesOf(dump)
          /\ \A i \in Ids : procs[i] = NoRow /\ dump[i] # NoRow => EntryOf(dump, i) \in op[t].rows
      BY <1>1, <2>5 DEF OnCourse, Restoring
    <3>2. PICK i \in Ids : e = EntryOf(dump, i) /\ dump[i] # NoRow
      BY <3>1 DEF EntriesOf, EntryOf
    <3>3. e.id = i /\ dump[i] = [name |-> e.name, inst |-> e.inst]
      BY <3>2, StepFacts DEF EntryOf, Row
    <3>4. \A f \in op[t].rows \ {e} : f.id # e.id
      BY <3>1 DEF EntriesOf
    <3>5. \A j \in Ids : procs[j] = NoRow /\ dump[j] # NoRow =>
                           EntryOf(dump, j) \in op[t].rows \ {e} \/ j = e.id
      BY <3>1, <3>2, <3>3 DEF EntryOf
    <3>6. EntriesOf(dump)' = EntriesOf(dump) /\ \A j \in Ids : EntryOf(dump, j)' = EntryOf(dump, j)
      BY <1>1 DEF EntriesOf, EntryOf
    <3> QED
      BY <1>1, <2>1, <2>3, <3>1, <3>3, <3>4, <3>5, <3>6 DEF OnCourse, Scaling, Restoring
  <2> QED
    BY <2>4, <2>5
<1> QED
  BY <1>2, <1>3, <1>4 DEF NextEntry

\* A step moves no other operation.
LEMMA StepIsItsOwn ==
  ASSUME DInv, NEW u \in Tasks, Step(u)
  PROVE  \A t \in Tasks \ {u} : op'[t] = op[t]
<1>1. \E o : Become(u, o)
  <2>1. CASE \E name \in Names, n \in Nums : Start(u, name, n) \/ Scale(u, name, n)
    BY <2>1 DEF Start, Scale, Return
  <2>2. CASE \E ids : Delete(u, ids)
    BY <2>2 DEF Delete
  <2>3. CASE Insert(u) \/ InsertFixed(u) \/ (\E okay \in BOOLEAN : Launched(u, okay)) \/ Alloc(u)
    BY <2>3 DEF Insert, InsertFixed, Launched, Alloc, Return
  <2>4. CASE Remove(u) \/ Resurrect(u) \/ Preexisting(u) \/ NextEntry(u)
    BY <2>4 DEF Remove, Resurrect, Preexisting, NextEntry, Return
  <2> QED
    BY <2>1, <2>2, <2>3, <2>4 DEF Step
<1> QED
  BY <1>1, BecomeIs DEF DInv

\* A scale that has rows to add returns when it has added the last.
LEMMA LaunchedReturns ==
  ASSUME DInv, NEW t \in Tasks, op[t].kind = "scale", NEW okay, Launched(t, okay)
  PROVE  op[t].pc = "launch" /\ UNCHANGED procs /\ (op[t].left = 1 \/ op'[t].pc # "idle")
<1>1. op[t].pc = "launch" /\ UNCHANGED procs
  BY DEF Launched, At
<1>2. CASE op[t].left = 1
  BY <1>1, <1>2
<1>3. CASE Return(t, "failed")
  BY <1>1, <1>3, BecomeIs, IdleIs DEF Return, DInv
<1>4. CASE Become(t, [op[t] EXCEPT !.pc = IF op[t].kind = "scale" THEN "alloc" ELSE "insert",
                                   !.left = @ - 1, !.inst = @ + 1])
  <2> DEFINE o == [op[t] EXCEPT !.pc = IF op[t].kind = "scale" THEN "alloc" ELSE "insert",
                                !.left = @ - 1, !.inst = @ + 1]
  <2>1. o.pc = "alloc"
    BY StepFacts DEF Operation
  <2>2. Become(t, o)
    BY <1>4
  <2> HIDE DEF o
  <2> QED
    BY <1>1, <2>1, <2>2, BecomeIs DEF DInv
<1> QED
  BY <1>1, <1>2, <1>3, <1>4 DEF Launched

\* A scale returns Ok from the launch of its last row or the removal of it.
LEMMA ScaleReturns ==
  ASSUME DInv, NEW t \in Tasks, Busy(t), op[t].kind = "scale", Step(t), op'[t].pc = "idle"
  PROVE  Remove(t) \/ \E okay \in BOOLEAN : Launched(t, okay)
<1>1. op[t] \in Operation /\ Placed(op[t]) /\ Shaped(op[t])
  BY StepFacts
<1>2. ~Insert(t) /\ ~Preexisting(t) /\ ~NextEntry(t)
  BY <1>1 DEF Placed, Shaped, Insert, Preexisting, NextEntry, At
<1>3. ~Alloc(t)
  <2> DEFINE o == [op[t] EXCEPT !.pc = "fixed", !.id = AllocId]
  <2>1. o.pc = "fixed"
    BY <1>1 DEF Operation
  <2>2. Alloc(t) => Become(t, o)
    BY DEF Alloc
  <2> HIDE DEF o
  <2> QED
    BY <2>1, <2>2, BecomeIs DEF DInv
<1>4. ~InsertFixed(t)
  <2> DEFINE o == [op[t] EXCEPT !.pc = "launch"]
  <2>1. o.pc = "launch"
    BY <1>1 DEF Operation
  <2>2. InsertFixed(t) => Return(t, "failed") \/ Become(t, o)
    BY DEF InsertFixed
  <2> HIDE DEF o
  <2> QED
    BY <2>1, <2>2, BecomeIs, IdleIs DEF DInv, Return
<1> QED
  BY <1>2, <1>3, <1>4 DEF Step, Start, Scale, Delete, Resurrect, Begin

\* An undisturbed operation is the only one that moves.
LEMMA CalmMoves ==
  ASSUME UInv, Next, Observe, NEW t \in Tasks, t \in calm'
  PROVE  /\ UNCHANGED dump /\ (t \in calm \/ ~Busy(t))
         /\ \A u \in Tasks \ {t} : ~Busy(u)'
         /\ Step(t) \/ (t \in calm /\ UNCHANGED procs /\ op'[t] = op[t])
<1>1. UNCHANGED dump /\ Busy(t)' /\ (t \in calm \/ ~Busy(t)) /\ \A u \in Tasks \ {t} : ~Busy(u)'
  BY DEF Observe
<1>2. ASSUME NEW u \in Tasks, u # t, Step(u)
      PROVE  t \in calm /\ UNCHANGED procs /\ op'[t] = op[t]
  <2>1. op'[t] = op[t]
    BY <1>2, StepIsItsOwn DEF UInv
  <2>2. t \in calm /\ ~Busy(u)
    BY <1>1, <1>2, <2>1 DEF UInv, Alone, Busy
  <2>3. UNCHANGED procs
    BY <1>2, <2>2 DEF Step, Start, Scale, Delete, Insert, InsertFixed, Launched, Alloc, Remove,
                      Resurrect, Preexisting, NextEntry, At, Busy, Resting
  <2> QED
    BY <2>1, <2>2, <2>3
<1>3. CASE Save
  <2>1. UNCHANGED <<procs, op>>
    BY <1>3 DEF Save
  <2> QED
    BY <1>1, <2>1 DEF Busy
<1>4. ~NewDaemon
  BY <1>1, IdleIs DEF NewDaemon, Busy, Resting
<1> QED
  BY <1>1, <1>2, <1>3, <1>4 DEF Next

\* A step of an undisturbed operation keeps it on course.
LEMMA StepOnCourse ==
  ASSUME DInv, NEW t \in Tasks, Step(t), UNCHANGED dump, Busy(t) => OnCourse(op[t])
  PROVE  OnCourse(op[t])'
<1>1. CASE Busy(t)
  BY <1>1, OthersOnCourse, ScaleOnCourse, InsertFixedOnCourse, LaunchedOnCourse, AllocOnCourse,
     RemoveOnCourse, ResurrectOnCourse, PreexistingOnCourse, NextEntryOnCourse DEF Step
<1>2. CASE ~Busy(t)
  <2>1. op[t].pc \in {"idle", "failed"}
    BY <1>2 DEF Busy, Resting
  <2>2. ~(\/ Insert(t) \/ InsertFixed(t) \/ (\E okay \in BOOLEAN : Launched(t, okay)) \/ Alloc(t)
          \/ Remove(t) \/ Preexisting(t) \/ NextEntry(t))
    BY <2>1 DEF Insert, InsertFixed, Launched, Alloc, Remove, Preexisting, NextEntry, At
  <2> QED
    BY <2>2, OthersOnCourse, ScaleOnCourse, ResurrectOnCourse DEF Step
<1> QED
  BY <1>1, <1>2

LEMMA UndisturbedKeeps == UInv /\ [Next /\ Observe]_vars => UInv'
<1> SUFFICES ASSUME UInv, [Next /\ Observe]_vars
             PROVE  UInv'
  OBVIOUS
<1>1. DInv'
  BY StepDistinct DEF UInv
<1>2. CASE UNCHANGED vars
  <2>1. UNCHANGED <<procs, dump, op, calm>>
    BY <1>2 DEF vars
  <2>2. ASSUME NEW t \in calm
        PROVE  OnCourse(op[t])'
    <3>1. OnCourse(op[t]) /\ op'[t] = op[t]
      BY <2>1 DEF UInv
    <3> QED
      BY <2>1, <3>1 DEF OnCourse, Scaling, Restoring, Of, Live, Present, EntriesOf, EntryOf
  <2>3. Alone'
    BY <2>1 DEF UInv, Alone, Busy
  <2> QED
    BY <1>1, <2>1, <2>2, <2>3 DEF UInv
<1>3. CASE Next /\ Observe
  <2>1. calm' \subseteq Tasks /\ Alone'
    BY <1>3 DEF Observe, Alone
  <2>2. ASSUME NEW t \in Tasks, t \in calm'
        PROVE  OnCourse(op[t])'
    <3>1. /\ UNCHANGED dump /\ (t \in calm \/ ~Busy(t))
          /\ Step(t) \/ (t \in calm /\ UNCHANGED procs /\ op'[t] = op[t])
      BY <1>3, <2>2, CalmMoves
    <3>2. CASE Step(t)
      BY <3>1, <3>2, StepOnCourse DEF UInv
    <3>3. CASE t \in calm /\ UNCHANGED procs /\ op'[t] = op[t]
      <4>1. OnCourse(op[t])
        BY <3>3 DEF UInv
      <4> QED
        BY <3>1, <3>3, <4>1 DEF OnCourse, Scaling, Restoring, Of, Live, Present, EntriesOf, EntryOf
    <3> QED
      BY <3>1, <3>2, <3>3
  <2> QED
    BY <1>1, <2>1, <2>2 DEF UInv
<1> QED
  BY <1>2, <1>3

LEMMA UndisturbedInit == Init => UInv
  BY InitDistinct DEF Init, UInv, Alone

\* An undisturbed operation that returns takes that step itself.
LEMMA OwnReturn ==
  ASSUME UInv, [Next /\ Observe]_vars, NEW t \in calm, op'[t].pc = "idle"
  PROVE  t \in Tasks /\ Step(t) /\ Busy(t) /\ OnCourse(op[t])
<1>1. t \in Tasks /\ Busy(t) /\ OnCourse(op[t]) /\ op[t].pc # "idle"
  BY DEF UInv, Alone, DInv, IInv, Histories, Busy, Resting
<1>2. ~UNCHANGED vars /\ ~Save
  BY <1>1 DEF vars, Save
<1>3. ~NewDaemon
  BY <1>1, IdleIs DEF NewDaemon
<1>4. ASSUME NEW u \in Tasks, Step(u), u # t
      PROVE  FALSE
  BY <1>1, <1>4, StepIsItsOwn DEF UInv
<1> QED
  BY <1>1, <1>2, <1>3, <1>4 DEF Next

\* An undisturbed scale deletes only the highest instances, and leaves as many as it
\* was asked for if it succeeds (ops.rs:421-478).
THEOREM ScaleExactAlways == Spec => ScaleExact
<1>1. UInv /\ [Next /\ Observe]_vars =>
        [\A t \in calm, name \in Names :
           op[t].kind = "scale" /\ op[t].name = name =>
             /\ op'[t].pc = "idle" => Cardinality(Of(name)') = op[t].want
             /\ \A e \in op[t].rows, id \in Of(name) \ {f.id : f \in op[t].rows} :
                  procs[id].inst <= e.inst]_vars
  <2> SUFFICES ASSUME UInv, [Next /\ Observe]_vars, NEW t \in calm, NEW name \in Names,
                      op[t].kind = "scale", op[t].name = name
               PROVE  /\ op'[t].pc = "idle" => Cardinality(Of(name)') = op[t].want
                      /\ \A e \in op[t].rows, id \in Of(name) \ {f.id : f \in op[t].rows} :
                           procs[id].inst <= e.inst
    OBVIOUS
  <2>1. \A e \in op[t].rows, id \in Of(name) \ {f.id : f \in op[t].rows} : procs[id].inst <= e.inst
    BY DEF UInv, OnCourse, Scaling
  <2>2. ASSUME op'[t].pc = "idle"
        PROVE  Cardinality(Of(name)') = op[t].want
    <3>1. t \in Tasks /\ Step(t) /\ Busy(t) /\ OnCourse(op[t])
      BY <2>2, OwnReturn
    <3>2. op[t] \in Operation /\ Placed(op[t]) /\ Shaped(op[t])
      BY <3>1, StepFacts DEF UInv
    <3>3. PICK rows \in SUBSET Entry : rows = op[t].rows
      BY <3>2 DEF Operation
    <3>4. CASE \E okay \in BOOLEAN : Launched(t, okay)
      <4>1. op[t].pc = "launch" /\ UNCHANGED procs /\ (op[t].left = 1 \/ op'[t].pc # "idle")
        BY <3>1, <3>2, <3>4, LaunchedReturns DEF UInv
      <4>2. Cardinality(Of(name)) + 1 = op[t].want + 1
        BY <2>2, <3>1, <4>1 DEF OnCourse, Scaling
      <4>3. Of(name)' = Of(name) /\ Cardinality(Of(name)) \in Nat /\ op[t].want \in Nat
        BY <3>2, <4>1, OfIsFinite, IdFacts DEF Of, Live, Present, Operation
      <4> QED
        BY <4>2, <4>3
    <3>5. CASE Remove(t)
      <4>1. PICK e \in rows :
              /\ procs' = [procs EXCEPT ![e.id] = NoRow]
              /\ rows = {e} \/ Become(t, [op[t] EXCEPT !.rows = @ \ {e}])
        BY <3>3, <3>5 DEF Remove
      <4>2. op[t].pc = "deleting"
        BY <3>5 DEF Remove, At
      <4>3. [op[t] EXCEPT !.rows = @ \ {e}].pc = "deleting"
        BY <3>2, <4>2 DEF Operation
      <4>4. rows = {e}
        BY <2>2, <3>1, <4>1, <4>3, BecomeIs DEF UInv, DInv
      <4>5. Of(name)' \ {f.id : f \in rows \ {e}} = Of(name) \ {f.id : f \in rows}
        BY <4>1, RestStays DEF UInv
      <4>6. Of(name)' = Of(name) \ {f.id : f \in rows}
        BY <4>4, <4>5
      <4>7. Cardinality(Of(name) \ {f.id : f \in rows}) = op[t].want
        BY <3>1, <3>3, <4>2 DEF OnCourse, Scaling
      <4> QED
        BY <4>6, <4>7
    <3> QED
      BY <2>2, <3>1, <3>2, <3>4, <3>5, ScaleReturns DEF UInv
  <2> QED
    BY <2>1, <2>2
<1>2. Spec => []UInv
  BY UndisturbedInit, UndisturbedKeeps, PTL DEF Spec
<1> QED
  BY <1>1, <1>2, PTL DEF Spec, ScaleExact

\* An undisturbed resurrect into an empty table restores the whole dump, whatever
\* launches fail (dump.rs, ops.rs:58-121).
THEOREM ResurrectRestoresAlways == Spec => ResurrectRestores
<1>1. UInv /\ [Next /\ Observe]_vars =>
        [\A t \in calm :
           op[t].kind = "resurrect" /\ At(t, "entry") /\ op[t].pre = {} /\ op'[t].pc = "idle"
             => procs' = dump]_vars
  <2> SUFFICES ASSUME UInv, [Next /\ Observe]_vars, NEW t \in calm, op[t].kind = "resurrect",
                      op[t].pc = "entry", op[t].pre = {}, op'[t].pc = "idle"
               PROVE  procs' = dump
    BY DEF At
  <2>1. t \in Tasks /\ Step(t) /\ Busy(t) /\ OnCourse(op[t])
    BY OwnReturn
  <2>2. /\ op[t] \in Operation
        /\ procs \in [Ids -> Row \cup {NoRow}] /\ dump \in [Ids -> Row \cup {NoRow}]
    BY <2>1, StepFacts DEF UInv
  <2>3. NextEntry(t)
    BY <2>1 DEF Step, Start, Scale, Delete, Resurrect, Begin, Insert, InsertFixed, Launched, Alloc,
                Remove, Preexisting, At
  <2>4. op[t].rows = {} /\ UNCHANGED procs
    <3>1. ASSUME NEW e \in op[t].rows
          PROVE  /\ [op[t] EXCEPT !.rows = @ \ {e}].pc = "entry"
                 /\ [op[t] EXCEPT !.rows = @ \ {e}, !.pc = "fixed", !.id = e.id,
                                  !.name = e.name, !.inst = e.inst].pc = "fixed"
      BY <2>2 DEF Operation
    <3> QED
      BY <2>1, <2>3, <3>1, BecomeIs DEF NextEntry, UInv, DInv
  <2>5. \A id \in Ids : procs[id] = dump[id]
    BY <2>1, <2>4 DEF OnCourse, Restoring
  <2> QED
    BY <2>2, <2>4, <2>5
<1>2. Spec => []UInv
  BY UndisturbedInit, UndisturbedKeeps, PTL DEF Spec
<1> QED
  BY <1>1, <1>2, PTL DEF Spec, ResurrectRestores

=============================================================================
