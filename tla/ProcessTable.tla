---------------------------- MODULE ProcessTable ----------------------------
(***************************************************************************)
(* The table of processes, its ids, and the operations that add and remove *)
(* rows: start_app, scale and delete of daemon/ops.rs, save and resurrect   *)
(* of daemon/dump.rs.  Each holds the table's mutex for one section at a    *)
(* time; a launch or a kill sequence awaits between two sections, and       *)
(* sections of other operations come in between.  What becomes of a row     *)
(* while it exists is the subject of Supervision.                           *)
(***************************************************************************)
EXTENDS Naturals, FiniteSets

CONSTANTS
  Tasks,  \* RPC handlers
  Names,  \* names of apps
  MaxId,  \* bound: the ids of the instance are 0..MaxId
  MaxNum, \* bound: `-i n`, `pmr scale` and instance numbers go up to MaxNum
  MaxOps  \* bound: how many operations a behaviour has

ASSUME BoundsAssumption == MaxId \in Nat /\ MaxNum \in Nat \ {0} /\ MaxOps \in Nat

VARIABLES
  procs,   \* ProcessTable.procs
  nextId,  \* ProcessTable.next_id
  dump,    \* the rows in dump.pmr, none if there is no such file
  op,      \* per task: the operation it runs
  begun,   \* bound: how many operations have begun
  calm,    \* history: operations that nothing has overlapped
  tangled  \* history: names that two operations were adding rows of at once

vars == <<procs, nextId, dump, op, begun, calm, tangled>>

Ids == 0..MaxId
Nums == 1..MaxNum
Row == [name : Names, inst : 0..MaxNum]
NoRow == [name |-> "none", inst |-> 0]
Entry == [id : Ids, name : Names, inst : 0..MaxNum]

ASSUME NoRowAssumption == NoRow \notin Row

Empty == [id \in Ids |-> NoRow]
Present(id) == procs[id] # NoRow
Live == {id \in Ids : Present(id)}
Of(name) == {id \in Live : procs[id].name = name}
EntriesOf(table) ==
  {[id |-> id, name |-> table[id].name, inst |-> table[id].inst] :
     id \in {i \in Ids : table[i] # NoRow}}

Kinds == {"start", "scale", "delete", "resurrect"}
Pcs == {"idle", "failed", "insert", "alloc", "fixed", "launch", "entry", "preexisting", "deleting"}

\* An operation has returned, Ok or Err.
Resting == {"idle", "failed"}

\* left: rows still to be added; rows: rows still to be removed or resurrected;
\* pre: the names resurrect found in the table.
Operation ==
  [kind : Kinds, pc : Pcs, name : Names \cup {"none"}, want : 0..MaxNum, left : 0..MaxNum,
   inst : 0..MaxNum, id : Ids, rows : SUBSET Entry, pre : SUBSET Names]

Idle(pc) == [kind |-> "start", pc |-> pc, name |-> "none", want |-> 0, left |-> 0,
             inst |-> 0, id |-> 0, rows |-> {}, pre |-> {}]

Busy(t) == op[t].pc \notin Resting
At(t, pc) == op[t].pc = pc
Become(t, o) == op' = [op EXCEPT ![t] = o]
Return(t, pc) == Become(t, Idle(pc))

\* The request of a new operation is taken up.
Begin(t) == ~Busy(t) /\ begun < MaxOps /\ begun' = begun + 1

-----------------------------------------------------------------------------
(* Ids.                                                                    *)

\* alloc_id: ids start again at 0 when the table is empty.
AllocId == IF Live = {} THEN 0 ELSE nextId

\* Variant: the id that was inserted is handed out once more.
BumpNextIdLate(used) == nextId' = IF used > nextId THEN used + 1 ELSE nextId

BumpNextId(used) == nextId' = IF used >= nextId THEN used + 1 ELSE nextId

-----------------------------------------------------------------------------
(* start_app.                                                              *)

\* A start of n instances, unless the name is taken.
Start(t, name, n) ==
  /\ Begin(t)
  /\ IF Of(name) # {} THEN Return(t, "failed")
     ELSE Become(t, [Idle("insert") EXCEPT !.name = name, !.want = n, !.left = n])
  /\ UNCHANGED <<procs, nextId, dump>>

\* One row, under an id allocated in the same section.
Insert(t) ==
  /\ At(t, "insert") /\ AllocId \in Ids
  /\ procs' = [procs EXCEPT ![AllocId] = [name |-> op[t].name, inst |-> op[t].inst]]
  /\ nextId' = AllocId + 1
  /\ Become(t, [op[t] EXCEPT !.pc = "launch"])
  /\ UNCHANGED <<dump, begun>>

\* A pinned id is refused if it is occupied, whoever took it since it was chosen.
InsertFixed(t) ==
  /\ At(t, "fixed")
  /\ IF Present(op[t].id)
     THEN /\ IF op[t].kind = "resurrect" THEN Become(t, [op[t] EXCEPT !.pc = "entry"])
             ELSE Return(t, "failed")
          /\ UNCHANGED <<procs, nextId>>
     ELSE /\ BumpNextId(op[t].id)
          /\ procs' = [procs EXCEPT ![op[t].id] = [name |-> op[t].name, inst |-> op[t].inst]]
          /\ Become(t, [op[t] EXCEPT !.pc = "launch"])
  /\ UNCHANGED <<dump, begun>>

\* The launch of the new row has ended: the row stays even if it failed.
Launched(t, okay) ==
  /\ At(t, "launch")
  /\ IF op[t].kind = "resurrect" THEN Become(t, [op[t] EXCEPT !.pc = "entry"])
     ELSE IF ~okay THEN Return(t, "failed")
     ELSE IF op[t].left = 1 THEN Return(t, "idle")
     ELSE /\ op[t].inst < MaxNum
          /\ Become(t, [op[t] EXCEPT !.pc = IF op[t].kind = "scale" THEN "alloc" ELSE "insert",
                                     !.left = @ - 1, !.inst = @ + 1])
  /\ UNCHANGED <<procs, nextId, dump, begun>>

-----------------------------------------------------------------------------
(* scale and delete.                                                       *)

\* Variant: instances are numbered by their count.
NextInstanceByCount(name) == Cardinality(Of(name))

\* One more than the highest instance of the name.
NextInstance(name) ==
  CHOOSE n \in 1..(MaxNum + 1) : /\ \A id \in Of(name) : procs[id].inst < n
                                 /\ \E id \in Of(name) : procs[id].inst + 1 = n

\* Variant: one instance more than asked for is deleted.
VictimsOneMore(name, want, victims) ==
  /\ victims \subseteq Of(name) /\ Cardinality(Of(name) \ victims) + 1 = want
  /\ \A v \in victims, id \in Of(name) \ victims : procs[id].inst <= procs[v].inst

\* The instances past the first `want` in a sort by instance number.
Victims(name, want, victims) ==
  /\ victims \subseteq Of(name) /\ Cardinality(Of(name) \ victims) = want
  /\ \A v \in victims, id \in Of(name) \ victims : procs[id].inst <= procs[v].inst

Scale(t, name, want) ==
  LET have == Cardinality(Of(name))
      base == [Idle("idle") EXCEPT !.kind = "scale", !.name = name, !.want = want]
  IN /\ Begin(t)
     /\ \/ have = 0 /\ Return(t, "failed")
        \/ have = want /\ Return(t, "idle")
        \/ /\ 0 < have /\ have < want /\ NextInstance(name) \in 0..MaxNum
           /\ Become(t, [base EXCEPT !.pc = "alloc", !.left = want - have,
                                     !.inst = NextInstance(name)])
        \/ /\ want < have
           /\ \E victims \in SUBSET Ids :
                /\ Victims(name, want, victims)
                /\ Become(t, [base EXCEPT !.pc = "deleting",
                                          !.rows = {e \in EntriesOf(procs) : e.id \in victims}])
     /\ UNCHANGED <<procs, nextId, dump>>

\* scale allocates in a section of its own, before start_app inserts.
Alloc(t) ==
  /\ At(t, "alloc") /\ AllocId \in Ids
  /\ nextId' = AllocId + 1
  /\ Become(t, [op[t] EXCEPT !.pc = "fixed", !.id = AllocId])
  /\ UNCHANGED <<procs, dump, begun>>

\* pmr delete: the ids are resolved once.
Delete(t, ids) ==
  /\ Begin(t)
  /\ ids # {} /\ ids \subseteq Live
  /\ Become(t, [Idle("deleting") EXCEPT !.kind = "delete",
                                        !.rows = {e \in EntriesOf(procs) : e.id \in ids}])
  /\ UNCHANGED <<procs, nextId, dump>>

\* delete_one ends with the removal of whatever row has the id.  scale deletes
\* one instance after the other, delete all at once.
Remove(t) ==
  /\ At(t, "deleting")
  /\ \E e \in op[t].rows :
       /\ op[t].kind = "scale" => \A f \in op[t].rows : e.inst <= f.inst
       /\ procs' = [procs EXCEPT ![e.id] = NoRow]
       /\ IF op[t].rows = {e} THEN Return(t, "idle")
          ELSE Become(t, [op[t] EXCEPT !.rows = @ \ {e}])
  /\ UNCHANGED <<nextId, dump, begun>>

-----------------------------------------------------------------------------
(* save, resurrect and the end of a daemon.                                *)

\* An empty table never replaces a dump.
Save ==
  /\ Live # {}
  /\ dump' = procs
  /\ UNCHANGED <<procs, nextId, op, begun>>

\* resurrect reads the dump...
Resurrect(t) ==
  /\ Begin(t)
  /\ dump # Empty
  /\ Become(t, [Idle("preexisting") EXCEPT !.kind = "resurrect", !.rows = EntriesOf(dump)])
  /\ UNCHANGED <<procs, nextId, dump>>

\* ...then looks which names exist...
Preexisting(t) ==
  /\ At(t, "preexisting")
  /\ Become(t, [op[t] EXCEPT !.pc = "entry", !.pre = {procs[id].name : id \in Live}])
  /\ UNCHANGED <<procs, nextId, dump, begun>>

\* Variant: the names are those in the table when the entry's turn comes.
OccupiedNow(t, e) == Present(e.id) \/ Of(e.name) # {}

Occupied(t, e) == Present(e.id) \/ e.name \in op[t].pre

\* ...and starts its entries one by one, in the order of their ids.
NextEntry(t) ==
  /\ At(t, "entry")
  /\ \/ op[t].rows = {} /\ Return(t, "idle")
     \/ \E e \in op[t].rows :
          /\ \A f \in op[t].rows : e.id <= f.id
          /\ Become(t, IF Occupied(t, e) THEN [op[t] EXCEPT !.rows = @ \ {e}]
                       ELSE [op[t] EXCEPT !.rows = @ \ {e}, !.pc = "fixed", !.id = e.id,
                                          !.name = e.name, !.inst = e.inst])
  /\ UNCHANGED <<procs, nextId, dump, begun>>

\* The daemon ends, and with it every operation; another one takes over with an
\* empty table.
NewDaemon ==
  /\ procs' = Empty /\ nextId' = 0
  /\ op' = [t \in Tasks |-> Idle("failed")]
  /\ UNCHANGED <<dump, begun>>

-----------------------------------------------------------------------------

Init ==
  /\ procs = Empty /\ nextId = 0
  /\ dump = Empty
  /\ op = [t \in Tasks |-> Idle("idle")]
  /\ begun = 0
  /\ calm = {} /\ tangled = {}

Step(t) ==
  \/ \E name \in Names, n \in Nums : Start(t, name, n) \/ Scale(t, name, n)
  \/ Delete(t, Live) \/ (\E name \in Names : Delete(t, Of(name)))
  \/ \E id \in Ids : Delete(t, {id})
  \/ Insert(t) \/ InsertFixed(t) \/ (\E okay \in BOOLEAN : Launched(t, okay))
  \/ Alloc(t) \/ Remove(t)
  \/ Resurrect(t) \/ Preexisting(t) \/ NextEntry(t)

Next == (\E t \in Tasks : Step(t)) \/ Save \/ NewDaemon

\* Task t may be about to add a row of that name.
Adds(t, name) ==
  /\ op[t].pc \in {"insert", "alloc", "fixed", "launch", "entry", "preexisting"}
  /\ op[t].kind = "resurrect" \/ op[t].name = name

Observe ==
  /\ calm' = {t \in Tasks : /\ Busy(t)' /\ (t \in calm \/ ~Busy(t)) /\ dump' = dump
                            /\ \A u \in Tasks \ {t} : ~Busy(u)'}
  /\ tangled' = tangled \cup {name \in Names :
                                \E t, u \in Tasks : t # u /\ Adds(t, name)' /\ Adds(u, name)'}

Spec == Init /\ [][Next /\ Observe]_vars

-----------------------------------------------------------------------------

\* Every variable has its type; every id in the table has been passed by
\* next_id, whether it was allocated or pinned (state.rs:170-188).
TypeOK ==
  /\ procs \in [Ids -> Row \cup {NoRow}]
  /\ nextId \in 0..(MaxId + 1)
  /\ \A id \in Ids : Present(id) => id < nextId
  /\ dump \in [Ids -> Row \cup {NoRow}]
  /\ op \in [Tasks -> Operation]
  /\ begun \in 0..MaxOps
  /\ calm \subseteq Tasks /\ tangled \subseteq Names

\* No insertion overwrites a row: that would drop its cmd_tx and kill its child
\* without a kill sequence (ops.rs:86-90).  Ids start again at 0, are allocated
\* ahead of their insertion by scale and pinned by resurrect.
NoClobber ==
  [][\A id \in Ids : Present(id) => procs'[id] \in {procs[id], NoRow}]_vars

\* The instances of a name have different instance numbers (NODE_APP_INSTANCE),
\* after deletions, scales and resurrections in any order, unless two operations
\* were adding rows of that name at the same time.
DistinctInstances ==
  \A i, j \in Live :
    i # j /\ procs[i] = procs[j] => procs[i].name \in tangled

\* An undisturbed scale deletes only the highest instances, and if it succeeds leaves as
\* many as it was asked for.
ScaleExact ==
  [][\A t \in calm, name \in Names :
       op[t].kind = "scale" /\ op[t].name = name =>
         /\ op'[t].pc = "idle" => Cardinality(Of(name)') = op[t].want
         /\ \A e \in op[t].rows, id \in Of(name) \ {f.id : f \in op[t].rows} :
              procs[id].inst <= e.inst]_vars

\* An undisturbed resurrect into an empty table restores the dump, with its ids,
\* names and instance numbers, whatever launches fail.
ResurrectRestores ==
  [][\A t \in calm :
       op[t].kind = "resurrect" /\ At(t, "entry") /\ op[t].pre = {} /\ op'[t].pc = "idle"
         => procs' = dump]_vars

=============================================================================
