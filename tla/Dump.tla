-------------------------------- MODULE Dump --------------------------------
(***************************************************************************)
(* dump::save, one system call at a time, and what resurrect finds: the     *)
(* dump file, its backup and the temporary file of daemon/dump.rs, on a     *)
(* file system that may lose power.                                         *)
(*                                                                         *)
(* A file has contents in the cache, which every process sees, and a set of *)
(* contents one of which a power loss would leave; the directory likewise.  *)
(* Saves may overlap: the shutdown and every request run their own.         *)
(***************************************************************************)
EXTENDS Naturals

CONSTANTS
  Savers,   \* threads of the daemon that run save
  Values,   \* tables worth a dump: they have rows
  Size,     \* length of a table's JSON
  Inodes, NoInode, NoValue

ASSUME DumpAssumption ==
  /\ Size \in [Values -> Nat \ {0}]
  /\ NoInode \notin Inodes /\ NoValue \notin Values

VARIABLES
  dir,       \* the directory: the file under each of the three names
  dirs,      \* directories one of which a power loss would leave
  data,      \* contents of each file
  kept,      \* per file: contents one of which a power loss would leave
  saver,     \* per thread: place in save, value to save, open file, result
  damaged,   \* somebody else has destroyed the dump since a save last returned Ok
  ever,      \* history: a save has returned Ok
  cut,       \* history: a daemon ended between the rename over a destroyed dump and its
             \* sync, and no save has returned Ok since
  overlap    \* history: "no" before two saves overlap and once a save that ran alone has
             \* returned Ok again; "past" while a save that began alone may yet do so

vars == <<dir, dirs, data, kept, saver, damaged, ever, cut, overlap>>

FileNames == {"dump", "bak", "tmp"}
Directories == [FileNames -> Inodes \cup {NoInode}]

\* Contents begin with a table's JSON, if any; only its own length makes it parse.
Contents == [val : Values \cup {NoValue}, len : Nat]
\* A file that is empty or was cut short: only a second save at the same file could tell
\* one from the other.
Scrap == [val |-> NoValue, len |-> 0]
ValueOf(c) == IF c.val \in Values THEN IF c.len = Size[c.val] THEN c.val ELSE NoValue ELSE NoValue
Parses(c) == ValueOf(c) # NoValue

\* A write at the start of a file leaves what is longer.
Written(c, v) == [val |-> v, len |-> IF c.len > Size[v] THEN c.len ELSE Size[v]]

Results == {"idle", "ok", "err", "nothing"}
SaverPcs == Results \cup {"check", "copyOpen", "copyWrite", "open", "write", "sync", "rename", "dirSync"}
Saving(s) == saver[s].pc \notin Results

Goes(s, place) == saver' = [saver EXCEPT ![s].pc = place]
Returns(s, result) == saver' = [saver EXCEPT ![s] = [pc |-> result, val |-> NoValue, fd |-> NoInode]]

\* A change in the cache: it reaches the disk now, later, in part or never.
Changes(i, c) ==
  /\ data' = [data EXCEPT ![i] = c]
  /\ kept' = [kept EXCEPT ![i] = @ \cup {c, Scrap}]
Links(d) == dir' = d /\ dirs' = dirs \cup {d}

\* What a power loss may leave under a name, if the directory is d.
Versions(d, name) == IF d[name] = NoInode THEN {Scrap} ELSE kept[d[name]]

\* Files that nothing leads to any more.
Free == {i \in Inodes : /\ \A d \in dirs : \A n \in FileNames : d[n] # i
                        /\ \A s \in Savers : saver[s].fd # i}

\* Once the directory d is on disk, the files that it does not name are given up, unless
\* they are open.
Held(d, i) == (\E n \in FileNames : d[n] = i) \/ (\E s \in Savers : saver[s].fd = i)
Settles(d) ==
  /\ dirs' = {d}
  /\ data' = [i \in Inodes |-> IF Held(d, i) THEN data[i] ELSE Scrap]
  /\ kept' = [i \in Inodes |-> IF Held(d, i) THEN kept[i] ELSE {Scrap}]

\* open with create and truncate.
Truncates(name, i) ==
  IF dir[name] # NoInode
  THEN i = dir[name] /\ Changes(i, Scrap) /\ UNCHANGED <<dir, dirs>>
  ELSE /\ i \in Free
       /\ Links([dir EXCEPT ![name] = i])
       /\ data' = [data EXCEPT ![i] = Scrap] /\ kept' = [kept EXCEPT ![i] = {Scrap}]

-----------------------------------------------------------------------------
(* save                                                                    *)

\* The table has no rows: an Err if there is a dump, else an Ok that saves nothing.
BeginEmpty(s) ==
  /\ ~Saving(s)
  /\ Returns(s, "nothing")
  /\ UNCHANGED <<dir, dirs, data, kept, damaged, ever, cut, overlap>>

\* The table's rows are taken under its mutex.
Begin(s, v) ==
  /\ ~Saving(s)
  /\ saver' = [saver EXCEPT ![s] = [pc |-> "check", val |-> v, fd |-> NoInode]]
  /\ overlap' = IF \E t \in Savers \ {s} : Saving(t) THEN "yes"
                ELSE IF overlap = "no" THEN "no" ELSE "past"
  /\ UNCHANGED <<dir, dirs, data, kept, damaged, ever, cut>>

\* Variant: whatever is there is backed up.
CheckNothing(s) ==
  /\ saver[s].pc = "check"
  /\ Goes(s, IF dir["dump"] # NoInode THEN "copyOpen" ELSE "open")
  /\ UNCHANGED <<dir, dirs, data, kept, damaged, ever, cut, overlap>>

\* The old dump is read: it is backed up only if it parses.
Check(s) ==
  /\ saver[s].pc = "check"
  /\ Goes(s, IF dir["dump"] # NoInode /\ Parses(data[dir["dump"]]) THEN "copyOpen" ELSE "open")
  /\ UNCHANGED <<dir, dirs, data, kept, damaged, ever, cut, overlap>>

\* fs::copy opens the dump and truncates the backup...
CopyOpen(s) ==
  /\ saver[s].pc = "copyOpen"
  /\ \E i \in Inodes : Truncates("bak", i)
  /\ saver' = [saver EXCEPT ![s].pc = "copyWrite", ![s].fd = dir["dump"]]
  /\ UNCHANGED <<damaged, ever, cut, overlap>>

\* ...then copies, unless that fails: nobody looks at the result.
CopyWrite(s) ==
  /\ saver[s].pc = "copyWrite"
  /\ \E c \in {data[saver[s].fd], Scrap} : Changes(dir["bak"], c)
  /\ saver' = [saver EXCEPT ![s].pc = "open", ![s].fd = NoInode]
  /\ UNCHANGED <<dir, dirs, damaged, ever, cut, overlap>>

\* The temporary file may be left over, or be another thread's.
Open(s) ==
  /\ saver[s].pc = "open"
  /\ \E i \in Inodes : /\ Truncates("tmp", i)
                       /\ saver' = [saver EXCEPT ![s].pc = "write", ![s].fd = i]
  /\ UNCHANGED <<damaged, ever, cut, overlap>>

\* Variant: the data are left to the system.
WriteUnsynced(s) ==
  /\ saver[s].pc = "write"
  /\ \/ Changes(saver[s].fd, Written(data[saver[s].fd], saver[s].val)) /\ Goes(s, "rename")
     \/ Changes(saver[s].fd, Scrap) /\ Returns(s, "err")
  /\ UNCHANGED <<dir, dirs, damaged, ever, cut, overlap>>

\* All is written, or a part of it and save returns the error.
Write(s) ==
  /\ saver[s].pc = "write"
  /\ \/ Changes(saver[s].fd, Written(data[saver[s].fd], saver[s].val)) /\ Goes(s, "sync")
     \/ Changes(saver[s].fd, Scrap) /\ Returns(s, "err")
  /\ UNCHANGED <<dir, dirs, damaged, ever, cut, overlap>>

\* sync_all of the file, which may fail.
Sync(s) ==
  /\ saver[s].pc = "sync"
  /\ \/ kept' = [kept EXCEPT ![saver[s].fd] = {data[saver[s].fd]}] /\ Goes(s, "rename")
     \/ Returns(s, "err") /\ UNCHANGED kept
  /\ UNCHANGED <<dir, dirs, data, damaged, ever, cut, overlap>>

\* By name: it moves whatever is under the temporary name, or fails.
Rename(s) ==
  /\ saver[s].pc = "rename"
  /\ IF dir["tmp"] = NoInode
     THEN Returns(s, "err") /\ UNCHANGED <<dir, dirs>>
     ELSE /\ Links([dir EXCEPT !["dump"] = dir["tmp"], !["tmp"] = NoInode])
          /\ Goes(s, "dirSync")
  /\ UNCHANGED <<data, kept, damaged, ever, cut, overlap>>

\* sync_all of the directory, then Ok.
DirSync(s) ==
  /\ saver[s].pc = "dirSync"
  /\ Settles(dir)
  /\ Returns(s, "ok")
  /\ ever' = TRUE /\ damaged' = FALSE /\ cut' = FALSE
  /\ overlap' = IF overlap = "past" THEN "no" ELSE overlap
  /\ UNCHANGED dir

SaveStep(s) ==
  \/ BeginEmpty(s) \/ \E v \in Values : Begin(s, v)
  \/ Check(s) \/ CopyOpen(s) \/ CopyWrite(s)
  \/ Open(s) \/ Write(s) \/ Sync(s) \/ Rename(s) \/ DirSync(s)

-----------------------------------------------------------------------------
(* The rest of the machine.                                                *)

AllIdle == saver' = [s \in Savers |-> [pc |-> "idle", val |-> NoValue, fd |-> NoInode]]

\* The daemon ends between two system calls; another one comes.
Crash ==
  /\ AllIdle
  /\ cut' = (cut \/ (damaged /\ \E s \in Savers : saver[s].pc = "dirSync"))
  /\ UNCHANGED <<dir, dirs, data, kept, damaged, ever, overlap>>

\* The cache is lost: of the directory and of each file it names one version is left.
PowerLoss ==
  /\ \E d \in dirs :
       /\ dir' = d /\ dirs' = {d}
       /\ \E inDump \in Versions(d, "dump"), inBak \in Versions(d, "bak"), inTmp \in Versions(d, "tmp") :
            data' = [i \in Inodes |-> CASE i = d["dump"] -> inDump
                                        [] i = d["bak"] -> inBak
                                        [] i = d["tmp"] -> inTmp
                                        [] OTHER -> Scrap]
  /\ kept' = [i \in Inodes |-> {data'[i]}]
  /\ AllIdle
  /\ UNCHANGED <<damaged, ever, cut, overlap>>

\* The system writes back one file, or the directory.
WriteBack ==
  /\ \/ /\ \E i \in Inodes : kept' = [kept EXCEPT ![i] = {data[i]}]
        /\ UNCHANGED <<dirs, data>>
     \/ Settles(dir)
  /\ UNCHANGED <<dir, saver, damaged, ever, cut, overlap>>

\* Something destroys a dump at rest, next to a good backup.
Damage ==
  /\ \A s \in Savers : ~Saving(s)
  /\ dirs = {dir} /\ dir["dump"] # NoInode /\ dir["bak"] # NoInode
  /\ \A c \in kept[dir["bak"]] : Parses(c)
  /\ Parses(data[dir["bak"]])
  /\ data' = [data EXCEPT ![dir["dump"]] = Scrap]
  /\ kept' = [kept EXCEPT ![dir["dump"]] = {Scrap}]
  /\ damaged' = TRUE
  /\ UNCHANGED <<dir, dirs, saver, ever, cut, overlap>>

Init ==
  /\ dir = [n \in FileNames |-> NoInode] /\ dirs = {dir}
  /\ data = [i \in Inodes |-> Scrap] /\ kept = [i \in Inodes |-> {Scrap}]
  /\ saver = [s \in Savers |-> [pc |-> "idle", val |-> NoValue, fd |-> NoInode]]
  /\ damaged = FALSE /\ ever = FALSE /\ cut = FALSE /\ overlap = "no"

Next ==
  \/ \E s \in Savers : SaveStep(s)
  \/ Crash \/ PowerLoss \/ WriteBack \/ Damage

Spec == Init /\ [][Next]_vars

-----------------------------------------------------------------------------
(* Properties.                                                             *)

\* Every variable has its type.
TypeOK ==
  /\ dir \in Directories /\ dirs \subseteq Directories /\ dir \in dirs
  /\ data \in [Inodes -> Contents]
  /\ kept \in [Inodes -> SUBSET Contents]
  /\ saver \in [Savers -> [pc : SaverPcs, val : Values \cup {NoValue}, fd : Inodes \cup {NoInode}]]
  /\ damaged \in BOOLEAN /\ ever \in BOOLEAN /\ cut \in BOOLEAN
  /\ overlap \in {"no", "yes", "past"}

\* resurrect reads the dump, or else the backup: once a save has returned Ok, it finds a
\* table, whatever the moment of a crash or power loss, and also if the dump has been
\* destroyed next to a good backup (dump.rs:50-54, 88-104).  One exception is `cut`: the
\* next save takes the new dump for good and overwrites the backup, while a power loss
\* may still bring the destroyed dump back.  The other is two saves that overlap, until
\* one that runs alone has returned Ok.
EverLoadable ==
  ever /\ ~cut /\ overlap = "no" =>
    \A d \in dirs : \/ \A c \in Versions(d, "dump") : Parses(c)
                    \/ \A c \in Versions(d, "bak") : Parses(c)

\* The register that the dump file is: its contents are the value.
DumpValue == IF dir["dump"] = NoInode THEN NoValue ELSE ValueOf(data[dir["dump"]])
Survives == UNION {{ValueOf(c) : c \in Versions(d, "dump")} : d \in dirs}
Call == [s \in Savers |-> [pc |-> IF Saving(s) THEN "saving" ELSE saver[s].pc,
                           val |-> saver[s].val]]

Register == INSTANCE DurableRegister WITH value <- DumpValue, survives <- Survives, call <- Call

\* Saves that do not overlap make the dump a register that is atomic and durable
\* (dump.rs:58-80); those that do may tear it, until one that runs alone returns Ok.
AtomicAndDurable == Register!Spec

\* "Atomic AND durable" (dump.rs:58): a dump that nobody else touched parses, when no
\* save is under way.
DumpParses ==
  (\A s \in Savers : ~Saving(s)) /\ dir["dump"] # NoInode /\ ~damaged => Parses(data[dir["dump"]])

=============================================================================
