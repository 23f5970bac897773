----------------------------- MODULE DumpProofs -----------------------------
(***************************************************************************)
(* Proofs, for any tables, any number of files and any number of saves at   *)
(* once, that the dump file is an atomic and durable register for saves     *)
(* that do not overlap, and that resurrect then always finds a table; and   *)
(* that one save that runs alone mends what overlapping ones have torn.     *)
(***************************************************************************)
EXTENDS Dump, TLAPS

\* The backup and the temporary file are never a dump, in no directory that a power loss
\* may leave.
Apart ==
  /\ \A d \in dirs : d["dump"] \in Inodes =>
       /\ dir["bak"] # d["dump"] /\ dir["tmp"] # d["dump"]
       /\ d["bak"] # d["dump"] /\ d["tmp"] # d["dump"]
  /\ \A d \in dirs : d["bak"] \in Inodes => d["tmp"] # d["bak"]

\* Every file that is or was a dump is on disk as it is in the cache.
Synced == \A d \in dirs : d["dump"] \in Inodes => kept[d["dump"]] = {data[d["dump"]]}

\* Only one file is or was the backup.
BackupIsOne == \A d \in dirs : d["bak"] \in Inodes => d["bak"] = dir["bak"]

\* The files that a save needs for its next step are there, whoever else is at it.
Place(s) ==
  /\ Saving(s) => saver[s].val \in Values
  /\ saver[s].pc = "copyOpen" => dir["dump"] \in Inodes
  /\ saver[s].pc = "copyWrite" => saver[s].fd \in Inodes /\ dir["bak"] \in Inodes
  /\ saver[s].pc \in {"write", "sync", "rename"} => saver[s].fd \in Inodes

\* Saves overlap only when `overlap` says so.
AtMostOne == overlap # "yes" => \A s, t \in Savers : Saving(s) /\ Saving(t) => s = t

\* How far a save that runs alone has come with its file.
Progress(s) ==
  LET i == saver[s].fd
      v == saver[s].val
  IN /\ saver[s].pc \in {"write", "sync", "rename"} => i = dir["tmp"]
     /\ saver[s].pc = "write" => data[i] = Scrap
     /\ saver[s].pc \in {"sync", "rename"} => ValueOf(data[i]) = v
     /\ saver[s].pc = "rename" => kept[i] = {data[i]}
     /\ saver[s].pc = "dirSync" => /\ dir["dump"] \in Inodes /\ DumpValue = v
                                  /\ kept[dir["dump"]] = {data[dir["dump"]]}

IInv ==
  /\ TypeOK /\ Apart /\ BackupIsOne /\ AtMostOne
  /\ \A s \in Savers : Place(s)
  /\ overlap = "no" => Synced
  /\ overlap # "yes" => \A s \in Savers : Progress(s)

-----------------------------------------------------------------------------
(* Contents.                                                               *)

LEMMA ContentsFacts ==
  /\ Scrap \in Contents /\ ~Parses(Scrap) /\ ValueOf(Scrap) = NoValue
  /\ \A c : ValueOf(c) \in Values \cup {NoValue}
  /\ \A v \in Values : Written(Scrap, v) \in Contents /\ ValueOf(Written(Scrap, v)) = v
  /\ \A c \in Contents, v \in Values : Written(c, v) \in Contents
<1>1. \A v \in Values : Size[v] \in Nat /\ Size[v] > 0
  BY DumpAssumption
<1> QED
  BY <1>1, DumpAssumption DEF Contents, Scrap, ValueOf, Parses, Written

LEMMA InitInv == Init => IInv
<1> SUFFICES ASSUME Init PROVE IInv
  OBVIOUS
<1>1. TypeOK
  BY ContentsFacts DEF Init, TypeOK, Directories, SaverPcs, Results
<1>2. Apart /\ Synced /\ BackupIsOne
  BY DumpAssumption DEF Init, Apart, Synced, BackupIsOne, FileNames
<1>3. \A s \in Savers : Progress(s) /\ Place(s) /\ ~Saving(s)
  BY DEF Init, Progress, Place, Saving, Results
<1> QED
  BY <1>1, <1>2, <1>3 DEF IInv, AtMostOne

-----------------------------------------------------------------------------
(* The operations on files.                                                *)

\* A file is truncated or made: no dump is touched, and the directory names it.
LEMMA TruncatesKeeps ==
  ASSUME TypeOK, Apart, BackupIsOne,
         NEW name \in {"bak", "tmp"}, NEW i \in Inodes, Truncates(name, i)
  PROVE  /\ dir' \in Directories /\ dirs' \subseteq Directories /\ dir' \in dirs'
         /\ data' \in [Inodes -> Contents] /\ kept' \in [Inodes -> SUBSET Contents]
         /\ dir'[name] = i /\ data'[i] = Scrap
         /\ dir'["dump"] = dir["dump"]
         /\ \A n \in FileNames : n # name => dir'[n] = dir[n]
         /\ dirs \subseteq dirs'
         /\ \A d \in dirs' : d \in dirs \/ d = dir'
         /\ \A d \in dirs' : d["dump"] \in Inodes =>
              /\ d["dump"] # i
              /\ data'[d["dump"]] = data[d["dump"]] /\ kept'[d["dump"]] = kept[d["dump"]]
         /\ Apart' /\ BackupIsOne' /\ (Synced => Synced')
<1>1. CASE dir[name] # NoInode
  <2>1. /\ i = dir[name] /\ dir' = dir /\ dirs' = dirs
        /\ data' = [data EXCEPT ![i] = Scrap]
        /\ kept' = [kept EXCEPT ![i] = @ \cup {Scrap, Scrap}]
    BY <1>1 DEF Truncates, Changes
  <2>2. data' \in [Inodes -> Contents] /\ kept' \in [Inodes -> SUBSET Contents]
    BY <2>1, ContentsFacts DEF TypeOK
  <2>3. \A d \in dirs : d["dump"] \in Inodes => d["dump"] # i
    BY <2>1 DEF Apart
  <2>4. Apart' /\ BackupIsOne' /\ (Synced => Synced')
    BY <2>1, <2>3 DEF Apart, BackupIsOne, Synced, TypeOK
  <2> QED
    BY <2>1, <2>2, <2>3, <2>4 DEF TypeOK
<1>2. CASE dir[name] = NoInode
  <2>1. /\ i \in Free /\ dir' = [dir EXCEPT ![name] = i] /\ dirs' = dirs \cup {dir'}
        /\ data' = [data EXCEPT ![i] = Scrap] /\ kept' = [kept EXCEPT ![i] = {Scrap}]
    BY <1>2 DEF Truncates, Links
  <2>2. dir \in Directories /\ name \in FileNames /\ "dump" \in FileNames /\ "bak" \in FileNames
        /\ "tmp" \in FileNames /\ i \in Inodes
    BY DEF TypeOK, FileNames
  <2>3. /\ dir' \in Directories /\ dir'[name] = i
        /\ \A n \in FileNames : n # name => dir'[n] = dir[n]
    BY <2>1, <2>2 DEF Directories
  <2>4. data' \in [Inodes -> Contents] /\ kept' \in [Inodes -> SUBSET Contents] /\ data'[i] = Scrap
    BY <2>1, ContentsFacts DEF TypeOK
  <2>5. \A d \in dirs : \A n \in FileNames : d[n] # i
    BY <2>1 DEF Free
  <2>6. \A d \in dirs' : d["dump"] \in Inodes => d["dump"] # i /\ \E e \in dirs : e["dump"] = d["dump"]
    BY <2>1, <2>2, <2>3, <2>5 DEF TypeOK
  <2>7. \A d \in dirs' : d["dump"] \in Inodes =>
              data'[d["dump"]] = data[d["dump"]] /\ kept'[d["dump"]] = kept[d["dump"]]
    BY <2>1, <2>6 DEF TypeOK
  <2>8. Apart'
    <3>1. dir \in dirs
      BY DEF TypeOK
    <3>2. \/ name = "bak" /\ dir'["bak"] = i /\ dir'["tmp"] = dir["tmp"]
          \/ name = "tmp" /\ dir'["tmp"] = i /\ dir'["bak"] = dir["bak"]
      BY <2>2, <2>3
    <3>3. dir'["dump"] = dir["dump"]
      BY <2>2, <2>3
    <3>4. /\ \A d \in dirs : d["dump"] # i /\ d["bak"] # i /\ d["tmp"] # i
      BY <2>2, <2>5
    <3>5. \A d \in dirs' : d \in dirs \/ d = dir'
      BY <2>1
    <3>6. \A d \in dirs' : d["dump"] \in Inodes =>
            /\ dir'["bak"] # d["dump"] /\ dir'["tmp"] # d["dump"]
            /\ d["bak"] # d["dump"] /\ d["tmp"] # d["dump"]
      BY <3>1, <3>2, <3>3, <3>4, <3>5 DEF Apart
    <3>7. \A d \in dirs' : d["bak"] \in Inodes => d["tmp"] # d["bak"]
      BY <3>1, <3>2, <3>4, <3>5 DEF Apart
    <3> QED
      BY <3>6, <3>7 DEF Apart
  <2>9. Synced => Synced'
    BY <2>6, <2>7 DEF Synced
  <2>10. BackupIsOne'
    <3>1. dir["bak"] \notin Inodes => name = "tmp" \/ \A d \in dirs : d["bak"] \notin Inodes
      BY DEF BackupIsOne
    <3>2. dir["bak"] = NoInode => dir["bak"] \notin Inodes
      BY DumpAssumption
    <3> QED
      BY <1>2, <2>1, <2>2, <2>3, <3>1, <3>2 DEF BackupIsOne
  <2> QED
    BY <2>1, <2>2, <2>3, <2>4, <2>6, <2>7, <2>8, <2>9, <2>10 DEF TypeOK
<1> QED
  BY <1>1, <1>2

\* A file is written, one that is no dump unless saves overlap.
LEMMA ChangesKeeps ==
  ASSUME TypeOK, NEW i, NEW c \in Contents, Changes(i, c), UNCHANGED <<dir, dirs>>
  PROVE  /\ data' \in [Inodes -> Contents] /\ kept' \in [Inodes -> SUBSET Contents]
         /\ Apart => Apart'
         /\ BackupIsOne => BackupIsOne'
         /\ Apart /\ i \in {dir["bak"], dir["tmp"]} =>
              /\ \A d \in dirs : d["dump"] \in Inodes =>
                   data'[d["dump"]] = data[d["dump"]] /\ kept'[d["dump"]] = kept[d["dump"]]
              /\ Synced => Synced'
<1>1. /\ data' = [data EXCEPT ![i] = c]
      /\ kept' = [kept EXCEPT ![i] = @ \cup {c, Scrap}]
  BY DEF Changes
<1>2. data' \in [Inodes -> Contents] /\ kept' \in [Inodes -> SUBSET Contents]
  BY <1>1, ContentsFacts DEF TypeOK
<1>3. Apart => Apart'
  BY DEF Apart
<1>4. ASSUME Apart, i \in {dir["bak"], dir["tmp"]}
      PROVE  \A d \in dirs : d["dump"] \in Inodes =>
               data'[d["dump"]] = data[d["dump"]] /\ kept'[d["dump"]] = kept[d["dump"]]
  BY <1>1, <1>4 DEF Apart, TypeOK
<1> QED
  BY <1>2, <1>3, <1>4 DEF Synced, BackupIsOne

\* The directory d reaches the disk.
LEMMA SettlesKeeps ==
  ASSUME TypeOK, Settles(dir), UNCHANGED dir
  PROVE  /\ dirs' = {dir}
         /\ data' \in [Inodes -> Contents] /\ kept' \in [Inodes -> SUBSET Contents]
         /\ \A i \in Inodes : Held(dir, i) => data'[i] = data[i] /\ kept'[i] = kept[i]
         /\ \A n \in FileNames : dir[n] \in Inodes => Held(dir, dir[n])
         /\ DumpValue' = DumpValue
         /\ Apart => Apart'
         /\ BackupIsOne'
         /\ Synced => Synced'
<1>1. /\ dirs' = {dir}
      /\ data' = [i \in Inodes |-> IF Held(dir, i) THEN data[i] ELSE Scrap]
      /\ kept' = [i \in Inodes |-> IF Held(dir, i) THEN kept[i] ELSE {Scrap}]
  BY DEF Settles
<1>2. data' \in [Inodes -> Contents] /\ kept' \in [Inodes -> SUBSET Contents]
  BY <1>1, ContentsFacts DEF TypeOK
<1>3. \A n \in FileNames : dir[n] \in Inodes => Held(dir, dir[n])
  BY DEF Held
<1>4. \A i \in Inodes : Held(dir, i) => data'[i] = data[i] /\ kept'[i] = kept[i]
  BY <1>1
<1>5. dir \in dirs /\ dir["dump"] \in Inodes \cup {NoInode} /\ "dump" \in FileNames
  BY DEF TypeOK, Directories, FileNames
<1>6. Apart => Apart'
  BY <1>1, <1>5 DEF Apart
<1>7. Synced => Synced'
  BY <1>1, <1>3, <1>4, <1>5 DEF Synced
<1>8. DumpValue' = DumpValue
  BY <1>3, <1>4, <1>5 DEF DumpValue
<1>9. BackupIsOne'
  BY <1>1 DEF BackupIsOne
<1> QED
  BY <1>1, <1>2, <1>3, <1>4, <1>6, <1>7, <1>8, <1>9

-----------------------------------------------------------------------------
(* The invariant.                                                          *)

SaverType == [pc : SaverPcs, val : Values \cup {NoValue}, fd : Inodes \cup {NoInode}]

LEMMA Facts ==
  ASSUME TypeOK
  PROVE  /\ dir \in dirs /\ dirs \subseteq Directories
         /\ \A s \in Savers : saver[s] \in SaverType
         /\ \A d \in dirs, n \in FileNames : d[n] \in Inodes \cup {NoInode}
         /\ dir["dump"] \in Inodes \cup {NoInode} /\ dir["bak"] \in Inodes \cup {NoInode}
         /\ dir["tmp"] \in Inodes \cup {NoInode}
  BY DEF TypeOK, SaverType, Directories, FileNames

\* Nobody else is under way when a save that overlaps with none takes a step.
LEMMA SaveKeeps ==
  ASSUME IInv, NEW s \in Savers, Saving(s), TypeOK', Apart', BackupIsOne',
         \A t \in Savers : t # s => saver'[t] = saver[t],
         overlap' # "yes" => overlap # "yes",
         dir["dump"] \in Inodes => dir'["dump"] \in Inodes,
         dir["bak"] \in Inodes => dir'["bak"] \in Inodes,
         Place(s)',
         overlap' = "no" => Synced',
         overlap' # "yes" => Progress(s)'
  PROVE  IInv'
<1>1. \A t \in Savers : Place(t)'
  <2> SUFFICES ASSUME NEW t \in Savers, t # s PROVE Place(t)'
    OBVIOUS
  <2>1. Place(t) /\ saver'[t] = saver[t]
    BY DEF IInv
  <2> QED
    BY <2>1 DEF Place, Saving
<1>2. AtMostOne'
  BY DEF IInv, AtMostOne, Saving
<1>3. ASSUME overlap' # "yes" PROVE \A t \in Savers : Progress(t)'
  <2> SUFFICES ASSUME NEW t \in Savers, t # s PROVE Progress(t)'
    BY <1>3
  <2>1. saver'[t].pc \in Results
    BY <1>3 DEF IInv, AtMostOne, Saving
  <2> QED
    BY <2>1 DEF Progress, Results
<1> QED
  BY <1>1, <1>2, <1>3 DEF IInv

LEMMA StepInv == IInv /\ [Next]_vars => IInv'
<1> SUFFICES ASSUME IInv, [Next]_vars PROVE IInv'
  OBVIOUS
<1>f. /\ TypeOK /\ Apart /\ BackupIsOne /\ AtMostOne
      /\ \A s \in Savers : Place(s)
      /\ overlap = "no" => Synced
      /\ overlap # "yes" => \A s \in Savers : Progress(s)
      /\ dir \in dirs /\ saver \in [Savers -> SaverType]
      /\ dir["dump"] \in Inodes \cup {NoInode} /\ dir["tmp"] \in Inodes \cup {NoInode}
      /\ dir["bak"] \in Inodes \cup {NoInode}
  BY Facts DEF IInv, TypeOK, SaverType
<1>r. \A pc \in Results : pc \in SaverPcs
  BY DEF SaverPcs
<1>1. ASSUME NEW s \in Savers, BeginEmpty(s) PROVE IInv'
  <2>1. /\ UNCHANGED <<dir, dirs, data, kept, damaged, ever, cut, overlap>>
        /\ saver' = [saver EXCEPT ![s] = [pc |-> "nothing", val |-> NoValue, fd |-> NoInode]]
    BY <1>1 DEF BeginEmpty, Returns
  <2>2. /\ saver' \in [Savers -> SaverType] /\ saver'[s].pc = "nothing"
        /\ \A t \in Savers : t # s => saver'[t] = saver[t]
    BY <1>f, <2>1 DEF SaverType, SaverPcs, Results
  <2>3. ~Saving(s)' /\ \A t \in Savers : t # s => (Saving(t)' <=> Saving(t))
    BY <2>2 DEF Saving, Results
  <2>4. TypeOK' /\ Apart' /\ BackupIsOne' /\ (Synced => Synced')
    BY <1>f, <2>1, <2>2 DEF TypeOK, Apart, BackupIsOne, Synced, SaverType
  <2>5. AtMostOne'
    BY <1>f, <2>1, <2>3 DEF AtMostOne
  <2>6. \A t \in Savers : Place(t)'
    BY <1>f, <2>1, <2>2, <2>3 DEF Place
  <2>7. overlap' # "yes" => \A t \in Savers : Progress(t)'
    BY <1>f, <2>1, <2>2 DEF Progress, DumpValue
  <2> QED
    BY <1>f, <2>1, <2>4, <2>5, <2>6, <2>7 DEF IInv
<1>2. ASSUME NEW s \in Savers, NEW v \in Values, Begin(s, v) PROVE IInv'
  <2>1. /\ UNCHANGED <<dir, dirs, data, kept, damaged, ever, cut>>
        /\ saver' = [saver EXCEPT ![s] = [pc |-> "check", val |-> v, fd |-> NoInode]]
        /\ overlap' = IF \E t \in Savers \ {s} : Saving(t) THEN "yes"
                      ELSE IF overlap = "no" THEN "no" ELSE "past"
    BY <1>2 DEF Begin
  <2>2. /\ saver' \in [Savers -> SaverType] /\ saver'[s].pc = "check" /\ saver'[s].val = v
        /\ \A t \in Savers : t # s => saver'[t] = saver[t]
    BY <1>f, <2>1 DEF SaverType, SaverPcs, Results
  <2>3. \A t \in Savers : t # s => (Saving(t)' <=> Saving(t))
    BY <2>2 DEF Saving
  <2>4. overlap' # "yes" => \A t \in Savers : t # s => ~Saving(t)
    BY <2>1
  <2>5. overlap' \in {"no", "yes", "past"} /\ (overlap' = "no" => overlap = "no")
    BY <1>f, <2>1 DEF TypeOK
  <2>6. TypeOK' /\ Apart' /\ BackupIsOne' /\ (Synced => Synced')
    BY <1>f, <2>1, <2>2, <2>5 DEF TypeOK, Apart, BackupIsOne, Synced, SaverType
  <2>7. AtMostOne'
    BY <2>3, <2>4 DEF AtMostOne
  <2>8. \A t \in Savers : Place(t)'
    BY <1>f, <2>1, <2>2, <2>3 DEF Place
  <2>9. ASSUME overlap' # "yes", NEW t \in Savers PROVE Progress(t)'
    <3>1. t # s => saver'[t].pc \in Results
      BY <2>2, <2>4, <2>9 DEF Saving
    <3> QED
      BY <2>2, <3>1 DEF Progress, Results
  <2> QED
    BY <1>f, <2>5, <2>6, <2>7, <2>8, <2>9 DEF IInv
<1>3. ASSUME NEW s \in Savers, Check(s) PROVE IInv'
  <2>1. PICK place \in {"copyOpen", "open"} :
          Goes(s, place) /\ (place = "copyOpen" => dir["dump"] # NoInode)
    BY <1>3 DEF Check
  <2>2. UNCHANGED <<dir, dirs, data, kept, damaged, ever, cut, overlap>>
    BY <1>3 DEF Check
  <2>3. /\ saver' \in [Savers -> SaverType] /\ saver'[s].pc = place /\ saver'[s].val = saver[s].val
        /\ \A t \in Savers : t # s => saver'[t] = saver[t]
    BY <1>f, <2>1 DEF Goes, SaverType, SaverPcs
  <2>4. Saving(s) /\ saver[s].val \in Values
    BY <1>f, <1>3 DEF Check, Saving, Results, Place
  <2>5. TypeOK' /\ Apart' /\ BackupIsOne' /\ (Synced => Synced')
    BY <1>f, <2>2, <2>3 DEF TypeOK, Apart, BackupIsOne, Synced, SaverType
  <2>6. Place(s)' /\ Progress(s)'
    BY <1>f, <2>1, <2>2, <2>3, <2>4 DEF Place, Progress
  <2> QED
    BY <1>f, <2>2, <2>3, <2>4, <2>5, <2>6, SaveKeeps
<1>4. ASSUME NEW s \in Savers, CopyOpen(s) PROVE IInv'
  <2>1. PICK i \in Inodes : Truncates("bak", i)
    BY <1>4 DEF CopyOpen
  <2>2. /\ saver' = [saver EXCEPT ![s].pc = "copyWrite", ![s].fd = dir["dump"]]
        /\ UNCHANGED <<damaged, ever, cut, overlap>>
    BY <1>4 DEF CopyOpen
  <2>3. Saving(s) /\ saver[s].val \in Values /\ dir["dump"] \in Inodes
    BY <1>f, <1>4 DEF CopyOpen, Saving, Results, Place
  <2>4. /\ saver' \in [Savers -> SaverType] /\ saver'[s].pc = "copyWrite"
        /\ saver'[s].val = saver[s].val /\ saver'[s].fd = dir["dump"]
        /\ \A t \in Savers : t # s => saver'[t] = saver[t]
    BY <1>f, <2>2, <2>3 DEF SaverType, SaverPcs
  <2>5. /\ TypeOK' /\ Apart' /\ BackupIsOne' /\ (Synced => Synced')
        /\ dir'["bak"] = i /\ dir'["dump"] = dir["dump"]
    BY <1>f, <2>1, <2>2, <2>4, TruncatesKeeps DEF TypeOK, SaverType
  <2>6. Place(s)' /\ Progress(s)'
    BY <2>3, <2>4, <2>5 DEF Place, Progress
  <2> QED
    BY <1>f, <2>2, <2>3, <2>4, <2>5, <2>6, SaveKeeps
<1>5. ASSUME NEW s \in Savers, CopyWrite(s) PROVE IInv'
  <2>1. /\ saver' = [saver EXCEPT ![s].pc = "open", ![s].fd = NoInode]
        /\ UNCHANGED <<dir, dirs, damaged, ever, cut, overlap>>
    BY <1>5 DEF CopyWrite
  <2>2. dir["bak"] \in Inodes /\ saver[s].fd \in Inodes /\ Saving(s) /\ saver[s].val \in Values
    BY <1>f, <1>5 DEF CopyWrite, Saving, Results, Place
  <2>3. /\ saver' \in [Savers -> SaverType] /\ saver'[s].pc = "open"
        /\ saver'[s].val = saver[s].val
        /\ \A t \in Savers : t # s => saver'[t] = saver[t]
    BY <1>f, <2>1 DEF SaverType, SaverPcs
  <2>4. PICK c \in {data[saver[s].fd], Scrap} : Changes(dir["bak"], c)
    BY <1>5 DEF CopyWrite
  <2>5. c \in Contents
    BY <1>f, <2>2, ContentsFacts DEF TypeOK
  <2>6. TypeOK' /\ Apart' /\ BackupIsOne' /\ (Synced => Synced')
    BY <1>f, <2>1, <2>3, <2>4, <2>5, ChangesKeeps DEF TypeOK, SaverType
  <2>7. Place(s)' /\ Progress(s)'
    BY <2>2, <2>3 DEF Place, Progress
  <2> QED
    BY <1>f, <2>1, <2>2, <2>3, <2>6, <2>7, SaveKeeps
<1>6. ASSUME NEW s \in Savers, Open(s) PROVE IInv'
  <2>1. PICK i \in Inodes : /\ Truncates("tmp", i)
                            /\ saver' = [saver EXCEPT ![s].pc = "write", ![s].fd = i]
    BY <1>6 DEF Open
  <2>2. UNCHANGED <<damaged, ever, cut, overlap>>
    BY <1>6 DEF Open
  <2>3. Saving(s) /\ saver[s].val \in Values
    BY <1>f, <1>6 DEF Open, Saving, Results, Place
  <2>4. /\ saver' \in [Savers -> SaverType] /\ saver'[s].pc = "write" /\ saver'[s].fd = i
        /\ saver'[s].val = saver[s].val
        /\ \A t \in Savers : t # s => saver'[t] = saver[t]
    BY <1>f, <2>1 DEF SaverType, SaverPcs
  <2>5. /\ TypeOK' /\ Apart' /\ BackupIsOne' /\ (Synced => Synced')
        /\ dir'["tmp"] = i /\ data'[i] = Scrap
        /\ dir'["dump"] = dir["dump"] /\ dir'["bak"] = dir["bak"]
    BY <1>f, <2>1, <2>2, <2>4, TruncatesKeeps DEF TypeOK, SaverType, FileNames
  <2>6. Place(s)' /\ Progress(s)'
    BY <2>3, <2>4, <2>5 DEF Place, Progress
  <2> QED
    BY <1>f, <2>2, <2>3, <2>4, <2>5, <2>6, SaveKeeps
<1>7. ASSUME NEW s \in Savers, Write(s) PROVE IInv'
  <2> DEFINE i == saver[s].fd
             v == saver[s].val
  <2>1. i \in Inodes /\ v \in Values /\ Saving(s) /\ data[i] \in Contents
    BY <1>f, <1>7 DEF Write, Saving, Results, Place, TypeOK
  <2>2. PICK c \in {Written(data[i], v), Scrap} :
          /\ Changes(i, c)
          /\ \/ c = Written(data[i], v) /\ Goes(s, "sync")
             \/ Returns(s, "err")
    BY <1>7 DEF Write
  <2>3. c \in Contents
    BY <2>1, <2>2, ContentsFacts
  <2>4. /\ saver' \in [Savers -> SaverType]
        /\ \A t \in Savers : t # s => saver'[t] = saver[t]
        /\ \/ saver'[s].pc = "err"
           \/ saver'[s].pc = "sync" /\ saver'[s].fd = i /\ saver'[s].val = v /\ c = Written(data[i], v)
    BY <1>f, <2>2 DEF Goes, Returns, SaverType, SaverPcs, Results
  <2>5. UNCHANGED <<dir, dirs, damaged, ever, cut, overlap>>
    BY <1>7 DEF Write
  <2>6. TypeOK' /\ Apart' /\ BackupIsOne' /\ data'[i] = c
    <3>1. data'[i] = c
      BY <1>f, <2>1, <2>2 DEF Changes, TypeOK
    <3> QED
      BY <1>f, <2>2, <2>3, <2>4, <2>5, <3>1, ChangesKeeps DEF TypeOK, SaverType
  <2>7. overlap # "yes" => i = dir["tmp"] /\ data[i] = Scrap
    BY <1>f, <1>7 DEF Write, Progress
  <2>8. overlap' = "no" => Synced'
    BY <1>f, <2>2, <2>3, <2>5, <2>7, ChangesKeeps
  <2>9. Place(s)'
    BY <2>1, <2>4 DEF Place, Saving, Results
  <2>10. overlap' # "yes" => Progress(s)'
    BY <2>1, <2>4, <2>5, <2>6, <2>7, ContentsFacts DEF Progress
  <2> QED
    BY <2>1, <2>4, <2>5, <2>6, <2>8, <2>9, <2>10, SaveKeeps
<1>8. ASSUME NEW s \in Savers, Sync(s) PROVE IInv'
  <2> DEFINE i == saver[s].fd
  <2>1. i \in Inodes /\ saver[s].val \in Values /\ Saving(s)
    BY <1>f, <1>8 DEF Sync, Saving, Results, Place
  <2>2. UNCHANGED <<dir, dirs, data, damaged, ever, cut, overlap>>
    BY <1>8 DEF Sync
  <2>3. overlap # "yes" => i = dir["tmp"] /\ ValueOf(data[i]) = saver[s].val
    BY <1>f, <1>8 DEF Sync, Progress
  <2>4. CASE kept' = [kept EXCEPT ![i] = {data[i]}] /\ Goes(s, "rename")
    <3>1. /\ saver' \in [Savers -> SaverType] /\ saver'[s].pc = "rename" /\ saver'[s].fd = i
          /\ saver'[s].val = saver[s].val
          /\ \A t \in Savers : t # s => saver'[t] = saver[t]
      BY <1>f, <2>4 DEF Goes, SaverType, SaverPcs
    <3>2. kept' \in [Inodes -> SUBSET Contents] /\ kept'[i] = {data[i]}
      BY <1>f, <2>1, <2>4 DEF TypeOK
    <3>3. TypeOK' /\ Apart' /\ BackupIsOne'
      BY <1>f, <2>2, <3>1, <3>2 DEF TypeOK, SaverType, Apart, BackupIsOne
    <3>4. Synced => Synced'
      BY <1>f, <2>1, <2>2, <2>4 DEF Synced, TypeOK
    <3>5. Place(s)' /\ (overlap' # "yes" => Progress(s)')
      BY <2>1, <2>2, <2>3, <3>1, <3>2 DEF Place, Progress
    <3> QED
      BY <1>f, <2>1, <2>2, <3>1, <3>3, <3>4, <3>5, SaveKeeps
  <2>5. CASE Returns(s, "err") /\ UNCHANGED kept
    <3>1. /\ saver' \in [Savers -> SaverType] /\ saver'[s].pc = "err"
          /\ \A t \in Savers : t # s => saver'[t] = saver[t]
      BY <1>f, <2>5 DEF Returns, SaverType, SaverPcs, Results
    <3>2. TypeOK' /\ Apart' /\ BackupIsOne' /\ (Synced => Synced')
      BY <1>f, <2>2, <2>5, <3>1 DEF TypeOK, SaverType, Apart, BackupIsOne, Synced
    <3>3. Place(s)' /\ Progress(s)'
      BY <3>1 DEF Place, Progress, Saving, Results
    <3> QED
      BY <1>f, <2>1, <2>2, <3>1, <3>2, <3>3, SaveKeeps
  <2> QED
    BY <1>8, <2>4, <2>5 DEF Sync
<1>9. ASSUME NEW s \in Savers, Rename(s) PROVE IInv'
  <2> DEFINE i == dir["tmp"]
             v == saver[s].val
  <2>1. /\ UNCHANGED <<data, kept, damaged, ever, cut, overlap>>
        /\ Saving(s) /\ saver[s].pc = "rename" /\ v \in Values
    BY <1>f, <1>9 DEF Rename, Saving, Results, Place
  <2>2. overlap # "yes" => /\ i \in Inodes /\ ValueOf(data[i]) = v /\ kept[i] = {data[i]}
    BY <1>f, <2>1 DEF Progress, Place
  <2>3. CASE i = NoInode
    <3>1. Returns(s, "err") /\ UNCHANGED <<dir, dirs>>
      BY <1>9, <2>3 DEF Rename
    <3>2. /\ saver' \in [Savers -> SaverType] /\ saver'[s].pc = "err"
          /\ \A t \in Savers : t # s => saver'[t] = saver[t]
      BY <1>f, <3>1 DEF Returns, SaverType, SaverPcs, Results
    <3>3. TypeOK' /\ Apart' /\ BackupIsOne' /\ (Synced => Synced')
      BY <1>f, <2>1, <3>1, <3>2 DEF TypeOK, SaverType, Apart, BackupIsOne, Synced
    <3>4. Place(s)' /\ Progress(s)'
      BY <3>2 DEF Place, Progress, Saving, Results
    <3> QED
      BY <1>f, <2>1, <3>1, <3>2, <3>3, <3>4, SaveKeeps
  <2>4. CASE i # NoInode
    <3>1. /\ dir' = [dir EXCEPT !["dump"] = i, !["tmp"] = NoInode]
          /\ dirs' = dirs \cup {dir'} /\ Goes(s, "dirSync") /\ i \in Inodes
      BY <1>f, <1>9, <2>4 DEF Rename, Links
    <3>2. /\ dir' \in Directories /\ dir'["dump"] = i /\ dir'["tmp"] = NoInode
          /\ dir'["bak"] = dir["bak"]
      BY <1>f, <3>1 DEF TypeOK, Directories, FileNames
    <3>3. /\ saver' \in [Savers -> SaverType] /\ saver'[s].pc = "dirSync" /\ saver'[s].val = v
          /\ \A t \in Savers : t # s => saver'[t] = saver[t]
      BY <1>f, <3>1 DEF Goes, SaverType, SaverPcs
    <3>4. TypeOK'
      BY <1>f, <2>1, <3>1, <3>2, <3>3 DEF TypeOK, SaverType
    <3>5. Apart'
      <4>1. dir["bak"] # i
        BY <1>f, <3>1 DEF Apart
      <4>2. \A d \in dirs' : d["dump"] \in Inodes =>
              /\ dir'["bak"] # d["dump"] /\ dir'["tmp"] # d["dump"]
              /\ d["bak"] # d["dump"] /\ d["tmp"] # d["dump"]
        BY <1>f, <3>1, <3>2, <4>1, DumpAssumption DEF Apart
      <4>3. \A d \in dirs' : d["bak"] \in Inodes => d["tmp"] # d["bak"]
        BY <1>f, <3>1, <3>2, DumpAssumption DEF Apart
      <4> QED
        BY <4>2, <4>3 DEF Apart
    <3>6. BackupIsOne'
      BY <1>f, <3>1, <3>2 DEF BackupIsOne
    <3>7. overlap' = "no" => Synced'
      BY <1>f, <2>1, <2>2, <3>1, <3>2 DEF Synced
    <3>8. overlap' # "yes" => DumpValue' = v
      BY <2>1, <2>2, <2>4, <3>2 DEF DumpValue
    <3>9. Place(s)'
      BY <2>1, <3>3 DEF Place, Saving, Results
    <3>10. overlap' # "yes" => Progress(s)'
      BY <2>1, <2>2, <3>2, <3>3, <3>8 DEF Progress
    <3> QED
      BY <2>1, <3>1, <3>2, <3>3, <3>4, <3>5, <3>6, <3>7, <3>9, <3>10, SaveKeeps
  <2> QED
    BY <2>3, <2>4
<1>10. ASSUME NEW s \in Savers, DirSync(s) PROVE IInv'
  <2>1. /\ Settles(dir) /\ dir' = dir /\ Returns(s, "ok") /\ saver[s].pc = "dirSync"
        /\ ever' = TRUE /\ damaged' = FALSE /\ cut' = FALSE
        /\ overlap' = IF overlap = "past" THEN "no" ELSE overlap
    BY <1>10 DEF DirSync
  <2>2. /\ saver' \in [Savers -> SaverType] /\ saver'[s].pc = "ok"
        /\ \A t \in Savers : t # s => saver'[t] = saver[t]
    BY <1>f, <2>1 DEF Returns, SaverType, SaverPcs, Results
  <2>3. overlap' \in {"no", "yes", "past"} /\ (overlap' # "yes" => overlap # "yes")
    BY <1>f, <2>1 DEF TypeOK
  <2>4. TypeOK' /\ Apart' /\ BackupIsOne'
    BY <1>f, <2>1, <2>2, <2>3, SettlesKeeps DEF TypeOK, SaverType
  <2>5. ASSUME overlap' # "yes" PROVE Synced'
    <3>1. dir["dump"] \in Inodes /\ kept[dir["dump"]] = {data[dir["dump"]]}
      BY <1>f, <2>1, <2>3, <2>5 DEF Progress
    <3>2. kept'[dir["dump"]] = {data'[dir["dump"]]} /\ dirs' = {dir}
      BY <1>f, <2>1, <3>1, SettlesKeeps DEF FileNames
    <3> QED
      BY <3>2 DEF Synced
  <2>6. Place(s)' /\ Progress(s)' /\ Saving(s)
    BY <2>1, <2>2 DEF Place, Progress, Saving, Results
  <2> QED
    BY <2>1, <2>2, <2>3, <2>4, <2>5, <2>6, SaveKeeps
<1>i. ASSUME AllIdle
      PROVE  /\ saver' \in [Savers -> SaverType]
             /\ AtMostOne' /\ \A s \in Savers : Place(s)' /\ Progress(s)'
  <2>1. \A s \in Savers : saver'[s].pc = "idle" /\ saver' \in [Savers -> SaverType]
    BY <1>i DEF AllIdle, SaverType, SaverPcs, Results
  <2>2. saver' \in [Savers -> SaverType]
    BY <1>i DEF AllIdle, SaverType, SaverPcs, Results
  <2> QED
    BY <2>1, <2>2 DEF AtMostOne, Place, Progress, Saving, Results
<1>11. ASSUME Crash PROVE IInv'
  <2>1. /\ UNCHANGED <<dir, dirs, data, kept, damaged, ever, overlap>> /\ cut' \in BOOLEAN
        /\ saver' \in [Savers -> SaverType] /\ AtMostOne' /\ \A s \in Savers : Place(s)' /\ Progress(s)'
    BY <1>i, <1>11 DEF Crash
  <2>2. TypeOK' /\ Apart' /\ BackupIsOne' /\ (Synced => Synced')
    BY <1>f, <2>1 DEF TypeOK, SaverType, Apart, BackupIsOne, Synced
  <2> QED
    BY <1>f, <2>1, <2>2 DEF IInv
<1>12. ASSUME PowerLoss PROVE IInv'
  <2>1. /\ saver' \in [Savers -> SaverType] /\ AtMostOne' /\ \A s \in Savers : Place(s)' /\ Progress(s)'
    BY <1>i, <1>12 DEF PowerLoss
  <2>2. dir' \in dirs /\ dirs' = {dir'} /\ UNCHANGED <<damaged, ever, cut, overlap>>
    BY <1>12 DEF PowerLoss
  <2>3. data' \in [Inodes -> Contents]
    <3>1. \A d \in dirs, n \in FileNames : Versions(d, n) \subseteq Contents
      BY <1>f, ContentsFacts DEF Versions, TypeOK, Directories
    <3> QED
      BY <1>12, <3>1, ContentsFacts DEF PowerLoss, FileNames
  <2>4. kept' = [i \in Inodes |-> {data'[i]}]
    BY <1>12 DEF PowerLoss
  <2>5. TypeOK'
    BY <1>f, <2>1, <2>2, <2>3, <2>4 DEF TypeOK, SaverType
  <2>6. Apart' /\ BackupIsOne' /\ Synced'
    BY <1>f, <2>2, <2>4 DEF Apart, BackupIsOne, Synced
  <2> QED
    BY <2>1, <2>5, <2>6 DEF IInv
<1>13. ASSUME WriteBack PROVE IInv'
  <2>1. UNCHANGED <<dir, saver, damaged, ever, cut, overlap>>
    BY <1>13 DEF WriteBack
  <2>2. AtMostOne' /\ \A s \in Savers : Place(s)'
    BY <1>f, <2>1 DEF AtMostOne, Place, Saving
  <2>3. CASE Settles(dir)
    <3>1. TypeOK' /\ Apart' /\ BackupIsOne' /\ (Synced => Synced')
      BY <1>f, <2>1, <2>3, SettlesKeeps DEF TypeOK
    <3>2. ASSUME NEW s \in Savers, Progress(s) PROVE Progress(s)'
      <4>1. saver[s].fd \in Inodes => Held(dir, saver[s].fd)
        BY DEF Held
      <4>2. DumpValue' = DumpValue /\ (dir["dump"] \in Inodes => Held(dir, dir["dump"]))
        BY <1>f, <2>1, <2>3, SettlesKeeps DEF FileNames
      <4>3. \A i \in Inodes : Held(dir, i) => data'[i] = data[i] /\ kept'[i] = kept[i]
        BY <1>f, <2>1, <2>3, SettlesKeeps
      <4>4. saver[s].pc \in {"write", "sync", "rename"} => saver[s].fd \in Inodes
        BY <1>f DEF Place
      <4> QED
        BY <2>1, <3>2, <4>1, <4>2, <4>3, <4>4 DEF Progress
    <3> QED
      BY <1>f, <2>1, <2>2, <3>1, <3>2 DEF IInv
  <2>4. CASE (\E i \in Inodes : kept' = [kept EXCEPT ![i] = {data[i]}]) /\ UNCHANGED <<dirs, data>>
    <3>1. PICK i \in Inodes : kept' = [kept EXCEPT ![i] = {data[i]}]
      BY <2>4
    <3>2. kept' \in [Inodes -> SUBSET Contents]
      BY <1>f, <3>1 DEF TypeOK
    <3>3. TypeOK' /\ Apart' /\ BackupIsOne'
      BY <1>f, <2>1, <2>4, <3>2 DEF TypeOK, Apart, BackupIsOne
    <3>4. \A j \in Inodes : kept[j] = {data[j]} => kept'[j] = {data'[j]}
      BY <1>f, <2>4, <3>1 DEF TypeOK
    <3>5. Synced => Synced'
      BY <1>f, <2>1, <2>4, <3>4 DEF Synced
    <3>6. ASSUME NEW s \in Savers, Progress(s) PROVE Progress(s)'
      <4>1. DumpValue' = DumpValue /\ UNCHANGED <<dir, saver, data>>
        BY <2>1, <2>4 DEF DumpValue
      <4>2. saver[s].pc \in {"write", "sync", "rename"} => saver[s].fd \in Inodes
        BY <1>f DEF Place
      <4> QED
        BY <3>4, <3>6, <4>1, <4>2 DEF Progress
    <3> QED
      BY <1>f, <2>1, <2>2, <3>3, <3>5, <3>6 DEF IInv
  <2> QED
    BY <1>13, <2>3, <2>4 DEF WriteBack
<1>14. ASSUME Damage PROVE IInv'
  <2>1. \A s \in Savers : saver[s].pc \in Results
    BY <1>14 DEF Damage, Saving
  <2>2. /\ UNCHANGED <<dir, dirs, saver, ever, cut, overlap>> /\ damaged' = TRUE /\ dirs = {dir}
        /\ data' = [data EXCEPT ![dir["dump"]] = Scrap]
        /\ kept' = [kept EXCEPT ![dir["dump"]] = {Scrap}]
    BY <1>14 DEF Damage
  <2>3. TypeOK'
    BY <1>f, <2>2, ContentsFacts DEF TypeOK
  <2>4. Apart' /\ BackupIsOne' /\ Synced'
    BY <1>f, <2>2 DEF Apart, BackupIsOne, Synced, TypeOK
  <2>5. AtMostOne' /\ \A s \in Savers : Place(s)' /\ Progress(s)'
    BY <2>1, <2>2 DEF AtMostOne, Place, Progress, Saving, Results
  <2> QED
    BY <2>3, <2>4, <2>5 DEF IInv
<1>15. CASE UNCHANGED vars
  <2>1. TypeOK' /\ Apart' /\ BackupIsOne' /\ (Synced => Synced')
    BY <1>f, <1>15 DEF vars, TypeOK, Apart, BackupIsOne, Synced
  <2>2. AtMostOne' /\ \A s \in Savers : Place(s)' /\ (Progress(s) => Progress(s)')
    BY <1>f, <1>15 DEF vars, AtMostOne, Place, Saving, Progress, DumpValue
  <2> QED
    BY <1>f, <1>15, <2>1, <2>2 DEF vars, IInv
<1> QED
  BY <1>1, <1>2, <1>3, <1>4, <1>5, <1>6, <1>7, <1>8, <1>9, <1>10, <1>11, <1>12, <1>13, <1>14, <1>15
  DEF Next, SaveStep

LEMMA InvHolds == Spec => []IInv
<1> QED
  BY InitInv, StepInv, PTL DEF Spec

\* Every variable has its type.
THEOREM TypesHold == Spec => []TypeOK
<1>1. IInv => TypeOK
  BY DEF IInv
<1> QED
  BY <1>1, InvHolds, PTL

-----------------------------------------------------------------------------
(* The register.                                                           *)

\* Whatever saves have done to the files, they hold a table or none.
LEMMA AnyValue == DumpValue \in Register!Saved /\ Survives \subseteq Register!Saved
  BY ContentsFacts DEF DumpValue, Survives, Register!Saved

LEMMA AnyValueNext == (DumpValue \in Register!Saved /\ Survives \subseteq Register!Saved)'
  BY AnyValue, PTL

ValueUnder(d) == IF d["dump"] = NoInode THEN NoValue ELSE ValueOf(data[d["dump"]])

\* As all dumps are on disk, what survives is what the directories lead to.
SurvivingDumps == Survives = {ValueUnder(d) : d \in dirs} /\ DumpValue = ValueUnder(dir)

LEMMA SurvivesIs == TypeOK /\ Synced => SurvivingDumps
<1> SUFFICES ASSUME TypeOK, Synced PROVE SurvivingDumps
  OBVIOUS
<1>1. ASSUME NEW d \in dirs PROVE {ValueOf(c) : c \in Versions(d, "dump")} = {ValueUnder(d)}
  <2>1. CASE d["dump"] = NoInode
    <3>1. ValueOf(Scrap) = NoValue
      BY DumpAssumption DEF ValueOf, Scrap
    <3> QED
      BY <2>1, <3>1 DEF Versions, ValueUnder
  <2>2. CASE d["dump"] # NoInode
    <3>1. d["dump"] \in Inodes
      BY <2>2, Facts DEF FileNames
    <3>2. kept[d["dump"]] = {data[d["dump"]]}
      BY <3>1 DEF Synced
    <3> QED
      BY <2>2, <3>2 DEF Versions, ValueUnder
  <2> QED
    BY <2>1, <2>2
<1> QED
  BY <1>1 DEF SurvivingDumps, Survives, DumpValue, ValueUnder

LEMMA SurvivesIsNext == TypeOK' /\ Synced' => SurvivingDumps'
  BY SurvivesIs, PTL

\* What a step leaves of the register when it makes or changes no dump.
LEMMA RegisterStays ==
  ASSUME TypeOK, Synced, TypeOK', Synced', dir'["dump"] = dir["dump"],
         dirs \subseteq dirs', \A d \in dirs' : d \in dirs \/ d = dir',
         \A d \in dirs : d["dump"] \in Inodes => data'[d["dump"]] = data[d["dump"]]
  PROVE  DumpValue' = DumpValue /\ Survives' = Survives
<1>1. \A d \in dirs : ValueUnder(d)' = ValueUnder(d)
  BY Facts DEF ValueUnder, FileNames
<1>2. dir \in dirs /\ dir' \in dirs'
  BY DEF TypeOK
<1>3. ValueUnder(dir)' = ValueUnder(dir) /\ ValueUnder(dir') = ValueUnder(dir)
  BY <1>1, <1>2 DEF ValueUnder
<1>4. SurvivingDumps /\ SurvivingDumps'
  BY SurvivesIs, SurvivesIsNext
<1> QED
  BY <1>1, <1>2, <1>3, <1>4 DEF SurvivingDumps

\* A saver that moves on is the same caller, one that returns has ended its call.
LEMMA CallStays ==
  ASSUME NEW s \in Savers, Saving(s), Saving(s)', saver'[s].val = saver[s].val,
         \A t \in Savers : t # s => saver'[t] = saver[t]
  PROVE  Call' = Call
<1>1. \A t \in Savers : [pc |-> IF Saving(t) THEN "saving" ELSE saver[t].pc, val |-> saver[t].val]'
                        = [pc |-> IF Saving(t) THEN "saving" ELSE saver[t].pc, val |-> saver[t].val]
  BY DEF Saving
<1> QED
  BY <1>1 DEF Call

LEMMA CallReturns ==
  ASSUME TypeOK, NEW s \in Savers, NEW result \in Results, Returns(s, result)
  PROVE  Call' = [Call EXCEPT ![s] = [pc |-> result, val |-> NoValue]]
<1>1. saver' = [saver EXCEPT ![s] = [pc |-> result, val |-> NoValue, fd |-> NoInode]]
  BY DEF Returns
<1>2. saver'[s] = [pc |-> result, val |-> NoValue, fd |-> NoInode]
      /\ \A t \in Savers : t # s => saver'[t] = saver[t]
  BY <1>1 DEF TypeOK
<1>3. ~Saving(s)' /\ \A t \in Savers : t # s => (Saving(t)' <=> Saving(t))
  BY <1>2 DEF Saving
<1>4. \A t \in Savers : Call'[t] = IF t = s THEN [pc |-> result, val |-> NoValue] ELSE Call[t]
  BY <1>2, <1>3 DEF Call, Saving
<1> QED
  BY <1>4 DEF Call

LEMMA CallsIs == \A s \in Savers : Register!Calls(s) <=> Saving(s)
  BY DEF Register!Calls, Call, Saving, Results

LEMMA CallEnds ==
  ASSUME TypeOK, NEW s \in Savers, Saving(s), NEW result \in Results, Returns(s, result)
  PROVE  Register!Ends(s, result)
  BY CallReturns, CallsIs DEF Register!Ends

LEMMA InitImplements == Init => Register!Init
<1> SUFFICES ASSUME Init PROVE Register!Init
  OBVIOUS
<1>1. DumpValue = NoValue /\ Survives = {NoValue}
  <2>1. IInv /\ overlap = "no"
    BY InitInv DEF Init
  <2>2. SurvivingDumps
    BY <2>1, SurvivesIs DEF IInv
  <2>3. ValueUnder(dir) = NoValue /\ dirs = {dir}
    BY DEF Init, ValueUnder, FileNames
  <2> QED
    BY <2>2, <2>3 DEF SurvivingDumps
<1>2. damaged = FALSE /\ Call = [s \in Savers |-> [pc |-> "idle", val |-> NoValue]] /\ overlap = "no"
  BY DEF Init, Call, Saving, Results
<1> QED
  BY <1>1, <1>2 DEF Register!Init

\* Saves begin, the daemon ends, the power is lost, a dump is destroyed: a step of the
\* register, whether saves overlap or not.
LEMMA OtherStepImplements ==
  ASSUME IInv,
         \/ \E s \in Savers : BeginEmpty(s) \/ \E v \in Values : Begin(s, v)
         \/ Crash \/ PowerLoss \/ Damage
  PROVE  Register!Next
<1>f. TypeOK /\ Apart /\ saver \in [Savers -> SaverType] /\ dir \in dirs
  BY DEF IInv, TypeOK, SaverType
<1>1. ASSUME NEW s \in Savers, BeginEmpty(s) PROVE Register!SaveNothing(s)
  <2>1. Call' = [Call EXCEPT ![s] = [pc |-> "nothing", val |-> NoValue]]
    BY <1>f, <1>1, CallReturns DEF BeginEmpty, Results
  <2>2. DumpValue' = DumpValue /\ Survives' = Survives /\ UNCHANGED <<damaged, overlap>>
    BY <1>1 DEF BeginEmpty, DumpValue, Survives, Versions
  <2>3. ~Register!Calls(s)
    BY <1>1, CallsIs DEF BeginEmpty
  <2> QED
    BY <2>1, <2>2, <2>3 DEF Register!SaveNothing
<1>2. ASSUME NEW s \in Savers, NEW v \in Values, Begin(s, v) PROVE Register!Save(s, v)
  <2>1. saver'[s].pc = "check" /\ saver'[s].val = v /\ \A t \in Savers : t # s => saver'[t] = saver[t]
    BY <1>f, <1>2 DEF Begin
  <2>2. Call' = [Call EXCEPT ![s] = [pc |-> "saving", val |-> v]]
    <3>1. \A t \in Savers : Call'[t] = IF t = s THEN [pc |-> "saving", val |-> v] ELSE Call[t]
      BY <2>1 DEF Call, Saving, Results
    <3> QED
      BY <3>1 DEF Call
  <2>3. DumpValue' = DumpValue /\ Survives' = Survives /\ damaged' = damaged
    BY <1>2 DEF Begin, DumpValue, Survives, Versions
  <2>4. ~Register!Calls(s)
    BY <1>2, CallsIs DEF Begin
  <2>5. overlap' = IF \E t \in Savers \ {s} : Register!Calls(t) THEN "yes"
                   ELSE IF overlap = "no" THEN "no" ELSE "past"
    <3>1. (\E t \in Savers \ {s} : Saving(t)) <=> \E t \in Savers \ {s} : Register!Calls(t)
      BY CallsIs
    <3> QED
      BY <1>2, <3>1 DEF Begin
  <2> QED
    BY <2>2, <2>3, <2>4, <2>5 DEF Register!Save
<1>3. ASSUME AllIdle PROVE Register!AllIdle
  <2>1. \A s \in Savers : saver'[s] = [pc |-> "idle", val |-> NoValue, fd |-> NoInode]
    BY <1>3 DEF AllIdle
  <2>2. \A s \in Savers : Call'[s] = [pc |-> "idle", val |-> NoValue]
    BY <2>1 DEF Call, Saving, Results
  <2> QED
    BY <2>2 DEF Call, Register!AllIdle
<1>4. ASSUME Crash PROVE Register!Crash
  <2>1. DumpValue' = DumpValue /\ Survives' = Survives /\ UNCHANGED <<damaged, overlap>>
    BY <1>4 DEF Crash, DumpValue, Survives, Versions
  <2> QED
    BY <1>3, <1>4, <2>1 DEF Crash, Register!Crash
<1>5. ASSUME PowerLoss PROVE Register!PowerLoss
  <2>1. PICK d \in dirs :
          /\ dir' = d /\ dirs' = {d}
          /\ \E inDump \in Versions(d, "dump"), inBak \in Versions(d, "bak"), inTmp \in Versions(d, "tmp") :
               data' = [i \in Inodes |-> CASE i = d["dump"] -> inDump
                                           [] i = d["bak"] -> inBak
                                           [] i = d["tmp"] -> inTmp
                                           [] OTHER -> Scrap]
    BY <1>5 DEF PowerLoss
  <2>2. PICK inDump \in Versions(d, "dump"), inBak \in Versions(d, "bak"), inTmp \in Versions(d, "tmp") :
          data' = [i \in Inodes |-> CASE i = d["dump"] -> inDump
                                      [] i = d["bak"] -> inBak
                                      [] i = d["tmp"] -> inTmp
                                      [] OTHER -> Scrap]
    BY <2>1
  <2>3. d["dump"] \in Inodes => data'[d["dump"]] = inDump
    BY <1>f, <2>2 DEF Apart
  <2>4. kept' = [i \in Inodes |-> {data'[i]}] /\ UNCHANGED <<damaged, overlap>> /\ AllIdle
    BY <1>5 DEF PowerLoss
  <2>5. d["dump"] \in Inodes \cup {NoInode}
    BY <1>f, Facts DEF FileNames
  <2>6. DumpValue' = ValueOf(inDump)
    <3>1. CASE d["dump"] = NoInode
      BY <2>1, <2>2, <3>1, ContentsFacts DEF DumpValue, Versions
    <3>2. CASE d["dump"] # NoInode
      BY <2>1, <2>3, <2>5, <3>2 DEF DumpValue
    <3> QED
      BY <3>1, <3>2
  <2>7. DumpValue' \in Survives
    BY <2>1, <2>2, <2>6 DEF Survives
  <2>8. Survives' = {DumpValue'}
    <3>1. Versions(d, "dump")' = IF d["dump"] = NoInode THEN {Scrap} ELSE {data'[d["dump"]]}
      BY <2>4, <2>5 DEF Versions
    <3>2. {ValueOf(c) : c \in Versions(d, "dump")'} = {DumpValue'}
      BY <2>1, <3>1, ContentsFacts DEF DumpValue
    <3> QED
      BY <2>1, <3>2 DEF Survives
  <2> QED
    BY <1>3, <2>4, <2>7, <2>8 DEF Register!PowerLoss
<1>6. ASSUME Damage PROVE Register!Damage
  <2>1. /\ UNCHANGED <<dir, dirs, saver, overlap>> /\ damaged' = TRUE /\ dirs = {dir}
        /\ dir["dump"] \in Inodes
        /\ data' = [data EXCEPT ![dir["dump"]] = Scrap]
        /\ kept' = [kept EXCEPT ![dir["dump"]] = {Scrap}]
    BY <1>f, <1>6, Facts DEF Damage
  <2>2. data'[dir["dump"]] = Scrap /\ kept'[dir["dump"]] = {Scrap} /\ dir["dump"] # NoInode
    BY <1>f, <2>1, DumpAssumption DEF TypeOK
  <2>3. DumpValue' = NoValue
    BY <2>1, <2>2, ContentsFacts DEF DumpValue
  <2>4. Survives' = {NoValue}
    <3>1. Versions(dir, "dump")' = {Scrap}
      BY <2>1, <2>2 DEF Versions
    <3>2. {ValueOf(c) : c \in Versions(dir, "dump")'} = {NoValue}
      BY <3>1, ContentsFacts
    <3> QED
      BY <2>1, <3>2 DEF Survives
  <2>5. Call' = Call
    BY <2>1 DEF Call, Saving
  <2> QED
    BY <2>1, <2>3, <2>4, <2>5 DEF Register!Damage
<1> QED
  BY <1>1, <1>2, <1>4, <1>5, <1>6 DEF Register!Next

\* A save that moves on, with another file or the same, is the same call.
LEMMA SaveMoves ==
  ASSUME TypeOK, NEW s \in Savers, NEW place \in SaverPcs \ Results, Saving(s),
         \/ Goes(s, place)
         \/ \E i \in Inodes \cup {NoInode} : saver' = [saver EXCEPT ![s].pc = place, ![s].fd = i]
  PROVE  Call' = Call
<1>1. saver \in [Savers -> SaverType]
  BY DEF TypeOK, SaverType
<1>2. /\ saver'[s].pc = place /\ saver'[s].val = saver[s].val
      /\ \A t \in Savers : t # s => saver'[t] = saver[t]
  BY <1>1 DEF Goes, SaverType
<1>3. Saving(s)'
  BY <1>2 DEF Saving
<1> QED
  BY <1>2, <1>3, CallStays

\* Saves that overlap, or have: nothing is promised, until one that runs alone returns Ok.
LEMMA OverlapImplements ==
  ASSUME IInv, overlap # "no",
         WriteBack \/ \E s \in Savers : \/ Check(s) \/ CopyOpen(s) \/ CopyWrite(s) \/ Open(s)
                                        \/ Write(s) \/ Sync(s) \/ Rename(s) \/ DirSync(s)
  PROVE  Register!Next
<1>f. TypeOK /\ saver \in [Savers -> SaverType] /\ dir \in dirs
  BY DEF IInv, TypeOK, SaverType
<1>v. DumpValue' \in Register!Saved /\ Survives' \subseteq Register!Saved
  BY AnyValueNext
<1>1. ASSUME Call' = Call, UNCHANGED <<damaged, overlap>> PROVE Register!Disturb
  BY <1>1, <1>v DEF Register!Disturb
<1>2. ASSUME NEW s \in Savers, Saving(s), Returns(s, "err"), UNCHANGED <<damaged, overlap>>
      PROVE  Register!Fail(s)
  BY <1>f, <1>v, <1>2, CallEnds DEF Register!Fail, Register!Holds, Results
<1>3. ASSUME WriteBack PROVE Register!Disturb
  <2>1. Call' = Call /\ UNCHANGED <<damaged, overlap>>
    BY <1>3 DEF WriteBack, Call, Saving
  <2> QED
    BY <1>1, <2>1
<1>4. ASSUME NEW s \in Savers, Check(s) \/ CopyOpen(s) \/ CopyWrite(s) \/ Open(s)
      PROVE  Register!Disturb
  <2>1. Saving(s) /\ UNCHANGED <<damaged, overlap>>
    BY <1>4 DEF Check, CopyOpen, CopyWrite, Open, Saving, Results
  <2>2. CASE Check(s)
    <3>1. PICK place \in {"copyOpen", "open"} : Goes(s, place)
      BY <2>2 DEF Check
    <3> QED
      BY <1>f, <1>1, <2>1, <3>1, SaveMoves DEF SaverPcs, Results
  <2>3. CASE CopyOpen(s)
    BY <1>f, <1>1, <2>1, <2>3, Facts, SaveMoves DEF CopyOpen, SaverPcs, Results
  <2>4. CASE CopyWrite(s)
    BY <1>f, <1>1, <2>1, <2>4, SaveMoves DEF CopyWrite, SaverPcs, Results
  <2>5. CASE Open(s)
    BY <1>f, <1>1, <2>1, <2>5, SaveMoves DEF Open, SaverPcs, Results
  <2> QED
    BY <1>4, <2>2, <2>3, <2>4, <2>5
<1>5. ASSUME NEW s \in Savers, Write(s) \/ Sync(s) \/ Rename(s)
      PROVE  Register!Disturb \/ Register!Fail(s)
  <2>1. Saving(s) /\ UNCHANGED <<damaged, overlap>>
    BY <1>5 DEF Write, Sync, Rename, Saving, Results
  <2>2. Returns(s, "err") \/ \E place \in {"sync", "rename", "dirSync"} : Goes(s, place)
    BY <1>5 DEF Write, Sync, Rename
  <2>3. CASE \E place \in {"sync", "rename", "dirSync"} : Goes(s, place)
    BY <1>f, <1>1, <2>1, <2>3, SaveMoves DEF SaverPcs, Results
  <2> QED
    BY <1>2, <2>1, <2>2, <2>3
<1>6. ASSUME NEW s \in Savers, DirSync(s) PROVE Register!Acknowledge(s)
  <2>1. /\ Settles(dir) /\ dir' = dir /\ Returns(s, "ok") /\ saver[s].pc = "dirSync"
        /\ damaged' = FALSE /\ overlap' = IF overlap = "past" THEN "no" ELSE overlap
    BY <1>6 DEF DirSync
  <2>2. Saving(s) /\ Register!Ends(s, "ok")
    BY <1>f, <2>1, CallEnds DEF Saving, Results
  <2>3. DumpValue' = DumpValue
    BY <1>f, <2>1, SettlesKeeps
  <2>4. ASSUME overlap # "yes" PROVE DumpValue = Call[s].val /\ Survives' = {DumpValue}
    <3>1. /\ dir["dump"] \in Inodes /\ DumpValue = saver[s].val
          /\ kept[dir["dump"]] = {data[dir["dump"]]}
      BY <2>1, <2>4 DEF IInv, Progress
    <3>2. DumpValue = Call[s].val
      BY <3>1 DEF Call
    <3>3. dirs' = {dir} /\ kept'[dir["dump"]] = {data[dir["dump"]]}
      BY <1>f, <2>1, <3>1, SettlesKeeps DEF FileNames
    <3>4. dir["dump"] # NoInode
      BY <3>1, DumpAssumption
    <3>5. Versions(dir, "dump")' = {data[dir["dump"]]} /\ DumpValue = ValueOf(data[dir["dump"]])
      BY <2>1, <3>3, <3>4 DEF Versions, DumpValue
    <3>6. {ValueOf(c) : c \in Versions(dir, "dump")'} = {DumpValue}
      BY <3>5
    <3> QED
      BY <2>1, <3>2, <3>3, <3>6 DEF Survives
  <2> QED
    BY <1>v, <2>1, <2>2, <2>3, <2>4 DEF Register!Acknowledge
<1> QED
  BY <1>3, <1>4, <1>5, <1>6 DEF Register!Next

\* Saves that do not overlap: only the rename changes the register.
LEMMA AloneImplements ==
  ASSUME IInv, IInv', overlap = "no",
         WriteBack \/ \E s \in Savers : \/ Check(s) \/ CopyOpen(s) \/ CopyWrite(s) \/ Open(s)
                                        \/ Write(s) \/ Sync(s) \/ Rename(s) \/ DirSync(s)
  PROVE  Register!Next \/ UNCHANGED Register!vars
<1>f. /\ TypeOK /\ Apart /\ Synced /\ BackupIsOne
      /\ \A s \in Savers : Place(s) /\ Progress(s)
      /\ TypeOK' /\ saver \in [Savers -> SaverType]
      /\ dir \in dirs /\ dir' \in dirs'
  BY DEF IInv, TypeOK, SaverType
<1>o. overlap' = "no"
  BY DEF WriteBack, Check, CopyOpen, CopyWrite, Open, Write, Sync, Rename, DirSync
<1>n. Synced'
  BY <1>o DEF IInv
<1>v. SurvivingDumps /\ SurvivingDumps'
  BY <1>f, <1>n, SurvivesIs, SurvivesIsNext
<1>1. ASSUME NEW s \in Savers, Check(s) \/ CopyOpen(s) \/ CopyWrite(s) \/ Open(s)
      PROVE  UNCHANGED Register!vars
  <2>1. Saving(s) /\ damaged' = damaged
    BY <1>1 DEF Check, CopyOpen, CopyWrite, Open, Saving, Results
  <2>2. CASE Check(s)
    <3>1. PICK place \in {"copyOpen", "open"} : Goes(s, place)
      BY <2>2 DEF Check
    <3>2. Call' = Call
      BY <1>f, <2>1, <3>1, SaveMoves DEF SaverPcs, Results
    <3>3. DumpValue' = DumpValue /\ Survives' = Survives
      BY <2>2 DEF Check, DumpValue, Survives, Versions
    <3> QED
      BY <1>o, <2>1, <3>2, <3>3 DEF Register!vars
  <2>3. CASE CopyOpen(s) \/ Open(s)
    <3>1. PICK name \in {"bak", "tmp"}, i \in Inodes : Truncates(name, i)
      BY <2>3 DEF CopyOpen, Open
    <3>2. DumpValue' = DumpValue /\ Survives' = Survives
      BY <1>f, <1>n, <3>1, TruncatesKeeps, RegisterStays
    <3>3. Call' = Call
      BY <1>f, <2>1, <2>3, Facts, SaveMoves DEF CopyOpen, Open, SaverPcs, Results
    <3> QED
      BY <1>o, <2>1, <3>2, <3>3 DEF Register!vars
  <2>4. CASE CopyWrite(s)
    <3>1. PICK c \in {data[saver[s].fd], Scrap} : Changes(dir["bak"], c)
      BY <2>4 DEF CopyWrite
    <3>2. c \in Contents
      BY <1>f, <2>4, <3>1, ContentsFacts DEF TypeOK, CopyWrite, Place
    <3>3. UNCHANGED <<dir, dirs>>
      BY <2>4 DEF CopyWrite
    <3>4. \A d \in dirs : d["dump"] \in Inodes => data'[d["dump"]] = data[d["dump"]]
      BY <1>f, <3>1, <3>2, <3>3, ChangesKeeps
    <3>5. DumpValue' = DumpValue /\ Survives' = Survives
      BY <1>f, <1>n, <3>3, <3>4, RegisterStays
    <3>6. Call' = Call
      BY <1>f, <2>1, <2>4, SaveMoves DEF CopyWrite, SaverPcs, Results
    <3> QED
      BY <1>o, <2>1, <3>5, <3>6 DEF Register!vars
  <2> QED
    BY <1>1, <2>2, <2>3, <2>4
<1>2. ASSUME NEW s \in Savers, Write(s) \/ Sync(s)
      PROVE  UNCHANGED Register!vars \/ Register!Fail(s)
  <2>1. Saving(s) /\ damaged' = damaged
    BY <1>2 DEF Write, Sync, Saving, Results
  <2>2. DumpValue' = DumpValue /\ Survives' = Survives
    <3>1. UNCHANGED <<dir, dirs>>
      BY <1>2 DEF Write, Sync
    <3>2. \A d \in dirs : d["dump"] \in Inodes => data'[d["dump"]] = data[d["dump"]]
      BY <1>f, <1>2 DEF Write, Sync, Changes, Progress, Apart, TypeOK
    <3> QED
      BY <1>f, <1>n, <3>1, <3>2, RegisterStays
  <2>3. Returns(s, "err") \/ \E place \in {"sync", "rename"} : Goes(s, place)
    BY <1>2 DEF Write, Sync
  <2>4. CASE Returns(s, "err")
    <3>1. Register!Ends(s, "err")
      BY <1>f, <2>1, <2>4, CallEnds DEF Results
    <3>2. DumpValue' \in Register!Saved /\ Survives' \subseteq Register!Saved
      BY AnyValueNext
    <3> QED
      BY <1>o, <2>1, <2>2, <3>1, <3>2 DEF Register!Fail, Register!Holds
  <2>5. CASE \E place \in {"sync", "rename"} : Goes(s, place)
    <3>1. Call' = Call
      BY <1>f, <2>1, <2>5, SaveMoves DEF SaverPcs, Results
    <3> QED
      BY <1>o, <2>1, <2>2, <3>1 DEF Register!vars
  <2> QED
    BY <2>3, <2>4, <2>5
<1>3. ASSUME NEW s \in Savers, Rename(s) PROVE Register!Commit(s)
  <2> DEFINE v == saver[s].val
  <2>1. dir["tmp"] \in Inodes /\ ValueOf(data[dir["tmp"]]) = v /\ Saving(s)
    BY <1>f, <1>3 DEF Rename, Progress, Place, Saving, Results
  <2>2. /\ dir' = [dir EXCEPT !["dump"] = dir["tmp"], !["tmp"] = NoInode]
        /\ dirs' = dirs \cup {dir'} /\ Goes(s, "dirSync")
        /\ UNCHANGED <<data, kept, damaged, ever, cut>>
    BY <1>3, <2>1, DumpAssumption DEF Rename, Links
  <2>3. dir'["dump"] = dir["tmp"]
    BY <1>f, <2>2 DEF TypeOK, Directories, FileNames
  <2>4. /\ \A d \in dirs : ValueUnder(d)' = ValueUnder(d)
        /\ ValueUnder(dir') = v /\ ValueUnder(dir)' = v
    BY <2>1, <2>2, <2>3, DumpAssumption DEF ValueUnder
  <2>5. DumpValue' = v /\ Survives' = Survives \cup {v}
    BY <1>v, <2>2, <2>4 DEF SurvivingDumps, ValueUnder
  <2>6. Call' = Call
    BY <1>f, <2>1, <2>2, SaveMoves DEF SaverPcs, Results
  <2>7. Register!Calls(s) /\ Call[s].val = v
    BY <2>1, CallsIs DEF Call
  <2> QED
    BY <1>o, <2>2, <2>5, <2>6, <2>7 DEF Register!Commit
<1>4. ASSUME NEW s \in Savers, DirSync(s) PROVE Register!Acknowledge(s)
  <2>1. Settles(dir) /\ dir' = dir /\ Returns(s, "ok") /\ damaged' = FALSE /\ saver[s].pc = "dirSync"
    BY <1>4 DEF DirSync
  <2>2. Register!Ends(s, "ok")
    BY <1>f, <2>1, CallEnds DEF Saving, Results
  <2>3. DumpValue = Call[s].val
    BY <1>f, <2>1 DEF Call, Progress
  <2>4. DumpValue' = DumpValue /\ dirs' = {dir'}
    BY <1>f, <2>1, SettlesKeeps
  <2>5. Survives' = {DumpValue'}
    BY <1>v, <2>4 DEF SurvivingDumps
  <2> QED
    BY <1>o, <2>1, <2>2, <2>3, <2>4, <2>5 DEF Register!Acknowledge
<1>5. ASSUME WriteBack PROVE UNCHANGED Register!vars \/ Register!Settle
  <2>1. UNCHANGED <<dir, saver, damaged>>
    BY <1>5 DEF WriteBack
  <2>2. Call' = Call
    BY <2>1 DEF Call, Saving
  <2>3. CASE UNCHANGED <<dirs, data>>
    BY <1>f, <1>n, <1>o, <2>1, <2>2, <2>3, RegisterStays DEF Register!vars
  <2>4. CASE Settles(dir)
    <3>1. DumpValue' = DumpValue /\ dirs' = {dir'}
      BY <1>f, <2>1, <2>4, SettlesKeeps
    <3>2. Survives' = {DumpValue}
      BY <1>v, <3>1 DEF SurvivingDumps
    <3> QED
      BY <1>o, <2>1, <2>2, <3>1, <3>2 DEF Register!Settle
  <2> QED
    BY <1>5, <2>3, <2>4 DEF WriteBack
<1> QED
  BY <1>1, <1>2, <1>3, <1>4, <1>5 DEF Register!Next

\* Every step of the code is one of the register or none.
LEMMA StepImplements ==
  IInv /\ IInv' /\ [Next]_vars => [Register!Next]_(Register!vars)
<1> SUFFICES ASSUME IInv, IInv', [Next]_vars PROVE [Register!Next]_(Register!vars)
  OBVIOUS
<1>1. CASE UNCHANGED vars
  <2>1. Call' = Call /\ DumpValue' = DumpValue /\ Survives' = Survives /\ UNCHANGED <<damaged, overlap>>
    BY <1>1 DEF vars, Call, Saving, DumpValue, Survives, Versions
  <2> QED
    BY <2>1 DEF Register!vars
<1>2. CASE \/ \E s \in Savers : BeginEmpty(s) \/ \E v \in Values : Begin(s, v)
           \/ Crash \/ PowerLoss \/ Damage
  BY <1>2, OtherStepImplements
<1>3. CASE WriteBack \/ \E s \in Savers : \/ Check(s) \/ CopyOpen(s) \/ CopyWrite(s) \/ Open(s)
                                          \/ Write(s) \/ Sync(s) \/ Rename(s) \/ DirSync(s)
  BY <1>3, OverlapImplements, AloneImplements
<1> QED
  BY <1>1, <1>2, <1>3 DEF Next, SaveStep

\* For any tables, any moments of crashes and power losses and any number of saves at
\* once, the dump file is a register that is atomic and durable for saves that do not
\* overlap, and again once one that runs alone has returned Ok (dump.rs:58-80).
THEOREM DumpIsDurable == Spec => AtomicAndDurable
<1> QED
  BY InitImplements, InvHolds, StepImplements, PTL DEF Spec, AtomicAndDurable, Register!Spec
-----------------------------------------------------------------------------
(* What resurrect finds.                                                   *)

NoDump(d) == d["dump"] \notin Inodes \/ ~Parses(data[d["dump"]])
GoodBackup(d) ==
  d["bak"] \in Inodes /\ Parses(data[d["bak"]]) /\ \A c \in kept[d["bak"]] : Parses(c)

\* When no saves overlap and a dump does not parse, somebody has destroyed it, each
\* directory has a good backup and no save is about to touch it.
BackedUp ==
  ever /\ ~cut /\ overlap = "no" /\ (\E d \in dirs : NoDump(d)) =>
    /\ damaged
    /\ \A d \in dirs : GoodBackup(d)
    /\ \A s \in Savers : saver[s].pc \notin {"copyOpen", "copyWrite"}
    /\ NoDump(dir) \/ \E s \in Savers : saver[s].pc = "dirSync"

EInv == IInv /\ BackedUp

\* A step that leaves the dumps and backups alone, and is no step of fs::copy.
LEMMA BackedUpStays ==
  ASSUME TypeOK, BackupIsOne, BackedUp, overlap = "no", UNCHANGED <<damaged, ever, cut>>,
         dir'["bak"] = dir["bak"], dir'["dump"] = dir["dump"],
         \A d \in dirs' : d \in dirs \/ d = dir',
         \A d \in dirs : d["dump"] \in Inodes => data'[d["dump"]] = data[d["dump"]],
         dir["bak"] \in Inodes =>
           data'[dir["bak"]] = data[dir["bak"]] /\ kept'[dir["bak"]] \subseteq kept[dir["bak"]] \cup {data[dir["bak"]]},
         \A s \in Savers : saver'[s].pc = "copyOpen" => Parses(data[dir["dump"]]) /\ dir["dump"] \in Inodes,
         \A s \in Savers : saver'[s].pc # "copyWrite",
         \A s \in Savers : saver[s].pc # "dirSync"
  PROVE  BackedUp'
<1>1. dir \in dirs
  BY DEF TypeOK
<1>2. /\ \A d \in dirs : NoDump(d)' <=> NoDump(d)
      /\ NoDump(dir)' <=> NoDump(dir)
  BY <1>1 DEF NoDump
<1>3. SUFFICES ASSUME ever, ~cut, \E d \in dirs' : NoDump(d)' PROVE BackedUp'
  BY DEF BackedUp
<1>4. \E d \in dirs : NoDump(d)
  BY <1>1, <1>2, <1>3
<1>5. damaged /\ NoDump(dir) /\ \A d \in dirs : GoodBackup(d)
  BY <1>3, <1>4 DEF BackedUp
<1>6. \A s \in Savers : saver'[s].pc \notin {"copyOpen", "copyWrite"}
  BY <1>5 DEF NoDump
<1>7. \A d \in dirs' : d["bak"] = dir["bak"]
  BY <1>1, <1>5 DEF BackupIsOne, GoodBackup
<1>8. \A d \in dirs' : GoodBackup(d)'
  BY <1>1, <1>5, <1>7 DEF GoodBackup
<1> QED
  BY <1>2, <1>5, <1>6, <1>8 DEF BackedUp

\* A save that runs alone has ended: there is a dump, and no other.
LEMMA DirSyncBacksUp ==
  ASSUME IInv, NEW s \in Savers, DirSync(s)
  PROVE  BackedUp'
<1>1. SUFFICES ASSUME overlap' = "no" PROVE BackedUp'
  BY DEF BackedUp
<1>2. TypeOK /\ Progress(s) /\ Place(s) /\ saver[s].pc = "dirSync"
  BY <1>1 DEF IInv, DirSync
<1>3. dirs' = {dir'} /\ dir' = dir /\ Settles(dir)
  BY DEF DirSync, Settles
<1>4. dir["dump"] \in Inodes /\ DumpValue \in Values
  BY <1>2 DEF Progress, Place, Saving, Results
<1>5. Parses(data[dir["dump"]])
  BY <1>4, DumpAssumption DEF DumpValue, Parses
<1>6. data'[dir["dump"]] = data[dir["dump"]]
  BY <1>2, <1>3, <1>4, SettlesKeeps DEF FileNames
<1> QED
  BY <1>3, <1>4, <1>5, <1>6 DEF BackedUp, NoDump

LEMMA EverStep == EInv /\ IInv' /\ [Next]_vars => EInv'
<1> SUFFICES ASSUME EInv, IInv', [Next]_vars PROVE BackedUp'
  BY DEF EInv
<1>0. CASE \E s \in Savers : DirSync(s)
  BY <1>0, DirSyncBacksUp DEF EInv
<1> SUFFICES ASSUME \A s \in Savers : ~DirSync(s) PROVE BackedUp'
  BY <1>0
<1> SUFFICES ASSUME overlap' = "no" PROVE BackedUp'
  BY DEF BackedUp
<1>o. overlap = "no"
  BY DEF Next, SaveStep, vars, BeginEmpty, Begin, Check, CopyOpen, CopyWrite, Open, Write, Sync, Rename,
         Crash, PowerLoss, WriteBack, Damage
<1>f. /\ TypeOK /\ Apart /\ Synced /\ \A s \in Savers : Progress(s) /\ Place(s)
      /\ TypeOK' /\ BackupIsOne /\ BackedUp
      /\ saver \in [Savers -> SaverType] /\ saver' \in [Savers -> SaverType]
      /\ dir \in dirs /\ dir' \in dirs'
  BY <1>o DEF EInv, IInv, TypeOK, SaverType
<1>a. \A d \in dirs : d["bak"] \in Inodes => d["bak"] # dir["tmp"] /\ d["bak"] # d["dump"] /\ d["bak"] = dir["bak"]
  BY <1>f DEF Apart, BackupIsOne
<1>s. ASSUME NEW s \in Savers, Saving(s), NEW t \in Savers, t # s PROVE saver[t].pc \in Results
  BY <1>o, <1>s DEF EInv, IInv, AtMostOne, Saving
<1>1. ASSUME NEW s \in Savers, BeginEmpty(s) PROVE BackedUp'
  <2>1. UNCHANGED <<dir, dirs, data, kept, damaged, ever, cut, overlap>>
    BY <1>1 DEF BeginEmpty
  <2>2. saver[s].pc # "dirSync" /\ saver'[s].pc = "nothing" /\ \A t \in Savers : t # s => saver'[t] = saver[t]
    BY <1>f, <1>1 DEF BeginEmpty, Returns, Saving, Results
  <2>3. \A d \in dirs : (NoDump(d)' <=> NoDump(d)) /\ (GoodBackup(d)' <=> GoodBackup(d))
    BY <2>1 DEF NoDump, GoodBackup
  <2>4. NoDump(dir)' <=> NoDump(dir)
    BY <2>1 DEF NoDump
  <2> QED
    BY <1>f, <2>1, <2>2, <2>3, <2>4 DEF BackedUp
<1>2. ASSUME NEW s \in Savers, NEW v \in Values, Begin(s, v) PROVE BackedUp'
  <2>1. UNCHANGED <<dir, dirs, data, kept, damaged, ever, cut>>
    BY <1>2 DEF Begin
  <2>2. \A t \in Savers : saver[t].pc \in Results
    BY <1>2 DEF Begin, Saving
  <2>3. saver'[s].pc = "check" /\ \A t \in Savers : t # s => saver'[t] = saver[t]
    BY <1>f, <1>2 DEF Begin
  <2>4. \A t \in Savers : saver[t].pc # "dirSync" /\ saver'[t].pc \notin {"copyOpen", "copyWrite"}
    BY <2>2, <2>3 DEF Results
  <2> QED
    BY <1>o, <1>f, <2>1, <2>4, BackedUpStays
<1>3. ASSUME NEW s \in Savers, Check(s) PROVE BackedUp'
  <2> DEFINE good == dir["dump"] # NoInode /\ Parses(data[dir["dump"]])
  <2>1. UNCHANGED <<dir, dirs, data, kept, damaged, ever, cut>> /\ Saving(s) /\ saver[s].pc # "dirSync"
    BY <1>3 DEF Check, Saving, Results
  <2>2. (saver'[s].pc = "copyOpen" /\ good) \/ saver'[s].pc = "open"
    <3>1. CASE good
      <4>1. Goes(s, "copyOpen")
        BY <1>3, <3>1, Zenon DEF Check
      <4> QED
        BY <1>f, <3>1, <4>1 DEF Goes, SaverType
    <3>2. CASE ~good
      <4>1. Goes(s, "open")
        BY <1>3, <3>2, Zenon DEF Check
      <4> QED
        BY <1>f, <4>1 DEF Goes, SaverType
    <3> QED
      BY <3>1, <3>2
  <2>3. \A t \in Savers : t # s => saver'[t] = saver[t]
    BY <1>f, <1>3 DEF Check, Goes
  <2>4. \A t \in Savers : t # s => saver[t].pc \in Results
    BY <1>s, <2>1
  <2>5. \A t \in Savers : /\ saver[t].pc # "dirSync" /\ saver'[t].pc # "copyWrite"
                          /\ saver'[t].pc = "copyOpen" => good
    BY <2>1, <2>2, <2>3, <2>4 DEF Results
  <2>6. good => dir["dump"] \in Inodes /\ Parses(data[dir["dump"]])
    BY <1>f, Facts
  <2> QED
    BY <1>o, <1>f, <2>1, <2>5, <2>6, BackedUpStays
<1>4. ASSUME NEW s \in Savers, CopyOpen(s) PROVE BackedUp'
  <2>1. PICK i \in Inodes : Truncates("bak", i)
    BY <1>4 DEF CopyOpen
  <2>2. /\ dir'["dump"] = dir["dump"]
        /\ \A d \in dirs' : d \in dirs \/ d = dir'
        /\ \A d \in dirs' : d["dump"] \in Inodes => data'[d["dump"]] = data[d["dump"]]
    BY <1>f, <2>1, TruncatesKeeps
  <2>3. ever /\ ~cut => \A d \in dirs : ~NoDump(d)
    BY <1>o, <1>f, <1>4 DEF BackedUp, CopyOpen
  <2>4. ever' /\ ~cut' => \A d \in dirs' : ~NoDump(d)'
    BY <1>f, <1>4, <2>2, <2>3 DEF CopyOpen, NoDump
  <2> QED
    BY <2>4 DEF BackedUp
<1>5. ASSUME NEW s \in Savers, CopyWrite(s) PROVE BackedUp'
  <2>1. UNCHANGED <<dir, dirs, damaged, ever, cut>> /\ dir["bak"] \in Inodes
    BY <1>f, <1>5 DEF CopyWrite, Place
  <2>2. \A d \in dirs : d["dump"] \in Inodes => data'[d["dump"]] = data[d["dump"]]
    BY <1>f, <1>5, <2>1 DEF CopyWrite, Changes, Apart, TypeOK
  <2>3. ever /\ ~cut => \A d \in dirs : ~NoDump(d)
    BY <1>o, <1>f, <1>5 DEF BackedUp, CopyWrite
  <2>4. ever' /\ ~cut' => \A d \in dirs' : ~NoDump(d)'
    BY <2>1, <2>2, <2>3 DEF NoDump
  <2> QED
    BY <2>4 DEF BackedUp
<1>6. ASSUME NEW s \in Savers, Open(s) PROVE BackedUp'
  <2>1. PICK i \in Inodes : Truncates("tmp", i) /\ saver' = [saver EXCEPT ![s].pc = "write", ![s].fd = i]
    BY <1>6 DEF Open
  <2>2. dir["bak"] \in Inodes => i # dir["bak"]
    BY <1>f, <1>a, <2>1 DEF Truncates, Free, FileNames
  <2>3. dir["bak"] \in Inodes => data'[dir["bak"]] = data[dir["bak"]] /\ kept'[dir["bak"]] = kept[dir["bak"]]
    BY <1>f, <2>1, <2>2 DEF Truncates, Changes, TypeOK
  <2>4. /\ dir'["dump"] = dir["dump"] /\ dir'["bak"] = dir["bak"] /\ dirs \subseteq dirs'
        /\ \A d \in dirs' : d \in dirs \/ d = dir'
        /\ \A d \in dirs' : d["dump"] \in Inodes => data'[d["dump"]] = data[d["dump"]]
    BY <1>f, <2>1, TruncatesKeeps DEF FileNames
  <2>5. /\ UNCHANGED <<damaged, ever, cut>> /\ saver[s].pc # "dirSync" /\ saver'[s].pc = "write" /\ Saving(s)
        /\ \A t \in Savers : t # s => saver'[t] = saver[t]
    BY <1>f, <1>6, <2>1 DEF Open, SaverType, Saving, Results
  <2>6. \A t \in Savers : saver[t].pc # "dirSync" /\ saver'[t].pc \notin {"copyOpen", "copyWrite"}
    BY <1>s, <2>5 DEF Results
  <2> QED
    BY <1>o, <1>f, <2>3, <2>4, <2>5, <2>6, BackedUpStays
<1>7. ASSUME NEW s \in Savers, Write(s) \/ Sync(s) PROVE BackedUp'
  <2>1. saver[s].fd = dir["tmp"] /\ dir["tmp"] \in Inodes /\ UNCHANGED <<dir, dirs, damaged, ever, cut>>
    BY <1>f, <1>7 DEF Write, Sync, Progress, Place
  <2>2. /\ \A d \in dirs : d["dump"] \in Inodes => data'[d["dump"]] = data[d["dump"]]
        /\ dir["bak"] \in Inodes => data'[dir["bak"]] = data[dir["bak"]] /\ kept'[dir["bak"]] = kept[dir["bak"]]
    BY <1>f, <1>a, <1>7, <2>1 DEF Write, Sync, Changes, Apart, TypeOK
  <2>3. saver[s].pc # "dirSync" /\ saver'[s].pc \in {"sync", "rename", "err"} /\ Saving(s)
    BY <1>f, <1>7 DEF Write, Sync, Goes, Returns, SaverType, Saving, Results
  <2>4. \A t \in Savers : t # s => saver'[t] = saver[t]
    BY <1>f, <1>7 DEF Write, Sync, Goes, Returns
  <2>5. \A t \in Savers : saver[t].pc # "dirSync" /\ saver'[t].pc \notin {"copyOpen", "copyWrite"}
    BY <1>s, <2>3, <2>4 DEF Results
  <2> QED
    BY <1>o, <1>f, <2>1, <2>2, <2>5, BackedUpStays
<1>8. ASSUME NEW s \in Savers, Rename(s) PROVE BackedUp'
  <2>1. dir["tmp"] \in Inodes /\ ValueOf(data[dir["tmp"]]) \in Values /\ Saving(s)
    BY <1>f, <1>8 DEF Rename, Progress, Place, Saving, Results
  <2>2. /\ dir' = [dir EXCEPT !["dump"] = dir["tmp"], !["tmp"] = NoInode]
        /\ dirs' = dirs \cup {dir'} /\ Goes(s, "dirSync")
        /\ UNCHANGED <<data, kept, damaged, ever, cut>>
    BY <1>8, <2>1, DumpAssumption DEF Rename, Links
  <2>3. dir'["dump"] = dir["tmp"] /\ dir'["bak"] = dir["bak"]
    BY <1>f, <2>2 DEF TypeOK, Directories, FileNames
  <2>4. ~NoDump(dir')
    BY <2>1, <2>3, DumpAssumption DEF NoDump, Parses
  <2>5. SUFFICES ASSUME ever, ~cut, \E d \in dirs' : NoDump(d)' PROVE BackedUp'
    BY <2>2 DEF BackedUp
  <2>6. \E d \in dirs : NoDump(d)
    BY <2>2, <2>4, <2>5 DEF NoDump
  <2>7. damaged /\ \A d \in dirs : GoodBackup(d)
    BY <1>o, <1>f, <2>5, <2>6 DEF BackedUp
  <2>8. \A d \in dirs' : GoodBackup(d)'
    BY <1>f, <2>2, <2>3, <2>7 DEF GoodBackup
  <2>9. saver'[s].pc = "dirSync" /\ \A t \in Savers : t # s => saver'[t] = saver[t]
    BY <1>f, <2>2 DEF Goes
  <2>10. \A t \in Savers : saver'[t].pc \notin {"copyOpen", "copyWrite"}
    BY <1>s, <2>1, <2>9 DEF Results
  <2> QED
    BY <2>2, <2>7, <2>8, <2>9, <2>10 DEF BackedUp
<1>9. ASSUME Crash PROVE BackedUp'
  <2>1. /\ UNCHANGED <<dir, dirs, data, kept, damaged, ever>>
        /\ cut' = (cut \/ (damaged /\ \E s \in Savers : saver[s].pc = "dirSync"))
        /\ \A s \in Savers : saver'[s].pc = "idle"
    BY <1>9 DEF Crash, AllIdle
  <2>2. \A d \in dirs : (NoDump(d)' <=> NoDump(d)) /\ (GoodBackup(d)' <=> GoodBackup(d))
    BY <2>1 DEF NoDump, GoodBackup
  <2>3. NoDump(dir)' <=> NoDump(dir)
    BY <2>1 DEF NoDump
  <2> QED
    BY <1>o, <1>f, <2>1, <2>2, <2>3 DEF BackedUp
<1>10. ASSUME PowerLoss PROVE BackedUp'
  <2>1. PICK d \in dirs :
          /\ dir' = d /\ dirs' = {d}
          /\ \E inDump \in Versions(d, "dump"), inBak \in Versions(d, "bak"), inTmp \in Versions(d, "tmp") :
               data' = [i \in Inodes |-> CASE i = d["dump"] -> inDump
                                           [] i = d["bak"] -> inBak
                                           [] i = d["tmp"] -> inTmp
                                           [] OTHER -> Scrap]
    BY <1>10 DEF PowerLoss
  <2>2. /\ kept' = [i \in Inodes |-> {data'[i]}] /\ UNCHANGED <<damaged, ever, cut>>
        /\ \A s \in Savers : saver'[s].pc = "idle"
    BY <1>10 DEF PowerLoss, AllIdle
  <2>3. d["dump"] \in Inodes => data'[d["dump"]] = data[d["dump"]]
    BY <1>f, <2>1, DumpAssumption DEF Synced, Versions
  <2>4. GoodBackup(d) => GoodBackup(d)'
    BY <1>f, <1>a, <2>1, <2>2, DumpAssumption DEF GoodBackup, Versions
  <2>5. NoDump(d)' => NoDump(d)
    BY <2>3 DEF NoDump
  <2>6. NoDump(dir)' <=> NoDump(d)'
    BY <2>1 DEF NoDump
  <2> QED
    BY <1>o, <1>f, <2>1, <2>2, <2>4, <2>5, <2>6 DEF BackedUp
<1>11. ASSUME WriteBack PROVE BackedUp'
  <2>1. UNCHANGED <<dir, saver, damaged, ever, cut>>
    BY <1>11 DEF WriteBack
  <2>2. CASE Settles(dir)
    <3>1. /\ dirs' = {dir}
          /\ \A i \in Inodes : Held(dir, i) => data'[i] = data[i] /\ kept'[i] = kept[i]
      BY <1>f, <2>1, <2>2, SettlesKeeps
    <3>2. /\ dir["dump"] \in Inodes => Held(dir, dir["dump"])
          /\ dir["bak"] \in Inodes => Held(dir, dir["bak"])
      BY DEF Held, FileNames
    <3>3. (NoDump(dir)' <=> NoDump(dir)) /\ (GoodBackup(dir)' <=> GoodBackup(dir))
      BY <2>1, <3>1, <3>2 DEF NoDump, GoodBackup
    <3>4. \A d \in dirs' : (NoDump(d)' <=> NoDump(dir)) /\ (GoodBackup(d)' <=> GoodBackup(dir))
      BY <2>1, <3>1, <3>3 DEF NoDump, GoodBackup
    <3> QED
      BY <1>o, <1>f, <2>1, <3>1, <3>3, <3>4 DEF BackedUp
  <2>3. CASE (\E i \in Inodes : kept' = [kept EXCEPT ![i] = {data[i]}]) /\ UNCHANGED <<dirs, data>>
    <3>1. \A d \in dirs : (NoDump(d)' <=> NoDump(d)) /\ (GoodBackup(d) => GoodBackup(d)')
      BY <1>f, <2>1, <2>3 DEF NoDump, GoodBackup, TypeOK
    <3>2. NoDump(dir)' <=> NoDump(dir)
      BY <2>1, <2>3 DEF NoDump
    <3> QED
      BY <1>o, <1>f, <2>1, <2>3, <3>1, <3>2 DEF BackedUp
  <2> QED
    BY <1>11, <2>2, <2>3 DEF WriteBack
<1>12. ASSUME Damage PROVE BackedUp'
  <2>1. /\ UNCHANGED <<dir, dirs, saver, ever, cut>> /\ damaged' = TRUE /\ dirs = {dir}
        /\ data' = [data EXCEPT ![dir["dump"]] = Scrap]
        /\ kept' = [kept EXCEPT ![dir["dump"]] = {Scrap}]
        /\ dir["dump"] \in Inodes /\ GoodBackup(dir)
    BY <1>f, <1>12, Facts DEF Damage, GoodBackup, FileNames
  <2>2. GoodBackup(dir)' /\ NoDump(dir)'
    BY <1>f, <1>a, <2>1, ContentsFacts DEF GoodBackup, NoDump, TypeOK
  <2>3. \A d \in dirs' : GoodBackup(d)'
    BY <2>1, <2>2 DEF GoodBackup
  <2>4. \A s \in Savers : saver'[s].pc \notin {"copyOpen", "copyWrite"}
    BY <1>12, <2>1 DEF Damage, Saving, Results
  <2> QED
    BY <1>o, <1>f, <2>1, <2>2, <2>3, <2>4 DEF BackedUp
<1>13. CASE UNCHANGED vars
  <2>1. \A d \in dirs : (NoDump(d)' <=> NoDump(d)) /\ (GoodBackup(d)' <=> GoodBackup(d))
    BY <1>13 DEF vars, NoDump, GoodBackup
  <2>2. NoDump(dir)' <=> NoDump(dir)
    BY <1>13 DEF vars, NoDump
  <2> QED
    BY <1>o, <1>f, <1>13, <2>1, <2>2 DEF vars, BackedUp
<1> QED
  BY <1>1, <1>2, <1>3, <1>4, <1>5, <1>6, <1>7, <1>8, <1>9, <1>10, <1>11, <1>12, <1>13 DEF Next, SaveStep

\* Once a save has returned Ok, resurrect finds a table: the dump or the backup parses in
\* every state that a power loss may leave (dump.rs:50-56, 88-102), and so it is again,
\* after saves have overlapped, once one that runs alone has returned Ok.
THEOREM AlwaysLoadable == Spec => []EverLoadable
<1>1. Init => EInv
  <2>1. Init => IInv
    BY InitInv
  <2> QED
    BY <2>1 DEF Init, EInv, BackedUp
<1>2. EInv /\ [Next]_vars => EInv'
  BY StepInv, EverStep DEF EInv
<1>3. EInv => EverLoadable
  <2> SUFFICES ASSUME EInv, ever, ~cut, overlap = "no", NEW d \in dirs
               PROVE  \/ \A c \in Versions(d, "dump") : Parses(c)
                      \/ \A c \in Versions(d, "bak") : Parses(c)
    BY DEF EverLoadable
  <2>1. CASE NoDump(d)
    <3>1. GoodBackup(d)
      BY <2>1 DEF EInv, BackedUp
    <3> QED
      BY <3>1, DumpAssumption DEF GoodBackup, Versions
  <2>2. CASE ~NoDump(d)
    BY <2>2, DumpAssumption DEF NoDump, EInv, IInv, Synced, Versions
  <2> QED
    BY <2>1, <2>2
<1> QED
  BY <1>1, <1>2, <1>3, PTL DEF Spec

-----------------------------------------------------------------------------
(* Dumps are whole.                                                        *)

AllParse ==
  overlap = "no" /\ ~damaged => \A d \in dirs : d["dump"] \in Inodes => Parses(data[d["dump"]])

\* A step that leaves the dumps alone.
LEMMA AllParseStays ==
  ASSUME AllParse, overlap' = "no" => overlap = "no", damaged' = damaged,
         \A d \in dirs' : d["dump"] \in Inodes =>
           (\E e \in dirs : e["dump"] = d["dump"]) /\ data'[d["dump"]] = data[d["dump"]]
  PROVE  AllParse'
  BY DEF AllParse

LEMMA AllParseStep == IInv /\ AllParse /\ [Next]_vars => AllParse'
<1> SUFFICES ASSUME IInv, AllParse, [Next]_vars, overlap' = "no" PROVE AllParse'
  BY DEF AllParse
<1>1. CASE \E s \in Savers : DirSync(s)
  <2>1. PICK s \in Savers : DirSync(s)
    BY <1>1
  <2>2. TypeOK /\ Progress(s) /\ Place(s) /\ saver[s].pc = "dirSync"
    BY <2>1 DEF IInv, DirSync
  <2>3. dirs' = {dir'} /\ dir' = dir /\ Settles(dir)
    BY <2>1 DEF DirSync, Settles
  <2>4. dir["dump"] \in Inodes /\ DumpValue \in Values
    BY <2>2 DEF Progress, Place, Saving, Results
  <2>5. Parses(data[dir["dump"]])
    BY <2>4, DumpAssumption DEF DumpValue, Parses
  <2>6. data'[dir["dump"]] = data[dir["dump"]]
    BY <2>2, <2>3, <2>4, SettlesKeeps DEF FileNames
  <2> QED
    BY <2>3, <2>5, <2>6 DEF AllParse
<1> SUFFICES ASSUME \A s \in Savers : ~DirSync(s) PROVE AllParse'
  BY <1>1
<1>o. overlap = "no"
  BY DEF Next, SaveStep, vars, BeginEmpty, Begin, Check, CopyOpen, CopyWrite, Open, Write, Sync, Rename,
         Crash, PowerLoss, WriteBack, Damage
<1>f. /\ TypeOK /\ Apart /\ Synced /\ \A s \in Savers : Progress(s) /\ Place(s)
      /\ BackupIsOne /\ saver \in [Savers -> SaverType] /\ dir \in dirs
  BY <1>o DEF IInv, TypeOK, SaverType
<1>2. CASE \E s \in Savers : \/ BeginEmpty(s) \/ (\E v \in Values : Begin(s, v)) \/ Check(s)
  <2>1. UNCHANGED <<dir, dirs, data, damaged>>
    BY <1>2 DEF BeginEmpty, Begin, Check
  <2> QED
    BY <1>o, <2>1, AllParseStays
<1>3. CASE \E s \in Savers : CopyOpen(s) \/ Open(s)
  <2>1. PICK name \in {"bak", "tmp"}, i \in Inodes : Truncates(name, i) /\ damaged' = damaged
    BY <1>3 DEF CopyOpen, Open
  <2>2. /\ dir'["dump"] = dir["dump"]
        /\ \A d \in dirs' : d \in dirs \/ d = dir'
        /\ \A d \in dirs' : d["dump"] \in Inodes => data'[d["dump"]] = data[d["dump"]]
    BY <1>f, <2>1, TruncatesKeeps
  <2> QED
    BY <1>o, <1>f, <2>1, <2>2, AllParseStays
<1>4. ASSUME NEW s \in Savers, CopyWrite(s) \/ Write(s) \/ Sync(s) PROVE AllParse'
  <2>1. UNCHANGED <<dir, dirs, damaged>>
    BY <1>4 DEF CopyWrite, Write, Sync
  <2>2. \A d \in dirs : d["dump"] \in Inodes => data'[d["dump"]] = data[d["dump"]]
    BY <1>f, <1>4 DEF CopyWrite, Write, Sync, Changes, Place, Progress, Apart, TypeOK
  <2> QED
    BY <1>o, <2>1, <2>2, AllParseStays
<1>5. ASSUME NEW s \in Savers, Rename(s) PROVE AllParse'
  <2>1. dir["tmp"] \in Inodes /\ ValueOf(data[dir["tmp"]]) \in Values
    BY <1>f, <1>5 DEF Rename, Progress, Place, Saving, Results
  <2>2. /\ dir' = [dir EXCEPT !["dump"] = dir["tmp"], !["tmp"] = NoInode]
        /\ dirs' = dirs \cup {dir'} /\ UNCHANGED <<data, damaged>>
    BY <1>5, <2>1, DumpAssumption DEF Rename, Links
  <2>3. dir'["dump"] = dir["tmp"]
    BY <1>f, <2>2 DEF TypeOK, Directories, FileNames
  <2> QED
    BY <1>o, <2>1, <2>2, <2>3, DumpAssumption DEF AllParse, Parses
<1>6. CASE PowerLoss
  <2>1. PICK d \in dirs :
          /\ dir' = d /\ dirs' = {d}
          /\ \E inDump \in Versions(d, "dump"), inBak \in Versions(d, "bak"), inTmp \in Versions(d, "tmp") :
               data' = [i \in Inodes |-> CASE i = d["dump"] -> inDump
                                           [] i = d["bak"] -> inBak
                                           [] i = d["tmp"] -> inTmp
                                           [] OTHER -> Scrap]
    BY <1>6 DEF PowerLoss
  <2>2. d["dump"] \in Inodes => data'[d["dump"]] = data[d["dump"]]
    BY <1>f, <2>1, DumpAssumption DEF Apart, Synced, Versions
  <2>3. damaged' = damaged
    BY <1>6 DEF PowerLoss
  <2> QED
    BY <1>o, <2>1, <2>2, <2>3, AllParseStays
<1>7. CASE WriteBack
  <2>1. UNCHANGED <<dir, damaged>>
    BY <1>7 DEF WriteBack
  <2>2. CASE UNCHANGED <<dirs, data>>
    BY <1>o, <2>1, <2>2, AllParseStays
  <2>3. CASE Settles(dir)
    <3>1. dirs' = {dir} /\ (dir["dump"] \in Inodes => data'[dir["dump"]] = data[dir["dump"]])
      BY <1>f, <2>1, <2>3, SettlesKeeps DEF FileNames
    <3> QED
      BY <1>o, <1>f, <2>1, <3>1, AllParseStays
  <2> QED
    BY <1>7, <2>2, <2>3 DEF WriteBack
<1>8. CASE Damage
  BY <1>8 DEF Damage, AllParse
<1>9. CASE Crash \/ UNCHANGED vars
  <2>1. UNCHANGED <<dir, dirs, data, damaged>>
    BY <1>9 DEF Crash, vars
  <2> QED
    BY <1>o, <2>1, AllParseStays
<1> QED
  BY <1>2, <1>3, <1>4, <1>5, <1>6, <1>7, <1>8, <1>9 DEF Next, SaveStep

\* "Atomic AND durable" (dump.rs:58), for saves that do not overlap: whatever crashes and
\* power losses there were, a dump that nobody else touched parses.
THEOREM DumpParsesAlone == Spec => [](overlap = "no" => DumpParses)
<1>1. Init => AllParse
  BY DumpAssumption DEF Init, AllParse, FileNames
<1>2. IInv /\ AllParse => (overlap = "no" => DumpParses)
  BY Facts DEF IInv, AllParse, DumpParses
<1> QED
  BY <1>1, <1>2, InvHolds, AllParseStep, PTL DEF Spec

=============================================================================
