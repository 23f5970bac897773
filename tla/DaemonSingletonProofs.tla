----------------------- MODULE DaemonSingletonProofs ------------------------
(***************************************************************************)
(* Proofs, for any number of daemons, clients and files, that a daemon is   *)
(* alone, reachable and named by the pid file, unless one of them has      *)
(* locked a file that had lost its name.                                   *)
(***************************************************************************)
EXTENDS DaemonSingleton, TLAPS

Types ==
  /\ pc \in [Daemons -> DaemonPcs]
  /\ file \in [Daemons -> Files \cup {NoFile}]
  /\ pidFile \in Files \cup {NoFile}
  /\ text \in Daemons \cup {NoDaemon}
  /\ sock \in Daemons \cup {NoDaemon, Stale}
  /\ client \in [Clients -> [pc : ClientPcs, conn : Daemons \cup {NoDaemon}]]
  /\ clear \subseteq Clients /\ ghost \in BOOLEAN

\* A daemon past its open has a file, and a locked file has one holder.
Opened == \A d \in Daemons : Holds(d) \/ pc[d] = "lock" => file[d] \in Files
Exclusive == \A d, e \in Daemons : Holds(d) /\ Holds(e) /\ file[d] = file[e] => d = e

\* The file a daemon has locked is the one that has the name...
NamedFile == ~ghost => \A d \in Daemons : Named(d) => file[d] = pidFile

\* ...with its pid in it, once it has been written...
Text == ~ghost => \A d \in Daemons : pc[d] \in {"bind", "serve"} => text = d

\* ...and the socket is its own, as long as it serves.
Socket == ~ghost => \A d \in Daemons : pc[d] = "serve" => sock = d

IInv == Types /\ Opened /\ Exclusive /\ NamedFile /\ Text /\ Socket

-----------------------------------------------------------------------------

LEMMA Alone ==
  ASSUME IInv, ~ghost, NEW d \in Daemons, NEW e \in Daemons, Named(d), Named(e)
  PROVE  d = e
  BY DEF IInv, NamedFile, Exclusive, Named

LEMMA InitInv == Init => IInv
<1> SUFFICES ASSUME Init PROVE IInv
  OBVIOUS
<1>1. Types
  BY DEF Init, Types, DaemonPcs, ClientPcs
<1>2. \A d \in Daemons : pc[d] = "none" /\ ~Holds(d) /\ ~Named(d)
  BY DEF Init, Holds, Named, Ending
<1> QED
  BY <1>1, <1>2 DEF IInv, Opened, Exclusive, NamedFile, Text, Socket

\* A step of one daemon to another place.
LEMMA Goes ==
  ASSUME Types, NEW d \in Daemons, NEW place \in DaemonPcs, Go(d, place)
  PROVE  /\ pc' \in [Daemons -> DaemonPcs]
         /\ \A e \in Daemons : pc'[e] = IF e = d THEN place ELSE pc[e]
  BY DEF Types, Go

\* A daemon that ends takes nothing from the others.
LEMMA LeaveKeeps ==
  ASSUME IInv, NEW d \in Daemons, Leave(d), UNCHANGED <<pidFile, text>>, clear' \subseteq Clients
  PROVE  IInv'
<1>1. /\ pc' \in [Daemons -> DaemonPcs]
      /\ \A e \in Daemons : pc'[e] = IF e = d THEN "none" ELSE pc[e]
  BY Goes DEF IInv, Leave, DaemonPcs
<1>2. \A e \in Daemons : file'[e] = IF e = d THEN NoFile ELSE file[e]
  BY DEF IInv, Types, Leave
<1>3. Types'
  <2>1. client' \in [Clients -> [pc : ClientPcs, conn : Daemons \cup {NoDaemon}]]
    BY DEF IInv, Types, Leave
  <2>2. ghost' \in BOOLEAN
    BY DEF Leave
  <2>3. /\ file' \in [Daemons -> Files \cup {NoFile}]
        /\ sock' \in Daemons \cup {NoDaemon, Stale}
    BY DEF IInv, Types, Leave
  <2> QED
    BY <1>1, <2>1, <2>2, <2>3 DEF IInv, Types
<1>4. \A e \in Daemons : Holds(e)' => e # d /\ Holds(e)
  BY <1>1 DEF Holds, Ending
<1>5. Opened' /\ Exclusive'
  BY <1>1, <1>2, <1>4 DEF IInv, Opened, Exclusive
<1>6. CASE ghost'
  BY <1>3, <1>5, <1>6 DEF IInv, NamedFile, Text, Socket
<1>7. CASE ~ghost' /\ ghost
  <2>1. \A e \in Daemons : ~Holds(e)'
    BY <1>4, <1>7 DEF Leave
  <2>2. \A e \in Daemons : pc'[e] \notin {"bind", "serve"} /\ ~Named(e)'
    BY <2>1 DEF Holds, Named
  <2> QED
    BY <1>3, <1>5, <2>2 DEF IInv, NamedFile, Text, Socket
<1>8. CASE ~ghost
  <2>1. NamedFile'
    BY <1>1, <1>2, <1>4, <1>8 DEF IInv, NamedFile, Named
  <2>2. Text' /\ Socket'
    BY <1>1, <1>8 DEF IInv, Text, Socket, Leave
  <2> QED
    BY <1>3, <1>5, <2>1, <2>2 DEF IInv
<1> QED
  BY <1>6, <1>7, <1>8 DEF Leave

-----------------------------------------------------------------------------
(* One lemma per step of a daemon that does not end it.                    *)

LEMMA OpenKeeps ==
  ASSUME IInv, NEW d \in Daemons, Open(d)
  PROVE  IInv'
<1>1. /\ pc' \in [Daemons -> DaemonPcs]
      /\ \A e \in Daemons : pc'[e] = IF e = d THEN "lock" ELSE pc[e]
  BY Goes DEF IInv, Open, DaemonPcs, Starting
<1>2. PICK f \in Files : file' = [file EXCEPT ![d] = f] /\ pidFile' = f
                         /\ (pidFile # NoFile => f = pidFile /\ text' = text)
                         /\ text' \in {text, NoDaemon}
  BY DEF IInv, Types, Open
<1>3. \A e \in Daemons : file'[e] = IF e = d THEN f ELSE file[e]
  BY <1>2 DEF IInv, Types
<1>4. ~Holds(d) /\ \A e \in Daemons : (Holds(e)' <=> Holds(e)) /\ (Named(e)' <=> Named(e))
  BY <1>1 DEF Open, Holds, Named, Ending
<1>5. Types' /\ Opened'
  BY <1>1, <1>2, <1>3, <1>4 DEF IInv, Types, Opened, Open
<1>6. Exclusive'
  BY <1>3, <1>4 DEF IInv, Exclusive
<1>7. ~ghost /\ pidFile = NoFile => \A e \in Daemons : ~Named(e)
  BY DistinctAssumption DEF IInv, NamedFile, Opened, Named
<1>8. NamedFile'
  BY <1>2, <1>3, <1>4, <1>7 DEF IInv, NamedFile, Open, Named
<1>9. Text' /\ Socket'
  <2>1. \A e \in Daemons : pc'[e] \in {"bind", "serve"} => Named(e) /\ pc[e] = pc'[e]
    BY <1>1 DEF Named, Holds
  <2> QED
    BY <1>2, <1>7, <2>1 DEF IInv, Text, Socket, Open
<1> QED
  BY <1>5, <1>6, <1>8, <1>9 DEF IInv

LEMMA LockKeeps ==
  ASSUME IInv, NEW d \in Daemons, Lock(d)
  PROVE  IInv'
<1>1. CASE Locked(d)
  BY <1>1, LeaveKeeps DEF Lock, IInv, Types
<1>2. CASE ~Locked(d)
  <2>1. /\ pc' \in [Daemons -> DaemonPcs]
        /\ \A e \in Daemons : pc'[e] = IF e = d THEN "sweep" ELSE pc[e]
    BY <1>2, Goes DEF IInv, Lock, DaemonPcs, Starting
  <2>2. UNCHANGED <<file, pidFile, text, sock, client>>
    BY <1>2 DEF Lock
  <2>3. \/ file[d] = pidFile /\ UNCHANGED <<ghost, clear>>
        \/ ghost' /\ ghost' = TRUE /\ clear' = {}
    BY <1>2 DEF Lock, LocksName
  <2>4. \A e \in Daemons : e # d => (Holds(e)' <=> Holds(e)) /\ (Named(e)' <=> Named(e))
    BY <2>1 DEF Holds, Named
  <2>5. Types'
    BY <2>1, <2>2, <2>3 DEF IInv, Types
  <2>6. Opened'
    BY <2>1, <2>2, <2>4 DEF IInv, Opened, Lock
  <2>7. Exclusive'
    BY <1>2, <2>2, <2>4 DEF IInv, Exclusive, Locked
  <2>8. NamedFile' /\ Text' /\ Socket'
    BY <2>1, <2>2, <2>3, <2>4 DEF IInv, NamedFile, Text, Socket
  <2> QED
    BY <2>5, <2>6, <2>7, <2>8 DEF IInv
<1> QED
  BY <1>1, <1>2

\* A step by which a daemon keeps its lock, and its file the name it has.
LEMMA HolderMoves ==
  ASSUME IInv, NEW d \in Daemons, Named(d), NEW place \in DaemonPcs, Go(d, place),
         place \in {"write", "bind", "serve"} \cup Ending,
         UNCHANGED <<file, client, ghost>>, clear' \subseteq Clients,
         text' \in Daemons \cup {NoDaemon}, sock' \in Daemons \cup {NoDaemon, Stale},
         pidFile' = IF place = "exit" THEN NoFile ELSE pidFile
  PROVE  /\ Types' /\ Opened' /\ Exclusive' /\ NamedFile'
         /\ \A e \in Daemons : pc'[e] = IF e = d THEN place ELSE pc[e]
         /\ ~ghost => \A e \in Daemons : e # d => pc'[e] \notin {"bind", "serve"}
<1>1. /\ pc' \in [Daemons -> DaemonPcs]
      /\ \A e \in Daemons : pc'[e] = IF e = d THEN place ELSE pc[e]
  BY Goes DEF IInv
<1>2. \A e \in Daemons : Holds(e)' <=> Holds(e)
  BY <1>1 DEF Holds, Named
<1>3. \A e \in Daemons : Named(e)' <=> Named(e) /\ ~(e = d /\ place = "exit")
  BY <1>1, <1>2 DEF Named
<1>4. Types'
  BY <1>1 DEF IInv, Types
<1>5. Opened' /\ Exclusive'
  <2>1. \A e \in Daemons : pc'[e] = "lock" => pc[e] = "lock"
    BY <1>1 DEF Ending
  <2> QED
    BY <1>2, <2>1 DEF IInv, Opened, Exclusive
<1>6. ~ghost => \A e \in Daemons : Named(e) => e = d
  BY Alone
<1>7. NamedFile'
  BY <1>3, <1>6 DEF IInv, NamedFile
<1>8. ~ghost => \A e \in Daemons : e # d => pc'[e] \notin {"bind", "serve"}
  BY <1>1, <1>6 DEF Named, Holds
<1> QED
  BY <1>1, <1>4, <1>5, <1>7, <1>8

LEMMA SweepKeeps ==
  ASSUME IInv, NEW d \in Daemons, Sweep(d)
  PROVE  IInv'
<1>1. Named(d) /\ "write" \in DaemonPcs
  BY DEF Sweep, Named, Holds, DaemonPcs, Starting
<1>2. /\ Types' /\ Opened' /\ Exclusive' /\ NamedFile'
      /\ \A e \in Daemons : pc'[e] = IF e = d THEN "write" ELSE pc[e]
      /\ ~ghost => \A e \in Daemons : e # d => pc'[e] \notin {"bind", "serve"}
  BY <1>1, HolderMoves DEF Sweep, IInv, Types
<1> QED
  BY <1>2 DEF IInv, Text, Socket, Sweep

LEMMA WritePidKeeps ==
  ASSUME IInv, NEW d \in Daemons, WritePid(d)
  PROVE  IInv'
<1>1. Named(d) /\ "bind" \in DaemonPcs
  BY DEF WritePid, Named, Holds, DaemonPcs, Starting
<1>2. /\ Types' /\ Opened' /\ Exclusive' /\ NamedFile'
      /\ \A e \in Daemons : pc'[e] = IF e = d THEN "bind" ELSE pc[e]
      /\ ~ghost => \A e \in Daemons : e # d => pc'[e] \notin {"bind", "serve"}
  BY <1>1, HolderMoves DEF WritePid, IInv, Types
<1>3. ~ghost => text' = d
  BY <1>1 DEF WritePid, IInv, NamedFile
<1> QED
  BY <1>2, <1>3 DEF IInv, Text, Socket, WritePid

LEMMA BindKeeps ==
  ASSUME IInv, NEW d \in Daemons, Bind(d)
  PROVE  IInv'
<1>1. CASE sock # NoDaemon
  BY <1>1, LeaveKeeps DEF Bind, IInv, Types
<1>2. CASE sock = NoDaemon
  <2>1. Named(d) /\ "serve" \in DaemonPcs
    BY DEF Bind, Named, Holds, DaemonPcs
  <2>2. /\ Types' /\ Opened' /\ Exclusive' /\ NamedFile'
        /\ \A e \in Daemons : pc'[e] = IF e = d THEN "serve" ELSE pc[e]
        /\ ~ghost => \A e \in Daemons : e # d => pc'[e] \notin {"bind", "serve"}
    BY <1>2, <2>1, HolderMoves DEF Bind, IInv, Types
  <2> QED
    BY <1>2, <2>2 DEF IInv, Text, Socket, Bind
<1> QED
  BY <1>1, <1>2

LEMMA ShutdownKeeps ==
  ASSUME IInv, NEW d \in Daemons, Shutdown(d) \/ UnlinkSock(d) \/ UnlinkPid(d)
  PROVE  IInv'
<1> DEFINE place == IF pc[d] = "serve" THEN "drain"
                    ELSE IF pc[d] = "drain" THEN "unlinkPid" ELSE "exit"
<1>1. /\ Named(d) /\ place \in DaemonPcs /\ place \in Ending /\ Go(d, place)
      /\ pidFile' = IF place = "exit" THEN NoFile ELSE pidFile
  BY DEF Shutdown, UnlinkSock, UnlinkPid, Named, Holds, DaemonPcs, Ending
<1>2. /\ UNCHANGED <<file, client, ghost>> /\ clear' \subseteq Clients
      /\ text' \in Daemons \cup {NoDaemon} /\ sock' \in Daemons \cup {NoDaemon, Stale}
  BY DEF Shutdown, UnlinkSock, UnlinkPid, IInv, Types
<1> HIDE DEF place
<1>3. /\ Types' /\ Opened' /\ Exclusive' /\ NamedFile'
      /\ \A e \in Daemons : pc'[e] = IF e = d THEN place ELSE pc[e]
      /\ ~ghost => \A e \in Daemons : e # d => pc'[e] \notin {"bind", "serve"}
  BY <1>1, <1>2, HolderMoves
<1>4. ~ghost' => \A e \in Daemons : pc'[e] \notin {"bind", "serve"}
  BY <1>1, <1>2, <1>3 DEF Ending
<1> QED
  BY <1>3, <1>4 DEF IInv, Text, Socket

-----------------------------------------------------------------------------
(* Clients, and the whole.                                                 *)

\* What no client changes, but for the start of a daemon.
LEMMA ClientKeeps ==
  ASSUME IInv, NEW c \in Clients, ClientStep(c)
  PROVE  IInv'
<1>1. UNCHANGED <<file, pidFile, text, sock, ghost>> /\ clear' \subseteq Clients
  BY DEF ClientStep, Begin, Connect, Ping, Spawn, GiveUp, Done, KillDaemon, Killed, IInv, Types
<1>2. client' \in [Clients -> [pc : ClientPcs, conn : Daemons \cup {NoDaemon}]]
  <2>1. PICK place \in ClientPcs, d \in Daemons \cup {NoDaemon} : ClientGoes(c, place, d)
    <3>1. client[c].conn \in Daemons \cup {NoDaemon}
      BY DEF IInv, Types
    <3> QED
      BY <3>1 DEF ClientStep, Begin, Connect, Ping, Spawn, GiveUp, Done, KillDaemon, Killed,
                  ClientPcs
  <2> QED
    BY <2>1 DEF ClientGoes, IInv, Types
<1>3. CASE UNCHANGED pc
  BY <1>1, <1>2, <1>3 DEF IInv, Types, Opened, Exclusive, NamedFile, Text, Socket, Holds, Named
<1>4. CASE Spawn(c)
  <2>1. PICK d \in Daemons : pc[d] = "none" /\ Go(d, "open")
    BY <1>4 DEF Spawn
  <2>2. /\ pc' \in [Daemons -> DaemonPcs]
        /\ \A e \in Daemons : pc'[e] = IF e = d THEN "open" ELSE pc[e]
    BY <2>1, Goes DEF IInv, DaemonPcs, Starting
  <2>3. \A e \in Daemons : (Holds(e)' <=> Holds(e)) /\ (Named(e)' <=> Named(e))
    BY <2>1, <2>2 DEF Holds, Named, Ending
  <2>4. Types' /\ Opened' /\ Exclusive'
    BY <1>1, <1>2, <2>2, <2>3 DEF IInv, Types, Opened, Exclusive
  <2>5. NamedFile' /\ Text' /\ Socket'
    BY <1>1, <2>2, <2>3 DEF IInv, NamedFile, Text, Socket
  <2> QED
    BY <2>4, <2>5 DEF IInv
<1> QED
  BY <1>3, <1>4 DEF ClientStep, Begin, Connect, Ping, GiveUp, Done, KillDaemon, Killed

LEMMA StepKeeps ==
  ASSUME IInv, [Next]_vars
  PROVE  IInv'
<1>1. ASSUME NEW d \in Daemons, Exit(d) \/ Crash(d)
      PROVE  IInv'
  BY <1>1, LeaveKeeps DEF Exit, Crash, IInv, Types
<1>2. ASSUME NEW d \in Daemons, DaemonStep(d)
      PROVE  IInv'
  BY <1>1, <1>2, OpenKeeps, LockKeeps, SweepKeeps, WritePidKeeps, BindKeeps, ShutdownKeeps
     DEF DaemonStep
<1>3. CASE UNCHANGED vars
  BY <1>3 DEF vars, IInv, Types, Opened, Exclusive, NamedFile, Text, Socket, Holds, Named
<1> QED
  BY <1>2, <1>3, ClientKeeps DEF Next

\* The invariant holds however daemons and clients start, race and end
\* (mod.rs:37-76, 181-216, client.rs:28-51).
THEOREM SingletonInductive == Spec => []IInv
  BY InitInv, StepKeeps, PTL DEF Spec

\* Types, and one holder per lock (mod.rs:58).
THEOREM SingletonTypes == Spec => []TypeOK
<1>1. IInv => TypeOK
  BY DEF IInv, Types, Exclusive, TypeOK
<1> QED
  BY <1>1, SingletonInductive, PTL

\* A daemon is alone from its lock to the unlinking of the pid file, unless one
\* has locked a file without a name (mod.rs:50-66, 212-213).
THEOREM AloneUnlessGhost == Spec => []SingleUnlessGhost
<1>1. IInv => SingleUnlessGhost
  BY Alone DEF SingleUnlessGhost
<1> QED
  BY <1>1, SingletonInductive, PTL

\* ...its socket is the one clients connect to (mod.rs:65-66, 104)...
THEOREM ReachableUnlessGhost == Spec => []ServingIsReachable
<1>1. IInv => ServingIsReachable
  BY DEF IInv, Socket, ServingIsReachable
<1> QED
  BY <1>1, SingletonInductive, PTL

\* ...and the pid file names it (mod.rs:69-73).
THEOREM PidFileUnlessGhost == Spec => []PidFileNames
<1>1. IInv => PidFileNames
  BY DEF IInv, NamedFile, Text, Named, Holds, PidFileNames
<1> QED
  BY <1>1, SingletonInductive, PTL

-----------------------------------------------------------------------------
(* Clients that nothing disturbs get a daemon.                             *)

\* Since they began, none has ended, and each lock is of the file with the name.
Undisturbed == clear # {} => ~ghost /\ \A d \in Daemons : pc[d] \notin Ending

\* From its sweep to its bind a daemon finds the socket's name free.
Swept == ~ghost => \A d \in Daemons : pc[d] \in {"write", "bind"} => sock = NoDaemon

\* Who listens on the socket serves, or has begun to end.
Listens == sock \in Daemons => pc[sock] \in {"serve", "drain"}

\* A client that pings is connected to a daemon that serves, and one that waits
\* has a daemon to wait for.
Awaited ==
  \A c \in clear :
    /\ client[c].pc = "ping" => client[c].conn \in Daemons /\ pc[client[c].conn] = "serve"
    /\ client[c].pc = "wait" => \E d \in Daemons : pc[d] \in Starting \cup {"serve"}
    /\ client[c].pc # "failed"

CInv == IInv /\ Undisturbed /\ Swept /\ Listens /\ Awaited

\* A daemon that does not end, and has not begun to: clients keep what they have.
LEMMA DaemonMovesOn ==
  ASSUME CInv, IInv', NEW d \in Daemons, pc[d] \in Starting,
         NEW place \in Starting \cup {"serve"}, Go(d, place),
         UNCHANGED client, clear' = {} \/ UNCHANGED <<clear, ghost>>
  PROVE  Undisturbed' /\ Awaited'
<1>1. \A e \in Daemons : pc'[e] = IF e = d THEN place ELSE pc[e]
  BY DEF CInv, IInv, Types, Go
<1>2. CASE clear' = {}
  BY <1>2 DEF Undisturbed, Awaited
<1>3. CASE UNCHANGED <<clear, ghost>>
  <2>1. Undisturbed'
    BY <1>1, <1>3 DEF CInv, Undisturbed, Starting, Ending
  <2>2. \A e \in Daemons : pc[e] = "serve" => pc'[e] = "serve"
    BY <1>1 DEF Starting
  <2>3. \A e \in Daemons : pc[e] \in Starting \cup {"serve"} => pc'[e] \in Starting \cup {"serve"}
    BY <1>1
  <2>4. Awaited'
    BY <1>3, <2>2, <2>3 DEF CInv, Awaited
  <2> QED
    BY <2>1, <2>4
<1> QED
  BY <1>2, <1>3

\* A daemon that ends: the clients that had it are no longer undisturbed, and the
\* loser of a lock leaves the winner to the others.
LEMMA LeaveClear ==
  ASSUME CInv, IInv', NEW d \in Daemons, Leave(d),
         \/ clear' = {}
         \/ UNCHANGED clear /\ pc[d] = "lock" /\ Locked(d)
  PROVE  CInv'
<1>1. /\ \A e \in Daemons : pc'[e] = IF e = d THEN "none" ELSE pc[e]
      /\ sock' = IF sock = d THEN Stale ELSE sock
  BY DEF CInv, IInv, Types, Leave, Go
<1>2. Listens'
  BY <1>1, DistinctAssumption DEF CInv, Listens
<1>3. Swept'
  <2>1. CASE ghost
    <3>1. ~ghost' => \A e \in Daemons \ {d} : ~Holds(e)
      BY <2>1 DEF Leave
    <3> QED
      BY <1>1, <3>1 DEF Swept, Holds
  <2>2. CASE ~ghost
    BY <1>1, <2>2, DistinctAssumption DEF CInv, Swept
  <2> QED
    BY <2>1, <2>2
<1>4. CASE clear' = {}
  BY <1>2, <1>3, <1>4 DEF CInv, Undisturbed, Awaited
<1>5. CASE UNCHANGED clear /\ clear # {} /\ pc[d] = "lock" /\ Locked(d)
  <2>1. ~ghost /\ ~ghost' /\ \A e \in Daemons : pc[e] \notin Ending
    BY <1>5 DEF CInv, Undisturbed, Leave
  <2>2. Undisturbed'
    BY <1>1, <2>1 DEF Undisturbed, Ending
  <2>3. PICK e \in Daemons : e # d /\ pc[e] \in Starting \cup {"serve"}
    BY <1>5, <2>1 DEF Locked, Holds, Starting
  <2>4. ASSUME NEW c \in clear
        PROVE  /\ client'[c].pc = client[c].pc
               /\ client[c].conn # d => client'[c].conn = client[c].conn
    BY <2>4 DEF CInv, IInv, Types, Leave
  <2>5. ASSUME NEW c \in clear, client[c].pc = "ping"
        PROVE  client'[c].conn \in Daemons /\ pc'[client'[c].conn] = "serve"
    <3>1. client[c].conn \in Daemons /\ pc[client[c].conn] = "serve"
      BY <2>5 DEF CInv, Awaited
    <3> QED
      BY <1>1, <1>5, <2>4, <3>1
  <2>6. Awaited'
    <3>1. pc'[e] \in Starting \cup {"serve"}
      BY <1>1, <2>3
    <3>2. \A c \in clear : client[c].pc # "failed"
      BY DEF CInv, Awaited
    <3> QED
      BY <1>5, <2>4, <2>5, <3>1, <3>2 DEF Awaited
  <2> QED
    BY <1>2, <1>3, <2>2, <2>6 DEF CInv
<1> QED
  BY <1>4, <1>5

LEMMA DaemonClear ==
  ASSUME CInv, NEW d \in Daemons, DaemonStep(d)
  PROVE  CInv'
<1>1. IInv'
  BY StepKeeps DEF CInv, Next
<1>2. CASE Open(d)
  <2>1. \A e \in Daemons : pc'[e] = IF e = d THEN "lock" ELSE pc[e]
    BY <1>2, Goes DEF CInv, IInv, Open, DaemonPcs, Starting
  <2>2. Undisturbed' /\ Awaited'
    BY <1>1, <1>2, DaemonMovesOn DEF Open, Starting
  <2> QED
    BY <1>1, <1>2, <2>1, <2>2 DEF CInv, Swept, Listens, Open
<1>3. CASE Lock(d) /\ ~Locked(d)
  <2>1. \A e \in Daemons : pc'[e] = IF e = d THEN "sweep" ELSE pc[e]
    BY <1>3, Goes DEF CInv, IInv, Lock, DaemonPcs, Starting
  <2>2. UNCHANGED sock /\ (clear' = {} \/ UNCHANGED <<clear, ghost>>) /\ (ghost => ghost')
    BY <1>3 DEF Lock, LocksName
  <2>3. Undisturbed' /\ Awaited'
    BY <1>1, <1>3, <2>2, DaemonMovesOn DEF Lock, Starting
  <2>4. Swept' /\ Listens'
    BY <1>3, <2>1, <2>2 DEF CInv, Swept, Listens, Lock
  <2> QED
    BY <1>1, <2>3, <2>4 DEF CInv
<1>4. CASE Lock(d) /\ Locked(d)
  BY <1>1, <1>4, LeaveClear DEF Lock
<1>5. CASE Sweep(d)
  <2>1. \A e \in Daemons : pc'[e] = IF e = d THEN "write" ELSE pc[e]
    BY <1>5, Goes DEF CInv, IInv, Sweep, DaemonPcs, Starting
  <2>2. Undisturbed' /\ Awaited'
    BY <1>1, <1>5, DaemonMovesOn DEF Sweep, Starting
  <2> QED
    BY <1>1, <1>5, <2>2, DistinctAssumption DEF CInv, Swept, Listens, Sweep
<1>6. CASE WritePid(d)
  <2>1. \A e \in Daemons : pc'[e] = IF e = d THEN "bind" ELSE pc[e]
    BY <1>6, Goes DEF CInv, IInv, WritePid, DaemonPcs, Starting
  <2>2. Undisturbed' /\ Awaited'
    BY <1>1, <1>6, DaemonMovesOn DEF WritePid, Starting
  <2>3. Swept' /\ Listens'
    BY <1>6, <2>1 DEF CInv, Swept, Listens, WritePid
  <2> QED
    BY <1>1, <2>2, <2>3 DEF CInv
<1>7. CASE Bind(d) /\ sock = NoDaemon
  <2>1. \A e \in Daemons : pc'[e] = IF e = d THEN "serve" ELSE pc[e]
    BY <1>7, Goes DEF CInv, IInv, Bind, DaemonPcs
  <2>2. Undisturbed' /\ Awaited'
    BY <1>1, <1>7, DaemonMovesOn DEF Bind, Starting
  <2>3. Swept'
    \* Whoever else is between its sweep and its bind has the names too.
    <3>1. \A e \in Daemons : ~ghost /\ e # d => pc[e] \notin {"write", "bind"}
      BY <1>7, Alone DEF CInv, Bind, Named, Holds
    <3> QED
      BY <1>7, <2>1, <3>1 DEF Swept, Bind
  <2>4. Listens'
    BY <1>7, <2>1 DEF Listens, Bind
  <2> QED
    BY <1>1, <2>2, <2>3, <2>4 DEF CInv
<1>8. CASE Bind(d) /\ sock # NoDaemon
  <2>1. clear = {} /\ clear' = {}
    BY <1>8 DEF CInv, Undisturbed, Swept, Bind
  <2> QED
    BY <1>1, <1>8, <2>1, LeaveClear DEF Bind
<1>9. CASE Shutdown(d) \/ UnlinkSock(d) \/ UnlinkPid(d)
  <2>1. clear' = {}
    BY <1>9 DEF CInv, Undisturbed, Shutdown, UnlinkSock, UnlinkPid, Ending
  <2>2. PICK place \in Ending :
          /\ Go(d, place) /\ UNCHANGED ghost
          /\ \/ pc[d] = "serve" /\ place = "drain" /\ UNCHANGED sock
             \/ pc[d] = "drain" /\ place = "unlinkPid" /\ sock' = NoDaemon
             \/ pc[d] = "unlinkPid" /\ place = "exit" /\ UNCHANGED sock
    BY <1>9 DEF Shutdown, UnlinkSock, UnlinkPid, Ending
  <2>3. \A e \in Daemons : pc'[e] = IF e = d THEN place ELSE pc[e]
    BY <2>2 DEF CInv, IInv, Types, Go
  <2>4. Swept' /\ Listens'
    BY <2>2, <2>3, DistinctAssumption DEF CInv, Swept, Listens, Ending
  <2> QED
    BY <1>1, <2>1, <2>4 DEF CInv, Undisturbed, Awaited
<1>10. CASE Exit(d) \/ Crash(d)
  <2>1. clear' = {}
    BY <1>10 DEF CInv, Undisturbed, Exit, Crash, Ending
  <2> QED
    BY <1>1, <1>10, <2>1, LeaveClear DEF Exit, Crash
<1> QED
  BY <1>2, <1>3, <1>4, <1>5, <1>6, <1>7, <1>8, <1>9, <1>10 DEF DaemonStep, Lock, Bind

LEMMA ClientClear ==
  ASSUME CInv, NEW c \in Clients, ClientStep(c)
  PROVE  CInv'
<1>1. IInv'
  BY ClientKeeps DEF CInv
<1>2. UNCHANGED <<sock, ghost>>
  BY DEF ClientStep, Begin, Connect, Ping, Spawn, GiveUp, Done, KillDaemon, Killed
<1>3. clear' \subseteq clear \cup {c} /\ (c \in clear' => c \in clear \/ client'[c].pc = "try")
      /\ \A b \in Clients \ {c} : client'[b] = client[b]
  BY DEF ClientStep, Begin, Connect, Ping, Spawn, GiveUp, Done, KillDaemon, Killed, ClientGoes,
         CInv, IInv, Types
<1>4. \A d \in Daemons : /\ pc[d] = "serve" => pc'[d] = "serve"
                         /\ pc[d] \in Starting \cup {"serve"} => pc'[d] \in Starting \cup {"serve"}
  BY DEF ClientStep, Begin, Connect, Ping, Spawn, GiveUp, Done, KillDaemon, Killed, Go,
         CInv, IInv, Types, Starting
<1>5. Swept' /\ Listens' /\ Undisturbed'
  <2>1. CASE UNCHANGED pc
    <3>1. Undisturbed'
      BY <1>2, <2>1
      DEF CInv, Undisturbed, ClientStep, Begin, Connect, Ping, Spawn, GiveUp, Done, KillDaemon, Killed
    <3> QED
      BY <1>2, <2>1, <3>1 DEF CInv, Swept, Listens
  <2>2. CASE Spawn(c)
    <3>1. PICK d \in Daemons : pc[d] = "none" /\ \A a \in Daemons : pc'[a] = IF a = d THEN "open" ELSE pc[a]
      BY <2>2 DEF Spawn, Go, CInv, IInv, Types
    <3> QED
      BY <1>2, <2>2, <3>1 DEF CInv, Swept, Listens, Undisturbed, Spawn, Ending
  <2> QED
    BY <2>1, <2>2 DEF ClientStep, Begin, Connect, Ping, GiveUp, Done, KillDaemon, Killed
<1>6. ASSUME c \in clear
      PROVE  /\ client'[c].pc = "ping" => client'[c].conn \in Daemons /\ pc'[client'[c].conn] = "serve"
             /\ client'[c].pc = "wait" => \E d \in Daemons : pc'[d] \in Starting \cup {"serve"}
             /\ client'[c].pc # "failed"
  <2>1. ~ghost /\ \A d \in Daemons : pc[d] \notin Ending
    BY <1>6 DEF CInv, Undisturbed
  <2>2. \A place, d : ClientGoes(c, place, d) => client'[c].pc = place /\ client'[c].conn = d
    BY DEF ClientGoes, CInv, IInv, Types
  <2>3. CASE Connect(c)
    <3>1. sock \in Daemons => pc[sock] = "serve"
      BY <2>1 DEF CInv, Listens, Ending
    <3> QED
      BY <1>4, <2>2, <2>3, <3>1 DEF Connect
  <2>4. CASE Ping(c)
    <3>1. client[c].pc = "ping" => client[c].conn # NoDaemon
      BY <1>6, DistinctAssumption DEF CInv, Awaited
    <3> QED
      BY <2>2, <2>4, <3>1 DEF Ping
  <2>5. CASE Spawn(c)
    <3>1. \E d \in Daemons : pc'[d] \in Starting
      BY <2>5 DEF Spawn, Go, CInv, IInv, Types, Starting
    <3> QED
      BY <2>2, <2>5, <3>1 DEF Spawn
  <2>6. ~GiveUp(c)
    <3>1. \A d \in Daemons : pc[d] = "serve" => sock = d
      BY <2>1 DEF CInv, IInv, Socket
    <3> QED
      BY <1>6, <3>1 DEF GiveUp, CInv, Awaited
  <2>7. CASE Begin(c) \/ Done(c) \/ KillDaemon(c) \/ Killed(c)
    BY <2>2, <2>7 DEF Begin, Done, KillDaemon, Killed
  <2> QED
    BY <2>3, <2>4, <2>5, <2>6, <2>7 DEF ClientStep
<1>7. ASSUME NEW b \in clear, b # c
      PROVE  /\ client'[b].pc = "ping" => client'[b].conn \in Daemons /\ pc'[client'[b].conn] = "serve"
             /\ client'[b].pc = "wait" => \E d \in Daemons : pc'[d] \in Starting \cup {"serve"}
             /\ client'[b].pc # "failed"
  <2>1. client'[b] = client[b]
    BY <1>3, <1>7 DEF CInv, IInv, Types
  <2> QED
    BY <1>4, <1>7, <2>1 DEF CInv, Awaited
<1>8. Awaited'
  BY <1>3, <1>6, <1>7 DEF Awaited
<1> QED
  BY <1>1, <1>5, <1>8 DEF CInv

\* A client that nothing disturbs never fails (client.rs:28-51): if it has lost a
\* race to start the daemon, it waits for the one that has won.
THEOREM AutoStartAlways == Spec => []AutoStart
<1>1. Init => CInv
  <2> SUFFICES ASSUME Init
               PROVE  Undisturbed /\ Swept /\ Listens /\ Awaited
    BY InitInv DEF CInv
  <2> QED
    BY DistinctAssumption DEF Init, Undisturbed, Swept, Listens, Awaited
<1>2. CInv /\ [Next]_vars => CInv'
  <2> SUFFICES ASSUME CInv, [Next]_vars
               PROVE  CInv'
    OBVIOUS
  <2>1. CASE UNCHANGED vars
    <3>1. IInv'
      BY <2>1, StepKeeps DEF CInv
    <3> QED
      BY <2>1, <3>1 DEF vars, CInv, Undisturbed, Swept, Listens, Awaited
  <2> QED
    BY <2>1, DaemonClear, ClientClear DEF Next
<1>3. CInv => AutoStart
  BY DEF CInv, Awaited, AutoStart
<1> QED
  BY <1>1, <1>2, <1>3, PTL DEF Spec

=============================================================================
