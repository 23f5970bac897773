-------------------------- MODULE DaemonSingleton ---------------------------
(***************************************************************************)
(* How clients come to a daemon, and daemons to be alone: run, serve and    *)
(* graceful_shutdown of daemon/mod.rs, connect and kill_daemon of client.rs. *)
(* They meet in the file system: the pid file, which a daemon locks with    *)
(* flock, and the socket.  A lock is on a file, not on its name, and names  *)
(* are unlinked while others hold the file open.                           *)
(***************************************************************************)
CONSTANTS
  Daemons,  \* daemon processes; a process that has ended may be used again
  Clients,
  Files,    \* inodes that the pid file may have
  NoDaemon, NoFile, Stale

ASSUME DistinctAssumption == /\ NoDaemon \notin Daemons /\ Stale \notin Daemons
                             /\ NoDaemon # Stale /\ NoFile \notin Files

VARIABLES
  pc,       \* per daemon: its place in run, serve or graceful_shutdown
  file,     \* per daemon: the file it has opened as its pid file
  pidFile,  \* the file that has the name of the pid file
  text,     \* the daemon whose pid is written in that file
  sock,     \* the daemon that listens on the socket's name; Stale if it has ended
  client,   \* per client: its place in connect, and its connection
  ghost,    \* history: some daemon has locked a file that had lost its name
  clear     \* history: clients since whose beginning no daemon was ending, nor a ghost

vars == <<pc, file, pidFile, text, sock, client, ghost, clear>>

Starting == {"open", "lock", "sweep", "write", "bind"}
Ending == {"drain", "unlinkPid", "exit"}
DaemonPcs == {"none", "serve"} \cup Starting \cup Ending

\* A daemon that got the lock keeps it until it ends.
Holds(d) == pc[d] \in {"sweep", "write", "bind", "serve"} \cup Ending

\* ...and has its names until it has unlinked the pid file.
Named(d) == Holds(d) /\ pc[d] # "exit"

ClientPcs == {"idle", "try", "firstPing", "spawn", "wait", "ping", "up", "kill", "failed"}

Go(d, place) == pc' = [pc EXCEPT ![d] = place]
ClientGoes(c, place, d) == client' = [client EXCEPT ![c] = [pc |-> place, conn |-> d]]

-----------------------------------------------------------------------------
(* A daemon.                                                               *)

\* The end of the process frees its lock and closes its connections, and leaves
\* the socket's name behind if it still has it.
Leave(d) ==
  /\ Go(d, "none")
  /\ file' = [file EXCEPT ![d] = NoFile]
  /\ sock' = IF sock = d THEN Stale ELSE sock
  /\ client' = [c \in Clients |-> IF client[c].conn = d THEN [client[c] EXCEPT !.conn = NoDaemon]
                                  ELSE client[c]]
  /\ ghost' = (ghost /\ \E e \in Daemons \ {d} : Holds(e))

\* Open the pid file, or create it if the name is free.
Open(d) ==
  /\ pc[d] = "open"
  /\ IF pidFile # NoFile
     THEN file' = [file EXCEPT ![d] = pidFile] /\ UNCHANGED <<pidFile, text>>
     ELSE \E f \in Files :
            /\ \A e \in Daemons : file[e] # f
            /\ file' = [file EXCEPT ![d] = f]
            /\ pidFile' = f /\ text' = NoDaemon
  /\ Go(d, "lock")
  /\ UNCHANGED <<sock, client, clear, ghost>>

\* History: does the file that is locked have the pid file's name?
LocksName(d) ==
  IF file[d] = pidFile THEN UNCHANGED <<ghost, clear>> ELSE ghost' = TRUE /\ clear' = {}

\* Variant: a lock that is shared.
Unlocked(d) == FALSE

Locked(d) == \E e \in Daemons \ {d} : Holds(e) /\ file[e] = file[d]

\* Variant: the stale socket is removed before the lock is tried.
LockSweeps(d) ==
  /\ pc[d] = "lock"
  /\ sock' = NoDaemon
  /\ IF Locked(d)
     THEN /\ Go(d, "none") /\ file' = [file EXCEPT ![d] = NoFile]
          /\ UNCHANGED <<ghost, clear>>
     ELSE Go(d, "sweep") /\ LocksName(d) /\ UNCHANGED file
  /\ UNCHANGED <<pidFile, text, client>>

\* flock does not wait: the loser ends.
Lock(d) ==
  /\ pc[d] = "lock"
  /\ IF Locked(d) THEN Leave(d) /\ UNCHANGED clear
     ELSE /\ Go(d, "sweep") /\ LocksName(d)
          /\ UNCHANGED <<file, sock, client>>
  /\ UNCHANGED <<pidFile, text>>

\* Variant: the socket is left alone.
SweepNothing(d) ==
  /\ pc[d] = "sweep" /\ Go(d, "write")
  /\ UNCHANGED <<file, pidFile, text, sock, client, clear, ghost>>

Sweep(d) ==
  /\ pc[d] = "sweep"
  /\ sock' = NoDaemon
  /\ Go(d, "write")
  /\ UNCHANGED <<file, pidFile, text, client, clear, ghost>>

\* Variant: only an empty file is written.
WritePidOnce(d) ==
  /\ pc[d] = "write"
  /\ text' = IF file[d] = pidFile /\ text = NoDaemon THEN d ELSE text
  /\ Go(d, "bind")
  /\ UNCHANGED <<file, pidFile, sock, client, clear, ghost>>

WritePid(d) ==
  /\ pc[d] = "write"
  /\ text' = IF file[d] = pidFile THEN d ELSE text
  /\ Go(d, "bind")
  /\ UNCHANGED <<file, pidFile, sock, client, clear, ghost>>

\* A name that is in use cannot be bound: serve returns, the process ends.
Bind(d) ==
  /\ pc[d] = "bind"
  /\ IF sock # NoDaemon THEN Leave(d)
     ELSE /\ sock' = d /\ Go(d, "serve")
          /\ UNCHANGED <<file, client, ghost>>
  /\ UNCHANGED <<pidFile, text, clear>>

\* Variant: the pid file is unlinked before the rows are stopped.
ShutdownUnlinksFirst(d) ==
  /\ pc[d] = "serve"
  /\ Go(d, "drain")
  /\ pidFile' = NoFile /\ text' = NoDaemon
  /\ clear' = {}
  /\ UNCHANGED <<file, sock, client, ghost>>

\* A signal or a kill request ends the accept loop; the listener stays open.
Shutdown(d) ==
  /\ pc[d] = "serve"
  /\ Go(d, "drain")
  /\ clear' = {}
  /\ UNCHANGED <<file, pidFile, text, sock, client, ghost>>

\* The rows are stopped: both names are unlinked, whatever they now name.
UnlinkSock(d) ==
  /\ pc[d] = "drain"
  /\ sock' = NoDaemon
  /\ Go(d, "unlinkPid")
  /\ UNCHANGED <<file, pidFile, text, client, clear, ghost>>

UnlinkPid(d) ==
  /\ pc[d] = "unlinkPid"
  /\ pidFile' = NoFile /\ text' = NoDaemon
  /\ Go(d, "exit")
  /\ UNCHANGED <<file, sock, client, clear, ghost>>

Exit(d) ==
  /\ pc[d] = "exit"
  /\ Leave(d)
  /\ UNCHANGED <<pidFile, text, clear>>

Crash(d) ==
  /\ pc[d] # "none"
  /\ Leave(d)
  /\ clear' = {}
  /\ UNCHANGED <<pidFile, text>>

-----------------------------------------------------------------------------
(* A client.                                                               *)

Begin(c) ==
  /\ client[c].pc \in {"idle", "failed"}
  /\ ClientGoes(c, "try", NoDaemon)
  /\ clear' = IF ghost \/ \E d \in Daemons : pc[d] \in Ending THEN clear \ {c}
              ELSE clear \cup {c}
  /\ UNCHANGED <<pc, file, pidFile, text, sock, ghost>>

\* try_connect, and one round of wait_connect.
Connect(c) ==
  /\ \/ client[c].pc = "try" /\ ClientGoes(c, IF sock \in Daemons THEN "firstPing" ELSE "spawn",
                                           IF sock \in Daemons THEN sock ELSE NoDaemon)
     \/ client[c].pc = "wait" /\ sock \in Daemons /\ ClientGoes(c, "ping", sock)
  /\ UNCHANGED <<pc, file, pidFile, text, sock, clear, ghost>>

\* The version check of a connection: answered once it is accepted, an error
\* when the daemon has ended.
Ping(c) ==
  LET d == client[c].conn
  IN /\ client[c].pc \in {"firstPing", "ping"}
     /\ \/ d # NoDaemon /\ pc[d] = "serve" /\ ClientGoes(c, "up", d)
        \/ /\ d = NoDaemon
           /\ ClientGoes(c, IF client[c].pc = "firstPing" THEN "spawn" ELSE "failed", NoDaemon)
     /\ UNCHANGED <<pc, file, pidFile, text, sock, clear, ghost>>

\* spawn_daemon does not wait for what becomes of the daemon.
Spawn(c) ==
  /\ client[c].pc = "spawn"
  /\ \E d \in Daemons : pc[d] = "none" /\ Go(d, "open")
  /\ ClientGoes(c, "wait", NoDaemon)
  /\ UNCHANGED <<file, pidFile, text, sock, clear, ghost>>

\* The 5 seconds of wait_connect outlast the start of a daemon.
GiveUp(c) ==
  /\ client[c].pc = "wait" /\ sock \notin Daemons
  /\ \A d \in Daemons : pc[d] \notin Starting
  /\ ClientGoes(c, "failed", NoDaemon)
  /\ UNCHANGED <<pc, file, pidFile, text, sock, clear, ghost>>

\* A connected client is done, or asks the daemon to end...
Done(c) ==
  /\ client[c].pc = "up"
  /\ ClientGoes(c, "idle", NoDaemon)
  /\ UNCHANGED <<pc, file, pidFile, text, sock, clear, ghost>>

KillDaemon(c) ==
  /\ client[c].pc = "up" /\ client[c].conn # NoDaemon
  /\ ClientGoes(c, "kill", client[c].conn)
  /\ UNCHANGED <<pc, file, pidFile, text, sock, clear, ghost>>

\* ...and waits for the end of the connection, or 60 seconds.
Killed(c) ==
  /\ client[c].pc = "kill"
  /\ \A d \in Daemons : client[c].conn = d => pc[d] \in Ending
  /\ ClientGoes(c, "idle", NoDaemon)
  /\ UNCHANGED <<pc, file, pidFile, text, sock, clear, ghost>>

-----------------------------------------------------------------------------

Init ==
  /\ pc = [d \in Daemons |-> "none"]
  /\ file = [d \in Daemons |-> NoFile]
  /\ pidFile = NoFile
  /\ text = NoDaemon
  /\ sock = NoDaemon
  /\ client = [c \in Clients |-> [pc |-> "idle", conn |-> NoDaemon]]
  /\ clear = {} /\ ghost = FALSE

DaemonStep(d) ==
  \/ Open(d) \/ Lock(d) \/ Sweep(d) \/ WritePid(d) \/ Bind(d)
  \/ Shutdown(d) \/ UnlinkSock(d) \/ UnlinkPid(d) \/ Exit(d) \/ Crash(d)

ClientStep(c) ==
  \/ Begin(c) \/ Connect(c) \/ Ping(c) \/ Spawn(c) \/ GiveUp(c)
  \/ Done(c) \/ KillDaemon(c) \/ Killed(c)

Next == (\E d \in Daemons : DaemonStep(d)) \/ (\E c \in Clients : ClientStep(c))

Spec == Init /\ [][Next]_vars

-----------------------------------------------------------------------------

\* Every variable has its type, and a file is locked by one daemon at a time.
TypeOK ==
  /\ pc \in [Daemons -> DaemonPcs]
  /\ file \in [Daemons -> Files \cup {NoFile}]
  /\ \A d, e \in Daemons : Holds(d) /\ Holds(e) /\ file[d] = file[e] => d = e
  /\ pidFile \in Files \cup {NoFile}
  /\ text \in Daemons \cup {NoDaemon}
  /\ sock \in Daemons \cup {NoDaemon, Stale}
  /\ client \in [Clients -> [pc : ClientPcs, conn : Daemons \cup {NoDaemon}]]
  /\ clear \subseteq Clients /\ ghost \in BOOLEAN

\* The comment of the lock: only one daemon serves (mod.rs:50).
SingleDaemon ==
  \A d, e \in Daemons : pc[d] = "serve" /\ pc[e] = "serve" => d = e

\* ...and so it is, from the lock to the unlinking of the pid file, unless a
\* daemon has locked a file that was opened before its name was unlinked.
SingleUnlessGhost ==
  ~ghost => \A d, e \in Daemons : Named(d) /\ Named(e) => d = e

\* Clients that use the socket's name reach the daemon that serves: no other
\* daemon, starting, losing or ending, unlinks or takes its name (mod.rs:65-66).
ServingIsReachable ==
  ~ghost => \A d \in Daemons : pc[d] = "serve" => sock = d

\* The pid file names the daemon that serves (systemd's PIDFile, startup.rs:43).
PidFileNames ==
  ~ghost => \A d \in Daemons :
    pc[d] = "serve" => file[d] = pidFile /\ text = d

\* A command whose client began when no daemon was ending, and none has ended
\* since, gets a daemon, though several clients start one at once and stale
\* files lie about (client.rs:28-39).
AutoStart ==
  \A c \in clear : client[c].pc # "failed"

=============================================================================
