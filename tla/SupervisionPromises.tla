------------------------ MODULE SupervisionPromises ------------------------
(***************************************************************************)
(* What the operations of Supervision promise to their callers, stated     *)
(* over observations of a behaviour: four history variables that no        *)
(* action of Supervision reads.                                            *)
(***************************************************************************)
EXTENDS Supervision

VARIABLES
  calm,       \* tasks whose operation has never overlapped a start or restart
              \* of another task
  respawned,  \* tasks since whose operation began a supervisor has started, or
              \* has committed to starting its child again
  late,       \* supervisors started after the shutdown began
  overlapped  \* kinds of operation that have overlapped a start or restart
              \* of another task

observed == <<calm, respawned, late, overlapped>>
allVars == <<vars, observed>>

\* Task t runs an operation that may bring the process up.
Starts(t) == op[t].kind \in {"start", "restart"}

Begins(t) == op[t].pc = "idle" /\ op'[t].pc # "idle"
Returns(t) == /\ daemon' # "exited"
              /\ op[t].pc \notin {"idle", "drained"}
              /\ op'[t].pc \in {"idle", "drained"}

NoStartBut(t) == \A u \in Tasks \ {t} : ~Starts(u)

ObserveInit ==
  /\ calm = {t \in Tasks : op[t].pc # "idle" /\ NoStartBut(t)}
  /\ respawned = {}
  /\ late = {}
  /\ overlapped = {}

Observe ==
  /\ calm' = {t \in Tasks : op'[t].pc # "idle" /\ NoStartBut(t)' /\ (Begins(t) \/ t \in calm)}
  /\ respawned' = {t \in Tasks : /\ op'[t].pc # "idle" /\ ~Begins(t)
                                 /\ \/ t \in respawned
                                    \/ \E s \in Sups : sup[s].pc # "start" /\ sup'[s].pc = "start"}
  /\ late' = late \cup {s \in Sups : /\ daemon = "draining"
                                     /\ sup[s].pc = "free" /\ sup'[s].pc # "free"}
  /\ overlapped' = overlapped \cup {op'[t].kind : t \in {u \in Tasks : /\ op'[u].pc # "idle"
                                                                      /\ ~NoStartBut(u)'}}

PromiseSpec == Init /\ ObserveInit /\ [][Next /\ Observe]_allVars

-----------------------------------------------------------------------------

\* The process is down, and nothing is about to bring it up.  (A supervisor
\* that leaves because the daemon shuts down does not touch the status.)
Down ==
  /\ Present /\ daemon = "up" => row.status \in {"stopped", "errored"}
  /\ \A s \in Sups : child[s] # "running" /\ sup[s].pc \notin {"start", "born", "backoff"}

\* A stop, a shutdown's stop or a delete that overlapped no start or restart
\* leaves the process down when it returns, even if crashes, automatic
\* restarts, backoff waits, spawn failures and other stops and deletes raced
\* it.  (Once a delete has raced a start, the row may be gone while its last
\* supervisor still winds down: see DropsNeedARace.)
StopWins ==
  [][\A t \in Tasks :
       /\ Returns(t)
       /\ op[t].kind \in {"stop", "kill", "delete"}
       /\ t \in calm /\ "delete" \notin overlapped
       => Down']_allVars

\* restart_one answers Ok for a row that exists.
ReturnsOk(t) ==
  /\ Returns(t)
  /\ \/ op[t].pc = "await"
     \/ op[t].pc = "awaitSpawn" /\ ack[t] = "ok"
     \/ op[t].pc = "launchCheck" /\ Present
     \/ op[t].pc = "arm"

\* A restart that answers Ok was not a no-op: since it began, a supervisor was
\* started or went back to spawn its child, whichever task made it do so.
RestartTakesEffect ==
  [][\A t \in Tasks : op[t].kind = "restart" /\ ReturnsOk(t) => t \in respawned]_allVars

\* Only a delete that overlaps a start or restart can drop a running child
\* without its kill sequence.
DropsNeedARace == (\E s \in Sups : child[s] = "dropped") => "delete" \in overlapped

\* Only a restart that overlaps another start or restart can leave a row at
\* rest that says Stopping while its child runs.
StuckNeedsARace == NeverStuckStopping \/ "restart" \in overlapped

\* A child that outlives the daemon belongs to a supervisor started after
\* graceful_shutdown had set shutting_down, unless a delete raced a start.
OrphansAreLate ==
  daemon = "exited" =>
    \A s \in Sups : child[s] = "running" => s \in late \/ "delete" \in overlapped

=============================================================================
