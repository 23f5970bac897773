---------------------------- MODULE ProcessLife -----------------------------
(***************************************************************************)
(* What the daemon amounts to for one app: a row with a status, at most one  *)
(* process, and one life cycle that decides on both.  Tasks, supervisors,    *)
(* channels and acknowledgements do not show.                               *)
(***************************************************************************)
CONSTANTS
  Autorestart, \* whether an exit may be followed by a restart
  Delayed      \* whether that restart waits

VARIABLES
  status,  \* what the row says, "absent" without one
  alive,   \* whether a process of the app runs
  phase,   \* how far its life cycle is, "none" if nobody looks after the app
  daemon   \* "up", "draining", "exited"

vars == <<status, alive, phase, daemon>>

Phases == {"none", "starting", "born", "up", "ended", "reviving", "retiring", "waiting",
           "killing", "leaving"}

Listed == status # "absent"
Ending == {"stopping", "stopped", "errored"}

Go(from, to) == phase = from /\ phase' = to

\* A row that is gone is left alone.
Says(what) == status' = IF Listed THEN what ELSE status

-----------------------------------------------------------------------------
(* The life cycle.                                                         *)

\* A life cycle begins only where there is none.
Launch == Go("none", "starting") /\ Listed /\ status' = "launching" /\ UNCHANGED <<alive, daemon>>

\* A process is created only while none runs.
Create == Go("starting", "born") /\ Listed /\ ~alive /\ alive' = TRUE /\ UNCHANGED <<status, daemon>>
FailToCreate == Go("starting", "leaving") /\ Says("errored") /\ UNCHANGED <<alive, daemon>>

Publish == Go("born", "up") /\ Says("online") /\ UNCHANGED <<alive, daemon>>

Die == alive /\ alive' = FALSE /\ UNCHANGED <<status, phase, daemon>>

Notice == Go("up", "ended") /\ ~alive /\ UNCHANGED <<status, alive, daemon>>

\* An exit of a process that is meant to end is its end.
Judge ==
  /\ Listed
  /\ \/ Go("ended", "retiring")
     \/ Go("ended", "reviving") /\ Autorestart /\ status \notin Ending
  /\ UNCHANGED <<status, alive, daemon>>

Retire == Go("retiring", "leaving") /\ (Says("stopped") \/ Says("errored")) /\ UNCHANGED <<alive, daemon>>

Revive ==
  /\ IF Delayed THEN Go("reviving", "waiting") /\ Says("waiting")
                ELSE Go("reviving", "starting") /\ Says("launching")
  /\ UNCHANGED <<alive, daemon>>

Elapse == Go("waiting", "starting") /\ UNCHANGED <<status, alive, daemon>>

BeginKill == Go("up", "killing") /\ Says("stopping") /\ UNCHANGED <<alive, daemon>>

\* A stop, restart or delete is carried out only when no process runs.
Obey(from) ==
  /\ ~alive
  /\ \/ Go(from, "leaving") /\ Says("stopped")
     \/ Go(from, "starting") /\ Says("launching")
     \/ Go(from, "none") /\ status' = "absent"
  /\ UNCHANGED <<alive, daemon>>

Leave == Go("leaving", "none") /\ UNCHANGED <<status, alive, daemon>>

\* The row has gone, and with it the reason to go on; a process is killed.
Forget ==
  /\ ~Listed
  /\ Go("starting", "none") \/ Go("ended", "none") \/ Go("waiting", "none") \/ Go("up", "none")
  /\ alive' = FALSE
  /\ UNCHANGED <<status, daemon>>

\* In the shutdown an exit is not acted on.
Abandon ==
  /\ daemon = "draining"
  /\ Go("retiring", "none") \/ Go("reviving", "none")
  /\ UNCHANGED <<status, alive, daemon>>

LifeCycle ==
  \/ Launch \/ Create \/ FailToCreate \/ Publish \/ Die \/ Notice \/ Judge \/ Retire \/ Revive
  \/ Elapse \/ BeginKill \/ Obey("waiting") \/ Obey("killing") \/ Leave \/ Forget \/ Abandon

-----------------------------------------------------------------------------
(* What is done to the row from outside the life cycle.                    *)

\* A stop, restart or delete is on its way to whoever looks after the app.
Announce ==
  /\ Listed /\ (phase # "none" \/ daemon = "draining")
  /\ status' = "stopping" /\ UNCHANGED <<alive, phase, daemon>>

\* Nobody looks after it, or an announcement is taken back.
Normalise ==
  /\ Listed /\ (phase = "none" \/ status = "stopping")
  /\ status' = "stopped" /\ UNCHANGED <<alive, phase, daemon>>

Remove == status' = "absent" /\ UNCHANGED <<alive, phase, daemon>>

Shutdown == daemon = "up" /\ daemon' = "draining" /\ UNCHANGED <<status, alive, phase>>

\* Nobody is left, but for the process.
Exit ==
  /\ daemon = "draining" /\ daemon' = "exited"
  /\ status' = "absent" /\ phase' = "none" /\ UNCHANGED alive

Init == status = "stopped" /\ ~alive /\ phase = "none" /\ daemon = "up"

Next == LifeCycle \/ Announce \/ Normalise \/ Remove \/ Shutdown \/ Exit

Spec == Init /\ [][Next]_vars

-----------------------------------------------------------------------------

\* What a status says of the process is so: an app that is shown online has been up and
\* its end is not dealt with yet, one that is launching or waiting is on its way up, and
\* one in error has nobody that could bring it up, nor a process.
StatusIsReal ==
  /\ status = "online" =>
       phase \in {"up", "ended", "reviving", "retiring"} \/ (daemon = "draining" /\ phase = "none")
  /\ status = "launching" => phase \in {"starting", "born"}
  /\ status = "waiting" => phase \in {"waiting", "starting", "born"}
  /\ status = "errored" => phase \in {"leaving", "none"} /\ ~alive

=============================================================================
