--------------------------- MODULE RestartPolicy ---------------------------
(***************************************************************************)
(* When a supervised process that exits is restarted, after what delay,    *)
(* and when pmr gives up on it: decide_restart of daemon/supervisor.rs     *)
(* with the counters it reads and writes in the row, and what resets them: *)
(* manual restarts, pmr reset, and the worker's tick.                      *)
(*                                                                         *)
(* Time is counted in ticks.  The code only compares ages of the row with  *)
(* limits, so an age stops growing once it is past every limit.            *)
(***************************************************************************)
EXTENDS Naturals

CONSTANTS
  MinUptime,     \* config.min_uptime
  MaxRestarts,   \* config.max_restarts
  RestartDelay,  \* config.restart_delay
  Bases,         \* what config.exp_backoff_restart_delay may be, 0 for none
  Cap,           \* BACKOFF_CAP_MS
  ResetAfter     \* BACKOFF_RESET_AFTER_MS

ASSUME LimitsAssumption ==
  /\ MinUptime \in Nat /\ MaxRestarts \in Nat
  /\ RestartDelay \in Nat /\ Bases \subseteq Nat /\ Cap \in Nat \ {0} /\ ResetAfter \in Nat

VARIABLES
  base,       \* config.exp_backoff_restart_delay of the app
  phase,      \* where the supervisor task stands
  unstable,   \* Proc.unstable_restarts
  prevDelay,  \* Proc.prev_restart_delay
  age,        \* now - Proc.created_at
  uptime,     \* now - Proc.uptime_ms
  left,       \* what is left of the restart delay
  verdict,    \* what decide_restart said of the facts it was given
  crashes     \* history: early exits since the counters were last reset, but for
              \* the exits that end in a stop whatever their time

vars == <<base, phase, unstable, prevDelay, age, uptime, left, verdict, crashes>>

Phases == {"down", "online", "exited", "waiting"}

Window == MinUptime * MaxRestarts

\* Where the two ages stop growing.
AgeLimit == Window
UptimeLimit == (IF MinUptime > ResetAfter THEN MinUptime ELSE ResetAfter) + 1

Grow(n, limit) == IF n < limit THEN n + 1 ELSE limit

\* What the history counts: the process ends before it was up for MinUptime, in
\* its first Window ticks since it was added or reset.
EarlyExit == uptime < MinUptime /\ age < Window

-----------------------------------------------------------------------------
(* decide_restart.                                                         *)

\* Variant for the mutation runs: an uptime of min_uptime still counts as quick.
QuickInclusive == age < Window /\ uptime <= MinUptime

\* The exit comes early in the life of the process, and of its counters.
Quick == age < Window /\ uptime < MinUptime

\* Variant: one more unstable restart than max_restarts is allowed.
GivesUpLate(n) == n > MaxRestarts

GivesUp(n) == n >= MaxRestarts

\* Variant: the growth of the delay is not capped.
NextDelayUncapped(prev) == IF prev = 0 THEN base ELSE (prev * 3) \div 2

\* Exponential backoff: the base first, then half as much again up to the cap.
NextDelay(prev) ==
  IF prev = 0 THEN base
  ELSE IF (prev * 3) \div 2 < Cap THEN (prev * 3) \div 2 ELSE Cap

NoVerdict == [kind |-> "none", unstable |-> 0, delay |-> 0, prevDelay |-> 0]

\* stop stands for an exit code in stop_exit_codes, autorestart = false, or a
\* row that is being stopped.
Decide(stop) ==
  LET n == unstable + (IF Quick THEN 1 ELSE 0)
      delay == IF base > 0 THEN NextDelay(prevDelay) ELSE RestartDelay
  IN IF stop THEN [NoVerdict EXCEPT !.kind = "stop"]
     ELSE IF GivesUp(n) THEN [NoVerdict EXCEPT !.kind = "giveup"]
     ELSE [kind |-> "restart", unstable |-> n, delay |-> delay,
           prevDelay |-> IF base > 0 THEN delay ELSE 0]

-----------------------------------------------------------------------------

\* reset_state and reset_counters, as far as the decision reads them.
ResetState == unstable' = 0 /\ prevDelay' = 0 /\ age' = 0

\* The child comes up at once, or after the delay.
ComesUp == phase' = "online" /\ uptime' = 0 /\ left' = 0

Init ==
  /\ base \in Bases
  /\ phase = "online"
  /\ unstable = 0 /\ prevDelay = 0
  /\ age = 0 /\ uptime = 0 /\ left = 0
  /\ verdict = NoVerdict
  /\ crashes = 0

Tick ==
  /\ age' = Grow(age, AgeLimit)
  /\ uptime' = Grow(uptime, UptimeLimit)
  /\ left' = IF left > 0 THEN left - 1 ELSE 0
  /\ UNCHANGED <<phase, unstable, prevDelay, verdict, crashes>>

\* The process exits and the facts are captured and judged.
Exit ==
  /\ phase = "online"
  /\ phase' = "exited"
  /\ \E stop \in BOOLEAN :
       /\ verdict' = Decide(stop)
       /\ crashes' = IF EarlyExit /\ ~stop THEN Grow(crashes, MaxRestarts) ELSE crashes
  /\ UNCHANGED <<unstable, prevDelay, age, uptime, left>>

\* The verdict is carried out, in a critical section of its own.
Stop ==
  /\ phase = "exited" /\ verdict.kind = "stop"
  /\ phase' = "down" /\ verdict' = NoVerdict
  /\ UNCHANGED <<unstable, prevDelay, age, uptime, left, crashes>>

GiveUp ==
  /\ phase = "exited" /\ verdict.kind = "giveup"
  /\ phase' = "down" /\ verdict' = NoVerdict
  /\ unstable' = MaxRestarts
  /\ UNCHANGED <<prevDelay, age, uptime, left, crashes>>

Restart ==
  /\ phase = "exited" /\ verdict.kind = "restart"
  /\ unstable' = verdict.unstable /\ prevDelay' = verdict.prevDelay
  /\ verdict' = NoVerdict
  /\ IF verdict.delay = 0 THEN ComesUp
     ELSE phase' = "waiting" /\ left' = verdict.delay /\ UNCHANGED uptime
  /\ UNCHANGED <<age, crashes>>

WaitOver ==
  /\ phase = "waiting" /\ left = 0
  /\ ComesUp
  /\ UNCHANGED <<unstable, prevDelay, age, verdict, crashes>>

\* A restart command: to a process that runs, waits or is down.
ManualRestart ==
  /\ phase # "exited"
  /\ ResetState /\ ComesUp /\ crashes' = 0
  /\ UNCHANGED verdict

\* The cold start of a restart whose command was dropped: nothing is reset.
FallbackStart ==
  /\ phase = "down"
  /\ ComesUp
  /\ UNCHANGED <<unstable, prevDelay, age, verdict, crashes>>

\* pmr reset, at any time.  One that comes between the capture of an exit's
\* facts and the restart, or the giving up, is overwritten: the history goes on.
ResetCounters ==
  /\ ResetState
  /\ crashes' = IF verdict.kind \in {"restart", "giveup"} THEN crashes ELSE 0
  /\ UNCHANGED <<phase, uptime, left, verdict>>

\* Variant: the worker forgets the backoff of a process that is up, however briefly.
WorkerTickAtOnce ==
  /\ phase = "online" /\ prevDelay > 0
  /\ prevDelay' = 0
  /\ UNCHANGED <<phase, unstable, age, uptime, left, verdict, crashes>>

\* worker::sample: a process that stayed up long enough has its backoff reset.
WorkerTick ==
  /\ phase = "online" /\ prevDelay > 0 /\ uptime > ResetAfter
  /\ prevDelay' = 0
  /\ UNCHANGED <<phase, unstable, age, uptime, left, verdict, crashes>>

Next ==
  \/ Tick \/ Exit \/ Stop \/ GiveUp \/ Restart \/ WaitOver
  \/ ManualRestart \/ FallbackStart \/ ResetCounters \/ WorkerTick

\* No request changes the configuration of a row.
Spec == Init /\ [][Next /\ UNCHANGED base]_vars

-----------------------------------------------------------------------------

Verdicts ==
  [kind : {"none", "stop", "giveup", "restart"}, unstable : 0..MaxRestarts,
   delay : Nat, prevDelay : Nat]

\* Type correctness: the row of a process never shows more unstable restarts
\* than its limit (supervisor.rs:243-250), and a verdict exists only between an
\* exit and what is done about it.
TypeOK ==
  /\ base \in Bases
  /\ phase \in Phases
  /\ unstable \in 0..MaxRestarts
  /\ prevDelay \in Nat /\ age \in Nat /\ uptime \in Nat /\ left \in Nat
  /\ verdict \in Verdicts
  /\ (verdict = NoVerdict) <=> (phase # "exited")
  /\ crashes \in 0..MaxRestarts

\* pmr gives up on a process only when MaxRestarts of its exits since its
\* counters were last reset came early: runs that lasted min_uptime are never
\* held against it, whatever resets, worker ticks and cold starts come between.
GiveUpIsEarned == verdict.kind = "giveup" => crashes >= MaxRestarts

\* A crash loop ends: the exit that makes the MaxRestarts-th early one since the
\* counters were reset is not followed by an automatic restart.
CrashLoopEnds ==
  [][phase = "online" /\ phase' = "exited" /\ crashes' >= MaxRestarts
       => verdict'.kind # "restart"]_vars

\* A delay before a restart is within the cap, or is the base that the configuration
\* asks for, which nothing caps (supervisor.rs:79-85).
BackoffBounded ==
  /\ prevDelay > Cap => prevDelay = base
  /\ base > 0 /\ left > Cap => left <= base

\* What the README, the change log and config.rs:132 say of the delay, and what a base
\* past the cap breaks: no backoff exceeds the cap.
DelayCapped == base > 0 => left <= Cap

\* The delay of an unstable process goes back only by a reset of the counters, after
\* the process stayed up for more than ResetAfter (worker.rs:229-236), or from a base
\* past the cap to the cap.
BackoffEndsByStability ==
  [][prevDelay' < prevDelay =>
       \/ ResetState
       \/ phase = "online" /\ uptime > ResetAfter
       \/ prevDelay = base /\ prevDelay' = Cap]_vars

=============================================================================
