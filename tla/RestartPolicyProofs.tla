------------------------ MODULE RestartPolicyProofs ------------------------
(***************************************************************************)
(* Proofs, for every configuration, of what RestartPolicy states: the      *)
(* counters of the row are the number of early exits since the last reset, *)
(* the delay stays within the base or the cap, whichever is larger, and    *)
(* both survive a reset that overtakes a restart.                          *)
(***************************************************************************)
EXTENDS RestartPolicy, TLAPS

\* The row counts the early exits, except while the verdict on one is pending:
\* then the verdict does.
Counted ==
  /\ verdict.kind \in {"none", "stop"} => unstable = crashes
  /\ verdict.kind = "restart" => verdict.unstable = crashes /\ crashes < MaxRestarts
  /\ verdict.kind = "giveup" => crashes = MaxRestarts

\* A delay, in the row or in a pending verdict, is past the cap only if it is the base.
Capped ==
  /\ prevDelay > Cap => prevDelay = base
  /\ verdict.prevDelay > Cap => verdict.prevDelay = base
  /\ base > 0 => /\ left > Cap => left <= base
                 /\ verdict.delay > Cap => verdict.delay <= base

\* A pending restart does not shrink the delay, but from a base past the cap.
Monotone ==
  /\ base = 0 => prevDelay = 0 /\ verdict.prevDelay = 0
  /\ verdict.kind = "restart" =>
       prevDelay <= verdict.prevDelay \/ (prevDelay = base /\ verdict.prevDelay = Cap)

IInv == TypeOK /\ Counted /\ Capped /\ Monotone

\* A delay grows with each restart, and past the cap only to the base.
LEMMA NextDelayGrows ==
  ASSUME NEW prev \in Nat, base \in Nat, prev > Cap => prev = base
  PROVE  /\ NextDelay(prev) \in Nat
         /\ NextDelay(prev) > Cap => NextDelay(prev) = base
         /\ prev <= NextDelay(prev) \/ (prev = base /\ NextDelay(prev) = Cap)
<1>1. prev * 3 \in Nat /\ (prev * 3) \div 2 \in Nat
  OBVIOUS
<1>2. prev <= (prev * 3) \div 2
  OBVIOUS
<1> QED
  BY <1>1, <1>2, LimitsAssumption DEF NextDelay

\* What decide_restart returns for a row that the invariant describes.
LEMMA DecideResult ==
  ASSUME IInv, NEW stop \in BOOLEAN
  PROVE  /\ Decide(stop) \in Verdicts
         /\ Decide(stop).kind # "none"
         /\ stop <=> Decide(stop).kind = "stop"
         /\ Decide(stop).kind = "giveup" => unstable + (IF Quick THEN 1 ELSE 0) >= MaxRestarts
         /\ Decide(stop).kind = "restart" =>
              /\ Decide(stop).unstable = unstable + (IF Quick THEN 1 ELSE 0)
              /\ Decide(stop).unstable < MaxRestarts
              /\ \/ prevDelay <= Decide(stop).prevDelay
                 \/ prevDelay = base /\ Decide(stop).prevDelay = Cap
         /\ base = 0 => Decide(stop).prevDelay = 0
         /\ Decide(stop).prevDelay > Cap => Decide(stop).prevDelay = base
         /\ base > 0 /\ Decide(stop).delay > Cap => Decide(stop).delay <= base
<1> DEFINE n == unstable + (IF Quick THEN 1 ELSE 0)
           delay == IF base > 0 THEN NextDelay(prevDelay) ELSE RestartDelay
           prev == IF base > 0 THEN delay ELSE 0
<1>1. prevDelay \in Nat /\ base \in Nat /\ unstable \in 0..MaxRestarts /\ n \in Nat
  BY LimitsAssumption DEF IInv, TypeOK
<1>2. /\ NextDelay(prevDelay) \in Nat
      /\ NextDelay(prevDelay) > Cap => NextDelay(prevDelay) = base
      /\ prevDelay <= NextDelay(prevDelay) \/ (prevDelay = base /\ NextDelay(prevDelay) = Cap)
  BY <1>1, NextDelayGrows DEF IInv, Capped
<1>3. delay \in Nat /\ prev \in Nat /\ (base = 0 => prev = 0)
  BY <1>2, LimitsAssumption
<1>4. /\ prev > Cap => prev = base
      /\ prevDelay <= prev \/ (prevDelay = base /\ prev = Cap)
      /\ base > 0 /\ delay > Cap => delay <= base
  BY <1>1, <1>2, LimitsAssumption DEF IInv, Capped, Monotone
<1>5. CASE stop
  BY <1>5, LimitsAssumption DEF Decide, NoVerdict, Verdicts
<1>6. CASE ~stop /\ n >= MaxRestarts
  BY <1>6, LimitsAssumption DEF Decide, GivesUp, NoVerdict, Verdicts
<1>7. CASE ~stop /\ ~(n >= MaxRestarts)
  <2> HIDE DEF n, delay, prev
  <2>1. Decide(stop) = [kind |-> "restart", unstable |-> n, delay |-> delay, prevDelay |-> prev]
    BY <1>7 DEF Decide, GivesUp, n, delay, prev
  <2>2. n \in 0..MaxRestarts /\ n < MaxRestarts
    BY <1>1, <1>7, LimitsAssumption
  <2>3. Decide(stop) \in Verdicts
    BY <2>1, <2>2, <1>3 DEF Verdicts
  <2> QED
    BY <2>1, <2>2, <2>3, <1>3, <1>4, <1>7 DEF n
<1> QED
  BY <1>1, <1>5, <1>6, <1>7, LimitsAssumption

-----------------------------------------------------------------------------

LEMMA InitInv == Init => IInv
  BY LimitsAssumption
  DEF Init, IInv, TypeOK, Counted, Capped, Monotone, NoVerdict, Verdicts, Phases

LEMMA ExitInv == IInv /\ Exit /\ base' = base => IInv'
<1> SUFFICES ASSUME IInv, Exit, base' = base PROVE IInv'
  OBVIOUS
<1>1. PICK stop \in BOOLEAN :
        /\ verdict' = Decide(stop)
        /\ crashes' = IF EarlyExit /\ ~stop THEN Grow(crashes, MaxRestarts) ELSE crashes
  BY DEF Exit
<1> DEFINE d == Decide(stop)
<1>2. /\ d \in Verdicts
      /\ d.kind # "none"
      /\ stop <=> d.kind = "stop"
      /\ d.kind = "giveup" => unstable + (IF Quick THEN 1 ELSE 0) >= MaxRestarts
      /\ d.kind = "restart" =>
           /\ d.unstable = unstable + (IF Quick THEN 1 ELSE 0)
           /\ d.unstable < MaxRestarts
           /\ prevDelay <= d.prevDelay \/ (prevDelay = base /\ d.prevDelay = Cap)
      /\ base = 0 => d.prevDelay = 0
      /\ d.prevDelay > Cap => d.prevDelay = base
      /\ base > 0 /\ d.delay > Cap => d.delay <= base
  BY DecideResult
<1> HIDE DEF d
<1>3. verdict' = d
  BY <1>1 DEF d
<1>4. /\ phase = "online" /\ phase' = "exited"
      /\ UNCHANGED <<unstable, prevDelay, age, uptime, left>>
  BY DEF Exit
<1>5. /\ base \in Bases /\ unstable \in 0..MaxRestarts /\ prevDelay \in Nat /\ age \in Nat /\ uptime \in Nat
      /\ left \in Nat /\ crashes \in 0..MaxRestarts
      /\ unstable = crashes
  BY <1>4 DEF IInv, TypeOK, Counted, NoVerdict
<1>6. crashes' \in 0..MaxRestarts
  BY <1>1, <1>5, LimitsAssumption DEF Grow
<1>7. TypeOK'
  <2>1. d # NoVerdict
    BY <1>2 DEF NoVerdict
  <2> QED
    BY <2>1, <1>2, <1>3, <1>4, <1>5, <1>6 DEF TypeOK, Phases, NoVerdict
<1>8. Counted'
  <2>1. Quick <=> EarlyExit
    BY DEF Quick, EarlyExit
  <2> QED
    BY <2>1, <1>1, <1>2, <1>3, <1>4, <1>5, LimitsAssumption DEF Counted, Grow
<1>9. Capped' /\ Monotone'
  BY <1>2, <1>3, <1>4 DEF IInv, Capped, Monotone
<1> QED
  BY <1>7, <1>8, <1>9 DEF IInv

\* Every step but an exit only moves the counters between row and verdict.
LEMMA StepInv ==
  ASSUME IInv, base' = base,
         Tick \/ Stop \/ GiveUp \/ Restart \/ WaitOver
           \/ ManualRestart \/ FallbackStart \/ ResetCounters \/ WorkerTick
  PROVE  IInv'
<1> USE LimitsAssumption DEF IInv, TypeOK, Counted, Capped, Monotone, Phases
<1>1. CASE Tick
  BY <1>1 DEF Tick, Grow, UptimeLimit, AgeLimit, Window, Verdicts
<1>2. CASE Stop
  BY <1>2 DEF Stop, NoVerdict, Verdicts
<1>3. CASE GiveUp
  BY <1>3 DEF GiveUp, NoVerdict, Verdicts
<1>4. CASE Restart
  <2>1. /\ verdict.kind = "restart" /\ verdict.unstable \in 0..MaxRestarts
        /\ verdict.delay \in Nat /\ verdict.prevDelay \in Nat
        /\ unstable' = verdict.unstable /\ prevDelay' = verdict.prevDelay
        /\ verdict' = NoVerdict
        /\ age' = age /\ crashes' = crashes
    BY <1>4 DEF Restart, Verdicts
  <2>2. \/ phase' = "online" /\ uptime' = 0 /\ left' = 0
        \/ phase' = "waiting" /\ left' = verdict.delay /\ uptime' = uptime
    BY <1>4 DEF Restart, ComesUp
  <2>3. NoVerdict \in Verdicts /\ NoVerdict.kind = "none" /\ NoVerdict.prevDelay = 0
        /\ NoVerdict.delay = 0
    BY DEF NoVerdict, Verdicts
  <2>4. TypeOK'
    BY <2>1, <2>2, <2>3
  <2>5. Counted'
    BY <2>1, <2>3
  <2>6. Capped'
    BY <2>1, <2>2, <2>3
  <2>7. Monotone'
    BY <2>1, <2>3
  <2> QED
    BY <2>4, <2>5, <2>6, <2>7
<1>5. CASE WaitOver
  BY <1>5 DEF WaitOver, ComesUp, Verdicts
<1>6. CASE ManualRestart
  BY <1>6 DEF ManualRestart, ResetState, ComesUp, NoVerdict, Verdicts
<1>7. CASE FallbackStart
  BY <1>7 DEF FallbackStart, ComesUp, Verdicts
<1>8. CASE ResetCounters
  BY <1>8 DEF ResetCounters, ResetState, NoVerdict, Verdicts
<1>9. CASE WorkerTick
  BY <1>9 DEF WorkerTick, Verdicts
<1> QED
  BY <1>1, <1>2, <1>3, <1>4, <1>5, <1>6, <1>7, <1>8, <1>9

LEMMA NextInv == IInv /\ [Next /\ UNCHANGED base]_vars => IInv'
<1> SUFFICES ASSUME IInv, [Next /\ UNCHANGED base]_vars PROVE IInv'
  OBVIOUS
<1>1. CASE Exit /\ base' = base
  BY <1>1, ExitInv
<1>2. CASE Next /\ ~Exit /\ base' = base
  BY <1>2, StepInv DEF Next
<1>3. CASE UNCHANGED vars
  BY <1>3 DEF vars, IInv, TypeOK, Counted, Capped, Monotone
<1> QED
  BY <1>1, <1>2, <1>3

\* The inductive invariant of the restart policy holds for every configuration:
\* types, and the three facts that tie the counters and the delay to what
\* happened to the process.
THEOREM PolicyInductive == Spec => []IInv
  BY InitInv, NextInv, PTL DEF Spec

\* Type correctness; no row shows more unstable restarts than its limit.
THEOREM PolicyTypes == Spec => []TypeOK
<1>1. IInv => TypeOK
  BY DEF IInv
<1> QED
  BY <1>1, PolicyInductive, PTL

\* pmr never gives up on a process that has not exited early MaxRestarts times
\* since its counters were last reset.
THEOREM GiveUpIsAlwaysEarned == Spec => []GiveUpIsEarned
<1>1. IInv => GiveUpIsEarned
  BY LimitsAssumption DEF IInv, TypeOK, Counted, GiveUpIsEarned
<1> QED
  BY <1>1, PolicyInductive, PTL

\* The delay before a restart stays within the cap, or is the configured base, for any
\* base and cap.
THEOREM BackoffStaysBounded == Spec => []BackoffBounded
<1>1. IInv => BackoffBounded
  BY LimitsAssumption DEF IInv, TypeOK, Capped, BackoffBounded
<1> QED
  BY <1>1, PolicyInductive, PTL

\* The early exit that reaches the limit is never followed by an automatic restart.
THEOREM CrashLoopsEnd == Spec => CrashLoopEnds
<1> DEFINE Ends == phase = "online" /\ phase' = "exited" /\ crashes' >= MaxRestarts
                     => verdict'.kind # "restart"
<1>1. IInv' => Ends
  BY LimitsAssumption DEF IInv, TypeOK, Counted
<1>2. IInv /\ IInv' /\ [Next /\ UNCHANGED base]_vars => [Ends]_vars
  BY <1>1
<1> QED
  BY <1>2, PolicyInductive, PTL DEF Spec, CrashLoopEnds

\* The delay goes back only by a reset, after the process has settled, or from a base
\* past the cap to the cap, for any base and cap.
THEOREM BackoffEndsOnlyByStability == Spec => BackoffEndsByStability
<1> DEFINE Grows == prevDelay' < prevDelay =>
                      \/ ResetState
                      \/ phase = "online" /\ uptime > ResetAfter
                      \/ prevDelay = base /\ prevDelay' = Cap
<1>1. ASSUME IInv, Next PROVE Grows
  <2> USE LimitsAssumption DEF IInv, TypeOK
  <2>1. CASE Restart
    BY <1>1, <2>1 DEF Restart, Monotone, Verdicts
  <2>2. CASE ManualRestart \/ ResetCounters
    BY <1>1, <2>2 DEF ManualRestart, ResetCounters
  <2>3. CASE WorkerTick
    BY <1>1, <2>3 DEF WorkerTick
  <2>4. CASE Tick \/ Exit \/ Stop \/ GiveUp \/ WaitOver \/ FallbackStart
    BY <1>1, <2>4 DEF Tick, Exit, Stop, GiveUp, WaitOver, FallbackStart
  <2> QED
    BY <1>1, <2>1, <2>2, <2>3, <2>4 DEF Next
<1>2. IInv /\ [Next /\ UNCHANGED base]_vars => [Grows]_vars
  BY <1>1
<1> QED
  BY <1>2, PolicyInductive, PTL DEF Spec, BackoffEndsByStability

============================================================================
