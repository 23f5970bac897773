--------------------------- MODULE DurableRegister --------------------------
(***************************************************************************)
(* What the dump file promises: a register that survives the daemon and     *)
(* power loss.  A save takes effect at once and entirely, and once it has   *)
(* been acknowledged no power loss undoes it; a save that fails, or that    *)
(* has nothing to write, changes nothing.                                   *)
(*                                                                         *)
(* This is promised to saves that do not overlap.  Two that do leave        *)
(* anything, until a save that runs alone has been acknowledged.            *)
(***************************************************************************)
CONSTANTS Savers, Values, NoValue

VARIABLES
  value,    \* the value that the register holds, NoValue if none
  survives, \* values one of which it would hold after a power loss
  damaged,  \* somebody else has destroyed it since a save was last acknowledged
  call,     \* per saver: the value it is about to save, and how its last save ended
  overlap   \* whether saves have overlapped: "no", "yes", or "past" if the one that is
            \* under way has not

vars == <<value, survives, damaged, call, overlap>>

Saved == Values \cup {NoValue}

Init ==
  /\ value = NoValue /\ survives = {NoValue} /\ damaged = FALSE /\ overlap = "no"
  /\ call = [s \in Savers |-> [pc |-> "idle", val |-> NoValue]]

Calls(s) == call[s].pc = "saving"
Ends(s, result) == Calls(s) /\ call' = [call EXCEPT ![s] = [pc |-> result, val |-> NoValue]]

\* What the register holds, and would hold, is as it was, if it was anything.
Holds ==
  /\ value' \in Saved /\ survives' \subseteq Saved
  /\ overlap = "no" => UNCHANGED <<value, survives>>

Save(s, v) ==
  /\ ~Calls(s)
  /\ call' = [call EXCEPT ![s] = [pc |-> "saving", val |-> v]]
  /\ overlap' = IF \E t \in Savers \ {s} : Calls(t) THEN "yes"
                ELSE IF overlap = "no" THEN "no" ELSE "past"
  /\ UNCHANGED <<value, survives, damaged>>

\* A table without rows is never saved.
SaveNothing(s) ==
  /\ ~Calls(s)
  /\ call' = [call EXCEPT ![s] = [pc |-> "nothing", val |-> NoValue]]
  /\ UNCHANGED <<value, survives, damaged, overlap>>

\* The one step at which a save takes effect.
Commit(s) ==
  /\ Calls(s)
  /\ value' = call[s].val
  /\ survives' = survives \cup {value'}
  /\ UNCHANGED <<damaged, call, overlap>>

\* Two savers are at it, or were.
Disturb ==
  /\ overlap # "no"
  /\ value' \in Saved /\ survives' \subseteq Saved
  /\ UNCHANGED <<damaged, call, overlap>>

Acknowledge(s) ==
  /\ IF overlap = "yes" THEN survives' \subseteq Saved
     ELSE value = call[s].val /\ survives' = {value}
  /\ overlap' = IF overlap = "past" THEN "no" ELSE overlap
  /\ damaged' = FALSE
  /\ Ends(s, "ok")
  /\ UNCHANGED value

Fail(s) ==
  /\ Ends(s, "err") /\ Holds
  /\ UNCHANGED <<damaged, overlap>>

\* The system writes back what it has cached.
Settle ==
  /\ survives' = {value}
  /\ UNCHANGED <<value, damaged, call, overlap>>

AllIdle == call' = [s \in Savers |-> [pc |-> "idle", val |-> NoValue]]

\* The daemon ends, in whatever way; the next one may save again.
Crash == AllIdle /\ UNCHANGED <<value, survives, damaged, overlap>>

PowerLoss ==
  /\ value' \in survives /\ survives' = {value'}
  /\ AllIdle /\ UNCHANGED <<damaged, overlap>>

\* From outside.
Damage ==
  /\ value' = NoValue /\ survives' = {NoValue} /\ damaged' = TRUE
  /\ UNCHANGED <<call, overlap>>

Next ==
  \/ \E s \in Savers : \/ \E v \in Values : Save(s, v)
                       \/ SaveNothing(s) \/ Commit(s) \/ Acknowledge(s) \/ Fail(s)
  \/ Disturb \/ Settle \/ Crash \/ PowerLoss \/ Damage

Spec == Init /\ [][Next]_vars

=============================================================================
