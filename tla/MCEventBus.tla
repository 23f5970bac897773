----------------------------- MODULE MCEventBus -----------------------------
(***************************************************************************)
(* Small instances of EventBus for TLC.                                    *)
(***************************************************************************)
EXTENDS EventBus, TLC

CONSTANTS a, b

\* The dashboard's request, that of `pmr logs 0`, and a program's for all about an app.
MCAsks ==
  {[topics |-> {"log"}, target |-> [kind |-> "none", of |-> {}]],
   [topics |-> {"log"}, target |-> [kind |-> "ids", of |-> {0}]],
   [topics |-> {}, target |-> [kind |-> "names", of |-> {a}]]}

=============================================================================
