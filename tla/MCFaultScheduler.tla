-------------------------- MODULE MCFaultScheduler --------------------------
(***************************************************************************)
(* Instances of FaultScheduler for TLC: the campaigns of up to two faults   *)
(* from a menu with every way to set a trigger.                             *)
(***************************************************************************)
EXTENDS FaultScheduler

Fault(category, trigger, name, at) ==
  [category |-> category, trigger |-> trigger, trigger_name |-> name, at_count |-> at]

\* Counts "2", "0", an unreadable one and one that overflows to 0; names that
\* are set, defaulted and empty; an override that plan() knows and one it does not.
MCFaults ==
  {Fault("dependency_failure", NoParam, "x", <<2>>),
   Fault("dependency_failure", NoParam, "", <<2>>),
   Fault("cuda_verification_failure", NoParam, "x", <<NotHex>>),
   Fault("connection_drop", "event_count", "y", <<1, 0, 0>>),
   Fault("worker_death", NoParam, NoParam, <<2>>),
   Fault("socket_reset", NoParam, "x", NoParam),
   Fault("stale_boot", "operation_phase", "y", NoParam),
   Fault("restart_race", NoParam, "x", <<2>>)}
MCCampaigns == BoundedSeq(MCFaults, 2)
MCNames == {"x", "y", "completion_boundary"}
=============================================================================
