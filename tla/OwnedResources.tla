--------------------------- MODULE OwnedResources ---------------------------
(***************************************************************************)
(* The resources a campaign owns: its process handles and the counters that *)
(* bound it.  The objects share no state and the code never passes one to   *)
(* another, so a behaviour exercises one of them at a time.                 *)
(***************************************************************************)
EXTENDS OwnedProcesses, ResourceAccounts

VARIABLE object   \* the object this behaviour exercises

resourceVars == <<object, processVars, accountVars>>

Objects == {"process", "envelope", "governor", "pressure", "baseline"}

TypeOK == ProcessTypeOK /\ AccountTypeOK /\ object \in Objects

\* Processes and snapshots have nothing to do with a cap: one will do for them.
ResourceInit ==
  /\ ProcessInit /\ AccountInit
  /\ object \in Objects
  /\ object \in {"process", "baseline"} => cap = Min(Caps)

ResourceNext ==
  /\ UNCHANGED object
  /\ \/ object = "process"  /\ ProcessNext  /\ UNCHANGED accountVars
     \/ object = "envelope" /\ EnvelopeNext /\ UNCHANGED processVars
     \/ object = "governor" /\ GovernorNext /\ UNCHANGED processVars
     \/ object = "pressure" /\ PressureNext /\ UNCHANGED processVars
     \/ object = "baseline" /\ BaselineNext /\ UNCHANGED processVars

ResourceSpec == ResourceInit /\ [][ResourceNext]_resourceVars
=============================================================================
