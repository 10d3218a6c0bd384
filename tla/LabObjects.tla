----------------------------- MODULE LabObjects -----------------------------
(***************************************************************************)
(* The objects a campaign is made of and works with, in one specification:  *)
(* its definition and files (CampaignInputs), its processes and accounts    *)
(* (OwnedResources).  They share no state, so a behaviour works on one of   *)
(* the two groups.                                                          *)
(***************************************************************************)
EXTENDS CampaignInputs, OwnedResources

VARIABLE group   \* "inputs" or "resources"

labVars == <<group, vars, resourceVars>>

LabInit ==
  /\ Init /\ ResourceInit
  /\ group \in {"inputs", "resources"}
  /\ group = "inputs" => object = "process"
  /\ group = "resources" => input = "file"

LabNext ==
  /\ UNCHANGED group
  /\ \/ group = "inputs" /\ Next /\ UNCHANGED resourceVars
     \/ group = "resources" /\ ResourceNext /\ UNCHANGED vars

LabSpec == LabInit /\ [][LabNext]_labVars
=============================================================================
