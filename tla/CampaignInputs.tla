--------------------------- MODULE CampaignInputs ---------------------------
(***************************************************************************)
(* What a campaign is given: its definition and the files it corrupts.  The *)
(* two share no state, so a behaviour works on one of them.                 *)
(***************************************************************************)
EXTENDS CampaignBuild, PersistenceFaults

VARIABLE input   \* "definition" or "file"

vars == <<input, buildVars, persistenceVars>>

Init ==
  /\ BuildInit /\ PersistenceInit
  /\ input \in {"definition", "file"}
  /\ input = "file" => maker = "builder"

Next ==
  /\ UNCHANGED input
  /\ \/ input = "definition" /\ BuildNext /\ UNCHANGED persistenceVars
     \/ input = "file" /\ PersistenceNext /\ UNCHANGED buildVars

Spec == Init /\ [][Next]_vars
=============================================================================
