----------------------------- MODULE RunRecords -----------------------------
(***************************************************************************)
(* What a run fires and what it leaves behind, the two sides of a replay,   *)
(* in one specification: the scheduler with its plan replay, and the        *)
(* evidence with the commands that read it.  The code passes nothing from   *)
(* one to the other, so a behaviour works on one of them.                   *)
(***************************************************************************)
EXTENDS MCFaultScheduler, MCEvidence

VARIABLE side   \* "schedule" or "evidence"

recordVars == <<side, vars, evidenceVars>>

RecordInit == Init /\ EvidenceInit /\ side \in {"schedule", "evidence"}

RecordNext ==
  /\ UNCHANGED side
  /\ \/ side = "schedule" /\ Next /\ UNCHANGED evidenceVars
     \/ side = "evidence" /\ EvidenceNext /\ UNCHANGED vars

RecordSpec == RecordInit /\ [][RecordNext]_recordVars
=============================================================================
