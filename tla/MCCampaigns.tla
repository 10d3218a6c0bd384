------------------------------ MODULE MCCampaigns ------------------------------
(***************************************************************************)
(* The instance of Campaigns for TLC: three processes of worker 1 with     *)
(* boots 2, 3 and 4 and two of worker 2 with boots 7 and 8, far enough     *)
(* from them; 1 is the boot before the first.                              *)
(***************************************************************************)
EXTENDS Campaigns

CONSTANTS a1, a2, a3, b1, b2

MCIdOf == [p \in Procs |-> IF p \in {b1, b2} THEN 2 ELSE 1]
MCBootOf == [p \in Procs |-> CASE p = a1 -> 2 [] p = a2 -> 3 [] p = a3 -> 4
                               [] p = b1 -> 7 [] p = b2 -> 8]
MCResults == (Controllers \X Boots) \cup ReplayResults
=============================================================================
