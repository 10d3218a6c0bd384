---------------------------- MODULE MCTargetRuntime ----------------------------
(***************************************************************************)
(* Instances of TargetRuntime for TLC.  a1 and a2 are two processes of     *)
(* logical worker 1, b is worker 2.                                        *)
(***************************************************************************)
EXTENDS TargetRuntime, TLC

CONSTANTS a1, a2, b

MCIdOf == [p \in Procs |-> IF p = b THEN 2 ELSE 1]
MCBootOf == [p \in Procs |-> IF p = a1 THEN 100 ELSE IF p = a2 THEN 101 ELSE 200]
MCResults == (Controllers \X Boots) \cup ReplayResults

Symmetry == Permutations(Fds) \cup Permutations(Controllers)
=============================================================================
