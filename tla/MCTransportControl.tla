-------------------------- MODULE MCTransportControl --------------------------
(***************************************************************************)
(* An instance of TransportControl for TLC.                                 *)
(***************************************************************************)
EXTENDS TransportControl

TwoFrames == [d \in Directions |-> 2]
=============================================================================
