------------------------------ MODULE MCTransport ------------------------------
(***************************************************************************)
(* Instances of Transport for TLC: fault menus and stream lengths.         *)
(***************************************************************************)
EXTENDS Transport

Fault(kind, direction, type, at, offset) ==
  [kind |-> kind, direction |-> direction, type |-> type, at |-> at, offset |-> offset]

MCPayloads == {<<0, 165>>}

\* One fault of each kind, by type, by sequence number, by both and untargeted,
\* and one for every frame of the other direction.
MCMenu ==
  {Fault("drop", "C2S", "COMPLETE", 2, 0),
   Fault("duplicate", "C2S", "COMPLETE", 0, 0),
   Fault("truncate", "C2S", AnyType, 1, 13),
   Fault("truncate", "C2S", AnyType, 2, 4),
   Fault("truncate", "C2S", AnyType, 0, -1),
   Fault("corrupt", "C2S", "REGISTER", 0, 12),
   Fault("reorder", "C2S", "COMPLETE", 0, 0),
   Fault("delay", "C2S", AnyType, 1, 0),
   Fault("half_close", "C2S", AnyType, 1, 0),
   Fault("close", "C2S", AnyType, 3, 0),
   Fault("drop", "S2C", AnyType, 0, 0)}

MCLongStream == [d \in Directions |-> IF d = "C2S" THEN 3 ELSE 1]
=============================================================================
