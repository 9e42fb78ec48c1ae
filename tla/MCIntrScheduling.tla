-------------------------- MODULE MCIntrScheduling -------------------------
(* Instances of IntrScheduling for TLC: two devices on one BR level, a third *)
(* on the level above.                                                       *)
EXTENDS IntrScheduling, TLC

CONSTANTS i1, i2, i3

SlotOf == (i1 :> 0) @@ (i2 :> 1) @@ (i3 :> 0)
LevelOf == (i1 :> 0) @@ (i2 :> 0) @@ (i3 :> 1)
MCpriority_slot == [r \in Requests |-> SlotOf[r]]
MClevel_index == [r \in Requests |-> LevelOf[r]]
MCdevice_vector == [r \in IntrRequests |-> r]
=============================================================================
