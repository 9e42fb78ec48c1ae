------------------------- MODULE MCRequestScheduler -------------------------
(* Instances of RequestScheduler for TLC. *)
EXTENDS RequestScheduler, TLC

CONSTANTS d1, d2, cpu, i1, i2, i3

(* Two DMA devices and the CPU, or the CPU left out; two devices            *)
(* interrupting on one level, a third alone on the level above.             *)
SlotOf == (d1 :> 1) @@ (d2 :> 2) @@ (cpu :> 3) @@ (i1 :> 1) @@ (i2 :> 2) @@ (i3 :> 2)
LevelOf == (d1 :> 2) @@ (d2 :> 2) @@ (cpu :> 2) @@ (i1 :> 0) @@ (i2 :> 0) @@ (i3 :> 1)
MCpriority_slot == [r \in Requests |-> SlotOf[r]]
MClevel_index == [r \in Requests |-> LevelOf[r]]
MCdevice_vector == [r \in IntrRequests |-> r]

(* A configuration error: the second device was given the slot of the first. *)
MCpriority_slot_shared == [r \in Requests |-> IF r = i2 THEN 1 ELSE SlotOf[r]]
=============================================================================
