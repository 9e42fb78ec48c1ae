-------------------------- MODULE MCDmaScheduling --------------------------
(* Instances of DmaScheduling for TLC: the NPR level alone, two devices and  *)
(* the CPU at the lowest priority.                                           *)
EXTENDS DmaScheduling, TLC

CONSTANTS d1, d2, cpu

SlotOf == (d1 :> 0) @@ (d2 :> 1) @@ (cpu :> 2)
MCpriority_slot == [r \in Requests |-> SlotOf[r]]
MClevel_index == [r \in Requests |-> PRIORITY_LEVEL_INDEX_NPR]
MCdevice_vector == [r \in IntrRequests |-> r]
=============================================================================
