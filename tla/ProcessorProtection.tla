------------------------- MODULE ProcessorProtection -------------------------
(* What protects the programs of an emulated PDP-11/34 from each other: the   *)
(* two modes of the KD11-EA, with their stack pointers, and the KT11-D.  The  *)
(* modules share no state: what the KT11-D lets through is a choice in        *)
(* PDP11Step, and the modes the core sets are one in KT11DMemoryManagement.   *)
EXTENDS PDP11Step, KT11DMemoryManagement

(* User mode stays confined: it changes neither mode nor priority nor the      *)
(* kernel's stack pointer, the KT11-D translates as PAR and PDR say and keeps  *)
(* the first abort, and no step() runs without the bus.                       *)
ProtectionKept ==
  /\ [](StackPointersKept /\ StepsHaveBus) /\ UserIsConfined
  /\ []RelocationExact /\ FirstAbortKept
=============================================================================
