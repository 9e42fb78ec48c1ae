---------------------------- MODULE BusArbitration ----------------------------
(* The two builds of the PRU program, for the UNIBUS and for the QBUS, and     *)
(* what both promise to ARM.  A board runs one of them; they share no state.   *)
EXTENDS UnibusArbitration, QbusArbitration

(* RequestKept and QRequestKept: the PRU forgets no request of ARM's.         *)
RequestsKept == RequestKept /\ QRequestKept

(* NprServed and QDmaServed: every DMA gets the bus.                          *)
DmaServed == NprServed /\ QDmaServed
=============================================================================
