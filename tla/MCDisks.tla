------------------------------- MODULE MCDisks -------------------------------
(* Disk controllers for TLC: an RK11, an RF11 and an RX11 or RX211, of which  *)
(* one is enabled.  They share no state (each has its own request slots in    *)
(* the adapter), so that one at a time shows what each does.                  *)
EXTENDS RK11Controller, RF11Controller, RXFloppy

\* The word counts are those of the register: RKWordModulus - 5 words, beyond
\* the end of the cylinder, and a transfer from drive 1, which is off line.
RKCommand(fn, ide) == [go |-> TRUE, fn |-> fn, ide |-> ide]
MCRKCommands == {RKCommand("Write", TRUE), RKCommand("Write_Check", FALSE), RKCommand("Seek", TRUE),
                 RKCommand("Control_Reset", FALSE), RKCommand("Write_Lock", FALSE),
                 [RKCommand("Read", TRUE) EXCEPT !.go = FALSE]}
MCRKAddresses == [unit : {0}, cyl : {0}, sector : {1}, wc : {5}]
                   \cup [unit : {1}, cyl : {1}, sector : {0}, wc : {3}]

\* Transfers of 1, 2 and 4 words, one past the end of the disk.
RFCommand(fn, ie) == [go |-> TRUE, fn |-> fn, ie |-> ie, disk_clear |-> FALSE]
MCRFCommands == {RFCommand("WRITE", TRUE), RFCommand("WRITE_CHECK", FALSE),
                 RFCommand("READ", TRUE), RFCommand("NOP", TRUE),
                 [RFCommand("NOP", TRUE) EXCEPT !.disk_clear = TRUE],
                 [RFCommand("READ", TRUE) EXCEPT !.go = FALSE]}
MCRFAddresses == {[dar |-> 1, wc |-> 2], [dar |-> 3, wc |-> 3],
                  [dar |-> 2, wc |-> 0], [dar |-> 2, wc |-> 3]}

RXCommand(fn, ie, unit) ==
  [init |-> FALSE, go |-> TRUE, fn |-> fn, ie |-> ie, unit |-> unit, density |-> FALSE]
\* Functions of all kinds, the INIT bit, and a write without GO.
MCRXCommands == {RXCommand("FILL_BUFFER", FALSE, 0), RXCommand("EMPTY_BUFFER", TRUE, 0),
                 RXCommand("WRITE_SECTOR", TRUE, 1), RXCommand("READ_ERROR_CODE", FALSE, 0),
                 [RXCommand("SET_MEDIA_DENSITY", FALSE, 1) EXCEPT !.density = TRUE],
                 [RXCommand("READ_STATUS", FALSE, 0) EXCEPT !.init = TRUE],
                 [RXCommand("EMPTY_BUFFER", TRUE, 0) EXCEPT !.go = FALSE]}

\* Bound: an INIT, or a write of RXCS without GO, not both.
RXEvents == rx_past.inits + rx_past.writes <= 1

diskvars == <<rkvars, rfvars, rxvars>>

DisksInit ==
  /\ RKStart /\ RFStart /\ RXStart
  /\ \E c \in {"RK", "RF", "RX"} :
       <<rk.enabled, rf.enabled, rx.enabled>> = <<c = "RK", c = "RF", c = "RX">>
  /\ rx.enabled \/ rx.model = "RX11"

DisksNext ==
  \/ RKNext /\ UNCHANGED <<rfvars, rxvars>>
  \/ RFNext /\ UNCHANGED <<rkvars, rxvars>>
  \/ RXNext /\ RXEvents' /\ UNCHANGED <<rkvars, rfvars>>

DisksSpec ==
  /\ DisksInit /\ [][DisksNext]_diskvars
  /\ RKFairness /\ RFFairness /\ RXFairness

(* Every command that was accepted ends: RKCommandEnds, RFCommandEnds and     *)
(* RXCommandEnds for the controller that is enabled, the others being idle    *)
(* all the time.                                                              *)
DiskCommandsEnd ==
  (~rk.rdy \/ RFPending \/ RXPending) ~> (rk.rdy /\ RFSettled /\ RXSettled)
=============================================================================
