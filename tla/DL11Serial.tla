----------------------------- MODULE DL11Serial -----------------------------
(***************************************************************************)
(* The DL11-W: serial line unit (slu_c) and line clock (ltc_c).  Actors of  *)
(* the serial line are the program, the adapter's thread, which handles its *)
(* bus accesses and INIT, and the threads worker_rcv() and worker_xmt();    *)
(* the clock has one thread.  An access to a register is put to the         *)
(* adapter's thread after the program has its data, and holds the bus until *)
(* it is handled (dl_bus).  reset() runs without the mutexes: it comes      *)
(* between any two steps of the threads, also between the reading of an     *)
(* interrupt's level, edge_detect() and INTR() (slu_csr).  Characters are   *)
(* numbered at their source: the line, or the program for those looped      *)
(* back.  Left out: break, the reader enable bit, framing errors, baud      *)
(* rates; an interrupt is pending until it is taken or cancelled.           *)
(***************************************************************************)
EXTENDS Integers, Sequences

CONSTANTS
  DlLineChars,     \* bound: characters the line sends
  DlProgramChars,  \* bound: characters the program sends
  DlMaxInits       \* bound: INIT pulses

ASSUME DlAssumption == {DlLineChars, DlProgramChars, DlMaxInits} \subseteq Nat

VARIABLES
  slu,      \* slu_c: flags and buffers
  slu_intr, \* rcvintr_request and xmtintr_request: level seen by edge_detect(), pending
  slu_csr,  \* where a thread is in set_rcsr_dati_value_and_INTR(), set_xcsr_...()
  slu_rcv,  \* worker_rcv(): place and character
  slu_xmt,  \* worker_xmt(): place, character, and whether it has been signalled
  ltc,      \* ltc_c with its request and the place of worker()
  dl_bus,   \* the register access the adapter's thread still has to handle
  dl_init,  \* INIT: "off", "on" (line_INIT is set), "flags" (in reset()), "reset" (all is reset)
  dl_line,  \* characters the line has sent, and those in the loop-back buffer
  dl_prog   \* the program: interrupts it serves, what it read and wrote; history

dlvars == <<slu, slu_intr, slu_csr, slu_rcv, slu_xmt, ltc, dl_bus, dl_init, dl_line, dl_prog>>
ltcvars == <<ltc>>
sluvars == <<slu, slu_intr, slu_csr, slu_rcv, slu_xmt, dl_line>>

NoChar == [src |-> "none", n |-> 0]
line_INIT == dl_init # "off"

-----------------------------------------------------------------------------
(* slu_c                                                                    *)

\* get_rcv_intr_level(), get_xmt_intr_level()
intr_level(s, r) == IF r = "rcv" THEN s.rcv_done /\ s.rcv_ie ELSE s.xmt_ready /\ s.xmt_ie

\* set_rcsr_dati_value_and_INTR(), set_xcsr_dati_value_and_INTR(): a raising edge
\* requests an interrupt (ignored under INIT), a falling edge cancels it.
set_csr_and_INTR(s, requests, r) ==
  LET level == intr_level(s, r)
      edge == level # requests[r].level
  IN  [requests EXCEPT ![r] = [level |-> level,
                               pending |-> IF ~edge THEN @.pending
                                           ELSE IF level THEN @.pending \/ ~line_INIT ELSE FALSE]]

\* The threads call it under the mutex of r.  They read the level, ...
csr_level(r) ==
  /\ slu_csr[r] = "call"
  /\ slu_csr' = [slu_csr EXCEPT ![r] = IF intr_level(slu, r) THEN "high" ELSE "low"]
  /\ UNCHANGED <<slu, slu_intr, slu_rcv, slu_xmt, dl_line, ltcvars, dl_bus, dl_init, dl_prog>>

\* ... edge_detect() stores it, ...
csr_edge(r) ==
  /\ slu_csr[r] \in {"high", "low"}
  /\ LET level == slu_csr[r] = "high"
     IN  /\ slu_intr' = [slu_intr EXCEPT ![r].level = level]
         /\ slu_csr' = [slu_csr EXCEPT ![r] = IF slu_intr[r].level = level THEN "none"
                                              ELSE IF level THEN "raise" ELSE "fall"]
  /\ UNCHANGED <<slu, slu_rcv, slu_xmt, dl_line, ltcvars, dl_bus, dl_init, dl_prog>>

\* ... and an edge calls INTR() or cancel_INTR().
csr_INTR(r) ==
  /\ slu_csr[r] \in {"raise", "fall"}
  /\ slu_intr' = [slu_intr EXCEPT ![r].pending = slu_csr[r] = "raise" /\ (@ \/ ~line_INIT)]
  /\ slu_csr' = [slu_csr EXCEPT ![r] = "none"]
  /\ UNCHANGED <<slu, slu_rcv, slu_xmt, dl_line, ltcvars, dl_bus, dl_init, dl_prog>>

\* on_after_rcv_register_access_mutex, on_after_xmt_register_access_mutex: a thread has it.
rcv_locked == slu_csr["rcv"] # "none"
xmt_locked == slu_csr["xmt"] # "none" \/ slu_xmt.pc = "active"

\* reset(): the flags, and then the enable bits, buffers and the levels.
slu_reset_flags(s) == [s EXCEPT !.rcv_done = FALSE, !.xmt_ready = TRUE]
slu_reset(s) ==
  [s EXCEPT !.rcv_ie = FALSE, !.rcv_or = FALSE, !.rcv_buf = NoChar, !.xmt_ie = FALSE, !.maint = FALSE]

\* Lines with a thread that has read the level high and not called INTR() yet: reset() may
\* now overtake it.  (History, in dl_prog.overtaken.)
OnTheWay == {r \in {"rcv", "xmt"} : slu_csr[r] \in {"high", "raise"}}

\* The program gets on the bus; the adapter's thread will handle the access.
Access(a) ==
  /\ dl_bus = <<>> /\ dl_init = "off"
  /\ dl_bus' = <<a>>

ReadRBUF ==
  /\ slu.enabled /\ slu.rcv_done
  /\ Access([reg |-> "rbuf"])
  /\ dl_prog' = [dl_prog EXCEPT !.read = IF slu.rcv_buf = NoChar THEN @ ELSE slu.rcv_buf,
                                !.twice = @ \/ slu.rcv_buf \in {dl_prog.read} \ {NoChar},
                                !.isr = @ \ {"rcv"}]
  /\ UNCHANGED <<sluvars, ltcvars, dl_init>>

WriteRCSR(ie) ==
  /\ slu.enabled /\ ie # slu.rcv_ie
  /\ Access([reg |-> "rcsr", ie |-> ie])
  /\ UNCHANGED <<sluvars, ltcvars, dl_init, dl_prog>>

WriteXCSR(ie, maint) ==
  /\ slu.enabled /\ (ie # slu.xmt_ie \/ maint # slu.maint)
  /\ Access([reg |-> "xcsr", ie |-> ie, maint |-> maint])
  /\ UNCHANGED <<sluvars, ltcvars, dl_init, dl_prog>>

WriteXBUF ==
  /\ slu.enabled /\ slu.xmt_ready /\ dl_prog.written < DlProgramChars
  /\ Access([reg |-> "xbuf", char |-> [src |-> "program", n |-> dl_prog.written + 1]])
  /\ dl_prog' = [dl_prog EXCEPT !.written = @ + 1, !.isr = @ \ {"xmt"},
                                !.disturbed = @ \/ slu_xmt.pc = "start"]
  /\ UNCHANGED <<sluvars, ltcvars, dl_init>>

\* on_after_register_access(): does nothing under INIT.
access_ignored ==
  /\ dl_bus # <<>> /\ line_INIT
  /\ dl_bus' = <<>>
  /\ UNCHANGED <<sluvars, ltcvars, dl_init, dl_prog>>

access_rbuf ==
  /\ dl_bus # <<>> /\ dl_bus[1].reg = "rbuf" /\ ~line_INIT /\ ~rcv_locked
  /\ dl_bus' = <<>>
  /\ slu' = [slu EXCEPT !.rcv_done = FALSE]
  /\ slu_intr' = set_csr_and_INTR(slu', slu_intr, "rcv")
  /\ UNCHANGED <<slu_csr, slu_rcv, slu_xmt, dl_line, ltcvars, dl_init, dl_prog>>

access_rcsr ==
  /\ dl_bus # <<>> /\ dl_bus[1].reg = "rcsr" /\ ~line_INIT /\ ~rcv_locked
  /\ dl_bus' = <<>>
  /\ slu' = [slu EXCEPT !.rcv_ie = dl_bus[1].ie]
  /\ slu_intr' = set_csr_and_INTR(slu', slu_intr, "rcv")
  /\ UNCHANGED <<slu_csr, slu_rcv, slu_xmt, dl_line, ltcvars, dl_init, dl_prog>>

\* Mutant: the interrupt stays requested when it is disabled.
access_xcsr_no_cancel ==
  /\ dl_bus # <<>> /\ dl_bus[1].reg = "xcsr" /\ ~line_INIT /\ ~xmt_locked
  /\ dl_bus' = <<>>
  /\ slu' = [slu EXCEPT !.xmt_ie = dl_bus[1].ie, !.maint = dl_bus[1].maint]
  /\ slu_intr' = [set_csr_and_INTR(slu', slu_intr, "xmt") EXCEPT
                    !["xmt"].pending = @ \/ slu_intr["xmt"].pending]
  /\ UNCHANGED <<slu_csr, slu_rcv, slu_xmt, dl_line, ltcvars, dl_init, dl_prog>>

access_xcsr ==
  /\ dl_bus # <<>> /\ dl_bus[1].reg = "xcsr" /\ ~line_INIT /\ ~xmt_locked
  /\ dl_bus' = <<>>
  /\ slu' = [slu EXCEPT !.xmt_ie = dl_bus[1].ie, !.maint = dl_bus[1].maint]
  /\ slu_intr' = set_csr_and_INTR(slu', slu_intr, "xmt")
  /\ UNCHANGED <<slu_csr, slu_rcv, slu_xmt, dl_line, ltcvars, dl_init, dl_prog>>

\* The signal is lost if worker_xmt() is not waiting.
access_xbuf ==
  /\ dl_bus # <<>> /\ dl_bus[1].reg = "xbuf" /\ ~line_INIT /\ ~xmt_locked
  /\ dl_bus' = <<>>
  /\ slu' = [slu EXCEPT !.xmt_buf = dl_bus[1].char, !.xmt_ready = FALSE]
  /\ slu_intr' = set_csr_and_INTR(slu', slu_intr, "xmt")
  /\ slu_xmt' = [slu_xmt EXCEPT !.signal = slu_xmt.pc = "wait"]
  /\ UNCHANGED <<slu_csr, slu_rcv, dl_line, ltcvars, dl_init, dl_prog>>

\* worker_rcv(): a character of the loop-back buffer, or else of the line, and its
\* errors, under the mutex; then the interrupt.  Nothing is read under INIT.
rcv_poll ==
  /\ slu.enabled /\ slu_rcv.pc = "poll" /\ ~rcv_locked /\ ~line_INIT
  /\ \/ /\ dl_line.loop # <<>>
        /\ slu_rcv' = [pc |-> "store", byte |-> Head(dl_line.loop)]
        /\ dl_line' = [dl_line EXCEPT !.loop = Tail(@)]
     \/ /\ dl_line.loop = <<>> /\ dl_line.sent < DlLineChars
        /\ slu_rcv' = [pc |-> "store", byte |-> [src |-> "line", n |-> dl_line.sent + 1]]
        /\ dl_line' = [dl_line EXCEPT !.sent = @ + 1]
  /\ UNCHANGED <<slu, slu_intr, slu_csr, slu_xmt, ltcvars, dl_bus, dl_init, dl_prog>>

rcv_store ==
  /\ slu_rcv.pc = "store" /\ ~rcv_locked
  /\ slu' = [slu EXCEPT !.rcv_or = slu.rcv_done, !.rcv_buf = slu_rcv.byte, !.rcv_done = TRUE]
  /\ slu_csr' = [slu_csr EXCEPT !["rcv"] = "call"]
  /\ slu_rcv' = [pc |-> "poll", byte |-> NoChar]
  /\ UNCHANGED <<slu_intr, slu_xmt, dl_line, ltcvars, dl_bus, dl_init, dl_prog>>

\* worker_xmt(): waits for the signal, sends, calls set_rcsr_dati_value_and_INTR() when it
\* loops back, waits for the time of a character with the mutex free, and is ready again.
xmt_start ==
  /\ slu.enabled /\ slu_xmt.pc = "start"
  /\ slu_xmt' = [slu_xmt EXCEPT !.pc = "wait"]
  /\ UNCHANGED <<slu, slu_intr, slu_csr, slu_rcv, dl_line, ltcvars, dl_bus, dl_init, dl_prog>>

xmt_send ==
  /\ slu_xmt.pc = "wait" /\ slu_xmt.signal /\ ~xmt_locked
  /\ slu_xmt' = [pc |-> "active", signal |-> FALSE, byte |-> slu.xmt_buf]
  /\ slu' = [slu EXCEPT !.xmt_ready = FALSE]
  /\ slu_csr' = [slu_csr EXCEPT !["xmt"] = "call"]
  /\ dl_prog' = [dl_prog EXCEPT !.sent = @ + 1, !.again = @ \/ slu.xmt_buf.n # dl_prog.sent + 1]
  /\ UNCHANGED <<slu_intr, slu_rcv, dl_line, ltcvars, dl_bus, dl_init>>

xmt_active ==
  /\ slu_xmt.pc = "active" /\ slu_csr["xmt"] = "none"
  /\ slu_xmt' = [slu_xmt EXCEPT !.pc = "shift"]
  /\ IF slu.maint THEN ~rcv_locked /\ slu_csr' = [slu_csr EXCEPT !["rcv"] = "call"] ELSE UNCHANGED slu_csr
  /\ UNCHANGED <<slu, slu_intr, slu_rcv, dl_line, ltcvars, dl_bus, dl_init, dl_prog>>

xmt_done ==
  /\ slu_xmt.pc = "shift"
  /\ slu_xmt' = [pc |-> "wait", signal |-> FALSE, byte |-> NoChar]
  /\ slu' = [slu EXCEPT !.xmt_ready = TRUE]
  /\ slu_csr' = [slu_csr EXCEPT !["xmt"] = "call"]
  /\ dl_line' = IF slu.maint THEN [dl_line EXCEPT !.loop = Append(@, slu_xmt.byte)] ELSE dl_line
  /\ UNCHANGED <<slu_intr, slu_rcv, ltcvars, dl_bus, dl_init, dl_prog>>

\* The CPU takes an interrupt; the service routine reads RBUF or writes XBUF, if there
\* is still something to do.
TakeInterrupt(r) ==
  /\ slu_intr[r].pending /\ dl_bus = <<>> /\ dl_init = "off"
  /\ slu_intr' = [slu_intr EXCEPT ![r].pending = FALSE]
  /\ dl_prog' = [dl_prog EXCEPT !.isr = @ \cup {r}]
  /\ UNCHANGED <<slu, slu_csr, slu_rcv, slu_xmt, dl_line, ltcvars, dl_bus, dl_init>>

SluNext ==
  \/ ReadRBUF \/ WriteXBUF
  \/ \E ie \in BOOLEAN : WriteRCSR(ie)
  \/ \E ie, maint \in BOOLEAN : WriteXCSR(ie, maint)
  \/ access_ignored \/ access_rbuf \/ access_rcsr \/ access_xcsr \/ access_xbuf
  \/ rcv_poll \/ rcv_store
  \/ xmt_start \/ xmt_send \/ xmt_active \/ xmt_done
  \/ \E r \in {"rcv", "xmt"} : csr_level(r) \/ csr_edge(r) \/ csr_INTR(r) \/ TakeInterrupt(r)

-----------------------------------------------------------------------------
(* ltc_c                                                                    *)

\* worker(): the monitor bit is set before the mutex is taken ...
ltc_edge ==
  /\ ltc.enabled /\ ltc.pc = "wait"
  /\ ltc' = [ltc EXCEPT !.pc = "lock", !.monitor = TRUE]
  /\ UNCHANGED <<sluvars, dl_bus, dl_init, dl_prog>>

\* ... then the enable bit and the value of LKS are read, under the mutex, ...
ltc_level ==
  /\ ltc.pc = "lock"
  /\ ltc' = [ltc EXCEPT !.pc = "INTR", !.due = ltc.ie, !.val = ltc.monitor]
  /\ UNCHANGED <<sluvars, dl_bus, dl_init, dl_prog>>

\* Mutant: only the raising edge of the monitor bit in LKS interrupts.
ltc_tick_edge ==
  /\ ltc.pc = "INTR"
  /\ ltc' = [ltc EXCEPT !.pc = "wait", !.lks = @ \/ ltc.val, !.due = FALSE,
                        !.pending = @ \/ (ltc.due /\ ~line_INIT /\ ltc.val /\ ~ltc.lks)]
  /\ UNCHANGED <<sluvars, dl_bus, dl_init, dl_prog>>

\* ... and every tick interrupts, if enabled.  INTR() does nothing under INIT and then
\* does not write LKS either.
ltc_tick ==
  /\ ltc.pc = "INTR"
  /\ ltc' = [ltc EXCEPT !.pc = "wait", !.lks = IF ltc.due /\ line_INIT THEN @ ELSE ltc.val, !.due = FALSE,
                        !.pending = @ \/ (ltc.due /\ ~line_INIT)]
  /\ UNCHANGED <<sluvars, dl_bus, dl_init, dl_prog>>

\* on_after_register_access(): the program writes LKS; 0 clears the monitor bit.
access_lks(ie, monitor) ==
  /\ ltc.enabled /\ dl_init = "off" /\ ltc.pc # "INTR"
  /\ LET m == ltc.monitor /\ monitor
     IN  ltc' = [ltc EXCEPT !.ie = ie, !.monitor = m, !.lks = m, !.pending = @ /\ ie /\ m, !.served = FALSE]
  /\ UNCHANGED <<sluvars, dl_bus, dl_init, dl_prog>>

ltc_interrupt ==
  /\ ltc.pending /\ dl_init = "off"
  /\ ltc' = [ltc EXCEPT !.pending = FALSE, !.served = TRUE]
  /\ UNCHANGED <<sluvars, dl_bus, dl_init, dl_prog>>

LtcNext ==
  \/ ltc_edge \/ ltc_level \/ ltc_tick \/ ltc_interrupt
  \/ \E ie, monitor \in BOOLEAN : access_lks(ie, monitor)

-----------------------------------------------------------------------------
(* INIT: line_INIT is set, then the devices are reset and their interrupts  *)
(* cancelled; INIT is negated.                                              *)
dl_init_on ==
  /\ dl_init = "off" /\ dl_prog.inits < DlMaxInits
  /\ dl_init' = "on"
  /\ dl_prog' = [dl_prog EXCEPT !.inits = @ + 1, !.isr = {}, !.disturbed = @ \/ dl_bus # <<>>]
  /\ UNCHANGED <<sluvars, ltcvars, dl_bus>>

dl_init_flags ==
  /\ dl_init = "on"
  /\ dl_init' = "flags"
  /\ slu' = slu_reset_flags(slu)
  /\ dl_prog' = [dl_prog EXCEPT !.overtaken = @ \cup OnTheWay,
                                !.disturbed = @ \/ slu_xmt.pc \in {"active", "shift"} \/ slu_xmt.signal]
  /\ UNCHANGED <<slu_intr, slu_csr, slu_rcv, slu_xmt, dl_line, ltcvars, dl_bus>>

dl_init_reset ==
  /\ dl_init = "flags"
  /\ dl_init' = "reset"
  /\ slu' = slu_reset(slu)
  /\ slu_intr' = [r \in {"rcv", "xmt"} |-> [level |-> FALSE, pending |-> FALSE]]
  /\ ltc' = [ltc EXCEPT !.ie = FALSE, !.monitor = TRUE, !.lks = TRUE, !.pending = FALSE,
                        !.overtaken = @ \/ ltc.due]
  /\ dl_prog' = [dl_prog EXCEPT !.overtaken = @ \cup OnTheWay]
  /\ UNCHANGED <<slu_csr, slu_rcv, slu_xmt, dl_line, dl_bus>>

dl_init_off ==
  /\ dl_init = "reset" /\ dl_bus = <<>>
  /\ dl_init' = "off"
  /\ UNCHANGED <<sluvars, ltcvars, dl_bus, dl_prog>>

-----------------------------------------------------------------------------
DlStart ==
  /\ slu \in [enabled : BOOLEAN, rcv_done : {FALSE}, rcv_ie : {FALSE}, rcv_or : {FALSE}, rcv_buf : {NoChar},
              xmt_ready : {TRUE}, xmt_ie : {FALSE}, maint : {FALSE}, xmt_buf : {NoChar}]
  /\ slu_intr = [r \in {"rcv", "xmt"} |-> [level |-> FALSE, pending |-> FALSE]]
  /\ slu_csr = [r \in {"rcv", "xmt"} |-> "none"]
  /\ slu_rcv = [pc |-> "poll", byte |-> NoChar]
  /\ slu_xmt = [pc |-> "start", signal |-> FALSE, byte |-> NoChar]
  /\ ltc \in [enabled : BOOLEAN, ie : {FALSE}, monitor : {TRUE}, lks : {TRUE}, pending : {FALSE},
              served : {FALSE}, pc : {"wait"}, due : {FALSE}, val : {TRUE}, overtaken : {FALSE}]
  /\ dl_bus = <<>> /\ dl_init = "off"
  /\ dl_line = [sent |-> 0, loop |-> <<>>]
  /\ dl_prog = [isr |-> {}, read |-> NoChar, twice |-> FALSE, written |-> 0, sent |-> 0, again |-> FALSE,
                disturbed |-> FALSE, overtaken |-> {}, inits |-> 0]

DlNext == SluNext \/ LtcNext \/ dl_init_on \/ dl_init_flags \/ dl_init_reset \/ dl_init_off

\* The program takes its interrupts, and its service routine reads RBUF.
ServiceRoutines ==
  TakeInterrupt("rcv") \/ (ReadRBUF /\ "rcv" \in dl_prog.isr) \/ ltc_interrupt

\* The threads run; the adapter's thread handles accesses and INIT, which is a pulse.
\* Other accesses of the program and INIT come between its service routines.
DlFairness ==
  /\ WF_dlvars(access_ignored \/ access_rbuf \/ access_rcsr \/ access_xcsr \/ access_xbuf
                 \/ dl_init_flags \/ dl_init_reset \/ dl_init_off)
  /\ \A r \in {"rcv", "xmt"} : WF_dlvars(csr_level(r) \/ csr_edge(r) \/ csr_INTR(r))
  /\ WF_dlvars(rcv_store) /\ WF_dlvars(xmt_start \/ xmt_send \/ xmt_active \/ xmt_done)
  /\ WF_dlvars(ltc_edge \/ ltc_level \/ ltc_tick)
  /\ SF_dlvars(ServiceRoutines)

DlSpec == DlStart /\ [][DlNext]_dlvars /\ DlFairness

-----------------------------------------------------------------------------
\* Interrupts of the serial line match their condition, whatever the order of the two
\* threads, the program and INIT: a pending request has its flag and its enable bit
\* set, and the level that edge_detect() has seen is the present one, so that the next
\* raising edge is not missed.  Unless reset(), which does not take the mutex, overtook the
\* thread between its reading of the level and INTR(): then the old level is stored.
SluInterruptMatches ==
  dl_init = "off" =>
    \A r \in {"rcv", "xmt"} \ dl_prog.overtaken :
      slu_csr[r] = "none" =>
        /\ slu_intr[r].pending => intr_level(slu, r)
        /\ slu_intr[r].level = intr_level(slu, r)

\* "if xmt_ready and int enable goes high: INTR" (and for the receiver): when the program
\* sets the enable bit with the flag up, its interrupt is requested.
EnableInterrupts ==
  [][/\ ~slu.xmt_ie /\ slu'.xmt_ie /\ slu'.xmt_ready => slu_intr'["xmt"].pending
     /\ ~slu.rcv_ie /\ slu'.rcv_ie /\ slu'.rcv_done => slu_intr'["rcv"].pending]_dlvars

\* No character is received twice by a program that reads RBUF when DONE is set, and
\* those it writes into XBUF go to the line once and in order.
SluCharactersOnce == ~dl_prog.twice /\ (dl_prog.again => dl_prog.disturbed)

\* A program that is driven by interrupts reads the received character; DONE with the
\* interrupt enabled never stays unnoticed, unless reset() overtook worker_rcv().
SluReceives ==
  slu.rcv_done /\ slu.rcv_ie ~> ~slu.rcv_done \/ ~slu.rcv_ie \/ "rcv" \in dl_prog.overtaken

\* Every character written into XBUF while ready is sent, and the transmitter is ready
\* again; unless worker_xmt() has not begun to wait, or INIT came while it was sending or in
\* the bus cycle.
SluTransmits ==
  dl_prog.written > 0 ~>
    dl_prog.disturbed \/ (dl_prog.sent = dl_prog.written /\ slu.xmt_ready)

\* The clock never has an interrupt pending that the program has disabled in LKS, and
\* none survives INIT, unless reset() overtook worker() between the enable bit and INTR().
LtcQuietWhenDisabled == ltc.pending => ltc.ie \/ ltc.overtaken

\* An enabled clock interrupts again and again, whether the program clears the monitor
\* bit or not.
LtcTicks == ltc.ie ~> ltc.served \/ ~ltc.ie

-----------------------------------------------------------------------------
(* The state in detail, from which ConsoleExact follows at every step.      *)

DlChar == [src : {"line", "program"}, n : Nat \ {0}]
DlAccess == [reg : {"rbuf"}] \cup [reg : {"rcsr"}, ie : BOOLEAN]
              \cup [reg : {"xcsr"}, ie : BOOLEAN, maint : BOOLEAN]
              \cup [reg : {"xbuf"}, char : [src : {"program"}, n : Nat \ {0}]]

SluRecord ==
  [enabled : BOOLEAN, rcv_done : BOOLEAN, rcv_ie : BOOLEAN, rcv_or : BOOLEAN, rcv_buf : DlChar \cup {NoChar},
   xmt_ready : BOOLEAN, xmt_ie : BOOLEAN, maint : BOOLEAN, xmt_buf : DlChar \cup {NoChar}]
SluRcvRecord == [pc : {"poll"}, byte : {NoChar}] \cup [pc : {"store"}, byte : DlChar]
SluXmtRecord ==
  [pc : {"start", "wait"}, signal : BOOLEAN, byte : {NoChar}] \cup [pc : {"active", "shift"}, signal : {FALSE}, byte : DlChar]
LtcRecord ==
  [enabled : BOOLEAN, ie : BOOLEAN, monitor : BOOLEAN, lks : BOOLEAN, pending : BOOLEAN, served : BOOLEAN,
   pc : {"wait", "lock", "INTR"}, due : BOOLEAN, val : BOOLEAN, overtaken : BOOLEAN]
DlLineRecord == [sent : Nat, loop : Seq(DlChar)]
DlProgRecord ==
  [isr : SUBSET {"rcv", "xmt"}, read : DlChar \cup {NoChar}, twice : BOOLEAN, written : Nat, sent : Nat,
   again : BOOLEAN, disturbed : BOOLEAN, overtaken : SUBSET {"rcv", "xmt"}, inits : Nat]

DlTypeOK ==
  /\ slu \in SluRecord
  /\ slu_intr \in [{"rcv", "xmt"} -> [level : BOOLEAN, pending : BOOLEAN]]
  /\ slu_csr \in [{"rcv", "xmt"} -> {"none", "call", "high", "low", "raise", "fall"}]
  /\ slu_rcv \in SluRcvRecord /\ slu_xmt \in SluXmtRecord
  /\ ltc \in LtcRecord
  /\ dl_bus \in Seq(DlAccess) /\ Len(dl_bus) <= 1
  /\ dl_init \in {"off", "on", "flags", "reset"}
  /\ dl_line \in DlLineRecord /\ dl_prog \in DlProgRecord

\* A line that reset() has not overtaken, outside of reset(): a request is pending only at a
\* high level, the level that edge_detect() has seen is that of the flags when no thread is
\* to change it, and a thread has read the present one.
LevelsSeen ==
  dl_init # "flags" =>
    \A r \in {"rcv", "xmt"} \ dl_prog.overtaken :
      /\ slu_intr[r].pending => slu_intr[r].level \/ slu_csr[r] = "fall"
      /\ slu_csr[r] \in {"none", "raise", "fall"} => slu_intr[r].level = intr_level(slu, r)
      /\ slu_csr[r] \in {"high", "raise"} => intr_level(slu, r)
      /\ slu_csr[r] \in {"low", "fall"} => ~intr_level(slu, r)

\* worker_xmt() waits for the time of a character outside of its call.
XmtCalls == slu_xmt.pc = "shift" => slu_csr["xmt"] = "none"

\* The tick that worker() is to give was enabled, and still is if reset() did not come.
LtcDue == ltc.due => ltc.pc = "INTR" /\ (ltc.ie \/ ltc.overtaken)

\* Character c came from its source before d.
Before(c, d) == c.src = d.src => c.n < d.n

OnBus(reg) == dl_bus # <<>> /\ dl_bus[1].reg = reg

\* What the receiver has: the character of the program, that in RBUF, and the next one.
Received == {dl_prog.read, slu.rcv_buf}

\* Characters stay in order on their way.  From XBUF to the line or the loop-back buffer:
\* what is on the bus is newer than XBUF, XBUF newer than what was sent before, unless it
\* is already being sent, and that newer than what has been looped back.
XmtOrder ==
  /\ slu.xmt_buf.src # "line" /\ slu.xmt_buf.n <= dl_prog.written
  /\ OnBus("xbuf") => dl_bus[1].char.n = dl_prog.written /\ slu.xmt_buf.n < dl_prog.written
  /\ slu_xmt.signal => slu_xmt.pc = "wait" /\ slu.xmt_buf # NoChar
  /\ slu_xmt.pc \in {"active", "shift"} => slu_xmt.byte.src = "program" /\ slu_xmt.byte.n <= slu.xmt_buf.n
  /\ \A i \in 1 .. Len(dl_line.loop) :
       /\ dl_line.loop[i].src = "program" /\ dl_line.loop[i].n <= slu.xmt_buf.n
       /\ slu_xmt.signal => dl_line.loop[i].n < slu.xmt_buf.n
       /\ slu_xmt.pc \in {"active", "shift"} => dl_line.loop[i].n < slu_xmt.byte.n

\* From the line or the loop-back buffer to RBUF and the program.
RcvOrder ==
  /\ \A c \in Received \cup {slu_rcv.byte} :
       /\ c.src = "line" => c.n <= dl_line.sent
       /\ c.src = "program" => c.n <= slu.xmt_buf.n /\ (slu_xmt.signal => c.n < slu.xmt_buf.n)
       /\ slu_xmt.pc \in {"active", "shift"} => Before(c, slu_xmt.byte)
       /\ \A i \in 1 .. Len(dl_line.loop) : Before(c, dl_line.loop[i])
  /\ \A i, j \in 1 .. Len(dl_line.loop) : i < j => Before(dl_line.loop[i], dl_line.loop[j])
  /\ slu_rcv.pc = "store" => \A c \in Received : Before(c, slu_rcv.byte)

\* With DONE set, RBUF holds a character the program has not read, unless the program has
\* just read it and the adapter's thread does not know yet, or not before INIT; or none, when
\* reset() has cleared DONE, and then the buffer of the character that came in between.
RbufIsNew ==
  slu.rcv_done /\ (dl_init \in {"flags", "reset"} \/ (dl_init = "off" /\ ~OnBus("rbuf"))) =>
    slu.rcv_buf = NoChar \/ Before(dl_prog.read, slu.rcv_buf)

\* The transmitter that nothing has disturbed follows the program character by character:
\* one is on the bus, or in XBUF with the signal given, or all have been sent.
XmtInStep ==
  ~dl_prog.disturbed =>
    /\ slu.xmt_ready => ~slu_xmt.signal /\ slu_xmt.pc \notin {"active", "shift"}
    /\ OnBus("xbuf") =>
         dl_init = "off" /\ slu.xmt_ready /\ slu_xmt.pc = "wait" /\ dl_prog.written = dl_prog.sent + 1
    /\ slu_xmt.signal => slu.xmt_buf.n = dl_prog.sent + 1 /\ dl_prog.written = dl_prog.sent + 1
    /\ ~OnBus("xbuf") /\ ~slu_xmt.signal => dl_prog.written = dl_prog.sent

\* The console: interrupts of the serial line match their conditions, its characters are
\* received and sent once, and the clock is quiet when the program has disabled it.
ConsoleExact ==
  /\ DlTypeOK
  /\ SluInterruptMatches /\ SluCharactersOnce /\ LtcQuietWhenDisabled
  /\ LevelsSeen /\ XmtCalls /\ LtcDue /\ XmtOrder /\ RcvOrder /\ RbufIsNew /\ XmtInStep
=============================================================================
