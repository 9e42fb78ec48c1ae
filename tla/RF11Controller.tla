--------------------------- MODULE RF11Controller ---------------------------
(***************************************************************************)
(* The RF11 controller with its RS11 fixed head disk: the adapter's thread  *)
(* handles writes to DCS and INIT, worker() executes a transfer with one    *)
(* DMA.  worker() reads the function, IE and the addresses from the         *)
(* registers while it works, and ends by unlocking a mutex it has not       *)
(* locked: with the mutex of the build, whoever holds it loses it.          *)
(* The disk has RFWords words; WC counts modulo RFWordModulus.  Left out:   *)
(* contents, the memory address (any transfer may meet no memory), MAR and  *)
(* ADS, and the races of bit fields inside one statement.                   *)
(***************************************************************************)
EXTENDS Integers

CONSTANTS
  RFWords,          \* words of the disk's address range (2^21 in the code)
  RFWordModulus,    \* WC is a register of this many values (2^16)
  RFCommands,       \* what the program writes into DCS
  RFAddresses,      \* what the program writes into DAR and WC
  RFMaxResets,      \* bound: INIT pulses and DISK_CLEARs
  RFRealtime        \* whether the adapter's thread, of higher priority, has the only core

RFFunctions == {"NOP", "WRITE", "READ", "WRITE_CHECK"}

ASSUME RFAssumption ==
  /\ RFWords \in Nat \ {0} /\ RFWordModulus \in Nat \ {0}
  /\ RFCommands \subseteq [go : BOOLEAN, fn : RFFunctions, ie : BOOLEAN, disk_clear : BOOLEAN]
  /\ RFAddresses \subseteq [dar : 0 .. RFWords - 1, wc : 0 .. RFWordModulus - 1]
  /\ RFMaxResets \in Nat /\ RFRealtime \in BOOLEAN

VARIABLES
  rf,         \* rf11_c: registers, _new_command_ready, on_after_register_access_mutex
  rf_worker,  \* rf11_c::worker(): _worker_state and its locals
  rf_past     \* history: the accepted command and what was done for it

rfvars == <<rf, rf_worker, rf_past>>

-----------------------------------------------------------------------------
\* reset_controller(): all registers are cleared, RDY is set.
rf_reset(c) == [c EXCEPT !.fn = "NOP", !.ie = FALSE, !.rdy = TRUE, !.wce = FALSE, !.ned = FALSE,
                         !.nem = FALSE, !.wc = 0, !.dar = 0]

\* ERR of update_DCS(): the errors stay until a reset, only GO clears WCE.
rf_err == rf.wce \/ rf.ned \/ rf.nem

rf_busy == rf_worker.pc \notin {"lock", "test", "cond_wait", "waiting"} \/ rf.new_command_ready

\* History: a reset cuts a command off, or the program writes DCS while one runs.
RFDisturbed(p, disturbed) ==
  [p EXCEPT !.disturbed = @ \/ disturbed, !.cmd = IF p.disturbed \/ disturbed THEN {} ELSE @]

-----------------------------------------------------------------------------
(* Adapter's thread: on_after_register_access(), on_init_changed(), DMA.    *)

\* A write to DCS: the writable bits, then DISK_CLEAR, which clears GO too, then GO,
\* which locks the mutex.  The program writes when ready, or to clear.
DCS(cmd) ==
  LET c == [rf EXCEPT !.fn = cmd.fn, !.ie = cmd.ie]
  IN  /\ rf.enabled /\ ~rf.line_INIT /\ rf.go = "no"
      /\ rf.rdy \/ cmd.disk_clear
      /\ \/ /\ cmd.disk_clear /\ rf_past.resets < RFMaxResets
            /\ rf' = rf_reset(c)
            /\ rf_past' = RFDisturbed([rf_past EXCEPT !.resets = @ + 1, !.cmd = {}], rf_busy)
         \/ /\ ~cmd.disk_clear /\ ~cmd.go
            /\ rf' = c
            /\ UNCHANGED rf_past
         \/ /\ ~cmd.disk_clear /\ cmd.go /\ rf.mutex = "free"
            /\ rf' = [c EXCEPT !.go = "locked", !.mutex = "adapter"]
            /\ UNCHANGED rf_past
      /\ UNCHANGED rf_worker

\* Mutant: a NOP makes the controller busy.
go_nop ==
  LET accepted == rf.rdy
  IN  /\ rf.go = "locked"
      /\ rf' = [rf EXCEPT !.go = "signal", !.wce = FALSE, !.rdy = ~accepted /\ @,
                          !.new_command_ready = @ \/ (accepted /\ rf.fn # "NOP"), !.intr = FALSE]
      /\ UNCHANGED <<rf_worker, rf_past>>

\* GO under the mutex: ignored if not ready or NOP, else the worker gets the command.
go ==
  LET accepted == rf.rdy /\ rf.fn # "NOP"
  IN  /\ rf.go = "locked"
      /\ rf' = [rf EXCEPT !.go = "signal", !.wce = FALSE, !.rdy = ~accepted /\ @,
                          !.new_command_ready = @ \/ accepted, !.intr = @ /\ ~accepted]
      /\ rf_past' = IF accepted
                    THEN RFDisturbed([rf_past EXCEPT !.moved = 0,
                           !.cmd = {[fn |-> rf.fn, ie |-> rf.ie, dar |-> rf.dar, wc |-> rf.wc]}], rf_busy)
                    ELSE rf_past
      /\ UNCHANGED rf_worker

\* pthread_cond_signal(), then unlock.
go_signal ==
  /\ rf.go = "signal"
  /\ rf' = [rf EXCEPT !.go = "no", !.mutex = "free"]
  /\ rf_worker' = [rf_worker EXCEPT !.signalled = @ \/ rf_worker.pc = "waiting"]
  /\ UNCHANGED rf_past

\* The program sets DAR with DAE, and WC.
DAR(a) ==
  /\ rf.enabled /\ ~rf.line_INIT /\ rf.go = "no" /\ rf.rdy
  /\ rf' = [rf EXCEPT !.dar = a.dar, !.wc = a.wc]
  /\ rf_past' = [rf_past EXCEPT !.cmd = {}]
  /\ UNCHANGED rf_worker

rf_cancelled(w) == IF w.pc = "dma_wait" THEN [w EXCEPT !.pc = "dma_done", !.success = FALSE] ELSE w

\* INIT resets the registers and the adapter cancels the DMA and the interrupt.
rf_init_asserted ==
  /\ rf.enabled /\ ~rf.line_INIT /\ rf.go = "no" /\ rf_past.resets < RFMaxResets
  /\ rf' = [rf_reset(rf) EXCEPT !.line_INIT = TRUE, !.intr = FALSE]
  /\ rf_worker' = rf_cancelled(rf_worker)
  /\ rf_past' = RFDisturbed([rf_past EXCEPT !.resets = @ + 1, !.cmd = {}], rf_busy)

rf_init_negated ==
  /\ rf.line_INIT
  /\ rf' = [rf EXCEPT !.line_INIT = FALSE]
  /\ rf_worker' = rf_cancelled(rf_worker)
  /\ UNCHANGED rf_past

\* The adapter's thread completes a DMA, or reports a bus timeout.
rf_dma_complete ==
  /\ rf_worker.pc = "dma_wait"
  /\ \E success \in BOOLEAN : rf_worker' = [rf_worker EXCEPT !.pc = "dma_done", !.success = success]
  /\ UNCHANGED <<rf, rf_past>>

-----------------------------------------------------------------------------
(* rf11_c::worker()                                                         *)

rf_goto(pc) == rf_worker' = [rf_worker EXCEPT !.pc = pc]

\* Worker_Idle: locks, looks for a command, else waits for the signal.
rf_lock ==
  /\ rf_worker.pc = "lock" /\ rf.mutex = "free"
  /\ rf' = [rf EXCEPT !.mutex = "worker"]
  /\ rf_goto("test")
  /\ UNCHANGED rf_past

rf_test ==
  /\ rf_worker.pc = "test"
  /\ IF rf.new_command_ready
     THEN rf' = [rf EXCEPT !.new_command_ready = FALSE, !.mutex = "free"] /\ rf_goto("Worker_Execute")
     ELSE UNCHANGED rf /\ rf_goto("cond_wait")
  /\ UNCHANGED rf_past

rf_cond_wait ==
  /\ rf_worker.pc = "cond_wait"
  /\ rf' = [rf EXCEPT !.mutex = "free"]
  /\ rf_worker' = [rf_worker EXCEPT !.pc = "waiting", !.signalled = FALSE]
  /\ UNCHANGED rf_past

rf_wake ==
  /\ rf_worker.pc = "waiting" /\ rf_worker.signalled /\ rf.mutex = "free"
  /\ rf' = [rf EXCEPT !.mutex = "worker"]
  /\ rf_goto("test")
  /\ UNCHANGED rf_past

\* Worker_Execute: the registers give the length and the place, then FR the direction.
rf_execute ==
  /\ rf_worker.pc = "Worker_Execute"
  /\ rf_worker' = [rf_worker EXCEPT !.pc = "function", !.dar = rf.dar,
                                    !.count = (RFWordModulus - rf.wc) % RFWordModulus]
  /\ UNCHANGED <<rf, rf_past>>

\* clip_into_range(): the words from address a on that the disk takes; the last word
\* counts as outside.
clip_into_range(a, count) ==
  LET diff == (a + count) - (RFWords - 1) IN IF diff > 0 THEN count - diff ELSE count

rf_in_range == clip_into_range(rf_worker.dar, rf_worker.count) = rf_worker.count

\* What is not READ or WRITE_CHECK is a write, which begins with the DMA.  A DMA of no
\* words fails an assert() in DMA().
rf_function ==
  LET reads == rf.fn \in {"READ", "WRITE_CHECK"}
  IN  /\ rf_worker.pc = "function"
      /\ IF reads /\ ~rf_in_range
         THEN rf' = [rf EXCEPT !.ned = TRUE] /\ rf_goto("update") /\ UNCHANGED rf_past
         ELSE /\ UNCHANGED rf
              /\ \/ rf_worker' = [rf_worker EXCEPT !.writes = ~reads, !.pc = "no_memory"]
                 \/ rf_worker' = [rf_worker EXCEPT !.writes = ~reads,
                       !.pc = IF rf.line_INIT THEN "dma_done" ELSE "dma_wait",
                       !.success = rf.line_INIT /\ @]
              /\ rf_past' = [rf_past EXCEPT !.failed = @ \/ rf_worker.count = 0]

\* The memory address is outside of the address space: no DMA.
rf_no_memory ==
  /\ rf_worker.pc = "no_memory"
  /\ rf' = [rf EXCEPT !.nem = TRUE]
  /\ rf_goto("update")
  /\ UNCHANGED rf_past

\* Mutant: a clipped write is not an error.
rf_dma_done_clipped ==
  LET written == clip_into_range(rf_worker.dar, rf_worker.count)
  IN  /\ rf_worker.pc = "dma_done"
      /\ rf' = [rf EXCEPT !.nem = @ \/ ~rf_worker.success]
      /\ rf_past' = IF rf_worker.success THEN [rf_past EXCEPT !.moved = @ + written] ELSE rf_past
      /\ rf_goto("update")

\* After the DMA: a write goes to the disk as far as it fits, a write check may differ.
rf_dma_done ==
  LET written == clip_into_range(rf_worker.dar, rf_worker.count)
  IN  /\ rf_worker.pc = "dma_done"
      /\ \/ ~rf_worker.success /\ rf' = [rf EXCEPT !.nem = TRUE] /\ UNCHANGED rf_past
         \/ /\ rf_worker.success /\ rf_worker.writes
            /\ rf' = [rf EXCEPT !.ned = @ \/ ~rf_in_range]
            /\ rf_past' = [rf_past EXCEPT !.moved = @ + written,
                             !.overwritten = @ \/ \E p \in rf_past.cmd : p.fn # "WRITE"]
         \/ /\ rf_worker.success /\ ~rf_worker.writes
            /\ \E differs \in {FALSE, rf.fn = "WRITE_CHECK"} : rf' = [rf EXCEPT !.wce = @ \/ differs]
            /\ rf_past' = [rf_past EXCEPT !.moved = @ + rf_worker.count]
      /\ rf_goto("update")

\* After an error too: the addresses advance, WC is 0.
rf_update ==
  /\ rf_worker.pc = "update"
  /\ rf' = [rf EXCEPT !.dar = (rf_worker.dar + rf_worker.count) % RFWords, !.wc = 0]
  /\ rf_goto("Worker_Finish")
  /\ UNCHANGED rf_past

\* Worker_Finish: RDY and the interrupt.
rf_finish ==
  /\ rf_worker.pc = "Worker_Finish"
  /\ rf' = [rf EXCEPT !.rdy = TRUE, !.intr = @ \/ (rf.ie /\ ~rf.line_INIT)]
  /\ rf_worker' = [rf_worker EXCEPT !.pc = "Worker_Finish_unlock", !.count = 0, !.dar = 0,
                                    !.writes = FALSE]
  /\ UNCHANGED rf_past

\* The unlock of a mutex that worker() does not hold.
rf_unlock ==
  /\ rf_worker.pc = "Worker_Finish_unlock"
  /\ rf' = [rf EXCEPT !.mutex = "free"]
  /\ rf_goto("lock")
  /\ UNCHANGED rf_past

RFWorkerStep ==
  /\ rf.enabled
  /\ RFRealtime => rf.go = "no"
  /\ \/ rf_lock \/ rf_test \/ rf_cond_wait \/ rf_wake \/ rf_execute \/ rf_function \/ rf_no_memory
     \/ rf_dma_done \/ rf_update \/ rf_finish \/ rf_unlock

-----------------------------------------------------------------------------
RFStart ==
  /\ rf \in [enabled : BOOLEAN, fn : {"NOP"}, ie : {FALSE}, rdy : {TRUE}, wce : {FALSE}, ned : {FALSE},
             nem : {FALSE}, wc : {0}, dar : {0}, new_command_ready : {FALSE}, mutex : {"free"},
             go : {"no"}, line_INIT : {FALSE}, intr : {FALSE}]
  /\ rf_worker = [pc |-> "lock", count |-> 0, dar |-> 0, writes |-> FALSE, success |-> FALSE,
                  signalled |-> FALSE]
  /\ rf_past = [cmd |-> {}, moved |-> 0, overwritten |-> FALSE, disturbed |-> FALSE, failed |-> FALSE,
                resets |-> 0]

RFAlive == ~rf_past.failed

RFNext ==
  \/ \E cmd \in RFCommands : RFAlive /\ DCS(cmd)
  \/ RFAlive /\ go
  \/ RFAlive /\ go_signal
  \/ \E a \in RFAddresses : RFAlive /\ DAR(a)
  \/ RFAlive /\ rf_init_asserted
  \/ RFAlive /\ rf_init_negated
  \/ RFAlive /\ rf_dma_complete
  \/ RFAlive /\ RFWorkerStep

\* The threads are runnable, INIT is a pulse, and the adapter completes a DMA.
RFFairness ==
  /\ WF_rfvars(RFAlive /\ RFWorkerStep) /\ WF_rfvars(RFAlive /\ (go \/ go_signal))
  /\ WF_rfvars(RFAlive /\ rf_dma_complete) /\ WF_rfvars(RFAlive /\ rf_init_negated)

RFSpec == RFStart /\ [][RFNext]_rfvars /\ RFFairness

-----------------------------------------------------------------------------
RFRequested(p) == (RFWordModulus - p.wc) % RFWordModulus

\* A transfer that ends without ERR has moved the words WC asked for, DAR is behind the
\* last one, and only a WRITE has changed the disk.
RFTransferExact ==
  \A p \in rf_past.cmd :
    rf.rdy /\ ~rf_err =>
      /\ rf_past.moved = RFRequested(p) /\ rf.dar = (p.dar + RFRequested(p)) % RFWords
      /\ ~rf_past.overwritten

\* Every command ends with RDY: the controller is busy only until the worker completes.
RFPending == RFAlive /\ ~rf.rdy
RFSettled == rf.rdy \/ ~RFAlive
RFCommandEnds == RFPending ~> RFSettled

-----------------------------------------------------------------------------
RFIdle == {"lock", "test", "cond_wait", "waiting"}
RFBeforeDMA == {"function", "no_memory", "dma_wait", "dma_done"}
RFRecord ==
  [enabled : BOOLEAN, fn : RFFunctions, ie : BOOLEAN, rdy : BOOLEAN, wce : BOOLEAN, ned : BOOLEAN,
   nem : BOOLEAN, wc : 0 .. RFWordModulus - 1, dar : 0 .. RFWords - 1, new_command_ready : BOOLEAN,
   mutex : {"free", "adapter", "worker"}, go : {"no", "locked", "signal"}, line_INIT : BOOLEAN,
   intr : BOOLEAN]
RFWorkerRecord ==
  [pc : RFIdle \cup RFBeforeDMA \cup {"Worker_Execute", "update", "Worker_Finish", "Worker_Finish_unlock"},
   count : 0 .. RFWordModulus - 1, dar : 0 .. RFWords - 1, writes : BOOLEAN, success : BOOLEAN,
   signalled : BOOLEAN]
RFAccepted ==
  [fn : RFFunctions \ {"NOP"}, ie : BOOLEAN, dar : 0 .. RFWords - 1, wc : 0 .. RFWordModulus - 1]
RFPastRecord ==
  [cmd : SUBSET RFAccepted, moved : Int, overwritten : BOOLEAN, disturbed : BOOLEAN, failed : BOOLEAN,
   resets : Nat]

RFTypeOK == rf \in RFRecord /\ rf_worker \in RFWorkerRecord /\ rf_past \in RFPastRecord

\* RDY means that worker() is done with the command, and the interrupt that it asked for
\* comes with RDY.
RFReadyMeansIdle ==
  \A p \in rf_past.cmd :
    /\ rf.rdy <=> ~rf.new_command_ready /\ rf_worker.pc \in RFIdle \cup {"Worker_Finish_unlock"}
    /\ rf.intr <=> rf.rdy /\ p.ie

\* A program that does not disturb its command has one at a time, INIT ends it, GO waits for
\* RDY; only a WRITE changes the disk.
RFOneCommand ==
  /\ rf_past.disturbed \/ rf.line_INIT => rf_past.cmd = {}
  /\ rf.line_INIT => rf.go = "no"
  /\ rf.go = "locked" => rf.rdy
  /\ ~rf_past.overwritten

\* While it is in execution, worker() and the registers agree about the command.
RFWorkerInStep ==
  \A p \in rf_past.cmd : ~rf.rdy =>
    /\ rf.fn = p.fn /\ rf.ie = p.ie
    /\ rf.new_command_ready => rf_worker.pc \in RFIdle
    /\ rf_worker.pc \in RFIdle \cup {"Worker_Execute"} => rf.dar = p.dar /\ rf.wc = p.wc
    /\ rf_worker.pc \in RFBeforeDMA \cup {"update"} =>
         rf_worker.dar = p.dar /\ rf_worker.count = RFRequested(p)
    /\ rf_worker.pc \in RFIdle \cup {"Worker_Execute"} \cup RFBeforeDMA => rf_past.moved = 0
    /\ rf_worker.pc \in RFBeforeDMA \ {"function"} => (rf_worker.writes <=> p.fn = "WRITE")

\* What the command has done, from the DMA on.  NED and NEM stay until a reset.
RFTransferDone ==
  \A p \in rf_past.cmd :
    /\ rf.rdy \/ rf_worker.pc \in {"update", "Worker_Finish"} =>
         rf.ned \/ rf.nem \/ rf_past.moved = RFRequested(p)
    /\ rf.rdy \/ rf_worker.pc = "Worker_Finish" =>
         rf.dar = (p.dar + RFRequested(p)) % RFWords /\ rf.wc = 0

\* Transfers are exact, RDY means that they are, and interrupts report it.
RFCommandExact ==
  /\ RFTypeOK
  /\ RFTransferExact /\ RFReadyMeansIdle
  /\ RFOneCommand /\ RFWorkerInStep /\ RFTransferDone
=============================================================================
