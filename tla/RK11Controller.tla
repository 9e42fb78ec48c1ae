--------------------------- MODULE RK11Controller ---------------------------
(***************************************************************************)
(* The RK11 disk controller with its RK05 drives: the adapter's thread      *)
(* writes RKCS, RKDA and RKWC and resets the controller at INIT, worker()   *)
(* executes one command, and the thread of each drive ends its seeks.       *)
(* worker() holds the mutex only while it takes a command or reports its    *)
(* end, and the disk address it works with is the register, RKDA.           *)
(* A cylinder has RKSectors sectors (both surfaces) of RKSectorWords words; *)
(* RKWC counts modulo RKWordModulus (2^16 in the code).  Left out: sector   *)
(* contents, the bus address, the sector counter, the format mode, and bits *)
(* of RKDS and RKER (one error bit stands for all) that nothing looks at.   *)
(***************************************************************************)
EXTENDS Integers, FiniteSets

CONSTANTS
  RKUnits,                  \* the drives
  RKOnline,                 \* the drives with a disk image
  RKCylinders, RKSectors, RKSectorWords,
  RKWordModulus,            \* RKWC is a register of this many values
  RKSeekStep,               \* cylinders the heads cross in a turn of the drive's thread
  RKCommands,               \* what the program writes into RKCS
  RKAddresses,              \* what the program writes into RKDA, with RKWC
  RKMaxResets,               \* bound: INIT pulses and Control Resets
  RKBusyWrites              \* whether the program writes RKCS while RDY is clear

RKTransfers == {"Write", "Read", "Write_Check"}
RKFunctions == RKTransfers \cup {"Control_Reset", "Read_Check", "Seek", "Drive_Reset", "Write_Lock"}

ASSUME RKAssumption ==
  /\ 0 \in RKUnits /\ RKOnline \subseteq RKUnits
  /\ {RKCylinders, RKSectors, RKSectorWords, RKSeekStep} \subseteq Nat \ {0}
  /\ RKWordModulus \in Nat /\ RKWordModulus % 2 = 0 /\ RKWordModulus > 0
  /\ RKCommands \subseteq [go : BOOLEAN, fn : RKFunctions, ide : BOOLEAN]
  /\ RKAddresses \subseteq [unit : RKUnits, cyl : Nat, sector : Nat, wc : 0 .. RKWordModulus - 1]
  /\ RKMaxResets \in Nat /\ RKBusyWrites \in BOOLEAN

VARIABLES
  rk,         \* rk11_c: registers and the command handed to worker()
  rk_worker,  \* rk11_c::worker(): _worker_state and its locals
  rk_drive,   \* rk05_c of each unit
  rk_past     \* history: the accepted command and what was done for it

rkvars == <<rk, rk_worker, rk_drive, rk_past>>

-----------------------------------------------------------------------------
\* invoke_interrupt(); c.intr says whether there was one since the command.
rk_interrupt(c) == [c EXCEPT !.intr = @ \/ c.ide]

\* An error bit of RKER, with HE and ERR, stays until the controller is reset.
rk_error(c, e) == [c EXCEPT !.err = @ \/ e]

\* check_drive_present(), and check_drive_ready(), whose other lines never change.
rk_ready(c) == rk_drive[c.unit].dry

\* validate_seek(): RKDA is a sector of a drive that is there.
validate_seek(c) == c.sector < RKSectors /\ c.cyl < RKCylinders /\ rk_ready(c)

\* reset_controller(): RKCS, RKDA, RKER and RKWC are cleared, RDY is set.
reset_controller(c) ==
  [c EXCEPT !.rdy = TRUE, !.ide = FALSE, !.err = FALSE, !.unit = 0, !.cyl = 0,
            !.sector = 0, !.wc = 0]

\* rk05_c::seek() and drive_reset().
rk05_seek(d, cylinder) ==
  LET way == IF d.cyl > cylinder THEN d.cyl - cylinder ELSE cylinder - d.cyl
  IN  [d EXCEPT !.seek_count = way + 1, !.cyl = cylinder, !.rwsrdy = FALSE]

\* A command is accepted; worker() is told.
rk_accept(c, cmd) == [c EXCEPT !.rdy = FALSE, !.new_command = {cmd}, !.intr = FALSE]

\* The words a program asks for with RKWC.
Requested(wc) == (RKWordModulus - wc) % RKWordModulus

\* worker() has a command, or will get one.
rk_busy == rk_worker.pc # "Worker_Idle" \/ rk.new_command # {}

\* History: INIT or a reset cuts a command off, or the program gives one while the
\* controller is busy.  From then on the commands are not recorded.
Disturbed(p, disturbed) ==
  IF p.disturbed \/ disturbed THEN [p EXCEPT !.disturbed = TRUE, !.cmd = {}, !.moved = 0] ELSE p

\* History: a command begins at RKDA and RKWC.
Begun(cmd) ==
  Disturbed([rk_past EXCEPT !.moved = 0,
               !.cmd = {[fn |-> cmd.fn, ide |-> cmd.ide, unit |-> rk.unit, cyl |-> rk.cyl,
                         sector |-> rk.sector, wc |-> rk.wc]}], rk_busy)

-----------------------------------------------------------------------------
(* Adapter's thread: on_after_register_access(), on_init_changed().         *)

\* RKCS without GO: only the bits change, also for the command in execution; an interrupt
\* if ready.
rkcs_nogo(cmd) ==
  LET c == [rk EXCEPT !.ide = cmd.ide]
  IN  /\ ~cmd.go
      /\ rk' = IF c.rdy THEN rk_interrupt(c) ELSE c
      /\ rk_past' = [rk_past EXCEPT !.cmd = {[p EXCEPT !.ide = cmd.ide] : p \in @}]
      /\ UNCHANGED <<rk_worker, rk_drive>>

\* Control Reset acts at once, whatever worker() is doing.
rkcs_control_reset(cmd) ==
  /\ cmd.go /\ cmd.fn = "Control_Reset" /\ rk_past.resets < RKMaxResets
  /\ rk' = reset_controller(rk)
  /\ rk_past' = Disturbed([rk_past EXCEPT !.resets = @ + 1, !.cmd = {}], rk_busy)
  /\ UNCHANGED <<rk_worker, rk_drive>>

\* Write Lock is not implemented.
rkcs_write_lock(cmd) ==
  /\ cmd.go /\ cmd.fn = "Write_Lock"
  /\ rk' = [rk EXCEPT !.ide = cmd.ide]
  /\ rk_past' = Disturbed(rk_past, rk_busy)
  /\ UNCHANGED <<rk_worker, rk_drive>>

\* Mutant: RDY is left set until worker() takes the command.
rkcs_command_ready(cmd) ==
  LET c == [rk EXCEPT !.ide = cmd.ide]
  IN  /\ cmd.go /\ cmd.fn \notin {"Control_Reset", "Write_Lock"} /\ rk_ready(rk)
      /\ rk' = [rk_accept(c, cmd) EXCEPT !.rdy = TRUE]
      /\ rk_past' = Begun(cmd)
      /\ UNCHANGED <<rk_worker, rk_drive>>

\* All other functions: the drive must be there, then worker() executes them.  A
\* missing drive is reported at once; the assert() there needs RDY.
rkcs_command(cmd) ==
  LET c == [rk EXCEPT !.ide = cmd.ide]
  IN  /\ cmd.go /\ cmd.fn \notin {"Control_Reset", "Write_Lock"}
      /\ IF rk_ready(rk)
         THEN /\ rk' = rk_accept(c, cmd)
              /\ rk_past' = Begun(cmd)
         ELSE /\ rk' = rk_interrupt(rk_error(c, TRUE))
              /\ rk_past' = [rk_past EXCEPT !.failed = @ \/ ~rk.rdy]
      /\ UNCHANGED <<rk_worker, rk_drive>>

RKCS(cmd) ==
  /\ rk.enabled /\ ~rk.line_INIT
  /\ rk.rdy \/ RKBusyWrites \/ cmd.fn = "Control_Reset"
  /\ rkcs_nogo(cmd) \/ rkcs_control_reset(cmd) \/ rkcs_write_lock(cmd) \/ rkcs_command(cmd)

\* The program sets RKDA, which takes the value only if ready, and RKWC, which is a
\* register without logic.
RKDA(a) ==
  /\ rk.enabled /\ ~rk.line_INIT
  /\ rk.rdy
  /\ rk' = [rk EXCEPT !.unit = a.unit, !.cyl = a.cyl, !.sector = a.sector, !.wc = a.wc]
  /\ rk_past' = [rk_past EXCEPT !.cmd = {}]
  /\ UNCHANGED <<rk_worker, rk_drive>>

rk_cancelled(w) == IF w.pc = "dma_wait" THEN [w EXCEPT !.pc = "dma_done", !.success = FALSE] ELSE w

\* INIT is asserted: reset_controller(), drive_reset() of all drives, and the adapter
\* cancels the DMA and the interrupt.
rk_init_asserted ==
  /\ rk.enabled /\ ~rk.line_INIT /\ rk_past.resets < RKMaxResets
  /\ rk' = [reset_controller(rk) EXCEPT !.line_INIT = TRUE, !.intr = FALSE]
  /\ rk_drive' = [u \in RKUnits |-> rk05_seek(rk_drive[u], 0)]
  /\ rk_worker' = rk_cancelled(rk_worker)
  /\ rk_past' = Disturbed([rk_past EXCEPT !.resets = @ + 1, !.cmd = {}], rk_busy)

rk_init_negated ==
  /\ rk.line_INIT
  /\ rk' = [rk EXCEPT !.line_INIT = FALSE]
  /\ rk_worker' = rk_cancelled(rk_worker)
  /\ UNCHANGED <<rk_drive, rk_past>>

\* The adapter's thread completes a DMA, or reports a bus timeout.
rk_dma_complete ==
  /\ rk_worker.pc = "dma_wait"
  /\ \E success \in BOOLEAN :
       rk_worker' = [rk_worker EXCEPT !.pc = "dma_done", !.success = success]
  /\ UNCHANGED <<rk, rk_drive, rk_past>>

-----------------------------------------------------------------------------
(* rk11_c::worker()                                                         *)

\* -(int16_t) RKWC, as an int16_t: half of the range and more is not positive.
current_count(wc) == IF wc > RKWordModulus \div 2 THEN RKWordModulus - wc ELSE -wc

\* Worker_Idle: takes the command under the mutex.
Worker_Idle ==
  /\ rk_worker.pc = "Worker_Idle"
  /\ \E cmd \in rk.new_command :
       rk_worker' = [rk_worker EXCEPT !.fn = cmd.fn, !.do_interrupt = TRUE, !.pc = "Worker_Execute"]
  /\ rk' = [rk EXCEPT !.new_command = {}]
  /\ UNCHANGED <<rk_drive, rk_past>>

\* Worker_Execute: a transfer reads RKWC; Seek and Drive Reset only start the drive.
Worker_Execute ==
  LET fn == rk_worker.fn
      seeks == IF fn = "Seek" THEN validate_seek(rk) ELSE rk_ready(rk)
  IN  /\ rk_worker.pc = "Worker_Execute"
      /\ \/ /\ fn \in RKTransfers \cup {"Read_Check"}
            /\ rk_worker' = [rk_worker EXCEPT !.count = current_count(rk.wc), !.pc = "sector"]
            /\ UNCHANGED <<rk, rk_drive>>
         \/ /\ fn \in {"Seek", "Drive_Reset"}
            /\ rk_worker' = [rk_worker EXCEPT !.pc = "Worker_Finish", !.do_interrupt = seeks]
            /\ rk' = IF fn = "Seek" THEN rk_error(rk, ~seeks) ELSE rk
            /\ rk_drive' = IF seeks
                           THEN [rk_drive EXCEPT ![rk.unit] =
                                   rk05_seek(@, IF fn = "Seek" THEN rk.cyl ELSE 0)]
                           ELSE rk_drive
      /\ UNCHANGED rk_past

\* The head of the loop over the sectors: done, cut off by a new command, a bad RKDA,
\* or a sector to transfer.  Read Check does not look for a new command.
rk_sector ==
  LET bad == ~validate_seek(rk)
      stop == rk_worker.count <= 0 \/ (rk.new_command # {} /\ rk_worker.fn # "Read_Check")
  IN  /\ rk_worker.pc = "sector"
      /\ rk' = rk_error(rk, ~stop /\ bad)
      /\ rk_worker' = [rk_worker EXCEPT !.pc =
           IF stop \/ bad THEN "Worker_Finish"
           ELSE IF rk_worker.fn \in {"Read", "Write_Check"} THEN "read"
           ELSE IF rk_worker.fn = "Write" THEN "dma" ELSE "next"]
      /\ UNCHANGED <<rk_drive, rk_past>>

\* rk05_c::read_sector() of the sector in RKDA; write_sector() is alike.
rk_disk_io == [rk_drive EXCEPT ![rk.unit].cyl = rk.cyl, ![rk.unit].rwsrdy = FALSE]

rk_read ==
  /\ rk_worker.pc = "read"
  /\ rk_drive' = rk_disk_io
  /\ rk_worker' = [rk_worker EXCEPT !.pc = "read_end", !.unit = rk.unit]
  /\ UNCHANGED <<rk, rk_past>>

\* The drive is ready again after the rotation.
rk_io_end ==
  /\ rk_worker.pc \in {"read_end", "write_end"}
  /\ rk_drive' = [rk_drive EXCEPT ![rk_worker.unit].rwsrdy = TRUE]
  /\ rk_worker' = [rk_worker EXCEPT !.pc = IF @ = "read_end" THEN "dma" ELSE "next"]
  /\ UNCHANGED <<rk, rk_past>>

\* dma_transfer(): under INIT DMA() returns at once, with the last call's success.
rk_dma ==
  /\ rk_worker.pc = "dma"
  /\ rk_worker' = [rk_worker EXCEPT !.pc = IF rk.line_INIT THEN "dma_done" ELSE "dma_wait",
                                    !.success = rk.line_INIT /\ @]
  /\ UNCHANGED <<rk, rk_drive, rk_past>>

\* Words of this sector.
request_count == IF rk_worker.count > RKSectorWords THEN RKSectorWords ELSE rk_worker.count

\* The sector a command that was given at RKDA = a may write as its n-th, from 0.
RKSectorAt(a, n) ==
  IF n = 0 THEN [unit |-> a.unit, cyl |-> a.cyl, sector |-> a.sector]
  ELSE [unit |-> a.unit, cyl |-> a.cyl + (a.sector + n) \div RKSectors, sector |-> (a.sector + n) % RKSectors]

RKPosition == [unit |-> rk.unit, cyl |-> rk.cyl, sector |-> rk.sector]

InPlace ==
  \A p \in rk_past.cmd : \E n \in 0 .. Requested(p.wc) : RKSectorAt(p, n) = RKPosition

\* After the DMA: a timeout aborts the command after this sector, a write goes to the
\* disk, a write check may find a difference, and stops there if SSE is set.
rk_dma_done ==
  /\ rk_worker.pc = "dma_done"
  /\ \/ /\ ~rk_worker.success
        /\ rk' = rk_error(rk, TRUE)
        /\ rk_worker' = [rk_worker EXCEPT !.pc = "next", !.abort = TRUE]
        /\ UNCHANGED <<rk_drive, rk_past>>
     \/ /\ rk_worker.success /\ rk_worker.fn = "Write"
        /\ rk_worker' = [rk_worker EXCEPT !.pc = "write_end", !.unit = rk.unit]
        /\ rk_drive' = rk_disk_io
        /\ rk_past' = Disturbed([rk_past EXCEPT !.moved = @ + request_count,
                                                !.misplaced = @ \/ ~InPlace], FALSE)
        /\ UNCHANGED rk
     \/ /\ rk_worker.success /\ rk_worker.fn # "Write"
        /\ rk_past' = Disturbed([rk_past EXCEPT !.moved = @ + request_count], FALSE)
        /\ \E differs \in {FALSE, rk_worker.fn = "Write_Check"} : \E stop \in {FALSE, differs} :
             /\ rk' = rk_error(rk, differs)
             /\ rk_worker' = [rk_worker EXCEPT !.pc = "next", !.abort = stop]
        /\ UNCHANGED rk_drive

\* increment_RKDA()
increment_RKDA(c) ==
  [c EXCEPT !.sector = IF @ + 1 >= RKSectors THEN 0 ELSE @ + 1,
            !.cyl = IF c.sector + 1 >= RKSectors THEN @ + 1 ELSE @]

\* Behind the sector, after an error too: RKWC and RKDA are advanced.  Read Check
\* always takes whole sectors.
rk_next ==
  /\ rk_worker.pc = "next"
  /\ LET count == rk_worker.count - (IF rk_worker.fn = "Read_Check" THEN RKSectorWords ELSE request_count)
     IN  /\ rk' = increment_RKDA([rk EXCEPT !.wc = (-count) % RKWordModulus])
         /\ rk_worker' = [rk_worker EXCEPT !.count = count, !.abort = FALSE,
                            !.pc = IF rk_worker.abort THEN "Worker_Finish" ELSE "sector"]
  /\ UNCHANGED <<rk_drive, rk_past>>

\* Worker_Finish, under the mutex: RDY, and the interrupt.
Worker_Finish ==
  /\ rk_worker.pc = "Worker_Finish"
  /\ LET c == [rk EXCEPT !.rdy = TRUE]
     IN  rk' = IF rk_worker.do_interrupt THEN rk_interrupt(c) ELSE c
  /\ rk_worker' = [rk_worker EXCEPT !.pc = "Worker_Idle", !.fn = "Read", !.unit = 0, !.count = 0]
  /\ UNCHANGED <<rk_drive, rk_past>>

RKWorkerStep ==
  \/ Worker_Idle \/ Worker_Execute \/ rk_sector \/ rk_read \/ rk_io_end \/ rk_dma
  \/ rk_dma_done \/ rk_next \/ Worker_Finish

-----------------------------------------------------------------------------
(* rk05_c::worker(): a turn while a seek is active.  At its end the         *)
(* controller is told, which interrupts if IDE is set.                      *)
rk05_worker(u) ==
  LET d == rk_drive[u]
      count == d.seek_count - RKSeekStep
  IN  /\ rk.enabled
      /\ d.seek_count > 0
      /\ rk_drive' = [rk_drive EXCEPT ![u].seek_count = count, ![u].rwsrdy = @ \/ count < 0]
      /\ rk' = IF count < 0 THEN rk_interrupt(rk) ELSE rk
      /\ UNCHANGED <<rk_worker, rk_past>>

-----------------------------------------------------------------------------
RKStart ==
  /\ rk \in [enabled : BOOLEAN, rdy : {TRUE}, ide : {FALSE},
             err : {FALSE}, unit : {0}, cyl : {0}, sector : {0}, wc : {0}, new_command : {{}},
             line_INIT : {FALSE}, intr : {FALSE}]
  /\ rk_worker = [pc |-> "Worker_Idle", fn |-> "Read", count |-> 0, unit |-> 0, do_interrupt |-> TRUE,
                  success |-> FALSE, abort |-> FALSE]
  /\ rk_drive = [u \in RKUnits |-> [dry |-> u \in RKOnline, seek_count |-> 0, cyl |-> 0, rwsrdy |-> TRUE]]
  /\ rk_past = [cmd |-> {}, moved |-> 0, misplaced |-> FALSE,
                disturbed |-> FALSE, failed |-> FALSE, resets |-> 0]

RKAlive == ~rk_past.failed

RKNext ==
  \/ \E cmd \in RKCommands : RKAlive /\ RKCS(cmd)
  \/ \E a \in RKAddresses : RKAlive /\ RKDA(a)
  \/ RKAlive /\ rk_init_asserted
  \/ RKAlive /\ rk_init_negated
  \/ RKAlive /\ rk_dma_complete
  \/ RKAlive /\ RKWorkerStep
  \/ \E u \in RKUnits : RKAlive /\ rk05_worker(u)

\* The threads are runnable, INIT is a pulse, and the adapter completes a DMA.
RKFairness ==
  /\ WF_rkvars(RKAlive /\ RKWorkerStep) /\ WF_rkvars(RKAlive /\ rk_dma_complete)
  /\ WF_rkvars(RKAlive /\ rk_init_negated)
  /\ \A u \in RKUnits : WF_rkvars(RKAlive /\ rk05_worker(u))

RKSpec == RKStart /\ [][RKNext]_rkvars /\ RKFairness

-----------------------------------------------------------------------------
\* RDY is set only when worker() is back in Worker_Idle and no command is waiting: a
\* program that looks at RDY can rely on RKDA and RKWC.
RKReadyMeansIdle ==
  ~rk_past.disturbed /\ rk.rdy => rk_worker.pc = "Worker_Idle" /\ rk.new_command = {}

\* The sectors that so many words fill.
RKSectorsOf(words) == (words + RKSectorWords - 1) \div RKSectorWords

\* A transfer that ends without an error has moved the words RKWC asked for (up to half
\* of the range of RKWC), has written only sectors it was given, and RKDA points behind
\* the last one.
RKTransferExact ==
  \A p \in rk_past.cmd :
    LET words == Requested(p.wc)
    IN  /\ rk.rdy /\ ~rk.err
        /\ p.fn \in RKTransfers /\ words < RKWordModulus \div 2
        => /\ rk_past.moved = words /\ rk.wc = 0 /\ ~rk_past.misplaced
           /\ RKSectorAt(p, RKSectorsOf(words)) = RKPosition

\* A command given with IDE, or for which IDE is set before it ends, has interrupted when
\* the program sees RDY again; only a Seek that finds a bad address has not.
RKDoneInterrupts ==
  \A p \in rk_past.cmd :
    rk.rdy /\ p.ide => rk.intr \/ (p.fn = "Seek" /\ rk.err)

\* Every command ends, also when worker() meets errors, a new command or INIT.
RKCommandEnds == ~rk.rdy ~> rk.rdy

-----------------------------------------------------------------------------
(* The state in detail, from which RKCommandExact follows at every step.    *)

RKAtSector == {"read", "read_end", "dma", "dma_wait", "dma_done", "write_end", "next"}
RKRecord ==
  [enabled : BOOLEAN, rdy : BOOLEAN, ide : BOOLEAN, err : BOOLEAN, unit : RKUnits, cyl : Nat, sector : Nat,
   wc : 0 .. RKWordModulus - 1, new_command : SUBSET RKCommands, line_INIT : BOOLEAN, intr : BOOLEAN]
RKWorkerRecord ==
  [pc : {"Worker_Idle", "Worker_Execute", "sector", "Worker_Finish"} \cup RKAtSector, fn : RKFunctions,
   count : Int, unit : RKUnits, do_interrupt : BOOLEAN, success : BOOLEAN, abort : BOOLEAN]
RKDriveRecord == [dry : BOOLEAN, seek_count : Int, cyl : Nat, rwsrdy : BOOLEAN]
RKAccepted ==
  [fn : RKTransfers \cup {"Read_Check", "Seek", "Drive_Reset"}, ide : BOOLEAN, unit : RKUnits, cyl : Nat,
   sector : Nat, wc : 0 .. RKWordModulus - 1]
RKPastRecord ==
  [cmd : SUBSET RKAccepted, moved : Int, misplaced : BOOLEAN, disturbed : BOOLEAN, failed : BOOLEAN,
   resets : Nat]

RKTypeOK ==
  /\ rk \in RKRecord /\ rk_worker \in RKWorkerRecord
  /\ rk_drive \in [RKUnits -> RKDriveRecord] /\ rk_past \in RKPastRecord

\* A program that does not disturb its command has one at a time; nothing ever writes to a
\* sector that the command was not given.
RKOneCommand ==
  /\ rk_past.disturbed => rk_past.cmd = {}
  /\ ~rk_past.disturbed /\ rk.new_command # {} => rk_worker.pc = "Worker_Idle"
  /\ rk_worker.abort => rk_worker.pc = "next"
  /\ ~rk_past.misplaced
  /\ \A u \in RKUnits : rk_drive[u].dry <=> u \in RKOnline

\* While it is in execution, worker() and the registers agree about the command.
RKWorkerInStep ==
  \A p \in rk_past.cmd : ~rk.rdy /\ ~rk_past.failed =>
    /\ rk.ide = p.ide /\ rk.unit = p.unit /\ p.unit \in RKOnline /\ rk_busy
    /\ \A c \in rk.new_command : c.fn = p.fn
    /\ rk_worker.pc # "Worker_Idle" => rk_worker.fn = p.fn
    /\ rk_worker.pc \in RKAtSector \cup {"sector"} => p.fn \in RKTransfers \cup {"Read_Check"}
    /\ rk_worker.pc \in {"Worker_Idle", "Worker_Execute"} =>
         rk.cyl = p.cyl /\ rk.sector = p.sector /\ rk.wc = p.wc /\ rk_past.moved = 0
    /\ rk_worker.pc \notin {"Worker_Idle", "Worker_Finish"} => rk_worker.do_interrupt
    /\ rk_worker.pc = "Worker_Finish" => rk_worker.do_interrupt \/ (p.fn = "Seek" /\ rk.err)

\* A transfer has n sectors behind it: worker() counts the words of the others, RKDA is the
\* next sector, and without an error all words of the n sectors are moved.
RKTransferAt(p, n) ==
  /\ RKSectorAt(p, n) = RKPosition
  /\ rk_worker.count >= 0
  /\ rk_worker.count > 0 => n * RKSectorWords + rk_worker.count = Requested(p.wc)
  /\ rk_worker.count = 0 => n = RKSectorsOf(Requested(p.wc)) /\ rk.wc = 0
  /\ rk_worker.pc \in RKAtSector => rk_worker.count > 0 /\ rk.sector < RKSectors
  /\ rk_worker.pc = "Worker_Finish" => rk.err \/ rk_worker.count = 0
  /\ rk_worker.abort => rk.err
  /\ rk.err \/ rk_past.moved = Requested(p.wc) - rk_worker.count
                               + (IF rk_worker.pc \in {"write_end", "next"} THEN request_count ELSE 0)

RKTransferProgress ==
  \A p \in rk_past.cmd :
    p.fn \in RKTransfers /\ ~rk.rdy /\ ~rk_past.failed /\ rk_worker.pc \notin {"Worker_Idle", "Worker_Execute"} =>
      IF Requested(p.wc) < RKWordModulus \div 2 THEN \E n \in 0 .. Requested(p.wc) : RKTransferAt(p, n)
      ELSE rk_worker.pc \in {"sector", "Worker_Finish"} /\ rk_worker.count <= 0

\* Transfers are exact, RDY means that they are, and interrupts report it.
RKCommandExact ==
  /\ RKTypeOK
  /\ RKReadyMeansIdle /\ RKTransferExact /\ RKDoneInterrupts
  /\ RKOneCommand /\ RKWorkerInStep /\ RKTransferProgress
=============================================================================
