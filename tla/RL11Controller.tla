--------------------------- MODULE RL11Controller ---------------------------
(***************************************************************************)
(* The RL11 disk controller with its RL01/02 drives.  Four kinds of actor:  *)
(*  - the adapter's thread runs on_after_register_access() while the bus    *)
(*    stands still, reset() at INIT, and completes the DMAs;                *)
(*  - the controller's worker() executes the long commands and holds        *)
(*    on_after_register_access_mutex except inside pthread_cond_wait();     *)
(*  - each drive's thread follows its own state machine and reports status  *)
(*    changes into the controller's CS register;                            *)
(*  - the operator moves the drives' switches.                              *)
(* A track has RLSectors sectors of RLSectorWords words.  Left out: the     *)
(* contents of sectors, the heads, the rotation of the disk (time to wait), *)
(* the bus address, the drive's error line and the write protection, which  *)
(* only set bits of status words.  The program sets DA and MP together with *)
(* CS.                                                                      *)
(***************************************************************************)
EXTENDS Integers, FiniteSets

CONSTANTS
  RLUnits,         \* unit numbers of the drives
  RLPowered,       \* the drives whose power switch is on at the start
  RLSwitches,      \* the switches somebody touches, <<unit, switch>>
  RLCylinders, RLSectors, RLSectorWords,
  RLCommands,      \* what the program writes into CS, with DA and MP
  RLMaxInits       \* bound: INIT pulses

ReadWrite == {"WRITE_CHECK", "WRITE_DATA", "READ_DATA", "READ_DATA_WITHOUT_HEADER_CHECK"}
RLFunctions == ReadWrite \cup {"NOOP", "GET_STATUS", "SEEK", "READ_HEADER"}

ASSUME RLAssumption ==
  /\ 0 \in RLUnits /\ RLPowered \subseteq RLUnits
  /\ RLSwitches \subseteq RLUnits \X {"power_switch", "runstop"}
  /\ {RLCylinders, RLSectors, RLSectorWords} \subseteq Nat \ {0}
  /\ RLCommands \subseteq
       [go : BOOLEAN, fn : RLFunctions, ie : BOOLEAN, unit : RLUnits,
        cyl : Nat, sector : Nat, wc : Nat,  \* DA and MP of a read or write
        diff : Int, marker : BOOLEAN]       \* DA of a seek or a get status: the cylinder
                                            \* difference, and whether the mark bits are set
  /\ RLMaxInits \in Nat

VARIABLES
  rl,         \* RL11_c
  rl_worker,  \* RL11_c::worker(): place, and the locals of state_readwrite()
  rl_adapter, \* the adapter's thread: the command it waits with for the mutex
  rl_drive,   \* RL0102_c of each unit, and the place of its thread
  rl_past     \* history: the accepted command, what it did, INIT during a command

rlvars == <<rl, rl_worker, rl_adapter, rl_drive, rl_past>>

-----------------------------------------------------------------------------
(* Drive: RL0102_c.                                                         *)

DriveInit(u) ==
  [state |-> "power_off", status |-> "power_off", power_switch |-> u \in RLPowered,
   runstop |-> FALSE, ready |-> FALSE, cyl |-> 0, dest |-> 0, at |-> "loop", tmp |-> {}]

\* do_controller_status(): the value of CS for controller c with drives d.
Status(c, d) == [crdy |-> c.state = "READY", drdy |-> d[c.selected].ready]

\* update_status_word(ready) of a drive whose state is already set.
UpdateStatus(d, ready) == [d EXCEPT !.ready = ready, !.status = d.state]

\* update_status_word() calls the controller only for a change.
StatusChanged(d, d2) == d.ready # d2.ready \/ d.status # d2.status

\* The drive's own thread went from d to d2 with an update of the status.  The value of
\* CS is computed now and written by another step: the adapter's thread and, after a
\* time slice, the controller's can come in between.
DriveThread(u, d2) ==
  LET d == rl_drive[u]
      report == StatusChanged(d, d2) /\ rl.selected = u
      all == [rl_drive EXCEPT ![u] = d2]
  IN  rl_drive' = [rl_drive EXCEPT ![u] =
                     IF report THEN [d2 EXCEPT !.tmp = {Status(rl, all)}] ELSE d2]

Stopped(d) == ~d.runstop

\* state_power_off() ... state_spin_down().  A state that takes several turns, for the
\* speed of the disk or the way of the heads, is left by the last of them.
NextDriveState(d) ==
  LET to(state) == UpdateStatus([d EXCEPT !.state = state], FALSE)
  IN  CASE d.state = "power_off" -> to(IF d.power_switch THEN "load_cartridge" ELSE d.state)
        [] d.state = "load_cartridge" -> to(IF d.runstop THEN "spin_up" ELSE d.state)
        [] d.state = "spin_up" /\ Stopped(d) -> to("spin_down")
        [] d.state = "spin_up" /\ ~Stopped(d) -> to("brush_cycle")
        [] d.state = "brush_cycle" -> to("load_heads")
        [] d.state = "load_heads" -> [to("seek") EXCEPT !.cyl = 0, !.dest = 0]
        [] d.state = "seek" /\ Stopped(d) -> to("spin_down")
        [] d.state = "seek" /\ ~Stopped(d) -> [to("lock_on") EXCEPT !.cyl = d.dest]
        [] d.state = "lock_on" /\ Stopped(d) ->
             UpdateStatus([d EXCEPT !.state = "unload_heads"], d.ready)
        [] d.state = "lock_on" /\ ~Stopped(d) -> [d EXCEPT !.at = "lock_on"]
        [] d.state = "unload_heads" -> to("spin_down")
        [] d.state = "spin_down" -> to("load_cartridge")

\* One turn of RL0102_c::worker().
drive_worker(u) ==
  LET d0 == rl_drive[u]
      d == IF d0.power_switch THEN d0 ELSE [d0 EXCEPT !.state = "power_off"]
  IN  /\ rl.enabled
      /\ d0.at = "loop" /\ d0.tmp = {}
      /\ DriveThread(u, NextDriveState(d))
      /\ UNCHANGED <<rl, rl_worker, rl_adapter, rl_past>>

\* state_lock_on() sets the ready line after its test of the switches; a cmd_seek()
\* of the adapter's thread may come in between.
state_lock_on(u) ==
  LET d == rl_drive[u]
  IN  /\ rl.enabled
      /\ d.at = "lock_on"
      /\ DriveThread(u, UpdateStatus([d EXCEPT !.at = "loop"], TRUE))
      /\ UNCHANGED <<rl, rl_worker, rl_adapter, rl_past>>

\* on_drive_status_changed() puts the computed status into CS.
on_drive_status_changed(u) ==
  /\ \E status \in rl_drive[u].tmp : rl' = [rl EXCEPT !.CS = status]
  /\ rl_drive' = [rl_drive EXCEPT ![u].tmp = {}]
  /\ UNCHANGED <<rl_worker, rl_adapter, rl_past>>

\* The operator: power switch and RUN/STOP button.
Operate(switch) ==
  /\ rl.enabled
  /\ rl_drive' = [rl_drive EXCEPT ![switch[1]][switch[2]] = ~@]
  /\ UNCHANGED <<rl, rl_worker, rl_adapter, rl_past>>

-----------------------------------------------------------------------------
(* Controller operations on a pair of controller c and drives d.            *)

\* change_state() and change_state_INTR(): both end in do_controller_status().
WithStatus(c, d) == [c EXCEPT !.CS = Status(c, d)]

\* Mutant: the interrupt does not depend on the state before.
done_always_interrupts(c, d) ==
  WithStatus([c EXCEPT !.state = "READY", !.intrs = IF c.ie THEN @ + 1 ELSE @], d)

\* do_command_done(): ready, with an interrupt if the controller was not ready yet.
do_command_done(c, d) ==
  WithStatus([c EXCEPT !.state = "READY",
                       !.intrs = IF c.ie /\ c.state # "READY" THEN @ + 1 ELSE @], d)

\* Mutant: the error is noted, but the command is not ended.
incomplete_not_done(c, d) == WithStatus([c EXCEPT !.errors = @ \cup {"OPI"}], d)

\* do_operation_incomplete() after its 200 ms.
operation_incomplete(c, d) ==
  do_command_done([c EXCEPT !.errors = @ \cup {"OPI"}], d)

\* The cylinder a seek from cyl ends at: beyond the last one, the last even one.
destination_cylinder(cyl, diff) ==
  IF diff >= 0
  THEN IF cyl + diff >= RLCylinders THEN ((RLCylinders - 1) \div 2) * 2 ELSE cyl + diff
  ELSE IF -diff > cyl THEN 0 ELSE cyl + diff

\* RL0102_c::cmd_seek()
cmd_seek(d, dest) ==
  IF d.state # "lock_on" THEN d
  ELSE UpdateStatus([d EXCEPT !.dest = dest, !.state = "seek"], FALSE)

\* RL11_c::state_seek(): [c, d] afterwards; d changes only for a valid seek.
state_seek(c, d) ==
  LET u == c.selected
      dest == destination_cylinder(d[u].cyl, c.diff)
      d2 == [d EXCEPT ![u] = cmd_seek(@, dest)]
  IN  IF ~d[u].ready THEN [c |-> operation_incomplete(c, d), d |-> d]
      ELSE IF ~c.marker THEN [c |-> do_command_done(c, d), d |-> d]
      ELSE [c |-> do_command_done(c, d2), d |-> d2]

-----------------------------------------------------------------------------
(* Adapter's thread.                                                        *)

\* The GET STATUS command; do_operation_incomplete() is followed by a second
\* do_command_done().
get_status(c, d) ==
  do_command_done(IF c.marker THEN c ELSE operation_incomplete(c, d), d)

\* A command is executed by worker(): CS shows not ready, worker() is signalled.
delayed(c, d) == [c |-> [WithStatus(c, d) EXCEPT !.signal = TRUE], d |-> d]

\* on_after_register_access() for a write to CS, inside the mutex.
rl_execute(cmd, c0, d) ==
  LET c1 == [c0 EXCEPT !.selected = cmd.unit, !.fn = cmd.fn, !.ie = cmd.ie, !.cyl = cmd.cyl,
                       !.sector = cmd.sector, !.wc = cmd.wc, !.diff = cmd.diff,
                       !.marker = cmd.marker, !.intrs = 0]
      c == [c1 EXCEPT !.errors = {}, !.state = "BUSY"]
  IN  CASE ~cmd.go -> [c |-> WithStatus(c1, d), d |-> d]
        [] cmd.go /\ cmd.fn = "NOOP" -> [c |-> do_command_done(c, d), d |-> d]
        [] cmd.go /\ cmd.fn = "GET_STATUS" -> [c |-> get_status(c, d), d |-> d]
        [] cmd.go /\ cmd.fn = "SEEK" /\ d[cmd.unit].status # "seek" -> state_seek(c, d)
        [] OTHER -> delayed(c, d)

\* The handler's effect, with pthread_cond_signal(), lost if worker() does not wait.
RegisterAccess(cmd) ==
  LET r == rl_execute(cmd, rl, rl_drive)
  IN  /\ rl' = [r.c EXCEPT !.signal = FALSE]
      /\ rl_drive' = r.d
      /\ rl_worker' = IF r.c.signal /\ rl_worker.pc = "wait"
                      THEN [rl_worker EXCEPT !.pc = "woken"] ELSE rl_worker
      /\ rl_past' = [rl_past EXCEPT !.cmd = IF cmd.go THEN {cmd} ELSE {}, !.moved = 0]

\* A write to CS while the controller is not ready is ignored.
on_after_register_access(cmd) ==
  /\ rl.enabled /\ ~rl.line_INIT
  /\ rl_adapter = {}
  /\ rl.state = "READY"
  /\ IF rl_worker.mutex
     THEN rl_adapter' = {cmd} /\ UNCHANGED <<rl, rl_worker, rl_drive, rl_past>>
     ELSE RegisterAccess(cmd) /\ UNCHANGED rl_adapter

\* The handler gets the mutex it waited for; the state is asserted to be ready.
mutex_acquired ==
  /\ ~rl_worker.mutex
  /\ rl_adapter' = {}
  /\ IF rl.state = "READY"
     THEN \E cmd \in rl_adapter : RegisterAccess(cmd)
     ELSE rl_adapter # {} /\ rl_past' = [rl_past EXCEPT !.failed = TRUE] /\ UNCHANGED <<rl, rl_worker, rl_drive>>

\* The adapter's thread completes the DMA, or reports a bus timeout.
DmaComplete ==
  /\ rl_adapter = {}
  /\ rl_worker.pc = "dma_wait"
  /\ \E success \in BOOLEAN :
       rl_worker' = [rl_worker EXCEPT !.pc = "dma_done", !.success = success]
  /\ UNCHANGED <<rl, rl_adapter, rl_drive, rl_past>>

\* A cancelled DMA is complete without success.
Cancel(w) == IF w.pc = "dma_wait" THEN [w EXCEPT !.pc = "dma_done", !.success = FALSE] ELSE w

\* INIT is asserted: DMA() is cancelled; nothing else changes before the falling edge.
InitAsserted ==
  /\ rl.enabled /\ ~rl.line_INIT /\ rl_past.inits < RLMaxInits
  /\ rl_adapter = {}
  /\ rl' = [rl EXCEPT !.line_INIT = TRUE]
  /\ rl_worker' = Cancel(rl_worker)
  /\ rl_past' = [rl_past EXCEPT !.inits = @ + 1]
  /\ UNCHANGED <<rl_adapter, rl_drive>>

\* INIT is negated: RL11_c::reset(), in which worker() has no part.
reset ==
  /\ rl.line_INIT
  /\ rl_adapter = {}
  /\ rl' = WithStatus([rl EXCEPT !.line_INIT = FALSE, !.selected = 0, !.fn = "NOOP", !.ie = FALSE,
                                 !.errors = {}, !.state = "READY", !.intrs = 0], rl_drive)
  /\ rl_worker' = Cancel(rl_worker)
  /\ rl_past' = [rl_past EXCEPT !.cmd = {}, !.late = @ \/ rl_worker.pc # "wait"]
  /\ UNCHANGED <<rl_adapter, rl_drive>>

-----------------------------------------------------------------------------
(* RL11_c::worker()                                                         *)

\* Leaves for pthread_cond_wait(), which releases the mutex; the locals are dead.
Waiting(w) == [w EXCEPT !.pc = "wait", !.mutex = FALSE, !.unit = 0, !.wc = 0,
                        !.transferred = FALSE]

\* pthread_cond_wait() returns.
wakeup ==
  LET d == rl_drive[rl.selected]
  IN  /\ rl_worker.pc = "woken"
      /\ IF rl.line_INIT
         THEN rl_worker' = Waiting(rl_worker) /\ UNCHANGED rl
         ELSE /\ rl_worker' = [rl_worker EXCEPT !.mutex = TRUE,
                   !.pc = IF d.state = "power_off" THEN "opi_wait"
                          ELSE IF d.status = "seek" THEN "seek_wait" ELSE "start",
                   !.unit = rl.selected]
              /\ rl' = [rl EXCEPT !.errors = {}]
      /\ UNCHANGED <<rl_adapter, rl_drive, rl_past>>

\* The command waits until the drive has finished its seek ...
seek_wait ==
  /\ rl_worker.pc = "seek_wait" /\ rl_drive[rl_worker.unit].status # "seek"
  /\ rl_worker' = [rl_worker EXCEPT !.pc = "ready_wait"]
  /\ UNCHANGED <<rl, rl_adapter, rl_drive, rl_past>>

\* ... and then until CS shows the drive ready.
ready_wait ==
  /\ rl_worker.pc = "ready_wait" /\ rl.CS.drdy
  /\ rl_worker' = [rl_worker EXCEPT !.pc = "start"]
  /\ UNCHANGED <<rl, rl_adapter, rl_drive, rl_past>>

\* header_on_track() of the drive for the disk address in DA.
header_on_track(d) == rl.cyl = d.cyl /\ rl.sector < RLSectors

\* The command is dispatched; an unknown function code is only logged.
start ==
  /\ rl_worker.pc = "start"
  /\ rl' = CASE rl.fn \in ReadWrite -> WithStatus([rl EXCEPT !.state = "RW_INIT"], rl_drive)
             [] rl.fn = "SEEK" -> WithStatus([rl EXCEPT !.state = "SEEK_INIT"], rl_drive)
             [] rl.fn = "READ_HEADER" -> do_command_done(rl, rl_drive)
             [] OTHER -> rl
  /\ rl_worker' = [rl_worker EXCEPT !.pc = "loop"]
  /\ UNCHANGED <<rl_adapter, rl_drive, rl_past>>

\* while (state != READY): the end of the loop, a delayed seek, or a read or write.
loop_end ==
  /\ rl_worker.pc = "loop" /\ rl.state = "READY"
  /\ rl_worker' = Waiting(rl_worker)
  /\ UNCHANGED <<rl, rl_adapter, rl_drive, rl_past>>

loop_seek ==
  /\ rl_worker.pc = "loop" /\ rl.state = "SEEK_INIT"
  /\ LET r == state_seek(rl, rl_drive)
     IN  rl' = r.c /\ rl_drive' = r.d
  /\ UNCHANGED <<rl_worker, rl_adapter, rl_past>>

\* The entry of state_readwrite() asserts the function code and needs the drive ready.
readwrite_entry ==
  /\ rl_worker.pc = "loop" /\ rl.state \in {"RW_INIT", "RW_DISK"}
  /\ \/ /\ rl.fn \notin ReadWrite
        /\ rl_past' = [rl_past EXCEPT !.failed = TRUE]
        /\ rl_worker' = [rl_worker EXCEPT !.pc = "aborted"]
     \/ /\ rl.fn \in ReadWrite
        /\ rl_worker' = [rl_worker EXCEPT !.unit = rl.selected, !.wc = rl.wc,
                           !.pc = IF ~rl_drive[rl.selected].ready THEN "opi_wait" ELSE rl.state]
        /\ UNCHANGED rl_past
  /\ UNCHANGED <<rl, rl_adapter, rl_drive>>

rw_init ==
  /\ rl_worker.pc = "RW_INIT"
  /\ LET c == [rl EXCEPT !.errors = {}]
     IN  rl' = IF rl_worker.wc = 0 THEN do_command_done(c, rl_drive)
               ELSE WithStatus([c EXCEPT !.state = "RW_DISK"], rl_drive)
  /\ rl_worker' = [rl_worker EXCEPT !.pc = "loop"]
  /\ UNCHANGED <<rl_adapter, rl_drive, rl_past>>

\* The sector is not on this track, or is waited for and read.
rw_disk ==
  LET found == \/ rl.fn = "READ_DATA_WITHOUT_HEADER_CHECK"
               \/ header_on_track(rl_drive[rl_worker.unit])
  IN  /\ rl_worker.pc = "RW_DISK"
      /\ rl' = IF found THEN rl ELSE [rl EXCEPT !.errors = @ \cup {"HNF"}]
      /\ rl_worker' = [rl_worker EXCEPT !.pc = IF found THEN "dma" ELSE "opi_wait"]
      /\ UNCHANGED <<rl_adapter, rl_drive, rl_past>>

\* DMA() returns at once under INIT, and then success is what the last call left.
dma ==
  /\ rl_worker.pc = "dma"
  /\ rl_worker' = [rl_worker EXCEPT !.pc = IF rl.line_INIT THEN "dma_done" ELSE "dma_wait",
                                    !.success = rl.line_INIT /\ @,
                                    !.transferred = ~rl.line_INIT]
  /\ UNCHANGED <<rl, rl_adapter, rl_drive, rl_past>>

\* Mutant: the last sector is transferred as a whole.
dma_whole_sector == RLSectorWords

\* Words of the current sector.
dma_wordcount == IF rl_worker.wc > RLSectorWords THEN RLSectorWords ELSE rl_worker.wc

\* After DMA(): a timeout ends the command; for a write the sector goes to the image.
after_dma ==
  /\ rl_worker.pc = "dma_done"
  /\ \/ /\ ~rl_worker.success
        /\ rl' = [rl EXCEPT !.errors = @ \cup {"NXM"}]
        /\ rl_worker' = [rl_worker EXCEPT !.pc = "opi_wait"]
        /\ UNCHANGED rl_past
     \/ /\ rl_worker.success
        /\ rl_worker' = [rl_worker EXCEPT !.pc = "sector_end"]
        /\ rl_past' = [rl_past EXCEPT !.moved = @ + dma_wordcount,
             !.zeroed = @ \/ /\ rl.fn = "WRITE_DATA" /\ ~rl_worker.transferred
                             /\ rl_drive[rl_worker.unit].state = "lock_on"]
        /\ UNCHANGED rl
  /\ UNCHANGED <<rl_adapter, rl_drive>>

\* The next sector, or the end of the command.
sector_end ==
  LET wc == IF rl_worker.wc >= RLSectorWords THEN rl_worker.wc - RLSectorWords ELSE 0
      c == [rl EXCEPT !.sector = @ + 1, !.wc = wc]
  IN  /\ rl_worker.pc = "sector_end"
      /\ rl' = IF wc = 0 THEN do_command_done(c, rl_drive)
               ELSE WithStatus([c EXCEPT !.state = "RW_DISK"], rl_drive)
      /\ rl_worker' = [rl_worker EXCEPT !.pc = "loop"]
      /\ UNCHANGED <<rl_adapter, rl_drive, rl_past>>

\* do_operation_incomplete(): 200 ms, with the mutex held.
opi_wait ==
  /\ rl_worker.pc = "opi_wait"
  /\ rl' = operation_incomplete(rl, rl_drive)
  /\ rl_worker' = [rl_worker EXCEPT !.pc = "loop"]
  /\ UNCHANGED <<rl_adapter, rl_drive, rl_past>>

WorkerStep ==
  \/ wakeup \/ seek_wait \/ ready_wait \/ start \/ loop_end \/ loop_seek \/ readwrite_entry
  \/ rw_init \/ rw_disk \/ dma \/ after_dma \/ sector_end \/ opi_wait

-----------------------------------------------------------------------------
RLControllerInit ==
  [enabled |-> TRUE, state |-> "READY", selected |-> 0, fn |-> "NOOP", ie |-> FALSE,
   errors |-> {}, cyl |-> 0, sector |-> 0, diff |-> 0, marker |-> TRUE, wc |-> 0,
   signal |-> FALSE, line_INIT |-> FALSE, intrs |-> 0, CS |-> [crdy |-> TRUE, drdy |-> FALSE]]

RLStart ==
  /\ rl \in {[RLControllerInit EXCEPT !.enabled = e] : e \in BOOLEAN}
  /\ rl_worker = [pc |-> "wait", mutex |-> FALSE, unit |-> 0, wc |-> 0,
                  success |-> FALSE, transferred |-> FALSE]
  /\ rl_adapter = {}
  /\ rl_drive = [u \in RLUnits |-> DriveInit(u)]
  /\ rl_past = [cmd |-> {}, moved |-> 0, zeroed |-> FALSE, late |-> FALSE,
              failed |-> FALSE, inits |-> 0]

DriveStep(u) == drive_worker(u) \/ state_lock_on(u) \/ on_drive_status_changed(u)

\* A failed assert() ends the program; the threads of a disabled device do not run.
Alive == rl.enabled /\ ~rl_past.failed

RLNext ==
  \/ \E cmd \in RLCommands : Alive /\ on_after_register_access(cmd)
  \/ Alive /\ mutex_acquired
  \/ Alive /\ DmaComplete
  \/ Alive /\ InitAsserted
  \/ Alive /\ reset
  \/ Alive /\ WorkerStep
  \/ \E u \in RLUnits : Alive /\ DriveStep(u)
  \/ \E switch \in RLSwitches : rl.enabled /\ Operate(switch)

\* The threads are runnable; INIT is a pulse; the adapter completes a DMA.
RLFairness ==
  /\ WF_rlvars(Alive /\ WorkerStep) /\ WF_rlvars(Alive /\ mutex_acquired)
  /\ WF_rlvars(Alive /\ DmaComplete) /\ WF_rlvars(Alive /\ reset)
  /\ \A u \in RLUnits : WF_rlvars(Alive /\ DriveStep(u))

RLSpec == RLStart /\ [][RLNext]_rlvars /\ RLFairness

-----------------------------------------------------------------------------
\* do_command_done() is called by two threads, for GET STATUS twice: a command that
\* asked for an interrupt gets exactly one, when the controller becomes ready, and a
\* command cut off by INIT gets none; unless INIT came while worker() was busy: it may then
\* execute the function code of the next write to CS, with or without GO.
RLInterruptOnce ==
  /\ rl.intrs > 0 => (\E cmd \in rl_past.cmd : cmd.ie) \/ rl_past.late
  /\ rl.intrs <= 1 \/ rl_past.late
  /\ rl.state = "READY" => \A cmd \in rl_past.cmd : rl.intrs > 0 <=> cmd.ie

\* A read or write that ends without an error has moved all its words, in full sectors
\* but for the last one, and DA points behind the last sector.
RLTransferExact ==
  \A cmd \in rl_past.cmd :
    /\ cmd.fn \in ReadWrite /\ ~rl_past.late
    /\ rl.state = "READY" /\ rl.errors = {}
    => /\ rl_past.moved = cmd.wc
       /\ rl.sector = cmd.sector + (cmd.wc + RLSectorWords - 1) \div RLSectorWords

\* Every command ends, also one that waits for a seek, unless the drive is stopped
\* under it or INIT cuts it off.
RLPending == rl.state # "READY"
RLSettled ==
  \/ rl.state = "READY" \/ rl_past.late
  \/ Stopped(rl_drive[rl.selected]) \/ ~rl_drive[rl.selected].power_switch
RLCommandEnds == RLPending ~> RLSettled

\* What cmd_write_next_sector_data() puts on the disk was read from memory.
RLSectorFromMemory == ~rl_past.zeroed

-----------------------------------------------------------------------------
(* The state in detail, from which RLCommandExact follows at every step.    *)

RLStates == {"READY", "BUSY", "SEEK_INIT", "RW_INIT", "RW_DISK"}
DriveStates == {"power_off", "load_cartridge", "spin_up", "brush_cycle", "load_heads", "seek", "lock_on",
                "unload_heads", "spin_down"}
RLStatusWord == [crdy : BOOLEAN, drdy : BOOLEAN]
RLRecord ==
  [enabled : BOOLEAN, state : RLStates, selected : RLUnits, fn : RLFunctions, ie : BOOLEAN,
   errors : SUBSET {"OPI", "HNF", "NXM"}, cyl : Nat, sector : Nat, diff : Int, marker : BOOLEAN, wc : Nat,
   signal : {FALSE}, line_INIT : BOOLEAN, intrs : Nat, CS : RLStatusWord]
RLWorkerRecord ==
  [pc : {"wait", "woken", "seek_wait", "ready_wait", "start", "loop", "RW_INIT", "RW_DISK", "dma", "dma_wait",
         "dma_done", "sector_end", "opi_wait", "aborted"},
   mutex : BOOLEAN, unit : RLUnits, wc : Nat, success : BOOLEAN, transferred : BOOLEAN]
DriveRecord ==
  [state : DriveStates, status : DriveStates, power_switch : BOOLEAN, runstop : BOOLEAN, ready : BOOLEAN,
   cyl : 0 .. RLCylinders - 1, dest : 0 .. RLCylinders - 1, at : {"loop", "lock_on"}, tmp : SUBSET RLStatusWord]
OneCommand == {{}} \cup {{cmd} : cmd \in RLCommands}
RLPastRecord ==
  [cmd : OneCommand, moved : Nat, zeroed : BOOLEAN, late : BOOLEAN, failed : BOOLEAN, inits : Nat]

\* The heads never leave the cylinders of the cartridge, wherever a seek is to go.
RLTypeOK ==
  /\ rl \in RLRecord /\ rl_worker \in RLWorkerRecord /\ rl_adapter \in OneCommand
  /\ rl_drive \in [RLUnits -> DriveRecord] /\ rl_past \in RLPastRecord

\* The worker's place says whether it holds the mutex, and the state of the controller: unless
\* INIT came while it was busy, a command is in execution exactly while the controller is not
\* ready, and INIT may make worker() drop it on waking up.
RLWorkerInStep ==
  /\ rl_worker.mutex <=> rl_worker.pc \notin {"wait", "woken"}
  /\ rl_adapter # {} => ~rl.line_INIT
  /\ ~rl_past.late =>
       /\ rl_worker.pc = "wait" => rl.state = "READY" \/ (rl.line_INIT /\ rl.state = "BUSY")
       /\ rl_worker.pc \in {"woken", "seek_wait", "ready_wait", "start"} => rl.state = "BUSY"
       /\ rl_worker.pc = "loop" => rl.state # "BUSY"
       /\ rl_worker.pc = "RW_INIT" => rl.state = "RW_INIT"
       /\ rl_worker.pc \in {"RW_DISK", "dma", "dma_wait", "dma_done", "sector_end"} => rl.state = "RW_DISK"
       /\ rl_worker.pc \in {"opi_wait", "aborted"} => rl.state # "READY"
       /\ rl.state # "READY" => rl_past.cmd # {} /\ rl.fn \notin {"NOOP", "GET_STATUS"}
       /\ rl.state = "SEEK_INIT" => rl.fn = "SEEK"
       /\ rl.state \in {"RW_INIT", "RW_DISK"} => rl.fn \in ReadWrite

\* The registers are those of the command, and only its end interrupts.
RLInterruptCause ==
  /\ \A cmd \in rl_past.cmd :
       /\ rl.ie = cmd.ie /\ rl.fn = cmd.fn
       /\ ~cmd.ie => rl.intrs = 0
  /\ ~rl_past.late /\ (rl.state # "READY" \/ rl_past.cmd = {}) => rl.intrs = 0

\* While a read or write goes on, the words moved and those still to move are those of
\* the command, and DA has advanced by one for each sector moved; after the DMA of a
\* sector, the words moved include it.
RLTransferProgress ==
  \A cmd \in rl_past.cmd : cmd.fn \in ReadWrite /\ ~rl_past.late /\ rl.state # "READY" =>
    /\ rl.wc \in 0 .. cmd.wc /\ rl.sector >= cmd.sector
    /\ (rl.sector - cmd.sector) * RLSectorWords = cmd.wc - rl.wc
    /\ rl.state \in {"BUSY", "RW_INIT"} => rl.wc = cmd.wc
    /\ rl.state = "RW_DISK" => rl.wc > 0
    /\ rl_worker.pc \in {"RW_INIT", "RW_DISK", "dma", "dma_wait", "dma_done", "sector_end"} =>
         rl_worker.wc = rl.wc
    /\ rl_past.moved = cmd.wc - rl.wc + (IF rl_worker.pc = "sector_end" THEN dma_wordcount ELSE 0)

\* One interrupt per command, and transfers that are exact.
RLCommandExact ==
  /\ RLTypeOK
  /\ RLInterruptOnce /\ RLTransferExact
  /\ RLWorkerInStep /\ RLInterruptCause /\ RLTransferProgress
=============================================================================
