---------------------------- MODULE Disks_proofs ----------------------------
(***************************************************************************)
(* Proofs about RL11Controller, RK11Controller and RF11Controller, for disks *)
(* of any geometry, any drives and any commands.                            *)
(***************************************************************************)
EXTENDS RL11Controller, RK11Controller, RF11Controller, TLAPS

(* Quotient and remainder.                                                  *)
LEMMA Remainder ==
  ASSUME NEW a \in Int, NEW b \in Nat \ {0}
  PROVE  /\ (a % b) \in 0 .. b - 1 /\ (a \div b) \in Int
         /\ a = (a \div b) * b + (a % b)
OBVIOUS
LEMMA RemainderIs ==
  ASSUME NEW a \in Int, NEW q \in Int, NEW b \in Nat \ {0}, NEW r \in 0 .. b - 1, a = q * b + r
  PROVE  (a % b) = r /\ (a \div b) = q
OBVIOUS
LEMMA NextQuotient ==
  ASSUME NEW a \in Int, NEW b \in Nat \ {0}
  PROVE  /\ (a + 1) % b = IF (a % b) + 1 >= b THEN 0 ELSE (a % b) + 1
         /\ (a + 1) \div b = IF (a % b) + 1 >= b THEN (a \div b) + 1 ELSE (a \div b)
<1> DEFINE q == a \div b
           r == a % b
<1>1. r \in 0 .. b - 1 /\ q \in Int /\ a = q * b + r
  BY Remainder
<1> HIDE DEF q, r
<1>2. CASE r + 1 >= b
  <2>1. a + 1 \in Int /\ a + 1 = (q + 1) * b + 0 /\ q + 1 \in Int /\ 0 \in 0 .. b - 1
    BY <1>1, <1>2
  <2>2. (a + 1) % b = 0 /\ (a + 1) \div b = q + 1
    BY <2>1, RemainderIs
  <2> QED  BY <1>2, <2>2 DEF q, r
<1>3. CASE r + 1 < b
  <2>1. a + 1 \in Int /\ a + 1 = q * b + (r + 1) /\ r + 1 \in 0 .. b - 1
    BY <1>1, <1>3
  <2>2. (a + 1) % b = r + 1 /\ (a + 1) \div b = q
    BY <1>1, <2>1, RemainderIs
  <2>3. ~(r + 1 >= b)
    BY <1>1, <1>3
  <2> QED  BY <2>3, <2>2 DEF q, r
<1> QED  BY <1>1, <1>2, <1>3

-----------------------------------------------------------------------------
(* The RL11.                                                                *)

(* A drive after update_status_word(), and after a turn of its thread.      *)
LEMMA RLDriveStatusType ==
  ASSUME NEW d \in DriveRecord, NEW ready \in BOOLEAN
  PROVE  UpdateStatus(d, ready) \in DriveRecord
BY DEF UpdateStatus, DriveRecord

LEMMA RLNextDriveType ==
  ASSUME RLAssumption, NEW d \in DriveRecord
  PROVE  NextDriveState(d) \in DriveRecord
<1> DEFINE to(state) == UpdateStatus([d EXCEPT !.state = state], FALSE)
<1>1. \A state \in DriveStates : to(state) \in DriveRecord
  <2>1. \A state \in DriveStates : [d EXCEPT !.state = state] \in DriveRecord
    BY DEF DriveRecord
  <2> QED  BY <2>1, RLDriveStatusType
<1>2. \A state \in DriveStates, c \in 0 .. RLCylinders - 1 : [to(state) EXCEPT !.cyl = c] \in DriveRecord
  <2> HIDE DEF to
  <2> QED  BY <1>1 DEF DriveRecord
<1>3. \A state \in DriveStates : [to(state) EXCEPT !.cyl = 0, !.dest = 0] \in DriveRecord
  <2>1. 0 \in 0 .. RLCylinders - 1
    BY DEF RLAssumption
  <2> HIDE DEF to
  <2> QED  BY <1>1, <2>1 DEF DriveRecord
<1>4. [d EXCEPT !.at = "lock_on"] \in DriveRecord
  BY DEF DriveRecord
<1>5. UpdateStatus([d EXCEPT !.state = "unload_heads"], d.ready) \in DriveRecord
  <2>1. [d EXCEPT !.state = "unload_heads"] \in DriveRecord /\ d.ready \in BOOLEAN
    BY DEF DriveRecord, DriveStates
  <2> QED  BY <2>1, RLDriveStatusType
<1>6. d.state \in DriveStates /\ d.dest \in 0 .. RLCylinders - 1
  BY DEF DriveRecord
<1>7. NextDriveState(d) =
        CASE d.state = "power_off" -> to(IF d.power_switch THEN "load_cartridge" ELSE d.state)
          [] d.state = "load_cartridge" -> to(IF d.runstop THEN "spin_up" ELSE d.state)
          [] d.state = "spin_up" /\ Stopped(d) -> to("spin_down")
          [] d.state = "spin_up" /\ ~Stopped(d) -> to("brush_cycle")
          [] d.state = "brush_cycle" -> to("load_heads")
          [] d.state = "load_heads" -> [to("seek") EXCEPT !.cyl = 0, !.dest = 0]
          [] d.state = "seek" /\ Stopped(d) -> to("spin_down")
          [] d.state = "seek" /\ ~Stopped(d) -> [to("lock_on") EXCEPT !.cyl = d.dest]
          [] d.state = "lock_on" /\ Stopped(d) -> UpdateStatus([d EXCEPT !.state = "unload_heads"], d.ready)
          [] d.state = "lock_on" /\ ~Stopped(d) -> [d EXCEPT !.at = "lock_on"]
          [] d.state = "unload_heads" -> to("spin_down")
          [] d.state = "spin_down" -> to("load_cartridge")
  BY DEF NextDriveState
<1> HIDE DEF to
<1> QED
  BY <1>1, <1>2, <1>3, <1>4, <1>5, <1>6, <1>7 DEF DriveStates

(* The value of CS.                                                         *)
LEMMA RLStatusType ==
  ASSUME NEW c \in RLRecord, NEW d \in [RLUnits -> DriveRecord]
  PROVE  Status(c, d) \in RLStatusWord
<1>1. c.selected \in RLUnits
  BY DEF RLRecord
<1>2. d[c.selected].ready \in BOOLEAN
  BY <1>1 DEF DriveRecord
<1> QED  BY <1>2 DEF Status, RLStatusWord

LEMMA RLWithStatus ==
  ASSUME NEW c \in RLRecord, NEW d \in [RLUnits -> DriveRecord]
  PROVE  /\ WithStatus(c, d) \in RLRecord
         /\ WithStatus(c, d).state = c.state /\ WithStatus(c, d).errors = c.errors
         /\ WithStatus(c, d).intrs = c.intrs /\ WithStatus(c, d).selected = c.selected
         /\ WithStatus(c, d).fn = c.fn /\ WithStatus(c, d).ie = c.ie /\ WithStatus(c, d).wc = c.wc
         /\ WithStatus(c, d).sector = c.sector /\ WithStatus(c, d).line_INIT = c.line_INIT
<1>1. Status(c, d) \in RLStatusWord
  BY RLStatusType
<1> QED  BY <1>1 DEF WithStatus, RLRecord

(* The seek of a drive ends on the cartridge.                               *)
LEMMA RLDestination ==
  ASSUME RLAssumption, NEW cyl \in 0 .. RLCylinders - 1, NEW diff \in Int
  PROVE  destination_cylinder(cyl, diff) \in 0 .. RLCylinders - 1
<1>1. RLCylinders \in Nat \ {0}
  BY DEF RLAssumption
<1> QED  BY <1>1 DEF destination_cylinder

LEMMA RLCmdSeekType ==
  ASSUME NEW d \in DriveRecord, NEW dest \in 0 .. RLCylinders - 1
  PROVE  cmd_seek(d, dest) \in DriveRecord
<1>1. [d EXCEPT !.dest = dest, !.state = "seek"] \in DriveRecord
  BY DEF DriveRecord, DriveStates
<1> QED  BY <1>1, RLDriveStatusType DEF cmd_seek

(* A command of controller c has been ended: e is ready, with an interrupt  *)
(* if c was not ready.                                                      *)
RLReady(e, c) ==
  /\ e.state = "READY"
  /\ e.intrs = IF c.ie /\ c.state # "READY" THEN c.intrs + 1 ELSE c.intrs
  /\ e.ie = c.ie /\ e.fn = c.fn /\ e.line_INIT = c.line_INIT
RLEnded(e, c) == RLReady(e, c) /\ e.wc = c.wc /\ e.sector = c.sector

LEMMA RLDone ==
  ASSUME NEW c \in RLRecord, NEW d \in [RLUnits -> DriveRecord]
  PROVE  /\ do_command_done(c, d) \in RLRecord
         /\ RLEnded(do_command_done(c, d), c)
         /\ do_command_done(c, d).errors = c.errors
<1> DEFINE n == IF c.ie /\ c.state # "READY" THEN c.intrs + 1 ELSE c.intrs
           x == [c EXCEPT !.state = "READY", !.intrs = n]
<1>1. n \in Nat
  BY DEF RLRecord
<1>2. do_command_done(c, d) = WithStatus(x, d)
  BY DEF do_command_done
<1> HIDE DEF n
<1>3. x \in RLRecord
  BY <1>1 DEF RLRecord, RLStates
<1>4. /\ x.state = "READY" /\ x.intrs = n /\ x.errors = c.errors
      /\ x.ie = c.ie /\ x.fn = c.fn /\ x.wc = c.wc /\ x.sector = c.sector
      /\ x.line_INIT = c.line_INIT
  BY DEF RLRecord
<1> HIDE DEF x
<1> QED  BY <1>2, <1>3, <1>4, RLWithStatus DEF n, RLEnded, RLReady

LEMMA RLIncomplete ==
  ASSUME NEW c \in RLRecord, NEW d \in [RLUnits -> DriveRecord]
  PROVE  /\ operation_incomplete(c, d) \in RLRecord
         /\ RLEnded(operation_incomplete(c, d), c)
         /\ operation_incomplete(c, d).errors # {}
<1> DEFINE x == [c EXCEPT !.errors = @ \cup {"OPI"}]
<1>1. x \in RLRecord
  BY DEF RLRecord
<1>2. /\ x.state = c.state /\ x.intrs = c.intrs /\ x.errors # {}
      /\ x.ie = c.ie /\ x.fn = c.fn /\ x.wc = c.wc /\ x.sector = c.sector
      /\ x.line_INIT = c.line_INIT
  BY DEF RLRecord
<1>3. operation_incomplete(c, d) = do_command_done(x, d)
  BY DEF operation_incomplete
<1> HIDE DEF x
<1> QED  BY <1>1, <1>2, <1>3, RLDone DEF RLEnded, RLReady

LEMMA RLSeekDone ==
  ASSUME RLAssumption, NEW c \in RLRecord, NEW d \in [RLUnits -> DriveRecord], NEW r, r = state_seek(c, d)
  PROVE  r.c \in RLRecord /\ r.d \in [RLUnits -> DriveRecord] /\ RLEnded(r.c, c)
<1> DEFINE u == c.selected
           dest == destination_cylinder(d[u].cyl, c.diff)
           d2 == [d EXCEPT ![u] = cmd_seek(@, dest)]
<1>1. u \in RLUnits /\ c.diff \in Int
  BY DEF RLRecord
<1>2. d[u] \in DriveRecord /\ d[u].cyl \in 0 .. RLCylinders - 1
  BY <1>1 DEF DriveRecord
<1>3. dest \in 0 .. RLCylinders - 1
  BY <1>1, <1>2, RLDestination
<1>4. d2 \in [RLUnits -> DriveRecord]
  <2> HIDE DEF dest, u
  <2>1. cmd_seek(d[u], dest) \in DriveRecord
    BY <1>2, <1>3, RLCmdSeekType
  <2> QED  BY <1>1, <2>1
<1>5. r = IF ~d[u].ready THEN [c |-> operation_incomplete(c, d), d |-> d]
          ELSE IF ~c.marker THEN [c |-> do_command_done(c, d), d |-> d]
          ELSE [c |-> do_command_done(c, d2), d |-> d2]
  BY DEF state_seek
<1> HIDE DEF u, dest, d2
<1>6. CASE ~d[u].ready
  BY <1>5, <1>6, RLIncomplete
<1>7. CASE d[u].ready /\ ~c.marker
  BY <1>5, <1>7, RLDone
<1>8. CASE d[u].ready /\ c.marker
  BY <1>4, <1>5, <1>8, RLDone
<1> QED  BY <1>6, <1>7, <1>8

(* GET STATUS ends the command, by two ends at most.                        *)
LEMMA RLGetStatus ==
  ASSUME NEW c \in RLRecord, NEW d \in [RLUnits -> DriveRecord]
  PROVE  get_status(c, d) \in RLRecord /\ RLEnded(get_status(c, d), c)
<1>1. CASE c.marker
  BY <1>1, RLDone DEF get_status
<1>2. CASE ~c.marker
  <2> DEFINE x == operation_incomplete(c, d)
  <2>1. x \in RLRecord /\ RLEnded(x, c)
    BY RLIncomplete
  <2>2. get_status(c, d) = do_command_done(x, d)
    BY <1>2 DEF get_status
  <2> HIDE DEF x
  <2>3. do_command_done(x, d) \in RLRecord /\ RLEnded(do_command_done(x, d), x)
    BY <2>1, RLDone
  <2> QED  BY <2>1, <2>2, <2>3 DEF RLEnded, RLReady
<1> QED  BY <1>1, <1>2

(* The command's registers, and how the handler leaves the controller:      *)
(* ready without an interrupt, the command being only written; busy, with   *)
(* the worker signalled; or ready, the command being done.                  *)
RLExecuted(c, cmd) ==
  /\ c.ie = cmd.ie /\ c.fn = cmd.fn /\ c.wc = cmd.wc /\ c.sector = cmd.sector
  /\ c.line_INIT = rl.line_INIT
  /\ \/ ~cmd.go /\ c.state = "READY" /\ ~c.signal /\ c.intrs = 0
     \/ cmd.go /\ c.state = "BUSY" /\ c.signal /\ c.intrs = 0
        /\ cmd.fn \notin {"NOOP", "GET_STATUS"}
     \/ cmd.go /\ c.state = "READY" /\ ~c.signal /\ c.intrs = (IF cmd.ie THEN 1 ELSE 0) /\ cmd.fn \notin ReadWrite

LEMMA RLExecute ==
  ASSUME RLAssumption, RLTypeOK, rl.state = "READY", NEW cmd \in RLCommands, NEW r, r = rl_execute(cmd, rl, rl_drive)
  PROVE  /\ [r.c EXCEPT !.signal = FALSE] \in RLRecord
         /\ r.d \in [RLUnits -> DriveRecord]
         /\ RLExecuted(r.c, cmd)
<1> DEFINE c1 == [rl EXCEPT !.selected = cmd.unit, !.fn = cmd.fn, !.ie = cmd.ie, !.cyl = cmd.cyl,
                            !.sector = cmd.sector, !.wc = cmd.wc, !.diff = cmd.diff,
                            !.marker = cmd.marker, !.intrs = 0]
           c == [c1 EXCEPT !.errors = {}, !.state = "BUSY"]
<1>0. rl \in RLRecord /\ rl_drive \in [RLUnits -> DriveRecord]
  BY DEF RLTypeOK
<1>1. cmd \in [go : BOOLEAN, fn : RLFunctions, ie : BOOLEAN, unit : RLUnits, cyl : Nat, sector : Nat, wc : Nat,
               diff : Int, marker : BOOLEAN]
  BY DEF RLAssumption
<1>2. c1 \in RLRecord
  BY <1>0, <1>1 DEF RLRecord
<1>3. /\ c1.ie = cmd.ie /\ c1.fn = cmd.fn /\ c1.wc = cmd.wc /\ c1.sector = cmd.sector
      /\ c1.line_INIT = rl.line_INIT /\ c1.state = "READY" /\ c1.intrs = 0 /\ c1.signal = FALSE
  BY <1>0 DEF RLRecord
<1>4. c \in RLRecord
  <2> HIDE DEF c1
  <2> QED  BY <1>2 DEF RLRecord, RLStates
<1>5. /\ c.ie = cmd.ie /\ c.fn = cmd.fn /\ c.wc = cmd.wc /\ c.sector = cmd.sector
      /\ c.line_INIT = rl.line_INIT /\ c.state = "BUSY" /\ c.intrs = 0 /\ c.signal = FALSE
  <2> HIDE DEF c1
  <2> QED  BY <1>2, <1>3 DEF RLRecord
<1>6. r = CASE ~cmd.go -> [c |-> WithStatus(c1, rl_drive), d |-> rl_drive]
            [] cmd.go /\ cmd.fn = "NOOP" -> [c |-> do_command_done(c, rl_drive), d |-> rl_drive]
            [] cmd.go /\ cmd.fn = "GET_STATUS" -> [c |-> get_status(c, rl_drive), d |-> rl_drive]
            [] cmd.go /\ cmd.fn = "SEEK" /\ rl_drive[cmd.unit].status # "seek" -> state_seek(c, rl_drive)
            [] OTHER -> delayed(c, rl_drive)
  BY DEF rl_execute
<1> HIDE DEF c1, c
<1>7. \A e \in RLRecord : [e EXCEPT !.signal = FALSE] \in RLRecord /\ e.signal = FALSE
  BY DEF RLRecord
<1>8. ASSUME NEW e \in RLRecord, RLEnded(e, c), cmd.go, cmd.fn \notin ReadWrite
      PROVE  RLExecuted(e, cmd)
  <2>1. e.intrs = IF cmd.ie THEN 1 ELSE 0
    BY <1>5, <1>8 DEF RLEnded, RLReady
  <2>2. /\ e.ie = cmd.ie /\ e.fn = cmd.fn /\ e.wc = cmd.wc /\ e.sector = cmd.sector
        /\ e.line_INIT = rl.line_INIT /\ e.state = "READY"
    BY <1>5, <1>8 DEF RLEnded, RLReady
  <2> QED  BY <1>7, <1>8, <2>1, <2>2 DEF RLExecuted
<1>9. CASE ~cmd.go
  <2>1. r = [c |-> WithStatus(c1, rl_drive), d |-> rl_drive]
    BY <1>6, <1>9
  <2> QED  BY <1>0, <1>2, <1>3, <1>7, <1>9, <2>1, RLWithStatus DEF RLExecuted
<1>10. CASE cmd.go /\ cmd.fn = "NOOP"
  <2>1. r = [c |-> do_command_done(c, rl_drive), d |-> rl_drive]
    BY <1>6, <1>10
  <2> QED  BY <1>0, <1>4, <1>7, <1>8, <1>10, <2>1, RLDone DEF ReadWrite
<1>11. CASE cmd.go /\ cmd.fn = "GET_STATUS"
  <2>1. r = [c |-> get_status(c, rl_drive), d |-> rl_drive]
    BY <1>6, <1>11
  <2> QED  BY <1>0, <1>4, <1>7, <1>8, <1>11, <2>1, RLGetStatus DEF ReadWrite
<1>12. CASE cmd.go /\ cmd.fn = "SEEK" /\ rl_drive[cmd.unit].status # "seek"
  <2>1. r = state_seek(c, rl_drive)
    BY <1>6, <1>12
  <2>2. r.c \in RLRecord /\ r.d \in [RLUnits -> DriveRecord] /\ RLEnded(r.c, c)
    BY <1>0, <1>4, <2>1, RLSeekDone
  <2> QED  BY <1>7, <1>8, <1>12, <2>2 DEF ReadWrite
<1>13. CASE cmd.go /\ cmd.fn \notin {"NOOP", "GET_STATUS"}
            /\ ~(cmd.fn = "SEEK" /\ rl_drive[cmd.unit].status # "seek")
  <2>1. r = delayed(c, rl_drive)
    BY <1>6, <1>13
  <2> DEFINE w == WithStatus(c, rl_drive)
  <2>2. /\ w \in RLRecord /\ w.state = "BUSY" /\ w.intrs = 0
        /\ w.ie = cmd.ie /\ w.fn = cmd.fn /\ w.wc = cmd.wc /\ w.sector = cmd.sector
        /\ w.line_INIT = rl.line_INIT
    BY <1>0, <1>4, <1>5, RLWithStatus
  <2>3. r.c = [w EXCEPT !.signal = TRUE] /\ r.d = rl_drive
    BY <2>1 DEF delayed
  <2> HIDE DEF w
  <2>4. [r.c EXCEPT !.signal = FALSE] \in RLRecord
    BY <2>2, <2>3 DEF RLRecord
  <2>5. /\ r.c.signal /\ r.c.state = "BUSY" /\ r.c.intrs = 0 /\ r.c.ie = cmd.ie /\ r.c.fn = cmd.fn
        /\ r.c.wc = cmd.wc /\ r.c.sector = cmd.sector /\ r.c.line_INIT = rl.line_INIT
    BY <2>2, <2>3 DEF RLRecord
  <2> QED  BY <1>0, <1>13, <2>3, <2>4, <2>5 DEF RLExecuted
<1> QED  BY <1>9, <1>10, <1>11, <1>12, <1>13

(* The parts of RLCommandExact but for the types.                           *)
RLOrder ==
  RLInterruptOnce /\ RLTransferExact /\ RLWorkerInStep /\ RLInterruptCause /\ RLTransferProgress

(* Nothing but CS, the drives and the worker's flags changes.               *)
RLAside ==
  /\ rl'.state = rl.state /\ rl'.errors = rl.errors /\ rl'.intrs = rl.intrs /\ rl'.fn = rl.fn
  /\ rl'.ie = rl.ie
  /\ rl'.wc = rl.wc /\ rl'.sector = rl.sector /\ rl'.line_INIT = rl.line_INIT
  /\ rl_worker'.wc = rl_worker.wc /\ rl_worker'.mutex = rl_worker.mutex
  /\ rl_past'.cmd = rl_past.cmd /\ rl_past'.late = rl_past.late /\ rl_past'.moved = rl_past.moved

LEMMA RLAsideOrder ==
  ASSUME RLOrder, RLAside, rl_worker'.pc = rl_worker.pc, rl_adapter' = rl_adapter
  PROVE  RLOrder'
<1>1. RLInterruptOnce' /\ RLTransferExact'
  BY DEF RLOrder, RLAside, RLInterruptOnce, RLTransferExact
<1>2. RLWorkerInStep' /\ RLInterruptCause'
  BY DEF RLOrder, RLAside, RLWorkerInStep, RLInterruptCause
<1>3. RLTransferProgress'
  BY DEF RLOrder, RLAside, RLTransferProgress, dma_wordcount
<1> QED  BY <1>1, <1>2, <1>3 DEF RLOrder

(* What the thread of a drive and the operator do.                          *)
LEMMA RLDriveThreadType ==
  ASSUME RLTypeOK, NEW u \in RLUnits, NEW d2 \in DriveRecord, DriveThread(u, d2)
  PROVE  rl_drive' \in [RLUnits -> DriveRecord]
<1> DEFINE all == [rl_drive EXCEPT ![u] = d2]
<1>1. all \in [RLUnits -> DriveRecord]
  BY DEF RLTypeOK
<1>2. Status(rl, all) \in RLStatusWord
  BY <1>1, RLStatusType DEF RLTypeOK
<1>3. rl_drive' = [rl_drive EXCEPT ![u] =
          IF StatusChanged(rl_drive[u], d2) /\ rl.selected = u THEN [d2 EXCEPT !.tmp = {Status(rl, all)}] ELSE d2]
  BY DEF DriveThread
<1> HIDE DEF all
<1>4. [d2 EXCEPT !.tmp = {Status(rl, all)}] \in DriveRecord
  BY <1>2 DEF DriveRecord
<1> QED  BY <1>3, <1>4 DEF RLTypeOK

LEMMA RLDriveStep ==
  ASSUME RLAssumption, RLTypeOK, RLOrder, NEW u \in RLUnits, DriveStep(u)
  PROVE  RLTypeOK' /\ RLOrder'
<1> DEFINE d == rl_drive[u]
<1>1. d \in DriveRecord
  BY DEF RLTypeOK
<1>2. CASE drive_worker(u)
  <2> DEFINE d1 == IF d.power_switch THEN d ELSE [d EXCEPT !.state = "power_off"]
  <2>1. d1 \in DriveRecord
    BY <1>1 DEF DriveRecord, DriveStates
  <2>2. DriveThread(u, NextDriveState(d1)) /\ UNCHANGED <<rl, rl_worker, rl_adapter, rl_past>>
    BY <1>2 DEF drive_worker
  <2> HIDE DEF d1, d
  <2>3. rl_drive' \in [RLUnits -> DriveRecord]
    BY <2>1, <2>2, RLNextDriveType, RLDriveThreadType
  <2> QED  BY <2>2, <2>3, RLAsideOrder DEF RLAside, RLTypeOK
<1>3. CASE state_lock_on(u)
  <2>1. [d EXCEPT !.at = "loop"] \in DriveRecord
    BY <1>1 DEF DriveRecord
  <2>2. DriveThread(u, UpdateStatus([d EXCEPT !.at = "loop"], TRUE)) /\ UNCHANGED <<rl, rl_worker, rl_adapter, rl_past>>
    BY <1>3 DEF state_lock_on
  <2> HIDE DEF d
  <2>3. rl_drive' \in [RLUnits -> DriveRecord]
    BY <2>1, <2>2, RLDriveStatusType, RLDriveThreadType
  <2> QED  BY <2>2, <2>3, RLAsideOrder DEF RLAside, RLTypeOK
<1>4. CASE on_drive_status_changed(u)
  <2>1. PICK status \in d.tmp : rl' = [rl EXCEPT !.CS = status]
    BY <1>4 DEF on_drive_status_changed
  <2>2. status \in RLStatusWord
    BY <1>1, <2>1 DEF DriveRecord
  <2>3. rl_drive' = [rl_drive EXCEPT ![u].tmp = {}] /\ UNCHANGED <<rl_worker, rl_adapter, rl_past>>
    BY <1>4 DEF on_drive_status_changed
  <2>4. rl' \in RLRecord /\ RLAside
    BY <2>1, <2>2, <2>3 DEF RLTypeOK, RLRecord, RLAside
  <2>5. [d EXCEPT !.tmp = {}] \in DriveRecord
    BY <1>1 DEF DriveRecord
  <2>6. rl_drive' \in [RLUnits -> DriveRecord]
    BY <2>3, <2>5 DEF RLTypeOK
  <2> QED  BY <2>3, <2>4, <2>6, RLAsideOrder DEF RLTypeOK
<1> QED  BY <1>2, <1>3, <1>4 DEF DriveStep

LEMMA RLOperateStep ==
  ASSUME RLAssumption, RLTypeOK, RLOrder, NEW switch \in RLSwitches, Operate(switch)
  PROVE  RLTypeOK' /\ RLOrder'
<1>1. switch[1] \in RLUnits /\ switch[2] \in {"power_switch", "runstop"}
  BY DEF RLAssumption
<1> DEFINE u == switch[1]
           d == rl_drive[u]
<1>2. u \in RLUnits /\ d \in DriveRecord
  BY <1>1 DEF RLTypeOK
<1>3. rl_drive' = [rl_drive EXCEPT ![u][switch[2]] = ~@] /\ UNCHANGED <<rl, rl_worker, rl_adapter, rl_past>>
  BY DEF Operate
<1>4. ASSUME switch[2] = "power_switch" PROVE rl_drive' \in [RLUnits -> DriveRecord]
  <2> DEFINE b == ~d.power_switch
  <2>1. rl_drive' = [rl_drive EXCEPT ![u].power_switch = b]
    BY <1>3, <1>4
  <2>2. b \in BOOLEAN
    OBVIOUS
  <2> DEFINE e == [d EXCEPT !.power_switch = b]
  <2>3. rl_drive' = [rl_drive EXCEPT ![u] = e]
    BY <2>1
  <2> HIDE DEF u, d, b
  <2>4. e \in DriveRecord
    BY <1>2, <2>2 DEF DriveRecord
  <2> HIDE DEF e
  <2> QED  BY <1>2, <2>3, <2>4 DEF RLTypeOK
<1>5. ASSUME switch[2] = "runstop" PROVE rl_drive' \in [RLUnits -> DriveRecord]
  <2> DEFINE b == ~d.runstop
  <2>1. rl_drive' = [rl_drive EXCEPT ![u].runstop = b]
    BY <1>3, <1>5
  <2>2. b \in BOOLEAN
    OBVIOUS
  <2> DEFINE e == [d EXCEPT !.runstop = b]
  <2>3. rl_drive' = [rl_drive EXCEPT ![u] = e]
    BY <2>1
  <2> HIDE DEF u, d, b
  <2>4. e \in DriveRecord
    BY <1>2, <2>2 DEF DriveRecord
  <2> HIDE DEF e
  <2> QED  BY <1>2, <2>3, <2>4 DEF RLTypeOK
<1> QED  BY <1>1, <1>3, <1>4, <1>5, RLAsideOrder DEF RLAside, RLTypeOK

(* The adapter's thread: accesses to CS, DMA and INIT.                      *)
LEMMA RLRegisterAccess ==
  ASSUME RLAssumption, RLTypeOK, RLOrder, NEW cmd \in RLCommands, rl.state = "READY", RegisterAccess(cmd),
         ~rl_worker.mutex, ~rl.line_INIT, rl_adapter' = {}
  PROVE  RLTypeOK' /\ RLOrder'
<1> DEFINE r == rl_execute(cmd, rl, rl_drive)
<1>1. /\ [r.c EXCEPT !.signal = FALSE] \in RLRecord
      /\ r.d \in [RLUnits -> DriveRecord]
      /\ RLExecuted(r.c, cmd)
  BY RLExecute
<1>2. /\ rl' = [r.c EXCEPT !.signal = FALSE] /\ rl_drive' = r.d
      /\ rl_worker' = IF r.c.signal /\ rl_worker.pc = "wait" THEN [rl_worker EXCEPT !.pc = "woken"] ELSE rl_worker
      /\ rl_past' = [rl_past EXCEPT !.cmd = IF cmd.go THEN {cmd} ELSE {}, !.moved = 0]
  BY DEF RegisterAccess
<1> HIDE DEF r
<1>3. rl_worker' \in RLWorkerRecord
  BY <1>2 DEF RLTypeOK, RLWorkerRecord
<1>4. /\ rl_past' \in RLPastRecord
      /\ rl_past'.cmd = (IF cmd.go THEN {cmd} ELSE {}) /\ rl_past'.moved = 0 /\ rl_past'.late = rl_past.late
  BY <1>2 DEF RLTypeOK, RLPastRecord, OneCommand
<1>5. RLTypeOK'
  BY <1>1, <1>2, <1>3, <1>4 DEF RLTypeOK, OneCommand
<1>6. /\ rl'.ie = cmd.ie /\ rl'.fn = cmd.fn /\ rl'.wc = cmd.wc /\ rl'.sector = cmd.sector
      /\ rl'.line_INIT = rl.line_INIT
  BY <1>1, <1>2 DEF RLExecuted, RLRecord
<1>7. /\ rl'.state = r.c.state /\ rl'.intrs = r.c.intrs
      /\ \/ ~cmd.go /\ r.c.state = "READY" /\ ~r.c.signal /\ r.c.intrs = 0
         \/ cmd.go /\ r.c.state = "BUSY" /\ r.c.signal /\ r.c.intrs = 0
            /\ cmd.fn \notin {"NOOP", "GET_STATUS"}
         \/ cmd.go /\ r.c.state = "READY" /\ ~r.c.signal /\ r.c.intrs = (IF cmd.ie THEN 1 ELSE 0)
            /\ cmd.fn \notin ReadWrite
  BY <1>1, <1>2 DEF RLExecuted, RLRecord
<1>8. /\ rl_worker.pc \in {"wait", "woken"}
      /\ ~rl_past.late => rl_worker.pc = "wait"
  BY DEF RLOrder, RLWorkerInStep, RLTypeOK
<1>9. /\ rl_worker'.mutex = rl_worker.mutex
      /\ rl_worker'.pc = IF r.c.signal /\ rl_worker.pc = "wait" THEN "woken" ELSE rl_worker.pc
  BY <1>2 DEF RLTypeOK, RLWorkerRecord
<1>10. cmd.wc \in Nat /\ cmd.sector \in Nat /\ cmd.ie \in BOOLEAN
  BY DEF RLAssumption
<1>11. RLWorkerInStep'
  BY <1>4, <1>6, <1>7, <1>8, <1>9 DEF RLWorkerInStep
<1>12. RLInterruptOnce' /\ RLTransferExact' /\ RLInterruptCause'
  BY <1>4, <1>6, <1>7, <1>10 DEF RLInterruptOnce, RLTransferExact, RLInterruptCause
<1>13. RLTransferProgress'
  <2>1. 0 * RLSectorWords = 0 /\ RLSectorWords \in Nat
    BY DEF RLAssumption
  <2> QED  BY <1>4, <1>6, <1>7, <1>8, <1>9, <1>10, <2>1 DEF RLTransferProgress
<1> QED  BY <1>5, <1>11, <1>12, <1>13 DEF RLOrder

LEMMA RLAccessStep ==
  ASSUME RLAssumption, RLTypeOK, RLOrder, NEW cmd \in RLCommands, on_after_register_access(cmd)
  PROVE  RLTypeOK' /\ RLOrder'
<1>1. CASE rl_worker.mutex
  <2>1. rl_adapter' = {cmd} /\ UNCHANGED <<rl, rl_worker, rl_drive, rl_past>> /\ ~rl.line_INIT
    BY <1>1 DEF on_after_register_access
  <2>2. RLTypeOK'
    BY <2>1 DEF RLTypeOK, OneCommand
  <2>3. RLOrder'
    BY <2>1 DEF RLOrder, RLInterruptOnce, RLTransferExact, RLWorkerInStep, RLInterruptCause,
       RLTransferProgress,
       dma_wordcount
  <2> QED  BY <2>2, <2>3
<1>2. CASE ~rl_worker.mutex
  BY <1>2, RLRegisterAccess DEF on_after_register_access
<1> QED  BY <1>1, <1>2

LEMMA RLMutexStep ==
  ASSUME RLAssumption, RLTypeOK, RLOrder, mutex_acquired
  PROVE  RLTypeOK' /\ RLOrder'
<1>1. CASE rl.state = "READY"
  <2>1. PICK cmd \in rl_adapter : RegisterAccess(cmd)
    BY <1>1 DEF mutex_acquired
  <2>2. cmd \in RLCommands
    BY <2>1 DEF RLTypeOK, OneCommand
  <2>3. ~rl_worker.mutex /\ ~rl.line_INIT /\ rl_adapter' = {}
    BY <2>1 DEF mutex_acquired, RLOrder, RLWorkerInStep
  <2> QED  BY <1>1, <2>1, <2>2, <2>3, RLRegisterAccess
<1>2. CASE rl.state # "READY"
  <2>1. /\ rl_adapter' = {} /\ rl_past' = [rl_past EXCEPT !.failed = TRUE]
        /\ UNCHANGED <<rl, rl_worker, rl_drive>>
    BY <1>2 DEF mutex_acquired
  <2>2. rl_past' \in RLPastRecord /\ RLAside
    BY <2>1 DEF RLTypeOK, RLPastRecord, RLAside
  <2>3. RLTypeOK'
    BY <2>1, <2>2 DEF RLTypeOK, OneCommand
  <2>4. RLOrder'
    BY <2>1, <2>2 DEF RLAside, RLOrder, RLInterruptOnce, RLTransferExact, RLWorkerInStep,
       RLInterruptCause,
       RLTransferProgress, dma_wordcount
  <2> QED  BY <2>3, <2>4
<1> QED  BY <1>1, <1>2

LEMMA RLDmaStep ==
  ASSUME RLAssumption, RLTypeOK, RLOrder, DmaComplete
  PROVE  RLTypeOK' /\ RLOrder'
<1>1. PICK success \in BOOLEAN : rl_worker' = [rl_worker EXCEPT !.pc = "dma_done", !.success = success]
  BY DEF DmaComplete
<1>2. rl_worker.pc = "dma_wait" /\ UNCHANGED <<rl, rl_adapter, rl_drive, rl_past>>
  BY DEF DmaComplete
<1>3. /\ rl_worker' \in RLWorkerRecord
      /\ rl_worker'.pc = "dma_done" /\ rl_worker'.mutex = rl_worker.mutex
      /\ rl_worker'.wc = rl_worker.wc
  BY <1>1 DEF RLTypeOK, RLWorkerRecord
<1>4. RLTypeOK'
  BY <1>2, <1>3 DEF RLTypeOK
<1> QED
  BY <1>2, <1>3, <1>4 DEF RLOrder, RLInterruptOnce, RLTransferExact, RLWorkerInStep,
     RLInterruptCause,
     RLTransferProgress

LEMMA RLCancelType ==
  ASSUME rl_worker \in RLWorkerRecord, NEW w, w = Cancel(rl_worker)
  PROVE  /\ w \in RLWorkerRecord /\ w.mutex = rl_worker.mutex /\ w.wc = rl_worker.wc
         /\ w.pc = IF rl_worker.pc = "dma_wait" THEN "dma_done" ELSE rl_worker.pc
BY DEF Cancel, RLWorkerRecord

LEMMA RLInitStep ==
  ASSUME RLAssumption, RLTypeOK, RLOrder, InitAsserted
  PROVE  RLTypeOK' /\ RLOrder'
<1>1. /\ rl' = [rl EXCEPT !.line_INIT = TRUE] /\ rl_worker' = Cancel(rl_worker) /\ rl_adapter = {}
      /\ rl_past' = [rl_past EXCEPT !.inits = @ + 1] /\ UNCHANGED <<rl_adapter, rl_drive>>
  BY DEF InitAsserted
<1>2. /\ rl_worker' \in RLWorkerRecord /\ rl_worker'.mutex = rl_worker.mutex
      /\ rl_worker'.wc = rl_worker.wc
      /\ rl_worker'.pc = IF rl_worker.pc = "dma_wait" THEN "dma_done" ELSE rl_worker.pc
  BY <1>1, RLCancelType DEF RLTypeOK
<1>3. /\ rl' \in RLRecord
      /\ rl'.state = rl.state /\ rl'.errors = rl.errors /\ rl'.intrs = rl.intrs /\ rl'.fn = rl.fn
      /\ rl'.ie = rl.ie /\ rl'.wc = rl.wc /\ rl'.sector = rl.sector /\ rl'.line_INIT = TRUE
  BY <1>1 DEF RLTypeOK, RLRecord
<1>4. /\ rl_past' \in RLPastRecord
      /\ rl_past'.cmd = rl_past.cmd /\ rl_past'.moved = rl_past.moved
      /\ rl_past'.late = rl_past.late
  BY <1>1 DEF RLTypeOK, RLPastRecord
<1>5. RLTypeOK'
  BY <1>1, <1>2, <1>3, <1>4 DEF RLTypeOK
<1>6. RLWorkerInStep'
  BY <1>1, <1>2, <1>3, <1>4 DEF RLOrder, RLWorkerInStep
<1>7. RLInterruptOnce' /\ RLTransferExact' /\ RLInterruptCause'
  BY <1>3, <1>4 DEF RLOrder, RLInterruptOnce, RLTransferExact, RLInterruptCause
<1>8. RLTransferProgress'
  BY <1>2, <1>3, <1>4 DEF RLOrder, RLTransferProgress, dma_wordcount
<1> QED  BY <1>5, <1>6, <1>7, <1>8 DEF RLOrder

LEMMA RLResetStep ==
  ASSUME RLAssumption, RLTypeOK, RLOrder, reset
  PROVE  RLTypeOK' /\ RLOrder'
<1> DEFINE c == [rl EXCEPT !.line_INIT = FALSE, !.selected = 0, !.fn = "NOOP", !.ie = FALSE,
                           !.errors = {}, !.state = "READY", !.intrs = 0]
           b == rl_past.late \/ rl_worker.pc # "wait"
<1>1. /\ rl' = WithStatus(c, rl_drive) /\ rl_worker' = Cancel(rl_worker) /\ rl_adapter = {}
      /\ rl_past' = [rl_past EXCEPT !.cmd = {}, !.late = b] /\ UNCHANGED <<rl_adapter, rl_drive>>
  BY DEF reset
<1>2. c \in RLRecord /\ c.state = "READY" /\ c.intrs = 0
  BY DEF RLTypeOK, RLRecord, RLStates, RLFunctions, RLAssumption
<1>3. b \in BOOLEAN
  OBVIOUS
<1> HIDE DEF c
<1>4. rl' \in RLRecord /\ rl'.state = "READY" /\ rl'.intrs = 0
  BY <1>1, <1>2, RLWithStatus DEF RLTypeOK
<1>5. /\ rl_worker' \in RLWorkerRecord /\ rl_worker'.mutex = rl_worker.mutex
      /\ rl_worker'.pc = IF rl_worker.pc = "dma_wait" THEN "dma_done" ELSE rl_worker.pc
  BY <1>1, RLCancelType DEF RLTypeOK
<1>6. rl_past' \in RLPastRecord /\ rl_past'.cmd = {} /\ rl_past'.late = b
  <2> HIDE DEF b
  <2> QED  BY <1>1, <1>3 DEF RLTypeOK, RLPastRecord, OneCommand
<1>7. RLTypeOK'
  BY <1>1, <1>4, <1>5, <1>6 DEF RLTypeOK
<1>8. RLWorkerInStep'
  BY <1>1, <1>4, <1>5, <1>6 DEF RLOrder, RLWorkerInStep
<1>9. RLInterruptOnce' /\ RLTransferExact' /\ RLInterruptCause' /\ RLTransferProgress'
  BY <1>4, <1>6 DEF RLInterruptOnce, RLTransferExact, RLInterruptCause, RLTransferProgress
<1> QED  BY <1>7, <1>8, <1>9 DEF RLOrder

(* The worker, outside of a transfer.                                       *)
LEMMA RLWakeupStep ==
  ASSUME RLAssumption, RLTypeOK, RLOrder, wakeup
  PROVE  RLTypeOK' /\ RLOrder'
<1>0. rl_worker.pc = "woken" /\ ~rl_worker.mutex /\ UNCHANGED <<rl_adapter, rl_drive, rl_past>>
  BY DEF wakeup, RLOrder, RLWorkerInStep
<1>1. CASE rl.line_INIT
  <2>1. rl_worker' = Waiting(rl_worker) /\ UNCHANGED rl
    BY <1>1 DEF wakeup
  <2>2. rl_worker' \in RLWorkerRecord /\ rl_worker'.pc = "wait" /\ ~rl_worker'.mutex
    BY <2>1 DEF RLTypeOK, RLWorkerRecord, Waiting, RLAssumption
  <2>3. RLTypeOK'
    BY <1>0, <2>1, <2>2 DEF RLTypeOK
  <2> QED
    BY <1>0, <1>1, <2>1, <2>2, <2>3 DEF RLOrder, RLInterruptOnce, RLTransferExact,
       RLWorkerInStep, RLInterruptCause, RLTransferProgress
<1>2. CASE ~rl.line_INIT
  <2> DEFINE p == IF rl_drive[rl.selected].state = "power_off" THEN "opi_wait"
                  ELSE IF rl_drive[rl.selected].status = "seek" THEN "seek_wait" ELSE "start"
  <2>1. rl_worker' = [rl_worker EXCEPT !.mutex = TRUE, !.pc = p, !.unit = rl.selected]
        /\ rl' = [rl EXCEPT !.errors = {}]
    BY <1>2 DEF wakeup
  <2>2. p \in {"opi_wait", "seek_wait", "start"}
    OBVIOUS
  <2> HIDE DEF p
  <2>3. rl_worker' \in RLWorkerRecord /\ rl_worker'.pc = p /\ rl_worker'.mutex
    BY <2>1, <2>2 DEF RLTypeOK, RLWorkerRecord, RLRecord
  <2>4. /\ rl' \in RLRecord
        /\ rl'.state = rl.state /\ rl'.intrs = rl.intrs /\ rl'.fn = rl.fn /\ rl'.ie = rl.ie
        /\ rl'.wc = rl.wc /\ rl'.sector = rl.sector /\ rl'.line_INIT = rl.line_INIT
    BY <2>1 DEF RLTypeOK, RLRecord
  <2>5. RLTypeOK'
    BY <1>0, <2>3, <2>4 DEF RLTypeOK
  <2>6. ~rl_past.late => rl.state = "BUSY"
    BY <1>0 DEF RLOrder, RLWorkerInStep
  <2> QED
    BY <1>0, <2>2, <2>3, <2>4, <2>5, <2>6 DEF RLOrder, RLInterruptOnce, RLTransferExact,
       RLWorkerInStep, RLInterruptCause, RLTransferProgress
<1> QED  BY <1>1, <1>2

LEMMA RLWaitSteps ==
  ASSUME RLAssumption, RLTypeOK, RLOrder, seek_wait \/ ready_wait
  PROVE  RLTypeOK' /\ RLOrder'
<1>1. /\ rl_worker.pc \in {"seek_wait", "ready_wait"}
      /\ rl_worker' \in {[rl_worker EXCEPT !.pc = "ready_wait"], [rl_worker EXCEPT !.pc = "start"]}
      /\ UNCHANGED <<rl, rl_adapter, rl_drive, rl_past>>
  BY DEF seek_wait, ready_wait
<1>2. /\ rl_worker' \in RLWorkerRecord /\ rl_worker'.pc \in {"ready_wait", "start"}
      /\ rl_worker'.mutex = rl_worker.mutex /\ rl_worker'.wc = rl_worker.wc
  BY <1>1 DEF RLTypeOK, RLWorkerRecord
<1>3. RLTypeOK'
  BY <1>1, <1>2 DEF RLTypeOK
<1> QED
  BY <1>1, <1>2, <1>3 DEF RLOrder, RLInterruptOnce, RLTransferExact, RLWorkerInStep,
     RLInterruptCause, RLTransferProgress

LEMMA RLLoopEndStep ==
  ASSUME RLAssumption, RLTypeOK, RLOrder, loop_end
  PROVE  RLTypeOK' /\ RLOrder'
<1>1. rl_worker.pc = "loop" /\ rl.state = "READY" /\ rl_worker' = Waiting(rl_worker)
      /\ UNCHANGED <<rl, rl_adapter, rl_drive, rl_past>>
  BY DEF loop_end
<1>2. rl_worker' \in RLWorkerRecord /\ rl_worker'.pc = "wait" /\ ~rl_worker'.mutex
  BY <1>1 DEF RLTypeOK, RLWorkerRecord, Waiting, RLAssumption
<1>3. RLTypeOK'
  BY <1>1, <1>2 DEF RLTypeOK
<1> QED
  BY <1>1, <1>2, <1>3 DEF RLOrder, RLInterruptOnce, RLTransferExact, RLWorkerInStep,
     RLInterruptCause, RLTransferProgress

(* The worker ends the command in execution; a read or write ends with an   *)
(* error, or all its words are moved and DA is where they end.              *)
RLExact(sector, cmd) ==
  /\ rl_past.moved = cmd.wc
  /\ sector = cmd.sector + (cmd.wc + RLSectorWords - 1) \div RLSectorWords

LEMMA RLWorkerEnds ==
  ASSUME RLAssumption, RLTypeOK, RLOrder, RLTypeOK', rl_worker.mutex, rl_worker'.mutex, rl_worker'.pc = "loop",
         RLReady(rl', rl), UNCHANGED <<rl_adapter, rl_past>>, ~rl_past.late => rl.state # "READY",
         \A cmd \in rl_past.cmd : cmd.fn \in ReadWrite /\ ~rl_past.late =>
           rl'.errors # {} \/ RLExact(rl'.sector, cmd)
  PROVE  RLOrder'
<1>1. /\ rl'.state = "READY"
      /\ rl'.intrs = IF rl.ie /\ rl.state # "READY" THEN rl.intrs + 1 ELSE rl.intrs
      /\ rl'.ie = rl.ie /\ rl'.fn = rl.fn /\ rl'.line_INIT = rl.line_INIT
  BY DEF RLReady
<1>2. rl.intrs \in Nat
  BY DEF RLTypeOK, RLRecord
<1>3. RLWorkerInStep'
  BY <1>1 DEF RLOrder, RLWorkerInStep
<1>4. ~rl_past.late => rl_past.cmd # {} /\ rl.intrs = 0
  BY DEF RLOrder, RLWorkerInStep, RLInterruptCause
<1>5. RLInterruptOnce'
  <2>1. rl'.intrs > 0 => (\E cmd \in rl_past.cmd : cmd.ie) \/ rl_past.late
    BY <1>1, <1>2, <1>4 DEF RLOrder, RLInterruptCause
  <2>2. rl'.intrs <= 1 \/ rl_past.late
    BY <1>1, <1>2, <1>4
  <2>3. \A cmd \in rl_past.cmd : rl'.intrs > 0 <=> cmd.ie
    <3> SUFFICES ASSUME NEW cmd \in rl_past.cmd PROVE rl'.intrs > 0 <=> cmd.ie
      OBVIOUS
    <3>1. rl.ie = cmd.ie /\ (~cmd.ie => rl.intrs = 0)
      BY DEF RLOrder, RLInterruptCause
    <3>2. rl.state = "READY" => (rl.intrs > 0 <=> cmd.ie)
      BY DEF RLOrder, RLInterruptOnce
    <3>3. CASE cmd.ie
      BY <1>1, <1>2, <3>1, <3>2, <3>3
    <3>4. CASE ~cmd.ie
      BY <1>1, <1>2, <3>1, <3>2, <3>4
    <3> QED  BY <3>3, <3>4
  <2> QED  BY <2>1, <2>2, <2>3 DEF RLInterruptOnce
<1>6. RLInterruptCause'
  BY <1>1, <1>4 DEF RLOrder, RLInterruptCause
<1>7. RLTransferExact'
  BY DEF RLTransferExact, RLExact
<1>8. RLTransferProgress'
  BY <1>1 DEF RLTransferProgress
<1> QED  BY <1>3, <1>5, <1>6, <1>7, <1>8 DEF RLOrder

LEMMA RLOpiStep ==
  ASSUME RLAssumption, RLTypeOK, RLOrder, opi_wait
  PROVE  RLTypeOK' /\ RLOrder'
<1>1. /\ rl_worker.pc = "opi_wait" /\ rl' = operation_incomplete(rl, rl_drive)
      /\ rl_worker' = [rl_worker EXCEPT !.pc = "loop"]
      /\ UNCHANGED <<rl_adapter, rl_drive, rl_past>>
  BY DEF opi_wait
<1>2. rl' \in RLRecord /\ RLEnded(rl', rl) /\ RLReady(rl', rl) /\ rl'.errors # {}
  BY <1>1, RLIncomplete DEF RLTypeOK, RLEnded
<1>3. rl_worker' \in RLWorkerRecord /\ rl_worker'.pc = "loop" /\ rl_worker'.mutex = rl_worker.mutex
  BY <1>1 DEF RLTypeOK, RLWorkerRecord
<1>4. RLTypeOK'
  BY <1>1, <1>2, <1>3 DEF RLTypeOK
<1>5. rl_worker.mutex /\ (~rl_past.late => rl.state # "READY")
  BY <1>1 DEF RLOrder, RLWorkerInStep
<1> QED  BY <1>1, <1>2, <1>3, <1>4, <1>5, RLWorkerEnds

LEMMA RLLoopSeekStep ==
  ASSUME RLAssumption, RLTypeOK, RLOrder, loop_seek
  PROVE  RLTypeOK' /\ RLOrder'
<1> DEFINE r == state_seek(rl, rl_drive)
<1>1. /\ rl_worker.pc = "loop" /\ rl.state = "SEEK_INIT" /\ rl' = r.c /\ rl_drive' = r.d
      /\ UNCHANGED <<rl_worker, rl_adapter, rl_past>>
  BY DEF loop_seek
<1> HIDE DEF r
<1>2. rl' \in RLRecord /\ rl_drive' \in [RLUnits -> DriveRecord] /\ RLEnded(rl', rl) /\ RLReady(rl', rl)
  BY <1>1, RLSeekDone DEF RLTypeOK, RLEnded, r
<1>3. RLTypeOK'
  BY <1>1, <1>2 DEF RLTypeOK
<1>4. rl_worker.mutex /\ (~rl_past.late => rl.fn = "SEEK" /\ rl.state # "READY")
  BY <1>1 DEF RLOrder, RLWorkerInStep
<1>5. \A cmd \in rl_past.cmd : ~rl_past.late => cmd.fn \notin ReadWrite
  BY <1>4 DEF RLOrder, RLInterruptCause, ReadWrite
<1> QED  BY <1>1, <1>2, <1>3, <1>4, <1>5, RLWorkerEnds

LEMMA RLStartStep ==
  ASSUME RLAssumption, RLTypeOK, RLOrder, start
  PROVE  RLTypeOK' /\ RLOrder'
<1>1. /\ rl_worker.pc = "start" /\ rl_worker' = [rl_worker EXCEPT !.pc = "loop"]
      /\ UNCHANGED <<rl_adapter, rl_drive, rl_past>>
  BY DEF start
<1>2. /\ rl_worker' \in RLWorkerRecord /\ rl_worker'.pc = "loop"
      /\ rl_worker'.mutex = rl_worker.mutex
      /\ rl_worker'.wc = rl_worker.wc
  BY <1>1 DEF RLTypeOK, RLWorkerRecord
<1>3. rl_worker.mutex /\ (~rl_past.late => rl.state = "BUSY" /\ rl.fn \notin {"NOOP", "GET_STATUS"})
  BY <1>1 DEF RLOrder, RLWorkerInStep
<1>4. CASE rl.fn \in ReadWrite \cup {"SEEK"}
  <2> DEFINE next == IF rl.fn \in ReadWrite THEN "RW_INIT" ELSE "SEEK_INIT"
             c == [rl EXCEPT !.state = next]
  <2>1. rl' = WithStatus(c, rl_drive)
    BY <1>4 DEF start, ReadWrite
  <2>2. /\ c \in RLRecord /\ c.state = next
        /\ c.intrs = rl.intrs /\ c.fn = rl.fn /\ c.ie = rl.ie /\ c.wc = rl.wc
        /\ c.sector = rl.sector
        /\ c.line_INIT = rl.line_INIT
    BY DEF RLTypeOK, RLRecord, RLStates
  <2>3. next \in {"RW_INIT", "SEEK_INIT"} /\ (next = "SEEK_INIT" => rl.fn = "SEEK")
        /\ (next = "RW_INIT" => rl.fn \in ReadWrite)
    BY <1>4
  <2> HIDE DEF c, next
  <2>4. /\ rl' \in RLRecord /\ rl'.state = next
        /\ rl'.intrs = rl.intrs /\ rl'.fn = rl.fn /\ rl'.ie = rl.ie /\ rl'.wc = rl.wc
        /\ rl'.sector = rl.sector
        /\ rl'.line_INIT = rl.line_INIT
    BY <2>1, <2>2, RLWithStatus DEF RLTypeOK
  <2>5. RLTypeOK'
    BY <1>1, <1>2, <2>4 DEF RLTypeOK
  <2>6. RLWorkerInStep'
    BY <1>1, <1>2, <1>3, <2>3, <2>4 DEF RLOrder, RLWorkerInStep
  <2>7. RLInterruptOnce' /\ RLTransferExact' /\ RLInterruptCause'
    BY <1>1, <1>3, <2>3, <2>4 DEF RLOrder, RLInterruptOnce, RLTransferExact, RLInterruptCause
  <2>8. RLTransferProgress'
    BY <1>1, <1>2, <1>3, <2>3, <2>4 DEF RLOrder, RLTransferProgress
  <2> QED  BY <2>5, <2>6, <2>7, <2>8 DEF RLOrder
<1>5. CASE rl.fn = "READ_HEADER"
  <2>1. rl' = do_command_done(rl, rl_drive)
    BY <1>5 DEF start, ReadWrite
  <2>2. rl' \in RLRecord /\ RLEnded(rl', rl) /\ RLReady(rl', rl)
    BY <2>1, RLDone DEF RLTypeOK, RLEnded
  <2>3. RLTypeOK'
    BY <1>1, <1>2, <2>2 DEF RLTypeOK
  <2>4. \A cmd \in rl_past.cmd : cmd.fn \notin ReadWrite
    BY <1>5 DEF RLOrder, RLInterruptCause, ReadWrite
  <2> QED  BY <1>1, <1>2, <1>3, <2>2, <2>3, <2>4, RLWorkerEnds
<1>6. CASE rl.fn \notin ReadWrite \cup {"SEEK", "READ_HEADER"}
  <2>1. rl' = rl
    BY <1>6 DEF start
  <2>2. rl_past.late
    BY <1>3, <1>6 DEF RLTypeOK, RLRecord, RLFunctions
  <2>3. RLTypeOK'
    BY <1>1, <1>2, <2>1 DEF RLTypeOK
  <2> QED
    BY <1>1, <1>2, <1>3, <2>1, <2>2, <2>3 DEF RLOrder, RLInterruptOnce, RLTransferExact,
       RLWorkerInStep, RLInterruptCause, RLTransferProgress
<1> QED  BY <1>4, <1>5, <1>6

(* The number of sectors that k whole ones and n words of another fill.     *)
LEMMA RLSectorCount ==
  ASSUME NEW s \in Nat \ {0}, NEW k \in Nat, NEW n \in 1 .. s
  PROVE  (k * s + n + s - 1) \div s = k + 1
<1>1. k * s \in Nat /\ (k + 1) * s = k * s + s
  OBVIOUS
<1>2. \A a \in Int, q \in Int : q * s <= a /\ a < q * s + s => a \div s = q
  <2> SUFFICES ASSUME NEW a \in Int, NEW q \in Int, q * s <= a, a < q * s + s PROVE a \div s = q
    OBVIOUS
  <2> DEFINE d == a \div s
  <2>1. d \in Int /\ d * s <= a /\ a < d * s + s
    OBVIOUS
  <2> HIDE DEF d
  <2>2. CASE d >= q + 1
    <3>1. d * s >= (q + 1) * s
      BY <2>1, <2>2
    <3>2. (q + 1) * s = q * s + s
      OBVIOUS
    <3> QED  BY <2>1, <3>1, <3>2
  <2>3. CASE d + 1 <= q
    <3>1. (d + 1) * s <= q * s
      BY <2>1, <2>3
    <3>2. (d + 1) * s = d * s + s
      BY <2>1
    <3> QED  BY <2>1, <3>1, <3>2
  <2> QED  BY <2>1, <2>2, <2>3 DEF d
<1>3. k * s + n + s - 1 \in Int /\ (k + 1) * s <= k * s + n + s - 1 /\ k * s + n + s - 1 < (k + 1) * s + s
  BY <1>1
<1> QED  BY <1>2, <1>3

(* The worker, in a transfer.                                               *)
LEMMA RLEntryStep ==
  ASSUME RLAssumption, RLTypeOK, RLOrder, readwrite_entry
  PROVE  RLTypeOK' /\ RLOrder'
<1>0. rl_worker.pc = "loop" /\ rl.state \in {"RW_INIT", "RW_DISK"} /\ rl_worker.mutex
      /\ UNCHANGED <<rl, rl_adapter, rl_drive>>
  BY DEF readwrite_entry, RLOrder, RLWorkerInStep
<1>1. CASE rl.fn \notin ReadWrite
  <2>1. rl_past' = [rl_past EXCEPT !.failed = TRUE] /\ rl_worker' = [rl_worker EXCEPT !.pc = "aborted"]
    BY <1>1 DEF readwrite_entry
  <2>2. /\ rl_past' \in RLPastRecord
        /\ rl_past'.cmd = rl_past.cmd /\ rl_past'.moved = rl_past.moved
        /\ rl_past'.late = rl_past.late
    BY <2>1 DEF RLTypeOK, RLPastRecord
  <2>3. rl_worker' \in RLWorkerRecord /\ rl_worker'.pc = "aborted" /\ rl_worker'.mutex
    BY <1>0, <2>1 DEF RLTypeOK, RLWorkerRecord
  <2>4. RLTypeOK'
    BY <1>0, <2>2, <2>3 DEF RLTypeOK
  <2>5. rl_past.late
    BY <1>0, <1>1 DEF RLOrder, RLWorkerInStep
  <2> QED
    BY <1>0, <2>2, <2>3, <2>4, <2>5 DEF RLOrder, RLInterruptOnce, RLTransferExact,
       RLWorkerInStep, RLInterruptCause,
       RLTransferProgress
<1>2. CASE rl.fn \in ReadWrite
  <2> DEFINE p == IF ~rl_drive[rl.selected].ready THEN "opi_wait" ELSE rl.state
  <2>1. /\ rl_worker' = [rl_worker EXCEPT !.unit = rl.selected, !.wc = rl.wc, !.pc = p]
        /\ UNCHANGED rl_past
    BY <1>2 DEF readwrite_entry
  <2>2. p \in {"opi_wait", rl.state}
    OBVIOUS
  <2> HIDE DEF p
  <2>3. /\ rl_worker' \in RLWorkerRecord
        /\ rl_worker'.pc = p /\ rl_worker'.wc = rl.wc /\ rl_worker'.mutex
    BY <1>0, <2>1, <2>2 DEF RLTypeOK, RLWorkerRecord, RLRecord
  <2>4. RLTypeOK'
    BY <1>0, <2>1, <2>3 DEF RLTypeOK
  <2> QED
    BY <1>0, <2>1, <2>2, <2>3, <2>4 DEF RLOrder, RLInterruptOnce, RLTransferExact,
       RLWorkerInStep, RLInterruptCause,
       RLTransferProgress
<1> QED  BY <1>1, <1>2

(* What a command in a transfer has done so far.                            *)
RLSoFar(cmd) ==
  /\ cmd.wc \in Nat /\ cmd.sector \in Nat /\ RLSectorWords \in Nat \ {0}
  /\ rl.wc \in 0 .. cmd.wc /\ rl.sector - cmd.sector \in Nat
  /\ (rl.sector - cmd.sector) * RLSectorWords = cmd.wc - rl.wc
  /\ rl.state \in {"BUSY", "RW_INIT"} => rl.wc = cmd.wc
  /\ rl.state = "RW_DISK" => rl.wc > 0
  /\ rl_worker.pc \in {"RW_INIT", "RW_DISK", "dma", "dma_wait", "dma_done", "sector_end"} =>
       rl_worker.wc = rl.wc
  /\ rl_past.moved = cmd.wc - rl.wc + (IF rl_worker.pc = "sector_end" THEN dma_wordcount ELSE 0)

LEMMA RLProgress ==
  ASSUME RLAssumption, RLTypeOK, RLOrder, NEW cmd \in rl_past.cmd, cmd.fn \in ReadWrite, ~rl_past.late,
         rl.state # "READY"
  PROVE  RLSoFar(cmd)
<1>1. cmd \in RLCommands
  BY DEF RLTypeOK, RLPastRecord, OneCommand
<1>2. cmd.wc \in Nat /\ cmd.sector \in Nat
  BY <1>1 DEF RLAssumption
<1>3. RLSectorWords \in Nat \ {0} /\ rl.sector \in Nat
  BY DEF RLAssumption, RLTypeOK, RLRecord
<1> QED  BY <1>2, <1>3 DEF RLOrder, RLTransferProgress, RLSoFar

LEMMA RLRwInitStep ==
  ASSUME RLAssumption, RLTypeOK, RLOrder, rw_init
  PROVE  RLTypeOK' /\ RLOrder'
<1> DEFINE c == [rl EXCEPT !.errors = {}]
<1>0. /\ rl_worker.pc = "RW_INIT" /\ rl_worker.mutex
      /\ rl_worker' = [rl_worker EXCEPT !.pc = "loop"]
      /\ (~rl_past.late => rl.state = "RW_INIT" /\ rl.fn \in ReadWrite)
      /\ UNCHANGED <<rl_adapter, rl_drive, rl_past>>
  BY DEF rw_init, RLOrder, RLWorkerInStep
<1>1. /\ c \in RLRecord /\ c.state = rl.state /\ c.intrs = rl.intrs /\ c.fn = rl.fn
      /\ c.ie = rl.ie
      /\ c.wc = rl.wc /\ c.sector = rl.sector /\ c.line_INIT = rl.line_INIT /\ c.errors = {}
  BY DEF RLTypeOK, RLRecord
<1>2. rl' = IF rl_worker.wc = 0 THEN do_command_done(c, rl_drive)
            ELSE WithStatus([c EXCEPT !.state = "RW_DISK"], rl_drive)
  BY DEF rw_init
<1> HIDE DEF c
<1>3. /\ rl_worker' \in RLWorkerRecord /\ rl_worker'.pc = "loop" /\ rl_worker'.mutex
      /\ rl_worker'.wc = rl_worker.wc
  BY <1>0 DEF RLTypeOK, RLWorkerRecord
<1>4. CASE rl_worker.wc = 0
  <2>1. rl' \in RLRecord /\ RLEnded(rl', c)
    BY <1>1, <1>2, <1>4, RLDone DEF RLTypeOK
  <2>2. RLReady(rl', rl) /\ rl'.sector = rl.sector
    BY <1>1, <2>1 DEF RLEnded, RLReady
  <2>3. RLTypeOK'
    BY <1>0, <1>3, <2>1 DEF RLTypeOK
  <2>4. ASSUME NEW cmd \in rl_past.cmd, cmd.fn \in ReadWrite, ~rl_past.late PROVE RLExact(rl'.sector, cmd)
    <3>0. rl.state = "RW_INIT" /\ rl.state # "READY" /\ rl_worker.pc = "RW_INIT"
      BY <1>0, <2>4
    <3>1. /\ cmd.wc = 0 /\ cmd.sector \in Nat /\ RLSectorWords \in Nat \ {0}
          /\ rl.sector - cmd.sector \in Nat
          /\ (rl.sector - cmd.sector) * RLSectorWords = 0 /\ rl_past.moved = 0
      <4>1. RLSoFar(cmd)
        BY <2>4, <3>0, RLProgress
      <4>2. cmd.wc = 0 /\ rl.wc = 0 /\ cmd.sector \in Nat /\ RLSectorWords \in Nat \ {0}
            /\ rl.sector - cmd.sector \in Nat
        BY <1>4, <3>0, <4>1 DEF RLSoFar
      <4>3. (rl.sector - cmd.sector) * RLSectorWords = cmd.wc - rl.wc
        BY <4>1 DEF RLSoFar
      <4>4. rl_past.moved = cmd.wc - rl.wc + 0
        BY <3>0, <4>1 DEF RLSoFar
      <4> QED  BY <4>2, <4>3, <4>4
    <3>2. rl.sector \in Nat
      BY DEF RLTypeOK, RLRecord
    <3>3. rl.sector - cmd.sector = 0
      BY <3>1
    <3>4. (RLSectorWords - 1) \div RLSectorWords = 0
      BY <3>1
    <3> QED  BY <2>2, <3>1, <3>2, <3>3, <3>4 DEF RLExact
  <2>5. ~rl_past.late => rl.state # "READY"
    BY <1>0
  <2> QED  BY <1>0, <1>3, <2>2, <2>3, <2>4, <2>5, RLWorkerEnds
<1>5. CASE rl_worker.wc # 0
  <2> DEFINE x == [c EXCEPT !.state = "RW_DISK"]
  <2>1. /\ x \in RLRecord /\ x.state = "RW_DISK" /\ x.intrs = rl.intrs /\ x.fn = rl.fn
        /\ x.ie = rl.ie
        /\ x.wc = rl.wc /\ x.sector = rl.sector /\ x.line_INIT = rl.line_INIT
    BY <1>1 DEF RLRecord, RLStates
  <2>2. rl' = WithStatus(x, rl_drive)
    BY <1>2, <1>5
  <2> HIDE DEF x
  <2>3. /\ rl' \in RLRecord /\ rl'.state = "RW_DISK" /\ rl'.intrs = rl.intrs /\ rl'.fn = rl.fn
        /\ rl'.ie = rl.ie
        /\ rl'.wc = rl.wc /\ rl'.sector = rl.sector /\ rl'.line_INIT = rl.line_INIT
    BY <2>1, <2>2, RLWithStatus DEF RLTypeOK
  <2>4. RLTypeOK'
    BY <1>0, <1>3, <2>3 DEF RLTypeOK
  <2>5. RLWorkerInStep'
    BY <1>0, <1>3, <2>3 DEF RLOrder, RLWorkerInStep
  <2>6. RLInterruptOnce' /\ RLTransferExact' /\ RLInterruptCause'
    BY <1>0, <2>3 DEF RLOrder, RLInterruptOnce, RLTransferExact, RLInterruptCause
  <2>7. rl.wc \in Nat
    BY DEF RLTypeOK, RLRecord
  <2>8. RLTransferProgress'
    BY <1>0, <1>3, <1>5, <2>3, <2>7 DEF RLOrder, RLTransferProgress
  <2> QED  BY <2>4, <2>5, <2>6, <2>8 DEF RLOrder
<1> QED  BY <1>4, <1>5

LEMMA RLRwDiskStep ==
  ASSUME RLAssumption, RLTypeOK, RLOrder, rw_disk
  PROVE  RLTypeOK' /\ RLOrder'
<1> DEFINE found == rl.fn = "READ_DATA_WITHOUT_HEADER_CHECK" \/ header_on_track(rl_drive[rl_worker.unit])
           p == IF found THEN "dma" ELSE "opi_wait"
<1>1. /\ rl_worker.pc = "RW_DISK" /\ rl_worker.mutex
      /\ UNCHANGED <<rl_adapter, rl_drive, rl_past>>
      /\ rl' = (IF found THEN rl ELSE [rl EXCEPT !.errors = @ \cup {"HNF"}])
      /\ rl_worker' = [rl_worker EXCEPT !.pc = p]
      /\ (~rl_past.late => rl.state = "RW_DISK" /\ rl.fn \in ReadWrite)
  BY DEF rw_disk, RLOrder, RLWorkerInStep
<1>2. p \in {"dma", "opi_wait"}
  OBVIOUS
<1> HIDE DEF found, p
<1>3. /\ rl' \in RLRecord /\ rl'.state = rl.state /\ rl'.intrs = rl.intrs /\ rl'.fn = rl.fn
      /\ rl'.ie = rl.ie
      /\ rl'.wc = rl.wc /\ rl'.sector = rl.sector /\ rl'.line_INIT = rl.line_INIT
  BY <1>1 DEF RLTypeOK, RLRecord
<1>4. /\ rl_worker' \in RLWorkerRecord /\ rl_worker'.pc = p /\ rl_worker'.mutex
      /\ rl_worker'.wc = rl_worker.wc
  BY <1>1, <1>2 DEF RLTypeOK, RLWorkerRecord
<1>5. RLTypeOK'
  BY <1>1, <1>3, <1>4 DEF RLTypeOK
<1>6. RLWorkerInStep'
  BY <1>1, <1>2, <1>3, <1>4 DEF RLOrder, RLWorkerInStep
<1>7. (~rl_past.late => rl'.state # "READY") => RLTransferExact'
  BY <1>1 DEF RLTransferExact
<1>8. RLTransferExact' /\ RLInterruptOnce' /\ RLInterruptCause'
  BY <1>1, <1>3, <1>7 DEF RLOrder, RLInterruptOnce, RLInterruptCause
<1>9. RLTransferProgress'
  BY <1>1, <1>2, <1>3, <1>4 DEF RLOrder, RLTransferProgress
<1> QED  BY <1>5, <1>6, <1>8, <1>9 DEF RLOrder

LEMMA RLDmaCallStep ==
  ASSUME RLAssumption, RLTypeOK, RLOrder, dma
  PROVE  RLTypeOK' /\ RLOrder'
<1> DEFINE p == IF rl.line_INIT THEN "dma_done" ELSE "dma_wait"
           s == rl.line_INIT /\ rl_worker.success
           t == ~rl.line_INIT
<1>1. /\ rl_worker.pc = "dma" /\ rl_worker.mutex
      /\ UNCHANGED <<rl, rl_adapter, rl_drive, rl_past>>
      /\ rl_worker' = [rl_worker EXCEPT !.pc = p, !.success = s, !.transferred = t]
  BY DEF dma, RLOrder, RLWorkerInStep
<1>2. p \in {"dma_done", "dma_wait"} /\ s \in BOOLEAN /\ t \in BOOLEAN
  OBVIOUS
<1> HIDE DEF p, s, t
<1>3. /\ rl_worker' \in RLWorkerRecord /\ rl_worker'.pc = p /\ rl_worker'.mutex
      /\ rl_worker'.wc = rl_worker.wc
  BY <1>1, <1>2 DEF RLTypeOK, RLWorkerRecord
<1>4. RLTypeOK'
  BY <1>1, <1>3 DEF RLTypeOK
<1> QED
  BY <1>1, <1>2, <1>3, <1>4 DEF RLOrder, RLInterruptOnce, RLTransferExact, RLWorkerInStep,
     RLInterruptCause,
     RLTransferProgress

LEMMA RLAfterDmaStep ==
  ASSUME RLAssumption, RLTypeOK, RLOrder, after_dma
  PROVE  RLTypeOK' /\ RLOrder'
<1>0. /\ rl_worker.pc = "dma_done" /\ rl_worker.mutex /\ UNCHANGED <<rl_adapter, rl_drive>>
      /\ (~rl_past.late => rl.state = "RW_DISK" /\ rl.fn \in ReadWrite)
  BY DEF after_dma, RLOrder, RLWorkerInStep
<1>1. CASE ~rl_worker.success
  <2>1. /\ rl' = [rl EXCEPT !.errors = @ \cup {"NXM"}]
        /\ rl_worker' = [rl_worker EXCEPT !.pc = "opi_wait"]
        /\ UNCHANGED rl_past
    BY <1>1 DEF after_dma
  <2>2. /\ rl' \in RLRecord /\ rl'.state = rl.state /\ rl'.intrs = rl.intrs /\ rl'.fn = rl.fn
        /\ rl'.ie = rl.ie
        /\ rl'.wc = rl.wc /\ rl'.sector = rl.sector /\ rl'.line_INIT = rl.line_INIT
    BY <2>1 DEF RLTypeOK, RLRecord
  <2>3. /\ rl_worker' \in RLWorkerRecord /\ rl_worker'.pc = "opi_wait" /\ rl_worker'.mutex
        /\ rl_worker'.wc = rl_worker.wc
    BY <1>0, <2>1 DEF RLTypeOK, RLWorkerRecord
  <2>4. RLTypeOK'
    BY <1>0, <2>1, <2>2, <2>3 DEF RLTypeOK
  <2>5. RLWorkerInStep' /\ RLTransferProgress'
    BY <1>0, <2>1, <2>2, <2>3 DEF RLOrder, RLWorkerInStep, RLTransferProgress
  <2>6. ~rl_past.late => rl'.state # "READY"
    BY <1>0, <2>2
  <2>7. RLTransferExact'
    BY <2>1, <2>6 DEF RLTransferExact
  <2>8. RLInterruptOnce' /\ RLInterruptCause'
    BY <2>1, <2>2 DEF RLOrder, RLInterruptOnce, RLInterruptCause
  <2> QED  BY <2>4, <2>5, <2>7, <2>8 DEF RLOrder
<1>2. CASE rl_worker.success
  <2> DEFINE m == rl_past.moved + dma_wordcount
             z == rl_past.zeroed \/ /\ rl.fn = "WRITE_DATA" /\ ~rl_worker.transferred
                                    /\ rl_drive[rl_worker.unit].state = "lock_on"
  <2>1. /\ UNCHANGED rl /\ rl_worker' = [rl_worker EXCEPT !.pc = "sector_end"]
        /\ rl_past' = [rl_past EXCEPT !.moved = m, !.zeroed = z]
    BY <1>2 DEF after_dma
  <2>2. dma_wordcount \in Nat
    BY DEF dma_wordcount, RLTypeOK, RLWorkerRecord, RLAssumption
  <2>3. m \in Nat
    BY <2>2 DEF RLTypeOK, RLPastRecord
  <2>4. z \in BOOLEAN
    <3>1. CASE rl_past.zeroed
      BY <3>1
    <3>2. CASE ~rl_past.zeroed
      BY <3>2
    <3> QED  BY <3>1, <3>2
  <2> HIDE DEF z, m
  <2>5. rl_past' \in RLPastRecord /\ rl_past'.moved = m /\ rl_past'.cmd = rl_past.cmd /\ rl_past'.late = rl_past.late
    BY <2>1, <2>3, <2>4 DEF RLTypeOK, RLPastRecord
  <2>6. /\ rl_worker' \in RLWorkerRecord /\ rl_worker'.pc = "sector_end" /\ rl_worker'.mutex
        /\ rl_worker'.wc = rl_worker.wc
    BY <1>0, <2>1 DEF RLTypeOK, RLWorkerRecord
  <2>7. RLTypeOK'
    BY <1>0, <2>1, <2>5, <2>6 DEF RLTypeOK
  <2>8. RLWorkerInStep'
    BY <1>0, <2>1, <2>5, <2>6 DEF RLOrder, RLWorkerInStep
  <2>9. RLTransferExact'
    BY <1>0, <2>1, <2>5 DEF RLTransferExact
  <2>10. RLInterruptOnce' /\ RLInterruptCause'
    BY <2>1, <2>5 DEF RLOrder, RLInterruptOnce, RLInterruptCause
  <2>11. dma_wordcount' = dma_wordcount
    BY <2>6 DEF dma_wordcount
  <2>12. RLTransferProgress'
    <3>1. \A cmd \in rl_past.cmd : cmd.fn \in ReadWrite /\ ~rl_past.late =>
            /\ rl.wc \in 0 .. cmd.wc /\ rl.sector >= cmd.sector
            /\ (rl.sector - cmd.sector) * RLSectorWords = cmd.wc - rl.wc
            /\ rl.wc > 0 /\ rl_worker.wc = rl.wc
            /\ rl_past.moved = cmd.wc - rl.wc
      <4> TAKE cmd \in rl_past.cmd
      <4> HAVE cmd.fn \in ReadWrite /\ ~rl_past.late
      <4>1. cmd \in RLCommands
        BY DEF RLTypeOK, RLPastRecord, OneCommand
      <4>2. cmd.wc \in Nat
        BY <4>1 DEF RLAssumption
      <4>3. rl_past.moved = cmd.wc - rl.wc + 0
        BY <1>0 DEF RLOrder, RLTransferProgress
      <4>4. rl_past.moved = cmd.wc - rl.wc
        BY <4>2, <4>3 DEF RLTypeOK, RLRecord
      <4> QED  BY <1>0, <4>4 DEF RLOrder, RLTransferProgress
    <3>2. \A cmd \in rl_past.cmd : cmd.fn \in ReadWrite /\ ~rl_past.late => m = cmd.wc - rl.wc + dma_wordcount
      BY <3>1 DEF m
    <3> QED  BY <1>0, <2>1, <2>5, <2>6, <2>11, <3>1, <3>2 DEF RLTransferProgress
  <2> QED  BY <2>7, <2>8, <2>9, <2>10, <2>12 DEF RLOrder
<1> QED  BY <1>1, <1>2

LEMMA RLSectorEndStep ==
  ASSUME RLAssumption, RLTypeOK, RLOrder, sector_end
  PROVE  RLTypeOK' /\ RLOrder'
<1> DEFINE wc == IF rl_worker.wc >= RLSectorWords THEN rl_worker.wc - RLSectorWords ELSE 0
           n == rl.sector + 1
           c == [rl EXCEPT !.sector = n, !.wc = wc]
<1>0. /\ rl_worker.pc = "sector_end" /\ rl_worker.mutex
      /\ rl_worker' = [rl_worker EXCEPT !.pc = "loop"]
      /\ (~rl_past.late => rl.state = "RW_DISK" /\ rl.fn \in ReadWrite)
      /\ UNCHANGED <<rl_adapter, rl_drive, rl_past>>
  BY DEF sector_end, RLOrder, RLWorkerInStep
<1>1. rl' = IF wc = 0 THEN do_command_done(c, rl_drive) ELSE WithStatus([c EXCEPT !.state = "RW_DISK"], rl_drive)
  BY DEF sector_end
<1>2. rl.sector \in Nat /\ rl_worker.wc \in Nat /\ RLSectorWords \in Nat \ {0} /\ rl.wc \in Nat
  BY DEF RLTypeOK, RLRecord, RLWorkerRecord, RLAssumption
<1>3. n \in Nat /\ wc \in Nat
  BY <1>2
<1>4. ASSUME NEW cmd \in rl_past.cmd, cmd.fn \in ReadWrite, ~rl_past.late
      PROVE  /\ cmd.wc \in Nat /\ cmd.sector \in Nat /\ rl.sector - cmd.sector \in Nat
             /\ (rl.sector - cmd.sector) * RLSectorWords = cmd.wc - rl.wc
             /\ rl.wc \in 1 .. cmd.wc /\ rl_worker.wc = rl.wc
             /\ rl_past.moved = cmd.wc - rl.wc + dma_wordcount
  <2>1. rl.state = "RW_DISK" /\ rl.state # "READY" /\ rl_worker.pc = "sector_end"
    BY <1>0, <1>4
  <2>2. RLSoFar(cmd)
    BY <1>4, <2>1, RLProgress
  <2>3. rl_past.moved = cmd.wc - rl.wc + dma_wordcount
    BY <2>1, <2>2 DEF RLSoFar
  <2>4. /\ cmd.wc \in Nat /\ cmd.sector \in Nat /\ rl.sector - cmd.sector \in Nat
        /\ rl.wc \in 1 .. cmd.wc /\ rl_worker.wc = rl.wc
    BY <2>1, <2>2 DEF RLSoFar
  <2>5. (rl.sector - cmd.sector) * RLSectorWords = cmd.wc - rl.wc
    BY <2>2 DEF RLSoFar
  <2> QED  BY <2>3, <2>4, <2>5
<1>5. /\ rl_worker' \in RLWorkerRecord /\ rl_worker'.pc = "loop" /\ rl_worker'.mutex
      /\ rl_worker'.wc = rl_worker.wc
  BY <1>0 DEF RLTypeOK, RLWorkerRecord
<1> HIDE DEF n, wc
<1>6. /\ c \in RLRecord /\ c.state = rl.state /\ c.intrs = rl.intrs /\ c.fn = rl.fn
      /\ c.ie = rl.ie
      /\ c.wc = wc /\ c.sector = n /\ c.line_INIT = rl.line_INIT
  BY <1>3 DEF RLTypeOK, RLRecord
<1> HIDE DEF c
<1>7. CASE wc = 0
  <2>1. rl' \in RLRecord /\ RLEnded(rl', c)
    BY <1>1, <1>6, <1>7, RLDone DEF RLTypeOK
  <2>2. RLReady(rl', rl) /\ rl'.sector = n
    BY <1>6, <2>1 DEF RLEnded, RLReady
  <2>3. RLTypeOK'
    BY <1>0, <1>5, <2>1 DEF RLTypeOK
  <2>4. ASSUME NEW cmd \in rl_past.cmd, cmd.fn \in ReadWrite, ~rl_past.late PROVE RLExact(rl'.sector, cmd)
    <3> DEFINE k == rl.sector - cmd.sector
    <3>1. /\ cmd.wc \in Nat /\ cmd.sector \in Nat /\ k \in Nat
          /\ k * RLSectorWords = cmd.wc - rl.wc
          /\ rl.wc \in 1 .. cmd.wc /\ rl_worker.wc = rl.wc
          /\ rl_past.moved = cmd.wc - rl.wc + dma_wordcount
      BY <1>4, <2>4
    <3>2. n = cmd.sector + (k + 1)
      BY <1>2, <3>1 DEF n
    <3> HIDE DEF k
    <3>3. rl.wc \in 1 .. RLSectorWords
      BY <1>2, <1>7, <3>1 DEF wc
    <3>4. (k * RLSectorWords + rl.wc + RLSectorWords - 1) \div RLSectorWords = k + 1
      BY <1>2, <3>1, <3>3, RLSectorCount
    <3>5. k * RLSectorWords + rl.wc + RLSectorWords - 1 = cmd.wc + RLSectorWords - 1
      BY <1>2, <3>1
    <3>6. dma_wordcount = rl.wc
      BY <1>2, <3>1, <3>3 DEF dma_wordcount
    <3>7. rl_past.moved = cmd.wc
      BY <1>2, <3>1, <3>6
    <3> QED  BY <2>2, <3>2, <3>4, <3>5, <3>7 DEF RLExact
  <2>5. ~rl_past.late => rl.state # "READY"
    BY <1>0
  <2> QED  BY <1>0, <1>5, <2>2, <2>3, <2>4, <2>5, RLWorkerEnds
<1>8. CASE wc # 0
  <2> DEFINE x == [c EXCEPT !.state = "RW_DISK"]
  <2>1. /\ x \in RLRecord /\ x.state = "RW_DISK" /\ x.intrs = rl.intrs /\ x.fn = rl.fn
        /\ x.ie = rl.ie
        /\ x.wc = wc /\ x.sector = n /\ x.line_INIT = rl.line_INIT
    BY <1>6 DEF RLRecord, RLStates
  <2>2. rl' = WithStatus(x, rl_drive)
    BY <1>1, <1>8
  <2> HIDE DEF x
  <2>3. /\ rl' \in RLRecord /\ rl'.state = "RW_DISK" /\ rl'.intrs = rl.intrs /\ rl'.fn = rl.fn
        /\ rl'.ie = rl.ie
        /\ rl'.wc = wc /\ rl'.sector = n /\ rl'.line_INIT = rl.line_INIT
    BY <2>1, <2>2, RLWithStatus DEF RLTypeOK
  <2>4. RLTypeOK'
    BY <1>0, <1>5, <2>3 DEF RLTypeOK
  <2>5. RLWorkerInStep'
    BY <1>0, <1>5, <2>3 DEF RLOrder, RLWorkerInStep
  <2>6. RLInterruptOnce' /\ RLTransferExact' /\ RLInterruptCause'
    BY <1>0, <2>3 DEF RLOrder, RLInterruptOnce, RLTransferExact, RLInterruptCause
  <2>7. ASSUME NEW cmd \in rl_past.cmd, cmd.fn \in ReadWrite, ~rl_past.late
        PROVE  /\ wc \in 1 .. cmd.wc /\ n >= cmd.sector
               /\ (n - cmd.sector) * RLSectorWords = cmd.wc - wc
               /\ rl_past.moved = cmd.wc - wc
    <3> DEFINE k == rl.sector - cmd.sector
    <3>1. /\ cmd.wc \in Nat /\ cmd.sector \in Nat /\ k \in Nat
          /\ k * RLSectorWords = cmd.wc - rl.wc
          /\ rl.wc \in 1 .. cmd.wc /\ rl_worker.wc = rl.wc
          /\ rl_past.moved = cmd.wc - rl.wc + dma_wordcount
      BY <1>4, <2>7
    <3>2. n - cmd.sector = k + 1 /\ n >= cmd.sector
      BY <1>2, <3>1 DEF n
    <3> HIDE DEF k
    <3>3. (k + 1) * RLSectorWords = k * RLSectorWords + RLSectorWords
      BY <1>2, <3>1
    <3>4. wc = rl.wc - RLSectorWords /\ dma_wordcount = RLSectorWords /\ wc > 0
      BY <1>2, <1>8, <3>1 DEF wc, dma_wordcount
    <3>5. wc \in 1 .. cmd.wc
      BY <1>2, <3>1, <3>4
    <3>6. rl_past.moved = cmd.wc - wc /\ k * RLSectorWords + RLSectorWords = cmd.wc - wc
      BY <1>2, <3>1, <3>4
    <3> QED  BY <3>2, <3>3, <3>5, <3>6
  <2>8. RLTransferProgress'
    <3> SUFFICES ASSUME NEW cmd \in rl_past.cmd, cmd.fn \in ReadWrite, ~rl_past.late
                 PROVE  /\ rl'.wc \in 0 .. cmd.wc /\ rl'.sector >= cmd.sector
                        /\ (rl'.sector - cmd.sector) * RLSectorWords = cmd.wc - rl'.wc
                        /\ rl'.wc > 0 /\ rl_past.moved = cmd.wc - rl'.wc + 0
      BY <1>0, <1>5, <2>3 DEF RLTransferProgress
    <3>1. cmd.wc \in Nat
      BY <1>4
    <3> QED  BY <1>3, <2>3, <2>7, <3>1
  <2> QED  BY <2>4, <2>5, <2>6, <2>8 DEF RLOrder
<1> QED  BY <1>7, <1>8

LEMMA RLWorkerStep ==
  ASSUME RLAssumption, RLTypeOK, RLOrder, WorkerStep
  PROVE  RLTypeOK' /\ RLOrder'
<1>1. CASE wakeup
  BY <1>1, RLWakeupStep
<1>2. CASE seek_wait \/ ready_wait
  BY <1>2, RLWaitSteps
<1>3. CASE start
  BY <1>3, RLStartStep
<1>4. CASE loop_end
  BY <1>4, RLLoopEndStep
<1>5. CASE loop_seek
  BY <1>5, RLLoopSeekStep
<1>6. CASE readwrite_entry
  BY <1>6, RLEntryStep
<1>7. CASE rw_init
  BY <1>7, RLRwInitStep
<1>8. CASE rw_disk
  BY <1>8, RLRwDiskStep
<1>9. CASE dma
  BY <1>9, RLDmaCallStep
<1>10. CASE after_dma
  BY <1>10, RLAfterDmaStep
<1>11. CASE sector_end
  BY <1>11, RLSectorEndStep
<1>12. CASE opi_wait
  BY <1>12, RLOpiStep
<1> QED
  BY <1>1, <1>2, <1>3, <1>4, <1>5, <1>6, <1>7, <1>8, <1>9, <1>10, <1>11, <1>12 DEF WorkerStep

LEMMA RLStartsExact ==
  ASSUME RLAssumption, RLStart
  PROVE  RLTypeOK /\ RLOrder
<1>1. /\ 0 \in RLUnits /\ 0 \in 0 .. RLCylinders - 1
  BY DEF RLAssumption
<1>2. PICK e \in BOOLEAN : rl = [RLControllerInit EXCEPT !.enabled = e]
  BY DEF RLStart
<1>3. rl \in RLRecord /\ rl.state = "READY" /\ rl.intrs = 0
  <2>1. [crdy |-> TRUE, drdy |-> FALSE] \in RLStatusWord
    BY DEF RLStatusWord
  <2>2. RLControllerInit \in RLRecord
    BY <1>1, <2>1 DEF RLControllerInit, RLRecord, RLStates, RLFunctions
  <2>3. RLControllerInit.state = "READY" /\ RLControllerInit.intrs = 0
    BY DEF RLControllerInit
  <2> QED  BY <1>2, <2>2, <2>3 DEF RLRecord
<1>4. rl_worker \in RLWorkerRecord /\ rl_worker.pc = "wait" /\ ~rl_worker.mutex
  BY <1>1 DEF RLStart, RLWorkerRecord
<1>5. rl_past \in RLPastRecord /\ rl_past.cmd = {}
  BY DEF RLStart, RLPastRecord, OneCommand
<1>6. \A u \in RLUnits : DriveInit(u) \in DriveRecord
  <2> TAKE u \in RLUnits
  <2> DEFINE b == u \in RLPowered
  <2>1. b \in BOOLEAN
    OBVIOUS
  <2>2. DriveInit(u) = [state |-> "power_off", status |-> "power_off", power_switch |-> b, runstop |-> FALSE,
                        ready |-> FALSE, cyl |-> 0, dest |-> 0, at |-> "loop", tmp |-> {}]
    BY DEF DriveInit
  <2> HIDE DEF b
  <2> QED  BY <1>1, <2>1, <2>2 DEF DriveRecord, DriveStates
<1>7. rl_drive \in [RLUnits -> DriveRecord] /\ rl_adapter = {}
  BY <1>6 DEF RLStart
<1>8. RLTypeOK
  BY <1>3, <1>4, <1>5, <1>7 DEF RLTypeOK, OneCommand
<1>9. RLOrder
  BY <1>3, <1>4, <1>5, <1>7 DEF RLOrder, RLInterruptOnce, RLTransferExact, RLWorkerInStep,
     RLInterruptCause,
     RLTransferProgress
<1> QED  BY <1>8, <1>9

LEMMA RLCommandStep ==
  ASSUME RLAssumption, RLTypeOK, RLOrder, [RLNext]_rlvars
  PROVE  RLTypeOK' /\ RLOrder'
<1>1. ASSUME NEW cmd \in RLCommands, on_after_register_access(cmd) PROVE RLTypeOK' /\ RLOrder'
  BY <1>1, RLAccessStep
<1>2. CASE mutex_acquired
  BY <1>2, RLMutexStep
<1>3. CASE DmaComplete
  BY <1>3, RLDmaStep
<1>4. CASE InitAsserted
  BY <1>4, RLInitStep
<1>5. CASE reset
  BY <1>5, RLResetStep
<1>6. CASE WorkerStep
  BY <1>6, RLWorkerStep
<1>7. ASSUME NEW u \in RLUnits, DriveStep(u) PROVE RLTypeOK' /\ RLOrder'
  BY <1>7, RLDriveStep
<1>8. ASSUME NEW switch \in RLSwitches, Operate(switch) PROVE RLTypeOK' /\ RLOrder'
  BY <1>8, RLOperateStep
<1>9. CASE UNCHANGED rlvars
  <2>1. UNCHANGED <<rl, rl_worker, rl_adapter, rl_drive, rl_past>>
    BY <1>9 DEF rlvars
  <2>2. RLTypeOK'
    BY <2>1 DEF RLTypeOK
  <2> QED  BY <2>1, <2>2, RLAsideOrder DEF RLAside
<1> QED
  BY <1>1, <1>2, <1>3, <1>4, <1>5, <1>6, <1>7, <1>8, <1>9 DEF RLNext

(* RL11: every command ends with one interrupt if it asked for one and with *)
(* none otherwise, and a read or write that ends without an error has moved *)
(* all its words and left DA behind the last sector, for any number of      *)
(* drives, any geometry, any commands, and any interleaving of the two      *)
(* threads, the drives, the operator and INIT.                              *)
THEOREM RLCommandIsExact == RLSpec => []RLCommandExact
<1>1. RLStart => RLCommandExact
  BY RLAssumption, RLStartsExact DEF RLCommandExact, RLOrder
<1>2. RLCommandExact /\ [RLNext]_rlvars => RLCommandExact'
  <2> SUFFICES ASSUME RLCommandExact, [RLNext]_rlvars PROVE RLCommandExact'
    OBVIOUS
  <2>1. RLTypeOK /\ RLOrder
    BY DEF RLCommandExact, RLOrder
  <2>2. RLTypeOK' /\ RLOrder'
    BY <2>1, RLAssumption, RLCommandStep
  <2> QED  BY <2>2 DEF RLCommandExact, RLOrder
<1> QED  BY <1>1, <1>2, PTL DEF RLSpec

-----------------------------------------------------------------------------
(* The RK11.                                                                *)

(* Registers, drives and history after the helpers of the controller.       *)
LEMMA RKRegisters ==
  ASSUME RKAssumption, NEW c \in RKRecord
  PROVE  /\ rk_interrupt(c) \in RKRecord
         /\ \A e \in BOOLEAN : rk_error(c, e) \in RKRecord
         /\ reset_controller(c) \in RKRecord
         /\ \A ide \in BOOLEAN : [c EXCEPT !.ide = ide] \in RKRecord
         /\ \A cmd \in RKCommands : rk_accept(c, cmd) \in RKRecord
         /\ increment_RKDA(c) \in RKRecord
<1>1. rk_interrupt(c) \in RKRecord
  <2> DEFINE b == c.intr \/ c.ide
  <2>1. b \in BOOLEAN
    OBVIOUS
  <2> HIDE DEF b
  <2>2. [c EXCEPT !.intr = b] \in RKRecord
    BY <2>1 DEF RKRecord
  <2> QED  BY <2>2 DEF b, rk_interrupt
<1>2. \A e \in BOOLEAN : rk_error(c, e) \in RKRecord
  <2> SUFFICES ASSUME NEW e \in BOOLEAN PROVE rk_error(c, e) \in RKRecord
    OBVIOUS
  <2> DEFINE b == c.err \/ e
  <2>1. b \in BOOLEAN
    OBVIOUS
  <2> HIDE DEF b
  <2>2. [c EXCEPT !.err = b] \in RKRecord
    BY <2>1 DEF RKRecord
  <2> QED  BY <2>2 DEF b, rk_error
<1>3. reset_controller(c) \in RKRecord
  <2>1. 0 \in RKUnits /\ 0 \in 0 .. RKWordModulus - 1 /\ 0 \in Nat
    BY DEF RKAssumption
  <2>2. [c EXCEPT !.rdy = TRUE, !.ide = FALSE, !.err = FALSE] \in RKRecord
    BY DEF RKRecord
  <2>3. \A x \in RKRecord : [x EXCEPT !.unit = 0, !.cyl = 0, !.sector = 0, !.wc = 0] \in RKRecord
    BY <2>1 DEF RKRecord
  <2>4. reset_controller(c) = [[c EXCEPT !.rdy = TRUE, !.ide = FALSE, !.err = FALSE]
                                  EXCEPT !.unit = 0, !.cyl = 0, !.sector = 0, !.wc = 0]
    BY DEF reset_controller, RKRecord
  <2> QED  BY <2>2, <2>3, <2>4
<1>4. \A ide \in BOOLEAN : [c EXCEPT !.ide = ide] \in RKRecord
  BY DEF RKRecord
<1>5. \A cmd \in RKCommands : rk_accept(c, cmd) \in RKRecord
  BY DEF rk_accept, RKRecord
<1>6. increment_RKDA(c) \in RKRecord
  <2> DEFINE s == IF c.sector + 1 >= RKSectors THEN 0 ELSE c.sector + 1
             y == IF c.sector + 1 >= RKSectors THEN c.cyl + 1 ELSE c.cyl
  <2>1. s \in Nat /\ y \in Nat
    BY DEF RKRecord
  <2> HIDE DEF s, y
  <2>2. [c EXCEPT !.sector = s, !.cyl = y] \in RKRecord
    BY <2>1 DEF RKRecord
  <2> QED  BY <2>2 DEF s, y, increment_RKDA
<1> QED  BY <1>1, <1>2, <1>3, <1>4, <1>5, <1>6

LEMMA RKSeekType ==
  ASSUME NEW d \in RKDriveRecord, NEW cylinder \in Nat
  PROVE  rk05_seek(d, cylinder) \in RKDriveRecord /\ rk05_seek(d, cylinder).dry = d.dry
<1> DEFINE way == IF d.cyl > cylinder THEN d.cyl - cylinder ELSE cylinder - d.cyl
<1>1. way + 1 \in Int
  BY DEF RKDriveRecord
<1>2. rk05_seek(d, cylinder) = [d EXCEPT !.seek_count = way + 1, !.cyl = cylinder, !.rwsrdy = FALSE]
  BY DEF rk05_seek
<1> HIDE DEF way
<1> QED  BY <1>1, <1>2 DEF RKDriveRecord

LEMMA RKHistory ==
  ASSUME NEW p \in RKPastRecord, NEW cmd \in SUBSET RKAccepted, NEW moved \in Int
  PROVE  /\ [p EXCEPT !.moved = moved, !.cmd = cmd] \in RKPastRecord
         /\ [p EXCEPT !.disturbed = TRUE, !.cmd = cmd, !.moved = moved] \in RKPastRecord
         /\ [p EXCEPT !.cmd = cmd] \in RKPastRecord
BY DEF RKPastRecord

LEMMA RKDisturbed ==
  ASSUME NEW p \in RKPastRecord, NEW b \in BOOLEAN
  PROVE  /\ Disturbed(p, b) \in RKPastRecord
         /\ p.disturbed \/ b => Disturbed(p, b).disturbed /\ Disturbed(p, b).cmd = {}
         /\ ~(p.disturbed \/ b) => Disturbed(p, b) = p
         /\ Disturbed(p, b).misplaced = p.misplaced /\ Disturbed(p, b).failed = p.failed
<1>1. CASE p.disturbed \/ b
  <2>1. Disturbed(p, b) = [p EXCEPT !.disturbed = TRUE, !.cmd = {}, !.moved = 0]
    BY <1>1 DEF Disturbed
  <2>2. /\ Disturbed(p, b).disturbed /\ Disturbed(p, b).cmd = {}
        /\ Disturbed(p, b).misplaced = p.misplaced /\ Disturbed(p, b).failed = p.failed
    BY <2>1 DEF RKPastRecord
  <2>3. Disturbed(p, b) \in RKPastRecord
    <3>1. {} \in SUBSET RKAccepted /\ 0 \in Int
      OBVIOUS
    <3>2. [p EXCEPT !.disturbed = TRUE, !.cmd = {}, !.moved = 0] \in RKPastRecord
      BY <3>1 DEF RKPastRecord
    <3> QED  BY <2>1, <3>2
  <2> QED  BY <1>1, <2>2, <2>3
<1>2. CASE ~(p.disturbed \/ b)
  BY <1>2 DEF Disturbed
<1> QED  BY <1>1, <1>2

(* The history of a command that begins.                                    *)
RKBegins(cmd) ==
  [fn |-> cmd.fn, ide |-> cmd.ide, unit |-> rk.unit, cyl |-> rk.cyl, sector |-> rk.sector, wc |-> rk.wc]

LEMMA RKBegunType ==
  ASSUME RKTypeOK, NEW cmd \in [go : BOOLEAN, fn : RKFunctions, ide : BOOLEAN],
         cmd.fn \notin {"Control_Reset", "Write_Lock"}
  PROVE  /\ Begun(cmd) \in RKPastRecord
         /\ RKBegins(cmd) \in RKAccepted
         /\ rk_past.disturbed \/ rk_busy => Begun(cmd).disturbed /\ Begun(cmd).cmd = {}
         /\ ~(rk_past.disturbed \/ rk_busy) =>
              /\ Begun(cmd).cmd = {RKBegins(cmd)} /\ Begun(cmd).moved = 0
              /\ ~Begun(cmd).disturbed
         /\ Begun(cmd).misplaced = rk_past.misplaced /\ Begun(cmd).failed = rk_past.failed
<1> DEFINE p == [rk_past EXCEPT !.moved = 0, !.cmd = {RKBegins(cmd)}]
<1>1. RKBegins(cmd) \in RKAccepted
  BY DEF RKBegins, RKAccepted, RKTypeOK, RKRecord, RKFunctions, RKTransfers
<1>2. /\ p \in RKPastRecord /\ p.cmd = {RKBegins(cmd)} /\ p.moved = 0
      /\ p.disturbed = rk_past.disturbed /\ p.misplaced = rk_past.misplaced
      /\ p.failed = rk_past.failed
  <2>1. rk_past \in RKPastRecord /\ {RKBegins(cmd)} \in SUBSET RKAccepted /\ 0 \in Int
    BY <1>1 DEF RKTypeOK
  <2>2. p \in RKPastRecord
    BY <2>1, RKHistory
  <2> QED  BY <2>1, <2>2 DEF RKPastRecord
<1>3. rk_busy \in BOOLEAN
  BY DEF rk_busy
<1>4. Begun(cmd) = Disturbed(p, rk_busy)
  BY DEF Begun, RKBegins
<1> HIDE DEF p
<1>5. rk_past.disturbed \in BOOLEAN
  BY DEF RKTypeOK, RKPastRecord
<1>6. /\ Disturbed(p, rk_busy) \in RKPastRecord
      /\ p.disturbed \/ rk_busy => Disturbed(p, rk_busy).disturbed /\ Disturbed(p, rk_busy).cmd = {}
      /\ ~(p.disturbed \/ rk_busy) => Disturbed(p, rk_busy) = p
      /\ Disturbed(p, rk_busy).misplaced = p.misplaced /\ Disturbed(p, rk_busy).failed = p.failed
  BY <1>2, <1>3, RKDisturbed
<1>7. CASE rk_past.disturbed \/ rk_busy
  BY <1>1, <1>2, <1>4, <1>6, <1>7
<1>8. CASE ~(rk_past.disturbed \/ rk_busy)
  BY <1>1, <1>2, <1>4, <1>6, <1>8
<1> QED  BY <1>7, <1>8

LEMMA RKCountType ==
  ASSUME RKAssumption, RKTypeOK
  PROVE  /\ request_count \in Int
         /\ rk_worker.count > 0 => request_count \in 1 .. RKSectorWords /\ request_count <= rk_worker.count
         /\ current_count(rk.wc) \in Int
BY DEF request_count, current_count, RKTypeOK, RKRecord, RKWorkerRecord, RKAssumption

(* Every step leads to a state of the types.                                *)
LEMMA RKTypeStep ==
  ASSUME RKAssumption, RKTypeOK, [RKNext]_rkvars
  PROVE  RKTypeOK'
<1>1. /\ rk \in RKRecord /\ rk_worker \in RKWorkerRecord
      /\ rk_drive \in [RKUnits -> RKDriveRecord] /\ rk_past \in RKPastRecord
  BY DEF RKTypeOK
<1>2. \A p \in RKPastRecord, n \in Nat : [p EXCEPT !.resets = n, !.cmd = {}] \in RKPastRecord
  BY DEF RKPastRecord
<1>3. rk_past.resets + 1 \in Nat /\ rk_busy \in BOOLEAN
  BY <1>1 DEF RKPastRecord, rk_busy
<1>4. \A pc \in {"Worker_Idle", "Worker_Execute", "sector", "Worker_Finish"} \cup RKAtSector :
        [rk_worker EXCEPT !.pc = pc] \in RKWorkerRecord
  BY <1>1 DEF RKWorkerRecord
<1>5. \A pc \in {"Worker_Idle", "Worker_Execute", "sector", "Worker_Finish"} \cup RKAtSector,
         b \in BOOLEAN : [rk_worker EXCEPT !.pc = pc, !.success = b] \in RKWorkerRecord
  BY <1>1 DEF RKWorkerRecord
<1>6. ASSUME NEW cmd \in RKCommands, RKCS(cmd) PROVE RKTypeOK'
  <2>1. cmd \in [go : BOOLEAN, fn : RKFunctions, ide : BOOLEAN]
    BY DEF RKAssumption
  <2>2. [rk EXCEPT !.ide = cmd.ide] \in RKRecord
    BY <1>1, <2>1, RKRegisters
  <2>3. ASSUME rkcs_nogo(cmd) PROVE RKTypeOK'
    <3>1. rk' \in RKRecord
      BY <2>2, <2>3, RKRegisters DEF rkcs_nogo
    <3>2. rk_past' \in RKPastRecord
      <4>1. {[p EXCEPT !.ide = cmd.ide] : p \in rk_past.cmd} \subseteq RKAccepted
        BY <1>1, <2>1 DEF RKPastRecord, RKAccepted
      <4> QED  BY <1>1, <2>3, <4>1 DEF rkcs_nogo, RKPastRecord
    <3> QED  BY <1>1, <2>3, <3>1, <3>2 DEF rkcs_nogo, RKTypeOK
  <2>4. ASSUME rkcs_control_reset(cmd) PROVE RKTypeOK'
    <3>1. rk' \in RKRecord
      BY <1>1, <2>4, RKRegisters DEF rkcs_control_reset
    <3>2. rk_past' \in RKPastRecord
      BY <1>1, <1>2, <1>3, <2>4, RKDisturbed DEF rkcs_control_reset
    <3> QED  BY <1>1, <2>4, <3>1, <3>2 DEF rkcs_control_reset, RKTypeOK
  <2>5. ASSUME rkcs_write_lock(cmd) PROVE RKTypeOK'
    BY <1>1, <1>3, <2>2, <2>5, RKDisturbed DEF rkcs_write_lock, RKTypeOK
  <2>6. ASSUME rkcs_command(cmd) PROVE RKTypeOK'
    <3>1. CASE rk_ready(rk)
      <4>1. rk' \in RKRecord
        BY <2>2, <2>6, <3>1, RKRegisters DEF rkcs_command
      <4>2. rk_past' \in RKPastRecord
        BY <2>1, <2>6, <3>1, RKBegunType DEF rkcs_command
      <4> QED  BY <1>1, <2>6, <4>1, <4>2 DEF rkcs_command, RKTypeOK
    <3>2. CASE ~rk_ready(rk)
      <4>1. rk' \in RKRecord
        BY <2>2, <2>6, <3>2, RKRegisters DEF rkcs_command
      <4>2. rk_past' \in RKPastRecord
        <5> DEFINE b == rk_past.failed \/ ~rk.rdy
        <5>1. b \in BOOLEAN
          OBVIOUS
        <5>2. rk_past' = [rk_past EXCEPT !.failed = b]
          BY <2>6, <3>2 DEF rkcs_command
        <5> HIDE DEF b
        <5> QED  BY <1>1, <5>1, <5>2 DEF RKPastRecord
      <4> QED  BY <1>1, <2>6, <4>1, <4>2 DEF rkcs_command, RKTypeOK
    <3> QED  BY <3>1, <3>2
  <2> QED  BY <1>6, <2>3, <2>4, <2>5, <2>6 DEF RKCS
<1>7. ASSUME NEW a \in RKAddresses, RKDA(a) PROVE RKTypeOK'
  <2>1. a \in [unit : RKUnits, cyl : Nat, sector : Nat, wc : 0 .. RKWordModulus - 1]
    BY DEF RKAssumption
  <2>2. rk' \in RKRecord
    BY <1>1, <1>7, <2>1 DEF RKDA, RKRecord
  <2>3. rk_past' \in RKPastRecord
    BY <1>1, <1>7 DEF RKDA, RKPastRecord
  <2> QED  BY <1>1, <1>7, <2>2, <2>3 DEF RKDA, RKTypeOK
<1>8. rk_cancelled(rk_worker) \in RKWorkerRecord
  BY <1>1, <1>5 DEF rk_cancelled, RKAtSector
<1>9. ASSUME rk_init_asserted PROVE RKTypeOK'
  <2>1. rk' \in RKRecord
    <3>1. reset_controller(rk) \in RKRecord
      BY <1>1, RKRegisters
    <3> QED  BY <1>9, <3>1 DEF rk_init_asserted, RKRecord
  <2>2. rk_drive' \in [RKUnits -> RKDriveRecord]
    BY <1>1, <1>9, RKSeekType DEF rk_init_asserted
  <2>3. rk_past' \in RKPastRecord
    BY <1>1, <1>2, <1>3, <1>9, RKDisturbed DEF rk_init_asserted
  <2> QED  BY <1>8, <1>9, <2>1, <2>2, <2>3 DEF rk_init_asserted, RKTypeOK
<1>10. ASSUME rk_init_negated PROVE RKTypeOK'
  <2>1. rk' \in RKRecord
    BY <1>1, <1>10 DEF rk_init_negated, RKRecord
  <2> QED  BY <1>1, <1>8, <1>10, <2>1 DEF rk_init_negated, RKTypeOK
<1>11. ASSUME rk_dma_complete PROVE RKTypeOK'
  <2>1. PICK b \in BOOLEAN : rk_worker' = [rk_worker EXCEPT !.pc = "dma_done", !.success = b]
    BY <1>11 DEF rk_dma_complete
  <2>2. rk_worker' \in RKWorkerRecord
    BY <1>5, <2>1 DEF RKAtSector
  <2> QED  BY <1>1, <1>11, <2>2 DEF rk_dma_complete, RKTypeOK
<1>12. ASSUME Worker_Idle PROVE RKTypeOK'
  <2>1. PICK cmd \in rk.new_command :
          rk_worker' = [rk_worker EXCEPT !.fn = cmd.fn, !.do_interrupt = TRUE, !.pc = "Worker_Execute"]
    BY <1>12 DEF Worker_Idle
  <2>2. cmd.fn \in RKFunctions
    BY <1>1 DEF RKRecord, RKAssumption
  <2>3. rk_worker' \in RKWorkerRecord
    BY <1>1, <2>1, <2>2 DEF RKWorkerRecord
  <2>4. rk' \in RKRecord
    BY <1>1, <1>12 DEF Worker_Idle, RKRecord
  <2> QED  BY <1>1, <1>12, <2>3, <2>4 DEF Worker_Idle, RKTypeOK
<1>13. ASSUME Worker_Execute PROVE RKTypeOK'
  <2> DEFINE seeks == IF rk_worker.fn = "Seek" THEN validate_seek(rk) ELSE rk_ready(rk)
  <2>1. seeks \in BOOLEAN
    BY <1>1 DEF validate_seek, rk_ready, RKDriveRecord, RKRecord
  <2>2. CASE /\ rk_worker' = [rk_worker EXCEPT !.count = current_count(rk.wc), !.pc = "sector"]
             /\ UNCHANGED <<rk, rk_drive>>
    <3>1. current_count(rk.wc) \in Int
      BY RKCountType
    <3>2. rk_worker' \in RKWorkerRecord
      BY <1>1, <2>2, <3>1 DEF RKWorkerRecord
    <3> QED  BY <1>1, <1>13, <2>2, <3>2 DEF Worker_Execute, RKTypeOK
  <2>3. CASE /\ rk_worker' = [rk_worker EXCEPT !.pc = "Worker_Finish", !.do_interrupt = seeks]
             /\ rk' = IF rk_worker.fn = "Seek" THEN rk_error(rk, ~seeks) ELSE rk
             /\ rk_drive' = IF seeks
                            THEN [rk_drive EXCEPT ![rk.unit] =
                                    rk05_seek(@, IF rk_worker.fn = "Seek" THEN rk.cyl ELSE 0)]
                            ELSE rk_drive
    <3> HIDE DEF seeks
    <3>1. rk_worker' \in RKWorkerRecord
      BY <1>1, <2>1, <2>3 DEF RKWorkerRecord
    <3>2. rk' \in RKRecord
      BY <1>1, <2>1, <2>3, RKRegisters
    <3>3. rk_drive' \in [RKUnits -> RKDriveRecord]
      <4>1. (IF rk_worker.fn = "Seek" THEN rk.cyl ELSE 0) \in Nat /\ rk.unit \in RKUnits
        BY <1>1 DEF RKRecord
      <4> QED  BY <1>1, <2>3, <4>1, RKSeekType
    <3> QED  BY <1>1, <1>13, <3>1, <3>2, <3>3 DEF Worker_Execute, RKTypeOK
  <2> QED  BY <1>13, <2>2, <2>3 DEF Worker_Execute
<1>14. ASSUME rk_sector PROVE RKTypeOK'
  <2> DEFINE e == ~(rk_worker.count <= 0 \/ (rk.new_command # {} /\ rk_worker.fn # "Read_Check"))
                    /\ ~validate_seek(rk)
  <2>1. rk' = rk_error(rk, e) /\ e \in BOOLEAN
    BY <1>14 DEF rk_sector
  <2> HIDE DEF e
  <2>2. rk' \in RKRecord
    BY <1>1, <2>1, RKRegisters
  <2>3. rk_worker' \in RKWorkerRecord
    BY <1>4, <1>14 DEF rk_sector, RKAtSector
  <2> QED  BY <1>1, <1>14, <2>2, <2>3 DEF rk_sector, RKTypeOK
<1>15. rk_disk_io \in [RKUnits -> RKDriveRecord]
  BY <1>1 DEF rk_disk_io, RKDriveRecord, RKRecord
<1>16. ASSUME rk_read PROVE RKTypeOK'
  <2>1. rk_worker' \in RKWorkerRecord
    BY <1>1, <1>16 DEF rk_read, RKWorkerRecord, RKRecord, RKAtSector
  <2> QED  BY <1>1, <1>15, <1>16, <2>1 DEF rk_read, RKTypeOK
<1>17. ASSUME rk_io_end PROVE RKTypeOK'
  <2>1. rk_worker' \in RKWorkerRecord
    BY <1>4, <1>17 DEF rk_io_end, RKAtSector
  <2>2. rk_drive' \in [RKUnits -> RKDriveRecord]
    BY <1>1, <1>17 DEF rk_io_end, RKDriveRecord
  <2> QED  BY <1>1, <1>17, <2>1, <2>2 DEF rk_io_end, RKTypeOK
<1>18. ASSUME rk_dma PROVE RKTypeOK'
  <2> DEFINE b == rk.line_INIT /\ rk_worker.success
  <2>1. b \in BOOLEAN
    OBVIOUS
  <2>2. rk_worker' = [rk_worker EXCEPT !.pc = IF rk.line_INIT THEN "dma_done" ELSE "dma_wait", !.success = b]
    BY <1>18 DEF rk_dma
  <2> HIDE DEF b
  <2>3. rk_worker' \in RKWorkerRecord
    BY <1>5, <2>1, <2>2 DEF RKAtSector
  <2> QED  BY <1>1, <1>18, <2>3 DEF rk_dma, RKTypeOK
<1>19. ASSUME rk_dma_done PROVE RKTypeOK'
  <2>1. \A b \in BOOLEAN : [rk_worker EXCEPT !.pc = "next", !.abort = b] \in RKWorkerRecord
    BY <1>1 DEF RKWorkerRecord, RKAtSector
  <2>2. request_count \in Int /\ rk_past.moved \in Int
    BY <1>1, RKCountType DEF RKPastRecord
  <2>3. CASE rk' = rk_error(rk, TRUE) /\ rk_worker' = [rk_worker EXCEPT !.pc = "next", !.abort = TRUE]
             /\ UNCHANGED <<rk_drive, rk_past>>
    BY <1>1, <2>1, <2>3, RKRegisters DEF RKTypeOK
  <2>4. CASE /\ rk_worker' = [rk_worker EXCEPT !.pc = "write_end", !.unit = rk.unit]
             /\ rk_drive' = rk_disk_io
             /\ rk_past' = Disturbed([rk_past EXCEPT !.moved = @ + request_count,
                                                     !.misplaced = @ \/ ~InPlace], FALSE)
             /\ UNCHANGED rk
    <3>1. rk_worker' \in RKWorkerRecord
      BY <1>1, <2>4 DEF RKWorkerRecord, RKRecord, RKAtSector
    <3> DEFINE b == rk_past.misplaced \/ ~InPlace
               m == rk_past.moved + request_count
    <3>2. b \in BOOLEAN /\ m \in Int
      BY <2>2
    <3>3. rk_past' = Disturbed([rk_past EXCEPT !.moved = m, !.misplaced = b], FALSE)
      BY <2>4
    <3> HIDE DEF b, m
    <3>4. [rk_past EXCEPT !.moved = m, !.misplaced = b] \in RKPastRecord
      BY <1>1, <3>2 DEF RKPastRecord
    <3>5. rk_past' \in RKPastRecord
      BY <3>3, <3>4, RKDisturbed
    <3> QED  BY <1>1, <1>15, <2>4, <3>1, <3>5 DEF RKTypeOK
  <2>5. CASE /\ rk_past' = Disturbed([rk_past EXCEPT !.moved = @ + request_count], FALSE)
             /\ \E differs \in {FALSE, rk_worker.fn = "Write_Check"} : \E stop \in {FALSE, differs} :
                  /\ rk' = rk_error(rk, differs)
                  /\ rk_worker' = [rk_worker EXCEPT !.pc = "next", !.abort = stop]
             /\ UNCHANGED rk_drive
    <3>1. PICK differs \in BOOLEAN, stop \in BOOLEAN :
            /\ rk' = rk_error(rk, differs)
            /\ rk_worker' = [rk_worker EXCEPT !.pc = "next", !.abort = stop]
      BY <2>5
    <3>2. rk' \in RKRecord /\ rk_worker' \in RKWorkerRecord
      BY <1>1, <2>1, <3>1, RKRegisters
    <3> DEFINE m == rk_past.moved + request_count
    <3>3. m \in Int
      BY <2>2
    <3>4. rk_past' = Disturbed([rk_past EXCEPT !.moved = m], FALSE)
      BY <2>5
    <3> HIDE DEF m
    <3>5. [rk_past EXCEPT !.moved = m] \in RKPastRecord
      BY <1>1, <3>3 DEF RKPastRecord
    <3>6. rk_past' \in RKPastRecord
      BY <3>4, <3>5, RKDisturbed
    <3> QED  BY <1>1, <2>5, <3>2, <3>6 DEF RKTypeOK
  <2> QED  BY <1>19, <2>3, <2>4, <2>5 DEF rk_dma_done
<1>20. ASSUME rk_next PROVE RKTypeOK'
  <2> DEFINE count == rk_worker.count - (IF rk_worker.fn = "Read_Check" THEN RKSectorWords ELSE request_count)
             wc == (-count) % RKWordModulus
  <2>1. count \in Int
    BY <1>1, RKCountType DEF RKWorkerRecord, RKAssumption
  <2>2. wc \in 0 .. RKWordModulus - 1
    <3> HIDE DEF count
    <3>1. -count \in Int /\ RKWordModulus \in Nat \ {0}
      BY <2>1 DEF RKAssumption
    <3> QED  BY <3>1, Remainder
  <2>3. rk' = increment_RKDA([rk EXCEPT !.wc = wc])
    BY <1>20 DEF rk_next
  <2>4. rk_worker' = [rk_worker EXCEPT !.count = count, !.abort = FALSE,
                        !.pc = IF rk_worker.abort THEN "Worker_Finish" ELSE "sector"]
    BY <1>20 DEF rk_next
  <2> HIDE DEF count, wc
  <2>5. [rk EXCEPT !.wc = wc] \in RKRecord
    BY <1>1, <2>2 DEF RKRecord
  <2>6. rk' \in RKRecord
    BY <2>3, <2>5, RKRegisters
  <2>7. rk_worker' \in RKWorkerRecord
    BY <1>1, <2>1, <2>4 DEF RKWorkerRecord
  <2> QED  BY <1>1, <1>20, <2>6, <2>7 DEF rk_next, RKTypeOK
<1>21. ASSUME Worker_Finish PROVE RKTypeOK'
  <2>1. [rk EXCEPT !.rdy = TRUE] \in RKRecord
    BY <1>1 DEF RKRecord
  <2>2. rk' \in RKRecord
    BY <1>21, <2>1, RKRegisters DEF Worker_Finish
  <2>3. rk_worker' \in RKWorkerRecord
    <3>1. "Read" \in RKFunctions /\ 0 \in RKUnits /\ 0 \in Int
      BY DEF RKFunctions, RKTransfers, RKAssumption
    <3> QED  BY <1>1, <1>21, <3>1 DEF Worker_Finish, RKWorkerRecord
  <2> QED  BY <1>1, <1>21, <2>2, <2>3 DEF Worker_Finish, RKTypeOK
<1>22. ASSUME NEW u \in RKUnits, rk05_worker(u) PROVE RKTypeOK'
  <2> DEFINE count == rk_drive[u].seek_count - RKSeekStep
             b == rk_drive[u].rwsrdy \/ count < 0
  <2>1. count \in Int /\ b \in BOOLEAN
    BY <1>1 DEF RKDriveRecord, RKAssumption
  <2>2. rk_drive' = [rk_drive EXCEPT ![u].seek_count = count, ![u].rwsrdy = b]
    BY <1>22 DEF rk05_worker
  <2>3. rk' \in RKRecord
    BY <1>1, <1>22, RKRegisters DEF rk05_worker
  <2> HIDE DEF count, b
  <2>4. rk_drive' \in [RKUnits -> RKDriveRecord]
    BY <1>1, <2>1, <2>2 DEF RKDriveRecord
  <2> QED  BY <1>1, <1>22, <2>3, <2>4 DEF rk05_worker, RKTypeOK
<1>23. ASSUME UNCHANGED rkvars PROVE RKTypeOK'
  BY <1>1, <1>23 DEF rkvars, RKTypeOK
<1> QED
  BY <1>6, <1>7, <1>9, <1>10, <1>11, <1>12, <1>13, <1>14, <1>16, <1>17, <1>18, <1>19, <1>20,
     <1>21, <1>22, <1>23 DEF RKNext, RKWorkerStep

-----------------------------------------------------------------------------
RKOrder ==
  /\ RKReadyMeansIdle /\ RKTransferExact /\ RKDoneInterrupts
  /\ RKOneCommand /\ RKWorkerInStep /\ RKTransferProgress

(* What a step leaves alone that has nothing to do with the command.        *)
RKAside ==
  /\ rk_past' = rk_past
  /\ \A u \in RKUnits : rk_drive'[u].dry = rk_drive[u].dry
  /\ rk'.rdy = rk.rdy /\ rk'.ide = rk.ide /\ rk'.err = rk.err /\ rk'.wc = rk.wc
  /\ RKPosition' = RKPosition /\ rk'.unit = rk.unit /\ rk'.cyl = rk.cyl /\ rk'.sector = rk.sector
  /\ rk'.new_command = rk.new_command /\ (rk.intr => rk'.intr)
  /\ rk_worker'.fn = rk_worker.fn /\ rk_worker'.count = rk_worker.count
  /\ rk_worker'.do_interrupt = rk_worker.do_interrupt /\ rk_worker'.abort = rk_worker.abort
  /\ \/ rk_worker'.pc = rk_worker.pc
     \/ /\ rk_worker.pc \in RKAtSector \ {"next"} /\ rk_worker'.pc \in RKAtSector \ {"write_end"}
        /\ rk_worker.pc = "write_end" <=> rk_worker'.pc = "next"

LEMMA RKAsideStep ==
  ASSUME RKAssumption, RKTypeOK, RKOrder, RKAside
  PROVE  RKOrder'
<1>1. request_count' = request_count /\ rk_past' = rk_past
  BY DEF request_count, RKAside
<1>2. RKReadyMeansIdle'
  BY DEF RKOrder, RKReadyMeansIdle, RKAside, RKAtSector
<1>3. RKTransferExact'
  BY DEF RKOrder, RKTransferExact, RKAside
<1>4. RKDoneInterrupts'
  BY DEF RKOrder, RKDoneInterrupts, RKAside
<1>5. RKOneCommand'
  BY DEF RKOrder, RKOneCommand, RKAside, RKAtSector
<1>6. RKWorkerInStep'
  <2> SUFFICES ASSUME NEW p \in rk_past.cmd, ~rk.rdy, ~rk_past.failed
               PROVE  /\ rk'.ide = p.ide /\ rk'.unit = p.unit /\ p.unit \in RKOnline /\ rk_busy'
                      /\ \A c \in rk'.new_command : c.fn = p.fn
                      /\ rk_worker'.pc # "Worker_Idle" => rk_worker'.fn = p.fn
                      /\ rk_worker'.pc \in RKAtSector \cup {"sector"} => p.fn \in RKTransfers \cup {"Read_Check"}
                      /\ rk_worker'.pc \in {"Worker_Idle", "Worker_Execute"} =>
                           rk'.cyl = p.cyl /\ rk'.sector = p.sector /\ rk'.wc = p.wc /\ rk_past'.moved = 0
                      /\ rk_worker'.pc \notin {"Worker_Idle", "Worker_Finish"} => rk_worker'.do_interrupt
                      /\ rk_worker'.pc = "Worker_Finish" => rk_worker'.do_interrupt \/ (p.fn = "Seek" /\ rk'.err)
    BY DEF RKWorkerInStep, RKAside
  <2>1. /\ rk.ide = p.ide /\ rk.unit = p.unit /\ p.unit \in RKOnline /\ rk_busy
        /\ \A c \in rk.new_command : c.fn = p.fn
        /\ rk_worker.pc # "Worker_Idle" => rk_worker.fn = p.fn
        /\ rk_worker.pc \in RKAtSector \cup {"sector"} => p.fn \in RKTransfers \cup {"Read_Check"}
        /\ rk_worker.pc \in {"Worker_Idle", "Worker_Execute"} =>
             rk.cyl = p.cyl /\ rk.sector = p.sector /\ rk.wc = p.wc /\ rk_past.moved = 0
        /\ rk_worker.pc \notin {"Worker_Idle", "Worker_Finish"} => rk_worker.do_interrupt
        /\ rk_worker.pc = "Worker_Finish" => rk_worker.do_interrupt \/ (p.fn = "Seek" /\ rk.err)
    BY DEF RKOrder, RKWorkerInStep
  <2>2. CASE rk_worker'.pc = rk_worker.pc
    BY <2>1, <2>2 DEF RKAside, rk_busy
  <2>3. CASE rk_worker.pc \in RKAtSector \ {"next"} /\ rk_worker'.pc \in RKAtSector \ {"write_end"}
    BY <2>1, <2>3 DEF RKAside, rk_busy, RKAtSector
  <2> QED  BY <2>2, <2>3 DEF RKAside
<1>7. RKTransferProgress'
  <2> SUFFICES ASSUME NEW p \in rk_past.cmd, p.fn \in RKTransfers, ~rk.rdy, ~rk_past.failed,
                      rk_worker'.pc \notin {"Worker_Idle", "Worker_Execute"}
               PROVE  IF Requested(p.wc) < RKWordModulus \div 2
                      THEN \E n \in 0 .. Requested(p.wc) : RKTransferAt(p, n)'
                      ELSE rk_worker'.pc \in {"sector", "Worker_Finish"} /\ rk_worker'.count <= 0
    BY <1>1 DEF RKTransferProgress, RKAside
  <2>1. rk_worker.pc \notin {"Worker_Idle", "Worker_Execute"}
    BY DEF RKAside, RKAtSector
  <2>2. CASE Requested(p.wc) < RKWordModulus \div 2
    <3>1. PICK n \in 0 .. Requested(p.wc) : RKTransferAt(p, n)
      BY <2>1, <2>2 DEF RKOrder, RKTransferProgress
    <3>2. RKTransferAt(p, n)'
      <4>1. CASE rk_worker'.pc = rk_worker.pc
        BY <1>1, <3>1, <4>1 DEF RKTransferAt, RKAside
      <4>2. CASE /\ rk_worker.pc \in RKAtSector \ {"next"}
                 /\ rk_worker'.pc \in RKAtSector \ {"write_end"}
                 /\ rk_worker.pc = "write_end" <=> rk_worker'.pc = "next"
        BY <1>1, <3>1, <4>2 DEF RKTransferAt, RKAside, RKAtSector
      <4> QED  BY <4>1, <4>2 DEF RKAside
    <3> QED  BY <2>2, <3>2
  <2>3. CASE ~(Requested(p.wc) < RKWordModulus \div 2)
    <3>1. rk_worker.pc \in {"sector", "Worker_Finish"} /\ rk_worker.count <= 0
      BY <2>1, <2>3 DEF RKOrder, RKTransferProgress
    <3> QED  BY <2>3, <3>1 DEF RKAside, RKAtSector
  <2> QED  BY <2>2, <2>3
<1> QED  BY <1>2, <1>3, <1>4, <1>5, <1>6, <1>7 DEF RKOrder

(* A step after which no command is recorded.                               *)
LEMMA RKCutOff ==
  ASSUME rk_past'.cmd = {}, RKReadyMeansIdle', RKOneCommand'
  PROVE  RKOrder'
BY DEF RKOrder, RKTransferExact, RKDoneInterrupts, RKWorkerInStep, RKTransferProgress

(* While a command is recorded, it is the only one.                         *)
LEMMA RKAlone ==
  ASSUME RKOrder, rk_past.cmd # {}
  PROVE  /\ ~rk_past.disturbed
         /\ rk.rdy => rk_worker.pc = "Worker_Idle" /\ rk.new_command = {}
         /\ rk.new_command # {} => rk_worker.pc = "Worker_Idle"
         /\ ~rk.rdy /\ ~rk_past.failed => rk_busy
BY DEF RKOrder, RKOneCommand, RKReadyMeansIdle, RKWorkerInStep

-----------------------------------------------------------------------------
(* The program and INIT.                                                    *)
LEMMA RKNoGoStep ==
  ASSUME RKAssumption, RKTypeOK, RKOrder, NEW cmd \in RKCommands, rkcs_nogo(cmd)
  PROVE  RKOrder'
<1>1. /\ rk'.rdy = rk.rdy /\ rk'.err = rk.err /\ rk'.unit = rk.unit /\ rk'.cyl = rk.cyl
      /\ rk'.sector = rk.sector /\ rk'.wc = rk.wc /\ rk'.new_command = rk.new_command
      /\ rk'.ide = cmd.ide /\ (rk.intr => rk'.intr) /\ (rk.rdy /\ cmd.ide => rk'.intr)
      /\ rk_worker' = rk_worker /\ rk_drive' = rk_drive /\ cmd.ide \in BOOLEAN
  BY DEF rkcs_nogo, rk_interrupt, RKTypeOK, RKRecord, RKAssumption
<1>2. /\ rk_past'.moved = rk_past.moved /\ rk_past'.misplaced = rk_past.misplaced
      /\ rk_past'.disturbed = rk_past.disturbed /\ rk_past'.failed = rk_past.failed
      /\ rk_past'.cmd = {[p EXCEPT !.ide = cmd.ide] : p \in rk_past.cmd}
  BY DEF rkcs_nogo, RKTypeOK, RKPastRecord
<1>3. RKPosition' = RKPosition /\ request_count' = request_count /\ rk_busy' = rk_busy
  BY <1>1 DEF RKPosition, request_count, rk_busy
<1>4. ASSUME NEW q \in rk_past'.cmd
      PROVE  \E p \in rk_past.cmd :
               /\ q.ide = cmd.ide /\ q.fn = p.fn /\ q.unit = p.unit /\ q.cyl = p.cyl
               /\ q.sector = p.sector /\ q.wc = p.wc
               /\ \A n : RKSectorAt(q, n) = RKSectorAt(p, n)
  <2>1. PICK p \in rk_past.cmd : q = [p EXCEPT !.ide = cmd.ide]
    BY <1>2
  <2>2. p \in RKAccepted
    BY DEF RKTypeOK, RKPastRecord
  <2>3. /\ q.ide = cmd.ide /\ q.fn = p.fn /\ q.unit = p.unit /\ q.cyl = p.cyl
        /\ q.sector = p.sector /\ q.wc = p.wc
    BY <2>1, <2>2 DEF RKAccepted
  <2>4. \A n : RKSectorAt(q, n) = RKSectorAt(p, n)
    BY <2>3 DEF RKSectorAt
  <2> QED  BY <2>3, <2>4
<1>5. RKReadyMeansIdle' /\ RKOneCommand'
  BY <1>1, <1>2 DEF RKOrder, RKReadyMeansIdle, RKOneCommand
<1>6. RKTransferExact'
  <2> SUFFICES ASSUME NEW q \in rk_past'.cmd, rk.rdy, ~rk.err, q.fn \in RKTransfers,
                      Requested(q.wc) < RKWordModulus \div 2
               PROVE  /\ rk_past.moved = Requested(q.wc) /\ rk.wc = 0 /\ ~rk_past.misplaced
                      /\ RKSectorAt(q, RKSectorsOf(Requested(q.wc))) = RKPosition
    BY <1>1, <1>2, <1>3 DEF RKTransferExact
  <2>1. PICK p \in rk_past.cmd :
          q.fn = p.fn /\ q.wc = p.wc /\ \A n : RKSectorAt(q, n) = RKSectorAt(p, n)
    BY <1>4
  <2> QED  BY <2>1 DEF RKOrder, RKTransferExact
<1>7. RKDoneInterrupts'
  BY <1>1, <1>4 DEF RKDoneInterrupts
<1>8. RKWorkerInStep'
  <2> SUFFICES ASSUME NEW q \in rk_past'.cmd, ~rk.rdy, ~rk_past.failed
               PROVE  /\ rk'.ide = q.ide /\ rk.unit = q.unit /\ q.unit \in RKOnline /\ rk_busy
                      /\ \A c \in rk.new_command : c.fn = q.fn
                      /\ rk_worker.pc # "Worker_Idle" => rk_worker.fn = q.fn
                      /\ rk_worker.pc \in RKAtSector \cup {"sector"} => q.fn \in RKTransfers \cup {"Read_Check"}
                      /\ rk_worker.pc \in {"Worker_Idle", "Worker_Execute"} =>
                           rk.cyl = q.cyl /\ rk.sector = q.sector /\ rk.wc = q.wc /\ rk_past.moved = 0
                      /\ rk_worker.pc \notin {"Worker_Idle", "Worker_Finish"} => rk_worker.do_interrupt
                      /\ rk_worker.pc = "Worker_Finish" => rk_worker.do_interrupt \/ (q.fn = "Seek" /\ rk.err)
    BY <1>1, <1>2, <1>3 DEF RKWorkerInStep
  <2>1. PICK p \in rk_past.cmd :
          /\ q.ide = cmd.ide /\ q.fn = p.fn /\ q.unit = p.unit /\ q.cyl = p.cyl
          /\ q.sector = p.sector /\ q.wc = p.wc
    BY <1>4
  <2> QED  BY <1>1, <2>1 DEF RKOrder, RKWorkerInStep
<1>9. RKTransferProgress'
  <2> SUFFICES ASSUME NEW q \in rk_past'.cmd, q.fn \in RKTransfers, ~rk.rdy, ~rk_past.failed,
                      rk_worker.pc \notin {"Worker_Idle", "Worker_Execute"}
               PROVE  IF Requested(q.wc) < RKWordModulus \div 2
                      THEN \E n \in 0 .. Requested(q.wc) : RKTransferAt(q, n)'
                      ELSE rk_worker.pc \in {"sector", "Worker_Finish"} /\ rk_worker.count <= 0
    BY <1>1, <1>2 DEF RKTransferProgress
  <2>1. PICK p \in rk_past.cmd :
          q.fn = p.fn /\ q.wc = p.wc /\ \A n : RKSectorAt(q, n) = RKSectorAt(p, n)
    BY <1>4
  <2>2. CASE Requested(q.wc) < RKWordModulus \div 2
    <3>1. PICK n \in 0 .. Requested(q.wc) : RKTransferAt(p, n)
      BY <2>1, <2>2 DEF RKOrder, RKTransferProgress
    <3>2. RKTransferAt(q, n)'
      BY <1>1, <1>2, <1>3, <2>1, <3>1 DEF RKTransferAt
    <3> QED  BY <2>2, <3>2
  <2>3. CASE ~(Requested(q.wc) < RKWordModulus \div 2)
    BY <2>1, <2>3 DEF RKOrder, RKTransferProgress
  <2> QED  BY <2>2, <2>3
<1> QED  BY <1>5, <1>6, <1>7, <1>8, <1>9 DEF RKOrder

LEMMA RKCommandStep ==
  ASSUME RKAssumption, RKTypeOK, RKOrder, NEW cmd \in RKCommands, rkcs_command(cmd), ~rk_past.failed
  PROVE  RKOrder'
<1>1. cmd \in [go : BOOLEAN, fn : RKFunctions, ide : BOOLEAN]
  BY DEF RKAssumption
<1>2. rk_worker' = rk_worker /\ rk_drive' = rk_drive
  BY DEF rkcs_command
<1>3. CASE rk_ready(rk)
  <2>1. /\ ~rk'.rdy /\ rk'.new_command = {cmd} /\ rk'.ide = cmd.ide /\ rk'.unit = rk.unit
        /\ rk'.cyl = rk.cyl /\ rk'.sector = rk.sector /\ rk'.wc = rk.wc
    BY <1>3 DEF rkcs_command, rk_accept, RKTypeOK, RKRecord
  <2>2. /\ rk_past' = Begun(cmd) /\ rk_drive[rk.unit].dry
        /\ cmd.fn \notin {"Control_Reset", "Write_Lock"}
    BY <1>3 DEF rkcs_command, rk_ready
  <2>3. /\ rk_past.disturbed \/ rk_busy => rk_past'.disturbed /\ rk_past'.cmd = {}
        /\ ~(rk_past.disturbed \/ rk_busy) =>
             /\ rk_past'.cmd = {RKBegins(cmd)} /\ rk_past'.moved = 0 /\ ~rk_past'.disturbed
        /\ rk_past'.misplaced = rk_past.misplaced /\ rk_past'.failed = rk_past.failed
    BY <1>1, <2>2, RKBegunType
  <2>4. RKReadyMeansIdle'
    BY <2>1 DEF RKReadyMeansIdle
  <2>5. RKOneCommand'
    BY <1>2, <2>3 DEF RKOrder, RKOneCommand, rk_busy
  <2>6. CASE rk_past.disturbed \/ rk_busy
    BY <2>3, <2>4, <2>5, <2>6, RKCutOff
  <2>7. CASE ~(rk_past.disturbed \/ rk_busy)
    <3>1. RKTransferExact' /\ RKDoneInterrupts'
      BY <2>1 DEF RKTransferExact, RKDoneInterrupts
    <3>2. rk_worker'.pc = "Worker_Idle"
      BY <1>2, <2>7 DEF rk_busy
    <3>3. RKTransferProgress'
      BY <3>2 DEF RKTransferProgress
    <3>4. rk.unit \in RKOnline
      BY <2>2 DEF RKOrder, RKOneCommand, RKTypeOK, RKRecord
    <3>5. rk_busy'
      BY <2>1 DEF rk_busy
    <3>6. RKWorkerInStep'
      BY <2>1, <2>3, <2>7, <3>2, <3>4, <3>5 DEF RKWorkerInStep, RKBegins, RKAtSector
    <3> QED  BY <2>4, <2>5, <3>1, <3>3, <3>6 DEF RKOrder
  <2> QED  BY <2>6, <2>7
<1>4. CASE ~rk_ready(rk)
  <2>1. /\ rk'.rdy = rk.rdy /\ rk'.err /\ (rk.intr => rk'.intr) /\ rk'.new_command = rk.new_command
    BY <1>4 DEF rkcs_command, rk_interrupt, rk_error, RKTypeOK, RKRecord
  <2>2. rk_past' = [rk_past EXCEPT !.failed = rk_past.failed \/ ~rk.rdy]
    BY <1>4 DEF rkcs_command
  <2>3. /\ rk_past'.failed = (rk_past.failed \/ ~rk.rdy)
        /\ rk_past'.cmd = rk_past.cmd /\ rk_past'.moved = rk_past.moved
        /\ rk_past'.misplaced = rk_past.misplaced /\ rk_past'.disturbed = rk_past.disturbed
    BY <2>2 DEF RKTypeOK, RKPastRecord
  <2>4. RKReadyMeansIdle' /\ RKOneCommand'
    BY <1>2, <2>1, <2>3 DEF RKOrder, RKReadyMeansIdle, RKOneCommand
  <2>5. RKTransferExact' /\ RKDoneInterrupts'
    BY <2>1, <2>3 DEF RKOrder, RKTransferExact, RKDoneInterrupts
  <2>6. rk'.rdy \/ rk_past'.failed
    BY <2>1, <2>3 DEF RKTypeOK, RKRecord
  <2>7. RKWorkerInStep' /\ RKTransferProgress'
    BY <2>6 DEF RKWorkerInStep, RKTransferProgress
  <2> QED  BY <2>4, <2>5, <2>7 DEF RKOrder
<1> QED  BY <1>3, <1>4

LEMMA RKWriteLockStep ==
  ASSUME RKAssumption, RKTypeOK, RKOrder, NEW cmd \in RKCommands, rkcs_write_lock(cmd), ~rk_past.failed
  PROVE  RKOrder'
<1>1. /\ rk'.rdy = rk.rdy /\ rk'.err = rk.err /\ rk'.intr = rk.intr
      /\ rk'.new_command = rk.new_command
      /\ rk'.wc = rk.wc /\ RKPosition' = RKPosition /\ rk_worker' = rk_worker
      /\ rk_drive' = rk_drive
  BY DEF rkcs_write_lock, RKPosition, RKTypeOK, RKRecord
<1>2. rk_past' = Disturbed(rk_past, rk_busy) /\ rk_past \in RKPastRecord /\ rk_busy \in BOOLEAN
  BY DEF rkcs_write_lock, RKTypeOK, rk_busy
<1>3. /\ rk_past.disturbed \/ rk_busy => rk_past'.disturbed /\ rk_past'.cmd = {}
      /\ ~(rk_past.disturbed \/ rk_busy) => rk_past' = rk_past
      /\ rk_past'.misplaced = rk_past.misplaced
  BY <1>2, RKDisturbed
<1>4. RKReadyMeansIdle' /\ RKOneCommand'
  BY <1>1, <1>3 DEF RKOrder, RKReadyMeansIdle, RKOneCommand
<1>5. CASE rk_past.disturbed \/ rk_busy
  BY <1>3, <1>4, <1>5, RKCutOff
<1>6. CASE ~(rk_past.disturbed \/ rk_busy)
  <2>1. RKTransferExact' /\ RKDoneInterrupts'
    BY <1>1, <1>3, <1>6 DEF RKOrder, RKTransferExact, RKDoneInterrupts
  <2>2. rk_past'.cmd = {} \/ rk'.rdy
    BY <1>1, <1>3, <1>6, RKAlone
  <2>3. RKWorkerInStep' /\ RKTransferProgress'
    BY <2>2 DEF RKWorkerInStep, RKTransferProgress
  <2> QED  BY <1>4, <2>1, <2>3 DEF RKOrder
<1> QED  BY <1>5, <1>6

(* A reset, by the program or by INIT: commands are no longer recorded.      *)
LEMMA RKResetStep ==
  ASSUME RKAssumption, RKTypeOK, RKOrder,
         rk_past' = Disturbed([rk_past EXCEPT !.resets = @ + 1, !.cmd = {}], rk_busy),
         rk'.rdy, rk'.new_command = rk.new_command,
         \A u \in RKUnits : rk_drive'[u].dry = rk_drive[u].dry,
         rk_worker' \in {rk_worker, rk_cancelled(rk_worker)}
  PROVE  RKOrder'
<1> DEFINE p == [rk_past EXCEPT !.resets = @ + 1, !.cmd = {}]
<1>1. /\ p \in RKPastRecord /\ p.cmd = {} /\ p.misplaced = rk_past.misplaced
      /\ p.disturbed = rk_past.disturbed
  <2>1. rk_past \in RKPastRecord /\ rk_past.resets + 1 \in Nat /\ {} \in SUBSET RKAccepted
    BY DEF RKTypeOK, RKPastRecord
  <2> QED  BY <2>1 DEF RKPastRecord
<1>2. rk_past' = Disturbed(p, rk_busy) /\ rk_busy \in BOOLEAN
  BY DEF rk_busy
<1> HIDE DEF p
<1>3. /\ rk_past'.cmd = {} /\ rk_past'.misplaced = rk_past.misplaced
      /\ rk_past.disturbed \/ rk_busy => rk_past'.disturbed
      /\ ~(rk_past.disturbed \/ rk_busy) => ~rk_past'.disturbed
  BY <1>1, <1>2, RKDisturbed
<1>4. /\ rk_worker'.pc = rk_worker.pc \/ (rk_worker.pc = "dma_wait" /\ rk_worker'.pc = "dma_done")
      /\ rk_worker'.abort = rk_worker.abort
  BY DEF rk_cancelled, RKTypeOK, RKWorkerRecord
<1>5. RKReadyMeansIdle' /\ RKOneCommand'
  BY <1>3, <1>4 DEF RKOrder, RKReadyMeansIdle, RKOneCommand, rk_busy
<1> QED  BY <1>3, <1>5, RKCutOff

LEMMA RKAdapterStep ==
  ASSUME RKAssumption, RKTypeOK, RKOrder, ~rk_past.failed,
         \/ \E cmd \in RKCommands : RKCS(cmd)
         \/ \E a \in RKAddresses : RKDA(a)
         \/ rk_init_asserted \/ rk_init_negated \/ rk_dma_complete
  PROVE  RKOrder'
<1>1. ASSUME NEW cmd \in RKCommands, RKCS(cmd) PROVE RKOrder'
  <2>1. ASSUME rkcs_control_reset(cmd) PROVE RKOrder'
    <3>1. rk'.rdy /\ rk'.new_command = rk.new_command
      BY <2>1 DEF rkcs_control_reset, reset_controller, RKTypeOK, RKRecord
    <3> QED  BY <2>1, <3>1, RKResetStep DEF rkcs_control_reset
  <2> QED  BY <1>1, <2>1, RKNoGoStep, RKWriteLockStep, RKCommandStep DEF RKCS
<1>2. ASSUME NEW a \in RKAddresses, RKDA(a) PROVE RKOrder'
  <2>1. /\ rk'.rdy = rk.rdy /\ rk'.new_command = rk.new_command
        /\ rk_worker' = rk_worker /\ rk_drive' = rk_drive
    BY <1>2 DEF RKDA, RKTypeOK, RKRecord
  <2>2. /\ rk_past'.cmd = {} /\ rk_past'.misplaced = rk_past.misplaced
        /\ rk_past'.disturbed = rk_past.disturbed
    BY <1>2 DEF RKDA, RKTypeOK, RKPastRecord
  <2>3. RKReadyMeansIdle' /\ RKOneCommand'
    BY <2>1, <2>2 DEF RKOrder, RKReadyMeansIdle, RKOneCommand
  <2> QED  BY <2>2, <2>3, RKCutOff
<1>3. ASSUME rk_init_asserted PROVE RKOrder'
  <2>1. rk'.rdy /\ rk'.new_command = rk.new_command
    BY <1>3 DEF rk_init_asserted, reset_controller, RKTypeOK, RKRecord
  <2>2. \A u \in RKUnits : rk_drive'[u].dry = rk_drive[u].dry
    BY <1>3, RKSeekType DEF rk_init_asserted, RKTypeOK
  <2> QED  BY <1>3, <2>1, <2>2, RKResetStep DEF rk_init_asserted
<1>4. ASSUME rk_init_negated PROVE RKOrder'
  <2>1. RKAside
    BY <1>4 DEF rk_init_negated, rk_cancelled, RKAside, RKTypeOK, RKRecord, RKWorkerRecord,
       RKPosition, RKAtSector
  <2> QED  BY <2>1, RKAsideStep
<1>5. ASSUME rk_dma_complete PROVE RKOrder'
  <2>1. RKAside
    BY <1>5 DEF rk_dma_complete, RKAside, RKTypeOK, RKWorkerRecord, RKPosition, RKAtSector
  <2> QED  BY <2>1, RKAsideStep
<1> QED  BY <1>1, <1>2, <1>3, <1>4, <1>5

-----------------------------------------------------------------------------
(* worker(), with the words and sectors of a transfer.                      *)
LEMMA RKRequested ==
  ASSUME RKAssumption, NEW wc \in 0 .. RKWordModulus - 1
  PROVE  /\ Requested(wc) \in 0 .. RKWordModulus - 1
         /\ wc = 0 => Requested(wc) = 0
         /\ wc > 0 => Requested(wc) = RKWordModulus - wc
<1>1. RKWordModulus \in Nat \ {0}
  BY DEF RKAssumption
<1>2. CASE wc = 0
  <2>1. RKWordModulus - wc = 1 * RKWordModulus + 0 /\ 0 \in 0 .. RKWordModulus - 1
        /\ RKWordModulus - wc \in Int
    BY <1>1, <1>2
  <2>2. Requested(wc) = 0
    BY <1>1, <2>1, RemainderIs DEF Requested
  <2> QED  BY <1>2, <2>1, <2>2
<1>3. CASE wc > 0
  <2>1. RKWordModulus - wc = 0 * RKWordModulus + (RKWordModulus - wc)
        /\ RKWordModulus - wc \in 0 .. RKWordModulus - 1 /\ RKWordModulus - wc \in Int
    BY <1>1, <1>3
  <2>2. Requested(wc) = RKWordModulus - wc
    BY <1>1, <2>1, RemainderIs DEF Requested
  <2> QED  BY <1>3, <2>1, <2>2
<1> QED  BY <1>2, <1>3

(* Half of the range of RKWC.                                               *)
LEMMA RKHalf ==
  ASSUME RKAssumption, NEW wc \in 0 .. RKWordModulus - 1
  PROVE  IF Requested(wc) < RKWordModulus \div 2
         THEN current_count(wc) = Requested(wc) ELSE current_count(wc) <= 0
<1>1. RKWordModulus \in Nat \ {0} /\ RKWordModulus \div 2 \in Int
      /\ RKWordModulus = 2 * (RKWordModulus \div 2)
  BY DEF RKAssumption
<1> DEFINE h == RKWordModulus \div 2
<1>2. h \in Int /\ RKWordModulus = 2 * h /\ h > 0
  BY <1>1
<1> HIDE DEF h
<1>3. CASE wc = 0
  <2>1. Requested(wc) = 0 /\ ~(wc > h)
    BY <1>2, <1>3, RKRequested
  <2> QED  BY <1>2, <1>3, <2>1 DEF current_count, h
<1>4. CASE wc > 0 /\ wc > h
  BY <1>2, <1>4, RKRequested DEF current_count, h
<1>5. CASE wc > 0 /\ ~(wc > h)
  <2>1. Requested(wc) = RKWordModulus - wc /\ ~(Requested(wc) < h) /\ -wc <= 0
    BY <1>2, <1>5, RKRequested
  <2> QED  BY <1>5, <2>1 DEF current_count, h
<1> QED  BY <1>3, <1>4, <1>5

(* The sectors behind n sectors and a rest.                                 *)
LEMMA RKSectorCount ==
  ASSUME RKAssumption, NEW n \in Nat, NEW rest \in 1 .. RKSectorWords
  PROVE  RKSectorsOf(n * RKSectorWords + rest) = n + 1
<1>1. RKSectorWords \in Nat \ {0}
  BY DEF RKAssumption
<1>2. /\ n * RKSectorWords + rest + RKSectorWords - 1 = (n + 1) * RKSectorWords + (rest - 1)
      /\ rest - 1 \in 0 .. RKSectorWords - 1 /\ n + 1 \in Int
      /\ n * RKSectorWords + rest + RKSectorWords - 1 \in Int
  BY <1>1
<1> QED  BY <1>1, <1>2, RemainderIs DEF RKSectorsOf

LEMMA RKNoSectors ==
  ASSUME RKAssumption
  PROVE  RKSectorsOf(0) = 0
<1>1. RKSectorWords \in Nat \ {0}
  BY DEF RKAssumption
<1>2. /\ 0 + RKSectorWords - 1 = 0 * RKSectorWords + (RKSectorWords - 1)
      /\ RKSectorWords - 1 \in 0 .. RKSectorWords - 1 /\ RKSectorWords - 1 \in Int
      /\ 0 + RKSectorWords - 1 \in Int
  BY <1>1
<1> QED  BY <1>1, <1>2, RemainderIs DEF RKSectorsOf

(* increment_RKDA() leads to the next sector of the command.                *)
LEMMA RKNextSector ==
  ASSUME RKAssumption, RKTypeOK, NEW p \in RKAccepted, NEW n \in Nat,
         RKSectorAt(p, n) = RKPosition, rk.sector < RKSectors, NEW wc
  PROVE  LET c == increment_RKDA([rk EXCEPT !.wc = wc])
         IN  RKSectorAt(p, n + 1) = [unit |-> c.unit, cyl |-> c.cyl, sector |-> c.sector]
<1>1. /\ RKSectors \in Nat \ {0} /\ p.cyl \in Nat /\ p.sector \in Nat
      /\ rk.cyl \in Nat /\ rk.sector \in Nat /\ rk \in RKRecord
  BY DEF RKAssumption, RKAccepted, RKTypeOK, RKRecord
<1> DEFINE c == increment_RKDA([rk EXCEPT !.wc = wc])
           x == p.sector + n
<1>2. /\ c.unit = rk.unit
      /\ c.sector = IF rk.sector + 1 >= RKSectors THEN 0 ELSE rk.sector + 1
      /\ c.cyl = IF rk.sector + 1 >= RKSectors THEN rk.cyl + 1 ELSE rk.cyl
  BY <1>1 DEF increment_RKDA, RKRecord
<1>3. p.unit = rk.unit /\ rk.sector = (x % RKSectors) /\ rk.cyl = p.cyl + (x \div RKSectors)
  <2>1. CASE n = 0
    <3>1. p.unit = rk.unit /\ p.sector = rk.sector /\ p.cyl = rk.cyl
      BY <2>1 DEF RKSectorAt, RKPosition
    <3>2. x = 0 * RKSectors + rk.sector /\ rk.sector \in 0 .. RKSectors - 1 /\ x \in Int
      BY <1>1, <2>1, <3>1
    <3>3. (x % RKSectors) = rk.sector /\ (x \div RKSectors) = 0
      BY <1>1, <3>2, RemainderIs
    <3> QED  BY <1>1, <3>1, <3>3
  <2>2. CASE n # 0
    BY <2>2 DEF RKSectorAt, RKPosition
  <2> QED  BY <2>1, <2>2
<1>4. x \in Int /\ p.sector + (n + 1) = x + 1 /\ n + 1 # 0 /\ (x \div RKSectors) \in Int
      /\ (x % RKSectors) \in Int
  <2>1. x \in Int /\ p.sector + (n + 1) = x + 1 /\ n + 1 # 0
    BY <1>1
  <2> HIDE DEF x
  <2>2. (x \div RKSectors) \in Int /\ (x % RKSectors) \in 0 .. RKSectors - 1
    BY <1>1, <2>1, Remainder
  <2> QED  BY <2>1, <2>2
<1>5. RKSectorAt(p, n + 1) =
        [unit |-> p.unit, cyl |-> p.cyl + ((x + 1) \div RKSectors), sector |-> ((x + 1) % RKSectors)]
  BY <1>4 DEF RKSectorAt
<1>6. /\ ((x + 1) % RKSectors) = IF rk.sector + 1 >= RKSectors THEN 0 ELSE rk.sector + 1
      /\ ((x + 1) \div RKSectors)
           = IF rk.sector + 1 >= RKSectors THEN (x \div RKSectors) + 1 ELSE (x \div RKSectors)
  BY <1>1, <1>3, <1>4, NextQuotient
<1> HIDE DEF x, c
<1>7. p.cyl + ((x + 1) \div RKSectors) = c.cyl /\ ((x + 1) % RKSectors) = c.sector
  BY <1>1, <1>2, <1>3, <1>4, <1>6
<1>8. RKSectorAt(p, n + 1) = [unit |-> c.unit, cyl |-> c.cyl, sector |-> c.sector]
  BY <1>2, <1>3, <1>5, <1>7
<1> QED  BY <1>8 DEF c

(* worker() takes a command.                                                *)
LEMMA RKIdleStep ==
  ASSUME RKAssumption, RKTypeOK, RKOrder, ~rk_past.failed, Worker_Idle
  PROVE  RKOrder'
<1>1. PICK cmd \in rk.new_command :
        rk_worker' = [rk_worker EXCEPT !.fn = cmd.fn, !.do_interrupt = TRUE, !.pc = "Worker_Execute"]
  BY DEF Worker_Idle
<1>2. /\ rk_worker.pc = "Worker_Idle" /\ rk_worker'.pc = "Worker_Execute"
      /\ rk_worker'.fn = cmd.fn
      /\ rk_worker'.do_interrupt /\ rk_worker'.abort = rk_worker.abort
  BY <1>1 DEF Worker_Idle, RKTypeOK, RKWorkerRecord
<1>3. /\ rk'.new_command = {} /\ rk'.rdy = rk.rdy /\ rk'.ide = rk.ide /\ rk'.unit = rk.unit
      /\ rk'.cyl = rk.cyl /\ rk'.sector = rk.sector /\ rk'.wc = rk.wc
      /\ rk_past' = rk_past /\ rk_drive' = rk_drive
  BY DEF Worker_Idle, RKTypeOK, RKRecord
<1>4. ~rk_past.disturbed => ~rk.rdy
  BY <1>1 DEF RKOrder, RKReadyMeansIdle
<1>5. RKReadyMeansIdle' /\ RKOneCommand'
  BY <1>2, <1>3, <1>4 DEF RKOrder, RKReadyMeansIdle, RKOneCommand
<1>6. CASE rk_past.cmd = {}
  BY <1>3, <1>5, <1>6, RKCutOff
<1>7. CASE rk_past.cmd # {}
  <2>1. ~rk.rdy
    BY <1>4, <1>7, RKAlone
  <2>2. RKTransferExact' /\ RKDoneInterrupts' /\ RKTransferProgress'
    BY <1>2, <1>3, <2>1 DEF RKTransferExact, RKDoneInterrupts, RKTransferProgress
  <2>3. rk_busy'
    BY <1>2 DEF rk_busy
  <2>4. RKWorkerInStep'
    BY <1>1, <1>2, <1>3, <2>1, <2>3 DEF RKOrder, RKWorkerInStep, RKAtSector
  <2> QED  BY <1>5, <2>2, <2>4 DEF RKOrder
<1> QED  BY <1>6, <1>7

LEMMA RKExecuteStep ==
  ASSUME RKAssumption, RKTypeOK, RKOrder, ~rk_past.failed, Worker_Execute
  PROVE  RKOrder'
<1>1. rk_worker.pc = "Worker_Execute" /\ rk_past' = rk_past /\ rk_worker.fn \in RKFunctions
  BY DEF Worker_Execute, RKTypeOK, RKWorkerRecord
<1>2. CASE /\ rk_worker.fn \in RKTransfers \cup {"Read_Check"}
           /\ rk_worker' = [rk_worker EXCEPT !.count = current_count(rk.wc), !.pc = "sector"]
           /\ UNCHANGED <<rk, rk_drive>>
  <2>1. /\ rk_worker'.pc = "sector" /\ rk_worker'.count = current_count(rk.wc)
        /\ rk_worker'.fn = rk_worker.fn /\ rk_worker'.do_interrupt = rk_worker.do_interrupt
        /\ rk_worker'.abort = rk_worker.abort /\ rk' = rk /\ rk_drive' = rk_drive
    BY <1>2 DEF RKTypeOK, RKWorkerRecord
  <2>2. RKReadyMeansIdle' /\ RKOneCommand' /\ RKTransferExact' /\ RKDoneInterrupts'
    BY <1>1, <2>1
       DEF RKOrder, RKReadyMeansIdle, RKOneCommand, RKTransferExact, RKDoneInterrupts,
          RKPosition
  <2>3. RKWorkerInStep'
    BY <1>1, <1>2, <2>1 DEF RKOrder, RKWorkerInStep, rk_busy, RKAtSector
  <2>4. RKTransferProgress'
    <3> SUFFICES ASSUME NEW p \in rk_past.cmd, p.fn \in RKTransfers, ~rk.rdy
                 PROVE  IF Requested(p.wc) < RKWordModulus \div 2
                        THEN \E n \in 0 .. Requested(p.wc) : RKTransferAt(p, n)'
                        ELSE rk_worker'.pc \in {"sector", "Worker_Finish"} /\ rk_worker'.count <= 0
      BY <1>1, <2>1 DEF RKTransferProgress
    <3>1. /\ rk.cyl = p.cyl /\ rk.sector = p.sector /\ rk.wc = p.wc /\ rk.unit = p.unit
          /\ rk_past.moved = 0
      BY <1>1 DEF RKOrder, RKWorkerInStep
    <3>2. rk.wc \in 0 .. RKWordModulus - 1 /\ RKSectorWords \in Nat \ {0} /\ RKWordModulus \in Nat
      BY DEF RKTypeOK, RKRecord, RKAssumption
    <3>3. IF Requested(p.wc) < RKWordModulus \div 2
          THEN current_count(rk.wc) = Requested(p.wc) ELSE current_count(rk.wc) <= 0
      BY <3>1, <3>2, RKHalf
    <3>4. CASE Requested(p.wc) < RKWordModulus \div 2
      <4>1. /\ Requested(p.wc) \in Nat /\ rk_worker'.count = Requested(p.wc)
            /\ Requested(p.wc) = 0 => rk.wc = 0
        BY <2>1, <3>1, <3>2, <3>3, <3>4, RKRequested
      <4>2. RKSectorAt(p, 0) = RKPosition'
        BY <2>1, <3>1 DEF RKSectorAt, RKPosition
      <4>3. /\ rk_worker'.count >= 0
            /\ rk_worker'.count > 0 => 0 * RKSectorWords + rk_worker'.count = Requested(p.wc)
            /\ rk_worker'.count = 0 => 0 = RKSectorsOf(Requested(p.wc)) /\ rk'.wc = 0
        BY <2>1, <3>2, <4>1, RKNoSectors
      <4>4. rk_past'.moved = Requested(p.wc) - rk_worker'.count + 0
        BY <1>1, <3>1, <4>1
      <4>5. ~rk_worker'.abort
        BY <1>1, <2>1 DEF RKOrder, RKOneCommand
      <4>6. RKTransferAt(p, 0)'
        BY <2>1, <4>2, <4>3, <4>4, <4>5 DEF RKTransferAt, RKAtSector
      <4> QED  BY <3>4, <4>1, <4>6
    <3>5. CASE ~(Requested(p.wc) < RKWordModulus \div 2)
      BY <2>1, <3>3, <3>5
    <3> QED  BY <3>4, <3>5
  <2> QED  BY <2>2, <2>3, <2>4 DEF RKOrder
<1>3. CASE rk_worker.fn \in {"Seek", "Drive_Reset"}
  <2> DEFINE seeks == IF rk_worker.fn = "Seek" THEN validate_seek(rk) ELSE rk_ready(rk)
  <2>1. /\ rk_worker' = [rk_worker EXCEPT !.pc = "Worker_Finish", !.do_interrupt = seeks]
        /\ rk' = IF rk_worker.fn = "Seek" THEN rk_error(rk, ~seeks) ELSE rk
        /\ rk_drive' = IF seeks
                       THEN [rk_drive EXCEPT ![rk.unit] =
                               rk05_seek(@, IF rk_worker.fn = "Seek" THEN rk.cyl ELSE 0)]
                       ELSE rk_drive
    BY <1>3 DEF Worker_Execute, RKTransfers
  <2>2. seeks \in BOOLEAN
    BY DEF validate_seek, rk_ready, RKTypeOK, RKDriveRecord, RKRecord
  <2>3. rk_worker.fn = "Drive_Reset" => seeks = rk_drive[rk.unit].dry
    BY DEF rk_ready
  <2> HIDE DEF seeks
  <2>4. /\ rk_worker'.pc = "Worker_Finish" /\ rk_worker'.do_interrupt = seeks
        /\ rk_worker'.fn = rk_worker.fn /\ rk_worker'.abort = rk_worker.abort
    BY <2>1 DEF RKTypeOK, RKWorkerRecord
  <2>5. /\ rk'.rdy = rk.rdy /\ rk'.ide = rk.ide /\ rk'.unit = rk.unit /\ rk'.cyl = rk.cyl
        /\ rk'.sector = rk.sector /\ rk'.wc = rk.wc /\ rk'.new_command = rk.new_command
        /\ rk'.intr = rk.intr
    BY <2>1 DEF rk_error, RKTypeOK, RKRecord
  <2>6. rk_worker.fn = "Seek" /\ ~seeks => rk'.err
    BY <2>1 DEF rk_error, RKTypeOK, RKRecord
  <2>7. \A u \in RKUnits : rk_drive'[u].dry = rk_drive[u].dry
    <3>1. (IF rk_worker.fn = "Seek" THEN rk.cyl ELSE 0) \in Nat /\ rk.unit \in RKUnits
      BY DEF RKTypeOK, RKRecord
    <3> QED  BY <2>1, <3>1, RKSeekType DEF RKTypeOK
  <2>8. RKReadyMeansIdle' /\ RKOneCommand'
    BY <1>1, <2>4, <2>5, <2>7 DEF RKOrder, RKReadyMeansIdle, RKOneCommand
  <2>9. CASE rk_past.cmd = {}
    BY <1>1, <2>8, <2>9, RKCutOff
  <2>10. CASE rk_past.cmd # {}
    <3>1. ~rk.rdy
      BY <1>1, <2>10, RKAlone
    <3>2. RKTransferExact' /\ RKDoneInterrupts'
      BY <2>5, <3>1 DEF RKTransferExact, RKDoneInterrupts
    <3>3. \A p \in rk_past.cmd : p.fn = rk_worker.fn
      BY <1>1, <3>1 DEF RKOrder, RKWorkerInStep
    <3>4. RKTransferProgress'
      BY <1>1, <1>3, <3>3 DEF RKTransferProgress, RKTransfers
    <3>5. \A p \in rk_past.cmd : rk_drive[rk.unit].dry
      BY <1>1, <3>1 DEF RKOrder, RKWorkerInStep, RKOneCommand, RKTypeOK, RKRecord
    <3>6. seeks \/ (rk_worker.fn = "Seek" /\ rk'.err)
      BY <1>3, <2>2, <2>3, <2>6, <2>10, <3>5
    <3>7. RKWorkerInStep'
      BY <1>1, <2>4, <2>5, <3>1, <3>3, <3>6 DEF RKOrder, RKWorkerInStep, rk_busy, RKAtSector
    <3> QED  BY <2>8, <3>2, <3>4, <3>7 DEF RKOrder
  <2> QED  BY <2>9, <2>10
<1> QED  BY <1>2, <1>3 DEF Worker_Execute

(* The head of the loop.                                                    *)
LEMMA RKSectorStep ==
  ASSUME RKAssumption, RKTypeOK, RKOrder, ~rk_past.failed, rk_sector
  PROVE  RKOrder'
<1> DEFINE stop == rk_worker.count <= 0 \/ (rk.new_command # {} /\ rk_worker.fn # "Read_Check")
           bad == ~validate_seek(rk)
           pc == IF stop \/ bad THEN "Worker_Finish"
                 ELSE IF rk_worker.fn \in {"Read", "Write_Check"} THEN "read"
                 ELSE IF rk_worker.fn = "Write" THEN "dma" ELSE "next"
<1>1. /\ rk_worker.pc = "sector" /\ rk' = rk_error(rk, ~stop /\ bad)
      /\ rk_worker' = [rk_worker EXCEPT !.pc = pc] /\ rk_drive' = rk_drive /\ rk_past' = rk_past
  BY DEF rk_sector
<1>2. pc \in {"Worker_Finish", "read", "dma", "next"}
  OBVIOUS
<1>3. pc # "Worker_Finish" => ~stop /\ rk.sector < RKSectors
  BY DEF validate_seek
<1>4. pc = "next" => rk_worker.fn \notin RKTransfers
  BY DEF RKTransfers
<1>5. pc = "Worker_Finish" => stop \/ (~stop /\ bad)
  OBVIOUS
<1>6. rk_worker.count > 0 => ~(rk_worker.count <= 0)
  BY DEF RKTypeOK, RKWorkerRecord
<1>7. ~stop => rk_worker.count > 0
  BY DEF RKTypeOK, RKWorkerRecord
<1> HIDE DEF pc, bad
<1>8. /\ rk_worker'.pc = pc /\ rk_worker'.fn = rk_worker.fn /\ rk_worker'.count = rk_worker.count
      /\ rk_worker'.do_interrupt = rk_worker.do_interrupt /\ rk_worker'.abort = rk_worker.abort
  BY <1>1 DEF RKTypeOK, RKWorkerRecord
<1>9. /\ rk'.rdy = rk.rdy /\ rk'.ide = rk.ide /\ rk'.unit = rk.unit /\ rk'.cyl = rk.cyl
      /\ rk'.sector = rk.sector /\ rk'.wc = rk.wc /\ rk'.new_command = rk.new_command
      /\ rk'.intr = rk.intr /\ (rk.err => rk'.err) /\ (~stop /\ bad => rk'.err)
  <2> HIDE DEF stop
  <2> QED  BY <1>1 DEF rk_error, RKTypeOK, RKRecord
<1>10. ~rk_worker.abort
  BY <1>1 DEF RKOrder, RKOneCommand
<1>11. RKReadyMeansIdle' /\ RKOneCommand'
  <2> HIDE DEF stop
  <2> QED  BY <1>1, <1>2, <1>8, <1>9, <1>10 DEF RKOrder, RKReadyMeansIdle, RKOneCommand
<1>12. CASE rk_past.cmd = {}
  BY <1>1, <1>11, <1>12, RKCutOff
<1>13. CASE rk_past.cmd # {}
  <2>1. ~rk.rdy /\ rk.new_command = {}
    BY <1>1, <1>13, RKAlone
  <2>2. stop => rk_worker.count <= 0
    BY <2>1
  <2> HIDE DEF stop
  <2>3. RKTransferExact' /\ RKDoneInterrupts'
    BY <1>9, <2>1 DEF RKTransferExact, RKDoneInterrupts
  <2>4. RKWorkerInStep'
    BY <1>1, <1>2, <1>8, <1>9, <2>1 DEF RKOrder, RKWorkerInStep, rk_busy, RKAtSector
  <2>5. RKTransferProgress'
    <3> SUFFICES ASSUME NEW p \in rk_past.cmd, p.fn \in RKTransfers
                 PROVE  IF Requested(p.wc) < RKWordModulus \div 2
                        THEN \E n \in 0 .. Requested(p.wc) : RKTransferAt(p, n)'
                        ELSE rk_worker'.pc \in {"sector", "Worker_Finish"} /\ rk_worker'.count <= 0
      BY <1>1 DEF RKTransferProgress
    <3>1. rk_worker.fn = p.fn
      BY <1>1, <2>1 DEF RKOrder, RKWorkerInStep
    <3>2. pc # "next"
      BY <1>4, <3>1
    <3>3. CASE Requested(p.wc) < RKWordModulus \div 2
      <4>1. PICK n \in 0 .. Requested(p.wc) : RKTransferAt(p, n)
        BY <1>1, <2>1, <3>3 DEF RKOrder, RKTransferProgress
      <4>2. /\ RKSectorAt(p, n) = RKPosition /\ rk_worker.count >= 0
            /\ rk_worker.count > 0 => n * RKSectorWords + rk_worker.count = Requested(p.wc)
            /\ rk_worker.count = 0 => n = RKSectorsOf(Requested(p.wc)) /\ rk.wc = 0
            /\ rk.err \/ rk_past.moved = Requested(p.wc) - rk_worker.count + 0
        BY <1>1, <4>1 DEF RKTransferAt, RKAtSector
      <4>3. RKPosition' = RKPosition
        BY <1>9 DEF RKPosition
      <4>4. pc = "Worker_Finish" => rk'.err \/ rk_worker.count = 0
        BY <1>5, <1>9, <2>2, <4>2 DEF RKTypeOK, RKWorkerRecord
      <4>5. pc # "Worker_Finish" => rk_worker.count > 0 /\ rk.sector < RKSectors
        BY <1>3, <1>7
      <4>6. rk_worker'.pc \notin {"write_end", "next"}
        BY <1>2, <1>8, <3>2
      <4>7. RKTransferAt(p, n)'
        BY <1>1, <1>2, <1>8, <1>9, <1>10, <4>2, <4>3, <4>4, <4>5, <4>6 DEF RKTransferAt,
           RKAtSector
      <4> QED  BY <3>3, <4>7
    <3>4. CASE ~(Requested(p.wc) < RKWordModulus \div 2)
      <4>1. rk_worker.count <= 0
        BY <1>1, <2>1, <3>4 DEF RKOrder, RKTransferProgress
      <4>2. stop
        BY <4>1 DEF stop
      <4>3. pc = "Worker_Finish"
        BY <4>2 DEF pc
      <4> QED  BY <1>8, <3>4, <4>1, <4>3
    <3> QED  BY <3>3, <3>4
  <2> QED  BY <1>11, <2>3, <2>4, <2>5 DEF RKOrder
<1> QED  BY <1>12, <1>13

(* In a sector: what a transfer that is recorded has done so far.           *)
LEMMA RKInSector ==
  ASSUME RKAssumption, RKTypeOK, RKOrder, ~rk_past.failed, rk_worker.pc \in RKAtSector,
         NEW p \in rk_past.cmd
  PROVE  /\ ~rk.rdy /\ rk.new_command = {} /\ rk_worker.fn = p.fn
         /\ p.fn \in RKTransfers \cup {"Read_Check"}
         /\ p.fn \in RKTransfers =>
              /\ Requested(p.wc) < RKWordModulus \div 2
              /\ \E n \in 0 .. Requested(p.wc) : RKTransferAt(p, n)
<1>1. ~rk.rdy /\ rk.new_command = {}
  BY RKAlone DEF RKAtSector
<1>2. rk_worker.fn = p.fn /\ p.fn \in RKTransfers \cup {"Read_Check"}
  BY <1>1 DEF RKOrder, RKWorkerInStep, RKAtSector
<1>3. ASSUME p.fn \in RKTransfers
      PROVE  /\ Requested(p.wc) < RKWordModulus \div 2
             /\ \E n \in 0 .. Requested(p.wc) : RKTransferAt(p, n)
  BY <1>1, <1>3 DEF RKOrder, RKTransferProgress, RKAtSector
<1> QED  BY <1>1, <1>2, <1>3

(* After a DMA: m is what the history counts, e an error that is reported.  *)
LEMMA RKDmaDoneStep ==
  ASSUME RKAssumption, RKTypeOK, RKOrder, ~rk_past.failed, rk_dma_done
  PROVE  RKOrder'
<1>1. rk_worker.pc = "dma_done" /\ rk_worker.pc \in RKAtSector
  BY DEF rk_dma_done, RKAtSector
<1>2. /\ rk'.rdy = rk.rdy /\ rk'.ide = rk.ide /\ rk'.unit = rk.unit /\ rk'.cyl = rk.cyl
      /\ rk'.sector = rk.sector /\ rk'.wc = rk.wc /\ rk'.new_command = rk.new_command
      /\ rk'.intr = rk.intr /\ (rk.err => rk'.err)
  BY DEF rk_dma_done, rk_error, RKTypeOK, RKRecord
<1>3. /\ rk_worker'.pc \in {"write_end", "next"} /\ rk_worker'.fn = rk_worker.fn
      /\ rk_worker'.count = rk_worker.count /\ rk_worker'.do_interrupt = rk_worker.do_interrupt
      /\ (rk_worker'.abort => rk_worker'.pc = "next" /\ rk'.err)
  <2>1. ~rk_worker.abort
    BY <1>1 DEF RKOrder, RKOneCommand
  <2>2. CASE rk' = rk_error(rk, TRUE) /\ rk_worker' = [rk_worker EXCEPT !.pc = "next", !.abort = TRUE]
    BY <2>2 DEF rk_error, RKTypeOK, RKWorkerRecord, RKRecord
  <2>3. CASE rk_worker' = [rk_worker EXCEPT !.pc = "write_end", !.unit = rk.unit]
    BY <2>1, <2>3 DEF RKTypeOK, RKWorkerRecord
  <2>4. CASE \E differs \in {FALSE, rk_worker.fn = "Write_Check"} : \E stop \in {FALSE, differs} :
               /\ rk' = rk_error(rk, differs)
               /\ rk_worker' = [rk_worker EXCEPT !.pc = "next", !.abort = stop]
    <3>1. PICK differs \in BOOLEAN, stop \in BOOLEAN :
            /\ stop => differs
            /\ rk' = rk_error(rk, differs)
            /\ rk_worker' = [rk_worker EXCEPT !.pc = "next", !.abort = stop]
      BY <2>4
    <3>2. /\ rk_worker'.pc = "next" /\ rk_worker'.fn = rk_worker.fn
          /\ rk_worker'.count = rk_worker.count
          /\ rk_worker'.do_interrupt = rk_worker.do_interrupt
          /\ rk_worker'.abort = stop
      BY <3>1 DEF RKTypeOK, RKWorkerRecord
    <3>3. differs => rk'.err
      BY <3>1 DEF rk_error, RKTypeOK, RKRecord
    <3> QED  BY <3>1, <3>2, <3>3
  <2> QED  BY <2>2, <2>3, <2>4 DEF rk_dma_done
<1>4. \A u \in RKUnits : rk_drive'[u].dry = rk_drive[u].dry
  <2>1. \A u \in RKUnits : rk_disk_io[u].dry = rk_drive[u].dry
    BY DEF rk_disk_io, RKTypeOK, RKDriveRecord
  <2> QED  BY <2>1 DEF rk_dma_done
<1>5. rk_worker.fn = "Write" => InPlace
  <2> SUFFICES ASSUME NEW p \in rk_past.cmd, rk_worker.fn = "Write"
               PROVE  \E n \in 0 .. Requested(p.wc) : RKSectorAt(p, n) = RKPosition
    BY DEF InPlace
  <2> QED  BY <1>1, RKInSector DEF RKTransfers, RKTransferAt
<1>6. /\ rk_past'.misplaced = rk_past.misplaced
      /\ rk_past.disturbed => rk_past'.disturbed /\ rk_past'.cmd = {}
      /\ ~rk_past.disturbed =>
           /\ ~rk_past'.disturbed /\ rk_past'.cmd = rk_past.cmd
           /\ rk'.err \/ rk_past'.moved = rk_past.moved + request_count
  <2> DEFINE m == rk_past.moved + request_count
  <2>1. rk_past \in RKPastRecord /\ m \in Int
    BY RKCountType DEF RKTypeOK, RKPastRecord
  <2>2. CASE rk' = rk_error(rk, TRUE) /\ rk_past' = rk_past
    <3>1. rk'.err /\ rk_past' = rk_past
      BY <2>2 DEF rk_error, RKTypeOK, RKRecord
    <3>2. rk_past.disturbed => rk_past.cmd = {}
      BY DEF RKOrder, RKOneCommand
    <3> QED  BY <3>1, <3>2
  <2>3. CASE rk_past' = Disturbed([rk_past EXCEPT !.moved = m], FALSE)
    <3> HIDE DEF m
    <3>1. /\ [rk_past EXCEPT !.moved = m] \in RKPastRecord
          /\ [rk_past EXCEPT !.moved = m].moved = m
          /\ [rk_past EXCEPT !.moved = m].cmd = rk_past.cmd
          /\ [rk_past EXCEPT !.moved = m].misplaced = rk_past.misplaced
          /\ [rk_past EXCEPT !.moved = m].disturbed = rk_past.disturbed
      BY <2>1 DEF RKPastRecord
    <3>2. /\ rk_past'.misplaced = rk_past.misplaced
          /\ rk_past.disturbed => rk_past'.disturbed /\ rk_past'.cmd = {}
          /\ ~rk_past.disturbed => rk_past' = [rk_past EXCEPT !.moved = m]
      BY <2>3, <3>1, RKDisturbed
    <3>3. rk_past'.moved = m \/ rk_past.disturbed
      BY <3>1, <3>2
    <3> QED  BY <3>1, <3>2, <3>3 DEF m
  <2>4. CASE rk_worker.fn = "Write" /\ rk_past' = Disturbed([rk_past EXCEPT !.moved = @ + request_count,
                                                     !.misplaced = @ \/ ~InPlace], FALSE)
    <3>1. ~rk_past.misplaced /\ InPlace
      BY <1>5, <2>4 DEF RKOrder, RKOneCommand
    <3>2. [rk_past EXCEPT !.moved = @ + request_count, !.misplaced = @ \/ ~InPlace]
            = [rk_past EXCEPT !.moved = m]
      BY <2>1, <3>1 DEF RKPastRecord
    <3> QED  BY <2>3, <2>4, <3>2
  <2> QED  BY <2>2, <2>3, <2>4 DEF rk_dma_done
<1>7. RKReadyMeansIdle' /\ RKOneCommand'
  BY <1>1, <1>2, <1>3, <1>4, <1>6 DEF RKOrder, RKReadyMeansIdle, RKOneCommand
<1>8. CASE rk_past.cmd = {} \/ rk_past.disturbed
  <2>1. rk_past'.cmd = {}
    BY <1>6, <1>8
  <2> QED  BY <1>7, <2>1, RKCutOff
<1>9. CASE rk_past.cmd # {} /\ ~rk_past.disturbed
  <2>1. ~rk.rdy /\ rk.new_command = {}
    BY <1>1, <1>9, RKInSector
  <2>2. RKTransferExact' /\ RKDoneInterrupts'
    BY <1>2, <2>1 DEF RKTransferExact, RKDoneInterrupts
  <2>3. RKWorkerInStep'
    BY <1>1, <1>2, <1>3, <1>6, <1>9, <2>1
       DEF RKOrder, RKWorkerInStep, rk_busy, RKAtSector, rk_dma_done
  <2>4. RKTransferProgress'
    <3> SUFFICES ASSUME NEW p \in rk_past.cmd, p.fn \in RKTransfers
                 PROVE  IF Requested(p.wc) < RKWordModulus \div 2
                        THEN \E n \in 0 .. Requested(p.wc) : RKTransferAt(p, n)'
                        ELSE rk_worker'.pc \in {"sector", "Worker_Finish"} /\ rk_worker'.count <= 0
      BY <1>6, <1>9 DEF RKTransferProgress
    <3>1. Requested(p.wc) < RKWordModulus \div 2 /\ \E n \in 0 .. Requested(p.wc) : RKTransferAt(p, n)
      BY <1>1, RKInSector
    <3>2. PICK n \in 0 .. Requested(p.wc) : RKTransferAt(p, n)
      BY <3>1
    <3>3. /\ RKSectorAt(p, n) = RKPosition /\ rk_worker.count >= 0
          /\ rk_worker.count > 0 => n * RKSectorWords + rk_worker.count = Requested(p.wc)
          /\ rk_worker.count > 0 /\ rk.sector < RKSectors
          /\ rk.err \/ rk_past.moved = Requested(p.wc) - rk_worker.count + 0
      BY <1>1, <3>2 DEF RKTransferAt
    <3>4. RKPosition' = RKPosition /\ request_count' = request_count
      BY <1>2, <1>3 DEF RKPosition, request_count
    <3>5. rk_worker'.count # 0
      BY <1>3, <3>3 DEF RKTypeOK, RKWorkerRecord
    <3>6. rk'.err \/ rk_past'.moved = Requested(p.wc) - rk_worker'.count + request_count
      <4>1. rk_past.moved \in Int /\ request_count \in Int /\ rk_worker.count \in Int
            /\ Requested(p.wc) \in Int
        BY RKCountType, RKRequested DEF RKTypeOK, RKPastRecord, RKWorkerRecord, RKAccepted
      <4> QED  BY <1>2, <1>3, <1>6, <1>9, <3>3, <4>1
    <3>7. RKTransferAt(p, n)'
      BY <1>2, <1>3, <3>3, <3>4, <3>5, <3>6 DEF RKTransferAt, RKAtSector
    <3> QED  BY <3>1, <3>7
  <2> QED  BY <1>7, <2>2, <2>3, <2>4 DEF RKOrder
<1> QED  BY <1>8, <1>9

(* Behind a sector.                                                         *)
LEMMA RKNextStep ==
  ASSUME RKAssumption, RKTypeOK, RKOrder, ~rk_past.failed, rk_next
  PROVE  RKOrder'
<1> DEFINE words == IF rk_worker.fn = "Read_Check" THEN RKSectorWords ELSE request_count
           count == rk_worker.count - words
           wc == (-count) % RKWordModulus
           c == increment_RKDA([rk EXCEPT !.wc = wc])
<1>1. /\ rk_worker.pc = "next" /\ rk_worker.pc \in RKAtSector /\ rk' = c
      /\ rk_worker' = [rk_worker EXCEPT !.count = count, !.abort = FALSE,
                         !.pc = IF rk_worker.abort THEN "Worker_Finish" ELSE "sector"]
      /\ rk_drive' = rk_drive /\ rk_past' = rk_past
  BY DEF rk_next, RKAtSector
<1>2. words \in Int /\ count \in Int
  BY RKCountType DEF RKAssumption, RKTypeOK, RKWorkerRecord
<1>3. count = 0 => wc = 0
  <2>1. RKWordModulus \in Nat \ {0}
    BY DEF RKAssumption
  <2>2. CASE count = 0
    <3>1. -count \in Int /\ -count = 0 * RKWordModulus + 0 /\ 0 \in 0 .. RKWordModulus - 1
      BY <1>2, <2>1, <2>2
    <3> QED  BY <2>1, <3>1, RemainderIs
  <2> QED  BY <2>2
<1>4. /\ c.rdy = rk.rdy /\ c.ide = rk.ide /\ c.unit = rk.unit /\ c.wc = wc /\ c.err = rk.err
      /\ c.new_command = rk.new_command /\ c.intr = rk.intr
  BY DEF increment_RKDA, RKTypeOK, RKRecord
<1> HIDE DEF words, wc, c
<1>5. /\ rk_worker'.pc = (IF rk_worker.abort THEN "Worker_Finish" ELSE "sector")
      /\ rk_worker'.fn = rk_worker.fn /\ rk_worker'.count = count
      /\ rk_worker'.do_interrupt = rk_worker.do_interrupt /\ ~rk_worker'.abort
  <2> HIDE DEF count
  <2> QED  BY <1>1 DEF RKTypeOK, RKWorkerRecord
<1>6. RKReadyMeansIdle' /\ RKOneCommand'
  BY <1>1, <1>4, <1>5 DEF RKOrder, RKReadyMeansIdle, RKOneCommand
<1>7. CASE rk_past.cmd = {}
  BY <1>1, <1>6, <1>7, RKCutOff
<1>8. CASE rk_past.cmd # {}
  <2>1. ~rk.rdy /\ rk.new_command = {}
    BY <1>1, <1>8, RKInSector
  <2>2. RKTransferExact' /\ RKDoneInterrupts'
    BY <1>1, <1>4, <2>1 DEF RKTransferExact, RKDoneInterrupts
  <2>3. RKWorkerInStep'
    BY <1>1, <1>4, <1>5, <2>1 DEF RKOrder, RKWorkerInStep, rk_busy, RKAtSector
  <2>4. RKTransferProgress'
    <3> SUFFICES ASSUME NEW p \in rk_past.cmd, p.fn \in RKTransfers
                 PROVE  IF Requested(p.wc) < RKWordModulus \div 2
                        THEN \E n \in 0 .. Requested(p.wc) : RKTransferAt(p, n)'
                        ELSE rk_worker'.pc \in {"sector", "Worker_Finish"} /\ rk_worker'.count <= 0
      BY <1>1 DEF RKTransferProgress
    <3>1. /\ rk_worker.fn = p.fn /\ Requested(p.wc) < RKWordModulus \div 2
          /\ \E n \in 0 .. Requested(p.wc) : RKTransferAt(p, n)
      BY <1>1, RKInSector
    <3>2. PICK n \in 0 .. Requested(p.wc) : RKTransferAt(p, n)
      BY <3>1
    <3> DEFINE all == Requested(p.wc)
    <3>3. /\ RKSectorAt(p, n) = RKPosition /\ rk_worker.count > 0 /\ rk.sector < RKSectors
          /\ n * RKSectorWords + rk_worker.count = all
          /\ rk_worker.abort => rk.err
          /\ rk.err \/ rk_past.moved = all - rk_worker.count + request_count
      BY <1>1, <3>2 DEF RKTransferAt
    <3>4. /\ p \in RKAccepted /\ n \in Nat /\ all \in Nat /\ RKSectorWords \in Nat \ {0}
          /\ rk_worker.count \in Int /\ rk_past.moved \in Int /\ n * RKSectorWords \in Nat
      <4>1. p \in RKAccepted /\ p.wc \in 0 .. RKWordModulus - 1
        BY DEF RKTypeOK, RKPastRecord, RKAccepted
      <4>2. all \in Nat
        BY <4>1, RKRequested
      <4>3. RKSectorWords \in Nat \ {0} /\ rk_worker.count \in Int /\ rk_past.moved \in Int
        BY DEF RKAssumption, RKTypeOK, RKWorkerRecord, RKPastRecord
      <4> QED  BY <4>1, <4>2, <4>3
    <3> HIDE DEF all
    <3>5. words = request_count
      BY <3>1 DEF words, RKTransfers
    <3>6. RKSectorAt(p, n + 1) = RKPosition'
      BY <1>1, <3>3, <3>4, RKNextSector DEF c, RKPosition
    <3>7. CASE rk_worker.count > RKSectorWords
      <4>1. request_count = RKSectorWords
        BY <3>7 DEF request_count
      <4>2. count > 0 /\ (n + 1) * RKSectorWords + count = all /\ n + 1 \in 0 .. all
        <5>1. (n + 1) * RKSectorWords = n * RKSectorWords + RKSectorWords /\ n <= n * RKSectorWords
          BY <3>4
        <5> QED  BY <3>3, <3>4, <3>5, <3>7, <4>1, <5>1
      <4>3. rk.err \/ rk_past.moved = all - count + 0
        BY <3>3, <3>4, <3>5, <4>1
      <4>4. RKTransferAt(p, n + 1)'
        <5> HIDE DEF count
        <5>1. count >= 0 /\ count # 0
          BY <1>2, <4>2
        <5> QED  BY <1>1, <1>4, <1>5, <3>3, <3>6, <4>2, <4>3, <5>1 DEF RKTransferAt,
           RKAtSector, all
      <4> QED  BY <3>1, <4>2, <4>4 DEF all
    <3>8. CASE ~(rk_worker.count > RKSectorWords)
      <4>1. request_count = rk_worker.count /\ count = 0
        BY <3>4, <3>5, <3>8 DEF request_count
      <4>2. RKSectorsOf(all) = n + 1
        <5>1. rk_worker.count \in 1 .. RKSectorWords
          BY <3>3, <3>4, <3>8
        <5> QED  BY <3>3, <3>4, <5>1, RKSectorCount
      <4>3. n + 1 \in 0 .. all
        <5>1. n <= n * RKSectorWords
          BY <3>4
        <5> QED  BY <3>3, <3>4, <5>1
      <4>4. rk.err \/ rk_past.moved = all - 0 + 0
        BY <3>3, <3>4, <4>1
      <4>5. RKTransferAt(p, n + 1)'
        <5> HIDE DEF count
        <5> QED  BY <1>1, <1>3, <1>4, <1>5, <3>3, <3>6, <4>1, <4>2, <4>4 DEF RKTransferAt,
           RKAtSector, all
      <4> QED  BY <3>1, <4>3, <4>5 DEF all
    <3> QED  BY <3>7, <3>8
  <2> QED  BY <1>6, <2>2, <2>3, <2>4 DEF RKOrder
<1> QED  BY <1>7, <1>8

LEMMA RKFinishStep ==
  ASSUME RKAssumption, RKTypeOK, RKOrder, ~rk_past.failed, Worker_Finish
  PROVE  RKOrder'
<1>1. /\ rk_worker.pc = "Worker_Finish" /\ rk_drive' = rk_drive /\ rk_past' = rk_past
      /\ rk_worker'.pc = "Worker_Idle" /\ rk_worker'.abort = rk_worker.abort
  BY DEF Worker_Finish, RKTypeOK, RKWorkerRecord
<1>2. /\ rk'.rdy /\ rk'.ide = rk.ide /\ rk'.err = rk.err /\ rk'.wc = rk.wc
      /\ rk'.new_command = rk.new_command /\ RKPosition' = RKPosition /\ (rk.intr => rk'.intr)
      /\ rk_worker.do_interrupt /\ rk.ide => rk'.intr
  BY DEF Worker_Finish, rk_interrupt, RKPosition, RKTypeOK, RKRecord
<1>3. RKReadyMeansIdle' /\ RKOneCommand'
  BY <1>1, <1>2 DEF RKOrder, RKReadyMeansIdle, RKOneCommand
<1>4. CASE rk_past.cmd = {}
  BY <1>1, <1>3, <1>4, RKCutOff
<1>5. CASE rk_past.cmd # {}
  <2>1. ~rk.rdy
    BY <1>1, <1>5, RKAlone
  <2>2. \A p \in rk_past.cmd :
          rk.ide = p.ide /\ (rk_worker.do_interrupt \/ (p.fn = "Seek" /\ rk.err))
    BY <1>1, <2>1 DEF RKOrder, RKWorkerInStep
  <2>3. RKDoneInterrupts'
    BY <1>1, <1>2, <2>2 DEF RKDoneInterrupts
  <2>4. RKWorkerInStep' /\ RKTransferProgress'
    BY <1>2 DEF RKWorkerInStep, RKTransferProgress
  <2>5. RKTransferExact'
    <3> SUFFICES ASSUME NEW p \in rk_past.cmd, ~rk.err, p.fn \in RKTransfers,
                        Requested(p.wc) < RKWordModulus \div 2
                 PROVE  /\ rk_past.moved = Requested(p.wc) /\ rk.wc = 0 /\ ~rk_past.misplaced
                        /\ RKSectorAt(p, RKSectorsOf(Requested(p.wc))) = RKPosition
      BY <1>1, <1>2 DEF RKTransferExact
    <3>1. PICK n \in 0 .. Requested(p.wc) : RKTransferAt(p, n)
      BY <1>1, <2>1 DEF RKOrder, RKTransferProgress
    <3>2. /\ RKSectorAt(p, n) = RKPosition /\ rk_worker.count = 0
          /\ n = RKSectorsOf(Requested(p.wc)) /\ rk.wc = 0
          /\ rk_past.moved = Requested(p.wc) - 0 + 0
      BY <1>1, <3>1 DEF RKTransferAt, RKAtSector
    <3>3. Requested(p.wc) \in Int
      BY RKRequested DEF RKTypeOK, RKPastRecord, RKAccepted
    <3> QED  BY <3>2, <3>3 DEF RKOrder, RKOneCommand
  <2> QED  BY <1>3, <2>3, <2>4, <2>5 DEF RKOrder
<1> QED  BY <1>4, <1>5

-----------------------------------------------------------------------------
LEMMA RKOrderStep ==
  ASSUME RKAssumption, RKTypeOK, RKOrder, [RKNext]_rkvars
  PROVE  RKOrder'
<1>1. ASSUME ~rk_past.failed, RKWorkerStep PROVE RKOrder'
  <2>1. ASSUME rk_read \/ rk_io_end \/ rk_dma PROVE RKOrder'
    <3>1. \A u \in RKUnits : rk_drive'[u].dry = rk_drive[u].dry
      BY <2>1 DEF rk_read, rk_io_end, rk_dma, rk_disk_io, RKTypeOK, RKDriveRecord
    <3>2. rk' = rk /\ rk_past' = rk_past
      BY <2>1 DEF rk_read, rk_io_end, rk_dma
    <3>3. /\ rk_worker'.fn = rk_worker.fn /\ rk_worker'.count = rk_worker.count
          /\ rk_worker'.do_interrupt = rk_worker.do_interrupt
          /\ rk_worker'.abort = rk_worker.abort
          /\ rk_worker.pc \in RKAtSector \ {"next"}
          /\ rk_worker'.pc \in RKAtSector \ {"write_end"}
          /\ rk_worker.pc = "write_end" <=> rk_worker'.pc = "next"
      BY <2>1 DEF rk_read, rk_io_end, rk_dma, RKTypeOK, RKWorkerRecord, RKAtSector
    <3>4. RKAside
      BY <3>1, <3>2, <3>3 DEF RKAside, RKPosition
    <3> QED  BY <3>4, RKAsideStep
  <2> QED  BY <1>1, <2>1, RKIdleStep, RKExecuteStep, RKSectorStep, RKDmaDoneStep, RKNextStep,
              RKFinishStep DEF RKWorkerStep
<1>2. ASSUME NEW u \in RKUnits, rk05_worker(u) PROVE RKOrder'
  <2>1. RKAside
    BY <1>2 DEF rk05_worker, rk_interrupt, RKAside, RKPosition, RKTypeOK, RKDriveRecord,
       RKRecord
  <2> QED  BY <2>1, RKAsideStep
<1>3. ASSUME UNCHANGED rkvars PROVE RKOrder'
  <2>1. RKAside
    BY <1>3 DEF rkvars, RKAside, RKPosition
  <2> QED  BY <2>1, RKAsideStep
<1> QED  BY <1>1, <1>2, <1>3, RKAdapterStep DEF RKNext, RKAlive

LEMMA RKStartsExact == ASSUME RKAssumption, RKStart PROVE RKTypeOK /\ RKOrder
<1>1. /\ rk_past = [cmd |-> {}, moved |-> 0, misplaced |-> FALSE,
                    disturbed |-> FALSE, failed |-> FALSE, resets |-> 0]
      /\ rk_worker = [pc |-> "Worker_Idle", fn |-> "Read", count |-> 0, unit |-> 0,
                      do_interrupt |-> TRUE, success |-> FALSE, abort |-> FALSE]
      /\ rk_drive = [u \in RKUnits |->
                       [dry |-> u \in RKOnline, seek_count |-> 0, cyl |-> 0, rwsrdy |-> TRUE]]
  BY DEF RKStart
<1>2. rk_past \in RKPastRecord
  BY <1>1 DEF RKPastRecord
<1>3. rk_worker \in RKWorkerRecord
  BY <1>1 DEF RKWorkerRecord, RKFunctions, RKTransfers, RKAssumption
<1>4. rk_drive \in [RKUnits -> RKDriveRecord]
  BY <1>1 DEF RKDriveRecord
<1>5. rk \in RKRecord /\ rk.new_command = {}
  <2>1. 0 \in RKUnits /\ 0 \in Nat /\ 0 \in 0 .. RKWordModulus - 1 /\ {} \in SUBSET RKCommands
    BY DEF RKAssumption
  <2> QED  BY <2>1 DEF RKStart, RKRecord
<1>6. RKReadyMeansIdle /\ RKOneCommand
  BY <1>1, <1>5 DEF RKReadyMeansIdle, RKOneCommand
<1>7. rk_past.cmd = {}
  BY <1>1
<1>8. RKOrder
  BY <1>6, <1>7 DEF RKOrder, RKTransferExact, RKDoneInterrupts, RKWorkerInStep,
     RKTransferProgress
<1> QED  BY <1>2, <1>3, <1>4, <1>5, <1>8 DEF RKTypeOK

(* The RK11: a command that the program lets finish interrupts, and a transfer *)
(* without an error has moved its words and written its own sectors.        *)
THEOREM RKCommandIsExact == RKSpec => []RKCommandExact
<1> USE RKAssumption
<1>1. RKStart => RKTypeOK /\ RKOrder
  BY RKStartsExact
<1>2. RKTypeOK /\ RKOrder /\ [RKNext]_rkvars => (RKTypeOK /\ RKOrder)'
  BY RKTypeStep, RKOrderStep
<1>3. RKTypeOK /\ RKOrder => RKCommandExact
  BY DEF RKOrder, RKCommandExact
<1> QED  BY <1>1, <1>2, <1>3, PTL DEF RKSpec

-----------------------------------------------------------------------------
(* The RF11.                                                                *)

(* The words of a command, and the registers after a reset.                 *)
LEMMA RFRequestedType ==
  ASSUME RFAssumption, NEW p, p.wc \in 0 .. RFWordModulus - 1
  PROVE  RFRequested(p) \in 0 .. RFWordModulus - 1
<1>1. RFWordModulus - p.wc \in Int /\ RFWordModulus \in Nat \ {0}
  BY DEF RFAssumption
<1> QED  BY <1>1, Remainder DEF RFRequested

LEMMA RFResetType ==
  ASSUME RFAssumption, NEW c \in RFRecord
  PROVE  rf_reset(c) \in RFRecord /\ rf_reset(c).rdy /\ rf_reset(c).go = c.go
         /\ rf_reset(c).line_INIT = c.line_INIT
<1>1. 0 \in 0 .. RFWordModulus - 1 /\ 0 \in 0 .. RFWords - 1 /\ "NOP" \in RFFunctions
  BY DEF RFAssumption, RFFunctions
<1> QED  BY <1>1 DEF rf_reset, RFRecord

LEMMA RFHistory ==
  ASSUME NEW p \in RFPastRecord, NEW b \in BOOLEAN
  PROVE  /\ RFDisturbed(p, b) \in RFPastRecord
         /\ p.disturbed \/ b => RFDisturbed(p, b).disturbed /\ RFDisturbed(p, b).cmd = {}
         /\ ~(p.disturbed \/ b) => RFDisturbed(p, b) = p
         /\ RFDisturbed(p, b).overwritten = p.overwritten
<1> DEFINE d == p.disturbed \/ b
           c == IF d THEN {} ELSE p.cmd
<1>1. d \in BOOLEAN /\ c \in SUBSET RFAccepted
  BY DEF RFPastRecord
<1>2. RFDisturbed(p, b) = [p EXCEPT !.disturbed = d, !.cmd = c]
  BY DEF RFDisturbed
<1>3. d => c = {}
  OBVIOUS
<1>4. ~d => c = p.cmd /\ d = p.disturbed
  BY DEF RFPastRecord
<1> HIDE DEF d, c
<1>5. /\ RFDisturbed(p, b) \in RFPastRecord
      /\ RFDisturbed(p, b).disturbed = d /\ RFDisturbed(p, b).cmd = c
      /\ RFDisturbed(p, b).overwritten = p.overwritten
  BY <1>1, <1>2 DEF RFPastRecord
<1>6. ~d => RFDisturbed(p, b) = p
  BY <1>2, <1>4 DEF RFPastRecord
<1> QED  BY <1>3, <1>5, <1>6 DEF d

(* GO accepts the command in the registers.                                 *)
RFTaken == [fn |-> rf.fn, ie |-> rf.ie, dar |-> rf.dar, wc |-> rf.wc]

LEMMA RFGo ==
  ASSUME RFAssumption, RFTypeOK, rf.rdy, rf.fn # "NOP", go
  PROVE  /\ rf_past' \in RFPastRecord /\ RFTaken \in RFAccepted
         /\ rf_past.disturbed \/ rf_busy => rf_past'.disturbed /\ rf_past'.cmd = {}
         /\ ~(rf_past.disturbed \/ rf_busy) => rf_past'.cmd = {RFTaken} /\ rf_past'.moved = 0
                                              /\ ~rf_past'.disturbed
         /\ rf_past'.overwritten = rf_past.overwritten
<1> DEFINE p == [rf_past EXCEPT !.moved = 0, !.cmd = {RFTaken}]
<1>1. RFTaken \in RFAccepted
  BY DEF RFTypeOK, RFRecord, RFAccepted, RFTaken
<1>2. /\ p \in RFPastRecord /\ p.cmd = {RFTaken} /\ p.moved = 0 /\ p.disturbed = rf_past.disturbed
      /\ p.overwritten = rf_past.overwritten /\ rf_past.disturbed \in BOOLEAN
  <2>1. rf_past \in RFPastRecord /\ {RFTaken} \in SUBSET RFAccepted /\ 0 \in Int
    BY <1>1 DEF RFTypeOK
  <2>2. \A c \in SUBSET RFAccepted : [rf_past EXCEPT !.moved = 0, !.cmd = c] \in RFPastRecord
    BY <2>1 DEF RFPastRecord
  <2> QED  BY <2>1, <2>2 DEF RFPastRecord
<1>3. rf_past' = RFDisturbed(p, rf_busy)
  BY DEF go, RFTaken
<1>4. rf_busy \in BOOLEAN
  BY DEF RFTypeOK, RFRecord, rf_busy
<1> HIDE DEF p
<1>5. /\ rf_past' \in RFPastRecord
      /\ p.disturbed \/ rf_busy => rf_past'.disturbed /\ rf_past'.cmd = {}
      /\ ~(p.disturbed \/ rf_busy) => rf_past' = p
      /\ rf_past'.overwritten = p.overwritten
  BY <1>2, <1>3, <1>4, RFHistory
<1>6. ~(rf_past.disturbed \/ rf_busy) => rf_past'.cmd = {RFTaken} /\ rf_past'.moved = 0
                                         /\ ~rf_past'.disturbed
  BY <1>2, <1>5
<1> QED  BY <1>1, <1>2, <1>5, <1>6

LEMMA RFGoRegisters ==
  ASSUME RFTypeOK, go
  PROVE  /\ rf' \in RFRecord
         /\ rf'.rdy <=> rf.rdy /\ rf.fn = "NOP"
         /\ rf.rdy /\ rf.fn # "NOP" => rf'.new_command_ready /\ ~rf'.intr
         /\ ~(rf.rdy /\ rf.fn # "NOP") => /\ rf'.new_command_ready = rf.new_command_ready
                                          /\ rf'.intr = rf.intr
         /\ rf'.go = "signal"
         /\ rf'.fn = rf.fn /\ rf'.ie = rf.ie /\ rf'.dar = rf.dar /\ rf'.wc = rf.wc
         /\ rf'.ned = rf.ned
         /\ rf'.nem = rf.nem /\ rf'.line_INIT = rf.line_INIT
<1> DEFINE accepted == rf.rdy /\ rf.fn # "NOP"
           r == ~accepted /\ rf.rdy
           n == rf.new_command_ready \/ accepted
           i == rf.intr /\ ~accepted
<1>1. r \in BOOLEAN /\ n \in BOOLEAN /\ i \in BOOLEAN
  OBVIOUS
<1>2. rf' = [rf EXCEPT !.go = "signal", !.wce = FALSE, !.rdy = r, !.new_command_ready = n, !.intr = i]
  BY DEF go
<1>3. rf \in RFRecord
  BY DEF RFTypeOK
<1>4. /\ r <=> rf.rdy /\ rf.fn = "NOP"
      /\ accepted => n /\ ~i
      /\ ~accepted => n = rf.new_command_ready /\ i = rf.intr
  BY <1>3 DEF RFRecord
<1> HIDE DEF r, n, i
<1>5. rf' \in RFRecord
  <2>1. \A go_ \in {"no", "locked", "signal"}, b \in BOOLEAN :
          [rf EXCEPT !.go = go_, !.wce = FALSE, !.rdy = b] \in RFRecord
    BY <1>3 DEF RFRecord
  <2>2. \A c \in RFRecord, a \in BOOLEAN, b \in BOOLEAN :
          [c EXCEPT !.new_command_ready = a, !.intr = b] \in RFRecord
    BY DEF RFRecord
  <2>3. rf' = [[rf EXCEPT !.go = "signal", !.wce = FALSE, !.rdy = r]
                 EXCEPT !.new_command_ready = n, !.intr = i]
    BY <1>2
  <2> QED  BY <1>1, <2>1, <2>2, <2>3
<1>6. rf'.rdy = r /\ rf'.new_command_ready = n /\ rf'.intr = i
  BY <1>2, <1>3 DEF RFRecord
<1>7. /\ rf'.go = "signal"
      /\ rf'.fn = rf.fn /\ rf'.ie = rf.ie /\ rf'.dar = rf.dar /\ rf'.wc = rf.wc
      /\ rf'.ned = rf.ned
      /\ rf'.nem = rf.nem /\ rf'.line_INIT = rf.line_INIT
  BY <1>2, <1>3 DEF RFRecord
<1> QED  BY <1>4, <1>5, <1>6, <1>7

(* Every step leads to a state of the types.                                *)
LEMMA RFTypeStep ==
  ASSUME RFAssumption, RFTypeOK, [RFNext]_rfvars
  PROVE  RFTypeOK'
<1>1. rf \in RFRecord /\ rf_worker \in RFWorkerRecord /\ rf_past \in RFPastRecord
  BY DEF RFTypeOK
<1>2. rf_busy \in BOOLEAN
  BY <1>1 DEF RFRecord, rf_busy
<1>3. \A pc \in RFIdle \cup RFBeforeDMA
                  \cup {"Worker_Execute", "update", "Worker_Finish", "Worker_Finish_unlock"} :
        [rf_worker EXCEPT !.pc = pc] \in RFWorkerRecord
  BY <1>1 DEF RFWorkerRecord
<1>4. RFDisturbed([rf_past EXCEPT !.resets = @ + 1, !.cmd = {}], rf_busy) \in RFPastRecord
  <2>1. rf_past.resets + 1 \in Nat
    BY <1>1 DEF RFPastRecord
  <2>2. \A n \in Nat : [rf_past EXCEPT !.resets = n, !.cmd = {}] \in RFPastRecord
    BY <1>1 DEF RFPastRecord
  <2> QED  BY <1>2, <2>1, <2>2, RFHistory
<1>5. rf_cancelled(rf_worker) \in RFWorkerRecord
  <2>1. [rf_worker EXCEPT !.pc = "dma_done", !.success = FALSE] \in RFWorkerRecord
    BY <1>1 DEF RFWorkerRecord, RFBeforeDMA
  <2> QED  BY <1>1, <2>1 DEF rf_cancelled
<1>6. \A m \in {"free", "adapter", "worker"} : [rf EXCEPT !.mutex = m] \in RFRecord
  BY <1>1 DEF RFRecord
<1>7. ASSUME NEW cmd \in RFCommands, DCS(cmd) PROVE RFTypeOK'
  <2> DEFINE c == [rf EXCEPT !.fn = cmd.fn, !.ie = cmd.ie]
  <2>1. cmd.fn \in RFFunctions /\ cmd.ie \in BOOLEAN
    BY DEF RFAssumption
  <2>2. c \in RFRecord
    BY <1>1, <2>1 DEF RFRecord
  <2>3. \/ rf' = rf_reset(c)
           /\ rf_past' = RFDisturbed([rf_past EXCEPT !.resets = @ + 1, !.cmd = {}], rf_busy)
        \/ rf' = c /\ rf_past' = rf_past
        \/ rf' = [c EXCEPT !.go = "locked", !.mutex = "adapter"] /\ rf_past' = rf_past
    BY <1>7 DEF DCS
  <2> HIDE DEF c
  <2>4. rf' \in RFRecord
    <3>1. [c EXCEPT !.go = "locked", !.mutex = "adapter"] \in RFRecord
      BY <2>2 DEF RFRecord
    <3> QED  BY <2>2, <2>3, <3>1, RFResetType
  <2> QED  BY <1>1, <1>4, <1>7, <2>3, <2>4 DEF DCS, RFTypeOK
<1>8. ASSUME go PROVE RFTypeOK'
  <2>1. rf_past' \in RFPastRecord
    BY <1>1, <1>8, RFGo DEF go
  <2> QED  BY <1>1, <1>8, <2>1, RFGoRegisters DEF go, RFTypeOK
<1>9. ASSUME go_signal PROVE RFTypeOK'
  <2> DEFINE b == rf_worker.signalled \/ rf_worker.pc = "waiting"
  <2>1. rf' \in RFRecord
    BY <1>1, <1>9 DEF go_signal, RFRecord
  <2>2. rf_worker' = [rf_worker EXCEPT !.signalled = b] /\ b \in BOOLEAN
    BY <1>9 DEF go_signal
  <2> HIDE DEF b
  <2>3. rf_worker' \in RFWorkerRecord
    BY <1>1, <2>2 DEF RFWorkerRecord
  <2> QED  BY <1>1, <1>9, <2>1, <2>3 DEF go_signal, RFTypeOK
<1>10. ASSUME NEW a \in RFAddresses, DAR(a) PROVE RFTypeOK'
  <2>1. a.dar \in 0 .. RFWords - 1 /\ a.wc \in 0 .. RFWordModulus - 1
    BY DEF RFAssumption
  <2>2. rf' \in RFRecord
    BY <1>1, <1>10, <2>1 DEF DAR, RFRecord
  <2>3. rf_past' \in RFPastRecord
    BY <1>1, <1>10 DEF DAR, RFPastRecord
  <2> QED  BY <1>1, <1>10, <2>2, <2>3 DEF DAR, RFTypeOK
<1>11. ASSUME rf_init_asserted PROVE RFTypeOK'
  <2>1. \A c \in RFRecord : [c EXCEPT !.line_INIT = TRUE, !.intr = FALSE] \in RFRecord
    BY DEF RFRecord
  <2>2. rf' \in RFRecord
    BY <1>1, <1>11, <2>1, RFResetType DEF rf_init_asserted
  <2> QED  BY <1>4, <1>5, <1>11, <2>2 DEF rf_init_asserted, RFTypeOK
<1>12. ASSUME rf_init_negated PROVE RFTypeOK'
  <2>1. rf' \in RFRecord
    BY <1>1, <1>12 DEF rf_init_negated, RFRecord
  <2> QED  BY <1>1, <1>5, <1>12, <2>1 DEF rf_init_negated, RFTypeOK
<1>13. ASSUME rf_dma_complete PROVE RFTypeOK'
  <2>1. PICK b \in BOOLEAN : rf_worker' = [rf_worker EXCEPT !.pc = "dma_done", !.success = b]
    BY <1>13 DEF rf_dma_complete
  <2>2. rf_worker' \in RFWorkerRecord
    BY <1>1, <2>1 DEF RFWorkerRecord, RFBeforeDMA
  <2> QED  BY <1>1, <1>13, <2>2 DEF rf_dma_complete, RFTypeOK
<1>14. ASSUME rf_lock \/ rf_cond_wait \/ rf_wake \/ rf_unlock \/ rf_test PROVE RFTypeOK'
  <2>1. rf' \in RFRecord
    <3>1. [rf EXCEPT !.new_command_ready = FALSE, !.mutex = "free"] \in RFRecord
      BY <1>1 DEF RFRecord
    <3> QED  BY <1>1, <1>6, <1>14, <3>1 DEF rf_lock, rf_cond_wait, rf_wake, rf_unlock, rf_test
  <2>2. rf_worker' \in RFWorkerRecord
    <3>1. [rf_worker EXCEPT !.pc = "waiting", !.signalled = FALSE] \in RFWorkerRecord
      BY <1>1 DEF RFWorkerRecord, RFIdle
    <3> QED  BY <1>3, <1>14, <3>1 DEF rf_lock, rf_cond_wait, rf_wake, rf_unlock, rf_test,
       rf_goto, RFIdle
  <2>3. rf_past' = rf_past
    BY <1>14 DEF rf_lock, rf_cond_wait, rf_wake, rf_unlock, rf_test
  <2> QED  BY <1>1, <2>1, <2>2, <2>3 DEF RFTypeOK
<1>15. ASSUME rf_execute PROVE RFTypeOK'
  <2> DEFINE count == (RFWordModulus - rf.wc) % RFWordModulus
  <2>1. count \in 0 .. RFWordModulus - 1
    BY <1>1, RFRequestedType DEF RFRecord, RFRequested
  <2>2. rf_worker' = [rf_worker EXCEPT !.pc = "function", !.dar = rf.dar, !.count = count]
    BY <1>15 DEF rf_execute
  <2> HIDE DEF count
  <2>3. rf_worker' \in RFWorkerRecord
    BY <1>1, <2>1, <2>2 DEF RFRecord, RFWorkerRecord, RFBeforeDMA
  <2> QED  BY <1>1, <1>15, <2>3 DEF rf_execute, RFTypeOK
<1>16. ASSUME rf_function PROVE RFTypeOK'
  <2>1. rf' \in RFRecord
    BY <1>1, <1>16 DEF rf_function, RFRecord
  <2>2. rf_past' \in RFPastRecord
    BY <1>1, <1>16 DEF rf_function, RFPastRecord
  <2>3. rf_worker' \in RFWorkerRecord
    <3>1. \A w \in BOOLEAN, s \in BOOLEAN, pc \in RFBeforeDMA :
            /\ [rf_worker EXCEPT !.writes = w, !.pc = pc] \in RFWorkerRecord
            /\ [rf_worker EXCEPT !.writes = w, !.pc = pc, !.success = s] \in RFWorkerRecord
      BY <1>1 DEF RFWorkerRecord
    <3>2. rf.line_INIT \in BOOLEAN /\ rf_worker.success \in BOOLEAN
      BY <1>1 DEF RFRecord, RFWorkerRecord
    <3>3. PICK w \in BOOLEAN, s \in BOOLEAN, pc \in RFBeforeDMA :
            \/ rf_worker' = [rf_worker EXCEPT !.pc = "update"]
            \/ rf_worker' = [rf_worker EXCEPT !.writes = w, !.pc = pc]
            \/ rf_worker' = [rf_worker EXCEPT !.writes = w, !.pc = pc, !.success = s]
      <4>1. {"no_memory", "dma_done", "dma_wait"} \subseteq RFBeforeDMA
        BY DEF RFBeforeDMA
      <4>2. CASE rf_worker' = [rf_worker EXCEPT !.pc = "update"]
        BY <4>1, <4>2
      <4>3. CASE rf_worker' = [rf_worker EXCEPT !.writes = rf.fn \notin {"READ", "WRITE_CHECK"},
                                                !.pc = "no_memory"]
        BY <4>1, <4>3
      <4>4. CASE rf_worker' = [rf_worker EXCEPT !.writes = rf.fn \notin {"READ", "WRITE_CHECK"},
                       !.pc = IF rf.line_INIT THEN "dma_done" ELSE "dma_wait",
                       !.success = rf.line_INIT /\ @]
        <5> DEFINE w == rf.fn \notin {"READ", "WRITE_CHECK"}
                   pc == IF rf.line_INIT THEN "dma_done" ELSE "dma_wait"
                   s == rf.line_INIT /\ rf_worker.success
        <5>1. w \in BOOLEAN /\ pc \in RFBeforeDMA /\ s \in BOOLEAN
          BY <4>1
        <5>2. rf_worker' = [rf_worker EXCEPT !.writes = w, !.pc = pc, !.success = s]
          BY <4>4
        <5> HIDE DEF w, pc, s
        <5> QED  BY <5>1, <5>2
      <4> QED  BY <1>16, <4>2, <4>3, <4>4 DEF rf_function, rf_goto
    <3>4. [rf_worker EXCEPT !.pc = "update"] \in RFWorkerRecord
      BY <1>3
    <3>5. /\ [rf_worker EXCEPT !.writes = w, !.pc = pc] \in RFWorkerRecord
          /\ [rf_worker EXCEPT !.writes = w, !.pc = pc, !.success = s] \in RFWorkerRecord
      BY <3>1, Zenon
    <3> QED  BY <3>3, <3>4, <3>5, Zenon
  <2> QED  BY <2>1, <2>2, <2>3 DEF RFTypeOK
<1>17. ASSUME rf_no_memory PROVE RFTypeOK'
  BY <1>1, <1>3, <1>17 DEF rf_no_memory, rf_goto, RFRecord, RFTypeOK
<1>18. ASSUME rf_dma_done PROVE RFTypeOK'
  <2> DEFINE written == clip_into_range(rf_worker.dar, rf_worker.count)
  <2>1. written \in Int /\ rf_worker.count \in Int
    BY <1>1 DEF clip_into_range, RFWorkerRecord, RFAssumption
  <2>2. \A m \in Int, b \in BOOLEAN :
          /\ [rf_past EXCEPT !.moved = m, !.overwritten = b] \in RFPastRecord
          /\ [rf_past EXCEPT !.moved = m] \in RFPastRecord
    BY <1>1 DEF RFPastRecord
  <2>3. rf_past' \in RFPastRecord
    <3> DEFINE m == rf_past.moved + written
               n == rf_past.moved + rf_worker.count
               b == rf_past.overwritten \/ \E p \in rf_past.cmd : p.fn # "WRITE"
    <3>1. m \in Int /\ n \in Int /\ b \in BOOLEAN
      BY <1>1, <2>1 DEF RFPastRecord
    <3>2. \/ rf_past' = rf_past
          \/ rf_past' = [rf_past EXCEPT !.moved = m, !.overwritten = b]
          \/ rf_past' = [rf_past EXCEPT !.moved = n]
      BY <1>18 DEF rf_dma_done
    <3> HIDE DEF m, n, b
    <3> QED  BY <1>1, <2>2, <3>1, <3>2
  <2>4. rf' \in RFRecord
    <3>1. \A b \in BOOLEAN : /\ [rf EXCEPT !.nem = b] \in RFRecord
                             /\ [rf EXCEPT !.ned = b] \in RFRecord
                             /\ [rf EXCEPT !.wce = b] \in RFRecord
      BY <1>1 DEF RFRecord
    <3>2. \E b \in BOOLEAN : \/ rf' = [rf EXCEPT !.nem = b]
                             \/ rf' = [rf EXCEPT !.ned = b]
                             \/ rf' = [rf EXCEPT !.wce = b]
      <4>1. (rf.ned \/ ~rf_in_range) \in BOOLEAN
        OBVIOUS
      <4>2. \A differs \in {FALSE, rf.fn = "WRITE_CHECK"} : (rf.wce \/ differs) \in BOOLEAN
        OBVIOUS
      <4> QED  BY <1>18, <4>1, <4>2 DEF rf_dma_done
    <3> QED  BY <3>1, <3>2
  <2>5. rf_worker' \in RFWorkerRecord
    BY <1>3, <1>18 DEF rf_dma_done, rf_goto
  <2> QED  BY <2>3, <2>4, <2>5 DEF RFTypeOK
<1>19. ASSUME rf_update PROVE RFTypeOK'
  <2> DEFINE dar == (rf_worker.dar + rf_worker.count) % RFWords
  <2>1. dar \in 0 .. RFWords - 1
    <3>1. rf_worker.dar + rf_worker.count \in Int /\ RFWords \in Nat \ {0}
      BY <1>1 DEF RFWorkerRecord, RFAssumption
    <3> QED  BY <3>1, Remainder
  <2>2. rf' = [rf EXCEPT !.dar = dar, !.wc = 0] /\ 0 \in 0 .. RFWordModulus - 1
    BY <1>19 DEF rf_update, RFAssumption
  <2> HIDE DEF dar
  <2>3. rf' \in RFRecord
    BY <1>1, <2>1, <2>2 DEF RFRecord
  <2> QED  BY <1>1, <1>3, <1>19, <2>3 DEF rf_update, rf_goto, RFTypeOK
<1>20. ASSUME rf_finish PROVE RFTypeOK'
  <2> DEFINE b == rf.intr \/ (rf.ie /\ ~rf.line_INIT)
  <2>1. rf' = [rf EXCEPT !.rdy = TRUE, !.intr = b] /\ b \in BOOLEAN
    BY <1>20 DEF rf_finish
  <2> HIDE DEF b
  <2>2. rf' \in RFRecord
    BY <1>1, <2>1 DEF RFRecord
  <2>3. 0 \in 0 .. RFWordModulus - 1 /\ 0 \in 0 .. RFWords - 1
    BY DEF RFAssumption
  <2>4. rf_worker' \in RFWorkerRecord
    BY <1>1, <1>20, <2>3 DEF rf_finish, RFWorkerRecord
  <2> QED  BY <1>1, <1>20, <2>2, <2>4 DEF rf_finish, RFTypeOK
<1>21. ASSUME UNCHANGED rfvars PROVE RFTypeOK'
  BY <1>1, <1>21 DEF rfvars, RFTypeOK
<1> QED
  BY <1>7, <1>8, <1>9, <1>10, <1>11, <1>12, <1>13, <1>14, <1>15, <1>16, <1>17, <1>18, <1>19,
     <1>20,
     <1>21 DEF RFNext, RFWorkerStep

(* What the invariant says of one command.                                  *)
RFInOrder(p) ==
  /\ rf.rdy <=> ~rf.new_command_ready /\ rf_worker.pc \in RFIdle \cup {"Worker_Finish_unlock"}
  /\ rf.intr <=> rf.rdy /\ p.ie
  /\ ~rf.rdy =>
       /\ rf.fn = p.fn /\ rf.ie = p.ie
       /\ rf.new_command_ready => rf_worker.pc \in RFIdle
       /\ rf_worker.pc \in RFIdle \cup {"Worker_Execute"} => rf.dar = p.dar /\ rf.wc = p.wc
       /\ rf_worker.pc \in RFBeforeDMA \cup {"update"} =>
            rf_worker.dar = p.dar /\ rf_worker.count = RFRequested(p)
       /\ rf_worker.pc \in RFIdle \cup {"Worker_Execute"} \cup RFBeforeDMA => rf_past.moved = 0
       /\ rf_worker.pc \in RFBeforeDMA \ {"function"} => (rf_worker.writes <=> p.fn = "WRITE")
  /\ rf.rdy \/ rf_worker.pc \in {"update", "Worker_Finish"} =>
       rf.ned \/ rf.nem \/ rf_past.moved = RFRequested(p)
  /\ rf.rdy \/ rf_worker.pc = "Worker_Finish" =>
       rf.dar = (p.dar + RFRequested(p)) % RFWords /\ rf.wc = 0

RFOrder == RFOneCommand /\ \A p \in rf_past.cmd : RFInOrder(p)

LEMMA RFOrdered ==
  RFOrder => RFTransferExact /\ RFReadyMeansIdle /\ RFOneCommand /\ RFWorkerInStep /\ RFTransferDone
BY DEF RFOrder, RFInOrder, RFTransferExact, RFReadyMeansIdle, RFOneCommand, RFWorkerInStep,
       RFTransferDone, rf_err

(* Once its command is cut off, little is left to be kept.                  *)
LEMMA RFCutOff ==
  ASSUME rf_past'.cmd = {}, rf_past'.overwritten = rf_past.overwritten, RFOneCommand,
         rf'.line_INIT => rf'.go = "no", rf'.go = "locked" => rf'.rdy
  PROVE  RFOrder'
BY DEF RFOrder, RFOneCommand

(* A step of worker() or of the adapter that leaves GO, INIT and the history alone. *)
LEMMA RFAside ==
  ASSUME RFOneCommand, rf_past'.cmd = rf_past.cmd, rf_past'.disturbed = rf_past.disturbed,
         rf_past'.overwritten = rf_past.overwritten, rf'.line_INIT => rf.line_INIT,
         rf'.go = rf.go \/ rf'.go = "no", rf.rdy => rf'.rdy,
         \A p \in rf_past.cmd : RFInOrder(p)'
  PROVE  RFOrder'
BY DEF RFOrder, RFOneCommand

LEMMA RFIdlePart ==
  /\ \A pc \in RFIdle : pc \notin RFBeforeDMA \cup {"Worker_Execute", "update", "Worker_Finish",
                                                    "Worker_Finish_unlock"}
  /\ \A pc \in RFBeforeDMA : pc \notin {"Worker_Execute", "update", "Worker_Finish",
                                        "Worker_Finish_unlock"}
BY DEF RFIdle, RFBeforeDMA

(* The adapter's thread.                                                    *)
LEMMA RFAdapterOrder ==
  ASSUME RFAssumption, RFTypeOK, RFTypeOK', RFOrder,
         \/ \E cmd \in RFCommands : DCS(cmd)
         \/ go \/ go_signal
         \/ \E a \in RFAddresses : DAR(a)
         \/ rf_init_asserted \/ rf_init_negated \/ rf_dma_complete
  PROVE  RFOrder'
<1>1. RFOneCommand /\ \A p \in rf_past.cmd : RFInOrder(p)
  BY DEF RFOrder
<1>2. rf \in RFRecord /\ rf_worker \in RFWorkerRecord /\ rf_past \in RFPastRecord
  BY DEF RFTypeOK
<1>3. LET q == RFDisturbed([rf_past EXCEPT !.resets = @ + 1, !.cmd = {}], rf_busy)
      IN  q.cmd = {} /\ q.overwritten = rf_past.overwritten
  BY <1>2 DEF RFDisturbed, RFPastRecord
<1>4. ASSUME NEW cmd \in RFCommands, DCS(cmd) PROVE RFOrder'
  <2> DEFINE c == [rf EXCEPT !.fn = cmd.fn, !.ie = cmd.ie]
  <2>1. cmd.fn \in RFFunctions /\ cmd.ie \in BOOLEAN
    BY DEF RFAssumption
  <2>2. /\ c \in RFRecord /\ c.go = "no" /\ ~c.line_INIT /\ c.rdy = rf.rdy /\ c.intr = rf.intr
        /\ c.new_command_ready = rf.new_command_ready /\ c.dar = rf.dar /\ c.wc = rf.wc
        /\ c.ned = rf.ned /\ c.nem = rf.nem
    BY <1>2, <1>4, <2>1 DEF RFRecord, DCS
  <2>3. \/ rf' = rf_reset(c)
           /\ rf_past' = RFDisturbed([rf_past EXCEPT !.resets = @ + 1, !.cmd = {}], rf_busy)
        \/ rf.rdy /\ (rf' = c \/ rf' = [c EXCEPT !.go = "locked", !.mutex = "adapter"])
           /\ rf_past' = rf_past
    BY <1>4 DEF DCS
  <2> HIDE DEF c
  <2>4. CASE rf' = rf_reset(c)
             /\ rf_past' = RFDisturbed([rf_past EXCEPT !.resets = @ + 1, !.cmd = {}], rf_busy)
    <3>1. rf'.go = "no" /\ ~rf'.line_INIT
      BY <2>2, <2>4, RFResetType
    <3> QED  BY <1>1, <1>3, <2>4, <3>1, RFCutOff
  <2>5. CASE rf.rdy /\ (rf' = c \/ rf' = [c EXCEPT !.go = "locked", !.mutex = "adapter"])
             /\ rf_past' = rf_past
    <3>1. /\ ~rf'.line_INIT /\ rf'.rdy /\ rf'.intr = rf.intr
          /\ rf'.new_command_ready = rf.new_command_ready /\ rf'.dar = rf.dar /\ rf'.wc = rf.wc
          /\ rf'.ned = rf.ned /\ rf'.nem = rf.nem
      <4>1. /\ rf'.line_INIT = c.line_INIT /\ rf'.rdy = c.rdy /\ rf'.intr = c.intr
            /\ rf'.new_command_ready = c.new_command_ready /\ rf'.dar = c.dar /\ rf'.wc = c.wc
            /\ rf'.ned = c.ned /\ rf'.nem = c.nem
        BY <2>2, <2>5 DEF RFRecord
      <4> QED  BY <2>2, <2>5, <4>1
    <3>2. rf_worker' = rf_worker
      BY <1>4 DEF DCS
    <3>3. \A p \in rf_past.cmd : RFInOrder(p)'
      BY <1>1, <1>2, <2>5, <3>1, <3>2 DEF RFInOrder, RFRecord, RFRequested
    <3> QED  BY <1>1, <1>2, <2>5, <3>1, <3>3 DEF RFOrder, RFOneCommand, RFRecord
  <2> QED  BY <2>3, <2>4, <2>5
<1>5. ASSUME go PROVE RFOrder'
  <2>1. rf.go = "locked" /\ rf.rdy /\ ~rf.line_INIT /\ rf_worker' = rf_worker
    BY <1>1, <1>5 DEF go, RFOneCommand
  <2>2. CASE rf.fn = "NOP"
    <3>1. rf_past' = rf_past
      BY <1>5, <2>2 DEF go
    <3>2. \A p \in rf_past.cmd : RFInOrder(p)'
      BY <1>1, <1>2, <1>5, <2>1, <2>2, <3>1, RFGoRegisters DEF RFInOrder, RFRequested
    <3> QED  BY <1>1, <1>5, <2>1, <3>1, <3>2, RFGoRegisters DEF RFOrder, RFOneCommand
  <2>3. CASE rf.fn # "NOP"
    <3>1. rf_past'.cmd = {} \/ (rf_past'.cmd = {RFTaken} /\ rf_past'.moved = 0 /\ ~rf_busy
                                /\ ~rf_past'.disturbed)
      BY <1>2, <1>5, <2>1, <2>3, RFGo DEF RFPastRecord
    <3>2. rf_past'.overwritten = rf_past.overwritten
      BY <1>5, <2>1, <2>3, RFGo
    <3>3. ~rf'.line_INIT /\ rf'.go = "signal"
      BY <1>5, <2>1, RFGoRegisters
    <3>4. CASE rf_past'.cmd = {}
      BY <1>1, <3>2, <3>3, <3>4, RFCutOff
    <3>5. CASE rf_past'.cmd = {RFTaken} /\ rf_past'.moved = 0 /\ ~rf_busy /\ ~rf_past'.disturbed
      <4>1. /\ RFTaken.fn = rf.fn /\ RFTaken.ie = rf.ie /\ RFTaken.dar = rf.dar
            /\ RFTaken.wc = rf.wc
        BY DEF RFTaken
      <4>2. rf_worker.pc \in RFIdle
        BY <3>5 DEF rf_busy, RFIdle
      <4>3. /\ ~rf'.rdy /\ rf'.new_command_ready /\ ~rf'.intr /\ rf'.fn = rf.fn /\ rf'.ie = rf.ie
            /\ rf'.dar = rf.dar /\ rf'.wc = rf.wc
        BY <1>5, <2>1, <2>3, RFGoRegisters
      <4> HIDE DEF RFTaken
      <4>4. \A p \in rf_past'.cmd : RFInOrder(p)'
        BY <2>1, <3>5, <4>1, <4>2, <4>3, RFIdlePart DEF RFInOrder
      <4> QED  BY <1>1, <3>2, <3>3, <3>5, <4>4 DEF RFOrder, RFOneCommand
    <3> QED  BY <3>1, <3>4, <3>5
  <2> QED  BY <2>2, <2>3
<1>6. ASSUME go_signal PROVE RFOrder'
  <2>1. /\ rf'.go = "no" /\ rf'.line_INIT = rf.line_INIT /\ rf'.rdy = rf.rdy /\ rf'.intr = rf.intr
        /\ rf'.new_command_ready = rf.new_command_ready /\ rf'.dar = rf.dar /\ rf'.wc = rf.wc
        /\ rf'.ned = rf.ned /\ rf'.nem = rf.nem /\ rf'.fn = rf.fn /\ rf'.ie = rf.ie
    BY <1>2, <1>6 DEF go_signal, RFRecord
  <2>2. /\ rf_worker'.pc = rf_worker.pc /\ rf_worker'.dar = rf_worker.dar
        /\ rf_worker'.count = rf_worker.count /\ rf_worker'.writes = rf_worker.writes
    BY <1>2, <1>6 DEF go_signal, RFWorkerRecord
  <2>3. rf_past' = rf_past
    BY <1>6 DEF go_signal
  <2>4. \A p \in rf_past.cmd : RFInOrder(p)'
    BY <1>1, <2>1, <2>2, <2>3 DEF RFInOrder, RFRequested
  <2> QED  BY <1>1, <2>1, <2>3, <2>4, RFAside
<1>7. ASSUME NEW a \in RFAddresses, DAR(a) PROVE RFOrder'
  <2>1. rf_past'.cmd = {} /\ rf_past'.overwritten = rf_past.overwritten
    BY <1>2, <1>7 DEF DAR, RFPastRecord
  <2>2. ~rf'.line_INIT /\ rf'.go = "no"
    BY <1>2, <1>7 DEF DAR, RFRecord
  <2> QED  BY <1>1, <2>1, <2>2, RFCutOff
<1>8. ASSUME rf_init_asserted PROVE RFOrder'
  <2>1. rf'.go = "no"
    BY <1>2, <1>8, RFResetType DEF rf_init_asserted
  <2> QED  BY <1>1, <1>3, <1>8, <2>1, RFCutOff DEF rf_init_asserted
<1>9. ASSUME rf_init_negated PROVE RFOrder'
  <2>1. rf_past' = rf_past /\ rf_past.cmd = {} /\ rf.go = "no" /\ rf.line_INIT
    BY <1>1, <1>9 DEF rf_init_negated, RFOneCommand
  <2>2. rf'.go = "no" /\ rf'.rdy = rf.rdy
    BY <1>2, <1>9, <2>1 DEF rf_init_negated, RFRecord
  <2> QED  BY <1>1, <2>1, <2>2, RFCutOff
<1>10. ASSUME rf_dma_complete PROVE RFOrder'
  <2>1. rf' = rf /\ rf_past' = rf_past /\ rf_worker.pc = "dma_wait"
    BY <1>10 DEF rf_dma_complete
  <2>2. /\ rf_worker'.pc = "dma_done" /\ rf_worker'.dar = rf_worker.dar
        /\ rf_worker'.count = rf_worker.count /\ rf_worker'.writes = rf_worker.writes
    BY <1>2, <1>10 DEF rf_dma_complete, RFWorkerRecord
  <2>3. \A p \in rf_past.cmd : RFInOrder(p)'
    BY <1>1, <2>1, <2>2 DEF RFInOrder, RFRequested, RFIdle, RFBeforeDMA
  <2> QED  BY <1>1, <2>1, <2>3, RFAside
<1> QED  BY <1>4, <1>5, <1>6, <1>7, <1>8, <1>9, <1>10

(* worker().                                                                *)
LEMMA RFWorkerOrder ==
  ASSUME RFAssumption, RFTypeOK, RFTypeOK', RFOrder, RFWorkerStep
  PROVE  RFOrder'
<1>1. RFOneCommand /\ \A p \in rf_past.cmd : RFInOrder(p)
  BY DEF RFOrder
<1>2. rf \in RFRecord /\ rf_worker \in RFWorkerRecord /\ rf_past \in RFPastRecord
  BY DEF RFTypeOK
<1>3. ASSUME rf_lock \/ rf_cond_wait \/ rf_wake \/ rf_unlock PROVE RFOrder'
  <2>1. /\ rf'.go = rf.go /\ rf'.line_INIT = rf.line_INIT /\ rf'.rdy = rf.rdy
        /\ rf'.intr = rf.intr
        /\ rf'.new_command_ready = rf.new_command_ready /\ rf'.dar = rf.dar /\ rf'.wc = rf.wc
        /\ rf'.ned = rf.ned /\ rf'.nem = rf.nem /\ rf'.fn = rf.fn /\ rf'.ie = rf.ie
    BY <1>2, <1>3 DEF rf_lock, rf_cond_wait, rf_wake, rf_unlock, RFRecord
  <2>2. /\ rf_worker'.pc \in RFIdle
        /\ rf_worker.pc \in RFIdle \cup {"Worker_Finish_unlock"}
    BY <1>2, <1>3 DEF rf_lock, rf_cond_wait, rf_wake, rf_unlock, rf_goto, RFWorkerRecord,
       RFIdle
  <2>3. rf_past' = rf_past
    BY <1>3 DEF rf_lock, rf_cond_wait, rf_wake, rf_unlock
  <2>4. \A p \in rf_past.cmd : RFInOrder(p)'
    BY <1>1, <2>1, <2>2, <2>3, RFIdlePart DEF RFInOrder, RFRequested
  <2> QED  BY <1>1, <2>1, <2>3, <2>4, RFAside
<1>4. ASSUME rf_test PROVE RFOrder'
  <2>1. rf_past' = rf_past /\ rf_worker.pc = "test"
    BY <1>4 DEF rf_test
  <2>2. /\ rf'.go = rf.go /\ rf'.line_INIT = rf.line_INIT /\ rf'.rdy = rf.rdy
        /\ rf'.intr = rf.intr
        /\ rf'.dar = rf.dar /\ rf'.wc = rf.wc
        /\ rf'.ned = rf.ned /\ rf'.nem = rf.nem /\ rf'.fn = rf.fn /\ rf'.ie = rf.ie
    BY <1>2, <1>4 DEF rf_test, RFRecord
  <2>3. /\ rf.new_command_ready => ~rf'.new_command_ready /\ rf_worker'.pc = "Worker_Execute"
        /\ ~rf.new_command_ready => ~rf'.new_command_ready /\ rf_worker'.pc = "cond_wait"
    BY <1>2, <1>4 DEF rf_test, rf_goto, RFRecord, RFWorkerRecord
  <2>4. \A p \in rf_past.cmd : RFInOrder(p)'
    BY <1>1, <2>1, <2>2, <2>3 DEF RFInOrder, RFRequested, RFIdle, RFBeforeDMA
  <2> QED  BY <1>1, <2>1, <2>2, <2>4, RFAside
<1>5. ASSUME rf_execute PROVE RFOrder'
  <2>1. rf' = rf /\ rf_past' = rf_past /\ rf_worker.pc = "Worker_Execute"
    BY <1>5 DEF rf_execute
  <2>2. /\ rf_worker'.pc = "function" /\ rf_worker'.dar = rf.dar
        /\ rf_worker'.count = (RFWordModulus - rf.wc) % RFWordModulus
    BY <1>2, <1>5 DEF rf_execute, RFWorkerRecord
  <2>3. \A p \in rf_past.cmd : RFInOrder(p)'
    BY <1>1, <2>1, <2>2 DEF RFInOrder, RFRequested, RFIdle, RFBeforeDMA
  <2> QED  BY <1>1, <2>1, <2>3, RFAside
<1>6. ASSUME rf_function PROVE RFOrder'
  <2>1. rf_worker.pc = "function"
    BY <1>6 DEF rf_function
  <2>2. /\ rf'.go = rf.go /\ rf'.line_INIT = rf.line_INIT /\ rf'.rdy = rf.rdy
        /\ rf'.intr = rf.intr
        /\ rf'.new_command_ready = rf.new_command_ready /\ rf'.dar = rf.dar /\ rf'.wc = rf.wc
        /\ rf'.fn = rf.fn /\ rf'.ie = rf.ie
    BY <1>2, <1>6 DEF rf_function, RFRecord
  <2>3. /\ rf_past'.cmd = rf_past.cmd /\ rf_past'.disturbed = rf_past.disturbed
        /\ rf_past'.overwritten = rf_past.overwritten /\ rf_past'.moved = rf_past.moved
    BY <1>2, <1>6 DEF rf_function, RFPastRecord
  <2>4. rf_worker'.dar = rf_worker.dar /\ rf_worker'.count = rf_worker.count
    BY <1>2, <1>6 DEF rf_function, rf_goto, RFWorkerRecord
  <2>5. \/ rf_worker'.pc = "update" /\ rf'.ned
        \/ rf_worker'.pc \in {"no_memory", "dma_wait", "dma_done"}
           /\ (rf_worker'.writes <=> rf.fn \notin {"READ", "WRITE_CHECK"})
    BY <1>2, <1>6 DEF rf_function, rf_goto, RFWorkerRecord, RFRecord
  <2>6. \A p \in rf_past.cmd : RFInOrder(p)'
    <3> SUFFICES ASSUME NEW p \in rf_past.cmd PROVE RFInOrder(p)'
      OBVIOUS
    <3>1. RFInOrder(p) /\ p.fn \in {"WRITE", "READ", "WRITE_CHECK"}
      BY <1>1, <1>2 DEF RFPastRecord, RFAccepted, RFFunctions
    <3> QED  BY <2>1, <2>2, <2>3, <2>4, <2>5, <3>1 DEF RFInOrder, RFRequested, RFIdle,
       RFBeforeDMA
  <2> QED  BY <1>1, <2>2, <2>3, <2>6, RFAside
<1>7. ASSUME rf_no_memory PROVE RFOrder'
  <2>1. rf_past' = rf_past /\ rf_worker.pc = "no_memory" /\ rf' = [rf EXCEPT !.nem = TRUE]
    BY <1>7 DEF rf_no_memory
  <2>2. /\ rf'.go = rf.go /\ rf'.line_INIT = rf.line_INIT /\ rf'.rdy = rf.rdy
        /\ rf'.intr = rf.intr
        /\ rf'.new_command_ready = rf.new_command_ready /\ rf'.dar = rf.dar /\ rf'.wc = rf.wc
        /\ rf'.nem /\ rf'.fn = rf.fn /\ rf'.ie = rf.ie
    BY <1>2, <2>1 DEF RFRecord
  <2>3. /\ rf_worker'.pc = "update" /\ rf_worker'.dar = rf_worker.dar
        /\ rf_worker'.count = rf_worker.count
    BY <1>2, <1>7 DEF rf_no_memory, rf_goto, RFWorkerRecord
  <2>4. \A p \in rf_past.cmd : RFInOrder(p)'
    BY <1>1, <2>1, <2>2, <2>3 DEF RFInOrder, RFRequested, RFIdle, RFBeforeDMA
  <2> QED  BY <1>1, <2>1, <2>2, <2>4, RFAside
<1>8. ASSUME rf_dma_done PROVE RFOrder'
  <2> DEFINE written == clip_into_range(rf_worker.dar, rf_worker.count)
  <2>1. rf_worker.pc = "dma_done"
    BY <1>8 DEF rf_dma_done
  <2>2. /\ rf'.go = rf.go /\ rf'.line_INIT = rf.line_INIT /\ rf'.rdy = rf.rdy
        /\ rf'.intr = rf.intr
        /\ rf'.new_command_ready = rf.new_command_ready /\ rf'.dar = rf.dar /\ rf'.wc = rf.wc
        /\ rf'.fn = rf.fn /\ rf'.ie = rf.ie
    BY <1>2, <1>8 DEF rf_dma_done, RFRecord
  <2>3. /\ rf_worker'.pc = "update" /\ rf_worker'.dar = rf_worker.dar
        /\ rf_worker'.count = rf_worker.count
    BY <1>2, <1>8 DEF rf_dma_done, rf_goto, RFWorkerRecord
  <2>4. rf_past'.cmd = rf_past.cmd /\ rf_past'.disturbed = rf_past.disturbed
    BY <1>2, <1>8 DEF rf_dma_done, RFPastRecord
  <2>5. written \in Int /\ rf_worker.count \in Int /\ rf_past.moved \in Int
    BY <1>2 DEF clip_into_range, RFWorkerRecord, RFAssumption, RFPastRecord
  <2>6. /\ rf_worker.writes => rf'.ned \/ rf'.nem \/ (rf_past'.moved = rf_past.moved + rf_worker.count)
        /\ ~rf_worker.writes => rf'.nem \/ rf_past'.moved = rf_past.moved + rf_worker.count
    <3>1. CASE ~rf_worker.success /\ rf' = [rf EXCEPT !.nem = TRUE]
      BY <1>2, <3>1 DEF RFRecord
    <3>2. CASE /\ rf_worker.writes
               /\ rf' = [rf EXCEPT !.ned = @ \/ ~rf_in_range]
               /\ rf_past' = [rf_past EXCEPT !.moved = @ + written,
                                !.overwritten = @ \/ \E p \in rf_past.cmd : p.fn # "WRITE"]
      <4>1. rf'.ned \/ rf_in_range
        BY <1>2, <3>2 DEF RFRecord
      <4>2. rf_past'.moved = rf_past.moved + written
        BY <1>2, <3>2 DEF RFPastRecord
      <4>3. rf_in_range => written = rf_worker.count
        BY DEF rf_in_range
      <4> QED  BY <3>2, <4>1, <4>2, <4>3
    <3>3. CASE ~rf_worker.writes /\ rf_past' = [rf_past EXCEPT !.moved = @ + rf_worker.count]
      BY <1>2, <3>3 DEF RFPastRecord
    <3> QED  BY <1>8, <3>1, <3>2, <3>3 DEF rf_dma_done
  <2>7. rf_past'.overwritten = rf_past.overwritten
    <3>1. rf_worker.writes => \A p \in rf_past.cmd : p.fn = "WRITE" \/ rf.rdy
      BY <1>1, <2>1 DEF RFInOrder, RFBeforeDMA
    <3>2. rf.rdy => rf_past.cmd = {}
      BY <1>1, <2>1 DEF RFInOrder, RFIdle
    <3>3. rf_past.overwritten \in BOOLEAN
      BY <1>2 DEF RFPastRecord
    <3>4. \/ rf_past'.overwritten = rf_past.overwritten
          \/ rf_worker.writes /\ (rf_past'.overwritten <=>
                rf_past.overwritten \/ \E p \in rf_past.cmd : p.fn # "WRITE")
              /\ rf_past'.overwritten \in BOOLEAN
      BY <1>2, <1>8 DEF rf_dma_done, RFPastRecord
    <3> QED  BY <3>1, <3>2, <3>3, <3>4
  <2>8. \A p \in rf_past.cmd : RFInOrder(p)'
    <3> SUFFICES ASSUME NEW p \in rf_past.cmd PROVE RFInOrder(p)'
      OBVIOUS
    <3>1. RFInOrder(p) /\ rf_worker.writes \in BOOLEAN
      BY <1>1, <1>2 DEF RFWorkerRecord
    <3>2. ~rf.rdy /\ rf_past.moved = 0 /\ rf_worker.count = RFRequested(p)
      BY <2>1, <3>1 DEF RFInOrder, RFIdle, RFBeforeDMA
    <3>3. rf'.ned \/ rf'.nem \/ rf_past'.moved = RFRequested(p)
      BY <2>5, <2>6, <3>1, <3>2
    <3> QED  BY <2>1, <2>2, <2>3, <3>1, <3>2, <3>3 DEF RFInOrder, RFRequested, RFIdle,
       RFBeforeDMA
  <2> QED  BY <1>1, <2>2, <2>4, <2>7, <2>8, RFAside
<1>9. ASSUME rf_update PROVE RFOrder'
  <2>1. rf_past' = rf_past /\ rf_worker.pc = "update"
    BY <1>9 DEF rf_update
  <2>2. /\ rf'.go = rf.go /\ rf'.line_INIT = rf.line_INIT /\ rf'.rdy = rf.rdy
        /\ rf'.intr = rf.intr
        /\ rf'.new_command_ready = rf.new_command_ready /\ rf'.wc = 0
        /\ rf'.ned = rf.ned /\ rf'.nem = rf.nem /\ rf'.fn = rf.fn /\ rf'.ie = rf.ie
        /\ rf'.dar = (rf_worker.dar + rf_worker.count) % RFWords
    BY <1>2, <1>9 DEF rf_update, RFRecord
  <2>3. rf_worker'.pc = "Worker_Finish"
    BY <1>2, <1>9 DEF rf_update, rf_goto, RFWorkerRecord
  <2>4. \A p \in rf_past.cmd : RFInOrder(p)'
    BY <1>1, <2>1, <2>2, <2>3 DEF RFInOrder, RFRequested, RFIdle, RFBeforeDMA
  <2> QED  BY <1>1, <2>1, <2>2, <2>4, RFAside
<1>10. ASSUME rf_finish PROVE RFOrder'
  <2>1. rf_past' = rf_past /\ rf_worker.pc = "Worker_Finish"
    BY <1>10 DEF rf_finish
  <2>2. /\ rf'.go = rf.go /\ rf'.line_INIT = rf.line_INIT /\ rf'.rdy
        /\ rf'.new_command_ready = rf.new_command_ready /\ rf'.dar = rf.dar /\ rf'.wc = rf.wc
        /\ rf'.ned = rf.ned /\ rf'.nem = rf.nem
        /\ (rf'.intr <=> rf.intr \/ (rf.ie /\ ~rf.line_INIT))
    BY <1>2, <1>10 DEF rf_finish, RFRecord
  <2>3. rf_worker'.pc = "Worker_Finish_unlock"
    BY <1>2, <1>10 DEF rf_finish, RFWorkerRecord
  <2>4. \A p \in rf_past.cmd : RFInOrder(p)'
    <3>1. rf_past.cmd # {} => ~rf.line_INIT
      BY <1>1 DEF RFOneCommand
    <3> QED  BY <1>1, <2>1, <2>2, <2>3, <3>1 DEF RFInOrder, RFRequested, RFIdle, RFBeforeDMA
  <2> QED  BY <1>1, <2>1, <2>2, <2>4, RFAside
<1> QED
  BY <1>3, <1>4, <1>5, <1>6, <1>7, <1>8, <1>9, <1>10 DEF RFWorkerStep

(* The RF11: RDY means that the command has done what it asked for, and comes with its *)
(* interrupt; a transfer without an error has moved its words.              *)
THEOREM RFCommandIsExact == RFSpec => []RFCommandExact
<1> USE RFAssumption
<1>1. RFStart => RFTypeOK /\ RFOrder
  <2> SUFFICES ASSUME RFStart PROVE RFTypeOK /\ RFOrder
    OBVIOUS
  <2>1. 0 \in 0 .. RFWordModulus - 1 /\ 0 \in 0 .. RFWords - 1 /\ "NOP" \in RFFunctions
    BY DEF RFAssumption, RFFunctions
  <2>2. rf \in RFRecord
    BY <2>1 DEF RFStart, RFRecord
  <2>3. rf_worker \in RFWorkerRecord
    BY <2>1 DEF RFStart, RFWorkerRecord, RFIdle
  <2>4. rf_past \in RFPastRecord
    BY DEF RFStart, RFPastRecord
  <2>5. RFOrder
    BY DEF RFStart, RFOrder, RFOneCommand
  <2> QED  BY <2>2, <2>3, <2>4, <2>5 DEF RFTypeOK
<1>2. RFTypeOK /\ RFOrder /\ [RFNext]_rfvars => (RFTypeOK /\ RFOrder)'
  <2> SUFFICES ASSUME RFTypeOK, RFOrder, [RFNext]_rfvars PROVE RFTypeOK' /\ RFOrder'
    OBVIOUS
  <2>1. RFTypeOK'
    BY RFTypeStep
  <2>2. CASE UNCHANGED rfvars
    BY <2>1, <2>2 DEF rfvars, RFOrder, RFOneCommand, RFInOrder, RFRequested
  <2>3. CASE RFNext
    BY <2>1, <2>3, RFAdapterOrder, RFWorkerOrder DEF RFNext
  <2> QED  BY <2>1, <2>2, <2>3
<1>3. RFTypeOK /\ RFOrder => RFCommandExact
  BY RFOrdered DEF RFCommandExact
<1> QED  BY <1>1, <1>2, <1>3, PTL DEF RFSpec

=============================================================================
