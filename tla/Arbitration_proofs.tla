------------------------- MODULE Arbitration_proofs -------------------------
(***************************************************************************)
(* Proofs about the two main loops of the PRUs.  UnibusArbitration: for     *)
(* every set of interrupt levels, every line of devices and boards and every *)
(* kind of arbitrator.  QbusArbitration: for every set of levels, all DMAs,  *)
(* cycles and addresses, and every size of the blocks.  Both as long as no   *)
(* other board requests the bus on a line of an emulated device.            *)
(***************************************************************************)
EXTENDS BusArbitration, Masks_proofs, SequenceTheorems

(* The priority encoders find a line of every nonempty mask.                *)
LEMMA HighestLine ==
  ASSUME NEW mask, mask \subseteq Lines, mask # {}
  PROVE  Max(mask) \in mask
<1>1. Lines \subseteq 0 .. NP
  BY ArbitrationAssumption DEF Lines
<1>2. IsFiniteSet(0 .. NP)
  <2>1. 0 \in Int /\ NP \in Int
    BY ArbitrationAssumption DEF Lines
  <2> QED
    BY <2>1, FS_Interval
<1>3. IsFiniteSet(mask)
  BY <1>1, <1>2, FS_Subset
<1>4. \A y \in mask : y \in Int
  BY <1>1
<1> QED
  BY <1>3, <1>4, HighestBit

(* The CPU starts at one of its priority levels.                            *)
LEMMA InitialLevel == Max(RunLevels) \in RunLevels
<1>1. RunLevels \subseteq 0 .. CPU_PRIORITY_LEVEL_FETCHING
  BY ArbitrationAssumption
<1>2. IsFiniteSet(0 .. CPU_PRIORITY_LEVEL_FETCHING)
  <2>1. 0 \in Int /\ CPU_PRIORITY_LEVEL_FETCHING \in Int
    BY ArbitrationAssumption
  <2> QED
    BY <2>1, FS_Interval
<1>3. IsFiniteSet(RunLevels)
  BY <1>1, <1>2, FS_Subset
<1> QED
  BY <1>1, <1>3, HighestBit, ArbitrationAssumption

(* The initial states.                                                      *)
LEMMA InitSafe == ArbInit => ArbSafe
<1> SUFFICES ASSUME ArbInit PROVE ArbSafe
  OBVIOUS
<1> USE DEF ArbInit
<1>1. ArbTypeOK
  BY InitialLevel, ArbitrationAssumption DEF ArbTypeOK, sm_arb_reset, Idle, Lines,
     ArbitrationState, LatchState, MasterState, ArbitratorState, PhysicalState, BoardState
<1>2. SingleMaster /\ OneGrantee
  BY DEF SingleMaster, OneGrantee
<1>3. ModesOK /\ OneGrant
  BY ArbitrationAssumption DEF ModesOK, OneGrant, AtMostOne, sm_arb_reset, waiting,
     emulate_cpu
<1>4. LinesOK /\ StartOK
  <2>1. data_master.state = "none" /\ waiting = {} /\ ~latch.SACK /\ ~latch.BBSY
    BY DEF sm_arb_reset, waiting, Idle
  <2>2. board.granted = {} /\ ~board.SACK /\ ~board.BBSY
    OBVIOUS
  <2> QED
    BY <2>1, <2>2 DEF LinesOK, StartOK
<1>5. GrantsOK
  BY DEF GrantsOK, TakenByPru, OfferedToBoard, KeptForBoard, OfferedToPru, AboutToTake
<1> QED
  BY <1>1, <1>2, <1>3, <1>4, <1>5 DEF ArbSafe, ArbIndInv

-----------------------------------------------------------------------------
(* The steps of ARM and of time: they leave the bus alone, and what the PRU  *)
(* keeps of the grants.                                                     *)
BusUnchanged ==
  /\ UNCHANGED <<cpu, latch, cpu_grant_mask, data_master, physical, board>>
  /\ waiting' = waiting
  /\ sm_arb'.arbitrator_grant_mask = sm_arb.arbitrator_grant_mask
  /\ sm_arb'.cpu_request => sm_arb.cpu_request \/ emulate_cpu
  /\ pc' \in {pc, "slave"}

arm_or_time ==
  \/ no_command
  \/ \E line \in DeviceLevels : ARM2PRU_REQUEST(line) \/ ARM2PRU_INTR_CANCEL(line)
  \/ ARM2PRU_CPU_ACCESS \/ ARM2PRU_ARB_GRANT_INTR_REQUESTS
  \/ \E level \in RunLevels : unibone_prioritylevelchange(level)
  \/ intr_slave_ack \/ deviceregister_ack \/ timeout_reached \/ bus_INIT
  \/ UNCHANGED vars

LEMMA BusLeftAlone ==
  ASSUME ArbTypeOK, arm_or_time
  PROVE  BusUnchanged
<1> USE DEF ArbTypeOK, ArbitrationState, BusUnchanged, waiting
<1>1. CASE no_command
  BY <1>1 DEF no_command, Command
<1>2. ASSUME NEW line \in DeviceLevels, ARM2PRU_REQUEST(line) PROVE BusUnchanged
  BY <1>2 DEF ARM2PRU_REQUEST, Command
<1>3. ASSUME NEW line \in DeviceLevels, ARM2PRU_INTR_CANCEL(line) PROVE BusUnchanged
  BY <1>3 DEF ARM2PRU_INTR_CANCEL, Command
<1>4. CASE ARM2PRU_CPU_ACCESS
  BY <1>4 DEF ARM2PRU_CPU_ACCESS, Command
<1>5. CASE ARM2PRU_ARB_GRANT_INTR_REQUESTS
  BY <1>5 DEF ARM2PRU_ARB_GRANT_INTR_REQUESTS, Command
<1>6. ASSUME NEW level \in RunLevels, unibone_prioritylevelchange(level) PROVE BusUnchanged
  BY <1>6 DEF unibone_prioritylevelchange
<1>7. CASE intr_slave_ack \/ deviceregister_ack \/ timeout_reached \/ bus_INIT
  BY <1>7 DEF intr_slave_ack, deviceregister_ack, timeout_reached, bus_INIT
<1>8. CASE UNCHANGED vars
  BY <1>8 DEF vars
<1> QED
  BY <1>1, <1>2, <1>3, <1>4, <1>5, <1>6, <1>7, <1>8 DEF arm_or_time

(* Every step is one of these, one of the PRU's stages, a start or stop of   *)
(* the CPU, or a step of a board or of the physical CPU.                    *)
LEMMA StepCases ==
  ASSUME [ArbNext]_vars
  PROVE  \/ arm_or_time
         \/ main_slave \/ sm_arb_worker_cpu \/ sm_arb_worker_device \/ main_master
         \/ sm_intr_slave \/ ARM2PRU_CPU_ENABLE
         \/ \E line \in BoardLevels : board_request(line) \/ board_accept(line)
         \/ board_seize \/ board_transfer \/ board_done
         \/ \E line \in Lines : physical_grant(line)
         \/ physical_ungrant \/ physical_cycle
BY DEF ArbNext, main_loop, arm_or_time
-----------------------------------------------------------------------------
(* The emulated arbitrator grants one line at most, and with SACK none: it    *)
(* keeps its grant, ends it, or grants the highest requested line.           *)
ArbitratedTo(new) ==
  /\ new[1] \subseteq Lines /\ new[2] \in {"off", "running", "expired"}
  /\ \/ new[1] = {} \/ new[1] = sm_arb.arbitrator_grant_mask
     \/ \E line \in Lines : new[1] = {line}
  /\ SACK => new[1] = {}

LEMMA ArbitratedOnce ==
  ASSUME ArbTypeOK
  PROVE  ArbitratedTo(Arbitrate(sm_arb.arbitrator_grant_mask))
<1> DEFINE mask == BusRequests \cap IntrLevels
<1>1. mask # {} => Max(mask) \in Lines
  <2>1. mask \subseteq Lines
    BY DEF Lines
  <2> QED
    BY <2>1, HighestLine
<1>2. /\ sm_arb.arbitrator_grant_mask \subseteq Lines
      /\ timeout_SACK \in {"off", "running", "expired"}
  BY DEF ArbTypeOK, ArbitrationState
<1>3. NP \in Lines
  BY DEF Lines
<1> HIDE DEF mask
<1>4. mask = BusRequests \cap IntrLevels
  BY DEF mask
<1> QED
  BY <1>1, <1>2, <1>3, <1>4 DEF Arbitrate, ArbitratedTo

(* The state keeps its type; a grant and a master are lines of the bus.      *)
LEMMA TypeStep ==
  ASSUME ArbTypeOK, [ArbNext]_vars
  PROVE  ArbTypeOK'
<1> USE ArbitrationAssumption DEF ArbTypeOK
<1>1. CASE arm_or_time
  <2>1. CASE no_command
    BY <2>1 DEF no_command, Command
  <2>2. ASSUME NEW line \in DeviceLevels, ARM2PRU_REQUEST(line) PROVE ArbTypeOK'
    <3>1. sm_arb' \in ArbitrationState
      BY <2>2 DEF ARM2PRU_REQUEST, Command, ArbitrationState
    <3> QED
      BY <2>2, <3>1 DEF ARM2PRU_REQUEST, Command
  <2>3. ASSUME NEW line \in DeviceLevels, ARM2PRU_INTR_CANCEL(line) PROVE ArbTypeOK'
    <3>1. sm_arb' \in ArbitrationState
      BY <2>3 DEF ARM2PRU_INTR_CANCEL, Command, ArbitrationState
    <3> QED
      BY <2>3, <3>1 DEF ARM2PRU_INTR_CANCEL, Command
  <2>4. CASE ARM2PRU_CPU_ACCESS
    <3>1. sm_arb' \in ArbitrationState
      BY <2>4 DEF ARM2PRU_CPU_ACCESS, Command, ArbitrationState
    <3> QED
      BY <2>4, <3>1 DEF ARM2PRU_CPU_ACCESS, Command
  <2>5. CASE ARM2PRU_ARB_GRANT_INTR_REQUESTS
    <3>1. arbitrator' \in ArbitratorState
      BY <2>5 DEF ARM2PRU_ARB_GRANT_INTR_REQUESTS, ArbitratorState
    <3> QED
      BY <2>5, <3>1 DEF ARM2PRU_ARB_GRANT_INTR_REQUESTS, Command
  <2>6. ASSUME NEW level \in RunLevels, unibone_prioritylevelchange(level) PROVE ArbTypeOK'
    <3>1. arbitrator' \in ArbitratorState
      BY <2>6 DEF unibone_prioritylevelchange, ArbitratorState
    <3> QED
      BY <2>6, <3>1 DEF unibone_prioritylevelchange
  <2>7. CASE intr_slave_ack \/ deviceregister_ack \/ timeout_reached
    BY <2>7 DEF intr_slave_ack, deviceregister_ack, timeout_reached
  <2>8. CASE bus_INIT
    BY <2>8 DEF bus_INIT
  <2>9. CASE UNCHANGED vars
    BY <2>9 DEF vars
  <2> QED
    BY <1>1, <2>1, <2>2, <2>3, <2>4, <2>5, <2>6, <2>7, <2>8, <2>9 DEF arm_or_time
<1>2. CASE main_slave
  <2>1. data_slave' \in BOOLEAN /\ deviceregister' \in BOOLEAN
    BY <1>2 DEF main_slave, sm_data_slave
  <2>2. sm_arb' \in ArbitrationState
    BY <1>2 DEF main_slave, ArbitrationState, PhysicalState
  <2>3. latch' \in LatchState
    BY <1>2, <2>1, <2>2 DEF main_slave, LatchState, ArbitrationState, PhysicalState
  <2>4. cpu_grant_mask' \subseteq Lines
    BY <1>2 DEF main_slave, PhysicalState
  <2>5. arm_requests' \subseteq DeviceLevels \cup {CpuAccess}
    BY <1>2 DEF main_slave
  <2> QED
    BY <1>2, <2>1, <2>2, <2>3, <2>4, <2>5 DEF main_slave, AfterBus
<1>3. CASE sm_arb_worker_cpu
  <2>1. ArbitratedTo(Arbitrate(sm_arb.arbitrator_grant_mask))
    BY ArbitratedOnce
  <2>2. sm_arb' \in ArbitrationState
    BY <1>3, <2>1 DEF sm_arb_worker_cpu, ArbitratedTo, ArbitrationState
  <2>3. latch' \in LatchState
    BY <1>3, <2>1 DEF sm_arb_worker_cpu, ArbitratedTo, LatchState
  <2>4. arbitrator' \in ArbitratorState
    BY <1>3 DEF sm_arb_worker_cpu, ArbitratorState
  <2> QED
    BY <1>3, <2>1, <2>2, <2>3, <2>4 DEF sm_arb_worker_cpu, ArbitratedTo
<1>4. CASE sm_arb_worker_device
  <2>1. CASE cpu_access_granted
    <3>1. sm_arb' = [sm_arb EXCEPT !.cpu_request = FALSE]
      BY <1>4, <2>1 DEF sm_arb_worker_device
    <3>2. sm_arb' \in ArbitrationState
      BY <3>1 DEF ArbitrationState
    <3>3. data_master' = [state |-> "start", user |-> CpuAccess]
      BY <1>4, <2>1 DEF sm_arb_worker_device
    <3>4. data_master' \in MasterState
      BY <3>3 DEF MasterState
    <3> QED
      BY <1>4, <2>1, <3>2, <3>4 DEF sm_arb_worker_device, AfterBus
  <2>2. CASE ~cpu_access_granted /\ device_granted
    <3>1. sm_arb' \in ArbitrationState
      BY <2>2 DEF device_granted, ArbitrationState
    <3>2. latch' \in LatchState
      BY <2>2 DEF device_granted, ArbitrationState, LatchState
    <3> QED
      BY <1>4, <2>2, <3>1, <3>2 DEF sm_arb_worker_device, device_granted, AfterBus
  <2>3. CASE ~cpu_access_granted /\ device_bus_free
    <3>1. sm_arb' \in ArbitrationState
      BY <2>3 DEF device_bus_free, ArbitrationState
    <3>2. latch' \in LatchState
      BY <2>3 DEF device_bus_free, ArbitrationState, LatchState
    <3>3. Max(waiting) \in Lines
      <4>1. waiting \subseteq Lines
        BY DEF waiting, ArbitrationState
      <4> QED
        BY <2>3, <4>1, HighestLine DEF device_bus_free, waiting
    <3>4. data_master' \in MasterState
      BY <2>3, <3>3 DEF device_bus_free, waiting, MasterState
    <3> QED
      BY <1>4, <2>3, <3>1, <3>2, <3>4 DEF sm_arb_worker_device, AfterBus
  <2> QED
    BY <1>4, <2>1, <2>2, <2>3 DEF sm_arb_worker_device
<1>5. CASE main_master
  <2>1. latch' \in LatchState
    BY <1>5 DEF main_master, LatchState
  <2>2. NP \in Lines
    BY <1>5 DEF Lines
  <2>3. data_master' \in {data_master, Idle, [data_master EXCEPT !.state = "1"], 
                          [data_master EXCEPT !.state = "2"]}
    BY <1>5 DEF main_master
  <2>4. data_master' \in MasterState
    BY <1>5, <2>1, <2>2, <2>3 DEF MasterState, Idle
  <2>5. deviceregister' \in BOOLEAN
    BY <1>5 DEF main_master
  <2>6. arm_requests' \subseteq DeviceLevels \cup {CpuAccess}
    BY <1>5 DEF main_master
  <2> QED
    BY <1>5, <2>1, <2>2, <2>3, <2>4, <2>5, <2>6 DEF main_master, AfterBus
<1>6. CASE sm_intr_slave
  <2>1. latch' \in LatchState
    BY <1>6 DEF sm_intr_slave, LatchState
  <2>2. arbitrator' \in ArbitratorState
    BY <1>6 DEF sm_intr_slave, ArbitratorState
  <2> QED
    BY <1>6, <2>1, <2>2 DEF sm_intr_slave
<1>7. CASE ARM2PRU_CPU_ENABLE
  <2>1. sm_arb' \in ArbitrationState
    BY <1>7 DEF ARM2PRU_CPU_ENABLE, Command, sm_arb_reset, ArbitrationState
  <2>2. latch' \in LatchState
    BY <1>7 DEF ARM2PRU_CPU_ENABLE, LatchState
  <2> QED
    BY <1>7, <2>1, <2>2 DEF ARM2PRU_CPU_ENABLE, Command
<1>8. ASSUME NEW line \in BoardLevels, board_request(line) PROVE ArbTypeOK'
  <2>1. board' \in BoardState
    BY <1>8 DEF board_request, BoardStep, BoardState
  <2> QED
    BY <1>8, <2>1 DEF board_request, BoardStep
<1>9. ASSUME NEW line \in BoardLevels, board_accept(line) PROVE ArbTypeOK'
  <2>1. board' \in BoardState
    BY <1>9 DEF board_accept, BoardStep, BoardState
  <2> QED
    BY <1>9, <2>1 DEF board_accept, BoardStep
<1>10. CASE board_seize
  <2>1. board' \in BoardState
    BY <1>10 DEF board_seize, BoardStep, BoardState
  <2> QED
    BY <1>10, <2>1 DEF board_seize, BoardStep
<1>11. CASE board_transfer
  <2>1. board' \in BoardState
    BY <1>11 DEF board_transfer, BoardStep, BoardState
  <2> QED
    BY <1>11, <2>1 DEF board_transfer, BoardStep
<1>12. CASE board_done
  <2>1. board' \in BoardState
    BY <1>12 DEF board_done, BoardStep, BoardState
  <2> QED
    BY <1>12, <2>1 DEF board_done, BoardStep
<1>13. ASSUME NEW line \in Lines, physical_grant(line) PROVE ArbTypeOK'
  <2>1. physical' \in PhysicalState
    BY <1>13 DEF physical_grant, PhysicalStep, PhysicalState
  <2> QED
    BY <1>13, <2>1 DEF physical_grant, PhysicalStep
<1>14. CASE physical_ungrant
  <2>1. physical' \in PhysicalState
    BY <1>14 DEF physical_ungrant, PhysicalStep, PhysicalState
  <2> QED
    BY <1>14, <2>1 DEF physical_ungrant, PhysicalStep
<1>15. CASE physical_cycle
  <2>1. physical' \in PhysicalState
    BY <1>15 DEF physical_cycle, PhysicalStep, PhysicalState
  <2> QED
    BY <1>15, <2>1 DEF physical_cycle, PhysicalStep
<1> QED
  BY <1>1, <1>2, <1>3, <1>4, <1>5, <1>6, <1>7, <1>8,
     <1>9, <1>10, <1>11, <1>12, <1>13, <1>14, <1>15, StepCases

-----------------------------------------------------------------------------
(* What sm_arb_worker_device() and a state of the data master do to the lines. *)
DeviceEffect ==
  /\ UNCHANGED <<cpu, cpu_grant_mask, physical, board>> /\ pc = "arb_device"
  /\ latch'.BBSY = latch.BBSY /\ latch'.grants = latch.grants
  /\ sm_arb'.arbitrator_grant_mask = sm_arb.arbitrator_grant_mask
  /\ pc' = AfterBus
  /\ \/ /\ cpu_access_granted /\ ~sm_arb'.cpu_request
        /\ waiting' = waiting /\ latch'.SACK = latch.SACK /\ data_master'.state = "start"
     \/ /\ waiting = {} /\ sm_arb'.cpu_request = sm_arb.cpu_request
        /\ waiting' \subseteq cpu_grant_mask \cap DeviceLevels
        /\ latch'.SACK <=> latch.SACK \/ waiting' # {}
        /\ UNCHANGED data_master
     \/ /\ waiting # {} /\ sm_arb'.cpu_request = sm_arb.cpu_request
        /\ latch'.SACK = latch.SACK
        /\ \/ waiting' = waiting /\ UNCHANGED data_master
           \/ waiting' = {} /\ data_master'.state = "start" /\ ~BBSY

LEMMA DeviceStep ==
  ASSUME ArbTypeOK, sm_arb_worker_device
  PROVE  DeviceEffect
<1> USE DEF ArbTypeOK, ArbitrationState, LatchState, waiting
<1>1. CASE cpu_access_granted
  BY <1>1 DEF sm_arb_worker_device, DeviceEffect
<1>2. CASE ~cpu_access_granted /\ device_granted
  <2>1. waiting' \subseteq cpu_grant_mask \cap DeviceLevels
    BY <1>2 DEF device_granted
  <2>2. latch'.SACK <=> latch.SACK \/ waiting' # {}
    BY <1>2 DEF device_granted
  <2>3. /\ latch'.BBSY = latch.BBSY /\ latch'.grants = latch.grants
        /\ sm_arb'.arbitrator_grant_mask = sm_arb.arbitrator_grant_mask
        /\ sm_arb'.cpu_request = sm_arb.cpu_request
        /\ waiting = {} /\ UNCHANGED data_master
    BY <1>2 DEF device_granted
  <2> HIDE DEF ArbTypeOK, waiting
  <2> QED
    BY <1>2, <2>1, <2>2, <2>3 DEF sm_arb_worker_device, DeviceEffect
<1>3. CASE ~cpu_access_granted /\ device_bus_free
  <2>1. /\ latch'.BBSY = latch.BBSY /\ latch'.grants = latch.grants
        /\ latch'.SACK = latch.SACK
        /\ sm_arb'.arbitrator_grant_mask = sm_arb.arbitrator_grant_mask
        /\ sm_arb'.cpu_request = sm_arb.cpu_request
        /\ waiting # {}
    BY <1>3 DEF device_bus_free
  <2>2. \/ waiting' = waiting /\ UNCHANGED data_master
        \/ waiting' = {} /\ data_master'.state = "start" /\ ~BBSY
    BY <1>3 DEF device_bus_free
  <2> HIDE DEF ArbTypeOK, waiting
  <2> QED
    BY <1>3, <2>1, <2>2 DEF sm_arb_worker_device, DeviceEffect
<1> QED
  BY <1>1, <1>2, <1>3 DEF sm_arb_worker_device

MasterEffect ==
  /\ UNCHANGED <<cpu, cpu_grant_mask, physical, board, sm_arb>> /\ waiting' = waiting
  /\ latch'.grants = latch.grants /\ pc' = AfterBus /\ pc = "slave"
  /\ \/ /\ data_master.state = "start" /\ data_master'.state = "1"
        /\ latch'.BBSY /\ latch'.SACK = latch.SACK
     \/ /\ data_master.state = "1" /\ data_master'.state = "2"
        /\ latch'.BBSY = latch.BBSY /\ ~latch'.SACK
     \/ /\ data_master.state = "2" /\ data_master'.state = "none"
        /\ ~latch'.BBSY /\ latch'.SACK = latch.SACK
     \/ data_master.state = "2" /\ UNCHANGED <<data_master, latch>>

LEMMA MasterStep ==
  ASSUME ArbTypeOK, main_master
  PROVE  MasterEffect
<1> USE DEF ArbTypeOK, LatchState, MasterState, main_master, Idle
<1>1. latch'.grants = latch.grants /\ waiting' = waiting
  BY DEF waiting
<1>2. \/ /\ data_master.state = "start" /\ data_master'.state = "1"
         /\ latch'.BBSY /\ latch'.SACK = latch.SACK
      \/ /\ data_master.state = "1" /\ data_master'.state = "2"
         /\ latch'.BBSY = latch.BBSY /\ ~latch'.SACK
      \/ /\ data_master.state = "2" /\ data_master'.state = "none"
         /\ ~latch'.BBSY /\ latch'.SACK = latch.SACK
      \/ data_master.state = "2" /\ UNCHANGED <<data_master, latch>>
  <2>1. CASE data_master.state = "start"
    BY <2>1
  <2>2. CASE data_master.state = "1"
    BY <2>2
  <2>3. CASE data_master.state = "2"
    BY <2>3
  <2> QED
    BY <2>1, <2>2, <2>3
<1> QED
  BY <1>1, <1>2 DEF MasterEffect

(* The modes of the PRU.                                                    *)
LEMMA ModesStep ==
  ASSUME ArbTypeOK, ModesOK, [ArbNext]_vars
  PROVE  ModesOK'
<1> USE DEF ModesOK, emulate_cpu, ArbTypeOK, ArbitrationState, LatchState, MasterState,
       PhysicalState, BoardState
<1>1. CASE arm_or_time
  BY <1>1, BusLeftAlone DEF BusUnchanged
<1>2. CASE main_slave
  BY <1>2 DEF main_slave, sm_data_slave, AfterBus
<1>3. CASE sm_arb_worker_cpu
  BY <1>3 DEF sm_arb_worker_cpu
<1>4. CASE sm_arb_worker_device
  BY <1>4 DEF sm_arb_worker_device, device_granted, device_bus_free, AfterBus
<1>5. CASE main_master
  BY <1>5 DEF main_master, AfterBus, Idle
<1>6. CASE sm_intr_slave
  BY <1>6 DEF sm_intr_slave
<1>7. CASE ARM2PRU_CPU_ENABLE
  BY <1>7 DEF ARM2PRU_CPU_ENABLE, Command, sm_arb_reset
<1>8. ASSUME NEW line \in BoardLevels, board_request(line) PROVE ModesOK'
  BY <1>8 DEF board_request, BoardStep
<1>9. ASSUME NEW line \in BoardLevels, board_accept(line) PROVE ModesOK'
  BY <1>9 DEF board_accept, BoardStep
<1>10. CASE board_seize
  BY <1>10 DEF board_seize, BoardStep
<1>11. CASE board_transfer
  BY <1>11 DEF board_transfer, BoardStep
<1>12. CASE board_done
  BY <1>12 DEF board_done, BoardStep
<1>13. ASSUME NEW line \in Lines, physical_grant(line) PROVE ModesOK'
  BY <1>13 DEF physical_grant, PhysicalStep
<1>14. CASE physical_ungrant
  BY <1>14 DEF physical_ungrant, PhysicalStep
<1>15. CASE physical_cycle
  BY <1>15 DEF physical_cycle, PhysicalStep
<1> QED
  BY <1>1, <1>2, <1>3, <1>4, <1>5, <1>6, <1>7, <1>8,
     <1>9, <1>10, <1>11, <1>12, <1>13, <1>14, <1>15, StepCases

(* No piece of the chain gets a second grant.                                *)
LEMMA OneGrantStep ==
  ASSUME ArbTypeOK, ModesOK, OneGrant, [ArbNext]_vars
  PROVE  OneGrant'
<1> USE DEF OneGrant, AtMostOne, waiting, ArbTypeOK, ArbitrationState, LatchState,
       MasterState, PhysicalState, BoardState
<1>1. CASE arm_or_time
  BY <1>1, BusLeftAlone DEF BusUnchanged
<1>2. CASE main_slave
  BY <1>2 DEF main_slave, sm_data_slave, AfterBus, ModesOK, emulate_cpu
<1>3. CASE sm_arb_worker_cpu
  <2>1. ArbitratedTo(Arbitrate(sm_arb.arbitrator_grant_mask))
    BY ArbitratedOnce
  <2> QED
    BY <1>3, <2>1 DEF sm_arb_worker_cpu, ArbitratedTo
<1>4. CASE sm_arb_worker_device
  BY <1>4, DeviceStep DEF DeviceEffect, AfterBus
<1>5. CASE main_master
  BY <1>5, MasterStep DEF MasterEffect, AfterBus
<1>6. CASE sm_intr_slave
  BY <1>6 DEF sm_intr_slave
<1>7. CASE ARM2PRU_CPU_ENABLE
  BY <1>7 DEF ARM2PRU_CPU_ENABLE, Command, sm_arb_reset
<1>8. ASSUME NEW line \in BoardLevels, board_request(line) PROVE OneGrant'
  BY <1>8 DEF board_request, BoardStep
<1>9. ASSUME NEW line \in BoardLevels, board_accept(line) PROVE OneGrant'
  BY <1>9 DEF board_accept, BoardStep
<1>10. CASE board_seize
  BY <1>10 DEF board_seize, BoardStep
<1>11. CASE board_transfer
  BY <1>11 DEF board_transfer, BoardStep
<1>12. CASE board_done
  BY <1>12 DEF board_done, BoardStep
<1>13. ASSUME NEW line \in Lines, physical_grant(line) PROVE OneGrant'
  BY <1>13 DEF physical_grant, PhysicalStep
<1>14. CASE physical_ungrant
  BY <1>14 DEF physical_ungrant, PhysicalStep
<1>15. CASE physical_cycle
  BY <1>15 DEF physical_cycle, PhysicalStep
<1> QED
  BY <1>1, <1>2, <1>3, <1>4, <1>5, <1>6, <1>7, <1>8,
     <1>9, <1>10, <1>11, <1>12, <1>13, <1>14, <1>15, StepCases

(* SACK and BBSY are asserted from the grant to the end of the transfer.     *)
LEMMA LinesStep ==
  ASSUME ArbTypeOK, ModesOK, OneGrant, LinesOK, [ArbNext]_vars
  PROVE  LinesOK'
<1> USE DEF LinesOK, waiting, ArbTypeOK, ArbitrationState, LatchState, MasterState,
       PhysicalState, BoardState
<1>1. CASE arm_or_time
  BY <1>1, BusLeftAlone DEF BusUnchanged
<1>2. CASE main_slave
  BY <1>2 DEF main_slave, sm_data_slave, AfterBus
<1>3. CASE sm_arb_worker_cpu
  BY <1>3 DEF sm_arb_worker_cpu
<1>4. CASE sm_arb_worker_device
  BY <1>4, DeviceStep DEF DeviceEffect, AfterBus, ModesOK, cpu_access_granted, SACK
<1>5. CASE main_master
  BY <1>5, MasterStep DEF MasterEffect, AfterBus
<1>6. CASE sm_intr_slave
  BY <1>6 DEF sm_intr_slave
<1>7. CASE ARM2PRU_CPU_ENABLE
  BY <1>7 DEF ARM2PRU_CPU_ENABLE, Command, sm_arb_reset
<1>8. ASSUME NEW line \in BoardLevels, board_request(line) PROVE LinesOK'
  BY <1>8 DEF board_request, BoardStep
<1>9. ASSUME NEW line \in BoardLevels, board_accept(line) PROVE LinesOK'
  BY <1>9 DEF board_accept, BoardStep
<1>10. CASE board_seize
  BY <1>10 DEF board_seize, BoardStep
<1>11. CASE board_transfer
  BY <1>11 DEF board_transfer, BoardStep
<1>12. CASE board_done
  BY <1>12 DEF board_done, BoardStep
<1>13. ASSUME NEW line \in Lines, physical_grant(line) PROVE LinesOK'
  BY <1>13 DEF physical_grant, PhysicalStep
<1>14. CASE physical_ungrant
  BY <1>14 DEF physical_ungrant, PhysicalStep
<1>15. CASE physical_cycle
  BY <1>15 DEF physical_cycle, PhysicalStep
<1> QED
  BY <1>1, <1>2, <1>3, <1>4, <1>5, <1>6, <1>7, <1>8,
     <1>9, <1>10, <1>11, <1>12, <1>13, <1>14, <1>15, StepCases

(* A grant ends at the PRU or at the board that has requested it.            *)
LEMMA GrantsStep ==
  ASSUME DeviceLevels \cap BoardLevels = {},
         ArbTypeOK, ModesOK, OneGrant, LinesOK, GrantsOK, [ArbNext]_vars
  PROVE  GrantsOK'
<1> USE DEF GrantsOK, TakenByPru, OfferedToBoard, KeptForBoard, OfferedToPru, AboutToTake,
       BoardTook, ModesOK, OneGrant, AtMostOne, LinesOK, emulate_cpu, SACK, BBSY, ArbTypeOK,
       ArbitrationState, LatchState, MasterState, PhysicalState, BoardState
<1>1. CASE arm_or_time
  BY <1>1, BusLeftAlone DEF BusUnchanged
<1>2. CASE main_slave
  BY <1>2 DEF main_slave, AfterBus, waiting
<1>3. CASE sm_arb_worker_cpu
  <2>1. ArbitratedTo(Arbitrate(sm_arb.arbitrator_grant_mask))
    BY ArbitratedOnce
  <2> QED
    BY <1>3, <2>1 DEF sm_arb_worker_cpu, ArbitratedTo, waiting
<1>4. CASE sm_arb_worker_device
  BY <1>4, DeviceStep DEF DeviceEffect, AfterBus
<1>5. CASE main_master
  BY <1>5, MasterStep DEF MasterEffect, AfterBus
<1>6. CASE sm_intr_slave
  BY <1>6 DEF sm_intr_slave, waiting
<1>7. CASE ARM2PRU_CPU_ENABLE
  BY <1>7 DEF ARM2PRU_CPU_ENABLE, Command, sm_arb_reset, waiting
<1>8. ASSUME NEW line \in BoardLevels, board_request(line) PROVE GrantsOK'
  BY <1>8 DEF board_request, BoardStep, waiting
<1>9. ASSUME NEW line \in BoardLevels, board_accept(line) PROVE GrantsOK'
  BY <1>9 DEF board_accept, BoardStep, waiting
<1>10. CASE board_seize
  BY <1>10 DEF board_seize, BoardStep, waiting
<1>11. CASE board_transfer
  BY <1>11 DEF board_transfer, BoardStep, waiting
<1>12. CASE board_done
  BY <1>12 DEF board_done, BoardStep, waiting
<1>13. ASSUME NEW line \in Lines, physical_grant(line) PROVE GrantsOK'
  <2>1. physical'.grants = {line} /\ ~latch.SACK /\ ~board.SACK /\ physical.grants = {}
    BY <1>13 DEF physical_grant, PhysicalStep
  <2>2. line \in BoardLevels => line \in board.requests
    BY <1>13 DEF physical_grant, BusRequests
  <2>3. UNCHANGED <<cpu, pc, latch, cpu_grant_mask, board, sm_arb>> /\ cpu = "physical"
    BY <1>13 DEF physical_grant, PhysicalStep
  <2> QED
    BY <2>1, <2>2, <2>3 DEF waiting
<1>14. CASE physical_ungrant
  <2>1. physical'.grants = {} /\ physical.grants # {}
    BY <1>14 DEF physical_ungrant, PhysicalStep
  <2>2. UNCHANGED <<cpu, pc, latch, cpu_grant_mask, board, sm_arb>> /\ cpu = "physical"
    BY <1>14 DEF physical_ungrant, PhysicalStep
  <2>3. ASSUME NEW line \in latch.grants \cap BoardLevels, ~BoardTook(line)  PROVE FALSE
    <3>1. line \in physical.grants /\ line \in board.requests /\ ~SACK
      BY <2>2, <2>3
    <3> QED
      BY <1>14, <3>1 DEF physical_ungrant, BusRequests
  <2>4. AboutToTake'
    BY <1>14, <2>1, <2>2 DEF physical_ungrant, waiting
  <2> QED
    BY <2>1, <2>2, <2>3, <2>4 DEF waiting
<1>15. CASE physical_cycle
  BY <1>15 DEF physical_cycle, PhysicalStep, waiting
<1> QED
  BY <1>1, <1>2, <1>3, <1>4, <1>5, <1>6, <1>7, <1>8,
     <1>9, <1>10, <1>11, <1>12, <1>13, <1>14, <1>15, StepCases

(* The PRU asserts BBSY alone.                                              *)
LEMMA StartStep ==
  ASSUME DeviceLevels \cap BoardLevels = {},
         ArbTypeOK, ModesOK, OneGrant, LinesOK, GrantsOK, StartOK, OneGrantee, [ArbNext]_vars
  PROVE  StartOK'
<1> USE DEF StartOK, ModesOK, LinesOK, OneGrantee, emulate_cpu, SACK, BBSY, ArbTypeOK,
       ArbitrationState, LatchState, MasterState, PhysicalState, BoardState
<1>1. CASE arm_or_time
  BY <1>1, BusLeftAlone DEF BusUnchanged
<1>2. CASE main_slave
  BY <1>2 DEF main_slave, sm_data_slave, AfterBus
<1>3. CASE sm_arb_worker_cpu
  BY <1>3 DEF sm_arb_worker_cpu
<1>4. CASE sm_arb_worker_device
  BY <1>4, DeviceStep DEF DeviceEffect, AfterBus, cpu_access_granted
<1>5. CASE main_master
  BY <1>5, MasterStep DEF MasterEffect, AfterBus
<1>6. CASE sm_intr_slave
  BY <1>6 DEF sm_intr_slave
<1>7. CASE ARM2PRU_CPU_ENABLE
  BY <1>7 DEF ARM2PRU_CPU_ENABLE, Command, sm_arb_reset
<1>8. ASSUME NEW line \in BoardLevels, board_request(line) PROVE StartOK'
  BY <1>8 DEF board_request, BoardStep
<1>9. ASSUME NEW line \in BoardLevels, board_accept(line) PROVE StartOK'
  BY <1>9 DEF board_accept, BoardStep
<1>10. CASE board_seize
  BY <1>10 DEF board_seize, BoardStep
<1>11. CASE board_transfer
  BY <1>11 DEF board_transfer, BoardStep
<1>12. CASE board_done
  BY <1>12 DEF board_done, BoardStep
<1>13. ASSUME NEW line \in Lines, physical_grant(line) PROVE StartOK'
  BY <1>13 DEF physical_grant, PhysicalStep
<1>14. CASE physical_ungrant
  BY <1>14 DEF physical_ungrant, PhysicalStep
<1>15. CASE physical_cycle
  BY <1>15 DEF physical_cycle, PhysicalStep
<1> QED
  BY <1>1, <1>2, <1>3, <1>4, <1>5, <1>6, <1>7, <1>8,
     <1>9, <1>10, <1>11, <1>12, <1>13, <1>14, <1>15, StepCases

(* One bus master.                                                           *)
LEMMA MasterSafe ==
  ASSUME ArbTypeOK, ModesOK, StartOK, SingleMaster, [ArbNext]_vars
  PROVE  SingleMaster'
<1> USE DEF SingleMaster, StartOK, ModesOK, emulate_cpu, SACK, BBSY, ArbTypeOK,
       ArbitrationState, LatchState, MasterState, PhysicalState, BoardState
<1>1. CASE arm_or_time
  BY <1>1, BusLeftAlone DEF BusUnchanged
<1>2. CASE main_slave
  BY <1>2 DEF main_slave, sm_data_slave, AfterBus
<1>3. CASE sm_arb_worker_cpu
  BY <1>3 DEF sm_arb_worker_cpu
<1>4. CASE sm_arb_worker_device
  BY <1>4, DeviceStep DEF DeviceEffect, AfterBus
<1>5. CASE main_master
  BY <1>5, MasterStep DEF MasterEffect, AfterBus
<1>6. CASE sm_intr_slave
  BY <1>6 DEF sm_intr_slave
<1>7. CASE ARM2PRU_CPU_ENABLE
  BY <1>7 DEF ARM2PRU_CPU_ENABLE, Command, sm_arb_reset
<1>8. ASSUME NEW line \in BoardLevels, board_request(line) PROVE SingleMaster'
  BY <1>8 DEF board_request, BoardStep
<1>9. ASSUME NEW line \in BoardLevels, board_accept(line) PROVE SingleMaster'
  BY <1>9 DEF board_accept, BoardStep
<1>10. CASE board_seize
  BY <1>10 DEF board_seize, BoardStep
<1>11. CASE board_transfer
  BY <1>11 DEF board_transfer, BoardStep
<1>12. CASE board_done
  BY <1>12 DEF board_done, BoardStep
<1>13. ASSUME NEW line \in Lines, physical_grant(line) PROVE SingleMaster'
  BY <1>13 DEF physical_grant, PhysicalStep
<1>14. CASE physical_ungrant
  BY <1>14 DEF physical_ungrant, PhysicalStep
<1>15. CASE physical_cycle
  BY <1>15 DEF physical_cycle, PhysicalStep
<1> QED
  BY <1>1, <1>2, <1>3, <1>4, <1>5, <1>6, <1>7, <1>8,
     <1>9, <1>10, <1>11, <1>12, <1>13, <1>14, <1>15, StepCases

(* One taker of a grant.                                                     *)
LEMMA GranteeSafe ==
  ASSUME DeviceLevels \cap BoardLevels = {},
         ArbTypeOK, ModesOK, OneGrant, LinesOK, GrantsOK, OneGrantee, [ArbNext]_vars
  PROVE  OneGrantee'
<1> USE DEF OneGrantee, GrantsOK, TakenByPru, OfferedToPru, AboutToTake, ModesOK, OneGrant,
       AtMostOne, LinesOK, emulate_cpu, SACK, BBSY, ArbTypeOK, ArbitrationState, LatchState,
       MasterState, PhysicalState, BoardState
<1>1. CASE arm_or_time
  BY <1>1, BusLeftAlone DEF BusUnchanged
<1>2. CASE main_slave
  BY <1>2 DEF main_slave, sm_data_slave, AfterBus
<1>3. CASE sm_arb_worker_cpu
  BY <1>3 DEF sm_arb_worker_cpu
<1>4. CASE sm_arb_worker_device
  BY <1>4, DeviceStep DEF DeviceEffect, AfterBus, cpu_access_granted
<1>5. CASE main_master
  BY <1>5, MasterStep DEF MasterEffect, AfterBus
<1>6. CASE sm_intr_slave
  BY <1>6 DEF sm_intr_slave
<1>7. CASE ARM2PRU_CPU_ENABLE
  BY <1>7 DEF ARM2PRU_CPU_ENABLE, Command, sm_arb_reset
<1>8. ASSUME NEW line \in BoardLevels, board_request(line) PROVE OneGrantee'
  BY <1>8 DEF board_request, BoardStep
<1>9. ASSUME NEW line \in BoardLevels, board_accept(line) PROVE OneGrantee'
  BY <1>9 DEF board_accept, BoardStep
<1>10. CASE board_seize
  BY <1>10 DEF board_seize, BoardStep
<1>11. CASE board_transfer
  BY <1>11 DEF board_transfer, BoardStep
<1>12. CASE board_done
  BY <1>12 DEF board_done, BoardStep
<1>13. ASSUME NEW line \in Lines, physical_grant(line) PROVE OneGrantee'
  BY <1>13 DEF physical_grant, PhysicalStep
<1>14. CASE physical_ungrant
  BY <1>14 DEF physical_ungrant, PhysicalStep
<1>15. CASE physical_cycle
  BY <1>15 DEF physical_cycle, PhysicalStep
<1> QED
  BY <1>1, <1>2, <1>3, <1>4, <1>5, <1>6, <1>7, <1>8,
     <1>9, <1>10, <1>11, <1>12, <1>13, <1>14, <1>15, StepCases

(* A request that the PRU works on stays with it, or is done, or is cancelled *)
(* by ARM or by INIT.                                                        *)
LEMMA RequestStep ==
  ASSUME ArbTypeOK, ModesOK, OneGrant, [ArbNext]_vars, cpu' = cpu,
         NEW line \in arm_requests \cap arm_requests', OnPru(line)
  PROVE  OnPru(line)'
<1> USE ArbitrationAssumption DEF OnPru, ArbTypeOK, ArbitrationState, MasterState
<1>1. CASE arm_or_time
  <2>1. CASE no_command \/ ARM2PRU_ARB_GRANT_INTR_REQUESTS \/ UNCHANGED vars
    BY <2>1 DEF no_command, ARM2PRU_ARB_GRANT_INTR_REQUESTS, Command, vars
  <2>2. ASSUME NEW l \in DeviceLevels, ARM2PRU_REQUEST(l) PROVE OnPru(line)'
    BY <2>2 DEF ARM2PRU_REQUEST, Command
  <2>3. ASSUME NEW l \in DeviceLevels, ARM2PRU_INTR_CANCEL(l) PROVE OnPru(line)'
    BY <2>3 DEF ARM2PRU_INTR_CANCEL, Command
  <2>4. CASE ARM2PRU_CPU_ACCESS
    BY <2>4 DEF ARM2PRU_CPU_ACCESS, Command
  <2>5. ASSUME NEW level \in RunLevels, unibone_prioritylevelchange(level) PROVE OnPru(line)'
    BY <2>5 DEF unibone_prioritylevelchange
  <2>6. CASE intr_slave_ack \/ deviceregister_ack \/ timeout_reached \/ bus_INIT
    BY <2>6 DEF intr_slave_ack, deviceregister_ack, timeout_reached, bus_INIT
  <2> QED
    BY <1>1, <2>1, <2>2, <2>3, <2>4, <2>5, <2>6 DEF arm_or_time
<1>2. CASE main_slave
  BY <1>2 DEF main_slave, sm_data_slave, AfterBus
<1>3. CASE sm_arb_worker_cpu
  BY <1>3 DEF sm_arb_worker_cpu
<1>4. CASE sm_arb_worker_device
  <2>1. CASE cpu_access_granted
    <3>1. data_master.state = "none" /\ CpuAccess \notin Lines
      BY <1>4, ArbitrationAssumption DEF sm_arb_worker_device, ModesOK, CpuAccess, Lines
    <3> QED
      BY <1>4, <2>1, <3>1 DEF sm_arb_worker_device
  <2>2. CASE ~cpu_access_granted /\ device_granted
    BY <1>4, <2>2 DEF sm_arb_worker_device, device_granted
  <2>3. CASE ~cpu_access_granted /\ device_bus_free
    <3>1. data_master.state = "none"
      BY <1>4 DEF sm_arb_worker_device, ModesOK
    <3>2. line \in waiting => line = Max(waiting)
      <4>1. waiting \subseteq Lines
        BY DEF waiting, ArbTypeOK, ArbitrationState, Lines
      <4> QED
        BY <4>1, HighestLine DEF OneGrant, AtMostOne
    <3> QED
      BY <1>4, <2>3, <3>1, <3>2 DEF sm_arb_worker_device, device_bus_free, waiting
  <2> QED
    BY <1>4, <2>1, <2>2, <2>3 DEF sm_arb_worker_device
<1>5. CASE main_master
  BY <1>5 DEF main_master, AfterBus, Idle
<1>6. CASE sm_intr_slave
  BY <1>6 DEF sm_intr_slave
<1>7. CASE ARM2PRU_CPU_ENABLE
  BY <1>7 DEF ARM2PRU_CPU_ENABLE, Command, sm_arb_reset, emulate_cpu
<1>8. ASSUME NEW l \in BoardLevels, board_request(l) PROVE OnPru(line)'
  BY <1>8 DEF board_request, BoardStep
<1>9. ASSUME NEW l \in BoardLevels, board_accept(l) PROVE OnPru(line)'
  BY <1>9 DEF board_accept, BoardStep
<1>10. CASE board_seize
  BY <1>10 DEF board_seize, BoardStep
<1>11. CASE board_transfer
  BY <1>11 DEF board_transfer, BoardStep
<1>12. CASE board_done
  BY <1>12 DEF board_done, BoardStep
<1>13. ASSUME NEW l \in Lines, physical_grant(l) PROVE OnPru(line)'
  BY <1>13 DEF physical_grant, PhysicalStep
<1>14. CASE physical_ungrant
  BY <1>14 DEF physical_ungrant, PhysicalStep
<1>15. CASE physical_cycle
  BY <1>15 DEF physical_cycle, PhysicalStep
<1> QED
  BY <1>1, <1>2, <1>3, <1>4, <1>5, <1>6, <1>7, <1>8,
     <1>9, <1>10, <1>11, <1>12, <1>13, <1>14, <1>15, StepCases

-----------------------------------------------------------------------------
(* ArbSafe: the bus has one master and every grant one taker, as long as no    *)
(* board shares a request line with an emulated device.                      *)
THEOREM ArbitrationSafe ==
  ASSUME DeviceLevels \cap BoardLevels = {}
  PROVE  ArbSpec => []ArbSafe
<1>1. ArbInit => ArbSafe
  BY InitSafe
<1>2. ArbSafe /\ [ArbNext]_vars => ArbSafe'
  BY TypeStep, ModesStep, OneGrantStep, LinesStep, GrantsStep, StartStep, MasterSafe,
     GranteeSafe DEF ArbSafe, ArbIndInv
<1> QED
  BY <1>1, <1>2, PTL DEF ArbSpec

(* RequestKept: no other grant, cancellation or timeout makes the PRU forget  *)
(* what ARM handed to it, and INIT only what is not yet granted; also with    *)
(* boards on the devices' lines.                                             *)
THEOREM RequestsStay == ArbSpec => RequestKept
<1> DEFINE Inv == ArbTypeOK /\ ModesOK /\ OneGrant
           Kept == \A line \in arm_requests \cap arm_requests' :
                     OnPru(line) /\ cpu' = cpu => OnPru(line)'
<1>1. ArbInit => Inv
  BY InitSafe DEF ArbSafe, ArbIndInv
<1>2. Inv /\ [ArbNext]_vars => Inv'
  BY TypeStep, ModesStep, OneGrantStep
<1>3. Inv /\ [ArbNext]_vars => [Kept]_vars
  BY RequestStep
<1> QED
  BY <1>1, <1>2, <1>3, PTL DEF ArbSpec, RequestKept

-----------------------------------------------------------------------------


OwnLines == \A c \in QConfigs : c[1] \cap c[2] = {}

(* The processor grants the highest level that is requested.                *)
LEMMA HighestLevel ==
  ASSUME NEW mask, mask \subseteq QLevels, mask # {}
  PROVE  Max(mask) \in QLevels
<1>1. QNP \in Int /\ QLevels \subseteq 0 .. QNP
  BY QbusAssumption DEF QLines
<1>2. IsFiniteSet(0 .. QNP)
  BY <1>1, FS_Interval
<1>3. IsFiniteSet(mask)
  BY <1>1, <1>2, FS_Subset
<1>4. \A y \in mask : y \in Int
  BY <1>1
<1> QED
  BY <1>3, <1>4, HighestBit

(* Grants arrive on request lines.                                          *)
LEMMA GrantType ==
  ASSUME qcpu \in [dmg : BOOLEAN, iak : QLevels \cup {0}]
  PROVE  GrantIn \subseteq QLines
BY DEF GrantIn, QLines

-----------------------------------------------------------------------------
(* What a block of a DMA may contain.                                       *)
LEMMA Division ==
  ASSUME NEW a \in Int, NEW q \in Int, NEW b \in Nat \ {0}, q * b <= a, a <= q * b + b - 1
  PROVE  a \div b = q
OBVIOUS

LEMMA Quotient ==
  ASSUME NEW a \in Nat, NEW b \in Nat \ {0}
  PROVE  /\ a \div b \in Nat
         /\ (a \div b) * b \in Nat
         /\ (a \div b) * b <= a
         /\ a <= (a \div b) * b + b - 1
OBVIOUS

LEMMA PairIsFinite ==
  ASSUME NEW a \in Nat, NEW b \in Nat
  PROVE  IsFiniteSet({a, b})
<1>1. IsFiniteSet(0 .. a + b)
  BY FS_Interval
<1>2. {a, b} \subseteq 0 .. a + b
  OBVIOUS
<1> QED
  BY <1>1, <1>2, FS_Subset

(* The first word of a block is in it: at most QBlockWords, on one side of a boundary. *)
LEMMA BlockEndBounds ==
  ASSUME NEW addr \in Nat, NEW left \in Nat \ {0}
  PROVE  /\ BlockEnd(addr, left) \in Nat
         /\ addr <= BlockEnd(addr, left)
         /\ BlockEnd(addr, left) - QBlockWords < addr
         /\ (BlockEnd(addr, left) \div QBoundary) * QBoundary <= addr
<1> DEFINE m == Min({left, QBlockWords})
           q == (addr \div QBoundary) * QBoundary
           ends == {addr + m - 1, q + QBoundary - 1}
<1>1. QBlockWords \in Nat \ {0} /\ QBoundary \in Nat \ {0}
  BY QbusAssumption
<1>2. m \in Nat \ {0} /\ m <= QBlockWords
  <2>1. IsFiniteSet({left, QBlockWords})
    BY <1>1, PairIsFinite
  <2> QED
    BY <1>1, <2>1, LowestBit
<1>3. q \in Nat /\ q <= addr /\ addr <= q + QBoundary - 1
  BY <1>1, Quotient
<1> HIDE DEF m, q
<1>4. Min(ends) \in ends /\ Min(ends) <= addr + m - 1 /\ Min(ends) <= q + QBoundary - 1
  <2>1. IsFiniteSet(ends)
    BY <1>1, <1>2, <1>3, PairIsFinite
  <2>2. \A y \in ends : y \in Int
    BY <1>1, <1>2, <1>3
  <2> QED
    BY <2>1, <2>2, LowestBit
<1>5. BlockEnd(addr, left) = Min(ends)
  BY DEF BlockEnd, m, q
<1> HIDE DEF ends
<1>6. Min(ends) \in Nat /\ addr <= Min(ends)
  BY <1>1, <1>2, <1>3, <1>4 DEF ends
<1>7. Min(ends) \div QBoundary = addr \div QBoundary
  <2>1. addr \div QBoundary \in Int
    BY <1>1, Quotient
  <2> QED
    BY <1>1, <1>3, <1>4, <1>6, <2>1, Division DEF q
<1> QED
  BY <1>1, <1>2, <1>3, <1>4, <1>5, <1>6, <1>7 DEF q

-----------------------------------------------------------------------------
(* The cases of the arbitration: what it leaves alone, and what it does.    *)
Arbitrates ==
  /\ qpc \in {"bus", "slave"} /\ qpc' = "command"
  /\ qpc = "slave" => q_dma.state = "none" /\ q_slave.state = "stop" /\ ~QSYNC
  /\ UNCHANGED <<q_slave, q_init, deviceregister_event, qcpu, qboard, qcycle>>
  /\ qlatch'.SYNC = qlatch.SYNC /\ qlatch'.strobe = qlatch.strobe
  /\ qarm'.lines = qarm.lines /\ qarm'.dma = qarm.dma

Cleared == IF q_init.line THEN q_arb.request \ InProgress ELSE {}
Forwarded == GrantIn \ q_arb.signalled

PruWaits ==
  /\ q_arb'.state = q_arb.state /\ q_arb'.request = AfterInit
  /\ q_arb'.signalled = q_arb.signalled /\ q_arb'.grant = q_arb.grant
  /\ qlatch'.lines = qlatch.lines /\ qlatch'.SACK = qlatch.SACK /\ qlatch'.RPLY = qlatch.RPLY
  /\ qlatch'.grants = Forwarded
  /\ q_dma' = q_dma /\ qarm'.requests = qarm.requests \ Cleared

PruChecks ==
  LET grant == GrantIn \cap AfterInit \cap q_arb.signalled IN
  /\ q_arb.state = "grant_check" /\ q_arb'.request = AfterInit
  /\ q_arb'.signalled = AfterInit /\ q_arb'.grant = grant
  /\ q_arb'.state = IF grant \cap QLevels # {} THEN "intr_vector"
                    ELSE IF QNP \in grant THEN "dma_wait" ELSE "grant_check"
  /\ qlatch'.lines = BusLines(AfterInit, q_arb.inhibit)
  /\ qlatch'.SACK = qlatch.SACK /\ qlatch'.RPLY = qlatch.RPLY
  /\ qlatch'.grants = Forwarded
  /\ q_dma' = q_dma /\ qarm'.requests = qarm.requests \ Cleared

PruTakesBus ==
  /\ q_arb.state = "dma_wait" /\ ~QRPLY /\ ~QSYNC
  /\ q_arb'.state = "grant_check" /\ q_arb'.request = AfterInit \ {QNP}
  /\ q_arb'.signalled = q_arb.signalled /\ q_arb'.grant = q_arb.grant
  /\ qlatch'.SACK = TRUE /\ qlatch'.RPLY = qlatch.RPLY /\ qlatch'.grants = Forwarded
  /\ q_dma' = DmaStarted(TRUE) /\ qarm'.requests = qarm.requests \ Cleared

PruTakesVector ==
  /\ q_arb.state = "intr_vector" /\ QDIN
  /\ q_arb'.state = "intr_complete" /\ q_arb'.request = AfterInit \ q_arb.grant
  /\ q_arb'.signalled = q_arb.signalled /\ q_arb'.grant = q_arb.grant
  /\ qlatch'.SACK = qlatch.SACK /\ qlatch'.RPLY = TRUE /\ qlatch'.grants = Forwarded
  /\ q_dma' = q_dma /\ qarm'.requests = qarm.requests \ Cleared

PruEndsVector ==
  /\ q_arb.state = "intr_complete" /\ qcpu.iak = 0
  /\ q_arb'.state = "grant_check" /\ q_arb'.request = AfterInit
  /\ q_arb'.signalled = q_arb.signalled /\ q_arb'.grant = q_arb.grant
  /\ qlatch'.lines = qlatch.lines
  /\ qlatch'.SACK = qlatch.SACK /\ qlatch'.RPLY = FALSE /\ qlatch'.grants = Forwarded
  /\ q_dma' = IF QNP \in q_arb.signalled THEN DmaStarted(FALSE) ELSE q_dma
  /\ qarm'.requests = qarm.requests \ (q_arb.grant \cup Cleared)

PruIsAlone ==
  /\ q_arb.state = "noop"
  /\ q_arb'.state = "noop" /\ q_arb'.request = AfterInit \ {QNP}
  /\ q_arb'.signalled = q_arb.signalled /\ q_arb'.grant = q_arb.grant
  /\ qlatch'.SACK = qlatch.SACK /\ qlatch'.RPLY = qlatch.RPLY /\ qlatch'.grants = GrantIn
  /\ q_dma' = IF QNP \in AfterInit THEN DmaStarted(TRUE) ELSE q_dma
  /\ qarm'.requests = qarm.requests \ Cleared

ArbitrationCases ==
  PruWaits \/ PruChecks \/ PruTakesBus \/ PruTakesVector \/ PruEndsVector \/ PruIsAlone

(* The lines of a mask of requests are lines.                               *)
LEMMA BusLinesType ==
  ASSUME NEW request, request \subseteq QLines, NEW inhibit \in BOOLEAN
  PROVE  BusLines(request, inhibit) \subseteq Nat
BY QbusAssumption DEF BusLines, QLines

(* qbus_arbitration is one of the cases, and keeps the types.               *)
LEMMA ArbitrationStep ==
  ASSUME QTypeOK, qbus_arbitration
  PROVE  /\ Arbitrates /\ ArbitrationCases
         /\ q_arb' \in QArbState /\ qlatch' \in QLatchState
         /\ qarm' \in [lines : SUBSET QLines, requests : SUBSET QLines, dma : Nat \X (Nat \ {0})]
<1> DEFINE arb == [q_arb EXCEPT !.request = AfterInit, !.forwarded = Forwarded]
           held == [qlatch EXCEPT !.grants = Forwarded]
           worker == IF deviceregister_event THEN Worker(arb, held, {}) ELSE DeviceWorker(arb, held)
           completed == IF q_arb.state = "intr_complete" /\ worker.arb.state = "grant_check"
                          THEN q_arb.grant ELSE {}
<1>1. /\ q_arb' = worker.arb /\ qlatch' = worker.latch
      /\ q_dma' = IF QNP \in worker.granted
                     THEN DmaStarted(q_arb.state # "intr_complete") ELSE q_dma
      /\ qarm' = [qarm EXCEPT !.requests = @ \ (completed \cup Cleared)]
  BY DEF qbus_arbitration, Forwarded, Cleared
<1>2. GrantIn \subseteq QLines /\ AfterInit \subseteq QLines
  BY GrantType DEF QTypeOK, AfterInit, QArbState
<1>3. arb \in QArbState /\ held \in QLatchState
  BY <1>2 DEF QTypeOK, QArbState, QLatchState, Forwarded
<1>4. /\ arb.state = q_arb.state /\ arb.request = AfterInit /\ arb.signalled = q_arb.signalled
      /\ arb.forwarded = Forwarded /\ arb.grant = q_arb.grant /\ arb.inhibit = q_arb.inhibit
      /\ held.lines = qlatch.lines /\ held.SACK = qlatch.SACK /\ held.SYNC = qlatch.SYNC
      /\ held.strobe = qlatch.strobe /\ held.RPLY = qlatch.RPLY /\ held.grants = Forwarded
  BY DEF QTypeOK, QArbState, QLatchState
<1>5. /\ qarm'.lines = qarm.lines /\ qarm'.dma = qarm.dma
      /\ qarm'.requests = qarm.requests \ (completed \cup Cleared)
      /\ qarm' \in [lines : SUBSET QLines, requests : SUBSET QLines, dma : Nat \X (Nat \ {0})]
  <2> HIDE DEF completed
  <2> QED
    BY <1>1 DEF QTypeOK
<1> HIDE DEF arb, held
<1>6. CASE worker = Worker(arb, held, {}) /\ (q_arb.state = "intr_complete" => completed = {})
  <2>1. /\ q_arb' = arb /\ qlatch' = held /\ q_dma' = q_dma
    BY <1>1, <1>6 DEF Worker
  <2>2. completed = {}
    BY <1>6
  <2> QED
    BY <1>3, <1>4, <1>5, <2>1, <2>2 DEF PruWaits, ArbitrationCases, Arbitrates,
       qbus_arbitration
<1>7. CASE ~deviceregister_event
  <2>1. worker = DeviceWorker(arb, held)
    BY <1>7
  <2>2. CASE q_arb.state = "grant_check"
    <3> DEFINE grant == (GrantIn \cap AfterInit) \ Forwarded
    <3>1. /\ worker.arb = [arb EXCEPT !.signalled = AfterInit, !.grant = grant,
                              !.state = IF grant \cap QLevels # {} THEN "intr_vector"
                                        ELSE IF QNP \in grant THEN "dma_wait" ELSE @]
          /\ worker.latch = [held EXCEPT !.lines = BusLines(AfterInit, arb.inhibit)]
          /\ worker.granted = {}
      BY <1>4, <2>1, <2>2 DEF DeviceWorker, grant_check, Worker
    <3>2. grant = GrantIn \cap AfterInit \cap q_arb.signalled
      BY DEF Forwarded
    <3>3. completed = {} /\ q_dma' = q_dma
      BY <1>1, <2>2, <3>1
    <3>4. BusLines(AfterInit, arb.inhibit) \subseteq Nat
      BY <1>2, <1>3, BusLinesType DEF QArbState
    <3>5. grant \subseteq QLines
      BY <1>2
    <3> HIDE DEF worker, completed, grant
    <3>6. q_arb' \in QArbState /\ qlatch' \in QLatchState
      <4>1. q_arb' \in QArbState
        BY <1>1, <1>2, <1>3, <3>1, <3>4, <3>5 DEF QArbState
      <4>2. qlatch' \in QLatchState
        BY <1>1, <1>2, <1>3, <3>1, <3>4, <3>5 DEF QLatchState
      <4> QED
        BY <4>1, <4>2
    <3>7. PruChecks
      <4>1. /\ q_arb'.request = AfterInit /\ q_arb'.signalled = AfterInit /\ q_arb'.grant = grant
            /\ q_arb'.state = IF grant \cap QLevels # {} THEN "intr_vector"
                               ELSE IF QNP \in grant THEN "dma_wait" ELSE "grant_check"
        BY <1>1, <1>3, <1>4, <2>2, <3>1 DEF QArbState
      <4>2. /\ qlatch'.lines = BusLines(AfterInit, q_arb.inhibit) /\ qlatch'.SACK = qlatch.SACK
            /\ qlatch'.RPLY = qlatch.RPLY /\ qlatch'.grants = Forwarded
        BY <1>1, <1>3, <1>4, <3>1 DEF QLatchState
      <4> QED
        BY <1>5, <2>2, <3>2, <3>3, <4>1, <4>2 DEF PruChecks
    <3>8. qlatch'.SYNC = qlatch.SYNC /\ qlatch'.strobe = qlatch.strobe
      BY <1>1, <1>3, <1>4, <3>1 DEF QLatchState
    <3> QED
      BY <1>5, <3>6, <3>7, <3>8 DEF Arbitrates, ArbitrationCases, qbus_arbitration
  <2>3. CASE q_arb.state = "dma_wait"
    <3>1. CASE QRPLY \/ QSYNC
      <4>1. worker = Worker(arb, held, {})
        BY <1>4, <2>1, <2>3, <3>1 DEF DeviceWorker, dma_grant_rply_sync_wait
      <4> QED
        BY <1>6, <2>3, <4>1
    <3>2. CASE ~QRPLY /\ ~QSYNC
      <4>1. /\ worker.arb = [arb EXCEPT !.state = "grant_check", !.request = AfterInit \ {QNP}]
            /\ worker.latch = [held EXCEPT !.SACK = TRUE, !.lines = @ \ {QNP}]
            /\ worker.granted = {QNP}
        BY <1>4, <2>1, <2>3, <3>2 DEF DeviceWorker, dma_grant_rply_sync_wait, Worker
      <4>2. completed = {} /\ q_dma' = DmaStarted(TRUE)
        BY <1>1, <2>3, <4>1
      <4> HIDE DEF worker, completed
      <4>3. q_arb' \in QArbState /\ qlatch' \in QLatchState
        <5> DEFINE request == AfterInit \ {QNP}
        <5>0. request \in SUBSET QLines
          BY <1>2
        <5>1. q_arb' \in QArbState
          <6>1. q_arb' = [arb EXCEPT !.state = "grant_check", !.request = request]
            BY <1>1, <4>1
          <6> HIDE DEF request
          <6> QED
            BY <1>3, <5>0, <6>1 DEF QArbState
        <5>2. qlatch' \in QLatchState
          BY <1>1, <1>3, <4>1 DEF QLatchState
        <5> QED
          BY <5>1, <5>2
      <4>4. /\ q_arb'.state = "grant_check" /\ q_arb'.request = AfterInit \ {QNP}
            /\ q_arb'.signalled = q_arb.signalled /\ q_arb'.grant = q_arb.grant
        BY <1>1, <1>3, <1>4, <4>1 DEF QArbState
      <4>5. /\ qlatch'.SACK = TRUE /\ qlatch'.RPLY = qlatch.RPLY /\ qlatch'.grants = Forwarded
            /\ qlatch'.SYNC = qlatch.SYNC /\ qlatch'.strobe = qlatch.strobe
        BY <1>1, <1>3, <1>4, <4>1 DEF QLatchState
      <4>6. PruTakesBus
        BY <1>5, <2>3, <3>2, <4>2, <4>4, <4>5 DEF PruTakesBus
      <4> QED
        BY <1>5, <4>3, <4>5, <4>6 DEF Arbitrates, ArbitrationCases, qbus_arbitration
    <3> QED
      BY <3>1, <3>2
  <2>4. CASE q_arb.state = "intr_vector"
    <3>1. CASE ~QDIN
      <4>1. worker = Worker(arb, held, {})
        BY <1>4, <2>1, <2>4, <3>1 DEF DeviceWorker, intr_vector
      <4> QED
        BY <1>6, <2>4, <4>1
    <3>2. CASE QDIN
      <4>1. /\ worker.arb = [arb EXCEPT !.state = "intr_complete", !.request = AfterInit \ q_arb.grant]
            /\ worker.latch = [held EXCEPT !.RPLY = TRUE, !.lines = @ \ arb.grant]
            /\ worker.granted = {}
        BY <1>4, <2>1, <2>4, <3>2 DEF DeviceWorker, intr_vector, Worker
      <4>2. completed = {} /\ q_dma' = q_dma
        BY <1>1, <2>4, <4>1
      <4> HIDE DEF worker, completed
      <4>3. q_arb' \in QArbState /\ qlatch' \in QLatchState
        <5> DEFINE request == AfterInit \ q_arb.grant
        <5>0. request \in SUBSET QLines
          BY <1>2
        <5>1. q_arb' \in QArbState
          <6>1. q_arb' = [arb EXCEPT !.state = "intr_complete", !.request = request]
            BY <1>1, <4>1
          <6> HIDE DEF request
          <6> QED
            BY <1>3, <5>0, <6>1 DEF QArbState
        <5>2. qlatch' \in QLatchState
          BY <1>1, <1>3, <4>1 DEF QLatchState
        <5> QED
          BY <5>1, <5>2
      <4>4. /\ q_arb'.state = "intr_complete" /\ q_arb'.request = AfterInit \ q_arb.grant
            /\ q_arb'.signalled = q_arb.signalled /\ q_arb'.grant = q_arb.grant
        BY <1>1, <1>3, <1>4, <4>1 DEF QArbState
      <4>5. /\ qlatch'.SACK = qlatch.SACK /\ qlatch'.RPLY = TRUE /\ qlatch'.grants = Forwarded
            /\ qlatch'.SYNC = qlatch.SYNC /\ qlatch'.strobe = qlatch.strobe
        BY <1>1, <1>3, <1>4, <4>1 DEF QLatchState
      <4>6. PruTakesVector
        BY <1>5, <2>4, <3>2, <4>2, <4>4, <4>5 DEF PruTakesVector
      <4> QED
        BY <1>5, <4>3, <4>5, <4>6 DEF Arbitrates, ArbitrationCases, qbus_arbitration
    <3> QED
      BY <3>1, <3>2
  <2>5. CASE q_arb.state = "intr_complete"
    <3>1. CASE qcpu.iak # 0
      <4>1. worker = Worker(arb, held, {})
        BY <1>4, <2>1, <2>5, <3>1 DEF DeviceWorker, intr_complete
      <4>2. completed = {}
        BY <1>4, <2>5, <4>1 DEF Worker
      <4> QED
        BY <1>6, <4>1, <4>2
    <3>2. CASE qcpu.iak = 0
      <4>1. /\ worker.arb = [arb EXCEPT !.state = "grant_check"]
            /\ worker.latch = [held EXCEPT !.RPLY = FALSE]
            /\ worker.granted = q_arb.signalled
        BY <1>4, <2>1, <2>5, <3>2 DEF DeviceWorker, intr_complete, Worker
      <4>2. worker.arb.state = "grant_check"
        BY <1>3, <4>1 DEF QArbState
      <4>3. /\ completed = q_arb.grant
            /\ q_dma' = IF QNP \in q_arb.signalled THEN DmaStarted(FALSE) ELSE q_dma
        BY <1>1, <2>5, <4>1, <4>2
      <4> HIDE DEF worker, completed
      <4>4. q_arb' \in QArbState /\ qlatch' \in QLatchState
        <5>1. q_arb' \in QArbState
          BY <1>1, <1>2, <1>3, <4>1 DEF QArbState
        <5>2. qlatch' \in QLatchState
          BY <1>1, <1>3, <4>1 DEF QLatchState
        <5> QED
          BY <5>1, <5>2
      <4>5. /\ q_arb'.state = "grant_check" /\ q_arb'.request = AfterInit
            /\ q_arb'.signalled = q_arb.signalled /\ q_arb'.grant = q_arb.grant
        BY <1>1, <1>3, <1>4, <4>1 DEF QArbState
      <4>6. /\ qlatch'.SACK = qlatch.SACK /\ qlatch'.RPLY = FALSE /\ qlatch'.grants = Forwarded
            /\ qlatch'.SYNC = qlatch.SYNC /\ qlatch'.strobe = qlatch.strobe
            /\ qlatch'.lines = qlatch.lines
        BY <1>1, <1>3, <1>4, <4>1 DEF QLatchState
      <4>7. PruEndsVector
        BY <1>5, <2>5, <3>2, <4>3, <4>5, <4>6 DEF PruEndsVector
      <4> QED
        BY <1>5, <4>4, <4>6, <4>7 DEF Arbitrates, ArbitrationCases, qbus_arbitration
    <3> QED
      BY <3>1, <3>2
  <2>6. CASE q_arb.state = "noop"
    <3> DEFINE lines == IF arb.inhibit THEN held.lines \cup {QNP} ELSE held.lines \ {QNP}
    <3>1. /\ worker.arb = [arb EXCEPT !.request = AfterInit \ {QNP}]
          /\ worker.latch = [held EXCEPT !.grants = GrantIn, !.lines = lines]
          /\ worker.granted = AfterInit \cap {QNP}
      <4>1. worker = Worker([arb EXCEPT !.request = @ \ {QNP}],
                            [held EXCEPT !.grants = GrantIn,
                               !.lines = IF arb.inhibit THEN @ \cup {QNP} ELSE @ \ {QNP}],
                            arb.request \cap {QNP})
        BY <1>4, <2>1, <2>6 DEF DeviceWorker, noop
      <4> QED
        BY <1>4, <4>1 DEF Worker
    <3>2. completed = {} /\ q_dma' = IF QNP \in AfterInit THEN DmaStarted(TRUE) ELSE q_dma
      BY <1>1, <2>6, <3>1
    <3>3. lines \subseteq Nat
      BY <1>3, QbusAssumption DEF QLatchState, QLines
    <3> HIDE DEF worker, completed, lines
    <3>4. q_arb' \in QArbState /\ qlatch' \in QLatchState
      <4>1. q_arb' \in QArbState
        BY <1>1, <1>2, <1>3, <3>1, <3>3 DEF QArbState
      <4>2. qlatch' \in QLatchState
        BY <1>1, <1>2, <1>3, <3>1, <3>3 DEF QLatchState
      <4> QED
        BY <4>1, <4>2
    <3>5. /\ q_arb'.state = "noop" /\ q_arb'.request = AfterInit \ {QNP}
          /\ q_arb'.signalled = q_arb.signalled /\ q_arb'.grant = q_arb.grant
      BY <1>1, <1>3, <1>4, <2>6, <3>1 DEF QArbState
    <3>6. /\ qlatch'.SACK = qlatch.SACK /\ qlatch'.RPLY = qlatch.RPLY /\ qlatch'.grants = GrantIn
          /\ qlatch'.SYNC = qlatch.SYNC /\ qlatch'.strobe = qlatch.strobe
      BY <1>1, <1>3, <1>4, <3>1 DEF QLatchState
    <3>7. PruIsAlone
      BY <1>5, <2>6, <3>2, <3>5, <3>6 DEF PruIsAlone
    <3> QED
      BY <1>5, <3>4, <3>6, <3>7 DEF Arbitrates, ArbitrationCases, qbus_arbitration
  <2> QED
    BY <2>2, <2>3, <2>4, <2>5, <2>6 DEF QTypeOK, QArbState
<1>8. CASE deviceregister_event
  <2>1. worker = Worker(arb, held, {})
    BY <1>8
  <2>2. q_arb.state = "intr_complete" => completed = {}
    BY <1>4, <2>1 DEF Worker
  <2> QED
    BY <1>6, <2>1, <2>2
<1> QED
  BY <1>7, <1>8

-----------------------------------------------------------------------------
(* The cases of the slave.                                                  *)
SlaveStarts ==
  /\ q_slave.state = "stop" /\ qcycle.by # "none"
  /\ q_slave'.state = "dindout_start" /\ q_slave'.addr = qcycle.sync
  /\ qpc' = "slave" /\ qlatch' = qlatch

SlaveStops ==
  /\ \/ q_slave.state = "dindout_start" /\ QRPLY
     \/ q_slave.state = "dindout_start" /\ qcycle.strobe # "none" /\ ~Emulated(q_slave.addr)
     \/ q_slave.state \in {"dindout_start", "din_block", "dout_block"} /\ (~QSYNC \/ q_init.line)
  /\ q_slave'.state = "stop" /\ q_slave'.addr = q_slave.addr
  /\ qpc' = "bus" /\ qlatch' = qlatch

SlaveReplies ==
  /\ q_slave.state = "dindout_start" /\ QSYNC /\ ~QRPLY /\ ~q_init.line
  /\ qcycle.strobe # "none" /\ Emulated(q_slave.addr)
  /\ q_slave'.state = qcycle.strobe /\ q_slave'.addr = q_slave.addr
  /\ qpc' \in {"slave", "bus"} /\ qlatch' = [qlatch EXCEPT !.RPLY = TRUE]

SlaveWaits == SlaveAnswers /\ qpc' = "bus" /\ q_slave' = q_slave /\ qlatch' = qlatch

SlaveReleases ==
  /\ SlaveAnswers /\ qcycle.strobe # q_slave.state
  /\ q_slave'.state = (IF q_slave.state = "DIN" THEN "din_block" ELSE "dout_block")
  /\ q_slave'.addr = q_slave.addr
  /\ qpc' = "slave" /\ qlatch' = [qlatch EXCEPT !.RPLY = FALSE]

SlaveGoesOn ==
  /\ q_slave'.state = "dindout_start" /\ QSYNC
  /\ \/ /\ q_slave.state = "din_block" /\ qcycle.strobe = "DOUT" /\ q_slave'.addr = q_slave.addr
     \/ /\ \/ q_slave.state = "din_block" /\ qcycle.strobe = "DIN"
           \/ q_slave.state = "dout_block" /\ qcycle.strobe = "DOUT"
        /\ q_slave'.addr = q_slave.addr + 1
  /\ qpc' = "slave" /\ qlatch' = qlatch

SlaveCases ==
  SlaveStarts \/ SlaveStops \/ SlaveReplies \/ SlaveWaits \/ SlaveReleases \/ SlaveGoesOn

(* qbus_data_slave is one of the cases, and keeps the types.                *)
LEMMA SlaveCycle ==
  ASSUME QTypeOK, qbus_data_slave
  PROVE  /\ SlaveCases
         /\ q_slave' \in QSlaveState /\ qlatch' \in QLatchState
         /\ qpc' \in {"slave", "bus"} /\ deviceregister_event' \in BOOLEAN
<1>1. /\ q_slave \in QSlaveState /\ qcycle \in QCycleState /\ qlatch \in QLatchState
      /\ deviceregister_event \in BOOLEAN
  BY DEF QTypeOK
<1>2. CASE data_slave_start
  <2>1. q_slave' = [state |-> "dindout_start", addr |-> qcycle.sync] /\ qpc' = "slave"
    BY <1>2 DEF data_slave_start, SlaveStep
  <2>2. q_slave' \in QSlaveState
    BY <1>1, <2>1 DEF QSlaveState, QCycleState
  <2>3. SlaveStarts
    BY <1>2, <2>1 DEF data_slave_start, SlaveStarts
  <2> QED
    BY <1>1, <1>2, <2>1, <2>2, <2>3 DEF data_slave_start, SlaveCases
<1>3. CASE data_slave_dindout_start
  <2>1. CASE /\ ~QSYNC \/ QRPLY \/ q_init.line \/ (qcycle.strobe # "none" /\ ~Emulated(q_slave.addr))
             /\ SlaveStep([q_slave EXCEPT !.state = "stop"])
             /\ UNCHANGED <<qlatch, deviceregister_event>>
    <3>1. q_slave' = [q_slave EXCEPT !.state = "stop"] /\ qpc' = "bus"
      BY <1>1, <2>1 DEF SlaveStep, QSlaveState
    <3>2. q_slave' \in QSlaveState /\ q_slave'.state = "stop" /\ q_slave'.addr = q_slave.addr
      BY <1>1, <3>1 DEF QSlaveState
    <3>3. SlaveStops
      BY <1>3, <2>1, <3>1, <3>2 DEF data_slave_dindout_start, SlaveStops
    <3> QED
      BY <1>1, <2>1, <3>1, <3>2, <3>3 DEF SlaveCases
  <2>2. CASE /\ QSYNC /\ ~QRPLY /\ ~q_init.line /\ qcycle.strobe # "none" /\ Emulated(q_slave.addr)
             /\ qlatch' = [qlatch EXCEPT !.RPLY = TRUE]
             /\ q_slave' = [q_slave EXCEPT !.state = qcycle.strobe]
             /\ deviceregister_event' = (q_slave.addr \in QRegisters)
             /\ qpc' = IF deviceregister_event' THEN "bus" ELSE "slave"
    <3>1. q_slave' \in QSlaveState /\ q_slave'.state = qcycle.strobe /\ q_slave'.addr = q_slave.addr
      BY <1>1, <2>2 DEF QSlaveState, QCycleState
    <3>2. qlatch' \in QLatchState
      BY <1>1, <2>2 DEF QLatchState
    <3>3. SlaveReplies
      BY <1>3, <2>2, <3>1 DEF data_slave_dindout_start, SlaveReplies
    <3> QED
      BY <2>2, <3>1, <3>2, <3>3 DEF SlaveCases
  <2> QED
    BY <1>3, <2>1, <2>2 DEF data_slave_dindout_start, Emulated
<1>4. CASE data_slave_single_complete
  <2>1. CASE qpc' = "bus" /\ UNCHANGED <<qlatch, q_slave>>
    BY <1>1, <1>4, <2>1 DEF data_slave_single_complete, SlaveWaits, SlaveAnswers, SlaveCases
  <2>2. CASE /\ qlatch' = [qlatch EXCEPT !.RPLY = FALSE]
             /\ q_slave' = [q_slave EXCEPT !.state = IF @ = "DIN" THEN "din_block" ELSE "dout_block"]
             /\ qpc' = "slave"
    <3>1. /\ q_slave' \in QSlaveState /\ q_slave'.addr = q_slave.addr
          /\ q_slave'.state = (IF q_slave.state = "DIN" THEN "din_block" ELSE "dout_block")
      BY <1>1, <2>2 DEF QSlaveState
    <3>2. qlatch' \in QLatchState
      BY <1>1, <2>2 DEF QLatchState
    <3>3. SlaveReleases
      BY <1>4, <2>2, <3>1 DEF data_slave_single_complete, SlaveReleases, SlaveAnswers
    <3> QED
      BY <1>1, <1>4, <2>2, <3>1, <3>2, <3>3 DEF data_slave_single_complete, SlaveCases
  <2> QED
    BY <1>4, <2>1, <2>2 DEF data_slave_single_complete
<1>5. CASE data_slave_block_complete
  <2>1. CASE (~QSYNC \/ q_init.line) /\ SlaveStep([q_slave EXCEPT !.state = "stop"])
    <3>1. q_slave' = [q_slave EXCEPT !.state = "stop"] /\ qpc' = "bus"
      BY <1>1, <2>1 DEF SlaveStep, QSlaveState
    <3>2. q_slave' \in QSlaveState /\ q_slave'.state = "stop" /\ q_slave'.addr = q_slave.addr
      BY <1>1, <3>1 DEF QSlaveState
    <3>3. SlaveStops
      BY <1>5, <2>1, <3>1, <3>2 DEF data_slave_block_complete, SlaveStops
    <3> QED
      BY <1>1, <1>5, <3>1, <3>2, <3>3 DEF data_slave_block_complete, SlaveCases
  <2>2. CASE /\ QSYNC /\ qcycle.strobe = "DOUT" /\ q_slave.state = "din_block"
             /\ SlaveStep([q_slave EXCEPT !.state = "dindout_start"])
    <3>1. q_slave' = [q_slave EXCEPT !.state = "dindout_start"] /\ qpc' = "slave"
      BY <1>1, <2>2 DEF SlaveStep, QSlaveState
    <3>2. q_slave' \in QSlaveState /\ q_slave'.state = "dindout_start" /\ q_slave'.addr = q_slave.addr
      BY <1>1, <3>1 DEF QSlaveState
    <3>3. SlaveGoesOn
      BY <1>5, <2>2, <3>1, <3>2 DEF data_slave_block_complete, SlaveGoesOn
    <3> QED
      BY <1>1, <1>5, <3>1, <3>2, <3>3 DEF data_slave_block_complete, SlaveCases
  <2>3. CASE /\ QSYNC
             /\ <<q_slave.state, qcycle.strobe>> \in {<<"din_block", "DIN">>, <<"dout_block", "DOUT">>}
             /\ SlaveStep([state |-> "dindout_start", addr |-> q_slave.addr + 1])
    <3>1. q_slave' = [state |-> "dindout_start", addr |-> q_slave.addr + 1] /\ qpc' = "slave"
      BY <2>3 DEF SlaveStep
    <3>2. q_slave' \in QSlaveState /\ q_slave'.state = "dindout_start"
          /\ q_slave'.addr = q_slave.addr + 1
      BY <1>1, <3>1 DEF QSlaveState
    <3>3. SlaveGoesOn
      BY <1>5, <2>3, <3>1, <3>2 DEF data_slave_block_complete, SlaveGoesOn
    <3> QED
      BY <1>1, <1>5, <3>1, <3>2, <3>3 DEF data_slave_block_complete, SlaveCases
  <2> QED
    BY <1>5, <2>1, <2>2, <2>3 DEF data_slave_block_complete
<1> QED
  BY <1>2, <1>3, <1>4, <1>5 DEF qbus_data_slave

-----------------------------------------------------------------------------
(* The cases of the DMA.                                                    *)
MasterSteps ==
  /\ qpc = "slave" /\ qpc' = "command" /\ q_dma.state # "none"
  /\ UNCHANGED <<q_arb, q_slave, q_init, qcpu, qboard, qcycle>>
  /\ q_dma'.granted = q_dma.granted
  /\ qlatch'.lines = qlatch.lines /\ qlatch'.RPLY = qlatch.RPLY /\ qlatch'.grants = qlatch.grants

MasterAddresses ==
  /\ q_dma.state = "addr" /\ q_dma'.state = "data"
  /\ q_dma'.addr = q_dma.addr /\ q_dma'.left = q_dma.left
  /\ q_dma'.block_end = BlockEnd(q_dma.addr, q_dma.left)
  /\ q_dma'.moved = q_dma.moved /\ q_dma'.in_block = {}
  /\ qlatch'.SACK = qlatch.SACK /\ qarm' = qarm

MasterMoves ==
  /\ q_dma.state \in {"data", "complete"} /\ q_dma'.state = "99"
  /\ q_dma'.addr = q_dma.addr /\ q_dma'.left = q_dma.left /\ q_dma'.block_end = q_dma.block_end
  /\ q_dma'.more => q_dma.addr # q_dma.block_end
  /\ q_dma'.moved = q_dma.moved \cup {q_dma.addr}
  /\ q_dma'.in_block = q_dma.in_block \cup {q_dma.addr}
  /\ qlatch'.SACK = qlatch.SACK /\ qlatch'.SYNC = qlatch.SYNC /\ qarm' = qarm

MasterWaits ==
  /\ q_dma.state = "data" /\ q_dma'.state = "complete"
  /\ q_dma'.addr = q_dma.addr /\ q_dma'.left = q_dma.left /\ q_dma'.block_end = q_dma.block_end
  /\ q_dma'.moved = q_dma.moved /\ q_dma'.in_block = q_dma.in_block
  /\ qlatch'.SACK = qlatch.SACK /\ qlatch'.SYNC = qlatch.SYNC /\ qarm' = qarm

MasterTimesOut ==
  /\ q_dma.state = "complete" /\ q_dma'.state = "99" /\ q_dma'.timeout /\ ~q_dma'.more
  /\ q_dma'.addr = q_dma.addr /\ q_dma'.left = q_dma.left /\ q_dma'.block_end = q_dma.block_end
  /\ q_dma'.moved = q_dma.moved /\ q_dma'.in_block = q_dma.in_block
  /\ qlatch'.SACK = qlatch.SACK /\ qlatch'.SYNC = qlatch.SYNC /\ qarm' = qarm

MasterEnds ==
  /\ q_dma.state = "99" /\ q_dma'.state = "none"
  /\ q_dma.timeout \/ q_dma.left = 1 \/ q_init.line
  /\ q_dma'.in_block = {} /\ ~qlatch'.SACK /\ ~qlatch'.SYNC
  /\ qarm'.lines = qarm.lines /\ qarm'.requests = qarm.requests \ {QNP}

MasterGoesOn ==
  /\ q_dma.state = "99" /\ ~q_dma.timeout /\ q_dma.left # 1
  /\ q_dma'.state = (IF q_dma.more THEN "data" ELSE "addr")
  /\ q_dma'.addr = q_dma.addr + 1 /\ q_dma'.left = q_dma.left - 1
  /\ q_dma'.block_end = q_dma.block_end
  /\ q_dma'.moved = q_dma.moved /\ q_dma'.in_block = q_dma.in_block
  /\ qlatch'.SACK = qlatch.SACK /\ qarm' = qarm

MasterCases ==
  \/ MasterAddresses \/ MasterMoves \/ MasterWaits \/ MasterTimesOut \/ MasterEnds \/ MasterGoesOn

ArmState == [lines : SUBSET QLines, requests : SUBSET QLines, dma : Nat \X (Nat \ {0})]

(* sm_dma at rest, and started with ARM's DMA.                              *)
LEMMA NoDmaType == NoDma \in QDmaState /\ NoDma.state = "none" /\ NoDma.in_block = {}
BY DEF NoDma, QDmaState

(* qbus_master is one of the cases, and keeps the types.                    *)
LEMMA MasterCycle ==
  ASSUME QTypeOK, qbus_master, q_dma.state # "none" => q_dma.left > 0
  PROVE  /\ MasterSteps /\ MasterCases
         /\ q_dma' \in QDmaState /\ qlatch' \in QLatchState /\ qarm' \in ArmState
         /\ deviceregister_event' \in BOOLEAN
<1>1. /\ q_dma \in QDmaState /\ qlatch \in QLatchState /\ qarm \in ArmState
      /\ deviceregister_event \in BOOLEAN
  BY DEF QTypeOK, ArmState
<1>2. /\ qpc = "slave" /\ qpc' = "command"
      /\ UNCHANGED <<q_arb, q_slave, q_init, qcpu, qboard, qcycle>>
  BY DEF qbus_master
<1>3. CASE dma_state_addr
  <2>1. BlockEnd(q_dma.addr, q_dma.left) \in Nat
    BY <1>1, <1>3, BlockEndBounds DEF dma_state_addr, QDmaState
  <2>2. /\ q_dma.state = "addr" /\ UNCHANGED <<deviceregister_event, qarm>>
        /\ q_dma' = [q_dma EXCEPT !.state = "data", !.block_end = BlockEnd(q_dma.addr, q_dma.left),
                                  !.more = TRUE, !.timeout = FALSE, !.in_block = {}]
        /\ qlatch' = [qlatch EXCEPT !.SYNC = TRUE]
    BY <1>3 DEF dma_state_addr
  <2>3. /\ q_dma' \in QDmaState /\ q_dma'.granted = q_dma.granted /\ q_dma'.state = "data"
        /\ q_dma'.addr = q_dma.addr /\ q_dma'.left = q_dma.left
        /\ q_dma'.block_end = BlockEnd(q_dma.addr, q_dma.left)
        /\ q_dma'.moved = q_dma.moved /\ q_dma'.in_block = {}
    <3> DEFINE e == BlockEnd(q_dma.addr, q_dma.left)
    <3>1. q_dma' = [q_dma EXCEPT !.state = "data", !.block_end = e,
                                 !.more = TRUE, !.timeout = FALSE, !.in_block = {}]
      BY <2>2
    <3>2. e \in Int
      BY <2>1
    <3> HIDE DEF e
    <3>3. q_dma' \in QDmaState
      BY <1>1, <3>1, <3>2 DEF QDmaState
    <3>4. /\ q_dma'.granted = q_dma.granted /\ q_dma'.state = "data"
          /\ q_dma'.addr = q_dma.addr /\ q_dma'.left = q_dma.left /\ q_dma'.block_end = e
          /\ q_dma'.moved = q_dma.moved /\ q_dma'.in_block = {}
      BY <1>1, <3>1 DEF QDmaState
    <3> QED
      BY <3>3, <3>4 DEF e
  <2>4. /\ qlatch' \in QLatchState /\ qlatch'.SACK = qlatch.SACK
        /\ qlatch'.lines = qlatch.lines /\ qlatch'.RPLY = qlatch.RPLY
        /\ qlatch'.grants = qlatch.grants
    BY <1>1, <2>2 DEF QLatchState
  <2> QED
    BY <1>1, <1>2, <2>2, <2>3, <2>4 DEF MasterSteps, MasterCases, MasterAddresses
<1>4. CASE dma_state_data
  <2>1. CASE Emulated(q_dma.addr)
    <3>1. /\ q_dma.state = "data" /\ UNCHANGED <<qlatch, qarm>>
          /\ q_dma' = [q_dma EXCEPT !.moved = @ \cup {q_dma.addr}, !.in_block = @ \cup {q_dma.addr},
                                    !.state = "99", !.more = q_dma.addr # q_dma.block_end]
          /\ deviceregister_event' \in BOOLEAN
      BY <1>1, <1>4, <2>1 DEF dma_state_data, Emulated, Moved, QDmaState
    <3>2. /\ q_dma' \in QDmaState /\ q_dma'.granted = q_dma.granted /\ q_dma'.state = "99"
          /\ q_dma'.addr = q_dma.addr /\ q_dma'.left = q_dma.left
          /\ q_dma'.block_end = q_dma.block_end
          /\ q_dma'.more => q_dma.addr # q_dma.block_end
          /\ q_dma'.moved = q_dma.moved \cup {q_dma.addr}
          /\ q_dma'.in_block = q_dma.in_block \cup {q_dma.addr}
      BY <1>1, <3>1 DEF QDmaState
    <3> QED
      BY <1>1, <1>2, <3>1, <3>2 DEF MasterSteps, MasterCases, MasterMoves
  <2>2. CASE ~Emulated(q_dma.addr)
    <3>1. /\ q_dma.state = "data" /\ UNCHANGED <<deviceregister_event, qarm>>
          /\ q_dma' = [q_dma EXCEPT !.state = "complete"]
          /\ qlatch' = [qlatch EXCEPT !.strobe = TRUE]
      BY <1>4, <2>2 DEF dma_state_data, Emulated
    <3>2. /\ q_dma' \in QDmaState /\ q_dma'.granted = q_dma.granted /\ q_dma'.state = "complete"
          /\ q_dma'.addr = q_dma.addr /\ q_dma'.left = q_dma.left
          /\ q_dma'.block_end = q_dma.block_end
          /\ q_dma'.moved = q_dma.moved /\ q_dma'.in_block = q_dma.in_block
      BY <1>1, <3>1 DEF QDmaState
    <3>3. /\ qlatch' \in QLatchState /\ qlatch'.SACK = qlatch.SACK /\ qlatch'.SYNC = qlatch.SYNC
          /\ qlatch'.lines = qlatch.lines /\ qlatch'.RPLY = qlatch.RPLY
          /\ qlatch'.grants = qlatch.grants
      BY <1>1, <3>1 DEF QLatchState
    <3> QED
      BY <1>1, <1>2, <3>1, <3>2, <3>3 DEF MasterSteps, MasterCases, MasterWaits
  <2> QED
    BY <2>1, <2>2
<1>5. CASE dma_state_complete
  <2>1. /\ q_dma.state = "complete" /\ UNCHANGED <<deviceregister_event, qarm>>
        /\ qlatch' = [qlatch EXCEPT !.strobe = FALSE]
    BY <1>5 DEF dma_state_complete
  <2>2. /\ qlatch' \in QLatchState /\ qlatch'.SACK = qlatch.SACK /\ qlatch'.SYNC = qlatch.SYNC
        /\ qlatch'.lines = qlatch.lines /\ qlatch'.RPLY = qlatch.RPLY
        /\ qlatch'.grants = qlatch.grants
    BY <1>1, <2>1 DEF QLatchState
  <2>3. CASE q_dma.addr \in QForeign
    <3>1. PICK REF \in BOOLEAN :
            q_dma' = [q_dma EXCEPT !.moved = @ \cup {q_dma.addr}, !.in_block = @ \cup {q_dma.addr},
                        !.state = "99", !.more = REF /\ q_dma.addr # q_dma.block_end]
      BY <1>1, <1>5, <2>3 DEF dma_state_complete, Moved, QDmaState
    <3>2. /\ q_dma' \in QDmaState /\ q_dma'.granted = q_dma.granted /\ q_dma'.state = "99"
          /\ q_dma'.addr = q_dma.addr /\ q_dma'.left = q_dma.left
          /\ q_dma'.block_end = q_dma.block_end
          /\ q_dma'.more => q_dma.addr # q_dma.block_end
          /\ q_dma'.moved = q_dma.moved \cup {q_dma.addr}
          /\ q_dma'.in_block = q_dma.in_block \cup {q_dma.addr}
      BY <1>1, <3>1 DEF QDmaState
    <3> QED
      BY <1>1, <1>2, <2>1, <2>2, <3>2 DEF MasterSteps, MasterCases, MasterMoves
  <2>4. CASE q_dma.addr \notin QForeign
    <3>1. q_dma' = [q_dma EXCEPT !.state = "99", !.more = FALSE, !.timeout = TRUE]
      BY <1>5, <2>4 DEF dma_state_complete
    <3>2. /\ q_dma' \in QDmaState /\ q_dma'.granted = q_dma.granted /\ q_dma'.state = "99"
          /\ q_dma'.addr = q_dma.addr /\ q_dma'.left = q_dma.left
          /\ q_dma'.block_end = q_dma.block_end /\ q_dma'.timeout /\ ~q_dma'.more
          /\ q_dma'.moved = q_dma.moved /\ q_dma'.in_block = q_dma.in_block
      BY <1>1, <3>1 DEF QDmaState
    <3> QED
      BY <1>1, <1>2, <2>1, <2>2, <3>2 DEF MasterSteps, MasterCases, MasterTimesOut
  <2> QED
    BY <2>3, <2>4
<1>6. CASE dma_state_99
  <2>1. CASE q_dma.timeout \/ q_dma.left = 1 \/ q_init.line
    <3>1. /\ q_dma.state = "99" /\ UNCHANGED deviceregister_event
          /\ q_dma' = [NoDma EXCEPT !.granted = q_dma.granted]
          /\ qlatch' = [qlatch EXCEPT !.SACK = FALSE, !.SYNC = FALSE]
          /\ qarm' = [qarm EXCEPT !.requests = @ \ {QNP}]
      BY <1>6, <2>1 DEF dma_state_99
    <3>2. /\ q_dma' \in QDmaState /\ q_dma'.granted = q_dma.granted /\ q_dma'.state = "none"
          /\ q_dma'.in_block = {}
      <4>1. q_dma.granted \in BOOLEAN
        BY <1>1 DEF QDmaState
      <4> QED
        BY <3>1, <4>1, NoDmaType DEF QDmaState
    <3>3. /\ qlatch' \in QLatchState /\ ~qlatch'.SACK /\ ~qlatch'.SYNC
          /\ qlatch'.lines = qlatch.lines /\ qlatch'.RPLY = qlatch.RPLY
          /\ qlatch'.grants = qlatch.grants
      BY <1>1, <3>1 DEF QLatchState
    <3>4. /\ qarm' \in ArmState /\ qarm'.lines = qarm.lines
          /\ qarm'.requests = qarm.requests \ {QNP}
      BY <1>1, <3>1 DEF ArmState
    <3> QED
      BY <1>1, <1>2, <2>1, <3>1, <3>2, <3>3, <3>4 DEF MasterSteps, MasterCases, MasterEnds
  <2>2. CASE ~(q_dma.timeout \/ q_dma.left = 1 \/ q_init.line)
    <3>1. /\ q_dma.state = "99" /\ UNCHANGED <<deviceregister_event, qarm>>
          /\ q_dma' = [q_dma EXCEPT !.addr = @ + 1, !.left = @ - 1,
                                    !.state = IF q_dma.more THEN "data" ELSE "addr"]
          /\ qlatch' = [qlatch EXCEPT !.SYNC = q_dma.more]
      BY <1>6, <2>2 DEF dma_state_99
    <3>2. q_dma.left - 1 \in Nat /\ q_dma.addr + 1 \in Nat /\ q_dma.more \in BOOLEAN
      BY <1>1, <3>1 DEF QDmaState
    <3>3. /\ q_dma' \in QDmaState /\ q_dma'.granted = q_dma.granted
          /\ q_dma'.state = (IF q_dma.more THEN "data" ELSE "addr")
          /\ q_dma'.addr = q_dma.addr + 1 /\ q_dma'.left = q_dma.left - 1
          /\ q_dma'.block_end = q_dma.block_end
          /\ q_dma'.moved = q_dma.moved /\ q_dma'.in_block = q_dma.in_block
      BY <1>1, <3>1, <3>2 DEF QDmaState
    <3>4. /\ qlatch' \in QLatchState /\ qlatch'.SACK = qlatch.SACK
          /\ qlatch'.lines = qlatch.lines /\ qlatch'.RPLY = qlatch.RPLY
          /\ qlatch'.grants = qlatch.grants
      BY <1>1, <3>1, <3>2 DEF QLatchState
    <3> QED
      BY <1>1, <1>2, <2>2, <3>1, <3>3, <3>4 DEF MasterSteps, MasterCases, MasterGoesOn
  <2> QED
    BY <2>1, <2>2
<1> QED
  BY <1>3, <1>4, <1>5, <1>6 DEF qbus_master

LEMMA StartedDma ==
  ASSUME QTypeOK, NEW g \in BOOLEAN
  PROVE  /\ DmaStarted(g) \in QDmaState /\ DmaStarted(g).state = "addr"
         /\ DmaStarted(g).addr = qarm.dma[1] /\ DmaStarted(g).left = qarm.dma[2]
         /\ DmaStarted(g).moved = {} /\ DmaStarted(g).in_block = {}
         /\ DmaStarted(g).granted = (q_dma.granted /\ g)
<1>1. qarm.dma[1] \in Nat /\ qarm.dma[2] \in Nat \ {0} /\ q_dma.granted \in BOOLEAN
  BY DEF QTypeOK, QDmaState
<1>2. NoDma.moved = {} /\ NoDma.in_block = {}
  BY DEF NoDma
<1> QED
  BY <1>1, <1>2, NoDmaType DEF DmaStarted, QDmaState

-----------------------------------------------------------------------------
(* The types.                                                               *)
LEMMA InitTypes == QbusInit => QTypeOK
<1> SUFFICES ASSUME QbusInit PROVE QTypeOK
  OBVIOUS
<1>1. q_arb \in QArbState
  BY QbusAssumption DEF QbusInit, QArbState
<1>2. qlatch \in QLatchState
  BY DEF QbusInit, QLatchState
<1>3. q_dma \in QDmaState
  BY NoDmaType DEF QbusInit
<1>4. q_slave \in QSlaveState
  BY DEF QbusInit, QSlaveState
<1>5. qcycle \in QCycleState
  BY DEF QbusInit, NoCycle, QCycleState
<1>6. qboard \in QBoardState
  BY QbusAssumption DEF QbusInit, QBoardState
<1>7. qarm \in ArmState
  BY QbusAssumption DEF QbusInit, ArmState
<1> QED
  BY <1>1, <1>2, <1>3, <1>4, <1>5, <1>6, <1>7 DEF QbusInit, QTypeOK, ArmState

(* The commands keep the types ...                                          *)
LEMMA CommandTypes ==
  ASSUME QTypeOK,
         \/ qbus_no_command \/ qbus_CPU_BUS_ACCESS
         \/ \E dma \in QDmas : qbus_DMA(dma)
         \/ \E level \in QLevels : qbus_INTR(level) \/ qbus_INTR_CANCEL(level)
  PROVE  QTypeOK'
<1>1. q_arb \in QArbState /\ qarm \in ArmState
  BY DEF QTypeOK, ArmState
<1>2. QLevels \subseteq QLines /\ QNP \in QLines
  BY DEF QLines
<1>3. q_arb' \in QArbState /\ qarm' \in ArmState
  <2>1. CASE qbus_no_command
    BY <1>1, <2>1 DEF qbus_no_command, QCommand
  <2>2. CASE qbus_CPU_BUS_ACCESS
    <3>1. q_arb' = [q_arb EXCEPT !.inhibit = ~@] /\ qarm' = qarm
      BY <2>2 DEF qbus_CPU_BUS_ACCESS, QCommand
    <3> QED
      BY <1>1, <3>1 DEF QArbState
  <2>3. ASSUME NEW dma \in QDmas, qbus_DMA(dma)
        PROVE  q_arb' \in QArbState /\ qarm' \in ArmState
    <3>1. /\ q_arb' = [q_arb EXCEPT !.request = @ \cup {QNP}]
          /\ qarm' = [qarm EXCEPT !.requests = @ \cup {QNP}, !.dma = dma]
      BY <2>3 DEF qbus_DMA, QCommand
    <3>2. dma \in Nat \X (Nat \ {0})
      BY QbusAssumption
    <3>3. q_arb' \in QArbState
      BY <1>1, <1>2, <3>1 DEF QArbState
    <3>4. qarm' \in ArmState
      BY <1>1, <1>2, <3>1, <3>2 DEF ArmState
    <3> QED
      BY <3>3, <3>4
  <2>4. ASSUME NEW level \in QLevels, qbus_INTR(level)
        PROVE  q_arb' \in QArbState /\ qarm' \in ArmState
    <3>1. /\ q_arb' = [q_arb EXCEPT !.request = @ \cup {level}]
          /\ qarm' = [qarm EXCEPT !.requests = @ \cup {level}]
      BY <2>4 DEF qbus_INTR, QCommand
    <3>2. q_arb' \in QArbState
      BY <1>1, <1>2, <3>1 DEF QArbState
    <3>3. qarm' \in ArmState
      BY <1>1, <1>2, <3>1 DEF ArmState
    <3> QED
      BY <3>2, <3>3
  <2>5. ASSUME NEW level \in QLevels, qbus_INTR_CANCEL(level)
        PROVE  q_arb' \in QArbState /\ qarm' \in ArmState
    <3>1. /\ q_arb' = [q_arb EXCEPT !.request = @ \ {level}]
          /\ qarm' = [qarm EXCEPT !.requests = @ \ {level}]
      BY <2>5 DEF qbus_INTR_CANCEL, QCommand
    <3>2. q_arb' \in QArbState
      BY <1>1, <1>2, <3>1 DEF QArbState
    <3>3. qarm' \in ArmState
      BY <1>1, <1>2, <3>1 DEF ArmState
    <3> QED
      BY <3>2, <3>3
  <2> QED
    BY <2>1, <2>2, <2>3, <2>4, <2>5
<1>4. /\ qpc' = "slave"
      /\ UNCHANGED <<qlatch, q_dma, q_slave, q_init, deviceregister_event, qcpu, qboard, qcycle>>
  BY DEF qbus_no_command, qbus_CPU_BUS_ACCESS, qbus_DMA, qbus_INTR, qbus_INTR_CANCEL, QCommand
<1> QED
  BY <1>3, <1>4 DEF QTypeOK, ArmState

(* ... the other states of the main loop ...                                *)
LEMMA LoopTypes ==
  ASSUME QTypeOK, q_dma.state # "none" => q_dma.left > 0,
         qbus_data_slave \/ qbus_arbitration \/ qbus_master
  PROVE  QTypeOK'
<1>1. CASE qbus_data_slave
  <2>1. /\ q_slave' \in QSlaveState /\ qlatch' \in QLatchState
        /\ qpc' \in {"slave", "bus"} /\ deviceregister_event' \in BOOLEAN
    BY <1>1, SlaveCycle
  <2> QED
    BY <1>1, <2>1 DEF QTypeOK, qbus_data_slave
<1>2. CASE qbus_arbitration
  <2>1. /\ q_arb' \in QArbState /\ qlatch' \in QLatchState
        /\ qarm' \in [lines : SUBSET QLines, requests : SUBSET QLines, dma : Nat \X (Nat \ {0})]
    BY <1>2, ArbitrationStep
  <2>2. q_dma' \in QDmaState
    BY <1>2, StartedDma DEF QTypeOK, qbus_arbitration
  <2> QED
    BY <1>2, <2>1, <2>2 DEF QTypeOK, qbus_arbitration
<1>3. CASE qbus_master
  <2>1. /\ q_dma' \in QDmaState /\ qlatch' \in QLatchState /\ qarm' \in ArmState
        /\ deviceregister_event' \in BOOLEAN
    BY <1>3, MasterCycle
  <2> QED
    BY <1>3, <2>1 DEF QTypeOK, ArmState, qbus_master
<1> QED
  BY <1>1, <1>2, <1>3

(* ... the cycles ...                                                       *)
LEMMA CycleTypes ==
  ASSUME QTypeOK,
         \/ \E c \in QCycles : cpu_cycle(c)
         \/ cycle_strobe \/ cycle_rply \/ cycle_strobe_end \/ cycle_end \/ qboard_cycle
  PROVE  QTypeOK'
<1>1. qcycle \in QCycleState /\ qboard \in QBoardState
  BY DEF QTypeOK
<1>2. qcycle' \in QCycleState /\ qboard' \in QBoardState
  <2>1. ASSUME NEW c \in QCycles, cpu_cycle(c)
        PROVE  qcycle' \in QCycleState /\ qboard' = qboard
    <3>1. /\ qcycle' = [NoCycle EXCEPT !.by = "processor", !.sync = c.addr, !.addr = c.addr,
                                       !.todo = c.strobes]
          /\ qboard' = qboard
      BY <2>1 DEF cpu_cycle, CycleStep
    <3>2. c.addr \in Nat /\ c.strobes \in Seq({"DIN", "DOUT"})
      BY QbusAssumption
    <3> QED
      BY <3>1, <3>2 DEF NoCycle, QCycleState
  <2>2. CASE cycle_strobe
    <3>1. qcycle' = [qcycle EXCEPT !.strobe = qcycle.todo[1]] /\ qboard' = qboard
      BY <2>2 DEF cycle_strobe, CycleStep
    <3>2. qcycle.todo[1] \in {"DIN", "DOUT"}
      BY <1>1, <2>2 DEF cycle_strobe, QCycleState
    <3> QED
      BY <1>1, <3>1, <3>2 DEF QCycleState
  <2>3. CASE cycle_rply
    <3>1. qcycle' = [qcycle EXCEPT !.rply = TRUE] /\ qboard' = qboard
      BY <2>3 DEF cycle_rply, CycleStep
    <3> QED
      BY <1>1, <3>1 DEF QCycleState
  <2>4. CASE cycle_strobe_end
    <3> DEFINE rest == SubSeq(qcycle.todo, 2, Len(qcycle.todo))
               addr == IF rest = <<>> \/ rest[1] # qcycle.strobe THEN qcycle.addr
                       ELSE qcycle.addr + 1
    <3>1. /\ qcycle' = [qcycle EXCEPT !.strobe = "none", !.rply = FALSE, !.todo = rest,
                                      !.addr = addr]
          /\ qboard' = qboard
      BY <2>4 DEF cycle_strobe_end, CycleStep
    <3>2. rest \in Seq({"DIN", "DOUT"}) /\ addr \in Nat
      BY <1>1 DEF QCycleState
    <3> HIDE DEF rest, addr
    <3> QED
      BY <1>1, <3>1, <3>2 DEF QCycleState
  <2>5. CASE cycle_end
    <3>1. /\ qcycle' = NoCycle
          /\ qboard' = IF qcycle.by = "board" THEN [qboard EXCEPT !.SACK = FALSE, !.granted = {}]
                       ELSE qboard
      BY <2>5 DEF cycle_end
    <3>2. qboard' \in QBoardState
      BY <1>1, <3>1 DEF QBoardState
    <3> QED
      BY <3>1, <3>2 DEF QCycleState, NoCycle
  <2>6. CASE qboard_cycle
    <3>1. PICK a \in QMemory \cup QForeign :
            CycleStep([NoCycle EXCEPT !.by = "board", !.sync = a, !.addr = a, !.todo = <<"DIN">>])
      BY <2>6 DEF qboard_cycle
    <3>2. a \in Nat /\ <<"DIN">> \in Seq({"DIN", "DOUT"})
      BY QbusAssumption
    <3>3. /\ qcycle' = [NoCycle EXCEPT !.by = "board", !.sync = a, !.addr = a, !.todo = <<"DIN">>]
          /\ qboard' = qboard
      BY <3>1 DEF CycleStep
    <3>4. qcycle' \in QCycleState
      BY <3>2, <3>3 DEF NoCycle, QCycleState
    <3> QED
      BY <1>1, <3>3, <3>4
  <2> QED
    BY <1>1, <2>1, <2>2, <2>3, <2>4, <2>5, <2>6
<1>3. UNCHANGED <<qpc, q_arb, qlatch, q_dma, q_slave, q_init, deviceregister_event, qcpu, qarm>>
  BY DEF cpu_cycle, cycle_strobe, cycle_rply, cycle_strobe_end, cycle_end, qboard_cycle,
     CycleStep
<1> QED
  BY <1>2, <1>3 DEF QTypeOK

(* ... the processor's grants and INIT ...                                  *)
LEMMA GrantTypes ==
  ASSUME QTypeOK,
         cpu_DMGO \/ cpu_DMGO_end \/ cpu_IAKO \/ cpu_IAKO_end \/ qbus_INIT \/ qbus_deviceregister_ack
  PROVE  QTypeOK'
<1>1. CASE qbus_INIT
  <2>1. q_init \in [line : BOOLEAN, pulses : Nat]
    BY DEF QTypeOK
  <2>2. q_init' \in [line : BOOLEAN, pulses : Nat]
    <3> DEFINE line == ~q_init.line
               pulses == q_init.pulses + (IF q_init.line THEN 0 ELSE 1)
    <3>1. q_init' = [q_init EXCEPT !.line = line, !.pulses = pulses]
      BY <1>1 DEF qbus_INIT
    <3>2. line \in BOOLEAN /\ pulses \in Nat
      BY <2>1
    <3> HIDE DEF line, pulses
    <3> QED
      BY <2>1, <3>1, <3>2
  <2> QED
    BY <1>1, <2>2 DEF qbus_INIT, QTypeOK
<1>2. CASE qbus_deviceregister_ack
  BY <1>2 DEF qbus_deviceregister_ack, QTypeOK
<1>3. CASE cpu_DMGO \/ cpu_DMGO_end \/ cpu_IAKO \/ cpu_IAKO_end
  <2>1. qcpu' \in [dmg : BOOLEAN, iak : QLevels \cup {0}]
    <3>1. CASE cpu_DMGO
      BY <3>1 DEF cpu_DMGO, CpuStep, QTypeOK
    <3>2. CASE cpu_DMGO_end
      BY <3>2 DEF cpu_DMGO_end, CpuStep, QTypeOK
    <3>3. CASE cpu_IAKO
      <4> DEFINE level == Max(QRequests \cap QLevels)
      <4>1. level \in QLevels
        BY <3>3, HighestLevel DEF cpu_IAKO
      <4>2. qcpu' = [qcpu EXCEPT !.iak = level]
        BY <3>3 DEF cpu_IAKO, CpuStep
      <4> HIDE DEF level
      <4> QED
        BY <4>1, <4>2 DEF QTypeOK
    <3>4. CASE cpu_IAKO_end
      BY <3>4 DEF cpu_IAKO_end, CpuStep, QTypeOK
    <3> QED
      BY <1>3, <3>1, <3>2, <3>3, <3>4
  <2> QED
    BY <1>3, <2>1 DEF cpu_DMGO, cpu_DMGO_end, cpu_IAKO, cpu_IAKO_end, CpuStep, QTypeOK
<1> QED
  BY <1>1, <1>2, <1>3

(* ... and the other board.                                                 *)
LEMMA BoardTypes ==
  ASSUME QTypeOK,
         \/ \E line \in QLines : qboard_request(line)
         \/ qboard_SACK \/ (\E level \in QLevels : qboard_vector(level)) \/ qboard_vector_end
  PROVE  QTypeOK'
<1>1. qboard \in QBoardState
  BY DEF QTypeOK
<1>2. qboard' \in QBoardState
  <2>1. ASSUME NEW line \in QLines, qboard_request(line)
        PROVE  qboard' \in QBoardState
    BY <1>1, <2>1 DEF qboard_request, QBoardStep, QBoardState
  <2>2. CASE qboard_SACK
    BY <1>1, <2>2 DEF qboard_SACK, QBoardStep, QBoardState, QLines
  <2>3. ASSUME NEW level \in QLevels, qboard_vector(level)
        PROVE  qboard' \in QBoardState
    BY <1>1, <2>3 DEF qboard_vector, QBoardStep, QBoardState, QLines
  <2>4. CASE qboard_vector_end
    BY <1>1, <2>4 DEF qboard_vector_end, QBoardStep, QBoardState
  <2> QED
    BY <2>1, <2>2, <2>3, <2>4
<1>3. UNCHANGED <<qpc, q_arb, qlatch, q_dma, q_slave, q_init, deviceregister_event, qcpu, qcycle, qarm>>
  BY DEF qboard_request, qboard_SACK, qboard_vector, qboard_vector_end, QBoardStep
<1> QED
  BY <1>2, <1>3 DEF QTypeOK

(* Every step keeps the types.                                              *)
LEMMA QTypeStep ==
  ASSUME QTypeOK, q_dma.state # "none" => q_dma.left > 0,
         qbus_loop \/ qbus_deviceregister_ack \/ qbus_environment
  PROVE  QTypeOK'
BY LoopTypes, CommandTypes, GrantTypes, CycleTypes, BoardTypes DEF qbus_loop, qbus_environment

-----------------------------------------------------------------------------
(* The inductive invariant: the initial states.                             *)
LEMMA InitInvariant ==
  ASSUME OwnLines, QbusInit
  PROVE  QIndInv
<1>1. /\ q_arb.state \in {"noop", "grant_check"} /\ q_arb.request = {} /\ q_arb.signalled = {}
      /\ q_arb.grant = {}
  BY DEF QbusInit
<1>2. QLinesKept
  BY <1>1 DEF QbusInit, QLinesKept, OwnLines
<1>3. PruInStep
  BY <1>1 DEF QbusInit, PruInStep, NoDma, SlaveAnswers
<1>4. NoProcessorInStep
  BY DEF QbusInit, NoProcessorInStep, NoCycle
<1>5. GrantsInStep /\ BoardInStep
  BY <1>1 DEF QbusInit, GrantsInStep, VectorTaken, BoardInStep
<1>6. CycleInStep /\ SlaveFollows
  BY <1>1 DEF QbusInit, CycleInStep, SlaveFollows, SlaveAnswers, NoCycle
<1>7. WordsInBlock /\ WordsMoved
  BY DEF QbusInit, WordsInBlock, WordsMoved, NoDma
<1> QED
  BY <1>2, <1>3, <1>4, <1>5, <1>6, <1>7 DEF QIndInv

-----------------------------------------------------------------------------
(* The slave.                                                               *)
LEMMA SlaveKeepsInvariant ==
  ASSUME QTypeOK, QIndInv, qbus_data_slave
  PROVE  QIndInv'
<1>1. SlaveCases
  BY SlaveCycle
<1>2. /\ q_dma.state = "none"
      /\ UNCHANGED <<q_arb, q_dma, q_init, qcpu, qboard, qcycle, qarm>>
  BY DEF qbus_data_slave
<1>3. /\ qlatch'.lines = qlatch.lines /\ qlatch'.SACK = qlatch.SACK
      /\ qlatch'.SYNC = qlatch.SYNC /\ qlatch'.grants = qlatch.grants
  BY <1>1 DEF SlaveCases, SlaveStarts, SlaveStops, SlaveReplies, SlaveWaits, SlaveReleases,
              SlaveGoesOn, QTypeOK, QLatchState
<1>4. qlatch'.RPLY = IF SlaveReplies THEN TRUE ELSE IF SlaveReleases THEN FALSE ELSE qlatch.RPLY
  BY <1>1 DEF SlaveCases, SlaveStarts, SlaveStops, SlaveReplies, SlaveWaits, SlaveReleases,
              SlaveGoesOn, SlaveAnswers, QTypeOK, QLatchState
<1>5. /\ qcycle.strobe \in {"none", "DIN", "DOUT"} /\ q_slave.addr \in Nat
      /\ qcycle.todo \in Seq({"DIN", "DOUT"}) /\ qcycle.addr \in Nat
      /\ q_slave.state \in {"stop", "dindout_start", "DIN", "DOUT", "din_block", "dout_block"}
  BY DEF QTypeOK, QCycleState, QSlaveState
<1>6. SlaveAnswers => qcycle.by # "none"
  BY DEF QIndInv, CycleInStep
<1>7. qcycle.by = "none" => qcycle.strobe = "none"
  BY DEF QIndInv, CycleInStep, NoCycle
<1>8. QLinesKept' /\ WordsInBlock' /\ WordsMoved'
  BY <1>2 DEF QIndInv, QLinesKept, WordsInBlock, InBlock, WordsMoved
<1>9. GrantsInStep' /\ BoardInStep'
  BY <1>2, <1>3 DEF QIndInv, GrantsInStep, BoardInStep, VectorTaken, QSACK
<1>10. PruInStep'
  <2>1. SlaveReleases => q_arb.state # "intr_complete"
    BY <1>6 DEF SlaveReleases, QIndInv, CycleInStep, VectorTaken
  <2>2. qlatch'.RPLY <=> SlaveAnswers' \/ q_arb'.state = "intr_complete"
    <3>1. CASE SlaveReplies
      BY <1>4, <1>5, <3>1 DEF SlaveReplies, SlaveAnswers
    <3>2. CASE SlaveReleases
      BY <1>2, <1>4, <2>1, <3>2 DEF SlaveReleases, SlaveReplies, SlaveAnswers
    <3>3. CASE ~SlaveReplies /\ ~SlaveReleases
      <4>1. qlatch'.RPLY = qlatch.RPLY
        BY <1>4, <3>3
      <4>2. SlaveAnswers' <=> SlaveAnswers
        BY <1>1, <3>3 DEF SlaveCases, SlaveStarts, SlaveStops, SlaveWaits, SlaveGoesOn,
           SlaveAnswers
      <4> QED
        BY <1>2, <4>1, <4>2 DEF QIndInv, PruInStep
    <3> QED
      BY <3>1, <3>2, <3>3
  <2>3. qpc' # "slave" => SlaveAnswers' \/ q_slave'.state = "stop"
    BY <1>1, <1>5 DEF SlaveCases, SlaveStarts, SlaveStops, SlaveReplies, SlaveWaits,
       SlaveReleases,
                      SlaveGoesOn, SlaveAnswers
  <2> QED
    BY <1>2, <1>3, <2>2, <2>3 DEF QIndInv, PruInStep, Processor
<1>11. NoProcessorInStep'
  <2>1. Processor
    BY <1>1 DEF QIndInv, NoProcessorInStep, SlaveCases, SlaveStarts, SlaveStops, SlaveReplies,
                SlaveWaits, SlaveReleases, SlaveGoesOn, SlaveAnswers
  <2> QED
    BY <1>2, <2>1 DEF NoProcessorInStep, Processor
<1>12. CycleInStep'
  <2>1. qcycle.by = "none" => ~SlaveAnswers'
    BY <1>1, <1>6, <1>7 DEF SlaveCases, SlaveStarts, SlaveStops, SlaveReplies, SlaveWaits,
                           SlaveReleases, SlaveGoesOn, SlaveAnswers
  <2> QED
    BY <1>2, <1>3, <2>1 DEF QIndInv, CycleInStep, VectorTaken
<1>13. SlaveFollows'
  <2> SUFFICES ASSUME qcycle.by # "none" PROVE SlaveFollows'
    BY <1>2 DEF SlaveFollows
  <2>1. SlaveFollows /\ CycleInStep /\ PruInStep /\ BoardInStep
    BY DEF QIndInv
  <2>2. CASE SlaveStarts
    BY <1>2, <2>1, <2>2 DEF SlaveStarts, SlaveFollows, SlaveAnswers, NextWord
  <2>3. CASE SlaveStops
    <3>1. ~qlatch.RPLY \/ SlaveAnswers
      BY <2>1 DEF CycleInStep, PruInStep, VectorTaken
    <3>2. q_slave.state = "dindout_start" /\ QRPLY => qcycle.addr \in QForeign
      BY <2>1, <3>1 DEF QRPLY, CycleInStep, SlaveAnswers
    <3>3. Emulated(qcycle.sync) => qcycle.addr = qcycle.sync
      <4> SUFFICES ASSUME Emulated(qcycle.sync) PROVE qcycle.addr = qcycle.sync
        OBVIOUS
      <4>1. Emulated(qcycle.addr)
        BY <2>1 DEF SlaveFollows
      <4>2. qcycle.addr \notin QForeign
        BY <4>1, QbusAssumption
      <4>3. ~(q_slave.state = "dindout_start" /\ ~Emulated(q_slave.addr))
        BY <2>1, <4>1 DEF SlaveFollows
      <4>4. QSYNC
        BY DEF QSYNC
      <4>5. q_init.line
        BY <2>3, <3>2, <4>2, <4>3, <4>4 DEF SlaveStops
      <4> QED
        BY <2>1, <4>5 DEF CycleInStep, QTypeOK, QCycleState
    <3> QED
      BY <1>2, <2>1, <2>3, <3>3 DEF SlaveStops, SlaveFollows, SlaveAnswers, NextWord
  <2>4. CASE SlaveReplies
    <3>1. Emulated(qcycle.sync) /\ q_slave.addr = qcycle.addr
      BY <2>1, <2>4 DEF SlaveReplies, SlaveFollows
    <3> QED
      BY <1>2, <1>5, <2>1, <2>4, <3>1 DEF SlaveReplies, SlaveFollows, SlaveAnswers
  <2>5. CASE SlaveWaits
    BY <1>2, <2>1, <2>5 DEF SlaveWaits, SlaveFollows, SlaveAnswers, NextWord
  <2>6. CASE SlaveReleases
    BY <1>2, <2>1, <2>6 DEF SlaveReleases, SlaveFollows, SlaveAnswers, NextWord
  <2>7. CASE SlaveGoesOn
    <3>1. qcycle.todo # <<>> /\ qcycle.todo[1] = qcycle.strobe
      BY <2>1, <2>7 DEF SlaveGoesOn, CycleInStep
    <3>2. q_slave.state \in {"din_block", "dout_block"}
      BY <2>7 DEF SlaveGoesOn
    <3>3. Emulated(qcycle.sync)
      BY <2>1, <3>2 DEF SlaveFollows
    <3>4. qcycle.addr = q_slave'.addr
      BY <2>1, <2>7, <3>1, <3>3 DEF SlaveGoesOn, SlaveFollows, NextWord
    <3> QED
      BY <1>2, <2>1, <2>7, <3>3, <3>4 DEF SlaveGoesOn, SlaveFollows, SlaveAnswers
  <2> QED
    BY <1>1, <2>2, <2>3, <2>4, <2>5, <2>6, <2>7 DEF SlaveCases
<1> QED
  BY <1>8, <1>9, <1>10, <1>11, <1>12, <1>13 DEF QIndInv

-----------------------------------------------------------------------------
(* The arbitration.                                                         *)
LEMMA ArbitrationKeepsInvariant ==
  ASSUME QTypeOK, QIndInv, qbus_arbitration, q_dma'.granted
  PROVE  QIndInv'
<1>1. Arbitrates /\ ArbitrationCases
  BY ArbitrationStep
<1>2. /\ QLinesKept /\ PruInStep /\ NoProcessorInStep /\ GrantsInStep /\ BoardInStep
      /\ CycleInStep /\ SlaveFollows /\ WordsInBlock /\ WordsMoved
  BY DEF QIndInv
<1>3. /\ UNCHANGED <<q_slave, q_init, deviceregister_event, qcpu, qboard, qcycle>>
      /\ qlatch'.SYNC = qlatch.SYNC /\ qarm'.lines = qarm.lines /\ qarm'.dma = qarm.dma
  BY <1>1 DEF Arbitrates
<1>4. q_dma.state = "none" /\ (SlaveAnswers \/ q_slave.state = "stop") /\ ~qlatch.SYNC
  BY <1>1, <1>2 DEF Arbitrates, PruInStep
<1>5. /\ AfterInit \subseteq q_arb.request /\ AfterInit \cap Cleared = {}
      /\ Cleared \cap InProgress = {}
  BY DEF AfterInit, Cleared
<1>6. QNP \notin QLevels /\ 0 \notin QLevels /\ qcpu.iak \in QLevels \cup {0}
  BY QbusAssumption DEF QTypeOK, QLines
<1>7. /\ qcpu.dmg => GrantIn = {QNP}
      /\ ~qcpu.dmg /\ qcpu.iak # 0 => GrantIn = {qcpu.iak}
      /\ ~qcpu.dmg /\ qcpu.iak = 0 => GrantIn = {}
  BY <1>2 DEF GrantIn, GrantsInStep
<1>8. qlatch'.grants \subseteq GrantIn
  BY <1>1 DEF ArbitrationCases, PruWaits, PruChecks, PruTakesBus, PruTakesVector,
     PruEndsVector,
              PruIsAlone, Forwarded
<1>9. ~(PruEndsVector /\ QNP \in q_arb.signalled)
  BY StartedDma DEF PruEndsVector
<1>10. PruTakesBus => q_slave.state = "stop" /\ qcycle.by = "none" /\ qcpu.dmg /\ qcpu.iak = 0
  BY <1>2, <1>4 DEF PruTakesBus, GrantsInStep, QSYNC, CycleInStep
<1>11. Processor' <=> Processor
  BY <1>1 DEF ArbitrationCases, PruWaits, PruChecks, PruTakesBus, PruTakesVector,
     PruEndsVector,
              PruIsAlone, Processor
<1>12. PruChecks /\ q_arb'.state = "intr_vector" =>
         /\ qcpu.iak # 0 /\ q_arb'.grant = {qcpu.iak} /\ q_arb'.grant \subseteq q_arb'.signalled
         /\ ~qboard.RPLY /\ ~qboard.SACK
  <2> SUFFICES ASSUME PruChecks, q_arb'.state = "intr_vector"
               PROVE  /\ qcpu.iak # 0 /\ q_arb'.grant = {qcpu.iak}
                      /\ q_arb'.grant \subseteq q_arb'.signalled /\ ~qboard.RPLY /\ ~qboard.SACK
    OBVIOUS
  <2>1. /\ q_arb'.grant = GrantIn \cap AfterInit \cap q_arb.signalled
        /\ q_arb'.grant \cap QLevels # {} /\ q_arb'.signalled = AfterInit
    BY DEF PruChecks
  <2>2. qcpu.iak # 0 /\ GrantIn = {qcpu.iak} /\ q_arb'.grant = {qcpu.iak}
    BY <1>6, <1>7, <2>1
  <2>3. qcpu.iak \in qarm.lines
    BY <1>2, <2>1, <2>2 DEF QLinesKept
  <2> QED
    BY <1>2, <2>1, <2>2, <2>3 DEF BoardInStep, QLinesKept, GrantsInStep, QSACK
<1>13. VectorTaken' => VectorTaken \/ (PruChecks /\ q_arb'.state = "intr_vector")
  BY <1>1 DEF ArbitrationCases, PruWaits, PruChecks, PruTakesBus, PruTakesVector,
     PruEndsVector,
              PruIsAlone, VectorTaken
<1>14. QLinesKept'
  <2>1. q_arb'.request \cup q_arb'.signalled \cup q_arb'.grant \cup qarm'.requests \subseteq qarm.lines
    BY <1>1, <1>2, <1>5 DEF ArbitrationCases, PruWaits, PruChecks, PruTakesBus,
       PruTakesVector,
                            PruEndsVector, PruIsAlone, QLinesKept
  <2>2. QNP \in q_arb'.request => QNP \in qarm'.requests /\ q_dma'.state = "none"
    <3>1. q_arb'.request \subseteq AfterInit
      BY <1>1 DEF ArbitrationCases, PruWaits, PruChecks, PruTakesBus, PruTakesVector,
                  PruEndsVector, PruIsAlone
    <3>2. PruEndsVector => QNP \notin q_arb.grant
      BY <1>2, <1>6 DEF PruEndsVector, GrantsInStep, VectorTaken
    <3> QED
      BY <1>1, <1>2, <1>4, <1>5, <1>9, <3>1, <3>2 DEF ArbitrationCases, PruWaits, PruChecks,
         PruTakesBus,
         PruTakesVector, PruEndsVector, PruIsAlone, QLinesKept
  <2> QED
    BY <1>2, <1>3, <2>1, <2>2 DEF QLinesKept
<1>15. PruInStep'
  <2>1. qpc' = "command"
    BY <1>1 DEF Arbitrates
  <2>2. q_dma'.state # "none" => q_slave'.state = "stop" /\ q_arb'.state \in {"grant_check", "noop"}
    BY <1>1, <1>2, <1>3, <1>4, <1>9, <1>10 DEF ArbitrationCases, PruWaits, PruChecks,
       PruTakesBus,
       PruTakesVector, PruEndsVector, PruIsAlone, NoProcessorInStep, Processor
  <2>3. Processor' => (qlatch'.SACK <=> q_dma'.state # "none")
    <3>1. PruTakesBus => q_dma'.state = "addr"
      BY StartedDma DEF PruTakesBus
    <3> QED
      BY <1>1, <1>2, <1>9, <1>11, <3>1 DEF ArbitrationCases, PruWaits, PruChecks, PruTakesBus,
         PruTakesVector, PruEndsVector, PruIsAlone, PruInStep, Processor
  <2>4. qlatch'.RPLY <=> SlaveAnswers' \/ q_arb'.state = "intr_complete"
    <3>1. PruEndsVector => ~SlaveAnswers
      BY <1>2 DEF PruEndsVector, CycleInStep, VectorTaken
    <3> QED
      BY <1>1, <1>2, <1>3, <3>1 DEF ArbitrationCases, PruWaits, PruChecks, PruTakesBus,
         PruTakesVector, PruEndsVector, PruIsAlone, PruInStep, SlaveAnswers
  <2> QED
    BY <1>3, <1>4, <2>1, <2>2, <2>3, <2>4 DEF PruInStep, SlaveAnswers
<1>16. NoProcessorInStep'
  <2> SUFFICES ASSUME ~Processor' PROVE NoProcessorInStep'
    BY DEF NoProcessorInStep
  <2>1. ~Processor
    BY <1>11
  <2>2. qlatch'.SACK = qlatch.SACK /\ qlatch'.grants = {}
    BY <1>1, <1>2, <1>7, <1>8, <2>1 DEF ArbitrationCases, PruWaits, PruChecks, PruTakesBus,
       PruTakesVector, PruEndsVector, PruIsAlone, Processor, NoProcessorInStep
  <2> QED
    BY <1>2, <1>3, <2>1, <2>2 DEF NoProcessorInStep
<1>17. GrantsInStep'
  <2>1. /\ \A a, b \in qlatch'.grants : a = b
        /\ qcpu.iak # 0 => qlatch'.grants \subseteq {qcpu.iak}
    BY <1>2, <1>7, <1>8 DEF GrantsInStep
  <2>2. qcpu.iak # 0 => ~QSACK'
    BY <1>1, <1>2, <1>3, <1>10 DEF ArbitrationCases, PruWaits, PruChecks, PruTakesBus,
       PruTakesVector, PruEndsVector, PruIsAlone, GrantsInStep, QSACK
  <2>3. q_arb'.state = "dma_wait" =>
          /\ qcpu.dmg /\ QNP \in qlatch'.lines /\ QNP \in q_arb'.signalled \ qlatch'.grants
          /\ q_arb'.grant = {QNP} /\ QNP \in qarm'.requests
    <3> SUFFICES ASSUME q_arb'.state = "dma_wait"
                 PROVE  /\ qcpu.dmg /\ QNP \in qlatch'.lines
                        /\ QNP \in q_arb'.signalled \ qlatch'.grants
                        /\ q_arb'.grant = {QNP} /\ QNP \in qarm'.requests
      OBVIOUS
    <3>1. CASE PruWaits
      <4>1. InProgress = {QNP}
        BY <1>2, <3>1 DEF PruWaits, GrantsInStep, InProgress
      <4> QED
        BY <1>2, <1>5, <3>1, <4>1 DEF PruWaits, GrantsInStep, Forwarded
    <3>2. CASE PruChecks
      <4>1. /\ q_arb'.grant = GrantIn \cap AfterInit \cap q_arb.signalled /\ QNP \in q_arb'.grant
            /\ q_arb'.signalled = AfterInit /\ qlatch'.grants = Forwarded
            /\ qlatch'.lines = BusLines(AfterInit, q_arb.inhibit)
            /\ qarm'.requests = qarm.requests \ Cleared
        BY <3>2 DEF PruChecks
      <4>2. qcpu.dmg /\ GrantIn = {QNP}
        BY <1>6, <1>7, <4>1
      <4>3. QNP \in qlatch'.lines
        BY <4>1 DEF BusLines
      <4>4. QNP \in qarm'.requests
        BY <1>2, <1>5, <4>1 DEF QLinesKept
      <4> QED
        BY <4>1, <4>2, <4>3, <4>4 DEF Forwarded
    <3> QED
      BY <1>1, <3>1, <3>2 DEF ArbitrationCases, PruTakesBus, PruTakesVector, PruEndsVector,
                              PruIsAlone
  <2>4. VectorTaken' => /\ ~qboard.RPLY /\ ~qboard.SACK
                        /\ q_arb'.grant \subseteq q_arb'.signalled \cap QLevels
                        /\ qcpu.iak # 0 => q_arb'.grant = {qcpu.iak} /\ qcpu.iak \notin qlatch'.grants
    <3> SUFFICES ASSUME VectorTaken'
                 PROVE  /\ ~qboard.RPLY /\ ~qboard.SACK
                        /\ q_arb'.grant \subseteq q_arb'.signalled \cap QLevels
                        /\ qcpu.iak # 0 => q_arb'.grant = {qcpu.iak} /\ qcpu.iak \notin qlatch'.grants
      OBVIOUS
    <3>1. CASE PruChecks /\ q_arb'.state = "intr_vector"
      <4>1. qcpu.iak \in q_arb.signalled /\ qlatch'.grants = Forwarded
        BY <1>12, <3>1 DEF PruChecks
      <4> QED
        BY <1>6, <1>12, <3>1, <4>1 DEF Forwarded
    <3>2. CASE VectorTaken
      <4>1. PruWaits \/ PruTakesVector
        BY <1>1, <3>2 DEF VectorTaken, ArbitrationCases, PruChecks, PruTakesBus,
           PruEndsVector,
                          PruIsAlone
      <4>2. /\ q_arb'.grant = q_arb.grant /\ q_arb'.signalled = q_arb.signalled
            /\ qlatch'.grants = Forwarded
        BY <4>1 DEF PruWaits, PruTakesVector
      <4> QED
        BY <1>2, <3>2, <4>2 DEF GrantsInStep, Forwarded
    <3> QED
      BY <1>13, <3>1, <3>2
  <2>5. q_arb'.state = "intr_vector" => qcpu.iak # 0
    BY <1>1, <1>2, <1>12 DEF ArbitrationCases, PruWaits, PruTakesBus, PruTakesVector,
       PruEndsVector, PruIsAlone, GrantsInStep
  <2> QED
    BY <1>2, <1>3, <2>1, <2>2, <2>3, <2>4, <2>5 DEF GrantsInStep
<1>18. BoardInStep'
  BY <1>2, <1>3, <1>7, <1>8 DEF BoardInStep
<1>19. CycleInStep'
  <2>1. qcycle.by # "none" => ~VectorTaken' /\ ~qlatch'.SACK /\ qlatch'.grants \subseteq {QNP}
    <3> SUFFICES ASSUME qcycle.by # "none"
                 PROVE  ~VectorTaken' /\ ~qlatch'.SACK /\ qlatch'.grants \subseteq {QNP}
      OBVIOUS
    <3>1. qcpu.iak = 0 /\ ~VectorTaken /\ ~qlatch.SACK
      BY <1>2 DEF CycleInStep
    <3>2. ~qlatch'.SACK
      BY <1>1, <1>10, <3>1 DEF ArbitrationCases, PruWaits, PruChecks, PruTakesVector,
                               PruEndsVector, PruIsAlone
    <3> QED
      BY <1>7, <1>8, <1>12, <1>13, <3>1, <3>2
  <2> QED
    BY <1>2, <1>3, <2>1 DEF CycleInStep, SlaveAnswers
<1>20. SlaveFollows'
  BY <1>2, <1>3 DEF SlaveFollows, SlaveAnswers, NextWord
<1>21. WordsInBlock' /\ WordsMoved'
  <2>1. CASE q_dma' = q_dma
    BY <1>2, <1>4, <2>1 DEF WordsInBlock, InBlock, WordsMoved
  <2>2. CASE q_dma' = DmaStarted(TRUE) /\ (PruTakesBus \/ (PruIsAlone /\ QNP \in AfterInit))
    <3>1. /\ q_dma'.state = "addr" /\ q_dma'.addr = qarm.dma[1] /\ q_dma'.left = qarm.dma[2]
          /\ q_dma'.moved = {} /\ q_dma'.in_block = {}
      BY <2>2, StartedDma
    <3>2. qarm.dma[1] \in Nat /\ qarm.dma[2] \in Nat \ {0}
      BY DEF QTypeOK
    <3>3. QNP \in qarm'.requests
      <4>1. CASE PruTakesBus
        <5>1. QNP \in InProgress /\ QNP \in qarm.requests
          BY <1>2, <4>1 DEF PruTakesBus, GrantsInStep, InProgress
        <5> QED
          BY <1>5, <4>1, <5>1 DEF PruTakesBus
      <4>2. CASE PruIsAlone /\ QNP \in AfterInit
        BY <1>2, <1>5, <4>2 DEF PruIsAlone, QLinesKept
      <4> QED
        BY <2>2, <4>1, <4>2
    <3>4. qarm.dma[1] .. qarm.dma[1] - 1 = {}
      BY <3>2
    <3>5. WordsInBlock'
      BY <3>1 DEF WordsInBlock
    <3>6. WordsMoved'
      BY <1>3, <3>1, <3>2, <3>3, <3>4 DEF WordsMoved
    <3> QED
      BY <3>5, <3>6
  <2> QED
    BY <1>1, <1>9, <2>1, <2>2 DEF ArbitrationCases, PruWaits, PruChecks, PruTakesBus,
       PruTakesVector, PruEndsVector, PruIsAlone
<1> QED
  BY <1>14, <1>15, <1>16, <1>17, <1>18, <1>19, <1>20, <1>21 DEF QIndInv

-----------------------------------------------------------------------------
(* The DMA.                                                                 *)
LEMMA DmaLeft ==
  ASSUME QIndInv
  PROVE  q_dma.state # "none" => q_dma.left > 0
BY DEF QIndInv, WordsMoved

(* Before the end of a block the next word is in it.                        *)
LEMMA NextInBlock ==
  ASSUME NEW a \in Nat, NEW block_end \in Int, InBlock(a, block_end), a # block_end
  PROVE  InBlock(a + 1, block_end)
<1> DEFINE low == (block_end \div QBoundary) * QBoundary
<1>1. low \in Int /\ QBlockWords \in Nat
  BY QbusAssumption
<1>2. block_end - QBlockWords < a /\ a <= block_end /\ low <= a
  BY DEF InBlock
<1> HIDE DEF low
<1>3. block_end - QBlockWords < a + 1 /\ a + 1 <= block_end /\ low <= a + 1
  BY <1>1, <1>2
<1> QED
  BY <1>3 DEF InBlock, low

LEMMA MasterKeepsInvariant ==
  ASSUME QTypeOK, QIndInv, qbus_master
  PROVE  QIndInv'
<1>1. MasterSteps /\ MasterCases /\ q_dma' \in QDmaState
  BY MasterCycle, DmaLeft
<1>2. /\ QLinesKept /\ PruInStep /\ NoProcessorInStep /\ GrantsInStep /\ BoardInStep
      /\ CycleInStep /\ SlaveFollows /\ WordsInBlock /\ WordsMoved
  BY DEF QIndInv
<1>3. /\ qpc' = "command" /\ q_dma.state # "none"
      /\ UNCHANGED <<q_arb, q_slave, q_init, qcpu, qboard, qcycle>>
      /\ qlatch'.lines = qlatch.lines /\ qlatch'.RPLY = qlatch.RPLY
      /\ qlatch'.grants = qlatch.grants
  BY <1>1 DEF MasterSteps
<1>4. q_slave.state = "stop" /\ q_arb.state \in {"grant_check", "noop"}
  BY <1>2, <1>3 DEF PruInStep
<1>5. /\ qlatch'.SACK => qlatch.SACK
      /\ q_dma'.state # "none" => qlatch'.SACK = qlatch.SACK
      /\ q_dma'.state = "none" => ~qlatch'.SACK /\ ~qlatch'.SYNC
  BY <1>1 DEF MasterCases, MasterAddresses, MasterMoves, MasterWaits, MasterTimesOut,
     MasterEnds,
              MasterGoesOn
<1>6. qarm'.lines = qarm.lines /\ qarm'.requests \subseteq qarm.requests
  BY <1>1 DEF MasterCases, MasterAddresses, MasterMoves, MasterWaits, MasterTimesOut,
     MasterEnds,
              MasterGoesOn
<1>7. QLinesKept'
  BY <1>2, <1>3, <1>6 DEF QLinesKept
<1>8. PruInStep'
  BY <1>2, <1>3, <1>4, <1>5 DEF PruInStep, Processor, SlaveAnswers
<1>9. NoProcessorInStep'
  BY <1>2, <1>3, <1>5 DEF NoProcessorInStep, Processor
<1>10. GrantsInStep' /\ BoardInStep'
  BY <1>2, <1>3, <1>4, <1>5 DEF GrantsInStep, BoardInStep, VectorTaken, QSACK
<1>11. CycleInStep' /\ SlaveFollows'
  BY <1>2, <1>3, <1>5 DEF CycleInStep, SlaveFollows, VectorTaken, SlaveAnswers, NextWord
<1>12. /\ q_dma.addr \in Nat /\ q_dma.left \in Nat /\ q_dma.block_end \in Int
       /\ qarm.dma[1] \in Nat /\ qarm.dma[2] \in Nat /\ q_dma.moved \subseteq Nat
       /\ q_dma.left > 0 /\ q_dma.addr >= qarm.dma[1]
  BY <1>2, <1>3 DEF QTypeOK, QDmaState, WordsMoved
<1>13. WordsInBlock'
  <2>1. CASE MasterAddresses
    <3>1. /\ q_dma'.state = "data" /\ q_dma'.addr = q_dma.addr /\ q_dma'.in_block = {}
          /\ q_dma'.block_end = BlockEnd(q_dma.addr, q_dma.left)
      BY <2>1 DEF MasterAddresses
    <3>2. InBlock(q_dma.addr, BlockEnd(q_dma.addr, q_dma.left))
      BY <1>12, BlockEndBounds DEF InBlock
    <3> QED
      BY <3>1, <3>2 DEF WordsInBlock
  <2>2. CASE MasterMoves
    BY <1>2, <2>2 DEF MasterMoves, WordsInBlock
  <2>3. CASE MasterWaits
    BY <1>2, <2>3 DEF MasterWaits, WordsInBlock
  <2>4. CASE MasterTimesOut
    BY <1>2, <2>4 DEF MasterTimesOut, WordsInBlock
  <2>5. CASE MasterEnds
    BY <2>5 DEF MasterEnds, WordsInBlock
  <2>6. CASE MasterGoesOn
    <3>1. /\ q_dma.state = "99" /\ q_dma'.addr = q_dma.addr + 1
          /\ q_dma'.state = (IF q_dma.more THEN "data" ELSE "addr")
          /\ q_dma'.block_end = q_dma.block_end /\ q_dma'.in_block = q_dma.in_block
      BY <2>6 DEF MasterGoesOn
    <3>2. CASE q_dma.more
      <4>1. InBlock(q_dma.addr, q_dma.block_end) /\ q_dma.addr # q_dma.block_end
        BY <1>2, <3>1, <3>2 DEF WordsInBlock
      <4>2. InBlock(q_dma.addr + 1, q_dma.block_end)
        BY <1>12, <4>1, NextInBlock
      <4> QED
        BY <1>2, <3>1, <3>2, <4>2 DEF WordsInBlock
    <3>3. CASE ~q_dma.more
      BY <1>2, <3>1, <3>3 DEF WordsInBlock
    <3> QED
      BY <3>2, <3>3
  <2> QED
    BY <1>1, <2>1, <2>2, <2>3, <2>4, <2>5, <2>6 DEF MasterCases
<1>14. WordsMoved'
  <2>1. CASE MasterAddresses
    BY <1>2, <1>12, <2>1 DEF MasterAddresses, WordsMoved
  <2>2. CASE MasterMoves
    <3>1. q_dma.moved \cup {q_dma.addr} = qarm.dma[1] .. q_dma.addr
      <4>1. q_dma.moved = qarm.dma[1] .. q_dma.addr - 1
        BY <1>2, <2>2 DEF MasterMoves, WordsMoved
      <4> QED
        BY <1>12, <4>1
    <3> QED
      BY <1>2, <2>2, <3>1 DEF MasterMoves, WordsMoved
  <2>3. CASE MasterWaits
    BY <1>2, <2>3 DEF MasterWaits, WordsMoved
  <2>4. CASE MasterTimesOut
    BY <1>2, <2>4 DEF MasterTimesOut, WordsMoved
  <2>5. CASE MasterEnds
    BY <2>5 DEF MasterEnds, WordsMoved
  <2>6. CASE MasterGoesOn
    <3>1. /\ q_dma.state = "99" /\ q_dma'.addr = q_dma.addr + 1 /\ q_dma'.left = q_dma.left - 1
          /\ q_dma'.state \in {"data", "addr"} /\ q_dma'.moved = q_dma.moved /\ qarm' = qarm
          /\ q_dma.moved = qarm.dma[1] .. q_dma.addr /\ q_dma.left # 1
      BY <1>2, <2>6 DEF MasterGoesOn, WordsMoved
    <3>2. /\ QNP \in qarm.requests /\ q_dma.left \in Nat /\ q_dma.left > 0
          /\ q_dma.addr >= qarm.dma[1] /\ q_dma.addr \in Nat /\ qarm.dma[1] \in Nat
          /\ qarm.dma[2] \in Nat /\ q_dma.addr + q_dma.left = qarm.dma[1] + qarm.dma[2]
      BY <1>2, <1>3, <1>12, <3>1 DEF WordsMoved
    <3>4. /\ QNP \in qarm'.requests /\ q_dma'.left > 0 /\ q_dma'.addr >= qarm'.dma[1]
          /\ q_dma'.addr + q_dma'.left = qarm'.dma[1] + qarm'.dma[2]
      BY <3>1, <3>2
    <3>3. q_dma'.moved = qarm'.dma[1] .. q_dma'.addr - 1
      BY <1>12, <3>1
    <3> QED
      BY <3>1, <3>4, <3>3 DEF WordsMoved
  <2> QED
    BY <1>1, <2>1, <2>2, <2>3, <2>4, <2>5, <2>6 DEF MasterCases
<1> QED
  BY <1>7, <1>8, <1>9, <1>10, <1>11, <1>13, <1>14 DEF QIndInv

-----------------------------------------------------------------------------
(* The commands of ARM.                                                     *)
CommandGiven ==
  /\ q_arb'.state = q_arb.state /\ q_arb'.signalled = q_arb.signalled
  /\ q_arb'.grant = q_arb.grant /\ qarm'.lines = qarm.lines
  /\ \/ /\ q_arb'.request = q_arb.request /\ qarm' = qarm
     \/ \E level \in QLevels :
          /\ q_arb'.request = q_arb.request \ {level} /\ qarm'.requests = qarm.requests \ {level}
          /\ qarm'.dma = qarm.dma
     \/ \E line \in qarm.lines \ qarm.requests :
          /\ q_arb'.request = q_arb.request \cup {line}
          /\ qarm'.requests = qarm.requests \cup {line}
          /\ line # QNP => qarm'.dma = qarm.dma

(* A command hands over one request, cancels one, or changes none.          *)
LEMMA CommandStep ==
  ASSUME QTypeOK,
         \/ qbus_no_command \/ qbus_CPU_BUS_ACCESS
         \/ \E dma \in QDmas : qbus_DMA(dma)
         \/ \E level \in QLevels : qbus_INTR(level) \/ qbus_INTR_CANCEL(level)
  PROVE  CommandGiven
<1>1. q_arb \in QArbState /\ qarm \in ArmState
  BY DEF QTypeOK, ArmState
<1>2. CASE qbus_no_command \/ qbus_CPU_BUS_ACCESS
  BY <1>1, <1>2 DEF qbus_no_command, qbus_CPU_BUS_ACCESS, QCommand, QArbState, CommandGiven
<1>3. ASSUME NEW dma \in QDmas, qbus_DMA(dma) PROVE CommandGiven
  <2>1. /\ QNP \in qarm.lines \ qarm.requests
        /\ q_arb' = [q_arb EXCEPT !.request = @ \cup {QNP}]
        /\ qarm' = [qarm EXCEPT !.requests = @ \cup {QNP}, !.dma = dma]
    BY <1>3 DEF qbus_DMA, QCommand
  <2>2. /\ q_arb'.state = q_arb.state /\ q_arb'.signalled = q_arb.signalled
        /\ q_arb'.grant = q_arb.grant /\ q_arb'.request = q_arb.request \cup {QNP}
    BY <1>1, <2>1 DEF QArbState
  <2>3. qarm'.lines = qarm.lines /\ qarm'.requests = qarm.requests \cup {QNP}
    BY <1>1, <2>1 DEF ArmState
  <2> QED
    BY <2>1, <2>2, <2>3 DEF CommandGiven
<1>4. ASSUME NEW level \in QLevels, qbus_INTR(level) PROVE CommandGiven
  <2>1. /\ level \in qarm.lines \ qarm.requests
        /\ q_arb' = [q_arb EXCEPT !.request = @ \cup {level}]
        /\ qarm' = [qarm EXCEPT !.requests = @ \cup {level}]
    BY <1>4 DEF qbus_INTR, QCommand
  <2>2. /\ q_arb'.state = q_arb.state /\ q_arb'.signalled = q_arb.signalled
        /\ q_arb'.grant = q_arb.grant /\ q_arb'.request = q_arb.request \cup {level}
    BY <1>1, <2>1 DEF QArbState
  <2>3. /\ qarm'.lines = qarm.lines /\ qarm'.dma = qarm.dma
        /\ qarm'.requests = qarm.requests \cup {level}
    BY <1>1, <2>1 DEF ArmState
  <2> QED
    BY <2>1, <2>2, <2>3 DEF CommandGiven
<1>5. ASSUME NEW level \in QLevels, qbus_INTR_CANCEL(level) PROVE CommandGiven
  <2>1. /\ q_arb' = [q_arb EXCEPT !.request = @ \ {level}]
        /\ qarm' = [qarm EXCEPT !.requests = @ \ {level}]
    BY <1>5 DEF qbus_INTR_CANCEL, QCommand
  <2>2. /\ q_arb'.state = q_arb.state /\ q_arb'.signalled = q_arb.signalled
        /\ q_arb'.grant = q_arb.grant /\ q_arb'.request = q_arb.request \ {level}
    BY <1>1, <2>1 DEF QArbState
  <2>3. /\ qarm'.lines = qarm.lines /\ qarm'.dma = qarm.dma
        /\ qarm'.requests = qarm.requests \ {level}
    BY <1>1, <2>1 DEF ArmState
  <2> QED
    BY <2>2, <2>3 DEF CommandGiven
<1> QED
  BY <1>2, <1>3, <1>4, <1>5

LEMMA CommandKeepsInvariant ==
  ASSUME QTypeOK, QIndInv,
         \/ qbus_no_command \/ qbus_CPU_BUS_ACCESS
         \/ \E dma \in QDmas : qbus_DMA(dma)
         \/ \E level \in QLevels : qbus_INTR(level) \/ qbus_INTR_CANCEL(level)
  PROVE  QIndInv'
<1>1. /\ QLinesKept /\ PruInStep /\ NoProcessorInStep /\ GrantsInStep /\ BoardInStep
      /\ CycleInStep /\ SlaveFollows /\ WordsInBlock /\ WordsMoved
  BY DEF QIndInv
<1>2. /\ qpc' = "slave"
      /\ UNCHANGED <<qlatch, q_dma, q_slave, q_init, deviceregister_event, qcpu, qboard, qcycle>>
  BY DEF qbus_no_command, qbus_CPU_BUS_ACCESS, qbus_DMA, qbus_INTR, qbus_INTR_CANCEL, QCommand
<1>3. CommandGiven /\ QNP \notin QLevels
  BY CommandStep, QbusAssumption DEF QLines
<1>4. /\ q_arb'.state = q_arb.state /\ q_arb'.signalled = q_arb.signalled
      /\ q_arb'.grant = q_arb.grant /\ qarm'.lines = qarm.lines
  BY <1>3 DEF CommandGiven
<1>5. QNP \in qarm.requests => QNP \in qarm'.requests /\ qarm'.dma = qarm.dma
  BY <1>3 DEF CommandGiven
<1>6. QLinesKept'
  BY <1>1, <1>2, <1>3, <1>4, <1>5 DEF CommandGiven, QLinesKept, WordsMoved
<1>7. PruInStep' /\ NoProcessorInStep'
  BY <1>1, <1>2, <1>4 DEF PruInStep, NoProcessorInStep, Processor, SlaveAnswers
<1>8. GrantsInStep' /\ BoardInStep'
  BY <1>1, <1>2, <1>4, <1>5 DEF GrantsInStep, BoardInStep, VectorTaken, QSACK
<1>9. CycleInStep' /\ SlaveFollows'
  BY <1>1, <1>2, <1>4 DEF CycleInStep, SlaveFollows, VectorTaken, SlaveAnswers, NextWord
<1>10. WordsInBlock' /\ WordsMoved'
  BY <1>1, <1>2, <1>5 DEF WordsInBlock, WordsMoved
<1> QED
  BY <1>6, <1>7, <1>8, <1>9, <1>10 DEF QIndInv

-----------------------------------------------------------------------------
(* The grants of the processor, INIT, and the access that ARM has handled.  *)
LEMMA NotBothMasters ==
  ASSUME QIndInv, qboard.SACK
  PROVE  ~qlatch.SACK /\ q_arb.state # "dma_wait"
<1>1. /\ QLinesKept /\ PruInStep /\ NoProcessorInStep /\ GrantsInStep /\ BoardInStep /\ WordsMoved
  BY DEF QIndInv
<1>2. QNP \notin qarm.lines /\ Processor
  BY <1>1 DEF BoardInStep, QLinesKept, NoProcessorInStep
<1>3. QNP \notin qarm.requests
  BY <1>1, <1>2 DEF QLinesKept
<1> QED
  BY <1>1, <1>2, <1>3 DEF PruInStep, GrantsInStep, WordsMoved

(* The processor grants when nobody answers, and withdraws what nobody waits for. *)
LEMMA GrantsKeepInvariant ==
  ASSUME QTypeOK, QIndInv,
         cpu_DMGO \/ cpu_DMGO_end \/ cpu_IAKO \/ cpu_IAKO_end
  PROVE  QIndInv'
<1>1. /\ QLinesKept /\ PruInStep /\ NoProcessorInStep /\ GrantsInStep /\ BoardInStep
      /\ CycleInStep /\ SlaveFollows /\ WordsInBlock /\ WordsMoved
  BY DEF QIndInv
<1>2. UNCHANGED <<qpc, q_arb, qlatch, q_dma, q_slave, q_init, qboard, qcycle, qarm>>
  BY DEF cpu_DMGO, cpu_DMGO_end, cpu_IAKO, cpu_IAKO_end, CpuStep
<1>3. QLinesKept' /\ PruInStep' /\ SlaveFollows' /\ WordsInBlock' /\ WordsMoved'
  BY <1>1, <1>2 DEF QLinesKept, PruInStep, Processor, SlaveAnswers, SlaveFollows, NextWord,
                    WordsInBlock, WordsMoved
<1>4. qcpu.dmg \in BOOLEAN /\ qcpu \in [dmg : BOOLEAN, iak : QLevels \cup {0}]
  BY DEF QTypeOK
<1>5. VectorTaken => qcpu.iak # 0 \/ qlatch.RPLY
  BY <1>1 DEF VectorTaken, GrantsInStep, PruInStep
<1>6. CASE cpu_DMGO
  <2>1. qcpu'.dmg /\ qcpu'.iak = qcpu.iak /\ qcpu.iak = 0 /\ Processor
    BY <1>4, <1>6 DEF cpu_DMGO, CpuStep
  <2>2. NoProcessorInStep' /\ BoardInStep' /\ CycleInStep'
    BY <1>1, <1>2, <2>1 DEF NoProcessorInStep, Processor, BoardInStep, CycleInStep,
       VectorTaken,
                            SlaveAnswers
  <2>3. GrantsInStep'
    BY <1>1, <1>2, <2>1 DEF GrantsInStep, VectorTaken, QSACK
  <2> QED
    BY <1>3, <2>2, <2>3 DEF QIndInv
<1>7. CASE cpu_DMGO_end
  <2>1. ~qcpu'.dmg /\ qcpu'.iak = qcpu.iak /\ qcpu.iak = 0 /\ qcpu.dmg
    BY <1>1, <1>4, <1>7 DEF cpu_DMGO_end, CpuStep, GrantsInStep
  <2>2. NoProcessorInStep' /\ BoardInStep' /\ CycleInStep'
    BY <1>1, <1>2, <2>1 DEF NoProcessorInStep, Processor, BoardInStep, CycleInStep,
       VectorTaken,
                            SlaveAnswers
  <2>3. q_arb.state # "dma_wait"
    <3> SUFFICES ASSUME q_arb.state = "dma_wait" PROVE FALSE
      OBVIOUS
    <3>1. QNP \in QRequests /\ QNP \notin qlatch.grants
      BY <1>1 DEF GrantsInStep, QRequests
    <3>2. ~qlatch.SACK
      BY <1>1 DEF PruInStep, Processor
    <3>3. ~qboard.SACK
      BY NotBothMasters
    <3> QED
      BY <1>7, <3>1, <3>2, <3>3 DEF cpu_DMGO_end, QSACK
  <2>4. GrantsInStep'
    BY <1>1, <1>2, <2>1, <2>3 DEF GrantsInStep, VectorTaken, QSACK
  <2> QED
    BY <1>3, <2>2, <2>4 DEF QIndInv
<1>8. CASE cpu_IAKO
  <2>1. /\ ProcessorFree /\ qcpu'.dmg = qcpu.dmg
    BY <1>4, <1>8 DEF cpu_IAKO, CpuStep
  <2>2. /\ Processor /\ ~qcpu.dmg /\ qcpu.iak = 0 /\ qlatch.grants = {} /\ ~QSACK
        /\ qcycle.by = "none" /\ ~qlatch.RPLY /\ ~qboard.RPLY /\ ~qboard.SACK
    BY <2>1 DEF ProcessorFree, QSYNC, QRPLY, QSACK
  <2>3. ~VectorTaken /\ q_arb.state # "dma_wait"
    BY <1>1, <1>5, <2>2 DEF GrantsInStep
  <2>4. NoProcessorInStep' /\ BoardInStep' /\ CycleInStep'
    BY <1>1, <1>2, <2>2 DEF NoProcessorInStep, Processor, BoardInStep, CycleInStep,
       VectorTaken,
                            SlaveAnswers, NoCycle
  <2>5. GrantsInStep'
    BY <1>2, <2>1, <2>2, <2>3 DEF GrantsInStep, VectorTaken, QSACK
  <2> QED
    BY <1>3, <2>4, <2>5 DEF QIndInv
<1>9. CASE cpu_IAKO_end
  <2>1. qcpu'.iak = 0 /\ qcpu'.dmg = qcpu.dmg /\ qcpu.iak # 0
    BY <1>4, <1>9 DEF cpu_IAKO_end, CpuStep
  <2>2. qcycle = NoCycle /\ ~SlaveAnswers
    BY <1>1, <2>1 DEF GrantsInStep, CycleInStep
  <2>3. q_arb.state # "intr_vector"
    <3> SUFFICES ASSUME q_arb.state = "intr_vector" PROVE FALSE
      OBVIOUS
    <3>1. ~qboard.RPLY /\ qcpu.iak \notin qlatch.grants
      BY <1>1, <2>1 DEF GrantsInStep, VectorTaken
    <3>2. ~qlatch.RPLY
      BY <1>1, <2>2 DEF PruInStep
    <3> QED
      BY <1>9, <2>2, <3>1, <3>2 DEF cpu_IAKO_end, QRPLY, NoCycle
  <2>4. NoProcessorInStep' /\ BoardInStep' /\ CycleInStep'
    <3>1. qboard.SACK => FALSE
      BY <1>1, <2>1 DEF BoardInStep
    <3> QED
      BY <1>1, <1>2, <2>1, <2>2, <3>1 DEF NoProcessorInStep, Processor, BoardInStep,
         CycleInStep,
         VectorTaken, SlaveAnswers, NoCycle
  <2>5. GrantsInStep'
    BY <1>1, <1>2, <2>1, <2>3 DEF GrantsInStep, VectorTaken, QSACK
  <2> QED
    BY <1>3, <2>4, <2>5 DEF QIndInv
<1> QED
  BY <1>6, <1>7, <1>8, <1>9

LEMMA InitKeepsInvariant ==
  ASSUME QTypeOK, QIndInv, qbus_INIT \/ qbus_deviceregister_ack
  PROVE  QIndInv'
<1>1. /\ QLinesKept /\ PruInStep /\ NoProcessorInStep /\ GrantsInStep /\ BoardInStep
      /\ CycleInStep /\ SlaveFollows /\ WordsInBlock /\ WordsMoved
  BY DEF QIndInv
<1>2. /\ UNCHANGED <<qpc, q_arb, qlatch, q_dma, q_slave, qcpu, qboard, qcycle, qarm>>
      /\ q_init' = q_init \/ qcycle.by # "processor"
  BY DEF qbus_INIT, qbus_deviceregister_ack
<1>3. QLinesKept' /\ PruInStep' /\ SlaveFollows' /\ WordsInBlock' /\ WordsMoved'
  BY <1>1, <1>2 DEF QLinesKept, PruInStep, Processor, SlaveAnswers, SlaveFollows, NextWord,
                    WordsInBlock, WordsMoved
<1>4. NoProcessorInStep' /\ BoardInStep' /\ CycleInStep'
  BY <1>1, <1>2 DEF NoProcessorInStep, Processor, BoardInStep, CycleInStep, VectorTaken,
                    SlaveAnswers
<1>5. GrantsInStep'
  BY <1>1, <1>2 DEF GrantsInStep, VectorTaken, QSACK
<1> QED
  BY <1>3, <1>4, <1>5 DEF QIndInv

-----------------------------------------------------------------------------
(* The other board.                                                         *)
LEMMA BoardKeepsInvariant ==
  ASSUME QTypeOK, QIndInv,
         \/ \E line \in QLines : qboard_request(line)
         \/ qboard_SACK \/ (\E level \in QLevels : qboard_vector(level)) \/ qboard_vector_end
  PROVE  QIndInv'
<1>1. /\ QLinesKept /\ PruInStep /\ NoProcessorInStep /\ GrantsInStep /\ BoardInStep
      /\ CycleInStep /\ SlaveFollows /\ WordsInBlock /\ WordsMoved
  BY DEF QIndInv
<1>2. UNCHANGED <<qpc, q_arb, qlatch, q_dma, q_slave, q_init, qcpu, qcycle, qarm>>
  BY DEF qboard_request, qboard_SACK, qboard_vector, qboard_vector_end, QBoardStep
<1>3. PruInStep' /\ SlaveFollows' /\ WordsInBlock' /\ WordsMoved'
  BY <1>1, <1>2 DEF PruInStep, Processor, SlaveAnswers, SlaveFollows, NextWord, WordsInBlock,
                    WordsMoved
<1>4. qboard \in QBoardState /\ QNP \notin QLevels /\ 0 \notin QLevels
      /\ qcpu.iak \in QLevels \cup {0}
  BY QbusAssumption DEF QTypeOK, QLines
<1>5. ASSUME NEW line \in QLines, qboard_request(line) PROVE QIndInv'
  <2>1. /\ line \in qboard.lines /\ qboard'.requests = qboard.requests \cup {line}
        /\ qboard'.lines = qboard.lines /\ qboard'.granted = qboard.granted
        /\ qboard'.SACK = qboard.SACK /\ qboard'.RPLY = qboard.RPLY
    BY <1>4, <1>5 DEF qboard_request, QBoardStep, QBoardState
  <2>2. QLinesKept'
    BY <1>1, <1>2, <2>1 DEF QLinesKept
  <2>3. NoProcessorInStep' /\ BoardInStep' /\ CycleInStep'
    BY <1>1, <1>2, <2>1 DEF NoProcessorInStep, Processor, BoardInStep, CycleInStep,
       VectorTaken,
                            SlaveAnswers
  <2>4. GrantsInStep'
    BY <1>1, <1>2, <2>1 DEF GrantsInStep, VectorTaken, QSACK
  <2> QED
    BY <1>3, <2>2, <2>3, <2>4 DEF QIndInv
<1>6. CASE qboard_SACK
  <2>1. /\ QNP \in qlatch.grants \cap qboard.requests /\ ~QRPLY /\ qboard.granted = {}
        /\ qboard'.requests = qboard.requests \ {QNP} /\ qboard'.granted = {QNP}
        /\ qboard'.lines = qboard.lines /\ qboard'.SACK /\ qboard'.RPLY = qboard.RPLY
    BY <1>4, <1>6 DEF qboard_SACK, QBoardStep, QBoardState
  <2>2. qcpu.iak = 0 /\ qlatch.grants \subseteq {QNP} /\ Processor
    BY <1>1, <1>4, <2>1 DEF GrantsInStep, NoProcessorInStep
  <2>3. ~VectorTaken
    BY <1>1, <2>1, <2>2 DEF VectorTaken, GrantsInStep, PruInStep, QRPLY
  <2>4. QLinesKept'
    BY <1>1, <1>2, <2>1 DEF QLinesKept
  <2>5. NoProcessorInStep' /\ BoardInStep' /\ CycleInStep'
    BY <1>1, <1>2, <2>1, <2>2, <2>3 DEF NoProcessorInStep, Processor, BoardInStep,
       CycleInStep,
       VectorTaken, SlaveAnswers, QRPLY
  <2>6. GrantsInStep'
    BY <1>1, <1>2, <2>1, <2>2, <2>3 DEF GrantsInStep, VectorTaken, QSACK
  <2> QED
    BY <1>3, <2>4, <2>5, <2>6 DEF QIndInv
<1>7. ASSUME NEW level \in QLevels, qboard_vector(level) PROVE QIndInv'
  <2>1. /\ level \in qlatch.grants \cap qboard.requests /\ ~QRPLY /\ qboard.granted = {}
        /\ qboard'.requests = qboard.requests \ {level} /\ qboard'.granted = {level}
        /\ qboard'.lines = qboard.lines /\ qboard'.SACK = qboard.SACK /\ qboard'.RPLY
    BY <1>4, <1>7 DEF qboard_vector, QBoardStep, QBoardState
  <2>2. /\ Processor /\ ~qboard.SACK /\ qcycle.by = "none"
        /\ qcpu.iak # 0 => level = qcpu.iak
    BY <1>1, <1>4, <2>1 DEF GrantsInStep, NoProcessorInStep, BoardInStep, CycleInStep
  <2>3. ~VectorTaken
    BY <1>1, <2>1, <2>2 DEF VectorTaken, GrantsInStep, PruInStep, QRPLY
  <2>4. QLinesKept'
    BY <1>1, <1>2, <2>1 DEF QLinesKept
  <2>5. NoProcessorInStep' /\ BoardInStep' /\ CycleInStep'
    BY <1>1, <1>2, <2>1, <2>2, <2>3 DEF NoProcessorInStep, Processor, BoardInStep,
       CycleInStep,
       VectorTaken, SlaveAnswers
  <2>6. GrantsInStep'
    BY <1>1, <1>2, <2>1, <2>2, <2>3 DEF GrantsInStep, VectorTaken, QSACK
  <2> QED
    BY <1>3, <2>4, <2>5, <2>6 DEF QIndInv
<1>8. CASE qboard_vector_end
  <2>1. /\ qboard.RPLY /\ qboard'.requests = qboard.requests /\ qboard'.granted = {}
        /\ qboard'.lines = qboard.lines /\ qboard'.SACK = qboard.SACK /\ ~qboard'.RPLY
    BY <1>4, <1>8 DEF qboard_vector_end, QBoardStep, QBoardState
  <2>2. ~qboard.SACK
    BY <1>1, <2>1 DEF BoardInStep
  <2>3. QLinesKept'
    BY <1>1, <1>2, <2>1 DEF QLinesKept
  <2>4. NoProcessorInStep' /\ BoardInStep' /\ CycleInStep'
    BY <1>1, <1>2, <2>1, <2>2 DEF NoProcessorInStep, Processor, BoardInStep, CycleInStep,
       VectorTaken, SlaveAnswers
  <2>5. GrantsInStep'
    BY <1>1, <1>2, <2>1 DEF GrantsInStep, VectorTaken, QSACK
  <2> QED
    BY <1>3, <2>3, <2>4, <2>5 DEF QIndInv
<1> QED
  BY <1>5, <1>6, <1>7, <1>8

-----------------------------------------------------------------------------
(* The cycles of the processor and the board.                               *)
LEMMA TailType ==
  ASSUME NEW S, NEW todo \in Seq(S), todo # <<>>
  PROVE  LET rest == SubSeq(todo, 2, Len(todo)) IN
         /\ rest \in Seq(S) /\ Len(rest) = Len(todo) - 1 /\ Len(todo) \in Nat \ {0}
         /\ \A n \in 1 .. Len(rest) : rest[n] = todo[n + 1]
<1> DEFINE len == Len(todo)
           rest == SubSeq(todo, 2, len)
<1>1. len \in Nat \ {0} /\ \A i \in 2 .. len : todo[i] \in S
  OBVIOUS
<1> HIDE DEF len
<1>2. /\ rest \in Seq(S)
      /\ Len(rest) = IF 2 <= len THEN len - 2 + 1 ELSE 0
      /\ \A i \in 1 .. len - 2 + 1 : rest[i] = todo[2 + i - 1]
  BY <1>1, SubSeqProperties
<1> HIDE DEF rest
<1>3. Len(rest) = len - 1
  BY <1>1, <1>2
<1>4. ASSUME NEW n \in 1 .. Len(rest) PROVE rest[n] = todo[n + 1]
  <2>1. n \in 1 .. len - 2 + 1 /\ 2 + n - 1 = n + 1
    BY <1>1, <1>3
  <2> QED
    BY <1>2, <2>1
<1> QED
  BY <1>1, <1>2, <1>3, <1>4 DEF rest, len

(* What remains of a cycle at an emulated address has one slave.            *)
LEMMA RestOfCycle ==
  ASSUME NEW addr \in Nat, NEW todo \in Seq({"DIN", "DOUT"}), todo # <<>>, OneSlave(addr, todo),
         Emulated(addr)
  PROVE  LET rest == SubSeq(todo, 2, Len(todo))
             next == IF rest = <<>> \/ rest[1] # todo[1] THEN addr ELSE addr + 1
         IN  OneSlave(next, rest) /\ Emulated(next)
<1> DEFINE rest == SubSeq(todo, 2, Len(todo))
           next == IF rest = <<>> \/ rest[1] # todo[1] THEN addr ELSE addr + 1
<1>1. /\ rest \in Seq({"DIN", "DOUT"}) /\ Len(rest) = Len(todo) - 1 /\ Len(todo) \in Nat \ {0}
      /\ \A n \in 1 .. Len(rest) : rest[n] = todo[n + 1]
  BY TailType
<1> SUFFICES OneSlave(next, rest) /\ Emulated(next)
  OBVIOUS
<1> HIDE DEF rest, next
<1>2. CASE rest = <<>>
  <2>1. Len(<<>>) = 0
    OBVIOUS
  <2>2. 1 .. Len(rest) - 1 = {}
    BY <1>2, <2>1
  <2>3. next = addr
    BY <1>2 DEF next
  <2> QED
    BY <2>2, <2>3 DEF OneSlave
<1>3. CASE rest # <<>> /\ rest[1] # todo[1]
  <2>1. next = addr
    BY <1>3 DEF next
  <2>2. ASSUME NEW n \in 1 .. Len(rest) - 1, rest[n] = rest[n + 1]
        PROVE  \A k \in 1 .. n : Emulated(addr + k)
    <3>1. n + 1 \in 1 .. Len(todo) - 1 /\ todo[n + 1] = todo[n + 1 + 1]
      BY <1>1, <2>2
    <3>2. \A k \in 1 .. n + 1 : Emulated(addr + k)
      BY <3>1 DEF OneSlave
    <3> QED
      BY <3>2
  <2> QED
    BY <2>1, <2>2 DEF OneSlave
<1>4. CASE rest # <<>> /\ rest[1] = todo[1]
  <2>1. next = addr + 1 /\ Len(rest) > 0
    BY <1>1, <1>4 DEF next
  <2>2. 1 \in 1 .. Len(todo) - 1 /\ todo[1] = todo[1 + 1]
    BY <1>1, <1>4, <2>1
  <2>3. Emulated(addr + 1)
    BY <2>2 DEF OneSlave
  <2>4. ASSUME NEW n \in 1 .. Len(rest) - 1, rest[n] = rest[n + 1]
        PROVE  \A k \in 1 .. n : Emulated(addr + 1 + k)
    <3>1. n + 1 \in 1 .. Len(todo) - 1 /\ todo[n + 1] = todo[n + 1 + 1]
      BY <1>1, <2>4
    <3>2. \A k \in 1 .. n + 1 : Emulated(addr + k)
      BY <3>1 DEF OneSlave
    <3>3. ASSUME NEW k \in 1 .. n PROVE Emulated(addr + 1 + k)
      <4>1. k + 1 \in 1 .. n + 1 /\ addr + (k + 1) = addr + 1 + k
        OBVIOUS
      <4> QED
        BY <3>2, <4>1
    <3> QED
      BY <3>3
  <2> QED
    BY <2>1, <2>3, <2>4 DEF OneSlave
<1> QED
  BY <1>2, <1>3, <1>4

CycleStarted ==
  /\ q_slave.state = "stop" /\ qcycle'.by \in {"processor", "board"}
  /\ qcycle'.addr = qcycle'.sync /\ qcycle'.strobe = "none" /\ ~qcycle'.rply
  /\ Emulated(qcycle'.addr) => OneSlave(qcycle'.addr, qcycle'.todo)
  /\ qcycle'.by = "board" => qboard.SACK /\ Len(qcycle'.todo) <= 1
  /\ qcycle'.by = "processor" => ~q_init.line
  /\ Processor /\ qcpu.iak = 0 /\ ~VectorTaken /\ ~qboard.RPLY /\ ~qlatch.SACK
  /\ qlatch.grants \subseteq {QNP}

(* A cycle begins when nobody drives the bus, or its board has the bus.     *)
LEMMA CycleStartKeepsInvariant ==
  ASSUME QTypeOK, QIndInv, (\E c \in QCycles : cpu_cycle(c)) \/ qboard_cycle
  PROVE  QIndInv'
<1>1. /\ QLinesKept /\ PruInStep /\ NoProcessorInStep /\ GrantsInStep /\ BoardInStep
      /\ CycleInStep /\ SlaveFollows /\ WordsInBlock /\ WordsMoved
  BY DEF QIndInv
<1>2. UNCHANGED <<qpc, q_arb, qlatch, q_dma, q_slave, q_init, qcpu, qboard, qarm>>
  BY DEF cpu_cycle, qboard_cycle, CycleStep
<1>3. CycleStarted
  <2>1. ASSUME NEW c \in QCycles, cpu_cycle(c) PROVE CycleStarted
    <3>1. qcycle' = [NoCycle EXCEPT !.by = "processor", !.sync = c.addr, !.addr = c.addr,
                                    !.todo = c.strobes]
      BY <2>1 DEF cpu_cycle, CycleStep
    <3>2. /\ qcycle'.by = "processor" /\ qcycle'.sync = c.addr /\ qcycle'.addr = c.addr
          /\ qcycle'.todo = c.strobes /\ qcycle'.strobe = "none" /\ ~qcycle'.rply
      BY <3>1 DEF NoCycle
    <3>3. q_slave.state = "stop" /\ ProcessorFree
      BY <2>1 DEF cpu_cycle
    <3>4. /\ Processor /\ qcpu.iak = 0 /\ ~qboard.RPLY /\ ~qlatch.RPLY /\ ~qlatch.SACK
          /\ qlatch.grants = {} /\ ~q_init.line
      BY <3>3 DEF ProcessorFree, QRPLY, QSACK
    <3>5. ~VectorTaken
      BY <1>1, <3>4 DEF VectorTaken, GrantsInStep, PruInStep
    <3>6. Emulated(c.addr) => OneSlave(c.addr, c.strobes)
      BY QbusAssumption
    <3> QED
      BY <3>2, <3>3, <3>4, <3>5, <3>6 DEF CycleStarted
  <2>2. CASE qboard_cycle
    <3>1. PICK a \in QMemory \cup QForeign :
            CycleStep([NoCycle EXCEPT !.by = "board", !.sync = a, !.addr = a, !.todo = <<"DIN">>])
      BY <2>2 DEF qboard_cycle
    <3>2. qcycle' = [NoCycle EXCEPT !.by = "board", !.sync = a, !.addr = a, !.todo = <<"DIN">>]
      BY <3>1 DEF CycleStep
    <3>3. /\ qcycle'.by = "board" /\ qcycle'.sync = a /\ qcycle'.addr = a
          /\ qcycle'.todo = <<"DIN">> /\ qcycle'.strobe = "none" /\ ~qcycle'.rply
      BY <3>2 DEF NoCycle
    <3>4. q_slave.state = "stop" /\ qboard.SACK
      BY <2>2 DEF qboard_cycle
    <3>5. /\ Processor /\ qcpu.iak = 0 /\ ~VectorTaken /\ ~qboard.RPLY /\ ~qlatch.SACK
          /\ qlatch.grants \subseteq {QNP}
      BY <1>1, <3>4, NotBothMasters DEF NoProcessorInStep, BoardInStep, GrantsInStep
    <3>6. Len(<<"DIN">>) = 1 /\ OneSlave(a, <<"DIN">>)
      BY DEF OneSlave
    <3> QED
      BY <3>3, <3>4, <3>5, <3>6 DEF CycleStarted
  <2> QED
    BY <2>1, <2>2
<1>4. QLinesKept' /\ PruInStep' /\ WordsInBlock' /\ WordsMoved' /\ BoardInStep'
  BY <1>1, <1>2 DEF QLinesKept, PruInStep, Processor, SlaveAnswers, WordsInBlock, WordsMoved,
                    BoardInStep
<1>5. NoProcessorInStep' /\ GrantsInStep'
  BY <1>1, <1>2, <1>3 DEF CycleStarted, NoProcessorInStep, Processor, GrantsInStep,
     VectorTaken, QSACK
<1>6. CycleInStep'
  BY <1>2, <1>3 DEF CycleStarted, CycleInStep, VectorTaken, SlaveAnswers
<1>7. SlaveFollows'
  BY <1>2, <1>3 DEF CycleStarted, SlaveFollows, SlaveAnswers
<1> QED
  BY <1>4, <1>5, <1>6, <1>7 DEF QIndInv

StrobeBegins ==
  /\ ~QRPLY /\ qcycle.strobe = "none" /\ qcycle.todo # <<>>
  /\ qcycle'.strobe = qcycle.todo[1] /\ qcycle'.rply = qcycle.rply
  /\ qcycle'.todo = qcycle.todo /\ qcycle'.addr = qcycle.addr

RplyBegins ==
  /\ qcycle.addr \in QForeign /\ qcycle'.rply /\ qcycle'.strobe = qcycle.strobe
  /\ qcycle'.todo = qcycle.todo /\ qcycle'.addr = qcycle.addr

StrobeEnds ==
  /\ qcycle.strobe # "none" /\ qcycle'.strobe = "none" /\ ~qcycle'.rply
  /\ QRPLY \/ ~(Emulated(qcycle.addr) \/ qcycle.addr \in QForeign)
  /\ qcycle'.todo = SubSeq(qcycle.todo, 2, Len(qcycle.todo))
  /\ qcycle'.addr = IF qcycle'.todo = <<>> \/ qcycle'.todo[1] # qcycle.strobe
                      THEN qcycle.addr ELSE qcycle.addr + 1

(* The strobes of a cycle stay in step with the slave's address.            *)
LEMMA StrobeKeepsInvariant ==
  ASSUME QTypeOK, QIndInv, cycle_strobe \/ cycle_rply \/ cycle_strobe_end
  PROVE  QIndInv'
<1>1. /\ QLinesKept /\ PruInStep /\ NoProcessorInStep /\ GrantsInStep /\ BoardInStep
      /\ CycleInStep /\ SlaveFollows /\ WordsInBlock /\ WordsMoved
  BY DEF QIndInv
<1>2. UNCHANGED <<qpc, q_arb, qlatch, q_dma, q_slave, q_init, qcpu, qboard, qarm>>
  BY DEF cycle_strobe, cycle_rply, cycle_strobe_end, CycleStep
<1>3. qcycle \in QCycleState
  BY DEF QTypeOK
<1>4. /\ qcycle'.by = qcycle.by /\ qcycle'.sync = qcycle.sync /\ qcycle.by # "none"
      /\ StrobeBegins \/ RplyBegins \/ StrobeEnds
  <2>1. qcycle.todo # <<>> \/ qcycle.strobe # "none" => qcycle.by # "none"
    BY <1>1 DEF CycleInStep, NoCycle
  <2>2. CASE cycle_strobe
    BY <1>3, <2>1, <2>2 DEF cycle_strobe, CycleStep, QCycleState, StrobeBegins
  <2>3. CASE cycle_rply
    BY <1>3, <2>1, <2>3 DEF cycle_rply, CycleStep, QCycleState, RplyBegins
  <2>4. CASE cycle_strobe_end
    <3> DEFINE rest == SubSeq(qcycle.todo, 2, Len(qcycle.todo))
               addr == IF rest = <<>> \/ rest[1] # qcycle.strobe THEN qcycle.addr
                       ELSE qcycle.addr + 1
    <3>1. /\ qcycle' = [qcycle EXCEPT !.strobe = "none", !.rply = FALSE, !.todo = rest,
                                      !.addr = addr]
          /\ qcycle.strobe # "none"
          /\ QRPLY \/ ~(Emulated(qcycle.addr) \/ qcycle.addr \in QForeign)
      BY <2>4 DEF cycle_strobe_end, CycleStep
    <3> HIDE DEF rest, addr
    <3>2. /\ qcycle'.by = qcycle.by /\ qcycle'.sync = qcycle.sync /\ qcycle'.strobe = "none"
          /\ ~qcycle'.rply /\ qcycle'.todo = rest /\ qcycle'.addr = addr
      BY <1>3, <3>1 DEF QCycleState
    <3> QED
      BY <2>1, <3>1, <3>2 DEF StrobeEnds, rest, addr
  <2> QED
    BY <2>2, <2>3, <2>4
<1>5. /\ qcycle.todo \in Seq({"DIN", "DOUT"}) /\ qcycle.addr \in Nat
      /\ qcycle.strobe \in {"none", "DIN", "DOUT"} /\ q_slave.addr \in Nat
  BY <1>3 DEF QCycleState, QTypeOK, QSlaveState
<1>6. qcpu.iak = 0 /\ ~VectorTaken /\ ~qboard.RPLY /\ (qlatch.RPLY <=> SlaveAnswers)
  BY <1>1, <1>4 DEF CycleInStep, PruInStep, VectorTaken
<1>7. QLinesKept' /\ PruInStep' /\ WordsInBlock' /\ WordsMoved' /\ BoardInStep'
  BY <1>1, <1>2 DEF QLinesKept, PruInStep, Processor, SlaveAnswers, WordsInBlock, WordsMoved,
                    BoardInStep
<1>8. NoProcessorInStep' /\ GrantsInStep'
  BY <1>1, <1>2, <1>4 DEF NoProcessorInStep, Processor, GrantsInStep, VectorTaken, QSACK
<1>9. CycleInStep'
  <2>1. /\ qcycle'.by = "board" => qcycle'.addr = qcycle'.sync /\ Len(qcycle'.todo) <= 1
        /\ qcycle'.strobe # "none" => qcycle'.todo # <<>> /\ qcycle'.strobe = qcycle'.todo[1]
        /\ qcycle'.rply => qcycle'.addr \in QForeign
    <3>1. CASE StrobeEnds
      <4>1. /\ qcycle.todo # <<>> /\ qcycle'.todo = SubSeq(qcycle.todo, 2, Len(qcycle.todo))
            /\ qcycle'.strobe = "none" /\ ~qcycle'.rply
            /\ qcycle'.addr = IF qcycle'.todo = <<>> \/ qcycle'.todo[1] # qcycle.strobe
                                THEN qcycle.addr ELSE qcycle.addr + 1
        BY <1>1, <3>1 DEF CycleInStep, StrobeEnds
      <4>2. Len(qcycle'.todo) = Len(qcycle.todo) - 1 /\ Len(qcycle.todo) \in Nat \ {0}
            /\ qcycle'.todo \in Seq({"DIN", "DOUT"})
        BY <1>5, <4>1, TailType
      <4>3. Len(qcycle.todo) <= 1 => qcycle'.todo = <<>>
        BY <4>2
      <4> QED
        BY <1>1, <1>4, <4>1, <4>2, <4>3 DEF CycleInStep
    <3>2. CASE StrobeBegins \/ RplyBegins
      BY <1>1, <1>4, <3>2 DEF CycleInStep, StrobeBegins, RplyBegins
    <3> QED
      BY <1>4, <3>1, <3>2
  <2> QED
    BY <1>1, <1>2, <1>4, <2>1 DEF CycleInStep, VectorTaken, SlaveAnswers
<1>10. SlaveFollows'
  <2>1. CASE ~Emulated(qcycle.sync)
    BY <1>1, <1>2, <1>4, <2>1 DEF SlaveFollows
  <2>2. CASE Emulated(qcycle.sync)
    <3>1. Emulated(qcycle.addr) /\ OneSlave(qcycle.addr, qcycle.todo)
      BY <1>1, <1>4, <2>2 DEF SlaveFollows
    <3>2. qcycle.addr \notin QForeign /\ ~qcycle.rply
      BY <1>1, <3>1, QbusAssumption DEF CycleInStep
    <3>3. QRPLY <=> SlaveAnswers
      BY <1>6, <3>2 DEF QRPLY
    <3>4. CASE StrobeBegins
      <4>1. /\ ~SlaveAnswers /\ qcycle.strobe = "none" /\ qcycle'.todo = qcycle.todo
            /\ qcycle'.addr = qcycle.addr
        BY <3>3, <3>4 DEF StrobeBegins
      <4> QED
        BY <1>1, <1>2, <1>4, <2>2, <4>1 DEF SlaveFollows, SlaveAnswers, NextWord
    <3>5. CASE StrobeEnds
      <4>1. /\ SlaveAnswers /\ qcycle.strobe # "none" /\ qcycle'.strobe = "none"
            /\ qcycle'.todo = SubSeq(qcycle.todo, 2, Len(qcycle.todo))
            /\ qcycle'.addr = IF qcycle'.todo = <<>> \/ qcycle'.todo[1] # qcycle.strobe
                                THEN qcycle.addr ELSE qcycle.addr + 1
        BY <3>1, <3>2, <3>3, <3>5 DEF StrobeEnds
      <4>2. qcycle.todo # <<>> /\ qcycle.strobe = qcycle.todo[1]
        BY <1>1, <4>1 DEF CycleInStep
      <4>3. OneSlave(qcycle'.addr, qcycle'.todo) /\ Emulated(qcycle'.addr)
        <5> DEFINE rest == SubSeq(qcycle.todo, 2, Len(qcycle.todo))
                   next == IF rest = <<>> \/ rest[1] # qcycle.todo[1] THEN qcycle.addr
                           ELSE qcycle.addr + 1
        <5>1. OneSlave(next, rest) /\ Emulated(next)
          <6>1. /\ qcycle.addr \in Nat /\ qcycle.todo \in Seq({"DIN", "DOUT"})
                /\ qcycle.todo # <<>> /\ OneSlave(qcycle.addr, qcycle.todo) /\ Emulated(qcycle.addr)
            BY <1>5, <3>1, <4>2
          <6> QED
            BY ONLY <6>1, RestOfCycle
        <5>2. qcycle'.todo = rest /\ qcycle'.addr = next
          BY <4>1, <4>2
        <5> QED
          BY <5>1, <5>2
      <4>4. qcycle.strobe = q_slave.state /\ q_slave.addr = qcycle.addr
        BY <1>1, <1>4, <2>2, <4>1 DEF SlaveFollows
      <4>5. qcycle'.todo # <<>> => qcycle'.addr = NextWord(q_slave.state)'
        BY <1>2, <4>1, <4>4 DEF NextWord
      <4> QED
        BY <1>2, <1>4, <2>2, <4>1, <4>3, <4>5 DEF SlaveFollows, SlaveAnswers
    <3>6. CASE RplyBegins
      BY <3>1, <3>2, <3>6 DEF RplyBegins
    <3> QED
      BY <1>4, <3>4, <3>5, <3>6
  <2> QED
    BY <2>1, <2>2
<1> QED
  BY <1>7, <1>8, <1>9, <1>10 DEF QIndInv

(* A cycle ends when the slave does not answer.                             *)
LEMMA CycleEndKeepsInvariant ==
  ASSUME QTypeOK, QIndInv, cycle_end
  PROVE  QIndInv'
<1>1. /\ QLinesKept /\ PruInStep /\ NoProcessorInStep /\ GrantsInStep /\ BoardInStep
      /\ CycleInStep /\ SlaveFollows /\ WordsInBlock /\ WordsMoved
  BY DEF QIndInv
<1>2. /\ UNCHANGED <<qpc, q_arb, qlatch, q_dma, q_slave, q_init, qcpu, qarm>>
      /\ qcycle.by # "none" /\ ~QRPLY /\ qcycle' = NoCycle
  BY DEF cycle_end
<1>3. /\ qboard'.lines = qboard.lines /\ qboard'.requests = qboard.requests
      /\ qboard'.granted \subseteq qboard.granted /\ qboard'.RPLY = qboard.RPLY
      /\ qboard'.SACK => qboard.SACK /\ qboard'.granted = qboard.granted
      /\ qboard'.RPLY => qboard'.granted = qboard.granted
  <2>1. ~qboard.RPLY /\ qboard \in QBoardState
    BY <1>1, <1>2 DEF CycleInStep, QTypeOK
  <2> QED
    BY <2>1 DEF cycle_end, QBoardState
<1>4. ~SlaveAnswers /\ Processor
  BY <1>1, <1>2 DEF PruInStep, NoProcessorInStep, QRPLY
<1>5. QLinesKept' /\ PruInStep' /\ WordsInBlock' /\ WordsMoved' /\ BoardInStep'
  BY <1>1, <1>2, <1>3 DEF QLinesKept, PruInStep, Processor, SlaveAnswers, WordsInBlock,
                          WordsMoved, BoardInStep
<1>6. NoProcessorInStep' /\ GrantsInStep'
  BY <1>1, <1>2, <1>3, <1>4 DEF NoProcessorInStep, Processor, GrantsInStep, VectorTaken,
     QSACK,
                                NoCycle
<1>7. CycleInStep' /\ SlaveFollows'
  BY <1>2, <1>4 DEF CycleInStep, SlaveFollows, SlaveAnswers, NoCycle
<1> QED
  BY <1>5, <1>6, <1>7 DEF QIndInv

-----------------------------------------------------------------------------
(* Every step keeps the invariant, until a DMA runs that was not granted.   *)
LEMMA StepKeepsInvariant ==
  ASSUME QTypeOK, QIndInv, qbus_loop \/ qbus_deviceregister_ack \/ qbus_environment,
         q_dma'.granted
  PROVE  QIndInv'
<1>1. CASE qbus_loop
  BY <1>1, SlaveKeepsInvariant, ArbitrationKeepsInvariant, MasterKeepsInvariant,
     CommandKeepsInvariant DEF qbus_loop
<1>2. CASE qbus_deviceregister_ack
  BY <1>2, InitKeepsInvariant
<1>3. CASE qbus_environment
  BY <1>3, GrantsKeepInvariant, CycleStartKeepsInvariant, StrobeKeepsInvariant,
     CycleEndKeepsInvariant, InitKeepsInvariant, BoardKeepsInvariant DEF qbus_environment
<1> QED
  BY <1>1, <1>2, <1>3

(* The invariant gives the three properties.                                *)
LEMMA InvariantMeansSafe ==
  ASSUME QTypeOK, QIndInv
  PROVE  QSingleMaster /\ QTransfersExact /\ SlaveInStep
<1>1. /\ QLinesKept /\ PruInStep /\ NoProcessorInStep /\ GrantsInStep /\ BoardInStep
      /\ CycleInStep /\ SlaveFollows /\ WordsInBlock /\ WordsMoved
  BY DEF QIndInv
<1>2. QSingleMaster
  <2>1. QDmaHasSack
    BY <1>1 DEF QDmaHasSack, PruInStep
  <2>2. ~(qlatch.SYNC /\ qcycle.by # "none")
    BY <1>1 DEF PruInStep, NoProcessorInStep, CycleInStep
  <2>3. ~(qlatch.SACK /\ qboard.SACK)
    BY NotBothMasters
  <2>4. ~(q_arb.state = "intr_complete" /\ qboard.RPLY)
    BY <1>1 DEF GrantsInStep, VectorTaken
  <2> QED
    BY <2>1, <2>2, <2>3, <2>4 DEF QSingleMaster
<1>3. QTransfersExact
  <2> DEFINE end == q_dma.block_end
             block == end - QBlockWords + 1 .. end
  <2>1. /\ QBlockWords \in Nat \ {0} /\ QBoundary \in Nat \ {0} /\ end \in Int
        /\ q_dma.in_block \subseteq Nat
    BY QbusAssumption DEF QTypeOK, QDmaState
  <2> HIDE DEF end
  <2>2. \A a \in q_dma.in_block : InBlock(a, end)
    BY <1>1 DEF WordsInBlock, end
  <2>3. Cardinality(q_dma.in_block) <= QBlockWords
    <3>1. q_dma.in_block \subseteq block
      BY <2>1, <2>2 DEF InBlock
    <3>2. IsFiniteSet(block) /\ Cardinality(block) = QBlockWords
      <4>1. end - QBlockWords + 1 \in Int /\ end - QBlockWords + 1 <= end
            /\ end - (end - QBlockWords + 1) + 1 = QBlockWords
        BY <2>1
      <4> QED
        BY <2>1, <4>1, FS_Interval
    <3> QED
      BY <2>1, <3>1, <3>2, FS_Subset
  <2>4. \A a \in q_dma.in_block : a \div QBoundary = end \div QBoundary
    <3> SUFFICES ASSUME NEW a \in q_dma.in_block
                 PROVE  a \div QBoundary = end \div QBoundary
      OBVIOUS
    <3> DEFINE q == end \div QBoundary
    <3>1. a \in Nat /\ a <= end /\ q * QBoundary <= a
      BY <2>1, <2>2 DEF InBlock
    <3>2. end \in Nat
      BY <2>1, <3>1
    <3>3. q \in Nat /\ q * QBoundary \in Nat /\ end <= q * QBoundary + QBoundary - 1
      BY ONLY <2>1, <3>2, Quotient
    <3> HIDE DEF q
    <3>4. a <= q * QBoundary + QBoundary - 1
      BY <2>1, <3>1, <3>2, <3>3
    <3>5. a \div QBoundary = q
      BY <2>1, <3>1, <3>3, <3>4, Division
    <3> QED
      BY <3>5 DEF q
  <2>5. q_dma.state = "data" => q_dma.moved = qarm.dma[1] .. q_dma.addr - 1
    BY <1>1 DEF WordsMoved
  <2> QED
    BY <2>3, <2>4, <2>5 DEF QTransfersExact
<1>4. SlaveInStep
  <2> SUFFICES ASSUME qlatch.RPLY, qcycle.strobe # "none" PROVE q_slave.addr = qcycle.addr
    BY DEF SlaveInStep
  <2>1. qcycle.by # "none"
    BY <1>1 DEF CycleInStep, NoCycle
  <2>2. SlaveAnswers
    BY <1>1, <2>1 DEF PruInStep, CycleInStep, VectorTaken
  <2> QED
    BY <1>1, <2>1, <2>2 DEF SlaveFollows, SlaveAnswers
<1> QED
  BY <1>2, <1>3, <1>4

(* Until a DMA runs that was not granted, the PRU and the other board are    *)
(* never both masters, a block of a DMA keeps to its words, each moved once   *)
(* and in order, and the PRU answers the word that the master of a cycle      *)
(* means: pru1_main_qbus.c and its statemachines.                             *)
THEOREM QbusSafe ==
  ASSUME OwnLines
  PROVE  QbusSpec => []QSafe
<1>1. QbusInit => QSafe
  BY InitTypes, InitInvariant, InvariantMeansSafe DEF QSafe
<1>2. QSafe /\ [QbusNext]_qbusvars => QSafe'
  <2> SUFFICES ASSUME QSafe, [QbusNext]_qbusvars PROVE QSafe'
    OBVIOUS
  <2>1. CASE q_dma.granted /\ (qbus_loop \/ qbus_deviceregister_ack \/ qbus_environment)
    <3>1. QTypeOK /\ QIndInv
      BY <2>1 DEF QSafe
    <3>2. QTypeOK'
      BY <2>1, <3>1, DmaLeft, QTypeStep
    <3>3. q_dma'.granted => QIndInv'
      BY <2>1, <3>1, StepKeepsInvariant
    <3>4. QTypeOK' /\ QIndInv' => QSingleMaster' /\ QTransfersExact' /\ SlaveInStep'
      BY InvariantMeansSafe, PTL
    <3> QED
      BY <3>2, <3>3, <3>4 DEF QSafe
  <2>2. CASE UNCHANGED qbusvars
    <3>1. QTypeOK'
      BY <2>2 DEF qbusvars, QSafe, QTypeOK
    <3>2. SlaveAnswers' = SlaveAnswers /\ VectorTaken' = VectorTaken /\ Processor' = Processor
          /\ QSACK' = QSACK
      BY <2>2 DEF qbusvars, SlaveAnswers, VectorTaken, Processor, QSACK
    <3>3. QIndInv <=> QIndInv'
      <4>1. /\ QLinesKept <=> QLinesKept'
            /\ PruInStep <=> PruInStep'
            /\ NoProcessorInStep <=> NoProcessorInStep'
        BY <2>2, <3>2 DEF qbusvars, QLinesKept, PruInStep, NoProcessorInStep
      <4>2. /\ GrantsInStep <=> GrantsInStep'
            /\ BoardInStep <=> BoardInStep'
            /\ CycleInStep <=> CycleInStep'
        BY <2>2, <3>2 DEF qbusvars, GrantsInStep, BoardInStep, CycleInStep
      <4>3. SlaveFollows <=> SlaveFollows'
        BY <2>2, <3>2 DEF qbusvars, SlaveFollows, NextWord
      <4>4. (WordsInBlock <=> WordsInBlock') /\ (WordsMoved <=> WordsMoved')
        BY <2>2 DEF qbusvars, WordsInBlock, WordsMoved
      <4> QED
        BY <4>1, <4>2, <4>3, <4>4 DEF QIndInv
    <3>4. QTypeOK' /\ QIndInv' => QSingleMaster' /\ QTransfersExact' /\ SlaveInStep'
      BY InvariantMeansSafe, PTL
    <3> QED
      BY <2>2, <3>1, <3>3, <3>4 DEF qbusvars, QSafe
  <2> QED
    BY <2>1, <2>2 DEF QbusNext
<1> QED
  BY <1>1, <1>2, PTL DEF QbusSpec

-----------------------------------------------------------------------------
(* What ARM handed over stays with the PRU.                                 *)
Kept(line) == QOnPru(line) /\ q_dma'.granted => QOnPru(line)'

LEMMA ArbitrationKeepsRequests ==
  ASSUME QTypeOK, QIndInv, qbus_arbitration, NEW line \in qarm.requests \cap qarm'.requests
  PROVE  Kept(line)
<1> SUFFICES ASSUME QOnPru(line), q_dma'.granted PROVE QOnPru(line)'
  BY DEF Kept
<1>1. Arbitrates /\ ArbitrationCases /\ q_dma.state = "none"
  BY ArbitrationStep DEF Arbitrates, QIndInv, PruInStep
<1>2. line \in q_arb.request \/ line \in InProgress
  BY <1>1 DEF QOnPru
<1>3. line \notin Cleared
  BY <1>1 DEF ArbitrationCases, PruWaits, PruChecks, PruTakesBus, PruTakesVector,
     PruEndsVector,
              PruIsAlone
<1>4. line \in AfterInit \/ line \in InProgress
  BY <1>2, <1>3 DEF AfterInit, Cleared
<1>5. CASE PruWaits
  BY <1>4, <1>5 DEF PruWaits, QOnPru, InProgress
<1>6. CASE PruChecks
  BY <1>4, <1>6 DEF PruChecks, QOnPru, InProgress
<1>7. CASE PruTakesBus
  <2>1. InProgress = {QNP}
    BY <1>7 DEF QIndInv, GrantsInStep, PruTakesBus, InProgress
  <2>2. q_dma'.state # "none"
    BY <1>7, StartedDma DEF PruTakesBus
  <2> QED
    BY <1>4, <1>7, <2>1, <2>2 DEF PruTakesBus, QOnPru
<1>8. CASE PruTakesVector
  BY <1>4, <1>8 DEF PruTakesVector, QOnPru, InProgress
<1>9. CASE PruEndsVector
  BY <1>4, <1>9 DEF PruEndsVector, QOnPru, InProgress
<1>10. CASE PruIsAlone
  <2>1. QNP \in AfterInit => q_dma'.state # "none"
    BY <1>10, StartedDma DEF PruIsAlone
  <2> QED
    BY <1>4, <1>10, <2>1 DEF PruIsAlone, QOnPru, InProgress
<1> QED
  BY <1>1, <1>5, <1>6, <1>7, <1>8, <1>9, <1>10 DEF ArbitrationCases

(* A step of any actor keeps a request that stays with ARM.                 *)
LEMMA StepKeepsRequests ==
  ASSUME QTypeOK, QIndInv, qbus_loop \/ qbus_deviceregister_ack \/ qbus_environment,
         NEW line \in qarm.requests \cap qarm'.requests
  PROVE  Kept(line)
<1>1. CASE q_arb' = q_arb /\ q_dma' = q_dma
  BY <1>1 DEF Kept, QOnPru, InProgress
<1>2. CASE qbus_arbitration
  BY <1>2, ArbitrationKeepsRequests
<1>3. CASE qbus_master
  <2>1. MasterSteps /\ MasterCases
    BY <1>3, MasterCycle, DmaLeft
  <2>2. q_arb' = q_arb /\ (line = QNP => q_dma'.state # "none")
    BY <2>1 DEF MasterSteps, MasterCases, MasterAddresses, MasterMoves, MasterWaits,
                MasterTimesOut, MasterEnds, MasterGoesOn
  <2> QED
    BY <2>2 DEF Kept, QOnPru, InProgress
<1>4. CASE \/ qbus_no_command \/ qbus_CPU_BUS_ACCESS
           \/ \E dma \in QDmas : qbus_DMA(dma)
           \/ \E level \in QLevels : qbus_INTR(level) \/ qbus_INTR_CANCEL(level)
  <2>1. CommandGiven
    BY <1>4, CommandStep
  <2>2. q_dma' = q_dma
    BY <1>4 DEF qbus_no_command, qbus_CPU_BUS_ACCESS, qbus_DMA, qbus_INTR, qbus_INTR_CANCEL,
                QCommand
  <2>3. q_arb'.state = q_arb.state /\ q_arb'.grant = q_arb.grant
    BY <2>1 DEF CommandGiven
  <2>4. line \in q_arb.request => line \in q_arb'.request
    BY <2>1 DEF CommandGiven
  <2> QED
    BY <2>2, <2>3, <2>4 DEF Kept, QOnPru, InProgress
<1>5. CASE qbus_data_slave \/ qbus_deviceregister_ack
  BY <1>1, <1>5 DEF qbus_data_slave, qbus_deviceregister_ack
<1>6. CASE qbus_environment
  <2>1. q_arb' = q_arb /\ q_dma' = q_dma
    BY <1>6 DEF qbus_environment, cpu_DMGO, cpu_DMGO_end, cpu_IAKO, cpu_IAKO_end, CpuStep,
       cpu_cycle, cycle_strobe, cycle_rply, cycle_strobe_end, CycleStep, cycle_end, qbus_INIT,
       qboard_request, qboard_SACK, qboard_cycle, qboard_vector, qboard_vector_end, QBoardStep
  <2> QED
    BY <1>1, <2>1
<1> QED
  BY <1>2, <1>3, <1>4, <1>5, <1>6 DEF qbus_loop

(* The end of a DMA without timeout and INIT.                               *)
LEMMA DmaMovesItsWords ==
  ASSUME QTypeOK, QIndInv, qbus_loop \/ qbus_deviceregister_ack \/ qbus_environment,
         q_dma.state = "99", q_dma'.state = "none", ~q_dma.timeout, ~q_init.line
  PROVE  q_dma.moved = qarm.dma[1] .. qarm.dma[1] + qarm.dma[2] - 1
<1>1. CASE qbus_master
  <2>1. MasterCases
    BY <1>1, MasterCycle, DmaLeft
  <2>2. q_dma.left = 1
    BY <2>1 DEF MasterCases, MasterAddresses, MasterMoves, MasterWaits, MasterTimesOut,
       MasterEnds,
                MasterGoesOn
  <2>3. /\ q_dma.moved = qarm.dma[1] .. q_dma.addr
        /\ q_dma.addr + q_dma.left = qarm.dma[1] + qarm.dma[2]
    BY DEF QIndInv, WordsMoved
  <2>4. q_dma.addr \in Nat /\ qarm.dma[1] \in Nat /\ qarm.dma[2] \in Nat
    BY DEF QTypeOK, QDmaState
  <2>5. q_dma.addr = qarm.dma[1] + qarm.dma[2] - 1
    <3> DEFINE start == qarm.dma[1]
               count == qarm.dma[2]
    <3>1. /\ q_dma.addr \in Nat /\ start \in Nat /\ count \in Nat
          /\ q_dma.addr + 1 = start + count
      BY <2>2, <2>3, <2>4
    <3> HIDE DEF start, count
    <3>2. q_dma.addr = start + count - 1
      BY <3>1
    <3> QED
      BY <3>2 DEF start, count
  <2> QED
    BY <2>3, <2>5
<1>2. CASE qbus_arbitration
  BY <1>2 DEF QIndInv, PruInStep, qbus_arbitration
<1>3. CASE ~qbus_master /\ ~qbus_arbitration
  <2>1. q_dma' = q_dma
    BY <1>3 DEF qbus_loop, qbus_data_slave, qbus_no_command, qbus_CPU_BUS_ACCESS, qbus_DMA,
       qbus_INTR, qbus_INTR_CANCEL, QCommand, qbus_deviceregister_ack, qbus_environment,
       cpu_DMGO, cpu_DMGO_end, cpu_IAKO, cpu_IAKO_end, CpuStep,
       cpu_cycle, cycle_strobe, cycle_rply, cycle_strobe_end, CycleStep, cycle_end, qbus_INIT,
       qboard_request, qboard_SACK, qboard_cycle, qboard_vector, qboard_vector_end, QBoardStep
  <2> QED
    BY <2>1
<1> QED
  BY <1>1, <1>2, <1>3

(* No grant or command makes the PRU forget a request that ARM still waits    *)
(* for, INIT none that is granted; and a DMA that neither timed out nor met    *)
(* INIT ends with all of its words moved.                                     *)
THEOREM QbusRequestsStay ==
  ASSUME OwnLines
  PROVE  QbusSpec => QRequestKept
<1> DEFINE Ends == q_dma.state = "99" /\ q_dma'.state = "none" /\ ~q_dma.timeout /\ ~q_init.line =>
                     q_dma.moved = qarm.dma[1] .. qarm.dma[1] + qarm.dma[2] - 1
           Stay == \A line \in qarm.requests \cap qarm.requests' :
                     QOnPru(line) /\ q_dma'.granted => QOnPru(line)'
<1>1. QSafe /\ [QbusNext]_qbusvars => [Ends /\ Stay]_qbusvars
  <2> SUFFICES ASSUME QSafe, [QbusNext]_qbusvars PROVE [Ends /\ Stay]_qbusvars
    OBVIOUS
  <2>1. CASE q_dma.granted /\ (qbus_loop \/ qbus_deviceregister_ack \/ qbus_environment)
    <3>1. QTypeOK /\ QIndInv
      BY <2>1 DEF QSafe
    <3>2. Ends
      BY <2>1, <3>1, DmaMovesItsWords
    <3>3. Stay
      BY <2>1, <3>1, StepKeepsRequests DEF Kept
    <3> QED
      BY <3>2, <3>3
  <2>2. CASE UNCHANGED qbusvars
    BY <2>2
  <2> QED
    BY <2>1, <2>2 DEF QbusNext
<1>2. QbusSpec => []QSafe
  BY QbusSafe
<1>3. QbusSpec => [][QbusNext]_qbusvars
  BY PTL DEF QbusSpec
<1>4. QbusSpec => [][Ends /\ Stay]_qbusvars
  BY <1>1, <1>2, <1>3, PTL
<1> QED
  BY <1>4, PTL DEF QRequestKept

(* On both buses: what ARM has handed to the PRU stays there until it is served,  *)
(* cancelled or reset.                                                       *)
THEOREM RequestsStayOnBothBuses ==
  ASSUME OwnLines
  PROVE  ArbSpec /\ QbusSpec => RequestsKept
<1>1. ArbSpec => RequestKept
  BY RequestsStay
<1>2. QbusSpec => QRequestKept
  BY QbusRequestsStay
<1> QED
  BY <1>1, <1>2, PTL DEF RequestsKept
=============================================================================
