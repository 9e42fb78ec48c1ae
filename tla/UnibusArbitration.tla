-------------------------- MODULE UnibusArbitration -------------------------
(***************************************************************************)
(* Priority arbitration of the UNIBUS by the PRU's main loop.               *)
(*                                                                         *)
(* The PRU requests the bus for the emulated devices (lines BR4..BR7 and    *)
(* NPR), takes or forwards the grants, and becomes bus master for a DMA or  *)
(* an interrupt vector.  The arbitrator is a physical CPU or, if a CPU is   *)
(* emulated, the PRU itself; the emulated CPU then uses the bus without a   *)
(* grant.  Other boards share the request lines, SACK and BBSY (wired or);  *)
(* they sit behind the PRU in the grant chain.                              *)
(*                                                                         *)
(* One action per stage of the main loop, so that the other boards see the  *)
(* lines as they are between the stages.                                    *)
(***************************************************************************)
EXTENDS Integers, FiniteSetsExt

CONSTANTS
  IntrLevels,    \* the BR lines, by level
  NP,            \* the NPR line, higher than any level
  DeviceLevels,  \* lines on which emulated devices request the bus
  BoardLevels,   \* lines on which other boards do
  Arbitrators,   \* "physical": there is a physical CPU; "off": one can be emulated
  RunLevels,     \* priority levels of the emulated CPU
  CPU_PRIORITY_LEVEL_FETCHING   \* 0xff: no BR level is higher

Lines == IntrLevels \cup {NP}
CpuAccess == NP + 1   \* a memory access of the emulated CPU: on no line

ASSUME ArbitrationAssumption ==
  /\ Lines \cup RunLevels \cup {CPU_PRIORITY_LEVEL_FETCHING} \subseteq Nat
  /\ \A l \in IntrLevels : l < NP /\ l < CPU_PRIORITY_LEVEL_FETCHING
  /\ DeviceLevels \cup BoardLevels \subseteq Lines
  /\ RunLevels # {} /\ \A l \in RunLevels : l < CPU_PRIORITY_LEVEL_FETCHING
  /\ Arbitrators \subseteq {"physical", "off"}

VARIABLES
  cpu,             \* "physical", "emulated", or "off": emulated, but halted
  pc,              \* stage of the main loop
  sm_arb,          \* statemachine_arbitration_t
  latch,           \* what the PRU drives: requests, SACK, BBSY, SSYN, grants OUT
  cpu_grant_mask,  \* main()'s copy of the arbitrator's grants
  data_master,     \* state of the DMA or INTR state machine, with its user
  timeout_SACK,    \* "off", "running" or "expired"
  arbitrator,      \* mailbox->arbitrator
  INIT,            \* INIT on the bus
  intr_slave,      \* the emulated CPU's vector: "none", "event" for ARM, or "acked"
  data_slave,      \* the PRU, as slave of another master, is in a register access
  deviceregister,  \* a register access that ARM has not yet handled
  physical,        \* the physical CPU: its grant, and BBSY of its cycle
  board,           \* the other boards: requests, grant taken, SACK, BBSY
  arm_requests     \* what ARM has handed to the PRU and not got back

vars == <<cpu, pc, sm_arb, latch, cpu_grant_mask, data_master, timeout_SACK, arbitrator,
          INIT, intr_slave, data_slave, deviceregister, physical, board, arm_requests>>

emulate_cpu == cpu = "emulated"

ArbitrationState ==
  [device_request_mask : SUBSET DeviceLevels, device_request_signalled_mask : SUBSET DeviceLevels,
   device_forwarded_grant_mask : SUBSET Lines, grant_bbsy_ssyn_wait_grant_mask : SUBSET DeviceLevels,
   cpu_request : BOOLEAN, arbitrator_grant_mask : SUBSET Lines]
LatchState ==
  [requests : SUBSET DeviceLevels, SACK : BOOLEAN, BBSY : BOOLEAN, SSYN : BOOLEAN,
   grants : SUBSET Lines]
MasterState == [state : {"none", "start", "1", "2"}, user : Lines \cup {CpuAccess}]
ArbitratorState ==
  [ifs_priority_level : RunLevels \cup {CPU_PRIORITY_LEVEL_FETCHING},
   ifs_intr_arbitration_pending : BOOLEAN]
PhysicalState == [grants : SUBSET Lines, BBSY : BOOLEAN]
BoardState ==
  [requests : SUBSET BoardLevels, granted : SUBSET BoardLevels, SACK : BOOLEAN, BBSY : BOOLEAN]

ArbTypeOK ==
  /\ cpu \in {"physical", "emulated", "off"}
  /\ pc \in {"slave", "arb_cpu", "arb_device", "intr_slave", "command"}
  /\ sm_arb \in ArbitrationState
  /\ latch \in LatchState
  /\ cpu_grant_mask \subseteq Lines
  /\ data_master \in MasterState
  /\ timeout_SACK \in {"off", "running", "expired"}
  /\ arbitrator \in ArbitratorState
  /\ intr_slave \in {"none", "event", "acked"}
  /\ INIT \in BOOLEAN /\ data_slave \in BOOLEAN /\ deviceregister \in BOOLEAN
  /\ physical \in PhysicalState
  /\ board \in BoardState
  /\ arm_requests \subseteq DeviceLevels \cup {CpuAccess}

(* sm_arb_reset() *)
sm_arb_reset ==
  [device_request_mask |-> {}, device_request_signalled_mask |-> {},
   device_forwarded_grant_mask |-> {}, grant_bbsy_ssyn_wait_grant_mask |-> {},
   cpu_request |-> FALSE, arbitrator_grant_mask |-> {}]

Idle == [state |-> "none", user |-> NP]

ArbInit ==
  /\ cpu \in Arbitrators
  /\ pc = "slave"
  /\ sm_arb = sm_arb_reset
  /\ latch = [requests |-> {}, SACK |-> FALSE, BBSY |-> FALSE, SSYN |-> FALSE,
              grants |-> {}]
  /\ cpu_grant_mask = {}
  /\ data_master = Idle
  /\ timeout_SACK = "off"
  /\ arbitrator = [ifs_priority_level |-> Max(RunLevels),
                   ifs_intr_arbitration_pending |-> FALSE]
  /\ INIT = FALSE
  /\ intr_slave = "none"
  /\ data_slave = FALSE
  /\ deviceregister = FALSE
  /\ physical = [grants |-> {}, BBSY |-> FALSE]
  /\ board = [requests |-> {}, granted |-> {}, SACK |-> FALSE, BBSY |-> FALSE]
  /\ arm_requests = {}

(* The lines as buslatches_getbyte() reads them. *)
BusRequests == latch.requests \cup board.requests
SACK == latch.SACK \/ board.SACK
BBSY == latch.BBSY \/ board.BBSY \/ physical.BBSY
SSYN == latch.SSYN

(* sm_intr_slave runs for an emulated CPU only. *)
AfterBus == IF emulate_cpu THEN "intr_slave" ELSE "command"

-----------------------------------------------------------------------------
(* sm_data_slave: an access of another master to a register of an emulated   *)
(* device; SSYN is held until ARM has handled it.                            *)
sm_data_slave ==
  \/ /\ ~data_slave
     /\ UNCHANGED <<data_slave, deviceregister>>
  \/ /\ ~data_slave
     /\ physical.BBSY \/ (board.BBSY /\ NP \in board.granted)
     /\ data_slave' = TRUE
     /\ deviceregister' = TRUE
  \/ /\ data_slave
     /\ data_slave' = deviceregister
     /\ UNCHANGED deviceregister

(* State "SLAVE": INIT clears the requests; the physical CPU's grants are    *)
(* forwarded where nothing was requested.  No arbitration while a register   *)
(* access is with ARM.                                                       *)
main_slave ==
  /\ pc = "slave"
  /\ data_master.state = "none"
  /\ sm_data_slave
  /\ LET mask == IF INIT THEN {} ELSE sm_arb.device_request_mask
         forwarded == IF emulate_cpu THEN sm_arb.device_forwarded_grant_mask
                      ELSE physical.grants \ sm_arb.device_request_signalled_mask
     IN  /\ sm_arb' = [sm_arb EXCEPT !.device_request_mask = mask,
                                     !.device_forwarded_grant_mask = forwarded]
         /\ latch' = [latch EXCEPT !.grants = IF emulate_cpu THEN @ ELSE forwarded,
                                   !.SSYN = IF data_slave' = data_slave THEN @ ELSE data_slave']
         /\ cpu_grant_mask' = IF emulate_cpu THEN cpu_grant_mask ELSE physical.grants
         /\ arm_requests' = IF INIT THEN arm_requests \ sm_arb.device_request_mask
                            ELSE arm_requests
  /\ pc' = IF deviceregister' THEN AfterBus
           ELSE IF emulate_cpu THEN "arb_cpu"
           ELSE "arb_device"
  /\ UNCHANGED <<cpu, data_master, timeout_SACK, arbitrator, INIT, intr_slave,
                 physical, board>>

(* Faulty: SACK does not end the grant. *)
ArbitrateHeld(grants) ==
  IF NP \in BusRequests /\ grants = {} /\ ~SACK THEN <<{NP}, "running">>
  ELSE <<grants, timeout_SACK>>

(* The emulated arbitrator's next grant, with what becomes of its timeout.   *)
(* SACK removes the grant; a grant is not changed before SACK, or before the *)
(* timeout when nobody requests the bus any more.                            *)
Arbitrate(grants) ==
  LET intr_request_mask == BusRequests \cap IntrLevels
      requested_intr_level == Max(intr_request_mask)
  IN  IF SACK THEN <<{}, "off">>
      ELSE IF NP \in BusRequests
        THEN IF grants = {} THEN <<{NP}, "running">> ELSE <<grants, timeout_SACK>>
      ELSE IF arbitrator.ifs_intr_arbitration_pending /\ intr_request_mask # {}
        THEN IF grants = {} /\ requested_intr_level > arbitrator.ifs_priority_level
               THEN <<{requested_intr_level}, "running">>
               ELSE <<grants, timeout_SACK>>
      ELSE IF grants # {} /\ timeout_SACK # "running" THEN <<{}, "off">>
      ELSE <<grants, timeout_SACK>>

(* sm_arb_worker_cpu() *)
sm_arb_worker_cpu ==
  /\ pc = "arb_cpu"
  /\ LET new == Arbitrate(sm_arb.arbitrator_grant_mask)
     IN  /\ sm_arb' = [sm_arb EXCEPT !.arbitrator_grant_mask = new[1]]
         /\ timeout_SACK' = new[2]
         /\ latch' = [latch EXCEPT !.grants = new[1]]
         /\ cpu_grant_mask' = new[1]
  /\ arbitrator' = [arbitrator EXCEPT !.ifs_intr_arbitration_pending = FALSE]
  /\ pc' = "arb_device"
  /\ UNCHANGED <<cpu, data_master, INIT, intr_slave, data_slave, deviceregister, physical, board,
                 arm_requests>>

(* sm_arb_worker_device(), the emulated CPU's access: when the bus is idle.  *)
cpu_access_granted ==
  /\ sm_arb.cpu_request
  /\ NP \notin BusRequests /\ ~SACK /\ ~BBSY
  /\ BusRequests = {} \/ ~arbitrator.ifs_intr_arbitration_pending

(* Faulty: a grant clears all requests. *)
device_granted_all ==
  LET mask == sm_arb.device_request_mask
      device_grant_mask == (cpu_grant_mask \cap mask) \ sm_arb.device_forwarded_grant_mask
      rest == IF device_grant_mask = {} THEN mask ELSE {}
  IN  /\ sm_arb.grant_bbsy_ssyn_wait_grant_mask = {}
      /\ latch' = [latch EXCEPT !.requests = rest, !.SACK = @ \/ device_grant_mask # {}]
      /\ sm_arb' = [sm_arb EXCEPT !.device_request_mask = rest,
                                  !.device_request_signalled_mask = mask,
                                  !.grant_bbsy_ssyn_wait_grant_mask = device_grant_mask]
      /\ UNCHANGED data_master

(* Else the devices' requests: put onto the lines; a grant not forwarded is  *)
(* answered with SACK ...                                                    *)
device_granted ==
  LET mask == sm_arb.device_request_mask
      device_grant_mask == (cpu_grant_mask \cap mask) \ sm_arb.device_forwarded_grant_mask
  IN  /\ sm_arb.grant_bbsy_ssyn_wait_grant_mask = {}
      /\ latch' = [latch EXCEPT !.requests = mask \ device_grant_mask,
                                !.SACK = @ \/ device_grant_mask # {}]
      /\ sm_arb' = [sm_arb EXCEPT !.device_request_mask = mask \ device_grant_mask,
                                  !.device_request_signalled_mask = mask,
                                  !.grant_bbsy_ssyn_wait_grant_mask = device_grant_mask]
      /\ UNCHANGED data_master

(* Faulty: the bus is taken as soon as it is granted. *)
device_bus_seized ==
  LET waiting == sm_arb.grant_bbsy_ssyn_wait_grant_mask
  IN  /\ waiting # {}
      /\ latch' = [latch EXCEPT !.requests = sm_arb.device_request_mask]
      /\ sm_arb' = [sm_arb EXCEPT !.device_request_signalled_mask = sm_arb.device_request_mask,
                                  !.grant_bbsy_ssyn_wait_grant_mask = {}]
      /\ data_master' = [state |-> "start", user |-> Max(waiting)]

(* ... and, when the grant, BBSY and SSYN are negated, main() starts sm_dma  *)
(* or sm_intr_master.                                                        *)
device_bus_free ==
  LET waiting == sm_arb.grant_bbsy_ssyn_wait_grant_mask
      free == cpu_grant_mask \cap waiting = {} /\ ~BBSY /\ ~SSYN
  IN  /\ waiting # {}
      /\ latch' = [latch EXCEPT !.requests = sm_arb.device_request_mask]
      /\ sm_arb' = [sm_arb EXCEPT !.device_request_signalled_mask = sm_arb.device_request_mask,
                                  !.grant_bbsy_ssyn_wait_grant_mask = IF free THEN {} ELSE @]
      /\ data_master' = IF free THEN [state |-> "start", user |-> Max(waiting)]
                        ELSE data_master

sm_arb_worker_device ==
  /\ pc = "arb_device"
  /\ IF cpu_access_granted
       THEN /\ sm_arb' = [sm_arb EXCEPT !.cpu_request = FALSE]
            /\ data_master' = [state |-> "start", user |-> CpuAccess]
            /\ UNCHANGED latch
       ELSE device_granted \/ device_bus_free
  /\ pc' = AfterBus
  /\ UNCHANGED <<cpu, cpu_grant_mask, timeout_SACK, arbitrator, INIT, intr_slave,
                 data_slave, deviceregister, physical, board, arm_requests>>

(* State "MASTER": one state of sm_dma or sm_intr_master.  BBSY first; SACK  *)
(* is negated with the last word or the vector, BBSY at the end.  A DMA sets *)
(* the address and control lines, SSYN among them, and may access a register *)
(* of an emulated device; an INTR waits for the SSYN of the CPU.             *)
main_master ==
  /\ pc = "slave"
  /\ \/ /\ data_master.state = "start"
        /\ latch' = [latch EXCEPT !.BBSY = TRUE]
        /\ data_master' = [data_master EXCEPT !.state = "1"]
        /\ UNCHANGED <<deviceregister, arm_requests>>
     \/ /\ data_master.state = "1"
        /\ data_master' = [data_master EXCEPT !.state = "2"]
        /\ IF data_master.user \in IntrLevels
             THEN /\ latch' = [latch EXCEPT !.SACK = FALSE]
                  /\ UNCHANGED deviceregister
             ELSE /\ latch' = [latch EXCEPT !.SACK = FALSE, !.SSYN = FALSE]
                  /\ deviceregister' \in {deviceregister, TRUE}
        /\ UNCHANGED arm_requests
     \/ /\ data_master.state = "2"
        /\ data_master.user \in IntrLevels => SSYN \/ cpu = "physical"
        /\ latch' = [latch EXCEPT !.BBSY = FALSE]
        /\ data_master' = Idle
        /\ arm_requests' = arm_requests \ {data_master.user}
        /\ UNCHANGED deviceregister
     \/ /\ data_master.state = "2"
        /\ data_master.user \in IntrLevels /\ ~SSYN /\ cpu # "physical"
        /\ UNCHANGED <<latch, data_master, deviceregister, arm_requests>>
  /\ pc' = AfterBus
  /\ UNCHANGED <<cpu, sm_arb, cpu_grant_mask, timeout_SACK, arbitrator, INIT, intr_slave,
                 data_slave, physical, board>>

(* INTR on the bus: by the PRU, or by a board. *)
INTR ==
  \/ data_master.state = "2" /\ data_master.user \in IntrLevels
  \/ board.BBSY /\ ~board.SACK /\ board.granted \cap IntrLevels # {}

(* sm_intr_slave: the emulated CPU answers a vector; its priority level is   *)
(* invalid until ARM has fetched the new PSW.                                *)
sm_intr_slave ==
  /\ pc = "intr_slave"
  /\ IF intr_slave = "none" /\ INTR
       THEN /\ intr_slave' = "event"
            /\ latch' = [latch EXCEPT !.SSYN = TRUE]
            /\ arbitrator' = [arbitrator EXCEPT
                                !.ifs_priority_level = CPU_PRIORITY_LEVEL_FETCHING]
     ELSE IF intr_slave = "acked" /\ ~INTR
       THEN /\ intr_slave' = "none"
            /\ latch' = [latch EXCEPT !.SSYN = FALSE]
            /\ UNCHANGED arbitrator
     ELSE UNCHANGED <<intr_slave, latch, arbitrator>>
  /\ pc' = "command"
  /\ UNCHANGED <<cpu, sm_arb, cpu_grant_mask, data_master, timeout_SACK, INIT, data_slave,
                 deviceregister, physical, board, arm_requests>>

-----------------------------------------------------------------------------
(* main(), the command of ARM.  ARM gives the PRU one DMA at a time, and one *)
(* interrupt per level.                                                      *)
Command(new_sm_arb, requests) ==
  /\ pc = "command"
  /\ pc' = "slave"
  /\ sm_arb' = new_sm_arb
  /\ arm_requests' = requests
  /\ UNCHANGED <<cpu_grant_mask, data_master, INIT, intr_slave, data_slave, deviceregister, physical,
                 board>>

no_command ==
  /\ Command(sm_arb, arm_requests)
  /\ UNCHANGED <<cpu, latch, timeout_SACK, arbitrator>>

(* ARM2PRU_DMA of a device and ARM2PRU_INTR *)
ARM2PRU_REQUEST(line) ==
  /\ line \notin arm_requests
  /\ line = NP => CpuAccess \notin arm_requests
  /\ Command([sm_arb EXCEPT !.device_request_mask = @ \cup {line}], arm_requests \cup {line})
  /\ UNCHANGED <<cpu, latch, timeout_SACK, arbitrator>>

(* ARM2PRU_DMA of the CPU, which waited for the end of the arbitration. *)
ARM2PRU_CPU_ACCESS ==
  /\ emulate_cpu
  /\ arm_requests \cap {NP, CpuAccess} = {}
  /\ ~arbitrator.ifs_intr_arbitration_pending
  /\ Command([sm_arb EXCEPT !.cpu_request = TRUE], arm_requests \cup {CpuAccess})
  /\ UNCHANGED <<cpu, latch, timeout_SACK, arbitrator>>

ARM2PRU_INTR_CANCEL(line) ==
  /\ line \in arm_requests \cap IntrLevels
  /\ Command([sm_arb EXCEPT !.device_request_mask = @ \ {line}], arm_requests \ {line})
  /\ UNCHANGED <<cpu, latch, timeout_SACK, arbitrator>>

(* Before the CPU fetches an opcode; its thread waits until the PRU has      *)
(* arbitrated.                                                               *)
ARM2PRU_ARB_GRANT_INTR_REQUESTS ==
  /\ emulate_cpu
  /\ CpuAccess \notin arm_requests
  /\ ~arbitrator.ifs_intr_arbitration_pending
  /\ Command(sm_arb, arm_requests)
  /\ arbitrator' = [arbitrator EXCEPT !.ifs_intr_arbitration_pending = TRUE]
  /\ UNCHANGED <<cpu, latch, timeout_SACK>>

(* start() and stop() of the emulated CPU. *)
ARM2PRU_CPU_ENABLE ==
  /\ cpu # "physical"
  /\ CpuAccess \notin arm_requests
  /\ ~arbitrator.ifs_intr_arbitration_pending
  /\ cpu' = IF emulate_cpu THEN "off" ELSE "emulated"
  /\ Command(sm_arb_reset, arm_requests)
  /\ latch' = [latch EXCEPT !.requests = {}, !.SACK = FALSE]
  /\ timeout_SACK' = "off"
  /\ UNCHANGED arbitrator

(* An instruction or a trap changes the CPU's priority level. *)
unibone_prioritylevelchange(level) ==
  /\ emulate_cpu
  /\ CpuAccess \notin arm_requests
  /\ ~arbitrator.ifs_intr_arbitration_pending
  /\ arbitrator' = [arbitrator EXCEPT !.ifs_priority_level = level]
  /\ UNCHANGED <<cpu, pc, sm_arb, latch, cpu_grant_mask, data_master, timeout_SACK, INIT,
                 intr_slave, data_slave, deviceregister, physical, board, arm_requests>>

(* ARM has the vector. *)
intr_slave_ack ==
  /\ intr_slave = "event"
  /\ intr_slave' = "acked"
  /\ UNCHANGED <<cpu, pc, sm_arb, latch, cpu_grant_mask, data_master, timeout_SACK,
                 arbitrator, INIT, data_slave, deviceregister, physical, board,
                 arm_requests>>

(* ARM has handled the register access. *)
deviceregister_ack ==
  /\ deviceregister
  /\ deviceregister' = FALSE
  /\ UNCHANGED <<cpu, pc, sm_arb, latch, cpu_grant_mask, data_master, timeout_SACK,
                 arbitrator, INIT, intr_slave, data_slave, physical, board, arm_requests>>

(* The 10 ms for SACK have passed. *)
timeout_reached ==
  /\ timeout_SACK = "running"
  /\ timeout_SACK' = "expired"
  /\ UNCHANGED <<cpu, pc, sm_arb, latch, cpu_grant_mask, data_master, arbitrator, INIT,
                 intr_slave, data_slave, deviceregister, physical, board, arm_requests>>

bus_INIT ==
  /\ INIT' = ~INIT
  /\ UNCHANGED <<cpu, pc, sm_arb, latch, cpu_grant_mask, data_master, timeout_SACK,
                 arbitrator, intr_slave, data_slave, deviceregister, physical, board, arm_requests>>

-----------------------------------------------------------------------------
(* The other boards, and the physical CPU as arbitrator: the UNIBUS rules.   *)
BoardStep(new) ==
  /\ board' = new
  /\ UNCHANGED <<cpu, pc, sm_arb, latch, cpu_grant_mask, data_master, timeout_SACK,
                 arbitrator, INIT, intr_slave, data_slave, deviceregister, physical,
                 arm_requests>>

board_request(line) ==
  /\ line \notin board.requests \cup board.granted
  /\ BoardStep([board EXCEPT !.requests = @ \cup {line}])

board_accept(line) ==
  /\ line \in latch.grants \cap board.requests
  /\ board.granted = {}
  /\ BoardStep([board EXCEPT !.requests = @ \ {line}, !.granted = {line}, !.SACK = TRUE])

board_seize ==
  /\ board.granted # {} /\ ~board.BBSY
  /\ board.granted \cap latch.grants = {} /\ ~BBSY /\ ~SSYN
  /\ BoardStep([board EXCEPT !.BBSY = TRUE])

board_transfer ==
  /\ board.BBSY /\ board.SACK
  /\ BoardStep([board EXCEPT !.SACK = FALSE])

board_done ==
  /\ board.BBSY /\ ~board.SACK
  /\ board.granted \subseteq IntrLevels => SSYN \/ cpu = "physical"
  /\ BoardStep([board EXCEPT !.BBSY = FALSE, !.granted = {}])

PhysicalStep(new) ==
  /\ cpu = "physical"
  /\ physical' = new
  /\ UNCHANGED <<cpu, pc, sm_arb, latch, cpu_grant_mask, data_master, timeout_SACK,
                 arbitrator, INIT, intr_slave, data_slave, deviceregister, board, arm_requests>>

physical_grant(line) ==
  /\ physical.grants = {} /\ ~SACK
  /\ line \in BusRequests
  /\ NP \in BusRequests => line = NP
  /\ PhysicalStep([physical EXCEPT !.grants = {line}])

(* On SACK, or after a timeout much longer than a turn of the PRU's loop.    *)
physical_ungrant ==
  /\ physical.grants # {}
  /\ SACK \/ (physical.grants \subseteq cpu_grant_mask \ BusRequests /\ pc = "slave")
  /\ PhysicalStep([physical EXCEPT !.grants = {}])

physical_cycle ==
  /\ physical.BBSY \/ (~BBSY /\ ~SACK /\ ~SSYN /\ physical.grants = {})
  /\ PhysicalStep([physical EXCEPT !.BBSY = ~@])

-----------------------------------------------------------------------------
main_loop ==
  \/ main_slave \/ sm_arb_worker_cpu \/ sm_arb_worker_device \/ main_master
  \/ sm_intr_slave
  \/ no_command
  \/ \E line \in DeviceLevels : ARM2PRU_REQUEST(line) \/ ARM2PRU_INTR_CANCEL(line)
  \/ ARM2PRU_CPU_ACCESS \/ ARM2PRU_ARB_GRANT_INTR_REQUESTS \/ ARM2PRU_CPU_ENABLE

ArbNext ==
  \/ main_loop
  \/ \E level \in RunLevels : unibone_prioritylevelchange(level)
  \/ intr_slave_ack \/ deviceregister_ack \/ timeout_reached \/ bus_INIT
  \/ \E line \in BoardLevels : board_request(line) \/ board_accept(line)
  \/ board_seize \/ board_transfer \/ board_done
  \/ \E line \in Lines : physical_grant(line)
  \/ physical_ungrant \/ physical_cycle

ArbSpec == ArbInit /\ [][ArbNext]_vars

(* The PRU's loop runs, ARM answers, boards and CPU end what they began;     *)
(* the physical CPU's SACK timeout runs while the PRU loops, hence SF.       *)
Fairness ==
  /\ WF_vars(main_loop)
  /\ WF_vars(intr_slave_ack)
  /\ WF_vars(deviceregister_ack)
  /\ WF_vars(timeout_reached)
  /\ \A line \in BoardLevels : WF_vars(board_accept(line))
  /\ WF_vars(board_seize) /\ WF_vars(board_transfer) /\ WF_vars(board_done)
  /\ WF_vars(physical_grant(NP)) /\ SF_vars(physical_ungrant)
  /\ WF_vars(physical.BBSY /\ physical_cycle)

FairSpec == ArbSpec /\ Fairness

-----------------------------------------------------------------------------
(* Never two bus masters: of the PRU (for a device or the emulated CPU), the *)
(* other boards and the physical CPU at most one asserts BBSY.  "Only the    *)
(* device with helds SACk asserted can assert BBSY".                         *)
SingleMaster ==
  /\ ~(latch.BBSY /\ (board.BBSY \/ physical.BBSY))
  /\ ~(board.BBSY /\ physical.BBSY)

(* One grant is taken by one device: the PRU and another board never answer  *)
(* with SACK both.  "if PRU detects BGIN which was requests, it blocks the   *)
(* GRANT".                                                                   *)
OneGrantee == ~(latch.SACK /\ board.SACK)

AtMostOne(S) == \A a, b \in S : a = b

waiting == sm_arb.grant_bbsy_ssyn_wait_grant_mask

(* Which arbitrator there is, and which stages the main loop has with it.    *)
ModesOK ==
  /\ cpu = "physical" => ~sm_arb.cpu_request /\ pc \notin {"arb_cpu", "intr_slave"}
  /\ cpu # "physical" => physical.grants = {} /\ ~physical.BBSY
  /\ pc = "arb_cpu" => emulate_cpu
  /\ pc \in {"arb_cpu", "arb_device"} => data_master.state = "none"

(* One grant at a time on each piece of the chain: an arbitrator never       *)
(* grants two lines.                                                         *)
OneGrant ==
  /\ AtMostOne(physical.grants) /\ AtMostOne(cpu_grant_mask)
  /\ AtMostOne(sm_arb.arbitrator_grant_mask) /\ AtMostOne(waiting)
  /\ AtMostOne(board.granted)
  /\ latch.grants \subseteq cpu_grant_mask

(* SACK is asserted from the grant until the last word or the vector, BBSY   *)
(* while the data transfer runs; the same holds for the other board.         *)
LinesOK ==
  /\ latch.BBSY <=> data_master.state \in {"1", "2"}
  /\ waiting # {} => latch.SACK /\ data_master.state = "none"
  /\ latch.SACK => waiting # {} \/ data_master.state \in {"start", "1"}
  /\ board.granted # {} <=> board.SACK \/ board.BBSY

(* Who has taken the grant that is in the chain: a grant of a device's line   *)
(* ends at the PRU, one of a board's line at the board.                      *)
BoardTook(line) == board.granted = {line} /\ board.SACK /\ ~board.BBSY

TakenByPru == latch.SACK => (latch.grants \cup physical.grants) \cap BoardLevels = {}

OfferedToBoard ==
  \A line \in physical.grants \cap BoardLevels :
    \/ line \in board.requests /\ ~board.SACK
    \/ BoardTook(line) /\ line \in latch.grants

KeptForBoard ==
  cpu = "physical" => \A line \in (latch.grants \ physical.grants) \cap BoardLevels : BoardTook(line)

OfferedToPru == physical.grants \cap DeviceLevels # {} => ~board.SACK

(* The grant that the PRU is about to take is still there for it.            *)
AboutToTake ==
  pc = "arb_device" /\ waiting = {} =>
    /\ emulate_cpu /\ cpu_grant_mask \cap DeviceLevels # {} => ~board.SACK
    /\ ~emulate_cpu => cpu_grant_mask \cap DeviceLevels \subseteq physical.grants

GrantsOK == TakenByPru /\ OfferedToBoard /\ KeptForBoard /\ OfferedToPru /\ AboutToTake

(* The PRU that is about to assert BBSY is alone: a board that took a grant   *)
(* meanwhile still waits for the grant's end.                                *)
StartOK ==
  data_master.state = "start" =>
    /\ ~board.BBSY /\ ~physical.BBSY
    /\ board.granted \subseteq latch.grants
    /\ cpu = "physical" => latch.SACK

ArbIndInv == ModesOK /\ OneGrant /\ LinesOK /\ GrantsOK /\ StartOK

(* The bus has one master, and a grant one taker; ArbIndInv says why.        *)
ArbSafe == ArbTypeOK /\ SingleMaster /\ OneGrantee /\ ArbIndInv

(* The PRU works on, or will arbitrate for, what ARM handed to it ...        *)
OnPru(line) ==
  \/ line \in sm_arb.device_request_mask \cup sm_arb.grant_bbsy_ssyn_wait_grant_mask
  \/ data_master.state # "none" /\ data_master.user = line
  \/ line = CpuAccess /\ sm_arb.cpu_request

(* ... and only start() and stop() of the CPU make it forget that: no other  *)
(* grant, cancellation or timeout does, and INIT not once it is granted.     *)
(* (INIT drops the requests that are not yet granted, and arm_requests with  *)
(* them: ARM hears of INIT too, and gives them up by itself.)                *)
RequestKept ==
  [][\A line \in arm_requests \cap arm_requests' :
       OnPru(line) /\ cpu' = cpu => OnPru(line)']_vars

(* A grant of the emulated arbitrator that nobody answers: its request was   *)
(* cancelled when it was already on the line.                                *)
StaleGrant ==
  /\ sm_arb.arbitrator_grant_mask # {}
  /\ sm_arb.arbitrator_grant_mask \cap BusRequests = {}
  /\ ~SACK

(* "Cancel GRANT, if no device responds with SACK within timeout period":    *)
(* the DMA that waits behind it then gets its own grant.                     *)
StaleGrantCancelled == (StaleGrant /\ NP \in BusRequests) ~> ~StaleGrant

(* A vector is on the bus when the last one is not yet done with: the PRU    *)
(* waits for the end of INTR, the interrupting master for SSYN.  The CPU     *)
(* must have changed its priority level before it got the last vector.       *)
VectorOverrun == intr_slave # "none" /\ INTR /\ ~SSYN

(* A DMA of a device gets the bus, whatever the other boards and the CPU do, *)
(* as long as there is an arbitrator; unless a start or stop of the CPU made *)
(* the PRU forget it, the emulated arbitrator keeps a stale grant, or a      *)
(* vector overran another.                                                   *)
NprServed ==
  NP \in arm_requests ~>
     (NP \notin arm_requests \/ cpu = "off" \/ ~OnPru(NP) \/ StaleGrant \/ VectorOverrun)
=============================================================================
