-------------------------- MODULE InterruptFielding -------------------------
(***************************************************************************)
(* How an interrupt reaches the emulated CPU.  Three actors:                *)
(*  - the CPU thread grants interrupts before each instruction, tests       *)
(*    external_intr, and then traps or executes one instruction;            *)
(*  - the PRU grants a request above the CPU's priority level, lets the     *)
(*    device put its vector onto the bus (sm_intr_master) and receives it   *)
(*    for the CPU (sm_intr_slave);                                          *)
(*  - worker() hands the vector to the CPU and acknowledges the event.      *)
(* The arbitration among several masters is UnibusArbitration's; here a     *)
(* grant is one step.  A vector is named by the level of its device.        *)
(***************************************************************************)
EXTENDS Integers, FiniteSetsExt

CONSTANTS
  IntrLevels,     \* levels BRn with a device
  RunLevels,      \* priority levels that instructions load into the PSW
  vector_level,   \* priority level in the PSW of each device's vector
  NULL,
  RealtimeWorker, \* worker() is not interrupted by the CPU's thread
  DirectMemory,   \* "pmi": only accesses to the I/O page are UNIBUS cycles
  CPU_PRIORITY_LEVEL_FETCHING

ASSUME FieldingAssumption ==
  /\ IntrLevels \cup RunLevels \cup {CPU_PRIORITY_LEVEL_FETCHING} \subseteq Nat
  /\ \A l \in IntrLevels : l < CPU_PRIORITY_LEVEL_FETCHING
  /\ vector_level \in [IntrLevels -> RunLevels]
  /\ NULL \notin IntrLevels
  /\ {RealtimeWorker, DirectMemory} \subseteq BOOLEAN

VARIABLES
  requests,       \* BR lines
  arbitrator,     \* mailbox->arbitrator
  intr_master,    \* the INTR transaction of a granted device
  intr_slave,     \* sm_intr_slave, and the event it signals to ARM
  SSYN,
  worker,         \* worker() has delivered the vector, EVENT_ACK comes next
  external_intr,  \* external_intrvec, NULL if external_intr is false
  cpu,            \* the CPU thread: place in condstep(), state, priority of the PSW
  owed,           \* history: vectors received by the PRU, not taken by the CPU
  early           \* history: the PSW changed, or RESET, with a vector on its way

vars == <<requests, arbitrator, intr_master, intr_slave, SSYN, worker, external_intr, cpu,
          owed, early>>

Vector == IntrLevels \cup {NULL}

CpuThread ==
  [pc : {"condstep", "granting", "step", "execute", "trap", "halted"},
   state : {"RUNNING", "WAITING", "HALTED"}, priority : RunLevels, vector : Vector]

FieldingTypeOK ==
  /\ requests \subseteq IntrLevels
  /\ arbitrator \in [ifs_priority_level : RunLevels \cup {CPU_PRIORITY_LEVEL_FETCHING},
                     ifs_intr_arbitration_pending : BOOLEAN]
  /\ intr_master \in [state : {"none", "granted", "INTR"}, vector : Vector]
  /\ intr_slave \in [state : {"none", "event", "acked"}, vector : Vector]
  /\ SSYN \in BOOLEAN /\ early \in BOOLEAN
  /\ worker \in {"idle", "delivered"}
  /\ external_intr \in Vector
  /\ cpu \in CpuThread
  /\ owed \subseteq IntrLevels

FieldingInit ==
  /\ requests = {}
  /\ \E level \in RunLevels :
       /\ arbitrator = [ifs_priority_level |-> level, ifs_intr_arbitration_pending |-> FALSE]
       /\ cpu = [pc |-> "condstep", state |-> "RUNNING", priority |-> level, vector |-> NULL]
  /\ intr_master = [state |-> "none", vector |-> NULL]
  /\ intr_slave = [state |-> "none", vector |-> NULL]
  /\ SSYN = FALSE
  /\ worker = "idle"
  /\ external_intr = NULL
  /\ owed = {}
  /\ early = FALSE

-----------------------------------------------------------------------------
(* The PRU. *)

(* ARM2PRU_INTR; the adapter keeps a second interrupt of a device back until *)
(* the first is complete.                                                    *)
ARM2PRU_INTR(level) ==
  /\ level \notin requests \cup {intr_master.vector}
  /\ requests' = requests \cup {level}
  /\ UNCHANGED <<arbitrator, intr_master, intr_slave, SSYN, worker, external_intr, cpu, owed,
                 early>>

(* Faulty: a request of the CPU's own priority level is granted. *)
GrantableEqual == {l \in requests : l >= arbitrator.ifs_priority_level}

Grantable == {l \in requests : l > arbitrator.ifs_priority_level}

(* sm_intr_slave_state_1(): ARM has the vector and INTR is negated. *)
intr_slave_done == intr_slave.state = "acked" /\ intr_master.state # "INTR"

(* A turn of the main loop with sm_arb_worker_cpu() and SACK by the device:  *)
(* one grant at a time, for the highest request, if it is above the CPU's    *)
(* level.  The turn ends with sm_intr_slave.                                 *)
sm_arb_worker_cpu ==
  /\ arbitrator.ifs_intr_arbitration_pending
  /\ arbitrator' = [arbitrator EXCEPT !.ifs_intr_arbitration_pending = FALSE]
  /\ IF intr_master.state = "none" /\ requests # {} /\ Max(requests) \in Grantable
       THEN /\ intr_master' = [state |-> "granted", vector |-> Max(requests)]
            /\ requests' = requests \ {Max(requests)}
       ELSE UNCHANGED <<intr_master, requests>>
  /\ IF intr_slave_done
       THEN intr_slave' = [state |-> "none", vector |-> NULL] /\ SSYN' = FALSE
       ELSE UNCHANGED <<intr_slave, SSYN>>
  /\ UNCHANGED <<worker, external_intr, cpu, owed, early>>

(* The device gets the bus when SSYN is negated, and asserts INTR. *)
sm_intr_master_state_1 ==
  /\ intr_master.state = "granted"
  /\ ~SSYN
  /\ intr_master' = [intr_master EXCEPT !.state = "INTR"]
  /\ UNCHANGED <<requests, arbitrator, intr_slave, SSYN, worker, external_intr, cpu, owed,
                 early>>

sm_intr_master_state_2 ==
  /\ intr_master.state = "INTR"
  /\ SSYN
  /\ intr_master' = [state |-> "none", vector |-> NULL]
  /\ UNCHANGED <<requests, arbitrator, intr_slave, SSYN, worker, external_intr, cpu, owed,
                 early>>

(* Faulty: the priority level stays valid. *)
sm_intr_slave_level_kept ==
  /\ intr_slave.state = "none"
  /\ intr_master.state = "INTR"
  /\ intr_slave' = [state |-> "event", vector |-> intr_master.vector]
  /\ SSYN' = TRUE
  /\ owed' = owed \cup {intr_master.vector}
  /\ UNCHANGED <<requests, arbitrator, intr_master, worker, external_intr, cpu, early>>

(* INTR seen: take the vector, answer, and "block more BG GRANTS until PSW   *)
(* fetched".                                                                 *)
sm_intr_slave_start ==
  /\ intr_slave.state = "none"
  /\ intr_master.state = "INTR"
  /\ intr_slave' = [state |-> "event", vector |-> intr_master.vector]
  /\ SSYN' = TRUE
  /\ arbitrator' = [arbitrator EXCEPT !.ifs_priority_level = CPU_PRIORITY_LEVEL_FETCHING]
  /\ owed' = owed \cup {intr_master.vector}
  /\ UNCHANGED <<requests, intr_master, worker, external_intr, cpu, early>>

sm_intr_slave_state_1 ==
  /\ intr_slave_done
  /\ intr_slave' = [state |-> "none", vector |-> NULL]
  /\ SSYN' = FALSE
  /\ UNCHANGED <<requests, arbitrator, intr_master, worker, external_intr, cpu, owed, early>>

-----------------------------------------------------------------------------
(* worker(): on_interrupt() calls setintr(); then EVENT_ACK.  Another event   *)
(* is seen only when the PRU has signalled it.                               *)
ka11_setintr ==
  /\ worker = "idle"
  /\ intr_slave.state = "event"
  /\ external_intr' = intr_slave.vector
  /\ worker' = "delivered"
  /\ UNCHANGED <<requests, arbitrator, intr_master, intr_slave, SSYN, cpu, owed, early>>

intr_slave_EVENT_ACK ==
  /\ worker = "delivered"
  /\ worker' = "idle"
  /\ intr_slave' = [intr_slave EXCEPT !.state = "acked"]
  /\ UNCHANGED <<requests, arbitrator, intr_master, SSYN, external_intr, cpu, owed, early>>

-----------------------------------------------------------------------------
(* The CPU thread. *)

(* condstep(): unibone_grant_interrupts(), and its wait for the PRU. *)
grant_interrupts ==
  /\ cpu.pc = "condstep"
  /\ cpu' = [cpu EXCEPT !.pc = "granting"]
  /\ arbitrator' = [arbitrator EXCEPT !.ifs_intr_arbitration_pending = TRUE]
  /\ UNCHANGED <<requests, intr_master, intr_slave, SSYN, worker, external_intr, owed, early>>

(* Faulty: an interrupt does not end WAIT. *)
granted_waiting ==
  /\ cpu.pc = "granting"
  /\ ~arbitrator.ifs_intr_arbitration_pending
  /\ cpu' = [cpu EXCEPT !.pc = IF cpu.state = "WAITING" THEN "condstep" ELSE "step"]
  /\ UNCHANGED <<requests, arbitrator, intr_master, intr_slave, SSYN, worker, external_intr,
                 owed, early>>

granted ==
  /\ cpu.pc = "granting"
  /\ ~arbitrator.ifs_intr_arbitration_pending
  /\ cpu' = [cpu EXCEPT !.pc = IF cpu.state = "WAITING" /\ external_intr = NULL
                                 THEN "condstep" ELSE "step"]
  /\ UNCHANGED <<requests, arbitrator, intr_master, intr_slave, SSYN, worker, external_intr,
                 owed, early>>

(* step(): an external interrupt is consumed, or an instruction executed. *)
step ==
  /\ cpu.pc = "step"
  /\ cpu' = [cpu EXCEPT !.pc = IF external_intr = NULL THEN "execute" ELSE "trap",
                        !.state = "RUNNING", !.vector = external_intr]
  /\ external_intr' = NULL
  /\ UNCHANGED <<requests, arbitrator, intr_master, intr_slave, SSYN, worker, owed, early>>

(* A bus cycle of the CPU waits until the device has released the bus; its    *)
(* address and control lines are set with SSYN negated.                      *)
BusCycle ==
  \/ DirectMemory /\ UNCHANGED SSYN
  \/ intr_master.state = "none" /\ SSYN' = FALSE

(* Faulty: the arbitrator does not hear of the new PSW. *)
trap_level_kept ==
  /\ cpu.pc = "trap"
  /\ BusCycle
  /\ cpu' = [cpu EXCEPT !.pc = "condstep", !.priority = vector_level[cpu.vector],
                        !.vector = NULL]
  /\ owed' = owed \ {cpu.vector}
  /\ UNCHANGED <<requests, arbitrator, intr_master, intr_slave, worker, external_intr, early>>

(* trap: the new PSW is fetched from the vector, levelchange(). *)
ka11_trap ==
  /\ cpu.pc = "trap"
  /\ BusCycle
  /\ cpu' = [cpu EXCEPT !.pc = "condstep", !.priority = vector_level[cpu.vector],
                        !.vector = NULL]
  /\ arbitrator' = [arbitrator EXCEPT !.ifs_priority_level = vector_level[cpu.vector]]
  /\ owed' = owed \ {cpu.vector}
  /\ UNCHANGED <<requests, intr_master, intr_slave, worker, external_intr, early>>

(* A push of the trap fails: the bus error's own trap takes its place, or a   *)
(* double bus error halts the CPU (the model ends there).                     *)
ka11_trap_be ==
  /\ cpu.pc = "trap"
  /\ BusCycle
  /\ \/ \E level \in RunLevels :
          /\ cpu' = [cpu EXCEPT !.pc = "condstep", !.priority = level, !.vector = NULL]
          /\ arbitrator' = [arbitrator EXCEPT !.ifs_priority_level = level]
     \/ /\ cpu' = [cpu EXCEPT !.pc = "halted", !.state = "HALTED", !.vector = NULL]
        /\ UNCHANGED arbitrator
  /\ owed' = owed \ {cpu.vector}
  /\ UNCHANGED <<requests, intr_master, intr_slave, worker, external_intr, early>>

(* A vector that left its device and has not reached the CPU. *)
OnItsWay ==
  \/ intr_master.state # "none"
  \/ intr_slave.state = "event"
  \/ external_intr # NULL

Executed(state, priority) ==
  /\ cpu.pc = "execute"
  /\ BusCycle
  /\ cpu' = [cpu EXCEPT !.pc = "condstep", !.state = state, !.priority = priority]
  /\ UNCHANGED <<intr_master, intr_slave, worker>>

execute ==
  /\ Executed("RUNNING", cpu.priority)
  /\ UNCHANGED <<requests, arbitrator, external_intr, owed, early>>

(* MTPS, RTI, RTT, a trap instruction or a write to the PSW. *)
execute_levelchange(level) ==
  /\ Executed("RUNNING", level)
  /\ arbitrator' = [arbitrator EXCEPT !.ifs_priority_level = level]
  /\ early' = (early \/ OnItsWay)
  /\ UNCHANGED <<requests, external_intr, owed>>

execute_WAIT ==
  /\ Executed("WAITING", cpu.priority)
  /\ UNCHANGED <<requests, arbitrator, external_intr, owed, early>>

(* RESET: ka11_reset() drops a vector not yet taken, INIT the requests; the   *)
(* arbitrator's level is left as it is.                                       *)
execute_RESET ==
  /\ Executed("RUNNING", cpu.priority)
  /\ external_intr' = NULL
  /\ owed' = owed \ {external_intr}
  /\ requests' = {}
  /\ early' = (early \/ OnItsWay)
  /\ UNCHANGED arbitrator

-----------------------------------------------------------------------------
pru ==
  \/ sm_arb_worker_cpu
  \/ sm_intr_master_state_1 \/ sm_intr_master_state_2
  \/ sm_intr_slave_start \/ sm_intr_slave_state_1

arm_worker == ka11_setintr \/ intr_slave_EVENT_ACK

cpu_thread ==
  /\ RealtimeWorker => worker = "idle"
  /\ \/ grant_interrupts \/ granted \/ step \/ ka11_trap \/ ka11_trap_be
     \/ execute \/ execute_WAIT \/ execute_RESET
     \/ \E level \in RunLevels : execute_levelchange(level)

FieldingNext ==
  \/ \E level \in IntrLevels : ARM2PRU_INTR(level)
  \/ pru \/ arm_worker \/ cpu_thread

FieldingSpec == FieldingInit /\ [][FieldingNext]_vars

(* Each state machine of the PRU runs once per turn of its loop; worker() is  *)
(* woken by the PRU's interrupt; the CPU thread never blocks but on the bus.  *)
FieldingFairness ==
  /\ WF_vars(sm_arb_worker_cpu)
  /\ WF_vars(sm_intr_master_state_1) /\ WF_vars(sm_intr_master_state_2)
  /\ WF_vars(sm_intr_slave_start) /\ WF_vars(sm_intr_slave_state_1)
  /\ WF_vars(arm_worker)
  /\ WF_vars(cpu_thread)

FairFieldingSpec == FieldingSpec /\ FieldingFairness

-----------------------------------------------------------------------------
(* Where a vector can be between the PRU's and the CPU's hands. *)
InTransit ==
  {intr_slave.vector : i \in {s \in {intr_slave.state} : s = "event"}}
     \cup ({external_intr, cpu.vector} \ {NULL})

(* No interrupt is lost: a vector the PRU has received is with worker(), in   *)
(* external_intr, or being taken; setintr() never overwrites another one.     *)
VectorKept == owed \subseteq InTransit

(* The CPU takes an interrupt only while its priority is below the device's   *)
(* level, as the processor handbook and the arbitration demand.               *)
PriorityRespected ==
  [][cpu.pc = "trap" /\ cpu'.pc # "trap" => cpu.vector > cpu.priority]_vars

(* The INTR cycle of a second vector never starts before the first is taken   *)
(* from the bus: sm_intr_slave would wait for the end of INTR, the device for *)
(* SSYN.                                                                      *)
NoOverrun == ~(intr_master.state = "INTR" /\ intr_slave.state # "none" /\ ~SSYN)

(* The three hold as long as no instruction writes the PSW, or resets the     *)
(* bus, while a vector is on its way: CPU_PRIORITY_LEVEL_FETCHING then lasts  *)
(* until the trap, and keeps the PRU from granting a second interrupt.        *)
VectorSafeInTime == ~early => (VectorKept /\ NoOverrun)
PriorityRespectedInTime ==
  [][cpu.pc = "trap" /\ cpu'.pc # "trap" /\ ~early => cpu.vector > cpu.priority]_vars

(* What makes them inductive.  Only the carrier of a vector decides: *)
Quiet == intr_slave.state # "event" /\ external_intr = NULL /\ cpu.vector = NULL

(* a vector received by the PRU blocks grants and outranks the CPU; *)
Blocking(vector) ==
  /\ owed = {vector}
  /\ vector > cpu.priority
  /\ arbitrator.ifs_priority_level = CPU_PRIORITY_LEVEL_FETCHING

(* and its carriers are well formed, whatever the instructions do. *)
CarriersOK ==
  /\ intr_master.state = "none" <=> intr_master.vector = NULL
  /\ intr_slave.state = "event" => intr_slave.vector # NULL
  /\ worker = "delivered" => intr_slave.state = "event"
  /\ cpu.pc = "trap" <=> cpu.vector # NULL

(* At most one vector is between the devices and the CPU, and as long as it   *)
(* is, the PRU grants no other: each stage excludes the ones after it.        *)
OneVector ==
  /\ intr_master.state = "granted" \/ (intr_master.state = "INTR" /\ intr_slave.state = "none")
       => Quiet /\ intr_slave.state = "none" /\ intr_master.vector > cpu.priority
  /\ intr_master.state = "INTR" /\ intr_slave.state # "none" => SSYN
  /\ intr_slave.state = "event" =>
       /\ Blocking(intr_slave.vector)
       /\ cpu.vector = NULL
       /\ external_intr = IF worker = "delivered" THEN intr_slave.vector ELSE NULL
  /\ intr_slave.state # "event" /\ external_intr # NULL =>
       Blocking(external_intr) /\ cpu.vector = NULL
  /\ cpu.vector # NULL => Blocking(cpu.vector)
  /\ Quiet => /\ owed = {}
              /\ \/ arbitrator.ifs_priority_level = cpu.priority
                 \/ /\ cpu.pc = "halted"
                    /\ arbitrator.ifs_priority_level = CPU_PRIORITY_LEVEL_FETCHING

FieldingIndInv == CarriersOK /\ (RealtimeWorker /\ ~early => OneVector)

(* Every vector received is taken, by a running or a waiting CPU, ... *)
VectorTaken ==
  \A level \in IntrLevels : level \in owed ~> level \notin owed \/ early

(* ... and grants resume after every interrupt: the PSW of the vector is      *)
(* fetched, unless the CPU halts for want of a stack.                         *)
GrantsResume ==
  arbitrator.ifs_priority_level = CPU_PRIORITY_LEVEL_FETCHING ~>
    \/ arbitrator.ifs_priority_level # CPU_PRIORITY_LEVEL_FETCHING
    \/ early \/ cpu.state = "HALTED"
=============================================================================
