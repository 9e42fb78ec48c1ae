-------------------------- MODULE Processor_proofs --------------------------
(***************************************************************************)
(* Proofs about the emulated CPUs: how an interrupt reaches the CPU, for     *)
(* every set of interrupt levels, every set of CPU priorities and every      *)
(* content of the vectors; what the control of the cores' step() keeps of    *)
(* the modes, for every memory, stack and number of events; and that the     *)
(* KT11-D translates as its registers say, for every size of its pages and    *)
(* of memory and whatever is written into them.                              *)
(***************************************************************************)
EXTENDS InterruptFielding, ProcessorProtection, TLAPS

-----------------------------------------------------------------------------
(* How an interrupt reaches the CPU.  The invariant says that at most one    *)
(* vector is under way, and that it blocks grants.                           *)
(* The initial states satisfy the type and the inductive invariant. *)
LEMMA InitIInv == FieldingInit => FieldingTypeOK /\ FieldingIndInv
<1> SUFFICES ASSUME FieldingInit PROVE FieldingTypeOK /\ FieldingIndInv
    OBVIOUS
<1> USE FieldingAssumption DEF FieldingInit
<1>1. FieldingTypeOK
  <2> PICK level \in RunLevels :
        /\ arbitrator = [ifs_priority_level |-> level, ifs_intr_arbitration_pending |-> FALSE]
        /\ cpu = [pc |-> "condstep", state |-> "RUNNING", priority |-> level, vector |-> NULL]
    OBVIOUS
  <2> QED
    BY DEF FieldingTypeOK, CpuThread, Vector
<1>2. CarriersOK
    BY DEF CarriersOK
<1>3. OneVector
    BY DEF OneVector, Quiet
<1>4. QED
    BY <1>1, <1>2, <1>3 DEF FieldingIndInv

(* An instruction leaves the CPU and the bus in states of their types. *)
LEMMA ExecutedType ==
  ASSUME FieldingTypeOK, NEW state \in {"RUNNING", "WAITING"}, NEW level \in RunLevels,
         Executed(state, level)
  PROVE  /\ SSYN' \in BOOLEAN
         /\ cpu' \in CpuThread
         /\ UNCHANGED <<intr_master, intr_slave, worker>>
BY DEF Executed, BusCycle, FieldingTypeOK, CpuThread

(* The state keeps its type; a trap finds the PSW of its vector because the   *)
(* CPU reaches "trap" only with a vector.                                     *)
LEMMA NextTypeOK ==
  FieldingTypeOK /\ FieldingIndInv /\ [FieldingNext]_vars => FieldingTypeOK'
<1> SUFFICES ASSUME FieldingTypeOK, FieldingIndInv, [FieldingNext]_vars
             PROVE  FieldingTypeOK'
    OBVIOUS
<1> USE FieldingAssumption DEF FieldingTypeOK, CpuThread, Vector
<1>1. ASSUME NEW level \in IntrLevels, ARM2PRU_INTR(level) PROVE FieldingTypeOK'
    BY <1>1 DEF ARM2PRU_INTR
<1>2. CASE sm_arb_worker_cpu
  <2>1. Max(requests) \in Grantable => Max(requests) \in IntrLevels
    BY DEF Grantable
  <2>2. intr_master' \in [state : {"none", "granted", "INTR"}, vector : IntrLevels \cup {NULL}]
    BY <1>2, <2>1 DEF sm_arb_worker_cpu
  <2>3. requests' \subseteq IntrLevels
    BY <1>2 DEF sm_arb_worker_cpu
  <2>4. intr_slave' \in [state : {"none", "event", "acked"}, vector : IntrLevels \cup {NULL}]
    BY <1>2 DEF sm_arb_worker_cpu
  <2>5. SSYN' \in BOOLEAN
    BY <1>2 DEF sm_arb_worker_cpu
  <2>6. QED
    BY <1>2, <2>2, <2>3, <2>4, <2>5 DEF sm_arb_worker_cpu
<1>3. CASE sm_intr_master_state_1
    BY <1>3 DEF sm_intr_master_state_1
<1>4. CASE sm_intr_master_state_2
    BY <1>4 DEF sm_intr_master_state_2
<1>5. CASE sm_intr_slave_start
    BY <1>5 DEF sm_intr_slave_start, FieldingIndInv, CarriersOK
<1>6. CASE sm_intr_slave_state_1
  <2>1. intr_slave' \in [state : {"none", "event", "acked"}, vector : IntrLevels \cup {NULL}]
    BY <1>6 DEF sm_intr_slave_state_1
  <2>2. SSYN' \in BOOLEAN
    BY <1>6 DEF sm_intr_slave_state_1
  <2>3. QED
    BY <1>6, <2>1, <2>2 DEF sm_intr_slave_state_1
<1>7. CASE ka11_setintr
    BY <1>7 DEF ka11_setintr
<1>8. CASE intr_slave_EVENT_ACK
    BY <1>8 DEF intr_slave_EVENT_ACK
<1>9. CASE grant_interrupts
    BY <1>9 DEF grant_interrupts
<1>10. CASE granted
    BY <1>10 DEF granted
<1>11. CASE step
    BY <1>11 DEF step
<1>12. CASE ka11_trap
    BY <1>12 DEF ka11_trap, BusCycle, FieldingIndInv, CarriersOK
<1>12b. CASE ka11_trap_be
    BY <1>12b DEF ka11_trap_be, BusCycle, FieldingIndInv, CarriersOK
<1>13. CASE execute
    BY <1>13, ExecutedType DEF execute
<1>14. CASE execute_WAIT
    BY <1>14, ExecutedType DEF execute_WAIT
<1>15. CASE execute_RESET
  <2>1. early' \in BOOLEAN
    BY <1>15 DEF execute_RESET, OnItsWay
  <2>2. QED
    BY <1>15, <2>1, ExecutedType DEF execute_RESET
<1>16. ASSUME NEW level \in RunLevels, execute_levelchange(level) PROVE FieldingTypeOK'
  <2>1. arbitrator' \in [ifs_priority_level : RunLevels \cup {CPU_PRIORITY_LEVEL_FETCHING},
                        ifs_intr_arbitration_pending : BOOLEAN]
    BY <1>16 DEF execute_levelchange
  <2>2. early' \in BOOLEAN
    BY <1>16 DEF execute_levelchange, OnItsWay
  <2>3. QED
    BY <1>16, <2>1, <2>2, ExecutedType DEF execute_levelchange
<1>17. CASE UNCHANGED vars
    BY <1>17 DEF vars
<1>18. QED
    BY <1>1, <1>2, <1>3, <1>4, <1>5, <1>6, <1>7, <1>8, <1>9, <1>10, <1>11, <1>12, <1>13,
       <1>14, <1>15, <1>16, <1>17, <1>12b DEF FieldingNext, pru, arm_worker, cpu_thread

(* A vector in a carrier is a real one, whatever the instructions do. *)
LEMMA NextCarriersOK ==
  FieldingTypeOK /\ CarriersOK /\ [FieldingNext]_vars => CarriersOK'
<1> SUFFICES ASSUME FieldingTypeOK, CarriersOK, [FieldingNext]_vars
             PROVE  CarriersOK'
    OBVIOUS
<1> USE FieldingAssumption DEF FieldingTypeOK, CpuThread, Vector, CarriersOK
<1>1. ASSUME NEW level \in IntrLevels, ARM2PRU_INTR(level) PROVE CarriersOK'
    BY <1>1 DEF ARM2PRU_INTR
<1>2. CASE sm_arb_worker_cpu
    BY <1>2 DEF sm_arb_worker_cpu, Grantable, intr_slave_done
<1>3. CASE sm_intr_master_state_1
    BY <1>3 DEF sm_intr_master_state_1
<1>4. CASE sm_intr_master_state_2
    BY <1>4 DEF sm_intr_master_state_2
<1>5. CASE sm_intr_slave_start
    BY <1>5 DEF sm_intr_slave_start
<1>6. CASE sm_intr_slave_state_1
    BY <1>6 DEF sm_intr_slave_state_1, intr_slave_done
<1>7. CASE ka11_setintr
    BY <1>7 DEF ka11_setintr
<1>8. CASE intr_slave_EVENT_ACK
    BY <1>8 DEF intr_slave_EVENT_ACK
<1>9. CASE grant_interrupts
    BY <1>9 DEF grant_interrupts
<1>10. CASE granted
    BY <1>10 DEF granted
<1>11. CASE step
    BY <1>11 DEF step
<1>12. CASE ka11_trap
    BY <1>12 DEF ka11_trap
<1>12b. CASE ka11_trap_be
    BY <1>12b DEF ka11_trap_be
<1>13. CASE execute
    BY <1>13 DEF execute, Executed
<1>14. CASE execute_WAIT
    BY <1>14 DEF execute_WAIT, Executed
<1>15. CASE execute_RESET
    BY <1>15 DEF execute_RESET, Executed
<1>16. ASSUME NEW level \in RunLevels, execute_levelchange(level) PROVE CarriersOK'
    BY <1>16 DEF execute_levelchange, Executed
<1>17. CASE UNCHANGED vars
    BY <1>17 DEF vars
<1>18. QED
    BY <1>1, <1>2, <1>3, <1>4, <1>5, <1>6, <1>7, <1>8, <1>9, <1>10, <1>11, <1>12, <1>13,
       <1>14, <1>15, <1>16, <1>17, <1>12b DEF FieldingNext, pru, arm_worker, cpu_thread

(* As long as no instruction interferes, one vector is under way at a time.   *)
(* A grant needs a quiet CPU, for a vector under way has the level FETCHING;  *)
(* and only a trap, or an instruction that interferes, ends that level.       *)
LEMMA NextOneVector ==
  /\ RealtimeWorker /\ ~early /\ ~early'
  /\ FieldingTypeOK /\ CarriersOK /\ OneVector /\ [FieldingNext]_vars
  => OneVector'
<1> SUFFICES ASSUME RealtimeWorker, ~early, ~early', FieldingTypeOK, CarriersOK, OneVector,
                    [FieldingNext]_vars
             PROVE  OneVector'
    OBVIOUS
<1> USE FieldingAssumption DEF FieldingTypeOK, CpuThread, Vector, CarriersOK, OneVector, Quiet,
    Blocking
<1>1. ASSUME NEW level \in IntrLevels, ARM2PRU_INTR(level) PROVE OneVector'
    BY <1>1 DEF ARM2PRU_INTR
<1>2. CASE sm_arb_worker_cpu
  <2>1. CASE intr_master.state = "none" /\ requests # {} /\ Max(requests) \in Grantable
    <3>1. /\ Max(requests) \in IntrLevels
          /\ Max(requests) > arbitrator.ifs_priority_level
          /\ Max(requests) < CPU_PRIORITY_LEVEL_FETCHING
      BY <2>1 DEF Grantable
    <3>2. Quiet
      BY <3>1
    <3>3. arbitrator.ifs_priority_level = cpu.priority /\ owed = {}
      BY <3>1, <3>2
    <3>4. intr_slave'.state = "none"
      BY <1>2, <2>1, <3>2 DEF sm_arb_worker_cpu, intr_slave_done
    <3>5. /\ intr_master'.vector = Max(requests)
          /\ intr_master'.state = "granted"
          /\ arbitrator'.ifs_priority_level = arbitrator.ifs_priority_level
          /\ UNCHANGED <<worker, external_intr, cpu, owed>>
      BY <1>2, <2>1 DEF sm_arb_worker_cpu
    <3>6. QED
      BY <3>1, <3>2, <3>3, <3>4, <3>5
  <2>2. CASE ~(intr_master.state = "none" /\ requests # {} /\ Max(requests) \in Grantable)
    <3>1. /\ arbitrator'.ifs_priority_level = arbitrator.ifs_priority_level
          /\ UNCHANGED <<intr_master, worker, external_intr, cpu, owed>>
      BY <1>2, <2>2 DEF sm_arb_worker_cpu
    <3>2. CASE intr_slave_done
      <4>1. intr_slave'.state = "none"
        BY <1>2, <3>2 DEF sm_arb_worker_cpu
      <4>2. QED
        BY <3>1, <3>2, <4>1 DEF intr_slave_done
    <3>3. CASE ~intr_slave_done
      <4>1. UNCHANGED <<intr_slave, SSYN>>
        BY <1>2, <3>3 DEF sm_arb_worker_cpu
      <4>2. QED
        BY <3>1, <4>1
    <3>4. QED
      BY <3>2, <3>3
  <2>3. QED
    BY <2>1, <2>2
<1>3. CASE sm_intr_master_state_1
    BY <1>3 DEF sm_intr_master_state_1
<1>4. CASE sm_intr_master_state_2
    BY <1>4 DEF sm_intr_master_state_2
<1>5. CASE sm_intr_slave_start
  <2>1. /\ Quiet /\ owed = {} /\ worker = "idle"
        /\ intr_master.vector \in IntrLevels /\ intr_master.vector > cpu.priority
    BY <1>5 DEF sm_intr_slave_start
  <2>2. /\ intr_slave'.state = "event" /\ intr_slave'.vector = intr_master.vector
        /\ arbitrator'.ifs_priority_level = CPU_PRIORITY_LEVEL_FETCHING
        /\ SSYN' /\ owed' = {intr_master.vector}
        /\ UNCHANGED <<intr_master, worker, external_intr, cpu>>
    BY <1>5, <2>1 DEF sm_intr_slave_start
  <2>3. QED
    BY <1>5, <2>1, <2>2 DEF sm_intr_slave_start
<1>6. CASE sm_intr_slave_state_1
    BY <1>6 DEF sm_intr_slave_state_1, intr_slave_done
<1>7. CASE ka11_setintr
    BY <1>7 DEF ka11_setintr
<1>8. CASE intr_slave_EVENT_ACK
    BY <1>8 DEF intr_slave_EVENT_ACK
<1>9. ASSUME cpu_thread PROVE OneVector'
  <2>1. worker = "idle" /\ worker' = "idle"
    BY <1>9 DEF cpu_thread, grant_interrupts, granted, step, ka11_trap, ka11_trap_be,
         execute, execute_WAIT,
         execute_RESET, execute_levelchange, Executed
  <2>2. CASE grant_interrupts
    BY <2>1, <2>2 DEF grant_interrupts
  <2>3. CASE granted
    BY <2>1, <2>3 DEF granted
  <2>4. CASE step
    BY <2>1, <2>4 DEF step
  <2>5. CASE ka11_trap
    BY <2>1, <2>5 DEF ka11_trap, BusCycle
  <2>5b. CASE ka11_trap_be
    <3>1. /\ cpu.vector # NULL /\ owed = {cpu.vector} /\ external_intr = NULL
          /\ intr_slave.state # "event"
          /\ arbitrator.ifs_priority_level = CPU_PRIORITY_LEVEL_FETCHING
      BY <2>5b DEF ka11_trap_be
    <3>2. /\ UNCHANGED <<intr_master, intr_slave, worker, external_intr>> /\ owed' = {}
          /\ cpu'.vector = NULL /\ Quiet'
      BY <2>5b, <3>1 DEF ka11_trap_be
    <3>3. \/ arbitrator'.ifs_priority_level = cpu'.priority
          \/ cpu'.pc = "halted"
               /\ arbitrator'.ifs_priority_level = CPU_PRIORITY_LEVEL_FETCHING
      BY <2>5b, <3>1 DEF ka11_trap_be
    <3>4. ~(intr_master.state = "granted"
              \/ (intr_master.state = "INTR" /\ intr_slave.state = "none"))
      BY <3>1
    <3>5. SSYN' = SSYN \/ intr_master.state = "none"
      BY <2>5b DEF ka11_trap_be, BusCycle
    <3> QED
      BY <3>1, <3>2, <3>3, <3>4, <3>5
  <2>6. CASE execute
    BY <2>1, <2>6 DEF execute, Executed, BusCycle
  <2>7. CASE execute_WAIT
    BY <2>1, <2>7 DEF execute_WAIT, Executed, BusCycle
  <2>8. CASE execute_RESET
    BY <2>1, <2>8 DEF execute_RESET, Executed, BusCycle, OnItsWay
  <2>9. ASSUME NEW level \in RunLevels, execute_levelchange(level) PROVE OneVector'
    BY <2>1, <2>9 DEF execute_levelchange, Executed, BusCycle, OnItsWay
  <2>10. QED
    BY <1>9, <2>2, <2>3, <2>4, <2>5, <2>6, <2>7, <2>8, <2>9, <2>5b DEF cpu_thread
<1>10. CASE UNCHANGED vars
    BY <1>10 DEF vars
<1>11. QED
    BY <1>1, <1>2, <1>3, <1>4, <1>5, <1>6, <1>7, <1>8, <1>9, <1>10
       DEF FieldingNext, pru, arm_worker

(* Once an instruction has interfered, that is remembered. *)
LEMMA EarlyKept == FieldingTypeOK /\ [FieldingNext]_vars /\ early => early'
BY DEF FieldingTypeOK, FieldingNext, vars, pru, arm_worker, cpu_thread, ARM2PRU_INTR,
     sm_arb_worker_cpu, sm_intr_master_state_1, sm_intr_master_state_2, sm_intr_slave_start,
     sm_intr_slave_state_1, ka11_setintr, intr_slave_EVENT_ACK, grant_interrupts, granted, step,
     ka11_trap, ka11_trap_be, execute, execute_WAIT, execute_RESET, execute_levelchange

(* The type and the inductive invariant hold in every reachable state. *)
THEOREM FieldingInvariance == FieldingSpec => [](FieldingTypeOK /\ FieldingIndInv)
<1>1. FieldingTypeOK /\ FieldingIndInv /\ [FieldingNext]_vars
        => (FieldingTypeOK /\ FieldingIndInv)'
    BY NextTypeOK, NextCarriersOK, NextOneVector, EarlyKept DEF FieldingIndInv
<1>2. QED
    BY InitIInv, <1>1, PTL DEF FieldingSpec

(* If worker() is not preempted, no vector the PRU has received is lost, and   *)
(* the INTR cycle of a vector never overruns another, so that sm_intr_slave    *)
(* and sm_intr_master do not wait for each other; provided no instruction      *)
(* wrote the PSW or reset the bus while one was on its way.                    *)
THEOREM VectorSafety == ASSUME RealtimeWorker PROVE FieldingSpec => []VectorSafeInTime
<1>1. FieldingTypeOK /\ FieldingIndInv => (~early => VectorKept)
    BY RealtimeWorker DEF FieldingTypeOK, FieldingIndInv, OneVector, Quiet, Blocking,
         VectorKept, InTransit
<1>2. FieldingTypeOK /\ FieldingIndInv => (~early => NoOverrun)
    BY RealtimeWorker DEF FieldingTypeOK, FieldingIndInv, OneVector, NoOverrun
<1>3. FieldingTypeOK /\ FieldingIndInv => VectorSafeInTime
    BY <1>1, <1>2 DEF VectorSafeInTime
<1>4. QED
    BY FieldingInvariance, <1>3, PTL

(* Under the same conditions the CPU takes only interrupts above its          *)
(* priority, although the priority was compared some instructions before.     *)
THEOREM PriorityRule == ASSUME RealtimeWorker PROVE FieldingSpec => PriorityRespectedInTime
<1>1. FieldingTypeOK /\ FieldingIndInv /\ [FieldingNext]_vars
        => [cpu.pc = "trap" /\ cpu'.pc # "trap" /\ ~early => cpu.vector > cpu.priority]_vars
    BY RealtimeWorker DEF FieldingTypeOK, FieldingIndInv, CarriersOK, OneVector, Blocking
<1>2. QED
    BY FieldingInvariance, <1>1, PTL DEF FieldingSpec, PriorityRespectedInTime

-----------------------------------------------------------------------------
(* The two cores.                                                           *)
CoreRecord ==
  [model : CpuModels, state : {"RUNNING", "WAITING", "HALTED"},
   at : InStep \cup {"top", "condstep", "returned", "aclo", "aclo_clear", "dclo", "dclo_clear",
                     "reboot", "reboot_clear", "halt"},
   be : Nat, traps : SUBSET {"STACK", "PWR"}, inhov : BOOLEAN,
   trap_vector : {"bus", "mmu"}, TV : {"bus", "mmu", "intr", "trace", "power", "reserved"},
   external_intr : BOOLEAN, psw : PswSet, oldpsw_t : BOOLEAN, SP : Int,
   stackpointer : [CpuModes -> Int]]
PanelRecord ==
  [runmode : BOOLEAN, arbitrator : BOOLEAN, halt_switch : BOOLEAN, start_switch : BOOLEAN,
   continue_switch : BOOLEAN, ACLO_active : BOOLEAN, DCLO_active : BOOLEAN,
   ACLO_inactive : BOOLEAN, events : Nat]

(* The KA11 has one mode; a step() runs only while the core does; in user mode a second *)
(* bus error cannot follow the first, because the trap for it leaves user mode.         *)
CoreInStep(c) ==
  /\ c.model = "KA11" => c.psw.mode = "kernel"
  /\ c.at \in InStep => c.state # "HALTED"
  /\ c.at \in {"push_psw", "push_pc", "vector"} => c.psw.mode = "kernel"
  /\ c.at \in {"execute", "mtpi", "rti", "rtt", "service", "vector", "push_pc"} => c.be = 0
  /\ c.psw.mode = "user" => c.be = 0 \/ (c.be = 1 /\ c.at \in {"be", "trap"})

CpuInv ==
  /\ core \in CoreRecord /\ panel \in PanelRecord
  /\ CoreInStep(core) /\ StackPointersKept
  /\ core.state # "HALTED" => panel.arbitrator

Confined(c) ==
  ~IsKernel(core) /\ core.at \in InStep \ {"trap"} =>
    c.psw.mode = "user" /\ c.psw.prio = core.psw.prio /\ c.state # "HALTED"

LEMMA SetPsw ==
  ASSUME NEW c \in CoreRecord, NEW psw \in PswSet
  PROVE  LET s == set_psw(c, psw)
         IN  /\ s \in CoreRecord /\ s.psw = psw /\ AfterReset(s) = AfterReset(c)
             /\ s.model = c.model /\ s.state = c.state /\ s.at = c.at /\ s.be = c.be
<1> DEFINE sp == [c.stackpointer EXCEPT ![c.psw.mode] = c.SP]
<1>0. c.psw.mode \in CpuModes /\ psw.mode \in CpuModes
  BY DEF CoreRecord, PswSet
<1>1. sp \in [CpuModes -> Int]
  BY <1>0 DEF CoreRecord
<1>2. CASE psw.mode = c.psw.mode
  BY <1>2, <1>0 DEF set_psw, AfterReset, CoreRecord
<1>3. CASE psw.mode # c.psw.mode
  <2>1. set_psw(c, psw) = [c EXCEPT !.psw = psw, !.stackpointer = sp, !.SP = c.stackpointer[psw.mode]]
    BY <1>3 DEF set_psw, CoreRecord
  <2>2. c.stackpointer[psw.mode] \in Int
    BY <1>0 DEF CoreRecord
  <2> HIDE DEF sp
  <2>3. \A x \in Int : [c EXCEPT !.psw = psw, !.stackpointer = sp, !.SP = x] \in CoreRecord
    BY <1>1 DEF CoreRecord
  <2>4. set_psw(c, psw).stackpointer = sp /\ set_psw(c, psw).SP = c.stackpointer[psw.mode] /\ set_psw(c, psw).psw = psw
    BY <2>1 DEF CoreRecord
  <2>5. [sp EXCEPT ![psw.mode] = c.stackpointer[psw.mode]] = sp
    BY <1>1, <1>3, <1>0 DEF sp, CoreRecord
  <2>6. AfterReset(set_psw(c, psw)) = AfterReset(c)
    BY <2>4, <2>5 DEF AfterReset, sp
  <2>7. PICK x \in Int : set_psw(c, psw) = [c EXCEPT !.psw = psw, !.stackpointer = sp, !.SP = x]
    BY <2>1, <2>2
  <2>8. set_psw(c, psw) \in CoreRecord
    BY <2>3, <2>7
  <2> QED
    BY <2>6, <2>7, <2>8 DEF CoreRecord
<1> QED
  BY <1>2, <1>3

(* A step that leaves the stack pointers and the PSW alone, but for the mode's own. *)
LEMMA UpdateKeeps ==
  ASSUME CpuInv, NEW c \in CoreRecord, c.psw = core.psw, c.stackpointer = core.stackpointer,
         CoreInStep(c), c.state = core.state, Update(c)
  PROVE  CpuInv' /\ Confined(core')
<1>1. stacks' = AfterReset(c)
  <2>1. core.psw.mode \in CpuModes /\ core.stackpointer \in [CpuModes -> Int]
    BY DEF CpuInv, CoreRecord, PswSet
  <2> QED
    BY <2>1 DEF CpuInv, StackPointersKept, AfterReset, Update
<1> QED
  <2>1. core' = c /\ panel' = panel
    BY DEF Update
  <2>2. StackPointersKept'
    BY <2>1, <1>1 DEF StackPointersKept, AfterReset
  <2>3. ~IsKernel(core) => core.psw.mode = "user"
    BY DEF CpuInv, CoreRecord, PswSet, CpuModes, IsKernel
  <2> QED
    BY <2>1, <2>2, <2>3 DEF CpuInv, Confined, CoreInStep

LEMMA UpdatePswKeeps ==
  ASSUME CpuInv, NEW c \in CoreRecord, AfterReset(c) = AfterReset(core), CoreInStep(c), Confined(c),
         c.state # "HALTED" => core.state # "HALTED",
         UpdatePsw(c)
  PROVE  CpuInv' /\ Confined(core')
  BY DEF CpuInv, UpdatePsw, StackPointersKept, AfterReset, Confined

(* p is c with another place, stack pointer or count of bus errors. *)
SameMode(p, c) ==
  /\ p \in CoreRecord
  /\ p.psw = c.psw /\ p.stackpointer = c.stackpointer /\ p.model = c.model /\ p.state = c.state

LeadsTo(p, c, then) == SameMode(p, c) /\ \/ p.at = "be" /\ p.be = c.be + 1
                                         \/ p.at = then /\ p.be = 0

LEMMA FailedIs ==
  ASSUME NEW c \in CoreRecord, NEW vector \in {"bus", "mmu"}
  PROVE  SameMode(Failed(c, vector), c) /\ Failed(c, vector).at = "be" /\ Failed(c, vector).be = c.be + 1
<1> DEFINE b == c.be + 1
<1>1. b \in Nat
  BY DEF CoreRecord
<1> HIDE DEF b
<1>2. Failed(c, vector) = [c EXCEPT !.be = b, !.trap_vector = vector, !.at = "be"]
  BY DEF Failed, b, CoreRecord
<1>3. [c EXCEPT !.be = b, !.trap_vector = vector, !.at = "be"] \in CoreRecord
  BY <1>1 DEF CoreRecord, InStep
<1> QED
  BY <1>2, <1>3 DEF SameMode, CoreRecord, b

LEMMA OkIs ==
  ASSUME NEW c \in CoreRecord, NEW then \in InStep
  PROVE  LeadsTo([Ok(c) EXCEPT !.at = then], c, then)
<1> DEFINE f == [c EXCEPT !.be = 0, !.at = then]
<1>1. [Ok(c) EXCEPT !.at = then] = f
  BY DEF Ok, CoreRecord
<1>2. f \in CoreRecord
  BY DEF CoreRecord
<1>3. SameMode(f, c) /\ f.at = then /\ f.be = 0
  BY <1>2 DEF SameMode, CoreRecord
<1> HIDE DEF f
<1> QED
  BY <1>1, <1>3 DEF LeadsTo

LEMMA PushedIs ==
  ASSUME CpuAssumption, NEW c \in CoreRecord, NEW abort \in BOOLEAN,
         NEW then \in {"service", "push_pc", "vector"}
  PROVE  LeadsTo(Pushed(c, abort, then), c, then)
<1> DEFINE q == PUSH(c)
<1>1. SameMode(q, c) /\ q.be = c.be
  <2> DEFINE sp == (c.SP - 2) % CpuTop
  <2>1. sp \in Int
    BY CpuAssumption DEF CoreRecord
  <2> HIDE DEF sp
  <2>2. \A t \in SUBSET {"STACK", "PWR"} : [c EXCEPT !.SP = sp, !.traps = t] \in CoreRecord
    BY <2>1 DEF CoreRecord
  <2>3. PICK t \in SUBSET {"STACK", "PWR"} : q = [c EXCEPT !.SP = sp, !.traps = t]
    BY DEF PUSH, sp, CoreRecord
  <2> HIDE DEF q
  <2>4. q \in CoreRecord
    BY <2>2, <2>3
  <2> QED
    BY <2>3, <2>4 DEF CoreRecord, SameMode
<1> HIDE DEF q
<1>2. Pushed(c, abort, then) \in {Failed(q, "bus"), Failed(q, "mmu"), [Ok(q) EXCEPT !.at = then]}
  BY DEF Pushed, q
<1>3. then \in InStep
  BY DEF InStep
<1>4. q \in CoreRecord
  BY <1>1 DEF SameMode
<1>5. \A v \in {"bus", "mmu"} : LeadsTo(Failed(q, v), c, then)
  BY <1>1, <1>4, FailedIs DEF LeadsTo, SameMode
<1>6. LeadsTo([Ok(q) EXCEPT !.at = then], c, then)
  <2> DEFINE f == [Ok(q) EXCEPT !.at = then]
  <2>1. LeadsTo(f, q, then) /\ f.be # q.be + 1
    <3>1. LeadsTo(f, q, then)
      BY <1>3, <1>4, OkIs
    <3>2. f.be = 0 /\ q.be + 1 # 0
      BY <1>4 DEF Ok, CoreRecord
    <3> QED
      BY <3>1, <3>2
  <2> HIDE DEF f
  <2>2. LeadsTo(f, c, then)
    BY <1>1, <2>1 DEF LeadsTo, SameMode
  <2> QED
    BY <2>2 DEF f
<1> QED
  BY <1>2, <1>5, <1>6

LEMMA PoppedIs ==
  ASSUME CpuAssumption, NEW c \in CoreRecord, NEW abort \in BOOLEAN,
         NEW then \in {"service", "mtpi", "rti", "rtt"}
  PROVE  LeadsTo(Popped(c, abort, then), c, then)
<1> DEFINE sp == (c.SP + 2) % CpuTop
           d == [c EXCEPT !.SP = sp]
<1>1. sp \in Int
  BY CpuAssumption DEF CoreRecord
<1> HIDE DEF sp
<1>2. SameMode(d, c) /\ d.be = c.be
  <2>1. d \in CoreRecord
    BY <1>1 DEF CoreRecord
  <2> QED
    BY <2>1 DEF CoreRecord, SameMode
<1>3. Popped(c, abort, then) \in {Failed(c, "bus"), Failed(c, "mmu"), Failed(d, "bus"), Failed(d, "mmu"),
                                  [Ok(c) EXCEPT !.SP = sp, !.at = then]}
  BY DEF Popped, sp
<1> HIDE DEF d
<1>4. then \in InStep
  BY DEF InStep
<1>5. d \in CoreRecord
  BY <1>2 DEF SameMode
<1>6. \A v \in {"bus", "mmu"} : LeadsTo(Failed(d, v), c, then) /\ LeadsTo(Failed(c, v), c, then)
  BY <1>2, <1>5, FailedIs DEF LeadsTo, SameMode
<1>7. LeadsTo([Ok(c) EXCEPT !.SP = sp, !.at = then], c, then)
  <2> DEFINE f == [c EXCEPT !.be = 0, !.SP = sp, !.at = then]
  <2>1. [Ok(c) EXCEPT !.SP = sp, !.at = then] = f
    BY DEF Ok, CoreRecord
  <2>2. f \in CoreRecord
    BY <1>1, <1>4 DEF CoreRecord
  <2>3. SameMode(f, c) /\ f.at = then /\ f.be = 0
    BY <2>2 DEF SameMode, CoreRecord
  <2> HIDE DEF f
  <2> QED
    BY <2>1, <2>3 DEF LeadsTo
<1> DEFINE p == Popped(c, abort, then)
<1> HIDE DEF p
<1>8. \/ p = Failed(c, "bus") \/ p = Failed(c, "mmu") \/ p = Failed(d, "bus") \/ p = Failed(d, "mmu")
      \/ p = [Ok(c) EXCEPT !.SP = sp, !.at = then]
  BY <1>3 DEF p
<1>9. LeadsTo(p, c, then)
  BY <1>6, <1>7, <1>8
<1> QED
  BY <1>9 DEF p
-----------------------------------------------------------------------------
(* The actions of step().                                                   *)
LEMMA FetchKeeps ==
  ASSUME CpuInv, NEW outcome \in {"ok", "bus", "mmu"}, fetch(outcome) \/ operate(outcome)
  PROVE  CpuInv' /\ Confined(core')
<1>1. core \in CoreRecord /\ CoreInStep(core) /\ core.at \in {"fetch", "execute", "mtpi"}
  BY DEF CpuInv, fetch, operate
<1>2. PICK then \in {"execute", "service"} :
        UpdatePsw(IF outcome = "ok" THEN [Ok(core) EXCEPT !.at = then] ELSE Failed(core, outcome))
  BY DEF fetch, operate
<1> DEFINE c == IF outcome = "ok" THEN [Ok(core) EXCEPT !.at = then] ELSE Failed(core, outcome)
<1>3. LeadsTo(c, core, then) /\ c.SP = core.SP
  <2>1. CASE outcome = "ok"
    <3>1. then \in InStep
      BY DEF InStep
    <3> QED
      BY <1>1, <2>1, <3>1, OkIs DEF Ok, CoreRecord
  <2>2. CASE outcome # "ok"
    <3>1. LeadsTo(Failed(core, outcome), core, then)
      BY <1>1, <2>2, FailedIs DEF LeadsTo
    <3> QED
      BY <1>1, <2>2, <3>1 DEF Failed, CoreRecord
  <2> QED
    BY <2>1, <2>2
<1> HIDE DEF c
<1>4. core.psw.mode \in CpuModes /\ core.be \in Nat
  BY <1>1 DEF CoreRecord, PswSet
<1>5. AfterReset(c) = AfterReset(core)
  BY <1>3 DEF LeadsTo, SameMode, AfterReset
<1>6. CoreInStep(c)
  BY <1>1, <1>3, <1>4 DEF LeadsTo, SameMode, CoreInStep, InStep
<1>7. Confined(c)
  BY <1>1, <1>3, <1>4 DEF LeadsTo, SameMode, CoreInStep, Confined, IsKernel, InStep, CpuModes
<1>8. UpdatePsw(c)
  BY <1>2 DEF c
<1> QED
  BY <1>3, <1>5, <1>6, <1>7, <1>8, UpdatePswKeeps DEF LeadsTo, SameMode

(* JSR, MFPI, RTS, MARK, the pop of MTPI, the first half of RTI, and the pushes of a trap. *)
LEMMA StackKeeps ==
  ASSUME CpuAssumption, CpuInv, NEW c, NEW then \in InStep, LeadsTo(c, core, then), core.at \in InStep,
         core.at \in {"push_psw", "push_pc"} => core.psw.mode = "kernel",
         then # "push_psw", then \in {"push_pc", "vector"} => core.psw.mode = "kernel",
         core.psw.mode = "user" => core.be = 0, Update(c)
  PROVE  CpuInv' /\ Confined(core')
<1>1. CoreInStep(c)
  BY DEF CpuInv, LeadsTo, SameMode, CoreInStep, InStep
<1> QED
  BY <1>1, UpdateKeeps DEF LeadsTo, SameMode

LEMMA PushKeeps ==
  ASSUME CpuAssumption, CpuInv, NEW abort \in BOOLEAN, NEW rtt \in BOOLEAN,
         push(abort) \/ pop(abort) \/ mtpi(abort) \/ rti_pc(abort, rtt) \/ trap_push
  PROVE  CpuInv' /\ Confined(core')
<1>1. core \in CoreRecord /\ CoreInStep(core) /\ core.at \in {"execute", "push_psw", "push_pc"}
  BY DEF CpuInv, push, pop, mtpi, rti_pc, trap_push
<1>2. core.psw.mode = "user" => core.be = 0 /\ core.at = "execute"
  BY <1>1 DEF CoreInStep
<1>3. CASE push(abort)
  <2>1. LeadsTo(Pushed(core, abort, "service"), core, "service")
    BY <1>1, PushedIs
  <2> QED
    BY <1>1, <1>2, <1>3, <2>1, StackKeeps DEF push, InStep
<1>4. CASE pop(abort)
  <2>1. LeadsTo(Popped(core, abort, "service"), core, "service")
    BY <1>1, PoppedIs
  <2> QED
    BY <1>1, <1>2, <1>4, <2>1, StackKeeps DEF pop, InStep
<1>5. CASE mtpi(abort)
  <2>1. LeadsTo(Popped(core, abort, "mtpi"), core, "mtpi")
    BY <1>1, PoppedIs
  <2> QED
    BY <1>1, <1>2, <1>5, <2>1, StackKeeps DEF mtpi, InStep
<1>6. CASE rti_pc(abort, rtt)
  <2> DEFINE then == IF rtt THEN "rtt" ELSE "rti"
  <2>1. then \in {"rti", "rtt"} /\ Update(Popped(core, abort, then))
    BY <1>6 DEF rti_pc
  <2> HIDE DEF then
  <2>2. LeadsTo(Popped(core, abort, then), core, then)
    BY <1>1, <2>1, PoppedIs
  <2> QED
    BY <1>1, <1>2, <1>6, <2>1, <2>2, StackKeeps DEF InStep, rti_pc
<1>7. CASE trap_push
  <2> DEFINE then == IF core.at = "push_psw" THEN "push_pc" ELSE "vector"
  <2>1. then \in {"push_pc", "vector"} /\ Update(Pushed(core, FALSE, then))
    BY <1>7 DEF trap_push
  <2> HIDE DEF then
  <2>2. LeadsTo(Pushed(core, FALSE, then), core, then)
    BY <1>1, <2>1, PushedIs
  <2>3. core.psw.mode = "kernel"
    BY <1>1, <1>7 DEF trap_push, CoreInStep
  <2> QED
    BY <1>1, <1>2, <2>1, <2>2, <2>3, StackKeeps DEF InStep
<1> QED
  BY <1>3, <1>4, <1>5, <1>6, <1>7

LEMMA LoadSPKeeps ==
  ASSUME CpuAssumption, CpuInv, NEW sp \in Stacks, load_SP(sp) \/ mtpi_SP(sp)
  PROVE  CpuInv' /\ Confined(core')
<1>1. core \in CoreRecord /\ CoreInStep(core) /\ core.at \in {"execute", "mtpi"} /\ sp \in Int
  BY CpuAssumption DEF CpuInv, load_SP, mtpi_SP, Stacks
<1>2. core.psw.mode \in CpuModes /\ core.psw.prev \in CpuModes /\ core.stackpointer \in [CpuModes -> Int]
  BY <1>1 DEF CoreRecord, PswSet
<1>3. CASE load_SP(sp) \/ (mtpi_SP(sp) /\ core.psw.prev = core.psw.mode)
  <2> DEFINE c == [core EXCEPT !.SP = sp, !.at = "service"]
  <2>1. c \in CoreRecord
    BY <1>1 DEF CoreRecord, InStep
  <2>2. c.psw = core.psw /\ c.stackpointer = core.stackpointer /\ c.state = core.state /\ c.SP = sp
        /\ c.model = core.model /\ c.at = "service" /\ c.be = core.be
    BY <1>1 DEF CoreRecord
  <2>3. Update(c)
    BY <1>1, <1>3, <2>2 DEF load_SP, mtpi_SP, Update, CoreRecord
  <2> HIDE DEF c
  <2>4. CoreInStep(c)
    BY <1>1, <2>2 DEF CoreInStep, InStep
  <2> QED
    BY <2>1, <2>2, <2>3, <2>4, UpdateKeeps
<1>4. CASE mtpi_SP(sp) /\ core.psw.prev # core.psw.mode
  <2> DEFINE up == [core.stackpointer EXCEPT ![core.psw.prev] = sp]
             c == [core EXCEPT !.at = "service", !.stackpointer = up]
  <2>1. up \in [CpuModes -> Int]
    BY <1>1, <1>2
  <2> HIDE DEF up
  <2>2. c \in CoreRecord
    BY <1>1, <2>1 DEF CoreRecord, InStep
  <2>3. c.psw = core.psw /\ c.stackpointer = up /\ c.state = core.state /\ c.SP = core.SP
        /\ c.model = core.model /\ c.at = "service" /\ c.be = core.be
    BY <1>1 DEF CoreRecord
  <2>4. core' = c /\ stacks' = [stacks EXCEPT ![core.psw.prev] = sp] /\ panel' = panel
    BY <1>1, <1>4 DEF mtpi_SP, CoreRecord, up
  <2> HIDE DEF c
  <2>5. [up EXCEPT ![core.psw.mode] = core.SP] =
          [[core.stackpointer EXCEPT ![core.psw.mode] = core.SP] EXCEPT ![core.psw.prev] = sp]
    BY <1>2, <1>4 DEF up
  <2>6. StackPointersKept'
    BY <2>3, <2>4, <2>5 DEF CpuInv, StackPointersKept
  <2>7. CoreInStep(c) /\ Confined(c)
    BY <1>1, <1>2, <2>3 DEF CoreInStep, InStep, Confined, IsKernel, CpuModes
  <2> QED
    BY <2>2, <2>3, <2>4, <2>6, <2>7 DEF CpuInv
<1> QED
  BY <1>3, <1>4

LEMMA WritePswKeeps ==
  ASSUME CpuInv, NEW psw \in PswSet, write_psw(psw)
  PROVE  CpuInv' /\ Confined(core')
<1> DEFINE s == set_psw(core, psw)
           c == [s EXCEPT !.at = "service"]
<1>1. core \in CoreRecord /\ CoreInStep(core) /\ core.at = "execute" /\ core.psw.mode = "kernel"
  BY DEF CpuInv, write_psw, IsKernel
<1>2. /\ s \in CoreRecord /\ s.psw = psw /\ AfterReset(s) = AfterReset(core)
      /\ s.model = core.model /\ s.state = core.state /\ s.at = core.at /\ s.be = core.be
  BY <1>1, SetPsw
<1>3. core.model = "KA11" => psw.mode = "kernel"
  BY DEF write_psw, IsKD
<1> HIDE DEF s
<1>4. /\ c \in CoreRecord /\ c.psw = psw /\ AfterReset(c) = AfterReset(core)
      /\ c.model = core.model /\ c.state = core.state /\ c.at = "service" /\ c.be = core.be
  <2>1. c \in CoreRecord
    BY <1>2 DEF CoreRecord, InStep
  <2> QED
    BY <1>2, <2>1 DEF CoreRecord, AfterReset
<1>5. UpdatePsw(c)
  BY DEF write_psw, s
<1> HIDE DEF c
<1>6. CoreInStep(c) /\ Confined(c)
  BY <1>1, <1>3, <1>4 DEF CoreInStep, InStep, Confined, IsKernel
<1> QED
  BY <1>4, <1>5, <1>6, UpdatePswKeeps

(* The second half of RTI and RTT. *)
LEMMA RtiKeeps ==
  ASSUME CpuAssumption, CpuInv, NEW abort \in BOOLEAN, NEW psw \in PswSet, rti_psw(abort, psw)
  PROVE  CpuInv' /\ Confined(core')
<1> DEFINE c == Popped(core, abort, "service")
           new == Restricted(psw)
           traced == [c EXCEPT !.oldpsw_t = @ \/ (IsKD /\ core.at = "rti" /\ new.t)]
           s == set_psw(traced, new)
<1>1. core \in CoreRecord /\ CoreInStep(core) /\ core.at \in {"rti", "rtt"} /\ core.psw \in PswSet /\ core.be = 0
  BY DEF CpuInv, rti_psw, CoreInStep, CoreRecord
<1>2. LeadsTo(c, core, "service")
  BY <1>1, PoppedIs
<1>3. /\ new \in PswSet
      /\ ~IsKernel(core) => new.mode = core.psw.mode /\ new.prio = core.psw.prio
      /\ core.model = "KA11" => new.mode = "kernel"
  <2>1. CASE IsKernel(core)
    BY <1>1, <2>1 DEF Restricted, rti_psw, IsKD
  <2>2. CASE ~IsKernel(core)
    <3>1. core.model # "KA11"
      BY <1>1, <2>2 DEF CoreInStep, IsKernel
    <3>2. core.psw.mode \in CpuModes /\ core.psw.prev \in CpuModes /\ core.psw.prio \in {0, 7}
      BY <1>1 DEF PswSet
    <3>3. new = [psw EXCEPT !.mode = core.psw.mode, !.prev = core.psw.prev, !.prio = core.psw.prio]
      BY <2>2 DEF Restricted
    <3> QED
      BY <2>2, <3>1, <3>2, <3>3 DEF PswSet
  <2> QED
    BY <2>1, <2>2
<1>4. core' = (IF c.at = "be" THEN c ELSE s) /\ stacks' = [stacks EXCEPT ![core.psw.mode] = c.SP] /\ panel' = panel
  BY DEF rti_psw
<1> HIDE DEF c, new
<1>5. stacks' = AfterReset(c)
  <2>1. core.psw.mode \in CpuModes /\ core.stackpointer \in [CpuModes -> Int]
    BY <1>1 DEF CoreRecord, PswSet
  <2> QED
    BY <1>2, <1>4, <2>1 DEF CpuInv, StackPointersKept, AfterReset, LeadsTo, SameMode
<1>6. CASE c.at = "be"
  <2>1. Update(c)
    BY <1>4, <1>6 DEF Update
  <2>2. CoreInStep(c)
    BY <1>1, <1>2, <1>6 DEF LeadsTo, SameMode, CoreInStep, InStep
  <2> QED
    BY <1>2, <2>1, <2>2, UpdateKeeps DEF LeadsTo, SameMode
<1>7. CASE c.at # "be"
  <2>1. c \in CoreRecord /\ c.at = "service" /\ c.be = 0 /\ c.model = core.model /\ c.state = core.state
    BY <1>2, <1>7 DEF LeadsTo, SameMode
  <2>2. (c.oldpsw_t \/ (IsKD /\ core.at = "rti" /\ new.t)) \in BOOLEAN
    BY Zenon
  <2>3. \A b \in BOOLEAN : [c EXCEPT !.oldpsw_t = b] \in CoreRecord
    BY <2>1 DEF CoreRecord
  <2>4. traced \in CoreRecord
    BY <2>2, <2>3, Zenon
  <2>5. /\ AfterReset(traced) = AfterReset(c) /\ traced.at = "service" /\ traced.be = 0
        /\ traced.model = core.model /\ traced.state = core.state
    BY <2>1 DEF CoreRecord, AfterReset
  <2> HIDE DEF traced
  <2>6. /\ s \in CoreRecord /\ s.psw = new /\ AfterReset(s) = AfterReset(c)
        /\ s.model = core.model /\ s.state = core.state /\ s.at = "service" /\ s.be = 0
    BY <1>3, <2>4, <2>5, SetPsw
  <2> HIDE DEF s
  <2>7. core' = s
    BY <1>4, <1>7
  <2>8. CoreInStep(s) /\ Confined(s)
    <3>1. core.state # "HALTED"
      BY <1>1 DEF CoreInStep, InStep
    <3>2. ~IsKernel(core) => core.psw.mode = "user"
      BY <1>1 DEF PswSet, CpuModes, IsKernel
    <3> QED
      BY <1>1, <1>3, <2>6, <3>1, <3>2 DEF CoreInStep, InStep, Confined
  <2>9. StackPointersKept'
    BY <1>5, <2>6, <2>7 DEF StackPointersKept, AfterReset
  <2> QED
    BY <1>4, <2>6, <2>7, <2>8, <2>9 DEF CpuInv
<1> QED
  BY <1>6, <1>7

(* Steps that end, or go to the trap sequence or to the service, with the PSW as it is. *)
LEMMA InPlace ==
  ASSUME CpuInv, NEW c \in CoreRecord, c.psw = core.psw, c.stackpointer = core.stackpointer, c.SP = core.SP,
         c.model = core.model, CoreInStep(c),
         c.state # "HALTED" \/ core.psw.mode = "kernel", c.state # "HALTED" => core.state # "HALTED",
         UpdatePsw(c)
  PROVE  CpuInv' /\ Confined(core')
<1>1. AfterReset(c) = AfterReset(core)
  BY DEF AfterReset
<1>2. core.psw.mode \in CpuModes
  BY DEF CpuInv, CoreRecord, PswSet
<1>3. Confined(c)
  BY <1>2 DEF Confined, IsKernel, CpuModes
<1> QED
  BY <1>1, <1>3, UpdatePswKeeps

LEMMA ReturnIs ==
  ASSUME NEW c \in CoreRecord
  PROVE  /\ Return(c) \in CoreRecord /\ Return(c).at = "returned"
         /\ Return(c).psw = c.psw /\ Return(c).stackpointer = c.stackpointer /\ Return(c).SP = c.SP
         /\ Return(c).model = c.model /\ Return(c).state = c.state /\ Return(c).be = c.be
<1>1. Return(c) \in CoreRecord
  BY DEF Return, CoreRecord
<1> QED
  BY <1>1 DEF Return, CoreRecord

LEMMA InstructionKeeps ==
  ASSUME CpuInv, HALT \/ WAIT \/ RESET_bus \/ trap_instruction \/ service
  PROVE  CpuInv' /\ Confined(core')
<1>1. core \in CoreRecord /\ CoreInStep(core) /\ core.be = 0 /\ core.state # "HALTED"
  BY DEF CpuInv, CoreInStep, HALT, WAIT, RESET_bus, trap_instruction, service, InStep
<1>2. core.psw.mode \in CpuModes
  BY <1>1 DEF CoreRecord, PswSet
<1>3. \A c : /\ c \in CoreRecord /\ c.psw = core.psw /\ c.stackpointer = core.stackpointer /\ c.SP = core.SP
             /\ c.model = core.model /\ c.be = 0 /\ c.at \in {"service", "trap"} /\ c.state = core.state
             => CoreInStep(c)
  BY <1>1, <1>2 DEF CoreInStep, InStep
<1>4. ASSUME NEW d \in CoreRecord, d.psw = core.psw, d.stackpointer = core.stackpointer, d.SP = core.SP,
             d.model = core.model, d.be = 0, d.state # "HALTED" \/ core.psw.mode = "kernel", UpdatePsw(Return(d))
      PROVE  CpuInv' /\ Confined(core')
  <2> DEFINE c == Return(d)
  <2>1. /\ c \in CoreRecord /\ c.at = "returned" /\ c.psw = core.psw /\ c.stackpointer = core.stackpointer
        /\ c.SP = core.SP /\ c.model = core.model /\ c.state = d.state /\ c.be = 0
    BY <1>4, ReturnIs
  <2> HIDE DEF c
  <2>2. CoreInStep(c)
    BY <1>1, <2>1 DEF CoreInStep, InStep
  <2>3. UpdatePsw(c)
    BY <1>4 DEF c
  <2> QED
    BY <1>1, <1>4, <2>1, <2>2, <2>3, InPlace
<1>5. ASSUME NEW c \in CoreRecord, c.psw = core.psw, c.stackpointer = core.stackpointer, c.SP = core.SP,
             c.model = core.model, c.be = 0, c.at \in {"service", "trap"}, c.state = core.state, UpdatePsw(c)
      PROVE  CpuInv' /\ Confined(core')
  <2>1. CoreInStep(c)
    BY <1>3, <1>5
  <2> QED
    BY <1>1, <1>5, <2>1, InPlace
<1>6. \A x \in {"HALTED", "WAITING"} :
        LET d == [core EXCEPT !.state = x]
        IN  /\ d \in CoreRecord /\ d.psw = core.psw /\ d.stackpointer = core.stackpointer /\ d.SP = core.SP
            /\ d.model = core.model /\ d.be = 0 /\ d.state = x
  BY <1>1 DEF CoreRecord
<1>7. CASE HALT /\ IsKernel(core)
  BY <1>1, <1>4, <1>6, <1>7 DEF HALT, IsKernel, stop
<1>8. CASE WAIT
  BY <1>1, <1>4, <1>6, <1>8 DEF WAIT
<1>9. CASE (HALT /\ ~IsKernel(core)) \/ trap_instruction
  <2> DEFINE c == [core EXCEPT !.TV = "reserved", !.at = "trap"]
  <2>1. c \in CoreRecord
    BY <1>1 DEF CoreRecord, InStep
  <2>2. /\ c.psw = core.psw /\ c.stackpointer = core.stackpointer /\ c.SP = core.SP
        /\ c.model = core.model /\ c.be = 0 /\ c.at = "trap" /\ c.state = core.state
    BY <1>1 DEF CoreRecord
  <2>3. UpdatePsw(c)
    BY <1>9 DEF HALT, trap_instruction
  <2> HIDE DEF c
  <2> QED
    BY <1>5, <2>1, <2>2, <2>3
<1>10. CASE RESET_bus
  <2> DEFINE c == IF IsKernel(core) THEN [core EXCEPT !.traps = {}, !.external_intr = FALSE, !.at = "service"]
                  ELSE [core EXCEPT !.at = "service"]
  <2>1. c \in CoreRecord
    BY <1>1 DEF CoreRecord, InStep
  <2>2. /\ c.psw = core.psw /\ c.stackpointer = core.stackpointer /\ c.SP = core.SP
        /\ c.model = core.model /\ c.be = 0 /\ c.at = "service" /\ c.state = core.state
    BY <1>1 DEF CoreRecord
  <2>3. UpdatePsw(c)
    BY <1>10 DEF RESET_bus
  <2> HIDE DEF c
  <2> QED
    BY <1>5, <2>1, <2>2, <2>3
<1>11. CASE service
  <2>1. CASE core.oldpsw_t
    <3> DEFINE c == [core EXCEPT !.oldpsw_t = FALSE, !.TV = "trace", !.at = "trap"]
    <3>1. c \in CoreRecord
      BY <1>1 DEF CoreRecord, InStep
    <3>2. /\ c.psw = core.psw /\ c.stackpointer = core.stackpointer /\ c.SP = core.SP
          /\ c.model = core.model /\ c.be = 0 /\ c.at = "trap" /\ c.state = core.state
      BY <1>1 DEF CoreRecord
    <3>3. UpdatePsw(c)
      BY <1>11, <2>1 DEF service
    <3> HIDE DEF c
    <3> QED
      BY <1>5, <3>1, <3>2, <3>3
  <2>2. CASE ~core.oldpsw_t /\ "STACK" \in core.traps
    <3> DEFINE c == [core EXCEPT !.traps = core.traps \ {"STACK"}, !.inhov = TRUE, !.TV = "bus", !.at = "trap"]
    <3>1. c \in CoreRecord
      BY <1>1 DEF CoreRecord, InStep
    <3>2. /\ c.psw = core.psw /\ c.stackpointer = core.stackpointer /\ c.SP = core.SP
          /\ c.model = core.model /\ c.be = 0 /\ c.at = "trap" /\ c.state = core.state
      BY <1>1 DEF CoreRecord
    <3>3. UpdatePsw(c)
      BY <1>11, <2>2 DEF service
    <3> HIDE DEF c
    <3> QED
      BY <1>5, <3>1, <3>2, <3>3
  <2>3. CASE ~core.oldpsw_t /\ "STACK" \notin core.traps /\ "PWR" \in core.traps
    <3> DEFINE c == [core EXCEPT !.traps = core.traps \ {"PWR"}, !.TV = "power", !.at = "trap"]
    <3>1. c \in CoreRecord
      BY <1>1 DEF CoreRecord, InStep
    <3>2. /\ c.psw = core.psw /\ c.stackpointer = core.stackpointer /\ c.SP = core.SP
          /\ c.model = core.model /\ c.be = 0 /\ c.at = "trap" /\ c.state = core.state
      BY <1>1 DEF CoreRecord
    <3>3. UpdatePsw(c)
      BY <1>11, <2>3 DEF service
    <3> HIDE DEF c
    <3> QED
      BY <1>5, <3>1, <3>2, <3>3
  <2>4. CASE ~core.oldpsw_t /\ "STACK" \notin core.traps /\ "PWR" \notin core.traps
    <3>1. UpdatePsw(Return(core))
      BY <1>11, <2>4 DEF service
    <3> QED
      BY <1>1, <1>4, <3>1
  <2> QED
    BY <2>1, <2>2, <2>3, <2>4
<1> QED
  BY <1>7, <1>8, <1>9, <1>10, <1>11

LEMMA BusErrorKeeps ==
  ASSUME CpuInv, bus_error
  PROVE  CpuInv' /\ Confined(core')
<1>1. core \in CoreRecord /\ CoreInStep(core) /\ core.at = "be" /\ core.state # "HALTED"
  BY DEF CpuInv, CoreInStep, bus_error, InStep
<1>2. core.psw.mode \in CpuModes
  BY <1>1 DEF CoreRecord, PswSet
<1>3. CASE DoubleBusError
  <2> DEFINE d == [core EXCEPT !.state = "HALTED"]
             c == Return(d)
  <2>1. core.psw.mode = "kernel"
    BY <1>1, <1>2, <1>3 DEF CoreInStep, DoubleBusError, CpuModes
  <2>2. /\ d \in CoreRecord /\ d.psw = core.psw /\ d.stackpointer = core.stackpointer /\ d.SP = core.SP
        /\ d.model = core.model /\ d.be = core.be /\ d.state = "HALTED"
    BY <1>1 DEF CoreRecord
  <2>3. UpdatePsw(c)
    BY <1>3 DEF bus_error, stop
  <2> HIDE DEF d
  <2>4. /\ c \in CoreRecord /\ c.at = "returned" /\ c.psw = core.psw /\ c.stackpointer = core.stackpointer
        /\ c.SP = core.SP /\ c.model = core.model /\ c.state = "HALTED" /\ c.be = core.be
    BY <2>2, ReturnIs
  <2> HIDE DEF c
  <2>5. CoreInStep(c)
    BY <2>1, <2>4 DEF CoreInStep, InStep
  <2> QED
    BY <2>1, <2>3, <2>4, <2>5, InPlace
<1>4. CASE ~DoubleBusError
  <2> DEFINE c == [core EXCEPT !.TV = core.trap_vector, !.at = "trap"]
  <2>1. c \in CoreRecord
    BY <1>1 DEF CoreRecord, InStep
  <2>2. /\ c.psw = core.psw /\ c.stackpointer = core.stackpointer /\ c.SP = core.SP
        /\ c.model = core.model /\ c.be = core.be /\ c.at = "trap" /\ c.state = core.state
    BY <1>1 DEF CoreRecord
  <2>3. UpdatePsw(c)
    BY <1>4 DEF bus_error
  <2> HIDE DEF c
  <2>4. CoreInStep(c)
    BY <1>1, <1>2, <2>2 DEF CoreInStep, InStep
  <2> QED
    BY <1>1, <2>1, <2>2, <2>3, <2>4, InPlace
<1> QED
  BY <1>3, <1>4

LEMMA VectorPswIs ==
  ASSUME NEW tv, NEW prev \in CpuModes, NEW c
  PROVE  VectorPsw(tv, prev, c) \in PswSet /\ VectorPsw(tv, prev, c).mode = "kernel"
<1>1. (<<c.model, tv>> \in CpuTraced) \in BOOLEAN
  BY SMT
<1>2. (IF c.model = "KD11EA" THEN prev ELSE "kernel") \in CpuModes
  BY DEF CpuModes
<1>3. \A t \in BOOLEAN, m \in CpuModes :
        /\ [mode |-> "kernel", prev |-> m, prio |-> 7, t |-> t] \in PswSet
        /\ [mode |-> "kernel", prev |-> m, prio |-> 7, t |-> t].mode = "kernel"
  BY DEF PswSet, CpuModes
<1> QED
  BY <1>1, <1>2, <1>3, Zenon DEF VectorPsw

(* The trap sequence enters kernel mode before it pushes. *)
LEMMA TrapKeeps ==
  ASSUME CpuInv, trap \/ trap_end
  PROVE  CpuInv' /\ Confined(core')
<1>1. core \in CoreRecord /\ CoreInStep(core) /\ core.state # "HALTED" /\ core.psw.mode \in CpuModes
  BY DEF CpuInv, CoreInStep, trap, trap_end, InStep, CoreRecord, PswSet
<1>2. CASE trap /\ IsKD
  <2> DEFINE psw == VectorPsw(core.TV, core.psw.mode, core)
             s == set_psw(core, psw)
             c == [s EXCEPT !.be = 0, !.TV = "bus", !.at = "push_psw"]
  <2>1. psw \in PswSet /\ psw.mode = "kernel"
    BY <1>1, VectorPswIs
  <2> HIDE DEF psw
  <2>2. s \in CoreRecord /\ s.psw = psw /\ AfterReset(s) = AfterReset(core) /\ s.model = core.model /\ s.state = core.state
    BY <1>1, <2>1, SetPsw
  <2> HIDE DEF s
  <2>3. c \in CoreRecord
    BY <2>2 DEF CoreRecord, InStep
  <2>4. /\ AfterReset(c) = AfterReset(core) /\ c.psw.mode = "kernel" /\ c.model = core.model /\ c.state = core.state
        /\ c.at = "push_psw" /\ c.be = 0
    BY <2>1, <2>2 DEF CoreRecord, AfterReset
  <2>5. UpdatePsw(c)
    <3>1. [Ok(s) EXCEPT !.TV = "bus", !.at = "push_psw"] = c
      BY <2>2 DEF Ok, CoreRecord
    <3>2. UpdatePsw([[Ok(s) EXCEPT !.TV = "bus"] EXCEPT !.at = "push_psw"])
      BY <1>2 DEF trap, s, psw
    <3>3. [[Ok(s) EXCEPT !.TV = "bus"] EXCEPT !.at = "push_psw"] = c
      BY <2>2 DEF Ok, CoreRecord
    <3> HIDE DEF c
    <3> QED
      BY <3>2, <3>3
  <2> HIDE DEF c
  <2>6. CoreInStep(c)
    BY <1>1, <2>4 DEF CoreInStep, InStep
  <2>7. Confined(c)
    BY <1>2 DEF Confined, trap
  <2> QED
    BY <1>1, <2>3, <2>4, <2>5, <2>6, <2>7, UpdatePswKeeps
<1>3. CASE trap /\ ~IsKD
  <2> DEFINE c == [core EXCEPT !.at = "push_psw"]
  <2>1. core.psw.mode = "kernel"
    BY <1>1, <1>3, CpuAssumption DEF CoreInStep, IsKD, CoreRecord
  <2>2. c \in CoreRecord
    BY <1>1 DEF CoreRecord, InStep
  <2>3. /\ c.psw = core.psw /\ c.stackpointer = core.stackpointer /\ c.SP = core.SP
        /\ c.model = core.model /\ c.be = core.be /\ c.at = "push_psw" /\ c.state = core.state
    BY <1>1 DEF CoreRecord
  <2>4. UpdatePsw(c)
    BY <1>3 DEF trap
  <2> HIDE DEF c
  <2>5. CoreInStep(c)
    BY <1>1, <2>1, <2>3 DEF CoreInStep, InStep
  <2> QED
    BY <1>1, <2>1, <2>2, <2>3, <2>4, <2>5, InPlace
<1>4. CASE trap_end /\ IsKD
  <2> DEFINE c == [core EXCEPT !.oldpsw_t = core.psw.t, !.at = "service"]
  <2>1. core.psw.mode = "kernel" /\ core.be = 0
    BY <1>1, <1>4 DEF CoreInStep, trap_end
  <2>2. c \in CoreRecord
    BY <1>1 DEF CoreRecord, InStep, PswSet
  <2>3. /\ c.psw = core.psw /\ c.stackpointer = core.stackpointer /\ c.SP = core.SP
        /\ c.model = core.model /\ c.be = core.be /\ c.at = "service" /\ c.state = core.state
    BY <1>1 DEF CoreRecord
  <2>4. UpdatePsw(c)
    BY <1>4 DEF trap_end
  <2> HIDE DEF c
  <2>5. CoreInStep(c)
    BY <1>1, <2>1, <2>3 DEF CoreInStep, InStep
  <2> QED
    BY <1>1, <2>1, <2>2, <2>3, <2>4, <2>5, InPlace
<1>5. CASE trap_end /\ ~IsKD
  <2> DEFINE psw == VectorPsw(core.TV, "kernel", core)
             d == [core EXCEPT !.be = 0, !.psw = psw]
             c == Return(d)
  <2>1. core.psw.mode = "kernel" /\ core.model # "KD11EA"
    BY <1>1, <1>5 DEF CoreInStep, IsKD, trap_end
  <2>2. psw \in PswSet /\ psw.mode = "kernel"
    BY VectorPswIs DEF CpuModes
  <2> HIDE DEF psw
  <2>3. d \in CoreRecord
    BY <1>1, <2>2 DEF CoreRecord
  <2>4. /\ d.psw = psw /\ AfterReset(d) = AfterReset(core)
        /\ d.model = core.model /\ d.be = 0 /\ d.state = core.state
    BY <1>1, <2>1, <2>2 DEF CoreRecord, AfterReset
  <2>5. UpdatePsw(c)
    <3>1. [Ok(core) EXCEPT !.psw = psw] = d
      BY <1>1 DEF Ok, CoreRecord
    <3>2. UpdatePsw(Return([Ok(core) EXCEPT !.psw = psw]))
      BY <1>5 DEF trap_end, psw
    <3> HIDE DEF c, d
    <3> QED
      BY <3>1, <3>2 DEF c
  <2> HIDE DEF d
  <2>6. /\ c \in CoreRecord /\ c.at = "returned" /\ c.psw = psw /\ AfterReset(c) = AfterReset(core)
        /\ c.model = core.model /\ c.state = core.state /\ c.be = 0
    BY <2>3, <2>4, ReturnIs DEF AfterReset
  <2> HIDE DEF c
  <2>7. CoreInStep(c) /\ Confined(c)
    BY <1>1, <2>1, <2>2, <2>6 DEF CoreInStep, InStep, Confined, IsKernel
  <2> QED
    BY <1>1, <2>5, <2>6, <2>7, UpdatePswKeeps
<1> QED
  BY <1>2, <1>3, <1>4, <1>5

LEMMA StepKeeps ==
  ASSUME CpuAssumption, CpuInv, StepNext
  PROVE  CpuInv' /\ Confined(core')
<1>1. CASE \E outcome \in {"ok", "bus", "mmu"} : fetch(outcome) \/ operate(outcome)
  BY <1>1, FetchKeeps
<1>2. CASE \E sp \in Stacks : load_SP(sp) \/ mtpi_SP(sp)
  BY <1>2, LoadSPKeeps
<1>3. CASE \E psw \in PswSet : write_psw(psw)
  BY <1>3, WritePswKeeps
<1>4. CASE \E abort \in BOOLEAN : push(abort) \/ pop(abort) \/ mtpi(abort) \/ (\E rtt \in BOOLEAN : rti_pc(abort, rtt))
  BY <1>4, PushKeeps
<1>5. CASE \E abort \in BOOLEAN : \E psw \in PswSet : rti_psw(abort, psw)
  BY <1>5, RtiKeeps
<1>6. CASE HALT \/ WAIT \/ RESET_bus \/ trap_instruction \/ service
  BY <1>6, InstructionKeeps
<1>7. CASE bus_error
  BY <1>7, BusErrorKeeps
<1>8. CASE trap \/ trap_end
  BY <1>8, TrapKeeps
<1>9. CASE trap_push
  BY <1>9, PushKeeps
<1> QED
  BY <1>1, <1>2, <1>3, <1>4, <1>5, <1>6, <1>7, <1>8, <1>9 DEF StepNext

-----------------------------------------------------------------------------
(* The actions of worker() and of the other threads.                        *)

(* worker() between two steps: the core is not in step(), its stack pointers are untouched. *)
LEMMA WorkerKeeps ==
  ASSUME CpuInv, core.at \notin InStep, NEW c, core' = c, NEW p \in PanelRecord, panel' = p,
         c \in CoreRecord, c.model = "KA11" => c.psw.mode = "kernel", c.at \notin InStep,
         c.psw.mode = "user" => c.be = 0, c.state # "HALTED" => p.arbitrator, stacks' = AfterReset(c)
  PROVE  CpuInv' /\ Confined(core')
  BY DEF CpuInv, CoreInStep, Confined, StackPointersKept, AfterReset, InStep

LEMMA CoreResetIs ==
  ASSUME CpuInv, core.at \notin InStep
  PROVE  LET c == core_reset(core)
         IN  /\ c \in CoreRecord /\ c.model = core.model /\ c.at = core.at /\ c.state = core.state
             /\ c.be = core.be /\ c.psw.mode = "kernel"
<1>1. core \in CoreRecord /\ (core.model = "KA11" => core.psw.mode = "kernel")
  BY DEF CpuInv, CoreInStep
<1> DEFINE r == [core EXCEPT !.traps = {}, !.external_intr = FALSE]
<1>2. r \in CoreRecord
  BY <1>1 DEF CoreRecord
<1>3. r.model = core.model /\ r.at = core.at /\ r.state = core.state /\ r.be = core.be /\ r.psw = core.psw
  BY <1>1 DEF CoreRecord
<1>4. CASE core.model = "KA11"
  BY <1>1, <1>2, <1>3, <1>4 DEF core_reset
<1>5. CASE core.model # "KA11"
  <2> DEFINE psw == [mode |-> "kernel", prev |-> "kernel", prio |-> 0, t |-> FALSE]
             sp == [m \in CpuModes |-> 0]
             d == [r EXCEPT !.stackpointer = sp, !.trap_vector = "bus"]
  <2>1. core_reset(core) = set_psw(d, psw)
    BY <1>5 DEF core_reset
  <2>2. psw \in PswSet /\ psw.mode = "kernel" /\ sp \in [CpuModes -> Int]
    BY DEF PswSet, CpuModes
  <2> HIDE DEF psw, sp, r
  <2>3. d \in CoreRecord
    BY <1>2, <2>2 DEF CoreRecord
  <2>4. d.model = core.model /\ d.at = core.at /\ d.state = core.state /\ d.be = core.be
    BY <1>2, <1>3 DEF CoreRecord
  <2> HIDE DEF d
  <2> QED
    BY <2>1, <2>2, <2>3, <2>4, SetPsw
<1> QED
  BY <1>4, <1>5

LEMMA TopKeeps ==
  ASSUME CpuInv, worker_top
  PROVE  CpuInv' /\ Confined(core')
<1> DEFINE runmode == core.state # "HALTED"
           cont == panel.continue_switch /\ ~runmode
           begin == ~runmode /\ ~cont /\ panel.start_switch
           c == IF begin THEN core_reset(core) ELSE core
           on == cont \/ (begin /\ ~panel.halt_switch)
           p == [panel EXCEPT !.runmode = runmode, !.continue_switch = FALSE, !.start_switch = FALSE]
           d == [(IF on THEN [c EXCEPT !.state = "RUNNING"] ELSE c) EXCEPT !.at = "condstep"]
           q == IF on THEN [p EXCEPT !.runmode = TRUE, !.arbitrator = TRUE] ELSE p
<1>1. core \in CoreRecord /\ core.at = "top" /\ panel \in PanelRecord
      /\ (core.state # "HALTED" => panel.arbitrator)
      /\ (core.model = "KA11" => core.psw.mode = "kernel")
      /\ (core.psw.mode = "user" => core.be = 0)
  BY DEF CpuInv, worker_top, CoreInStep
<1>2. core.at \notin InStep
  BY <1>1 DEF InStep
<1>3. /\ c \in CoreRecord /\ c.model = core.model /\ c.state = core.state
      /\ c.model = "KA11" => c.psw.mode = "kernel"
      /\ c.psw.mode = "user" => c.be = 0
  BY <1>1, <1>2, CoreResetIs
<1>4. core' = d /\ panel' = q /\ stacks' = (IF begin THEN AfterReset(c) ELSE stacks)
  BY DEF worker_top, start, Started
<1>5. stacks' = AfterReset(c)
  BY <1>4 DEF CpuInv, StackPointersKept, AfterReset
<1>6. q \in PanelRecord /\ (on => q.arbitrator) /\ (~on => q.arbitrator = panel.arbitrator)
  <2>1. runmode \in BOOLEAN
    BY Zenon
  <2> HIDE DEF runmode
  <2>2. p \in PanelRecord /\ p.arbitrator = panel.arbitrator
    BY <1>1, <2>1 DEF PanelRecord
  <2> HIDE DEF p
  <2>3. [p EXCEPT !.runmode = TRUE, !.arbitrator = TRUE] \in PanelRecord
        /\ [p EXCEPT !.runmode = TRUE, !.arbitrator = TRUE].arbitrator
    BY <2>2 DEF PanelRecord
  <2> HIDE DEF on
  <2> QED
    BY <2>2, <2>3
<1> HIDE DEF c, q, on
<1>7. /\ d \in CoreRecord /\ d.model = c.model /\ d.psw = c.psw /\ d.be = c.be /\ d.at = "condstep"
      /\ AfterReset(d) = AfterReset(c) /\ (~on => d.state = core.state)
  <2>1. CASE on
    <3>1. d = [c EXCEPT !.state = "RUNNING", !.at = "condstep"]
      BY <1>3, <2>1 DEF CoreRecord
    <3>2. [c EXCEPT !.state = "RUNNING", !.at = "condstep"] \in CoreRecord
      BY <1>3 DEF CoreRecord
    <3> HIDE DEF d
    <3> QED
      BY <1>3, <2>1, <3>1, <3>2 DEF CoreRecord, AfterReset
  <2>2. CASE ~on
    <3>1. d = [c EXCEPT !.at = "condstep"]
      BY <1>3, <2>2 DEF CoreRecord
    <3>2. [c EXCEPT !.at = "condstep"] \in CoreRecord
      BY <1>3 DEF CoreRecord
    <3> HIDE DEF d
    <3> QED
      BY <1>3, <2>2, <3>1, <3>2 DEF CoreRecord, AfterReset
  <2> QED
    BY <2>1, <2>2
<1> HIDE DEF d
<1>8. d.at \notin InStep
  BY <1>7 DEF InStep
<1> QED
  BY <1>1, <1>2, <1>3, <1>4, <1>5, <1>6, <1>7, <1>8, WorkerKeeps

LEMMA CondstepKeeps ==
  ASSUME CpuInv, condstep
  PROVE  CpuInv' /\ Confined(core')
<1> DEFINE runs == \/ core.state = "RUNNING"
                   \/ core.state = "WAITING" /\ (core.traps # {} \/ core.external_intr)
           b == [core EXCEPT !.state = "RUNNING"]
           c1 == [core EXCEPT !.at = "returned"]
           c2 == [b EXCEPT !.external_intr = FALSE, !.TV = "intr", !.at = "trap"]
           c3 == [b EXCEPT !.oldpsw_t = core.psw.t, !.at = "fetch"]
           c == IF ~runs THEN c1 ELSE IF core.external_intr THEN c2 ELSE c3
<1>1. core \in CoreRecord /\ core.at = "condstep" /\ CoreInStep(core)
  BY DEF CpuInv, condstep
<1>2. core.psw.mode \in CpuModes /\ core.psw.t \in BOOLEAN
  BY <1>1 DEF CoreRecord, PswSet
<1>3. /\ c1 \in CoreRecord /\ c1.psw = core.psw /\ c1.stackpointer = core.stackpointer /\ c1.SP = core.SP
      /\ c1.model = core.model /\ c1.be = core.be /\ c1.state = core.state /\ c1.at = "returned"
  <2>1. c1 \in CoreRecord
    BY <1>1 DEF CoreRecord
  <2> QED
    BY <1>1, <2>1 DEF CoreRecord
<1>4. /\ c2 \in CoreRecord /\ c2.psw = core.psw /\ c2.stackpointer = core.stackpointer /\ c2.SP = core.SP
      /\ c2.model = core.model /\ c2.be = core.be /\ c2.state = "RUNNING" /\ c2.at = "trap"
  <2>1. c2 = [core EXCEPT !.state = "RUNNING", !.external_intr = FALSE, !.TV = "intr", !.at = "trap"]
    BY <1>1 DEF CoreRecord
  <2>2. [core EXCEPT !.state = "RUNNING", !.external_intr = FALSE, !.TV = "intr", !.at = "trap"] \in CoreRecord
    BY <1>1 DEF CoreRecord, InStep
  <2> HIDE DEF c2
  <2> QED
    BY <1>1, <2>1, <2>2 DEF CoreRecord
<1>5. /\ c3 \in CoreRecord /\ c3.psw = core.psw /\ c3.stackpointer = core.stackpointer /\ c3.SP = core.SP
      /\ c3.model = core.model /\ c3.be = core.be /\ c3.state = "RUNNING" /\ c3.at = "fetch"
  <2> DEFINE t == core.psw.t
  <2> HIDE DEF t
  <2>1. c3 = [core EXCEPT !.state = "RUNNING", !.oldpsw_t = t, !.at = "fetch"]
    BY <1>1 DEF CoreRecord, t
  <2>2. [core EXCEPT !.state = "RUNNING", !.oldpsw_t = t, !.at = "fetch"] \in CoreRecord
    BY <1>1, <1>2 DEF CoreRecord, InStep, t
  <2> HIDE DEF c3
  <2> QED
    BY <1>1, <2>1, <2>2 DEF CoreRecord
<1>6. UpdatePsw(c)
  BY DEF condstep
<1> HIDE DEF c1, c2, c3
<1>7. /\ c \in CoreRecord /\ AfterReset(c) = AfterReset(core)
      /\ c.state # "HALTED" => core.state # "HALTED"
  BY <1>3, <1>4, <1>5 DEF AfterReset
<1>8. CoreInStep(c)
  <2>1. c = c1 \/ c = c2 \/ c = c3
    OBVIOUS
  <2> HIDE DEF c
  <2> QED
    BY <1>1, <1>2, <1>3, <1>4, <1>5, <2>1 DEF CoreInStep, InStep, CpuModes
<1>9. Confined(c)
  BY <1>1 DEF Confined, InStep
<1> HIDE DEF c
<1> QED
  BY <1>6, <1>7, <1>8, <1>9, UpdatePswKeeps

(* worker() goes on to its next test. *)
LEMMA NextTest ==
  ASSUME CpuInv, core.at \notin InStep, NEW c, core' = c, NEW p \in PanelRecord, panel' = p, stacks' = stacks,
         c \in CoreRecord, c.model = core.model, c.psw = core.psw, c.be = core.be, c.SP = core.SP,
         c.stackpointer = core.stackpointer, c.at \notin InStep,
         c.state # "HALTED" => core.state # "HALTED" /\ p.arbitrator = panel.arbitrator
  PROVE  CpuInv' /\ Confined(core')
<1>1. /\ c.model = "KA11" => c.psw.mode = "kernel"
      /\ c.psw.mode = "user" => c.be = 0
  BY DEF CpuInv, CoreInStep, InStep
<1>2. stacks' = AfterReset(c)
  BY DEF CpuInv, StackPointersKept, AfterReset
<1>3. c.state # "HALTED" => p.arbitrator
  BY DEF CpuInv
<1> QED
  BY <1>1, <1>2, <1>3, WorkerKeeps

WorkerAts == {"returned", "aclo", "aclo_clear", "dclo", "dclo_clear", "reboot", "reboot_clear", "halt", "top"}

LEMMA TestsKeep ==
  ASSUME CpuInv,
         \/ \E breakpoint \in BOOLEAN : worker_returned(breakpoint)
         \/ worker_aclo \/ worker_aclo_clear \/ worker_dclo \/ worker_dclo_clear
         \/ worker_reboot_clear \/ worker_halt
  PROVE  CpuInv' /\ Confined(core')
<1>1. core \in CoreRecord /\ panel \in PanelRecord /\ core.at \in WorkerAts
  BY DEF CpuInv, worker_returned, worker_aclo, worker_aclo_clear, worker_dclo,
     worker_dclo_clear,
         worker_reboot_clear, worker_halt, WorkerAts
<1>2. core.at \notin InStep /\ stacks' = stacks
  BY <1>1 DEF InStep, WorkerAts, worker_returned, worker_aclo, worker_aclo_clear,
     worker_dclo, worker_dclo_clear,
         worker_reboot_clear, worker_halt
<1>3. ASSUME NEW at \in WorkerAts, core' = [stop(core) EXCEPT !.at = at], panel' = Stopped(panel)
      PROVE  CpuInv' /\ Confined(core')
  <2> DEFINE c == [core EXCEPT !.state = "HALTED", !.at = at]
             p == [panel EXCEPT !.runmode = FALSE, !.arbitrator = FALSE]
  <2>1. core' = c /\ panel' = p
    BY <1>1, <1>3 DEF stop, Stopped, CoreRecord
  <2>2. c \in CoreRecord /\ p \in PanelRecord
    <3>1. c \in CoreRecord
      BY <1>1, <1>3 DEF CoreRecord, WorkerAts
    <3>2. p \in PanelRecord
      BY <1>1 DEF PanelRecord
    <3> QED
      BY <3>1, <3>2
  <2>3. /\ c.model = core.model /\ c.psw = core.psw /\ c.be = core.be /\ c.SP = core.SP
        /\ c.stackpointer = core.stackpointer /\ c.at = at /\ c.state = "HALTED"
    BY <1>1 DEF CoreRecord
  <2>4. at \notin InStep
    BY DEF InStep, WorkerAts
  <2> HIDE DEF c, p
  <2> QED
    BY <1>2, <2>1, <2>2, <2>3, <2>4, NextTest
<1>4. ASSUME NEW at \in WorkerAts, NEW t \in SUBSET {"STACK", "PWR"}, core' = [core EXCEPT !.at = at, !.traps = t],
             panel' \in PanelRecord, panel'.arbitrator = panel.arbitrator
      PROVE  CpuInv' /\ Confined(core')
  <2> DEFINE c == [core EXCEPT !.at = at, !.traps = t]
             p == panel'
  <2>1. c \in CoreRecord
    BY <1>1, <1>4 DEF CoreRecord, WorkerAts
  <2>2. /\ c.model = core.model /\ c.psw = core.psw /\ c.be = core.be /\ c.SP = core.SP
        /\ c.stackpointer = core.stackpointer /\ c.at = at /\ c.state = core.state
    BY <1>1 DEF CoreRecord
  <2>3. at \notin InStep
    BY DEF InStep, WorkerAts
  <2>4. core' = c /\ panel' = p /\ p \in PanelRecord /\ p.arbitrator = panel.arbitrator
    BY <1>4
  <2> HIDE DEF c, p
  <2> QED
    BY <1>2, <2>1, <2>2, <2>3, <2>4, NextTest
<1>5. ASSUME NEW at \in WorkerAts, core' = [core EXCEPT !.at = at],
             panel' \in PanelRecord, panel'.arbitrator = panel.arbitrator
      PROVE  CpuInv' /\ Confined(core')
  <2>1. core' = [core EXCEPT !.at = at, !.traps = core.traps] /\ core.traps \in SUBSET {"STACK", "PWR"}
    BY <1>1, <1>5 DEF CoreRecord
  <2> QED
    BY <1>4, <1>5, <2>1
<1>6. CASE \E breakpoint \in BOOLEAN : worker_returned(breakpoint)
  <2>1. \/ core' = [stop(core) EXCEPT !.at = "aclo"] /\ panel' = Stopped(panel)
        \/ core' = [core EXCEPT !.at = "aclo"] /\ panel' = panel
    BY <1>6 DEF worker_returned
  <2> QED
    BY <1>1, <1>3, <1>5, <2>1 DEF WorkerAts
<1>7. CASE worker_aclo
  <2> DEFINE t == IF panel.runmode /\ panel.ACLO_active THEN core.traps \cup {"PWR"} ELSE core.traps
  <2>1. t \in SUBSET {"STACK", "PWR"}
    BY <1>1 DEF CoreRecord
  <2>2. core' = [core EXCEPT !.at = "aclo_clear", !.traps = t] /\ panel' = panel
    BY <1>7 DEF worker_aclo
  <2> HIDE DEF t
  <2> QED
    BY <1>1, <1>4, <2>1, <2>2 DEF WorkerAts
<1>8. CASE worker_aclo_clear
  <2>1. core' = [core EXCEPT !.at = "dclo"] /\ panel' = [panel EXCEPT !.ACLO_active = FALSE]
    BY <1>8 DEF worker_aclo_clear
  <2>2. panel' \in PanelRecord /\ panel'.arbitrator = panel.arbitrator
    BY <1>1, <2>1 DEF PanelRecord
  <2> QED
    BY <1>5, <2>1, <2>2 DEF WorkerAts
<1>9. CASE worker_dclo
  <2>1. \/ core' = [stop(core) EXCEPT !.at = "dclo_clear"] /\ panel' = Stopped(panel)
        \/ core' = [core EXCEPT !.at = "dclo_clear"] /\ panel' = panel
    BY <1>9 DEF worker_dclo
  <2> QED
    BY <1>1, <1>3, <1>5, <2>1 DEF WorkerAts
<1>10. CASE worker_dclo_clear
  <2>1. core' = [core EXCEPT !.at = "reboot"] /\ panel' = [panel EXCEPT !.DCLO_active = FALSE]
    BY <1>10 DEF worker_dclo_clear
  <2>2. panel' \in PanelRecord /\ panel'.arbitrator = panel.arbitrator
    BY <1>1, <2>1 DEF PanelRecord
  <2> QED
    BY <1>5, <2>1, <2>2 DEF WorkerAts
<1>11. CASE worker_reboot_clear
  <2> DEFINE b == panel.ACLO_inactive /\ core.at = "reboot"
  <2>1. core' = [core EXCEPT !.at = "halt"] /\ panel' = [panel EXCEPT !.ACLO_inactive = b]
    BY <1>11 DEF worker_reboot_clear
  <2>2. b \in BOOLEAN
    BY Zenon
  <2> HIDE DEF b
  <2>3. panel' \in PanelRecord /\ panel'.arbitrator = panel.arbitrator
    BY <1>1, <2>1, <2>2 DEF PanelRecord
  <2> QED
    BY <1>5, <2>1, <2>3 DEF WorkerAts
<1>12. CASE worker_halt
  <2>1. \/ core' = [stop(core) EXCEPT !.at = "top"] /\ panel' = Stopped(panel)
        \/ core' = [core EXCEPT !.at = "top"] /\ panel' = panel
    BY <1>12 DEF worker_halt
  <2> QED
    BY <1>1, <1>3, <1>5, <2>1 DEF WorkerAts
<1> QED
  BY <1>6, <1>7, <1>8, <1>9, <1>10, <1>11, <1>12

LEMMA RebootKeeps ==
  ASSUME CpuInv, worker_reboot
  PROVE  CpuInv' /\ Confined(core')
<1> DEFINE r == core_reset(core)
           c == [r EXCEPT !.be = 0]
           s == [c EXCEPT !.state = "RUNNING"]
           psw == VectorPsw("power", "kernel", c)
           up == set_psw(s, psw)
           d == [up EXCEPT !.at = "reboot_clear"]
           p == [panel EXCEPT !.runmode = TRUE, !.arbitrator = TRUE]
<1>1. core \in CoreRecord /\ panel \in PanelRecord /\ core.at = "reboot"
  BY DEF CpuInv, worker_reboot
<1>2. core.at \notin InStep
  BY <1>1 DEF InStep
<1>3. core' = d /\ panel' = p /\ stacks' = AfterReset(up)
  BY DEF worker_reboot, start, Started
<1>4. r \in CoreRecord
  BY <1>2, CoreResetIs
<1> HIDE DEF r
<1>5. s \in CoreRecord /\ s.be = 0 /\ s.state = "RUNNING"
  <2>1. s = [r EXCEPT !.be = 0, !.state = "RUNNING"]
    BY <1>4 DEF CoreRecord
  <2>2. [r EXCEPT !.be = 0, !.state = "RUNNING"] \in CoreRecord
    BY <1>4 DEF CoreRecord
  <2> HIDE DEF s
  <2> QED
    BY <1>4, <2>1, <2>2 DEF CoreRecord
<1>6. psw \in PswSet /\ psw.mode = "kernel"
  BY VectorPswIs DEF CpuModes
<1> HIDE DEF s, psw
<1>7. up \in CoreRecord /\ up.psw = psw /\ up.state = "RUNNING" /\ up.be = 0
  BY <1>5, <1>6, SetPsw
<1> HIDE DEF up
<1>8. /\ d \in CoreRecord /\ d.psw = psw /\ d.at = "reboot_clear" /\ AfterReset(d) = AfterReset(up)
  <2>1. d \in CoreRecord
    BY <1>7 DEF CoreRecord
  <2> QED
    BY <1>7, <2>1 DEF CoreRecord, AfterReset
<1>9. p \in PanelRecord /\ p.arbitrator
  BY <1>1 DEF PanelRecord
<1>10. d.at \notin InStep
  BY <1>8 DEF InStep
<1> HIDE DEF d, p
<1> QED
  BY <1>2, <1>3, <1>6, <1>8, <1>9, <1>10, WorkerKeeps

LEMMA OthersKeep ==
  ASSUME CpuInv, setintr \/ on_power_changed \/ switches
  PROVE  CpuInv' /\ Confined(core')
<1>1. core \in CoreRecord /\ panel \in PanelRecord /\ CoreInStep(core)
  BY DEF CpuInv
<1>2. Confined(core)
  <2>1. core.psw.mode \in CpuModes
    BY <1>1 DEF CoreRecord, PswSet
  <2> QED
    BY <1>1, <2>1 DEF Confined, IsKernel, CpuModes, CoreInStep
<1>3. CASE setintr
  <2> DEFINE c == [core EXCEPT !.external_intr = TRUE]
  <2>1. c \in CoreRecord
    BY <1>1 DEF CoreRecord
  <2>2. /\ c.psw = core.psw /\ c.stackpointer = core.stackpointer /\ c.SP = core.SP
        /\ c.model = core.model /\ c.be = core.be /\ c.state = core.state /\ c.at = core.at
    BY <1>1 DEF CoreRecord
  <2>3. UpdatePsw(c)
    BY <1>3 DEF setintr, UpdatePsw
  <2> HIDE DEF c
  <2>4. CoreInStep(c) /\ Confined(c) /\ AfterReset(c) = AfterReset(core)
    BY <1>1, <1>2, <2>2 DEF CoreInStep, Confined, AfterReset
  <2> QED
    BY <2>1, <2>2, <2>3, <2>4, UpdatePswKeeps
<1>4. ASSUME NEW q, q \in PanelRecord, q.arbitrator = panel.arbitrator, Event(q)
      PROVE  CpuInv' /\ Confined(core')
  <2> DEFINE n == q.events + 1
  <2>1. n \in Nat
    BY <1>4 DEF PanelRecord
  <2> HIDE DEF n
  <2>2. panel' = [q EXCEPT !.events = n] /\ core' = core /\ stacks' = stacks
    BY <1>4 DEF Event, n, PanelRecord
  <2>3. panel' \in PanelRecord /\ panel'.arbitrator = panel.arbitrator
    BY <1>4, <2>1, <2>2 DEF PanelRecord
  <2> QED
    BY <1>2, <2>2, <2>3 DEF CpuInv, StackPointersKept, CoreInStep, Confined
<1>5. CASE on_power_changed
  <2>1. \A q : q \in {[panel EXCEPT !.ACLO_active = TRUE], [panel EXCEPT !.DCLO_active = TRUE], [panel EXCEPT !.ACLO_inactive = TRUE]}
               => q \in PanelRecord /\ q.arbitrator = panel.arbitrator
    BY <1>1 DEF PanelRecord
  <2> QED
    BY <1>4, <1>5, <2>1 DEF on_power_changed
<1>6. CASE switches
  <2> DEFINE b == ~panel.halt_switch
  <2>1. b \in BOOLEAN
    BY Zenon
  <2> HIDE DEF b
  <2>2. \A q : q \in {[panel EXCEPT !.halt_switch = b], [panel EXCEPT !.continue_switch = TRUE], [panel EXCEPT !.start_switch = TRUE]}
               => q \in PanelRecord /\ q.arbitrator = panel.arbitrator
    BY <1>1, <2>1 DEF PanelRecord
  <2>3. \/ Event([panel EXCEPT !.halt_switch = b]) \/ Event([panel EXCEPT !.continue_switch = TRUE])
        \/ Event([panel EXCEPT !.start_switch = TRUE])
    BY <1>6 DEF switches, b
  <2> QED
    BY <1>4, <2>2, <2>3
<1> QED
  BY <1>3, <1>5, <1>6

LEMMA CpuNextKeeps == CpuInv /\ CpuNext => CpuInv' /\ Confined(core')
<1> SUFFICES ASSUME CpuInv, CpuNext
             PROVE  CpuInv' /\ Confined(core')
  OBVIOUS
<1>1. CASE setintr \/ on_power_changed \/ switches
  BY <1>1, OthersKeep
<1>2. CASE StepNext
  BY <1>2, CpuAssumption, StepKeeps
<1>3. CASE worker_top
  BY <1>3, TopKeeps
<1>4. CASE condstep
  BY <1>4, CondstepKeeps
<1>5. CASE worker_reboot
  BY <1>5, RebootKeeps
<1>6. CASE \/ \E breakpoint \in BOOLEAN : worker_returned(breakpoint)
           \/ worker_aclo \/ worker_aclo_clear \/ worker_dclo \/ worker_dclo_clear
           \/ worker_reboot_clear \/ worker_halt
  BY <1>6, TestsKeep
<1> QED
  BY <1>1, <1>2, <1>3, <1>4, <1>5, <1>6 DEF CpuNext, WorkerNext

LEMMA CpuStarts == CpuStart => CpuInv
<1> SUFFICES ASSUME CpuStart PROVE CpuInv
  OBVIOUS
<1>1. PICK model \in CpuModels, sp \in CpuStacks :
       /\ core = [model |-> model, state |-> "RUNNING", at |-> "top", be |-> 0, traps |-> {}, inhov |-> FALSE,
                  trap_vector |-> "bus", TV |-> "bus", external_intr |-> FALSE,
                  psw |-> [mode |-> "kernel", prev |-> "kernel", prio |-> 7, t |-> FALSE], oldpsw_t |-> FALSE,
                  SP |-> sp, stackpointer |-> [m \in CpuModes |-> 0]]
       /\ stacks = [m \in CpuModes |-> IF m = "kernel" THEN sp ELSE 0]
  BY DEF CpuStart
<1> DEFINE psw == [mode |-> "kernel", prev |-> "kernel", prio |-> 7, t |-> FALSE]
           zero == [m \in CpuModes |-> 0]
<1>2. psw \in PswSet /\ psw.mode = "kernel" /\ zero \in [CpuModes -> Int] /\ sp \in Int
  BY CpuAssumption DEF PswSet, CpuModes
<1>3. stacks = [zero EXCEPT !["kernel"] = sp]
  BY <1>1 DEF CpuModes
<1> HIDE DEF psw, zero
<1>4. core = [model |-> model, state |-> "RUNNING", at |-> "top", be |-> 0, traps |-> {}, inhov |-> FALSE,
              trap_vector |-> "bus", TV |-> "bus", external_intr |-> FALSE, psw |-> psw, oldpsw_t |-> FALSE,
              SP |-> sp, stackpointer |-> zero]
  BY <1>1 DEF psw, zero
<1>5. core \in CoreRecord
  BY <1>2, <1>4 DEF CoreRecord
<1>6. panel \in PanelRecord /\ panel.arbitrator
  BY DEF CpuStart, PanelRecord
<1>7. CoreInStep(core)
  BY <1>2, <1>4 DEF CoreInStep, InStep
<1>8. StackPointersKept
  BY <1>2, <1>3, <1>4 DEF StackPointersKept
<1> QED
  BY <1>5, <1>6, <1>7, <1>8 DEF CpuInv

(* Each mode finds its stack pointer where it left it, no step() runs without the bus, and *)
(* user mode is left through a vector only.                                                *)
THEOREM ModesAreKept == CpuSpec => [](StackPointersKept /\ StepsHaveBus) /\ UserIsConfined
<1>1. CpuInv => StackPointersKept /\ StepsHaveBus
  BY DEF CpuInv, StepsHaveBus, CoreInStep
<1>2. CpuInv /\ [CpuNext]_cpuvars => CpuInv'
  <2>1. CpuInv /\ UNCHANGED cpuvars => CpuInv'
    BY DEF CpuInv, cpuvars, CoreInStep, StackPointersKept
  <2> QED
    BY <2>1, CpuNextKeeps
<1>3. CpuInv /\ [CpuNext]_cpuvars =>
        [~IsKernel(core) /\ core.at \in InStep \ {"trap"} =>
           core'.psw.mode = "user" /\ core'.psw.prio = core.psw.prio /\ core'.state # "HALTED"]_cpuvars
  BY CpuNextKeeps DEF Confined
<1> QED
  BY <1>1, <1>2, <1>3, CpuStarts, PTL DEF CpuSpec, UserIsConfined

-----------------------------------------------------------------------------
(* The KT11-D.                                                              *)
PdrRecord ==
  [plf : 0 .. KTBlocks - 1, ed : BOOLEAN, w : BOOLEAN,
   acf : {"NONRESIDENT", "READONLY", "UNUSED", "READWRITE"}]
PageRecord ==
  [base : Int, blk_lo : 0 .. KTBlocks - 1, blk_span : 0 .. KTBlocks - 1, deny : SUBSET {"READ", "WRITE"}]
Mmr0Record ==
  [aborts : SUBSET {"READONLY", "NONRESIDENT", "LENGTH"}, mode : 0 .. 3, page : 0 .. KTPages - 1,
   maint : BOOLEAN, enable : BOOLEAN]
MmuRecord ==
  [mmr0 : Mmr0Record, mmr1 : Seq(KTRegisters), mmr2 : KTInstructions \cup {0},
   par : [Entries -> Int], pdr : [Entries -> PdrRecord], pages : [Entries -> PageRecord],
   enabled : BOOLEAN, frozen : BOOLEAN, maint : BOOLEAN, mode : 0 .. 3, prev_mode : 0 .. 3,
   access_space : Spaces, access_mode : 0 .. 3, dest_ref : BOOLEAN]

(* What is derived from the registers agrees with them; wrote are the pages written into. *)
Derived(m, wrote) ==
  /\ \A e \in Entries : m.pages[e] = kt11d_rebuild(e, m.par[e], m.pdr[e]) /\ m.pdr[e].w = (e \in wrote)
  /\ m.enabled = m.mmr0.enable /\ m.maint = m.mmr0.maint /\ m.frozen = (m.mmr0.aborts # {})

KTInv == mmu \in MmuRecord /\ mmu_wrote \subseteq Entries /\ Derived(mmu, mmu_wrote)

(* The registers of an abort. *)
SameAbort(m) == m.mmr0 = mmu.mmr0 /\ m.mmr1 = mmu.mmr1 /\ m.mmr2 = mmu.mmr2

LEMMA Sizes == KTBlocks \in Nat /\ KTPages \in Nat /\ KTPhysical \in Nat /\ KTBlocks > 0 /\ KTPages > 0 /\ KTPhysical > 0
<1>1. KTBlocks \in Nat /\ KTPages \in Nat /\ KTPhysical \in Nat /\ KTBlocks > 0 /\ KTPages > 0
      /\ KTPages * KTBlocks <= KTPhysical
  BY KTAssumption
<1>2. KTPages * KTBlocks > 0
  BY <1>1
<1> QED
  BY <1>1, <1>2

LEMMA RebuildIs ==
  ASSUME NEW e \in Entries, NEW par \in Int, NEW pdr \in PdrRecord
  PROVE  kt11d_rebuild(e, par, pdr) \in PageRecord
<1>1. (par - e[2] * KTBlocks) % KTPhysical \in Int
  BY Sizes DEF Entries
<1>2. (IF pdr.ed THEN pdr.plf ELSE 0) \in 0 .. KTBlocks - 1
      /\ (IF pdr.ed THEN KTBlocks - 1 - pdr.plf ELSE pdr.plf) \in 0 .. KTBlocks - 1
  BY Sizes DEF PdrRecord
<1>3. (CASE pdr.acf = "READWRITE" -> {} [] pdr.acf = "READONLY" -> {"WRITE"} [] OTHER -> {"READ", "WRITE"})
        \in SUBSET {"READ", "WRITE"}
  OBVIOUS
<1> QED
  BY <1>1, <1>2, <1>3 DEF kt11d_rebuild, PageRecord

(* kt11d_rebuild_all(): whatever was derived before. *)
LEMMA RebuildAllIs ==
  ASSUME NEW par \in [Entries -> Int], NEW pdr \in [Entries -> PdrRecord], NEW mmr0 \in Mmr0Record
  PROVE  /\ [e \in Entries |-> kt11d_rebuild(e, par[e], pdr[e])] \in [Entries -> PageRecord]
         /\ (mmr0.aborts # {}) \in BOOLEAN
<1>1. \A e \in Entries : kt11d_rebuild(e, par[e], pdr[e]) \in PageRecord
  BY RebuildIs
<1>2. (mmr0.aborts # {}) \in BOOLEAN
  BY Zenon
<1> QED
  BY <1>1, <1>2

SameRegisters(n, m) ==
  /\ n.mmr0 = m.mmr0 /\ n.mmr1 = m.mmr1 /\ n.mmr2 = m.mmr2 /\ n.par = m.par /\ n.pdr = m.pdr
  /\ n.pages = m.pages /\ n.enabled = m.enabled /\ n.frozen = m.frozen /\ n.maint = m.maint

LEMMA SetAccess ==
  ASSUME NEW m \in MmuRecord, NEW space \in Spaces, NEW mode \in 0 .. 3
  PROVE  /\ kt11d_set_access(m, space, mode) \in MmuRecord
         /\ kt11d_set_access(m, space, mode).mode = m.mode
         /\ kt11d_set_access(m, space, mode).access_space = space
         /\ kt11d_set_access(m, space, mode).access_mode = mode
         /\ SameRegisters(kt11d_set_access(m, space, mode), m)
<1> DEFINE n == [m EXCEPT !.access_space = space, !.access_mode = mode]
<1>1. n \in MmuRecord
  BY DEF MmuRecord
<1> QED
  BY <1>1 DEF kt11d_set_access, MmuRecord, SameRegisters

(* Blocks of a page are where its PAR says. *)
LEMMA Relocated ==
  ASSUME NEW e \in Entries, NEW par \in Int, NEW blk \in Nat
  PROVE  (((par - e[2] * KTBlocks) % KTPhysical) + e[2] * KTBlocks + blk) % KTPhysical = (par + blk) % KTPhysical
<1> DEFINE x == e[2] * KTBlocks
<1>1. x \in Int
  BY Sizes DEF Entries
<1> HIDE DEF x
<1> DEFINE q == (par - x) \div KTPhysical
           r == (par - x) % KTPhysical
<1>2. q \in Int /\ r \in Int /\ par - x = KTPhysical * q + r
  BY <1>1, Sizes
<1> HIDE DEF q, r
<1>3. par + blk = KTPhysical * q + (r + x + blk)
  BY <1>1, <1>2, Sizes
<1>4. \A a, k \in Int : (KTPhysical * k + a) % KTPhysical = a % KTPhysical
  <2> SUFFICES ASSUME NEW a \in Int, NEW k \in Int PROVE (KTPhysical * k + a) % KTPhysical = a % KTPhysical
    OBVIOUS
  <2>1. a % KTPhysical = a - KTPhysical * (a \div KTPhysical) /\ 0 <= a % KTPhysical /\ a % KTPhysical < KTPhysical
        /\ a \div KTPhysical \in Int /\ a % KTPhysical \in Int
    BY Sizes
  <2> DEFINE s == a % KTPhysical
             t == a \div KTPhysical
             b == KTPhysical * k + a
  <2>2. b \in Int /\ b % KTPhysical = b - KTPhysical * (b \div KTPhysical) /\ 0 <= b % KTPhysical
        /\ b % KTPhysical < KTPhysical /\ b \div KTPhysical \in Int /\ b % KTPhysical \in Int
    BY Sizes
  <2> DEFINE u == b % KTPhysical
             v == b \div KTPhysical
             w == v - k - t
  <2>3. u - s = KTPhysical * (k + t - v) /\ w \in Int
    BY <2>1, <2>2, Sizes
  <2>4. k + t - v <= 0
    <3> SUFFICES ASSUME k + t - v >= 1 PROVE FALSE
      BY <2>1, <2>2
    <3>1. KTPhysical * (k + t - v) >= KTPhysical
      BY <2>1, <2>2, Sizes
    <3> QED
      BY <3>1, <2>1, <2>2, <2>3, Sizes
  <2>5. k + t - v >= 0
    <3> SUFFICES ASSUME k + t - v <= -1 PROVE FALSE
      BY <2>1, <2>2
    <3>1. KTPhysical * (k + t - v) <= -KTPhysical
      BY <2>1, <2>2, Sizes
    <3> QED
      BY <3>1, <2>1, <2>2, <2>3, Sizes
  <2>6. k + t - v = 0
    BY <2>1, <2>2, <2>4, <2>5
  <2> QED
    BY <2>1, <2>2, <2>3, <2>6, Sizes
<1>5. (KTPhysical * q + (r + x + blk)) % KTPhysical = (r + x + blk) % KTPhysical
  BY <1>1, <1>2, <1>4
<1> QED
  BY <1>3, <1>5 DEF x, r

(* n is m after a reference: only MMR0 and the W bits have changed, and MMR0 not after an *)
(* abort.                                                                                 *)
After(n, m, wrote) ==
  /\ n \in MmuRecord /\ Derived(n, wrote)
  /\ n.mmr1 = m.mmr1 /\ n.mmr2 = m.mmr2 /\ (m.mmr0.aborts # {} => n.mmr0 = m.mmr0)
  /\ n.mode = m.mode /\ n.access_mode = m.access_mode

LEMMA ZeroMmr0 ==
  ASSUME NEW m \in MmuRecord, NEW wrote, Derived(m, wrote), NEW mmr0 \in Mmr0Record, NEW f \in BOOLEAN,
         mmr0.maint = m.mmr0.maint, mmr0.enable = m.mmr0.enable, f = (mmr0.aborts # {}),
         m.mmr0.aborts # {} => mmr0 = m.mmr0
  PROVE  After([m EXCEPT !.mmr0 = mmr0, !.frozen = f], m, wrote)
<1> DEFINE n == [m EXCEPT !.mmr0 = mmr0, !.frozen = f]
<1>1. n \in MmuRecord
  BY DEF MmuRecord
<1>2. /\ n.mmr0 = mmr0 /\ n.frozen = f /\ n.mmr1 = m.mmr1 /\ n.mmr2 = m.mmr2 /\ n.par = m.par /\ n.pdr = m.pdr
      /\ n.pages = m.pages /\ n.enabled = m.enabled /\ n.maint = m.maint
      /\ n.mode = m.mode /\ n.access_mode = m.access_mode
  BY DEF MmuRecord
<1> HIDE DEF n
<1>3. Derived(n, wrote)
  BY <1>2 DEF Derived
<1> QED
  BY <1>1, <1>2, <1>3 DEF After, n

Seen(m, va) == IF m.frozen THEN m ELSE [m EXCEPT !.mmr0 = [@ EXCEPT !.mode = m.access_mode, !.page = va.page]]

LEMMA SeenIs ==
  ASSUME NEW m \in MmuRecord, NEW wrote, Derived(m, wrote), NEW va \in VirtualAddresses
  PROVE  After(Seen(m, va), m, wrote) /\ Seen(m, va).frozen = m.frozen
         /\ Seen(m, va).pages = m.pages /\ Seen(m, va).pdr = m.pdr
<1>1. CASE m.frozen
  BY <1>1 DEF Seen, After
<1>2. CASE ~m.frozen
  <2> DEFINE mmr0 == [m.mmr0 EXCEPT !.mode = m.access_mode, !.page = va.page]
  <2>0. m.access_mode \in 0 .. 3 /\ va.page \in 0 .. KTPages - 1 /\ m.mmr0 \in Mmr0Record /\ m.frozen \in BOOLEAN
    BY DEF MmuRecord, VirtualAddresses
  <2>1. mmr0 \in Mmr0Record
    BY <2>0 DEF Mmr0Record
  <2>2. mmr0.aborts = m.mmr0.aborts /\ mmr0.maint = m.mmr0.maint /\ mmr0.enable = m.mmr0.enable
    BY <2>0 DEF Mmr0Record
  <2> HIDE DEF mmr0
  <2>3. Seen(m, va) = [m EXCEPT !.mmr0 = mmr0, !.frozen = m.frozen]
    BY <1>2 DEF Seen, mmr0, MmuRecord
  <2>4. m.mmr0.aborts = {} /\ m.frozen = (mmr0.aborts # {})
    BY <1>2, <2>2 DEF Derived
  <2>5. After([m EXCEPT !.mmr0 = mmr0, !.frozen = m.frozen], m, wrote)
    BY <2>0, <2>1, <2>2, <2>4, ZeroMmr0
  <2> QED
    BY <2>3, <2>5 DEF MmuRecord
<1> QED
  BY <1>1, <1>2

LEMMA AbortedIs ==
  ASSUME NEW m \in MmuRecord, NEW wrote, Derived(m, wrote), NEW va \in VirtualAddresses,
         NEW causes \in SUBSET {"READONLY", "NONRESIDENT", "LENGTH"}, causes # {}
  PROVE  After(Aborted(m, va, causes), m, wrote) /\ Aborted(m, va, causes).mmr0.aborts # {}
<1>1. CASE m.frozen
  BY <1>1 DEF Aborted, After, Derived
<1>2. CASE ~m.frozen
  <2> DEFINE a == m.mmr0.aborts \cup causes
             mmr0 == [m.mmr0 EXCEPT !.aborts = a, !.mode = m.access_mode, !.page = va.page]
  <2>0. m.access_mode \in 0 .. 3 /\ va.page \in 0 .. KTPages - 1 /\ m.mmr0 \in Mmr0Record
    BY DEF MmuRecord, VirtualAddresses
  <2>1. a \in SUBSET {"READONLY", "NONRESIDENT", "LENGTH"} /\ a # {}
    BY <2>0 DEF Mmr0Record
  <2> HIDE DEF a
  <2>2. mmr0 \in Mmr0Record
    BY <2>0, <2>1 DEF Mmr0Record
  <2>3. mmr0.aborts = a /\ mmr0.maint = m.mmr0.maint /\ mmr0.enable = m.mmr0.enable
    BY <2>0 DEF Mmr0Record
  <2>4. Aborted(m, va, causes) = [m EXCEPT !.mmr0 = mmr0, !.frozen = TRUE]
    <3>1. Aborted(m, va, causes) =
            [m EXCEPT !.mmr0 = [m.mmr0 EXCEPT !.aborts = @ \cup causes, !.mode = m.access_mode, !.page = va.page], !.frozen = TRUE]
      BY <1>2 DEF Aborted
    <3> QED
      BY <2>0, <3>1 DEF a, MmuRecord, Mmr0Record
  <2> HIDE DEF mmr0
  <2>5. m.mmr0.aborts = {} /\ TRUE = (mmr0.aborts # {})
    BY <1>2, <2>1, <2>3 DEF Derived
  <2>6. After([m EXCEPT !.mmr0 = mmr0, !.frozen = TRUE], m, wrote)
    BY <2>2, <2>3, <2>5, ZeroMmr0
  <2>7. [m EXCEPT !.mmr0 = mmr0, !.frozen = TRUE].mmr0 = mmr0
    BY DEF MmuRecord
  <2> QED
    BY <2>1, <2>3, <2>4, <2>6, <2>7
<1> QED
  BY <1>1, <1>2

(* The W bit of page e. *)
LEMMA WBitIs ==
  ASSUME NEW m \in MmuRecord, NEW wrote \in SUBSET Entries, Derived(m, wrote), NEW e \in Entries, NEW bus \in BOOLEAN
  PROVE  After([m EXCEPT !.pdr[e].w = @ \/ bus], m, IF bus THEN wrote \cup {e} ELSE wrote)
<1> DEFINE b == m.pdr[e].w \/ bus
           r == [m.pdr[e] EXCEPT !.w = b]
           pdr == [m.pdr EXCEPT ![e] = r]
           n == [m EXCEPT !.pdr = pdr]
           after == IF bus THEN wrote \cup {e} ELSE wrote
<1>1. m.pdr \in [Entries -> PdrRecord] /\ m.pdr[e] \in PdrRecord
  BY DEF MmuRecord
<1>2. b \in BOOLEAN
  BY Zenon
<1>3. n = [m EXCEPT !.pdr[e].w = @ \/ bus]
  BY <1>1 DEF MmuRecord
<1>4. b = (e \in after)
  <2>1. m.pdr[e].w = (e \in wrote)
    BY DEF Derived
  <2>2. CASE bus
    <3>1. b /\ e \in after
      BY <2>2
    <3> QED
      BY <1>2, <3>1
  <2>3. CASE ~bus
    <3>1. after = wrote /\ m.pdr[e].w \in BOOLEAN
      BY <1>1, <2>3 DEF PdrRecord
    <3>2. b = m.pdr[e].w
      BY <2>3, <3>1
    <3> QED
      BY <2>1, <3>1, <3>2
  <2> QED
    BY <2>2, <2>3
<1>5. \A f \in Entries : f # e => (f \in after) = (f \in wrote)
  OBVIOUS
<1> HIDE DEF b, after
<1>6. r \in PdrRecord /\ r.w = b /\ r.plf = m.pdr[e].plf /\ r.ed = m.pdr[e].ed /\ r.acf = m.pdr[e].acf
  BY <1>1, <1>2 DEF PdrRecord
<1> HIDE DEF r
<1>7. pdr \in [Entries -> PdrRecord] /\ pdr[e] = r /\ \A f \in Entries : f # e => pdr[f] = m.pdr[f]
  BY <1>1, <1>6
<1> HIDE DEF pdr
<1>8. n \in MmuRecord
  BY <1>7 DEF MmuRecord
<1>9. /\ n.pdr = pdr /\ n.mmr0 = m.mmr0 /\ n.mmr1 = m.mmr1 /\ n.mmr2 = m.mmr2 /\ n.par = m.par
      /\ n.pages = m.pages /\ n.enabled = m.enabled /\ n.maint = m.maint /\ n.frozen = m.frozen
      /\ n.mode = m.mode /\ n.access_mode = m.access_mode
  BY DEF MmuRecord
<1> HIDE DEF n
<1>10. Derived(n, after)
  <2>1. \A f \in Entries : n.pages[f] = kt11d_rebuild(f, n.par[f], n.pdr[f]) /\ n.pdr[f].w = (f \in after)
    <3> SUFFICES ASSUME NEW f \in Entries
                 PROVE  n.pages[f] = kt11d_rebuild(f, n.par[f], n.pdr[f]) /\ n.pdr[f].w = (f \in after)
      OBVIOUS
    <3>1. CASE f = e
      BY <1>4, <1>6, <1>7, <1>9, <3>1 DEF Derived, kt11d_rebuild
    <3>2. CASE f # e
      BY <1>5, <1>7, <1>9, <3>2 DEF Derived
    <3> QED
      BY <3>1, <3>2
  <2> QED
    BY <1>9, <2>1 DEF Derived
<1> QED
  BY <1>3, <1>8, <1>9, <1>10 DEF After, after

(* An access that the descriptor refuses has a cause in the PDR. *)
LEMMA CausesAre ==
  ASSUME NEW m, NEW e, NEW par, NEW va, NEW access, m.pages[e] = kt11d_rebuild(e, par, m.pdr[e]),
         access \in m.pages[e].deny \/ ~InPage(m.pages[e], va.blk)
  PROVE  /\ Causes(m, e, va, access) \in SUBSET {"READONLY", "NONRESIDENT", "LENGTH"}
         /\ Causes(m, e, va, access) # {}
<1> DEFINE p == m.pages[e]
<1>1. Causes(m, e, va, access) \in SUBSET {"READONLY", "NONRESIDENT", "LENGTH"}
  BY DEF Causes
<1>2. CASE ~InPage(p, va.blk)
  BY <1>2 DEF Causes
<1>3. CASE access \in p.deny
  <2>1. p.deny = (CASE m.pdr[e].acf = "READWRITE" -> {} [] m.pdr[e].acf = "READONLY" -> {"WRITE"}
                    [] OTHER -> {"READ", "WRITE"})
    BY DEF kt11d_rebuild
  <2> HIDE DEF p
  <2>2. m.pdr[e].acf # "READWRITE" /\ (m.pdr[e].acf = "READONLY" => access = "WRITE")
    BY <1>3, <2>1
  <2> QED
    BY <2>2 DEF Causes
<1> QED
  BY <1>1, <1>2, <1>3

(* The pages written into after a reference of m that had the result r. *)
Wrote(m, r, va, access, wrote) ==
  IF (m.enabled \/ (m.maint /\ m.dest_ref)) /\ r.ok /\ access = "WRITE" /\ r.pa \notin KTOwn
  THEN wrote \cup {<<m.access_space, va.page>>} ELSE wrote

(* kt11d_relocate(): every reference leaves the descriptors and the registers in agreement. *)
LEMMA RelocateIs ==
  ASSUME NEW m \in MmuRecord, NEW wrote \in SUBSET Entries, Derived(m, wrote), NEW va \in VirtualAddresses,
         NEW access \in {"READ", "WRITE"}
  PROVE  After(kt11d_relocate(m, va, access).mmu, m, Wrote(m, kt11d_relocate(m, va, access), va, access, wrote))
<1> DEFINE e == <<m.access_space, va.page>>
           p == m.pages[e]
           seen == Seen(m, va)
           pa == (p.base + va.page * KTBlocks + va.blk) % KTPhysical
           bus == access = "WRITE" /\ pa \notin KTOwn
           off == ~m.enabled /\ ~(m.maint /\ m.dest_ref)
           r == kt11d_relocate(m, va, access)
           after == Wrote(m, r, va, access, wrote)
           denied == access \in p.deny \/ ~InPage(p, va.blk)
<1>1. e \in Entries
  BY DEF Entries, MmuRecord, VirtualAddresses
<1>2. After(m, m, wrote)
  BY DEF After
<1>3. After(seen, m, wrote) /\ seen.frozen = m.frozen /\ seen.pages = m.pages /\ seen.pdr = m.pdr
  BY SeenIs
<1>4. \A x, y : After(x, m, wrote) /\ After(y, x, after) => After(y, m, after)
  BY DEF After
<1>5. CASE off
  <2>1. r.mmu = m /\ after = wrote
    BY <1>5 DEF kt11d_relocate, Wrote
  <2> QED
    BY <1>2, <2>1
<1>6. CASE ~off /\ m.access_mode \notin Spaces
  <2>1. r.mmu = Aborted(m, va, {"NONRESIDENT"}) /\ ~r.ok
    BY <1>6 DEF kt11d_relocate
  <2>2. After(Aborted(m, va, {"NONRESIDENT"}), m, wrote)
    BY AbortedIs
  <2>3. after = wrote
    BY <2>1 DEF Wrote
  <2> QED
    BY <2>1, <2>2, <2>3
<1>7. CASE ~off /\ m.access_mode \in Spaces /\ denied
  <2>1. r = [ok |-> FALSE, pa |-> 0, mmu |-> Aborted(seen, va, Causes(m, e, va, access))]
    BY <1>7 DEF kt11d_relocate, Seen
  <2>2. m.pdr[e] \in PdrRecord /\ p = kt11d_rebuild(e, m.par[e], m.pdr[e])
    BY <1>1 DEF Derived, MmuRecord
  <2>3. /\ Causes(m, e, va, access) \in SUBSET {"READONLY", "NONRESIDENT", "LENGTH"}
        /\ Causes(m, e, va, access) # {}
    BY <1>7, <2>2, CausesAre
  <2>4. After(Aborted(seen, va, Causes(m, e, va, access)), seen, wrote)
    <3>1. seen \in MmuRecord /\ Derived(seen, wrote)
      BY <1>3 DEF After
    <3> HIDE DEF seen, e
    <3> QED
      BY <2>3, <3>1, AbortedIs
  <2>5. r.mmu = Aborted(seen, va, Causes(m, e, va, access)) /\ after = wrote
    BY <2>1 DEF Wrote
  <2> HIDE DEF after, r, seen
  <2>6. After(r.mmu, m, after)
    BY <1>3, <1>4, <2>4, <2>5
  <2> QED
    BY <2>6 DEF r, after
<1>8. CASE ~off /\ m.access_mode \in Spaces /\ ~denied
  <2>1. r = [ok |-> TRUE, pa |-> pa, mmu |-> [seen EXCEPT !.pdr[e].w = @ \/ bus]]
    <3> DEFINE A == [ok |-> TRUE, pa |-> kt11d_unrelocated(va), mmu |-> m]
               B == [ok |-> FALSE, pa |-> 0, mmu |-> Aborted(m, va, {"NONRESIDENT"})]
               C == [ok |-> FALSE, pa |-> 0, mmu |-> Aborted(seen, va, Causes(m, e, va, access))]
               D == [ok |-> TRUE, pa |-> pa, mmu |-> [seen EXCEPT !.pdr[e].w = @ \/ bus]]
               x == m.access_mode \notin Spaces
    <3>1. r = CASE off -> A [] OTHER -> IF x THEN B ELSE IF denied THEN C ELSE D
      BY Zenon DEF kt11d_relocate, Seen
    <3>2. ~off /\ ~x /\ ~denied
      BY <1>8
    <3> HIDE DEF A, B, C, D, off, x, denied, r
    <3>3. r = D
      BY <3>1, <3>2
    <3> QED
      BY <3>3 DEF D
  <2>2. bus \in BOOLEAN
    BY Zenon
  <2> HIDE DEF e, pa, seen
  <2>3. r.ok /\ r.pa = pa /\ r.mmu = [seen EXCEPT !.pdr[e].w = @ \/ bus]
    BY <2>1
  <2>4. after = (IF bus THEN wrote \cup {e} ELSE wrote)
    BY <1>8, <2>3 DEF Wrote, e
  <2> HIDE DEF bus, r, after
  <2>5. After([seen EXCEPT !.pdr[e].w = @ \/ bus], seen, IF bus THEN wrote \cup {e} ELSE wrote)
    <3>1. seen \in MmuRecord /\ Derived(seen, wrote)
      BY <1>3 DEF After
    <3> QED
      BY <1>1, <2>2, <3>1, WBitIs
  <2>6. After(r.mmu, m, after)
    BY <1>3, <1>4, <2>3, <2>4, <2>5
  <2> QED
    BY <2>6 DEF r, after
<1> QED
  BY <1>5, <1>6, <1>7, <1>8

LEMMA DestRef ==
  ASSUME NEW m \in MmuRecord, NEW wrote, Derived(m, wrote), NEW dest \in BOOLEAN
  PROVE  LET n == [m EXCEPT !.dest_ref = dest]
         IN  /\ After(n, m, wrote) /\ n.dest_ref = dest /\ n.access_space = m.access_space
             /\ n.enabled = m.enabled /\ n.maint = m.maint /\ n.mmr0 = m.mmr0
<1> DEFINE n == [m EXCEPT !.dest_ref = dest]
<1>1. n \in MmuRecord
  BY DEF MmuRecord
<1>2. /\ n.dest_ref = dest /\ n.access_space = m.access_space /\ n.access_mode = m.access_mode
      /\ n.mmr0 = m.mmr0 /\ n.mmr1 = m.mmr1 /\ n.mmr2 = m.mmr2 /\ n.par = m.par /\ n.pdr = m.pdr
      /\ n.pages = m.pages /\ n.enabled = m.enabled /\ n.frozen = m.frozen /\ n.maint = m.maint
      /\ n.mode = m.mode /\ n.prev_mode = m.prev_mode
  BY DEF MmuRecord
<1> HIDE DEF n
<1>3. Derived(n, wrote)
  BY <1>2 DEF Derived
<1>4. After(n, m, wrote)
  BY <1>1, <1>2, <1>3 DEF After
<1> QED
  BY <1>2, <1>4 DEF n

(* m is the KT11-D with another space or mode for the next reference. *)
Kept(m) ==
  /\ m \in MmuRecord /\ Derived(m, mmu_wrote) /\ m.mmr0 = mmu.mmr0 /\ m.mmr1 = mmu.mmr1 /\ m.mmr2 = mmu.mmr2
  /\ m.enabled = mmu.enabled /\ m.maint = mmu.maint /\ m.mode = mmu.mode

LEMMA ReferenceKeeps ==
  ASSUME KTInv, NEW how \in {"current", "kernel", "previous"}, NEW dest \in BOOLEAN,
         NEW va \in VirtualAddresses, NEW access \in {"READ", "WRITE"}, Reference(how, dest, va, access)
  PROVE  KTInv' /\ (mmu.mmr0.aborts # {} => SameAbort(mmu'))
<1> DEFINE m == CASE how = "current" -> mmu
                  [] how = "kernel" -> kt11d_set_access(mmu, KERNEL, KERNEL)
                  [] how = "previous" -> kt11d_set_access(mmu, SpaceOf(mmu.prev_mode), mmu.prev_mode)
           d == [m EXCEPT !.dest_ref = dest]
           r == kt11d_relocate(d, va, access)
           e == <<m.access_space, va.page>>
           relocated == mmu.enabled \/ (mmu.maint /\ dest)
           wrote == Wrote(d, r, va, access, mmu_wrote)
           n == kt11d_set_access(r.mmu, SpaceOf(mmu.mode), mmu.mode)
<1>1. /\ mmu' = [n EXCEPT !.dest_ref = FALSE]
      /\ mmu_wrote' = IF relocated /\ r.ok /\ access = "WRITE" /\ r.pa \notin KTOwn
                      THEN mmu_wrote \cup {e} ELSE mmu_wrote
  BY DEF Reference
<1>2. mmu \in MmuRecord /\ mmu_wrote \in SUBSET Entries /\ Derived(mmu, mmu_wrote)
  BY DEF KTInv
<1>3. \A x : SpaceOf(x) \in Spaces
  BY DEF SpaceOf, Spaces
<1>4. mmu.mode \in 0 .. 3 /\ mmu.prev_mode \in 0 .. 3
  BY <1>2 DEF MmuRecord
<1>5. Kept(m)
  <2>1. ASSUME NEW space \in Spaces, NEW mode \in 0 .. 3 PROVE Kept(kt11d_set_access(mmu, space, mode))
    <3> DEFINE x == kt11d_set_access(mmu, space, mode)
    <3>1. /\ x \in MmuRecord /\ x.mmr0 = mmu.mmr0 /\ x.mmr1 = mmu.mmr1 /\ x.mmr2 = mmu.mmr2 /\ x.par = mmu.par
          /\ x.pdr = mmu.pdr /\ x.pages = mmu.pages /\ x.enabled = mmu.enabled /\ x.frozen = mmu.frozen
          /\ x.maint = mmu.maint /\ x.mode = mmu.mode
      BY <1>2, SetAccess DEF SameRegisters
    <3> HIDE DEF x
    <3> QED
      BY <1>2, <3>1 DEF Derived, Kept, x
  <2>2. KERNEL \in Spaces /\ KERNEL \in 0 .. 3
    BY DEF KERNEL, Spaces
  <2>3. Kept(kt11d_set_access(mmu, KERNEL, KERNEL))
    BY <2>1, <2>2
  <2>4. Kept(kt11d_set_access(mmu, SpaceOf(mmu.prev_mode), mmu.prev_mode))
    BY <1>3, <1>4, <2>1
  <2>5. Kept(mmu)
    BY <1>2 DEF Kept
  <2>6. \/ m = mmu \/ m = kt11d_set_access(mmu, KERNEL, KERNEL)
        \/ m = kt11d_set_access(mmu, SpaceOf(mmu.prev_mode), mmu.prev_mode)
    OBVIOUS
  <2> HIDE DEF m
  <2> QED
    BY <2>3, <2>4, <2>5, <2>6 DEF Kept
<1> HIDE DEF m
<1>6. Kept(d) /\ d.dest_ref = dest /\ d.access_space = m.access_space
  <2>1. After(d, m, mmu_wrote) /\ d.dest_ref = dest /\ d.access_space = m.access_space
        /\ d.enabled = m.enabled /\ d.maint = m.maint /\ d.mmr0 = m.mmr0
    BY <1>5, DestRef DEF Kept
  <2> HIDE DEF d
  <2> QED
    BY <1>5, <2>1 DEF After, Kept
<1> HIDE DEF d
<1>7. After(r.mmu, d, wrote)
  BY <1>2, <1>6, RelocateIs DEF Kept
<1>8. m.access_space \in Spaces
  BY <1>5 DEF Kept, MmuRecord
<1>9. wrote \subseteq Entries
  BY <1>2, <1>6, <1>8 DEF Entries, VirtualAddresses, Wrote
<1>12. mmu_wrote' = wrote
  BY <1>1, <1>6 DEF Wrote, Kept
<1> HIDE DEF r, wrote
<1>10. /\ n \in MmuRecord /\ Derived(n, wrote) /\ (mmu.mmr0.aborts # {} => n.mmr0 = mmu.mmr0)
       /\ n.mmr1 = mmu.mmr1 /\ n.mmr2 = mmu.mmr2
  <2> DEFINE q == r.mmu
  <2>1. /\ q \in MmuRecord /\ Derived(q, wrote) /\ (mmu.mmr0.aborts # {} => q.mmr0 = mmu.mmr0)
        /\ q.mmr1 = mmu.mmr1 /\ q.mmr2 = mmu.mmr2
    BY <1>6, <1>7 DEF After, Kept
  <2> HIDE DEF q
  <2>2. n = kt11d_set_access(q, SpaceOf(mmu.mode), mmu.mode)
    BY DEF q
  <2> HIDE DEF n
  <2>3. /\ n \in MmuRecord
        /\ n.mmr0 = q.mmr0 /\ n.mmr1 = q.mmr1 /\ n.mmr2 = q.mmr2 /\ n.par = q.par /\ n.pdr = q.pdr
        /\ n.pages = q.pages /\ n.enabled = q.enabled /\ n.frozen = q.frozen /\ n.maint = q.maint
    <3> DEFINE space == SpaceOf(mmu.mode)
               mode == mmu.mode
    <3>1. space \in Spaces /\ mode \in 0 .. 3 /\ q \in MmuRecord
      BY <1>3, <1>4, <2>1
    <3>2. n = kt11d_set_access(q, space, mode)
      BY <2>2
    <3> HIDE DEF space, mode
    <3>3. n \in MmuRecord /\ SameRegisters(n, q)
      BY <3>1, <3>2, SetAccess
    <3> QED
      BY <3>3 DEF SameRegisters
  <2> QED
    BY <2>1, <2>3 DEF Derived
<1> HIDE DEF n
<1> DEFINE z == [n EXCEPT !.dest_ref = FALSE]
<1>11. After(z, n, wrote) /\ z.mmr0 = n.mmr0
  BY <1>10, FALSE \in BOOLEAN, DestRef
<1>13. mmu' = z
  BY <1>1
<1> HIDE DEF z
<1>14. z \in MmuRecord /\ Derived(z, wrote) /\ z.mmr1 = mmu.mmr1 /\ z.mmr2 = mmu.mmr2
       /\ (mmu.mmr0.aborts # {} => z.mmr0 = mmu.mmr0)
  BY <1>10, <1>11 DEF After
<1>15. KTInv'
  <2>1. mmu' \in MmuRecord /\ mmu_wrote' \subseteq Entries
    BY <1>9, <1>12, <1>13, <1>14
  <2>2. Derived(mmu', mmu_wrote')
    BY <1>12, <1>13, <1>14 DEF Derived
  <2> QED
    BY <2>1, <2>2 DEF KTInv
<1> QED
  BY <1>13, <1>14, <1>15 DEF SameAbort

(* kt11d_rebuild_all() brings what is derived up to date. *)
LEMMA RebuildAllKeeps ==
  ASSUME NEW m \in MmuRecord, NEW wrote, \A e \in Entries : m.pdr[e].w = (e \in wrote)
  PROVE  kt11d_rebuild_all(m) \in MmuRecord /\ Derived(kt11d_rebuild_all(m), wrote)
<1> DEFINE pages == [e \in Entries |-> kt11d_rebuild(e, m.par[e], m.pdr[e])]
           frozen == m.mmr0.aborts # {}
           maint == m.mmr0.maint
           enabled == m.mmr0.enable
           n == [m EXCEPT !.enabled = enabled, !.frozen = frozen, !.maint = maint, !.pages = pages]
<1>1. n = kt11d_rebuild_all(m)
  BY Zenon DEF kt11d_rebuild_all
<1>2. m.par \in [Entries -> Int] /\ m.pdr \in [Entries -> PdrRecord] /\ m.mmr0 \in Mmr0Record
  BY DEF MmuRecord
<1>3. pages \in [Entries -> PageRecord] /\ frozen \in BOOLEAN /\ maint \in BOOLEAN /\ enabled \in BOOLEAN
  BY <1>2, RebuildAllIs DEF Mmr0Record
<1>4. \A e \in Entries : pages[e] = kt11d_rebuild(e, m.par[e], m.pdr[e])
  OBVIOUS
<1>5. frozen = (m.mmr0.aborts # {})
  OBVIOUS
<1>6. maint = m.mmr0.maint /\ enabled = m.mmr0.enable
  OBVIOUS
<1> HIDE DEF pages, frozen, maint, enabled
<1>7. n \in MmuRecord
  BY <1>3 DEF MmuRecord
<1>8. /\ n.enabled = enabled /\ n.frozen = frozen /\ n.maint = maint /\ n.pages = pages
      /\ n.mmr0 = m.mmr0 /\ n.par = m.par /\ n.pdr = m.pdr
  BY DEF MmuRecord
<1> HIDE DEF n
<1>9. Derived(n, wrote)
  BY <1>4, <1>5, <1>6, <1>8 DEF Derived
<1> QED
  BY <1>1, <1>7, <1>9

(* kt11d_write_reg() of a PAR or a PDR: the pair e is now par and pdr, with W clear. *)
WritesPair(e, par, pdr) ==
  /\ pdr.w = FALSE /\ mmu_wrote' = mmu_wrote \ {e}
  /\ mmu' = [mmu EXCEPT !.par = [@ EXCEPT ![e] = par], !.pdr = [@ EXCEPT ![e] = pdr],
                        !.pages = [@ EXCEPT ![e] = kt11d_rebuild(e, par, pdr)]]

LEMMA WritePairKeeps ==
  ASSUME KTInv, NEW e \in Entries, NEW par \in Int, NEW pdr \in PdrRecord, WritesPair(e, par, pdr)
  PROVE  KTInv' /\ SameAbort(mmu')
<1> DEFINE page == kt11d_rebuild(e, par, pdr)
           pars == [mmu.par EXCEPT ![e] = par]
           pdrs == [mmu.pdr EXCEPT ![e] = pdr]
           pages == [mmu.pages EXCEPT ![e] = page]
           n == [mmu EXCEPT !.par = pars, !.pdr = pdrs, !.pages = pages]
<1>1. mmu \in MmuRecord /\ mmu_wrote \subseteq Entries /\ Derived(mmu, mmu_wrote)
  BY DEF KTInv
<1>2. mmu.par \in [Entries -> Int] /\ mmu.pdr \in [Entries -> PdrRecord] /\ mmu.pages \in [Entries -> PageRecord]
  BY <1>1 DEF MmuRecord
<1>3. page \in PageRecord /\ page = kt11d_rebuild(e, par, pdr) /\ pdr.w = FALSE /\ mmu_wrote' = mmu_wrote \ {e}
  BY RebuildIs DEF WritesPair
<1> HIDE DEF page
<1>4. pars \in [Entries -> Int] /\ pdrs \in [Entries -> PdrRecord] /\ pages \in [Entries -> PageRecord]
  BY <1>2, <1>3
<1>5. /\ pars[e] = par /\ pdrs[e] = pdr /\ pages[e] = page
      /\ \A f \in Entries : f # e => pars[f] = mmu.par[f] /\ pdrs[f] = mmu.pdr[f] /\ pages[f] = mmu.pages[f]
  BY <1>2
<1>6. mmu' = n
  BY <1>1 DEF MmuRecord, WritesPair, page
<1> HIDE DEF pars, pdrs, pages
<1>7. n \in MmuRecord
  BY <1>1, <1>4 DEF MmuRecord
<1>8. /\ n.par = pars /\ n.pdr = pdrs /\ n.pages = pages /\ n.mmr0 = mmu.mmr0 /\ n.mmr1 = mmu.mmr1
      /\ n.mmr2 = mmu.mmr2 /\ n.enabled = mmu.enabled /\ n.frozen = mmu.frozen /\ n.maint = mmu.maint
  BY <1>1 DEF MmuRecord
<1> HIDE DEF n
<1>9. Derived(n, mmu_wrote \ {e})
  <2>1. ASSUME NEW f \in Entries
        PROVE  n.pages[f] = kt11d_rebuild(f, n.par[f], n.pdr[f]) /\ n.pdr[f].w = (f \in mmu_wrote \ {e})
    <3>1. CASE f = e
      <4>1. n.pages[f] = page /\ n.par[f] = par /\ n.pdr[f] = pdr
        BY <1>5, <1>8, <3>1
      <4>2. (f \in mmu_wrote \ {e}) = FALSE
        BY <3>1
      <4>3. n.pages[f] = kt11d_rebuild(f, n.par[f], n.pdr[f])
        BY <1>3, <3>1, <4>1
      <4> QED
        BY <1>3, <4>1, <4>2, <4>3
    <3>2. CASE f # e
      <4>1. (f \in mmu_wrote \ {e}) = (f \in mmu_wrote)
        BY <3>2
      <4> QED
        BY <1>1, <1>5, <1>8, <3>2, <4>1 DEF Derived
    <3> QED
      BY <3>1, <3>2
  <2> QED
    BY <1>1, <1>8, <2>1 DEF Derived
<1>10. KTInv'
  BY <1>1, <1>3, <1>6, <1>7, <1>9 DEF KTInv
<1> QED
  BY <1>6, <1>8, <1>10 DEF SameAbort

LEMMA WritePARKeeps ==
  ASSUME KTInv, NEW e \in KTEntries, NEW par \in KTPars, WritePAR(e, par)
  PROVE  KTInv' /\ SameAbort(mmu')
<1> DEFINE pdr == [mmu.pdr[e] EXCEPT !.w = FALSE]
           page == kt11d_rebuild(e, par, pdr)
<1>1. e \in Entries
  BY KTAssumption DEF Entries, Spaces, KERNEL, USER
<1>2. par \in Int
  BY KTAssumption, Sizes
<1>3. mmu \in MmuRecord /\ mmu.pdr \in [Entries -> PdrRecord] /\ mmu.pdr[e] \in PdrRecord
  BY <1>1 DEF KTInv, MmuRecord
<1>4. pdr \in PdrRecord /\ pdr.w = FALSE /\ pdr.plf = mmu.pdr[e].plf /\ pdr.ed = mmu.pdr[e].ed /\ pdr.acf = mmu.pdr[e].acf
  BY <1>3 DEF PdrRecord
<1> HIDE DEF pdr
<1>5. page = kt11d_rebuild(e, par, mmu.pdr[e])
  BY <1>4 DEF kt11d_rebuild
<1>6. mmu' = [mmu EXCEPT !.par = [@ EXCEPT ![e] = par], !.pdr = [@ EXCEPT ![e] = pdr],
                         !.pages = [@ EXCEPT ![e] = page]]
  <2>1. mmu' = [mmu EXCEPT !.par[e] = par, !.pdr[e].w = FALSE, !.pages[e] = kt11d_rebuild(e, par, mmu.pdr[e])]
    BY DEF WritePAR
  <2> HIDE DEF page
  <2> QED
    BY <1>3, <1>5, <2>1 DEF pdr, MmuRecord
<1>7. mmu_wrote' = mmu_wrote \ {e}
  BY DEF WritePAR
<1>8. WritesPair(e, par, pdr)
  BY <1>4, <1>6, <1>7, Zenon DEF WritesPair
<1> QED
  BY <1>1, <1>2, <1>4, <1>8, WritePairKeeps

LEMMA WritePDRKeeps ==
  ASSUME KTInv, NEW e \in KTEntries, NEW pdr \in KTPdrs, WritePDR(e, pdr)
  PROVE  KTInv' /\ SameAbort(mmu')
<1> DEFINE new == [pdr EXCEPT !.w = FALSE]
           par == mmu.par[e]
           page == kt11d_rebuild(e, par, new)
<1>1. e \in Entries
  BY KTAssumption DEF Entries, Spaces, KERNEL, USER
<1>2. pdr \in PdrRecord
  BY KTAssumption DEF PdrRecord
<1>3. mmu \in MmuRecord /\ mmu.par \in [Entries -> Int] /\ par \in Int
  BY <1>1 DEF KTInv, MmuRecord
<1>4. new \in PdrRecord /\ new.w = FALSE /\ new.plf = pdr.plf /\ new.ed = pdr.ed /\ new.acf = pdr.acf
  BY <1>2 DEF PdrRecord
<1> HIDE DEF new
<1>5. page = kt11d_rebuild(e, par, pdr)
  BY <1>4 DEF kt11d_rebuild
<1>6. mmu' = [mmu EXCEPT !.par = [@ EXCEPT ![e] = par], !.pdr = [@ EXCEPT ![e] = new],
                         !.pages = [@ EXCEPT ![e] = page]]
  <2>1. mmu' = [mmu EXCEPT !.pdr[e] = [pdr EXCEPT !.w = FALSE], !.pages[e] = kt11d_rebuild(e, mmu.par[e], pdr)]
    BY DEF WritePDR
  <2>2. [mmu.par EXCEPT ![e] = par] = mmu.par
    BY <1>3
  <2> HIDE DEF page
  <2>3. mmu' = [mmu EXCEPT !.pdr[e] = new, !.pages[e] = page]
    BY <1>5, <2>1 DEF new
  <2> HIDE DEF par
  <2> QED
    BY <1>3, <2>2, <2>3 DEF MmuRecord
<1>7. mmu_wrote' = mmu_wrote \ {e}
  BY DEF WritePDR
<1>8. WritesPair(e, par, new)
  BY <1>4, <1>6, <1>7, Zenon DEF WritesPair
<1> HIDE DEF par
<1> QED
  BY <1>1, <1>3, <1>4, <1>8, WritePairKeeps

LEMMA WriteMMR0Keeps ==
  ASSUME KTInv, NEW aborts \in {{}, {"LENGTH"}}, NEW maint \in BOOLEAN, NEW enable \in BOOLEAN,
         WriteMMR0(aborts, maint, enable)
  PROVE  KTInv'
<1> DEFINE mmr0 == [mmu.mmr0 EXCEPT !.aborts = aborts, !.maint = maint, !.enable = enable]
           m == [mmu EXCEPT !.mmr0 = mmr0]
<1>1. mmu \in MmuRecord /\ mmu.mmr0 \in Mmr0Record /\ Derived(mmu, mmu_wrote) /\ mmu_wrote \subseteq Entries
  BY DEF KTInv, MmuRecord
<1>2. mmr0 \in Mmr0Record
  BY <1>1 DEF Mmr0Record
<1>3. mmu' = kt11d_rebuild_all(m) /\ mmu_wrote' = mmu_wrote
  BY <1>1 DEF WriteMMR0, MmuRecord
<1> HIDE DEF mmr0
<1>4. m \in MmuRecord /\ m.pdr = mmu.pdr
  BY <1>1, <1>2 DEF MmuRecord
<1> HIDE DEF m
<1>5. \A e \in Entries : m.pdr[e].w = (e \in mmu_wrote)
  BY <1>1, <1>4 DEF Derived
<1> QED
  BY <1>1, <1>3, <1>4, <1>5, RebuildAllKeeps DEF KTInv

LEMMA ResetKeeps ==
  ASSUME KTInv, RESET
  PROVE  KTInv'
<1> DEFINE m == [mmu EXCEPT !.mmr0 = NoMmr0, !.mmr1 = <<>>, !.mmr2 = 0]
<1>1. mmu \in MmuRecord /\ Derived(mmu, mmu_wrote) /\ mmu_wrote \subseteq Entries
  BY DEF KTInv
<1>2. NoMmr0 \in Mmr0Record
  BY Sizes DEF NoMmr0, Mmr0Record, KERNEL
<1>3. <<>> \in Seq(KTRegisters)
  OBVIOUS
<1>4. mmu' = kt11d_rebuild_all(m) /\ mmu_wrote' = mmu_wrote
  BY DEF RESET, kt11d_init
<1>5. m \in MmuRecord /\ m.pdr = mmu.pdr
  BY <1>1, <1>2, <1>3 DEF MmuRecord
<1> HIDE DEF m
<1>6. \A e \in Entries : m.pdr[e].w = (e \in mmu_wrote)
  BY <1>1, <1>5 DEF Derived
<1> QED
  BY <1>1, <1>4, <1>5, <1>6, RebuildAllKeeps DEF KTInv

LEMMA PowerUpIs == kt11d_reset \in MmuRecord /\ Derived(kt11d_reset, {})
<1> DEFINE par == [e \in Entries |-> 0]
           pdr == [e \in Entries |-> NoPdr]
           pages == [e \in Entries |-> kt11d_rebuild(e, par[e], pdr[e])]
           m == [mmr0 |-> NoMmr0, mmr1 |-> <<>>, mmr2 |-> 0, par |-> par, pdr |-> pdr, pages |-> <<>>,
                 enabled |-> FALSE, frozen |-> FALSE, maint |-> FALSE, mode |-> KERNEL, prev_mode |-> KERNEL,
                 access_space |-> KERNEL, access_mode |-> KERNEL, dest_ref |-> FALSE]
           z == [mmr0 |-> NoMmr0, mmr1 |-> <<>>, mmr2 |-> 0, par |-> par, pdr |-> pdr, pages |-> pages,
                 enabled |-> FALSE, frozen |-> FALSE, maint |-> FALSE, mode |-> KERNEL, prev_mode |-> KERNEL,
                 access_space |-> KERNEL, access_mode |-> KERNEL, dest_ref |-> FALSE]
<1>1. NoPdr \in PdrRecord /\ NoPdr.w = FALSE
  BY Sizes DEF NoPdr, PdrRecord
<1>2. NoMmr0 \in Mmr0Record /\ NoMmr0.aborts = {} /\ NoMmr0.maint = FALSE /\ NoMmr0.enable = FALSE
  BY Sizes DEF NoMmr0, Mmr0Record, KERNEL
<1>3. kt11d_reset = kt11d_rebuild_all(m)
  BY Zenon DEF kt11d_reset
<1>4. par \in [Entries -> Int] /\ pdr \in [Entries -> PdrRecord] /\ \A e \in Entries : pdr[e].w = (e \in {})
  <2>1. ASSUME NEW e \in Entries PROVE pdr[e].w = (e \in {})
    <3>1. pdr[e].w = FALSE
      BY <1>1
    <3>2. (e \in {}) = FALSE
      OBVIOUS
    <3> QED
      BY <3>1, <3>2
  <2> QED
    BY <1>1, <2>1
<1>5. pages \in [Entries -> PageRecord]
  BY <1>2, <1>4, RebuildAllIs
<1>6. KERNEL \in Spaces /\ KERNEL \in 0 .. 3 /\ <<>> \in Seq(KTRegisters)
  BY DEF KERNEL, Spaces
<1>7. (NoMmr0.aborts # {}) = FALSE
  BY <1>2
<1>8. kt11d_rebuild_all(m) =
        [m EXCEPT !.enabled = m.mmr0.enable, !.frozen = m.mmr0.aborts # {}, !.maint = m.mmr0.maint,
                  !.pages = [e \in Entries |-> kt11d_rebuild(e, m.par[e], m.pdr[e])]]
  BY Zenon DEF kt11d_rebuild_all
<1>9. m.mmr0 = NoMmr0 /\ m.par = par /\ m.pdr = pdr
  OBVIOUS
<1>10. kt11d_rebuild_all(m) = [m EXCEPT !.enabled = FALSE, !.frozen = FALSE, !.maint = FALSE, !.pages = pages]
  <2> HIDE DEF m, par, pdr
  <2> QED
    BY <1>2, <1>7, <1>8, <1>9
<1>11. \A e \in Entries : pages[e] = kt11d_rebuild(e, par[e], pdr[e])
  OBVIOUS
<1> HIDE DEF par, pdr, pages
<1>12. kt11d_reset = z
  BY <1>3, <1>10
<1>13. z \in MmuRecord
  BY <1>2, <1>4, <1>5, <1>6 DEF MmuRecord
<1>14. z.mmr0 = NoMmr0 /\ z.par = par /\ z.pdr = pdr /\ z.pages = pages /\ z.enabled = FALSE
       /\ z.frozen = FALSE /\ z.maint = FALSE
  OBVIOUS
<1> HIDE DEF z
<1> QED
  BY <1>2, <1>4, <1>7, <1>11, <1>12, <1>13, <1>14 DEF Derived

(* The steps that leave the registers and the descriptors alone. *)
LEMMA KTOthersKeep ==
  ASSUME KTInv, NEW n, n \in MmuRecord, n.mmr0 = mmu.mmr0, n.par = mmu.par, n.pdr = mmu.pdr, n.pages = mmu.pages,
         n.enabled = mmu.enabled, n.frozen = mmu.frozen, n.maint = mmu.maint, mmu' = n, mmu_wrote' = mmu_wrote
  PROVE  KTInv'
BY DEF KTInv, Derived

LEMMA SetPSWKeeps ==
  ASSUME KTInv, NEW p \in KTModes, SetPSW(p[1], p[2])
  PROVE  KTInv' /\ SameAbort(mmu')
<1> DEFINE m == [mmu EXCEPT !.mode = p[1], !.prev_mode = p[2]]
           space == SpaceOf(p[1])
           mode == p[1]
           n == kt11d_set_access(m, space, mode)
<1>1. mmu \in MmuRecord
  BY DEF KTInv
<1>2. p[1] \in 0 .. 3 /\ p[2] \in 0 .. 3
  BY KTAssumption
<1>3. space \in Spaces /\ mode \in 0 .. 3
  BY <1>2 DEF SpaceOf, Spaces
<1>4. m \in MmuRecord /\ SameRegisters(m, mmu)
  BY <1>1, <1>2 DEF MmuRecord, SameRegisters
<1>5. mmu' = n /\ mmu_wrote' = mmu_wrote
  BY DEF SetPSW, kt11d_set_modes
<1> HIDE DEF m, space, mode
<1>6. n \in MmuRecord /\ SameRegisters(n, m)
  BY <1>3, <1>4, SetAccess
<1> HIDE DEF n
<1>7. SameRegisters(n, mmu)
  BY <1>4, <1>6 DEF SameRegisters
<1> QED
  BY <1>5, <1>6, <1>7, KTOthersKeep DEF SameRegisters, SameAbort

LEMMA FetchedKeeps ==
  ASSUME KTInv, InstructionStart \/ \E pc \in KTInstructions : InstructionFetched(pc)
  PROVE  KTInv' /\ mmu.mmr0.aborts = {}
<1>0. PICK s \in {<<>>, mmu.mmr1}, pc \in KTInstructions \cup {mmu.mmr2} :
        mmu' = [mmu EXCEPT !.mmr1 = s, !.mmr2 = pc]
  <2>1. CASE InstructionStart
    <3>1. mmu' = [mmu EXCEPT !.mmr1 = <<>>, !.mmr2 = mmu.mmr2]
      BY <2>1 DEF KTInv, MmuRecord, InstructionStart
    <3> QED
      BY <3>1
  <2>2. ASSUME NEW p \in KTInstructions, InstructionFetched(p)
        PROVE  mmu' = [mmu EXCEPT !.mmr1 = mmu.mmr1, !.mmr2 = p]
    BY <2>2 DEF KTInv, MmuRecord, InstructionFetched
  <2> QED
    BY <2>1, <2>2
<1> DEFINE n == [mmu EXCEPT !.mmr1 = s, !.mmr2 = pc]
<1>1. mmu \in MmuRecord /\ Derived(mmu, mmu_wrote)
  BY DEF KTInv
<1>2. mmu' = n /\ mmu_wrote' = mmu_wrote /\ ~mmu.frozen
  BY <1>0 DEF InstructionStart, InstructionFetched
<1>3. s \in Seq(KTRegisters)
  <2>1. mmu.mmr1 \in Seq(KTRegisters) /\ <<>> \in Seq(KTRegisters)
    BY <1>1 DEF MmuRecord
  <2> QED
    BY <2>1
<1>4. n \in MmuRecord
  BY <1>1, <1>3 DEF MmuRecord
<1>5. /\ n.mmr0 = mmu.mmr0 /\ n.par = mmu.par /\ n.pdr = mmu.pdr /\ n.pages = mmu.pages
      /\ n.enabled = mmu.enabled /\ n.frozen = mmu.frozen /\ n.maint = mmu.maint
  BY <1>1 DEF MmuRecord
<1> HIDE DEF n
<1>6. KTInv'
  BY <1>2, <1>4, <1>5, KTOthersKeep
<1> QED
  BY <1>1, <1>2, <1>6 DEF Derived

LEMMA LogRegisterKeeps ==
  ASSUME KTInv, NEW r \in KTRegisters, LogRegister(r)
  PROVE  KTInv' /\ mmu.mmr0.aborts = {}
<1> DEFINE s == Append(mmu.mmr1, r)
           n == [mmu EXCEPT !.mmr1 = s]
<1>1. mmu \in MmuRecord /\ Derived(mmu, mmu_wrote) /\ mmu.mmr1 \in Seq(KTRegisters)
  BY DEF KTInv, MmuRecord
<1>2. mmu' = n /\ mmu_wrote' = mmu_wrote /\ ~mmu.frozen
  BY <1>1 DEF LogRegister, MmuRecord
<1>3. s \in Seq(KTRegisters)
  BY <1>1
<1> HIDE DEF s
<1>4. n \in MmuRecord
  BY <1>1, <1>3 DEF MmuRecord
<1>5. /\ n.mmr0 = mmu.mmr0 /\ n.par = mmu.par /\ n.pdr = mmu.pdr /\ n.pages = mmu.pages
      /\ n.enabled = mmu.enabled /\ n.frozen = mmu.frozen /\ n.maint = mmu.maint
  BY <1>1 DEF MmuRecord
<1> HIDE DEF n
<1>6. KTInv'
  BY <1>2, <1>4, <1>5, KTOthersKeep
<1> QED
  BY <1>1, <1>2, <1>6 DEF Derived

(* What FirstAbortKept says of a step. *)
AbortStep ==
  mmu.mmr0.aborts # {} =>
    \/ mmu'.mmr0 = mmu.mmr0 /\ mmu'.mmr1 = mmu.mmr1 /\ mmu'.mmr2 = mmu.mmr2
    \/ \E maint, enable \in BOOLEAN, aborts \in {{}, {"LENGTH"}} : WriteMMR0(aborts, maint, enable)
    \/ RESET \/ PowerUp

LEMMA KTSteps ==
  ASSUME KTInv, [KTNext]_ktvars
  PROVE  KTInv' /\ AbortStep
<1>0. SameAbort(mmu') => AbortStep
  BY DEF SameAbort, AbortStep
<1>1. CASE \E how \in {"current", "kernel", "previous"}, dest \in BOOLEAN,
              va \in VirtualAddresses, access \in {"READ", "WRITE"} : Reference(how, dest, va, access)
  <2>1. KTInv' /\ (mmu.mmr0.aborts # {} => SameAbort(mmu'))
    BY <1>1, ReferenceKeeps
  <2> QED
    BY <1>0, <2>1 DEF AbortStep
<1>2. CASE \E e \in KTEntries : \/ \E par \in KTPars : WritePAR(e, par)
                                \/ \E pdr \in KTPdrs : WritePDR(e, pdr)
  BY <1>0, <1>2, WritePARKeeps, WritePDRKeeps
<1>3. CASE \E aborts \in {{}, {"LENGTH"}}, maint, enable \in BOOLEAN : WriteMMR0(aborts, maint, enable)
  <2>1. KTInv'
    BY <1>3, WriteMMR0Keeps
  <2>2. AbortStep
    BY <1>3, Zenon DEF AbortStep
  <2> QED
    BY <2>1, <2>2
<1>4. CASE \E p \in KTModes : SetPSW(p[1], p[2])
  BY <1>0, <1>4, SetPSWKeeps
<1>5. CASE RESET
  BY <1>5, ResetKeeps DEF AbortStep
<1>6. CASE PowerUp
  BY <1>6, PowerUpIs DEF AbortStep, PowerUp, KTInv
<1>7. CASE InstructionStart \/ \E pc \in KTInstructions : InstructionFetched(pc)
  BY <1>7, FetchedKeeps DEF AbortStep
<1>8. CASE \E r \in KTRegisters : LogRegister(r)
  BY <1>8, LogRegisterKeeps DEF AbortStep
<1>9. CASE UNCHANGED ktvars
  BY <1>9 DEF ktvars, KTInv, Derived, AbortStep
<1> QED
  BY <1>1, <1>2, <1>3, <1>4, <1>5, <1>6, <1>7, <1>8, <1>9 DEF KTNext

(* The PDR's rule, as its descriptor states it. *)
LEMMA PermittedIs ==
  ASSUME NEW e \in Entries, NEW par \in Int, NEW pdr \in PdrRecord, NEW blk \in 0 .. KTBlocks - 1,
         NEW access \in {"READ", "WRITE"}
  PROVE  Permitted(pdr, blk, access) =
           (access \notin kt11d_rebuild(e, par, pdr).deny /\ InPage(kt11d_rebuild(e, par, pdr), blk))
<1> DEFINE p == kt11d_rebuild(e, par, pdr)
           plf == pdr.plf
           acf == pdr.acf
           permitted == acf = "READWRITE" \/ (acf = "READONLY" /\ access = "READ")
           inside == IF pdr.ed THEN blk >= plf ELSE blk <= plf
<1>1. p.deny = (CASE acf = "READWRITE" -> {} [] acf = "READONLY" -> {"WRITE"} [] OTHER -> {"READ", "WRITE"})
  BY DEF kt11d_rebuild
<1>2. p.blk_lo = (IF pdr.ed THEN plf ELSE 0) /\ p.blk_span = (IF pdr.ed THEN KTBlocks - 1 - plf ELSE plf)
  BY DEF kt11d_rebuild
<1>3. plf \in 0 .. KTBlocks - 1 /\ pdr.ed \in BOOLEAN
  BY DEF PdrRecord
<1>4. Permitted(pdr, blk, access) = (permitted /\ inside)
  BY Zenon DEF Permitted
<1> HIDE DEF p, plf
<1>5. permitted <=> access \notin p.deny
  <2> HIDE DEF acf
  <2> QED
    BY <1>1
<1>6. inside <=> InPage(p, blk)
  BY <1>2, <1>3, Sizes DEF InPage
<1> HIDE DEF permitted, inside
<1>7. (permitted /\ inside) = (access \notin p.deny /\ InPage(p, blk))
  BY <1>5, <1>6
<1> QED
  BY <1>4, <1>7 DEF p

LEMMA AbortIsKept ==
  ASSUME NEW m \in MmuRecord, m.frozen = (m.mmr0.aborts # {}), NEW va \in VirtualAddresses,
         NEW causes \in SUBSET {"READONLY", "NONRESIDENT", "LENGTH"}, causes # {}
  PROVE  Aborted(Seen(m, va), va, causes).mmr0.aborts # {}
<1>1. CASE m.frozen
  BY <1>1 DEF Aborted, Seen
<1>2. CASE ~m.frozen
  <2> DEFINE mmr0 == [m.mmr0 EXCEPT !.mode = m.access_mode, !.page = va.page]
             n == [m EXCEPT !.mmr0 = mmr0]
             a == mmr0.aborts \cup causes
             new == [mmr0 EXCEPT !.aborts = a, !.mode = n.access_mode, !.page = va.page]
  <2>1. m.mmr0 \in Mmr0Record /\ m.access_mode \in 0 .. 3 /\ va.page \in 0 .. KTPages - 1
    BY DEF MmuRecord, VirtualAddresses
  <2>2. mmr0 \in Mmr0Record
    BY <2>1 DEF Mmr0Record
  <2>3. Seen(m, va) = n
    BY <1>2 DEF Seen, MmuRecord
  <2> HIDE DEF mmr0
  <2>4. n \in MmuRecord /\ n.mmr0 = mmr0 /\ n.frozen = m.frozen
    BY <2>2 DEF MmuRecord
  <2> HIDE DEF n
  <2>5. a # {}
    OBVIOUS
  <2>6. Aborted(n, va, causes) = [n EXCEPT !.mmr0 = [mmr0 EXCEPT !.aborts = a, !.mode = n.access_mode, !.page = va.page], !.frozen = TRUE]
    <3>1. Aborted(n, va, causes) = [n EXCEPT !.mmr0 = [n.mmr0 EXCEPT !.aborts = @ \cup causes, !.mode = n.access_mode, !.page = va.page], !.frozen = TRUE]
      BY <1>2, <2>4 DEF Aborted
    <3> QED
      BY <2>2, <2>4, <3>1 DEF Mmr0Record
  <2> HIDE DEF a
  <2>7. new.aborts = a
    BY <2>2 DEF Mmr0Record
  <2> HIDE DEF new
  <2>8. Aborted(n, va, causes).mmr0 = new
    BY <2>4, <2>6 DEF MmuRecord, new
  <2> QED
    BY <2>3, <2>5, <2>7, <2>8
<1> QED
  BY <1>1, <1>2

(* The KT11-D about to access a page of e in its mode; what RelocationExact says of it. *)
Accessing(e) == kt11d_set_access([mmu EXCEPT !.enabled = TRUE], e[1], e[1])
Exact(e, va, access, r) ==
  /\ r.ok = Permitted(mmu.pdr[e], va.blk, access)
  /\ r.ok => r.pa = (mmu.par[e] + va.blk) % KTPhysical
  /\ ~r.ok => r.mmu.mmr0.aborts # {}

LEMMA RelocationIs ==
  ASSUME KTInv, NEW e \in Entries, NEW va \in VirtualAddresses, NEW access \in {"READ", "WRITE"}, va.page = e[2]
  PROVE  Exact(e, va, access, kt11d_relocate(Accessing(e), va, access))
<1> DEFINE m == Accessing(e)
           r == kt11d_relocate(m, va, access)
<1>0. m = kt11d_set_access([mmu EXCEPT !.enabled = TRUE], e[1], e[1])
  BY Zenon DEF Accessing
<1> HIDE DEF m
<1> DEFINE n == [mmu EXCEPT !.enabled = TRUE]
           p == mmu.pages[e]
           seen == Seen(m, va)
           pa == (p.base + va.page * KTBlocks + va.blk) % KTPhysical
           denied == access \in p.deny \/ ~InPage(p, va.blk)
           C == [ok |-> FALSE, pa |-> 0, mmu |-> Aborted(seen, va, Causes(m, e, va, access))]
           D == [ok |-> TRUE, pa |-> pa, mmu |-> [seen EXCEPT !.pdr[e].w = @ \/ (access = "WRITE" /\ pa \notin KTOwn)]]
<1>1. mmu \in MmuRecord /\ Derived(mmu, mmu_wrote) /\ mmu.pdr[e] \in PdrRecord /\ mmu.par[e] \in Int
      /\ p = kt11d_rebuild(e, mmu.par[e], mmu.pdr[e])
  BY DEF KTInv, MmuRecord, Derived
<1>2. e = <<e[1], e[2]>> /\ e[1] \in Spaces /\ e[1] \in 0 .. 3
  BY DEF Entries, Spaces, KERNEL, USER
<1>3. va.blk \in 0 .. KTBlocks - 1 /\ va.blk \in Nat
  BY Sizes DEF VirtualAddresses
<1>4. n \in MmuRecord /\ n.enabled = TRUE /\ n.pages = mmu.pages /\ n.pdr = mmu.pdr /\ n.mmr0 = mmu.mmr0 /\ n.frozen = mmu.frozen
  BY <1>1 DEF MmuRecord
<1> HIDE DEF n
<1>5. m \in MmuRecord /\ SameRegisters(m, n) /\ m.access_space = e[1] /\ m.access_mode = e[1]
  <2> DEFINE s == e[1]
  <2>0. e[1] = s
    OBVIOUS
  <2>1. m = kt11d_set_access(n, s, s) /\ s \in Spaces /\ s \in 0 .. 3
    BY <1>0, <1>2 DEF n
  <2> HIDE DEF s
  <2> DEFINE x == kt11d_set_access(n, s, s)
  <2>2. x \in MmuRecord /\ SameRegisters(x, n) /\ x.access_space = s /\ x.access_mode = s
    <3>1. n \in MmuRecord /\ s \in Spaces /\ s \in 0 .. 3
      BY <1>4, <2>1
    <3> HIDE DEF x
    <3>2. x = kt11d_set_access(n, s, s)
      BY DEF x
    <3>3. x \in MmuRecord /\ SameRegisters(x, n)
      BY <3>1, <3>2, SetAccess
    <3>4. x.access_space = s /\ x.access_mode = s
      BY <3>1, <3>2, SetAccess
    <3> QED
      BY <3>3, <3>4
  <2>3. m = x
    BY <2>1
  <2> HIDE DEF x
  <2> QED
    BY <2>0, <2>2, <2>3
<1>6. m.enabled = TRUE /\ m.pages = mmu.pages /\ m.pdr = mmu.pdr /\ <<m.access_space, va.page>> = e
      /\ m.frozen = (m.mmr0.aborts # {})
  BY <1>1, <1>2, <1>4, <1>5 DEF SameRegisters, Derived
<1>7. r = IF denied THEN C ELSE D
  BY <1>2, <1>5, <1>6, Zenon DEF kt11d_relocate, Seen
<1>8. Permitted(mmu.pdr[e], va.blk, access) = (access \notin p.deny /\ InPage(p, va.blk))
  <2>1. Permitted(mmu.pdr[e], va.blk, access) =
          (/\ access \notin kt11d_rebuild(e, mmu.par[e], mmu.pdr[e]).deny
           /\ InPage(kt11d_rebuild(e, mmu.par[e], mmu.pdr[e]), va.blk))
    BY <1>1, <1>3, PermittedIs
  <2> HIDE DEF p
  <2> QED
    BY <1>1, <2>1, Zenon
<1>9. pa = (mmu.par[e] + va.blk) % KTPhysical
  BY <1>1, <1>3, Relocated DEF kt11d_rebuild
<1>12. denied => Causes(m, e, va, access) \in SUBSET {"READONLY", "NONRESIDENT", "LENGTH"} /\ Causes(m, e, va, access) # {}
  <2>1. m.pages[e] = kt11d_rebuild(e, mmu.par[e], m.pdr[e]) /\ m.pages[e] = p
    BY <1>1, <1>6
  <2> SUFFICES ASSUME access \in m.pages[e].deny \/ ~InPage(m.pages[e], va.blk)
               PROVE  Causes(m, e, va, access) \in SUBSET {"READONLY", "NONRESIDENT", "LENGTH"} /\ Causes(m, e, va, access) # {}
    BY <2>1
  <2> QED
    BY <2>1, CausesAre
<1> HIDE DEF pa, p, r
<1>10. CASE ~denied
  <2>1. r = D
    BY <1>7, <1>10
  <2>2. r.ok = TRUE /\ r.pa = pa
    BY <2>1
  <2>3. Permitted(mmu.pdr[e], va.blk, access) = TRUE
    BY <1>8, <1>10
  <2>4. Exact(e, va, access, r)
    BY <1>9, <2>2, <2>3 DEF Exact
  <2> QED
    BY <2>4 DEF r, m
<1>11. CASE denied
  <2>1. r = C
    BY <1>7, <1>11
  <2>2. r.ok = FALSE /\ r.mmu = Aborted(seen, va, Causes(m, e, va, access))
    BY <2>1
  <2>3. Permitted(mmu.pdr[e], va.blk, access) = FALSE
    BY <1>8, <1>11
  <2>4. Aborted(seen, va, Causes(m, e, va, access)).mmr0.aborts # {}
    BY <1>5, <1>6, <1>11, <1>12, AbortIsKept
  <2>5. Exact(e, va, access, r)
    BY <2>2, <2>3, <2>4 DEF Exact
  <2> QED
    BY <2>5 DEF r, m
<1> QED
  BY <1>10, <1>11

LEMMA RelocationFollows == KTInv => RelocationExact
<1> SUFFICES ASSUME KTInv PROVE RelocationExact
  OBVIOUS
<1>1. \A e \in Entries, va \in VirtualAddresses, access \in {"READ", "WRITE"} :
        va.page = e[2] => Exact(e, va, access, kt11d_relocate(Accessing(e), va, access))
  BY RelocationIs
<1>2. \A e \in Entries : mmu.pdr[e].w = (e \in mmu_wrote)
  BY DEF KTInv, Derived
<1>3. mmu.enabled = mmu.mmr0.enable /\ mmu.frozen = (mmu.mmr0.aborts # {})
  BY DEF KTInv, Derived
<1> QED
  BY <1>1, <1>2, <1>3, Zenon DEF RelocationExact, Exact, Accessing

(* However the program writes PAR, PDR, MMR0 and PSW, and whatever it accesses, the KT11-D  *)
(* translates and permits as PAR and PDR say, and the registers of the first abort stay.   *)
THEOREM KTIsExact == KTSpec => []RelocationExact /\ FirstAbortKept
<1>1. KTStart => KTInv
  BY PowerUpIs DEF KTStart, KTInv
<1>2. KTInv /\ [KTNext]_ktvars => KTInv' /\ AbortStep
  BY KTSteps
<1>3. KTSpec => []KTInv
  BY <1>1, <1>2, PTL DEF KTSpec
<1>4. KTInv /\ [KTNext]_ktvars => [mmu.mmr0.aborts # {} =>
       \/ mmu'.mmr0 = mmu.mmr0 /\ mmu'.mmr1 = mmu.mmr1 /\ mmu'.mmr2 = mmu.mmr2
       \/ \E maint, enable \in BOOLEAN, aborts \in {{}, {"LENGTH"}} : WriteMMR0(aborts, maint, enable)
       \/ RESET \/ PowerUp]_ktvars
  BY <1>2 DEF AbortStep
<1>5. KTSpec => FirstAbortKept
  BY <1>3, <1>4, PTL DEF KTSpec, FirstAbortKept
<1>6. KTSpec => []RelocationExact
  BY <1>3, RelocationFollows, PTL
<1> QED
  BY <1>5, <1>6

(* The two halves of what protects the programs of a PDP-11/34 from each other: its modes  *)
(* and stack pointers, and the KT11-D.                                                     *)
THEOREM ProtectionIsKept == CpuSpec /\ KTSpec => ProtectionKept
<1> QED
  BY ModesAreKept, KTIsExact DEF ProtectionKept
=============================================================================
