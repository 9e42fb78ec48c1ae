----------------------------- MODULE MCProcessor -----------------------------
(* The CPU's parts for TLC, one at a time: the control of the cores' step(),  *)
(* what their instructions compute, the KT11-D, the KE11, and how an interrupt *)
(* reaches the CPU.  They share no state here: each has the others' part as    *)
(* choices of its own.                                                        *)
EXTENDS ProcessorProtection, PDP11Arithmetic, KE11Arithmetic, InterruptFielding

VARIABLE part   \* the part that is looked at

\* An odd stack pointer, and vectors with the T bit, for the KA11; the KD11-EA's step() does
\* not return from them.
MCTraced == {<<"KA11", "trace">>, <<"KA11", "intr">>}

\* A page of the user's, upward and read-only or downward, in either mode or in one that
\* does not exist.
MCKTEntries == {<<USER, 0>>}
MCKTPdrs == {[plf |-> 1, ed |-> TRUE, acf |-> "READWRITE", w |-> FALSE],
             [plf |-> 0, ed |-> FALSE, acf |-> "READONLY", w |-> TRUE]}
MCKTModes == {<<KERNEL, USER>>, <<USER, KERNEL>>, <<1, USER>>}

\* The PSW of a vector has the priority of its device.
MCvector_level == [l \in IntrLevels |-> l]

processorvars == <<part, cpuvars, alu, ktvars, ke, vars>>

ProcessorInit ==
  /\ part \in {"CPU", "ALU", "KT11D", "KE11", "fielding"}
  /\ CpuStart /\ AluInit /\ KTStart /\ KEInit /\ FieldingInit
  /\ part # "CPU" => core.model = "KA11"
  /\ part # "fielding" => cpu.priority = 0

ProcessorNext ==
  /\ UNCHANGED part
  /\ \/ part = "CPU" /\ CpuNext /\ UNCHANGED <<alu, ktvars, ke, vars>>
     \/ part = "ALU" /\ AluNext /\ UNCHANGED <<cpuvars, ktvars, ke, vars>>
     \/ part = "KT11D" /\ KTNext /\ UNCHANGED <<cpuvars, alu, ke, vars>>
     \/ part = "KE11" /\ KENext /\ UNCHANGED <<cpuvars, alu, ktvars, vars>>
     \/ part = "fielding" /\ FieldingNext /\ UNCHANGED <<cpuvars, alu, ktvars, ke>>

(* The fairness of FairFieldingSpec, while it is the part looked at. *)
Fielding == part = "fielding"

ProcessorSpec ==
  /\ ProcessorInit /\ [][ProcessorNext]_processorvars
  /\ WF_cpuvars(part = "CPU" /\ (WorkerNext \/ StepNext))
  /\ WF_vars(Fielding /\ sm_arb_worker_cpu)
  /\ WF_vars(Fielding /\ sm_intr_master_state_1) /\ WF_vars(Fielding /\ sm_intr_master_state_2)
  /\ WF_vars(Fielding /\ sm_intr_slave_start) /\ WF_vars(Fielding /\ sm_intr_slave_state_1)
  /\ WF_vars(Fielding /\ arm_worker) /\ WF_vars(Fielding /\ cpu_thread)

(* What a program computes with is exact, for every operand: additions,       *)
(* comparisons with the branches after them, shifts, products and quotients,  *)
(* of the two cores and of the KE11.                                          *)
ArithmeticExact ==
  /\ [](part = "ALU" => InstructionsExact) /\ KEDivides /\ KEProducts /\ KEShifts

(* Something is under way: a step(), or a vector the PRU has received.        *)
UnderWay ==
  \/ core.at \in InStep
  \/ owed # {}
  \/ /\ arbitrator.ifs_priority_level = CPU_PRIORITY_LEVEL_FETCHING
     /\ cpu.state # "HALTED"

(* A step() of the CPU returns; a vector the PRU has received is taken, and   *)
(* grants resume after it.  (The other parts are idle meanwhile.)             *)
ProcessorGoesOn == UnderWay ~> ~UnderWay \/ early
=============================================================================
