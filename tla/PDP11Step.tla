------------------------------ MODULE PDP11Step ------------------------------
(***************************************************************************)
(* The control of step() in the two CPU cores, ka11.c and kd11ea.c: fetch,  *)
(* bus errors, the trap sequence, the service of pending traps, and on the  *)
(* KD11-EA the two modes with their stack pointers.  step() runs in the     *)
(* CPU's thread; kd11ea_setintr() comes from the adapter's.                 *)
(*                                                                           *)
(* A step() is a sequence of actions, one for each piece that ends with a   *)
(* reference to the bus: "at" is the label in the code.  Instructions are    *)
(* chosen at will, as are the words they read.  Addresses are kept of the    *)
(* stack pointers only.  The vectors and the kernel's pages are mapped and    *)
(* respond, the vectors are in kernel mode, the I/O page does not respond to  *)
(* a push and is not mapped in user mode.                                     *)
(***************************************************************************)
EXTENDS Integers

CONSTANTS
  CpuModels,     \* "KA11", "KD11EA"
  CpuTop,        \* bytes of the address space
  CpuLimit,      \* the stack limit (0400)
  CpuMemory,     \* even addresses that respond
  CpuStacks,     \* values that a program loads into a stack pointer
  CpuOdd,        \* models whose programs load odd ones, too
  CpuTraced,     \* <<model, vector>> whose PSW has the T bit set
  CpuMaxEvents   \* switches and power events

ASSUME CpuAssumption ==
  /\ CpuModels \subseteq {"KA11", "KD11EA"}
  /\ CpuTop \in Nat \ {0} /\ CpuLimit \in 0 .. CpuTop
  /\ CpuMemory \subseteq 0 .. CpuTop - 1 /\ CpuStacks \subseteq 0 .. CpuTop - 1
  /\ CpuMaxEvents \in Nat

VARIABLES
  core,     \* the registers and flags of the core, and the variables of step()
  stacks,   \* the stack pointers as the program of each mode knows them
  panel     \* cpu_base_c: switches, power events, runmode, and the arbitrator it controls

cpuvars == <<core, stacks, panel>>

-----------------------------------------------------------------------------
CpuModes == {"kernel", "user"}
PswSet == [mode : CpuModes, prev : CpuModes, prio : {0, 7}, t : BOOLEAN]

Stacks == CpuStacks \cup (IF core.model \in CpuOdd THEN {sp + 1 : sp \in CpuStacks} ELSE {})

IsKD == core.model = "KD11EA"
IsKernel(c) == c.psw.mode = "kernel"

\* Mutant: the stack pointer stays.
set_psw_only(c, psw) == [c EXCEPT !.psw = psw]

\* kd11ea_set_psw(): another mode takes the other stack pointer.
set_psw(c, psw) ==
  IF psw.mode = c.psw.mode THEN [c EXCEPT !.psw = psw]
  ELSE [c EXCEPT !.psw = psw, !.stackpointer[c.psw.mode] = c.SP, !.SP = c.stackpointer[psw.mode]]

\* dati() and dato(): a word at an even address that responds; what is mapped in user mode
\* is up to the KT11-D.
Responds(a) == a \in CpuMemory

MayAbort(c) == c.model = "KD11EA" /\ ~IsKernel(c)

Ok(c) == [c EXCEPT !.be = 0]

\* return: the variables of step() end.
Return(c) == [c EXCEPT !.at = "returned", !.oldpsw_t = FALSE, !.inhov = FALSE,
                       !.TV = "bus", !.trap_vector = "bus"]

Failed(c, vector) == [c EXCEPT !.be = @ + 1, !.trap_vector = vector, !.at = "be"]

\* A reference by an operand: any outcome.
Outcomes(c) == {"ok", "bus"} \cup (IF MayAbort(c) THEN {"mmu"} ELSE {})

\* PUSH: the stack limit is the kernel's, and not checked by the trap for it.
PUSH(c) ==
  LET sp == (c.SP - 2) % CpuTop
  IN  [c EXCEPT !.SP = sp,
                !.traps = IF ~c.inhov /\ IsKernel(c) /\ sp < CpuLimit THEN @ \cup {"STACK"} ELSE @]

\* PUSH and OUT: to "then" if the word is written.
Pushed(c, abort, then) ==
  LET p == PUSH(c)
  IN  IF ~Responds(p.SP) THEN Failed(p, "bus")
      ELSE IF abort /\ MayAbort(c) THEN Failed(p, "mmu")
      ELSE [Ok(p) EXCEPT !.at = then]

\* POP and IN: on the KD11-EA a failed one is undone.
Popped(c, abort, then) ==
  LET up == (c.SP + 2) % CpuTop
      kept == IF c.model = "KD11EA" THEN c ELSE [c EXCEPT !.SP = up]
  IN  IF ~Responds(c.SP) THEN Failed(kept, "bus")
      ELSE IF abort /\ MayAbort(c) THEN Failed(kept, "mmu")
      ELSE [Ok(c) EXCEPT !.SP = up, !.at = then]

\* What a mode knows of its stack pointer changes with SP, and with no other mode's.
Update(c) ==
  /\ core' = c
  /\ stacks' = [stacks EXCEPT ![core.psw.mode] = c.SP]
  /\ UNCHANGED panel

\* The same across a change of mode, the pushes excepted.
UpdatePsw(c) == core' = c /\ UNCHANGED <<stacks, panel>>

-----------------------------------------------------------------------------
(* Other threads: the adapter's and the user's.                              *)
\* kd11ea_setintr().
setintr ==
  /\ core.state # "HALTED" /\ ~core.external_intr
  /\ core' = [core EXCEPT !.external_intr = TRUE] /\ UNCHANGED <<stacks, panel>>

Event(p) ==
  /\ panel.events < CpuMaxEvents
  /\ panel' = [p EXCEPT !.events = @ + 1] /\ UNCHANGED <<core, stacks>>

\* on_power_changed() sets a flag for worker(); the user turns the switches.
on_power_changed ==
  \/ Event([panel EXCEPT !.ACLO_active = TRUE])
  \/ Event([panel EXCEPT !.DCLO_active = TRUE])
  \/ Event([panel EXCEPT !.ACLO_inactive = TRUE])

switches ==
  \/ Event([panel EXCEPT !.halt_switch = ~@])
  \/ Event([panel EXCEPT !.continue_switch = TRUE])
  \/ Event([panel EXCEPT !.start_switch = TRUE])

-----------------------------------------------------------------------------
(* worker(): console, a step(), power events.                               *)
VectorPsw(tv, prev, c) ==
  [mode |-> "kernel", prev |-> IF c.model = "KD11EA" THEN prev ELSE "kernel", prio |-> 7,
   t |-> <<c.model, tv>> \in CpuTraced]

\* start() and stop(): the PRU's CPU logic and the arbitrator go with the state.
start(c) == [c EXCEPT !.state = "RUNNING"]
stop(c) == [c EXCEPT !.state = "HALTED"]
Started(p) == [p EXCEPT !.runmode = TRUE, !.arbitrator = TRUE]
Stopped(p) == [p EXCEPT !.runmode = FALSE, !.arbitrator = FALSE]

\* core_reset(): kd11ea_power_reset() clears the stack pointers that are not in R6, and loads
\* PSW 0.
core_reset(c) ==
  LET r == [c EXCEPT !.traps = {}, !.external_intr = FALSE]
  IN  IF c.model = "KA11" THEN r
      ELSE set_psw([r EXCEPT !.stackpointer = [m \in CpuModes |-> 0], !.trap_vector = "bus"],
                   [mode |-> "kernel", prev |-> "kernel", prio |-> 0, t |-> FALSE])

\* The stack pointers after a reset are what it makes them.
AfterReset(c) == [c.stackpointer EXCEPT ![c.psw.mode] = c.SP]

worker_top ==
  LET runmode == core.state # "HALTED"
      cont == panel.continue_switch /\ ~runmode
      begin == ~runmode /\ ~cont /\ panel.start_switch
      c == IF begin THEN core_reset(core) ELSE core
      on == cont \/ (begin /\ ~panel.halt_switch)
      p == [panel EXCEPT !.runmode = runmode, !.continue_switch = FALSE, !.start_switch = FALSE]
  IN  /\ core.at = "top"
      /\ core' = [(IF on THEN start(c) ELSE c) EXCEPT !.at = "condstep"]
      /\ panel' = IF on THEN Started(p) ELSE p
      /\ stacks' = IF begin THEN AfterReset(c) ELSE stacks

condstep ==
  LET runs == \/ core.state = "RUNNING"
              \/ core.state = "WAITING" /\ (core.traps # {} \/ core.external_intr)
      c == [core EXCEPT !.state = "RUNNING"]
  IN  /\ core.at = "condstep"
      /\ UpdatePsw(IF ~runs THEN [core EXCEPT !.at = "returned"]
                   ELSE IF core.external_intr
                   THEN [c EXCEPT !.external_intr = FALSE, !.TV = "intr", !.at = "trap"]
                   ELSE [c EXCEPT !.oldpsw_t = core.psw.t, !.at = "fetch"])

\* The core has halted, or a breakpoint or trigger stops it.
worker_returned(breakpoint) ==
  /\ core.at = "returned"
  /\ LET halted == (core.state = "HALTED" /\ panel.runmode) \/ (core.state # "HALTED" /\ breakpoint)
     IN  /\ core' = [(IF halted THEN stop(core) ELSE core) EXCEPT !.at = "aclo"]
         /\ panel' = IF halted THEN Stopped(panel) ELSE panel
  /\ UNCHANGED stacks

\* The flags are tested and then cleared.
worker_aclo ==
  /\ core.at = "aclo"
  /\ core' = [core EXCEPT !.at = "aclo_clear",
                          !.traps = IF panel.runmode /\ panel.ACLO_active THEN @ \cup {"PWR"} ELSE @]
  /\ UNCHANGED <<stacks, panel>>

worker_aclo_clear ==
  /\ core.at = "aclo_clear"
  /\ core' = [core EXCEPT !.at = "dclo"] /\ panel' = [panel EXCEPT !.ACLO_active = FALSE]
  /\ UNCHANGED stacks

worker_dclo ==
  /\ core.at = "dclo"
  /\ IF panel.runmode /\ panel.DCLO_active
     THEN core' = [stop(core) EXCEPT !.at = "dclo_clear"] /\ panel' = Stopped(panel)
     ELSE core' = [core EXCEPT !.at = "dclo_clear"] /\ UNCHANGED panel
  /\ UNCHANGED stacks

worker_dclo_clear ==
  /\ core.at = "dclo_clear"
  /\ core' = [core EXCEPT !.at = "reboot"] /\ panel' = [panel EXCEPT !.DCLO_active = FALSE]
  /\ UNCHANGED stacks

\* Reboot: reset, and PC and PSW from the power-up vector.
worker_reboot ==
  LET c == [core_reset(core) EXCEPT !.be = 0]
      up == set_psw(start(c), VectorPsw("power", "kernel", c))
  IN  /\ core.at = "reboot" /\ panel.ACLO_inactive
      /\ core' = [up EXCEPT !.at = "reboot_clear"]
      /\ panel' = Started(panel)
      /\ stacks' = AfterReset(up)

worker_reboot_clear ==
  /\ core.at = "reboot_clear" \/ (core.at = "reboot" /\ ~panel.ACLO_inactive)
  /\ core' = [core EXCEPT !.at = "halt"]
  /\ panel' = [panel EXCEPT !.ACLO_inactive = @ /\ core.at = "reboot"] /\ UNCHANGED stacks

worker_halt ==
  /\ core.at = "halt"
  /\ IF panel.halt_switch /\ panel.runmode
     THEN core' = [stop(core) EXCEPT !.at = "top"] /\ panel' = Stopped(panel)
     ELSE core' = [core EXCEPT !.at = "top"] /\ UNCHANGED panel
  /\ UNCHANGED stacks

-----------------------------------------------------------------------------
(* step().                                                                  *)
fetch(outcome) ==
  /\ core.at = "fetch" /\ outcome \in Outcomes(core)
  /\ UpdatePsw(IF outcome = "ok" THEN [Ok(core) EXCEPT !.at = "execute"] ELSE Failed(core, outcome))

\* The instructions of PDP11Arithmetic, branches and jumps, and what MTPI does with the word
\* it has popped: their operands may fail.
operate(outcome) ==
  /\ core.at \in {"execute", "mtpi"} /\ outcome \in Outcomes(core)
  /\ UpdatePsw(IF outcome = "ok" THEN [Ok(core) EXCEPT !.at = "service"] ELSE Failed(core, outcome))

\* MOV #n,SP; JSR and MFPI push; RTS and MARK pop.
load_SP(sp) ==
  /\ core.at = "execute"
  /\ Update([core EXCEPT !.SP = sp, !.at = "service"])

push(abort) == core.at = "execute" /\ Update(Pushed(core, abort, "service"))

pop(abort) == core.at = "execute" /\ Update(Popped(core, abort, "service"))

\* MTPI pops a word of the current stack; MTPI SP makes it the previous mode's pointer.
mtpi(abort) == core.at = "execute" /\ IsKD /\ Update(Popped(core, abort, "mtpi"))

mtpi_SP(sp) ==
  /\ core.at = "mtpi"
  /\ LET c == [core EXCEPT !.at = "service"]
     IN  core' = IF core.psw.prev = core.psw.mode THEN [c EXCEPT !.SP = sp]
                 ELSE [c EXCEPT !.stackpointer[core.psw.prev] = sp]
  /\ stacks' = [stacks EXCEPT ![core.psw.prev] = sp] /\ UNCHANGED panel

\* MTPS, and a write to the PSW's address: the KD11-EA does not set T so, and in user mode
\* MTPS changes the condition codes alone.
write_psw(psw) ==
  /\ core.at = "execute" /\ IsKernel(core)
  /\ IF IsKD THEN psw.t = core.psw.t ELSE psw.mode = "kernel" /\ psw.prev = "kernel"
  /\ UpdatePsw([set_psw(core, psw) EXCEPT !.at = "service"])

\* RTI and RTT pop the PC and then the PSW, which user mode changes only in part; RTI of
\* the KD11-EA traces at once.
Restricted(psw) ==
  IF IsKernel(core) THEN psw
  ELSE [psw EXCEPT !.mode = core.psw.mode, !.prev = core.psw.prev, !.prio = core.psw.prio]

rti_pc(abort, rtt) ==
  /\ core.at = "execute" /\ (rtt => IsKD)
  /\ Update(Popped(core, abort, IF rtt THEN "rtt" ELSE "rti"))

rti_psw(abort, psw) ==
  LET c == Popped(core, abort, "service")
      new == Restricted(psw)
      traced == [c EXCEPT !.oldpsw_t = @ \/ (IsKD /\ core.at = "rti" /\ new.t)]
  IN  /\ core.at \in {"rti", "rtt"}
      /\ ~IsKD => psw.mode = "kernel" /\ psw.prev = "kernel"
      /\ stacks' = [stacks EXCEPT ![core.psw.mode] = c.SP] /\ UNCHANGED panel
      /\ core' = IF c.at = "be" THEN c ELSE set_psw(traced, new)

HALT ==
  /\ core.at = "execute"
  /\ UpdatePsw(IF IsKernel(core) THEN Return(stop(core))
               ELSE [core EXCEPT !.TV = "reserved", !.at = "trap"])

WAIT == core.at = "execute" /\ UpdatePsw(Return([core EXCEPT !.state = "WAITING"]))

RESET_bus ==
  /\ core.at = "execute"
  /\ UpdatePsw(IF IsKernel(core) THEN [core EXCEPT !.traps = {}, !.external_intr = FALSE, !.at = "service"]
               ELSE [core EXCEPT !.at = "service"])

\* EMT, TRAP, BPT, IOT, and reserved and illegal instructions.
trap_instruction == core.at = "execute" /\ UpdatePsw([core EXCEPT !.TV = "reserved", !.at = "trap"])

\* be: the second failure in a row halts.  (The condition codes are left out; the KD11-EA
\* takes back those of the instruction.)
DoubleBusError == core.be > 1

bus_error ==
  /\ core.at = "be"
  /\ UpdatePsw(
       IF DoubleBusError THEN Return(stop(core))
       ELSE [core EXCEPT !.TV = core.trap_vector, !.at = "trap"])

\* trap: the KA11 pushes and then reads the vector, the KD11-EA reads the vector, changes
\* the mode and pushes onto the stack of the new one.  (It needs TV no more.)
trap ==
  /\ core.at = "trap"
  /\ LET c == set_psw(core, VectorPsw(core.TV, core.psw.mode, core))
     IN  UpdatePsw([(IF IsKD THEN [Ok(c) EXCEPT !.TV = "bus"] ELSE core) EXCEPT !.at = "push_psw"])

trap_push ==
  /\ core.at \in {"push_psw", "push_pc"}
  /\ LET c == Pushed(core, FALSE, IF core.at = "push_psw" THEN "push_pc" ELSE "vector")
     IN  Update(c)

trap_end ==
  /\ core.at = "vector"
  /\ UpdatePsw(IF IsKD THEN [core EXCEPT !.oldpsw_t = core.psw.t, !.at = "service"]
               ELSE Return([Ok(core) EXCEPT !.psw = VectorPsw(core.TV, "kernel", core)]))

service ==
  /\ core.at = "service"
  /\ UpdatePsw(
       IF core.oldpsw_t THEN [core EXCEPT !.oldpsw_t = FALSE, !.TV = "trace", !.at = "trap"]
       ELSE IF "STACK" \in core.traps
            THEN [core EXCEPT !.traps = @ \ {"STACK"}, !.inhov = TRUE, !.TV = "bus", !.at = "trap"]
       ELSE IF "PWR" \in core.traps
            THEN [core EXCEPT !.traps = @ \ {"PWR"}, !.TV = "power", !.at = "trap"]
       ELSE Return(core))

-----------------------------------------------------------------------------
CpuStart ==
  /\ \E model \in CpuModels, sp \in CpuStacks :
       /\ core = [model |-> model, state |-> "RUNNING", at |-> "top", be |-> 0, traps |-> {}, inhov |-> FALSE,
                  trap_vector |-> "bus", TV |-> "bus", external_intr |-> FALSE,
                  psw |-> [mode |-> "kernel", prev |-> "kernel", prio |-> 7, t |-> FALSE], oldpsw_t |-> FALSE,
                  SP |-> sp, stackpointer |-> [m \in CpuModes |-> 0]]
       /\ stacks = [m \in CpuModes |-> IF m = "kernel" THEN sp ELSE 0]
  /\ panel = [runmode |-> TRUE, arbitrator |-> TRUE, halt_switch |-> FALSE, start_switch |-> FALSE,
              continue_switch |-> FALSE, ACLO_active |-> FALSE, DCLO_active |-> FALSE,
              ACLO_inactive |-> FALSE, events |-> 0]

StepNext ==
  \/ \E outcome \in {"ok", "bus", "mmu"} : fetch(outcome) \/ operate(outcome)
  \/ \E sp \in Stacks : load_SP(sp) \/ mtpi_SP(sp)
  \/ \E psw \in PswSet : write_psw(psw)
  \/ \E abort \in BOOLEAN :
       push(abort) \/ pop(abort) \/ mtpi(abort) \/ (\E rtt \in BOOLEAN : rti_pc(abort, rtt))
                   \/ (\E psw \in PswSet : rti_psw(abort, psw))
  \/ HALT \/ WAIT \/ RESET_bus
  \/ trap_instruction
  \/ bus_error \/ trap \/ trap_push \/ trap_end \/ service

WorkerNext ==
  \/ worker_top \/ condstep
  \/ \E breakpoint \in BOOLEAN : worker_returned(breakpoint)
  \/ worker_aclo \/ worker_aclo_clear \/ worker_dclo \/ worker_dclo_clear
  \/ worker_reboot \/ worker_reboot_clear \/ worker_halt

CpuNext == setintr \/ on_power_changed \/ switches \/ WorkerNext \/ StepNext

\* The CPU's thread runs.
CpuFairness == WF_cpuvars(WorkerNext \/ StepNext)

CpuSpec == CpuStart /\ [][CpuNext]_cpuvars /\ CpuFairness

-----------------------------------------------------------------------------
InStep == {"fetch", "execute", "mtpi", "rti", "rtt", "be", "trap", "push_psw", "push_pc", "vector", "service"}

\* The stack pointers of the two modes are never mixed: whatever traps, aborts, returns
\* and writes to the PSW there were, each mode finds its own where it left it.
StackPointersKept ==
  stacks = [core.stackpointer EXCEPT ![core.psw.mode] = core.SP]

\* A user mode program gets into kernel mode, changes the priority or halts the CPU by no
\* instruction, only through a vector (kd11ea.c: "or a user program could lock out
\* interrupts").
UserIsConfined ==
  [][~IsKernel(core) /\ core.at \in InStep \ {"trap"} =>
       core'.psw.mode = "user" /\ core'.psw.prio = core.psw.prio /\ core'.state # "HALTED"]_cpuvars

\* The core uses the bus only while the arbitrator grants it, whatever switches, halts
\* and power events there were: stop() and start() and the core's state go together.
StepsHaveBus == core.at \in InStep => panel.arbitrator

\* Every step() returns: the traps that a trap sequence causes by itself come to an end.
StepEnds == core.at \in InStep ~> core.at = "returned"
=============================================================================
