-------------------------- MODULE QbusArbitration ---------------------------
(***************************************************************************)
(* The PRU of a QBone on the QBUS: arbitration, block mode DMA, and the      *)
(* slave side of the cycles of another master.                               *)
(*                                                                         *)
(* The processor on the bus is the arbitrator: DMG for a DMA, and DIN with   *)
(* IAK, the vector's grant.  CPLD2 decodes IAK into the level with the       *)
(* highest request.  Another board sits behind the PRU in the grant chain;   *)
(* it takes the grants that the PRU forwards.  RPLY, SYNC, SACK and the      *)
(* request lines are wired or.  An address counts words.                     *)
(***************************************************************************)
EXTENDS Integers, Sequences, FiniteSetsExt

CONSTANTS
  QLevels,        \* the IRQ lines, by level
  QNP,            \* the DMR line, higher than any level
  QConfigs,       \* the lines of the emulated devices, and those of the other board
  QModes,         \* "client": grants are waited for; "none": DMA at once, without a processor
  QMemory,        \* addresses emulated as memory
  QRegisters,     \* addresses emulated as device registers with an event for ARM
  QForeign,       \* addresses where another board answers
  QDmas,          \* the DMAs of ARM: <<start address, word count>>
  QCycles,        \* the processor's cycles: first address, and the strobes
  QBlockWords,    \* 8: words of a block mode transfer
  QBoundary,      \* 16: words that a block may not cross
  QMaxInits       \* INITs

QLines == QLevels \cup {QNP}

Emulated(addr) == addr \in QMemory \cup QRegisters

(* The words of a cycle that begins at an emulated address are emulated: the  *)
(* word moves on by one when a strobe is repeated.                            *)
OneSlave(addr, strobes) ==
  \A n \in 1 .. Len(strobes) - 1 : strobes[n] = strobes[n + 1] =>
     \A k \in 1 .. n : Emulated(addr + k)

(* An address has one slave, also within a cycle. *)
ASSUME QbusAssumption ==
  /\ QLines \subseteq Nat /\ \A l \in QLevels : 0 < l /\ l < QNP
  /\ QMemory \cup QRegisters \cup QForeign \subseteq Nat
  /\ \A a \in QForeign : ~Emulated(a)
  /\ \A c \in QCycles :
       /\ c.addr \in Nat /\ c.strobes \in Seq({"DIN", "DOUT"})
       /\ Emulated(c.addr) => OneSlave(c.addr, c.strobes)
  /\ QConfigs \subseteq (SUBSET QLines) \X (SUBSET QLines)
  /\ QModes \subseteq {"client", "none"}
  /\ {QBlockWords, QBoundary} \subseteq Nat \ {0}
  /\ \A d \in QDmas : d \in Nat \X (Nat \ {0})

VARIABLES
  qpc,      \* stage of the main loop: "slave", "bus" or "command"
  q_arb,    \* statemachine_arbitration_t
  qlatch,   \* what the PRU drives
  q_dma,    \* statemachine_dma_t and mailbox.dma
  q_slave,  \* statemachine_data_slave_t
  q_init,   \* INIT, and how often it was asserted
  deviceregister_event,  \* a register access that ARM has not yet handled
  qcpu,     \* the processor: DMG, the level of IAK or 0
  qboard,   \* the other board: its requests, the grant it took, SACK, RPLY
  qcycle,   \* a cycle of the processor or the board
  qarm      \* what ARM has handed to the PRU and not got back

qbusvars == <<qpc, q_arb, qlatch, q_dma, q_slave, q_init, deviceregister_event, qcpu, qboard, qcycle, qarm>>

NoCycle == [by |-> "none", sync |-> 0, addr |-> 0, todo |-> <<>>, strobe |-> "none", rply |-> FALSE]
NoDma == [state |-> "none", addr |-> 0, left |-> 0, block_end |-> 0, more |-> TRUE,
          timeout |-> FALSE, granted |-> TRUE, moved |-> {}, in_block |-> {}]

QbusInit ==
  /\ qpc = "slave"
  /\ \E mode \in QModes :
       q_arb = [state |-> IF mode = "none" THEN "noop" ELSE "grant_check", request |-> {},
                signalled |-> {}, forwarded |-> {}, grant |-> {}, inhibit |-> FALSE]
  /\ qlatch = [lines |-> {}, SACK |-> FALSE, SYNC |-> FALSE, strobe |-> FALSE,
               RPLY |-> FALSE, grants |-> {}]
  /\ q_dma = NoDma
  /\ q_slave = [state |-> "stop", addr |-> 0]
  /\ q_init = [line |-> FALSE, pulses |-> 0]
  /\ deviceregister_event = FALSE
  /\ qcpu = [dmg |-> FALSE, iak |-> 0]
  /\ \E c \in QConfigs :
       /\ qarm = [lines |-> c[1], requests |-> {}, dma |-> <<0, 1>>]
       /\ qboard = [lines |-> c[2], requests |-> {}, granted |-> {}, SACK |-> FALSE, RPLY |-> FALSE]
  /\ qcycle = NoCycle

(* The lines as buslatches_getbyte() reads them. *)
QRequests == qlatch.lines \cup qboard.requests
QSACK == qlatch.SACK \/ qboard.SACK
QSYNC == qlatch.SYNC \/ qcycle.by # "none"
QRPLY == qlatch.RPLY \/ qboard.RPLY \/ qcycle.rply
QDIN == qcpu.iak # 0 \/ qcycle.strobe = "DIN"
GrantIn == (IF qcpu.dmg THEN {QNP} ELSE {}) \cup ({qcpu.iak} \ {0})

-----------------------------------------------------------------------------
(* sm_data_slave_func().  It spins, and the main loop with it, while it      *)
(* waits for the strobe of a selected master, and for its end.               *)
SlaveStep(new) == q_slave' = new /\ qpc' = IF new.state = "stop" THEN "bus" ELSE "slave"

data_slave_start ==
  /\ q_slave.state = "stop"
  /\ qcycle.by # "none"
  /\ SlaveStep([state |-> "dindout_start", addr |-> qcycle.sync])
  /\ UNCHANGED <<qlatch, deviceregister_event>>

(* An emulated address is answered with RPLY; a register's event ends the    *)
(* loop.                                                                     *)
data_slave_dindout_start ==
  /\ q_slave.state = "dindout_start"
  /\ IF ~QSYNC \/ QRPLY \/ q_init.line
       THEN SlaveStep([q_slave EXCEPT !.state = "stop"]) /\ UNCHANGED <<qlatch, deviceregister_event>>
     ELSE /\ qcycle.strobe # "none"
          /\ IF q_slave.addr \in QMemory \cup QRegisters
               THEN /\ qlatch' = [qlatch EXCEPT !.RPLY = TRUE]
                    /\ q_slave' = [q_slave EXCEPT !.state = qcycle.strobe]
                    /\ deviceregister_event' = (q_slave.addr \in QRegisters)
                    /\ qpc' = IF deviceregister_event' THEN "bus" ELSE "slave"
               ELSE /\ SlaveStep([q_slave EXCEPT !.state = "stop"])
                    /\ UNCHANGED <<qlatch, deviceregister_event>>

(* din_single_complete and dout_single_complete: RPLY until the master has   *)
(* negated its strobe and ARM has handled the access.                        *)
data_slave_single_complete ==
  /\ q_slave.state \in {"DIN", "DOUT"}
  /\ qcycle.strobe # q_slave.state
  /\ IF deviceregister_event
       THEN qpc' = "bus" /\ UNCHANGED <<qlatch, q_slave>>
     ELSE /\ qlatch' = [qlatch EXCEPT !.RPLY = FALSE]
          /\ q_slave' = [q_slave EXCEPT !.state = IF @ = "DIN" THEN "din_block" ELSE "dout_block"]
          /\ qpc' = "slave"
  /\ UNCHANGED deviceregister_event

(* Mutant: the address also counts for the DOUT of a DATIO. *)
data_slave_block_counts ==
  /\ q_slave.state \in {"din_block", "dout_block"}
  /\ IF ~QSYNC \/ q_init.line THEN SlaveStep([q_slave EXCEPT !.state = "stop"])
     ELSE /\ qcycle.strobe # "none"
          /\ SlaveStep([state |-> "dindout_start", addr |-> q_slave.addr + 1])
  /\ UNCHANGED <<qlatch, deviceregister_event>>

(* din_block_complete and dout_block_complete: another word of the block, or *)
(* the DOUT of a DATIO, to the same address.                                 *)
data_slave_block_complete ==
  /\ q_slave.state \in {"din_block", "dout_block"}
  /\ IF ~QSYNC \/ q_init.line THEN SlaveStep([q_slave EXCEPT !.state = "stop"])
     ELSE \/ /\ qcycle.strobe = "DOUT" /\ q_slave.state = "din_block"
             /\ SlaveStep([q_slave EXCEPT !.state = "dindout_start"])
          \/ /\ <<q_slave.state, qcycle.strobe>> \in {<<"din_block", "DIN">>, <<"dout_block", "DOUT">>}
             /\ SlaveStep([state |-> "dindout_start", addr |-> q_slave.addr + 1])
  /\ UNCHANGED <<qlatch, deviceregister_event>>

qbus_data_slave ==
  /\ qpc = "slave" /\ q_dma.state = "none"
  /\ \/ data_slave_start \/ data_slave_dindout_start
     \/ data_slave_single_complete \/ data_slave_block_complete
  /\ UNCHANGED <<q_arb, q_dma, q_init, qcpu, qboard, qcycle, qarm>>

-----------------------------------------------------------------------------
(* The levels that a request asserts: IRQ5..7 also IRQ4, IRQ7 also IRQ6. *)
BusLines(request, inhibit) ==
  LET lines == request \cup (IF inhibit THEN {QNP} ELSE {})
  IN  lines \cup (IF lines \cap {5, 6, 7} # {} THEN {4} ELSE {})
            \cup (IF 7 \in lines THEN {6} ELSE {})

(* sm_arb_worker_device(), one state: the new state, what the PRU drives,    *)
(* and what is returned to main().                                           *)
Worker(arb, latch, granted) == [arb |-> arb, latch |-> latch, granted |-> granted]

grant_check(arb, latch) ==
  LET grant == (GrantIn \cap arb.request) \ arb.forwarded
      lines == BusLines(arb.request, arb.inhibit)
  IN  Worker([arb EXCEPT !.signalled = arb.request, !.grant = grant,
                         !.state = IF grant \cap QLevels # {} THEN "intr_vector"
                                   ELSE IF QNP \in grant THEN "dma_wait" ELSE @],
             [latch EXCEPT !.lines = lines], {})

dma_grant_rply_sync_wait(arb, latch) ==
  IF QRPLY \/ QSYNC THEN Worker(arb, latch, {})
  ELSE Worker([arb EXCEPT !.state = "grant_check", !.request = @ \ {QNP}],
              [latch EXCEPT !.SACK = TRUE, !.lines = @ \ {QNP}], {QNP})

intr_vector(arb, latch) ==
  IF ~QDIN THEN Worker(arb, latch, {})
  ELSE Worker([arb EXCEPT !.state = "intr_complete", !.request = @ \ arb.grant],
              [latch EXCEPT !.RPLY = TRUE, !.lines = @ \ arb.grant], {})

(* The mask that is returned is that of all requests on the lines: with a    *)
(* DMA among them, main() starts sm_dma.                                     *)
intr_complete(arb, latch) ==
  IF qcpu.iak # 0 THEN Worker(arb, latch, {})
  ELSE Worker([arb EXCEPT !.state = "grant_check"], [latch EXCEPT !.RPLY = FALSE], arb.signalled)

noop(arb, latch) ==
  Worker([arb EXCEPT !.request = @ \ {QNP}],
         [latch EXCEPT !.grants = GrantIn,
                       !.lines = IF arb.inhibit THEN @ \cup {QNP} ELSE @ \ {QNP}],
         arb.request \cap {QNP})

DeviceWorker(arb, latch) ==
  CASE arb.state = "grant_check"   -> grant_check(arb, latch)
    [] arb.state = "dma_wait"      -> dma_grant_rply_sync_wait(arb, latch)
    [] arb.state = "intr_vector"   -> intr_vector(arb, latch)
    [] arb.state = "intr_complete" -> intr_complete(arb, latch)
    [] arb.state = "noop"          -> noop(arb, latch)

(* sm_initialization_func(): INIT clears the requests. *)
AfterInit == IF q_init.line THEN {} ELSE q_arb.request

(* A grant that is being answered is answered to the end. *)
InProgress == IF q_arb.state = "grant_check" THEN {} ELSE q_arb.grant

(* sm_dma_start() *)
DmaStarted(granted) ==
  [NoDma EXCEPT !.state = "addr", !.addr = qarm.dma[1], !.left = qarm.dma[2],
                !.granted = q_dma.granted /\ granted]

(* main(), state "SLAVE", after the slave cycle or without any: INIT, the     *)
(* grants that are forwarded, and the arbitration unless a register access   *)
(* is with ARM.                                                              *)
qbus_arbitration ==
  /\ qpc = "bus" \/ (qpc = "slave" /\ q_dma.state = "none" /\ q_slave.state = "stop" /\ ~QSYNC)
  /\ qpc' = "command"
  /\ LET forwarded == GrantIn \ q_arb.signalled
         arb == [q_arb EXCEPT !.request = AfterInit, !.forwarded = forwarded]
         latch == [qlatch EXCEPT !.grants = forwarded]
         worker == IF deviceregister_event THEN Worker(arb, latch, {}) ELSE DeviceWorker(arb, latch)
         completed == IF q_arb.state = "intr_complete" /\ worker.arb.state = "grant_check"
                        THEN q_arb.grant ELSE {}
     IN  /\ q_arb' = worker.arb
         /\ qlatch' = worker.latch
         /\ q_dma' = IF QNP \in worker.granted
                       THEN DmaStarted(q_arb.state # "intr_complete") ELSE q_dma
         /\ qarm' = [qarm EXCEPT !.requests =
                       @ \ (completed \cup (IF q_init.line THEN q_arb.request \ InProgress ELSE {}))]
  /\ UNCHANGED <<q_slave, q_init, deviceregister_event, qcpu, qboard, qcycle>>

-----------------------------------------------------------------------------
(* State "MASTER": one state of sm_dma. *)
BlockEnd(addr, left) ==
  Min({addr + Min({left, QBlockWords}) - 1, (addr \div QBoundary) * QBoundary + QBoundary - 1})

dma_state_addr ==
  /\ q_dma.state = "addr"
  /\ q_dma' = [q_dma EXCEPT !.state = "data", !.block_end = BlockEnd(q_dma.addr, q_dma.left),
                            !.more = TRUE, !.timeout = FALSE, !.in_block = {}]
  /\ qlatch' = [qlatch EXCEPT !.SYNC = TRUE]
  /\ UNCHANGED <<deviceregister_event, qarm>>

(* din_start and dout_start: the PRU answers for what is emulated, and may   *)
(* raise a register's event. *)
Moved(dma) == [dma EXCEPT !.moved = @ \cup {dma.addr}, !.in_block = @ \cup {dma.addr}]

dma_state_data ==
  /\ q_dma.state = "data"
  /\ IF q_dma.addr \in QMemory \cup QRegisters
       THEN /\ q_dma' = [Moved(q_dma) EXCEPT !.state = "99", !.more = q_dma.addr # q_dma.block_end]
            /\ deviceregister_event' = (deviceregister_event \/ q_dma.addr \in QRegisters)
            /\ UNCHANGED qlatch
       ELSE /\ q_dma' = [q_dma EXCEPT !.state = "complete"]
            /\ qlatch' = [qlatch EXCEPT !.strobe = TRUE]
            /\ UNCHANGED deviceregister_event
  /\ UNCHANGED qarm

(* din_complete and dout_complete: RPLY of another board, with or without    *)
(* REF, or the timeout.                                                      *)
dma_state_complete ==
  /\ q_dma.state = "complete"
  /\ qlatch' = [qlatch EXCEPT !.strobe = FALSE]
  /\ IF q_dma.addr \in QForeign
       THEN \E REF \in BOOLEAN :
              q_dma' = [Moved(q_dma) EXCEPT !.state = "99",
                                            !.more = REF /\ q_dma.addr # q_dma.block_end]
       ELSE q_dma' = [q_dma EXCEPT !.state = "99", !.more = FALSE, !.timeout = TRUE]
  /\ UNCHANGED <<deviceregister_event, qarm>>

(* A word is transferred.  The end, by the last word, a timeout or INIT, is  *)
(* signalled to ARM.                                                         *)
dma_state_99 ==
  /\ q_dma.state = "99"
  /\ IF q_dma.timeout \/ q_dma.left = 1 \/ q_init.line
       THEN /\ q_dma' = [NoDma EXCEPT !.granted = q_dma.granted]
            /\ qlatch' = [qlatch EXCEPT !.SACK = FALSE, !.SYNC = FALSE]
            /\ qarm' = [qarm EXCEPT !.requests = @ \ {QNP}]
       ELSE /\ q_dma' = [q_dma EXCEPT !.addr = @ + 1, !.left = @ - 1,
                                      !.state = IF q_dma.more THEN "data" ELSE "addr"]
            /\ qlatch' = [qlatch EXCEPT !.SYNC = q_dma.more]
            /\ UNCHANGED qarm
  /\ UNCHANGED deviceregister_event

qbus_master ==
  /\ qpc = "slave"
  /\ qpc' = "command"
  /\ dma_state_addr \/ dma_state_data \/ dma_state_complete \/ dma_state_99
  /\ UNCHANGED <<q_arb, q_slave, q_init, qcpu, qboard, qcycle>>

-----------------------------------------------------------------------------
(* The command of ARM: one DMA at a time, one interrupt per level. *)
QCommand(arb, arm) ==
  /\ qpc = "command"
  /\ qpc' = "slave"
  /\ q_arb' = arb /\ qarm' = arm
  /\ UNCHANGED <<qlatch, q_dma, q_slave, q_init, deviceregister_event, qcpu, qboard, qcycle>>

qbus_no_command == QCommand(q_arb, qarm)

qbus_DMA(dma) ==
  /\ QNP \in qarm.lines \ qarm.requests
  /\ QCommand([q_arb EXCEPT !.request = @ \cup {QNP}],
              [qarm EXCEPT !.requests = @ \cup {QNP}, !.dma = dma])

qbus_INTR(level) ==
  /\ level \in qarm.lines \ qarm.requests
  /\ QCommand([q_arb EXCEPT !.request = @ \cup {level}],
              [qarm EXCEPT !.requests = @ \cup {level}])

(* An interrupt that is granted already is completed all the same. *)
qbus_INTR_CANCEL(level) ==
  /\ level \in qarm.requests
  /\ QCommand([q_arb EXCEPT !.request = @ \ {level}], [qarm EXCEPT !.requests = @ \ {level}])

(* A dummy request keeps the processor's ODT off the bus. *)
qbus_CPU_BUS_ACCESS ==
  QCommand([q_arb EXCEPT !.inhibit = ~@], qarm)

(* ARM has handled the register access. *)
qbus_deviceregister_ack ==
  /\ deviceregister_event
  /\ deviceregister_event' = FALSE
  /\ UNCHANGED <<qpc, q_arb, qlatch, q_dma, q_slave, q_init, qcpu, qboard, qcycle, qarm>>

-----------------------------------------------------------------------------
(* The processor: DMG on DMR, IAK when no DMA is wanted, else cycles.  It    *)
(* negates DMG on SACK, and when DMR goes or nobody answers.  It goes on when *)
(* the PRU, a turn of its loop later, has passed on the end of the grant.    *)
Processor == q_arb.state # "noop"

ProcessorFree ==
  /\ Processor
  /\ ~qcpu.dmg /\ qcpu.iak = 0 /\ qlatch.grants = {}
  /\ ~QSACK /\ ~QSYNC /\ ~QRPLY /\ ~q_init.line

CpuStep(new) ==
  /\ qcpu' = new
  /\ UNCHANGED <<qpc, q_arb, qlatch, q_dma, q_slave, q_init, deviceregister_event, qboard, qcycle, qarm>>

cpu_DMGO ==
  /\ Processor
  /\ ~qcpu.dmg /\ qcpu.iak = 0 /\ ~QSACK /\ qlatch.grants = {}
  /\ QNP \in QRequests
  /\ CpuStep([qcpu EXCEPT !.dmg = TRUE])

cpu_DMGO_end ==
  /\ qcpu.dmg
  /\ \/ QSACK \/ QNP \notin QRequests
     \/ QNP \in qlatch.grants \ qboard.requests /\ qcycle.by = "none"
  /\ CpuStep([qcpu EXCEPT !.dmg = FALSE])

cpu_IAKO ==
  /\ ProcessorFree
  /\ QNP \notin QRequests /\ QRequests \cap QLevels # {}
  /\ CpuStep([qcpu EXCEPT !.iak = Max(QRequests \cap QLevels)])

cpu_IAKO_end ==
  /\ qcpu.iak # 0
  /\ QRPLY \/ qcpu.iak \in qlatch.grants \ qboard.requests
  /\ CpuStep([qcpu EXCEPT !.iak = 0])

(* Cycles, of the processor or of the board: the address is latched on SYNC, *)
(* then strobes with RPLY of the PRU or of another slave, or without any.    *)
(* SYNC is negated long enough for the PRU's slave loop to see it.           *)
CycleStep(new) ==
  /\ qcycle' = new
  /\ UNCHANGED <<qpc, q_arb, qlatch, q_dma, q_slave, q_init, deviceregister_event, qcpu, qboard, qarm>>

cpu_cycle(c) ==
  /\ ProcessorFree /\ q_slave.state = "stop"
  /\ CycleStep([NoCycle EXCEPT !.by = "processor", !.sync = c.addr, !.addr = c.addr, !.todo = c.strobes])

cycle_strobe ==
  /\ qcycle.todo # <<>> /\ qcycle.strobe = "none" /\ ~QRPLY
  /\ CycleStep([qcycle EXCEPT !.strobe = qcycle.todo[1]])

cycle_rply ==
  /\ qcycle.strobe # "none" /\ ~qcycle.rply
  /\ qcycle.addr \in QForeign
  /\ CycleStep([qcycle EXCEPT !.rply = TRUE])

(* The next word is one further; DOUT after DIN goes to the same address. *)
cycle_strobe_end ==
  /\ qcycle.strobe # "none"
  /\ QRPLY \/ ~(Emulated(qcycle.addr) \/ qcycle.addr \in QForeign)
  /\ LET rest == SubSeq(qcycle.todo, 2, Len(qcycle.todo))
     IN  CycleStep([qcycle EXCEPT !.strobe = "none", !.rply = FALSE, !.todo = rest,
                                  !.addr = IF rest = <<>> \/ rest[1] # qcycle.strobe THEN @ ELSE @ + 1])

cycle_end ==
  /\ qcycle.by # "none" /\ qcycle.todo = <<>> /\ ~QRPLY
  /\ qcycle' = NoCycle
  /\ qboard' = IF qcycle.by = "board" THEN [qboard EXCEPT !.SACK = FALSE, !.granted = {}] ELSE qboard
  /\ UNCHANGED <<qpc, q_arb, qlatch, q_dma, q_slave, q_init, deviceregister_event, qcpu, qarm>>

(* The RESET instruction. *)
qbus_INIT ==
  /\ qcpu.iak = 0 /\ qcycle.by # "processor"
  /\ q_init.line \/ q_init.pulses < QMaxInits
  /\ q_init' = [q_init EXCEPT !.line = ~@, !.pulses = @ + (IF q_init.line THEN 0 ELSE 1)]
  /\ UNCHANGED <<qpc, q_arb, qlatch, q_dma, q_slave, deviceregister_event, qcpu, qboard, qcycle, qarm>>

(* The other board. *)
QBoardStep(new) ==
  /\ qboard' = new
  /\ UNCHANGED <<qpc, q_arb, qlatch, q_dma, q_slave, q_init, deviceregister_event, qcpu, qcycle, qarm>>

qboard_request(line) ==
  /\ line \in qboard.lines \ (qboard.requests \cup qboard.granted)
  /\ QBoardStep([qboard EXCEPT !.requests = @ \cup {line}])

qboard_SACK ==
  /\ QNP \in qlatch.grants \cap qboard.requests
  /\ qboard.granted = {} /\ ~QSYNC /\ ~QRPLY
  /\ QBoardStep([qboard EXCEPT !.requests = @ \ {QNP}, !.granted = {QNP}, !.SACK = TRUE])

qboard_cycle ==
  /\ qboard.SACK /\ qcycle.by = "none" /\ q_slave.state = "stop"
  /\ \E a \in QMemory \cup QForeign :
       CycleStep([NoCycle EXCEPT !.by = "board", !.sync = a, !.addr = a, !.todo = <<"DIN">>])

qboard_vector(level) ==
  /\ level \in qlatch.grants \cap qboard.requests
  /\ qboard.granted = {} /\ QDIN /\ ~QRPLY
  /\ QBoardStep([qboard EXCEPT !.requests = @ \ {level}, !.granted = {level}, !.RPLY = TRUE])

qboard_vector_end ==
  /\ qboard.RPLY /\ qcpu.iak = 0
  /\ QBoardStep([qboard EXCEPT !.granted = {}, !.RPLY = FALSE])

-----------------------------------------------------------------------------
qbus_loop ==
  \/ qbus_data_slave \/ qbus_arbitration \/ qbus_master
  \/ qbus_no_command \/ qbus_CPU_BUS_ACCESS
  \/ \E dma \in QDmas : qbus_DMA(dma)
  \/ \E level \in QLevels : qbus_INTR(level) \/ qbus_INTR_CANCEL(level)

qbus_environment ==
  \/ cpu_DMGO \/ cpu_DMGO_end \/ cpu_IAKO \/ cpu_IAKO_end
  \/ \E c \in QCycles : cpu_cycle(c)
  \/ cycle_strobe \/ cycle_rply \/ cycle_strobe_end \/ cycle_end
  \/ qbus_INIT
  \/ \E line \in QLines : qboard_request(line)
  \/ qboard_SACK \/ qboard_cycle
  \/ \E level \in QLevels : qboard_vector(level)
  \/ qboard_vector_end

(* After a DMA that was not granted (QDmaHasSack) nothing is stated. *)
QbusNext ==
  \/ q_dma.granted /\ (qbus_loop \/ qbus_deviceregister_ack \/ qbus_environment)
  \/ ~q_dma.granted /\ UNCHANGED qbusvars

(* The processor and the other board go on. *)
QbusEnvironmentFairness ==
  /\ WF_qbusvars(cpu_DMGO) /\ SF_qbusvars(cpu_DMGO_end) /\ SF_qbusvars(cpu_IAKO_end)
  /\ WF_qbusvars(cycle_strobe) /\ WF_qbusvars(cycle_rply)
  /\ WF_qbusvars(cycle_strobe_end) /\ WF_qbusvars(cycle_end)
  /\ WF_qbusvars(q_init.line /\ qbus_INIT)
  /\ WF_qbusvars(qboard_SACK) /\ WF_qbusvars(qboard_cycle) /\ WF_qbusvars(qboard_vector_end)
  /\ \A level \in QLevels : WF_qbusvars(qboard_vector(level))

QbusFairness ==
  WF_qbusvars(qbus_loop) /\ WF_qbusvars(qbus_deviceregister_ack) /\ QbusEnvironmentFairness

QbusSpec == QbusInit /\ [][QbusNext]_qbusvars /\ QbusFairness

-----------------------------------------------------------------------------
(* "If return !=0: we have SACK": sm_dma runs with SACK.  But the end of an   *)
(* interrupt returns all requests on the lines, a DMA among them, and what   *)
(* follows is stated for the time before such a DMA (granted is FALSE).      *)
QDmaHasSack == Processor /\ q_dma.state # "none" => qlatch.SACK

(* Never two bus masters: the PRU drives the bus for a DMA with SACK, and    *)
(* when neither the processor nor the other board has a cycle; a grant has   *)
(* one taker.                                                                *)
QSingleMaster ==
  /\ QDmaHasSack
  /\ ~(qlatch.SYNC /\ qcycle.by # "none")
  /\ ~(qlatch.SACK /\ qboard.SACK)
  /\ ~(q_arb.state = "intr_complete" /\ qboard.RPLY)

(* A block of a DMA has at most eight words and stays within its 16 words,   *)
(* and the words are moved one after the other, each once ...                *)
QTransfersExact ==
  /\ Cardinality(q_dma.in_block) <= QBlockWords
  /\ \A a, b \in q_dma.in_block : a \div QBoundary = b \div QBoundary
  /\ q_dma.state = "data" => q_dma.moved = qarm.dma[1] .. q_dma.addr - 1

(* The PRU answers the word that the master means, through blocks and DATIO. *)
SlaveInStep ==
  qlatch.RPLY /\ qcycle.strobe # "none" /\ qcpu.iak = 0 => q_slave.addr = qcycle.addr

(* ... which needs this.  The types: *)
QArbState ==
  [state : {"grant_check", "dma_wait", "intr_vector", "intr_complete", "noop"},
   request : SUBSET QLines, signalled : SUBSET QLines, forwarded : SUBSET QLines,
   grant : SUBSET QLines, inhibit : BOOLEAN]
QLatchState ==
  [lines : SUBSET Nat, SACK : BOOLEAN, SYNC : BOOLEAN, strobe : BOOLEAN, RPLY : BOOLEAN,
   grants : SUBSET QLines]
QDmaState ==
  [state : {"none", "addr", "data", "complete", "99"}, addr : Nat, left : Nat, block_end : Int,
   more : BOOLEAN, timeout : BOOLEAN, granted : BOOLEAN, moved : SUBSET Nat, in_block : SUBSET Nat]
QSlaveState ==
  [state : {"stop", "dindout_start", "DIN", "DOUT", "din_block", "dout_block"}, addr : Nat]
QCycleState ==
  [by : {"none", "processor", "board"}, sync : Nat, addr : Nat, todo : Seq({"DIN", "DOUT"}),
   strobe : {"none", "DIN", "DOUT"}, rply : BOOLEAN]
QBoardState ==
  [lines : SUBSET QLines, requests : SUBSET QLines, granted : SUBSET QLines,
   SACK : BOOLEAN, RPLY : BOOLEAN]

QTypeOK ==
  /\ qpc \in {"slave", "bus", "command"}
  /\ q_arb \in QArbState /\ qlatch \in QLatchState /\ q_dma \in QDmaState
  /\ q_slave \in QSlaveState /\ q_init \in [line : BOOLEAN, pulses : Nat]
  /\ deviceregister_event \in BOOLEAN
  /\ qcpu \in [dmg : BOOLEAN, iak : QLevels \cup {0}]
  /\ qboard \in QBoardState /\ qcycle \in QCycleState
  /\ qarm \in [lines : SUBSET QLines, requests : SUBSET QLines, dma : Nat \X (Nat \ {0})]

(* The PRU answers for the lines of its devices, the board for its own.       *)
QLinesKept ==
  /\ q_arb.request \cup q_arb.signalled \cup q_arb.grant \cup qarm.requests \subseteq qarm.lines
  /\ QNP \in q_arb.request => QNP \in qarm.requests /\ q_dma.state = "none"
  /\ qboard.requests \cup qboard.granted \subseteq qboard.lines
  /\ qarm.lines \cap qboard.lines = {}

SlaveAnswers == q_slave.state \in {"DIN", "DOUT"}
VectorTaken == q_arb.state \in {"intr_vector", "intr_complete"}

(* The PRU is slave, master or neither, and drives the lines accordingly.     *)
PruInStep ==
  /\ qpc = "bus" => q_dma.state = "none"
  /\ qpc # "slave" => SlaveAnswers \/ q_slave.state = "stop"
  /\ q_dma.state # "none" => q_slave.state = "stop" /\ q_arb.state \in {"grant_check", "noop"}
  /\ Processor => (qlatch.SACK <=> q_dma.state # "none")
  /\ qlatch.SYNC => q_dma.state # "none"
  /\ qlatch.RPLY <=> SlaveAnswers \/ q_arb.state = "intr_complete"

(* Without a processor there are no grants, and no other master.              *)
NoProcessorInStep ==
  ~Processor =>
    /\ ~qcpu.dmg /\ qcpu.iak = 0 /\ qlatch.grants = {} /\ ~qlatch.SACK
    /\ qboard.granted = {} /\ ~qboard.SACK /\ ~qboard.RPLY
    /\ qcycle.by = "none" /\ q_slave.state = "stop"

(* One grant at a time is in the chain.  The processor keeps it until it is   *)
(* taken, and it is taken by the PRU or passed on.                            *)
GrantsInStep ==
  /\ \A a, b \in qlatch.grants : a = b
  /\ qcpu.dmg => qcpu.iak = 0
  /\ qcpu.iak # 0 => qcycle.by = "none" /\ ~QSACK /\ qlatch.grants \subseteq {qcpu.iak}
  /\ q_arb.state = "dma_wait" =>
       /\ qcpu.dmg /\ QNP \in qlatch.lines
       /\ QNP \in q_arb.signalled \ qlatch.grants
       /\ q_arb.grant = {QNP} /\ QNP \in qarm.requests
  /\ VectorTaken => /\ ~qboard.RPLY /\ ~qboard.SACK
                    /\ q_arb.grant \subseteq q_arb.signalled \cap QLevels
                    /\ qcpu.iak # 0 => q_arb.grant = {qcpu.iak} /\ qcpu.iak \notin qlatch.grants
  /\ q_arb.state = "intr_vector" => qcpu.iak # 0

(* The board took a grant of its own, that of DMG or of IAK.                  *)
BoardInStep ==
  /\ qboard.SACK => /\ qboard.granted = {QNP} /\ qcpu.iak = 0
                    /\ qlatch.grants \subseteq {QNP} /\ ~qboard.RPLY
  /\ qboard.RPLY => qcpu.iak \in qboard.granted \cup {0}

(* The address at which the slave expects the next word.                      *)
NextWord(kind) == IF qcycle.todo[1] = kind THEN q_slave.addr + 1 ELSE q_slave.addr

(* The cycle of another master, which the slave follows.                      *)
CycleInStep ==
  /\ qcycle.by = "none" => qcycle = NoCycle /\ ~SlaveAnswers
  /\ qcycle.by # "none" => /\ qcpu.iak = 0 /\ ~VectorTaken /\ ~qboard.RPLY /\ ~qlatch.SACK
                           /\ qlatch.grants \subseteq {QNP}
  /\ qcycle.by = "processor" => ~q_init.line
  /\ qcycle.by = "board" => qboard.SACK /\ qcycle.addr = qcycle.sync /\ Len(qcycle.todo) <= 1
  /\ qcycle.strobe # "none" => qcycle.todo # <<>> /\ qcycle.strobe = qcycle.todo[1]
  /\ qcycle.rply => qcycle.addr \in QForeign

SlaveFollows ==
  qcycle.by # "none" =>
    /\ q_slave.state = "dindout_start" /\ ~Emulated(qcycle.sync) => q_slave.addr = qcycle.sync
    /\ IF ~Emulated(qcycle.sync) THEN q_slave.state \in {"stop", "dindout_start"}
       ELSE /\ Emulated(qcycle.addr) /\ OneSlave(qcycle.addr, qcycle.todo)
            /\ q_slave.state = "stop" => qcycle.addr = qcycle.sync
            /\ q_slave.state = "dindout_start" => q_slave.addr = qcycle.addr
            /\ SlaveAnswers /\ qcycle.strobe # "none" =>
                 qcycle.strobe = q_slave.state /\ q_slave.addr = qcycle.addr
            /\ SlaveAnswers /\ qcycle.strobe = "none" /\ qcycle.todo # <<>> =>
                 qcycle.addr = NextWord(q_slave.state)
            /\ q_slave.state = "din_block" /\ qcycle.todo # <<>> => qcycle.addr = NextWord("DIN")
            /\ q_slave.state = "dout_block" /\ qcycle.todo # <<>> => qcycle.addr = NextWord("DOUT")

(* The words of a DMA: those moved, those to come, and the block.             *)
InBlock(a, block_end) ==
  /\ block_end - QBlockWords < a /\ a <= block_end
  /\ (block_end \div QBoundary) * QBoundary <= a

WordsInBlock ==
  /\ \A a \in q_dma.in_block : InBlock(a, q_dma.block_end)
  /\ q_dma.state \in {"data", "complete", "99"} => InBlock(q_dma.addr, q_dma.block_end)
  /\ q_dma.state = "99" /\ q_dma.more => q_dma.addr # q_dma.block_end

WordsMoved ==
  q_dma.state # "none" =>
    /\ QNP \in qarm.requests
    /\ q_dma.left > 0 /\ q_dma.addr >= qarm.dma[1]
    /\ q_dma.addr + q_dma.left = qarm.dma[1] + qarm.dma[2]
    /\ IF q_dma.state = "99" THEN q_dma.timeout \/ q_dma.moved = qarm.dma[1] .. q_dma.addr
       ELSE q_dma.moved = qarm.dma[1] .. q_dma.addr - 1

QIndInv ==
  /\ QLinesKept /\ PruInStep /\ NoProcessorInStep /\ GrantsInStep /\ BoardInStep
  /\ CycleInStep /\ SlaveFollows /\ WordsInBlock /\ WordsMoved

QSafe ==
  QTypeOK /\ (q_dma.granted => QSingleMaster /\ QTransfersExact /\ SlaveInStep /\ QIndInv)

(* The PRU works on, or will arbitrate for, what ARM handed to it. *)
QOnPru(line) ==
  \/ line \in q_arb.request
  \/ line \in InProgress
  \/ line = QNP /\ q_dma.state # "none"

(* No grant or command makes the PRU forget it, and INIT only what has no    *)
(* grant yet; and without a timeout or INIT a DMA ends when all of its words *)
(* are moved.                                                                *)
QRequestKept ==
  [][/\ q_dma.state = "99" /\ q_dma'.state = "none" /\ ~q_dma.timeout /\ ~q_init.line =>
          q_dma.moved = qarm.dma[1] .. qarm.dma[1] + qarm.dma[2] - 1
     /\ \A line \in qarm.requests \cap qarm.requests' :
       QOnPru(line) /\ q_dma'.granted => QOnPru(line)']_qbusvars

(* A DMA gets the bus, whatever the board and the processor do. *)
QDmaServed == QNP \in qarm.requests ~> (QNP \notin qarm.requests \/ ~q_dma.granted)
=============================================================================
