# QUniBone in TLA+

QUniBone puts emulated PDP-11 devices, and if wanted an emulated CPU, onto a real UNIBUS or
QBUS. A Linux program on the ARM core of a BeagleBone holds the device logic; firmware on the
two PRU coprocessors drives the bus lines in real time. This directory models first what
everything else rests on: how requests of many device threads share one bus through a mailbox
between ARM and PRU, how the PRU arbitrates the UNIBUS and the QBUS, and how an interrupt finds
its way to the CPU. On it stand the disk controllers, the UDA50 with its MSCP server, the serial
line, the emulated CPUs with their arithmetic and memory management, and the RT-11 filesystem
that is shared with the host.

Modules are checked with TLC on small instances. The safety properties of the core (scheduler, DMA
path, INTR path, UNIBUS and QBUS arbitration, interrupt fielding), of the disk controllers, the UDA50
with its MSCP server, the serial line, the processor's modes and memory management and the image
partitions are proved with TLAPS for all values of the constants.
File names below are relative to `src/`; `base` is `10.01_base/2_src`, `devices` is
`10.02_devices/2_src`, and *adapter* is `base/arm/qunibusadapter.cpp`.

## 1. Inventory

### 1.1 Threads and processors

| Actor | Code | Runs |
|---|---|---|
| PRU1 | `base/pru1_u/pru1_main_unibus.c` | one endless loop of state machines, no interrupts |
| adapter thread | `qunibusadapter_c::worker()` | woken by the PRU, highest real-time priority |
| device threads | `*_c::worker()` of each controller and drive | below the adapter |
| CPU thread | `cpu_c::worker()` | lowest; polls instead of sleeping |
| user interface | `10.03_app_demo` | enables, disables, parameters |

ARM and PRU share a mailbox. ARM writes a command (`arm2pru_req`) and spins until the PRU
clears it. The PRU signals an event by `signaled++`, ARM acknowledges by `acked++`; the two
8-bit counters are compared for equality (`base/shared/mailbox.h:190-206`). A register access
by the PDP-11 stops the bus cycle until the adapter thread has run the device's
`on_after_register_access()`.

### 1.2 Components

**Request scheduler** (adapter, `base/arm/priorityrequest.*`). State: five levels (BR4..BR7,
NPR), each a table of 32 slots, a bit mask and the request *active* on the PRU; in each request
`complete`, `success`, `executing_on_PRU`, and for a DMA the words still to move. Operations:
`DMA()`, `INTR()`, `cancel_INTR()`, the completion events, and clearing on INIT and DCLO, all
under `requests_mutex`. Hard: operations of five kinds of thread in any order, requests that
interrupt a DMA between two chunks, INIT at any moment. Correct if the three views of a level
agree, if a caller blocked in `DMA()` is released exactly when its request is done, and if
success is reported only for a complete transfer.

**DMA path** (adapter 468-520, 604-712, 1020-1093, 1141-1310; `pru1_statemachine_dma.c`).
State: the mailbox, the event counters, the PRU's request, grant and transfer. Device threads
sleep on a condition variable; the CPU thread polls the event itself, in competition with
`worker()`. Hard: `worker()` tests the event without the lock and acknowledges it after the
lock. Correct if every event is applied once and to the request it belongs to, and every
`DMA()` returns.

**INTR path** (adapter 521-568, 731-879, 1095-1120; `pru1_statemachine_intr_master.c`).
State: one vector per level in the mailbox, request lines, a grant on its way, events per
level. Hard: cancellation and INIT after the grant. Correct if each interrupt raised reaches
the CPU once with its own vector and completes its own request.

**INIT, ACLO, DCLO** (`pru1_utils.c:39-93`, adapter 881-929, 1178-1248, 1304-1310). The PRU
reports levels, not edges. Correct if the adapter ends up with the lines' state and every
blocked thread is released.

**Bus arbitration** (`pru1_main_unibus.c`, `pru1_statemachine_arbitration.c`). State: requested,
signalled, forwarded and granted masks, SACK, BBSY, SSYN, the emulated arbitrator's grant and
its timeout. Two arbitrators: a physical CPU, whose unrequested grants are passed down the bus,
or the PRU for an emulated CPU. Correct if there is one bus master, one taker for a grant, no
request forgotten, and no DMA waits for ever.

**Interrupt fielding** (`devices/cpu20/ka11.c`, `devices/cpu.cpp`,
`pru1_statemachine_intr_slave.c`, adapter 1290-1303; the KD11-EA of `devices/cpu34` has the same
interface). The CPU thread permits arbitration before each instruction, the PRU receives the
vector, the adapter thread stores it, the CPU thread finds it before a later instruction.
Correct if no vector is lost or overrun, priorities hold and grants resume.

**Data slave, I/O page registers, memory** (`pru1_statemachine_data_slave.c`,
`pru1_iopageregisters.c`, `base/arm/iopageregister.cpp`, `ddrmem.cpp`). State: register values
and the map from address to register handle. Correct if an access to an active register is
handled once, with the value written, before the cycle ends.

**ARM-to-PRU commands and PRU timeouts** (`base/arm/mailbox.cpp:127-162`, `pru1_timeouts.c`).
Correct if a command is executed once and no timeout shifts another.

**Device registration and framework** (adapter 100-340, `qunibusdevice.cpp`, `device.cpp`,
`parameter.cpp`). State: handles, the I/O page map, worker threads. Correct if enabling and
disabling in any order leaves no handle, map entry, mutex or request behind.

**CPU run control** (`devices/cpu.cpp:200-509`). State: run mode, switches, power events.
Correct if no power edge is lost and HALT, CONTINUE and START have the order of a console.

**Controllers**: RL11/RL01-02, RK11/RK05, RX11/RX211 (with the drive's microprocessor),
RF11/RS11, UDA50/MSCP, DL11-W with the KW11 clock, KE11, M9312 and ROM. Each is a register
file, a worker thread with a command state machine, a mutex between the two, and calls of
`DMA()` and `INTR()`. Hard in all of them: a register written, or INIT, while the worker is
inside `DMA()`. Correct if every accepted command ends with ready (and, if enabled, one
interrupt), if an aborted command changes nothing afterwards, and if no controller blocks the
adapter thread it depends on.

**Storage and shared filesystems** (`storagedrive.cpp`, `storageimage.cpp`,
`sharedfilesystem/`): sectors of a file, and the two-way synchronisation of a DEC filesystem
with a host directory.

**QBUS firmware** (`base/pru1_q`): the second build of the PRU program.

**The rest**: panels, test devices, board support, menus, test bench, utilities: input and
output or text, listed in `PROJECT.json`.

### 1.3 How the components interact

    controller --DMA(), INTR()--> scheduler --ARM2PRU_DMA, ARM2PRU_INTR--> PRU arbitration
        ^                            ^                                          |
        | on_init/power_changed,     | dma, intr_master, INIT, power events     v
        | on_after_register_access   +------------------- worker() <------- PRU masters
        +------ worker() <- deviceregister event <- PRU data slave <- bus cycles
    emulated CPU --DMA(cpu)--> scheduler        CPU <-setintr- worker() <- PRU intr_slave

The controller calls into the scheduler from its own thread; `worker()` calls into the
controller from the adapter's thread, while the bus stands still. A controller that holds its
mutex while it waits in `DMA()` therefore waits for a thread that may be waiting for that
mutex.

The hazards this gives rise to are in `PROJECT.json`, each at its line, with the properties
that cover it or the reason why none does yet.

## 2. Modules

| Module | Models | Uses |
|---|---|---|
| `PriorityRequests` | operators on one level's table | |
| `RequestScheduler` | the scheduler: one action per critical section of `requests_mutex`; the PRU's events unrestricted | `PriorityRequests` |
| `RequestScheduler_proofs`, `Masks_proofs` | theorems about it; lemmas on the highest and lowest bit of a mask | |
| `DmaScheduling` | the DMA path step by step, with the PRU | `RequestScheduler`, whose actions it takes |
| `DmaScheduling_proofs` | theorems about it | `RequestScheduler_proofs` |
| `IntrScheduling` | the INTR path step by step, with the PRU | `RequestScheduler`, whose actions it takes |
| `IntrScheduling_proofs` | theorems about it | `RequestScheduler_proofs` |
| `UnibusArbitration` | the PRU's main loop on the UNIBUS, with other boards and a physical CPU | |
| `QbusArbitration` | the same for the QBUS: block mode DMA, slave cycles, DMG and IAK, another board and a processor | |
| `BusArbitration` | what both promise to ARM | `UnibusArbitration`, `QbusArbitration` |
| `Arbitration_proofs` | theorems about both | `BusArbitration`, `Masks_proofs` |
| `InterruptFielding` | PRU, adapter and CPU threads around an interrupt vector | |
| `RL11Controller`, `RK11Controller`, `RF11Controller`, `RXFloppy` | the disk controllers with their drives, worker threads, register accesses and INIT | |
| `Disks_proofs` | theorems about `RL11Controller`, `RK11Controller` and `RF11Controller` | |
| `MscpService` | what a UDA50 promises: commands answered once and in order, none across a reset | |
| `MscpPort` | UDA50 port, MSCP server, and a host driver | `MscpService`, which it implements |
| `DL11Serial` | DL11-W: receiver, transmitter and line clock | |
| `PDP11Step` | `step()` of the two CPU cores, and `worker()` around it | |
| `PDP11Arithmetic` | results and condition codes of the instructions, the EIS | |
| `KT11DMemoryManagement` | registers, relocation and aborts of the KT11-D | |
| `ProcessorProtection` | what the cores and the KT11-D together protect | `PDP11Step`, `KT11DMemoryManagement` |
| `Processor_proofs` | theorems about `InterruptFielding` and `ProcessorProtection` | |
| `KE11Arithmetic` | the KE11's operations | |
| `RT11Filesystem` | an RT-11 volume: layout, rendering, parsing, the host's events, changes against a snapshot | |
| `ImagePartition` | a filesystem's blocks on the interleaved and skewed sectors of an image | |
| `Controllers_proofs` | theorems about `MscpPort`, `DL11Serial` and `ImagePartition` | |
| `MC...` | constants for TLC, and the compositions `MCUnibusArbitration`, `MCControllers`, `MCServices`, `MCDisks` and `MCProcessor` | |

`RequestScheduler` is the abstract specification of the ARM side: it says what happens to the
tables whatever the PRU reports. `DmaScheduling` and `IntrScheduling` extend it: their actions
are its actions conjoined with the mailbox, the lock, `worker()`'s program counter and the PRU,
plus steps that leave its variables alone. That they take only steps of the scheduler is therefore
plain from how they are written, and neither a run nor a theorem makes a point of it; what follows,
that the scheduler's invariant holds in both, is the lemma `TablesHere` of their proofs. `MscpPort` instantiates
`MscpService` with a refinement mapping that reads the commands waiting and the responses not
yet taken from the two rings, the server's queue and the response in its hands.

`MCUnibusArbitration`, `MCControllers`, `MCServices`, `MCDisks` and `MCProcessor` are disjoint
sums: the initial state picks one of the parts, and the others stand still. The parts share nothing but
the bus, whose share of the behaviour (a DMA that takes time, fails or is cut off by INIT; an interrupt
request that is pending) is in each of them, so a product would only repeat their states.

### 2.1 State and actions

`RequestScheduler`. `request_levels` is `request_levels[]`; the flags are functions on requests.
`entering` holds threads between the unlocked test of `line_INIT` and the lock (adapter
630-634, 747-751), `waiting` those inside `DMA()`. `clearing` holds the signals for which
`worker()` has seen the edge and not yet cleared the tables. `failed_assert` names an `assert()`
that ended the program, after which nothing happens. Requests are what devices construct once:
each has a level and a slot. A slot conflict is refused by `DMA()` (659-668) and asserted
against by `INTR()` (769).

`DmaScheduling`. `events[e]` is the distance `signaled - acked` modulo `EventModulus`.
`worker.pc` names the places of `worker()` between which another thread can act:
`wait`, `init`, `init_event`, `power`, `power_event`, `dma`, `dma_event`, `dma_ack`,
`init_raised`. `requests_mutex` is held across steps only by the CPU's poll, which completes
the event, starts the next request and then acknowledges. The PRU is `npr`, `granted`, `SACK`,
`BBSY`, `cpu_request`, and the state of `sm_dma`. `to_transfer` counts the words the PRU really
moves, `late` records that INIT or DCLO cleared the tables while the PRU had a request, and `missed`
that `worker()` found an INIT event without a change of the line: the PRU reports changes faster than
`worker()` looks, and two of them can cancel out. All three are history variables, read by no action.
A line may change until one more event would wrap the counter to "nothing happened".

`IntrScheduling`. `vector[level]` is `mailbox.intr.vector`, `pru` the request mask, the grant and
the vector under way, `register_value` whether the device's interrupt register shows the
condition. History: `owed` (raised, not transferred), `transferred` (what the outstanding
event is about), `late` (cancelled or reset after the grant), `missed` as above.

`UnibusArbitration`. One action per stage of a turn of the loop, so that boards see the lines
between the stages; `latch` is what the PRU drives, and the lines are the disjunction with
`board` and `physical`. A DMA is three steps (BBSY; last word and SACK; BBSY released), an
interrupt likewise. Delays and address lines are left out, and words before the last one.

`QbusArbitration`. `qpc` is the place in `main()`: the slave loop or a step of `sm_dma`, the
arbitration with forwarding and INIT, the command of ARM. `q_arb` is `statemachine_arbitration_t`
with the masks of the main loop, `q_dma` the block mode DMA, `q_slave` the slave cycle with DATIO
and blocks, `qlatch` what the PRU drives; SYNC, RPLY, SACK and the request lines are the
disjunction with the processor's, the board's and the cycle's. `qarm` is what ARM has handed over.
The history `moved` and `in_block` of `q_dma` are the words transferred. The environment is
assumed to keep the protocol: SYNC stays negated until the PRU's slave loop has seen it, the
processor goes on after a grant only when the PRU has passed on the grant's end (`ProcessorFree`),
prefers DMG to IAK, and does not execute RESET within a cycle or IAK. Mode `none` has no processor.

`InterruptFielding`. The grant is one step; the transfer is `granted`, `INTR`, event,
`setintr`, acknowledgement. `external_intr` is flag and vector in one. `cpu.pc` follows
`ka11_condstep()`: grant, wait, `step`, execute or trap. `BusCycle` makes an instruction wait
for the bus unless memory is accessed directly (`pmi`). A push of the trap may fail
(`ka11_trap_be`): the vector is taken all the same, and the bus error's own trap follows or the CPU
halts, where the model ends. History: `owed`, and `early`: an
instruction wrote the PSW or reset the bus while a vector was on its way.

The controllers have in common: a record for the registers and flags of the class, one for the
worker thread with its place in the code, one for each drive, and a history record (`..._past`)
with the command the program gave and what became of it, read by no action. An access to a
register is the adapter's thread running `on_after_register_access()`; where the code takes a
mutex the thread may block there, and the bus with it. `DMA()` is the contract that
`DmaScheduling` and `RequestScheduler` establish: it returns with success, with failure
(non-existent memory, or INIT cancelled it), or at once with the previous result if INIT is
asserted. `InitAsserted`, `reset` and the like are `on_init_changed()` on the two edges.

- `RL11Controller`: `rl.state` are the states of `RL11_c::worker()`, `rl_drive` the drive's
  state machine (load, lock on, unload, seek) with its switches. `do_command_done()` is called
  by two threads.
- `RK11Controller`: `rk_worker.pc` is `_worker_state` plus the places inside a transfer; seeks go
  on in the drive's thread and end with `on_drive_status_changed()`.
- `RF11Controller`: one transfer per command, `clip_into_range()` with the disk's size.
- `RXFloppy`: `program` is the microprogram of `rx0102ucpu`, a list of steps that one thread
  executes while `init()` and the register accesses of `rx11` and `rx211` restart and feed it. The
  microprocessor's mutex and the RX211's `on_after_register_access_mutex` are both there, the second
  held by the RX211's worker through `DMA()` and wanted by a write of RXCS. `update_status()` is two
  steps, reading and showing, with `rx_status` between them, since three threads call it without a lock.
- `MscpPort`: `uda` is the port with its initialisation steps, `server` the thread of
  `mscp_server::Poll()`, `cring` and `rring` the rings in the host's memory, `units` the drives.
  The host is external: it initialises, gives commands within its credits, takes responses.
- `DL11Serial`: `slu_rcv`, `slu_xmt` and `ltc` are the three threads, `slu_intr` the requests with
  the level that `edge_detect()` has seen, `slu_csr` what each service routine has read of the flags
  and not yet handed to it. `reset()` takes no mutex and has two steps, the flags and the kept levels;
  `overtaken` records the lines whose routine it came in between. The program and the line are external.
- `PDP11Step`: `core.at` is the label in `step()` or the place in `cpu_base_c::worker()`. What an
  instruction computes is left to `PDP11Arithmetic`; whether its references succeed is chosen
  at will, as far as the code lets it; MTPI pops its word first, which may fail, and then writes. Only
  stack addresses have values.
- `KT11DMemoryManagement`: PAR, PDR, MMR0-2 and the derived descriptors, as functions; a page has
  a few blocks, memory a few more.
- `RT11Filesystem`: `volume` is the `filesystem_rt11_c` with its list of files; `render`, `parse` and
  `calc_layout` are operators, one per method, and the actions are the events of the host and
  the way through the image. A block is a unit, a file's contents a name and a length. A file the host
  names as a prefix, extra or boot stream is rendered like the code does; parsing a prefix or extra
  bytes ends the program, as in the code.
- `ImagePartition`: `partition` is the image's partition, if it is open; the tables of
  `storageimage_partition_c` are functions of a partition. An image is a function of sectors.
- `PDP11Arithmetic`, `KE11Arithmetic`: pure operators with a state machine that applies one to
  every operand of a small word. All masks and signs are written in terms of `WordBits` and
  `KEBits`.

### 2.2 Abstractions

A command through `arm2pru_req` is one step together with its execution by the PRU: the ARM
thread spins until the PRU has cleared it. Data words, addresses and vectors are abstracted to
counts and names. Waiting times are nondeterministic. In the modules of the scheduler, devices
call it at any time the types allow, which includes anything the controllers do.

## 3. Runs

| Run | Instance | Checks |
|---|---|---|
| `scheduler_dma` | two DMA devices, CPU, one interrupting device; 4 slots, chunks of 2, up to 3 words; INIT and DCLO | `TablesConsistent`, `NoForgottenWaiter`, `SuccessIsComplete`, `OnlyDmareqAssert`, `ActiveReplacedOnlyInOrder`, and `IndInv`, the invariant the proofs use |
| `dma_devices` | two devices, up to 3 words in chunks of 2, no signals, `worker()` preemptible | `DmaSafe`, `CalledWhenTransmissionComplete`, `DmaReturns` |
| `dma_signals` | one device, 2 words, INIT | `SignalsSafe`, `InitReleases` |
| `dma_cpu_signals` | the CPU, INIT and DCLO | `SignalsSafe`, `CpuAccessProcessedInTime` |
| `intr` | two devices on one level, one cancels, INIT | `IntrSafe`, `InterruptsExact`, `IntrDelivered` |
| `arbitration` | a UniBone with devices on NPR and BR4, a board on BR5, physical or emulated CPU; or a QBone with block mode DMA, a board on IRQ5 or on DMR, with or without a processor | `ArbSafe`, `QSafe`, `RequestsKept`, `DmaServed` |
| `one_grantee` | a device and a board on NPR, a physical CPU | `OneGrantee`, violated |
| `processor` | interrupt fielding with BR4 and BR5 and four priority levels; the cores, the instructions, the KT11-D or the KE11 | `VectorSafeInTime`, `FieldingIndInv`, `PriorityRespectedInTime`, `ArithmeticExact`, `ProtectionKept`, `ProcessorGoesOn` |
| `controllers` | an RL11 with a drive and its operator, or a UDA50 with rings of two entries and a host; INIT | `RLCommandExact`, `PortSafe`, `ImplementsMscpService`, `CommandsEnd` |
| `disks` | RK11, RF11, or RX11 or RX211 with two drives and two commands; with INIT and resets, or one more write of RXCS | `RKCommandExact`, `RFCommandExact`, `RXCommandExact`, `DiskCommandsEnd` |
| `services` | DL11-W with its clock and INIT; an RT-11 volume and four events of the host; partitions of floppy images | `ConsoleExact`, `VolumeExact`, `PartitionsExact`, `ConsoleGoesOn` |
| `cpu_step_ends` | a KD11-EA with an odd stack pointer | `StepEnds`, violated |

A property with a general name is the conjunction of named parts, each with its own comment:
`DmaSafe` and `SignalsSafe` of type correctness, the inductive invariant and what it is for
(`SuccessIsTransferred`, `EventsInStep`, `NoFailedAssert`, `LinesInStep`); `IntrSafe` likewise with
`OwedIsScheduled`; `InterruptsExact` of `EventIsForActiveInTime` and `NoSpuriousInterrupt`;
`ArbSafe` of `SingleMaster`, `OneGrantee` and `ArbIndInv`; `QSafe` of `QSingleMaster`,
`QTransfersExact`, `SlaveInStep` and `QIndInv`; `VectorSafeInTime` of `VectorKept` and `NoOverrun`;
`RLCommandExact` of `RLInterruptOnce` and `RLTransferExact`, `RKCommandExact` of
`RKReadyMeansIdle`, `RKTransferExact` and `RKDoneInterrupts`, `RFCommandExact` of `RFTransferExact`
and `RFReadyMeansIdle`, and `ConsoleExact` of `SluInterruptMatches`, `SluCharactersOnce` and
`LtcQuietWhenDisabled`, each of the four with its types and the strengthening that section 4 describes;
`RXCommandExact` of `RXWriteInPlaceInPeace` and `RXInterruptMatches` with types and the parts that
lead to them (`RXExclusion` and `RXMutex` on the two locks, `RXShown` on `update_status()`, `RXTurns` and
`RXPlaced` on the order in which a command's bytes arrive); `PortSafe` of `MscpTypeOK`,
`RoomForResponse` and `PortIndInv`; `ProtectionKept` of `StackPointersKept`, `StepsHaveBus`,
`UserIsConfined`, `RelocationExact` and `FirstAbortKept`; `RequestsKept`, `DmaServed` and the other
liveness properties of the properties of their run's parts.

### 3.1 What the passing runs show

The tables never get out of step and no caller is forgotten, however calls, events, INIT and
DCLO interleave. Without INIT, every DMA of the devices returns, and success means that the PRU
moved every word. An INIT that `worker()` sees frees every blocked device thread, also one that passed the
test of `line_INIT` just before, and `worker()` never sleeps on a change of INIT or DCLO. Interrupts
raised are delivered once each and complete their own request, unless a cancellation or INIT
comes after the grant. On the bus there is one master and one taker for each grant; a device's
DMA is served whatever boards and CPU do, unless the CPU is started or stopped, a stale grant
remains, or a vector overran another. On the QBUS also every block moves its words once and in
order within its 16 words, and the slave answers the word that the master means, through blocks
and DATIO. Vectors reach the CPU, are not lost and respect its priority as long as no instruction
writes the PSW or executes RESET while a vector is on its way.

A disk command that ends without an error has moved the words it was given and left the
addresses behind the last sector; it interrupts once if asked to; and it ends, unless INIT, a
reset, the operator or, in the RX211, a write of RXCS during its DMA cuts it off. The UDA50 answers the
commands of a host that keeps to its credits once and in order, always finds room for the answer, and
can be initialised from any state. The console's interrupts match its flags in every order
of its threads, on a line that `reset()` has not overtaken, and characters are sent and received once.
An RT-11 volume that was written with plain files (no prefixes, no extra bytes of the directory) reads
back as the same files, and plain files always fit where their import has accepted them; whatever is
on it, no block is used twice, and the directory says where the free space is, unless its entry is alone
in a segment; and the blocks of a partition lie on its sectors without overlap. The
instructions and the KE11 agree with arithmetic on integers for every operand of a small word. The
KT11-D translates as PAR and PDR say however they were written, and keeps the first abort; each
mode keeps its stack pointer, and user mode does not leave by itself. Each `step()` of the KA11,
and of the KD11-EA with an even stack pointer, ends.

### 3.2 Where the code departs from what it says

`cpu_step_ends`: the KD11-EA counts consecutive bus errors and halts at the second, "double bus
error, HALT" (`kd11ea.c:1123`). Its trap sequence reads the vector before it pushes, and a
successful read resets the count. With an odd stack pointer in kernel mode the push fails, traps,
reads the vector, fails again, and `step()` never returns; not even the HALT switch is seen.

`one_grantee`: the PRU passes on the grants that nobody emulated has requested, "A device may not
accept a grant (assert SACK) after it passes the grant" (`pru1_main_unibus.c:157`), but computes
them anew in every turn of its loop. A grant that was passed on when ARM had no request is taken in
the next turn if ARM's request has come meanwhile and the arbitrator still asserts the grant,
while the board behind has seen it too: both assert SACK. It takes a board and an emulated device on
the same line; `ArbSafe` is checked and proved for boards with lines of their own. The QBUS firmware
computes `forwarded` in the same way; `QSafe` has the same condition.

The following were met while modelling. Each is stated as a definition of the module named,
which TLC refutes with the constants given; none is a run of its own.

- `CalledWhenTransmissionComplete` of `DmaScheduling`, with the CPU and a device: the CPU thread
  completes its access, starts the next device DMA (which clears `mailbox->dma.cpu_access`) and
  only then acknowledges. `worker()`, awake for another event, sees an unacknowledged event
  without `cpu_access` at adapter 1264 and completes the device DMA that has just begun. The
  header of the function says it is called "when DMA transmission complete".
- `NoFailedAssert` of `DmaScheduling`, with INIT (`SignalsSafe` holds it only until `late`): INIT clears
  the tables while the PRU transfers.
  `request_active_complete()` expects the late completion,
  `worker_device_dma_chunk_complete_event()` asserts against it (1031).
- `InitReleases` of `DmaScheduling` without `missed`: INIT goes up and down before `worker()` looks
  (the adapter compares the line with what it knew, and clears a "stray event", 1193). The PRU has dropped
  the DMA it was asked for, the tables are not cleared, and the thread waits for ever. "Assume this
  events come so slow, no one gets raised until prev event processed" (`pru1_utils.c:41`) is not kept
  by anything.
- `EventIsForActive` of `IntrScheduling`, with cancellation: "After cancelation, ARM receives NO
  completion event from PRU" (835) does not hold for a request already granted: it is
  transferred with the vector of the request scheduled next, which is then interrupted for twice.
- `StaleGrantCancelled` of `UnibusArbitration`, with an emulated CPU: the SACK timeout is tested
  only when nobody requests the bus (`pru1_statemachine_arbitration.c:253-286`). A grant for a
  cancelled BR, with a DMA requested before the timeout, stays for ever and the DMA with it.
- `PriorityRespected` of `InterruptFielding`: `ka11.c:331-335` argues that a flag read late does no
  harm. The CPU may have raised its priority in the instruction in between, and takes the
  interrupt all the same.
- `QDmaHasSack` of `QbusArbitration`: "If return !=0: we have SACK", but the end of an interrupt
  returns all requests on the lines (`pru1_q/pru1_statemachine_arbitration.c:328`); with a DMA among
  them `main()` starts `sm_dma` without DMG and without SACK. Nothing is stated of the steps after
  such a DMA (`q_dma.granted`).
- `RLSectorFromMemory` of `RL11Controller`: INIT between two sectors of a write makes `DMA()`
  return at once with the success of the sector before (adapter 631), and a sector of zeros goes
  to the image.
- `~mscp_past.overrun` of `MscpPort`: Step 4 may be executed once more after GO and then clears the
  rings (`uda.cpp:289`), when a host answers the Step 1 from before its write to IP just as
  `worker()` has left its mutex (4.7).
- `ResponseSeen` of `MscpPort`: `PostResponse()` looks at the previous descriptor to decide on the
  interrupt before it returns its own (`uda.cpp:818`); a host that empties the ring in between is
  not told of the new response.
- `SAWriteExpected` of `MscpPort`, with the UDA50 of `controllers`: a write to SA in state Uninitialized
  "Should not occur, we treat it like step1 here" (`uda.cpp:370`). It occurs when a host writes IP while
  `worker()` waits its 500 us in Step 1: Step 1 appears in SA all the same, its answer takes the port to
  Step 2, and the `Reset()` the host asked for is skipped. 4.7 says why that does no harm, and when it does.
- `CompareKeepsDisk` of `MscpPort`, with COMPARE HOST DATA: the case has no `break` and an inverted
  test (`mscp_server.cpp:1009`); different data erases the blocks.
- `SluLossReported` of `DL11Serial`: a character stored between the bus cycle that reads RBUF and
  its handling is lost without an overrun (`dl11w.cpp:309`).
- `EnableInterrupts` of `DL11Serial`, with one character sent and one INIT: "if xmt_ready and int enable
  goes high: INTR" (`dl11w.cpp:259`). The service routine reads the level and `edge_detect()` stores it;
  `reset()`, which takes no mutex, can clear both in between. The old level TRUE is stored after it, and
  when the program sets the enable bit again there is no edge and no interrupt.
- `RXAccessEnds` of `RXFloppy`, with an RX211, one command and one more write of RXCS: `worker()` keeps
  `on_after_register_access_mutex` while it waits in `DMA()` (`rx211.cpp:532`, 468, 501), and a write of
  RXCS takes it in the adapter's thread (226), which is the one to complete the DMA. A program that
  writes RXCS during a transfer, say to set IE, stops the adapter and with it the bus for good, where the
  comment says "No loops! no drive, console, file or other operations!".
- `RXStatusAlone` of `RXFloppy`, with an RX11 and the same: `update_status()` is "*NOT* called both by
  DATI/DATO on_after_register_access() and uCPU worker thread" (`rx11.cpp:287`, with the lock commented
  out). It is, and the one that shows last shows what was: RXCS without DONE, or an interrupt with IE
  cleared.
- `RXWriteInPlace` of `RXFloppy`: with INIT, or RXCS written with another drive, during a function,
  the sector goes to another drive or place than the command gave.
- `VolumeParses` of `MCServices`, with the volumes of `services`: `parse()` makes streams of prefixes and
  extra bytes with `stream_parse_bytes()` (`filesystem_rt11.cpp:551-558`), which copies into the buffer
  of a stream whose size was never set, that is to NULL. A volume with such a file, once written, ends
  the program when it is read.
- `FreeAreaFollowsFiles` of `MCServices`, with the same: "write start of free chain: space after last
  file" (`filesystem_rt11.cpp:1299`). When the files fill their segment exactly, the entry of the free
  space is the first of the next segment, and that segment starts where the first file does (1293). The
  PDP-11 would put new files over the old ones.
- `PlainFiles(volume) =>` of `RT11Filesystem` left out: an import counts neither a prefix's length word nor the
  directory entries that extra bytes lengthen, and `render()` then throws (`filesystem_rt11.cpp:1601-1628`, 679).

Also: two devices may be given the same slot, against which `INTR()` asserts (769) although
`set_priority_slot()` merely warns; a CPU access aborted by DCLO at 695 leaves an event that the
next access can take for its own (`late` exempts this from `CpuAccessProcessedInTime`); "reset all
scheduled tables, also requests on PRU" (898, 925) clears nothing on the PRU;
`ARM2PRU_CPU_ENABLE` resets the arbitration and drops pending device requests that the scheduler
still counts as executing (`RequestKept` exempts that step, and INIT, with which the PRU drops what has
no grant yet); a KA11 trap whose push fails has taken its vector, and nobody serves it; RESET while a
vector is on its way leaves the arbitrator at `CPU_PRIORITY_LEVEL_FETCHING`, and no interrupt is granted until
an instruction writes the PSW;
after INIT in a transfer the RL11's worker holds the mutex on which the next write to CS blocks
the adapter's thread; the RK11 negates its word count in 16 signed bits, so that 32768 words and
more transfer nothing; RF11's word count 0 fails an assert in `DMA()`; an RT-11 volume whose files
need more than 31 directory segments overwrites the limit (`VolumeExact` leaves such volumes out),
one that is nearly full fails the assert of `calc_block_use()`, a file whose data was deleted and
whose prefix was not fails that of `calc_layout()`, and a second stream of a file that exists is
ignored.

### 3.3 Bounds

- Chunks of 2 with up to 3 words give transfers of one chunk, of exactly one full chunk, and of
  a full and a short one; two devices and the CPU give one running, one preempting and one
  waiting request. The real limits (a chunk of 512 words, 32 slots) only repeat these cases.
- `EventModulus` 3 or 4 instead of 256: `EventsInStep` shows that the distance never exceeds 2
  with `dma_devices`' modulus of 4, so a wider counter behaves in the same way. A line changes only while
  one more event does not wrap the counter: with 3, one change is waiting and another comes, so that two
  of them cancel out for `worker()`; more changes repeat one of the two.
- `dma_devices` has no signals and `dma_signals` one device: the product is out of reach, and
  `scheduler_dma` has both, with an unrestricted PRU; the theorems have no such bound.
- Two interrupt requests on one level are the least with which an event can be taken for
  another's, and an INIT as fast as above meets both. Levels do not share state in the scheduler; how
  they compete on the bus is `arbitration` and `processor`.
- `arbitration` has one emulated device below and one above the board's level, so that every
  order of priorities occurs; requests on a line beyond the first are the scheduler's business. On
  the QBUS a block of two words, a DMA of three words over a block's end, one that leaves the
  emulated memory and one that times out, and the two cycles DATIN-DATIN and DATIO; one INIT.
- `RunLevels` {0, 4, 5, 7}: below, at and above the devices' levels.
- Disks have two cylinders or tracks, one or two sectors of two words (one word for the RX's
  bytes), and a word count of 2 or 3 bits, so that a transfer can be short, end within a sector,
  cross a cylinder, run past the end of the disk and wrap; the commands are the ones with
  different control flow. One INIT or reset can come between any two steps; a second one repeats the
  first from a state that the first run of the controller also reaches. The floppies get two commands,
  and besides one INIT or one write of RXCS that starts nothing.
- The UDA50's rings have two descriptors, so that they fill and wrap with the two commands a host
  has credits for; one drive of a block and an RCT block.
- `services`: two characters from the line, one of the program's, one INIT; volumes that one file fills
  and that have room for three, in segments of three entries, with four events of the host; files with
  sizes at the limits of a block; partitions with and without interleave and skew, after one track or six.
- Words of 4 bits for the instructions and 3 for the KE11: every operand is enumerated, and the
  masks, signs and carries are written in terms of the width.

### 3.4 Fairness

Weak fairness for `worker()`, each PRU state machine and a thread that has called `DMA()`: the
PRU loops for ever, and Linux schedules runnable real-time threads. The arbitrator grants NPR in
the end and a slave answers or times out (`pru1_statemachine_dma.c` sets a timeout for both).
INIT is a pulse, so its negation is fair and its assertion is not. In `IntrScheduling` the grant
of a level is strongly fair: the program running on the PDP-11 lowers its priority again and
again, an assumption about that program and not about this code. In `UnibusArbitration` the
physical CPU's withdrawal of a grant is strongly fair because its timeout runs while the PRU
loops. In `QbusArbitration` the withdrawals of DMG and IAK are, for the same reason: a processor
ends a grant that nobody answers. Nobody has to call `DMA()` or `INTR()`.

The controllers' worker threads and drives are weakly fair, and so are the adapter's completion
of a DMA and the end of INIT; accesses of the program are not, except that the program serves the
RX's transfer requests and the MSCP host goes on with an initialisation or a poll it has begun. In
`DL11Serial` the service routines are strongly fair: accesses that the program makes otherwise
come between them, not instead of them.

`RealtimeWorker` states that the CPU thread does not run while `worker()` is runnable: `worker()`
runs with real-time priority on a single core. Where a run does not need it, it is FALSE.
`RFRealtime` and `RXPrompt` say the same of the RF11's register accesses and the RX's workers; the
theorem about the first holds with and without.

`processor`, `controllers`, `disks` and `services` do not check for deadlock: in the first, after a
write to the PSW with a vector on its way, `sm_intr_master` and `sm_intr_slave` can really wait for
each other (`NoOverrun` says when they cannot); in all of them a part stops when its bounded
inputs are used up, the CPU has halted, a lock is never released (RX211) or a fault has ended the
program.

## 4. Proofs

All theorems hold for any sets of requests, levels, slots, lines and vector contents, any chunk
size and any lengths. `DistinctSlots` (no two requests with the same level and slot) is a
hypothesis of most, because `INTR()` asserts it and `set_priority_slot()` does not enforce it (3.2).

### 4.1 Scheduler (`RequestScheduler_proofs`)

| Theorem | States, assuming `DistinctSlots` |
|---|---|
| `Invariance` | `Spec => []IndInv` |
| `TypeCorrect` | `TypeOK` |
| `TablesStayConsistent` | `TablesConsistent`: the conditions of the asserts on tables, mask and active |
| `NoWaiterForgotten` | `NoForgottenWaiter`: in the table exactly until complete |
| `SuccessMeansComplete` | `SuccessIsComplete` |
| `ExecutingOnlyScheduled` | `ExecutingIsScheduled` |
| `IntrAssertsHold` | `OnlyDmareqAssert`: the asserts of `INTR()` and `cancel_INTR()` hold |
| `ReplacementInOrder` | `ActiveReplacedOnlyInOrder`, an action property |

The safety invariants are not inductive one by one. `ChunkComplete` takes the active request
from the table, so that nobody waits for a request outside it only if table and active agree;
that needs each request in its own slot, hence `DistinctSlots` and the slot conditions of
`LevelConsistent`. `EnterOnce` excludes a second `DMA()` on a request that already waits,
`IntrExecutingIsActive` keeps the flag of an interrupt that was replaced from staying set, and
`CpuSingleWord` excludes a CPU access with a second chunk. Lemmas about
`request_activate_lowest_slot`, `RemoveSlot`, `NextRequest` and `ScheduleAndStart` state what
each does to a consistent level; the induction step has one lemma per action.

### 4.2 DMA path (`DmaScheduling_proofs`)

| Theorem | States | Assuming |
|---|---|---|
| `LinesStayInStep` | `LinesInStep` | |
| `DmaInvariance` | `DmaSpec => []DmaInvariant` | `DistinctSlots`, `OneUser` |
| `SignalsAreSafe` | `SignalsSafe` | the same |
| `CpuAccessWaits` | `CpuAccessProcessedInTime`, an action property | the same |
| `DmaStaysSafe` | `DmaSafe` | the same, and no INIT or DCLO |
| `CalledOnlyWhenComplete` | `CalledWhenTransmissionComplete`, an action property | the same, and no INIT or DCLO |

Every action conjoins one of the scheduler or leaves its variables alone, so that `IndInv` holds
here too (`TablesHere`) and the tables need no second proof. What is left is that the tables agree
with the PRU. `RequestInStep` says that the active request is in one place: NPR, grant, the CPU's
request, the DMA machine, or the event (`Pending`). `WordsInStep` relates three counts of the words
of a request: ARM's `remaining`, the PRU's `cur_wordsleft`, and what was really moved;
`RunningInStep` and `PruFed` keep the PRU's count within the mailbox's and above zero. The
conclusion that success means a complete transfer needs all of them, because ARM computes success
from its own count. `EventsOfOneUser` says whose event it is, and this is where `OneUser` (devices
or the CPU use DMA, not both) is needed: with both, worker() takes the CPU's event for a device's
(3.2), and the invariant fails. `late` becomes true when the tables are cleared under a request of
the PRU; from then on only `PruFed` is claimed, which is also what the code keeps.

`LinesStayInStep` has no hypothesis. Its invariant `LinesIndInv` says of each signal that an event
counted is either a change that `worker()` has not seen, with the wakeup still to come or the test
still ahead, or one it is about to clear the tables for. It does not depend on the number of events: a change
that is undone before `worker()` looks leaves the line as `worker()` knows it.

### 4.3 INTR path (`IntrScheduling_proofs`)

| Theorem | States | Assuming |
|---|---|---|
| `IntrInvariance` | `IntrSpec => [](IntrTypeOK /\ IntrIndInv)` | `DistinctSlots` |
| `InterruptsKept` | `IntrSafe` | `DistinctSlots` |
| `InterruptsStayExact` | `InterruptsExact`, action properties | `DistinctSlots` |

Again `IndInv` comes from the scheduler. `LevelInStep` is, per level, the counterpart of
`RequestInStep`: PRU mask, grant, transfer and event exclude each other and are about the active
request, whose vector is in the mailbox. `OwedOfLevel` says that the requests owed are those of the
table without the one transferred. Both hold until `late`: a cancellation or INIT after the grant.

### 4.4 UNIBUS arbitration (`Arbitration_proofs`, `Masks_proofs`)

| Theorem | States | Assuming |
|---|---|---|
| `ArbitrationSafe` | `ArbSafe` | `DeviceLevels \cap BoardLevels = {}` |
| `RequestsStay` | `RequestKept`, an action property: a request stays until served or cancelled, save that INIT drops what has no grant | |

`ArbIndInv` follows a grant through the chain. `OneGrant` has at most one line in each mask
between arbitrator and grantee. `OfferedToBoard`, `KeptForBoard` and `OfferedToPru` say who may
still take the grant in the chain and `TakenByPru` that the PRU's SACK is for a line of its own;
`AboutToTake` bridges the two stages of the loop between which a board may move; `StartOK` and
`LinesOK` relate SACK, BBSY and the state of the machines. The hypothesis is needed in
`AboutToTake`, and the run `one_grantee` shows what happens without it.

### 4.5 Interrupt fielding (`Processor_proofs`)

| Theorem | States |
|---|---|
| `FieldingInvariance` | `FieldingSpec => [](FieldingTypeOK /\ FieldingIndInv)` |
| `VectorSafety` | `VectorSafeInTime`, assuming `RealtimeWorker` |
| `PriorityRule` | `PriorityRespectedInTime`, assuming `RealtimeWorker` |

The argument is a token that passes through five stages: granted, on the bus, event, stored in
`external_intr`, being taken. `OneVector` says that each stage excludes the later ones and that
from the event on `CPU_PRIORITY_LEVEL_FETCHING` keeps the PRU from granting another. The
comparison of the vector with the priority is part of the token (`Blocking`), because between
grant and trap only instructions that set `early` change the priority. `RealtimeWorker` is
needed: without it the CPU could take the vector between `setintr()` and the acknowledgement,
load a new PSW, and be granted a second one while the PRU still waits. A trap whose push fails drops the
token in the last stage; what it loads instead of the vector's PSW is left open.

### 4.6 QBUS arbitration (`Arbitration_proofs`, `Masks_proofs`)

| Theorem | States | Assuming |
|---|---|---|
| `QbusSafe` | `QSafe` | `OwnLines` |
| `QbusRequestsStay` | `QRequestKept`, an action property | `OwnLines` |
| `RequestsStayOnBothBuses` | `ArbSpec /\ QbusSpec => RequestsKept`, with the UNIBUS half of 4.4 | `OwnLines` |

`OwnLines` gives the board lines of its own, as on the UNIBUS. `QSafe` is claimed until a DMA runs
that was not granted (`q_dma.granted`; 3.2 says how that happens), and the induction is for as long.

`QIndInv` has one part per actor and one per thing that is counted. `QLinesKept`: a request is the
PRU's or the board's, never both, and a DMA is not requested while one runs. `PruInStep` and
`NoProcessorInStep`: what the PRU drives follows from the states of its three machines, of which one
at a time is active. `GrantsInStep`: a grant is at one place in the chain, and once the PRU decided
to take it, it does not go away. For DMG that is because the request line stays signalled and is not
forwarded, so that the processor has no reason to negate it; for IAK because nobody else answers.
`BoardInStep` is the same for the board. `CycleInStep`: the cycle of another master excludes the
PRU's. `SlaveFollows` relates the PRU's slave, which counts addresses by itself, to the cycle of the
master: whenever the slave stands at a place where it waits for the master, its address is that of
the word the master is about to ask for, the DOUT of a DATIO being the same word. `WordsInBlock` and
`WordsMoved`: address and words left add up to the request, the words moved are exactly those before
the address, and the block's end, once computed, bounds the words that follow. None of these is
inductive alone: `SlaveFollows` needs that the master of a cycle is not the PRU, which needs the
grants, which need the lines.

`QbusAssumption` says of the environment that an address has one slave, also within a cycle
(`OneSlave`). A block that begins in emulated memory and runs out of it is left out: at the first
foreign word the PRU's slave stops, `state_data_slave_stop` still sees SYNC, starts again with the
address latched at the beginning (`pru1_statemachine_data_slave.c:47-111`), and answers the word of
the other slave as well. The code does not exclude such a block; neither the run nor the theorem
says anything about it.

### 4.7 UDA50 port and MSCP server (`Controllers_proofs`)

| Theorem | States |
|---|---|
| `PortStaysSafe` | `MscpSpec => []PortSafe`: the types, `RoomForResponse`, and `PortIndInv` |
| `PortImplementsMscpService` | `ImplementsMscpService`: every step is one of `MscpService` or a stutter |

For rings of any length, any drives, images and commands, and any number of resets.
`MscpAssumption` asks for rings of at least `INIT_CREDITS + 1` entries, which a host needs to use its
credits; the host of the model gives no command beyond its credits and initialises the port before
it uses the rings.

`RoomForResponse` is not inductive. That the response descriptor is free follows from the number of
commands under way, and that number is right only if no command survives a reset.

- The handshake: `PollInStep` (what `Poll()` holds, and where), `ResetInStep` (from the moment
  `Reset()` has seen `Poll()` asleep it sleeps until the host reads IP), `StepsInStep` (a step is
  signalled, taken, under way or shown in SA, and `worker()` is at most one step behind) and
  `HostInStep` (the host is where the port is, or behind). Together they say that `Poll()` holds
  nothing and the pointers are 0 when GO comes, in whatever order `worker()`, the adapter and
  `Poll()` ran. The critical case is a write to IP while `worker()` waits in Step 1: Step 1 still
  appears in SA, the host answers it in state Uninitialized, and the code goes to Step 2
  (`uda.cpp:368-410`, `SAWriteExpected` in 3.2), so that the `Reset()` which is due is skipped.
  That is harmless because Step 1 appears only on a port that `Fresh` describes, reset and not used
  since; this is the last conjunct of `ResetInStep`. If the answer falls between `worker()`'s mutex
  and its `switch`, the step is signalled twice, and so may be each step after it. A second Step 4
  after GO clears the rings of a host that runs: `overrun` in `mscp_past`. Descriptors and
  addresses are then gone, the model ends there (`Ended`), and the statements on the rings are
  about hosts to whom this has not happened.
- The rings: `Outstanding` places each command the host waits for at one place: the next `given`
  descriptors from `cptr`, the queue, the response in hand, the last `unread` descriptors before
  `rptr`. Lemmas on windows of a ring (`WindowShrinks`, `WindowGrows`) carry it over each step.
- The credits: `CreditsInStep` says that the credits of the port reach the host once, with the first
  response. Without it nothing bounds the commands under way, and the ring of responses is full.

The refinement needs no more than that. `Outstanding` gives the four parts of the mapping their
place: `ViewIsSeen` shows that the mapping, which walks the rings until an owner bit changes, reads
the windows of `Outstanding`, so that a step that moves a descriptor from one window to another
moves the head of one sequence to the end of the next (`WindowFirst`, `WindowLast`). `Poll()` taking
a command and making its response are stutters, the response in the ring is the answer. A reset
takes both sequences with it, and `GoServes` shows that GO finds them empty.

### 4.8 Serial line and clock (`Controllers_proofs`)

| Theorem | States |
|---|---|
| `ConsoleIsExact` | `DlSpec => []ConsoleExact` |

For any number of characters and INITs. That a character is received and sent once is a statement
about an order: `XmtOrder` and `RcvOrder` number the characters of each source and say that on the
way bus, XBUF, line, loop-back buffer, receiver, RBUF, program each place holds older characters than
the one before, except that the transmitter may be sending what is in XBUF. `RbufIsNew` adds what DONE
says of RBUF, with the gap between the bus cycle that reads RBUF and its handling; `XmtInStep` that an
undisturbed transmitter follows the program character by character. `LevelsSeen` is the same for the
interrupts: the level that `edge_detect()` has seen is that of the flags, but for the receiver between
its interrupt and the store, for a routine between its reading of the level and `edge_detect()`, and for a
line that `reset()` has overtaken there (3.2 says what that does). `XmtCalls` and `LtcDue`
say from which places in the threads `INTR()` may still be called. Nothing is claimed of an overtaken line.

### 4.9 Disk controllers (`Disks_proofs`)

| Theorem | States |
|---|---|
| `RLCommandIsExact` | `RLSpec => []RLCommandExact` |
| `RKCommandIsExact` | `RKSpec => []RKCommandExact` |
| `RFCommandIsExact` | `RFSpec => []RFCommandExact` |

For any geometry, drives, commands, word counts, widths of the counter, and number of INITs, resets
and register accesses; the assumptions give the constants their types. Each conclusion compares what
the command ended with, in registers and history, with what the program gave. It is not inductive,
because at the end nothing is left of the way there; the strengthening follows the command through the
worker's places, and each is an invariant of its run.

- RL11: `RLWorkerInStep` gives for every place of `worker()` the state of the controller and who has
  the mutex; `RLTransferProgress` says that words moved and words left add up and DA has advanced
  by a sector for each full sector, with the DMA's words in between at `sector_end`;
  `RLInterruptCause` that nothing interrupts while a command is in execution. All of it is claimed
  until INIT finds `worker()` busy (`late`). The first attempt, that an interrupt always has a command
  with IE, was refuted: a worker still awake from before INIT executes the function code of a write to
  CS that has no GO.
- RK11: `RKTransferAt` counts the sectors behind the transfer and ties to this one number the worker's
  word count, the address in RKDA across sectors, surfaces and cylinders, and the words moved.
  `RKWorkerInStep` says that `worker()` and the registers agree about the command, and which ends
  leave `do_interrupt` set. A request for 32768 words or more is held to move nothing, as the code does.
- RF11: `RFWorkerInStep` and `RFTransferDone` are the same for one DMA per command; `RFOneCommand`
  says that GO waits for RDY, INIT ends the command, and only a WRITE changes the disk.

### 4.10 Processor modes and memory management (`Processor_proofs`)

| Theorem | States |
|---|---|
| `ModesAreKept` | `CpuSpec => [](StackPointersKept /\ StepsHaveBus) /\ UserIsConfined` |
| `KTIsExact` | `KTSpec => []RelocationExact /\ FirstAbortKept` |
| `ProtectionIsKept` | `CpuSpec /\ KTSpec => ProtectionKept`, the two together |

`UserIsConfined` and `FirstAbortKept` are action properties. That a user program cannot halt the
processor by bus errors is the point of `CoreInStep`: a second bus error in a row halts, so the
proof needs that in user mode the count is at most one and that the trap for it has entered kernel
mode before anything else can fail. `StepsHaveBus` needs that whatever leaves `HALTED` enables the
arbitrator. For the KT11-D, `Derived` says that the descriptors are those that `kt11d_rebuild()`
makes of PAR and PDR, and that the copies of MMR0's bits agree with it; the writes to registers, one
field at a time, must each keep that. `RelocationExact` is then arithmetic on blocks, modulo
the physical address space. `KTAssumption` lets the constants have the values the registers can hold.

### 4.11 Image partitions (`Controllers_proofs`)

| Theorem | States |
|---|---|
| `PartitionsAreExact` | `PartitionSpec => []PartitionsExact` |

For any partition that passes the constructor's asserts and any pattern that has each sector of a track
once (`PartitionsAssumption`). The lemmas say that sector and track are the unique remainder and
quotient of a sector number (`QuotientUnique`), that a permutation of a track shifted by a skew is
one again (`ShiftOnce`, `ShiftReaches`), hence that `log_sector_nr_to_phy[]` is one-to-one and onto
(`NumberingOneToOne`) and the inverted table its inverse; `BlockIsExact` draws the conclusion for
writing, reading and marking a block.

### 4.12 Model-checked only

Liveness under fairness is out of the prover's reach: `DmaReturns`, `InitReleases`, `IntrDelivered`,
`DmaServed`, `CommandsEnd`, `DiskCommandsEnd`, `ConsoleGoesOn`, `ProcessorGoesOn`. So is induction over
data: `VolumeExact` says what `render`, `parse` and `calc_layout` compute by recursion over the list of
files and the segments of the directory. `ArithmeticExact` compares results with integers for every width
`2^w`, through `Bitwise` and products of variables, which a module with a theorem cannot use or the
provers not decide. `RXCommandExact` is not proved either: with two locks, three callers of
`update_status()` and the turns they take it is checked for both controllers, and that is all.

## 5. Not modelled, and the plan

Not modelled, each with its reason in `PROJECT.json`:

- the synchronisation of a shared filesystem with the host (`sync_worker`, inotify) and the XXDP
  format; the RT-11 side of it is `RT11Filesystem`;
- `mailbox_execute()`'s timeout of 100 ms and the PRU's own timeouts: a command is one step here,
  and what a late answer does to the next command is a hazard without a property;
- device registration, the life cycle of devices and their threads (`workers_stop()` cancels a
  thread that may hold a mutex or wait in `DMA()`), and the I/O page registers on the ARM side;
- storage images, timeouts in emulated time, panels, test devices, board support, menus and
  utilities: input and output, or text.

What the plan has left: modules `DeviceLifecycle`, `DeviceRegistration` and `MailboxExecute` for the two
hazards without a property, and `IopageRegisters` for the data slave and the registers.

Vendored code under `devices/cpu20/pdp11-master` and `91_3rd_party` stays outside.

## 6. Running

    tlc -config MCRequestScheduler.cfg MCRequestScheduler
    tlapm RequestScheduler_proofs.tla

`PROJECT.json` lists every run with its configuration, the source lines of every definition, and
for each property a faulty variant of one operation (`Faulty: ...` or `Mutant: ...` in the modules)
with which TLC finds the property violated.
