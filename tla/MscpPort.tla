------------------------------ MODULE MscpPort ------------------------------
(***************************************************************************)
(* The UDA50 port with the MSCP server and its drives.  Actors:             *)
(*  - the host's driver: initialises the port with the four steps through   *)
(*    SA, puts commands into the command ring, reads IP, and serves the     *)
(*    response ring when the port interrupts;                               *)
(*  - the adapter's thread: on_after_register_access(), on_init_changed();  *)
(*  - uda_c::worker(): the controller's side of the four steps, Reset();    *)
(*  - the server's polling thread, mscp_server::Poll().                     *)
(* The rings are in the host's memory; the port reads and writes them by    *)
(* DMA, and between two DMAs the host may run.  A descriptor has the owner  *)
(* bit (own: the port's) and the flag that asks for interrupts.  Left out:  *)
(* addresses and packet formats, purges, the parameters of units, and a     *)
(* host that gives bad addresses.                                           *)
(***************************************************************************)
EXTENDS Integers, Sequences, FiniteSets

CONSTANTS
  CommandRing, ResponseRing,   \* lengths of the rings
  MscpUnits,                   \* unit numbers of the drives
  MscpAvailable,               \* drives with an image
  MscpBlocks, MscpRct,         \* blocks of an image, and of the RCT behind it
  MscpCommands,                \* what hosts ask for, without the reference number
  MscpRefs,                    \* reference numbers are 0 .. MscpRefs - 1
  MscpMaxResets,               \* bound: INITs and new initialisations
  ResponseFlag                 \* whether the host asks for response interrupts

INIT_CREDITS == 1
MAX_CREDITS == 14

ControllerCommands == {"ABORT", "GET_COMMAND_STATUS", "SET_CONTROLLER_CHARACTERISTICS"}
Transfers == {"ACCESS", "COMPARE_HOST_DATA", "ERASE", "READ", "WRITE"}
UnitCommands ==
  Transfers \cup {"ONLINE", "AVAILABLE", "GET_UNIT_STATUS", "SET_UNIT_CHARACTERISTICS",
                  "DETERMINE_ACCESS_PATHS", "REPLACE"}

ASSUME MscpAssumption ==
  /\ {CommandRing, ResponseRing, MscpBlocks, MscpRefs} \subseteq Nat \ {0}
  /\ MscpRct \in Nat /\ MscpMaxResets \in Nat /\ ResponseFlag \in BOOLEAN
  /\ MscpAvailable \subseteq MscpUnits
  /\ MscpCommands \subseteq
       [op : ControllerCommands \cup UnitCommands \cup {"unknown"},
        unit : Nat, lbn : Nat, count : Nat, data : {"zero", "host", "other"}]
  \* The host has a response descriptor and a command descriptor for each credit.
  /\ ResponseRing >= INIT_CREDITS + 1 /\ CommandRing >= INIT_CREDITS + 1

VARIABLES
  uda,      \* uda_c: registers and ring pointers, and the place of worker()
  server,   \* mscp_server: _pollState, the place of Poll() and its locals
  units,    \* mscp_drive_c: online, the blocks of image and RCT
  cring,    \* host memory: the command ring
  rring,    \* host memory: the response ring
  host,     \* the host's driver
  mscp_past \* history and bounds

mscpvars == <<uda, server, units, cring, rring, host, mscp_past>>

Blocks == 0 .. MscpBlocks + MscpRct - 1
NoDescriptor == [own |-> FALSE, flag |-> FALSE, msg |-> <<>>]

-----------------------------------------------------------------------------
(* Helpers.                                                                 *)

\* StateTransition(): the step for worker(), and a signal.
StateTransition(u, step) == [u EXCEPT !.initStep = step, !.next_step = TRUE]

\* Interrupt(): only if the host gave a vector; here it did.
Interrupt(u) == [u EXCEPT !.intr = ~u.line_INIT]

\* PortError(): SA shows it, and the controller is to be initialised again.
PortError(u) == StateTransition([u EXCEPT !.SA = -1], "Uninitialized")

\* The DMA of this step of Poll() fails: INIT cancelled it, or it was called under INIT
\* and the last one had failed.  A call under INIT after a good one "succeeds" with the
\* fill pattern in the buffer.
DmaFails == server.fail
DmaPattern == uda.line_INIT /\ ~server.fail

AfterDma(s) == IF uda.line_INIT THEN s ELSE [s EXCEPT !.fail = FALSE]

\* The program ends with a signal or FATAL().
Crash ==
  /\ mscp_past' = [mscp_past EXCEPT !.crashed = TRUE]
  /\ UNCHANGED <<uda, server, units, cring, rring, host>>

-----------------------------------------------------------------------------
(* uda_c::worker()                                                          *)

\* The signalled step is taken; _initStep is read after the mutex is released.
worker_take ==
  /\ uda.pc = "wait" /\ uda.next_step
  /\ uda' = [uda EXCEPT !.pc = "switch", !.next_step = FALSE]
  /\ UNCHANGED <<server, units, cring, rring, host, mscp_past>>

worker_switch ==
  /\ uda.pc = "switch"
  /\ uda' = [uda EXCEPT !.pc = IF uda.initStep = "Complete" THEN "wait" ELSE uda.initStep]
  /\ UNCHANGED <<server, units, cring, rring, host, mscp_past>>

\* SA is cleared; mscp_server::Reset(): Poll() is asked to stop ...
ServerReset ==
  /\ uda.pc = "Uninitialized"
  /\ uda' = [uda EXCEPT !.SA = 0, !.pc = IF server.pollState = "Wait" THEN "reset_done" ELSE "reset_wait"]
  /\ server' = IF server.pollState = "Wait" THEN server ELSE [server EXCEPT !.pollState = "InitRestart"]
  /\ UNCHANGED <<units, cring, rring, host, mscp_past>>

\* Mutant: Reset() does not wait for Poll().
ResetNoWait ==
  /\ uda.pc = "reset_wait"
  /\ uda' = [uda EXCEPT !.pc = "reset_done"]
  /\ UNCHANGED <<server, units, cring, rring, host, mscp_past>>

\* ... and waited for.
ResetWait ==
  /\ uda.pc = "reset_wait" /\ server.pollState = "Wait"
  /\ uda' = [uda EXCEPT !.pc = "reset_done"]
  /\ UNCHANGED <<server, units, cring, rring, host, mscp_past>>

\* Mutant: the step is set without the signal to worker().
ResetDone_unsignalled ==
  /\ uda.pc = "reset_done"
  /\ uda' = [uda EXCEPT !.cptr = 0, !.rptr = 0, !.pc = "wait", !.initStep = "Step1"]
  /\ server' = [server EXCEPT !.credits = INIT_CREDITS]
  /\ units' = [u \in MscpUnits |-> [units[u] EXCEPT !.online = FALSE]]
  /\ UNCHANGED <<cring, rring, host, mscp_past>>

\* The rest of both Reset()s; then Step 1.
ResetDone ==
  /\ uda.pc = "reset_done"
  /\ uda' = StateTransition([uda EXCEPT !.cptr = 0, !.rptr = 0, !.pc = "wait"], "Step1")
  /\ server' = [server EXCEPT !.credits = INIT_CREDITS]
  /\ units' = [u \in MscpUnits |-> [units[u] EXCEPT !.online = FALSE]]
  /\ UNCHANGED <<cring, rring, host, mscp_past>>

\* Steps 1 to 3: after a pause SA shows the step.
worker_step(n) ==
  /\ uda.pc = <<"Step1", "Step2", "Step3">>[n]
  /\ uda' = [uda EXCEPT !.pc = "wait", !.SA = n]
  /\ UNCHANGED <<server, units, cring, rring, host, mscp_past>>

\* Step 4 also clears the rings by DMA (which does nothing under INIT): the response
\* descriptors become the port's.  A step can be signalled twice, and when the second
\* Step 4 comes after GO it clears the rings of a host that runs: descriptors and the
\* addresses in them are gone, and the model follows such a host no further.
worker_step4 ==
  /\ uda.pc = "Step4"
  /\ uda' = [uda EXCEPT !.pc = "wait", !.SA = 4]
  /\ IF uda.line_INIT THEN UNCHANGED <<cring, rring>>
     ELSE /\ cring' = [i \in 0 .. CommandRing - 1 |-> NoDescriptor]
          /\ rring' = [i \in 0 .. ResponseRing - 1 |-> [NoDescriptor EXCEPT !.own = TRUE]]
  /\ mscp_past' = [mscp_past EXCEPT !.overrun = uda.initStep = "Complete"]
  /\ UNCHANGED <<server, units, host>>

UdaWorker ==
  \/ worker_take \/ worker_switch \/ ServerReset \/ ResetWait \/ ResetDone \/ worker_step4
  \/ \E n \in 1 .. 3 : worker_step(n)

-----------------------------------------------------------------------------
(* mscp_server::Poll()                                                      *)

ServerStep(s) == server' = s

\* The thread is awake.
poll_wake ==
  /\ server.pc = "wait" /\ server.pollState # "Wait"
  /\ ServerStep([server EXCEPT !.pc = "fetch", !.pollState = IF @ = "InitRun" THEN "Run" ELSE @])
  /\ UNCHANGED <<uda, units, cring, rring, host, mscp_past>>

\* The loops end for a reset.
poll_restart ==
  /\ server.pc \in {"fetch", "command"} /\ server.pollState = "InitRestart"
  /\ ServerStep([server EXCEPT !.pc = "end", !.messages = <<>>])
  /\ UNCHANGED <<uda, units, cring, rring, host, mscp_past>>

\* GetNextCommand(): descriptor and message are read.  The pattern has the owner bit
\* and no valid length.
GetNextCommand ==
  LET d == cring[uda.cptr]
  IN  /\ server.pc = "fetch" /\ server.pollState # "InitRestart"
      /\ \/ /\ DmaFails \/ DmaPattern
            /\ ServerStep(AfterDma([server EXCEPT !.pc = "end", !.messages = <<>>]))
            /\ uda' = PortError(uda)
         \/ /\ ~DmaFails /\ ~DmaPattern
            /\ ServerStep([server EXCEPT !.pc = IF d.own THEN "previous" ELSE "command"])
            /\ UNCHANGED uda
      /\ UNCHANGED <<units, cring, rring, host, mscp_past>>

\* The descriptor before it tells whether the ring was full, if the host's flag asks.
command_previous ==
  LET d == cring[uda.cptr]
      full == CommandRing = 1 \/ cring[(uda.cptr - 1) % CommandRing].own
  IN  /\ server.pc = "previous"
      /\ \/ /\ DmaFails
            /\ ServerStep(AfterDma([server EXCEPT !.pc = "end", !.messages = <<>>]))
            /\ uda' = PortError(uda)
         \/ /\ ~DmaFails
            /\ ServerStep([server EXCEPT !.pc = "return", !.intr = d.flag /\ full])
            /\ UNCHANGED uda
      /\ UNCHANGED <<units, cring, rring, host, mscp_past>>

\* The descriptor goes back to the host, the message into the queue.
command_return ==
  /\ server.pc = "return"
  /\ \/ /\ DmaFails
        /\ ServerStep(AfterDma([server EXCEPT !.pc = "end", !.messages = <<>>]))
        /\ uda' = PortError(uda)
        /\ UNCHANGED cring
     \/ /\ ~DmaFails
        /\ ServerStep([server EXCEPT !.pc = "fetch", !.messages = @ \o cring[uda.cptr].msg])
        /\ cring' = IF uda.line_INIT THEN cring
                    ELSE [cring EXCEPT ![uda.cptr] = [@ EXCEPT !.own = FALSE, !.flag = TRUE, !.msg = <<>>]]
        /\ LET u == [uda EXCEPT !.cptr = (@ + 1) % CommandRing]
           IN  uda' = IF server.intr THEN Interrupt(u) ELSE u
  /\ UNCHANGED <<units, rring, host, mscp_past>>

\* DoDiskTransfer(): the test of the block number and count.
InRange(cmd) ==
  /\ cmd.lbn < MscpBlocks + MscpRct
  /\ cmd.count <= MscpBlocks + MscpRct - cmd.lbn
  /\ cmd.lbn >= MscpBlocks => cmd.count = 1

\* The blocks of a transfer; one that begins in the image never reaches the RCT behind
\* it, but the end of the image file.
Extent(cmd) ==
  {b \in Blocks : cmd.lbn <= b /\ b < cmd.lbn + cmd.count /\ (b < MscpBlocks <=> cmd.lbn < MscpBlocks)}

Stored(d, cmd, value) == [d EXCEPT !.disk = [b \in Blocks |-> IF b \in Extent(cmd) THEN value ELSE @[b]]]

Result(status, d) == [status |-> status, d |-> d]

\* DoDiskTransfer() for the drive d; buffer is what the DMA brought, "none" if it failed.
\* COMPARE HOST DATA reports equal data as an error and goes on into ERASE for different
\* data.
DoDiskTransfer(d, cmd, buffer) ==
  CASE ~d.online -> Result("UNIT_AVAILABLE", d)
    [] d.online /\ ~InRange(cmd) -> Result("INVALID_COMMAND", d)
    [] d.online /\ InRange(cmd) ->
         CASE cmd.op = "ERASE" -> Result("SUCCESS", Stored(d, cmd, "zero"))
           [] cmd.op = "ACCESS" -> Result("SUCCESS", d)
           [] cmd.op \in {"COMPARE_HOST_DATA", "READ", "WRITE"} /\ buffer = "none" ->
                Result("HOST_BUFFER_ACCESS_ERROR", d)
           [] cmd.op = "READ" /\ buffer # "none" -> Result("SUCCESS", d)
           [] cmd.op = "WRITE" /\ buffer # "none" -> Result("SUCCESS", Stored(d, cmd, buffer))
           [] cmd.op = "COMPARE_HOST_DATA" /\ buffer # "none" ->
                IF \A b \in Extent(cmd) : d.disk[b] = buffer
                THEN Result("COMPARE_ERROR", d)
                ELSE Result("SUCCESS", Stored(d, cmd, "zero"))

\* ONLINE and SET UNIT CHARACTERISTICS.
SetUnitCharacteristicsInternal(d, bringOnline) == Result("SUCCESS", [d EXCEPT !.online = @ \/ bringOnline])

Available(d) == Result("SUCCESS", [d EXCEPT !.online = FALSE])

GetUnitStatus(d) == Result(IF d.online THEN "SUCCESS" ELSE "UNIT_AVAILABLE", d)

\* What the command makes of its unit d, a drive with an image.
UnitCommand(d, cmd, buffer) ==
  CASE cmd.op \in {"ONLINE", "SET_UNIT_CHARACTERISTICS"} -> SetUnitCharacteristicsInternal(d, cmd.op = "ONLINE")
    [] cmd.op = "AVAILABLE" -> Available(d)
    [] cmd.op = "GET_UNIT_STATUS" -> GetUnitStatus(d)
    [] cmd.op \in {"DETERMINE_ACCESS_PATHS", "REPLACE"} -> Result("SUCCESS", d)
    [] cmd.op \in Transfers -> DoDiskTransfer(d, cmd, buffer)

\* The dispatch on the opcode: commands to the controller, an opcode that is none, a
\* unit that is not there.
MscpExecuted(cmd, buffer) ==
  LET d == IF cmd.unit \in MscpUnits THEN units[cmd.unit] ELSE <<>>
  IN  CASE cmd.op \in ControllerCommands -> Result("SUCCESS", d)
        [] cmd.op = "unknown" -> Result("INVALID_COMMAND", d)
        [] cmd.op \in UnitCommands /\ cmd.unit \notin MscpAvailable -> Result("UNIT_OFFLINE", d)
        [] cmd.op \in UnitCommands /\ cmd.unit \in MscpAvailable -> UnitCommand(d, cmd, buffer)

\* The next message of the queue is executed.
\* All commands used here are sequential messages: their responses carry credits.
poll_command ==
  LET cmd == Head(server.messages)
      buffer == IF DmaFails THEN "none" ELSE IF DmaPattern THEN "pattern" ELSE cmd.data
      x == MscpExecuted(cmd, buffer)
      granted == IF server.credits > MAX_CREDITS THEN MAX_CREDITS ELSE server.credits
  IN  /\ server.pc = "command" /\ server.pollState # "InitRestart"
      /\ server.messages # <<>>
      /\ units' = IF cmd.unit \in MscpUnits THEN [units EXCEPT ![cmd.unit] = x.d] ELSE units
      /\ ServerStep(AfterDma([server EXCEPT !.pc = "post", !.messages = Tail(@), !.credits = @ - granted,
                       !.response = <<[ref |-> cmd.ref, op |-> cmd.op, status |-> x.status, credits |-> granted + 1]>>]))
      /\ UNCHANGED <<uda, cring, rring, host, mscp_past>>

\* PostResponse(): the descriptor is read, without a test that the DMA worked, and the
\* message written; without a descriptor Poll() calls FATAL().
PostResponse ==
  LET d == rring[uda.rptr]
  IN  /\ server.pc = "post"
      /\ IF DmaFails \/ (~d.own /\ ~uda.line_INIT) THEN Crash
         ELSE /\ ServerStep([server EXCEPT !.pc = "post_previous"])
              /\ UNCHANGED <<uda, units, cring, rring, host, mscp_past>>

\* The descriptor before it tells whether the ring was empty, if the host's flag asks.
post_previous ==
  LET empty == ResponseRing = 1 \/ uda.line_INIT \/ rring[(uda.rptr - 1) % ResponseRing].own
      flag == uda.line_INIT \/ rring[uda.rptr].flag
  IN  /\ server.pc = "post_previous"
      /\ IF DmaFails /\ flag /\ ResponseRing > 1 THEN Crash
         ELSE /\ ServerStep(AfterDma([server EXCEPT !.pc = "post_return", !.intr = flag /\ empty]))
              /\ UNCHANGED <<uda, units, cring, rring, host, mscp_past>>

\* Mutant: the pointer does not go round.
post_return_pointer ==
  /\ server.pc = "post_return"
  /\ ServerStep(AfterDma([server EXCEPT !.pc = "command", !.response = <<>>]))
  /\ rring' = IF uda.line_INIT \/ DmaFails THEN rring
              ELSE [rring EXCEPT ![uda.rptr] = [own |-> FALSE, flag |-> TRUE, msg |-> server.response]]
  /\ uda' = IF server.intr THEN Interrupt(uda) ELSE uda
  /\ UNCHANGED <<units, cring, host, mscp_past>>

\* The descriptor goes to the host, with an interrupt if the ring was found empty.
post_return ==
  /\ server.pc = "post_return"
  /\ ServerStep(AfterDma([server EXCEPT !.pc = "command", !.response = <<>>]))
  /\ rring' = IF uda.line_INIT \/ DmaFails THEN rring
              ELSE [rring EXCEPT ![uda.rptr] = [own |-> FALSE, flag |-> TRUE, msg |-> server.response]]
  /\ LET u == [uda EXCEPT !.rptr = (@ + 1) % ResponseRing]
     IN  uda' = IF server.intr THEN Interrupt(u) ELSE u
  /\ UNCHANGED <<units, cring, host, mscp_past>>

\* All messages are done.
poll_done ==
  /\ server.pc = "command" /\ server.messages = <<>> /\ server.pollState # "InitRestart"
  /\ ServerStep([server EXCEPT !.pc = "end"])
  /\ UNCHANGED <<uda, units, cring, rring, host, mscp_past>>

\* Mutant: a host that polls while Poll() runs is forgotten.
poll_end_sleeps ==
  /\ server.pc = "end"
  /\ ServerStep([server EXCEPT !.pc = "wait", !.fail = FALSE, !.intr = FALSE, !.pollState = "Wait"])
  /\ UNCHANGED <<uda, units, cring, rring, host, mscp_past>>

\* Back to sleep, or once more if the host has polled in the meantime.
poll_end ==
  /\ server.pc = "end"
  /\ ServerStep([server EXCEPT !.pc = "wait", !.fail = FALSE, !.intr = FALSE,
                               !.pollState = IF @ = "InitRun" THEN "Run" ELSE "Wait"])
  /\ UNCHANGED <<uda, units, cring, rring, host, mscp_past>>

Poll ==
  \/ poll_wake \/ poll_restart \/ GetNextCommand \/ command_previous \/ command_return \/ poll_command
  \/ PostResponse \/ post_previous \/ post_return \/ poll_done \/ poll_end

-----------------------------------------------------------------------------
(* The host's driver and, called by its bus accesses, the adapter's thread. *)

HostStart == [pc |-> "await1", cptr |-> 0, rptr |-> 0, credits |-> 1, out |-> 0, serving |-> FALSE, next |-> 0]

Await == <<"await1", "await2", "await3", "await4">>

\* on_after_register_access(): a write to IP initialises the port.  The host does so at
\* any time, or when it has waited too long for a step of an idle port.
IP_write ==
  /\ ~uda.line_INIT
  /\ \/ mscp_past.resets < MscpMaxResets /\ mscp_past' = [mscp_past EXCEPT !.resets = @ + 1]
     \/ /\ \E n \in 1 .. 4 : host.pc = Await[n] /\ uda.SA # n
        /\ uda.pc = "wait" /\ ~uda.next_step
        /\ UNCHANGED mscp_past
  /\ uda' = StateTransition([uda EXCEPT !.SA = 0], "Uninitialized")
  /\ host' = HostStart
  /\ UNCHANGED <<server, units, cring, rring>>

\* What a write to SA makes of each step: it is taken for an answer to the step that the port
\* is in, and "in Uninitialized state" for one to Step 1.  Only GO ends Step 4.
StepAfter ==
  [Uninitialized |-> "Step2", Step1 |-> "Step2", Step2 |-> "Step3", Step3 |-> "Step4"]

SA_written(u) == IF u.initStep \in DOMAIN StepAfter THEN StateTransition(u, StepAfter[u.initStep]) ELSE u

\* The host sees step n in SA and writes SA.
SA_write(n) ==
  /\ ~uda.line_INIT
  /\ host.pc = Await[n] /\ uda.SA = n
  /\ host' = [host EXCEPT !.pc = Await[n + 1]]
  /\ uda' = SA_written(uda)
  /\ UNCHANGED <<server, units, cring, rring, mscp_past>>

\* In step 4 the host sets up its rings and writes GO.
SA_write_go ==
  /\ ~uda.line_INIT
  /\ host.pc = "await4" /\ uda.SA = 4
  /\ host' = [host EXCEPT !.pc = "run"]
  /\ cring' = [i \in 0 .. CommandRing - 1 |-> NoDescriptor]
  /\ rring' = [i \in 0 .. ResponseRing - 1 |-> [own |-> TRUE, flag |-> ResponseFlag, msg |-> <<>>]]
  /\ uda' = IF uda.initStep = "Step4" THEN StateTransition([uda EXCEPT !.SA = 0], "Complete")
            ELSE SA_written(uda)
  /\ UNCHANGED <<server, units, mscp_past>>

\* The host puts a command into the ring, within its credits.
GiveCommand(cmd) ==
  /\ host.pc = "run" /\ host.out < host.credits /\ ~cring[host.cptr].own
  /\ cring' = [cring EXCEPT ![host.cptr] =
                 [own |-> TRUE, flag |-> FALSE,
                  msg |-> <<[ref |-> host.next, op |-> cmd.op, unit |-> cmd.unit, lbn |-> cmd.lbn,
                             count |-> cmd.count, data |-> cmd.data]>>]]
  /\ host' = [host EXCEPT !.cptr = (@ + 1) % CommandRing, !.out = @ + 1, !.pc = "poll",
                          !.next = (@ + 1) % MscpRefs]
  /\ UNCHANGED <<uda, server, units, rring, mscp_past>>

\* on_after_register_access(): the host reads IP, InitPolling() wakes Poll().
IP_read ==
  /\ ~uda.line_INIT
  /\ host.pc = "poll"
  /\ host' = [host EXCEPT !.pc = "run"]
  /\ server' = IF uda.initStep = "Complete" THEN [server EXCEPT !.pollState = "InitRun"] ELSE server
  /\ UNCHANGED <<uda, units, cring, rring, mscp_past>>

\* The interrupt: the driver serves the response ring ...
ServeInterrupt ==
  /\ host.pc \in {"run", "poll"} /\ uda.intr /\ ~host.serving
  /\ uda' = [uda EXCEPT !.intr = FALSE]
  /\ host' = [host EXCEPT !.serving = TRUE]
  /\ UNCHANGED <<server, units, cring, rring, mscp_past>>

\* ... takes every response, and gives the descriptor back ...
TakeResponse ==
  /\ host.serving /\ ~rring[host.rptr].own
  /\ host' = [host EXCEPT !.rptr = (@ + 1) % ResponseRing, !.out = @ - 1,
                          !.credits = @ - 1 + rring[host.rptr].msg[1].credits]
  /\ rring' = [rring EXCEPT ![host.rptr] = [own |-> TRUE, flag |-> ResponseFlag, msg |-> <<>>]]
  /\ UNCHANGED <<uda, server, units, cring, mscp_past>>

\* ... until it finds one that is the port's.
ServeEnd ==
  /\ host.serving /\ rring[host.rptr].own
  /\ host' = [host EXCEPT !.serving = FALSE]
  /\ UNCHANGED <<uda, server, units, cring, rring, mscp_past>>

\* INIT is asserted by the host's RESET: on_init_changed(), drives offline, and the
\* adapter cancels the interrupt, and a DMA if one is under way.
InitOn ==
  /\ ~uda.line_INIT /\ mscp_past.resets < MscpMaxResets
  /\ uda' = [StateTransition(uda, "Uninitialized") EXCEPT !.line_INIT = TRUE, !.intr = FALSE]
  /\ units' = [u \in MscpUnits |-> [units[u] EXCEPT !.online = FALSE]]
  /\ \E fail \in {FALSE, server.pc \notin {"wait", "end"}} : server' = [server EXCEPT !.fail = fail]
  /\ host' = [HostStart EXCEPT !.pc = "off"]
  /\ mscp_past' = [mscp_past EXCEPT !.resets = @ + 1]
  /\ UNCHANGED <<cring, rring>>

\* INIT is negated: the drives once more; the host starts to initialise the port.
InitOff ==
  /\ uda.line_INIT
  /\ uda' = [uda EXCEPT !.line_INIT = FALSE]
  /\ units' = [u \in MscpUnits |-> [units[u] EXCEPT !.online = FALSE]]
  /\ UNCHANGED <<server, cring, rring, host, mscp_past>>

HostBegins ==
  /\ ~uda.line_INIT /\ host.pc = "off"
  /\ host' = HostStart
  /\ uda' = StateTransition([uda EXCEPT !.SA = 0], "Uninitialized")
  /\ UNCHANGED <<server, units, cring, rring, mscp_past>>

-----------------------------------------------------------------------------
MscpInit ==
  /\ uda \in {[enabled |-> e, initStep |-> "Uninitialized", next_step |-> FALSE, pc |-> "wait",
               SA |-> 0, cptr |-> 0, rptr |-> 0, intr |-> FALSE, line_INIT |-> FALSE] : e \in BOOLEAN}
  /\ server = [pollState |-> "Wait", pc |-> "wait", messages |-> <<>>, response |-> <<>>, intr |-> FALSE,
               credits |-> INIT_CREDITS, fail |-> FALSE]
  /\ units = [u \in MscpUnits |-> [online |-> FALSE, disk |-> [b \in Blocks |-> "other"]]]
  /\ cring = [i \in 0 .. CommandRing - 1 |-> NoDescriptor]
  /\ rring = [i \in 0 .. ResponseRing - 1 |-> NoDescriptor]
  /\ host = [HostStart EXCEPT !.pc = "off"]
  /\ mscp_past = [resets |-> 0, crashed |-> FALSE, overrun |-> FALSE]

\* The run ends for the model: a failed DMA in PostResponse() ended the program, or the rings
\* were cleared under the host.
Ended == mscp_past.crashed \/ mscp_past.overrun

\* The threads of a disabled device do not run.
Running == uda.enabled /\ ~Ended

MscpNext ==
  \/ Running /\ UdaWorker
  \/ Running /\ Poll
  \/ Running /\ HostBegins
  \/ Running /\ IP_write
  \/ \E n \in 1 .. 3 : Running /\ SA_write(n)
  \/ Running /\ SA_write_go
  \/ \E cmd \in MscpCommands : Running /\ GiveCommand(cmd)
  \/ Running /\ IP_read
  \/ Running /\ ServeInterrupt
  \/ Running /\ TakeResponse
  \/ Running /\ ServeEnd
  \/ Running /\ InitOn
  \/ Running /\ InitOff

\* The threads run; the host goes on with its initialisation, polls for a command it
\* has given, and serves interrupts; INIT is a pulse.
MscpFairness ==
  /\ WF_mscpvars(Running /\ UdaWorker) /\ WF_mscpvars(Running /\ Poll)
  /\ WF_mscpvars(Running /\ HostBegins) /\ WF_mscpvars(Running /\ IP_write)
  /\ \A n \in 1 .. 3 : WF_mscpvars(Running /\ SA_write(n))
  /\ WF_mscpvars(Running /\ SA_write_go) /\ WF_mscpvars(Running /\ IP_read)
  /\ WF_mscpvars(Running /\ (ServeInterrupt \/ TakeResponse \/ ServeEnd)) /\ WF_mscpvars(Running /\ InitOff)

MscpSpec == MscpInit /\ [][MscpNext]_mscpvars /\ MscpFairness

-----------------------------------------------------------------------------
(* The service the host sees: while it runs the rings, the commands in the  *)
(* command ring and in the server, and the responses it has not taken.      *)

HostRuns == host.pc \in {"run", "poll"}

\* The messages of the consecutive descriptors of a ring with n entries, from index p,
\* whose owner bit is own.
RingMessages(ring, p, n, own) ==
  LET at(k) == ring[(p + k) % n]
      length == CHOOSE k \in 0 .. n : /\ \A j \in 0 .. k - 1 : at(j).own = own /\ at(j).msg # <<>>
                                      /\ k < n => at(k).own # own \/ at(k).msg = <<>>
  IN  [k \in 1 .. length |-> at(k - 1).msg[1].ref]

Refs(messages) == [k \in 1 .. Len(messages) |-> messages[k].ref]

service_waiting ==
  IF ~HostRuns \/ mscp_past.overrun THEN <<>>
  ELSE Refs(server.response) \o Refs(server.messages) \o RingMessages(cring, uda.cptr, CommandRing, TRUE)

service_answered ==
  IF ~HostRuns \/ mscp_past.overrun THEN <<>> ELSE RingMessages(rring, host.rptr, ResponseRing, FALSE)

Service == INSTANCE MscpService WITH
             ServiceRefs <- 0 .. MscpRefs - 1, ServiceCredits <- INIT_CREDITS + 1,
             waiting <- service_waiting, answered <- service_answered

\* Port and server keep the promise of MscpService: each command the host gives is
\* answered once and in order, and a command from before a reset of the port is neither
\* executed nor answered after it, although Poll() runs in its own thread.
ImplementsMscpService == Service!ServiceSpec

\* Poll() always finds a descriptor for its response ("there should always be room"):
\* the port never runs into FATAL() as long as the host keeps to its credits.
RoomForResponse ==
  server.pc = "post" /\ HostRuns /\ ~uda.line_INIT /\ ~mscp_past.overrun => rring[uda.rptr].own

\* ... which PortIndInv below implies.  Types:
Message ==
  [ref : 0 .. MscpRefs - 1, op : ControllerCommands \cup UnitCommands \cup {"unknown"},
   unit : Nat, lbn : Nat, count : Nat, data : {"zero", "host", "other"}]
Response ==
  [ref : 0 .. MscpRefs - 1, op : ControllerCommands \cup UnitCommands \cup {"unknown"},
   status : {"SUCCESS", "INVALID_COMMAND", "UNIT_OFFLINE", "UNIT_AVAILABLE", "COMPARE_ERROR",
             "HOST_BUFFER_ACCESS_ERROR"},
   credits : 1 .. INIT_CREDITS + 1]
InitSteps == {"Step1", "Step2", "Step3", "Step4"}
Resetting == {"Uninitialized", "reset_wait", "reset_done"}
Responding == {"post", "post_previous", "post_return"}

UdaState ==
  [enabled : BOOLEAN, initStep : {"Uninitialized", "Complete"} \cup InitSteps, next_step : BOOLEAN,
   pc : {"wait", "switch"} \cup Resetting \cup InitSteps, SA : -1 .. 4,
   cptr : 0 .. CommandRing - 1, rptr : 0 .. ResponseRing - 1, intr : BOOLEAN, line_INIT : BOOLEAN]
ServerState ==
  [pollState : {"Wait", "InitRun", "Run", "InitRestart"},
   pc : {"wait", "fetch", "previous", "return", "command", "end"} \cup Responding,
   messages : Seq(Message), response : Seq(Response), intr : BOOLEAN,
   credits : 0 .. INIT_CREDITS, fail : BOOLEAN]
DriveState == [online : BOOLEAN, disk : [Blocks -> {"zero", "host", "other", "pattern"}]]
HostState ==
  [pc : {"off", "await1", "await2", "await3", "await4", "run", "poll"},
   cptr : 0 .. CommandRing - 1, rptr : 0 .. ResponseRing - 1, credits : 1 .. INIT_CREDITS + 1,
   out : 0 .. INIT_CREDITS + 1, serving : BOOLEAN, next : 0 .. MscpRefs - 1]

MscpTypeOK ==
  /\ uda \in UdaState /\ server \in ServerState /\ host \in HostState
  /\ units \in [MscpUnits -> DriveState]
  /\ cring \in [0 .. CommandRing - 1 -> [own : BOOLEAN, flag : BOOLEAN, msg : Seq(Message)]]
  /\ rring \in [0 .. ResponseRing - 1 -> [own : BOOLEAN, flag : BOOLEAN, msg : Seq(Response)]]
  /\ mscp_past \in [resets : Nat, crashed : BOOLEAN, overrun : BOOLEAN]

\* Poll() holds messages and a response only where it works on them.
ServerIdle == server.pc = "wait" /\ server.pollState = "Wait"

PollInStep ==
  /\ server.pc \in {"wait", "end"} => server.messages = <<>>
  /\ Len(server.response) = IF server.pc \in Responding THEN 1 ELSE 0
  /\ server.pc = "wait" => ~server.fail
  /\ server.pollState = "Wait" => server.pc = "wait"

\* Reset() is done and nobody has used the port since.
Fresh == ServerIdle /\ uda.cptr = 0 /\ uda.rptr = 0 /\ server.credits = INIT_CREDITS

\* From the moment Reset() has seen Poll() asleep it sleeps until the host reads IP.  So it does
\* when a host that has just written IP sees the Step 1 of the initialisation before, and its
\* answer makes the port skip the Reset() that is due.
ResetInStep ==
  /\ uda.pc \in {"reset_wait", "reset_done"} => uda.SA \in {-1, 0}
  /\ uda.pc \in Resetting =>
       \/ uda.initStep = "Uninitialized"
       \/ (uda.initStep = "Step2" /\ uda.next_step /\ uda.SA \in {0, 1})
  /\ server.pollState = "InitRestart" => uda.pc = "reset_wait"
  /\ uda.pc = "reset_done" => ServerIdle
  /\ uda.initStep \in InitSteps \/ uda.pc = "Step1" \/ uda.SA = 1 => Fresh

\* Step n of the port, which SA shows or will show: it is signalled, taken or under way, unless
\* the Reset() that is due after all comes first.  worker() is at most one step behind.
Step == <<"Step1", "Step2", "Step3", "Step4">>

StepInStep(n, step, after) ==
  /\ uda.initStep = step /\ uda.SA # n =>
       /\ uda.SA = n - 1 \/ (n = 1 /\ uda.SA = -1) \/ (n = 2 /\ uda.pc \in Resetting)
       /\ uda.next_step \/ uda.pc \in {"switch", step}
  /\ uda.pc = step =>
       /\ uda.initStep \in {step, "Uninitialized", after}
       /\ uda.initStep = after => uda.next_step /\ uda.SA # n + 1

StepsInStep ==
  /\ StepInStep(1, "Step1", "Step2") /\ StepInStep(2, "Step2", "Step3")
  /\ StepInStep(3, "Step3", "Step4") /\ StepInStep(4, "Step4", "Complete")

\* The host is where the port is, or behind; at a second Step 1 it has answered the first.
HostInStep ==
  /\ uda.line_INIT => host.pc = "off"
  /\ HostRuns <=> uda.initStep = "Complete"
  /\ HostRuns => uda.SA \in {0, 4}
  /\ ~HostRuns => host = [HostStart EXCEPT !.pc = host.pc]
  /\ \A n \in 2 .. 4 : uda.initStep = Step[n] => host.pc = Await[n]
  /\ uda.initStep = "Uninitialized" => host.pc \in {"off", "await1"}
  /\ uda.initStep = "Step1" => host.pc \in {"off", "await1", "await2"}
  /\ host.pc = "await1" /\ uda.SA = 1 => uda.pc \in {"wait", "switch", "Uninitialized", "Step1"}

\* How far descriptor i of a ring with n entries is ahead of the pointer p.
Ahead(i, p, n) == (i - p) % n

\* The commands in the command ring and the responses that the host has not taken are
\* consecutive, and with those in the hands of Poll() they are what the host waits for.
Outstanding(given, unread) ==
  /\ host.cptr = (uda.cptr + given) % CommandRing
  /\ \A i \in DOMAIN cring : cring[i].own <=> Ahead(i, uda.cptr, CommandRing) < given
  /\ \A i \in DOMAIN cring : cring[i].own => Len(cring[i].msg) = 1
  /\ uda.rptr = (host.rptr + unread) % ResponseRing
  /\ \A i \in DOMAIN rring : ~rring[i].own <=> Ahead(i, host.rptr, ResponseRing) < unread
  /\ \A i \in DOMAIN rring : ~rring[i].own => Len(rring[i].msg) = 1
  /\ host.out = given + Len(server.messages) + Len(server.response) + unread
  /\ server.pc \in {"previous", "return"} => given > 0

\* The credits of the port go to the host with the first response, once.
CreditsInFlight == {server.response[1].credits : i \in DOMAIN server.response}
                     \cup {rring[i].msg[1].credits : i \in {j \in DOMAIN rring : ~rring[j].own}}

CreditsInStep ==
  /\ host.out <= host.credits
  /\ server.credits = INIT_CREDITS => host.credits = 1 /\ CreditsInFlight = {}
  /\ server.credits = 0 /\ host.credits = 1 => CreditsInFlight = {INIT_CREDITS + 1}
  /\ host.credits > 1 => CreditsInFlight \subseteq {1}

RingsInStep ==
  HostRuns => CreditsInStep /\ \E given, unread \in 0 .. INIT_CREDITS + 1 : Outstanding(given, unread)

\* With at most two commands under way, each of them in one place, and a port that
\* starts again only after Poll() has stopped, this is inductive.
PortIndInv ==
  /\ PollInStep /\ ResetInStep /\ StepsInStep /\ HostInStep
  /\ HostRuns => ~server.fail
  /\ ~mscp_past.overrun => RingsInStep

\* The types, the room for each response, and the invariant both rest on.
PortSafe == MscpTypeOK /\ RoomForResponse /\ PortIndInv

\* A command the host has polled for is answered, also when it comes while Poll() is
\* just going to sleep.
CommandsAnswered ==
  HostRuns /\ service_waiting # <<>> /\ host.pc # "poll" ~>
    service_waiting = <<>> \/ ~HostRuns \/ Ended \/ host.pc = "poll"

\* The initialisation by the four steps succeeds, whatever the port was doing when the
\* host began; a host that waits in vain for a step begins again.
InitialisationEnds == host.pc = "await1" ~> host.pc = "run" \/ mscp_past.crashed \/ uda.line_INIT

\* A response is seen by the host, which looks into the response ring when the port
\* interrupts.
ResponseSeen ==
  service_answered # <<>> ~> host.serving \/ ~HostRuns \/ Ended

\* The host writes SA only when the port has come as far as Step 1 ("should not occur").
SAWriteExpected ==
  [][\A n \in 1 .. 3 : host.pc = Await[n] /\ host'.pc = Await[n + 1] =>
       uda.initStep # "Uninitialized"]_mscpvars

\* COMPARE HOST DATA only compares: the disk changes for ERASE and WRITE alone.
CompareKeepsDisk ==
  [][\A u \in MscpUnits : units'[u].disk # units[u].disk =>
       Head(server.messages).op \in {"ERASE", "WRITE"}]_mscpvars
=============================================================================
