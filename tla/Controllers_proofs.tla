------------------------- MODULE Controllers_proofs -------------------------
(***************************************************************************)
(* Proofs about the two controllers that keep data for both sides.  MscpPort, *)
(* the UDA50: for rings of any length, any drives and any commands.         *)
(* DL11Serial, the console: for any number of characters on either side and *)
(* of INIT pulses.  And ImagePartition, below the images of the drives: for *)
(* any size, geometry, interleave and skew.                                 *)
(***************************************************************************)
EXTENDS MscpPort, DL11Serial, ImagePartition, SequenceTheorems, TLAPS

-----------------------------------------------------------------------------
(* The pointers of a ring.                                                   *)
LEMMA Wrap ==
  ASSUME NEW n \in Nat \ {0}, NEW p \in 0 .. n - 1, NEW k \in 0 .. n
  PROVE  (p + k) % n = IF p + k < n THEN p + k ELSE p + k - n
OBVIOUS

LEMMA WrapBack ==
  ASSUME NEW n \in Nat \ {0}, NEW i \in 0 .. n - 1, NEW p \in 0 .. n - 1
  PROVE  Ahead(i, p, n) = IF i >= p THEN i - p ELSE i - p + n
BY DEF Ahead

LEMMA RingLengths ==
  /\ CommandRing \in Nat /\ CommandRing >= 2
  /\ ResponseRing \in Nat /\ ResponseRing >= 2
  /\ MscpRefs \in Nat \ {0}
BY MscpAssumption DEF INIT_CREDITS

(* A ring's pointer moves on.                                                *)
LEMMA NextPointer ==
  ASSUME NEW n \in Nat, n >= 2, NEW p \in 0 .. n - 1
  PROVE  /\ (p + 1) % n = IF p = n - 1 THEN 0 ELSE p + 1
         /\ (p + 1) % n \in 0 .. n - 1
<1>1. n \in Nat \ {0} /\ 1 \in 0 .. n
  OBVIOUS
<1>2. (p + 1) % n = IF p + 1 < n THEN p + 1 ELSE p + 1 - n
  BY <1>1, Wrap
<1> QED
  BY <1>2

LEMMA Zero ==
  /\ 0 \in 0 .. CommandRing - 1 /\ 0 \in 0 .. ResponseRing - 1
  /\ 0 \in 0 .. INIT_CREDITS /\ INIT_CREDITS \in 0 .. INIT_CREDITS
  /\ -1 \in -1 .. 4 /\ 0 \in -1 .. 4 /\ 1 \in -1 .. 4 /\ 2 \in -1 .. 4 /\ 3 \in -1 .. 4 /\ 4 \in -1 .. 4
BY RingLengths DEF INIT_CREDITS

-----------------------------------------------------------------------------
(* Types.                                                                    *)
LEMMA HostStartType ==
  /\ HostStart \in HostState
  /\ \A pc \in {"off", "await1", "await2", "await3", "await4"} :
       [HostStart EXCEPT !.pc = pc] \in HostState
<1>1. 0 \in 0 .. CommandRing - 1 /\ 0 \in 0 .. ResponseRing - 1 /\ 0 \in 0 .. MscpRefs - 1
  BY RingLengths
<1>2. 1 \in 1 .. INIT_CREDITS + 1 /\ 0 \in 0 .. INIT_CREDITS + 1
  BY DEF INIT_CREDITS
<1> QED
  BY <1>1, <1>2 DEF HostStart, HostState

LEMMA NoMessages ==
  <<>> \in Seq(Message) /\ <<>> \in Seq(Response)
OBVIOUS

LEMMA NoDescriptorType ==
  /\ NoDescriptor \in [own : BOOLEAN, flag : BOOLEAN, msg : Seq(Message)]
  /\ NoDescriptor \in [own : BOOLEAN, flag : BOOLEAN, msg : Seq(Response)]
  /\ [own |-> TRUE, flag |-> ResponseFlag, msg |-> <<>>] \in [own : BOOLEAN, flag : BOOLEAN,
       msg : Seq(Response)]
  /\ [NoDescriptor EXCEPT !.own = TRUE] \in [own : BOOLEAN, flag : BOOLEAN, msg : Seq(Response)]
<1>1. <<>> \in Seq(Message) /\ <<>> \in Seq(Response)
  OBVIOUS
<1>2. NoDescriptor = [own |-> FALSE, flag |-> FALSE, msg |-> <<>>]
  BY DEF NoDescriptor
<1>3. [NoDescriptor EXCEPT !.own = TRUE] \in [own : BOOLEAN, flag : BOOLEAN, msg : Seq(Response)]
  BY <1>1 DEF NoDescriptor
<1>4. ResponseFlag \in BOOLEAN
  BY MscpAssumption
<1> QED
  BY <1>1, <1>2, <1>3, <1>4

LEMMA MscpInitTypes ==
  MscpInit => MscpTypeOK
<1> SUFFICES ASSUME MscpInit PROVE MscpTypeOK
  OBVIOUS
<1> USE RingLengths, MscpAssumption DEF MscpInit
<1>1. uda \in UdaState
  <2>1. 0 \in 0 .. CommandRing - 1 /\ 0 \in 0 .. ResponseRing - 1 /\ 0 \in -1 .. 4
    BY RingLengths
  <2>2. PICK e \in BOOLEAN :
          uda = [enabled |-> e, initStep |-> "Uninitialized", next_step |-> FALSE, pc |-> "wait",
                 SA |-> 0, cptr |-> 0, rptr |-> 0, intr |-> FALSE, line_INIT |-> FALSE]
    OBVIOUS
  <2> QED
    BY <2>1, <2>2 DEF UdaState
<1>2. server \in ServerState
  BY DEF ServerState, INIT_CREDITS
<1>3. host \in HostState
  BY HostStartType
<1>4. units \in [MscpUnits -> DriveState]
  BY DEF DriveState
<1>5. cring \in [0 .. CommandRing - 1 -> [own : BOOLEAN, flag : BOOLEAN, msg : Seq(Message)]]
  BY NoDescriptorType
<1>6. rring \in [0 .. ResponseRing - 1 -> [own : BOOLEAN, flag : BOOLEAN, msg : Seq(Response)]]
  BY NoDescriptorType DEF NoDescriptor
<1>7. mscp_past \in [resets : Nat, crashed : BOOLEAN, overrun : BOOLEAN]
  OBVIOUS
<1> QED
  BY <1>1, <1>2, <1>3, <1>4, <1>5, <1>6, <1>7 DEF MscpTypeOK

LEMMA TransitionType ==
  ASSUME NEW u \in UdaState, NEW step \in {"Uninitialized", "Complete"} \cup InitSteps
  PROVE  StateTransition(u, step) \in UdaState
BY DEF StateTransition, UdaState

(* A write to SA takes the port to the next step. *)
LEMMA WrittenType ==
  ASSUME NEW u \in UdaState
  PROVE  SA_written(u) \in UdaState
<1>1. \A step \in DOMAIN StepAfter : StepAfter[step] \in InitSteps
  BY DEF StepAfter, InitSteps
<1> QED
  BY <1>1, TransitionType DEF SA_written

LEMMA WrittenFields ==
  ASSUME NEW u \in UdaState
  PROVE  /\ u.initStep \in {"Uninitialized", "Step1"} =>
              SA_written(u) = [u EXCEPT !.initStep = "Step2", !.next_step = TRUE]
         /\ u.initStep = "Step2" => SA_written(u) = [u EXCEPT !.initStep = "Step3", !.next_step = TRUE]
         /\ u.initStep = "Step3" => SA_written(u) = [u EXCEPT !.initStep = "Step4", !.next_step = TRUE]
         /\ u.initStep \in {"Step4", "Complete"} => SA_written(u) = u
<1>1. DOMAIN StepAfter = {"Uninitialized", "Step1", "Step2", "Step3"}
  BY DEF StepAfter
<1>2. /\ u.initStep \in {"Uninitialized", "Step1"} => StepAfter[u.initStep] = "Step2"
      /\ u.initStep = "Step2" => StepAfter[u.initStep] = "Step3"
      /\ u.initStep = "Step3" => StepAfter[u.initStep] = "Step4"
  BY DEF StepAfter
<1> QED
  BY <1>1, <1>2 DEF SA_written, StateTransition

LEMMA PortErrorType ==
  ASSUME NEW u \in UdaState
  PROVE  PortError(u) \in UdaState
<1>1. [u EXCEPT !.SA = -1] \in UdaState
  BY DEF UdaState
<1> QED
  BY <1>1, TransitionType DEF PortError

LEMMA InterruptType ==
  ASSUME NEW u \in UdaState
  PROVE  Interrupt(u) \in UdaState
BY DEF Interrupt, UdaState

LEMMA WorkerTypes ==
  MscpTypeOK /\ UdaWorker => MscpTypeOK'
<1> SUFFICES ASSUME MscpTypeOK, UdaWorker PROVE MscpTypeOK'
  OBVIOUS
<1> USE DEF MscpTypeOK
<1>1. CASE worker_take
  BY <1>1 DEF worker_take, UdaState
<1>2. CASE worker_switch
  <2>1. uda.pc = "switch" => (IF uda.initStep = "Complete" THEN "wait" ELSE uda.initStep) \in
                              {"wait", "switch"} \cup Resetting \cup InitSteps
    BY DEF UdaState, Resetting
  <2> QED
    BY <1>2, <2>1 DEF worker_switch, UdaState
<1>3. CASE ServerReset
  <2>1. uda' \in UdaState
    BY <1>3, Zero DEF ServerReset, UdaState, Resetting
  <2>2. server' \in ServerState
    BY <1>3 DEF ServerReset, ServerState
  <2> QED
    BY <1>3, <2>1, <2>2 DEF ServerReset
<1>4. CASE ResetWait
  BY <1>4 DEF ResetWait, UdaState, Resetting
<1>5. CASE ResetDone
  <2>1. [uda EXCEPT !.cptr = 0, !.rptr = 0, !.pc = "wait"] \in UdaState
    BY Zero DEF UdaState
  <2>2. uda' \in UdaState
    BY <1>5, <2>1, TransitionType DEF ResetDone, InitSteps
  <2>3. server' \in ServerState
    BY <1>5, Zero DEF ResetDone, ServerState
  <2>4. units' \in [MscpUnits -> DriveState]
    BY <1>5 DEF ResetDone, DriveState
  <2> QED
    BY <1>5, <2>2, <2>3, <2>4 DEF ResetDone
<1>6. CASE worker_step4
  <2>1. uda' \in UdaState
    BY <1>6, Zero DEF worker_step4, UdaState
  <2>2. cring' \in [0 .. CommandRing - 1 -> [own : BOOLEAN, flag : BOOLEAN, msg : Seq(Message)]]
    BY <1>6, NoDescriptorType DEF worker_step4
  <2>3. rring' \in [0 .. ResponseRing - 1 -> [own : BOOLEAN, flag : BOOLEAN, msg : Seq(Response)]]
    BY <1>6, NoDescriptorType DEF worker_step4
  <2>4. mscp_past' \in [resets : Nat, crashed : BOOLEAN, overrun : BOOLEAN]
    BY <1>6 DEF worker_step4
  <2> QED
    BY <1>6, <2>1, <2>2, <2>3, <2>4 DEF worker_step4
<1>7. ASSUME NEW n \in 1 .. 3, worker_step(n) PROVE MscpTypeOK'
  <2>0. n \in -1 .. 4
    OBVIOUS
  <2>1. uda' \in UdaState
    BY <1>7, <2>0 DEF worker_step, UdaState
  <2> QED
    BY <1>7, <2>1 DEF worker_step
<1> QED
  BY <1>1, <1>2, <1>3, <1>4, <1>5, <1>6, <1>7 DEF UdaWorker

(* What a command makes of its drive, and what it answers.                   *)
Statuses == {"SUCCESS", "INVALID_COMMAND", "UNIT_OFFLINE", "UNIT_AVAILABLE", "COMPARE_ERROR",
             "HOST_BUFFER_ACCESS_ERROR"}
Answers(x) == x.status \in Statuses /\ x.d \in DriveState

LEMMA StoredType ==
  ASSUME NEW d \in DriveState, NEW cmd \in Message, NEW value \in {"zero", "host", "other", "pattern"}
  PROVE  Stored(d, cmd, value) \in DriveState
BY DEF Stored, DriveState

LEMMA DoDiskTransferType ==
  ASSUME NEW d \in DriveState, NEW cmd \in Message, cmd.op \in Transfers,
         NEW buffer \in {"none", "zero", "host", "other", "pattern"}
  PROVE  Answers(DoDiskTransfer(d, cmd, buffer))
<1>1. Stored(d, cmd, "zero") \in DriveState
  BY StoredType
<1>2. buffer # "none" => Stored(d, cmd, buffer) \in DriveState
  BY StoredType
<1>3. d.online \in BOOLEAN
  BY DEF DriveState
<1>4. \A status, e : Result(status, e).status = status /\ Result(status, e).d = e
  BY DEF Result
<1> DEFINE x == DoDiskTransfer(d, cmd, buffer)
<1>5. \/ x = Result("UNIT_AVAILABLE", d) \/ x = Result("INVALID_COMMAND", d) \/ x = Result("SUCCESS", d)
      \/ x = Result("HOST_BUFFER_ACCESS_ERROR", d) \/ x = Result("COMPARE_ERROR", d)
      \/ x = Result("SUCCESS", Stored(d, cmd, "zero"))
      \/ buffer # "none" /\ x = Result("SUCCESS", Stored(d, cmd, buffer))
  <2>1. CASE ~d.online
    BY <2>1 DEF DoDiskTransfer
  <2>2. CASE d.online /\ ~InRange(cmd)
    BY <2>2 DEF DoDiskTransfer
  <2>3. CASE d.online /\ InRange(cmd) /\ cmd.op \in {"ERASE", "ACCESS", "READ"}
    BY <2>3 DEF DoDiskTransfer
  <2>4. CASE d.online /\ InRange(cmd) /\ cmd.op = "WRITE"
    BY <2>4 DEF DoDiskTransfer
  <2>5. CASE d.online /\ InRange(cmd) /\ cmd.op = "COMPARE_HOST_DATA"
    BY <2>5 DEF DoDiskTransfer
  <2> QED
    BY <1>3, <2>1, <2>2, <2>3, <2>4, <2>5 DEF Transfers, InRange
<1> HIDE DEF Result
<1> QED
  BY <1>1, <1>2, <1>4, <1>5 DEF Answers, Statuses

LEMMA UnitCommandType ==
  ASSUME NEW d \in DriveState, NEW cmd \in Message, cmd.op \in UnitCommands,
         NEW buffer \in {"none", "zero", "host", "other", "pattern"}
  PROVE  Answers(UnitCommand(d, cmd, buffer))
<1>1. \A status, e : Result(status, e).status = status /\ Result(status, e).d = e
  BY DEF Result
<1>2. CASE cmd.op \in Transfers
  <2>1. UnitCommand(d, cmd, buffer) = DoDiskTransfer(d, cmd, buffer)
    BY <1>2 DEF UnitCommand, Transfers
  <2> QED
    BY <1>2, <2>1, DoDiskTransferType
<1>3. CASE cmd.op \notin Transfers
  <2>1. [d EXCEPT !.online = FALSE] \in DriveState /\ d.online \in BOOLEAN
    BY DEF DriveState
  <2>2. \/ UnitCommand(d, cmd, buffer) = SetUnitCharacteristicsInternal(d, cmd.op = "ONLINE")
        \/ UnitCommand(d, cmd, buffer) = Available(d)
        \/ UnitCommand(d, cmd, buffer) = GetUnitStatus(d)
        \/ UnitCommand(d, cmd, buffer) = Result("SUCCESS", d)
    BY <1>3 DEF UnitCommand, UnitCommands
  <2>3. Answers(SetUnitCharacteristicsInternal(d, cmd.op = "ONLINE"))
    <3>1. [d EXCEPT !.online = @ \/ (cmd.op = "ONLINE")] \in DriveState
      BY DEF DriveState
    <3> QED
      BY <1>1, <3>1 DEF SetUnitCharacteristicsInternal, Answers, Statuses
  <2>4. Answers(Available(d))
    BY <1>1, <2>1 DEF Available, Answers, Statuses
  <2>5. Answers(GetUnitStatus(d))
    BY <1>1, <2>1 DEF GetUnitStatus, Answers, Statuses
  <2>6. Answers(Result("SUCCESS", d))
    BY <1>1 DEF Answers, Statuses
  <2> QED
    BY <2>2, <2>3, <2>4, <2>5, <2>6
<1> QED
  BY <1>2, <1>3

LEMMA MscpExecutedType ==
  ASSUME units \in [MscpUnits -> DriveState], NEW cmd \in Message,
         NEW buffer \in {"none", "zero", "host", "other", "pattern"}
  PROVE  /\ MscpExecuted(cmd, buffer).status \in Statuses
         /\ cmd.unit \in MscpUnits => MscpExecuted(cmd, buffer).d \in DriveState
<1> DEFINE d == IF cmd.unit \in MscpUnits THEN units[cmd.unit] ELSE <<>>
           x == MscpExecuted(cmd, buffer)
<1>1. \A status, e : Result(status, e).status = status /\ Result(status, e).d = e
  BY DEF Result
<1>2. cmd.op \in ControllerCommands \cup UnitCommands \cup {"unknown"}
  BY DEF Message
<1>3. \/ x = Result("SUCCESS", d) \/ x = Result("INVALID_COMMAND", d) \/ x = Result("UNIT_OFFLINE", d)
      \/ /\ cmd.op \in UnitCommands /\ cmd.unit \in MscpAvailable
         /\ x = UnitCommand(d, cmd, buffer)
  <2>1. CASE cmd.op \in ControllerCommands
    BY <2>1 DEF MscpExecuted, ControllerCommands, UnitCommands, Transfers
  <2>2. CASE cmd.op = "unknown"
    BY <2>2 DEF MscpExecuted, ControllerCommands, UnitCommands, Transfers
  <2>3. CASE cmd.op \in UnitCommands
    BY <2>3 DEF MscpExecuted, ControllerCommands, UnitCommands, Transfers
  <2> QED
    BY <1>2, <2>1, <2>2, <2>3
<1>4. cmd.unit \in MscpAvailable => cmd.unit \in MscpUnits
  BY MscpAssumption
<1>5. cmd.unit \in MscpUnits => d \in DriveState
  OBVIOUS
<1>6. cmd.op \in UnitCommands /\ cmd.unit \in MscpAvailable => Answers(UnitCommand(d, cmd, buffer))
  BY <1>4, <1>5, UnitCommandType
<1> QED
  BY <1>1, <1>3, <1>4, <1>5, <1>6 DEF Answers, Statuses

LEMMA AfterDmaType ==
  ASSUME NEW s \in ServerState
  PROVE  AfterDma(s) \in ServerState
BY DEF AfterDma, ServerState

LEMMA PollTypes ==
  MscpTypeOK /\ Poll => MscpTypeOK'
<1> SUFFICES ASSUME MscpTypeOK, Poll PROVE MscpTypeOK'
  OBVIOUS
<1> USE DEF MscpTypeOK, ServerStep
<1>0. /\ [server EXCEPT !.pc = "end", !.messages = <<>>] \in ServerState
      /\ PortError(uda) \in UdaState
  BY PortErrorType, NoMessages DEF ServerState
<1>1. CASE poll_wake
  BY <1>1 DEF poll_wake, ServerState
<1>2. CASE poll_restart
  BY <1>0, <1>2 DEF poll_restart
<1>3. CASE GetNextCommand
  <2>1. server' \in ServerState
    <3>1. \A pc \in {"previous", "command"} : [server EXCEPT !.pc = pc] \in ServerState
      BY DEF ServerState
    <3> QED
      BY <1>0, <1>3, <3>1, AfterDmaType DEF GetNextCommand
  <2> QED
    BY <1>0, <1>3, <2>1 DEF GetNextCommand
<1>4. CASE command_previous
  <2>1. server' \in ServerState
    <3>1. \A intr \in BOOLEAN : [server EXCEPT !.pc = "return", !.intr = intr] \in ServerState
      BY DEF ServerState
    <3>2. cring[uda.cptr].flag \in BOOLEAN
      BY DEF UdaState
    <3> QED
      BY <1>0, <1>4, <3>1, <3>2, AfterDmaType DEF command_previous
  <2> QED
    BY <1>0, <1>4, <2>1 DEF command_previous
<1>5. CASE command_return
  <2> DEFINE u == [uda EXCEPT !.cptr = (@ + 1) % CommandRing]
  <2>1. cring[uda.cptr] \in [own : BOOLEAN, flag : BOOLEAN, msg : Seq(Message)] /\
          uda.cptr \in 0 .. CommandRing - 1
    BY DEF UdaState
  <2>2. server' \in ServerState
    <3>1. server.messages \o cring[uda.cptr].msg \in Seq(Message)
      BY <2>1 DEF ServerState
    <3>2. [server EXCEPT !.pc = "fetch", !.messages = @ \o cring[uda.cptr].msg] \in ServerState
      BY <3>1 DEF ServerState
    <3> QED
      BY <1>0, <1>5, <3>2, AfterDmaType DEF command_return
  <2>3. u \in UdaState
    <3>1. (uda.cptr + 1) % CommandRing \in 0 .. CommandRing - 1
      BY <2>1, RingLengths, NextPointer
    <3> QED
      BY <3>1 DEF UdaState
  <2>4. uda' \in UdaState
    BY <1>0, <1>5, <2>3, InterruptType DEF command_return
  <2>5. cring' \in [0 .. CommandRing - 1 -> [own : BOOLEAN, flag : BOOLEAN, msg : Seq(Message)]]
    <3>1. [cring[uda.cptr] EXCEPT !.own = FALSE, !.flag = TRUE, !.msg = <<>>]
            \in [own : BOOLEAN, flag : BOOLEAN, msg : Seq(Message)]
      BY <2>1, NoMessages
    <3> QED
      BY <1>5, <2>1, <3>1 DEF command_return
  <2> QED
    BY <1>5, <2>2, <2>4, <2>5 DEF command_return
<1>6. CASE poll_command
  <2> DEFINE cmd == Head(server.messages)
             buffer == IF DmaFails THEN "none" ELSE IF DmaPattern THEN "pattern" ELSE cmd.data
             x == MscpExecuted(cmd, buffer)
             granted == IF server.credits > MAX_CREDITS THEN MAX_CREDITS ELSE server.credits
             response == [ref |-> cmd.ref, op |-> cmd.op, status |-> x.status, credits |-> granted + 1]
  <2>1. server.messages \in Seq(Message) /\ server.messages # <<>>
    BY <1>6 DEF poll_command, ServerState
  <2>2. cmd \in Message /\ Tail(server.messages) \in Seq(Message)
    BY <2>1
  <2>3. buffer \in {"none", "zero", "host", "other", "pattern"}
    BY <2>2 DEF Message
  <2> HIDE DEF cmd, buffer
  <2>4. x.status \in Statuses /\ (cmd.unit \in MscpUnits => x.d \in DriveState)
    BY <2>2, <2>3, MscpExecutedType
  <2>5. granted = server.credits /\ server.credits \in {0, 1}
    BY DEF ServerState, INIT_CREDITS, MAX_CREDITS
  <2>6. granted + 1 \in 1 .. INIT_CREDITS + 1 /\ server.credits - granted \in 0 .. INIT_CREDITS
    BY <2>5 DEF INIT_CREDITS
  <2> HIDE DEF x, granted
  <2>7. response \in Response
    BY <2>2, <2>4, <2>6 DEF Response, Message, Statuses
  <2> HIDE DEF response
  <2>8. [server EXCEPT !.pc = "post", !.messages = Tail(@), !.credits = @ - granted,
                       !.response = <<response>>] \in ServerState
    <3>1. <<response>> \in Seq(Response)
      BY <2>7
    <3> QED
      BY <2>2, <2>6, <3>1 DEF ServerState, Responding
  <2>9. server' \in ServerState
    BY <1>6, <2>8, AfterDmaType DEF poll_command, cmd, granted, x, buffer, response
  <2>10. units' \in [MscpUnits -> DriveState]
    <3>1. units' = IF cmd.unit \in MscpUnits THEN [units EXCEPT ![cmd.unit] = x.d] ELSE units
      BY <1>6 DEF poll_command, cmd, x, buffer
    <3> QED
      BY <2>4, <3>1
  <2> QED
    BY <1>6, <2>9, <2>10 DEF poll_command
<1>7. CASE PostResponse
  <2>1. server' \in ServerState /\ mscp_past' \in [resets : Nat, crashed : BOOLEAN, overrun : BOOLEAN]
    BY <1>7 DEF PostResponse, Crash, ServerState, Responding
  <2> QED
    BY <1>7, <2>1 DEF PostResponse, Crash
<1>8. CASE post_previous
  <2> DEFINE empty == ResponseRing = 1 \/ uda.line_INIT \/ rring[(uda.rptr - 1) % ResponseRing].own
             flag == uda.line_INIT \/ rring[uda.rptr].flag
  <2>1. \A intr \in BOOLEAN : [server EXCEPT !.pc = "post_return", !.intr = intr] \in ServerState
    BY DEF ServerState, Responding
  <2>2. (flag /\ empty) \in BOOLEAN
    BY DEF UdaState
  <2> HIDE DEF flag, empty
  <2>3. server' \in ServerState /\ mscp_past' \in [resets : Nat, crashed : BOOLEAN, overrun : BOOLEAN]
    BY <1>8, <2>1, <2>2, AfterDmaType DEF post_previous, Crash, flag, empty
  <2> QED
    BY <1>8, <2>3 DEF post_previous, Crash
<1>9. CASE post_return
  <2> DEFINE u == [uda EXCEPT !.rptr = (@ + 1) % ResponseRing]
  <2>1. uda.rptr \in 0 .. ResponseRing - 1 /\ server.response \in Seq(Response)
    BY DEF UdaState, ServerState
  <2>2. server' \in ServerState
    <3>1. [server EXCEPT !.pc = "command", !.response = <<>>] \in ServerState
      BY NoMessages DEF ServerState
    <3> QED
      BY <1>9, <3>1, AfterDmaType DEF post_return
  <2>3. u \in UdaState
    <3>1. (uda.rptr + 1) % ResponseRing \in 0 .. ResponseRing - 1
      BY <2>1, RingLengths, NextPointer
    <3> QED
      BY <3>1 DEF UdaState
  <2>4. uda' \in UdaState
    BY <1>9, <2>3, InterruptType DEF post_return
  <2>5. rring' \in [0 .. ResponseRing - 1 -> [own : BOOLEAN, flag : BOOLEAN, msg : Seq(Response)]]
    <3>1. [own |-> FALSE, flag |-> TRUE, msg |-> server.response]
            \in [own : BOOLEAN, flag : BOOLEAN, msg : Seq(Response)]
      BY <2>1
    <3> QED
      BY <1>9, <2>1, <3>1 DEF post_return
  <2> QED
    BY <1>9, <2>2, <2>4, <2>5 DEF post_return
<1>10. CASE poll_done
  BY <1>10 DEF poll_done, ServerState
<1>11. CASE poll_end
  BY <1>11 DEF poll_end, ServerState
<1> QED
  BY <1>1, <1>2, <1>3, <1>4, <1>5, <1>6, <1>7, <1>8, <1>9, <1>10, <1>11 DEF Poll

(* The host counts its credits: here the type needs what follows below.      *)
CreditsReturned ==
  host.out > 0 /\ host.credits - 1 + rring[host.rptr].msg[1].credits \in 1 .. INIT_CREDITS + 1

LEMMA StepTypes ==
  MscpTypeOK /\ MscpNext /\ (TakeResponse => CreditsReturned) => MscpTypeOK'
<1> SUFFICES ASSUME MscpTypeOK, MscpNext, TakeResponse => CreditsReturned PROVE MscpTypeOK'
  OBVIOUS
<1> USE DEF MscpTypeOK
<1>0. StateTransition([uda EXCEPT !.SA = 0], "Uninitialized") \in UdaState
  <2>1. [uda EXCEPT !.SA = 0] \in UdaState
    BY Zero DEF UdaState
  <2> QED
    BY <2>1, TransitionType
<1>1. CASE UdaWorker
  BY <1>1, WorkerTypes
<1>2. CASE Poll
  BY <1>2, PollTypes
<1>3. CASE HostBegins
  BY <1>0, <1>3, HostStartType DEF HostBegins
<1>4. CASE IP_write
  <2>1. mscp_past' \in [resets : Nat, crashed : BOOLEAN, overrun : BOOLEAN]
    BY <1>4 DEF IP_write
  <2> QED
    BY <1>0, <1>4, <2>1, HostStartType DEF IP_write
<1>5. ASSUME NEW n \in 1 .. 3, SA_write(n) PROVE MscpTypeOK'
  <2>1. Await[n + 1] \in {"await2", "await3", "await4"}
    BY DEF Await
  <2>2. host' \in HostState
    BY <1>5, <2>1 DEF SA_write, HostState
  <2>4. uda' \in UdaState
    BY <1>5, WrittenType DEF SA_write
  <2> QED
    BY <1>5, <2>2, <2>4 DEF SA_write
<1>6. CASE SA_write_go
  <2>1. host' \in HostState
    BY <1>6 DEF SA_write_go, HostState
  <2>2. uda' \in UdaState
    <3>1. [uda EXCEPT !.SA = 0] \in UdaState
      BY Zero DEF UdaState
    <3> QED
      BY <1>6, <3>1, TransitionType, WrittenType DEF SA_write_go
  <2> QED
    BY <1>6, <2>1, <2>2, NoDescriptorType DEF SA_write_go
<1>7. ASSUME NEW cmd \in MscpCommands, GiveCommand(cmd) PROVE MscpTypeOK'
  <2> DEFINE m == [ref |-> host.next, op |-> cmd.op, unit |-> cmd.unit, lbn |-> cmd.lbn,
                   count |-> cmd.count, data |-> cmd.data]
  <2>1. m \in Message
    <3>1. cmd \in [op : ControllerCommands \cup UnitCommands \cup {"unknown"},
                   unit : Nat, lbn : Nat, count : Nat, data : {"zero", "host", "other"}]
      BY MscpAssumption
    <3> QED
      BY <3>1 DEF Message, HostState
  <2> HIDE DEF m
  <2>2. [own |-> TRUE, flag |-> FALSE, msg |-> <<m>>] \in [own : BOOLEAN, flag : BOOLEAN,
          msg : Seq(Message)]
    BY <2>1
  <2>3. cring' \in [0 .. CommandRing - 1 -> [own : BOOLEAN, flag : BOOLEAN, msg : Seq(Message)]]
    BY <1>7, <2>2 DEF GiveCommand, m
  <2>4. host' \in HostState
    <3>1. host.cptr \in 0 .. CommandRing - 1 /\ host.out \in 0 .. 2 /\ host.credits \in 1 .. 2
          /\ host.next \in 0 .. MscpRefs - 1
      BY DEF HostState, INIT_CREDITS
    <3>2. (host.cptr + 1) % CommandRing \in 0 .. CommandRing - 1
      BY <3>1, RingLengths, NextPointer
    <3>3. host.out + 1 \in 0 .. INIT_CREDITS + 1
      BY <1>7, <3>1 DEF GiveCommand, INIT_CREDITS
    <3>4. (host.next + 1) % MscpRefs \in 0 .. MscpRefs - 1
      <4>1. MscpRefs \in Nat \ {0} /\ 1 \in 0 .. MscpRefs
        BY RingLengths
      <4>2. (host.next + 1) % MscpRefs = IF host.next + 1 < MscpRefs THEN host.next + 1
                                         ELSE host.next + 1 - MscpRefs
        BY <3>1, <4>1, Wrap
      <4> QED
        BY <3>1, <4>1, <4>2
    <3> QED
      BY <1>7, <3>2, <3>3, <3>4 DEF GiveCommand, HostState
  <2> QED
    BY <1>7, <2>3, <2>4 DEF GiveCommand
<1>8. CASE IP_read
  <2>1. host' \in HostState
    BY <1>8 DEF IP_read, HostState
  <2>2. server' \in ServerState
    BY <1>8 DEF IP_read, ServerState
  <2> QED
    BY <1>8, <2>1, <2>2 DEF IP_read
<1>9. CASE ServeInterrupt
  BY <1>9 DEF ServeInterrupt, UdaState, HostState
<1>10. CASE ServeEnd
  BY <1>10 DEF ServeEnd, HostState
<1>11. CASE InitOn
  <2>1. uda' \in UdaState
    <3>1. StateTransition(uda, "Uninitialized") \in UdaState
      BY TransitionType
    <3> QED
      BY <1>11, <3>1 DEF InitOn, UdaState
  <2>2. units' \in [MscpUnits -> DriveState]
    <3>1. units' = [u \in MscpUnits |-> [units[u] EXCEPT !.online = FALSE]]
      BY <1>11 DEF InitOn
    <3>2. \A u \in MscpUnits : [units[u] EXCEPT !.online = FALSE] \in DriveState
      BY DEF DriveState
    <3> QED
      BY <3>1, <3>2
  <2>3. server' \in ServerState
    BY <1>11 DEF InitOn, ServerState
  <2>4. mscp_past' \in [resets : Nat, crashed : BOOLEAN, overrun : BOOLEAN]
    BY <1>11 DEF InitOn
  <2> QED
    BY <1>11, <2>1, <2>2, <2>3, <2>4, HostStartType DEF InitOn
<1>12. CASE InitOff
  <2>1. uda' \in UdaState
    BY <1>12 DEF InitOff, UdaState
  <2>2. units' \in [MscpUnits -> DriveState]
    <3>1. units' = [u \in MscpUnits |-> [units[u] EXCEPT !.online = FALSE]]
      BY <1>12 DEF InitOff
    <3>2. \A u \in MscpUnits : [units[u] EXCEPT !.online = FALSE] \in DriveState
      BY DEF DriveState
    <3> QED
      BY <3>1, <3>2
  <2> QED
    BY <1>12, <2>1, <2>2 DEF InitOff
<1>13. CASE TakeResponse
  <2>1. host.rptr \in 0 .. ResponseRing - 1 /\ host.out \in 0 .. INIT_CREDITS + 1
    BY DEF HostState
  <2>2. host.out - 1 \in 0 .. INIT_CREDITS + 1
    BY <1>13, <2>1 DEF CreditsReturned, INIT_CREDITS
  <2>3. (host.rptr + 1) % ResponseRing \in 0 .. ResponseRing - 1
    BY <2>1, RingLengths, NextPointer
  <2>4. host' \in HostState
    BY <1>13, <2>2, <2>3 DEF TakeResponse, CreditsReturned, HostState
  <2> QED
    BY <1>13, <2>4, NoDescriptorType DEF TakeResponse
<1> QED
  BY <1>1, <1>2, <1>3, <1>4, <1>5, <1>6, <1>7, <1>8, <1>9, <1>10, <1>11, <1>12, <1>13 DEF
     MscpNext

-----------------------------------------------------------------------------
(* The initialisation by four steps, and Poll() that sleeps meanwhile.       *)
Handshake == PollInStep /\ ResetInStep /\ StepsInStep /\ HostInStep /\ (HostRuns => ~server.fail)

LEMMA Numbers ==
  /\ Step[1] = "Step1" /\ Step[2] = "Step2" /\ Step[3] = "Step3" /\ Step[4] = "Step4"
  /\ Await[1] = "await1" /\ Await[2] = "await2" /\ Await[3] = "await3" /\ Await[4] = "await4"
BY DEF Step, Await

LEMMA FourSteps ==
  ASSUME NEW n \in 1 .. 4
  PROVE  n = 1 \/ n = 2 \/ n = 3 \/ n = 4
OBVIOUS

(* The worker of the port. *)
LEMMA WorkerHandshake ==
  MscpTypeOK /\ Handshake /\ UdaWorker => Handshake'
<1> SUFFICES ASSUME MscpTypeOK, Handshake, UdaWorker PROVE Handshake'
  OBVIOUS
<1>0. uda \in UdaState /\ server \in ServerState
  BY DEF MscpTypeOK
<1> USE <1>0, Numbers, FourSteps
    DEF Handshake, PollInStep, ResetInStep, StepsInStep, StepInStep, HostInStep, HostRuns, ServerIdle, Fresh,
       InitSteps, Resetting
<1>1. CASE worker_take
  BY <1>1 DEF worker_take, UdaState
<1>2. CASE worker_switch
  <2>1. /\ uda.pc = "switch" /\ uda'.pc = IF uda.initStep = "Complete" THEN "wait" ELSE uda.initStep
        /\ uda'.initStep = uda.initStep /\ uda'.SA = uda.SA /\ uda'.next_step = uda.next_step
        /\ uda'.line_INIT = uda.line_INIT /\ uda'.cptr = uda.cptr /\ uda'.rptr = uda.rptr
        /\ server' = server /\ host' = host
    BY <1>2 DEF worker_switch, UdaState
  <2>2. uda'.pc = "Step1" => uda.initStep = "Step1"
    BY <2>1
  <2>3. uda'.pc \in Resetting => uda.initStep = "Uninitialized"
    BY <2>1 DEF UdaState
  <2>4. PollInStep'
    BY <2>1
  <2>5. ResetInStep'
    <3>1. uda'.initStep \in InitSteps \/ uda'.pc = "Step1" \/ uda'.SA = 1 => Fresh'
      BY <2>1, <2>2
    <3>2. server'.pollState # "InitRestart" /\ uda'.pc \notin {"reset_wait", "reset_done"}
      BY <2>1, <2>3
    <3>3. uda'.pc \in Resetting => uda'.initStep = "Uninitialized"
      BY <2>1, <2>3
    <3> HIDE DEF Fresh
    <3> QED
      BY <3>1, <3>2, <3>3
  <2>6. StepsInStep'
    BY <2>1 DEF UdaState
  <2>7. HostInStep'
    BY <2>1 DEF UdaState
  <2> QED
    BY <2>1, <2>4, <2>5, <2>6, <2>7
<1>3. CASE ServerReset
  BY <1>3 DEF ServerReset, UdaState, ServerState
<1>4. CASE ResetWait
  <2>1. /\ uda.pc = "reset_wait" /\ uda'.pc = "reset_done" /\ uda'.initStep = uda.initStep
        /\ uda'.SA = uda.SA /\ uda'.next_step = uda.next_step /\ uda'.line_INIT = uda.line_INIT
        /\ uda'.cptr = uda.cptr /\ uda'.rptr = uda.rptr
        /\ server' = server /\ host' = host /\ server.pollState = "Wait"
    BY <1>4 DEF ResetWait, UdaState
  <2>2. PollInStep' /\ ResetInStep'
    BY <2>1
  <2>3. StepsInStep'
    BY <2>1
  <2>4. HostInStep'
    BY <2>1
  <2> QED
    BY <2>1, <2>2, <2>3, <2>4
<1>5. CASE ResetDone
  BY <1>5 DEF ResetDone, StateTransition, UdaState, ServerState
<1>6. CASE worker_step4
  BY <1>6 DEF worker_step4, UdaState
<1>7. ASSUME NEW n \in 1 .. 3, worker_step(n) PROVE Handshake'
  BY <1>7 DEF worker_step, UdaState
<1> QED
  BY <1>1, <1>2, <1>3, <1>4, <1>5, <1>6, <1>7 DEF UdaWorker

LEMMA AfterDmaFields ==
  ASSUME NEW s \in ServerState
  PROVE  /\ AfterDma(s).pc = s.pc /\ AfterDma(s).pollState = s.pollState
         /\ AfterDma(s).messages = s.messages /\ AfterDma(s).response = s.response
         /\ AfterDma(s).credits = s.credits
         /\ AfterDma(s).fail \in BOOLEAN /\ (AfterDma(s).fail => s.fail)
BY DEF AfterDma, ServerState

(* The server's thread. *)
LEMMA PollHandshake ==
  MscpTypeOK /\ Handshake /\ Poll => Handshake'
<1> SUFFICES ASSUME MscpTypeOK, Handshake, Poll PROVE Handshake'
  OBVIOUS
<1>0. uda \in UdaState /\ server \in ServerState
  BY DEF MscpTypeOK
<1>00. /\ server.pc # "wait" => uda.initStep \notin InitSteps /\ uda.pc \notin {"reset_done", "Step1"}
       /\ server.pc # "wait" /\ (DmaFails \/ DmaPattern) => uda.initStep = "Uninitialized"
  BY <1>0 DEF Handshake, ResetInStep, ServerIdle, Fresh, HostInStep, DmaFails, DmaPattern,
     HostRuns, UdaState
<1> DEFINE Ends == [server EXCEPT !.pc = "end", !.messages = <<>>]
           Fails == server' = AfterDma(Ends) /\ uda' = PortError(uda)
<1>01. ASSUME server.pc \in {"fetch", "previous", "return"}, DmaFails \/ DmaPattern, Fails,
                host' = host PROVE Handshake'
  <2>1. Ends \in ServerState
    BY <1>0, NoMessages DEF ServerState
  <2> HIDE DEF Ends
  <2>2. /\ server'.pc = "end" /\ server'.messages = <<>> /\ server'.pollState = server.pollState
        /\ server'.response = server.response /\ server'.fail \in BOOLEAN
    BY <1>0, <1>01, <2>1, AfterDmaFields DEF Ends, ServerState
  <2>3. uda' = [uda EXCEPT !.SA = -1, !.initStep = "Uninitialized", !.next_step = TRUE]
    BY <1>0, <1>01 DEF PortError, StateTransition, UdaState
  <2>4. /\ uda.initStep = "Uninitialized" /\ uda'.initStep = "Uninitialized"
        /\ uda'.SA = -1 /\ uda'.pc = uda.pc /\ uda'.line_INIT = uda.line_INIT
    BY <1>0, <1>00, <1>01, <2>3 DEF UdaState
  <2>5. PollInStep'
    BY <1>0, <1>01, <2>2 DEF Handshake, PollInStep, Responding
  <2>6. ResetInStep'
    <3>1. uda'.pc # "Step1" /\ uda'.pc # "reset_done" /\ uda'.SA # 1 /\ uda'.SA \in {-1, 0}
      BY <1>00, <1>01, <2>4
    <3>2. uda'.initStep \notin InitSteps /\ (server'.pollState = "InitRestart" => uda'.pc = "reset_wait")
      BY <2>2, <2>4 DEF Handshake, ResetInStep, InitSteps
    <3> QED
      BY <2>4, <3>1, <3>2 DEF ResetInStep, InitSteps, Resetting
  <2>7. StepsInStep'
    BY <1>01, <2>4, Numbers, FourSteps DEF Handshake, StepsInStep, StepInStep
  <2>8. HostInStep' /\ ~HostRuns'
    BY <1>01, <2>4, Numbers, FourSteps DEF Handshake, HostInStep, HostRuns
  <2> QED
    BY <2>5, <2>6, <2>7, <2>8 DEF Handshake
<1>02. ASSUME server.pc # "wait", server'.pc # "wait", uda'.initStep = uda.initStep, uda'.pc = uda.pc,
              uda'.SA = uda.SA, uda'.next_step = uda.next_step, uda'.line_INIT = uda.line_INIT,
              host' = host, server'.pollState = server.pollState, server'.fail => server.fail,
              server'.pc \in {"wait", "end"} => server'.messages = <<>>,
              Len(server'.response) = IF server'.pc \in Responding THEN 1 ELSE 0
       PROVE  Handshake'
  BY <1>0, <1>00, <1>02
  DEF Handshake, PollInStep, ResetInStep, StepsInStep, StepInStep, HostInStep, HostRuns, ServerIdle, Fresh,
     InitSteps,
      UdaState, ServerState
<1>1. CASE poll_wake
  BY <1>0, <1>1
  DEF poll_wake, ServerStep, Handshake, PollInStep, ResetInStep, StepsInStep, StepInStep, HostInStep,
     HostRuns,
      ServerIdle, Fresh, InitSteps, Responding, UdaState, ServerState
<1>2. CASE poll_restart
  <2>1. Len(server'.response) = 0 /\ server'.pc = "end"
    BY <1>0, <1>2 DEF poll_restart, ServerStep, ServerState, Handshake, PollInStep, Responding
  <2> QED
    BY <1>0, <1>02, <1>2, <2>1 DEF poll_restart, ServerStep, ServerState, Responding
<1>3. CASE GetNextCommand
  <2>1. CASE DmaFails \/ DmaPattern
    BY <1>01, <1>3, <2>1 DEF GetNextCommand, ServerStep
  <2>2. CASE ~DmaFails /\ ~DmaPattern
    <3>1. Len(server'.response) = 0 /\ server'.pc \in {"previous", "command"}
      BY <1>0, <1>3, <2>2 DEF GetNextCommand, ServerStep, ServerState, Handshake,
         PollInStep, Responding
    <3> QED
      BY <1>0, <1>02, <1>3, <2>2, <3>1 DEF GetNextCommand, ServerStep, ServerState, Responding
  <2> QED
    BY <2>1, <2>2
<1>4. CASE command_previous
  <2>1. CASE DmaFails
    BY <1>01, <1>4, <2>1 DEF command_previous, ServerStep
  <2>2. CASE ~DmaFails
    <3>1. Len(server'.response) = 0 /\ server'.pc = "return"
      BY <1>0, <1>4, <2>2 DEF command_previous, ServerStep, ServerState, Handshake,
         PollInStep, Responding
    <3> QED
      BY <1>0, <1>02, <1>4, <2>2, <3>1 DEF command_previous, ServerStep, ServerState,
         Responding
  <2> QED
    BY <2>1, <2>2
<1>5. CASE command_return
  <2>1. CASE DmaFails
    BY <1>01, <1>5, <2>1 DEF command_return, ServerStep
  <2>2. CASE ~DmaFails
    <3>1. Len(server'.response) = 0 /\ server'.pc = "fetch"
      BY <1>0, <1>5, <2>2 DEF command_return, ServerStep, ServerState, Handshake,
         PollInStep, Responding
    <3>2. /\ uda'.initStep = uda.initStep /\ uda'.pc = uda.pc /\ uda'.SA = uda.SA
          /\ uda'.next_step = uda.next_step /\ uda'.line_INIT = uda.line_INIT
      BY <1>0, <1>5, <2>2 DEF command_return, Interrupt, UdaState
    <3> QED
      BY <1>0, <1>02, <1>5, <2>2, <3>1, <3>2 DEF command_return, ServerStep, ServerState,
         Responding
  <2> QED
    BY <2>1, <2>2
<1>6. CASE poll_command
  <2> DEFINE s(messages, credits, r) ==
               [server EXCEPT !.pc = "post", !.messages = messages, !.credits = credits,
                 !.response = <<r>>]
  <2>1. \A messages, credits, r :
          LET t == AfterDma(s(messages, credits, r)) IN
            /\ t.pc = "post" /\ t.pollState = server.pollState /\ t.response = <<r>>
            /\ t.fail => server.fail
    BY <1>0 DEF AfterDma, ServerState
  <2>2. \E messages, credits, r : server' = AfterDma(s(messages, credits, r))
    BY <1>6 DEF poll_command, ServerStep
  <2>3. server'.pc = "post" /\ Len(server'.response) = 1 /\ server'.pollState = server.pollState
        /\ (server'.fail => server.fail)
    <3>1. PICK messages, credits, r : server' = AfterDma(s(messages, credits, r))
      BY <2>2
    <3> HIDE DEF s
    <3>2. server'.response = <<r>> /\ server'.pc = "post" /\ server'.pollState = server.pollState
          /\ (server'.fail => server.fail)
      BY <2>1, <3>1
    <3> QED
      BY <3>2
  <2> QED
    BY <1>0, <1>02, <1>6, <2>3 DEF poll_command, ServerState, Responding
<1>7. CASE PostResponse
  <2>1. CASE Crash
    BY <1>7, <2>1
    DEF Crash, PostResponse, Handshake, PollInStep, ResetInStep, StepsInStep, StepInStep, HostInStep,
       HostRuns, ServerIdle, Fresh
  <2>2. CASE ~Crash
    BY <1>0, <1>02, <1>7, <2>2
    DEF PostResponse, ServerStep, ServerState, Handshake, PollInStep, Responding
  <2> QED
    BY <2>1, <2>2
<1>8. CASE post_previous
  <2>1. CASE Crash
    BY <1>8, <2>1
    DEF Crash, Handshake, PollInStep, ResetInStep, StepsInStep, StepInStep, HostInStep, HostRuns,
       ServerIdle, Fresh
  <2>2. CASE ~Crash
    <3>1. /\ server'.pc = "post_return" /\ server'.pollState = server.pollState
          /\ server'.response = server.response /\ (server'.fail => server.fail)
          /\ server.pc = "post_previous" /\ uda' = uda /\ host' = host
      BY <1>0, <1>8, <2>2 DEF post_previous, ServerStep, AfterDma, ServerState
    <3> QED
      BY <1>0, <1>02, <3>1 DEF Handshake, PollInStep, Responding
  <2> QED
    BY <2>1, <2>2
<1>9. CASE post_return
  <2>1. /\ server'.pc = "command" /\ server'.pollState = server.pollState
        /\ server'.response = <<>> /\ (server'.fail => server.fail)
        /\ server.pc = "post_return" /\ host' = host
    BY <1>0, <1>9 DEF post_return, ServerStep, AfterDma, ServerState
  <2>2. /\ uda'.initStep = uda.initStep /\ uda'.pc = uda.pc /\ uda'.SA = uda.SA
        /\ uda'.next_step = uda.next_step /\ uda'.line_INIT = uda.line_INIT
    BY <1>0, <1>9 DEF post_return, Interrupt, UdaState
  <2> QED
    BY <1>0, <1>02, <2>1, <2>2 DEF Responding
<1>10. CASE poll_done
  <2>1. Len(server'.response) = 0
    BY <1>0, <1>10 DEF poll_done, ServerStep, ServerState, Handshake, PollInStep, Responding
  <2> QED
    BY <1>0, <1>02, <1>10, <2>1 DEF poll_done, ServerStep, ServerState, Responding
<1>11. CASE poll_end
  BY <1>0, <1>11
  DEF poll_end, ServerStep, Handshake, PollInStep, ResetInStep, StepsInStep, StepInStep, HostInStep,
     HostRuns,
      ServerIdle, Fresh, InitSteps, Responding, UdaState, ServerState
<1> QED
  BY <1>1, <1>2, <1>3, <1>4, <1>5, <1>6, <1>7, <1>8, <1>9, <1>10, <1>11 DEF Poll

(* The host has answered step n - 1. *)
LEMMA HostAnswered ==
  ASSUME NEW n \in 2 .. 4, uda'.initStep = Step[n], host' = [HostStart EXCEPT !.pc = Await[n]],
         ~uda'.line_INIT
  PROVE  HostInStep' /\ ~HostRuns'
<1>1. /\ Await[n] \in {"await2", "await3", "await4"} /\ host'.pc = Await[n]
      /\ uda'.initStep \in {"Step2", "Step3", "Step4"}
      /\ \A k \in 2 .. 4 : Step[k] = Step[n] => k = n
  BY Numbers DEF HostStart
<1> QED
  BY <1>1 DEF HostInStep, HostRuns

(* The host and INIT. *)
LEMMA StepHandshake ==
  MscpTypeOK /\ Handshake /\ MscpNext => Handshake'
<1> SUFFICES ASSUME MscpTypeOK, Handshake, MscpNext PROVE Handshake'
  OBVIOUS
<1>0. uda \in UdaState /\ server \in ServerState /\ host \in HostState
  BY DEF MscpTypeOK
<1>1. CASE UdaWorker
  BY <1>1, WorkerHandshake
<1>2. CASE Poll
  BY <1>2, PollHandshake
<1> USE <1>0, Numbers, FourSteps
    DEF Handshake, PollInStep, ResetInStep, StepsInStep, StepInStep, HostInStep, HostRuns, ServerIdle, Fresh,
       InitSteps, Resetting,
        StateTransition
<1>3. CASE HostBegins
  BY <1>3 DEF HostBegins, HostStart, UdaState
<1>4. CASE IP_write
  BY <1>4 DEF IP_write, HostStart, UdaState
<1>5. ASSUME NEW n \in 1 .. 3, SA_write(n) PROVE Handshake'
  <2>1. /\ host.pc = Await[n] /\ uda.SA = n /\ ~uda.line_INIT
        /\ host' = [host EXCEPT !.pc = Await[n + 1]] /\ server' = server
        /\ uda' = SA_written(uda)
    BY <1>5 DEF SA_write
  <2>2. CASE n = 1
    <3>1. uda.initStep \in {"Uninitialized", "Step1"} /\ Fresh
      BY <2>1, <2>2 DEF UdaState
    <3>2. uda' = [uda EXCEPT !.initStep = "Step2", !.next_step = TRUE]
      BY <2>1, <3>1, WrittenFields
    <3>3. /\ uda'.initStep = "Step2" /\ uda'.next_step /\ uda'.pc = uda.pc /\ uda'.SA = 1
          /\ uda'.line_INIT = uda.line_INIT /\ uda'.cptr = uda.cptr /\ uda'.rptr = uda.rptr
      BY <2>1, <2>2, <3>2 DEF UdaState
    <3>4. host'.pc = "await2" /\ host' = [HostStart EXCEPT !.pc = "await2"]
      BY <2>1, <2>2 DEF HostStart, HostState
    <3>5. PollInStep' /\ ResetInStep'
      BY <2>1, <2>2, <3>1, <3>3
    <3>6. StepsInStep'
      BY <2>1, <2>2, <3>1, <3>3 DEF UdaState
    <3>8. HostInStep' /\ ~HostRuns'
      <4> HIDE DEF HostInStep, HostRuns
      <4>1. Step[2] = "Step2" /\ Await[2] = "await2" /\ ~uda'.line_INIT
        BY <2>1, <3>3, Numbers
      <4> QED
        BY <3>3, <3>4, <4>1, HostAnswered
    <3> QED
      BY <3>5, <3>6, <3>8
  <2>3. CASE n = 2
    <3>1. uda.initStep = "Step2"
      BY <2>1, <2>3 DEF UdaState
    <3>2. uda' = [uda EXCEPT !.initStep = "Step3", !.next_step = TRUE]
      BY <2>1, <3>1, WrittenFields
    <3>3. /\ uda'.initStep = "Step3" /\ uda'.next_step /\ uda'.pc = uda.pc /\ uda'.SA = 2
          /\ uda'.line_INIT = uda.line_INIT /\ uda'.cptr = uda.cptr /\ uda'.rptr = uda.rptr
      BY <2>1, <2>3, <3>2 DEF UdaState
    <3>4. host'.pc = "await3" /\ host' = [HostStart EXCEPT !.pc = "await3"]
      BY <2>1, <2>3, <3>1 DEF HostStart, HostState
    <3>5. PollInStep' /\ ResetInStep'
      BY <2>1, <2>3, <3>1, <3>3
    <3>6. StepsInStep'
      BY <2>1, <2>3, <3>1, <3>3 DEF UdaState
    <3>8. HostInStep' /\ ~HostRuns'
      <4> HIDE DEF HostInStep, HostRuns
      <4>1. Step[3] = "Step3" /\ Await[3] = "await3" /\ ~uda'.line_INIT
        BY <2>1, <3>3, Numbers
      <4> QED
        BY <3>3, <3>4, <4>1, HostAnswered
    <3> QED
      BY <3>5, <3>6, <3>8
  <2>4. CASE n = 3
    <3>1. uda.initStep = "Step3"
      BY <2>1, <2>4 DEF UdaState
    <3>2. uda' = [uda EXCEPT !.initStep = "Step4", !.next_step = TRUE]
      BY <2>1, <3>1, WrittenFields
    <3>3. /\ uda'.initStep = "Step4" /\ uda'.next_step /\ uda'.pc = uda.pc /\ uda'.SA = 3
          /\ uda'.line_INIT = uda.line_INIT /\ uda'.cptr = uda.cptr /\ uda'.rptr = uda.rptr
      BY <2>1, <2>4, <3>2 DEF UdaState
    <3>4. host'.pc = "await4" /\ host' = [HostStart EXCEPT !.pc = "await4"]
      BY <2>1, <2>4, <3>1 DEF HostStart, HostState
    <3>5. PollInStep' /\ ResetInStep'
      BY <2>1, <2>4, <3>1, <3>3
    <3>6. StepsInStep'
      BY <2>1, <2>4, <3>1, <3>3 DEF UdaState
    <3>8. HostInStep' /\ ~HostRuns'
      <4> HIDE DEF HostInStep, HostRuns
      <4>1. Step[4] = "Step4" /\ Await[4] = "await4" /\ ~uda'.line_INIT
        BY <2>1, <3>3, Numbers
      <4> QED
        BY <3>3, <3>4, <4>1, HostAnswered
    <3> QED
      BY <3>5, <3>6, <3>8
  <2> QED
    BY <2>2, <2>3, <2>4
<1>6. CASE SA_write_go
  <2>1. uda.initStep = "Step4" /\ uda.SA = 4 /\ host.pc = "await4" /\ Fresh
    BY <1>6 DEF SA_write_go, UdaState
  <2>2. /\ uda' = [uda EXCEPT !.SA = 0, !.initStep = "Complete", !.next_step = TRUE]
        /\ host' = [host EXCEPT !.pc = "run"] /\ server' = server /\ ~uda.line_INIT
    BY <1>6, <2>1 DEF SA_write_go
  <2>3. /\ uda'.initStep = "Complete" /\ uda'.next_step /\ uda'.pc = uda.pc /\ uda'.SA = 0
        /\ uda'.line_INIT = FALSE /\ host'.pc = "run"
    BY <2>2 DEF UdaState, HostState
  <2>4. PollInStep' /\ ResetInStep'
    BY <2>1, <2>2, <2>3
  <2>5. StepsInStep'
    BY <2>1, <2>3
  <2>6. HostInStep'
    BY <2>1, <2>2, <2>3
  <2> QED
    BY <2>1, <2>2, <2>4, <2>5, <2>6
<1>7. ASSUME NEW cmd \in MscpCommands, GiveCommand(cmd) PROVE Handshake'
  BY <1>7 DEF GiveCommand, UdaState, HostState
<1>8. CASE IP_read
  <2>1. /\ uda.initStep = "Complete" /\ uda' = uda /\ ~uda.line_INIT /\ uda.pc # "reset_done"
        /\ host' = [host EXCEPT !.pc = "run"] /\ server' = [server EXCEPT !.pollState = "InitRun"]
    BY <1>8 DEF IP_read, UdaState
  <2>2. PollInStep'
    BY <2>1 DEF ServerState
  <2>3. ResetInStep'
    BY <2>1 DEF ServerState, UdaState
  <2>4. StepsInStep' /\ HostInStep'
    BY <2>1 DEF HostState
  <2> QED
    BY <2>1, <2>2, <2>3, <2>4 DEF ServerState
<1>9. CASE ServeInterrupt
  BY <1>9 DEF ServeInterrupt, UdaState, HostState
<1>10. CASE TakeResponse
  BY <1>10 DEF TakeResponse, UdaState, HostState, HostStart
<1>11. CASE ServeEnd
  BY <1>11 DEF ServeEnd, UdaState, HostState, HostStart
<1>12. CASE InitOn
  <2>1. /\ uda' = [uda EXCEPT !.initStep = "Uninitialized", !.next_step = TRUE, !.line_INIT = TRUE,
             !.intr = FALSE]
        /\ host' = [HostStart EXCEPT !.pc = "off"]
    BY <1>12 DEF InitOn
  <2>2. PICK fail \in {FALSE, server.pc \notin {"wait", "end"}} : server' = [server EXCEPT !.fail = fail]
    BY <1>12 DEF InitOn
  <2>3. PollInStep'
    BY <2>2 DEF ServerState
  <2>4. ResetInStep'
    BY <2>1, <2>2 DEF ServerState, UdaState
  <2>5. StepsInStep' /\ HostInStep' /\ ~HostRuns'
    BY <2>1 DEF UdaState, HostStart
  <2> QED
    BY <2>3, <2>4, <2>5
<1>13. CASE InitOff
  BY <1>13 DEF InitOff, UdaState
<1> QED
  BY <1>1, <1>2, <1>3, <1>4, <1>5, <1>6, <1>7, <1>8, <1>9, <1>10, <1>11, <1>12, <1>13 DEF
     MscpNext

-----------------------------------------------------------------------------
LEMMA AheadOfItself ==
  ASSUME NEW n \in Nat, n >= 2, NEW p \in 0 .. n - 1
  PROVE  Ahead(p, p, n) = 0
<1>1. n \in Nat \ {0} /\ p >= p /\ p - p = 0
  OBVIOUS
<1> QED
  BY <1>1, WrapBack

(* A window of g entries from p on, in a ring of n.                          *)
LEMMA WindowShrinks ==
  ASSUME NEW n \in Nat, n >= 2, NEW p \in 0 .. n - 1, NEW g \in 1 .. n
  PROVE  /\ \A i \in 0 .. n - 1 : Ahead(i, (p + 1) % n, n) < g - 1 <=> i # p /\ Ahead(i, p, n) < g
         /\ (((p + 1) % n) + (g - 1)) % n = (p + g) % n
<1> DEFINE q == (p + 1) % n
<1>1. q = (IF p = n - 1 THEN 0 ELSE p + 1) /\ q \in 0 .. n - 1 /\ n \in Nat \ {0}
  <2>1. n \in Nat \ {0}
    OBVIOUS
  <2> QED
    BY <2>1, NextPointer
<1> HIDE DEF q
<1>2. \A i \in 0 .. n - 1 : /\ Ahead(i, q, n) = IF i >= q THEN i - q ELSE i - q + n
                            /\ Ahead(i, p, n) = IF i >= p THEN i - p ELSE i - p + n
  BY <1>1, WrapBack
<1>3. (q + (g - 1)) % n = IF q + (g - 1) < n THEN q + (g - 1) ELSE q + (g - 1) - n
  <2>1. g - 1 \in 0 .. n
    OBVIOUS
  <2> QED
    BY <1>1, <2>1, Wrap
<1>4. (p + g) % n = IF p + g < n THEN p + g ELSE p + g - n
  <2>1. g \in 0 .. n
    OBVIOUS
  <2> QED
    BY <1>1, <2>1, Wrap
<1>5. \A i \in 0 .. n - 1 : Ahead(i, q, n) < g - 1 <=> i # p /\ Ahead(i, p, n) < g
  BY <1>1, <1>2
<1>6. (q + (g - 1)) % n = (p + g) % n
  BY <1>1, <1>3, <1>4
<1> QED
  BY <1>5, <1>6 DEF q

LEMMA WindowGrows ==
  ASSUME NEW n \in Nat, n >= 2, NEW p \in 0 .. n - 1, NEW g \in 0 .. n - 1
  PROVE  /\ (p + g) % n \in 0 .. n - 1
         /\ Ahead((p + g) % n, p, n) = g
         /\ \A i \in 0 .. n - 1 : Ahead(i, p, n) < g + 1 <=> Ahead(i, p, n) < g \/ i = (p + g) % n
         /\ (((p + g) % n) + 1) % n = (p + (g + 1)) % n
<1> DEFINE q == (p + g) % n
<1>1. q = (IF p + g < n THEN p + g ELSE p + g - n) /\ n \in Nat \ {0}
  <2>1. g \in 0 .. n /\ n \in Nat \ {0}
    OBVIOUS
  <2> QED
    BY <2>1, Wrap
<1>2. q \in 0 .. n - 1
  BY <1>1
<1> HIDE DEF q
<1>3. \A i \in 0 .. n - 1 : Ahead(i, p, n) = IF i >= p THEN i - p ELSE i - p + n
  BY <1>1, WrapBack
<1>4. (q + 1) % n = IF q = n - 1 THEN 0 ELSE q + 1
  BY <1>2, NextPointer
<1>5. (p + (g + 1)) % n = IF p + (g + 1) < n THEN p + (g + 1) ELSE p + (g + 1) - n
  <2>1. g + 1 \in 0 .. n
    OBVIOUS
  <2> QED
    BY <1>1, <2>1, Wrap
<1>6. Ahead(q, p, n) = g
  BY <1>1, <1>2, <1>3
<1>7. \A i \in 0 .. n - 1 : Ahead(i, p, n) < g + 1 <=> Ahead(i, p, n) < g \/ i = q
  BY <1>1, <1>2, <1>3
<1>8. (q + 1) % n = (p + (g + 1)) % n
  BY <1>1, <1>2, <1>4, <1>5
<1> QED
  BY <1>2, <1>6, <1>7, <1>8 DEF q

(* The credits under way, in Poll() and in the response ring.                *)
InFlight(c, response, ring) ==
  \/ Len(response) = 1 /\ c = response[1].credits
  \/ \E i \in DOMAIN ring : ~ring[i].own /\ c = ring[i].msg[1].credits

LEMMA CreditsAre ==
  ASSUME NEW response \in Seq(Response), Len(response) \in {0, 1}, NEW ring, NEW c
  PROVE  c \in {response[1].credits : i \in DOMAIN response}
                  \cup {ring[i].msg[1].credits : i \in {j \in DOMAIN ring : ~ring[j].own}}
         <=> InFlight(c, response, ring)
<1>1. DOMAIN response = 1 .. Len(response)
  OBVIOUS
<1>2. (\E i \in DOMAIN response : c = response[1].credits) <=>
        Len(response) = 1 /\ c = response[1].credits
  BY <1>1
<1> QED
  BY <1>2 DEF InFlight

(* CreditsInStep with the credits under way spelled out.                     *)
CreditsOf(h, s, ring) ==
  /\ h.out <= h.credits
  /\ s.credits = 1 => h.credits = 1 /\ \A c : ~InFlight(c, s.response, ring)
  /\ s.credits = 0 /\ h.credits = 1 => \A c : InFlight(c, s.response, ring) <=> c = 2
  /\ h.credits > 1 => \A c : InFlight(c, s.response, ring) => c = 1

LEMMA CreditsUnfolded ==
  ASSUME server.response \in Seq(Response), Len(server.response) \in {0, 1}
  PROVE  CreditsInStep <=> CreditsOf(host, server, rring)
<1>1. \A c : c \in CreditsInFlight <=> InFlight(c, server.response, rring)
  BY CreditsAre DEF CreditsInFlight
<1> QED
  BY <1>1 DEF CreditsInStep, CreditsOf, INIT_CREDITS

LEMMA CreditsUnfoldedNext ==
  ASSUME server'.response \in Seq(Response), Len(server'.response) \in {0, 1}
  PROVE  CreditsInStep' <=> CreditsOf(host', server', rring')
<1>1. \A c : c \in CreditsInFlight' <=> InFlight(c, server'.response, rring')
  BY CreditsAre DEF CreditsInFlight
<1> QED
  BY <1>1 DEF CreditsInStep, CreditsOf, INIT_CREDITS

LEMMA RunningFacts ==
  MscpTypeOK /\ Handshake /\ RingsInStep /\ HostRuns =>
    /\ ~uda.line_INIT /\ ~server.fail /\ ~DmaFails /\ ~DmaPattern
    /\ uda.initStep = "Complete" /\ uda.pc \in {"wait", "switch", "Step4"}
    /\ uda.cptr \in 0 .. CommandRing - 1 /\ uda.rptr \in 0 .. ResponseRing - 1
    /\ host.cptr \in 0 .. CommandRing - 1 /\ host.rptr \in 0 .. ResponseRing - 1
    /\ host.credits \in {1, 2} /\ server.credits \in {0, 1} /\ host.out \in {0, 1, 2}
    /\ server.messages \in Seq(Message) /\ server.response \in Seq(Response)
    /\ Len(server.messages) \in Nat /\ Len(server.response) \in {0, 1}
    /\ DOMAIN cring = 0 .. CommandRing - 1 /\ DOMAIN rring = 0 .. ResponseRing - 1
    /\ CreditsOf(host, server, rring)
    /\ \E given, unread \in 0 .. 2 : Outstanding(given, unread)
<1> SUFFICES ASSUME MscpTypeOK, Handshake, RingsInStep, HostRuns PROVE
    /\ ~uda.line_INIT /\ ~server.fail /\ ~DmaFails /\ ~DmaPattern
    /\ uda.initStep = "Complete" /\ uda.pc \in {"wait", "switch", "Step4"}
    /\ uda.cptr \in 0 .. CommandRing - 1 /\ uda.rptr \in 0 .. ResponseRing - 1
    /\ host.cptr \in 0 .. CommandRing - 1 /\ host.rptr \in 0 .. ResponseRing - 1
    /\ host.credits \in {1, 2} /\ server.credits \in {0, 1} /\ host.out \in {0, 1, 2}
    /\ server.messages \in Seq(Message) /\ server.response \in Seq(Response)
    /\ Len(server.messages) \in Nat /\ Len(server.response) \in {0, 1}
    /\ DOMAIN cring = 0 .. CommandRing - 1 /\ DOMAIN rring = 0 .. ResponseRing - 1
    /\ CreditsOf(host, server, rring)
    /\ \E given, unread \in 0 .. 2 : Outstanding(given, unread)
  OBVIOUS
<1>1. uda \in UdaState /\ server \in ServerState /\ host \in HostState
  BY DEF MscpTypeOK
<1>2. ~uda.line_INIT /\ ~server.fail /\ uda.initStep = "Complete" /\ uda.pc \in {"wait", "switch", "Step4"}
  BY <1>1 DEF Handshake, HostInStep, HostRuns, StepsInStep, StepInStep, ResetInStep, UdaState,
     InitSteps, Resetting
<1>3. ~DmaFails /\ ~DmaPattern
  BY <1>2 DEF DmaFails, DmaPattern
<1>4. /\ uda.cptr \in 0 .. CommandRing - 1 /\ uda.rptr \in 0 .. ResponseRing - 1
      /\ host.cptr \in 0 .. CommandRing - 1 /\ host.rptr \in 0 .. ResponseRing - 1
      /\ host.credits \in {1, 2} /\ server.credits \in {0, 1} /\ host.out \in {0, 1, 2}
  BY <1>1 DEF UdaState, HostState, ServerState, INIT_CREDITS
<1>5. /\ server.messages \in Seq(Message) /\ server.response \in Seq(Response)
      /\ Len(server.messages) \in Nat /\ Len(server.response) \in {0, 1}
  BY <1>1 DEF ServerState, Handshake, PollInStep
<1>6. DOMAIN cring = 0 .. CommandRing - 1 /\ DOMAIN rring = 0 .. ResponseRing - 1
  BY DEF MscpTypeOK
<1>7. CreditsOf(host, server, rring)
  BY <1>5, CreditsUnfolded DEF RingsInStep
<1>8. \E given, unread \in 0 .. 2 : Outstanding(given, unread)
  BY DEF RingsInStep, INIT_CREDITS
<1> QED
  BY <1>2, <1>3, <1>4, <1>5, <1>6, <1>7, <1>8

LEMMA RingsFrame ==
  ASSUME MscpTypeOK, Handshake, RingsInStep, HostRuns' => HostRuns,
         uda'.cptr = uda.cptr, uda'.rptr = uda.rptr, cring' = cring, rring' = rring,
         host'.cptr = host.cptr, host'.rptr = host.rptr, host'.out = host.out,
           host'.credits = host.credits,
         server'.messages = server.messages, server'.response = server.response,
         server'.credits = server.credits,
         HostRuns /\ server'.pc \in {"previous", "return"} =>
           server.pc \in {"previous", "return"} \/ cring[uda.cptr].own
  PROVE  RingsInStep'
<1> SUFFICES ASSUME HostRuns PROVE RingsInStep'
  BY DEF RingsInStep
<1>1. /\ server.response \in Seq(Response) /\ Len(server.response) \in {0, 1}
      /\ CreditsOf(host, server, rring) /\ DOMAIN cring = 0 .. CommandRing - 1
      /\ uda.cptr \in 0 .. CommandRing - 1
      /\ \E given, unread \in 0 .. 2 : Outstanding(given, unread)
  BY RunningFacts
<1>2. PICK given \in 0 .. 2, unread \in 0 .. 2 : Outstanding(given, unread)
  BY <1>1
<1>3. Outstanding(given, unread)'
  <2>1. cring[uda.cptr].own => given > 0
    <3>2. Ahead(uda.cptr, uda.cptr, CommandRing) = 0
      BY <1>1, RingLengths, AheadOfItself
    <3> QED
      BY <1>1, <1>2, <3>2 DEF Outstanding
  <2> QED
    BY <1>2, <2>1 DEF Outstanding
<1>4. CreditsOf(host', server', rring')
  BY <1>1 DEF CreditsOf
<1>5. CreditsInStep'
  BY <1>1, <1>4, CreditsUnfoldedNext
<1> QED
  BY <1>2, <1>3, <1>5 DEF RingsInStep, INIT_CREDITS

(* A command goes from the ring into the server's queue. *)
LEMMA CommandReturnRings ==
  ASSUME MscpTypeOK, Handshake, RingsInStep, HostRuns, command_return,
         NEW given \in 0 .. 2, NEW unread \in 0 .. 2, Outstanding(given, unread)
  PROVE  /\ given - 1 \in 0 .. 2 /\ unread \in 0 .. 2
         /\ Outstanding(given - 1, unread)' /\ CreditsInStep'
<1>1. /\ ~uda.line_INIT /\ ~DmaFails
      /\ server.response \in Seq(Response) /\ Len(server.response) \in {0, 1}
      /\ server.messages \in Seq(Message) /\ Len(server.messages) \in Nat
      /\ CreditsOf(host, server, rring) /\ DOMAIN cring = 0 .. CommandRing - 1
      /\ uda.cptr \in 0 .. CommandRing - 1
  BY RunningFacts
<1>2. Outstanding(given, unread)
  OBVIOUS
<1>3. /\ server.pc = "return" /\ server' = [server EXCEPT !.pc = "fetch",
           !.messages = @ \o cring[uda.cptr].msg]
      /\ cring' = [cring EXCEPT ![uda.cptr] = [@ EXCEPT !.own = FALSE, !.flag = TRUE, !.msg = <<>>]]
      /\ rring' = rring /\ host' = host
  BY <1>1 DEF command_return, ServerStep
<1>4. uda'.cptr = (uda.cptr + 1) % CommandRing /\ uda'.rptr = uda.rptr
  BY <1>1 DEF command_return, Interrupt, MscpTypeOK, UdaState
<1>5. given > 0
  BY <1>2, <1>3 DEF Outstanding
<1>6. /\ \A i \in 0 .. CommandRing - 1 :
           Ahead(i, uda'.cptr, CommandRing) < given - 1 <=>
             i # uda.cptr /\ Ahead(i, uda.cptr, CommandRing) < given
      /\ (uda'.cptr + (given - 1)) % CommandRing = (uda.cptr + given) % CommandRing
  <2>1. given \in 1 .. CommandRing
    BY <1>5, RingLengths
  <2> QED
    BY <1>1, <1>4, <2>1, RingLengths, WindowShrinks
<1>7. cring[uda.cptr].own /\ Len(cring[uda.cptr].msg) = 1 /\ cring[uda.cptr].msg \in Seq(Message)
  <2>2. Ahead(uda.cptr, uda.cptr, CommandRing) = 0
    BY <1>1, RingLengths, AheadOfItself
  <2> QED
    BY <1>1, <1>2, <1>5, <2>2 DEF Outstanding, MscpTypeOK
<1>8. /\ server'.response = server.response /\ server'.credits = server.credits /\ server'.pc = "fetch"
      /\ Len(server'.messages) = Len(server.messages) + 1
  <2>1. server \in ServerState
    BY DEF MscpTypeOK
  <2>2. Len(server.messages \o cring[uda.cptr].msg) = Len(server.messages) + 1
    <3>1. server.messages \in Seq(Message) /\ cring[uda.cptr].msg \in Seq(Message)
      BY <1>1, <1>7
    <3>2. Len(server.messages \o cring[uda.cptr].msg) = Len(server.messages) + Len(cring[uda.cptr].msg)
      BY <3>1, ConcatProperties
    <3> QED
      BY <1>7, <3>2
  <2> QED
    BY <1>3, <2>1, <2>2 DEF ServerState
<1>9. /\ DOMAIN cring' = 0 .. CommandRing - 1
      /\ \A i \in 0 .. CommandRing - 1 : IF i = uda.cptr THEN ~cring'[i].own ELSE cring'[i] = cring[i]
  BY <1>1, <1>3 DEF MscpTypeOK
<1>10. Outstanding(given - 1, unread)'
  <2>1. host.cptr = (uda'.cptr + (given - 1)) % CommandRing
    BY <1>2, <1>6 DEF Outstanding
  <2>2. \A i \in DOMAIN cring' : cring'[i].own <=> Ahead(i, uda'.cptr, CommandRing) < given - 1
    BY <1>1, <1>2, <1>6, <1>9 DEF Outstanding
  <2>3. \A i \in DOMAIN cring' : cring'[i].own => Len(cring'[i].msg) = 1
    BY <1>1, <1>2, <1>9 DEF Outstanding
  <2>4. host.out = (given - 1) + Len(server'.messages) + Len(server'.response) + unread
    <3>1. PICK m \in Nat, r \in Nat : m = Len(server.messages) /\ r = Len(server.response)
      BY <1>1
    <3>2. host.out = given + m + r + unread
      BY <1>2, <3>1 DEF Outstanding
    <3>3. host.out = (given - 1) + (m + 1) + r + unread
      BY <3>2
    <3> QED
      BY <1>8, <3>1, <3>3
  <2> QED
    BY <1>2, <1>3, <1>4, <1>8, <2>1, <2>2, <2>3, <2>4 DEF Outstanding
<1>11. CreditsInStep'
  <2>1. CreditsOf(host', server', rring')
    BY <1>1, <1>3, <1>8 DEF CreditsOf
  <2> QED
    BY <1>1, <1>8, <2>1, CreditsUnfoldedNext
<1>12. given - 1 \in 0 .. 2
  BY <1>5
<1> QED
  BY <1>10, <1>11, <1>12


(* A message of the queue becomes a response, and takes the credits along.   *)
LEMMA PollCommandRings ==
  ASSUME MscpTypeOK, Handshake, RingsInStep, HostRuns, poll_command,
         NEW given \in 0 .. 2, NEW unread \in 0 .. 2, Outstanding(given, unread)
  PROVE  /\ given \in 0 .. 2 /\ unread \in 0 .. 2
         /\ Outstanding(given, unread)' /\ CreditsInStep'
         /\ server.messages # <<>> /\ server'.messages = Tail(server.messages)
         /\ Len(server.response) = 0 /\ Len(server'.response) = 1
         /\ server'.response[1].ref = Head(server.messages).ref
<1>1. /\ server.response \in Seq(Response) /\ Len(server.response) \in {0, 1}
      /\ server.messages \in Seq(Message) /\ Len(server.messages) \in Nat
      /\ host.credits \in {1, 2} /\ server.credits \in {0, 1} /\ host.out \in {0, 1, 2}
      /\ CreditsOf(host, server, rring) /\ DOMAIN rring = 0 .. ResponseRing - 1
  BY RunningFacts
<1>2. Outstanding(given, unread)
  OBVIOUS
<1>3. /\ server.pc = "command" /\ server.messages # <<>> /\ uda' = uda /\ cring' = cring /\
           rring' = rring /\ host' = host
      /\ Len(server.response) = 0
  BY DEF poll_command, Handshake, PollInStep, Responding
<1>4. /\ server'.pc = "post" /\ server'.messages = Tail(server.messages) /\ server'.credits = 0
      /\ Len(server'.response) = 1 /\ server'.response[1].credits = server.credits + 1
      /\ server'.response[1].ref = Head(server.messages).ref
  <2> DEFINE s(r) == [server EXCEPT !.pc = "post", !.messages = Tail(@), !.credits = 0,
               !.response = <<r>>]
  <2>1. PICK r : server' = AfterDma(s(r)) /\ r.credits = server.credits + 1 /\
                   r.ref = Head(server.messages).ref
    <3>1. \A c \in {0, 1} : (IF c > MAX_CREDITS THEN MAX_CREDITS ELSE c) = c /\ c - c = 0
      BY DEF MAX_CREDITS
    <3> DEFINE granted == IF server.credits > MAX_CREDITS THEN MAX_CREDITS ELSE server.credits
    <3>2. granted = server.credits /\ server.credits - granted = 0
      BY <1>1, <3>1
    <3> DEFINE cmd == Head(server.messages)
               buffer == IF DmaFails THEN "none" ELSE IF DmaPattern THEN "pattern" ELSE cmd.data
               r0 == [ref |-> cmd.ref, op |-> cmd.op, status |-> MscpExecuted(cmd, buffer).status,
                 credits |-> granted + 1]
    <3>3. \E r : /\ server' = AfterDma([server EXCEPT !.pc = "post", !.messages = Tail(@),
                      !.credits = @ - granted, !.response = <<r>>])
                 /\ r.credits = granted + 1 /\ r.ref = Head(server.messages).ref
      <4>1. server' = AfterDma([server EXCEPT !.pc = "post", !.messages = Tail(@),
              !.credits = @ - granted, !.response = <<r0>>])
        BY DEF poll_command, ServerStep
      <4> HIDE DEF cmd, buffer, granted
      <4>2. r0.credits = granted + 1 /\ r0.ref = Head(server.messages).ref
        BY DEF cmd
      <4> QED
        BY <4>1, <4>2
    <3> HIDE DEF granted
    <3>4. PICK r : /\ server' = AfterDma([server EXCEPT !.pc = "post", !.messages = Tail(@),
                        !.credits = @ - granted, !.response = <<r>>])
                   /\ r.credits = granted + 1 /\ r.ref = Head(server.messages).ref
      BY <3>3
    <3>5. [server EXCEPT !.pc = "post", !.messages = Tail(@), !.credits = @ - granted,
            !.response = <<r>>] = s(r)
      BY <3>2 DEF MscpTypeOK, ServerState
    <3> QED
      BY <3>2, <3>4, <3>5
  <2>2. s(r).pc = "post" /\ s(r).messages = Tail(server.messages) /\ s(r).credits = 0 /\
          s(r).response = <<r>>
    BY DEF MscpTypeOK, ServerState
  <2>3. \/ server' = s(r) \/ server' = [s(r) EXCEPT !.fail = FALSE]
    BY <2>1 DEF AfterDma
  <2>4. server'.pc = "post" /\ server'.messages = Tail(server.messages) /\ server'.credits = 0 /\
          server'.response = <<r>>
    BY <2>2, <2>3 DEF MscpTypeOK, ServerState
  <2> QED
    BY <2>1, <2>4
<1>5. server'.response \in Seq(Response)
  <2>1. MscpTypeOK'
    BY PollTypes DEF Poll
  <2> QED
    BY <2>1 DEF MscpTypeOK, ServerState
<1>6. Len(server'.messages) = Len(server.messages) - 1 /\ Len(server.messages) >= 1
  BY <1>1, <1>3, <1>4, HeadTailProperties, EmptySeq
<1>7. Outstanding(given, unread)'
  <2>1. PICK m \in Nat : m = Len(server.messages)
    BY <1>1
  <2>2. host.out = given + m + 0 + unread
    BY <1>2, <1>3, <2>1 DEF Outstanding
  <2>3. host.out = given + (m - 1) + 1 + unread
    BY <2>2
  <2>4. host.out = given + Len(server'.messages) + Len(server'.response) + unread
    BY <1>4, <1>6, <2>1, <2>3
  <2> QED
    BY <1>2, <1>3, <1>4, <2>4 DEF Outstanding
<1>8. CreditsOf(host', server', rring')
  <2>1. \A c : ~InFlight(c, server.response, rring) <=>
          \A i \in DOMAIN rring : rring[i].own \/ c # rring[i].msg[1].credits
    BY <1>3 DEF InFlight
  <2>2. \A c : InFlight(c, server'.response, rring) <=>
          c = server.credits + 1 \/ InFlight(c, server.response, rring)
    BY <1>3, <1>4 DEF InFlight
  <2>3. CASE server.credits = 1
    BY <1>1, <1>3, <1>4, <2>2, <2>3 DEF CreditsOf
  <2>4. CASE server.credits = 0 /\ host.credits = 1
    <3>1. InFlight(2, server.response, rring)
      BY <1>1, <2>4 DEF CreditsOf
    <3>2. PICK i \in DOMAIN rring : ~rring[i].own
      BY <1>3, <3>1 DEF InFlight
    <3>3. unread > 0
      <4>1. Ahead(i, host.rptr, ResponseRing) < unread
        BY <1>2, <3>2 DEF Outstanding
      <4>2. Ahead(i, host.rptr, ResponseRing) \in Nat
        <5>1. host.rptr \in 0 .. ResponseRing - 1 /\ i \in 0 .. ResponseRing - 1
          BY <1>1 DEF MscpTypeOK, HostState
        <5>2. Ahead(i, host.rptr, ResponseRing) =
                IF i >= host.rptr THEN i - host.rptr ELSE i - host.rptr + ResponseRing
          BY <5>1, RingLengths, WrapBack
        <5> QED
          BY <5>1, <5>2, RingLengths
      <4> QED
        BY <4>1, <4>2
    <3>4. PICK m \in Nat : m = Len(server.messages)
      BY <1>1
    <3>5. host.out = given + m + 0 + unread /\ m >= 1
      BY <1>2, <1>3, <1>6, <3>4 DEF Outstanding
    <3>6. host.out > 1
      BY <3>3, <3>5
    <3>7. host.out <= 1
      BY <1>1, <2>4 DEF CreditsOf
    <3> QED
      BY <1>1, <3>6, <3>7
  <2>5. CASE server.credits = 0 /\ host.credits = 2
    BY <1>1, <1>3, <1>4, <2>2, <2>5 DEF CreditsOf
  <2> QED
    BY <1>1, <2>3, <2>4, <2>5
<1>9. CreditsInStep'
  BY <1>4, <1>5, <1>8, CreditsUnfoldedNext
<1> QED
  BY <1>3, <1>4, <1>7, <1>9

(* A response goes into the ring; there is a descriptor, as two commands at   *)
(* most are under way.                                                       *)
LEMMA PostReturnRings ==
  ASSUME MscpTypeOK, Handshake, RingsInStep, HostRuns, post_return,
         NEW given \in 0 .. 2, NEW unread \in 0 .. 2, Outstanding(given, unread)
  PROVE  /\ given \in 0 .. 2 /\ unread + 1 \in 0 .. 2
         /\ Outstanding(given, unread + 1)' /\ CreditsInStep'
<1>1. /\ ~uda.line_INIT /\ ~DmaFails
      /\ server.messages \in Seq(Message) /\ Len(server.messages) \in Nat /\
           server.response \in Seq(Response)
      /\ host.out \in {0, 1, 2} /\ host.credits \in {1, 2} /\ server.credits \in {0, 1}
      /\ CreditsOf(host, server, rring) /\ DOMAIN rring = 0 .. ResponseRing - 1
      /\ host.rptr \in 0 .. ResponseRing - 1 /\ uda.rptr \in 0 .. ResponseRing - 1
  BY RunningFacts
<1>2. Outstanding(given, unread)
  OBVIOUS
<1>3. /\ server.pc = "post_return" /\ Len(server.response) = 1
      /\ cring' = cring /\ host' = host
      /\ rring' = [rring EXCEPT ![uda.rptr] = [own |-> FALSE, flag |-> TRUE, msg |-> server.response]]
  BY <1>1 DEF post_return, Handshake, PollInStep, Responding
<1>4. /\ server'.pc = "command" /\ server'.messages = server.messages /\ server'.response = <<>>
      /\ server'.credits = server.credits
  <2>1. server \in ServerState
    BY DEF MscpTypeOK
  <2> QED
    BY <2>1 DEF post_return, ServerStep, AfterDma, ServerState
<1>5. uda'.rptr = (uda.rptr + 1) % ResponseRing /\ uda'.cptr = uda.cptr
  BY DEF post_return, Interrupt, MscpTypeOK, UdaState
<1>6. unread \in 0 .. 1
  <2>1. PICK m \in Nat : m = Len(server.messages)
    BY <1>1
  <2>2. host.out = given + m + 1 + unread
    BY <1>2, <1>3, <2>1 DEF Outstanding
  <2> QED
    BY <1>1, <2>2
<1>7. /\ Ahead(uda.rptr, host.rptr, ResponseRing) = unread
      /\ \A i \in 0 .. ResponseRing - 1 :
           Ahead(i, host.rptr, ResponseRing) < unread + 1 <=>
             Ahead(i, host.rptr, ResponseRing) < unread \/ i = uda.rptr
      /\ uda'.rptr = (host.rptr + (unread + 1)) % ResponseRing
  <2>1. unread \in 0 .. ResponseRing - 1
    BY <1>6, RingLengths
  <2>2. uda.rptr = (host.rptr + unread) % ResponseRing
    BY <1>2 DEF Outstanding
  <2>3. host.rptr \in 0 .. ResponseRing - 1
    BY <1>1
  <2> DEFINE q == (host.rptr + unread) % ResponseRing
  <2>4. /\ Ahead(q, host.rptr, ResponseRing) = unread
        /\ \A i \in 0 .. ResponseRing - 1 :
             Ahead(i, host.rptr, ResponseRing) < unread + 1 <=>
               Ahead(i, host.rptr, ResponseRing) < unread \/ i = q
        /\ (q + 1) % ResponseRing = (host.rptr + (unread + 1)) % ResponseRing
    BY <2>1, <2>3, RingLengths, WindowGrows
  <2> HIDE DEF q
  <2>5. q = uda.rptr
    BY <2>2 DEF q
  <2> QED
    BY <1>5, <2>4, <2>5
<1>8. /\ DOMAIN rring' = 0 .. ResponseRing - 1
      /\ ~rring'[uda.rptr].own /\ rring'[uda.rptr].msg = server.response
      /\ \A i \in 0 .. ResponseRing - 1 : i # uda.rptr => rring'[i] = rring[i]
  BY <1>1, <1>3
<1>9. Outstanding(given, unread + 1)'
  <2>1. \A i \in DOMAIN rring' : ~rring'[i].own <=> Ahead(i, host.rptr, ResponseRing) < unread + 1
    BY <1>1, <1>2, <1>7, <1>8 DEF Outstanding
  <2>2. \A i \in DOMAIN rring' : ~rring'[i].own => Len(rring'[i].msg) = 1
    BY <1>1, <1>2, <1>3, <1>8 DEF Outstanding
  <2>3. host.out = given + Len(server'.messages) + Len(server'.response) + (unread + 1)
    <3>1. PICK m \in Nat : m = Len(server.messages)
      BY <1>1
    <3>2. host.out = given + m + 1 + unread
      BY <1>2, <1>3, <3>1 DEF Outstanding
    <3>3. host.out = given + m + 0 + (unread + 1)
      BY <3>2
    <3>4. Len(server'.messages) = m /\ Len(server'.response) = 0
      BY <1>4, <3>1
    <3> QED
      BY <3>3, <3>4
  <2> QED
    BY <1>2, <1>3, <1>4, <1>5, <1>7, <2>1, <2>2, <2>3 DEF Outstanding
<1>10. CreditsInStep'
  <2>1. rring[uda.rptr].own
    BY <1>1, <1>2, <1>7 DEF Outstanding
  <2>2. \A c : InFlight(c, server'.response, rring') <=> InFlight(c, server.response, rring)
    <3>1. Len(server'.response) = 0
      BY <1>4
    <3>2. TAKE c
    <3>3. InFlight(c, server'.response, rring') <=>
            \E i \in 0 .. ResponseRing - 1 : ~rring'[i].own /\ c = rring'[i].msg[1].credits
      BY <1>8, <3>1 DEF InFlight
    <3>4. InFlight(c, server.response, rring) <=>
            \/ c = server.response[1].credits
            \/ \E i \in 0 .. ResponseRing - 1 : ~rring[i].own /\ c = rring[i].msg[1].credits
      BY <1>1, <1>3 DEF InFlight
    <3> QED
      BY <1>1, <1>8, <2>1, <3>3, <3>4
  <2>3. CreditsOf(host', server', rring')
    BY <1>1, <1>3, <1>4, <2>2 DEF CreditsOf
  <2>4. server'.response \in Seq(Response) /\ Len(server'.response) \in {0, 1}
    BY <1>4
  <2> QED
    BY <2>3, <2>4, CreditsUnfoldedNext
<1>11. unread + 1 \in 0 .. 2
  BY <1>6
<1> QED
  BY <1>9, <1>10, <1>11

LEMMA PollRings ==
  MscpTypeOK /\ Handshake /\ RingsInStep /\ Poll => RingsInStep'
<1> SUFFICES ASSUME MscpTypeOK, Handshake, RingsInStep, Poll PROVE RingsInStep'
  OBVIOUS
<1>0. host' = host
  BY DEF Poll, poll_wake, poll_restart, GetNextCommand, command_previous, command_return,
     poll_command,
         PostResponse, Crash, post_previous, post_return, poll_done, poll_end
<1> SUFFICES ASSUME HostRuns PROVE RingsInStep'
  BY <1>0 DEF RingsInStep, HostRuns
<1>1. /\ ~DmaFails /\ ~DmaPattern /\ uda.pc \in {"wait", "switch", "Step4"} /\ server \in ServerState
  BY RunningFacts DEF MscpTypeOK
<1>2. ASSUME uda' = uda, cring' = cring, rring' = rring,
             server'.messages = server.messages, server'.response = server.response,
             server'.credits = server.credits,
             server'.pc \in {"previous", "return"} =>
               server.pc \in {"previous", "return"} \/ cring[uda.cptr].own
      PROVE  RingsInStep'
  BY <1>0, <1>2, RingsFrame DEF HostRuns
<1>22. PICK given \in 0 .. 2, unread \in 0 .. 2 : Outstanding(given, unread)
  BY RunningFacts
<1>23. ASSUME NEW g \in 0 .. 2, NEW u \in 0 .. 2, Outstanding(g, u)', CreditsInStep'
       PROVE  RingsInStep'
  BY <1>23 DEF RingsInStep, INIT_CREDITS
<1>3. CASE poll_wake
  BY <1>1, <1>2, <1>3 DEF poll_wake, ServerStep, ServerState
<1>4. CASE poll_restart
  BY <1>1, <1>4 DEF poll_restart, Handshake, ResetInStep
<1>5. CASE GetNextCommand
  BY <1>1, <1>2, <1>5 DEF GetNextCommand, ServerStep, ServerState
<1>6. CASE command_previous
  BY <1>1, <1>2, <1>6 DEF command_previous, ServerStep, ServerState
<1>7. CASE command_return
  <2>1. /\ given - 1 \in 0 .. 2 /\ unread \in 0 .. 2
        /\ Outstanding(given - 1, unread)' /\ CreditsInStep'
    BY <1>7, <1>22, CommandReturnRings
  <2> QED
    BY <1>23, <2>1
<1>8. CASE poll_command
  <2>1. /\ given \in 0 .. 2 /\ unread \in 0 .. 2
        /\ Outstanding(given, unread)' /\ CreditsInStep'
    BY <1>8, <1>22, PollCommandRings
  <2> QED
    BY <1>23, <2>1
<1>9. CASE PostResponse
  <2>1. CASE Crash
    BY <1>2, <1>9, <2>1 DEF Crash, PostResponse
  <2>2. CASE ~Crash
    BY <1>1, <1>2, <1>9, <2>2 DEF PostResponse, ServerStep, ServerState
  <2> QED
    BY <2>1, <2>2
<1>10. CASE post_previous
  <2>1. CASE Crash
    BY <1>2, <1>10, <2>1 DEF Crash, post_previous
  <2>2. CASE ~Crash
    <3>1. /\ server'.pc = "post_return" /\ server'.messages = server.messages
          /\ server'.response = server.response /\ server'.credits = server.credits
          /\ uda' = uda /\ cring' = cring /\ rring' = rring
      BY <1>1, <1>10, <2>2 DEF post_previous, ServerStep, AfterDma, ServerState
    <3> QED
      BY <1>2, <3>1
  <2> QED
    BY <2>1, <2>2
<1>11. CASE post_return
  <2>1. /\ given \in 0 .. 2 /\ unread + 1 \in 0 .. 2
        /\ Outstanding(given, unread + 1)' /\ CreditsInStep'
    BY <1>11, <1>22, PostReturnRings
  <2> QED
    BY <1>23, <2>1
<1>12. CASE poll_done
  BY <1>1, <1>2, <1>12 DEF poll_done, ServerStep, ServerState
<1>13. CASE poll_end
  BY <1>1, <1>2, <1>13 DEF poll_end, ServerStep, ServerState
<1> QED
  BY <1>3, <1>4, <1>5, <1>6, <1>7, <1>8, <1>9, <1>10, <1>11, <1>12, <1>13 DEF Poll

(* The host puts a command into the ring within its credits.                 *)
LEMMA GiveCommandRings ==
  ASSUME MscpTypeOK, Handshake, RingsInStep, NEW cmd \in MscpCommands, GiveCommand(cmd),
         NEW given \in 0 .. 2, NEW unread \in 0 .. 2, Outstanding(given, unread)
  PROVE  /\ given + 1 \in 0 .. 2 /\ Outstanding(given + 1, unread)' /\ CreditsInStep'
<1>0. HostRuns
  BY DEF GiveCommand, HostRuns
<1>1. /\ server.messages \in Seq(Message) /\ Len(server.messages) \in Nat
      /\ server.response \in Seq(Response) /\ Len(server.response) \in {0, 1}
      /\ host.out \in {0, 1, 2} /\ host.credits \in {1, 2}
      /\ CreditsOf(host, server, rring) /\ DOMAIN cring = 0 .. CommandRing - 1
      /\ uda.cptr \in 0 .. CommandRing - 1 /\ host.cptr \in 0 .. CommandRing - 1
  BY <1>0, RunningFacts
<1>2. Outstanding(given, unread)
  OBVIOUS
<1>3. /\ host.out < host.credits /\ uda' = uda /\ server' = server /\ rring' = rring
      /\ host'.cptr = (host.cptr + 1) % CommandRing /\ host'.rptr = host.rptr
      /\ host'.out = host.out + 1 /\ host'.credits = host.credits
  BY DEF GiveCommand, MscpTypeOK, HostState
<1>4. /\ DOMAIN cring' = 0 .. CommandRing - 1
      /\ cring'[host.cptr].own /\ Len(cring'[host.cptr].msg) = 1
      /\ \A i \in 0 .. CommandRing - 1 : i # host.cptr => cring'[i] = cring[i]
  <2> DEFINE m == [ref |-> host.next, op |-> cmd.op, unit |-> cmd.unit, lbn |-> cmd.lbn,
                   count |-> cmd.count, data |-> cmd.data]
  <2>1. cring' = [cring EXCEPT ![host.cptr] = [own |-> TRUE, flag |-> FALSE, msg |-> <<m>>]]
    BY DEF GiveCommand
  <2> HIDE DEF m
  <2> QED
    BY <1>1, <2>1
<1>5. given \in 0 .. 1
  <2>1. PICK m \in Nat, r \in Nat : m = Len(server.messages) /\ r = Len(server.response)
    BY <1>1
  <2>2. host.out = given + m + r + unread
    BY <1>2, <2>1 DEF Outstanding
  <2> QED
    BY <1>1, <1>3, <2>2
<1>6. /\ \A i \in 0 .. CommandRing - 1 :
           Ahead(i, uda.cptr, CommandRing) < given + 1 <=>
             Ahead(i, uda.cptr, CommandRing) < given \/ i = host.cptr
      /\ host'.cptr = (uda.cptr + (given + 1)) % CommandRing
  <2>1. given \in 0 .. CommandRing - 1
    BY <1>5, RingLengths
  <2>2. uda.cptr \in 0 .. CommandRing - 1
    BY <1>1
  <2> DEFINE q == (uda.cptr + given) % CommandRing
  <2>3. /\ \A i \in 0 .. CommandRing - 1 :
             Ahead(i, uda.cptr, CommandRing) < given + 1 <=>
               Ahead(i, uda.cptr, CommandRing) < given \/ i = q
        /\ (q + 1) % CommandRing = (uda.cptr + (given + 1)) % CommandRing
    BY <2>1, <2>2, RingLengths, WindowGrows
  <2> HIDE DEF q
  <2>4. q = host.cptr
    BY <1>2 DEF q, Outstanding
  <2> QED
    BY <1>3, <2>3, <2>4
<1>7. Outstanding(given + 1, unread)'
  <2>1. \A i \in DOMAIN cring' : cring'[i].own <=> Ahead(i, uda.cptr, CommandRing) < given + 1
    BY <1>1, <1>2, <1>4, <1>6 DEF Outstanding
  <2>2. \A i \in DOMAIN cring' : cring'[i].own => Len(cring'[i].msg) = 1
    BY <1>1, <1>2, <1>4 DEF Outstanding
  <2>3. host'.out = (given + 1) + Len(server.messages) + Len(server.response) + unread
    <3>1. PICK m \in Nat, r \in Nat : m = Len(server.messages) /\ r = Len(server.response)
      BY <1>1
    <3>2. host.out = given + m + r + unread
      BY <1>2, <3>1 DEF Outstanding
    <3>3. host'.out = (given + 1) + m + r + unread
      BY <1>3, <3>2
    <3> QED
      BY <3>1, <3>3
  <2>4. given + 1 > 0
    BY <1>5
  <2> QED
    BY <1>2, <1>3, <1>6, <2>1, <2>2, <2>3, <2>4 DEF Outstanding
<1>8. CreditsInStep'
  <2>1. CreditsOf(host', server', rring')
    BY <1>1, <1>3 DEF CreditsOf
  <2> QED
    BY <1>1, <1>3, <2>1, CreditsUnfoldedNext
<1>9. given + 1 \in 0 .. 2
  BY <1>5
<1> QED
  BY <1>7, <1>8, <1>9

LEMMA TakeWhileRunning ==
  MscpTypeOK /\ Handshake /\ TakeResponse => HostRuns
BY DEF TakeResponse, Handshake, HostInStep, HostStart, MscpTypeOK, HostState

(* The host takes a response and its credits.                                *)
LEMMA TakeResponseRings ==
  ASSUME MscpTypeOK, Handshake, RingsInStep, TakeResponse,
         NEW given \in 0 .. 2, NEW unread \in 0 .. 2, Outstanding(given, unread)
  PROVE  /\ CreditsReturned
         /\ unread - 1 \in 0 .. 2 /\ Outstanding(given, unread - 1)' /\ CreditsInStep'
<1>0. HostRuns
  BY TakeWhileRunning
<1>1. /\ server.messages \in Seq(Message) /\ Len(server.messages) \in Nat
      /\ server.response \in Seq(Response) /\ Len(server.response) \in {0, 1}
      /\ host.out \in {0, 1, 2} /\ host.credits \in {1, 2} /\ server.credits \in {0, 1}
      /\ CreditsOf(host, server, rring) /\ DOMAIN rring = 0 .. ResponseRing - 1
      /\ host.rptr \in 0 .. ResponseRing - 1
  BY <1>0, RunningFacts
<1>2. Outstanding(given, unread)
  OBVIOUS
<1> DEFINE c0 == rring[host.rptr].msg[1].credits
<1>3. /\ ~rring[host.rptr].own /\ uda' = uda /\ server' = server /\ cring' = cring
      /\ rring' = [rring EXCEPT ![host.rptr] = [own |-> TRUE, flag |-> ResponseFlag, msg |-> <<>>]]
      /\ host'.cptr = host.cptr /\ host'.rptr = (host.rptr + 1) % ResponseRing
      /\ host'.out = host.out - 1 /\ host'.credits = host.credits - 1 + c0
  BY DEF TakeResponse, MscpTypeOK, HostState
<1>4. InFlight(c0, server.response, rring)
  BY <1>1, <1>3 DEF InFlight
<1> HIDE DEF c0
<1>5. unread \in 1 .. 2
  <2>1. Ahead(host.rptr, host.rptr, ResponseRing) = 0
    BY <1>1, RingLengths, AheadOfItself
  <2>2. Ahead(host.rptr, host.rptr, ResponseRing) < unread
    BY <1>1, <1>2, <1>3 DEF Outstanding
  <2> QED
    BY <2>1, <2>2
<1>6. PICK m \in Nat, r \in Nat : /\ m = Len(server.messages) /\ r = Len(server.response)
                                  /\ host.out = given + m + r + unread
  BY <1>1, <1>2 DEF Outstanding
<1>7. host.out >= 1
  <2>1. given + m + r + unread >= 1
    BY <1>5
  <2> QED
    BY <1>6, <2>1
<1>8. \/ server.credits = 0 /\ host.credits = 1 /\ c0 = 2
      \/ server.credits = 0 /\ host.credits = 2 /\ c0 = 1
  BY <1>1, <1>4 DEF CreditsOf
<1>9. CreditsReturned
  <2>1. host.out > 0 /\ host.credits - 1 + c0 \in 1 .. 2
    BY <1>1, <1>7, <1>8
  <2> QED
    BY <2>1 DEF CreditsReturned, INIT_CREDITS, c0
<1>10. host'.credits = 2
  BY <1>3, <1>8
<1>11. /\ \A i \in 0 .. ResponseRing - 1 :
            Ahead(i, host'.rptr, ResponseRing) < unread - 1 <=>
              i # host.rptr /\ Ahead(i, host.rptr, ResponseRing) < unread
       /\ (host'.rptr + (unread - 1)) % ResponseRing = (host.rptr + unread) % ResponseRing
  <2>1. unread \in 1 .. ResponseRing
    BY <1>5, RingLengths
  <2>2. host.rptr \in 0 .. ResponseRing - 1 /\ host'.rptr = (host.rptr + 1) % ResponseRing
    BY <1>1, <1>3
  <2> QED
    BY <2>1, <2>2, RingLengths, WindowShrinks
<1>12. /\ DOMAIN rring' = 0 .. ResponseRing - 1 /\ rring'[host.rptr].own
       /\ \A i \in 0 .. ResponseRing - 1 : i # host.rptr => rring'[i] = rring[i]
  BY <1>1, <1>3
<1>13. Outstanding(given, unread - 1)'
  <2>1. \A i \in DOMAIN rring' : ~rring'[i].own <=> Ahead(i, host'.rptr, ResponseRing) < unread - 1
    BY <1>1, <1>2, <1>11, <1>12 DEF Outstanding
  <2>2. \A i \in DOMAIN rring' : ~rring'[i].own => Len(rring'[i].msg) = 1
    BY <1>1, <1>2, <1>12 DEF Outstanding
  <2>3. host'.out = given + Len(server.messages) + Len(server.response) + (unread - 1)
    <3>1. host'.out = given + m + r + (unread - 1)
      BY <1>1, <1>3, <1>6
    <3> QED
      BY <1>6, <3>1
  <2>4. uda.rptr = (host'.rptr + (unread - 1)) % ResponseRing
    BY <1>2, <1>11 DEF Outstanding
  <2> QED
    BY <1>2, <1>3, <2>1, <2>2, <2>3, <2>4 DEF Outstanding
<1>14. \A c : InFlight(c, server.response, rring') => InFlight(c, server.response, rring)
  BY <1>1, <1>12 DEF InFlight
<1>15. CreditsOf(host', server', rring')
  <2>1. CASE host.credits = 2
    <3>1. \A c : InFlight(c, server.response, rring) => c = 1
      BY <1>1, <2>1 DEF CreditsOf
    <3>2. server'.credits = 0 /\ host'.out <= 2
      BY <1>1, <1>3, <1>8, <2>1
    <3>3. \A c : InFlight(c, server'.response, rring') => c = 1
      BY <1>3, <1>14, <3>1
    <3> HIDE <2>1
    <3> QED
      BY <1>10, <3>2, <3>3 DEF CreditsOf
  <2>2. CASE host.credits = 1
    <3>1. host.out = 1 /\ r = 0 /\ unread = 1
      <4>1. host.out <= 1
        BY <1>1, <2>2 DEF CreditsOf
      <4>2. given + m + r + unread <= 1
        BY <1>6, <4>1
      <4>3. r = 0 /\ unread = 1 /\ given + m + r + unread = 1
        BY <1>5, <4>2
      <4> QED
        BY <1>6, <4>3
    <3>2. \A i \in 0 .. ResponseRing - 1 : rring'[i].own
      <4>1. \A i \in 0 .. ResponseRing - 1 : ~(Ahead(i, host'.rptr, ResponseRing) < 0)
        <5>1. host'.rptr \in 0 .. ResponseRing - 1
          BY <1>1, <1>3, RingLengths, NextPointer
        <5>2. \A i \in 0 .. ResponseRing - 1 : Ahead(i, host'.rptr, ResponseRing) \in Nat
          BY <5>1, RingLengths DEF Ahead
        <5> QED
          BY <5>2
      <4> QED
        BY <1>12, <1>13, <3>1, <4>1 DEF Outstanding
    <3>3. \A c : ~InFlight(c, server.response, rring')
      BY <1>6, <1>12, <3>1, <3>2 DEF InFlight
    <3>4. \A c : ~InFlight(c, server'.response, rring')
      BY <1>3, <3>3
    <3>5. server'.credits = 0 /\ host'.out <= 2
      BY <1>1, <1>3, <1>8, <2>2, <3>1
    <3> QED
      BY <1>10, <3>4, <3>5 DEF CreditsOf
  <2> QED
    BY <1>1, <2>1, <2>2
<1>16. CreditsInStep'
  BY <1>1, <1>3, <1>15, CreditsUnfoldedNext
<1>17. unread - 1 \in 0 .. 2
  BY <1>5
<1> QED
  BY <1>9, <1>13, <1>16, <1>17

(* The host has waited for step 4: Poll() sleeps, and the rings begin empty. *)
LEMMA GoRings ==
  MscpTypeOK /\ Handshake /\ SA_write_go =>
    Outstanding(0, 0)' /\ Len(server'.messages) = 0 /\ Len(server'.response) = 0 /\ RingsInStep'
<1> SUFFICES ASSUME MscpTypeOK, Handshake, SA_write_go
             PROVE  Outstanding(0, 0)' /\ Len(server'.messages) = 0 /\ Len(server'.response) = 0 /\
                      RingsInStep'
  OBVIOUS
<1>1. /\ uda \in UdaState /\ host.pc = "await4" /\ ~HostRuns /\ server' = server /\
           server \in ServerState
  BY DEF SA_write_go, HostRuns, MscpTypeOK
<1>2. uda.initStep = "Step4"
  BY <1>1, Numbers DEF Handshake, HostInStep, UdaState, InitSteps
<1>3. /\ uda.cptr = 0 /\ uda.rptr = 0 /\ server.credits = 1
      /\ server.pc = "wait" /\ server.messages = <<>> /\ Len(server.response) = 0
  BY <1>2 DEF Handshake, ResetInStep, PollInStep, ServerIdle, Fresh, InitSteps, INIT_CREDITS,
     Responding
<1>4. /\ host' = [HostStart EXCEPT !.pc = "run"]
      /\ uda'.cptr = uda.cptr /\ uda'.rptr = uda.rptr
      /\ cring' = [i \in 0 .. CommandRing - 1 |-> NoDescriptor]
      /\ rring' = [i \in 0 .. ResponseRing - 1 |-> [own |-> TRUE, flag |-> ResponseFlag, msg |-> <<>>]]
  BY <1>1, <1>2 DEF SA_write_go, Handshake, HostInStep, HostStart, StateTransition, UdaState
<1>5. /\ host'.cptr = 0 /\ host'.rptr = 0 /\ host'.out = 0 /\ host'.credits = 1
  BY <1>4 DEF HostStart
<1>6. /\ \A i \in 0 .. CommandRing - 1 : ~cring'[i].own
      /\ \A i \in 0 .. ResponseRing - 1 : rring'[i].own
      /\ DOMAIN cring' = 0 .. CommandRing - 1 /\ DOMAIN rring' = 0 .. ResponseRing - 1
  BY <1>4 DEF NoDescriptor
<1>7. Outstanding(0, 0)'
  <2>1. \A n \in {CommandRing, ResponseRing} : (0 + 0) % n = 0 /\
          \A i \in 0 .. n - 1 : ~(Ahead(i, 0, n) < 0)
    BY RingLengths DEF Ahead
  <2>2. host'.out = 0 + Len(server'.messages) + Len(server'.response) + 0
    BY <1>1, <1>3, <1>5
  <2> QED
    BY <1>1, <1>3, <1>4, <1>5, <1>6, <2>1, <2>2 DEF Outstanding
<1>8. CreditsInStep'
  <2>1. server'.response \in Seq(Response) /\ Len(server'.response) = 0
    BY <1>1, <1>3 DEF ServerState
  <2>2. \A c : ~InFlight(c, server'.response, rring')
    BY <1>6, <2>1 DEF InFlight
  <2>3. CreditsOf(host', server', rring')
    BY <1>1, <1>3, <1>5, <2>2 DEF CreditsOf
  <2> QED
    BY <2>1, <2>3, CreditsUnfoldedNext
<1> QED
  BY <1>1, <1>3, <1>7, <1>8 DEF RingsInStep, INIT_CREDITS

LEMMA TakeResponseKeeps ==
  MscpTypeOK /\ Handshake /\ RingsInStep /\ TakeResponse => CreditsReturned /\ RingsInStep'
<1> SUFFICES ASSUME MscpTypeOK, Handshake, RingsInStep, TakeResponse
       PROVE CreditsReturned /\ RingsInStep'
  OBVIOUS
<1>1. PICK given \in 0 .. 2, unread \in 0 .. 2 : Outstanding(given, unread)
  BY RunningFacts, TakeWhileRunning
<1>2. /\ CreditsReturned
      /\ unread - 1 \in 0 .. 2 /\ Outstanding(given, unread - 1)' /\ CreditsInStep'
  BY <1>1, TakeResponseRings
<1> QED
  BY <1>2 DEF RingsInStep, INIT_CREDITS

LEMMA StepRings ==
  MscpTypeOK /\ Handshake /\ RingsInStep /\ MscpNext /\ ~mscp_past'.overrun => RingsInStep'
<1> SUFFICES ASSUME MscpTypeOK, Handshake, RingsInStep, MscpNext, ~mscp_past'.overrun PROVE RingsInStep'
  OBVIOUS
<1>0. uda \in UdaState /\ server \in ServerState /\ host \in HostState
  BY DEF MscpTypeOK
<1>1. CASE UdaWorker
  <2>1. host' = host
    BY <1>1 DEF UdaWorker, worker_take, worker_switch, ServerReset, ResetWait, ResetDone,
       worker_step4, worker_step
  <2> SUFFICES ASSUME HostRuns PROVE RingsInStep'
    BY <2>1 DEF RingsInStep, HostRuns
  <2>2. uda.pc \in {"wait", "switch", "Step4"} /\ uda.initStep = "Complete" /\ ~uda.line_INIT
    BY RunningFacts
  <2>6. ~worker_step4
    BY <2>2 DEF worker_step4, MscpTypeOK
  <2>3. \A n \in 1 .. 3 : ~worker_step(n)
    BY <2>2, FourSteps DEF worker_step
  <2>4. worker_take \/ worker_switch
    BY <1>1, <2>2, <2>3, <2>6 DEF UdaWorker, ServerReset, ResetWait, ResetDone
  <2>5. /\ uda'.cptr = uda.cptr /\ uda'.rptr = uda.rptr
        /\ server' = server /\ cring' = cring /\ rring' = rring
    BY <1>0, <2>4 DEF worker_take, worker_switch, UdaState
  <2> QED
    BY <2>1, <2>5, RingsFrame
<1>2. CASE Poll
  BY <1>2, PollRings
<1>3. CASE HostBegins \/ IP_write
  <2>1. host'.pc = "await1"
    BY <1>3 DEF HostBegins, IP_write, HostStart
  <2> QED
    BY <2>1 DEF RingsInStep, HostRuns
<1>4. ASSUME NEW n \in 1 .. 3, SA_write(n) PROVE RingsInStep'
  <2>1. host'.pc = Await[n + 1]
    BY <1>0, <1>4 DEF SA_write, HostState
  <2>2. host'.pc \in {"await2", "await3", "await4"}
    BY <2>1 DEF Await
  <2> QED
    BY <2>2 DEF RingsInStep, HostRuns
<1>5. CASE SA_write_go
  BY <1>5, GoRings
<1>6. ASSUME NEW cmd \in MscpCommands, GiveCommand(cmd) PROVE RingsInStep'
  <2>1. PICK given \in 0 .. 2, unread \in 0 .. 2 : Outstanding(given, unread)
    BY <1>6, RunningFacts DEF GiveCommand, HostRuns
  <2>2. given + 1 \in 0 .. 2 /\ Outstanding(given + 1, unread)' /\ CreditsInStep'
    BY <1>6, <2>1, GiveCommandRings
  <2> QED
    BY <2>2 DEF RingsInStep, INIT_CREDITS
<1>7. CASE TakeResponse
  BY <1>7, TakeResponseKeeps
<1>8. CASE IP_read
  <2>1. /\ uda' = uda /\ cring' = cring /\ rring' = rring /\ host' = [host EXCEPT !.pc = "run"]
        /\ server'.messages = server.messages /\ server'.response = server.response
        /\ server'.credits = server.credits /\ server'.pc = server.pc /\ HostRuns
    BY <1>0, <1>8 DEF IP_read, ServerState, HostRuns
  <2> QED
    BY <1>0, <2>1, RingsFrame DEF HostState
<1>9. CASE ServeInterrupt \/ ServeEnd
  <2>1. /\ uda'.cptr = uda.cptr /\ uda'.rptr = uda.rptr /\ cring' = cring /\ rring' = rring
        /\ server' = server /\ host'.cptr = host.cptr /\ host'.rptr = host.rptr
        /\ host'.out = host.out /\ host'.credits = host.credits /\ host'.pc = host.pc
    BY <1>0, <1>9 DEF ServeInterrupt, ServeEnd, HostState, UdaState
  <2> QED
    BY <2>1, RingsFrame DEF HostRuns
<1>10. CASE InitOn
  BY <1>10 DEF InitOn, RingsInStep, HostRuns, HostStart
<1>11. CASE InitOff
  <2>1. ~HostRuns /\ host' = host
    BY <1>11 DEF InitOff, Handshake, HostInStep, HostRuns
  <2> QED
    BY <2>1 DEF RingsInStep, HostRuns
<1> QED
  BY <1>1, <1>2, <1>3, <1>4, <1>5, <1>6, <1>7, <1>8, <1>9, <1>10, <1>11 DEF MscpNext

-----------------------------------------------------------------------------
(* With one response in hand at most one more is unread, and the ring has    *)
(* room for two.                                                             *)
RingsKept == ~mscp_past.overrun => RingsInStep

LEMMA RoomFollows ==
  MscpTypeOK /\ Handshake /\ RingsKept => RoomForResponse
<1> SUFFICES ASSUME MscpTypeOK, Handshake, RingsInStep, server.pc = "post", HostRuns
             PROVE  rring[uda.rptr].own
  BY DEF RoomForResponse, RingsKept
<1>1. /\ server.messages \in Seq(Message) /\ Len(server.messages) \in Nat /\ host.out \in {0, 1, 2}
      /\ DOMAIN rring = 0 .. ResponseRing - 1
      /\ host.rptr \in 0 .. ResponseRing - 1 /\ uda.rptr \in 0 .. ResponseRing - 1
      /\ \E given, unread \in 0 .. 2 : Outstanding(given, unread)
  BY RunningFacts
<1>2. PICK given \in 0 .. 2, unread \in 0 .. 2 : Outstanding(given, unread)
  BY <1>1
<1>3. Len(server.response) = 1
  BY DEF Handshake, PollInStep, Responding
<1>4. unread \in 0 .. 1
  <2>1. PICK m \in Nat : m = Len(server.messages)
    BY <1>1
  <2>2. host.out = given + m + 1 + unread
    BY <1>2, <1>3, <2>1 DEF Outstanding
  <2> QED
    BY <1>1, <2>2
<1>5. Ahead(uda.rptr, host.rptr, ResponseRing) = unread
  <2>1. unread \in 0 .. ResponseRing - 1 /\ host.rptr \in 0 .. ResponseRing - 1
    BY <1>1, <1>4, RingLengths
  <2>2. Ahead((host.rptr + unread) % ResponseRing, host.rptr, ResponseRing) = unread
    BY <2>1, RingLengths, WindowGrows
  <2> QED
    BY <1>2, <2>2 DEF Outstanding
<1> QED
  BY <1>1, <1>2, <1>5 DEF Outstanding

LEMMA MscpInitSafe ==
  MscpInit => PortSafe
<1> SUFFICES ASSUME MscpInit PROVE PortSafe
  OBVIOUS
<1>1. MscpTypeOK
  BY MscpInitTypes
<1>2. PICK e \in BOOLEAN :
        uda = [enabled |-> e, initStep |-> "Uninitialized", next_step |-> FALSE, pc |-> "wait",
               SA |-> 0, cptr |-> 0, rptr |-> 0, intr |-> FALSE, line_INIT |-> FALSE]
  BY DEF MscpInit
<1>3. /\ uda.initStep = "Uninitialized" /\ uda.pc = "wait" /\ uda.SA = 0 /\ ~uda.line_INIT
  BY <1>2
<1>4. /\ server.pollState = "Wait" /\ server.pc = "wait" /\ server.messages = <<>> /\
           Len(server.response) = 0
      /\ ~server.fail /\ host = [HostStart EXCEPT !.pc = "off"] /\ host.pc = "off" /\ ~HostRuns
  BY DEF MscpInit, HostStart, HostRuns
<1>5. Handshake
  BY <1>3, <1>4, Numbers, FourSteps
  DEF Handshake, PollInStep, ResetInStep, StepsInStep, StepInStep, HostInStep, HostRuns, ServerIdle, Fresh,
     InitSteps, Resetting, Responding
<1>6. RingsInStep
  BY <1>4 DEF RingsInStep
<1> QED
  BY <1>1, <1>5, <1>6, RoomFollows DEF PortSafe, PortIndInv, Handshake, RingsKept

(* Whatever the lengths of the rings, the drives and their images, the       *)
(* commands of the host, the moments of INIT and of new initialisations:     *)
(* Poll() finds a free response descriptor for every command it answers.     *)
THEOREM PortStaysSafe == MscpSpec => []PortSafe
<1>1. PortSafe /\ [MscpNext]_mscpvars => PortSafe'
  <2> SUFFICES ASSUME PortSafe, [MscpNext]_mscpvars PROVE PortSafe'
    OBVIOUS
  <2>0. MscpTypeOK /\ Handshake /\ RingsKept
    BY DEF PortSafe, PortIndInv, Handshake, RingsKept
  <2>1. CASE MscpNext
    <3>0. RingsInStep
      BY <2>0, <2>1 DEF MscpNext, Running, Ended, RingsKept
    <3>1. Handshake'
      BY <2>0, <2>1, StepHandshake
    <3>2. RingsKept'
      BY <2>0, <2>1, <3>0, StepRings DEF RingsKept
    <3>3. MscpTypeOK'
      BY <2>0, <2>1, <3>0, StepTypes, TakeResponseKeeps
    <3>4. RoomForResponse'
      BY <3>1, <3>2, <3>3, RoomFollows, PTL
    <3> QED
      BY <3>1, <3>2, <3>3, <3>4 DEF PortSafe, PortIndInv, Handshake, RingsKept
  <2>2. CASE UNCHANGED mscpvars
    <3>1. MscpTypeOK'
      BY <2>0, <2>2 DEF mscpvars, MscpTypeOK
    <3>2. Handshake'
      BY <2>0, <2>2
      DEF mscpvars, Handshake, PollInStep, ResetInStep, StepsInStep, StepInStep, HostInStep, HostRuns,
         ServerIdle, Fresh
    <3>3. RingsKept'
      BY <2>0, <2>2, RingsFrame DEF mscpvars, HostRuns, RingsKept
    <3>4. RoomForResponse'
      BY <3>1, <3>2, <3>3, RoomFollows, PTL
    <3> QED
      BY <3>1, <3>2, <3>3, <3>4 DEF PortSafe, PortIndInv, Handshake, RingsKept
  <2> QED
    BY <2>1, <2>2
<1> QED
  BY MscpInitSafe, <1>1, PTL DEF MscpSpec

-----------------------------------------------------------------------------
(* The sequences that the host sees.                                         *)
Refnum == 0 .. MscpRefs - 1

LEMMA FunctionIsSeq ==
  ASSUME NEW S, NEW n \in Nat, NEW f \in [1 .. n -> S]
  PROVE  f \in Seq(S) /\ Len(f) = n
<1>1. f \in Seq(S)
  BY SeqDef
<1>2. Len(f) \in Nat /\ DOMAIN f = 1 .. Len(f)
  BY <1>1, LenProperties
<1>3. 1 .. n = 1 .. Len(f)
  BY <1>2
<1>4. Len(f) = n
  BY <1>2, <1>3
<1> QED
  BY <1>1, <1>4

LEMMA RefsType ==
  ASSUME NEW M, \A m \in M : m.ref \in Refnum, NEW s \in Seq(M)
  PROVE  Refs(s) \in Seq(Refnum) /\ Len(Refs(s)) = Len(s) /\ \A i \in 1 .. Len(s) : Refs(s)[i] = s[i].ref
<1>1. Len(s) \in Nat /\ \A i \in 1 .. Len(s) : s[i] \in M
  BY LenProperties
<1>2. Refs(s) \in [1 .. Len(s) -> Refnum]
  BY <1>1 DEF Refs
<1> QED
  BY <1>1, <1>2, FunctionIsSeq DEF Refs

LEMMA RefsConcat ==
  ASSUME NEW M, \A m \in M : m.ref \in Refnum, NEW s \in Seq(M), NEW t \in Seq(M)
  PROVE  Refs(s \o t) = Refs(s) \o Refs(t)
<1>1. s \o t \in Seq(M) /\ Len(s \o t) = Len(s) + Len(t) /\ Len(s) \in Nat /\ Len(t) \in Nat
  BY ConcatProperties, LenProperties
<1>2. \A i \in 1 .. Len(s) + Len(t) : (s \o t)[i] = IF i <= Len(s) THEN s[i] ELSE t[i - Len(s)]
  BY ConcatProperties
<1>3. /\ Refs(s) \in Seq(Refnum) /\ Len(Refs(s)) = Len(s) /\ \A i \in 1 .. Len(s) : Refs(s)[i] = s[i].ref
      /\ Refs(t) \in Seq(Refnum) /\ Len(Refs(t)) = Len(t) /\ \A i \in 1 .. Len(t) : Refs(t)[i] = t[i].ref
  BY RefsType
<1>4. /\ Refs(s \o t) \in Seq(Refnum) /\ Len(Refs(s \o t)) = Len(s) + Len(t)
      /\ \A i \in 1 .. Len(s) + Len(t) : Refs(s \o t)[i] = (s \o t)[i].ref
  BY <1>1, RefsType
<1>5. /\ Refs(s) \o Refs(t) \in Seq(Refnum) /\ Len(Refs(s) \o Refs(t)) = Len(s) + Len(t)
      /\ \A i \in 1 .. Len(s) + Len(t) :
           (Refs(s) \o Refs(t))[i] = IF i <= Len(s) THEN Refs(s)[i] ELSE Refs(t)[i - Len(s)]
  <2>1. /\ Refs(s) \in Seq(Refnum) /\ Refs(t) \in Seq(Refnum) /\ Len(s) \in Nat /\ Len(t) \in Nat
        /\ Len(Refs(s)) = Len(s) /\ Len(Refs(t)) = Len(t)
    BY <1>1, <1>3
  <2>2. PICK a \in Seq(Refnum), b \in Seq(Refnum) : a = Refs(s) /\ b = Refs(t)
    BY <2>1
  <2>3. PICK m \in Nat, n \in Nat : m = Len(s) /\ n = Len(t)
    BY <2>1
  <2>4. Len(a) = m /\ Len(b) = n
    BY <2>1, <2>2, <2>3
  <2>5. /\ a \o b \in Seq(Refnum) /\ Len(a \o b) = m + n
        /\ \A i \in 1 .. m + n : (a \o b)[i] = IF i <= m THEN a[i] ELSE b[i - m]
    BY <2>4, ConcatProperties
  <2> QED
    BY <2>2, <2>3, <2>5
<1>6. ASSUME NEW i \in 1 .. Len(s) + Len(t) PROVE Refs(s \o t)[i] = (Refs(s) \o Refs(t))[i]
  <2>1. CASE i <= Len(s)
    <3>1. i \in 1 .. Len(s)
      BY <1>1, <2>1
    <3> QED
      BY <1>2, <1>3, <1>4, <1>5, <2>1, <3>1
  <2>2. CASE ~(i <= Len(s))
    <3>1. i - Len(s) \in 1 .. Len(t)
      BY <1>1, <2>2
    <3> QED
      BY <1>2, <1>3, <1>4, <1>5, <2>2, <3>1
  <2> QED
    BY <2>1, <2>2
<1> QED
  BY <1>4, <1>5, <1>6, SeqEqual

LEMMA RefsOfOne ==
  ASSUME NEW M, \A m \in M : m.ref \in Refnum, NEW s \in Seq(M), Len(s) = 1
  PROVE  Refs(s) = <<s[1].ref>> /\ s[1].ref \in Refnum
<1>1. 1 \in 1 .. Len(s) /\ s[1] \in M
  BY LenProperties
<1>2. Refs(s) \in Seq(Refnum) /\ Len(Refs(s)) = 1 /\ Refs(s)[1] = s[1].ref
  BY <1>1, RefsType
<1>3. <<s[1].ref>> \in Seq(Refnum) /\ Len(<<s[1].ref>>) = 1 /\ <<s[1].ref>>[1] = s[1].ref
  BY <1>1
<1>4. \A i \in 1 .. Len(Refs(s)) : Refs(s)[i] = <<s[1].ref>>[i]
  BY <1>2, <1>3
<1> QED
  BY <1>1, <1>2, <1>3, <1>4, SeqEqual

LEMMA RefsHead ==
  ASSUME NEW M, \A m \in M : m.ref \in Refnum, NEW s \in Seq(M), s # <<>>
  PROVE  Refs(s) = <<Head(s).ref>> \o Refs(Tail(s)) /\ Head(s).ref \in Refnum
<1>1. /\ Head(s) \in M /\ Tail(s) \in Seq(M) /\ Len(s) \in Nat \ {0} /\ Len(Tail(s)) = Len(s) - 1
      /\ \A i \in 1 .. Len(s) - 1 : Tail(s)[i] = s[i + 1]
      /\ Head(s) = s[1]
  BY HeadTailProperties, EmptySeq
<1>2. /\ Refs(s) \in Seq(Refnum) /\ Len(Refs(s)) = Len(s) /\ \A i \in 1 .. Len(s) : Refs(s)[i] = s[i].ref
      /\ Refs(Tail(s)) \in Seq(Refnum) /\ Len(Refs(Tail(s))) = Len(s) - 1
      /\ \A i \in 1 .. Len(s) - 1 : Refs(Tail(s))[i] = Tail(s)[i].ref
  BY <1>1, RefsType
<1> DEFINE one == <<Head(s).ref>>
<1>3. one \in Seq(Refnum) /\ Len(one) = 1 /\ one[1] = Head(s).ref
  BY <1>1
<1> HIDE DEF one
<1>4. /\ one \o Refs(Tail(s)) \in Seq(Refnum) /\ Len(one \o Refs(Tail(s))) = Len(s)
      /\ \A i \in 1 .. Len(s) :
           (one \o Refs(Tail(s)))[i] = IF i <= 1 THEN one[i] ELSE Refs(Tail(s))[i - 1]
  <2>1. PICK n \in Nat : Len(s) = 1 + n /\ Len(s) - 1 = n
    <3>1. Len(s) - 1 \in Nat /\ Len(s) = 1 + (Len(s) - 1)
      BY <1>1
    <3> QED
      BY <3>1
  <2>2. Len(Refs(Tail(s))) = n /\ 1 \in Nat
    BY <1>2, <2>1
  <2>3. /\ one \o Refs(Tail(s)) \in Seq(Refnum) /\ Len(one \o Refs(Tail(s))) = 1 + n
        /\ \A i \in 1 .. 1 + n :
             (one \o Refs(Tail(s)))[i] = IF i <= 1 THEN one[i] ELSE Refs(Tail(s))[i - 1]
    <3>1. PICK a \in Seq(Refnum), b \in Seq(Refnum) : a = one /\ b = Refs(Tail(s))
      BY <1>2, <1>3
    <3>2. PICK m \in Nat : m = 1 /\ Len(a) = m /\ Len(b) = n
      BY <1>3, <2>2, <3>1
    <3>3. /\ a \o b \in Seq(Refnum) /\ Len(a \o b) = m + n
          /\ \A i \in 1 .. m + n : (a \o b)[i] = IF i <= m THEN a[i] ELSE b[i - m]
      <4>1. Len(a) = m /\ Len(b) = n
        BY <3>2
      <4> QED
        BY <4>1, ConcatProperties
    <3>4. /\ a \o b \in Seq(Refnum) /\ Len(a \o b) = 1 + n
          /\ \A i \in 1 .. 1 + n : (a \o b)[i] = IF i <= 1 THEN a[i] ELSE b[i - 1]
      BY <3>2, <3>3
    <3> QED
      BY <3>1, <3>4
  <2> QED
    BY <2>1, <2>3
<1>5. ASSUME NEW i \in 1 .. Len(s) PROVE Refs(s)[i] = (one \o Refs(Tail(s)))[i]
  <2>1. CASE i = 1
    BY <1>1, <1>2, <1>3, <1>4, <2>1
  <2>2. CASE i # 1
    <3>1. ~(i <= 1) /\ i - 1 \in 1 .. Len(s) - 1 /\ (i - 1) + 1 = i
      BY <1>1, <2>2
    <3>2. Refs(Tail(s))[i - 1] = s[i].ref
      BY <1>1, <1>2, <3>1
    <3> QED
      BY <1>2, <1>4, <3>1, <3>2
  <2> QED
    BY <2>1, <2>2
<1>6. Refs(s) = one \o Refs(Tail(s))
  BY <1>2, <1>4, <1>5, SeqEqual
<1> QED
  BY <1>1, <1>6 DEF one

LEMMA AfterOne ==
  ASSUME NEW S, NEW x \in S, NEW s \in Seq(S)
  PROVE  /\ <<x>> \o s # <<>> /\ Head(<<x>> \o s) = x /\ Tail(<<x>> \o s) = s
         /\ Append(s, x) = s \o <<x>>
<1> DEFINE one == <<x>>
<1>1. one \in Seq(S) /\ Len(one) = 1 /\ one[1] = x
  OBVIOUS
<1> HIDE DEF one
<1>2. /\ one \o s \in Seq(S) /\ Len(one \o s) = 1 + Len(s) /\ Len(s) \in Nat
      /\ \A i \in 1 .. 1 + Len(s) : (one \o s)[i] = IF i <= 1 THEN one[i] ELSE s[i - 1]
  BY <1>1, ConcatProperties, LenProperties
<1>3. one \o s # <<>>
  BY <1>2, EmptySeq
<1>4. Head(one \o s) = x
  <2>1. 1 \in 1 .. 1 + Len(s) /\ 1 <= 1
    BY <1>2
  <2>2. (one \o s)[1] = x
    BY <1>1, <1>2, <2>1
  <2> QED
    BY <1>2, <1>3, <2>2
<1>5. Tail(one \o s) = s
  <2>1. /\ Tail(one \o s) \in Seq(S) /\ Len(Tail(one \o s)) = Len(s)
        /\ \A i \in 1 .. Len(s) : Tail(one \o s)[i] = (one \o s)[i + 1]
    <3>1. (1 + Len(s)) - 1 = Len(s)
      BY <1>2
    <3> QED
      BY <1>2, <1>3, <3>1, HeadTailProperties
  <2>2. ASSUME NEW i \in 1 .. Len(s) PROVE Tail(one \o s)[i] = s[i]
    <3>1. i + 1 \in 1 .. 1 + Len(s) /\ ~(i + 1 <= 1) /\ (i + 1) - 1 = i
      BY <1>2
    <3> QED
      BY <1>2, <2>1, <3>1
  <2> QED
    BY <2>1, <2>2, SeqEqual
<1>6. Append(s, x) = s \o one
  BY AppendIsConcat DEF one
<1> QED
  BY <1>3, <1>4, <1>5, <1>6 DEF one

(* The references in g descriptors of a ring from p on.                      *)
WindowOf(ring, p, n, g) == [k \in 1 .. g |-> ring[(p + (k - 1)) % n].msg[1].ref]

LEMMA Places ==
  ASSUME NEW n \in Nat, n >= 2, NEW p \in 0 .. n - 1, NEW g \in 0 .. n, NEW k \in 1 .. g
  PROVE  /\ (p + (k - 1)) % n \in 0 .. n - 1
         /\ Ahead((p + (k - 1)) % n, p, n) = k - 1
<1>1. k - 1 \in 0 .. n - 1
  OBVIOUS
<1> QED
  BY <1>1, WindowGrows

(* RingMessages() finds the window.                                          *)
LEMMA RingMessagesAre ==
  ASSUME NEW n \in Nat, n >= 2, NEW p \in 0 .. n - 1, NEW g \in 0 .. n, NEW own \in BOOLEAN,
         NEW ring, \A i \in 0 .. n - 1 : ring[i].own = own <=> Ahead(i, p, n) < g,
         \A i \in 0 .. n - 1 : ring[i].own = own => ring[i].msg # <<>>
  PROVE  RingMessages(ring, p, n, own) = WindowOf(ring, p, n, g)
<1> DEFINE at(k) == ring[(p + k) % n]
           P(k) == /\ \A j \in 0 .. k - 1 : at(j).own = own /\ at(j).msg # <<>>
                   /\ k < n => at(k).own # own \/ at(k).msg = <<>>
<1>1. \A k \in 0 .. n - 1 : (p + k) % n \in 0 .. n - 1 /\ Ahead((p + k) % n, p, n) = k
  BY WindowGrows
<1>2. \A k \in 0 .. n - 1 : (at(k).own = own <=> k < g) /\ (at(k).own = own => at(k).msg # <<>>)
  BY <1>1
<1> HIDE DEF at
<1>3. P(g)
  BY <1>2
<1>4. ASSUME NEW k \in 0 .. n, P(k) PROVE k = g
  <2>1. ~(k < g)
    BY <1>2, <1>4
  <2>2. ~(g < k)
    <3>1. g < k => g \in 0 .. k - 1 /\ g \in 0 .. n - 1
      OBVIOUS
    <3> QED
      BY <1>2, <1>4, <3>1
  <2> QED
    BY <2>1, <2>2
<1> DEFINE length == CHOOSE k \in 0 .. n : P(k)
<1>5. length = g
  <2>1. \E k \in 0 .. n : P(k)
    BY <1>3
  <2> HIDE DEF P
  <2>2. length \in 0 .. n /\ P(length)
    BY <2>1
  <2> QED
    BY <1>4, <2>2
<1>6. RingMessages(ring, p, n, own) = [k \in 1 .. length |-> at(k - 1).msg[1].ref]
  BY DEF RingMessages, at
<1> HIDE DEF length
<1> QED
  BY <1>5, <1>6 DEF WindowOf, at

LEMMA WindowType ==
  ASSUME NEW n \in Nat, n >= 2, NEW p \in 0 .. n - 1, NEW g \in 0 .. n, NEW ring,
         \A i \in 0 .. n - 1 : Ahead(i, p, n) < g => ring[i].msg[1].ref \in Refnum
  PROVE  /\ WindowOf(ring, p, n, g) \in Seq(Refnum) /\ Len(WindowOf(ring, p, n, g)) = g
         /\ \A k \in 1 .. g : WindowOf(ring, p, n, g)[k] = ring[(p + (k - 1)) % n].msg[1].ref
<1>1. \A k \in 1 .. g : ring[(p + (k - 1)) % n].msg[1].ref \in Refnum
  <2>1. TAKE k \in 1 .. g
  <2>2. (p + (k - 1)) % n \in 0 .. n - 1 /\ Ahead((p + (k - 1)) % n, p, n) = k - 1
    BY Places
  <2>3. k - 1 < g
    OBVIOUS
  <2> QED
    BY <2>2, <2>3
<1>2. WindowOf(ring, p, n, g) \in [1 .. g -> Refnum]
  BY <1>1 DEF WindowOf
<1>3. g \in Nat
  OBVIOUS
<1> QED
  BY <1>2, <1>3, FunctionIsSeq DEF WindowOf

Prefixed(x, s) == <<x>> \o s

(* Of two rings after is ring without its first descriptor's message, or with *)
(* one more behind its last.                                                 *)
Taken(ring, after, p, q, n, g, h) ==
  /\ n \in Nat /\ n >= 2 /\ p \in 0 .. n - 1 /\ g \in 1 .. n
  /\ q = (p + 1) % n /\ h = g - 1
  /\ \A i \in 0 .. n - 1 : Ahead(i, p, n) < g => ring[i].msg[1].ref \in Refnum
  /\ \A i \in 0 .. n - 1 : i # p => after[i] = ring[i]

Added(ring, after, p, q, n, g, h, x) ==
  /\ n \in Nat /\ n >= 2 /\ p \in 0 .. n - 1 /\ g \in 0 .. n - 1 /\ q \in 0 .. n - 1
  /\ q = (p + g) % n /\ h = g + 1
  /\ \A i \in 0 .. n - 1 : Ahead(i, p, n) < g => ring[i].msg[1].ref \in Refnum
  /\ \A i \in 0 .. n - 1 : i # q => after[i] = ring[i]
  /\ x = after[q].msg[1].ref /\ x \in Refnum

(* Without its first descriptor a window begins at the next.                 *)
LEMMA WindowFirst ==
  ASSUME NEW ring, NEW after, NEW p, NEW q, NEW n, NEW g, NEW h, Taken(ring, after, p, q, n, g, h)
  PROVE  /\ ring[p].msg[1].ref \in Refnum /\ WindowOf(after, q, n, h) \in Seq(Refnum)
         /\ WindowOf(ring, p, n, g) = Prefixed(ring[p].msg[1].ref, WindowOf(after, q, n, h))
<1> DEFINE w == WindowOf(ring, p, n, g)
           v == WindowOf(after, q, n, g - 1)
           one == <<ring[p].msg[1].ref>>
<1>0. /\ n \in Nat /\ n >= 2 /\ p \in 0 .. n - 1 /\ g \in 1 .. n
      /\ \A i \in 0 .. n - 1 : Ahead(i, p, n) < g => ring[i].msg[1].ref \in Refnum
      /\ \A i \in 0 .. n - 1 : i # p => after[i] = ring[i]
  BY DEF Taken
<1> USE <1>0
<1>h. q = (p + 1) % n /\ h = g - 1
  BY DEF Taken
<1>1. q \in 0 .. n - 1 /\ g \in 0 .. n /\ g - 1 \in 0 .. n
  BY <1>h, NextPointer
<1>2. \A i \in 0 .. n - 1 : Ahead(i, q, n) < g - 1 <=> i # p /\ Ahead(i, p, n) < g
  BY <1>h, WindowShrinks
<1>3. Ahead(p, p, n) = 0 /\ ring[p].msg[1].ref \in Refnum
  <2>1. Ahead(p, p, n) = 0
    BY AheadOfItself
  <2>2. Ahead(p, p, n) < g
    BY <2>1
  <2> QED
    BY <2>1, <2>2
<1>4. \A k \in 1 .. g - 1 : /\ (q + (k - 1)) % n = (p + k) % n
                            /\ (p + k) % n \in 0 .. n - 1 /\ (p + k) % n # p
  <2>1. TAKE k \in 1 .. g - 1
  <2>2. k \in 1 .. n /\ k \in 0 .. n - 1 /\ k # 0
    OBVIOUS
  <2>3. (q + (k - 1)) % n = (p + k) % n
    BY <1>h, <2>2, WindowShrinks
  <2>4. (p + k) % n \in 0 .. n - 1 /\ Ahead((p + k) % n, p, n) = k
    BY <2>2, WindowGrows
  <2> QED
    BY <1>3, <2>2, <2>3, <2>4
<1>5. \A i \in 0 .. n - 1 : Ahead(i, q, n) < g - 1 => after[i].msg[1].ref \in Refnum
  BY <1>2
<1>6. w \in Seq(Refnum) /\ Len(w) = g /\ \A k \in 1 .. g : w[k] = ring[(p + (k - 1)) % n].msg[1].ref
  BY <1>1, WindowType
<1>7. v \in Seq(Refnum) /\ Len(v) = g - 1 /\
        \A k \in 1 .. g - 1 : v[k] = after[(q + (k - 1)) % n].msg[1].ref
  BY <1>1, <1>5, WindowType
<1>8. one \in Seq(Refnum) /\ Len(one) = 1 /\ one[1] = ring[p].msg[1].ref
  BY <1>3
<1> HIDE DEF w, v, one
<1>9. /\ one \o v \in Seq(Refnum) /\ Len(one \o v) = g
      /\ \A i \in 1 .. g : (one \o v)[i] = IF i <= 1 THEN one[i] ELSE v[i - 1]
  <2>1. PICK m \in Nat, d \in Nat : m = 1 /\ d = g - 1 /\ m + d = g /\ Len(one) = m /\ Len(v) = d
    BY <1>7, <1>8
  <2>2. Len(one) = m /\ Len(v) = d
    BY <2>1
  <2>3. /\ one \o v \in Seq(Refnum) /\ Len(one \o v) = m + d
        /\ \A i \in 1 .. m + d : (one \o v)[i] = IF i <= m THEN one[i] ELSE v[i - m]
    BY <1>7, <1>8, <2>2, ConcatProperties
  <2> QED
    BY <2>1, <2>3
<1>10. ASSUME NEW i \in 1 .. g PROVE w[i] = (one \o v)[i]
  <2>1. CASE i = 1
    <3>1. (p + (i - 1)) % n = p
      BY <2>1
    <3>2. w[i] = ring[p].msg[1].ref
      BY <1>6, <3>1
    <3>3. i <= 1
      BY <2>1
    <3>4. (one \o v)[i] = one[1]
      BY <1>9, <2>1, <3>3
    <3> QED
      BY <1>8, <3>2, <3>4
  <2>2. CASE i # 1
    <3>1. i - 1 \in 1 .. g - 1 /\ ~(i <= 1)
      BY <2>2
    <3>2. v[i - 1] = after[(p + (i - 1)) % n].msg[1].ref
      BY <1>4, <1>7, <3>1
    <3>3. after[(p + (i - 1)) % n] = ring[(p + (i - 1)) % n]
      BY <1>4, <3>1
    <3> QED
      BY <1>6, <1>9, <3>1, <3>2, <3>3
  <2> QED
    BY <2>1, <2>2
<1>11. w = one \o v
  BY <1>6, <1>9, <1>10, SeqEqual
<1> QED
  BY <1>h, <1>3, <1>7, <1>11 DEF w, v, one, Prefixed

(* With one descriptor more a window has that one at its end.                *)
LEMMA WindowLast ==
  ASSUME NEW ring, NEW after, NEW p, NEW q, NEW n, NEW g, NEW h, NEW x, Added(ring, after, p, q, n,
           g, h, x)
  PROVE  /\ WindowOf(ring, p, n, g) \in Seq(Refnum)
         /\ WindowOf(after, p, n, h) = Append(WindowOf(ring, p, n, g), x)
<1> DEFINE w == WindowOf(ring, p, n, g)
           v == WindowOf(after, p, n, g + 1)
<1>0. /\ n \in Nat /\ n >= 2 /\ p \in 0 .. n - 1 /\ g \in 0 .. n - 1 /\ q \in 0 .. n - 1
      /\ q = (p + g) % n
      /\ \A i \in 0 .. n - 1 : Ahead(i, p, n) < g => ring[i].msg[1].ref \in Refnum
      /\ \A i \in 0 .. n - 1 : i # q => after[i] = ring[i]
      /\ x = after[q].msg[1].ref /\ x \in Refnum
  BY DEF Added
<1> USE <1>0
<1>h. h = g + 1
  BY DEF Added
<1>1. /\ Ahead(q, p, n) = g
      /\ \A i \in 0 .. n - 1 : Ahead(i, p, n) < g + 1 <=> Ahead(i, p, n) < g \/ i = q
  BY WindowGrows
<1>2. \A i \in 0 .. n - 1 : Ahead(i, p, n) < g + 1 => after[i].msg[1].ref \in Refnum
  BY <1>1
<1>3. g \in 0 .. n /\ g + 1 \in 0 .. n
  OBVIOUS
<1>4. w \in Seq(Refnum) /\ Len(w) = g /\ \A k \in 1 .. g : w[k] = ring[(p + (k - 1)) % n].msg[1].ref
  BY <1>3, WindowType
<1>5. v \in Seq(Refnum) /\ Len(v) = g + 1 /\
        \A k \in 1 .. g + 1 : v[k] = after[(p + (k - 1)) % n].msg[1].ref
  BY <1>2, <1>3, WindowType
<1>6. x \in Refnum
  OBVIOUS
<1> HIDE DEF w, v
<1>7. /\ Append(w, x) \in Seq(Refnum) /\ Len(Append(w, x)) = g + 1
      /\ \A i \in 1 .. g : Append(w, x)[i] = w[i]
      /\ Append(w, x)[g + 1] = x
  BY <1>4, <1>6, AppendProperties
<1>8. ASSUME NEW i \in 1 .. g + 1 PROVE v[i] = Append(w, x)[i]
  <2>1. CASE i = g + 1
    <3>1. i - 1 = g
      BY <2>1
    <3>2. (p + (i - 1)) % n = q
      BY <3>1
    <3>3. v[i] = after[q].msg[1].ref
      BY <1>5, <3>2
    <3>4. Append(w, x)[i] = x
      BY <1>7, <2>1
    <3> QED
      BY <3>3, <3>4
  <2>2. CASE i # g + 1
    <3>1. i \in 1 .. g
      BY <2>2
    <3>2. (p + (i - 1)) % n \in 0 .. n - 1 /\ Ahead((p + (i - 1)) % n, p, n) = i - 1
      BY <1>3, <3>1, Places
    <3>3. (p + (i - 1)) % n # q
      BY <1>1, <3>1, <3>2
    <3>4. after[(p + (i - 1)) % n] = ring[(p + (i - 1)) % n]
      BY <3>2, <3>3
    <3>5. v[i] = after[(p + (i - 1)) % n].msg[1].ref
      BY <1>5
    <3>6. w[i] = ring[(p + (i - 1)) % n].msg[1].ref /\ Append(w, x)[i] = w[i]
      BY <1>4, <1>7, <3>1
    <3> QED
      BY <3>4, <3>5, <3>6
  <2> QED
    BY <2>1, <2>2
<1>9. v = Append(w, x)
  BY <1>5, <1>7, <1>8, SeqEqual
<1> QED
  BY <1>h, <1>4, <1>9 DEF w, v


-----------------------------------------------------------------------------
(* The promise of MscpService: the host's view of a running port.            *)
Answered(unread) == WindowOf(rring, host.rptr, ResponseRing, unread)
InRing(given) == WindowOf(cring, uda.cptr, CommandRing, given)
View(given, unread) ==
  /\ service_waiting = Refs(server.response) \o Refs(server.messages) \o InRing(given)
  /\ service_answered = Answered(unread)
Seen == \A given, unread \in 0 .. 2 : Outstanding(given, unread) => View(given, unread)

LEMMA RefFields ==
  /\ \A m \in Message : m.ref \in Refnum
  /\ \A r \in Response : r.ref \in Refnum
BY DEF Message, Response, Refnum

(* Descriptors within the windows hold one message.                          *)
LEMMA InWindows ==
  ASSUME MscpTypeOK, Handshake, RingsInStep, ~mscp_past.overrun, HostRuns,
         NEW given \in 0 .. 2, NEW unread \in 0 .. 2, Outstanding(given, unread)
  PROVE  /\ \A i \in 0 .. CommandRing - 1 : cring[i].own = TRUE <=>
              Ahead(i, uda.cptr, CommandRing) < given
         /\ \A i \in 0 .. CommandRing - 1 :
              Ahead(i, uda.cptr, CommandRing) < given =>
                cring[i].msg \in Seq(Message) /\ Len(cring[i].msg) = 1 /\ cring[i].msg # <<>>
                /\ cring[i].msg[1].ref \in Refnum
         /\ \A i \in 0 .. ResponseRing - 1 : rring[i].own = FALSE <=>
              Ahead(i, host.rptr, ResponseRing) < unread
         /\ \A i \in 0 .. ResponseRing - 1 :
              Ahead(i, host.rptr, ResponseRing) < unread =>
                rring[i].msg # <<>> /\ rring[i].msg[1].ref \in Refnum
<1>1. DOMAIN cring = 0 .. CommandRing - 1 /\ DOMAIN rring = 0 .. ResponseRing - 1
  BY RunningFacts
<1>2. ASSUME NEW i \in 0 .. CommandRing - 1
      PROVE  /\ cring[i].own \in BOOLEAN /\ cring[i].msg \in Seq(Message)
             /\ Len(cring[i].msg) = 1 => cring[i].msg # <<>> /\ cring[i].msg[1].ref \in Refnum
  <2>1. cring[i].own \in BOOLEAN /\ cring[i].msg \in Seq(Message)
    BY DEF MscpTypeOK
  <2>2. Len(cring[i].msg) = 1 => cring[i].msg[1] \in Message
    BY <2>1
  <2> QED
    BY <2>1, <2>2, RefFields
<1>3. ASSUME NEW i \in 0 .. ResponseRing - 1
      PROVE  /\ rring[i].own \in BOOLEAN /\ rring[i].msg \in Seq(Response)
             /\ Len(rring[i].msg) = 1 => rring[i].msg # <<>> /\ rring[i].msg[1].ref \in Refnum
  <2>1. rring[i].own \in BOOLEAN /\ rring[i].msg \in Seq(Response)
    BY DEF MscpTypeOK
  <2>2. Len(rring[i].msg) = 1 => rring[i].msg[1] \in Response
    BY <2>1
  <2> QED
    BY <2>1, <2>2, RefFields
<1>4. \A i \in 0 .. CommandRing - 1 : cring[i].own = TRUE <=> Ahead(i, uda.cptr, CommandRing) < given
  BY <1>1, <1>2 DEF Outstanding
<1>5. \A i \in 0 .. ResponseRing - 1 : rring[i].own = FALSE <=>
        Ahead(i, host.rptr, ResponseRing) < unread
  BY <1>1, <1>3 DEF Outstanding
<1>6. /\ \A i \in 0 .. CommandRing - 1 : cring[i].own => Len(cring[i].msg) = 1
      /\ \A i \in 0 .. ResponseRing - 1 : ~rring[i].own => Len(rring[i].msg) = 1
  BY <1>1 DEF Outstanding
<1> QED
  BY <1>2, <1>3, <1>4, <1>5, <1>6

Overrun == mscp_past.overrun

LEMMA ViewIsSeen ==
  MscpTypeOK /\ Handshake /\ RingsInStep /\ ~Overrun /\ HostRuns => Seen
<1> USE DEF Overrun
<1> SUFFICES ASSUME MscpTypeOK, Handshake, RingsInStep, ~mscp_past.overrun, HostRuns,
                    NEW given \in 0 .. 2, NEW unread \in 0 .. 2, Outstanding(given, unread)
             PROVE  View(given, unread)
  BY DEF Seen
<1>1. /\ \A i \in 0 .. CommandRing - 1 : cring[i].own = TRUE <=> Ahead(i, uda.cptr, CommandRing) < given
      /\ \A i \in 0 .. CommandRing - 1 : cring[i].own = TRUE => cring[i].msg # <<>>
      /\ \A i \in 0 .. ResponseRing - 1 : rring[i].own = FALSE <=>
           Ahead(i, host.rptr, ResponseRing) < unread
      /\ \A i \in 0 .. ResponseRing - 1 : rring[i].own = FALSE => rring[i].msg # <<>>
  BY InWindows
<1>2. uda.cptr \in 0 .. CommandRing - 1 /\ host.rptr \in 0 .. ResponseRing - 1
  BY RunningFacts
<1>3. given \in 0 .. CommandRing /\ unread \in 0 .. ResponseRing
  BY RingLengths
<1>4. RingMessages(cring, uda.cptr, CommandRing, TRUE) = InRing(given)
  <2>1. TRUE \in BOOLEAN
    OBVIOUS
  <2> QED
    BY <1>1, <1>2, <1>3, <2>1, RingLengths, RingMessagesAre DEF InRing
<1>5. RingMessages(rring, host.rptr, ResponseRing, FALSE) = Answered(unread)
  <2>1. FALSE \in BOOLEAN
    OBVIOUS
  <2> QED
    BY <1>1, <1>2, <1>3, <2>1, RingLengths, RingMessagesAre DEF Answered
<1> QED
  BY <1>4, <1>5 DEF View, service_waiting, service_answered

LEMMA ViewTypes ==
  ASSUME MscpTypeOK, Handshake, RingsInStep, ~mscp_past.overrun, HostRuns,
         NEW given \in 0 .. 2, NEW unread \in 0 .. 2, Outstanding(given, unread)
  PROVE  /\ Refs(server.response) \in Seq(Refnum) /\ Len(Refs(server.response)) = Len(server.response)
         /\ Refs(server.messages) \in Seq(Refnum) /\ Len(Refs(server.messages)) = Len(server.messages)
         /\ InRing(given) \in Seq(Refnum) /\ Len(InRing(given)) = given
         /\ Answered(unread) \in Seq(Refnum) /\ Len(Answered(unread)) = unread
         /\ service_waiting \in Seq(Refnum)
         /\ Len(service_waiting) = Len(server.response) + Len(server.messages) + given
         /\ View(given, unread)
<1>1. /\ uda.cptr \in 0 .. CommandRing - 1 /\ host.rptr \in 0 .. ResponseRing - 1
      /\ server.messages \in Seq(Message) /\ server.response \in Seq(Response)
      /\ Len(server.messages) \in Nat /\ Len(server.response) \in Nat
  BY RunningFacts
<1>2. /\ Refs(server.response) \in Seq(Refnum) /\ Len(Refs(server.response)) = Len(server.response)
      /\ Refs(server.messages) \in Seq(Refnum) /\ Len(Refs(server.messages)) = Len(server.messages)
  BY <1>1, RefFields, RefsType
<1>3. given \in 0 .. CommandRing /\ unread \in 0 .. ResponseRing
  BY RingLengths
<1>4. InRing(given) \in Seq(Refnum) /\ Len(InRing(given)) = given
  <2>1. \A i \in 0 .. CommandRing - 1 : Ahead(i, uda.cptr, CommandRing) < given =>
          cring[i].msg[1].ref \in Refnum
    BY InWindows
  <2> QED
    BY <1>1, <1>3, <2>1, RingLengths, WindowType DEF InRing
<1>5. Answered(unread) \in Seq(Refnum) /\ Len(Answered(unread)) = unread
  <2>1. \A i \in 0 .. ResponseRing - 1 : Ahead(i, host.rptr, ResponseRing) < unread =>
          rring[i].msg[1].ref \in Refnum
    BY InWindows
  <2>2. ResponseRing \in Nat \ {0} /\ ResponseRing >= 2 /\ host.rptr \in 0 .. ResponseRing - 1
        /\ unread \in 0 .. ResponseRing
    BY <1>1, <1>3, RingLengths
  <2> QED
    BY <2>1, <2>2, WindowType DEF Answered
<1>6. View(given, unread)
  BY ViewIsSeen DEF Seen, Overrun
<1>7. /\ service_waiting \in Seq(Refnum)
      /\ Len(service_waiting) = Len(server.response) + Len(server.messages) + given
  <2>1. PICK a \in Seq(Refnum), b \in Seq(Refnum), c \in Seq(Refnum) :
          a = Refs(server.response) /\ b = Refs(server.messages) /\ c = InRing(given)
    BY <1>2, <1>4
  <2>2. (a \o b) \in Seq(Refnum) /\ Len(a \o b) = Len(a) + Len(b)
    BY ConcatProperties
  <2>3. (a \o b) \o c \in Seq(Refnum) /\ Len((a \o b) \o c) = Len(a \o b) + Len(c)
    BY <2>2, ConcatProperties
  <2>4. service_waiting = (a \o b) \o c
    BY <1>6, <2>1 DEF View
  <2>5. Len(a) = Len(server.response) /\ Len(b) = Len(server.messages) /\ Len(c) = given
    BY <1>2, <1>4, <2>1
  <2> QED
    BY <2>2, <2>3, <2>4, <2>5
<1> QED
  BY <1>2, <1>4, <1>5, <1>6, <1>7

(* Sequences regrouped.                                                      *)
LEMMA Regroup ==
  ASSUME NEW S, NEW a \in Seq(S), NEW b \in Seq(S), NEW c \in Seq(S), NEW d \in Seq(S)
  PROVE  (a \o b) \o (c \o d) = (a \o (b \o c)) \o d
<1>1. a \o b \in Seq(S)
  BY ConcatProperties
<1>2. \A s \in Seq(S), t \in Seq(S), u \in Seq(S) : (s \o t) \o u = s \o (t \o u)
  BY ConcatAssociative, SMTT(60)
<1>3. ((a \o b) \o c) \o d = (a \o b) \o (c \o d)
  BY <1>1, <1>2, Zenon
<1>4. (a \o b) \o c = a \o (b \o c)
  BY <1>2, Zenon
<1> QED
  BY <1>3, <1>4, Zenon

(* Poll() takes a command out of the ring, makes a response of it: the host  *)
(* does not see it.                                                          *)
LEMMA CommandReturnServes ==
  MscpTypeOK /\ Handshake /\ RingsInStep /\ ~mscp_past.overrun /\ HostRuns /\ HostRuns' /\ Seen' /\ command_return =>
    UNCHANGED <<service_waiting, service_answered>>
<1> SUFFICES ASSUME MscpTypeOK, Handshake, RingsInStep, ~mscp_past.overrun, HostRuns, HostRuns', Seen', command_return
             PROVE  UNCHANGED <<service_waiting, service_answered>>
  OBVIOUS
<1>1. PICK given \in 0 .. 2, unread \in 0 .. 2 : Outstanding(given, unread)
  BY RunningFacts
<1>2. given - 1 \in 0 .. 2 /\ unread \in 0 .. 2 /\ Outstanding(given - 1, unread)'
  BY <1>1, CommandReturnRings
<1>3. View(given - 1, unread)'
  BY <1>2 DEF Seen
<1>4. /\ ~uda.line_INIT /\ ~DmaFails /\ uda.cptr \in 0 .. CommandRing - 1
      /\ server.messages \in Seq(Message) /\ DOMAIN cring = 0 .. CommandRing - 1
  BY RunningFacts
<1>5. /\ rring' = rring /\ host' = host /\ server'.response = server.response
      /\ server'.messages = server.messages \o cring[uda.cptr].msg
      /\ cring' = [cring EXCEPT ![uda.cptr] = [@ EXCEPT !.own = FALSE, !.flag = TRUE, !.msg = <<>>]]
      /\ uda'.cptr = (uda.cptr + 1) % CommandRing
  BY <1>4 DEF command_return, ServerStep, Interrupt, MscpTypeOK, ServerState, UdaState
<1>6. \A i \in 0 .. CommandRing - 1 : i # uda.cptr => cring'[i] = cring[i]
  BY <1>4, <1>5
<1> DEFINE R == Refs(server.response)
           Q == Refs(server.messages)
           msg == cring[uda.cptr].msg
           x == msg[1].ref
<1>7. R \in Seq(Refnum) /\ Q \in Seq(Refnum) /\ View(given, unread)
  BY <1>1, ViewTypes
<1>8. msg \in Seq(Message) /\ Len(msg) = 1
  <2>1. Ahead(uda.cptr, uda.cptr, CommandRing) = 0
    BY <1>4, RingLengths, AheadOfItself
  <2>2. Ahead(uda.cptr, uda.cptr, CommandRing) < given
    BY <1>2, <2>1
  <2>3. \A i \in 0 .. CommandRing - 1 : Ahead(i, uda.cptr, CommandRing) < given =>
          cring[i].msg \in Seq(Message) /\ Len(cring[i].msg) = 1
    BY <1>1, InWindows
  <2> QED
    BY <1>4, <2>2, <2>3
<1>9. Refs(server'.messages) = Q \o <<x>> /\ x \in Refnum
  <2>1. server.messages \in Seq(Message) /\ msg \in Seq(Message) /\ Len(msg) = 1
    BY <1>4, <1>8
  <2> HIDE DEF msg
  <2>2. Refs(server.messages \o msg) = Refs(server.messages) \o Refs(msg)
    BY <2>1, RefFields, RefsConcat
  <2>3. Refs(msg) = <<msg[1].ref>> /\ msg[1].ref \in Refnum
    BY <2>1, RefFields, RefsOfOne
  <2>4. server'.messages = server.messages \o msg
    BY <1>5 DEF msg
  <2> QED
    BY <2>2, <2>3, <2>4
<1> DEFINE V == InRing(given - 1)'
<1>10. InRing(given) = <<x>> \o V /\ V \in Seq(Refnum)
  <2>1. given \in 1 .. CommandRing
    BY <1>2, RingLengths
  <2>2. \A i \in 0 .. CommandRing - 1 : Ahead(i, uda.cptr, CommandRing) < given =>
          cring[i].msg[1].ref \in Refnum
    BY <1>1, InWindows
  <2> DEFINE p == uda.cptr
             n == CommandRing
             ring == cring
             after == cring'
             q == uda'.cptr
             h == given - 1
  <2>3. Taken(ring, after, p, q, n, given, h)
    BY <1>4, <1>5, <1>6, <2>1, <2>2, RingLengths DEF Taken
  <2> HIDE DEF p, n, ring, after, q, h
  <2>4. /\ WindowOf(after, q, n, h) \in Seq(Refnum)
        /\ WindowOf(ring, p, n, given) = Prefixed(ring[p].msg[1].ref, WindowOf(after, q, n, h))
    BY <2>3, WindowFirst
  <2> QED
    BY <2>4 DEF InRing, Prefixed, p, n, ring, after, q, h
<1>11. service_waiting = R \o Q \o (<<x>> \o V) /\ service_waiting' = R \o (Q \o <<x>>) \o V
  BY <1>3, <1>5, <1>7, <1>9, <1>10 DEF View
<1>12. service_waiting' = service_waiting
  <2>1. R \in Seq(Refnum) /\ Q \in Seq(Refnum) /\ <<x>> \in Seq(Refnum) /\ V \in Seq(Refnum)
    BY <1>7, <1>9, <1>10
  <2> HIDE DEF R, Q, x, V
  <2>2. (R \o Q) \o (<<x>> \o V) = (R \o (Q \o <<x>>)) \o V
    BY <2>1, Regroup
  <2> QED
    BY <1>11, <2>2
<1>13. service_answered' = service_answered
  BY <1>5 DEF service_answered, HostRuns, command_return
<1> QED
  BY <1>12, <1>13

LEMMA PollCommandServes ==
  MscpTypeOK /\ Handshake /\ RingsInStep /\ ~mscp_past.overrun /\ HostRuns /\ HostRuns' /\ MscpTypeOK' /\ Seen' /\
    poll_command =>
    UNCHANGED <<service_waiting, service_answered>>
<1> SUFFICES ASSUME MscpTypeOK, Handshake, RingsInStep, ~mscp_past.overrun, HostRuns, HostRuns', MscpTypeOK', Seen',
                      poll_command
             PROVE  UNCHANGED <<service_waiting, service_answered>>
  OBVIOUS
<1>1. PICK given \in 0 .. 2, unread \in 0 .. 2 : Outstanding(given, unread)
  BY RunningFacts
<1>2. /\ Outstanding(given, unread)'
      /\ server.messages # <<>> /\ server'.messages = Tail(server.messages)
      /\ Len(server.response) = 0 /\ Len(server'.response) = 1
      /\ server'.response[1].ref = Head(server.messages).ref
  BY <1>1, PollCommandRings
<1>3. View(given, unread)'
  BY <1>1, <1>2 DEF Seen
<1>4. uda' = uda /\ cring' = cring /\ rring' = rring /\ host' = host
  BY DEF poll_command
<1>5. server.messages \in Seq(Message) /\ server.response \in Seq(Response) /\
        server'.response \in Seq(Response)
  BY RunningFacts DEF MscpTypeOK, ServerState
<1> DEFINE y == Head(server.messages).ref
           T == Refs(Tail(server.messages))
           W == InRing(given)
<1>6. W \in Seq(Refnum) /\ View(given, unread) /\ InRing(given)' = W
  BY <1>1, <1>4, ViewTypes DEF InRing
<1>7. Refs(server.response) = <<>>
  <2>1. server.response = <<>>
    BY <1>2, <1>5
  <2> QED
    BY <2>1 DEF Refs
<1>8. Refs(server'.response) = <<y>> /\ Refs(server'.messages) = T
  BY <1>2, <1>5, RefFields, RefsOfOne
<1>9. Refs(server.messages) = <<y>> \o T /\ Refs(server.messages) \in Seq(Refnum)
  BY <1>2, <1>5, RefFields, RefsHead, RefsType
<1>10. <<>> \o Refs(server.messages) = Refs(server.messages)
  BY <1>9, ConcatEmptySeq
<1>11. service_waiting = (<<y>> \o T) \o W /\ service_waiting' = (<<y>> \o T) \o W
  BY <1>3, <1>6, <1>7, <1>8, <1>9, <1>10 DEF View
<1>12. service_answered' = service_answered
  BY <1>4 DEF service_answered, HostRuns, poll_command
<1> QED
  BY <1>11, <1>12

(* The response in the ring is the answer.                                   *)
LEMMA PostReturnServes ==
  MscpTypeOK /\ Handshake /\ RingsInStep /\ ~mscp_past.overrun /\ HostRuns /\ HostRuns' /\ Seen' /\ post_return =>
    Service!Answer
<1> SUFFICES ASSUME MscpTypeOK, Handshake, RingsInStep, ~mscp_past.overrun, HostRuns, HostRuns', Seen', post_return
             PROVE  Service!Answer
  OBVIOUS
<1>1. PICK given \in 0 .. 2, unread \in 0 .. 2 : Outstanding(given, unread)
  BY RunningFacts
<1>2. unread + 1 \in 0 .. 2 /\ Outstanding(given, unread + 1)'
  BY <1>1, PostReturnRings
<1>3. View(given, unread + 1)'
  BY <1>1, <1>2 DEF Seen
<1>4. /\ ~uda.line_INIT /\ ~DmaFails /\ uda.rptr \in 0 .. ResponseRing - 1 /\
           host.rptr \in 0 .. ResponseRing - 1
      /\ server.messages \in Seq(Message) /\ server.response \in Seq(Response)
      /\ DOMAIN rring = 0 .. ResponseRing - 1
  BY RunningFacts
<1>5. /\ cring' = cring /\ host' = host /\ server'.messages = server.messages
      /\ server'.response = <<>> /\ Len(server.response) = 1
      /\ rring' = [rring EXCEPT ![uda.rptr] = [own |-> FALSE, flag |-> TRUE, msg |-> server.response]]
      /\ uda'.cptr = uda.cptr
  <2>1. server \in ServerState /\ uda \in UdaState
    BY DEF MscpTypeOK
  <2> QED
    BY <1>4, <2>1
    DEF post_return, ServerStep, AfterDma, ServerState, Interrupt, UdaState, Handshake,
       PollInStep, Responding
<1>6. /\ \A i \in 0 .. ResponseRing - 1 : i # uda.rptr => rring'[i] = rring[i]
      /\ rring'[uda.rptr].msg = server.response
  BY <1>4, <1>5
<1> DEFINE x == server.response[1].ref
           Q == Refs(server.messages)
           W == InRing(given)
<1>7. Refs(server.response) = <<x>> /\ x \in Refnum
  BY <1>4, <1>5, RefFields, RefsOfOne
<1>8. Q \in Seq(Refnum) /\ W \in Seq(Refnum) /\ View(given, unread) /\ InRing(given)' = W
  BY <1>1, <1>5, ViewTypes DEF InRing
<1>9. service_waiting = (<<x>> \o Q) \o W /\ service_waiting' = (<<>> \o Q) \o W
  <2>1. Refs(server'.response) = <<>>
    BY <1>5 DEF Refs
  <2> QED
    BY <1>3, <1>5, <1>7, <1>8, <2>1 DEF View
<1>10. service_waiting = <<x>> \o (Q \o W) /\ service_waiting' = Q \o W /\ Q \o W \in Seq(Refnum)
  <2>1. <<x>> \in Seq(Refnum) /\ Q \in Seq(Refnum) /\ W \in Seq(Refnum)
    BY <1>7, <1>8
  <2> HIDE DEF x, Q, W
  <2>2. (<<x>> \o Q) \o W = <<x>> \o (Q \o W) /\ <<>> \o Q = Q /\ Q \o W \in Seq(Refnum)
    BY <2>1, ConcatAssociative, ConcatEmptySeq, ConcatProperties
  <2> QED
    BY <1>9, <2>2
<1>11. service_waiting # <<>> /\ Head(service_waiting) = x /\ Tail(service_waiting) = Q \o W
  BY <1>7, <1>10, AfterOne
<1>12. service_answered' = Append(service_answered, x)
  <2>1. unread \in 0 .. ResponseRing - 1
    BY <1>2, RingLengths
  <2>2. uda.rptr = (host.rptr + unread) % ResponseRing
    BY <1>1 DEF Outstanding
  <2>3. \A i \in 0 .. ResponseRing - 1 : Ahead(i, host.rptr, ResponseRing) < unread =>
          rring[i].msg[1].ref \in Refnum
    BY <1>1, InWindows
  <2>4. WindowOf(rring', host.rptr, ResponseRing, unread + 1)
          = Append(WindowOf(rring, host.rptr, ResponseRing, unread), rring'[uda.rptr].msg[1].ref)
    <3> DEFINE n == ResponseRing
               p == host.rptr
               q == uda.rptr
               ring == rring
               after == rring'
               h == unread + 1
               y == after[q].msg[1].ref
    <3>1. Added(ring, after, p, q, n, unread, h, y)
      BY <1>4, <1>6, <1>7, <2>1, <2>2, <2>3, RingLengths DEF Added
    <3> HIDE DEF n, p, q, ring, after, h, y
    <3>2. WindowOf(after, p, n, h) = Append(WindowOf(ring, p, n, unread), y)
      BY <3>1, WindowLast
    <3> QED
      BY <3>2 DEF n, p, q, ring, after, h, y
  <2> QED
    BY <1>3, <1>5, <1>6, <1>8, <2>4 DEF View, Answered
<1> QED
  BY <1>10, <1>11, <1>12 DEF Service!Answer

LEMMA AppendLast ==
  ASSUME NEW S, NEW s \in Seq(S), NEW t \in Seq(S), NEW x \in S
  PROVE  s \o Append(t, x) = Append(s \o t, x)
<1>1. s \o t \in Seq(S) /\ <<x>> \in Seq(S)
  BY ConcatProperties
<1>2. \A a \in Seq(S), b \in Seq(S), c \in Seq(S) : (a \o b) \o c = a \o (b \o c)
  BY ConcatAssociative, SMTT(60)
<1>3. Append(t, x) = t \o <<x>> /\ Append(s \o t, x) = (s \o t) \o <<x>>
  BY <1>1, AfterOne
<1>4. (s \o t) \o <<x>> = s \o (t \o <<x>>)
  BY <1>1, <1>2, Zenon
<1> QED
  BY <1>3, <1>4, Zenon

(* A command more in the ring.                                               *)
LEMMA GiveCommandServes ==
  ASSUME MscpTypeOK, Handshake, RingsInStep, ~mscp_past.overrun, HostRuns', Seen', NEW cmd \in MscpCommands, GiveCommand(cmd)
  PROVE  Service!Give
<1>0. HostRuns
  BY DEF GiveCommand, HostRuns
<1>1. PICK given \in 0 .. 2, unread \in 0 .. 2 : Outstanding(given, unread)
  BY <1>0, RunningFacts
<1>2. given + 1 \in 0 .. 2 /\ Outstanding(given + 1, unread)'
  BY <1>1, GiveCommandRings
<1>3. View(given + 1, unread)'
  BY <1>1, <1>2 DEF Seen
<1>4. /\ uda.cptr \in 0 .. CommandRing - 1 /\ host.cptr \in 0 .. CommandRing - 1
      /\ host.out \in {0, 1, 2} /\ host.credits \in {1, 2}
      /\ DOMAIN cring = 0 .. CommandRing - 1
  BY <1>0, RunningFacts
<1>5. host.next \in Refnum
  <2>1. host \in HostState
    BY DEF MscpTypeOK
  <2> QED
    BY <2>1 DEF HostState, Refnum
<1>6. /\ uda' = uda /\ server' = server /\ rring' = rring /\ host'.rptr = host.rptr
      /\ \A i \in 0 .. CommandRing - 1 : i # host.cptr => cring'[i] = cring[i]
      /\ cring'[host.cptr].msg[1].ref = host.next
      /\ host.out < host.credits
  <2>1. host \in HostState
    BY DEF MscpTypeOK
  <2> QED
    BY <1>4, <2>1 DEF GiveCommand, HostState
<1> DEFINE R == Refs(server.response)
           Q == Refs(server.messages)
           W == InRing(given)
           x == host.next
<1>7. R \in Seq(Refnum) /\ Q \in Seq(Refnum) /\ W \in Seq(Refnum) /\ View(given, unread)
  BY <1>0, <1>1, ViewTypes
<1>8. InRing(given + 1)' = Append(W, x)
  <2>1. \A i \in 0 .. CommandRing - 1 : Ahead(i, uda.cptr, CommandRing) < given =>
          cring[i].msg[1].ref \in Refnum
    BY <1>0, <1>1, InWindows
  <2>2. host.cptr = (uda.cptr + given) % CommandRing
    BY <1>1 DEF Outstanding
  <2>3. given \in 0 .. CommandRing - 1
    BY <1>2, RingLengths
  <2> DEFINE n == CommandRing
             p == uda.cptr
             q == host.cptr
             ring == cring
             after == cring'
             h == given + 1
             y == host.next
  <2>4. Added(ring, after, p, q, n, given, h, y)
    BY <1>4, <1>5, <1>6, <2>1, <2>2, <2>3, RingLengths DEF Added
  <2> HIDE DEF n, p, q, ring, after, h, y
  <2>5. WindowOf(after, p, n, h) = Append(WindowOf(ring, p, n, given), y)
    BY <2>4, WindowLast
  <2> QED
    BY <1>6, <2>5 DEF InRing, n, p, q, ring, after, h, y
<1>9. service_waiting = (R \o Q) \o W /\ service_waiting' = (R \o Q) \o Append(W, x)
  BY <1>3, <1>6, <1>7, <1>8 DEF View
<1>10. service_waiting' = Append(service_waiting, x)
  <2>1. R \in Seq(Refnum) /\ Q \in Seq(Refnum) /\ W \in Seq(Refnum) /\ x \in Refnum
    BY <1>5, <1>7
  <2> HIDE DEF R, Q, W, x
  <2>2. R \o Q \in Seq(Refnum)
    BY <2>1, ConcatProperties
  <2>3. (R \o Q) \o Append(W, x) = Append((R \o Q) \o W, x)
    BY <2>1, <2>2, AppendLast
  <2> QED
    BY <1>9, <2>3
<1>11. service_answered' = service_answered
  BY <1>3, <1>6, <1>7 DEF View, Answered
<1>12. Len(service_waiting) + Len(service_answered) < INIT_CREDITS + 1
  <2>1. /\ Len(service_waiting) = Len(server.response) + Len(server.messages) + given
        /\ service_answered = Answered(unread) /\ Len(Answered(unread)) = unread
    BY <1>0, <1>1, ViewTypes DEF View
  <2>2. PICK a \in Nat, b \in Nat : a = Len(server.response) /\ b = Len(server.messages)
    BY <1>0, RunningFacts
  <2>3. host.out = given + b + a + unread
    BY <1>1, <2>2 DEF Outstanding
  <2>4. host.out < 2
    BY <1>4, <1>6
  <2>5. Len(service_waiting) = a + b + given /\ Len(service_answered) = unread
    BY <2>1, <2>2
  <2> QED
    BY <2>3, <2>4, <2>5 DEF INIT_CREDITS
<1> QED
  BY <1>5, <1>10, <1>11, <1>12 DEF Service!Give, Refnum

(* A response less.                                                          *)
LEMMA TakeResponseServes ==
  MscpTypeOK /\ Handshake /\ RingsInStep /\ ~mscp_past.overrun /\ HostRuns' /\ Seen' /\ TakeResponse => Service!Take
<1> SUFFICES ASSUME MscpTypeOK, Handshake, RingsInStep, ~mscp_past.overrun, HostRuns', Seen', TakeResponse
             PROVE  Service!Take
  OBVIOUS
<1>0. HostRuns
  BY TakeWhileRunning
<1>1. PICK given \in 0 .. 2, unread \in 0 .. 2 : Outstanding(given, unread)
  BY <1>0, RunningFacts
<1>2. unread - 1 \in 0 .. 2 /\ Outstanding(given, unread - 1)'
  BY <1>1, TakeResponseRings
<1>3. View(given, unread - 1)'
  BY <1>1, <1>2 DEF Seen
<1>4. /\ host.rptr \in 0 .. ResponseRing - 1 /\ DOMAIN rring = 0 .. ResponseRing - 1
  BY <1>0, RunningFacts
<1>5. /\ uda' = uda /\ server' = server /\ cring' = cring
      /\ host'.rptr = (host.rptr + 1) % ResponseRing
      /\ \A i \in 0 .. ResponseRing - 1 : i # host.rptr => rring'[i] = rring[i]
  <2>1. host \in HostState
    BY DEF MscpTypeOK
  <2> QED
    BY <1>4, <2>1 DEF TakeResponse, HostState
<1>6. View(given, unread)
  BY <1>0, <1>1, ViewTypes
<1>7. service_waiting' = service_waiting
  BY <1>3, <1>5, <1>6 DEF View, InRing
<1> DEFINE x == rring[host.rptr].msg[1].ref
           V == Answered(unread - 1)'
<1>8. x \in Refnum /\ V \in Seq(Refnum) /\ Answered(unread) = <<x>> \o V
  <2>1. \A i \in 0 .. ResponseRing - 1 : Ahead(i, host.rptr, ResponseRing) < unread =>
          rring[i].msg[1].ref \in Refnum
    BY <1>0, <1>1, InWindows
  <2>2. unread \in 1 .. ResponseRing
    BY <1>2, RingLengths
  <2> DEFINE n == ResponseRing
             p == host.rptr
             q == host'.rptr
             ring == rring
             after == rring'
             h == unread - 1
  <2>3. Taken(ring, after, p, q, n, unread, h)
    BY <1>4, <1>5, <2>1, <2>2, RingLengths DEF Taken
  <2> HIDE DEF n, p, q, ring, after, h
  <2>4. /\ ring[p].msg[1].ref \in Refnum /\ WindowOf(after, q, n, h) \in Seq(Refnum)
        /\ WindowOf(ring, p, n, unread) = Prefixed(ring[p].msg[1].ref, WindowOf(after, q, n, h))
    BY <2>3, WindowFirst
  <2> QED
    BY <2>4 DEF Answered, Prefixed, n, p, q, ring, after, h
<1>9. service_answered = <<x>> \o V /\ service_answered' = V
  BY <1>3, <1>6, <1>8 DEF View
<1>10. service_answered # <<>> /\ Tail(service_answered) = V
  <2> HIDE DEF x, V
  <2> QED
    BY <1>8, <1>9, AfterOne
<1> QED
  BY <1>7, <1>9, <1>10 DEF Service!Take

(* What leaves the rings and the messages of the server alone the host does  *)
(* not see.                                                                  *)
LEMMA ServiceFrame ==
  ASSUME HostRuns, HostRuns', uda'.cptr = uda.cptr, cring' = cring, rring' = rring,
         host'.rptr = host.rptr, server'.messages = server.messages, server'.response = server.response,
         mscp_past'.overrun = mscp_past.overrun
  PROVE  UNCHANGED <<service_waiting, service_answered>>
BY DEF service_waiting, service_answered

(* A reset of the port, or INIT, takes everything with it.                   *)
LEMMA ResetServes ==
  ~HostRuns' \/ mscp_past'.overrun => [Service!ServiceNext]_<<service_waiting, service_answered>>
<1> SUFFICES ASSUME ~HostRuns' \/ mscp_past'.overrun, ~UNCHANGED <<service_waiting, service_answered>>
             PROVE  Service!ServiceReset
  BY DEF Service!ServiceNext
<1>1. service_waiting' = <<>> /\ service_answered' = <<>>
  BY DEF service_waiting, service_answered
<1>2. <<service_waiting, service_answered>> # <<<<>>, <<>>>>
  BY <1>1
<1> QED
  BY <1>1, <1>2 DEF Service!ServiceReset, Service!service_vars

(* With GO the host begins: the rings and the server are empty.              *)
LEMMA GoServes ==
  MscpTypeOK /\ Handshake /\ SA_write_go /\ MscpTypeOK' /\ Seen' =>
    UNCHANGED <<service_waiting, service_answered>>
<1> SUFFICES ASSUME MscpTypeOK, Handshake, SA_write_go, MscpTypeOK', Seen'
             PROVE  UNCHANGED <<service_waiting, service_answered>>
  OBVIOUS
<1>1. Outstanding(0, 0)' /\ Len(server'.messages) = 0 /\ Len(server'.response) = 0
  BY GoRings
<1>2. View(0, 0)'
  <2>1. 0 \in 0 .. 2
    OBVIOUS
  <2> QED
    BY <1>1, <2>1 DEF Seen
<1>3. server'.messages = <<>> /\ server'.response = <<>>
  <2>1. server'.messages \in Seq(Message) /\ server'.response \in Seq(Response)
    BY DEF MscpTypeOK, ServerState
  <2> QED
    BY <1>1, <2>1
<1>4. Refs(<<>>) = <<>>
  BY DEF Refs
<1>5. InRing(0)' = <<>> /\ Answered(0)' = <<>>
  BY DEF InRing, Answered, WindowOf
<1>6. service_waiting' = <<>> /\ service_answered' = <<>>
  BY <1>2, <1>3, <1>4, <1>5 DEF View
<1>7. ~HostRuns
  BY DEF SA_write_go, HostRuns
<1> QED
  BY <1>6, <1>7 DEF service_waiting, service_answered

LEMMA PollServes ==
  ASSUME MscpTypeOK, Handshake, RingsInStep, ~mscp_past.overrun, HostRuns, HostRuns', MscpTypeOK', Seen', Poll,
         mscp_past'.overrun = mscp_past.overrun
  PROVE  Service!Answer \/ UNCHANGED <<service_waiting, service_answered>>
<1>0. host' = host
  BY DEF Poll, poll_wake, poll_restart, GetNextCommand, command_previous, command_return,
     poll_command,
         PostResponse, Crash, post_previous, post_return, poll_done, poll_end
<1>1. /\ ~DmaFails /\ ~DmaPattern /\ uda.pc \in {"wait", "switch", "Step4"} /\ server \in ServerState
  BY RunningFacts DEF MscpTypeOK
<1>2. ASSUME uda' = uda, cring' = cring, rring' = rring,
             server'.messages = server.messages, server'.response = server.response
      PROVE  UNCHANGED <<service_waiting, service_answered>>
  BY <1>0, <1>2, ServiceFrame
<1>3. CASE poll_wake
  BY <1>1, <1>2, <1>3 DEF poll_wake, ServerStep, ServerState
<1>4. CASE poll_restart
  BY <1>1, <1>4 DEF poll_restart, Handshake, ResetInStep
<1>5. CASE GetNextCommand
  BY <1>1, <1>2, <1>5 DEF GetNextCommand, ServerStep, ServerState
<1>6. CASE command_previous
  BY <1>1, <1>2, <1>6 DEF command_previous, ServerStep, ServerState
<1>7. CASE command_return
  BY <1>7, CommandReturnServes
<1>8. CASE poll_command
  BY <1>8, PollCommandServes
<1>9. CASE PostResponse
  <2>1. CASE Crash
    BY <1>2, <1>9, <2>1 DEF Crash, PostResponse
  <2>2. CASE ~Crash
    BY <1>1, <1>2, <1>9, <2>2 DEF PostResponse, ServerStep, ServerState
  <2> QED
    BY <2>1, <2>2
<1>10. CASE post_previous
  <2>1. CASE Crash
    BY <1>2, <1>10, <2>1 DEF Crash, post_previous
  <2>2. CASE ~Crash
    <3>1. /\ server'.messages = server.messages /\ server'.response = server.response
          /\ uda' = uda /\ cring' = cring /\ rring' = rring
      BY <1>1, <1>10, <2>2 DEF post_previous, ServerStep, AfterDma, ServerState
    <3> QED
      BY <1>2, <3>1
  <2> QED
    BY <2>1, <2>2
<1>11. CASE post_return
  BY <1>11, PostReturnServes
<1>12. CASE poll_done
  BY <1>1, <1>2, <1>12 DEF poll_done, ServerStep, ServerState
<1>13. CASE poll_end
  BY <1>1, <1>2, <1>13 DEF poll_end, ServerStep, ServerState
<1> QED
  BY <1>3, <1>4, <1>5, <1>6, <1>7, <1>8, <1>9, <1>10, <1>11, <1>12, <1>13 DEF Poll

(* Every step of port, server and host is one of MscpService or stutters.    *)
(* Nothing happens any more once the rings were cleared under the host.      *)
LEMMA NotOverrun ==
  ASSUME MscpTypeOK, MscpTypeOK', MscpNext, ~mscp_past'.overrun
  PROVE  mscp_past'.overrun = mscp_past.overrun
<1>1. ~mscp_past.overrun /\ mscp_past.overrun \in BOOLEAN
  BY DEF MscpNext, Running, Ended, MscpTypeOK
<1>2. mscp_past'.overrun \in BOOLEAN
  BY DEF MscpTypeOK
<1> QED
  BY <1>1, <1>2

LEMMA StepServes ==
  ASSUME MscpTypeOK, Handshake, RingsInStep, ~mscp_past.overrun, MscpTypeOK', Handshake', ~mscp_past'.overrun => RingsInStep', MscpNext
  PROVE  [Service!ServiceNext]_<<service_waiting, service_answered>>
<1> SUFFICES ASSUME HostRuns', ~mscp_past'.overrun
             PROVE  [Service!ServiceNext]_<<service_waiting, service_answered>>
  BY ResetServes
<1>a. Seen'
  <2>1. ~Overrun' /\ RingsInStep'
    BY DEF Overrun
  <2> QED
    BY <2>1, ViewIsSeen, PTL
<1>b. mscp_past'.overrun = mscp_past.overrun
  BY NotOverrun
<1>0. uda \in UdaState /\ server \in ServerState /\ host \in HostState
  BY DEF MscpTypeOK
<1>1. CASE UdaWorker
  <2>1. host' = host
    BY <1>1 DEF UdaWorker, worker_take, worker_switch, ServerReset, ResetWait, ResetDone,
       worker_step4, worker_step
  <2>2. HostRuns
    BY <2>1 DEF HostRuns
  <2>3. uda.pc \in {"wait", "switch", "Step4"} /\ uda.initStep = "Complete" /\ ~uda.line_INIT
    BY <2>2, RunningFacts
  <2>7. ~worker_step4
    BY <2>3 DEF worker_step4, MscpTypeOK
  <2>4. \A n \in 1 .. 3 : ~worker_step(n)
    BY <2>3, FourSteps DEF worker_step
  <2>5. worker_take \/ worker_switch
    BY <1>1, <2>3, <2>4, <2>7 DEF UdaWorker, ServerReset, ResetWait, ResetDone
  <2>6. uda'.cptr = uda.cptr /\ server' = server /\ cring' = cring /\ rring' = rring
    BY <1>0, <2>5 DEF worker_take, worker_switch, UdaState
  <2> QED
    BY <1>b, <2>1, <2>2, <2>6, ServiceFrame
<1>2. CASE Poll
  <2>1. host' = host
    BY <1>2 DEF Poll, poll_wake, poll_restart, GetNextCommand, command_previous,
       command_return, poll_command,
                PostResponse, Crash, post_previous, post_return, poll_done, poll_end
  <2>2. HostRuns
    BY <2>1 DEF HostRuns
  <2> QED
    BY <1>2, <1>a, <1>b, <2>2, PollServes DEF Service!ServiceNext
<1>3. CASE HostBegins \/ IP_write
  <2>1. host'.pc = "await1"
    BY <1>3 DEF HostBegins, IP_write, HostStart
  <2> QED
    BY <2>1 DEF HostRuns
<1>4. ASSUME NEW n \in 1 .. 3 PROVE ~SA_write(n)
  <2> SUFFICES ASSUME SA_write(n) PROVE FALSE
    OBVIOUS
  <2>1. host'.pc = Await[n + 1]
    BY <1>0 DEF SA_write, HostState
  <2>2. host'.pc \in {"await2", "await3", "await4"}
    BY <2>1 DEF Await
  <2> QED
    BY <2>2 DEF HostRuns
<1>5. CASE SA_write_go
  BY <1>5, <1>a, GoServes
<1>6. ASSUME NEW cmd \in MscpCommands, GiveCommand(cmd) PROVE Service!Give
  BY <1>6, <1>a, GiveCommandServes
<1>7. CASE TakeResponse
  BY <1>7, <1>a, TakeResponseServes DEF Service!ServiceNext
<1>8. CASE IP_read
  <2>1. /\ uda' = uda /\ cring' = cring /\ rring' = rring /\ host' = [host EXCEPT !.pc = "run"]
        /\ server'.messages = server.messages /\ server'.response = server.response /\ HostRuns
    BY <1>0, <1>8 DEF IP_read, ServerState, HostRuns
  <2> QED
    BY <1>0, <1>b, <2>1, ServiceFrame DEF HostState
<1>9. CASE ServeInterrupt \/ ServeEnd
  <2>1. /\ uda'.cptr = uda.cptr /\ cring' = cring /\ rring' = rring
        /\ server' = server /\ host'.rptr = host.rptr /\ host'.pc = host.pc
    BY <1>0, <1>9 DEF ServeInterrupt, ServeEnd, HostState, UdaState
  <2> QED
    BY <1>b, <2>1, ServiceFrame DEF HostRuns
<1>10. CASE InitOn
  BY <1>10 DEF InitOn, HostRuns, HostStart
<1>11. CASE InitOff
  BY <1>11 DEF InitOff, Handshake, HostInStep, HostRuns
<1> QED
  BY <1>1, <1>2, <1>3, <1>4, <1>5, <1>6, <1>7, <1>8, <1>9, <1>10, <1>11 DEF MscpNext,
     Service!ServiceNext

(* Port and server are an MscpService: every command the host gives is       *)
(* answered once and in order, never after a reset that came behind it, and  *)
(* the commands and responses under way stay within the credits.             *)
THEOREM PortImplementsMscpService == MscpSpec => ImplementsMscpService
<1>1. MscpInit => Service!ServiceInit
  BY DEF MscpInit, HostStart, HostRuns, service_waiting, service_answered, Service!ServiceInit
<1>2. PortSafe /\ PortSafe' /\ [MscpNext]_mscpvars =>
        [Service!ServiceNext]_<<service_waiting, service_answered>>
  <2> SUFFICES ASSUME PortSafe, PortSafe', [MscpNext]_mscpvars
               PROVE  [Service!ServiceNext]_<<service_waiting, service_answered>>
    OBVIOUS
  <2>1. CASE MscpNext
    BY <2>1, StepServes DEF PortSafe, PortIndInv, Handshake, MscpNext, Running, Ended
  <2>2. CASE UNCHANGED mscpvars
    BY <2>2 DEF mscpvars, service_waiting, service_answered, HostRuns
  <2> QED
    BY <2>1, <2>2
<1> QED
  BY <1>1, <1>2, PortStaysSafe, PTL
  DEF MscpSpec, ImplementsMscpService, Service!ServiceSpec, Service!service_vars

-----------------------------------------------------------------------------
(* The DL11-W.                                                             *)
(* The bus holds one access or none.                                       *)
LEMMA DlBusAccess ==
  ASSUME DlTypeOK, dl_bus # <<>>
  PROVE  dl_bus[1] \in DlAccess
<1>1. PICK m \in Nat : m = Len(dl_bus)
  BY DEF DlTypeOK
<1>2. m = 1
  BY <1>1 DEF DlTypeOK
<1> QED  BY <1>1, <1>2 DEF DlTypeOK

LEMMA DlAccessPut ==
  ASSUME NEW a \in DlAccess, dl_bus' = <<a>>
  PROVE  /\ dl_bus' # <<>> /\ dl_bus'[1] = a
         /\ dl_bus' \in Seq(DlAccess) /\ Len(dl_bus') <= 1
OBVIOUS

LEMMA DlAccessGone ==
  ASSUME dl_bus' = <<>>
  PROVE  dl_bus' \in Seq(DlAccess) /\ Len(dl_bus') <= 1
OBVIOUS

(* What set_csr_and_INTR() leaves of the requests.                          *)
LEMMA DlSetCsrType ==
  ASSUME DlTypeOK, NEW s, NEW r \in {"rcv", "xmt"}, intr_level(s, r) \in BOOLEAN
  PROVE  set_csr_and_INTR(s, slu_intr, r) \in [{"rcv", "xmt"} -> [level : BOOLEAN, pending : BOOLEAN]]
BY DEF DlTypeOK, set_csr_and_INTR, line_INIT

LEMMA DlSetCsr ==
  ASSUME DlTypeOK, NEW s, NEW r \in {"rcv", "xmt"}, intr_level(s, r) \in BOOLEAN,
         slu_intr' = set_csr_and_INTR(s, slu_intr, r)
  PROVE  /\ slu_intr'[r].level = intr_level(s, r)
         /\ (slu_intr[r].pending => slu_intr[r].level) => (slu_intr'[r].pending => slu_intr'[r].level)
         /\ \A q \in {"rcv", "xmt"} : q # r => slu_intr'[q] = slu_intr[q]
BY DEF DlTypeOK, set_csr_and_INTR, line_INIT

(* The steps of a thread's call leave the rest alone.                       *)
LEMMA DlCsrAlone ==
  ASSUME NEW r \in {"rcv", "xmt"}, csr_level(r) \/ csr_edge(r) \/ csr_INTR(r)
  PROVE  UNCHANGED <<slu, slu_rcv, slu_xmt, dl_line, ltc, dl_bus, dl_init, dl_prog>>
BY DEF csr_level, csr_edge, csr_INTR, ltcvars

LEMMA DlLevelType ==
  ASSUME NEW s \in SluRecord, NEW r \in {"rcv", "xmt"}
  PROVE  intr_level(s, r) \in BOOLEAN
BY DEF intr_level, SluRecord

LEMMA DlRequestsType ==
  ASSUME DlTypeOK, NEW s \in SluRecord, NEW r \in {"rcv", "xmt"},
         slu_intr' = set_csr_and_INTR(s, slu_intr, r)
  PROVE  slu_intr' \in [{"rcv", "xmt"} -> [level : BOOLEAN, pending : BOOLEAN]]
BY DlLevelType, DlSetCsrType

(* The record of the program with new values.                               *)
LEMMA DlProgType ==
  ASSUME dl_prog \in DlProgRecord, NEW e \in Nat, NEW b \in BOOLEAN,
         NEW c \in DlChar \cup {NoChar}, NEW S \in SUBSET {"rcv", "xmt"}
  PROVE  /\ [dl_prog EXCEPT !.read = c, !.twice = b, !.isr = S] \in DlProgRecord
         /\ [dl_prog EXCEPT !.written = e, !.isr = S, !.disturbed = b] \in DlProgRecord
         /\ [dl_prog EXCEPT !.sent = e, !.again = b] \in DlProgRecord
         /\ [dl_prog EXCEPT !.isr = S] \in DlProgRecord
         /\ [dl_prog EXCEPT !.inits = e, !.isr = S, !.disturbed = b] \in DlProgRecord
         /\ [dl_prog EXCEPT !.overtaken = S, !.disturbed = b] \in DlProgRecord
         /\ [dl_prog EXCEPT !.overtaken = S] \in DlProgRecord
BY DEF DlProgRecord

LEMMA DlLineType ==
  ASSUME dl_line \in DlLineRecord
  PROVE  /\ \A e \in Nat : [dl_line EXCEPT !.sent = e] \in DlLineRecord
         /\ \A q \in Seq(DlChar) : [dl_line EXCEPT !.loop = q] \in DlLineRecord
BY DEF DlLineRecord


LEMMA DlAppended ==
  ASSUME NEW S, NEW q \in Seq(S), NEW e \in S, NEW p, p = Append(q, e), NEW m \in Nat, m = Len(q)
  PROVE  Len(p) = m + 1 /\ p[m + 1] = e /\ \A i \in 1 .. m : p[i] = q[i]
OBVIOUS

LEMMA DlTaken ==
  ASSUME NEW S, NEW q \in Seq(S), q # <<>>, NEW p, p = Tail(q), NEW m \in Nat, m = Len(q)
  PROVE  Len(p) = m - 1 /\ m > 0 /\ Head(q) = q[1] /\ \A i \in 1 .. m - 1 : p[i] = q[i + 1]
OBVIOUS

LEMMA DlTypeStep ==
  ASSUME DlTypeOK, XmtOrder, [DlNext]_dlvars
  PROVE  DlTypeOK'
<1>1. CASE UNCHANGED dlvars
  BY <1>1 DEF dlvars, DlTypeOK
<1>2. ASSUME ReadRBUF PROVE DlTypeOK'
  <2> DEFINE c == IF slu.rcv_buf = NoChar THEN dl_prog.read ELSE slu.rcv_buf
             b == dl_prog.twice \/ slu.rcv_buf \in {dl_prog.read} \ {NoChar}
             S == dl_prog.isr \ {"rcv"}
  <2>1. dl_prog' = [dl_prog EXCEPT !.read = c, !.twice = b, !.isr = S]
    BY <1>2 DEF ReadRBUF
  <2>2. b \in BOOLEAN /\ S \in SUBSET {"rcv", "xmt"} /\ c \in DlChar \cup {NoChar}
    BY DEF DlTypeOK, DlProgRecord, SluRecord
  <2> HIDE DEF b, c, S
  <2>3. dl_prog' \in DlProgRecord
    BY <2>1, <2>2, DlProgType DEF DlTypeOK
  <2>4. dl_bus' \in Seq(DlAccess) /\ Len(dl_bus') <= 1
    BY <1>2, DlAccessPut DEF ReadRBUF, Access, DlAccess
  <2> QED  BY <1>2, <2>3, <2>4 DEF ReadRBUF, sluvars, ltcvars, DlTypeOK
<1>3. ASSUME WriteXBUF PROVE DlTypeOK'
  <2> DEFINE e == dl_prog.written + 1
             b == dl_prog.disturbed \/ slu_xmt.pc = "start"
             S == dl_prog.isr \ {"xmt"}
  <2>1. dl_prog' = [dl_prog EXCEPT !.written = e, !.isr = S, !.disturbed = b]
    BY <1>3 DEF WriteXBUF
  <2>2. e \in Nat /\ e # 0 /\ b \in BOOLEAN /\ S \in SUBSET {"rcv", "xmt"}
    BY DEF DlTypeOK, DlProgRecord
  <2>3. dl_bus' = <<[reg |-> "xbuf", char |-> [src |-> "program", n |-> e]]>>
    BY <1>3 DEF WriteXBUF, Access
  <2> HIDE DEF e, b, S
  <2>4. dl_prog' \in DlProgRecord
    BY <2>1, <2>2, DlProgType DEF DlTypeOK
  <2>5. [reg |-> "xbuf", char |-> [src |-> "program", n |-> e]] \in DlAccess
    BY <2>2 DEF DlAccess
  <2>6. dl_bus' \in Seq(DlAccess) /\ Len(dl_bus') <= 1
    BY <2>3, <2>5, DlAccessPut
  <2> QED  BY <1>3, <2>4, <2>6 DEF WriteXBUF, sluvars, ltcvars, DlTypeOK
<1>4. ASSUME NEW ie \in BOOLEAN, WriteRCSR(ie) PROVE DlTypeOK'
  <2>1. dl_bus' \in Seq(DlAccess) /\ Len(dl_bus') <= 1
    BY <1>4, DlAccessPut DEF WriteRCSR, Access, DlAccess
  <2> QED  BY <1>4, <2>1 DEF WriteRCSR, sluvars, ltcvars, DlTypeOK
<1>5. ASSUME NEW ie \in BOOLEAN, NEW maint \in BOOLEAN, WriteXCSR(ie, maint) PROVE DlTypeOK'
  <2>1. dl_bus' \in Seq(DlAccess) /\ Len(dl_bus') <= 1
    BY <1>5, DlAccessPut DEF WriteXCSR, Access, DlAccess
  <2> QED  BY <1>5, <2>1 DEF WriteXCSR, sluvars, ltcvars, DlTypeOK
<1>6. ASSUME access_ignored PROVE DlTypeOK'
  BY <1>6, DlAccessGone DEF access_ignored, sluvars, ltcvars, DlTypeOK
<1>7. ASSUME access_rbuf PROVE DlTypeOK'
  <2>1. slu' \in SluRecord
    BY <1>7 DEF access_rbuf, DlTypeOK, SluRecord
  <2> QED  BY <1>7, <2>1, DlRequestsType, DlAccessGone DEF access_rbuf, ltcvars, DlTypeOK
<1>8. ASSUME access_rcsr PROVE DlTypeOK'
  <2>1. slu' \in SluRecord
    BY <1>8, DlBusAccess DEF access_rcsr, DlTypeOK, SluRecord, DlAccess
  <2> QED  BY <1>8, <2>1, DlRequestsType, DlAccessGone DEF access_rcsr, ltcvars, DlTypeOK
<1>9. ASSUME access_xcsr PROVE DlTypeOK'
  <2>1. slu' \in SluRecord
    BY <1>9, DlBusAccess DEF access_xcsr, DlTypeOK, SluRecord, DlAccess
  <2> QED  BY <1>9, <2>1, DlRequestsType, DlAccessGone DEF access_xcsr, ltcvars, DlTypeOK
<1>10. ASSUME access_xbuf PROVE DlTypeOK'
  <2>1. slu' \in SluRecord
    BY <1>10, DlBusAccess DEF access_xbuf, DlTypeOK, SluRecord, DlAccess, DlChar
  <2>2. slu_xmt' \in SluXmtRecord
    BY <1>10 DEF access_xbuf, DlTypeOK, SluXmtRecord
  <2> QED  BY <1>10, <2>1, <2>2, DlRequestsType, DlAccessGone DEF access_xbuf, ltcvars,
     DlTypeOK
<1>11. ASSUME rcv_poll PROVE DlTypeOK'
  <2>1. CASE dl_line.loop # <<>> /\ slu_rcv' = [pc |-> "store", byte |-> Head(dl_line.loop)]
             /\ dl_line' = [dl_line EXCEPT !.loop = Tail(@)]
    <3>1. dl_line.loop \in Seq(DlChar)
      BY DEF DlTypeOK, DlLineRecord
    <3>2. Head(dl_line.loop) \in DlChar /\ Tail(dl_line.loop) \in Seq(DlChar)
      BY <2>1, <3>1
    <3>3. dl_line' \in DlLineRecord /\ slu_rcv' \in SluRcvRecord
      BY <2>1, <3>2, DlLineType DEF DlTypeOK, SluRcvRecord
    <3> QED  BY <1>11, <3>3 DEF rcv_poll, ltcvars, DlTypeOK
  <2>2. CASE slu_rcv' = [pc |-> "store", byte |-> [src |-> "line", n |-> dl_line.sent + 1]]
             /\ dl_line' = [dl_line EXCEPT !.sent = @ + 1]
    <3> DEFINE e == dl_line.sent + 1
    <3>1. e \in Nat \ {0} /\ dl_line' = [dl_line EXCEPT !.sent = e]
      BY <2>2 DEF DlTypeOK, DlLineRecord
    <3>2. slu_rcv' = [pc |-> "store", byte |-> [src |-> "line", n |-> e]]
      BY <2>2
    <3> HIDE DEF e
    <3>3. dl_line' \in DlLineRecord
      BY <3>1, DlLineType DEF DlTypeOK
    <3>4. [src |-> "line", n |-> e] \in DlChar
      BY <3>1 DEF DlChar
    <3>5. slu_rcv' \in SluRcvRecord
      BY <3>2, <3>4 DEF SluRcvRecord
    <3> QED  BY <1>11, <3>3, <3>5 DEF rcv_poll, ltcvars, DlTypeOK
  <2> QED  BY <1>11, <2>1, <2>2 DEF rcv_poll
<1>12. ASSUME rcv_store PROVE DlTypeOK'
  BY <1>12 DEF rcv_store, ltcvars, DlTypeOK, SluRecord, SluRcvRecord
<1>13. ASSUME NEW r \in {"rcv", "xmt"}, csr_level(r) \/ csr_edge(r) \/ csr_INTR(r)
      PROVE  DlTypeOK'
  <2>1. slu_csr' \in [{"rcv", "xmt"} -> {"none", "call", "high", "low", "raise", "fall"}]
    BY <1>13 DEF csr_level, csr_edge, csr_INTR, DlTypeOK
  <2>2. slu_intr' \in [{"rcv", "xmt"} -> [level : BOOLEAN, pending : BOOLEAN]]
    <3> DEFINE level == slu_csr[r] = "high"
               pending == slu_csr[r] = "raise" /\ (slu_intr[r].pending \/ ~line_INIT)
    <3>1. CASE csr_level(r)
      BY <3>1 DEF csr_level, DlTypeOK
    <3>2. level \in BOOLEAN /\ pending \in BOOLEAN
      OBVIOUS
    <3>3. CASE slu_intr' = [slu_intr EXCEPT ![r].level = level]
      <4> HIDE DEF level
      <4> QED  BY <3>2, <3>3 DEF DlTypeOK
    <3>4. CASE slu_intr' = [slu_intr EXCEPT ![r].pending = pending]
      <4> HIDE DEF pending
      <4> QED  BY <3>2, <3>4 DEF DlTypeOK
    <3>5. csr_INTR(r) => slu_intr' = [slu_intr EXCEPT ![r].pending = pending]
      BY DEF csr_INTR
    <3>6. csr_edge(r) => slu_intr' = [slu_intr EXCEPT ![r].level = level]
      BY DEF csr_edge
    <3> QED  BY <1>13, <3>1, <3>3, <3>4, <3>5, <3>6
  <2> QED  BY <1>13, <2>1, <2>2, DlCsrAlone DEF DlTypeOK
<1>14. ASSUME xmt_start PROVE DlTypeOK'
  BY <1>14 DEF xmt_start, ltcvars, DlTypeOK, SluXmtRecord
<1>15. ASSUME xmt_send PROVE DlTypeOK'
  <2> DEFINE e == dl_prog.sent + 1
             b == dl_prog.again \/ slu.xmt_buf.n # dl_prog.sent + 1
  <2>1. dl_prog' = [dl_prog EXCEPT !.sent = e, !.again = b]
    BY <1>15 DEF xmt_send
  <2>2. e \in Nat /\ b \in BOOLEAN
    BY DEF DlTypeOK, DlProgRecord
  <2> HIDE DEF e, b
  <2>3. dl_prog' \in DlProgRecord
    BY <2>1, <2>2, DlProgType DEF DlTypeOK
  <2>4. slu' \in SluRecord
    BY <1>15 DEF xmt_send, DlTypeOK, SluRecord
  <2>5. slu_xmt' \in SluXmtRecord
    BY <1>15 DEF xmt_send, DlTypeOK, SluXmtRecord, SluRecord, XmtOrder
  <2> QED  BY <1>15, <2>3, <2>4, <2>5, DlRequestsType DEF xmt_send, ltcvars, DlTypeOK
<1>16. ASSUME xmt_done PROVE DlTypeOK'
  <2>1. slu' \in SluRecord /\ slu_xmt' \in SluXmtRecord
    BY <1>16 DEF xmt_done, DlTypeOK, SluRecord, SluXmtRecord
  <2>2. dl_line.loop \in Seq(DlChar) /\ slu_xmt.byte \in DlChar
    BY <1>16 DEF xmt_done, DlTypeOK, SluXmtRecord, DlLineRecord
  <2>3. Append(dl_line.loop, slu_xmt.byte) \in Seq(DlChar)
    BY <2>2
  <2>4. dl_line' \in DlLineRecord
    BY <1>16, <2>3, DlLineType DEF xmt_done, DlTypeOK
  <2> QED  BY <1>16, <2>1, <2>4, DlRequestsType DEF xmt_done, ltcvars, DlTypeOK
<1>17. ASSUME NEW r \in {"rcv", "xmt"}, TakeInterrupt(r) PROVE DlTypeOK'
  <2>1. dl_prog.isr \cup {r} \in SUBSET {"rcv", "xmt"}
    BY DEF DlTypeOK, DlProgRecord
  <2>2. dl_prog' \in DlProgRecord
    BY <1>17, <2>1, DlProgType DEF TakeInterrupt, DlTypeOK
  <2> QED  BY <1>17, <2>2 DEF TakeInterrupt, ltcvars, DlTypeOK
<1>18. ASSUME ltc_edge PROVE DlTypeOK'
  BY <1>18 DEF ltc_edge, sluvars, DlTypeOK, LtcRecord
<1>19. ASSUME ltc_tick PROVE DlTypeOK'
  <2> DEFINE l == IF ltc.due /\ line_INIT THEN ltc.lks ELSE ltc.val
             b == ltc.pending \/ (ltc.due /\ ~line_INIT)
  <2>1. l \in BOOLEAN /\ b \in BOOLEAN
    BY DEF DlTypeOK, LtcRecord
  <2>2. ltc' = [ltc EXCEPT !.pc = "wait", !.lks = l, !.due = FALSE, !.pending = b]
    BY <1>19 DEF ltc_tick
  <2> HIDE DEF l, b
  <2>3. ltc' \in LtcRecord
    BY <2>1, <2>2 DEF DlTypeOK, LtcRecord
  <2> QED  BY <1>19, <2>3 DEF ltc_tick, sluvars, DlTypeOK
<1>20. ASSUME ltc_interrupt PROVE DlTypeOK'
  BY <1>20 DEF ltc_interrupt, sluvars, DlTypeOK, LtcRecord
<1>21. ASSUME NEW ie \in BOOLEAN, NEW monitor \in BOOLEAN, access_lks(ie, monitor)
      PROVE  DlTypeOK'
  <2> DEFINE m == ltc.monitor /\ monitor
             b == ltc.pending /\ ie /\ m
  <2>1. m \in BOOLEAN /\ b \in BOOLEAN
    OBVIOUS
  <2>2. ltc' = [ltc EXCEPT !.ie = ie, !.monitor = m, !.lks = m, !.pending = b, !.served = FALSE]
    BY <1>21 DEF access_lks
  <2> HIDE DEF m, b
  <2>3. ltc' \in LtcRecord
    BY <2>1, <2>2 DEF DlTypeOK, LtcRecord
  <2> QED  BY <1>21, <2>3 DEF access_lks, sluvars, DlTypeOK
<1>22. ASSUME dl_init_on PROVE DlTypeOK'
  <2> DEFINE e == dl_prog.inits + 1
             b == dl_prog.disturbed \/ dl_bus # <<>>
             S == {}
  <2>1. dl_prog' = [dl_prog EXCEPT !.inits = e, !.isr = S, !.disturbed = b]
    BY <1>22 DEF dl_init_on
  <2>2. e \in Nat /\ b \in BOOLEAN /\ S \in SUBSET {"rcv", "xmt"}
    BY DEF DlTypeOK, DlProgRecord
  <2> HIDE DEF e, b, S
  <2>3. dl_prog' \in DlProgRecord
    BY <2>1, <2>2, DlProgType DEF DlTypeOK
  <2> QED  BY <1>22, <2>3 DEF dl_init_on, sluvars, ltcvars, DlTypeOK
<1>23. ASSUME dl_init_reset PROVE DlTypeOK'
  <2> DEFINE S == dl_prog.overtaken \cup OnTheWay
  <2>1. dl_prog' = [dl_prog EXCEPT !.overtaken = S]
    BY <1>23 DEF dl_init_reset
  <2>2. S \in SUBSET {"rcv", "xmt"}
    BY DEF DlTypeOK, DlProgRecord, OnTheWay
  <2> HIDE DEF S
  <2>3. dl_prog' \in DlProgRecord
    BY <2>1, <2>2, DlProgType DEF DlTypeOK
  <2>4. slu' \in SluRecord /\ ltc' \in LtcRecord
    BY <1>23 DEF dl_init_reset, slu_reset, DlTypeOK, SluRecord, LtcRecord
  <2> QED  BY <1>23, <2>3, <2>4 DEF dl_init_reset, DlTypeOK
<1>24. ASSUME dl_init_off PROVE DlTypeOK'
  BY <1>24 DEF dl_init_off, sluvars, ltcvars, DlTypeOK
<1>25. ASSUME xmt_active PROVE DlTypeOK'
  <2>1. slu_xmt' \in SluXmtRecord
    BY <1>25 DEF xmt_active, DlTypeOK, SluXmtRecord
  <2> QED  BY <1>25, <2>1 DEF xmt_active, ltcvars, DlTypeOK
<1>26. ASSUME dl_init_flags PROVE DlTypeOK'
  <2> DEFINE b == dl_prog.disturbed \/ slu_xmt.pc \in {"active", "shift"} \/ slu_xmt.signal
             S == dl_prog.overtaken \cup OnTheWay
  <2>1. dl_prog' = [dl_prog EXCEPT !.overtaken = S, !.disturbed = b]
    BY <1>26 DEF dl_init_flags
  <2>2. S \in SUBSET {"rcv", "xmt"} /\ b \in BOOLEAN
    BY DEF DlTypeOK, DlProgRecord, SluXmtRecord, OnTheWay
  <2> HIDE DEF b, S
  <2>3. dl_prog' \in DlProgRecord
    BY <2>1, <2>2, DlProgType DEF DlTypeOK
  <2>4. slu' \in SluRecord
    BY <1>26 DEF dl_init_flags, slu_reset_flags, DlTypeOK, SluRecord
  <2> QED  BY <1>26, <2>3, <2>4 DEF dl_init_flags, ltcvars, DlTypeOK
<1>27. ASSUME ltc_level PROVE DlTypeOK'
  BY <1>27 DEF ltc_level, sluvars, DlTypeOK, LtcRecord
<1> QED
  BY <1>1, <1>2, <1>3, <1>4, <1>5, <1>6, <1>7, <1>8, <1>9, <1>10, <1>11, <1>12, <1>13,
     <1>14, <1>15, <1>16, <1>17, <1>18, <1>19, <1>20, <1>21, <1>22, <1>23, <1>24, <1>25,
     <1>26, <1>27 DEF DlNext, SluNext, LtcNext

(* The clock and the serial line leave each other alone.                    *)
LEMMA DlLtcAlone ==
  ASSUME LtcNext
  PROVE  UNCHANGED <<slu, slu_intr, slu_csr, slu_rcv, slu_xmt, dl_line, dl_bus, dl_init, dl_prog>>
BY DEF LtcNext, ltc_edge, ltc_level, ltc_tick, ltc_interrupt, access_lks, sluvars

LEMMA DlSluAlone ==
  ASSUME SluNext
  PROVE  UNCHANGED <<ltc, dl_init>>
BY DEF SluNext, ReadRBUF, WriteXBUF, WriteRCSR, WriteXCSR, access_ignored, access_rbuf,
   access_rcsr, access_xcsr, access_xbuf, rcv_poll, rcv_store, csr_level, csr_edge,
   csr_INTR, xmt_start, xmt_send, xmt_active, xmt_done, TakeInterrupt, ltcvars

LEMMA DlCallsStep ==
  ASSUME DlTypeOK, XmtCalls, [DlNext]_dlvars
  PROVE  XmtCalls'
<1>1. CASE UNCHANGED dlvars
  BY <1>1 DEF dlvars, XmtCalls
<1>2. CASE UNCHANGED <<slu_csr, slu_xmt>>
  BY <1>2 DEF XmtCalls
<1>3. ASSUME access_xbuf PROVE XmtCalls'
  BY <1>3 DEF access_xbuf, XmtCalls, DlTypeOK, SluXmtRecord
<1>4. ASSUME rcv_store PROVE XmtCalls'
  BY <1>4 DEF rcv_store, XmtCalls, DlTypeOK
<1>5. ASSUME NEW r \in {"rcv", "xmt"}, csr_level(r) \/ csr_edge(r) \/ csr_INTR(r)
      PROVE  XmtCalls'
  BY <1>5 DEF csr_level, csr_edge, csr_INTR, XmtCalls, DlTypeOK
<1>6. ASSUME xmt_start \/ xmt_send \/ xmt_active \/ xmt_done PROVE XmtCalls'
  <2>1. CASE xmt_start
    BY <2>1 DEF xmt_start, XmtCalls, DlTypeOK, SluXmtRecord
  <2>2. CASE xmt_send
    BY <2>2 DEF xmt_send, XmtCalls
  <2>3. CASE xmt_active
    BY <2>3 DEF xmt_active, XmtCalls, DlTypeOK
  <2>4. CASE xmt_done
    BY <2>4 DEF xmt_done, XmtCalls
  <2> QED  BY <1>6, <2>1, <2>2, <2>3, <2>4
<1>7. (ReadRBUF \/ WriteXBUF \/ access_ignored \/ access_rbuf \/ access_rcsr \/ access_xcsr
        \/ rcv_poll \/ dl_init_on \/ dl_init_flags \/ dl_init_reset \/ dl_init_off)
      => UNCHANGED <<slu_csr, slu_xmt>>
  BY DEF ReadRBUF, WriteXBUF, access_ignored, access_rbuf, access_rcsr, access_xcsr, rcv_poll,
     dl_init_on, dl_init_flags, dl_init_reset, dl_init_off, sluvars
<1>8. ASSUME NEW ie \in BOOLEAN, NEW maint \in BOOLEAN, WriteRCSR(ie) \/ WriteXCSR(ie, maint)
      PROVE  UNCHANGED <<slu_csr, slu_xmt>>
  BY <1>8 DEF WriteRCSR, WriteXCSR, sluvars
<1>9. ASSUME NEW r \in {"rcv", "xmt"}, TakeInterrupt(r) PROVE UNCHANGED <<slu_csr, slu_xmt>>
  BY <1>9 DEF TakeInterrupt
<1>10. LtcNext => UNCHANGED <<slu_csr, slu_xmt>>
  BY DlLtcAlone
<1> QED
  BY <1>1, <1>2, <1>3, <1>4, <1>5, <1>6, <1>7, <1>8, <1>9, <1>10 DEF DlNext, SluNext

LEMMA DlLevelsStep ==
  ASSUME DlTypeOK, DlTypeOK', XmtCalls, LevelsSeen, [DlNext]_dlvars
  PROVE  LevelsSeen'
<1>1. CASE UNCHANGED dlvars
  BY <1>1 DEF dlvars, LevelsSeen
<1> DEFINE LineSeen(r) ==
      /\ slu_intr[r].pending => slu_intr[r].level \/ slu_csr[r] = "fall"
      /\ slu_csr[r] \in {"none", "raise", "fall"} => slu_intr[r].level = intr_level(slu, r)
      /\ slu_csr[r] \in {"high", "raise"} => intr_level(slu, r)
      /\ slu_csr[r] \in {"low", "fall"} => ~intr_level(slu, r)
<1>2. ASSUME ReadRBUF PROVE LevelsSeen'
  BY <1>2 DEF ReadRBUF, sluvars, LevelsSeen, DlTypeOK, DlProgRecord
<1>3. ASSUME WriteXBUF PROVE LevelsSeen'
  BY <1>3 DEF WriteXBUF, sluvars, LevelsSeen, DlTypeOK, DlProgRecord
<1>4. ASSUME NEW ie \in BOOLEAN, WriteRCSR(ie) PROVE LevelsSeen'
  BY <1>4 DEF WriteRCSR, sluvars, LevelsSeen
<1>5. ASSUME NEW ie \in BOOLEAN, NEW maint \in BOOLEAN, WriteXCSR(ie, maint) PROVE LevelsSeen'
  BY <1>5 DEF WriteXCSR, sluvars, LevelsSeen
<1>6. ASSUME access_ignored PROVE LevelsSeen'
  BY <1>6 DEF access_ignored, sluvars, LevelsSeen
<1>7. ASSUME access_rbuf PROVE LevelsSeen'
  <2> SUFFICES ASSUME dl_init' # "flags", NEW r \in {"rcv", "xmt"} \ dl_prog'.overtaken PROVE LineSeen(r)'
    BY DEF LevelsSeen
  <2>1. dl_prog' = dl_prog /\ dl_init' = dl_init /\ slu_csr' = slu_csr /\ slu_csr["rcv"] = "none"
        /\ slu_intr' = set_csr_and_INTR(slu', slu_intr, "rcv") /\ slu' \in SluRecord
        /\ intr_level(slu', "xmt") = intr_level(slu, "xmt")
    BY <1>7 DEF access_rbuf, rcv_locked, DlTypeOK, SluRecord, intr_level
  <2>2. LineSeen(r)
    BY <2>1 DEF LevelsSeen
  <2>3. CASE r = "rcv"
    BY <2>1, <2>2, <2>3, DlSetCsr, DlLevelType
  <2>4. CASE r = "xmt"
    BY <2>1, <2>2, <2>4, DlSetCsr, DlLevelType
  <2> QED  BY <2>3, <2>4
<1>8. ASSUME access_rcsr PROVE LevelsSeen'
  <2> SUFFICES ASSUME dl_init' # "flags", NEW r \in {"rcv", "xmt"} \ dl_prog'.overtaken PROVE LineSeen(r)'
    BY DEF LevelsSeen
  <2>1. dl_prog' = dl_prog /\ dl_init' = dl_init /\ slu_csr' = slu_csr /\ slu_csr["rcv"] = "none"
        /\ slu_intr' = set_csr_and_INTR(slu', slu_intr, "rcv") /\ slu' \in SluRecord
        /\ intr_level(slu', "xmt") = intr_level(slu, "xmt")
    BY <1>8 DEF access_rcsr, rcv_locked, DlTypeOK, SluRecord, intr_level
  <2>2. LineSeen(r)
    BY <2>1 DEF LevelsSeen
  <2>3. CASE r = "rcv"
    BY <2>1, <2>2, <2>3, DlSetCsr, DlLevelType
  <2>4. CASE r = "xmt"
    BY <2>1, <2>2, <2>4, DlSetCsr, DlLevelType
  <2> QED  BY <2>3, <2>4
<1>9. ASSUME access_xcsr PROVE LevelsSeen'
  <2> SUFFICES ASSUME dl_init' # "flags", NEW r \in {"rcv", "xmt"} \ dl_prog'.overtaken PROVE LineSeen(r)'
    BY DEF LevelsSeen
  <2>1. dl_prog' = dl_prog /\ dl_init' = dl_init /\ slu_csr' = slu_csr /\ slu_csr["xmt"] = "none"
        /\ slu_intr' = set_csr_and_INTR(slu', slu_intr, "xmt") /\ slu' \in SluRecord
        /\ intr_level(slu', "rcv") = intr_level(slu, "rcv")
    BY <1>9 DEF access_xcsr, xmt_locked, DlTypeOK, SluRecord, intr_level
  <2>2. LineSeen(r)
    BY <2>1 DEF LevelsSeen
  <2>3. CASE r = "xmt"
    BY <2>1, <2>2, <2>3, DlSetCsr, DlLevelType
  <2>4. CASE r = "rcv"
    BY <2>1, <2>2, <2>4, DlSetCsr, DlLevelType
  <2> QED  BY <2>3, <2>4
<1>10. ASSUME access_xbuf PROVE LevelsSeen'
  <2> SUFFICES ASSUME dl_init' # "flags", NEW r \in {"rcv", "xmt"} \ dl_prog'.overtaken PROVE LineSeen(r)'
    BY DEF LevelsSeen
  <2>1. dl_prog' = dl_prog /\ dl_init' = dl_init /\ slu_csr' = slu_csr /\ slu_csr["xmt"] = "none"
        /\ slu_intr' = set_csr_and_INTR(slu', slu_intr, "xmt") /\ slu' \in SluRecord
        /\ intr_level(slu', "rcv") = intr_level(slu, "rcv")
    BY <1>10 DEF access_xbuf, xmt_locked, DlTypeOK, SluRecord, intr_level
  <2>2. LineSeen(r)
    BY <2>1 DEF LevelsSeen
  <2>3. CASE r = "xmt"
    BY <2>1, <2>2, <2>3, DlSetCsr, DlLevelType
  <2>4. CASE r = "rcv"
    BY <2>1, <2>2, <2>4, DlSetCsr, DlLevelType
  <2> QED  BY <2>3, <2>4
<1>11. ASSUME rcv_poll PROVE LevelsSeen'
  BY <1>11 DEF rcv_poll, LevelsSeen
<1>12. ASSUME rcv_store PROVE LevelsSeen'
  BY <1>12 DEF rcv_store, rcv_locked, LevelsSeen, intr_level, DlTypeOK, SluRecord
<1>13. ASSUME NEW r \in {"rcv", "xmt"}, csr_level(r) \/ csr_edge(r) \/ csr_INTR(r)
      PROVE  LevelsSeen'
  <2> SUFFICES ASSUME dl_init' # "flags", NEW q \in {"rcv", "xmt"} \ dl_prog'.overtaken PROVE LineSeen(q)'
    BY DEF LevelsSeen
  <2>1. slu' = slu /\ LineSeen(q)
    BY <1>13, DlCsrAlone DEF LevelsSeen
  <2>2. CASE q # r
    <3>1. slu_csr'[q] = slu_csr[q] /\ slu_intr'[q] = slu_intr[q]
      BY <1>13, <2>2 DEF csr_level, csr_edge, csr_INTR, DlTypeOK
    <3>2. intr_level(slu', q) = intr_level(slu, q)
      BY <2>1
    <3> QED  BY <2>1, <3>1, <3>2
  <2>3. CASE q = r
    <3>1. intr_level(slu', r) = intr_level(slu, r) /\ intr_level(slu, r) \in BOOLEAN
          /\ slu_intr[r].level \in BOOLEAN /\ slu_intr[r].pending \in BOOLEAN
      BY <2>1, DlLevelType DEF DlTypeOK
    <3>2. CASE csr_level(r)
      BY <2>1, <2>3, <3>1, <3>2 DEF csr_level, DlTypeOK
    <3>3. CASE csr_edge(r)
      BY <2>1, <2>3, <3>1, <3>3 DEF csr_edge, DlTypeOK
    <3>4. CASE csr_INTR(r)
      BY <2>1, <2>3, <3>1, <3>4 DEF csr_INTR, DlTypeOK
    <3> QED  BY <1>13, <3>2, <3>3, <3>4
  <2> QED  BY <2>2, <2>3
<1>14. ASSUME xmt_start PROVE LevelsSeen'
  BY <1>14 DEF xmt_start, LevelsSeen
<1>15. ASSUME xmt_send PROVE LevelsSeen'
  BY <1>15 DEF xmt_send, xmt_locked, LevelsSeen, intr_level, DlTypeOK, SluRecord, DlProgRecord
<1>16. ASSUME xmt_done PROVE LevelsSeen'
  BY <1>16 DEF xmt_done, XmtCalls, LevelsSeen, intr_level, DlTypeOK, SluRecord
<1>17. ASSUME NEW r \in {"rcv", "xmt"}, TakeInterrupt(r) PROVE LevelsSeen'
  BY <1>17 DEF TakeInterrupt, LevelsSeen, DlTypeOK, DlProgRecord
<1>18. ASSUME LtcNext PROVE LevelsSeen'
  BY <1>18, DlLtcAlone DEF LevelsSeen
<1>19. ASSUME dl_init_on PROVE LevelsSeen'
  BY <1>19 DEF dl_init_on, sluvars, LevelsSeen, DlTypeOK, DlProgRecord
<1>20. ASSUME dl_init_reset PROVE LevelsSeen'
  BY <1>20 DEF dl_init_reset, OnTheWay, DlTypeOK, DlProgRecord, SluRecord, LevelsSeen,
     intr_level, slu_reset
<1>21. ASSUME dl_init_off PROVE LevelsSeen'
  BY <1>21 DEF dl_init_off, sluvars, LevelsSeen
<1>22. ASSUME xmt_active PROVE LevelsSeen'
  BY <1>22 DEF xmt_active, rcv_locked, LevelsSeen, DlTypeOK
<1>23. ASSUME dl_init_flags PROVE LevelsSeen'
  BY <1>23 DEF dl_init_flags, LevelsSeen
<1> QED
  BY <1>1, <1>2, <1>3, <1>4, <1>5, <1>6, <1>7, <1>8, <1>9, <1>10, <1>11, <1>12, <1>13,
     <1>14, <1>15, <1>16, <1>17, <1>18, <1>19, <1>20, <1>21, <1>22, <1>23 DEF DlNext, SluNext

LEMMA DlXmtOrderStep ==
  ASSUME DlTypeOK, DlTypeOK', XmtOrder, [DlNext]_dlvars
  PROVE  XmtOrder'
<1>1. CASE UNCHANGED dlvars
  BY <1>1 DEF dlvars, XmtOrder, OnBus
<1>2. ASSUME ReadRBUF PROVE XmtOrder'
  BY <1>2 DEF ReadRBUF, Access, sluvars, XmtOrder, OnBus
<1>3. ASSUME WriteXBUF PROVE XmtOrder'
  BY <1>3 DEF WriteXBUF, Access, sluvars, DlTypeOK, SluRecord, DlProgRecord, DlChar, NoChar,
     XmtOrder
<1>4. ASSUME NEW ie \in BOOLEAN, WriteRCSR(ie) PROVE XmtOrder'
  BY <1>4 DEF WriteRCSR, Access, sluvars, XmtOrder, OnBus
<1>5. ASSUME NEW ie \in BOOLEAN, NEW maint \in BOOLEAN, WriteXCSR(ie, maint) PROVE XmtOrder'
  BY <1>5 DEF WriteXCSR, Access, sluvars, XmtOrder, OnBus
<1>6. ASSUME access_ignored PROVE XmtOrder'
  BY <1>6 DEF access_ignored, sluvars, XmtOrder, OnBus
<1>7. ASSUME access_rbuf PROVE XmtOrder'
  BY <1>7 DEF access_rbuf, XmtOrder, OnBus
<1>8. ASSUME access_rcsr PROVE XmtOrder'
  BY <1>8 DEF access_rcsr, XmtOrder, OnBus
<1>9. ASSUME access_xcsr PROVE XmtOrder'
  BY <1>9 DEF access_xcsr, XmtOrder, OnBus
<1>10. ASSUME access_xbuf PROVE XmtOrder'
  <2>1. dl_bus[1].char.n = dl_prog.written /\ slu.xmt_buf.n < dl_prog.written
        /\ dl_bus[1].char \in [src : {"program"}, n : Nat \ {0}]
    BY <1>10, DlBusAccess DEF access_xbuf, DlAccess, XmtOrder, OnBus
  <2>2. slu'.xmt_buf = dl_bus[1].char /\ ~OnBus("xbuf")' /\ dl_prog' = dl_prog /\ dl_line' = dl_line
    BY <1>10 DEF access_xbuf, OnBus
  <2>3. slu'.xmt_buf.src = "program" /\ slu'.xmt_buf.n = dl_prog.written /\ slu'.xmt_buf # NoChar
    BY <2>1, <2>2 DEF NoChar
  <2>4. /\ slu_xmt'.signal => slu_xmt.pc = "wait"
        /\ slu_xmt'.pc = slu_xmt.pc /\ slu_xmt'.byte = slu_xmt.byte
    BY <1>10 DEF access_xbuf, DlTypeOK, SluXmtRecord
  <2>5. dl_prog.written \in Nat /\ slu.xmt_buf.n \in Nat
        /\ (slu_xmt.pc \in {"active", "shift"} => slu_xmt.byte.n \in Nat)
    <3>1. dl_prog.written \in Nat /\ slu.xmt_buf \in DlChar \cup {NoChar}
      BY DEF DlTypeOK, DlProgRecord, SluRecord
    <3>2. slu_xmt.pc \in {"active", "shift"} => slu_xmt.byte \in DlChar
      BY DEF DlTypeOK, SluXmtRecord
    <3> QED  BY <3>1, <3>2 DEF DlChar, NoChar
  <2>6. \A i \in 1 .. Len(dl_line.loop) : dl_line.loop[i].n \in Nat
    <3>1. dl_line.loop \in Seq(DlChar)
      BY DEF DlTypeOK, DlLineRecord
    <3>2. ASSUME NEW i \in 1 .. Len(dl_line.loop) PROVE dl_line.loop[i] \in DlChar
      BY <3>1, <3>2, ElementOfSeq
    <3> QED  BY <3>2 DEF DlChar
  <2>7. \A i \in 1 .. Len(dl_line.loop) : dl_line.loop[i].n < dl_prog.written
    BY <2>1, <2>5, <2>6 DEF XmtOrder
  <2> QED
    BY <2>1, <2>2, <2>3, <2>4, <2>5, <2>6, <2>7 DEF XmtOrder
<1>11. ASSUME rcv_poll PROVE XmtOrder'
  <2>1. slu' = slu /\ slu_xmt' = slu_xmt /\ dl_bus' = dl_bus /\ dl_prog' = dl_prog
    BY <1>11 DEF rcv_poll
  <2>2. \A i \in 1 .. Len(dl_line'.loop) :
          \E k \in 1 .. Len(dl_line.loop) : dl_line'.loop[i] = dl_line.loop[k]
    <3>1. PICK m \in Nat : m = Len(dl_line.loop)
      BY DEF DlTypeOK, DlLineRecord
    <3>2. CASE dl_line.loop # <<>> /\ dl_line' = [dl_line EXCEPT !.loop = Tail(@)]
      <4>1. /\ Len(dl_line'.loop) = m - 1
            /\ \A i \in 1 .. m - 1 : dl_line'.loop[i] = dl_line.loop[i + 1]
        BY <3>1, <3>2, DlTaken
      <4> QED  BY <3>1, <4>1
    <3>3. CASE dl_line' = [dl_line EXCEPT !.sent = @ + 1]
      BY <3>3
    <3> QED  BY <1>11, <3>2, <3>3 DEF rcv_poll
  <2> QED  BY <2>1, <2>2 DEF XmtOrder, OnBus
<1>12. ASSUME rcv_store PROVE XmtOrder'
  BY <1>12 DEF rcv_store, XmtOrder, OnBus
<1>13. ASSUME NEW r \in {"rcv", "xmt"}, csr_level(r) \/ csr_edge(r) \/ csr_INTR(r)
      PROVE  XmtOrder'
  BY <1>13, DlCsrAlone DEF XmtOrder, OnBus
<1>14. ASSUME xmt_start PROVE XmtOrder'
  BY <1>14 DEF xmt_start, XmtOrder, OnBus
<1>15. ASSUME xmt_send PROVE XmtOrder'
  BY <1>15 DEF xmt_send, DlTypeOK, SluRecord, DlChar, XmtOrder, OnBus
<1>16. ASSUME xmt_done PROVE XmtOrder'
  BY <1>16 DEF xmt_done, XmtOrder, OnBus
<1>17. ASSUME NEW r \in {"rcv", "xmt"}, TakeInterrupt(r) PROVE XmtOrder'
  BY <1>17 DEF TakeInterrupt, XmtOrder, OnBus
<1>18. ASSUME LtcNext PROVE XmtOrder'
  BY <1>18, DlLtcAlone DEF XmtOrder, OnBus
<1>19. ASSUME dl_init_on PROVE XmtOrder'
  BY <1>19 DEF dl_init_on, sluvars, XmtOrder, OnBus
<1>20. ASSUME dl_init_reset PROVE XmtOrder'
  BY <1>20 DEF dl_init_reset, XmtOrder, OnBus, slu_reset
<1>21. ASSUME dl_init_off PROVE XmtOrder'
  BY <1>21 DEF dl_init_off, sluvars, XmtOrder, OnBus
<1>22. ASSUME xmt_active PROVE XmtOrder'
  BY <1>22 DEF xmt_active, XmtOrder, OnBus
<1>23. ASSUME dl_init_flags PROVE XmtOrder'
  BY <1>23 DEF dl_init_flags, slu_reset_flags, DlTypeOK, SluRecord, DlProgRecord, XmtOrder, OnBus
<1> QED
  BY <1>1, <1>2, <1>3, <1>4, <1>5, <1>6, <1>7, <1>8, <1>9, <1>10, <1>11, <1>12, <1>13,
     <1>14, <1>15, <1>16, <1>17, <1>18, <1>19, <1>20, <1>21, <1>22, <1>23 DEF DlNext, SluNext

LEMMA DlRcvOrderStep ==
  ASSUME DlTypeOK, DlTypeOK', XmtOrder, RcvOrder, [DlNext]_dlvars
  PROVE  RcvOrder'
<1>1. CASE UNCHANGED dlvars
  BY <1>1 DEF dlvars, RcvOrder, Received
<1>2. ASSUME ReadRBUF PROVE RcvOrder'
  BY <1>2 DEF ReadRBUF, Access, sluvars, RcvOrder, Received
<1>3. ASSUME WriteXBUF PROVE RcvOrder'
  BY <1>3 DEF WriteXBUF, Access, sluvars, RcvOrder, Received
<1>4. ASSUME NEW ie \in BOOLEAN, WriteRCSR(ie) PROVE RcvOrder'
  BY <1>4 DEF WriteRCSR, Access, sluvars, RcvOrder, Received
<1>5. ASSUME NEW ie \in BOOLEAN, NEW maint \in BOOLEAN, WriteXCSR(ie, maint) PROVE RcvOrder'
  BY <1>5 DEF WriteXCSR, Access, sluvars, RcvOrder, Received
<1>6. ASSUME access_ignored PROVE RcvOrder'
  BY <1>6 DEF access_ignored, Access, sluvars, RcvOrder, Received
<1>7. ASSUME access_rbuf PROVE RcvOrder'
  BY <1>7 DEF access_rbuf, Access, sluvars, RcvOrder, Received
<1>8. ASSUME access_rcsr PROVE RcvOrder'
  BY <1>8 DEF access_rcsr, Access, sluvars, RcvOrder, Received
<1>9. ASSUME access_xcsr PROVE RcvOrder'
  BY <1>9 DEF access_xcsr, Access, sluvars, RcvOrder, Received
<1>10. ASSUME access_xbuf PROVE RcvOrder'
  <2>1. dl_bus[1].char.n = dl_prog.written /\ slu.xmt_buf.n < dl_prog.written
        /\ dl_bus[1].char \in [src : {"program"}, n : Nat \ {0}]
    BY <1>10, DlBusAccess DEF access_xbuf, DlAccess, XmtOrder, OnBus
  <2> QED
    BY <1>10, <2>1 DEF access_xbuf, DlTypeOK, SluRecord, DlProgRecord, DlChar, NoChar,
       SluRcvRecord, RcvOrder, Received
<1>11. ASSUME rcv_poll PROVE RcvOrder'
  <2>1. PICK m \in Nat : m = Len(dl_line.loop)
    BY DEF DlTypeOK, DlLineRecord
  <2>2. slu' = slu /\ slu_xmt' = slu_xmt /\ dl_prog' = dl_prog /\ slu_rcv.pc = "poll"
    BY <1>11 DEF rcv_poll
  <2>3. CASE dl_line.loop # <<>> /\ slu_rcv' = [pc |-> "store", byte |-> Head(dl_line.loop)]
             /\ dl_line' = [dl_line EXCEPT !.loop = Tail(@)]
    <3>1. /\ Len(dl_line'.loop) = m - 1 /\ m > 0 /\ slu_rcv'.byte = dl_line.loop[1]
          /\ \A i \in 1 .. m - 1 : dl_line'.loop[i] = dl_line.loop[i + 1]
          /\ dl_line'.sent = dl_line.sent
      BY <2>1, <2>3, DlTaken
    <3>2. slu_rcv'.byte.src = "program" /\ slu_rcv'.byte.n <= slu.xmt_buf.n
          /\ (slu_xmt.signal => slu_rcv'.byte.n < slu.xmt_buf.n)
          /\ (slu_xmt.pc \in {"active", "shift"} => slu_rcv'.byte.n < slu_xmt.byte.n)
      BY <2>1, <3>1 DEF XmtOrder
    <3>3. \A c \in Received \cup {slu_rcv'.byte}, i \in 1 .. Len(dl_line'.loop) : Before(c, dl_line'.loop[i])
      <4>1. ASSUME NEW c \in Received, NEW i \in 1 .. m - 1 PROVE Before(c, dl_line'.loop[i])
        BY <2>1, <3>1, <4>1 DEF RcvOrder
      <4>2. ASSUME NEW i \in 1 .. m - 1 PROVE Before(slu_rcv'.byte, dl_line'.loop[i])
        BY <2>1, <3>1, <4>2 DEF RcvOrder
      <4> QED  BY <3>1, <4>1, <4>2
    <3>4. \A i, j \in 1 .. Len(dl_line'.loop) : i < j => Before(dl_line'.loop[i], dl_line'.loop[j])
      <4>1. ASSUME NEW i \in 1 .. m - 1, NEW j \in 1 .. m - 1, i < j
            PROVE  Before(dl_line'.loop[i], dl_line'.loop[j])
        BY <2>1, <3>1, <4>1 DEF RcvOrder
      <4> QED  BY <3>1, <4>1
    <3>5. \A c \in Received : Before(c, slu_rcv'.byte)
      BY <2>1, <3>1 DEF RcvOrder
    <3> QED
      BY <2>2, <3>1, <3>2, <3>3, <3>4, <3>5 DEF RcvOrder, Received, Before
  <2>4. CASE /\ dl_line.loop = <<>> /\ dl_line' = [dl_line EXCEPT !.sent = @ + 1]
             /\ slu_rcv' = [pc |-> "store", byte |-> [src |-> "line", n |-> dl_line.sent + 1]]
    <3> DEFINE next == [src |-> "line", n |-> dl_line.sent + 1]
    <3>1. /\ slu_rcv'.byte = next /\ slu_rcv'.pc = "store" /\ Received' = Received
          /\ dl_line'.loop = <<>> /\ dl_line'.sent = dl_line.sent + 1 /\ dl_line.sent \in Nat
      BY <2>2, <2>4 DEF DlTypeOK, DlLineRecord, Received
    <3>2. \A c \in Received : c.src = "line" => c.n <= dl_line.sent
      BY DEF RcvOrder
    <3>3. \A c \in Received : c.n \in Nat
      BY DEF Received, DlTypeOK, DlProgRecord, SluRecord, DlChar, NoChar
    <3>4. \A c \in Received :
            /\ c.src = "program" =>
                 c.n <= slu.xmt_buf.n /\ (slu_xmt.signal => c.n < slu.xmt_buf.n)
            /\ slu_xmt.pc \in {"active", "shift"} => Before(c, slu_xmt.byte)
      BY DEF RcvOrder
    <3>5. slu_xmt.pc \in {"active", "shift"} => slu_xmt.byte.src = "program"
      BY DEF XmtOrder
    <3>6. \A c \in Received : c.src = "line" => c.n <= dl_line.sent + 1 /\ c.n < dl_line.sent + 1
      BY <3>1, <3>2, <3>3
    <3>7. \A c \in Received : Before(c, next)
      BY <3>6 DEF Before
    <3>8. slu_xmt.pc \in {"active", "shift"} => Before(next, slu_xmt.byte)
      BY <3>5 DEF Before
    <3>9. \A c \in Received \cup {next} :
            /\ c.src = "line" => c.n <= dl_line.sent + 1
            /\ c.src = "program" =>
                 c.n <= slu.xmt_buf.n /\ (slu_xmt.signal => c.n < slu.xmt_buf.n)
            /\ slu_xmt.pc \in {"active", "shift"} => Before(c, slu_xmt.byte)
      BY <3>1, <3>4, <3>6, <3>8
    <3>10. Len(dl_line'.loop) = 0
      BY <3>1
    <3> HIDE DEF next
    <3> QED
      BY <2>2, <3>1, <3>7, <3>9, <3>10 DEF RcvOrder
  <2> QED  BY <1>11, <2>3, <2>4 DEF rcv_poll
<1>12. ASSUME rcv_store PROVE RcvOrder'
  BY <1>12 DEF rcv_store, NoChar, XmtOrder, RcvOrder, Received, Before
<1>13. ASSUME NEW r \in {"rcv", "xmt"}, csr_level(r) \/ csr_edge(r) \/ csr_INTR(r)
      PROVE  RcvOrder'
  BY <1>13, DlCsrAlone DEF RcvOrder, Received
<1>14. ASSUME xmt_start PROVE RcvOrder'
  BY <1>14 DEF xmt_start, Access, sluvars, RcvOrder, Received
<1>15. ASSUME xmt_send PROVE RcvOrder'
  BY <1>15 DEF xmt_send, Access, sluvars, DlTypeOK, SluRecord, DlChar, XmtOrder, RcvOrder,
     Received, Before
<1>16. ASSUME xmt_done PROVE RcvOrder'
  <2>1. PICK m \in Nat : m = Len(dl_line.loop)
    BY DEF DlTypeOK, DlLineRecord
  <2>2. CASE dl_line' = dl_line
    <3>1. slu'.rcv_buf = slu.rcv_buf /\ slu'.xmt_buf = slu.xmt_buf /\ dl_prog' = dl_prog
          /\ slu_rcv' = slu_rcv
          /\ slu_xmt'.pc = "wait" /\ slu_xmt'.signal = FALSE
      BY <1>16 DEF xmt_done
    <3> QED  BY <2>2, <3>1 DEF RcvOrder, Received
  <2>3. CASE dl_line' = [dl_line EXCEPT !.loop = Append(@, slu_xmt.byte)]
    <3>1. dl_line.loop \in Seq(DlChar) /\ slu_xmt.byte \in DlChar
      BY <1>16 DEF xmt_done, DlTypeOK, SluXmtRecord, DlLineRecord
    <3>2. /\ Len(dl_line'.loop) = m + 1 /\ dl_line'.loop[m + 1] = slu_xmt.byte
          /\ \A i \in 1 .. m : dl_line'.loop[i] = dl_line.loop[i]
      BY <2>1, <2>3, <3>1, DlAppended
    <3>3. dl_line'.sent = dl_line.sent
      BY <2>3
    <3>4. slu'.rcv_buf = slu.rcv_buf /\ slu'.xmt_buf = slu.xmt_buf /\ dl_prog' = dl_prog
          /\ slu_rcv' = slu_rcv
          /\ slu_xmt.pc = "shift" /\ slu_xmt'.pc = "wait" /\ slu_xmt'.signal = FALSE
      BY <1>16 DEF xmt_done
    <3>5. \A c \in Received \cup {slu_rcv.byte} : \A i \in 1 .. m + 1 : Before(c, dl_line'.loop[i])
      BY <2>1, <3>2, <3>4 DEF RcvOrder
    <3>6. \A i \in 1 .. m : Before(dl_line.loop[i], slu_xmt.byte)
      BY <2>1, <3>4 DEF XmtOrder, Before
    <3>7. \A i, j \in 1 .. m + 1 : i < j => Before(dl_line'.loop[i], dl_line'.loop[j])
      <4>1. ASSUME NEW i \in 1 .. m, NEW j \in 1 .. m, i < j
            PROVE  Before(dl_line'.loop[i], dl_line'.loop[j])
        BY <2>1, <3>2, <4>1 DEF RcvOrder
      <4>2. ASSUME NEW i \in 1 .. m PROVE Before(dl_line'.loop[i], dl_line'.loop[m + 1])
        BY <3>2, <3>6, <4>2
      <4> QED  BY <4>1, <4>2
    <3> QED
      BY <3>2, <3>3, <3>4, <3>5, <3>7 DEF RcvOrder, Received
  <2> QED  BY <1>16, <2>2, <2>3 DEF xmt_done
<1>17. ASSUME NEW r \in {"rcv", "xmt"}, TakeInterrupt(r) PROVE RcvOrder'
  BY <1>17 DEF TakeInterrupt, Access, sluvars, RcvOrder, Received
<1>18. ASSUME LtcNext PROVE RcvOrder'
  BY <1>18, DlLtcAlone DEF RcvOrder, Received
<1>19. ASSUME dl_init_on PROVE RcvOrder'
  BY <1>19 DEF dl_init_on, Access, sluvars, RcvOrder, Received
<1>20. ASSUME dl_init_reset PROVE RcvOrder'
  BY <1>20 DEF dl_init_reset, slu_reset, DlTypeOK, SluRcvRecord, DlChar, NoChar, XmtOrder,
     RcvOrder, Received, Before
<1>21. ASSUME dl_init_off PROVE RcvOrder'
  BY <1>21 DEF dl_init_off, Access, sluvars, RcvOrder, Received
<1>22. ASSUME xmt_active PROVE RcvOrder'
  BY <1>22 DEF xmt_active, RcvOrder, Received
<1>23. ASSUME dl_init_flags PROVE RcvOrder'
  BY <1>23 DEF dl_init_flags, slu_reset_flags, DlTypeOK, SluRecord, DlProgRecord, RcvOrder, Received
<1> QED
  BY <1>1, <1>2, <1>3, <1>4, <1>5, <1>6, <1>7, <1>8, <1>9, <1>10, <1>11, <1>12, <1>13,
     <1>14, <1>15, <1>16, <1>17, <1>18, <1>19, <1>20, <1>21, <1>22, <1>23 DEF DlNext, SluNext

LEMMA DlRbufStep ==
  ASSUME DlTypeOK, DlTypeOK', RcvOrder, RbufIsNew, [DlNext]_dlvars
  PROVE  RbufIsNew'
<1>1. CASE UNCHANGED dlvars
  BY <1>1 DEF dlvars, RbufIsNew, OnBus
<1>2. ASSUME ReadRBUF PROVE RbufIsNew'
  BY <1>2 DEF ReadRBUF, Access, RbufIsNew, OnBus
<1>3. ASSUME WriteXBUF PROVE RbufIsNew'
  BY <1>3 DEF WriteXBUF, Access, sluvars, RbufIsNew, OnBus
<1>4. ASSUME NEW ie \in BOOLEAN, WriteRCSR(ie) PROVE RbufIsNew'
  BY <1>4 DEF WriteRCSR, Access, sluvars, RbufIsNew, OnBus
<1>5. ASSUME NEW ie \in BOOLEAN, NEW maint \in BOOLEAN, WriteXCSR(ie, maint) PROVE RbufIsNew'
  BY <1>5 DEF WriteXCSR, Access, sluvars, RbufIsNew, OnBus
<1>6. ASSUME access_ignored PROVE RbufIsNew'
  BY <1>6 DEF access_ignored, sluvars, line_INIT, RbufIsNew
<1>7. ASSUME access_rbuf PROVE RbufIsNew'
  BY <1>7 DEF access_rbuf, Access, RbufIsNew
<1>8. ASSUME access_rcsr PROVE RbufIsNew'
  BY <1>8 DEF access_rcsr, Access, RbufIsNew, OnBus
<1>9. ASSUME access_xcsr PROVE RbufIsNew'
  BY <1>9 DEF access_xcsr, Access, RbufIsNew, OnBus
<1>10. ASSUME access_xbuf PROVE RbufIsNew'
  BY <1>10 DEF access_xbuf, Access, RbufIsNew, OnBus
<1>11. ASSUME rcv_poll PROVE RbufIsNew'
  BY <1>11 DEF rcv_poll, Access, RbufIsNew, OnBus
<1>12. ASSUME rcv_store PROVE RbufIsNew'
  BY <1>12 DEF rcv_store, Access, DlTypeOK, DlChar, NoChar, SluRcvRecord, RcvOrder,
     RbufIsNew, Received
<1>13. ASSUME NEW r \in {"rcv", "xmt"}, csr_level(r) \/ csr_edge(r) \/ csr_INTR(r)
      PROVE  RbufIsNew'
  BY <1>13, DlCsrAlone DEF RbufIsNew, OnBus
<1>14. ASSUME xmt_start PROVE RbufIsNew'
  BY <1>14 DEF xmt_start, Access, RbufIsNew, OnBus
<1>15. ASSUME xmt_send PROVE RbufIsNew'
  BY <1>15 DEF xmt_send, Access, RbufIsNew, OnBus
<1>16. ASSUME xmt_done PROVE RbufIsNew'
  BY <1>16 DEF xmt_done, Access, RbufIsNew, OnBus
<1>17. ASSUME NEW r \in {"rcv", "xmt"}, TakeInterrupt(r) PROVE RbufIsNew'
  BY <1>17 DEF TakeInterrupt, Access, RbufIsNew, OnBus
<1>18. ASSUME LtcNext PROVE RbufIsNew'
  BY <1>18, DlLtcAlone DEF RbufIsNew, OnBus
<1>19. ASSUME dl_init_on PROVE RbufIsNew'
  BY <1>19 DEF dl_init_on, Access, RbufIsNew
<1>20. ASSUME dl_init_reset PROVE RbufIsNew'
  BY <1>20 DEF dl_init_reset, Access, RbufIsNew, slu_reset
<1>21. ASSUME dl_init_off PROVE RbufIsNew'
  BY <1>21 DEF dl_init_off, Access, sluvars, RbufIsNew
<1>22. ASSUME xmt_active PROVE RbufIsNew'
  BY <1>22 DEF xmt_active, RbufIsNew, OnBus
<1>23. ASSUME dl_init_flags PROVE RbufIsNew'
  BY <1>23 DEF dl_init_flags, slu_reset_flags, DlTypeOK, SluRecord, DlProgRecord, RbufIsNew, OnBus
<1> QED
  BY <1>1, <1>2, <1>3, <1>4, <1>5, <1>6, <1>7, <1>8, <1>9, <1>10, <1>11, <1>12, <1>13,
     <1>14, <1>15, <1>16, <1>17, <1>18, <1>19, <1>20, <1>21, <1>22, <1>23 DEF DlNext, SluNext

LEMMA DlInStepStep ==
  ASSUME DlTypeOK, DlTypeOK', XmtOrder, XmtInStep, [DlNext]_dlvars
  PROVE  XmtInStep'
<1>1. CASE UNCHANGED dlvars
  BY <1>1 DEF dlvars, XmtInStep, OnBus
<1>2. ASSUME ReadRBUF PROVE XmtInStep'
  BY <1>2 DEF ReadRBUF, Access, sluvars, XmtInStep, OnBus
<1>3. ASSUME WriteXBUF PROVE XmtInStep'
  BY <1>3 DEF WriteXBUF, Access, sluvars, DlTypeOK, DlProgRecord, SluXmtRecord, XmtInStep,
     OnBus
<1>4. ASSUME NEW ie \in BOOLEAN, WriteRCSR(ie) PROVE XmtInStep'
  BY <1>4 DEF WriteRCSR, Access, sluvars, XmtInStep, OnBus
<1>5. ASSUME NEW ie \in BOOLEAN, NEW maint \in BOOLEAN, WriteXCSR(ie, maint) PROVE XmtInStep'
  BY <1>5 DEF WriteXCSR, Access, sluvars, XmtInStep, OnBus
<1>6. ASSUME access_ignored PROVE XmtInStep'
  BY <1>6 DEF access_ignored, sluvars, XmtInStep, OnBus, line_INIT
<1>7. ASSUME access_rbuf PROVE XmtInStep'
  BY <1>7 DEF access_rbuf, XmtInStep, OnBus
<1>8. ASSUME access_rcsr PROVE XmtInStep'
  BY <1>8 DEF access_rcsr, XmtInStep, OnBus
<1>9. ASSUME access_xcsr PROVE XmtInStep'
  BY <1>9 DEF access_xcsr, XmtInStep, OnBus
<1>10. ASSUME access_xbuf PROVE XmtInStep'
  BY <1>10 DEF access_xbuf, DlTypeOK, SluRecord, XmtOrder, XmtInStep, OnBus
<1>11. ASSUME rcv_poll PROVE XmtInStep'
  BY <1>11 DEF rcv_poll, XmtInStep, OnBus
<1>12. ASSUME rcv_store PROVE XmtInStep'
  BY <1>12 DEF rcv_store, XmtInStep, OnBus
<1>13. ASSUME NEW r \in {"rcv", "xmt"}, csr_level(r) \/ csr_edge(r) \/ csr_INTR(r)
      PROVE  XmtInStep'
  BY <1>13, DlCsrAlone DEF XmtInStep, OnBus
<1>14. ASSUME xmt_start PROVE XmtInStep'
  BY <1>14 DEF xmt_start, XmtInStep, OnBus
<1>15. ASSUME xmt_send PROVE XmtInStep'
  BY <1>15 DEF xmt_send, XmtInStep, OnBus
<1>16. ASSUME xmt_done PROVE XmtInStep'
  BY <1>16 DEF xmt_done, DlTypeOK, SluXmtRecord, XmtInStep, OnBus
<1>17. ASSUME NEW r \in {"rcv", "xmt"}, TakeInterrupt(r) PROVE XmtInStep'
  BY <1>17 DEF TakeInterrupt, XmtInStep, OnBus
<1>18. ASSUME LtcNext PROVE XmtInStep'
  BY <1>18, DlLtcAlone DEF XmtInStep, OnBus
<1>19. ASSUME dl_init_on PROVE XmtInStep'
  BY <1>19 DEF dl_init_on, sluvars, DlTypeOK, DlProgRecord, XmtInStep, OnBus
<1>20. ASSUME dl_init_reset PROVE XmtInStep'
  BY <1>20 DEF dl_init_reset, slu_reset, DlTypeOK, SluRecord, DlProgRecord, XmtInStep, OnBus
<1>21. ASSUME dl_init_off PROVE XmtInStep'
  BY <1>21 DEF dl_init_off, sluvars, XmtInStep, OnBus
<1>22. ASSUME xmt_active PROVE XmtInStep'
  BY <1>22 DEF xmt_active, XmtInStep, OnBus
<1>23. ASSUME dl_init_flags PROVE XmtInStep'
  BY <1>23 DEF dl_init_flags, slu_reset_flags, DlTypeOK, SluRecord, DlProgRecord, XmtInStep, OnBus
<1> QED
  BY <1>1, <1>2, <1>3, <1>4, <1>5, <1>6, <1>7, <1>8, <1>9, <1>10, <1>11, <1>12, <1>13,
     <1>14, <1>15, <1>16, <1>17, <1>18, <1>19, <1>20, <1>21, <1>22, <1>23 DEF DlNext, SluNext

LEMMA DlOnceStep ==
  ASSUME DlTypeOK, DlTypeOK', RbufIsNew, XmtInStep, SluCharactersOnce, [DlNext]_dlvars
  PROVE  SluCharactersOnce'
<1>1. CASE UNCHANGED dlvars
  BY <1>1 DEF dlvars, SluCharactersOnce
<1>2. ASSUME ReadRBUF PROVE SluCharactersOnce'
  BY <1>2 DEF ReadRBUF, Access, DlTypeOK, DlProgRecord, DlChar, RbufIsNew,
     SluCharactersOnce, OnBus, Before
<1>3. ASSUME WriteXBUF PROVE SluCharactersOnce'
  BY <1>3 DEF WriteXBUF, DlTypeOK, SluRecord, SluCharactersOnce
<1>4. ASSUME NEW ie \in BOOLEAN, WriteRCSR(ie) PROVE SluCharactersOnce'
  BY <1>4 DEF WriteRCSR, SluCharactersOnce
<1>5. ASSUME NEW ie \in BOOLEAN, NEW maint \in BOOLEAN, WriteXCSR(ie, maint) PROVE SluCharactersOnce'
  BY <1>5 DEF WriteXCSR, SluCharactersOnce
<1>6. ASSUME access_ignored PROVE SluCharactersOnce'
  BY <1>6 DEF access_ignored, SluCharactersOnce
<1>7. ASSUME access_rbuf PROVE SluCharactersOnce'
  BY <1>7 DEF access_rbuf, SluCharactersOnce
<1>8. ASSUME access_rcsr PROVE SluCharactersOnce'
  BY <1>8 DEF access_rcsr, SluCharactersOnce
<1>9. ASSUME access_xcsr PROVE SluCharactersOnce'
  BY <1>9 DEF access_xcsr, SluCharactersOnce
<1>10. ASSUME access_xbuf PROVE SluCharactersOnce'
  BY <1>10 DEF access_xbuf, SluCharactersOnce
<1>11. ASSUME rcv_poll PROVE SluCharactersOnce'
  BY <1>11 DEF rcv_poll, SluCharactersOnce
<1>12. ASSUME rcv_store PROVE SluCharactersOnce'
  BY <1>12 DEF rcv_store, SluCharactersOnce
<1>13. ASSUME NEW r \in {"rcv", "xmt"}, csr_level(r) \/ csr_edge(r) \/ csr_INTR(r)
      PROVE  SluCharactersOnce'
  BY <1>13, DlCsrAlone DEF SluCharactersOnce
<1>14. ASSUME xmt_start PROVE SluCharactersOnce'
  BY <1>14 DEF xmt_start, SluCharactersOnce
<1>15. ASSUME xmt_send PROVE SluCharactersOnce'
  BY <1>15 DEF xmt_send, DlTypeOK, SluRecord, XmtInStep, SluCharactersOnce
<1>16. ASSUME xmt_done PROVE SluCharactersOnce'
  BY <1>16 DEF xmt_done, SluCharactersOnce
<1>17. ASSUME NEW r \in {"rcv", "xmt"}, TakeInterrupt(r) PROVE SluCharactersOnce'
  BY <1>17 DEF TakeInterrupt, SluCharactersOnce
<1>18. ASSUME LtcNext PROVE SluCharactersOnce'
  BY <1>18, DlLtcAlone DEF SluCharactersOnce
<1>19. ASSUME dl_init_on PROVE SluCharactersOnce'
  BY <1>19 DEF dl_init_on, DlTypeOK, DlProgRecord, SluCharactersOnce
<1>20. ASSUME dl_init_reset PROVE SluCharactersOnce'
  BY <1>20 DEF dl_init_reset, DlTypeOK, DlProgRecord, SluCharactersOnce
<1>21. ASSUME dl_init_off PROVE SluCharactersOnce'
  BY <1>21 DEF dl_init_off, SluCharactersOnce
<1>22. ASSUME xmt_active PROVE SluCharactersOnce'
  BY <1>22 DEF xmt_active, SluCharactersOnce
<1>23. ASSUME dl_init_flags PROVE SluCharactersOnce'
  BY <1>23 DEF dl_init_flags, slu_reset_flags, DlTypeOK, SluRecord, DlProgRecord, SluCharactersOnce
<1> QED
  BY <1>1, <1>2, <1>3, <1>4, <1>5, <1>6, <1>7, <1>8, <1>9, <1>10, <1>11, <1>12, <1>13,
     <1>14, <1>15, <1>16, <1>17, <1>18, <1>19, <1>20, <1>21, <1>22, <1>23 DEF DlNext, SluNext

LEMMA DlClockStep ==
  ASSUME DlTypeOK, DlTypeOK', LtcQuietWhenDisabled, LtcDue, [DlNext]_dlvars
  PROVE  LtcQuietWhenDisabled' /\ LtcDue'
<1>1. CASE UNCHANGED dlvars
  BY <1>1 DEF dlvars, LtcQuietWhenDisabled, LtcDue
<1>2. ASSUME SluNext PROVE LtcQuietWhenDisabled' /\ LtcDue'
  BY <1>2, DlSluAlone DEF LtcQuietWhenDisabled, LtcDue
<1>3. ASSUME ltc_edge PROVE LtcQuietWhenDisabled' /\ LtcDue'
  BY <1>3 DEF ltc_edge, DlTypeOK, LtcRecord, LtcQuietWhenDisabled, LtcDue
<1>4. ASSUME ltc_tick PROVE LtcQuietWhenDisabled' /\ LtcDue'
  BY <1>4 DEF ltc_tick, DlTypeOK, LtcRecord, LtcQuietWhenDisabled, LtcDue
<1>5. ASSUME ltc_interrupt PROVE LtcQuietWhenDisabled' /\ LtcDue'
  BY <1>5 DEF ltc_interrupt, DlTypeOK, LtcRecord, LtcQuietWhenDisabled, LtcDue
<1>6. ASSUME NEW ie \in BOOLEAN, NEW monitor \in BOOLEAN, access_lks(ie, monitor)
      PROVE  LtcQuietWhenDisabled' /\ LtcDue'
  BY <1>6 DEF access_lks, DlTypeOK, LtcRecord, LtcQuietWhenDisabled, LtcDue
<1>7. ASSUME dl_init_on PROVE LtcQuietWhenDisabled' /\ LtcDue'
  BY <1>7 DEF dl_init_on, ltcvars, LtcQuietWhenDisabled, LtcDue
<1>8. ASSUME dl_init_reset PROVE LtcQuietWhenDisabled' /\ LtcDue'
  BY <1>8 DEF dl_init_reset, DlTypeOK, LtcRecord, LtcQuietWhenDisabled, LtcDue
<1>9. ASSUME dl_init_off PROVE LtcQuietWhenDisabled' /\ LtcDue'
  BY <1>9 DEF dl_init_off, ltcvars, LtcQuietWhenDisabled, LtcDue
<1>10. ASSUME dl_init_flags PROVE LtcQuietWhenDisabled' /\ LtcDue'
  BY <1>10 DEF dl_init_flags, ltcvars, LtcQuietWhenDisabled, LtcDue
<1>11. ASSUME ltc_level PROVE LtcQuietWhenDisabled' /\ LtcDue'
  BY <1>11 DEF ltc_level, DlTypeOK, LtcRecord, LtcQuietWhenDisabled, LtcDue
<1> QED
  BY <1>1, <1>2, <1>3, <1>4, <1>5, <1>6, <1>7, <1>8, <1>9, <1>10, <1>11 DEF DlNext, LtcNext

LEMMA DlStartsExact ==
  ASSUME DlStart
  PROVE  ConsoleExact
<1>1. DlTypeOK
  <2>1. slu \in SluRecord /\ slu_rcv \in SluRcvRecord /\ slu_xmt \in SluXmtRecord /\ ltc \in LtcRecord
    BY DEF DlStart, SluRecord, SluRcvRecord, SluXmtRecord, LtcRecord
  <2>2. dl_bus \in Seq(DlAccess) /\ Len(dl_bus) <= 1 /\ dl_line \in DlLineRecord
    BY DEF DlStart, DlLineRecord
  <2>3. dl_prog \in DlProgRecord
    BY DEF DlStart, DlProgRecord
  <2>4. slu_intr \in [{"rcv", "xmt"} -> [level : BOOLEAN, pending : BOOLEAN]]
        /\ dl_init \in {"off", "on", "flags", "reset"}
        /\ slu_csr \in [{"rcv", "xmt"} -> {"none", "call", "high", "low", "raise", "fall"}]
    BY DEF DlStart
  <2> QED  BY <2>1, <2>2, <2>3, <2>4 DEF DlTypeOK
<1>2. LevelsSeen /\ SluInterruptMatches /\ XmtCalls
  BY DEF DlStart, LevelsSeen, SluInterruptMatches, XmtCalls, intr_level
<1>3. XmtOrder /\ RcvOrder
  BY DEF DlStart, XmtOrder, RcvOrder, Received, OnBus, NoChar
<1>4. RbufIsNew /\ XmtInStep /\ SluCharactersOnce /\ LtcQuietWhenDisabled /\ LtcDue
  BY DEF DlStart, LtcDue, RbufIsNew, XmtInStep, SluCharactersOnce, LtcQuietWhenDisabled, OnBus
<1> QED  BY <1>1, <1>2, <1>3, <1>4 DEF ConsoleExact

(* Whatever the order of the two threads, the program's accesses and INIT,  *)
(* the console stays exact: a pending interrupt of the serial line has its  *)
(* cause and the edge detection has seen the present level, of each line    *)
(* that reset() has not overtaken on the way to INTR(); every character is  *)
(* received and sent once and in order; and the line clock has no interrupt *)
(* pending that LKS disables, with the same exception.                      *)
THEOREM ConsoleIsExact == DlSpec => []ConsoleExact
<1>1. DlStart => ConsoleExact
  BY DlStartsExact
<1>2. ConsoleExact /\ [DlNext]_dlvars => ConsoleExact'
  <2> SUFFICES ASSUME ConsoleExact, [DlNext]_dlvars PROVE ConsoleExact'
    OBVIOUS
  <2>1. DlTypeOK'
    BY DlTypeStep DEF ConsoleExact
  <2>2. LevelsSeen' /\ XmtCalls' /\ XmtOrder' /\ RcvOrder'
    BY <2>1, DlCallsStep, DlLevelsStep, DlXmtOrderStep, DlRcvOrderStep DEF ConsoleExact
  <2>3. RbufIsNew' /\ XmtInStep'
    BY <2>1, DlRbufStep, DlInStepStep DEF ConsoleExact
  <2>4. SluCharactersOnce' /\ LtcQuietWhenDisabled' /\ LtcDue'
    BY <2>1, DlOnceStep, DlClockStep DEF ConsoleExact
  <2>5. SluInterruptMatches'
    BY <2>2 DEF LevelsSeen, SluInterruptMatches
  <2> QED  BY <2>1, <2>2, <2>3, <2>4, <2>5 DEF ConsoleExact
<1> QED  BY <1>1, <1>2, PTL DEF DlSpec

-----------------------------------------------------------------------------
(* Quotients and remainders.                                                 *)
LEMMA QuotientUnique ==
  ASSUME NEW n \in Nat \ {0}, NEW t \in Int, NEW u \in Int, NEW r \in 0 .. n - 1, NEW s \in 0 .. n - 1,
         n * t + r = n * u + s
  PROVE  t = u /\ r = s
<1> DEFINE d == t - u
<1>1. d \in Int /\ n * d = s - r
  OBVIOUS
<1>2. d <= 0
  <2> SUFFICES ASSUME d >= 1 PROVE FALSE
    BY <1>1
  <2> HIDE DEF d
  <2>1. n * d >= n
    BY <1>1
  <2> QED
    BY <1>1, <2>1
<1>3. d >= 0
  <2> SUFFICES ASSUME d <= -1 PROVE FALSE
    BY <1>1
  <2> HIDE DEF d
  <2>1. n * d <= -n
    BY <1>1
  <2> QED
    BY <1>1, <2>1
<1> QED
  BY <1>1, <1>2, <1>3

LEMMA Quotient ==
  ASSUME NEW n \in Nat \ {0}, NEW a \in Int
  PROVE  a \div n \in Int /\ a % n \in 0 .. n - 1 /\ a = n * (a \div n) + (a % n)
<1>1. n > 0 /\ n \in Int
  OBVIOUS
<1>2. a \div n \in Int /\ a % n \in Int /\ 0 <= a % n /\ a % n < n /\ a % n = a - n * (a \div n)
  BY <1>1
<1> QED
  BY <1>1, <1>2

LEMMA QuotientIs ==
  ASSUME NEW n \in Nat \ {0}, NEW t \in Int, NEW r \in 0 .. n - 1
  PROVE  (n * t + r) \div n = t /\ (n * t + r) % n = r
<1> DEFINE a == n * t + r
<1>1. a \in Int
  OBVIOUS
<1>2. a \div n \in Int /\ a % n \in 0 .. n - 1 /\ a = n * (a \div n) + (a % n)
  BY <1>1, Quotient
<1>3. n * t + r = n * (a \div n) + (a % n)
  BY <1>2
<1> HIDE DEF a
<1> QED
  BY <1>2, <1>3, QuotientUnique DEF a

(* A shift by k moves the sectors of a track around. *)
LEMMA ShiftOnce ==
  ASSUME NEW n \in Nat \ {0}, NEW k \in Int, NEW v \in 0 .. n - 1, NEW w \in 0 .. n - 1, (v + k) % n = (w + k) % n
  PROVE  v = w
<1> DEFINE q == (v + k) \div n
           p == (w + k) \div n
           r == (v + k) % n
<1>0. \A a \in Int : a \div n \in Int /\ a % n \in 0 .. n - 1 /\ a = n * (a \div n) + (a % n)
  BY Quotient
<1>1. q \in Int /\ r \in 0 .. n - 1 /\ v + k = n * q + r
  <2>1. v + k \in Int
    OBVIOUS
  <2> QED
    BY <1>0, <2>1, Zenon
<1>2. p \in Int /\ w + k = n * p + r
  <2>1. w + k \in Int
    OBVIOUS
  <2> QED
    BY <1>0, <2>1, Zenon
<1> HIDE DEF q, p, r
<1>3. n * p + v = n * q + w
  BY <1>1, <1>2
<1>4. \A t, u \in Int, a, b \in 0 .. n - 1 : n * t + a = n * u + b => t = u /\ a = b
  BY QuotientUnique
<1> QED
  BY <1>1, <1>2, <1>3, <1>4

LEMMA ShiftReaches ==
  ASSUME NEW n \in Nat \ {0}, NEW k \in Int, NEW j \in 0 .. n - 1
  PROVE  (j - k) % n \in 0 .. n - 1 /\ (((j - k) % n) + k) % n = j
<1> DEFINE q == (j - k) \div n
           r == (j - k) % n
<1>1. q \in Int /\ r \in 0 .. n - 1 /\ j - k = n * q + r
  <2>1. \A a \in Int : a \div n \in Int /\ a % n \in 0 .. n - 1 /\ a = n * (a \div n) + (a % n)
    BY Quotient
  <2>2. j - k \in Int
    OBVIOUS
  <2> QED
    BY <2>1, <2>2, Zenon
<1> HIDE DEF q, r
<1>2. r + k = n * (-q) + j
  BY <1>1
<1>3. (n * (-q) + j) % n = j
  <2>1. \A t \in Int : (n * t + j) % n = j
    BY QuotientIs
  <2>2. -q \in Int
    BY <1>1
  <2> QED
    BY <2>1, <2>2, Zenon
<1> QED
  BY <1>1, <1>2, <1>3 DEF r

-----------------------------------------------------------------------------
(* The sectors of a partition.                                               *)
Fitting(p) == p \in PartitionRecord /\ PatternFits(p.pattern) /\ PartitionFits(p)

LEMMA SizesOf ==
  ASSUME NEW p, Fitting(p)
  PROVE  /\ sectors_per_block(p) \in Nat \ {0} /\ block_count(p) \in Nat
         /\ SectorCount(p) = sectors_per_block(p) * block_count(p) /\ SectorCount(p) \in Nat
         /\ block_count(p) * p.block_size = SectorCount(p) * p.sector_size
<1>1. /\ p.size \in Nat /\ p.block_size \in Nat \ {0} /\ p.sector_size \in Nat \ {0}
      /\ p.size % p.block_size = 0 /\ p.block_size % p.sector_size = 0
  BY DEF Fitting, PartitionRecord, PartitionFits
<1> DEFINE s == p.sector_size
           b == p.block_size
           z == p.size
           k == b \div s
           c == z \div b
<1>2. k \in Int /\ b = s * k /\ c \in Int /\ z = b * c
  <2>0. \A n \in Nat \ {0}, a \in Int : a \div n \in Int /\ a = n * (a \div n) + (a % n)
    BY Quotient
  <2>1. b \div s \in Int /\ b = s * (b \div s) + (b % s)
    <3>1. s \in Nat \ {0} /\ b \in Int
      BY <1>1
    <3> QED
      BY <2>0, <3>1, Zenon
  <2>2. z \div b \in Int /\ z = b * (z \div b) + (z % b)
    <3>1. b \in Nat \ {0} /\ z \in Int
      BY <1>1
    <3> QED
      BY <2>0, <3>1, Zenon
  <2> QED
    BY <1>1, <2>1, <2>2
<1> HIDE DEF k, c
<1>3. s \in Nat \ {0} /\ b \in Nat \ {0} /\ z \in Nat
  BY <1>1
<1> HIDE DEF s, b, z
<1>4. k \in Nat \ {0}
  <2> SUFFICES ASSUME k <= 0 PROVE FALSE
    BY <1>2
  <2>1. s * k <= 0
    BY <1>2, <1>3
  <2> QED
    BY <1>2, <1>3, <2>1
<1>5. c \in Nat
  <2> SUFFICES ASSUME c <= -1 PROVE FALSE
    BY <1>2
  <2>1. b * c <= -b
    BY <1>2, <1>3
  <2> QED
    BY <1>2, <1>3, <2>1
<1>6. z = s * (k * c) /\ k * c \in Nat
  BY <1>2, <1>3, <1>4, <1>5
<1>7. z \div s = k * c
  <2> DEFINE x == k * c
  <2>1. x \in Int /\ 0 \in 0 .. s - 1 /\ z = s * x + 0
    BY <1>3, <1>6
  <2> HIDE DEF x
  <2>2. (s * x + 0) \div s = x
    BY <1>3, <2>1, QuotientIs
  <2> QED
    BY <2>1, <2>2 DEF x
<1>8. c * b = (k * c) * s
  BY <1>2, <1>3, <1>4, <1>5
<1> QED
  BY <1>4, <1>5, <1>6, <1>7, <1>8 DEF k, c, s, b, z, sectors_per_block, block_count, SectorCount

Sectors(p) == 0 .. SectorCount(p) - 1

(* The numbering of a partition's sectors has each of them once. *)
OneToOne(phy, S) ==
  /\ phy \in [S -> S]
  /\ \A l, m \in S : phy[l] = phy[m] => l = m
  /\ \A s \in S : \E l \in S : phy[l] = s

LEMMA SkewIs ==
  ASSUME NEW p, Fitting(p), NEW t \in Int
  PROVE  track_skew(p, t) \in Int
<1> DEFINE n == p.sectors_per_track * p.sector_size
           first == p.position \div n
           cylinders == ((first + t) \div p.heads) - (first \div p.heads)
<1>1. /\ p.position \in Nat /\ p.sectors_per_track \in Nat \ {0} /\ p.sector_size \in Nat \ {0}
      /\ p.heads \in Nat \ {0} /\ p.cylinder_skew \in Nat /\ p.head_skew \in Nat
  BY DEF Fitting, PartitionRecord
<1>2. n \in Nat \ {0}
  <2>1. n > 0 /\ n \in Int
    BY <1>1
  <2> QED
    BY <2>1
<1> HIDE DEF n
<1>3. first \in Int
  BY <1>1, <1>2
<1> HIDE DEF first
<1>4. cylinders \in Int
  BY <1>1, <1>3
<1> HIDE DEF cylinders
<1>5. cylinders * p.cylinder_skew + (t - cylinders) * p.head_skew \in Int
  BY <1>1, <1>4
<1> QED
  BY <1>5 DEF track_skew, cylinders, first, n

LEMMA TableOneToOne ==
  ASSUME NEW p, Fitting(p), is_interleaved(p)
  PROVE  OneToOne(build_interleave_table(p), Sectors(p))
<1> DEFINE n == p.sectors_per_track
           pat == p.pattern
           S == Sectors(p)
           skew(t) == track_skew(p, t)
           track(l) == l \div n
           place(l) == (pat[(l % n) + 1] + skew(l \div n)) % n
           phy == build_interleave_table(p)
           tracks == SectorCount(p) \div n
<1>1. /\ n \in Nat \ {0} /\ pat \in Seq(Nat) /\ Len(pat) = n /\ PatternFits(pat)
      /\ SectorCount(p) % n = 0 /\ SectorCount(p) \in Nat
  <2>1. SectorCount(p) \in Nat
    BY SizesOf
  <2> QED
    BY <2>1 DEF Fitting, PartitionRecord, PartitionFits
<1>2. tracks \in Int /\ SectorCount(p) = n * tracks
  <2> DEFINE a == SectorCount(p)
  <2>1. a \in Int /\ a % n = 0 /\ n \in Nat \ {0}
    BY <1>1
  <2> HIDE DEF a, n
  <2>2. a \div n \in Int /\ a = n * (a \div n) + (a % n)
    BY <2>1, Quotient
  <2>3. a = n * (a \div n)
    BY <2>1, <2>2
  <2> QED
    BY <2>2, <2>3 DEF a
<1>3. \A t \in Int : skew(t) \in Int
  BY SkewIs
<1>4. phy = [l \in S |-> (l \div n) * n + place(l)]
  BY Zenon DEF build_interleave_table, Sectors
<1> HIDE DEF phy, n, pat, skew, tracks
<1>5. \A i \in 0 .. n - 1 : pat[i + 1] \in 0 .. n - 1
  BY <1>1 DEF PatternFits
<1>6. \A l \in S : /\ l \in Int /\ track(l) \in Int /\ l % n \in 0 .. n - 1 /\ l = n * track(l) + (l % n)
                   /\ place(l) \in 0 .. n - 1 /\ phy[l] = n * track(l) + place(l)
  <2> SUFFICES ASSUME NEW l \in S
               PROVE  /\ l \in Int /\ track(l) \in Int /\ l % n \in 0 .. n - 1 /\ l = n * track(l) + (l % n)
                      /\ place(l) \in 0 .. n - 1 /\ phy[l] = n * track(l) + place(l)
    OBVIOUS
  <2>1. l \in Int
    BY <1>1 DEF Sectors
  <2>2. l \div n \in Int /\ l % n \in 0 .. n - 1 /\ l = n * (l \div n) + (l % n)
    BY <1>1, <2>1, Quotient
  <2>3. pat[(l % n) + 1] \in 0 .. n - 1 /\ skew(l \div n) \in Int
    BY <1>3, <1>5, <2>2
  <2> DEFINE v == pat[(l % n) + 1]
             k == skew(l \div n)
  <2>4. (v + k) % n \in 0 .. n - 1
    <3>1. v + k \in Int
      BY <1>1, <2>3
    <3> HIDE DEF v, k
    <3> QED
      BY <1>1, <3>1, Quotient
  <2>5. phy[l] = (l \div n) * n + place(l)
    BY <1>4, Zenon
  <2> HIDE DEF S
  <2> QED
    BY <1>1, <2>1, <2>2, <2>4, <2>5
<1>7. \A t \in Int, r \in 0 .. n - 1 : (n * t + r \in S) <=> (t \in 0 .. tracks - 1)
  <2> SUFFICES ASSUME NEW t \in Int, NEW r \in 0 .. n - 1
               PROVE  (n * t + r \in S) <=> (t \in 0 .. tracks - 1)
    OBVIOUS
  <2>1. ASSUME t < 0 PROVE n * t + r < 0
    <3>1. n * t <= -n
      BY <1>1, <2>1
    <3> QED
      BY <1>1, <3>1
  <2>2. ASSUME t >= 0 PROVE n * t >= 0
    BY <1>1, <2>2
  <2>3. ASSUME t >= tracks PROVE n * t >= n * tracks
    BY <1>1, <1>2, <2>3
  <2>4. ASSUME t <= tracks - 1 PROVE n * t + r < n * tracks
    <3>1. n * (tracks - t) >= n
      BY <1>1, <1>2, <2>4
    <3> QED
      BY <1>1, <1>2, <3>1
  <2> QED
    BY <1>1, <1>2, <2>1, <2>2, <2>3, <2>4 DEF Sectors
<1>8. phy \in [S -> S]
  <2>1. \A l \in S : phy[l] \in S
    BY <1>6, <1>7
  <2> HIDE DEF S
  <2> QED
    BY <1>4, <2>1
<1>9. \A l, m \in S : phy[l] = phy[m] => l = m
  <2> SUFFICES ASSUME NEW l \in S, NEW m \in S, phy[l] = phy[m] PROVE l = m
    OBVIOUS
  <2>1. n * track(l) + place(l) = n * track(m) + place(m)
    BY <1>6
  <2>2. track(l) = track(m) /\ place(l) = place(m)
    <3>1. \A t, u \in Int, a, b \in 0 .. n - 1 : n * t + a = n * u + b => t = u /\ a = b
      BY <1>1, QuotientUnique
    <3> HIDE DEF track, place
    <3> QED
      BY <1>6, <2>1, <3>1
  <2> DEFINE v == pat[(l % n) + 1]
             w == pat[(m % n) + 1]
             k == skew(l \div n)
  <2>3. v \in 0 .. n - 1 /\ w \in 0 .. n - 1 /\ k \in Int /\ (v + k) % n = (w + k) % n
    BY <1>3, <1>5, <1>6, <2>2
  <2>4. v = w
    <3> HIDE DEF v, w, k
    <3> QED
      BY <1>1, <2>3, ShiftOnce
  <2>5. (l % n) + 1 = (m % n) + 1
    <3> DEFINE x == (l % n) + 1
               y == (m % n) + 1
    <3>0. l % n \in 0 .. n - 1 /\ m % n \in 0 .. n - 1
      BY <1>6
    <3>1. x \in 1 .. n /\ y \in 1 .. n
      BY <1>1, <3>0
    <3>3. pat[x] = pat[y]
      BY <2>4
    <3> HIDE DEF x, y
    <3>2. x = y
      BY <1>1, <3>1, <3>3 DEF PatternFits
    <3> QED
      BY <3>2 DEF x, y
  <2>6. l % n = m % n
    BY <1>6, <2>5
  <2> QED
    BY <1>6, <2>2, <2>6
<1>10. \A s \in S : \E l \in S : phy[l] = s
  <2> SUFFICES ASSUME NEW s \in S PROVE \E l \in S : phy[l] = s
    OBVIOUS
  <2> DEFINE t == s \div n
             j == s % n
             k == skew(t)
             v == (j - k) % n
  <2>1. t \in Int /\ j \in 0 .. n - 1 /\ s = n * t + j
    BY <1>6
  <2> HIDE DEF t, j
  <2>2. k \in Int
    BY <1>3, <2>1
  <2> HIDE DEF k
  <2>3. v \in 0 .. n - 1 /\ (v + k) % n = j
    BY <1>1, <2>1, <2>2, ShiftReaches
  <2> HIDE DEF v
  <2>4. PICK i \in 1 .. n : pat[i] = v
    BY <1>1, <2>3 DEF PatternFits
  <2> DEFINE l == n * t + (i - 1)
  <2>5. i - 1 \in 0 .. n - 1 /\ l \in S /\ l \in Int
    <3>1. i - 1 \in 0 .. n - 1 /\ n * t \in Int /\ l \in Int
      BY <1>1, <2>1, <2>4
    <3>2. t \in 0 .. tracks - 1
      BY <1>7, <2>1
    <3>3. l \in S
      BY <1>7, <2>1, <3>1, <3>2
    <3> QED
      BY <3>1, <3>3
  <2>6. l \div n = t /\ l % n = i - 1
    BY <1>1, <2>1, <2>5, QuotientIs
  <2>7. place(l) = (pat[(i - 1) + 1] + skew(t)) % n
    BY <2>6, Zenon
  <2>8. pat[(i - 1) + 1] = v
    BY <2>4
  <2>9. place(l) = j
    BY <2>3, <2>7, <2>8 DEF k
  <2>10. phy[l] = n * (l \div n) + place(l)
    BY <1>6, <2>5
  <2> HIDE DEF l, place
  <2>11. phy[l] = s
    BY <2>1, <2>6, <2>9, <2>10
  <2> QED
    BY <2>5, <2>11
<1> QED
  BY <1>8, <1>9, <1>10 DEF OneToOne, phy

LEMMA NumberingOneToOne ==
  ASSUME NEW p, Fitting(p)
  PROVE  /\ OneToOne(log_sector_nr_to_phy(p), Sectors(p))
         /\ phy_sector_nr_to_log(p) \in [Sectors(p) -> Sectors(p)]
         /\ \A l, s \in Sectors(p) : phy_sector_nr_to_log(p)[s] = l <=> log_sector_nr_to_phy(p)[l] = s
<1> DEFINE phy == log_sector_nr_to_phy(p)
           log == phy_sector_nr_to_log(p)
           S == Sectors(p)
<1>1. OneToOne(phy, S)
  <2>1. CASE is_interleaved(p)
    BY <2>1, TableOneToOne DEF log_sector_nr_to_phy
  <2>2. CASE ~is_interleaved(p)
    <3>1. phy = [s \in S |-> s]
      BY <2>2 DEF log_sector_nr_to_phy, Sectors
    <3> HIDE DEF phy, S
    <3> QED
      BY <3>1 DEF OneToOne
  <2> QED
    BY <2>1, <2>2
<1> HIDE DEF phy
<1>2. DOMAIN phy = S
  BY <1>1 DEF OneToOne
<1>3. log = [s \in S |-> CHOOSE l \in DOMAIN phy : phy[l] = s]
  BY Zenon DEF phy_sector_nr_to_log, phy, Sectors
<1> HIDE DEF log, S
<1>4. \A s \in S : log[s] \in S /\ phy[log[s]] = s
  <2> SUFFICES ASSUME NEW s \in S PROVE log[s] \in S /\ phy[log[s]] = s
    OBVIOUS
  <2>1. \E l \in S : phy[l] = s
    BY <1>1 DEF OneToOne
  <2>2. log[s] = CHOOSE l \in S : phy[l] = s
    BY <1>2, <1>3
  <2> QED
    BY <2>1, <2>2
<1>5. log \in [S -> S]
  BY <1>3, <1>4
<1>6. \A l, s \in S : log[s] = l <=> phy[l] = s
  BY <1>1, <1>4 DEF OneToOne
<1> QED
  BY <1>1, <1>5, <1>6 DEF phy, log, S

(* The sectors of block b, in their logical order. *)
LEMMA SectorOfBlock ==
  ASSUME NEW p, Fitting(p), NEW b \in 0 .. block_count(p) - 1
  PROVE  /\ \A i \in 1 .. sectors_per_block(p) : b * sectors_per_block(p) + i - 1 \in Sectors(p)
         /\ \A l \in Sectors(p) :
              (l \div sectors_per_block(p) = b)
                <=> (l \in b * sectors_per_block(p) .. b * sectors_per_block(p) + sectors_per_block(p) - 1)
<1> DEFINE k == sectors_per_block(p)
           c == block_count(p)
           first == b * k
<1>1. k \in Nat \ {0} /\ c \in Nat /\ Sectors(p) = 0 .. k * c - 1 /\ b \in 0 .. c - 1
  BY SizesOf DEF Sectors
<1> HIDE DEF k, c
<1>2. first \in Nat /\ k * c \in Nat /\ first + k <= k * c
  <2>1. k * (c - b) >= k
    BY <1>1
  <2> QED
    BY <1>1, <2>1
<1> HIDE DEF first
<1>3. \A i \in 1 .. k : first + i - 1 \in 0 .. k * c - 1
  BY <1>1, <1>2
<1>4. ASSUME NEW l \in Sectors(p) PROVE (l \div k = b) <=> (l \in first .. first + k - 1)
  <2>1. l \in Int
    BY <1>1, <1>2, <1>4
  <2>2. l \div k \in Int /\ l % k \in 0 .. k - 1 /\ l = k * (l \div k) + (l % k)
    BY <1>1, <2>1, Quotient
  <2>3. ASSUME l \div k = b PROVE l \in first .. first + k - 1
    <3>1. l = k * b + (l % k)
      BY <2>2, <2>3
    <3> QED
      BY <1>1, <1>2, <2>1, <2>2, <3>1 DEF first
  <2>4. ASSUME l \in first .. first + k - 1 PROVE l \div k = b
    <3> DEFINE r == l - first
    <3>1. r \in 0 .. k - 1 /\ b \in Int /\ l = k * b + r
      BY <1>1, <1>2, <2>1, <2>4 DEF first
    <3> HIDE DEF r
    <3>2. (k * b + r) \div k = b
      BY <1>1, <3>1, QuotientIs
    <3> QED
      BY <3>1, <3>2
  <2> QED
    BY <2>3, <2>4
<1> QED
  BY <1>1, <1>3, <1>4 DEF k, first

LEMMA BlockIsExact ==
  ASSUME NEW p, Fitting(p), NEW b \in 0 .. block_count(p) - 1
  PROVE  BlockExact(p, b)
<1> DEFINE S == Sectors(p)
           k == sectors_per_block(p)
           c == block_count(p)
           first == b * k
           phy == log_sector_nr_to_phy(p)
           log == phy_sector_nr_to_log(p)
           image == [s \in S |-> <<"old", s>>]
           buffer == [i \in 1 .. k |-> <<"new", i>>]
           after == set_blocks(p, image, buffer, b)
<1>1. k \in Nat \ {0} /\ c \in Nat /\ S \subseteq Int
  BY SizesOf DEF Sectors
<1>2. phy \in [S -> S] /\ log \in [S -> S] /\ (\A l, s \in S : log[s] = l <=> phy[l] = s)
  BY NumberingOneToOne DEF OneToOne
<1>3. Len(buffer) = k
  BY <1>1
<1>4. after = [s \in S |-> IF log[s] \in first .. first + k - 1 THEN buffer[log[s] - first + 1] ELSE image[s]]
  <2>1. DOMAIN image = S
    OBVIOUS
  <2>2. after = [s \in DOMAIN image |->
                   IF log[s] \in first .. first + Len(buffer) - 1 THEN buffer[log[s] - first + 1] ELSE image[s]]
    BY Zenon DEF set_blocks
  <2> HIDE DEF after, image, buffer, log, first, S
  <2> QED
    BY <1>3, <2>1, <2>2
<1>5. \A o \in 0 .. c - 1 :
        /\ \A i \in 1 .. k : o * k + i - 1 \in S
        /\ \A l \in S : (l \div k = o) <=> (l \in o * k .. o * k + k - 1)
  BY SectorOfBlock
<1>6. \A m, o : get_blocks(p, m, o, 1) = [i \in 1 .. k |-> m[phy[o * k + i - 1]]]
  <2>1. 1 * k = k
    BY <1>1
  <2>2. \A o : get_physical_sector_nrs_from_blocks(p, o, 1) = [i \in 1 .. (1 * k) |-> phy[o * k + i - 1]]
    BY Zenon DEF get_physical_sector_nrs_from_blocks
  <2> HIDE DEF k, phy
  <2>3. \A m, o : get_blocks(p, m, o, 1) =
          [i \in DOMAIN get_physical_sector_nrs_from_blocks(p, o, 1) |-> m[get_physical_sector_nrs_from_blocks(p, o, 1)[i]]]
    BY Zenon DEF get_blocks
  <2> SUFFICES ASSUME NEW m, NEW o
               PROVE  get_blocks(p, m, o, 1) = [i \in 1 .. k |-> m[phy[o * k + i - 1]]]
    OBVIOUS
  <2> DEFINE nrs == get_physical_sector_nrs_from_blocks(p, o, 1)
  <2>4. nrs = [i \in 1 .. k |-> phy[o * k + i - 1]]
    BY <2>1, <2>2
  <2>5. get_blocks(p, m, o, 1) = [i \in DOMAIN nrs |-> m[nrs[i]]]
    BY <2>3
  <2> HIDE DEF nrs
  <2>6. DOMAIN nrs = 1 .. k /\ \A i \in 1 .. k : nrs[i] = phy[o * k + i - 1]
    BY <2>4
  <2> QED
    BY <2>5, <2>6
<1>7. \A i \in 1 .. k : buffer[i] = <<"new", i>>
  OBVIOUS
<1>8. \A s \in S : image[s] = <<"old", s>>
  OBVIOUS
<1> HIDE DEF k, c, phy, log, after, buffer, image, S
<1>9. \A l \in S : after[phy[l]] = IF l \in first .. first + k - 1 THEN buffer[l - first + 1] ELSE image[phy[l]]
  <2> SUFFICES ASSUME NEW l \in S
               PROVE  after[phy[l]] = IF l \in first .. first + k - 1 THEN buffer[l - first + 1] ELSE image[phy[l]]
    OBVIOUS
  <2>1. phy[l] \in S /\ log[phy[l]] = l
    BY <1>2
  <2> QED
    BY <1>4, <2>1
<1>10. get_blocks(p, after, b, 1) = buffer
  <2>1. ASSUME NEW i \in 1 .. k PROVE after[phy[first + i - 1]] = buffer[i]
    <3> DEFINE l == first + i - 1
    <3>1. first \in Int
      BY <1>1 DEF c
    <3>4. b \in 0 .. c - 1
      BY DEF c
    <3>2. l \in S /\ l \in first .. first + k - 1 /\ l - first + 1 = i
      <4>1. l \in S
        BY <1>5, <3>4
      <4> QED
        BY <1>1, <3>1, <4>1
    <3> HIDE DEF l
    <3>3. after[phy[l]] = buffer[l - first + 1]
      BY <1>9, <3>2
    <3> QED
      BY <3>2, <3>3 DEF l
  <2>2. buffer = [i \in 1 .. k |-> buffer[i]]
    BY DEF buffer
  <2> QED
    BY <1>6, <2>1, <2>2
<1>11. ASSUME NEW o \in (0 .. c - 1) \ {b} PROVE get_blocks(p, after, o, 1) = get_blocks(p, image, o, 1)
  <2>1. ASSUME NEW i \in 1 .. k PROVE after[phy[o * k + i - 1]] = image[phy[o * k + i - 1]]
    <3> DEFINE l == o * k + i - 1
    <3>0. o \in 0 .. c - 1 /\ o * k \in Int
      BY <1>1
    <3>1. l \in S /\ l \in o * k .. o * k + k - 1
      <4>1. l \in S
        BY <1>5, <3>0
      <4> QED
        BY <1>1, <3>0, <4>1
    <3> HIDE DEF l
    <3>2. l \div k = o /\ o # b
      BY <1>5, <3>1
    <3>3. ~(l \in first .. first + k - 1)
      BY <1>5, <3>1, <3>2 DEF c
    <3>4. after[phy[l]] = image[phy[l]]
      BY <1>9, <3>1, <3>3
    <3> QED
      BY <3>4 DEF l
  <2>2. [i \in 1 .. k |-> after[phy[o * k + i - 1]]] = [i \in 1 .. k |-> image[phy[o * k + i - 1]]]
    BY <2>1
  <2>3. get_blocks(p, after, o, 1) = [i \in 1 .. k |-> after[phy[o * k + i - 1]]]
    BY <1>6
  <2>4. get_blocks(p, image, o, 1) = [i \in 1 .. k |-> image[phy[o * k + i - 1]]]
    BY <1>6
  <2> QED
    BY <2>2, <2>3, <2>4
<1>12. ASSUME NEW s \in S
       PROVE  (after[s] # image[s]) <=> on_image_sector_write(p, p.position + s * p.sector_size) = b
  <2>1. log[s] \in S
    BY <1>2
  <2>2. (after[s] # image[s]) <=> log[s] \in first .. first + k - 1
    <3>1. CASE log[s] \in first .. first + k - 1
      <4>1. after[s] = buffer[log[s] - first + 1] /\ log[s] - first + 1 \in 1 .. k
        BY <1>1, <1>4, <2>1, <3>1
      <4> QED
        BY <1>7, <1>8, <3>1, <4>1
    <3>2. CASE ~(log[s] \in first .. first + k - 1)
      BY <1>4, <3>2
    <3> QED
      BY <3>1, <3>2
  <2>3. (log[s] \div k = b) <=> log[s] \in first .. first + k - 1
    BY <1>5, <2>1 DEF c
  <2>4. on_image_sector_write(p, p.position + s * p.sector_size) = log[s] \div k
    <3> DEFINE z == p.sector_size
               q == p.position
               n == SectorCount(p)
               byte == q + s * z
    <3>1. z \in Nat \ {0} /\ q \in Nat /\ n \in Nat /\ s \in 0 .. n - 1 /\ block_count(p) * p.block_size = n * z
      BY SizesOf DEF Fitting, PartitionRecord, S, Sectors
    <3> HIDE DEF z, q, n
    <3>2. s * z \in Nat /\ s * z < n * z /\ n * z \in Nat
      <4>1. s * z >= 0 /\ s * z \in Int /\ n * z >= 0 /\ n * z \in Int
        BY <3>1
      <4>2. (n - s) * z >= z
        BY <3>1
      <4> QED
        BY <3>1, <4>1, <4>2
    <3>3. (byte - q) \div z = s
      <4>1. byte - q = z * s + 0
        BY <3>1
      <4>2. s \in Int /\ 0 \in 0 .. z - 1
        BY <3>1
      <4>3. (z * s + 0) \div z = s
        BY <3>1, <4>2, QuotientIs
      <4> QED
        BY <4>1, <4>3
    <3>4. byte \in Nat /\ ~(byte < q \/ byte >= q + n * z)
      BY <3>1, <3>2
    <3>5. on_image_sector_write(p, byte) =
            IF byte < q \/ byte >= q + n * z THEN -1 ELSE log[(byte - q) \div z] \div k
      <4> HIDE DEF byte
      <4> QED
        BY <3>1, Zenon DEF on_image_sector_write, get_physical_sector_nr_from_image_position, q, z, log, k
    <3> QED
      BY <3>3, <3>4, <3>5 DEF q, z
  <2> QED
    BY <2>2, <2>3, <2>4
<1> QED
  BY <1>10, <1>11, <1>12, Zenon DEF BlockExact, S, c, k, after, image, buffer, Sectors

(* Every partition that an image can be opened with: its blocks and its sectors are in     *)
(* one-to-one correspondence, as get_blocks(), set_blocks() and on_image_sector_write()    *)
(* use it.                                                                                 *)
THEOREM PartitionsAreExact == PartitionSpec => []PartitionsExact
<1> DEFINE Inv == \A p \in partition : Fitting(p)
<1>1. PartitionInit => Inv
  BY DEF PartitionInit
<1>2. Inv /\ [PartitionNext]_partition => Inv'
  BY PartitionsAssumption DEF PartitionNext, open, close, Fitting
<1>3. Inv => PartitionsExact
  <2> SUFFICES ASSUME NEW p, Fitting(p) PROVE PartitionExact(p)
    BY DEF PartitionsExact
  <2>1. {log_sector_nr_to_phy(p)[s] : s \in Sectors(p)} = Sectors(p)
    BY NumberingOneToOne DEF OneToOne
  <2> QED
    BY <2>1, BlockIsExact, Zenon DEF PartitionExact, Sectors
<1> QED
  BY <1>1, <1>2, <1>3, PTL DEF PartitionSpec
=============================================================================
