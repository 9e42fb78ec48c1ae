------------------------ MODULE DmaScheduling_proofs ------------------------
(***************************************************************************)
(* Proofs about DmaScheduling, for every set of devices, every length of a  *)
(* DMA and of a chunk: the ARM side implements RequestScheduler, worker()   *)
(* keeps up with INIT and DCLO, and ARM and PRU work on the same request.   *)
(***************************************************************************)
EXTENDS DmaScheduling, RequestScheduler_proofs

(* Every step of a thread is a step of the scheduler; the PRU and the bus    *)
(* touch nothing of it.                                                      *)
LEMMA StepImplements ==
  ASSUME [DmaNext]_all_vars
  PROVE  [Next]_vars
<1>1. ASSUME NEW r \in DmaRequests, call_DMA(r) \/ return_DMA(r) PROVE Next
  BY <1>1 DEF call_DMA, return_DMA, Next, Requests
<1>2. ASSUME NEW r \in DmaRequests, NEW n \in 1 .. MaxWordcount, start_DMA(r, n) PROVE Next
  BY <1>2 DEF start_DMA, Next
<1>3. ASSUME NEW r \in CpuRequests, cpu_poll(r) \/ cpu_ack(r) \/ cpu_aborted(r)
      PROVE  [Next]_vars
  <2>1. r \in DmaRequests
    BY RequestAssumption
  <2>2. CASE cpu_poll(r)
    <3>1. (mailbox.cur_status = "READY") \in BOOLEAN
      OBVIOUS
    <3> QED
      BY <2>2, <3>1 DEF cpu_poll, Next
  <2>3. CASE cpu_ack(r)
    BY <2>3 DEF cpu_ack
  <2>4. CASE cpu_aborted(r)
    BY <2>1, <2>4 DEF cpu_aborted, Next
  <2> QED
    BY <1>3, <2>2, <2>3, <2>4
<1>4. CASE worker_init \/ worker_power
  BY <1>4 DEF worker_init, worker_power, Next
<1>5. CASE worker_init_event \/ worker_power_event \/ worker_init_raised
  BY <1>5 DEF worker_init_event, worker_power_event, worker_init_raised, Next
<1>6. CASE worker_wait \/ worker_dma \/ worker_dma_ack
  BY <1>6 DEF worker_wait, worker_dma, worker_dma_ack
<1>7. CASE worker_device_dma_chunk_complete_event
  <2>1. (mailbox.cur_status = "READY") \in BOOLEAN
    OBVIOUS
  <2> QED
    BY <1>7, <2>1 DEF worker_device_dma_chunk_complete_event, Next
<1>8. CASE other_event \/ \E s \in {"INIT", "DCLO"} : bus_signal(s)
  BY <1>8 DEF other_event, bus_signal
<1>9. CASE pru_step
  BY <1>9 DEF pru_step, PruStep, do_event_initializationsignals, init_clears_requests,
     npr_granted, npr_bus_free, cpu_bus_free, sm_dma_start, sm_dma_state_1, sm_dma_state_99
<1>10. CASE Aborted /\ UNCHANGED dma_vars
  BY <1>10 DEF Next
<1>11. CASE UNCHANGED all_vars
  BY <1>11 DEF all_vars
<1> QED
  BY <1>1, <1>2, <1>3, <1>4, <1>5, <1>6, <1>7, <1>8, <1>9, <1>10, <1>11
  DEF DmaNext, worker_step

(* Whatever moment the PRU chooses for its events, and whatever the bus does  *)
(* to INIT and DCLO, ARM takes steps of RequestScheduler only: its tables are *)
(* consistent here as well.                                                   *)
LEMMA TablesHere ==
  ASSUME DistinctSlots
  PROVE  DmaSpec => []IndInv
<1>1. DmaInit => Init
  BY DEF DmaInit
<1>2. [DmaNext]_all_vars => [Next]_vars
  BY StepImplements
<1>3. DmaSpec => Spec
  BY <1>1, <1>2, PTL DEF DmaSpec, Spec
<1> QED
  BY <1>3, Invariance, PTL

-----------------------------------------------------------------------------
(* The event counters: in their range "signaled" and "acked" count by one. *)
LEMMA EventCounts ==
  ASSUME NEW n \in 0 .. (EventModulus - 1)
  PROVE  /\ (n + 1) % EventModulus \in 0 .. (EventModulus - 1)
         /\ (n + EventModulus - 1) % EventModulus \in 0 .. (EventModulus - 1)
         /\ n < EventModulus - 1 => (n + 1) % EventModulus = n + 1
         /\ n > 0 => (n + EventModulus - 1) % EventModulus = n - 1
BY DmaAssumption

-----------------------------------------------------------------------------
(* What worker() knows of INIT and DCLO, by itself. *)
LinesTypeOK ==
  /\ worker \in WorkerState
  /\ events \in [{"dma", "INIT", "DCLO"} -> 0 .. (EventModulus - 1)]
  /\ bus_line \in [{"INIT", "DCLO"} -> BOOLEAN]
  /\ signal_cur \in [{"INIT", "DCLO"} -> BOOLEAN]
  /\ line_INIT \in BOOLEAN
  /\ line_DCLO \in BOOLEAN
  /\ interrupt \in BOOLEAN
  /\ clearing \subseteq {"INIT", "DCLO"}

LEMMA EventChange ==
  ASSUME LinesTypeOK, NEW e \in {"dma", "INIT", "DCLO"}
  PROVE  /\ EVENT_SIGNAL(e) \in [{"dma", "INIT", "DCLO"} -> 0 .. (EventModulus - 1)]
         /\ EVENT_ACK(e) \in [{"dma", "INIT", "DCLO"} -> 0 .. (EventModulus - 1)]
         /\ \A f \in {"dma", "INIT", "DCLO"} :
               f # e => EVENT_SIGNAL(e)[f] = events[f] /\ EVENT_ACK(e)[f] = events[f]
         /\ events[e] < EventModulus - 1 => EVENT_SIGNAL(e)[e] = events[e] + 1
         /\ events[e] > 0 => EVENT_ACK(e)[e] = events[e] - 1
<1> DEFINE n == events[e]
<1>1. n \in 0 .. (EventModulus - 1)
  BY DEF LinesTypeOK
<1>2. /\ (n + 1) % EventModulus \in 0 .. (EventModulus - 1)
      /\ (n + EventModulus - 1) % EventModulus \in 0 .. (EventModulus - 1)
      /\ n < EventModulus - 1 => (n + 1) % EventModulus = n + 1
      /\ n > 0 => (n + EventModulus - 1) % EventModulus = n - 1
  BY <1>1, EventCounts
<1>3. /\ EVENT_SIGNAL(e) = [events EXCEPT ![e] = (n + 1) % EventModulus]
      /\ EVENT_ACK(e) = [events EXCEPT ![e] = (n + EventModulus - 1) % EventModulus]
  BY DEF EVENT_SIGNAL, EVENT_ACK
<1> QED
  BY <1>2, <1>3 DEF LinesTypeOK

(* The steps of no concern to the lines: they may count events of DMA, and   *)
(* interrupt.                                                                *)
LinesKept ==
  /\ UNCHANGED <<worker, bus_line, signal_cur, line_INIT, line_DCLO, clearing>>
  /\ interrupt' \in BOOLEAN /\ (interrupt => interrupt')
  /\ events' \in {events, EVENT_SIGNAL("dma"), EVENT_ACK("dma")}

LEMMA KeepsLines ==
  ASSUME LinesTypeOK, LinesIndInv, LinesKept
  PROVE  LinesTypeOK' /\ LinesIndInv'
<1>1. /\ events' \in [{"dma", "INIT", "DCLO"} -> 0 .. (EventModulus - 1)]
      /\ events'["INIT"] = events["INIT"]
      /\ events'["DCLO"] = events["DCLO"]
  <2>1. events \in [{"dma", "INIT", "DCLO"} -> 0 .. (EventModulus - 1)]
    BY DEF LinesTypeOK
  <2> QED
    BY <2>1, EventChange DEF LinesKept
<1>2. LinesTypeOK'
  BY <1>1 DEF LinesTypeOK, LinesKept
<1>3. LinesIndInv'
  BY <1>1 DEF LinesIndInv, LineSeen, Unseen, LinesKept
<1> QED
  BY <1>2, <1>3

LEMMA ThreadsKeepLines ==
  ASSUME LinesTypeOK,
         \/ \E r \in DmaRequests : \/ call_DMA(r) \/ return_DMA(r)
                                  \/ \E n \in 1 .. MaxWordcount : start_DMA(r, n)
         \/ \E r \in CpuRequests : cpu_poll(r) \/ cpu_ack(r) \/ cpu_aborted(r)
         \/ other_event \/ init_clears_requests
         \/ npr_granted \/ npr_bus_free \/ cpu_bus_free \/ sm_dma_start \/ sm_dma_state_1
         \/ \E state_timeout \in BOOLEAN : sm_dma_state_99(state_timeout)
         \/ Aborted /\ UNCHANGED dma_vars
         \/ UNCHANGED all_vars
  PROVE  LinesKept
<1> USE DEF LinesKept
<1>0. interrupt \in BOOLEAN
  BY DEF LinesTypeOK
<1>1. ASSUME NEW r \in DmaRequests, call_DMA(r) PROVE LinesKept
  BY <1>0, <1>1 DEF call_DMA, Enter, dma_vars
<1>2. ASSUME NEW r \in DmaRequests, return_DMA(r) PROVE LinesKept
  BY <1>0, <1>2 DEF return_DMA, DMA_return, dma_vars
<1>3. ASSUME NEW r \in DmaRequests, NEW n \in 1 .. MaxWordcount, start_DMA(r, n) PROVE LinesKept
  BY <1>0, <1>3 DEF start_DMA, DMA
<1>4. ASSUME NEW r \in CpuRequests, cpu_poll(r) PROVE LinesKept
  BY <1>0, <1>4 DEF cpu_poll, cpu_dma_event
<1>5. ASSUME NEW r \in CpuRequests, cpu_ack(r) \/ cpu_aborted(r) PROVE LinesKept
  BY <1>0, <1>5 DEF cpu_ack, cpu_aborted, DMA_aborted, dma_vars, vars
<1>6. CASE other_event \/ init_clears_requests
  BY <1>0, <1>6 DEF other_event, init_clears_requests, vars
<1>7. CASE npr_granted \/ npr_bus_free \/ cpu_bus_free \/ sm_dma_start \/ sm_dma_state_1
  BY <1>0, <1>7 DEF npr_granted, npr_bus_free, cpu_bus_free, sm_dma_start, sm_dma_state_1,
     PruStep,
     vars
<1>8. ASSUME NEW state_timeout \in BOOLEAN, sm_dma_state_99(state_timeout) PROVE LinesKept
  <2>1. /\ UNCHANGED <<bus_line, signal_cur, line_DCLO, worker, requests_mutex, late>>
        /\ UNCHANGED vars
        /\ \/ UNCHANGED <<mailbox, events, interrupt>>
           \/ /\ events' = EVENT_SIGNAL("dma")
              /\ interrupt' = (interrupt \/ ~mailbox.cpu_access)
    BY <1>8 DEF sm_dma_state_99
  <2> QED
    BY <1>0, <2>1 DEF vars
<1>9. CASE Aborted /\ UNCHANGED dma_vars
  BY <1>0, <1>9 DEF Aborted, dma_vars, vars
<1>10. CASE UNCHANGED all_vars
  BY <1>0, <1>10 DEF all_vars, dma_vars, vars
<1> QED
  BY <1>1, <1>2, <1>3, <1>4, <1>5, <1>6, <1>7, <1>8, <1>9, <1>10

(* The bus changes a line, and the PRU reports it.                           *)
LEMMA BusLines ==
  ASSUME LinesTypeOK, LinesIndInv, NEW s \in {"INIT", "DCLO"}, bus_signal(s)
  PROVE  LinesTypeOK' /\ LinesIndInv'
<1>1. /\ UNCHANGED <<worker, events, signal_cur, line_INIT, line_DCLO, clearing, interrupt>>
      /\ bus_line' = [bus_line EXCEPT ![s] = ~@]
      /\ events[s] < EventModulus - 1
  BY DEF bus_signal, vars
<1>2. LinesTypeOK'
  BY <1>1 DEF LinesTypeOK
<1>3. \A t \in {"INIT", "DCLO"} : t # s => bus_line'[t] = bus_line[t]
  BY <1>1 DEF LinesTypeOK
<1>4. LinesIndInv'
  BY <1>1, <1>3 DEF LinesIndInv, LineSeen, Unseen
<1> QED
  BY <1>2, <1>4

LEMMA ReportLines ==
  ASSUME LinesTypeOK, LinesIndInv, NEW s \in {"INIT", "DCLO"},
         do_event_initializationsignals(s)
  PROVE  LinesTypeOK' /\ LinesIndInv'
<1>1. /\ UNCHANGED <<worker, bus_line, line_INIT, line_DCLO, clearing>>
      /\ signal_cur' = [signal_cur EXCEPT ![s] = bus_line[s]]
      /\ signal_cur[s] # bus_line[s]
      /\ events' = EVENT_SIGNAL(s)
      /\ interrupt' = TRUE
  BY DEF do_event_initializationsignals, vars
<1>2. events[s] < EventModulus - 1
  BY <1>1 DEF LinesIndInv, LineSeen, Unseen
<1>3. /\ events' \in [{"dma", "INIT", "DCLO"} -> 0 .. (EventModulus - 1)]
      /\ events'[s] = events[s] + 1
      /\ \A t \in {"INIT", "DCLO"} : t # s => events'[t] = events[t]
  BY <1>1, <1>2, EventChange, DmaAssumption
<1>4. /\ signal_cur'[s] = bus_line[s]
      /\ \A t \in {"INIT", "DCLO"} : t # s => signal_cur'[t] = signal_cur[t]
      /\ signal_cur' \in [{"INIT", "DCLO"} -> BOOLEAN]
  BY <1>1 DEF LinesTypeOK
<1>5. LinesTypeOK'
  BY <1>1, <1>3, <1>4 DEF LinesTypeOK
<1>6. line_INIT \in BOOLEAN /\ line_DCLO \in BOOLEAN /\ signal_cur[s] \in BOOLEAN
      /\ bus_line[s] \in BOOLEAN /\ \A t \in {"INIT", "DCLO"} : events[t] \in Nat
  BY DmaAssumption DEF LinesTypeOK
<1>7. CASE s = "INIT"
  BY <1>1, <1>2, <1>3, <1>4, <1>5, <1>6, <1>7 DEF LinesIndInv, LineSeen, Unseen
<1>8. CASE s = "DCLO"
  BY <1>1, <1>2, <1>3, <1>4, <1>5, <1>6, <1>8 DEF LinesIndInv, LineSeen, Unseen
<1> QED
  BY <1>7, <1>8

(* worker()'s steps between the two tests. *)
LEMMA OtherWorkerLines ==
  ASSUME LinesTypeOK, LinesIndInv,
         worker_wait \/ worker_dma \/ worker_device_dma_chunk_complete_event \/ worker_dma_ack
  PROVE  LinesTypeOK' /\ LinesIndInv'
<1>1. /\ UNCHANGED <<bus_line, signal_cur, line_INIT, line_DCLO, clearing>>
      /\ events' \in {events, EVENT_ACK("dma")}
  BY DEF worker_wait, worker_dma, worker_device_dma_chunk_complete_event, worker_dma_event,
     worker_dma_ack, vars
<1>2. /\ events' \in [{"dma", "INIT", "DCLO"} -> 0 .. (EventModulus - 1)]
      /\ events'["INIT"] = events["INIT"]
      /\ events'["DCLO"] = events["DCLO"]
  <2>1. events \in [{"dma", "INIT", "DCLO"} -> 0 .. (EventModulus - 1)]
    BY DEF LinesTypeOK
  <2> QED
    BY <1>1, <2>1, EventChange
<1>3. CASE worker_wait
  <2>1. /\ worker.pc = "wait" /\ worker'.pc = "init"
        /\ worker'.init_raising_edge = worker.init_raising_edge
        /\ worker'.any_event = worker.any_event
        /\ worker' \in WorkerState
        /\ interrupt' = FALSE
    BY <1>3 DEF worker_wait, LinesTypeOK, WorkerState, WorkerSteps
  <2> QED
    BY <1>1, <1>2, <2>1 DEF LinesTypeOK, LinesIndInv, LineSeen, Unseen
<1>4. CASE worker_dma \/ worker_device_dma_chunk_complete_event \/ worker_dma_ack
  <2>1. /\ worker.pc \in {"dma", "dma_event", "dma_ack"}
        /\ worker'.pc \in {"dma_event", "dma_ack", "init_raised"}
        /\ worker'.init_raising_edge = worker.init_raising_edge
        /\ worker.any_event => worker'.any_event
        /\ worker' \in WorkerState
        /\ interrupt' = interrupt
    <3>1. CASE worker_dma
      <4> DEFINE event == ~EVENT_IS_ACKED("dma") /\ ~mailbox.cpu_access
      <4>1. event \in BOOLEAN
        OBVIOUS
      <4>2. /\ worker.pc = "dma"
            /\ UNCHANGED interrupt
            /\ worker' = [worker EXCEPT !.pc = IF event THEN "dma_event" ELSE "init_raised",
                                        !.any_event = @ \/ event]
        BY <3>1 DEF worker_dma, Goto
      <4> HIDE DEF event
      <4> QED
        BY <4>1, <4>2 DEF LinesTypeOK, WorkerState, WorkerSteps
    <3>2. CASE worker_device_dma_chunk_complete_event
      BY <3>2 DEF worker_device_dma_chunk_complete_event, Goto, LinesTypeOK, WorkerState,
         WorkerSteps
    <3>3. CASE worker_dma_ack
      BY <3>3 DEF worker_dma_ack, Goto, LinesTypeOK, WorkerState, WorkerSteps
    <3> QED
      BY <1>4, <3>1, <3>2, <3>3
  <2>2. LinesTypeOK'
    BY <1>1, <1>2, <2>1 DEF LinesTypeOK
  <2> QED
    BY <1>1, <1>2, <2>1, <2>2 DEF LinesIndInv, LineSeen, Unseen
<1> QED
  BY <1>3, <1>4

(* The tables are cleared for a line, and the change of it acknowledged. *)
LEMMA ClearedLine ==
  ASSUME LinesTypeOK, NEW s \in {"INIT", "DCLO"}, events[s] > 0,
         clear_tables(s), events' = EVENT_ACK(s)
  PROVE  /\ clearing' = clearing \ {s}
         /\ line_INIT' = line_INIT
         /\ events' \in [{"dma", "INIT", "DCLO"} -> 0 .. (EventModulus - 1)]
         /\ events'[s] = events[s] - 1
         /\ \A t \in {"INIT", "DCLO"} : t # s => events'[t] = events[t]
<1>1. /\ clearing' = clearing \ {s}
      /\ line_INIT' = line_INIT
  BY DEF clear_tables
<1> QED
  BY <1>1, EventChange

LEMMA InitEventLines ==
  ASSUME LinesTypeOK, LinesIndInv, worker_init_event
  PROVE  LinesTypeOK' /\ LinesIndInv'
<1>1. /\ worker.pc = "init_event"
      /\ clear_tables("INIT")
      /\ events' = EVENT_ACK("INIT")
      /\ worker' = [worker EXCEPT !.pc = "power", !.any_event = @ \/ FALSE]
      /\ UNCHANGED <<bus_line, signal_cur, line_DCLO, interrupt>>
  BY DEF worker_init_event, Goto
<1>2. events["INIT"] > 0 /\ ~worker.init_raising_edge
  BY <1>1 DEF LinesIndInv, LineSeen, Unseen
<1>3. /\ worker' \in WorkerState
      /\ worker'.pc = "power"
      /\ worker'.init_raising_edge = worker.init_raising_edge
      /\ worker'.any_event = worker.any_event
  BY <1>1 DEF LinesTypeOK, WorkerState, WorkerSteps
<1>4. /\ clearing' = clearing \ {"INIT"}
      /\ line_INIT' = line_INIT
      /\ events' \in [{"dma", "INIT", "DCLO"} -> 0 .. (EventModulus - 1)]
      /\ events'["INIT"] = events["INIT"] - 1
      /\ events'["DCLO"] = events["DCLO"]
  BY <1>1, <1>2, ClearedLine
<1>5. LinesTypeOK'
  BY <1>1, <1>3, <1>4 DEF LinesTypeOK
<1>6. events["INIT"] \in Nat /\ events["DCLO"] \in Nat
  BY DmaAssumption DEF LinesTypeOK
<1>7. "INIT" \in clearing /\ "INIT" \notin clearing' /\ ("DCLO" \in clearing' <=> "DCLO" \in clearing)
  BY <1>1, <1>2, <1>4 DEF LinesIndInv
<1>8. Unseen("INIT")' = Unseen("INIT") /\ Unseen("DCLO")' = Unseen("DCLO")
  BY <1>1, <1>2, <1>4, <1>6, <1>7 DEF Unseen
<1>9. LineSeen("INIT", line_INIT)' /\ LineSeen("DCLO", line_DCLO)'
  BY <1>1, <1>2, <1>4, <1>6, <1>7, <1>8, DmaAssumption DEF LinesIndInv, LineSeen
<1>10. LinesIndInv'
  BY <1>1, <1>2, <1>3, <1>7, <1>8, <1>9 DEF LinesIndInv
<1> QED
  BY <1>5, <1>10

LEMMA PowerEventLines ==
  ASSUME LinesTypeOK, LinesIndInv, worker_power_event
  PROVE  LinesTypeOK' /\ LinesIndInv'
<1>1. /\ worker.pc = "power_event"
      /\ clear_tables("DCLO")
      /\ events' = EVENT_ACK("DCLO")
      /\ worker' = [worker EXCEPT !.pc = "dma", !.any_event = @ \/ FALSE]
      /\ UNCHANGED <<bus_line, signal_cur, line_DCLO, interrupt>>
  BY DEF worker_power_event, Goto
<1>2. events["DCLO"] > 0
  BY <1>1 DEF LinesIndInv, LineSeen, Unseen
<1>3. /\ worker' \in WorkerState
      /\ worker'.pc = "dma"
      /\ worker'.init_raising_edge = worker.init_raising_edge
      /\ worker'.any_event = worker.any_event
  BY <1>1 DEF LinesTypeOK, WorkerState, WorkerSteps
<1>4. /\ clearing' = clearing \ {"DCLO"}
      /\ line_INIT' = line_INIT
      /\ events' \in [{"dma", "INIT", "DCLO"} -> 0 .. (EventModulus - 1)]
      /\ events'["DCLO"] = events["DCLO"] - 1
      /\ events'["INIT"] = events["INIT"]
  BY <1>1, <1>2, ClearedLine
<1>5. LinesTypeOK'
  BY <1>1, <1>3, <1>4 DEF LinesTypeOK
<1>6. events["INIT"] \in Nat /\ events["DCLO"] \in Nat
  BY DmaAssumption DEF LinesTypeOK
<1>7. "DCLO" \in clearing /\ "DCLO" \notin clearing' /\ ("INIT" \in clearing' <=> "INIT" \in clearing)
  BY <1>1, <1>2, <1>4 DEF LinesIndInv
<1>8. Unseen("DCLO")' = Unseen("DCLO") /\ Unseen("INIT")' = Unseen("INIT")
  BY <1>1, <1>2, <1>4, <1>6, <1>7 DEF Unseen
<1>9. LineSeen("INIT", line_INIT)' /\ LineSeen("DCLO", line_DCLO)'
  BY <1>1, <1>2, <1>4, <1>6, <1>7, <1>8, DmaAssumption DEF LinesIndInv, LineSeen
<1>10. LinesIndInv'
  BY <1>1, <1>2, <1>3, <1>7, <1>8, <1>9 DEF LinesIndInv
<1> QED
  BY <1>5, <1>10

LEMMA InitRaisedLines ==
  ASSUME LinesTypeOK, LinesIndInv, worker_init_raised
  PROVE  LinesTypeOK' /\ LinesIndInv'
<1>1. /\ worker.pc = "init_raised"
      /\ worker' = [pc |-> IF worker.any_event THEN "init" ELSE "wait", any_event |-> FALSE,
                    init_raising_edge |-> FALSE]
      /\ UNCHANGED <<bus_line, signal_cur, line_DCLO, interrupt>>
  BY DEF worker_init_raised
<1>2. /\ worker' \in WorkerState
      /\ worker'.pc = IF worker.any_event THEN "init" ELSE "wait"
      /\ worker'.init_raising_edge = FALSE /\ worker'.any_event = FALSE
  BY <1>1 DEF WorkerState, WorkerSteps
<1>3. CASE worker.init_raising_edge
  <2>1. clear_tables("INIT") /\ events' = EVENT_ACK("INIT")
    BY <1>3 DEF worker_init_raised
  <2>2. events["INIT"] > 0
    BY <1>3 DEF LinesIndInv, LineSeen, Unseen
  <2>3. /\ clearing' = clearing \ {"INIT"}
        /\ line_INIT' = line_INIT
        /\ events' \in [{"dma", "INIT", "DCLO"} -> 0 .. (EventModulus - 1)]
        /\ events'["INIT"] = events["INIT"] - 1
        /\ events'["DCLO"] = events["DCLO"]
    BY <2>1, <2>2, ClearedLine
  <2>4. LinesTypeOK'
    BY <1>1, <1>2, <2>3 DEF LinesTypeOK
  <2>5. events["INIT"] \in Nat /\ events["DCLO"] \in Nat
    BY DmaAssumption DEF LinesTypeOK
  <2>6. "INIT" \in clearing /\ "INIT" \notin clearing' /\ ("DCLO" \in clearing' <=> "DCLO" \in clearing)
    BY <1>1, <1>3, <2>2, <2>3 DEF LinesIndInv
  <2>7. Unseen("INIT")' = Unseen("INIT") /\ Unseen("DCLO")' = Unseen("DCLO")
    BY <1>1, <1>3, <2>2, <2>3, <2>5, <2>6 DEF Unseen
  <2>8. LineSeen("INIT", line_INIT)' /\ LineSeen("DCLO", line_DCLO)'
    BY <1>1, <1>3, <2>2, <2>3, <2>5, <2>6, <2>7, DmaAssumption DEF LinesIndInv, LineSeen
  <2>9. LinesIndInv'
    BY <1>1, <1>2, <1>3, <2>6, <2>7, <2>8 DEF LinesIndInv
  <2> QED
    BY <2>4, <2>9
<1>4. CASE ~worker.init_raising_edge
  <2>1. UNCHANGED <<line_INIT, clearing, events>>
    BY <1>4 DEF worker_init_raised, vars
  <2>2. LinesTypeOK'
    BY <1>1, <1>2, <2>1 DEF LinesTypeOK
  <2>3. LinesIndInv'
    BY <1>1, <1>2, <1>4, <2>1 DEF LinesIndInv, LineSeen, Unseen
  <2> QED
    BY <2>2, <2>3
<1> QED
  BY <1>3, <1>4

(* worker() tests for a change of INIT, and of DCLO.                          *)
LEMMA InitLines ==
  ASSUME LinesTypeOK, LinesIndInv, worker_init
  PROVE  LinesTypeOK' /\ LinesIndInv'
<1> DEFINE event == ~EVENT_IS_ACKED("INIT")
           edge == event /\ signal_cur["INIT"] # line_INIT
<1>1. /\ worker.pc = "init"
      /\ IF edge THEN init_edge ELSE UNCHANGED vars
      /\ events' = IF event /\ ~edge THEN EVENT_ACK("INIT") ELSE events
      /\ worker' = [pc |-> IF edge /\ line_INIT THEN "init_event" ELSE "power",
                    any_event |-> event,
                    init_raising_edge |-> edge /\ ~line_INIT]
      /\ UNCHANGED <<bus_line, signal_cur, line_DCLO, interrupt>>
  BY DEF worker_init
<1>2. "INIT" \notin clearing /\ "DCLO" \notin clearing
  BY <1>1 DEF LinesIndInv
<1>3. /\ line_INIT \in BOOLEAN /\ signal_cur["INIT"] \in BOOLEAN /\ event \in BOOLEAN
      /\ edge \in BOOLEAN /\ events["INIT"] \in Nat
  BY DmaAssumption DEF LinesTypeOK
<1>4. /\ event <=> events["INIT"] # 0
      /\ edge <=> event /\ signal_cur["INIT"] # line_INIT
  BY DEF EVENT_IS_ACKED
<1> HIDE DEF event, edge
<1>5. /\ worker' \in WorkerState
      /\ worker'.pc = IF edge /\ line_INIT THEN "init_event" ELSE "power"
      /\ worker'.init_raising_edge <=> (edge /\ ~line_INIT)
      /\ worker'.any_event <=> event
  BY <1>1, <1>3 DEF WorkerState, WorkerSteps
<1>6. /\ events' \in [{"dma", "INIT", "DCLO"} -> 0 .. (EventModulus - 1)]
      /\ events'["INIT"] = IF event /\ ~edge THEN events["INIT"] - 1 ELSE events["INIT"]
      /\ events'["DCLO"] = events["DCLO"]
  <2>1. events \in [{"dma", "INIT", "DCLO"} -> 0 .. (EventModulus - 1)]
    BY DEF LinesTypeOK
  <2>2. CASE event /\ ~edge
    BY <1>1, <1>3, <1>4, <2>2, EventChange
  <2>3. CASE ~(event /\ ~edge)
    BY <1>1, <2>1, <2>3
  <2> QED
    BY <2>2, <2>3
<1>7. CASE edge
  <2>1. line_INIT' = ~line_INIT /\ clearing' = clearing \cup {"INIT"}
    BY <1>1, <1>7 DEF init_edge
  <2>2. line_INIT' = signal_cur["INIT"] /\ events["INIT"] > 0 /\ event
    BY <1>3, <1>4, <1>7, <2>1
  <2>3. LinesTypeOK'
    BY <1>1, <1>3, <1>5, <1>6, <2>1 DEF LinesTypeOK
  <2>4. LinesIndInv'
    BY <1>1, <1>2, <1>3, <1>5, <1>6, <1>7, <2>1, <2>2 DEF LinesIndInv, LineSeen, Unseen
  <2> QED
    BY <2>3, <2>4
<1>8. CASE ~edge
  <2>1. UNCHANGED <<line_INIT, clearing>>
    BY <1>1, <1>8 DEF vars
  <2>2. LinesTypeOK'
    BY <1>1, <1>5, <1>6, <2>1 DEF LinesTypeOK
  <2>3. line_INIT = signal_cur["INIT"]
    BY <1>2, <1>3, <1>4, <1>8 DEF LinesIndInv, LineSeen, Unseen
  <2>4. /\ Unseen("INIT")' = events'["INIT"] /\ Unseen("DCLO")' = Unseen("DCLO")
        /\ events'["INIT"] <= events["INIT"] /\ (events'["INIT"] > 0 => event)
    BY <1>2, <1>3, <1>4, <1>6, <2>1 DEF Unseen
  <2>5. LineSeen("INIT", line_INIT)' /\ LineSeen("DCLO", line_DCLO)'
    BY <1>1, <1>2, <1>3, <1>6, <2>1, <2>3, <2>4, DmaAssumption DEF LinesIndInv, LineSeen, LinesTypeOK
  <2>6. LinesIndInv'
    BY <1>1, <1>2, <1>5, <1>8, <2>1, <2>4, <2>5 DEF LinesIndInv
  <2> QED
    BY <2>2, <2>6
<1> QED
  BY <1>7, <1>8

LEMMA PowerLines ==
  ASSUME LinesTypeOK, LinesIndInv, worker_power
  PROVE  LinesTypeOK' /\ LinesIndInv'
<1> DEFINE event == ~EVENT_IS_ACKED("DCLO")
           raising == event /\ signal_cur["DCLO"] /\ ~line_DCLO
<1>1. /\ worker.pc = "power"
      /\ IF raising THEN dclo_edge ELSE UNCHANGED vars
      /\ line_DCLO' = IF event THEN signal_cur["DCLO"] ELSE line_DCLO
      /\ events' = IF event /\ ~raising THEN EVENT_ACK("DCLO") ELSE events
      /\ worker' = [worker EXCEPT !.pc = IF raising THEN "power_event" ELSE "dma",
                                  !.any_event = @ \/ event]
      /\ UNCHANGED <<bus_line, signal_cur, interrupt>>
  BY DEF worker_power, Goto
<1>2. /\ "DCLO" \notin clearing
      /\ event <=> events["DCLO"] # 0
      /\ "INIT" \in clearing <=> worker.init_raising_edge
  BY <1>1 DEF LinesIndInv, LineSeen, Unseen, EVENT_IS_ACKED
<1>3. /\ line_DCLO \in BOOLEAN /\ signal_cur["DCLO"] \in BOOLEAN /\ event \in BOOLEAN
      /\ raising \in BOOLEAN /\ worker \in WorkerState /\ line_INIT \in BOOLEAN
      /\ events["DCLO"] \in Nat /\ events["INIT"] \in Nat
  BY DmaAssumption DEF LinesTypeOK
<1>4. raising <=> event /\ signal_cur["DCLO"] /\ ~line_DCLO
  BY DEF raising
<1> HIDE DEF event, raising
<1>5. /\ worker' \in WorkerState
      /\ worker'.pc = IF raising THEN "power_event" ELSE "dma"
      /\ worker'.init_raising_edge = worker.init_raising_edge
      /\ worker'.any_event <=> worker.any_event \/ event
  BY <1>1, <1>3 DEF WorkerState, WorkerSteps
<1>6. /\ line_INIT' = line_INIT
      /\ clearing' = IF raising THEN clearing \cup {"DCLO"} ELSE clearing
  BY <1>1 DEF dclo_edge, vars
<1>7. /\ events' \in [{"dma", "INIT", "DCLO"} -> 0 .. (EventModulus - 1)]
      /\ events'["INIT"] = events["INIT"]
      /\ events'["DCLO"] = IF event /\ ~raising THEN events["DCLO"] - 1 ELSE events["DCLO"]
  <2>1. events \in [{"dma", "INIT", "DCLO"} -> 0 .. (EventModulus - 1)]
    BY DEF LinesTypeOK
  <2>2. CASE event /\ ~raising
    BY <1>1, <1>2, <1>3, <2>2, EventChange
  <2>3. CASE raising
    BY <1>1, <1>2, <1>4, <2>1, <2>3
  <2>4. CASE ~event
    BY <1>1, <1>2, <1>4, <2>1, <2>4
  <2> QED
    BY <2>2, <2>3, <2>4
<1>8. line_DCLO' = signal_cur["DCLO"]
  BY <1>1, <1>2, <1>3 DEF LinesIndInv, LineSeen, Unseen
<1>9. LinesTypeOK'
  BY <1>1, <1>3, <1>5, <1>6, <1>7, <1>8 DEF LinesTypeOK
<1>10. LineSeen("INIT", line_INIT)'
  BY <1>1, <1>6, <1>7 DEF LinesIndInv, LineSeen, Unseen
<1>11. LineSeen("DCLO", line_DCLO)'
  <2>1. "DCLO" \in clearing' => raising
    BY <1>2, <1>6
  <2>2. signal_cur'["DCLO"] # bus_line'["DCLO"] => events'["DCLO"] < EventModulus - 1
    BY <1>1, <1>3, <1>7, DmaAssumption DEF LinesIndInv, LineSeen
  <2>3. "DCLO" \in clearing' => events'["DCLO"] > 0
    BY <1>2, <1>3, <1>4, <1>7, <2>1
  <2> QED
    BY <1>1, <1>8, <2>2, <2>3 DEF LineSeen
<1>12. LinesIndInv'
  BY <1>1, <1>2, <1>3, <1>4, <1>5, <1>6, <1>7, <1>10, <1>11 DEF LinesIndInv, Unseen
<1> QED
  BY <1>9, <1>12

LEMMA LinesStep ==
  ASSUME LinesTypeOK, LinesIndInv, [DmaNext]_all_vars
  PROVE  LinesTypeOK' /\ LinesIndInv'
<1>1. CASE LinesKept
  BY <1>1, KeepsLines
<1>2. CASE worker_step
  BY <1>2, InitLines, InitEventLines, PowerLines, PowerEventLines, OtherWorkerLines,
     InitRaisedLines
  DEF worker_step
<1>3. CASE pru_step
  BY <1>1, <1>3, ReportLines, ThreadsKeepLines DEF pru_step
<1>4. CASE \E s \in {"INIT", "DCLO"} : bus_signal(s)
  BY <1>4, BusLines
<1> QED
  BY <1>1, <1>2, <1>3, <1>4, ThreadsKeepLines DEF DmaNext

LEMMA LinesInvariance == DmaSpec => [](LinesTypeOK /\ LinesIndInv)
<1>1. ASSUME DmaInit PROVE LinesTypeOK /\ LinesIndInv
  <2>1. /\ events = [e \in {"dma", "INIT", "DCLO"} |-> 0]
        /\ bus_line = [s \in {"INIT", "DCLO"} |-> FALSE]
        /\ signal_cur = [s \in {"INIT", "DCLO"} |-> FALSE]
        /\ line_DCLO = FALSE /\ interrupt = FALSE /\ line_INIT = FALSE /\ clearing = {}
    BY <1>1 DEF DmaInit, Init
  <2>2. /\ worker \in WorkerState /\ worker.pc = "wait"
        /\ worker.init_raising_edge = FALSE /\ worker.any_event = FALSE
    BY <1>1 DEF DmaInit, WorkerState, WorkerSteps
  <2>3. events \in [{"dma", "INIT", "DCLO"} -> 0 .. (EventModulus - 1)]
    BY <2>1, DmaAssumption
  <2>4. LinesTypeOK
    BY <2>1, <2>2, <2>3 DEF LinesTypeOK
  <2>5. \A s \in {"INIT", "DCLO"} : events[s] = 0 /\ bus_line[s] = FALSE /\ signal_cur[s] = FALSE
    BY <2>1
  <2>6. LineSeen("INIT", line_INIT) /\ LineSeen("DCLO", line_DCLO)
    BY <2>1, <2>5, DmaAssumption DEF LineSeen, Unseen
  <2>7. LinesIndInv
    BY <2>1, <2>2, <2>5, <2>6 DEF LinesIndInv, Unseen
  <2> QED
    BY <2>4, <2>7
<1>2. (LinesTypeOK /\ LinesIndInv) /\ [DmaNext]_all_vars => (LinesTypeOK /\ LinesIndInv)'
  BY LinesStep
<1> QED
  BY <1>1, <1>2, PTL DEF DmaSpec

LEMMA AsleepInStep ==
  ASSUME LinesTypeOK, LinesIndInv
  PROVE  LinesInStep
<1>1. SUFFICES ASSUME worker.pc = "wait", ~interrupt
               PROVE  /\ line_INIT = signal_cur["INIT"] /\ line_DCLO = signal_cur["DCLO"]
                      /\ clearing = {} /\ events["INIT"] = 0 /\ events["DCLO"] = 0
  BY DEF LinesInStep, EVENT_IS_ACKED
<1>2. ~worker.any_event /\ clearing = {}
  BY <1>1 DEF LinesIndInv, LinesTypeOK
<1>3. events["INIT"] \in Nat /\ events["DCLO"] \in Nat
  BY DmaAssumption DEF LinesTypeOK
<1>4. Unseen("INIT") = events["INIT"] /\ Unseen("DCLO") = events["DCLO"]
  BY <1>2, <1>3 DEF Unseen
<1>5. events["INIT"] = 0 /\ events["DCLO"] = 0
  BY <1>1, <1>2, <1>3, <1>4 DEF LinesIndInv
<1> QED
  BY <1>2, <1>3, <1>4, <1>5 DEF LinesIndInv, LineSeen

(* worker() does not go to sleep before it has dealt with the last change of *)
(* INIT and DCLO, whatever is under way on the bus and in the tables.        *)
THEOREM LinesStayInStep == DmaSpec => []LinesInStep
BY AsleepInStep, LinesInvariance, PTL

-----------------------------------------------------------------------------
LEMMA DmaFacts ==
  /\ PRIORITY_LEVEL_INDEX_NPR \in Levels
  /\ NULL \notin DmaRequests
  /\ CpuRequests \subseteq DmaRequests
  /\ \A r \in DmaRequests : r \in Requests /\ level_index[r] = PRIORITY_LEVEL_INDEX_NPR
  /\ \A r \in IntrRequests : r \notin DmaRequests
BY RequestAssumption DEF Levels, Requests

(* What a consistent NPR level says of the requests in it. *)
LEMMA NprInTable ==
  ASSUME NEW prl \in PriorityRequestLevel,
         LevelConsistent(PRIORITY_LEVEL_INDEX_NPR, prl)
  PROVE  /\ prl.active \in DmaRequests \cup {NULL}
         /\ prl.active # NULL => prl.active \in Scheduled(prl)
         /\ prl.active = NULL => Scheduled(prl) = {}
         /\ \A r \in Scheduled(prl) :
               r \in DmaRequests /\ r # NULL /\ prl.slot_request[priority_slot[r]] = r
<1>1. /\ Scheduled(prl) \subseteq Requests
      /\ NULL \notin Scheduled(prl)
      /\ \A r \in Scheduled(prl) : /\ prl.slot_request[priority_slot[r]] = r
                                   /\ level_index[r] = PRIORITY_LEVEL_INDEX_NPR
      /\ prl.active # NULL => prl.active \in Scheduled(prl)
      /\ prl.active = NULL => Scheduled(prl) = {}
  BY DmaFacts, InTable
<1>2. \A r \in Scheduled(prl) : r \in DmaRequests
  BY <1>1, RequestAssumption DEF Requests
<1> QED
  BY <1>1, <1>2

LEMMA NprHere ==
  ASSUME IndInv
  PROVE  Npr \in PriorityRequestLevel /\ LevelConsistent(PRIORITY_LEVEL_INDEX_NPR, Npr)
BY DmaFacts DEF IndInv, TypeOK, TablesConsistent, Npr

LEMMA NprThere ==
  ASSUME IndInv'
  PROVE  Npr' \in PriorityRequestLevel /\ LevelConsistent(PRIORITY_LEVEL_INDEX_NPR, Npr')
BY DmaFacts DEF IndInv, TypeOK, TablesConsistent, Npr, LevelConsistent

LEMMA RemainingType ==
  ASSUME IndInv
  PROVE  TypeOK /\ remaining \in [DmaRequests -> 0 .. MaxWordcount]
<1>1. TypeOK
  BY DEF IndInv
<1> QED
  BY <1>1 DEF TypeOK

LEMMA ChunkWords ==
  ASSUME TypeOK, NEW r \in DmaRequests
  PROVE  /\ chunk_words(r) \in 0 .. PRU_MAX_DMA_WORDCOUNT
         /\ chunk_words(r) <= remaining[r]
         /\ remaining[r] > 0 => chunk_words(r) > 0
         /\ remaining[r] \in Int
<1>1. remaining[r] \in 0 .. MaxWordcount
  BY DEF TypeOK
<1> QED
  BY <1>1, WordcountAssumption DEF chunk_words

LEMMA ChunkWordsThere ==
  ASSUME TypeOK', NEW r \in DmaRequests
  PROVE  /\ chunk_words(r)' \in 0 .. PRU_MAX_DMA_WORDCOUNT
         /\ remaining'[r] > 0 => chunk_words(r)' > 0
<1>1. remaining'[r] \in 0 .. MaxWordcount
  BY DEF TypeOK
<1> QED
  BY <1>1, WordcountAssumption DEF chunk_words

-----------------------------------------------------------------------------
(* What the threads' actions do to the NPR level.                            *)

(* DMA() is not called for a request that is scheduled, so none is refused.  *)
LEMMA DMAEffect ==
  ASSUME DistinctSlots, IndInv, NEW r \in DmaRequests, NEW n \in 1 .. MaxWordcount, DMA(r, n)
  PROVE  /\ r \notin Scheduled(Npr)
         /\ Scheduled(Npr') = Scheduled(Npr) \cup {r}
         /\ Npr.active = NULL => Npr'.active = r
         /\ Npr.active # NULL => Npr'.active = Npr.active
         /\ remaining' = [remaining EXCEPT ![r] = n]
         /\ success' = [success EXCEPT ![r] = FALSE]
         /\ failed_assert' = failed_assert
<1>1. /\ r \in Requests /\ level_index[r] = PRIORITY_LEVEL_INDEX_NPR
      /\ PRIORITY_LEVEL_INDEX_NPR \in Levels
      /\ Npr \in PriorityRequestLevel
      /\ LevelConsistent(PRIORITY_LEVEL_INDEX_NPR, Npr)
  BY DmaFacts, NprHere
<1>2. r \notin Scheduled(Npr)
  BY DEF DMA, IndInv, EnterOnce, NoForgottenWaiter
<1>3. ~Occupied(Npr, r)
  <2>1. SUFFICES ASSUME Occupied(Npr, r) PROVE FALSE
    OBVIOUS
  <2>2. Npr.slot_request[priority_slot[r]] = r
    BY <1>1, <2>1, OccupiedByOwner
  <2>3. priority_slot[r] \in Slots /\ r # NULL
    BY <1>1, RequestAssumption
  <2> QED
    BY <1>2, <2>2, <2>3 DEF Scheduled
<1>4. request_levels' =
         [request_levels EXCEPT ![PRIORITY_LEVEL_INDEX_NPR] = ScheduleAndStart(Npr, r)]
  BY <1>3 DEF DMA
<1>5. Npr' = ScheduleAndStart(Npr, r)
  BY <1>1, <1>4 DEF Npr, IndInv, TypeOK
<1>6. /\ Scheduled(ScheduleAndStart(Npr, r)) = Scheduled(Npr) \cup {r}
      /\ Npr.active = NULL => ScheduleAndStart(Npr, r).active = r
      /\ Npr.active # NULL => ScheduleAndStart(Npr, r).active = Npr.active
  BY <1>1, <1>3, ScheduleLevel
<1>7. /\ remaining' = [remaining EXCEPT ![r] = n]
      /\ success' = [success EXCEPT ![r] = FALSE]
      /\ failed_assert' = failed_assert
  BY DEF DMA
<1> QED
  BY <1>2, <1>5, <1>6, <1>7

(* A chunk of the active request is complete: the request goes on, or ends.  *)
LEMMA ChunkEffect ==
  ASSUME IndInv, NEW ready \in BOOLEAN, ChunkComplete(ready), Npr.active # NULL
  PROVE  LET r == Npr.active
             left == remaining[r] - chunk_words(r)
             more_chunks == ready /\ left # 0
         IN  /\ Scheduled(Npr') = IF more_chunks THEN Scheduled(Npr) ELSE Scheduled(Npr) \ {r}
             /\ remaining' = [remaining EXCEPT ![r] = IF ready THEN left ELSE @]
             /\ success' = [success EXCEPT ![r] = ready /\ ~more_chunks]
             /\ failed_assert' = failed_assert
<1> DEFINE r == Npr.active
           left == remaining[r] - chunk_words(r)
           more_chunks == ready /\ left # 0
           p == IF more_chunks THEN request_activate_lowest_slot(Npr) ELSE NextRequest(Npr)
<1>1. /\ PRIORITY_LEVEL_INDEX_NPR \in Levels
      /\ Npr \in PriorityRequestLevel
      /\ LevelConsistent(PRIORITY_LEVEL_INDEX_NPR, Npr)
  BY DmaFacts, NprHere
<1>2. /\ request_levels' = [request_levels EXCEPT ![PRIORITY_LEVEL_INDEX_NPR] = p]
      /\ remaining' = [remaining EXCEPT ![r] = IF ready THEN left ELSE @]
      /\ success' = [success EXCEPT ![r] = ready /\ ~more_chunks]
      /\ failed_assert' = failed_assert
  BY DEF ChunkComplete
<1>3. Npr' = p
  BY <1>1, <1>2 DEF Npr, IndInv, TypeOK
<1>4. Scheduled(request_activate_lowest_slot(Npr)) = Scheduled(Npr)
  BY <1>1, InTable, ActivateLevel
<1>5. Scheduled(NextRequest(Npr)) = Scheduled(Npr) \ {r}
  BY <1>1, NextRequestLevel
<1> QED
  BY <1>2, <1>3, <1>4, <1>5

LEMMA ClearEffect ==
  ASSUME NEW signal \in {"INIT", "DCLO"}, clear_tables(signal)
  PROVE  /\ Npr'.active = NULL
         /\ Scheduled(Npr') = {}
         /\ \A r \in DmaRequests : success'[r] => success[r]
         /\ UNCHANGED <<remaining, failed_assert>>
<1>1. Npr' = EmptyLevel
  BY DmaFacts DEF clear_tables, Npr
<1>2. EmptyLevel.active = NULL /\ Scheduled(EmptyLevel) = {}
  BY DmaFacts, EmptyLevelConsistent DEF EmptyLevel
<1> QED
  BY <1>1, <1>2 DEF clear_tables

(* request_execute_active_on_PRU(). *)
LEMMA ExecuteEffect ==
  ASSUME DmaTypeOK, IndInv', NEW start \in BOOLEAN, Execute(start)
  PROVE  /\ mailbox' \in MailboxState
         /\ pru' \in PruState
         /\ ~start \/ Npr'.active = NULL => UNCHANGED <<mailbox, pru>>
         /\ start /\ Npr'.active # NULL =>
               /\ mailbox'.cur_status = "READY"
               /\ mailbox'.wordcount = chunk_words(Npr.active)'
               /\ mailbox'.cpu_access <=> Npr'.active \in CpuRequests
               /\ mailbox'.request = Npr'.active
               /\ pru'.npr <=> (pru.npr \/ Npr'.active \notin CpuRequests)
               /\ pru'.cpu_request <=> (pru.cpu_request \/ Npr'.active \in CpuRequests)
               /\ UNCHANGED <<pru.granted, pru.state, pru.cur_wordsleft, pru.request>>
<1>1. mailbox \in MailboxState /\ pru \in PruState
  BY DEF DmaTypeOK
<1>2. CASE ~start \/ Npr'.active = NULL
  BY <1>1, <1>2 DEF Execute
<1>3. CASE start /\ Npr'.active # NULL
  <2> DEFINE cpu_access == Npr'.active \in CpuRequests
             words == chunk_words(Npr.active)'
  <2>1. PICK r \in DmaRequests : r = Npr'.active
    BY <1>3, NprThere, NprInTable
  <2>2. mailbox' = [cur_status |-> "READY", wordcount |-> words, cpu_access |-> cpu_access,
                    request |-> r]
    BY <1>3, <2>1 DEF Execute
  <2>3. pru' = IF cpu_access THEN [pru EXCEPT !.cpu_request = TRUE] ELSE [pru EXCEPT !.npr = TRUE]
    BY <1>3 DEF Execute
  <2>4. words \in 0 .. PRU_MAX_DMA_WORDCOUNT
    <3>1. chunk_words(r)' \in 0 .. PRU_MAX_DMA_WORDCOUNT
      BY ChunkWordsThere DEF IndInv
    <3>2. words = chunk_words(r)'
      BY <2>1 DEF chunk_words
    <3> QED
      BY <3>1, <3>2
  <2> HIDE DEF words
  <2>5. mailbox' \in MailboxState
    BY <2>2, <2>4 DEF MailboxState, DmaStates
  <2>6. pru' \in PruState
    BY <1>1, <2>3 DEF PruState
  <2>7. /\ mailbox'.cur_status = "READY"
        /\ mailbox'.wordcount = words
        /\ mailbox'.cpu_access <=> cpu_access
        /\ mailbox'.request = r
    BY <2>2
  <2>8. /\ pru'.npr <=> (pru.npr \/ ~cpu_access)
        /\ pru'.cpu_request <=> (pru.cpu_request \/ cpu_access)
        /\ UNCHANGED <<pru.granted, pru.state, pru.cur_wordsleft, pru.request>>
    BY <1>1, <2>3 DEF PruState
  <2> QED
    BY <1>3, <2>1, <2>5, <2>6, <2>7, <2>8 DEF words
<1> QED
  BY <1>2, <1>3

-----------------------------------------------------------------------------
(* The variables of DmaTypeOK that LinesTypeOK does not have. *)
RestTypeOK ==
  /\ mailbox \in MailboxState
  /\ requests_mutex \in CpuRequests \cup {NULL}
  /\ pru \in PruState
  /\ to_transfer \in [DmaRequests -> 0 .. MaxWordcount]
  /\ late \in BOOLEAN

(* Neither the NPR level nor the mailbox nor the PRU change. *)
AloneStep ==
  /\ UNCHANGED <<request_levels, remaining, success, failed_assert>>
  /\ UNCHANGED <<mailbox, pru, to_transfer, late>>
  /\ requests_mutex' \in CpuRequests \cup {NULL}

LEMMA AloneSteps ==
  ASSUME RestTypeOK,
         \/ \E r \in DmaRequests : call_DMA(r) \/ return_DMA(r)
         \/ \E r \in CpuRequests : cpu_ack(r) \/ cpu_aborted(r)
         \/ worker_wait \/ worker_init \/ worker_power \/ worker_dma \/ worker_dma_ack
         \/ worker_init_raised /\ ~worker.init_raising_edge
         \/ other_event \/ \E s \in {"INIT", "DCLO"} : bus_signal(s)
         \/ Aborted /\ UNCHANGED dma_vars
         \/ UNCHANGED all_vars
  PROVE  AloneStep
<1> USE DEF AloneStep, RestTypeOK
<1>1. ASSUME NEW r \in DmaRequests, call_DMA(r) \/ return_DMA(r) PROVE AloneStep
  BY <1>1 DEF call_DMA, return_DMA, Enter, DMA_return, dma_vars
<1>2. ASSUME NEW r \in CpuRequests, cpu_ack(r) \/ cpu_aborted(r) PROVE AloneStep
  BY <1>2 DEF cpu_ack, cpu_aborted, DMA_aborted, dma_vars, vars
<1>3. CASE worker_init \/ worker_power
  BY <1>3 DEF worker_init, worker_power, init_edge, dclo_edge, vars
<1>4. CASE worker_wait \/ worker_dma \/ worker_dma_ack \/ other_event
  BY <1>4 DEF worker_wait, worker_dma, worker_dma_ack, other_event, vars
<1>5. CASE worker_init_raised /\ ~worker.init_raising_edge
  BY <1>5 DEF worker_init_raised, vars
<1>6. CASE \E s \in {"INIT", "DCLO"} : bus_signal(s)
  BY <1>6 DEF bus_signal, vars
<1>7. CASE Aborted /\ UNCHANGED dma_vars
  BY <1>7 DEF Aborted, dma_vars, vars
<1>8. CASE UNCHANGED all_vars
  BY <1>8 DEF all_vars, dma_vars, vars
<1> QED
  BY <1>1, <1>2, <1>3, <1>4, <1>5, <1>6, <1>7, <1>8

(* The tables are cleared. *)
ClearStepOf(signal) ==
  /\ clear_tables(signal)
  /\ Unlocked
  /\ worker.pc \notin {"dma_event", "dma_ack"}
  /\ worker'.pc \notin {"dma_event", "dma_ack"}
  /\ late' = (late \/ PruBusy)
  /\ events' = EVENT_ACK(signal)
  /\ UNCHANGED <<mailbox, requests_mutex, pru, to_transfer>>

LEMMA ClearSteps ==
  ASSUME LinesTypeOK,
         \/ worker_init_event \/ worker_power_event
         \/ worker_init_raised /\ worker.init_raising_edge
  PROVE  \E signal \in {"INIT", "DCLO"} : ClearStepOf(signal)
<1>0. worker \in WorkerState
  BY DEF LinesTypeOK
<1>1. CASE worker_init_event
  BY <1>0, <1>1 DEF worker_init_event, ClearStepOf, Goto, WorkerState
<1>2. CASE worker_power_event
  BY <1>0, <1>2 DEF worker_power_event, ClearStepOf, Goto, WorkerState
<1>3. CASE worker_init_raised /\ worker.init_raising_edge
  BY <1>0, <1>3 DEF worker_init_raised, ClearStepOf
<1> QED
  BY <1>1, <1>2, <1>3

(* The chunk of the active request is complete, the next one starts. *)
ChunkStepOf(ready) ==
  /\ ready = (mailbox.cur_status = "READY")
  /\ ChunkComplete(ready)
  /\ Unlocked
  /\ Execute(Npr.active # NULL)
  /\ requests_mutex' \in CpuRequests \cup {NULL}
  /\ UNCHANGED <<events, to_transfer, late>>

LEMMA ChunkSteps ==
  ASSUME IndInv,
         \/ worker_device_dma_chunk_complete_event
         \/ \E r \in CpuRequests : cpu_poll(r)
  PROVE  ChunkStepOf(mailbox.cur_status = "READY")
<1>1. CASE worker_device_dma_chunk_complete_event
  BY <1>1 DEF worker_device_dma_chunk_complete_event, worker_dma_event, ChunkStepOf, Unlocked
<1>2. ASSUME NEW r \in CpuRequests, cpu_poll(r)
      PROVE  ChunkStepOf(mailbox.cur_status = "READY")
  <2>1. Npr.active = r /\ r # NULL
    BY <1>2, DmaFacts DEF cpu_poll, cpu_dma_event
  <2> QED
    BY <1>2, <2>1 DEF cpu_poll, cpu_dma_event, ChunkStepOf
<1> QED
  BY <1>1, <1>2

-----------------------------------------------------------------------------
(* The types, and that the PRU is never given an empty chunk.                *)
Fed == RestTypeOK /\ PruFed

LEMMA AloneFed ==
  ASSUME RestTypeOK, PruFed, AloneStep
  PROVE  Fed'
<1>1. Npr' = Npr
  BY DEF AloneStep, Npr
<1>2. RestTypeOK'
  BY DEF AloneStep, RestTypeOK
<1>3. PruFed'
  BY <1>1 DEF AloneStep, PruFed, PruAtWork, Running
<1> QED
  BY <1>2, <1>3 DEF Fed

LEMMA ClearFed ==
  ASSUME RestTypeOK, PruFed, NEW signal \in {"INIT", "DCLO"}, ClearStepOf(signal)
  PROVE  Fed'
<1>1. /\ UNCHANGED <<mailbox, pru, to_transfer, requests_mutex>>
      /\ late' = (late \/ PruBusy)
  BY DEF ClearStepOf
<1>2. Scheduled(Npr') = {}
  BY ClearEffect DEF ClearStepOf
<1>3. RestTypeOK'
  BY <1>1 DEF RestTypeOK, PruBusy
<1>4. PruFed'
  BY <1>1, <1>2 DEF PruFed, PruAtWork, Running
<1> QED
  BY <1>3, <1>4 DEF Fed

(* A request is handed to the PRU. *)
LEMMA ExecuteFed ==
  ASSUME DmaTypeOK, PruFed, IndInv', NEW start \in BOOLEAN, Execute(start),
         \A r \in Scheduled(Npr') : remaining'[r] > 0
  PROVE  /\ PruFed'
         /\ mailbox' \in MailboxState
         /\ pru' \in PruState
<1>1. mailbox' \in MailboxState /\ pru' \in PruState
  BY ExecuteEffect
<1>2. CASE ~start \/ Npr'.active = NULL
  BY <1>2, ExecuteEffect DEF PruFed, PruAtWork, Running
<1>3. CASE start /\ Npr'.active # NULL
  <2>1. PICK r \in DmaRequests : r = Npr'.active /\ r \in Scheduled(Npr')
    BY <1>3, NprThere, NprInTable
  <2>2. chunk_words(r)' > 0
    BY <2>1, ChunkWordsThere DEF IndInv
  <2>3. /\ mailbox'.wordcount = chunk_words(Npr.active)'
        /\ mailbox'.request = r
        /\ UNCHANGED <<pru.granted, pru.state, pru.cur_wordsleft, pru.request>>
    BY <1>3, <2>1, ExecuteEffect
  <2>4. mailbox'.wordcount > 0
    BY <2>1, <2>2, <2>3 DEF chunk_words
  <2> QED
    BY <1>1, <2>1, <2>3, <2>4, DmaFacts DEF PruFed, PruAtWork, Running
<1> QED
  BY <1>1, <1>2, <1>3

LEMMA StartFed ==
  ASSUME DistinctSlots, IndInv, IndInv', DmaTypeOK, PruFed,
         NEW r \in DmaRequests, NEW n \in 1 .. MaxWordcount, start_DMA(r, n)
  PROVE  Fed'
<1>1. /\ DMA(r, n)
      /\ Execute(Npr.active = NULL)
      /\ to_transfer' = [to_transfer EXCEPT ![r] = n]
      /\ UNCHANGED <<requests_mutex, late>>
  BY DEF start_DMA
<1>2. \A q \in Scheduled(Npr') : remaining'[q] > 0
  <2>1. /\ Scheduled(Npr') = Scheduled(Npr) \cup {r}
        /\ remaining' = [remaining EXCEPT ![r] = n]
    BY <1>1, DMAEffect
  <2>2. n > 0 /\ remaining \in [DmaRequests -> 0 .. MaxWordcount]
    BY RemainingType
  <2>3. \A q \in Scheduled(Npr) : q \in DmaRequests /\ remaining[q] > 0
    BY NprHere, NprInTable DEF PruFed
  <2> QED
    BY <2>1, <2>2, <2>3
<1>3. PruFed' /\ mailbox' \in MailboxState /\ pru' \in PruState
  <2>1. (Npr.active = NULL) \in BOOLEAN
    OBVIOUS
  <2> QED
    BY <1>1, <1>2, <2>1, ExecuteFed
<1>4. to_transfer' \in [DmaRequests -> 0 .. MaxWordcount]
  <2>1. n \in 0 .. MaxWordcount
    BY WordcountAssumption
  <2> QED
    BY <1>1, <2>1 DEF DmaTypeOK
<1> QED
  BY <1>1, <1>3, <1>4 DEF Fed, RestTypeOK, DmaTypeOK

LEMMA ChunkFed ==
  ASSUME IndInv, IndInv', DmaTypeOK, PruFed,
         ChunkStepOf(mailbox.cur_status = "READY")
  PROVE  Fed'
<1>1. PICK ready \in BOOLEAN : ready = (mailbox.cur_status = "READY")
  OBVIOUS
<1>2. /\ ChunkComplete(ready)
      /\ Execute(Npr.active # NULL)
      /\ requests_mutex' \in CpuRequests \cup {NULL}
      /\ UNCHANGED <<to_transfer, late>>
  BY <1>1 DEF ChunkStepOf
<1>3. \A q \in Scheduled(Npr) : q \in DmaRequests /\ remaining[q] > 0
  BY NprHere, NprInTable DEF PruFed
<1>4. \A q \in Scheduled(Npr') : remaining'[q] > 0
  <2>1. CASE Npr.active = NULL
    BY <1>2, <1>3, <2>1 DEF ChunkComplete, Npr
  <2>2. CASE Npr.active # NULL
    <3>1. PICK r \in DmaRequests : r = Npr.active
      BY <2>2, NprHere, NprInTable
    <3> DEFINE left == remaining[r] - chunk_words(r)
    <3>2. /\ chunk_words(r) <= remaining[r]
          /\ remaining[r] \in Int
          /\ chunk_words(r) \in Int
          /\ remaining \in [DmaRequests -> 0 .. MaxWordcount]
      BY RemainingType, ChunkWords DEF IndInv
    <3>3. left \in Int /\ left >= 0
      BY <3>2
    <3>4. /\ Scheduled(Npr') = IF ready /\ left # 0 THEN Scheduled(Npr)
                               ELSE Scheduled(Npr) \ {r}
          /\ remaining' = [remaining EXCEPT ![r] = IF ready THEN left ELSE @]
      BY <1>2, <2>2, <3>1, ChunkEffect
    <3> HIDE DEF left
    <3> QED
      BY <1>3, <3>2, <3>3, <3>4
  <2> QED
    BY <2>1, <2>2
<1>5. PruFed' /\ mailbox' \in MailboxState /\ pru' \in PruState
  <2>1. (Npr.active # NULL) \in BOOLEAN
    OBVIOUS
  <2> QED
    BY <1>2, <1>4, <2>1, ExecuteFed
<1> QED
  BY <1>2, <1>5 DEF Fed, RestTypeOK, DmaTypeOK

(* The PRU's own steps. *)
LEMMA PruStepFed ==
  ASSUME DmaTypeOK, PruFed, pru_step
  PROVE  Fed'
<1>1. /\ UNCHANGED vars
      /\ UNCHANGED <<requests_mutex, late>>
  BY DEF pru_step, PruStep, do_event_initializationsignals, init_clears_requests,
     npr_granted, npr_bus_free, cpu_bus_free, sm_dma_start, sm_dma_state_1, sm_dma_state_99
<1>2. Scheduled(Npr') = Scheduled(Npr) /\ remaining' = remaining
  BY <1>1 DEF vars, Npr
<1>3. /\ mailbox \in MailboxState /\ pru \in PruState
      /\ to_transfer \in [DmaRequests -> 0 .. MaxWordcount]
      /\ PRU_MAX_DMA_WORDCOUNT \in Nat /\ MaxWordcount \in Nat
  BY WordcountAssumption DEF DmaTypeOK
<1> DEFINE AtWork == mailbox'.wordcount > 0 /\ mailbox'.request # NULL
           Goal == /\ mailbox' \in MailboxState /\ pru' \in PruState
                   /\ to_transfer' \in [DmaRequests -> 0 .. MaxWordcount]
                   /\ PruAtWork' => AtWork
                   /\ Running' => pru'.cur_wordsleft > 0 /\ pru'.request # NULL
<1>4. Goal
  <2>1. ASSUME NEW s \in {"INIT", "DCLO"}, do_event_initializationsignals(s) PROVE Goal
    <3>1. /\ pru.state = "none"
          /\ pru' \in {pru, [pru EXCEPT !.npr = FALSE]}
          /\ UNCHANGED <<mailbox, to_transfer>>
      BY <2>1 DEF do_event_initializationsignals
    <3> QED
      BY <1>3, <3>1 DEF PruFed, PruAtWork, Running, PruState
  <2>2. CASE init_clears_requests
    BY <1>3, <2>2 DEF init_clears_requests, PruFed, PruAtWork, Running, PruState
  <2>3. CASE npr_granted
    BY <1>3, <2>3 DEF npr_granted, PruStep, PruFed, PruAtWork, Running, PruState
  <2>4. CASE npr_bus_free
    BY <1>3, <2>4 DEF npr_bus_free, PruStep, PruFed, PruAtWork, Running, PruState
  <2>5. CASE cpu_bus_free
    BY <1>3, <2>5 DEF cpu_bus_free, PruStep, PruFed, PruAtWork, Running, PruState
  <2>6. CASE sm_dma_start
    BY <1>3, <2>6 DEF sm_dma_start, PruFed, PruAtWork, Running, PruState, MailboxState,
       DmaStates
  <2>7. CASE sm_dma_state_1
    BY <1>3, <2>7 DEF sm_dma_state_1, PruStep, PruFed, PruAtWork, Running, PruState
  <2>8. ASSUME NEW state_timeout \in BOOLEAN, sm_dma_state_99(state_timeout) PROVE Goal
    <3> DEFINE left == IF state_timeout THEN pru.cur_wordsleft ELSE pru.cur_wordsleft - 1
               final == final_dma_state(state_timeout, left)
    <3>1. /\ pru.state = "99"
          /\ IF final = "RUNNING"
               THEN /\ pru' = [pru EXCEPT !.state = "1", !.cur_wordsleft = left]
                    /\ UNCHANGED mailbox
               ELSE /\ pru' = [pru EXCEPT !.state = "none", !.BBSY = FALSE,
                                          !.SACK = @ /\ final = "READY",
                                          !.cur_wordsleft = left, !.request = NULL]
                    /\ mailbox' = [mailbox EXCEPT !.cur_status = final]
          /\ to_transfer' = IF state_timeout \/ to_transfer[pru.request] = 0 THEN to_transfer
                            ELSE [to_transfer EXCEPT ![pru.request] = @ - 1]
      BY <2>8 DEF sm_dma_state_99
    <3>2. /\ pru.cur_wordsleft \in 0 .. PRU_MAX_DMA_WORDCOUNT
          /\ pru.cur_wordsleft > 0
          /\ pru.request \in DmaRequests
          /\ mailbox.wordcount > 0 /\ mailbox.request # NULL
      BY <1>3, <3>1 DEF PruFed, PruAtWork, Running, PruState
    <3>3. /\ left \in 0 .. PRU_MAX_DMA_WORDCOUNT
          /\ final \in DmaStates
          /\ final = "RUNNING" => left > 0
      BY <1>3, <3>2 DEF final_dma_state, DmaStates
    <3>4. to_transfer' \in [DmaRequests -> 0 .. MaxWordcount]
      BY <1>3, <3>1, <3>2
    <3> HIDE DEF left, final
    <3>5. CASE final = "RUNNING"
      BY <1>3, <3>1, <3>2, <3>3, <3>4, <3>5 DEF PruFed, PruAtWork, Running, PruState
    <3>6. CASE final # "RUNNING"
      <4>1. mailbox' \in MailboxState
        BY <1>3, <3>1, <3>3, <3>6 DEF MailboxState
      <4>2. pru' \in PruState
        BY <1>3, <3>1, <3>3, <3>6 DEF PruState
      <4>3. mailbox'.wordcount = mailbox.wordcount /\ mailbox'.request = mailbox.request
        BY <1>3, <3>1, <3>6 DEF MailboxState
      <4>4. pru'.state = "none"
        BY <1>3, <3>1, <3>6 DEF PruState
      <4> QED
        BY <3>2, <3>4, <4>1, <4>2, <4>3, <4>4 DEF Running
    <3> QED
      BY <3>5, <3>6
  <2> QED
    BY <2>1, <2>2, <2>3, <2>4, <2>5, <2>6, <2>7, <2>8 DEF pru_step
<1>5. RestTypeOK'
  BY <1>1, <1>4 DEF RestTypeOK, DmaTypeOK
<1>6. PruFed'
  BY <1>2, <1>4 DEF PruFed
<1> QED
  BY <1>5, <1>6 DEF Fed

LEMMA FedStep ==
  ASSUME DistinctSlots, IndInv, IndInv', DmaTypeOK, PruFed, [DmaNext]_all_vars
  PROVE  Fed'
<1>0. RestTypeOK /\ LinesTypeOK
  BY DEF DmaTypeOK, RestTypeOK, LinesTypeOK, IndInv, TypeOK
<1>1. CASE AloneStep
  BY <1>0, <1>1, AloneFed
<1>2. CASE worker_step
  <2>1. CASE \/ worker_init_event \/ worker_power_event
             \/ worker_init_raised /\ worker.init_raising_edge
    BY <1>0, <2>1, ClearSteps, ClearFed
  <2>2. CASE worker_device_dma_chunk_complete_event
    BY <2>2, ChunkSteps, ChunkFed
  <2>3. CASE \/ worker_wait \/ worker_init \/ worker_power \/ worker_dma \/ worker_dma_ack
             \/ worker_init_raised /\ ~worker.init_raising_edge
    BY <1>0, <1>1, <2>3, AloneSteps
  <2>4. CASE worker_init_raised
    BY <2>1, <2>3, <2>4
  <2> QED
    BY <1>2, <2>1, <2>2, <2>3, <2>4 DEF worker_step
<1>3. CASE pru_step
  BY <1>3, PruStepFed
<1>4. CASE \E r \in DmaRequests, n \in 1 .. MaxWordcount : start_DMA(r, n)
  BY <1>4, StartFed
<1>5. CASE \E r \in CpuRequests : cpu_poll(r)
  BY <1>5, ChunkSteps, ChunkFed
<1>6. CASE \/ \E r \in DmaRequests : call_DMA(r) \/ return_DMA(r)
           \/ \E r \in CpuRequests : cpu_ack(r) \/ cpu_aborted(r)
           \/ other_event \/ \E s \in {"INIT", "DCLO"} : bus_signal(s)
           \/ Aborted /\ UNCHANGED dma_vars
           \/ UNCHANGED all_vars
  BY <1>0, <1>1, <1>6, AloneSteps
<1> QED
  BY <1>2, <1>3, <1>4, <1>5, <1>6 DEF DmaNext

-----------------------------------------------------------------------------
(* A line that nobody drives is never asserted, reported or counted.         *)
LinesQuiet ==
  \A s \in {"INIT", "DCLO"} \ Signals : ~bus_line[s] /\ ~signal_cur[s] /\ events[s] = 0

LineMoves(s) ==
  /\ bus_line'[s] # bus_line[s] => s \in Signals
  /\ signal_cur'[s] # signal_cur[s] => signal_cur'[s] = bus_line[s]
  /\ events'[s] # 0 => events[s] # 0 \/ signal_cur[s] # bus_line[s]

LEMMA LinesMove ==
  ASSUME LinesTypeOK, LinesIndInv, [DmaNext]_all_vars
  PROVE  \A s \in {"INIT", "DCLO"} : LineMoves(s)
<1>0. events \in [{"dma", "INIT", "DCLO"} -> 0 .. (EventModulus - 1)]
  BY DEF LinesTypeOK
<1>1. CASE LinesKept
  <2>1. \A s \in {"INIT", "DCLO"} : events'[s] = events[s]
    BY <1>1, EventChange DEF LinesKept
  <2> QED
    BY <1>1, <2>1 DEF LinesKept, LineMoves
<1>2. CASE worker_step
  <2>1. UNCHANGED <<bus_line, signal_cur>>
    BY <1>2 DEF worker_step, worker_wait, worker_init, worker_init_event, worker_power,
       worker_power_event, worker_dma, worker_device_dma_chunk_complete_event, worker_dma_ack,
       worker_init_raised
  <2>2. \/ events' \in {events, EVENT_ACK("dma")}
        \/ events["INIT"] # 0 /\ events' = EVENT_ACK("INIT")
        \/ events["DCLO"] # 0 /\ events' = EVENT_ACK("DCLO")
    <3>1. CASE worker_wait \/ worker_dma \/ worker_device_dma_chunk_complete_event
                 \/ worker_dma_ack
      BY <3>1 DEF worker_wait, worker_dma, worker_device_dma_chunk_complete_event,
         worker_dma_ack
    <3>2. CASE worker_init \/ worker_power
      BY <3>2 DEF worker_init, worker_power, EVENT_IS_ACKED
    <3>3. CASE worker_init_event \/ worker_power_event
      <4>1. CASE worker_init_event
        <5>1. worker.pc = "init_event" /\ events' = EVENT_ACK("INIT")
          BY <4>1 DEF worker_init_event
        <5>2. events["INIT"] # 0
          BY <5>1 DEF LinesIndInv, LineSeen
        <5> QED
          BY <5>1, <5>2
      <4>2. CASE worker_power_event
        <5>1. worker.pc = "power_event" /\ events' = EVENT_ACK("DCLO")
          BY <4>2 DEF worker_power_event
        <5>2. events["DCLO"] # 0
          BY <5>1 DEF LinesIndInv, LineSeen
        <5> QED
          BY <5>1, <5>2
      <4> QED
        BY <3>3, <4>1, <4>2
    <3>4. CASE worker_init_raised
      BY <3>4 DEF worker_init_raised, LinesIndInv, LineSeen
    <3> QED
      BY <1>2, <3>1, <3>2, <3>3, <3>4 DEF worker_step
  <2>3. \A s \in {"INIT", "DCLO"} : events'[s] # 0 => events[s] # 0
    BY <2>2, EventChange
  <2> QED
    BY <2>1, <2>3 DEF LineMoves
<1>3. ASSUME NEW t \in {"INIT", "DCLO"}, bus_signal(t)
      PROVE  \A s \in {"INIT", "DCLO"} : LineMoves(s)
  <2>1. /\ t \in Signals
        /\ bus_line' = [bus_line EXCEPT ![t] = ~@]
        /\ UNCHANGED <<events, signal_cur>>
    BY <1>3 DEF bus_signal
  <2>2. \A s \in {"INIT", "DCLO"} : s # t => bus_line'[s] = bus_line[s]
    BY <2>1 DEF LinesTypeOK
  <2> QED
    BY <2>1, <2>2 DEF LineMoves
<1>4. ASSUME NEW t \in {"INIT", "DCLO"}, do_event_initializationsignals(t)
      PROVE  \A s \in {"INIT", "DCLO"} : LineMoves(s)
  <2>1. /\ signal_cur[t] # bus_line[t]
        /\ signal_cur' = [signal_cur EXCEPT ![t] = bus_line[t]]
        /\ events' = EVENT_SIGNAL(t)
        /\ UNCHANGED bus_line
    BY <1>4 DEF do_event_initializationsignals
  <2>2. \A s \in {"INIT", "DCLO"} :
           s # t => signal_cur'[s] = signal_cur[s] /\ events'[s] = events[s]
    BY <2>1, EventChange DEF LinesTypeOK
  <2>3. signal_cur'[t] = bus_line[t]
    BY <2>1 DEF LinesTypeOK
  <2> QED
    BY <2>1, <2>2, <2>3 DEF LineMoves
<1> QED
  BY <1>1, <1>2, <1>3, <1>4, ThreadsKeepLines DEF DmaNext, pru_step

LEMMA QuietStep ==
  ASSUME LinesTypeOK, LinesIndInv, LinesQuiet, [DmaNext]_all_vars
  PROVE  LinesQuiet'
<1>1. SUFFICES ASSUME NEW s \in {"INIT", "DCLO"}, s \notin Signals
               PROVE  ~bus_line'[s] /\ ~signal_cur'[s] /\ events'[s] = 0
  BY DEF LinesQuiet
<1>2. LineMoves(s)
  BY LinesMove
<1>3. ~bus_line[s] /\ ~signal_cur[s] /\ events[s] = 0
  BY <1>1 DEF LinesQuiet
<1>4. bus_line[s] \in BOOLEAN /\ signal_cur[s] \in BOOLEAN
  BY DEF LinesTypeOK
<1> QED
  BY <1>1, <1>2, <1>3, <1>4 DEF LineMoves

-----------------------------------------------------------------------------
(* ARM and PRU work on the same request, as long as the tables are not       *)
(* cleared under the PRU.                                                    *)

(* The part of the steps of AloneStep that concerns the events of DMA.       *)
AloneCounts ==
  \/ events'["dma"] = events["dma"] /\ (Acknowledging' <=> Acknowledging)
  \/ Acknowledging /\ ~Acknowledging' /\ events'["dma"] = events["dma"] - 1

AloneWorker ==
  /\ worker'.pc = "dma_event" => worker.pc = "dma_event" \/ Pending
  /\ CpuRequests # {} => worker'.pc \notin {"dma_event", "dma_ack"}

LEMMA AloneInTime ==
  ASSUME IndInv, DmaTypeOK, DmaInTime, AloneStep, AloneCounts, AloneWorker
  PROVE  DmaInTime'
<1> USE DEF DmaInTime
<1>1. events["dma"] \in Nat
  BY DmaAssumption DEF DmaTypeOK
<1>2. Npr' = Npr /\ chunk_words(Npr.active)' = chunk_words(Npr.active)
  BY DEF AloneStep, Npr, chunk_words
<1>3. /\ Pending' <=> Pending
      /\ events'["dma"] = (IF Acknowledging' THEN 1 ELSE 0)
            <=> events["dma"] = (IF Acknowledging THEN 1 ELSE 0)
  BY <1>1 DEF AloneCounts, Pending
<1>4. (PruAtWork' <=> PruAtWork) /\ (Running' <=> Running)
  BY DEF AloneStep, PruAtWork, Running
<1>5. RequestInStep'
  BY <1>2, <1>3, <1>4 DEF AloneStep, RequestInStep
<1>6. EventsOfOneUser'
  <2>1. worker'.pc = "dma_event" => Pending'
    BY <1>3 DEF AloneWorker, EventsOfOneUser
  <2>2. CASE CpuRequests = {}
    BY <2>1, <2>2 DEF AloneStep, EventsOfOneUser
  <2>3. CASE CpuRequests # {}
    <3>1. events["dma"] = 0 /\ Npr.active = NULL => events'["dma"] = 0
      <4>1. SUFFICES ASSUME events["dma"] = 0, Npr.active = NULL PROVE events'["dma"] = 0
        OBVIOUS
      <4>2. ~Pending /\ ~Acknowledging
        BY <4>1 DEF RequestInStep, Pending
      <4> QED
        BY <4>1, <4>2 DEF AloneCounts
    <3> QED
      BY <1>2, <2>1, <2>3, <3>1 DEF AloneStep, AloneWorker, EventsOfOneUser
  <2> QED
    BY <2>2, <2>3
<1>7. WordsInStep'
  BY <1>2, <1>3, <1>4 DEF AloneStep, WordsInStep
<1>8. RunningInStep'
  BY <1>4 DEF AloneStep, RunningInStep
<1>9. SuccessIsTransferred' /\ NoFailedAssert'
  BY DEF AloneStep, SuccessIsTransferred, NoFailedAssert
<1> QED
  BY <1>5, <1>6, <1>7, <1>8, <1>9

LEMMA AloneStepsCount ==
  ASSUME IndInv, DmaTypeOK, LinesTypeOK, OneUser, DmaInTime,
         \/ \E r \in DmaRequests : call_DMA(r) \/ return_DMA(r)
         \/ \E r \in CpuRequests : cpu_ack(r) \/ cpu_aborted(r)
         \/ worker_wait \/ worker_init \/ worker_power \/ worker_dma \/ worker_dma_ack
         \/ worker_init_raised /\ ~worker.init_raising_edge
         \/ other_event \/ \E s \in {"INIT", "DCLO"} : bus_signal(s)
         \/ Aborted /\ UNCHANGED dma_vars
         \/ UNCHANGED all_vars
  PROVE  AloneCounts /\ AloneWorker
<1> USE DEF DmaInTime
<1>0. /\ events["dma"] \in Nat
      /\ worker \in WorkerState
      /\ requests_mutex \in CpuRequests \cup {NULL}
      /\ NULL \notin CpuRequests
  BY DmaAssumption, DmaFacts DEF DmaTypeOK
<1>1. CASE UNCHANGED <<events, worker, requests_mutex>>
  BY <1>1 DEF AloneCounts, AloneWorker, Acknowledging, Unlocked, EventsOfOneUser
<1>2. ASSUME NEW r \in CpuRequests, cpu_ack(r) PROVE AloneCounts /\ AloneWorker
  <2>1. /\ requests_mutex = r /\ requests_mutex' = NULL
        /\ events' = EVENT_ACK("dma")
        /\ UNCHANGED worker
    BY <1>2 DEF cpu_ack
  <2>2. Acknowledging /\ worker.pc # "dma_ack" /\ ~Acknowledging'
    BY <1>0, <2>1 DEF Acknowledging, Unlocked, EventsOfOneUser
  <2>3. events["dma"] > 0
    BY <1>0, <2>2 DEF RequestInStep, Pending
  <2>4. events'["dma"] = events["dma"] - 1
    BY <2>1, <2>3, EventChange
  <2> QED
    BY <2>1, <2>2, <2>4 DEF AloneCounts, AloneWorker, EventsOfOneUser
<1>3. CASE worker_dma_ack
  <2>1. /\ worker.pc = "dma_ack" /\ worker'.pc = "init_raised"
        /\ events' = EVENT_ACK("dma")
        /\ UNCHANGED requests_mutex
    BY <1>0, <1>3 DEF worker_dma_ack, Goto, WorkerState
  <2>2. CpuRequests = {} /\ Acknowledging /\ ~Acknowledging'
    BY <1>0, <2>1 DEF Acknowledging, Unlocked, EventsOfOneUser
  <2>3. events["dma"] > 0
    BY <1>0, <2>2 DEF RequestInStep, Pending
  <2>4. events'["dma"] = events["dma"] - 1
    BY <2>1, <2>3, EventChange
  <2> QED
    BY <2>1, <2>2, <2>4 DEF AloneCounts, AloneWorker
<1>4. CASE worker_dma
  <2> DEFINE event == ~EVENT_IS_ACKED("dma") /\ ~mailbox.cpu_access
  <2>1. /\ worker.pc = "dma"
        /\ worker' = [worker EXCEPT !.pc = IF event THEN "dma_event" ELSE "init_raised",
                                    !.any_event = @ \/ event]
        /\ UNCHANGED <<events, requests_mutex>>
    BY <1>4 DEF worker_dma, Goto
  <2>2. worker'.pc = IF event THEN "dma_event" ELSE "init_raised"
    BY <1>0, <2>1 DEF WorkerState
  <2>3. event => CpuRequests = {} /\ Pending
    <3>1. SUFFICES ASSUME event PROVE CpuRequests = {} /\ Pending
      OBVIOUS
    <3>2. events["dma"] # 0 /\ ~mailbox.cpu_access
      BY <3>1 DEF EVENT_IS_ACKED
    <3>3. CpuRequests = {}
      BY <3>2 DEF EventsOfOneUser
    <3>4. ~Acknowledging
      BY <1>0, <2>1, <3>3 DEF Acknowledging, Unlocked
    <3> QED
      BY <3>2, <3>3, <3>4 DEF RequestInStep
  <2>4. Acknowledging' <=> Acknowledging
    BY <2>1, <2>2 DEF Acknowledging, Unlocked
  <2> HIDE DEF event
  <2> QED
    BY <2>1, <2>2, <2>3, <2>4 DEF AloneCounts, AloneWorker
<1>5. CASE worker_wait \/ worker_init \/ worker_power
           \/ (worker_init_raised /\ ~worker.init_raising_edge)
  <2>1. /\ UNCHANGED requests_mutex
        /\ events' \in {events, EVENT_ACK("INIT"), EVENT_ACK("DCLO")}
        /\ worker.pc \in {"wait", "init", "power", "init_raised"}
    BY <1>5 DEF worker_wait, worker_init, worker_power, worker_init_raised
  <2>2. worker'.pc \in {"init", "init_event", "power", "power_event", "dma", "wait"}
    <3>1. CASE worker_wait \/ worker_init
      BY <1>0, <3>1 DEF worker_wait, worker_init, WorkerState
    <3>2. CASE worker_power
      <4>1. \E pc \in {"power_event", "dma"} : \E event : Goto(pc, event)
        BY <3>2 DEF worker_power
      <4> QED
        BY <1>0, <4>1 DEF Goto, WorkerState
    <3>3. CASE worker_init_raised
      BY <1>0, <3>3 DEF worker_init_raised
    <3> QED
      BY <1>5, <3>1, <3>2, <3>3
  <2>3. events'["dma"] = events["dma"]
    BY <2>1, EventChange
  <2>4. Acknowledging' <=> Acknowledging
    BY <2>1, <2>2 DEF Acknowledging, Unlocked
  <2> QED
    BY <2>2, <2>3, <2>4 DEF AloneCounts, AloneWorker
<1>6. CASE \/ \E r \in DmaRequests : call_DMA(r) \/ return_DMA(r)
           \/ \E r \in CpuRequests : cpu_aborted(r)
           \/ other_event \/ \E s \in {"INIT", "DCLO"} : bus_signal(s)
           \/ Aborted /\ UNCHANGED dma_vars
           \/ UNCHANGED all_vars
  <2>1. UNCHANGED <<events, worker, requests_mutex>>
    BY <1>6 DEF call_DMA, return_DMA, cpu_aborted, other_event, bus_signal, all_vars, dma_vars
  <2> QED
    BY <1>1, <2>1
<1>7. CASE \E r \in CpuRequests : cpu_ack(r)
  BY <1>2, <1>7
<1> QED
  BY <1>3, <1>4, <1>5, <1>6, <1>7

(* In time: the tables are cleared while nothing is under way. *)
LEMMA ClearInTime ==
  ASSUME IndInv, DmaTypeOK, LinesTypeOK, OneUser, DmaInTime, ~late',
         NEW signal \in {"INIT", "DCLO"}, ClearStepOf(signal)
  PROVE  DmaInTime'
<1> USE DEF DmaInTime
<1>1. /\ ~PruBusy
      /\ events' = EVENT_ACK(signal)
      /\ UNCHANGED <<mailbox, requests_mutex, pru, to_transfer>>
      /\ Unlocked
      /\ worker.pc \notin {"dma_event", "dma_ack"}
      /\ worker'.pc \notin {"dma_event", "dma_ack"}
  BY DEF ClearStepOf
<1>2. /\ Npr'.active = NULL
      /\ Scheduled(Npr') = {}
      /\ \A r \in DmaRequests : success'[r] => success[r]
      /\ UNCHANGED <<remaining, failed_assert>>
  BY ClearEffect DEF ClearStepOf
<1>3. ~PruAtWork /\ events["dma"] = 0
  BY <1>1 DEF PruBusy, PruAtWork, EVENT_IS_ACKED
<1>4. events'["dma"] = 0
  BY <1>1, <1>3, EventChange
<1>5. ~Acknowledging' /\ ~Pending' /\ ~Pending /\ ~PruAtWork'
  BY <1>1, <1>3, <1>4 DEF Acknowledging, Unlocked, Pending, PruAtWork
<1>6. ~Running /\ ~Running' /\ ~pru.npr /\ ~pru.granted /\ ~pru.cpu_request /\ pru.state = "none"
  BY <1>1, <1>3 DEF Running, PruAtWork
<1>7. RequestInStep'
  BY <1>1, <1>2, <1>4, <1>5, <1>6, DmaFacts DEF RequestInStep
<1>8. EventsOfOneUser'
  BY <1>1, <1>2, <1>4, <1>6 DEF EventsOfOneUser
<1>9. WordsInStep' /\ RunningInStep'
  BY <1>2, <1>5, <1>6 DEF WordsInStep, RunningInStep
<1>10. SuccessIsTransferred' /\ NoFailedAssert'
  BY <1>1, <1>2 DEF SuccessIsTransferred, NoFailedAssert
<1> QED
  BY <1>7, <1>8, <1>9, <1>10

(* DMA(): the request waits behind the active one, or goes to the idle PRU.  *)
LEMMA StartInTime ==
  ASSUME DistinctSlots, IndInv, IndInv', DmaTypeOK, OneUser, DmaInTime,
         NEW r \in DmaRequests, NEW n \in 1 .. MaxWordcount, start_DMA(r, n)
  PROVE  DmaInTime'
<1> USE DEF DmaInTime
<1>1. /\ DMA(r, n)
      /\ Execute(Npr.active = NULL)
      /\ to_transfer' = [to_transfer EXCEPT ![r] = n]
      /\ UNCHANGED <<events, worker, requests_mutex>>
  BY DEF start_DMA
<1>2. /\ r \notin Scheduled(Npr)
      /\ Scheduled(Npr') = Scheduled(Npr) \cup {r}
      /\ Npr.active = NULL => Npr'.active = r
      /\ Npr.active # NULL => Npr'.active = Npr.active
      /\ remaining' = [remaining EXCEPT ![r] = n]
      /\ success' = [success EXCEPT ![r] = FALSE]
      /\ failed_assert' = failed_assert
  BY <1>1, DMAEffect
<1>3. /\ to_transfer'[r] = n /\ remaining'[r] = n
      /\ \A q \in DmaRequests :
            q # r => to_transfer'[q] = to_transfer[q] /\ remaining'[q] = remaining[q]
  BY <1>1, <1>2, RemainingType DEF DmaTypeOK
<1>4. /\ Npr.active # NULL => Npr.active \in Scheduled(Npr) /\ Npr.active # r
      /\ Npr.active = NULL => Scheduled(Npr) = {}
      /\ \A q \in Scheduled(Npr) : q \in DmaRequests /\ q # r
  BY <1>2, NprHere, NprInTable
<1>5. (Pending' <=> Pending) /\ (Acknowledging' <=> Acknowledging)
  BY <1>1 DEF Pending, Acknowledging, Unlocked
<1>6. SuccessIsTransferred' /\ NoFailedAssert'
  <2>1. success \in [DmaRequests -> BOOLEAN]
    BY RemainingType DEF TypeOK
  <2> QED
    BY <1>2, <1>3, <2>1 DEF SuccessIsTransferred, NoFailedAssert
<1>7. CASE Npr.active # NULL
  <2>1. UNCHANGED <<mailbox, pru>>
    BY <1>1, <1>7 DEF Execute
  <2>2. Npr'.active = Npr.active /\ chunk_words(Npr.active)' = chunk_words(Npr.active)
    BY <1>2, <1>3, <1>4, <1>7 DEF chunk_words
  <2>3. (PruAtWork' <=> PruAtWork) /\ (Running' <=> Running)
    BY <2>1 DEF PruAtWork, Running
  <2>4. RequestInStep'
    BY <1>1, <1>5, <2>1, <2>2, <2>3 DEF RequestInStep
  <2>5. EventsOfOneUser'
    BY <1>1, <1>5, <2>1, <2>2 DEF EventsOfOneUser
  <2>6. WordsInStep'
    BY <1>2, <1>3, <1>4, <1>5, <1>7, <2>1, <2>2, <2>3 DEF WordsInStep
  <2>7. RunningInStep'
    BY <2>1, <2>3 DEF RunningInStep
  <2> QED
    BY <1>6, <2>4, <2>5, <2>6, <2>7
<1>8. CASE Npr.active = NULL
  <2>1. ~Pending /\ ~PruAtWork
    BY <1>8 DEF RequestInStep
  <2>2. Npr'.active = r /\ r # NULL /\ Scheduled(Npr') = {r}
    BY <1>2, <1>4, <1>8, DmaFacts
  <2>3. /\ mailbox'.cur_status = "READY"
        /\ mailbox'.wordcount = chunk_words(Npr.active)'
        /\ mailbox'.cpu_access <=> r \in CpuRequests
        /\ mailbox'.request = r
        /\ pru'.npr <=> (pru.npr \/ r \notin CpuRequests)
        /\ pru'.cpu_request <=> (pru.cpu_request \/ r \in CpuRequests)
        /\ UNCHANGED <<pru.granted, pru.state, pru.cur_wordsleft, pru.request>>
    BY <1>1, <1>8, <2>2, ExecuteEffect
  <2>4. /\ ~pru.npr /\ ~pru.granted /\ ~pru.cpu_request /\ pru.state = "none"
        /\ ~Running /\ ~Running' /\ PruAtWork'
    BY <2>1, <2>3 DEF PruAtWork, Running
  <2>5. pru'.npr \in BOOLEAN /\ pru'.cpu_request \in BOOLEAN
    <3>1. (Npr.active = NULL) \in BOOLEAN
      OBVIOUS
    <3> QED
      BY <1>1, <3>1, ExecuteEffect DEF PruState
  <2>6. RequestInStep'
    BY <1>1, <1>5, <2>1, <2>2, <2>3, <2>4 DEF RequestInStep
  <2>7. EventsOfOneUser'
    BY <1>1, <1>5, <2>1, <2>2, <2>3, <2>4, <2>5 DEF EventsOfOneUser, OneUser
  <2>8. WordsInStep' /\ RunningInStep'
    BY <1>3, <1>5, <2>1, <2>2, <2>4 DEF WordsInStep, RunningInStep
  <2> QED
    BY <1>6, <2>6, <2>7, <2>8
<1> QED
  BY <1>7, <1>8

(* The event is handled: a completed DMA has transferred its words, the next *)
(* chunk goes to the PRU, which is idle.                                     *)
LEMMA ChunkInTime ==
  ASSUME IndInv, IndInv', DmaTypeOK, OneUser, DmaInTime,
         ChunkStepOf(mailbox.cur_status = "READY"),
         Pending, ~Acknowledging, Acknowledging',
         worker'.pc # "dma_event",
         CpuRequests # {} => worker'.pc \notin {"dma_event", "dma_ack"}
  PROVE  DmaInTime'
<1> USE DEF DmaInTime
<1>1. PICK ready \in BOOLEAN : ready = (mailbox.cur_status = "READY")
  OBVIOUS
<1>2. PICK r \in DmaRequests : r = Npr.active /\ r # NULL /\ r \in Scheduled(Npr)
  <2>1. Npr.active # NULL
    BY DEF RequestInStep
  <2> QED
    BY <2>1, NprHere, NprInTable
<1> DEFINE left == remaining[r] - chunk_words(r)
<1>3. /\ ChunkComplete(ready)
      /\ Execute(TRUE)
      /\ UNCHANGED <<events, to_transfer>>
  <2>1. (Npr.active # NULL) = TRUE
    BY <1>2
  <2> QED
    BY <1>1, <2>1 DEF ChunkStepOf
<1>4. /\ Scheduled(Npr') = IF ready /\ left # 0 THEN Scheduled(Npr) ELSE Scheduled(Npr) \ {r}
      /\ remaining' = [remaining EXCEPT ![r] = IF ready THEN left ELSE @]
      /\ success' = [success EXCEPT ![r] = ready /\ ~(ready /\ left # 0)]
      /\ failed_assert' = failed_assert
  BY <1>2, <1>3, ChunkEffect
<1>5. /\ ~PruAtWork /\ ~Running
      /\ ~pru.npr /\ ~pru.granted /\ ~pru.cpu_request /\ pru.state = "none"
      /\ events["dma"] = 1 /\ events'["dma"] = 1 /\ ~Pending'
      /\ pru.request = NULL
      /\ ready => to_transfer[r] = left
  <2>1. ~PruAtWork /\ mailbox.wordcount = chunk_words(r)
    BY <1>2 DEF RequestInStep
  <2>2. ~Running /\ ~pru.npr /\ ~pru.granted /\ ~pru.cpu_request /\ pru.state = "none"
    BY <2>1 DEF PruAtWork, Running
  <2>3. events["dma"] = 1 /\ events'["dma"] = 1 /\ ~Pending'
    BY <1>3 DEF Pending
  <2>4. pru.request = NULL
    BY <2>2 DEF RequestInStep
  <2>5. ready => to_transfer[r] = left
    BY <1>1, <1>2, <2>1 DEF WordsInStep
  <2> QED
    BY <2>1, <2>2, <2>3, <2>4, <2>5
<1>6. /\ \A q \in Scheduled(Npr) : q \in DmaRequests
      /\ \A q \in Scheduled(Npr) : q # r => to_transfer[q] = remaining[q]
  BY <1>2, NprHere, NprInTable DEF WordsInStep
<1>7. left \in Int /\ remaining \in [DmaRequests -> 0 .. MaxWordcount]
      /\ success \in [DmaRequests -> BOOLEAN]
  <2>1. TypeOK /\ remaining \in [DmaRequests -> 0 .. MaxWordcount]
    BY RemainingType
  <2>2. success \in [DmaRequests -> BOOLEAN]
    BY <2>1 DEF TypeOK
  <2>3. chunk_words(r) \in Int /\ remaining[r] \in Int
    BY <2>1, ChunkWords
  <2> QED
    BY <2>1, <2>2, <2>3
<1> HIDE DEF left
<1>8. \A q \in Scheduled(Npr') : to_transfer'[q] = remaining'[q]
  BY <1>3, <1>4, <1>5, <1>6, <1>7
<1>9. SuccessIsTransferred' /\ NoFailedAssert'
  BY <1>3, <1>4, <1>5, <1>7 DEF SuccessIsTransferred, NoFailedAssert
<1>10. mailbox.cpu_access <=> CpuRequests # {}
  BY <1>5 DEF EventsOfOneUser, OneUser
<1>11. CASE Npr'.active = NULL
  <2>1. UNCHANGED <<mailbox, pru>>
    BY <1>3, <1>11 DEF Execute
  <2>2. ~PruAtWork' /\ ~Running'
    BY <1>5, <2>1 DEF PruAtWork, Running
  <2>3. RequestInStep'
    BY <1>5, <1>11, <2>1, <2>2 DEF RequestInStep
  <2>4. EventsOfOneUser'
    BY <1>5, <1>10, <2>1 DEF EventsOfOneUser
  <2>5. WordsInStep' /\ RunningInStep'
    BY <1>5, <1>8, <2>2 DEF WordsInStep, RunningInStep
  <2> QED
    BY <1>9, <2>3, <2>4, <2>5
<1>12. CASE Npr'.active # NULL
  <2>1. PICK q \in DmaRequests : q = Npr'.active
    BY <1>12, NprThere, NprInTable
  <2>2. /\ mailbox'.cur_status = "READY"
        /\ mailbox'.wordcount = chunk_words(Npr.active)'
        /\ mailbox'.cpu_access <=> q \in CpuRequests
        /\ mailbox'.request = q
        /\ pru'.npr <=> (pru.npr \/ q \notin CpuRequests)
        /\ pru'.cpu_request <=> (pru.cpu_request \/ q \in CpuRequests)
        /\ UNCHANGED <<pru.granted, pru.state, pru.cur_wordsleft, pru.request>>
        /\ pru' \in PruState
    BY <1>3, <1>12, <2>1, ExecuteEffect
  <2>3. ~Running' /\ PruAtWork'
    BY <1>5, <2>2 DEF PruAtWork, Running
  <2>4. RequestInStep'
    BY <1>5, <1>12, <2>1, <2>2, <2>3 DEF RequestInStep
  <2>5. pru'.npr \in BOOLEAN /\ pru'.cpu_request \in BOOLEAN
    BY <2>2 DEF PruState
  <2>6. EventsOfOneUser'
    BY <1>5, <2>1, <2>2, <2>5 DEF EventsOfOneUser, OneUser
  <2>7. WordsInStep' /\ RunningInStep'
    BY <1>5, <1>8, <2>3 DEF WordsInStep, RunningInStep
  <2> QED
    BY <1>9, <2>4, <2>6, <2>7
<1> QED
  BY <1>11, <1>12

LEMMA ChunkStepsInTime ==
  ASSUME IndInv, IndInv', DmaTypeOK, OneUser, DmaInTime,
         \/ worker_device_dma_chunk_complete_event
         \/ \E r \in CpuRequests : cpu_poll(r)
  PROVE  DmaInTime'
<1> USE DEF DmaInTime
<1>0. /\ worker \in WorkerState
      /\ requests_mutex \in CpuRequests \cup {NULL}
      /\ NULL \notin CpuRequests
  BY DmaFacts DEF DmaTypeOK
<1>1. CASE worker_device_dma_chunk_complete_event
  <2>1. /\ worker.pc = "dma_event" /\ worker'.pc = "dma_ack"
        /\ Unlocked
    BY <1>0, <1>1 DEF worker_device_dma_chunk_complete_event, Goto, WorkerState
  <2>2. CpuRequests = {} /\ Pending /\ ~Acknowledging /\ Acknowledging'
    BY <2>1 DEF EventsOfOneUser, Acknowledging
  <2> QED
    BY <1>1, <2>1, <2>2, ChunkSteps, ChunkInTime
<1>2. ASSUME NEW r \in CpuRequests, cpu_poll(r) PROVE DmaInTime'
  <2>1. /\ Unlocked /\ requests_mutex' = r /\ UNCHANGED worker /\ events["dma"] # 0
    BY <1>2 DEF cpu_poll, EVENT_IS_ACKED
  <2>2. worker.pc \notin {"dma_event", "dma_ack"}
    BY DEF EventsOfOneUser
  <2>3. ~Acknowledging /\ Acknowledging'
    BY <1>0, <2>1, <2>2 DEF Acknowledging, Unlocked
  <2>4. Pending
    BY <2>1, <2>3 DEF RequestInStep
  <2> QED
    BY <1>2, <2>1, <2>2, <2>3, <2>4, ChunkSteps, ChunkInTime
<1> QED
  BY <1>1, <1>2

(* The request moves between its places on the PRU, or INIT takes it away.   *)
LEMMA PlaceInTime ==
  ASSUME DmaInTime,
         UNCHANGED vars, UNCHANGED <<mailbox, worker, requests_mutex, to_transfer>>,
         events'["dma"] = events["dma"],
         pru.state = "none", pru'.state \in {"none", "start"}, pru'.request = pru.request,
         PruAtWork' => PruAtWork,
         PruAtWork /\ ~PruAtWork' => "INIT" \in Signals,
         pru'.state # "none" => ~pru'.npr /\ ~pru'.granted /\ ~pru'.cpu_request,
         pru'.granted => ~pru'.npr,
         CpuRequests = {} => ~pru'.cpu_request,
         CpuRequests # {} => ~pru'.npr /\ ~pru'.granted
  PROVE  DmaInTime'
<1> USE DEF DmaInTime
<1>1. /\ Npr' = Npr /\ chunk_words(Npr.active)' = chunk_words(Npr.active)
      /\ UNCHANGED <<remaining, success, failed_assert>>
  BY DEF vars, Npr, chunk_words
<1>2. (Pending' <=> Pending) /\ (Acknowledging' <=> Acknowledging)
  BY DEF Pending, Acknowledging, Unlocked
<1>3. ~Running /\ ~Running'
  BY DEF Running
<1>4. RequestInStep'
  BY <1>1, <1>2, <1>3 DEF RequestInStep
<1>5. EventsOfOneUser'
  BY <1>1, <1>2 DEF EventsOfOneUser
<1>6. WordsInStep' /\ RunningInStep'
  BY <1>1, <1>2, <1>3 DEF WordsInStep, RunningInStep
<1>7. SuccessIsTransferred' /\ NoFailedAssert'
  BY <1>1 DEF SuccessIsTransferred, NoFailedAssert
<1> QED
  BY <1>4, <1>5, <1>6, <1>7

LEMMA ArbitrationInTime ==
  ASSUME DmaTypeOK, LinesTypeOK, LinesQuiet, DmaInTime,
         \/ \E s \in {"INIT", "DCLO"} : do_event_initializationsignals(s)
         \/ init_clears_requests
         \/ npr_granted \/ npr_bus_free \/ cpu_bus_free
  PROVE  DmaInTime'
<1>0. pru \in PruState
  BY DEF DmaTypeOK
<1>1. bus_line["INIT"] => "INIT" \in Signals
  BY DEF LinesQuiet
<1>2. /\ pru.state = "none"
      /\ pru.granted => ~pru.npr
      /\ CpuRequests = {} => ~pru.cpu_request
      /\ CpuRequests # {} => ~pru.npr /\ ~pru.granted
  <2>1. pru.state = "none"
    BY DEF do_event_initializationsignals, init_clears_requests, npr_granted, npr_bus_free,
       cpu_bus_free
  <2> QED
    BY <2>1 DEF DmaInTime, RequestInStep, EventsOfOneUser
<1>3. ASSUME NEW s \in {"INIT", "DCLO"}, do_event_initializationsignals(s) PROVE DmaInTime'
  <2>1. /\ UNCHANGED vars
        /\ UNCHANGED <<mailbox, worker, requests_mutex, to_transfer>>
        /\ events' = EVENT_SIGNAL(s)
        /\ pru' = IF bus_line["INIT"] THEN [pru EXCEPT !.npr = FALSE] ELSE pru
    BY <1>3 DEF do_event_initializationsignals
  <2>2. events'["dma"] = events["dma"]
    BY <2>1, EventChange
  <2>3. CASE bus_line["INIT"]
    BY <1>0, <1>1, <1>2, <2>1, <2>2, <2>3, PlaceInTime DEF PruState, PruAtWork
  <2>4. CASE ~bus_line["INIT"]
    BY <1>0, <1>2, <2>1, <2>2, <2>4, PlaceInTime DEF PruState, PruAtWork
  <2> QED
    BY <2>3, <2>4
<1>4. CASE init_clears_requests
  <2>1. /\ UNCHANGED vars
        /\ UNCHANGED <<mailbox, worker, requests_mutex, to_transfer, events>>
        /\ pru' = [pru EXCEPT !.npr = FALSE]
        /\ bus_line["INIT"]
    BY <1>4 DEF init_clears_requests
  <2> QED
    BY <1>0, <1>1, <1>2, <2>1, PlaceInTime DEF PruState, PruAtWork
<1>5. CASE npr_granted
  <2>1. /\ UNCHANGED vars
        /\ UNCHANGED <<mailbox, worker, requests_mutex, to_transfer, events>>
        /\ pru' = [pru EXCEPT !.npr = FALSE, !.granted = TRUE, !.SACK = TRUE]
        /\ pru.npr
    BY <1>5 DEF npr_granted, PruStep
  <2> QED
    BY <1>0, <1>2, <2>1, PlaceInTime DEF PruState, PruAtWork
<1>6. CASE npr_bus_free
  <2>1. /\ UNCHANGED vars
        /\ UNCHANGED <<mailbox, worker, requests_mutex, to_transfer, events>>
        /\ pru' = [pru EXCEPT !.granted = FALSE, !.state = "start"]
        /\ pru.granted
    BY <1>6 DEF npr_bus_free, PruStep
  <2>2. ~pru.npr /\ ~pru.cpu_request
    BY <1>2, <2>1
  <2> QED
    BY <1>0, <1>2, <2>1, <2>2, PlaceInTime DEF PruState, PruAtWork
<1>7. CASE cpu_bus_free
  <2>1. /\ UNCHANGED vars
        /\ UNCHANGED <<mailbox, worker, requests_mutex, to_transfer, events>>
        /\ pru' = [pru EXCEPT !.cpu_request = FALSE, !.state = "start"]
        /\ pru.cpu_request
    BY <1>7 DEF cpu_bus_free, PruStep
  <2>2. ~pru.npr /\ ~pru.granted
    BY <1>2, <2>1
  <2> QED
    BY <1>0, <1>2, <2>1, <2>2, PlaceInTime DEF PruState, PruAtWork
<1> QED
  BY <1>3, <1>4, <1>5, <1>6, <1>7

(* The DMA machine. *)
LEMMA MachineInTime ==
  ASSUME IndInv, DmaTypeOK, LinesTypeOK, PruFed, DmaInTime,
         \/ sm_dma_start \/ sm_dma_state_1
         \/ \E state_timeout \in BOOLEAN : sm_dma_state_99(state_timeout)
  PROVE  DmaInTime'
<1> USE DEF DmaInTime
<1>0. /\ mailbox \in MailboxState /\ pru \in PruState
      /\ to_transfer \in [DmaRequests -> 0 .. MaxWordcount]
      /\ events["dma"] \in 0 .. (EventModulus - 1)
      /\ PRU_MAX_DMA_WORDCOUNT \in Nat /\ MaxWordcount \in Nat
  BY WordcountAssumption DEF DmaTypeOK
<1>1. /\ UNCHANGED vars
      /\ UNCHANGED <<worker, requests_mutex>>
      /\ pru.state \in {"start", "1", "99"}
  BY DEF sm_dma_start, sm_dma_state_1, sm_dma_state_99, PruStep
<1>2. /\ Npr' = Npr /\ chunk_words(Npr.active)' = chunk_words(Npr.active)
      /\ UNCHANGED <<remaining, success, failed_assert>>
      /\ (Acknowledging' <=> Acknowledging)
  BY <1>1 DEF vars, Npr, chunk_words, Acknowledging, Unlocked
<1>3. PICK r \in DmaRequests : /\ r = Npr.active /\ r # NULL /\ r \in Scheduled(Npr)
                               /\ \A q \in Scheduled(Npr) : q \in DmaRequests
  <2>1. PruAtWork
    BY <1>1 DEF PruAtWork
  <2>2. Npr.active # NULL
    BY <2>1 DEF RequestInStep
  <2> QED
    BY <2>2, NprHere, NprInTable
<1>4. /\ PruAtWork /\ ~Pending
      /\ ~pru.npr /\ ~pru.granted /\ ~pru.cpu_request
      /\ mailbox.request = r /\ mailbox.wordcount = chunk_words(r)
      /\ events["dma"] = IF Acknowledging THEN 1 ELSE 0
      /\ mailbox.wordcount > 0
  <2>1. PruAtWork
    BY <1>1 DEF PruAtWork
  <2>2. ~Pending
    BY <2>1 DEF RequestInStep
  <2> QED
    BY <1>1, <1>3, <2>1, <2>2 DEF RequestInStep, PruFed
<1>5. /\ chunk_words(r) <= remaining[r] /\ remaining[r] \in Int
      /\ chunk_words(r) \in Int
      /\ \A q \in Scheduled(Npr) : q # r => to_transfer[q] = remaining[q]
      /\ ~success[r]
  <2>1. TypeOK
    BY RemainingType
  <2>2. r \in Scheduled(Npr) => ~success[r]
    BY DEF IndInv, SuccessIsComplete
  <2>3. chunk_words(r) \in Int
    BY <2>1, ChunkWords
  <2> QED
    BY <1>3, <2>1, <2>2, <2>3, ChunkWords DEF WordsInStep
<1>6. CASE sm_dma_start
  <2>1. /\ pru.state = "start"
        /\ mailbox' = [mailbox EXCEPT !.cur_status = "RUNNING"]
        /\ pru' = [pru EXCEPT !.BBSY = TRUE, !.state = "1",
                              !.cur_wordsleft = mailbox.wordcount, !.request = mailbox.request]
        /\ UNCHANGED <<events, to_transfer>>
    BY <1>6 DEF sm_dma_start
  <2>2. /\ mailbox'.cur_status = "RUNNING" /\ mailbox'.wordcount = mailbox.wordcount
        /\ mailbox'.request = mailbox.request /\ mailbox'.cpu_access = mailbox.cpu_access
        /\ pru'.state = "1" /\ pru'.cur_wordsleft = mailbox.wordcount /\ pru'.request = r
        /\ UNCHANGED <<pru.npr, pru.granted, pru.cpu_request>>
        /\ mailbox.wordcount \in Int
    BY <1>0, <1>4, <2>1 DEF MailboxState, PruState
  <2>3. ~Pending' /\ PruAtWork' /\ Running' /\ ~Running
    BY <1>2, <1>4, <2>1, <2>2 DEF Pending, PruAtWork, Running
  <2>4. RequestInStep'
    BY <1>2, <1>3, <1>4, <2>1, <2>2, <2>3 DEF RequestInStep
  <2>5. EventsOfOneUser'
    BY <1>1, <1>2, <1>4, <2>1, <2>2, <2>3 DEF EventsOfOneUser
  <2>6. WordsInStep'
    <3>1. to_transfer[r] = remaining[r]
      BY <1>3, <1>4, <2>3 DEF WordsInStep
    <3> QED
      BY <1>2, <1>3, <1>5, <2>1, <2>2, <2>3, <3>1 DEF WordsInStep
  <2>7. RunningInStep'
    BY <2>2 DEF RunningInStep
  <2>8. SuccessIsTransferred' /\ NoFailedAssert'
    BY <1>2, <2>1 DEF SuccessIsTransferred, NoFailedAssert
  <2> QED
    BY <2>4, <2>5, <2>6, <2>7, <2>8
<1>7. CASE sm_dma_state_1
  <2>1. /\ pru.state = "1"
        /\ pru' = IF mailbox.cur_status # "RUNNING" \/ mailbox.wordcount = 0
                  THEN [pru EXCEPT !.state = "none"]
                  ELSE [pru EXCEPT !.state = "99", !.SACK = @ /\ pru.cur_wordsleft # 1]
        /\ UNCHANGED <<mailbox, events, to_transfer>>
    BY <1>7 DEF sm_dma_state_1, PruStep
  <2>2. mailbox.cur_status = "RUNNING" /\ mailbox.wordcount # 0 /\ Running
    BY <1>0, <1>4, <2>1 DEF Running, RunningInStep, MailboxState
  <2>3. /\ pru'.state = "99"
        /\ UNCHANGED <<pru.npr, pru.granted, pru.cpu_request, pru.cur_wordsleft, pru.request>>
    BY <1>0, <2>1, <2>2 DEF PruState
  <2>4. ~Pending' /\ PruAtWork' /\ Running'
    BY <1>2, <1>4, <2>1, <2>3 DEF Pending, PruAtWork, Running
  <2>5. RequestInStep'
    BY <1>2, <1>3, <1>4, <2>1, <2>2, <2>3, <2>4 DEF RequestInStep
  <2>6. EventsOfOneUser'
    BY <1>1, <1>2, <1>4, <2>1, <2>3, <2>4 DEF EventsOfOneUser
  <2>7. WordsInStep' /\ RunningInStep'
    BY <1>2, <1>4, <2>1, <2>2, <2>3, <2>4 DEF WordsInStep, RunningInStep
  <2>8. SuccessIsTransferred' /\ NoFailedAssert'
    BY <1>2, <2>1 DEF SuccessIsTransferred, NoFailedAssert
  <2> QED
    BY <2>5, <2>6, <2>7, <2>8
<1>8. ASSUME NEW state_timeout \in BOOLEAN, sm_dma_state_99(state_timeout) PROVE DmaInTime'
  <2> DEFINE left == IF state_timeout THEN pru.cur_wordsleft ELSE pru.cur_wordsleft - 1
             final == final_dma_state(state_timeout, left)
  <2>1. /\ pru.state = "99"
        /\ IF final = "RUNNING"
             THEN /\ pru' = [pru EXCEPT !.state = "1", !.cur_wordsleft = left]
                  /\ UNCHANGED <<mailbox, events>>
             ELSE /\ pru' = [pru EXCEPT !.state = "none", !.BBSY = FALSE,
                                        !.SACK = @ /\ final = "READY",
                                        !.cur_wordsleft = left, !.request = NULL]
                  /\ mailbox' = [mailbox EXCEPT !.cur_status = final]
                  /\ events' = EVENT_SIGNAL("dma")
        /\ to_transfer' = IF state_timeout \/ to_transfer[pru.request] = 0 THEN to_transfer
                          ELSE [to_transfer EXCEPT ![pru.request] = @ - 1]
    BY <1>8 DEF sm_dma_state_99
  <2>2. /\ Running
        /\ pru.request = r
        /\ pru.cur_wordsleft \in Int /\ pru.cur_wordsleft > 0
        /\ pru.cur_wordsleft <= mailbox.wordcount
        /\ mailbox.cur_status = "RUNNING"
        /\ to_transfer[r] = remaining[r] - mailbox.wordcount + pru.cur_wordsleft
        /\ to_transfer[r] > 0
    <3>1. Running
      BY <2>1 DEF Running
    <3>2. /\ pru.request = r
          /\ pru.cur_wordsleft \in Int /\ pru.cur_wordsleft > 0
          /\ pru.cur_wordsleft <= mailbox.wordcount
          /\ mailbox.cur_status = "RUNNING"
          /\ to_transfer[r] = remaining[r] - mailbox.wordcount + pru.cur_wordsleft
      BY <1>0, <1>3, <3>1 DEF RequestInStep, PruFed, RunningInStep, WordsInStep, PruState
    <3> QED
      BY <1>4, <1>5, <3>1, <3>2
  <2>3. /\ left \in Int
        /\ final = "RUNNING" => ~state_timeout /\ left > 0 /\ left <= mailbox.wordcount
        /\ final = "READY" => ~state_timeout /\ left = 0
    BY <1>0, <2>2 DEF final_dma_state, MailboxState
  <2>4. /\ to_transfer'[r] = remaining[r] - mailbox.wordcount + left
        /\ \A q \in DmaRequests : q # r => to_transfer'[q] = to_transfer[q]
    BY <1>0, <1>4, <1>5, <2>1, <2>2
  <2>5. SuccessIsTransferred' /\ NoFailedAssert'
    BY <1>2, <1>5, <2>4 DEF SuccessIsTransferred, NoFailedAssert
  <2> HIDE DEF left, final
  <2>6. CASE final = "RUNNING"
    <3>1. /\ pru'.state = "1" /\ pru'.cur_wordsleft = left
          /\ UNCHANGED <<pru.npr, pru.granted, pru.cpu_request, pru.request>>
          /\ UNCHANGED <<mailbox, events>>
      BY <1>0, <2>1, <2>6 DEF PruState
    <3>2. ~Pending' /\ PruAtWork' /\ Running'
      BY <1>2, <1>4, <3>1 DEF Pending, PruAtWork, Running
    <3>3. RequestInStep'
      BY <1>2, <1>3, <1>4, <2>2, <3>1, <3>2 DEF RequestInStep
    <3>4. EventsOfOneUser'
      BY <1>1, <1>2, <1>4, <3>1, <3>2 DEF EventsOfOneUser
    <3>5. WordsInStep'
      BY <1>2, <1>3, <1>5, <2>4, <3>1, <3>2 DEF WordsInStep
    <3>6. RunningInStep'
      BY <2>2, <2>3, <2>6, <3>1 DEF RunningInStep
    <3> QED
      BY <2>5, <3>3, <3>4, <3>5, <3>6
  <2>7. CASE final # "RUNNING"
    <3>1. /\ pru'.state = "none" /\ pru'.request = NULL
          /\ UNCHANGED <<pru.npr, pru.granted, pru.cpu_request>>
          /\ mailbox'.cur_status = final
          /\ UNCHANGED <<mailbox.wordcount, mailbox.request, mailbox.cpu_access>>
          /\ events' = EVENT_SIGNAL("dma")
      BY <1>0, <2>1, <2>7 DEF PruState, MailboxState
    <3>2. events'["dma"] = events["dma"] + 1
      <4>1. events["dma"] < EventModulus - 1
        BY <1>4, DmaAssumption
      <4> QED
        BY <3>1, <4>1, EventChange
    <3>3. Pending' /\ ~PruAtWork' /\ ~Running'
      BY <1>2, <1>4, <3>1, <3>2 DEF Pending, PruAtWork, Running
    <3>4. RequestInStep'
      BY <1>2, <1>3, <1>4, <3>1, <3>3 DEF RequestInStep
    <3>5. EventsOfOneUser'
      <4>1. Npr.active # NULL
        BY <1>3
      <4> QED
        BY <1>1, <1>2, <1>4, <3>1, <3>3, <4>1 DEF EventsOfOneUser
    <3>6. WordsInStep'
      <4>1. mailbox'.cur_status = "READY" => to_transfer'[r] = remaining[r] - mailbox.wordcount
        BY <1>0, <1>5, <2>3, <2>4, <3>1 DEF MailboxState
      <4> QED
        BY <1>2, <1>3, <1>5, <2>4, <3>1, <3>3, <4>1 DEF WordsInStep
    <3>7. RunningInStep'
      BY <3>3 DEF RunningInStep
    <3> QED
      BY <2>5, <3>4, <3>5, <3>6, <3>7
  <2> QED
    BY <2>6, <2>7
<1> QED
  BY <1>6, <1>7, <1>8

(* Only worker()'s clearing of the tables makes "late" true. *)
LEMMA LateStays ==
  ASSUME LinesTypeOK, RestTypeOK, [DmaNext]_all_vars
  PROVE  late => late'
<1>1. late \in BOOLEAN
  BY DEF RestTypeOK
<1>2. CASE AloneStep
  BY <1>2 DEF AloneStep
<1>3. CASE worker_step
  <2>1. CASE worker_init_event \/ worker_power_event
    BY <1>1, <2>1 DEF worker_init_event, worker_power_event
  <2>2. CASE worker_init_raised
    BY <1>1, <2>2 DEF worker_init_raised
  <2>3. CASE worker_device_dma_chunk_complete_event
    BY <2>3 DEF worker_device_dma_chunk_complete_event
  <2>4. CASE worker_wait \/ worker_init \/ worker_power \/ worker_dma \/ worker_dma_ack
    BY <1>2, <2>4, AloneSteps
  <2> QED
    BY <1>3, <2>1, <2>2, <2>3, <2>4 DEF worker_step
<1>4. CASE pru_step
  BY <1>4 DEF pru_step, PruStep, do_event_initializationsignals, init_clears_requests,
     npr_granted, npr_bus_free, cpu_bus_free, sm_dma_start, sm_dma_state_1, sm_dma_state_99
<1>5. CASE \/ \E r \in DmaRequests, n \in 1 .. MaxWordcount : start_DMA(r, n)
           \/ \E r \in CpuRequests : cpu_poll(r)
  BY <1>5 DEF start_DMA, cpu_poll
<1>6. CASE \/ \E r \in DmaRequests : call_DMA(r) \/ return_DMA(r)
           \/ \E r \in CpuRequests : cpu_ack(r) \/ cpu_aborted(r)
           \/ other_event \/ \E s \in {"INIT", "DCLO"} : bus_signal(s)
           \/ Aborted /\ UNCHANGED dma_vars
           \/ UNCHANGED all_vars
  BY <1>2, <1>6, AloneSteps
<1> QED
  BY <1>3, <1>4, <1>5, <1>6 DEF DmaNext

LEMMA InTimeStep ==
  ASSUME DistinctSlots, OneUser, IndInv, IndInv', DmaTypeOK, LinesTypeOK, LinesQuiet,
         PruFed, DmaInTime, ~late', [DmaNext]_all_vars
  PROVE  DmaInTime'
<1>0. RestTypeOK
  BY DEF DmaTypeOK, RestTypeOK
<1>1. CASE AloneStep /\ AloneCounts /\ AloneWorker
  BY <1>1, AloneInTime
<1>2. CASE worker_step
  <2>1. CASE \/ worker_init_event \/ worker_power_event
             \/ worker_init_raised /\ worker.init_raising_edge
    BY <2>1, ClearSteps, ClearInTime
  <2>2. CASE worker_device_dma_chunk_complete_event
    BY <2>2, ChunkStepsInTime
  <2>3. CASE \/ worker_wait \/ worker_init \/ worker_power \/ worker_dma \/ worker_dma_ack
             \/ worker_init_raised /\ ~worker.init_raising_edge
    BY <1>0, <1>1, <2>3, AloneSteps, AloneStepsCount
  <2>4. CASE worker_init_raised
    BY <2>1, <2>3, <2>4
  <2> QED
    BY <1>2, <2>1, <2>2, <2>3, <2>4 DEF worker_step
<1>3. CASE pru_step
  BY <1>3, ArbitrationInTime, MachineInTime DEF pru_step
<1>4. CASE \E r \in DmaRequests, n \in 1 .. MaxWordcount : start_DMA(r, n)
  BY <1>4, StartInTime
<1>5. CASE \E r \in CpuRequests : cpu_poll(r)
  BY <1>5, ChunkStepsInTime
<1>6. CASE \/ \E r \in DmaRequests : call_DMA(r) \/ return_DMA(r)
           \/ \E r \in CpuRequests : cpu_ack(r) \/ cpu_aborted(r)
           \/ other_event \/ \E s \in {"INIT", "DCLO"} : bus_signal(s)
           \/ Aborted /\ UNCHANGED dma_vars
           \/ UNCHANGED all_vars
  BY <1>0, <1>1, <1>6, AloneSteps, AloneStepsCount
<1> QED
  BY <1>2, <1>3, <1>4, <1>5, <1>6 DEF DmaNext

-----------------------------------------------------------------------------
(* The inductive invariant of everything above. *)
DmaInvariant == DmaTypeOK /\ LinesQuiet /\ DmaIndInv

LEMMA DmaInitInvariant ==
  ASSUME DmaInit
  PROVE  DmaInvariant
<1>1. /\ mailbox = [cur_status |-> "READY", wordcount |-> 0, cpu_access |-> FALSE,
                    request |-> NULL]
      /\ events = [e \in {"dma", "INIT", "DCLO"} |-> 0]
      /\ bus_line = [s \in {"INIT", "DCLO"} |-> FALSE]
      /\ signal_cur = [s \in {"INIT", "DCLO"} |-> FALSE]
      /\ line_DCLO = FALSE
      /\ interrupt = FALSE
      /\ worker = [pc |-> "wait", any_event |-> FALSE, init_raising_edge |-> FALSE]
      /\ requests_mutex = NULL
      /\ pru = [npr |-> FALSE, cpu_request |-> FALSE, granted |-> FALSE, SACK |-> FALSE,
                BBSY |-> FALSE, state |-> "none", cur_wordsleft |-> 0, request |-> NULL]
      /\ to_transfer = [r \in DmaRequests |-> 0]
      /\ late = FALSE /\ missed = FALSE
      /\ failed_assert = "none"
  BY DEF DmaInit, Init
<1>2. 0 \in 0 .. PRU_MAX_DMA_WORDCOUNT /\ 0 \in 0 .. (EventModulus - 1) /\ 0 \in 0 .. MaxWordcount
  BY WordcountAssumption, DmaAssumption
<1>3. DmaTypeOK
  <2>1. mailbox \in MailboxState
    BY <1>1, <1>2 DEF MailboxState, DmaStates
  <2>2. pru \in PruState
    BY <1>1, <1>2 DEF PruState
  <2>3. worker \in WorkerState
    BY <1>1 DEF WorkerState, WorkerSteps
  <2>4. events \in [{"dma", "INIT", "DCLO"} -> 0 .. (EventModulus - 1)]
    BY <1>1, <1>2
  <2>5. to_transfer \in [DmaRequests -> 0 .. MaxWordcount]
    BY <1>1, <1>2
  <2> QED
    BY <1>1, <2>1, <2>2, <2>3, <2>4, <2>5 DEF DmaTypeOK
<1>4. LinesQuiet
  BY <1>1 DEF LinesQuiet
<1>5. Npr.active = NULL /\ Scheduled(Npr) = {}
  <2>1. Npr = EmptyLevel
    BY DmaFacts DEF DmaInit, Init, Npr
  <2> QED
    BY <2>1, DmaFacts, EmptyLevelConsistent DEF EmptyLevel
<1>6. events["dma"] = 0 /\ ~Pending /\ ~Acknowledging /\ ~PruAtWork /\ ~Running
  BY <1>1 DEF Pending, Acknowledging, Unlocked, PruAtWork, Running
<1>7. PruFed
  BY <1>5, <1>6 DEF PruFed
<1>8. DmaInTime
  <2>1. RequestInStep
    BY <1>1, <1>5, <1>6 DEF RequestInStep
  <2>2. EventsOfOneUser
    BY <1>1, <1>5 DEF EventsOfOneUser
  <2>3. WordsInStep /\ RunningInStep
    BY <1>5, <1>6 DEF WordsInStep, RunningInStep
  <2>4. SuccessIsTransferred /\ NoFailedAssert
    BY <1>1 DEF SuccessIsTransferred, NoFailedAssert
  <2> QED
    BY <2>1, <2>2, <2>3, <2>4 DEF DmaInTime
<1> QED
  BY <1>3, <1>4, <1>7, <1>8 DEF DmaInvariant, DmaIndInv

LEMMA MissedIsBoolean ==
  ASSUME missed \in BOOLEAN, [DmaNext]_all_vars
  PROVE  missed' \in BOOLEAN
<1>1. CASE worker_step
  <2>1. CASE worker_init
    BY <2>1 DEF worker_init
  <2>2. CASE ~worker_init
    BY <1>1, <2>2 DEF worker_step, worker_wait, worker_init_event, worker_power,
       worker_power_event, worker_dma, worker_device_dma_chunk_complete_event, worker_dma_ack,
       worker_init_raised
  <2> QED
    BY <2>1, <2>2
<1>2. CASE pru_step
  BY <1>2 DEF pru_step, PruStep, do_event_initializationsignals, init_clears_requests,
     npr_granted, npr_bus_free, cpu_bus_free, sm_dma_start, sm_dma_state_1, sm_dma_state_99
<1>3. CASE \E r \in DmaRequests : \/ call_DMA(r) \/ return_DMA(r)
                                 \/ \E n \in 1 .. MaxWordcount : start_DMA(r, n)
  BY <1>3 DEF call_DMA, return_DMA, start_DMA, dma_vars
<1>4. CASE \E r \in CpuRequests : cpu_poll(r) \/ cpu_ack(r) \/ cpu_aborted(r)
  BY <1>4 DEF cpu_poll, cpu_ack, cpu_aborted, dma_vars
<1>5. CASE \/ other_event \/ \E s \in {"INIT", "DCLO"} : bus_signal(s)
           \/ Aborted /\ UNCHANGED dma_vars
           \/ UNCHANGED all_vars
  BY <1>5 DEF other_event, bus_signal, dma_vars, all_vars
<1> QED
  BY <1>1, <1>2, <1>3, <1>4, <1>5 DEF DmaNext

(* As long as nobody cleared the tables under the PRU, ARM and PRU work on   *)
(* the same request, it is in one place, every event is the completion of a  *)
(* chunk that ARM waits for, and both count the same words; for any number   *)
(* of devices, or the CPU, whatever INIT and DCLO do.                        *)
THEOREM DmaInvariance ==
  ASSUME DistinctSlots, OneUser
  PROVE  DmaSpec => []DmaInvariant
<1>1. DmaInit => DmaInvariant
  BY DmaInitInvariant
<1>2. ASSUME IndInv, IndInv', LinesTypeOK, LinesIndInv, LinesTypeOK', DmaInvariant,
             [DmaNext]_all_vars
      PROVE  DmaInvariant'
  <2>1. DmaTypeOK /\ LinesQuiet /\ PruFed /\ (late \/ DmaInTime)
    BY <1>2 DEF DmaInvariant, DmaIndInv
  <2>2. RestTypeOK' /\ PruFed'
    BY <1>2, <2>1, FedStep DEF Fed
  <2>3. DmaTypeOK'
    BY <1>2, <2>1, <2>2, MissedIsBoolean DEF DmaTypeOK, RestTypeOK, LinesTypeOK
  <2>4. LinesQuiet'
    BY <1>2, <2>1, QuietStep
  <2>5. late' \/ DmaInTime'
    <3>1. late => late'
      BY <1>2, <2>1, LateStays DEF DmaTypeOK, RestTypeOK
    <3> QED
      BY <1>2, <2>1, <3>1, InTimeStep
  <2> QED
    BY <2>2, <2>3, <2>4, <2>5 DEF DmaInvariant, DmaIndInv
<1>3. DmaSpec => []IndInv
  BY TablesHere
<1> QED
  BY <1>1, <1>2, <1>3, LinesInvariance, PTL DEF DmaSpec

(* What the runs with INIT and DCLO check. *)
THEOREM SignalsAreSafe ==
  ASSUME DistinctSlots, OneUser
  PROVE  DmaSpec => []SignalsSafe
<1>1. LinesTypeOK /\ LinesIndInv => LinesInStep
  BY AsleepInStep
<1>2. DmaInvariant => DmaSafeInTime
  BY DEF DmaInvariant, DmaSafeInTime, DmaIndInv, DmaInTime
<1> QED
  BY <1>1, <1>2, LinesInvariance, DmaInvariance, PTL DEF SignalsSafe

-----------------------------------------------------------------------------
(* Without INIT and power fail the tables are never cleared.                 *)
NoSignals == DmaInvariant /\ LinesTypeOK /\ LinesIndInv /\ ~late

LEMMA NothingCleared ==
  ASSUME Signals = {}, LinesTypeOK, LinesIndInv, LinesQuiet, RestTypeOK, ~late,
         [DmaNext]_all_vars
  PROVE  ~late'
<1>1. clearing = {}
  BY DEF LinesQuiet, LinesIndInv, LineSeen, LinesTypeOK
<1>2. CASE AloneStep
  BY <1>2 DEF AloneStep
<1>3. CASE worker_step
  <2>1. ~ \/ worker_init_event \/ worker_power_event
          \/ worker_init_raised /\ worker.init_raising_edge
    BY <1>1, ClearSteps DEF ClearStepOf, clear_tables
  <2>2. CASE worker_device_dma_chunk_complete_event
    BY <2>2 DEF worker_device_dma_chunk_complete_event
  <2>3. CASE \/ worker_wait \/ worker_init \/ worker_power \/ worker_dma \/ worker_dma_ack
             \/ worker_init_raised /\ ~worker.init_raising_edge
    BY <1>2, <2>3, AloneSteps
  <2>4. CASE worker_init_raised
    BY <2>1, <2>3, <2>4
  <2> QED
    BY <1>3, <2>1, <2>2, <2>3, <2>4 DEF worker_step
<1>4. CASE pru_step
  BY <1>4 DEF pru_step, PruStep, do_event_initializationsignals, init_clears_requests,
     npr_granted, npr_bus_free, cpu_bus_free, sm_dma_start, sm_dma_state_1, sm_dma_state_99
<1>5. CASE \/ \E r \in DmaRequests, n \in 1 .. MaxWordcount : start_DMA(r, n)
           \/ \E r \in CpuRequests : cpu_poll(r)
  BY <1>5 DEF start_DMA, cpu_poll
<1>6. CASE \/ \E r \in DmaRequests : call_DMA(r) \/ return_DMA(r)
           \/ \E r \in CpuRequests : cpu_ack(r) \/ cpu_aborted(r)
           \/ other_event \/ \E s \in {"INIT", "DCLO"} : bus_signal(s)
           \/ Aborted /\ UNCHANGED dma_vars
           \/ UNCHANGED all_vars
  BY <1>2, <1>6, AloneSteps
<1> QED
  BY <1>3, <1>4, <1>5, <1>6 DEF DmaNext

LEMMA QuietInvariance ==
  ASSUME DistinctSlots, OneUser, Signals = {}
  PROVE  DmaSpec => []NoSignals
<1>1. DmaInit => ~late
  BY DEF DmaInit
<1>2. ASSUME LinesTypeOK, LinesIndInv, DmaInvariant, ~late, [DmaNext]_all_vars
      PROVE  ~late'
  BY <1>2, NothingCleared DEF DmaInvariant, DmaTypeOK, RestTypeOK
<1> QED
  BY <1>1, <1>2, LinesInvariance, DmaInvariance, PTL DEF DmaSpec, NoSignals

(* The PRU works on a request only when it has it. *)
LEMMA OnPruIsAtWork ==
  ASSUME NEW r, OnPru(r)
  PROVE  PruAtWork
BY DEF OnPru, PruAtWork

LEMMA AtWorkIsOnPru ==
  ASSUME OneUser, DmaInTime, PruAtWork, Npr.active \in DmaRequests
  PROVE  OnPru(Npr.active)
<1>1. pru.request = IF Running THEN Npr.active ELSE NULL
  BY DEF DmaInTime, RequestInStep
<1>2. CASE CpuRequests = {}
  BY <1>1, <1>2 DEF DmaInTime, EventsOfOneUser, PruAtWork, OnPru
<1>3. CASE CpuRequests # {}
  <2>1. Npr.active \in CpuRequests
    BY <1>3 DEF OneUser
  <2> QED
    BY <1>1, <1>3, <2>1 DEF DmaInTime, EventsOfOneUser, PruAtWork, OnPru
<1> QED
  BY <1>2, <1>3

(* ARM and PRU agree on the DMAs of any number of devices, or on the         *)
(* accesses of the CPU: success means transferred, every event is counted    *)
(* once, and the completion of no DMA is unexpected.                         *)
THEOREM DmaStaysSafe ==
  ASSUME DistinctSlots, OneUser, Signals = {}
  PROVE  DmaSpec => []DmaSafe
<1>1. ASSUME IndInv, NoSignals PROVE DmaSafe
  <2>1. DmaTypeOK /\ DmaIndInv /\ DmaInTime
    BY <1>1 DEF NoSignals, DmaInvariant, DmaIndInv
  <2>2. EventsInStep
    <3>1. events["dma"] <= IF Acknowledging THEN 2 ELSE 1
      BY <2>1 DEF DmaInTime, RequestInStep, Pending
    <3>2. ASSUME Npr.active # NULL, ~OnPru(Npr.active) PROVE events["dma"] # 0
      <4>1. Npr.active \in DmaRequests
        BY <1>1, <3>2, NprHere, NprInTable
      <4>2. ~PruAtWork
        BY <2>1, <3>2, <4>1, AtWorkIsOnPru
      <4>3. Pending
        BY <2>1, <3>2, <4>2 DEF DmaInTime, RequestInStep
      <4> QED
        BY <4>3 DEF Pending
    <3> QED
      BY <3>1, <3>2 DEF EventsInStep
  <2> QED
    BY <2>1, <2>2 DEF DmaSafe, DmaInTime
<1> QED
  BY <1>1, TablesHere, QuietInvariance, PTL

(* ARM looks at the PRU's result of a chunk only when the PRU has finished   *)
(* with it.                                                                  *)
LEMMA HandledWhenPending ==
  ASSUME OneUser, DmaTypeOK, DmaInTime, ChunkCompleteStep
  PROVE  ~PruAtWork
<1>1. Pending
  <2>1. CASE worker_device_dma_chunk_complete_event
    BY <2>1 DEF worker_device_dma_chunk_complete_event, DmaInTime, EventsOfOneUser
  <2>2. ASSUME NEW r \in CpuRequests, cpu_poll(r) PROVE Pending
    <3>1. Unlocked /\ events["dma"] # 0
      BY <2>2 DEF cpu_poll, EVENT_IS_ACKED
    <3>2. ~Acknowledging
      BY <3>1 DEF DmaInTime, EventsOfOneUser, Acknowledging
    <3> QED
      BY <3>1, <3>2 DEF DmaInTime, RequestInStep
  <2> QED
    BY <2>1, <2>2 DEF ChunkCompleteStep
<1> QED
  BY <1>1 DEF DmaInTime, RequestInStep

(* worker_device_dma_chunk_complete_event() is "called by PRU signal when    *)
(* DMA transmission complete".                                               *)
THEOREM CalledOnlyWhenComplete ==
  ASSUME DistinctSlots, OneUser, Signals = {}
  PROVE  DmaSpec => CalledWhenTransmissionComplete
<1>1. ASSUME NoSignals PROVE ChunkCompleteStep => ~OnPru(Npr.active)
  BY <1>1, HandledWhenPending, OnPruIsAtWork DEF NoSignals, DmaInvariant, DmaIndInv
<1> QED
  BY <1>1, QuietInvariance, PTL DEF CalledWhenTransmissionComplete

(* The CPU goes on with the data of its access only when the PRU is done     *)
(* with it, unless INIT or DCLO came while it worked.                        *)
THEOREM CpuAccessWaits ==
  ASSUME DistinctSlots, OneUser
  PROVE  DmaSpec => CpuAccessProcessedInTime
<1>1. ASSUME DmaInvariant
      PROVE  \A r \in CpuRequests : cpu_poll(r) => late \/ ~OnPru(r)
  <2>1. SUFFICES ASSUME NEW r \in CpuRequests, cpu_poll(r), ~late PROVE ~OnPru(r)
    OBVIOUS
  <2>2. ChunkCompleteStep
    BY <2>1 DEF ChunkCompleteStep
  <2> QED
    BY <1>1, <2>1, <2>2, HandledWhenPending, OnPruIsAtWork DEF DmaInvariant, DmaIndInv
<1> QED
  BY <1>1, DmaInvariance, PTL DEF CpuAccessProcessedInTime
=============================================================================
