--------------------------- MODULE DmaScheduling ---------------------------
(***************************************************************************)
(* DMA between the ARM threads and the PRU (UNIBUS): the scheduler of       *)
(* RequestScheduler together with what it leaves open, namely when the      *)
(* PRU's events arrive.                                                     *)
(*                                                                         *)
(* The ARM side is the device threads, the emulated CPU's thread, which     *)
(* polls for the end of its access, and worker(), which tests the events in *)
(* a fixed order, without lock, and handles them under requests_mutex.  The *)
(* PRU side is the main loop's state machines for NPR arbitration, DMA and  *)
(* the INIT and power lines.  They share mailbox->dma and one pair of       *)
(* counters per event: the PRU increments "signaled", ARM "acked".          *)
(*                                                                         *)
(* Every ARM action is an action of RequestScheduler with the mailbox       *)
(* accesses that go with it, so that what is proved there holds here.       *)
(***************************************************************************)
EXTENDS RequestScheduler

CONSTANTS
  EventModulus,    \* 256 in the code: the event counters are uint8_t
  RealtimeWorker,  \* the CPU's thread (no real time priority) runs only when
                   \* worker() (SCHED_RR, priority 50) sleeps or is blocked
  Signals          \* which of INIT and DCLO the bus drives

ASSUME DmaAssumption ==
  /\ EventModulus \in Nat \ {0, 1, 2}
  /\ RealtimeWorker \in BOOLEAN
  /\ Signals \subseteq {"INIT", "DCLO"}

VARIABLES
  mailbox,         \* the fields of mailbox->dma the protocol depends on
  events,          \* event -> (signaled - acked) % EventModulus
  bus_line,        \* INIT, DCLO: asserted on the bus?
  signal_cur,      \* mailbox->events.init_signal_cur, .power_signals_cur
  line_DCLO,       \* DCLO, as last seen by worker()
  interrupt,       \* PRU2ARM_INTERRUPT not yet accepted by worker()
  worker,          \* worker()'s position and local variables
  requests_mutex,  \* the CPU's request while its thread is between handling and
                   \* acknowledging an event, else NULL
  pru,             \* sm_arb, sm_dma and the lines SACK and BBSY
  to_transfer,     \* history: DMA request -> words the PRU still has to transfer
  late,            \* history: the tables were cleared while the PRU had a request
  missed           \* history: worker() found an INIT event without a change of the line

dma_vars == <<mailbox, events, bus_line, signal_cur, line_DCLO, interrupt, worker,
              requests_mutex, pru, to_transfer, late, missed>>
all_vars == <<vars, dma_vars>>

DmaStates == {"READY", "RUNNING", "TIMEOUTSTOP", "INITSTOP"}
WorkerSteps == {"wait", "init", "init_event", "power", "power_event", "dma",
                "dma_event", "dma_ack", "init_raised"}

MailboxState ==
  [cur_status : DmaStates, wordcount : 0 .. PRU_MAX_DMA_WORDCOUNT, cpu_access : BOOLEAN,
   request : DmaRequests \cup {NULL}]

WorkerState == [pc : WorkerSteps, any_event : BOOLEAN, init_raising_edge : BOOLEAN]

PruState ==
  [npr : BOOLEAN, cpu_request : BOOLEAN, granted : BOOLEAN, SACK : BOOLEAN, BBSY : BOOLEAN,
   state : {"none", "start", "1", "99"}, cur_wordsleft : 0 .. PRU_MAX_DMA_WORDCOUNT,
   request : DmaRequests \cup {NULL}]

DmaTypeOK ==
  /\ mailbox \in MailboxState
  /\ events \in [{"dma", "INIT", "DCLO"} -> 0 .. (EventModulus - 1)]
  /\ bus_line \in [{"INIT", "DCLO"} -> BOOLEAN]
  /\ signal_cur \in [{"INIT", "DCLO"} -> BOOLEAN]
  /\ line_DCLO \in BOOLEAN
  /\ interrupt \in BOOLEAN
  /\ worker \in WorkerState
  /\ requests_mutex \in CpuRequests \cup {NULL}
  /\ pru \in PruState
  /\ to_transfer \in [DmaRequests -> 0 .. MaxWordcount]
  /\ late \in BOOLEAN
  /\ missed \in BOOLEAN

DmaInit ==
  /\ Init
  /\ mailbox = [cur_status |-> "READY", wordcount |-> 0, cpu_access |-> FALSE,
                request |-> NULL]
  /\ events = [e \in {"dma", "INIT", "DCLO"} |-> 0]
  /\ bus_line = [s \in {"INIT", "DCLO"} |-> FALSE]
  /\ signal_cur = [s \in {"INIT", "DCLO"} |-> FALSE]
  /\ line_DCLO = FALSE
  /\ interrupt = FALSE
  /\ worker = [pc |-> "wait", any_event |-> FALSE, init_raising_edge |-> FALSE]
  /\ requests_mutex = NULL
  /\ pru = [npr |-> FALSE, cpu_request |-> FALSE, granted |-> FALSE, SACK |-> FALSE,
            BBSY |-> FALSE, state |-> "none", cur_wordsleft |-> 0, request |-> NULL]
  /\ to_transfer = [r \in DmaRequests |-> 0]
  /\ late = FALSE
  /\ missed = FALSE

-----------------------------------------------------------------------------
EVENT_IS_ACKED(e) == events[e] = 0
(* Faulty: the PRU interrupts, but counts nothing. *)
EVENT_INTERRUPT(e) == events

EVENT_SIGNAL(e) == [events EXCEPT ![e] = (@ + 1) % EventModulus]
EVENT_ACK(e) == [events EXCEPT ![e] = (@ + EventModulus - 1) % EventModulus]

(* request_execute_active_on_PRU() for the NPR level, with the PRU's         *)
(* execution of ARM2PRU_DMA, for which mailbox_execute() waits: if "start",  *)
(* the request made active in this step goes to the PRU.  The code sets      *)
(* cur_status to 0, which is DMA_STATE_READY.                                *)
Execute(start) ==
  IF ~start \/ Npr'.active = NULL THEN UNCHANGED <<mailbox, pru>>
  ELSE LET cpu_access == Npr'.active \in CpuRequests
       IN  /\ mailbox' = [cur_status |-> "READY", wordcount |-> chunk_words(Npr.active)',
                          cpu_access |-> cpu_access, request |-> Npr'.active]
           /\ pru' = IF cpu_access THEN [pru EXCEPT !.cpu_request = TRUE]
                     ELSE [pru EXCEPT !.npr = TRUE]

Unlocked == requests_mutex = NULL

(* May the thread that uses r run?  A device thread, as worker(), has a real *)
(* time priority; the CPU's has not.                                         *)
MayRun(r) ==
  r \in CpuRequests /\ RealtimeWorker =>
     \/ worker.pc = "wait" /\ ~interrupt
     \/ ~Unlocked /\ worker.pc \in {"init_event", "power_event", "dma_event", "init_raised"}

-----------------------------------------------------------------------------
(* A device, or the CPU, calls DMA(). *)
call_DMA(r) ==
  /\ MayRun(r)
  /\ requests_mutex # r
  /\ Enter(r)
  /\ UNCHANGED dma_vars

(* DMA() with the lock held. *)
start_DMA(r, wordcount) ==
  /\ MayRun(r)
  /\ Unlocked
  /\ DMA(r, wordcount)
  /\ Execute(Npr.active = NULL)
  /\ to_transfer' = [to_transfer EXCEPT ![r] = wordcount]
  /\ UNCHANGED <<events, bus_line, signal_cur, line_DCLO, interrupt, worker,
                 requests_mutex, late, missed>>

return_DMA(r) ==
  /\ DMA_return(r)
  /\ UNCHANGED dma_vars

(* The CPU's polling loop: an event while its access is the active request.  *)
(* It keeps the lock until the event is acknowledged.                        *)
cpu_poll(r) ==
  /\ MayRun(r)
  /\ Unlocked
  /\ ~EVENT_IS_ACKED("dma")
  /\ cpu_dma_event(r, mailbox.cur_status = "READY")
  /\ Execute(TRUE)
  /\ requests_mutex' = r
  /\ UNCHANGED <<events, bus_line, signal_cur, line_DCLO, interrupt, worker, to_transfer, late, missed>>

(* Faulty: the event is not acknowledged. *)
cpu_unlock(r) ==
  /\ MayRun(r)
  /\ requests_mutex = r
  /\ requests_mutex' = NULL
  /\ UNCHANGED <<mailbox, events, bus_line, signal_cur, line_DCLO, interrupt, worker, pru,
                 to_transfer, late, missed>>
  /\ UNCHANGED vars

cpu_ack(r) ==
  /\ MayRun(r)
  /\ requests_mutex = r
  /\ events' = EVENT_ACK("dma")
  /\ requests_mutex' = NULL
  /\ UNCHANGED <<mailbox, bus_line, signal_cur, line_DCLO, interrupt, worker, pru,
                 to_transfer, late, missed>>
  /\ UNCHANGED vars

cpu_aborted(r) ==
  /\ MayRun(r)
  /\ Unlocked
  /\ DMA_aborted(r)
  /\ UNCHANGED dma_vars

-----------------------------------------------------------------------------
(* worker(): sleep until the PRU interrupts.  Events of other kinds, of      *)
(* register accesses and interrupts, wake it as well.                        *)
worker_wait ==
  /\ worker.pc = "wait"
  /\ interrupt
  /\ interrupt' = FALSE
  /\ worker' = [worker EXCEPT !.pc = "init"]
  /\ UNCHANGED <<mailbox, events, bus_line, signal_cur, line_DCLO, requests_mutex, pru,
                 to_transfer, late, missed>>
  /\ UNCHANGED vars

(* The next step of worker(), after handling an event or finding none. *)
Goto(pc, event) ==
  worker' = [worker EXCEPT !.pc = pc, !.any_event = @ \/ event]

(* The init event.  A negated INIT is handled at once, an asserted one at    *)
(* the end of the loop; an event without a change is only acknowledged.      *)
worker_init ==
  /\ worker.pc = "init"
  /\ LET event == ~EVENT_IS_ACKED("INIT")
         edge == event /\ signal_cur["INIT"] # line_INIT
     IN  /\ IF edge THEN init_edge ELSE UNCHANGED vars
         /\ events' = IF event /\ ~edge THEN EVENT_ACK("INIT") ELSE events
         /\ worker' = [pc |-> IF edge /\ line_INIT THEN "init_event" ELSE "power",
                       any_event |-> event,
                       init_raising_edge |-> edge /\ ~line_INIT]
         /\ missed' = (missed \/ (event /\ ~edge))
  /\ UNCHANGED <<mailbox, bus_line, signal_cur, line_DCLO, interrupt, requests_mutex, pru,
                 to_transfer, late>>

(* The PRU has a request, or the event of one that was not handled yet. *)
PruBusy ==
  \/ pru.npr \/ pru.granted \/ pru.cpu_request \/ pru.state # "none"
  \/ ~EVENT_IS_ACKED("dma") /\ worker.pc # "dma_ack"

worker_init_event ==
  /\ worker.pc = "init_event"
  /\ Unlocked
  /\ clear_tables("INIT")
  /\ late' = (late \/ PruBusy)
  /\ events' = EVENT_ACK("INIT")
  /\ Goto("power", FALSE)
  /\ UNCHANGED <<mailbox, bus_line, signal_cur, line_DCLO, interrupt, requests_mutex, pru,
                 to_transfer, missed>>

(* The power event: only the raising edge of DCLO clears the tables. *)
worker_power ==
  /\ worker.pc = "power"
  /\ LET event == ~EVENT_IS_ACKED("DCLO")
         raising == event /\ signal_cur["DCLO"] /\ ~line_DCLO
     IN  /\ IF raising THEN dclo_edge ELSE UNCHANGED vars
         /\ line_DCLO' = IF event THEN signal_cur["DCLO"] ELSE line_DCLO
         /\ events' = IF event /\ ~raising THEN EVENT_ACK("DCLO") ELSE events
         /\ Goto(IF raising THEN "power_event" ELSE "dma", event)
  /\ UNCHANGED <<mailbox, bus_line, signal_cur, interrupt, requests_mutex, pru, to_transfer, late, missed>>

worker_power_event ==
  /\ worker.pc = "power_event"
  /\ Unlocked
  /\ clear_tables("DCLO")
  /\ late' = (late \/ PruBusy)
  /\ events' = EVENT_ACK("DCLO")
  /\ Goto("dma", FALSE)
  /\ UNCHANGED <<mailbox, bus_line, signal_cur, line_DCLO, interrupt, requests_mutex, pru,
                 to_transfer, missed>>

(* The dma event, tested without the lock ... *)
worker_dma ==
  /\ worker.pc = "dma"
  /\ LET event == ~EVENT_IS_ACKED("dma") /\ ~mailbox.cpu_access
     IN  Goto(IF event THEN "dma_event" ELSE "init_raised", event)
  /\ UNCHANGED <<mailbox, events, bus_line, signal_cur, line_DCLO, interrupt,
                 requests_mutex, pru, to_transfer, late, missed>>
  /\ UNCHANGED vars

(* Faulty: the next chunk or request is not given to the PRU. *)
worker_dma_complete_only ==
  /\ worker.pc = "dma_event"
  /\ Unlocked
  /\ worker_dma_event(mailbox.cur_status = "READY")
  /\ Goto("dma_ack", FALSE)
  /\ UNCHANGED <<mailbox, events, bus_line, signal_cur, line_DCLO, interrupt,
                 requests_mutex, pru, to_transfer, late, missed>>

(* ... handled under it: worker_device_dma_chunk_complete_event() ... *)
worker_device_dma_chunk_complete_event ==
  /\ worker.pc = "dma_event"
  /\ Unlocked
  /\ worker_dma_event(mailbox.cur_status = "READY")
  /\ Execute(Npr.active # NULL)
  /\ Goto("dma_ack", FALSE)
  /\ UNCHANGED <<events, bus_line, signal_cur, line_DCLO, interrupt, requests_mutex,
                 to_transfer, late, missed>>

(* Faulty: no acknowledge. *)
worker_dma_no_ack ==
  /\ worker.pc = "dma_ack"
  /\ Goto("init_raised", FALSE)
  /\ UNCHANGED <<mailbox, events, bus_line, signal_cur, line_DCLO, interrupt,
                 requests_mutex, pru, to_transfer, late, missed>>
  /\ UNCHANGED vars

(* ... and acknowledged after it. *)
worker_dma_ack ==
  /\ worker.pc = "dma_ack"
  /\ events' = EVENT_ACK("dma")
  /\ Goto("init_raised", FALSE)
  /\ UNCHANGED <<mailbox, bus_line, signal_cur, line_DCLO, interrupt, requests_mutex, pru,
                 to_transfer, late, missed>>
  /\ UNCHANGED vars

(* Faulty: an asserted INIT is forgotten. *)
worker_init_raised_ignored ==
  /\ worker.pc = "init_raised"
  /\ worker' = [pc |-> IF worker.any_event THEN "init" ELSE "wait", any_event |-> FALSE,
                init_raising_edge |-> FALSE]
  /\ UNCHANGED <<mailbox, events, bus_line, signal_cur, line_DCLO, interrupt,
                 requests_mutex, pru, to_transfer, late, missed>>
  /\ UNCHANGED vars

(* The end of the loop: INIT was asserted; loop again if there was an event. *)
worker_init_raised ==
  /\ worker.pc = "init_raised"
  /\ IF worker.init_raising_edge
       THEN /\ Unlocked
            /\ clear_tables("INIT")
            /\ late' = (late \/ PruBusy)
            /\ events' = EVENT_ACK("INIT")
       ELSE /\ UNCHANGED vars
            /\ UNCHANGED <<events, late, missed>>
  /\ worker' = [pc |-> IF worker.any_event THEN "init" ELSE "wait", any_event |-> FALSE,
                init_raising_edge |-> FALSE]
  /\ UNCHANGED <<mailbox, bus_line, signal_cur, line_DCLO, interrupt, requests_mutex, pru,
                 to_transfer, missed>>

-----------------------------------------------------------------------------
(* The bus: another board, the PDP-11 CPU or a user's command changes a      *)
(* line, for so long that the PRU sees it, but perhaps before worker() has   *)
(* seen the last change.  (Bound: the event counters do not wrap around.)    *)
bus_signal(s) ==
  /\ s \in Signals
  /\ events[s] < EventModulus - 1
  /\ signal_cur[s] = bus_line[s]
  /\ bus_line' = [bus_line EXCEPT ![s] = ~@]
  /\ UNCHANGED <<mailbox, events, signal_cur, line_DCLO, interrupt, worker, requests_mutex,
                 pru, to_transfer, late, missed>>
  /\ UNCHANGED vars

(* The PRU signals an event of another kind. *)
other_event ==
  /\ ~interrupt
  /\ interrupt' = TRUE
  /\ UNCHANGED <<mailbox, events, bus_line, signal_cur, line_DCLO, worker, requests_mutex,
                 pru, to_transfer, late, missed>>
  /\ UNCHANGED vars

(* The PRU, while not bus master, watches the lines: INIT removes the NPR    *)
(* request, but not one already granted.                                     *)
do_event_initializationsignals(s) ==
  /\ pru.state = "none"
  /\ signal_cur[s] # bus_line[s]
  /\ signal_cur' = [signal_cur EXCEPT ![s] = bus_line[s]]
  /\ events' = EVENT_SIGNAL(s)
  /\ interrupt' = TRUE
  /\ pru' = IF bus_line["INIT"] THEN [pru EXCEPT !.npr = FALSE] ELSE pru
  /\ UNCHANGED <<mailbox, bus_line, line_DCLO, worker, requests_mutex, to_transfer, late, missed>>
  /\ UNCHANGED vars

init_clears_requests ==
  /\ pru.state = "none"
  /\ bus_line["INIT"]
  /\ pru.npr
  /\ pru' = [pru EXCEPT !.npr = FALSE]
  /\ UNCHANGED <<mailbox, events, bus_line, signal_cur, line_DCLO, interrupt, worker,
                 requests_mutex, to_transfer, late, missed>>
  /\ UNCHANGED vars

(* A change of the PRU's own state and of nothing else. *)
PruStep(new) ==
  /\ pru' = new
  /\ UNCHANGED <<mailbox, events, bus_line, signal_cur, line_DCLO, interrupt, worker,
                 requests_mutex, to_transfer, late, missed>>
  /\ UNCHANGED vars

(* sm_arb_worker_device(), state 1: the arbitrator grants NPR, the PRU       *)
(* answers with SACK.  While INIT is asserted the main loop clears the       *)
(* request first.                                                            *)
npr_granted ==
  /\ pru.state = "none"
  /\ pru.npr
  /\ ~bus_line["INIT"]
  /\ ~pru.granted
  /\ ~pru.SACK
  /\ PruStep([pru EXCEPT !.npr = FALSE, !.granted = TRUE, !.SACK = TRUE])

(* State 2: the bus is free, main() starts the DMA. *)
npr_bus_free ==
  /\ pru.state = "none"
  /\ pru.granted
  /\ ~pru.BBSY
  /\ PruStep([pru EXCEPT !.granted = FALSE, !.state = "start"])

(* An access of the CPU needs no grant: it waits until neither NPR, SACK nor *)
(* BBSY is set.                                                              *)
cpu_bus_free ==
  /\ pru.state = "none"
  /\ pru.cpu_request
  /\ ~pru.npr
  /\ ~pru.SACK
  /\ ~pru.BBSY
  /\ PruStep([pru EXCEPT !.cpu_request = FALSE, !.state = "start"])

sm_dma_start ==
  /\ pru.state = "start"
  /\ mailbox' = [mailbox EXCEPT !.cur_status = "RUNNING"]
  /\ pru' = [pru EXCEPT !.BBSY = TRUE, !.state = "1", !.cur_wordsleft = mailbox.wordcount,
                        !.request = mailbox.request]
  /\ UNCHANGED <<events, bus_line, signal_cur, line_DCLO, interrupt, worker,
                 requests_mutex, to_transfer, late, missed>>
  /\ UNCHANGED vars

(* Next word.  SACK is removed with the last one.  ("still stopped" if ARM   *)
(* changed cur_status under the running machine.)                            *)
sm_dma_state_1 ==
  /\ pru.state = "1"
  /\ PruStep(IF mailbox.cur_status # "RUNNING" \/ mailbox.wordcount = 0
               THEN [pru EXCEPT !.state = "none"]
               ELSE [pru EXCEPT !.state = "99", !.SACK = @ /\ pru.cur_wordsleft # 1])

(* Faulty: a timeout is not told from the last word. *)
final_dma_state_ready(state_timeout, left) ==
  IF state_timeout \/ left = 0 THEN "READY"
  ELSE IF bus_line["INIT"] THEN "INITSTOP"
  ELSE "RUNNING"

(* How the chunk goes on, with "left" words to transfer. *)
final_dma_state(state_timeout, left) ==
  IF state_timeout THEN "TIMEOUTSTOP"
  ELSE IF left = 0 THEN "READY"
  ELSE IF bus_line["INIT"] THEN "INITSTOP"
  ELSE "RUNNING"

(* The word is transferred, or the slave did not answer. *)
sm_dma_state_99(state_timeout) ==
  /\ pru.state = "99"
  /\ LET left == IF state_timeout THEN pru.cur_wordsleft ELSE pru.cur_wordsleft - 1
         final == final_dma_state(state_timeout, left)
     IN  /\ IF final = "RUNNING"
              THEN /\ pru' = [pru EXCEPT !.state = "1", !.cur_wordsleft = left]
                   /\ UNCHANGED <<mailbox, events, interrupt>>
              ELSE /\ pru' = [pru EXCEPT !.state = "none", !.BBSY = FALSE,
                                         !.SACK = @ /\ final = "READY",
                                         !.cur_wordsleft = left, !.request = NULL]
                   /\ mailbox' = [mailbox EXCEPT !.cur_status = final]
                   /\ events' = EVENT_SIGNAL("dma")
                   /\ interrupt' = (interrupt \/ ~mailbox.cpu_access)
         /\ to_transfer' = IF state_timeout \/ to_transfer[pru.request] = 0 THEN to_transfer
                           ELSE [to_transfer EXCEPT ![pru.request] = @ - 1]
  /\ UNCHANGED <<bus_line, signal_cur, line_DCLO, worker, requests_mutex, late, missed>>
  /\ UNCHANGED vars

-----------------------------------------------------------------------------
worker_step ==
  \/ worker_wait \/ worker_init \/ worker_init_event \/ worker_power \/ worker_power_event
  \/ worker_dma \/ worker_device_dma_chunk_complete_event \/ worker_dma_ack
  \/ worker_init_raised

pru_step ==
  \/ \E s \in {"INIT", "DCLO"} : do_event_initializationsignals(s)
  \/ init_clears_requests
  \/ npr_granted \/ npr_bus_free \/ cpu_bus_free
  \/ sm_dma_start \/ sm_dma_state_1
  \/ \E state_timeout \in BOOLEAN : sm_dma_state_99(state_timeout)

DmaNext ==
  \/ /\ failed_assert = "none"
     /\ \/ \E r \in DmaRequests :
             \/ call_DMA(r)
             \/ \E n \in 1 .. MaxWordcount : start_DMA(r, n)
             \/ return_DMA(r)
        \/ \E r \in CpuRequests : cpu_poll(r) \/ cpu_ack(r) \/ cpu_aborted(r)
        \/ worker_step
        \/ \E s \in {"INIT", "DCLO"} : bus_signal(s)
        \/ other_event
        \/ pru_step
  \/ Aborted /\ UNCHANGED dma_vars

DmaSpec == DmaInit /\ [][DmaNext]_all_vars

(* A thread that called DMA() goes on, as do worker() and the PRU; the       *)
(* arbitrator grants every request in the end and the slave answers or a     *)
(* timeout occurs.  INIT is a pulse.  Nobody has to call DMA(), and no line  *)
(* has to be asserted.                                                       *)
Fairness ==
  /\ \A r \in DmaRequests :
        /\ WF_all_vars(\E n \in 1 .. MaxWordcount : start_DMA(r, n))
        /\ WF_all_vars(return_DMA(r))
  /\ \A r \in CpuRequests : WF_all_vars(cpu_poll(r) \/ cpu_ack(r) \/ cpu_aborted(r))
  /\ WF_all_vars(worker_step)
  /\ WF_all_vars(pru_step)
  /\ WF_all_vars(bus_line["INIT"] /\ bus_signal("INIT"))

FairSpec == DmaSpec /\ Fairness

-----------------------------------------------------------------------------
(* A DMA that reports success has moved every word it was asked for: the     *)
(* PRU's count of the transferred words, not ARM's, is zero.                 *)
SuccessIsTransferred == \A r \in DmaRequests : success[r] => to_transfer[r] = 0

(* Events of DMA: one while ARM is between handling and acknowledging it, one *)
(* that ARM has not yet handled.                                              *)
Acknowledging == worker.pc = "dma_ack" \/ ~Unlocked
Pending == events["dma"] = IF Acknowledging THEN 2 ELSE 1

(* The event counters stay in step: as long as a chunk is handed to the PRU  *)
(* and not finished there, the only event that can be outstanding is the one *)
(* ARM has handled and is about to acknowledge.                              *)
OnPru(r) == \/ pru.state # "none" /\ pru.request \in {r, NULL}
            \/ IF r \in CpuRequests THEN pru.cpu_request ELSE pru.npr \/ pru.granted

EventsInStep ==
  /\ events["dma"] <= IF Acknowledging THEN 2 ELSE 1
  /\ Npr.active # NULL /\ ~OnPru(Npr.active) => events["dma"] # 0

(* The PRU completes no DMA that ARM does not wait for: the assert() in      *)
(* worker_device_dma_chunk_complete_event() holds.                           *)
NoFailedAssert == failed_assert = "none"

(* The PRU's machine has a request and words to transfer when it runs.       *)
Running == pru.state \in {"1", "99"}

PruAtWork == pru.npr \/ pru.granted \/ pru.cpu_request \/ pru.state # "none"

PruFed ==
  /\ PruAtWork => mailbox.wordcount > 0 /\ mailbox.request # NULL
  /\ Running => pru.cur_wordsleft > 0 /\ pru.request # NULL
  /\ \A r \in Scheduled(Npr) : remaining[r] > 0

(* ARM and PRU work on the same request, and it is in one place: NPR, grant,  *)
(* the CPU's request, the DMA machine or the event.  (It may be in no place:  *)
(* INIT withdrew it, the tables are not cleared yet.)                         *)
RequestInStep ==
  /\ Pending \/ events["dma"] = IF Acknowledging THEN 1 ELSE 0
  /\ Npr.active = NULL => ~Pending /\ ~PruAtWork
  /\ Npr.active # NULL => /\ mailbox.request = Npr.active
                         /\ mailbox.wordcount = chunk_words(Npr.active)
  /\ Pending => ~PruAtWork
  /\ pru.state # "none" => ~pru.npr /\ ~pru.granted /\ ~pru.cpu_request
  /\ pru.granted => ~pru.npr
  /\ pru.request = IF Running THEN Npr.active ELSE NULL
  /\ Npr.active # NULL /\ ~Pending /\ ~PruAtWork => "INIT" \in Signals

(* With the CPU the events are its own, without it worker()'s.                *)
EventsOfOneUser ==
  /\ worker.pc = "dma_event" => Pending
  /\ IF CpuRequests = {} THEN ~mailbox.cpu_access /\ ~pru.cpu_request
     ELSE /\ mailbox.cpu_access \/ (events["dma"] = 0 /\ Npr.active = NULL)
          /\ ~pru.npr /\ ~pru.granted
          /\ worker.pc \notin {"dma_event", "dma_ack"}

(* The PRU's count of the words of a request and ARM's.                       *)
WordsInStep ==
  /\ \A r \in Scheduled(Npr) :
        r # Npr.active \/ ~(Running \/ Pending) => to_transfer[r] = remaining[r]
  /\ Running =>
        to_transfer[Npr.active] = remaining[Npr.active] - mailbox.wordcount + pru.cur_wordsleft
  /\ Pending /\ mailbox.cur_status = "READY" =>
        to_transfer[Npr.active] = remaining[Npr.active] - mailbox.wordcount

RunningInStep ==
  Running => mailbox.cur_status = "RUNNING" /\ pru.cur_wordsleft <= mailbox.wordcount

(* The inductive invariant, if devices or the CPU use DMA, but not both.      *)
OneUser == CpuRequests = {} \/ CpuRequests = DmaRequests

DmaInTime ==
  /\ RequestInStep
  /\ EventsOfOneUser
  /\ WordsInStep
  /\ RunningInStep
  /\ SuccessIsTransferred
  /\ NoFailedAssert

DmaIndInv == PruFed /\ (late \/ DmaInTime)

(* Without INIT and power fail ARM and PRU agree on the DMAs under way.       *)
DmaSafe ==
  DmaTypeOK /\ DmaIndInv /\ SuccessIsTransferred /\ EventsInStep /\ NoFailedAssert

(* With INIT and power fail that is so until one of them comes while the PRU  *)
(* has a request.                                                             *)
DmaSafeInTime ==
  DmaTypeOK /\ DmaIndInv /\ (late \/ (SuccessIsTransferred /\ NoFailedAssert))

(* "called by PRU signal when DMA transmission complete": when the active    *)
(* request is completed or goes on to its next chunk, the PRU is not working *)
(* on it any more.  Not so for a device and the CPU together: DMA() of the    *)
(* CPU starts the device's transfer before it acknowledges its own event.     *)
ChunkCompleteStep ==
  worker_device_dma_chunk_complete_event \/ (\E r \in CpuRequests : cpu_poll(r))

CalledWhenTransmissionComplete ==
  [][ChunkCompleteStep => ~OnPru(Npr.active)]_all_vars

(* "wait until CPU access scheduled and processed on PRU" *)
CpuAccessProcessed ==
  [][\A r \in CpuRequests : cpu_poll(r) => ~OnPru(r)]_all_vars

(* That is so as long as neither INIT nor DCLO comes while the PRU works.     *)
CpuAccessProcessedInTime ==
  [][\A r \in CpuRequests : cpu_poll(r) => late \/ ~OnPru(r)]_all_vars

(* When worker() sleeps it has seen the lines as the PRU last reported them, *)
(* and has no tables left to clear.                                          *)
LinesInStep ==
  worker.pc = "wait" /\ ~interrupt =>
     /\ line_INIT = signal_cur["INIT"]
     /\ line_DCLO = signal_cur["DCLO"]
     /\ clearing = {}
     /\ EVENT_IS_ACKED("INIT") /\ EVENT_IS_ACKED("DCLO")

(* What worker() knows of the lines: of the events counted one may be a       *)
(* change for which it is about to clear the tables; the others it has not    *)
(* seen, several of them perhaps for a line that is as it was.  It does not   *)
(* sleep before it has dealt with all of them.                                *)
Unseen(s) == events[s] - (IF s \in clearing THEN 1 ELSE 0)

LineSeen(s, line) ==
  /\ signal_cur[s] # bus_line[s] => events[s] < EventModulus - 1
  /\ s \in clearing => events[s] > 0
  /\ line # signal_cur[s] => Unseen(s) > 0

LinesIndInv ==
  /\ LineSeen("INIT", line_INIT)
  /\ LineSeen("DCLO", line_DCLO)
  /\ "INIT" \in clearing <=> (worker.pc = "init_event" \/ worker.init_raising_edge)
  /\ "DCLO" \in clearing <=> worker.pc = "power_event"
  /\ worker.init_raising_edge => worker.pc \notin {"wait", "init", "init_event"}
  /\ worker.any_event => worker.pc # "wait"
  /\ Unseen("INIT") > 0 => interrupt \/ worker.pc = "init" \/ worker.any_event
  /\ Unseen("DCLO") > 0 =>
        interrupt \/ worker.pc \in {"init", "init_event", "power"} \/ worker.any_event

SignalsSafe == LinesInStep /\ LinesIndInv /\ DmaSafeInTime

(* INIT frees every device thread blocked in DMA(), also one that passed the *)
(* test of line_INIT before worker() saw the signal and one whose request    *)
(* the PRU has dropped; unless the late completion on the PRU ended the      *)
(* program, or INIT changed twice before worker() looked: "Assume this       *)
(* events come so slow, no one gets raised until prev event processed."      *)
InitReleases ==
  \A r \in DmaRequests \ CpuRequests :
     (bus_line["INIT"] /\ r \in waiting) ~> (r \notin waiting \/ failed_assert # "none" \/ missed)

(* Every DMA() returns in the end. *)
DmaReturns == \A r \in DmaRequests : (r \in waiting) ~> (r \notin waiting)
=============================================================================
