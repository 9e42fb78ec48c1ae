--------------------------- MODULE IntrScheduling --------------------------
(***************************************************************************)
(* Interrupts between the ARM threads and the PRU (UNIBUS): the scheduler   *)
(* of RequestScheduler with the mailbox and the PRU's INTR state machines.  *)
(*                                                                         *)
(* ARM keeps one request per BR level on the PRU.  The arbitrator grants a  *)
(* level at a time of its own choice, the PRU then takes the vector from    *)
(* the mailbox, transfers it and signals an event for the level, by which   *)
(* worker() completes the active request of that level.  Nothing else links *)
(* the vector on the bus to the request that is completed.                  *)
(***************************************************************************)
EXTENDS RequestScheduler

CONSTANTS
  Cancels,       \* requests whose device calls cancel_INTR()
  HasINIT,       \* INIT is asserted now and then
  EventModulus   \* 256 in the code: the event counters are uint8_t

ASSUME IntrAssumption ==
  /\ Cancels \subseteq IntrRequests
  /\ HasINIT \in BOOLEAN
  /\ EventModulus \in Nat \ {0, 1, 2}
  /\ NULL \notin Levels

VARIABLES
  vector,          \* level -> the request whose vector is in mailbox->intr.vector
  intr_event,      \* level -> (signaled - acked) of events.intr_master
  INIT_line,       \* INIT on the bus
  init_event,      \* changes of INIT the PRU reported, not yet acknowledged
  worker,          \* worker()'s position
  pru,             \* sm_arb and sm_intr_master
  register_value,  \* INTR request -> its interrupt register shows the condition
  owed,            \* history: requests raised whose vector was not transferred
  transferred,     \* history: level -> the request transferred last
  late,            \* history: a request was cancelled or reset when the PRU had
                   \* already got the grant for it
  missed           \* history: worker() found an INIT event without a change of the line

intr_vars == <<vector, intr_event, INIT_line, init_event, worker, pru, register_value,
               owed, transferred, late, missed>>
all_vars == <<vars, intr_vars>>

IntrLevels == Levels \ {PRIORITY_LEVEL_INDEX_NPR}
Start == [pc |-> "init", level |-> 0, init_raising_edge |-> FALSE]

WorkerState ==
  [pc : {"init", "init_event", "intr", "intr_event", "intr_ack", "init_raised"},
   level : Levels, init_raising_edge : BOOLEAN]

PruState ==
  [device_request_mask : SUBSET IntrLevels, grant_bbsy_ssyn_wait : IntrLevels \cup {NULL},
   level_index : IntrLevels \cup {NULL}, vector : IntrRequests \cup {NULL}]

IntrTypeOK ==
  /\ vector \in [IntrLevels -> IntrRequests \cup {NULL}]
  /\ intr_event \in [IntrLevels -> 0 .. 1]
  /\ INIT_line \in BOOLEAN
  /\ init_event \in 0 .. (EventModulus - 1)
  /\ worker \in WorkerState
  /\ pru \in PruState
  /\ register_value \in [IntrRequests -> BOOLEAN]
  /\ owed \subseteq IntrRequests
  /\ transferred \in [IntrLevels -> IntrRequests \cup {NULL}]
  /\ late \in BOOLEAN
  /\ missed \in BOOLEAN

IntrInit ==
  /\ Init
  /\ vector = [l \in IntrLevels |-> NULL]
  /\ intr_event = [l \in IntrLevels |-> 0]
  /\ INIT_line = FALSE
  /\ init_event = 0
  /\ worker = Start
  /\ pru = [device_request_mask |-> {}, grant_bbsy_ssyn_wait |-> NULL,
            level_index |-> NULL, vector |-> NULL]
  /\ register_value = [r \in IntrRequests |-> FALSE]
  /\ owed = {}
  /\ transferred = [l \in IntrLevels |-> NULL]
  /\ late = FALSE
  /\ missed = FALSE

-----------------------------------------------------------------------------
(* request_execute_active_on_PRU() for a BR level, with the PRU's execution  *)
(* of ARM2PRU_INTR: the vector is stored, the request line raised.  If       *)
(* "start", the request made active in this step is executed; "cancel" tells *)
(* that ARM2PRU_INTR_CANCEL went before.                                     *)
Execute(level, start, cancel) ==
  LET next == request_levels'[level].active
      raised == pru.device_request_mask \ (IF cancel THEN {level} ELSE {})
  IN  IF start /\ next # NULL
        THEN /\ vector' = [vector EXCEPT ![level] = next]
             /\ pru' = [pru EXCEPT !.device_request_mask = raised \cup {level}]
        ELSE /\ pru' = [pru EXCEPT !.device_request_mask = raised]
             /\ UNCHANGED vector

(* The vector was transferred and ARM has not yet handled the event. *)
Pending(level) ==
  intr_event[level] # 0 /\ ~(worker.pc = "intr_ack" /\ worker.level = level)

(* The PRU has the grant for its request of this level, is transferring the  *)
(* vector, or has done so and ARM has not yet handled the event.             *)
Granted(level) ==
  \/ pru.grant_bbsy_ssyn_wait = level
  \/ pru.level_index = level
  \/ Pending(level)

(* INTR() before the lock ... *)
call_INTR(r) ==
  /\ Enter(r)
  /\ UNCHANGED intr_vars

(* ... and with the lock held.  The interrupt register is set, by the PRU    *)
(* together with the request line if the request is executed now and nothing *)
(* of its or a higher level is under way, else by ARM.                       *)
start_INTR(r) ==
  LET prl == request_levels[level_index[r]]
  IN  /\ INTR(r)
      /\ IF Occupied(prl, r)
           THEN UNCHANGED <<vector, pru, owed>>
           ELSE /\ Execute(level_index[r], prl.active = NULL, FALSE)
                /\ owed' = owed \cup {r}
      /\ register_value' = [register_value EXCEPT ![r] = TRUE]
      /\ UNCHANGED <<intr_event, INIT_line, init_event, worker, transferred, late, missed>>

(* The program clears the interrupt condition and the device then calls      *)
(* cancel_INTR().                                                            *)
call_cancel_INTR(r) ==
  /\ r \in Cancels
  /\ cancel_INTR(r)
  /\ LET active == request_levels[level_index[r]].active = r
     IN  /\ Execute(level_index[r], active, active)
         /\ late' = (late \/ (active /\ Granted(level_index[r])))
  /\ owed' = owed \ {r}
  /\ register_value' = [register_value EXCEPT ![r] = FALSE]
  /\ UNCHANGED <<intr_event, INIT_line, init_event, worker, transferred, missed>>

-----------------------------------------------------------------------------
(* worker(): the init event first, a raised INIT is handled last; an event   *)
(* without a change is only acknowledged.                                    *)
worker_init ==
  /\ worker.pc = "init"
  /\ IF init_event > 0 /\ line_INIT # INIT_line
       THEN /\ init_edge
            /\ worker' = [worker EXCEPT !.pc = IF line_INIT THEN "init_event" ELSE "intr",
                                        !.init_raising_edge = ~line_INIT]
            /\ UNCHANGED <<init_event, missed>>
       ELSE /\ worker' = [worker EXCEPT !.pc = "intr"]
            /\ init_event' = IF init_event > 0 THEN init_event - 1 ELSE 0
            /\ missed' = (missed \/ init_event > 0)
            /\ UNCHANGED vars
  /\ UNCHANGED <<vector, intr_event, INIT_line, pru, register_value, owed, transferred, late>>

(* worker_init_event(): the devices reset their registers, the tables are    *)
(* cleared, nothing is sent to the PRU.                                      *)
worker_init_event ==
  /\ worker.pc \in {"init_event", "init_raised"}
  /\ worker.pc = "init_raised" => worker.init_raising_edge
  /\ clear_tables("INIT")
  /\ init_event' = init_event - 1
  /\ owed' = {}
  /\ late' = (late \/ pru.device_request_mask # {} \/ \E level \in IntrLevels : Granted(level))
  /\ register_value' = [r \in IntrRequests |-> FALSE]
  /\ worker' = IF worker.pc = "init_raised" THEN Start ELSE [worker EXCEPT !.pc = "intr"]
  /\ UNCHANGED <<vector, intr_event, INIT_line, pru, transferred, missed>>

(* The intr_master events of all levels in turn, tested without the lock ... *)
worker_intr ==
  /\ worker.pc = "intr"
  /\ worker' = IF worker.level = PRIORITY_LEVEL_INDEX_NPR
                 THEN [worker EXCEPT !.pc = "init_raised"]
               ELSE IF intr_event[worker.level] # 0
                 THEN [worker EXCEPT !.pc = "intr_event"]
               ELSE [worker EXCEPT !.level = @ + 1]
  /\ UNCHANGED <<vector, intr_event, INIT_line, init_event, pru, register_value, owed,
                 transferred, late, missed>>
  /\ UNCHANGED vars

(* Faulty: the next request of the level is not given to the PRU. *)
worker_intr_complete_only ==
  /\ worker.pc = "intr_event"
  /\ worker_intr_event(worker.level)
  /\ worker' = [worker EXCEPT !.pc = "intr_ack"]
  /\ UNCHANGED <<vector, intr_event, INIT_line, init_event, pru, register_value, owed,
                 transferred, late, missed>>

(* ... handled under it, in worker_intr_complete_event() ... *)
worker_intr_complete_event ==
  /\ worker.pc = "intr_event"
  /\ worker_intr_event(worker.level)
  /\ Execute(worker.level, TRUE, FALSE)
  /\ worker' = [worker EXCEPT !.pc = "intr_ack"]
  /\ UNCHANGED <<intr_event, INIT_line, init_event, register_value, owed, transferred, late, missed>>

(* ... and acknowledged. *)
worker_intr_ack ==
  /\ worker.pc = "intr_ack"
  /\ intr_event' = [intr_event EXCEPT ![worker.level] = @ - 1]
  /\ worker' = [worker EXCEPT !.pc = "intr", !.level = @ + 1]
  /\ UNCHANGED <<vector, INIT_line, init_event, pru, register_value, owed, transferred, late, missed>>
  /\ UNCHANGED vars

worker_loop ==
  /\ worker.pc = "init_raised"
  /\ ~worker.init_raising_edge
  /\ worker' = Start
  /\ UNCHANGED <<vector, intr_event, INIT_line, init_event, pru, register_value, owed,
                 transferred, late, missed>>
  /\ UNCHANGED vars

-----------------------------------------------------------------------------
(* INIT changes on the bus, perhaps before worker() has seen the last change; *)
(* the PRU reports it, and while INIT is asserted withdraws all requests.     *)
(* (Bound: the event counter does not wrap around.)                           *)
bus_INIT ==
  /\ HasINIT
  /\ init_event < EventModulus - 1
  /\ INIT_line' = ~INIT_line
  /\ init_event' = init_event + 1
  /\ pru' = IF INIT_line THEN pru ELSE [pru EXCEPT !.device_request_mask = {}]
  /\ UNCHANGED <<vector, intr_event, worker, register_value, owed, transferred, late, missed>>
  /\ UNCHANGED vars

init_clears_requests ==
  /\ INIT_line
  /\ pru.device_request_mask # {}
  /\ pru' = [pru EXCEPT !.device_request_mask = {}]
  /\ UNCHANGED <<vector, intr_event, INIT_line, init_event, worker, register_value, owed,
                 transferred, late, missed>>
  /\ UNCHANGED vars

(* Faulty: the request line stays set. *)
intr_granted_again(level) ==
  /\ level \in pru.device_request_mask
  /\ ~INIT_line
  /\ pru.grant_bbsy_ssyn_wait = NULL
  /\ pru.level_index = NULL
  /\ pru' = [pru EXCEPT !.grant_bbsy_ssyn_wait = level]
  /\ UNCHANGED <<vector, intr_event, INIT_line, init_event, worker, register_value, owed,
                 transferred, late, missed>>
  /\ UNCHANGED vars

(* sm_arb_worker_device(): the arbitrator grants a level, the PRU sets SACK  *)
(* and withdraws the request line.                                           *)
intr_granted(level) ==
  /\ level \in pru.device_request_mask
  /\ ~INIT_line
  /\ pru.grant_bbsy_ssyn_wait = NULL
  /\ pru.level_index = NULL
  /\ pru' = [pru EXCEPT !.device_request_mask = @ \ {level},
                        !.grant_bbsy_ssyn_wait = level]
  /\ UNCHANGED <<vector, intr_event, INIT_line, init_event, worker, register_value, owed,
                 transferred, late, missed>>
  /\ UNCHANGED vars

(* The bus is free: main() reads the vector and starts sm_intr_master. *)
intr_bus_free ==
  /\ pru.grant_bbsy_ssyn_wait # NULL
  /\ pru' = [pru EXCEPT !.grant_bbsy_ssyn_wait = NULL,
                        !.level_index = pru.grant_bbsy_ssyn_wait,
                        !.vector = vector[pru.grant_bbsy_ssyn_wait]]
  /\ UNCHANGED <<vector, intr_event, INIT_line, init_event, worker, register_value, owed,
                 transferred, late, missed>>
  /\ UNCHANGED vars

(* Faulty: ARM may not have acknowledged the event before. *)
sm_intr_master_unpaced ==
  /\ pru.level_index # NULL
  /\ intr_event' = [intr_event EXCEPT ![pru.level_index] = @ + 1]
  /\ transferred' = [transferred EXCEPT ![pru.level_index] = pru.vector]
  /\ owed' = owed \ {pru.vector}
  /\ pru' = [pru EXCEPT !.level_index = NULL, !.vector = NULL]
  /\ UNCHANGED <<vector, INIT_line, init_event, worker, register_value, late, missed>>
  /\ UNCHANGED vars

(* sm_intr_master_state_2(): the processor took the vector; the event is     *)
(* signalled when ARM has acknowledged the one before.                       *)
sm_intr_master_state_2 ==
  /\ pru.level_index # NULL
  /\ intr_event[pru.level_index] = 0
  /\ intr_event' = [intr_event EXCEPT ![pru.level_index] = @ + 1]
  /\ transferred' = [transferred EXCEPT ![pru.level_index] = pru.vector]
  /\ owed' = owed \ {pru.vector}
  /\ pru' = [pru EXCEPT !.level_index = NULL, !.vector = NULL]
  /\ UNCHANGED <<vector, INIT_line, init_event, worker, register_value, late, missed>>
  /\ UNCHANGED vars

-----------------------------------------------------------------------------
worker_step ==
  \/ worker_init \/ worker_init_event \/ worker_intr \/ worker_intr_complete_event
  \/ worker_intr_ack \/ worker_loop

IntrNext ==
  \/ \E r \in IntrRequests : call_INTR(r) \/ start_INTR(r) \/ call_cancel_INTR(r)
  \/ worker_step
  \/ bus_INIT \/ init_clears_requests
  \/ \E level \in IntrLevels : intr_granted(level)
  \/ intr_bus_free \/ sm_intr_master_state_2

IntrSpec == IntrInit /\ [][IntrNext]_all_vars

(* INTR() goes on once called, worker() and the PRU run, and the program     *)
(* lets every level interrupt again and again; INIT is a pulse.              *)
Fairness ==
  /\ \A r \in IntrRequests : WF_all_vars(start_INTR(r))
  /\ WF_all_vars(worker_step)
  /\ \A level \in IntrLevels : SF_all_vars(intr_granted(level))
  /\ WF_all_vars(intr_bus_free)
  /\ WF_all_vars(sm_intr_master_state_2)
  /\ WF_all_vars(INIT_line /\ bus_INIT)

FairSpec == IntrSpec /\ Fairness

-----------------------------------------------------------------------------
(* The request completed by an event is the one whose vector the PRU has     *)
(* transferred: "After cancelation, ARM receives NO completion event from    *)
(* PRU", else it would complete another request of the level.                *)
EventIsForActive ==
  [][worker_intr_complete_event =>
       request_levels[worker.level].active = transferred[worker.level]]_all_vars

(* That is so as long as cancel_INTR() and INIT do not come too late: when   *)
(* the arbitrator has granted the request already.                           *)
EventIsForActiveInTime ==
  [][worker_intr_complete_event =>
       late \/ request_levels[worker.level].active = transferred[worker.level]]_all_vars

(* No interrupt without a request: the vector transferred is one that its    *)
(* device has raised, and not yet seen transferred, cancelled or reset.      *)
NoSpuriousInterrupt ==
  [][sm_intr_master_state_2 => late \/ pru.vector \in owed]_all_vars

(* No interrupt is lost in the tables: one raised and not yet transferred is *)
(* scheduled, and its interrupt register shows the condition to the service  *)
(* routine.                                                                  *)
OwedIsScheduled ==
  ~late => \A r \in owed : /\ r \in Scheduled(request_levels[level_index[r]])
                           /\ register_value[r]

(* What ARM and PRU hold of a level fits together: the PRU has at most one   *)
(* request of the level, it is in one place, and it is the active one of the *)
(* table, whose vector is in the mailbox.  (It may be in no place: INIT      *)
(* withdrew it, the tables are not cleared yet.)                             *)
LevelInStep(level) ==
  LET active == request_levels[level].active
  IN  /\ active = NULL => level \notin pru.device_request_mask /\ ~Granted(level)
      /\ active # NULL => vector[level] = active
      /\ level \in pru.device_request_mask => ~Granted(level)
      /\ Pending(level) => /\ pru.grant_bbsy_ssyn_wait # level
                           /\ pru.level_index # level
                           /\ transferred[level] = active
      /\ pru.level_index = level => pru.vector = active

(* The requests of a level that are owed are those of the table, without the *)
(* one whose vector was transferred.                                         *)
OwedOfLevel(level) ==
  \A r \in IntrRequests : level_index[r] = level =>
     (r \in owed <=> /\ r \in Scheduled(request_levels[level])
                     /\ ~(Pending(level) /\ request_levels[level].active = r))

(* Where worker() is tells what it has found. *)
WorkerInStep ==
  /\ worker.pc \in {"intr_event", "intr_ack"} =>
        worker.level \in IntrLevels /\ intr_event[worker.level] # 0
  /\ worker.pc \in {"init", "init_event"} => worker.level = 0

(* The INIT event that worker() is about to acknowledge is counted. *)
InitInStep ==
  /\ worker.pc = "init_event" \/ worker.init_raising_edge => init_event > 0
  /\ worker.init_raising_edge => worker.pc \notin {"init", "init_event"}

(* The PRU has one grant at a time; the inductive invariant. *)
OneGrant == pru.grant_bbsy_ssyn_wait = NULL \/ pru.level_index = NULL

IntrIndInv ==
  /\ WorkerInStep /\ InitInStep
  /\ OneGrant
  /\ ~late => /\ \A level \in IntrLevels : LevelInStep(level) /\ OwedOfLevel(level)
              /\ \A r \in owed : register_value[r]

(* The ARM side keeps every interrupt it owes.                               *)
IntrSafe == IntrTypeOK /\ OwedIsScheduled /\ IntrIndInv

(* Interrupts are exact: what is transferred was asked for, and completes the *)
(* request it belongs to.                                                     *)
InterruptsExact == EventIsForActiveInTime /\ NoSpuriousInterrupt

(* Every interrupt raised is transferred to the processor, or cancelled: none *)
(* is lost between ARM and PRU; unless INIT changed twice before worker()     *)
(* looked.                                                                    *)
IntrDelivered == \A r \in IntrRequests : (r \in owed) ~> (r \notin owed \/ late \/ missed)
=============================================================================
