----------------------- MODULE IntrScheduling_proofs ------------------------
(***************************************************************************)
(* Proofs about IntrScheduling, for every set of requests and any number of *)
(* levels and slots: the tables stay consistent, and what ARM and PRU hold of *)
(* a level fits together.                                                   *)
(***************************************************************************)
EXTENDS IntrScheduling, RequestScheduler_proofs

LEMMA IntrLevelFacts ==
  /\ IntrLevels \subseteq Levels /\ NULL \notin IntrLevels
  /\ 0 \in Levels
  /\ \A l \in IntrLevels : l # PRIORITY_LEVEL_INDEX_NPR /\ l + 1 \in Levels
  /\ \A r \in IntrRequests : r \in Requests /\ r # NULL /\ level_index[r] \in IntrLevels
BY RequestAssumption, IntrAssumption DEF IntrLevels, Levels, Requests

-----------------------------------------------------------------------------
(* worker()'s position and the event counters, which depend on nothing else: *)
(* worker() handles an event for a level of which it has seen one, and the   *)
(* PRU counts no second event before the first is acknowledged.              *)
WorkerOK ==
  /\ worker \in WorkerState
  /\ intr_event \in [IntrLevels -> 0 .. 1]
  /\ WorkerInStep

LEMMA WorkerStep ==
  ASSUME WorkerOK, [IntrNext]_all_vars
  PROVE  WorkerOK'
<1> USE DEF WorkerOK, WorkerInStep, WorkerState
<1>1. ASSUME UNCHANGED worker, UNCHANGED intr_event PROVE WorkerOK'
  BY <1>1
<1>2. ASSUME NEW r \in IntrRequests, call_INTR(r) \/ start_INTR(r) \/ call_cancel_INTR(r)
      PROVE  WorkerOK'
  BY <1>1, <1>2 DEF call_INTR, start_INTR, call_cancel_INTR, intr_vars
<1>3. CASE worker_init
  BY <1>3 DEF worker_init
<1>4. CASE worker_init_event
  BY <1>4, IntrLevelFacts DEF worker_init_event, Start
<1>5. CASE worker_intr
  <2>1. worker.level # PRIORITY_LEVEL_INDEX_NPR => worker.level \in IntrLevels
    BY DEF IntrLevels
  <2> QED
    BY <1>5, <2>1, IntrLevelFacts DEF worker_intr
<1>6. CASE worker_intr_complete_event
  BY <1>6 DEF worker_intr_complete_event
<1>7. CASE worker_intr_ack
  <2>1. worker.level \in IntrLevels /\ intr_event[worker.level] = 1
    BY <1>7 DEF worker_intr_ack
  <2>2. intr_event' \in [IntrLevels -> 0 .. 1]
    BY <1>7, <2>1 DEF worker_intr_ack
  <2>3. worker' \in WorkerState /\ worker'.pc = "intr"
    BY <1>7, <2>1, IntrLevelFacts DEF worker_intr_ack
  <2> QED
    BY <2>2, <2>3
<1>8. CASE worker_loop
  BY <1>8, IntrLevelFacts DEF worker_loop, Start
<1>9. CASE sm_intr_master_state_2
  <2>1. /\ intr_event' \in [IntrLevels -> 0 .. 1]
        /\ \A l \in IntrLevels : intr_event[l] # 0 => intr_event'[l] # 0
    <3>1. intr_event' = [intr_event EXCEPT ![pru.level_index] = @ + 1]
          /\ intr_event[pru.level_index] = 0
      BY <1>9 DEF sm_intr_master_state_2
    <3>2. CASE pru.level_index \in IntrLevels
      <4>1. /\ intr_event'[pru.level_index] = 1
            /\ \A l \in IntrLevels : l # pru.level_index => intr_event'[l] = intr_event[l]
        BY <3>1, <3>2
      <4> QED
        BY <3>1, <3>2, <4>1
    <3>3. CASE pru.level_index \notin IntrLevels
      <4>1. intr_event' = intr_event
        BY <3>1, <3>3
      <4> QED
        BY <4>1
    <3> QED
      BY <3>2, <3>3
  <2>2. UNCHANGED worker
    BY <1>9 DEF sm_intr_master_state_2
  <2> QED
    BY <2>1, <2>2
<1>10. CASE bus_INIT \/ init_clears_requests \/ intr_bus_free
            \/ \E level \in IntrLevels : intr_granted(level)
  BY <1>1, <1>10 DEF bus_INIT, init_clears_requests, intr_bus_free, intr_granted
<1>11. CASE UNCHANGED all_vars
  BY <1>1, <1>11 DEF all_vars, intr_vars
<1> QED
  BY <1>2, <1>3, <1>4, <1>5, <1>6, <1>7, <1>8, <1>9, <1>10, <1>11 DEF IntrNext, worker_step

(* Every step of worker() and of a device is a step of the scheduler; the    *)
(* PRU and the bus touch nothing of it.                                      *)
LEMMA StepImplements ==
  ASSUME WorkerOK, [IntrNext]_all_vars
  PROVE  [Next]_vars
<1>1. ASSUME NEW r \in IntrRequests, call_INTR(r) \/ start_INTR(r) \/ call_cancel_INTR(r)
      PROVE  Next
  BY <1>1 DEF call_INTR, start_INTR, call_cancel_INTR, Next, Requests
<1>2. CASE worker_init \/ worker_init_event
  BY <1>2 DEF worker_init, worker_init_event, Next
<1>3. CASE worker_intr_complete_event
  <2>1. worker.level \in Levels \ {PRIORITY_LEVEL_INDEX_NPR}
    BY <1>3 DEF worker_intr_complete_event, WorkerOK, WorkerInStep, IntrLevels
  <2> QED
    BY <1>3, <2>1 DEF worker_intr_complete_event, Next
<1>4. CASE worker_intr \/ worker_intr_ack \/ worker_loop
  BY <1>4 DEF worker_intr, worker_intr_ack, worker_loop
<1>5. CASE bus_INIT \/ init_clears_requests \/ intr_bus_free \/ sm_intr_master_state_2
           \/ \E level \in IntrLevels : intr_granted(level)
  BY <1>5 DEF bus_INIT, init_clears_requests, intr_bus_free, sm_intr_master_state_2,
     intr_granted
<1>6. CASE UNCHANGED all_vars
  BY <1>6 DEF all_vars
<1> QED
  BY <1>1, <1>2, <1>3, <1>4, <1>5, <1>6 DEF IntrNext, worker_step

(* The INIT events: worker() acknowledges one that it has found.             *)
InitOK == init_event \in 0 .. (EventModulus - 1) /\ InitInStep

LEMMA InitStep ==
  ASSUME worker \in WorkerState, InitOK, [IntrNext]_all_vars
  PROVE  InitOK'
<1> USE IntrAssumption DEF InitOK, InitInStep, WorkerState
<1>1. ASSUME UNCHANGED init_event, UNCHANGED worker PROVE InitOK'
  BY <1>1
<1>2. ASSUME NEW r \in IntrRequests, call_INTR(r) \/ start_INTR(r) \/ call_cancel_INTR(r)
      PROVE  InitOK'
  BY <1>1, <1>2 DEF call_INTR, start_INTR, call_cancel_INTR, intr_vars
<1>3. CASE worker_init
  <2>1. CASE init_event > 0 /\ line_INIT # INIT_line
    <3>1. /\ worker' = [worker EXCEPT !.pc = IF line_INIT THEN "init_event" ELSE "intr",
                                      !.init_raising_edge = ~line_INIT]
          /\ UNCHANGED init_event
      BY <1>3, <2>1 DEF worker_init
    <3>2. worker'.pc \in {"init_event", "intr"} /\ (worker'.init_raising_edge => worker'.pc = "intr")
      BY <3>1
    <3> QED
      BY <2>1, <3>1, <3>2
  <2>2. CASE ~(init_event > 0 /\ line_INIT # INIT_line)
    <3>1. /\ worker.pc = "init" /\ worker' = [worker EXCEPT !.pc = "intr"]
          /\ init_event' = IF init_event > 0 THEN init_event - 1 ELSE 0
      BY <1>3, <2>2 DEF worker_init
    <3>2. worker'.pc = "intr" /\ ~worker'.init_raising_edge
      BY <3>1
    <3> QED
      BY <3>1, <3>2
  <2> QED
    BY <2>1, <2>2
<1>4. CASE worker_init_event
  <2>1. /\ init_event' = init_event - 1 /\ init_event > 0
        /\ worker' = IF worker.pc = "init_raised" THEN Start ELSE [worker EXCEPT !.pc = "intr"]
        /\ worker.pc = "init_event" \/ worker.pc = "init_raised"
    BY <1>4 DEF worker_init_event
  <2>2. ~worker'.init_raising_edge
    BY <2>1 DEF Start
  <2>3. worker'.pc # "init_event"
    BY <2>1 DEF Start
  <2> QED
    BY <2>1, <2>2, <2>3
<1>5. CASE worker_intr
  BY <1>5 DEF worker_intr
<1>6. CASE worker_intr_complete_event \/ worker_intr_ack
  BY <1>6 DEF worker_intr_complete_event, worker_intr_ack
<1>7. CASE worker_loop
  BY <1>7 DEF worker_loop, Start
<1>8. CASE bus_INIT
  BY <1>8 DEF bus_INIT
<1>9. CASE \/ init_clears_requests \/ intr_bus_free \/ sm_intr_master_state_2
           \/ \E level \in IntrLevels : intr_granted(level)
           \/ UNCHANGED all_vars
  BY <1>1, <1>9 DEF init_clears_requests, intr_bus_free, sm_intr_master_state_2, intr_granted,
     all_vars, intr_vars
<1> QED
  BY <1>2, <1>3, <1>4, <1>5, <1>6, <1>7, <1>8, <1>9 DEF IntrNext, worker_step

LEMMA InitWorkerOK == IntrInit => WorkerOK
BY IntrLevelFacts DEF IntrInit, WorkerOK, WorkerInStep, WorkerState, Start

LEMMA WorkerInvariance == IntrSpec => [](WorkerOK /\ InitOK)
<1>1. WorkerOK /\ InitOK /\ [IntrNext]_all_vars => (WorkerOK /\ InitOK)'
  BY WorkerStep, InitStep DEF WorkerOK
<1>2. IntrInit => WorkerOK /\ InitOK
  BY InitWorkerOK, IntrAssumption DEF IntrInit, InitOK, InitInStep, Start
<1> QED
  BY <1>1, <1>2, PTL DEF IntrSpec

(* Whatever moment the PRU chooses for its events, ARM takes steps of         *)
(* RequestScheduler only: its tables are consistent here as well.             *)
LEMMA TablesHere ==
  ASSUME DistinctSlots
  PROVE  IntrSpec => []IndInv
<1>1. IntrInit => Init
  BY DEF IntrInit
<1>2. WorkerOK /\ [IntrNext]_all_vars => [Next]_vars
  BY StepImplements
<1>3. IntrSpec => Spec
  BY <1>1, <1>2, WorkerInvariance, PTL DEF IntrSpec, Spec
<1> QED
  BY <1>3, Invariance, PTL

-----------------------------------------------------------------------------
(* What a consistent level says, for a level of interrupts. *)
LEMMA IntrInTable ==
  ASSUME NEW level \in IntrLevels, NEW prl \in PriorityRequestLevel,
         LevelConsistent(level, prl)
  PROVE  /\ prl.active \in IntrRequests \cup {NULL}
         /\ prl.active # NULL => prl.active \in Scheduled(prl)
         /\ prl.active = NULL => Scheduled(prl) = {}
         /\ \A r \in Scheduled(prl) : r \in IntrRequests /\ r # NULL /\ level_index[r] = level
<1>1. level \in Levels /\ level # PRIORITY_LEVEL_INDEX_NPR
  BY IntrLevelFacts
<1>2. /\ Scheduled(prl) \subseteq Requests
      /\ NULL \notin Scheduled(prl)
      /\ \A r \in Scheduled(prl) : level_index[r] = level
      /\ prl.active # NULL => prl.active \in Scheduled(prl)
      /\ prl.active = NULL => Scheduled(prl) = {}
  BY <1>1, InTable
<1>3. \A r \in Scheduled(prl) : r \in IntrRequests
  BY <1>1, <1>2, RequestAssumption DEF Requests
<1> QED
  BY <1>2, <1>3

LEMMA IntrLevelHere ==
  ASSUME IndInv, NEW level \in IntrLevels
  PROVE  /\ request_levels[level] \in PriorityRequestLevel
         /\ LevelConsistent(level, request_levels[level])
BY IntrLevelFacts DEF IndInv, TypeOK, TablesConsistent

LEMMA IntrLevelThere ==
  ASSUME IndInv', NEW level \in IntrLevels
  PROVE  /\ request_levels'[level] \in PriorityRequestLevel
         /\ LevelConsistent(level, request_levels'[level])
BY IntrLevelFacts DEF IndInv, TypeOK, TablesConsistent, LevelConsistent

(* What request_execute_active_on_PRU() does to mailbox and PRU. *)
LEMMA ExecuteEffect ==
  ASSUME IntrTypeOK, IndInv', NEW level \in IntrLevels, NEW start \in BOOLEAN,
         NEW cancel \in BOOLEAN, Execute(level, start, cancel)
  PROVE  LET next == request_levels'[level].active
         IN  /\ vector' \in [IntrLevels -> IntrRequests \cup {NULL}]
             /\ pru' \in PruState
             /\ pru'.grant_bbsy_ssyn_wait = pru.grant_bbsy_ssyn_wait
             /\ pru'.level_index = pru.level_index
             /\ pru'.vector = pru.vector
             /\ \A l \in IntrLevels : l # level =>
                   /\ vector'[l] = vector[l]
                   /\ l \in pru'.device_request_mask <=> l \in pru.device_request_mask
             /\ start /\ next # NULL =>
                   vector'[level] = next /\ level \in pru'.device_request_mask
             /\ ~(start /\ next # NULL) =>
                   /\ vector'[level] = vector[level]
                   /\ level \in pru'.device_request_mask <=>
                         level \in pru.device_request_mask /\ ~cancel
<1> DEFINE next == request_levels'[level].active
           raised == pru.device_request_mask \ (IF cancel THEN {level} ELSE {})
<1>1. next \in IntrRequests \cup {NULL}
  BY IntrLevelThere, IntrInTable
<1>2. /\ pru \in PruState
      /\ vector \in [IntrLevels -> IntrRequests \cup {NULL}]
  BY DEF IntrTypeOK
<1>3. CASE start /\ next # NULL
  <2>1. /\ vector' = [vector EXCEPT ![level] = next]
        /\ pru' = [pru EXCEPT !.device_request_mask = raised \cup {level}]
    BY <1>3 DEF Execute
  <2> QED
    BY <1>1, <1>2, <1>3, <2>1 DEF PruState
<1>4. CASE ~(start /\ next # NULL)
  <2>1. /\ vector' = vector
        /\ pru' = [pru EXCEPT !.device_request_mask = raised]
    BY <1>4 DEF Execute
  <2> QED
    BY <1>2, <1>4, <2>1 DEF PruState
<1> QED
  BY <1>3, <1>4

LEMMA IntrTypeStep ==
  ASSUME IndInv', IntrTypeOK, WorkerOK, WorkerOK', InitOK', [IntrNext]_all_vars
  PROVE  IntrTypeOK'
<1> USE DEF IntrTypeOK
<1>1. /\ worker' \in WorkerState /\ intr_event' \in [IntrLevels -> 0 .. 1]
      /\ init_event' \in 0 .. (EventModulus - 1)
  BY DEF WorkerOK, InitOK
<1>2. ASSUME NEW r \in IntrRequests, call_INTR(r) PROVE IntrTypeOK'
  BY <1>1, <1>2 DEF call_INTR, intr_vars
<1>3. ASSUME NEW r \in IntrRequests, start_INTR(r) PROVE IntrTypeOK'
  <2>1. level_index[r] \in IntrLevels
    BY IntrLevelFacts
  <2>2. /\ register_value' = [register_value EXCEPT ![r] = TRUE]
        /\ UNCHANGED <<intr_event, INIT_line, init_event, worker, transferred, late, missed>>
        /\ \/ UNCHANGED <<vector, pru, owed>>
           \/ /\ Execute(level_index[r], request_levels[level_index[r]].active = NULL, FALSE)
              /\ owed' = owed \cup {r}
    BY <1>3 DEF start_INTR
  <2>3. vector' \in [IntrLevels -> IntrRequests \cup {NULL}] /\ pru' \in PruState
    BY <2>1, <2>2, ExecuteEffect
  <2> QED
    BY <1>1, <2>2, <2>3
<1>4. ASSUME NEW r \in IntrRequests, call_cancel_INTR(r) PROVE IntrTypeOK'
  <2> DEFINE active == request_levels[level_index[r]].active = r
  <2>1. level_index[r] \in IntrLevels /\ active \in BOOLEAN
    BY IntrLevelFacts
  <2>2. Execute(level_index[r], active, active)
    BY <1>4 DEF call_cancel_INTR
  <2>3. vector' \in [IntrLevels -> IntrRequests \cup {NULL}] /\ pru' \in PruState
    BY <2>1, <2>2, ExecuteEffect
  <2>4. late' \in BOOLEAN
    BY <1>4 DEF call_cancel_INTR, Granted, Pending
  <2> QED
    BY <1>1, <1>4, <2>3, <2>4 DEF call_cancel_INTR
<1>5. CASE worker_init
  <2>1. missed' \in BOOLEAN
    BY <1>5 DEF worker_init
  <2> QED
    BY <1>1, <1>5, <2>1 DEF worker_init
<1>6. CASE worker_init_event
  <2>1. late' \in BOOLEAN
    BY <1>6 DEF worker_init_event
  <2> QED
    BY <1>1, <1>6, <2>1 DEF worker_init_event
<1>7. CASE worker_intr \/ worker_intr_ack \/ worker_loop
  BY <1>1, <1>7 DEF worker_intr, worker_intr_ack, worker_loop
<1>8. CASE worker_intr_complete_event
  <2>1. worker.level \in IntrLevels /\ Execute(worker.level, TRUE, FALSE)
    BY <1>8 DEF worker_intr_complete_event, WorkerOK, WorkerInStep
  <2>2. vector' \in [IntrLevels -> IntrRequests \cup {NULL}] /\ pru' \in PruState
    BY <2>1, ExecuteEffect
  <2> QED
    BY <1>1, <1>8, <2>2 DEF worker_intr_complete_event
<1>9. CASE bus_INIT \/ init_clears_requests
  <2>1. pru' \in PruState
    BY <1>9 DEF bus_INIT, init_clears_requests, PruState
  <2> QED
    BY <1>1, <1>9, <2>1 DEF bus_INIT, init_clears_requests
<1>10. CASE \E level \in IntrLevels : intr_granted(level)
  <2>1. pru' \in PruState
    BY <1>10 DEF intr_granted, PruState
  <2> QED
    BY <1>1, <1>10, <2>1 DEF intr_granted
<1>11. CASE intr_bus_free
  <2>1. pru' \in PruState
    <3>1. pru.grant_bbsy_ssyn_wait \in IntrLevels
      BY <1>11 DEF intr_bus_free, PruState
    <3> QED
      BY <1>11, <3>1 DEF intr_bus_free, PruState
  <2> QED
    BY <1>1, <1>11, <2>1 DEF intr_bus_free
<1>12. CASE sm_intr_master_state_2
  <2>1. pru' \in PruState
    BY <1>12 DEF sm_intr_master_state_2, PruState
  <2>2. transferred' \in [IntrLevels -> IntrRequests \cup {NULL}]
    BY <1>12 DEF sm_intr_master_state_2, PruState
  <2> QED
    BY <1>1, <1>12, <2>1, <2>2 DEF sm_intr_master_state_2
<1>13. CASE UNCHANGED all_vars
  BY <1>13 DEF all_vars, intr_vars
<1> QED
  BY <1>2, <1>3, <1>4, <1>5, <1>6, <1>7, <1>8, <1>9, <1>10, <1>11, <1>12, <1>13
  DEF IntrNext, worker_step

-----------------------------------------------------------------------------
LevelSafe(level) == LevelInStep(level) /\ OwedOfLevel(level)

AllLevelsSafe == \A level \in IntrLevels : LevelSafe(level)

(* A level of which a step changes nothing; its request may be withdrawn. *)
LEMMA LevelKept ==
  ASSUME NEW level \in IntrLevels, LevelSafe(level),
         request_levels'[level] = request_levels[level],
         vector'[level] = vector[level],
         transferred'[level] = transferred[level],
         level \in pru'.device_request_mask => level \in pru.device_request_mask,
         pru'.grant_bbsy_ssyn_wait = level <=> pru.grant_bbsy_ssyn_wait = level,
         pru'.level_index = level <=> pru.level_index = level,
         pru.level_index = level => pru'.vector = pru.vector,
         Pending(level)' <=> Pending(level),
         \A r \in IntrRequests : level_index[r] = level => (r \in owed' <=> r \in owed)
  PROVE  LevelSafe(level)'
<1>1. LevelInStep(level)'
  BY DEF LevelSafe, LevelInStep, Granted
<1>2. OwedOfLevel(level)'
  BY DEF LevelSafe, OwedOfLevel
<1> QED
  BY <1>1, <1>2 DEF LevelSafe

(* worker() may go on, as long as no event becomes acknowledged by it. *)
LEMMA WorkerElsewhere ==
  ASSUME NEW level \in IntrLevels, intr_event'[level] = intr_event[level],
         worker.pc = "intr_ack" => worker' = worker,
         worker'.pc = "intr_ack" => worker' = worker
  PROVE  Pending(level)' <=> Pending(level)
BY DEF Pending

(* INTR(): the request is owed from now on, and given to the PRU if that has *)
(* none of the level.                                                        *)
LEMMA StartSafe ==
  ASSUME IndInv, IndInv', IntrTypeOK, AllLevelsSafe, NEW r \in IntrRequests, start_INTR(r)
  PROVE  AllLevelsSafe'
<1> DEFINE level == level_index[r]
           prl == request_levels[level]
           p == ScheduleAndStart(prl, r)
<1>1. /\ level \in IntrLevels /\ level \in Levels /\ r \in Requests /\ r # NULL
      /\ prl \in PriorityRequestLevel
      /\ LevelConsistent(level, prl)
      /\ LevelSafe(level)
  BY IntrLevelFacts, IntrLevelHere DEF AllLevelsSafe
<1>2. /\ INTR(r)
      /\ UNCHANGED <<intr_event, worker, transferred>>
  BY DEF start_INTR
<1>3. \A l \in IntrLevels : Pending(l)' <=> Pending(l)
  BY <1>2, WorkerElsewhere
<1>4. CASE Occupied(prl, r)
  <2>1. UNCHANGED <<request_levels, vector, pru, owed>>
    BY <1>4, <1>2 DEF start_INTR, INTR
  <2>2. ASSUME NEW l \in IntrLevels PROVE LevelSafe(l)'
    BY <1>2, <1>3, <2>1, LevelKept DEF AllLevelsSafe
  <2> QED
    BY <2>2 DEF AllLevelsSafe
<1>5. CASE ~Occupied(prl, r)
  <2>1. /\ request_levels' = [request_levels EXCEPT ![level] = p]
        /\ Execute(level, prl.active = NULL, FALSE)
        /\ owed' = owed \cup {r}
    BY <1>5 DEF start_INTR, INTR
  <2>2. /\ request_levels'[level] = p
        /\ \A l \in IntrLevels : l # level => request_levels'[l] = request_levels[l]
    BY <1>1, <2>1, IntrLevelFacts DEF IndInv, TypeOK
  <2>3. /\ Scheduled(p) = Scheduled(prl) \cup {r}
        /\ prl.active = NULL => p.active = r
        /\ prl.active # NULL => p.active = prl.active
    BY <1>1, <1>5, ScheduleLevel
  <2>4. /\ prl.active # NULL => prl.active \in Scheduled(prl)
        /\ r \notin Scheduled(prl)
    <3>1. \A q \in Scheduled(prl) : prl.slot_request[priority_slot[q]] = q
      BY <1>1, InTable
    <3>2. r \notin Scheduled(prl)
      BY <1>1, <1>5, <3>1 DEF Occupied
    <3> QED
      BY <1>1, <3>2, IntrInTable
  <2> HIDE DEF p, prl, level
  <2>5. /\ pru'.grant_bbsy_ssyn_wait = pru.grant_bbsy_ssyn_wait
        /\ pru'.level_index = pru.level_index
        /\ pru'.vector = pru.vector
        /\ \A l \in IntrLevels : l # level =>
              /\ vector'[l] = vector[l]
              /\ l \in pru'.device_request_mask <=> l \in pru.device_request_mask
        /\ prl.active = NULL => vector'[level] = r /\ level \in pru'.device_request_mask
        /\ prl.active # NULL =>
              /\ vector'[level] = vector[level]
              /\ level \in pru'.device_request_mask <=> level \in pru.device_request_mask
    BY <1>1, <2>1, <2>2, <2>3, ExecuteEffect
  <2>6. LevelSafe(level)'
    <3>1. LevelInStep(level)'
      <4>1. LevelInStep(level)
        BY <1>1 DEF LevelSafe
      <4>2. CASE prl.active = NULL
        BY <1>1, <1>2, <1>3, <2>2, <2>3, <2>5, <4>1, <4>2
        DEF LevelInStep, Granted, prl
      <4>3. CASE prl.active # NULL
        BY <1>1, <1>3, <2>2, <2>3, <2>5, <4>1, <4>3, <1>2
        DEF LevelInStep, Granted, prl
      <4> QED
        BY <4>2, <4>3
    <3>2. OwedOfLevel(level)'
      <4>1. OwedOfLevel(level)
        BY <1>1 DEF LevelSafe
      <4>2. Pending(level) => prl.active # NULL
        BY <1>1 DEF LevelSafe, LevelInStep, Granted, prl
      <4>3. r \in owed' /\ r \in Scheduled(p)
        BY <2>1, <2>3
      <4>4. ~(Pending(level) /\ p.active = r)
        BY <2>3, <2>4, <4>2
      <4>5. \A q \in IntrRequests : q # r =>
               /\ q \in owed' <=> q \in owed
               /\ q \in Scheduled(p) <=> q \in Scheduled(prl)
               /\ Pending(level) => (p.active = q <=> prl.active = q)
        BY <2>1, <2>3, <4>2
      <4> QED
        BY <1>1, <1>3, <2>2, <4>1, <4>3, <4>4, <4>5 DEF OwedOfLevel, prl
    <3> QED
      BY <3>1, <3>2 DEF LevelSafe
  <2>7. ASSUME NEW l \in IntrLevels, l # level PROVE LevelSafe(l)'
    <3>1. \A q \in IntrRequests : level_index[q] = l => (q \in owed' <=> q \in owed)
      BY <2>1, <2>7 DEF level
    <3> QED
      BY <1>2, <1>3, <2>2, <2>5, <2>7, <3>1, LevelKept DEF AllLevelsSafe
  <2> QED
    BY <2>6, <2>7 DEF AllLevelsSafe
<1> QED
  BY <1>4, <1>5

(* The active request of a level has ended, in time: the PRU goes on with    *)
(* the next one of the level.                                                *)
LEMMA NextOfLevel ==
  ASSUME IndInv, IndInv', IntrTypeOK, AllLevelsSafe, NEW level \in IntrLevels,
         NEW r \in IntrRequests, request_levels[level].active = r,
         request_levels' = [request_levels EXCEPT ![level] = NextRequest(request_levels[level])],
         NEW cancel \in BOOLEAN, Execute(level, TRUE, cancel),
         pru.grant_bbsy_ssyn_wait # level, pru.level_index # level,
         cancel \/ level \notin pru.device_request_mask,
         ~Pending(level)',
         \A l \in IntrLevels : l # level => (Pending(l)' <=> Pending(l)),
         level_index[r] = level, owed' = owed \ {r}, UNCHANGED transferred
  PROVE  AllLevelsSafe'
<1> DEFINE prl == request_levels[level]
           p == NextRequest(prl)
<1>1. /\ level \in Levels
      /\ prl \in PriorityRequestLevel
      /\ LevelConsistent(level, prl)
      /\ LevelSafe(level)
  BY IntrLevelFacts, IntrLevelHere DEF AllLevelsSafe
<1>2. /\ request_levels'[level] = p
      /\ \A l \in IntrLevels : l # level => request_levels'[l] = request_levels[l]
  BY <1>1, IntrLevelFacts DEF IndInv, TypeOK
<1>3. Scheduled(p) = Scheduled(prl) \ {r}
  BY <1>1, NextRequestLevel
<1> HIDE DEF p
<1>4. /\ pru'.grant_bbsy_ssyn_wait = pru.grant_bbsy_ssyn_wait
      /\ pru'.level_index = pru.level_index
      /\ pru'.vector = pru.vector
      /\ \A l \in IntrLevels : l # level =>
            /\ vector'[l] = vector[l]
            /\ l \in pru'.device_request_mask <=> l \in pru.device_request_mask
      /\ p.active # NULL => vector'[level] = p.active
      /\ p.active = NULL => level \notin pru'.device_request_mask
  BY <1>2, ExecuteEffect
<1>5. LevelInStep(level)'
  BY <1>2, <1>4 DEF LevelInStep, Granted
<1>6. OwedOfLevel(level)'
  <2>1. \A q \in IntrRequests : level_index[q] = level /\ q # r =>
           (q \in owed <=> q \in Scheduled(prl))
    BY <1>1 DEF LevelSafe, OwedOfLevel
  <2> QED
    BY <1>2, <1>3, <2>1 DEF OwedOfLevel
<1>7. ASSUME NEW l \in IntrLevels, l # level PROVE LevelSafe(l)'
  <2>1. \A q \in IntrRequests : level_index[q] = l => (q \in owed' <=> q \in owed)
    BY <1>7
  <2> QED
    BY <1>2, <1>4, <1>7, <2>1, LevelKept DEF AllLevelsSafe
<1> QED
  BY <1>5, <1>6, <1>7 DEF AllLevelsSafe, LevelSafe

(* cancel_INTR() in time: the PRU does not have the grant for the request.   *)
LEMMA CancelSafe ==
  ASSUME DistinctSlots, IndInv, IndInv', IntrTypeOK, AllLevelsSafe, NEW r \in IntrRequests,
         call_cancel_INTR(r), ~late'
  PROVE  AllLevelsSafe'
<1> DEFINE level == level_index[r]
           prl == request_levels[level]
           active == prl.active = r
<1>1. /\ level \in IntrLevels /\ level \in Levels /\ r \in Requests /\ r # NULL
      /\ prl \in PriorityRequestLevel
      /\ LevelConsistent(level, prl)
      /\ LevelSafe(level)
  BY IntrLevelFacts, IntrLevelHere DEF AllLevelsSafe
<1>2. /\ cancel_INTR(r)
      /\ Execute(level, active, active)
      /\ active => ~Granted(level)
      /\ owed' = owed \ {r}
      /\ UNCHANGED <<intr_event, worker, transferred>>
  BY DEF call_cancel_INTR
<1>3. \A l \in IntrLevels : Pending(l)' <=> Pending(l)
  BY <1>2, WorkerElsewhere
<1>4. CASE active
  <2>1. request_levels' = [request_levels EXCEPT ![level] = NextRequest(prl)]
    BY <1>2, <1>4 DEF cancel_INTR
  <2>2. /\ pru.grant_bbsy_ssyn_wait # level
        /\ pru.level_index # level
        /\ ~Pending(level)
    BY <1>2, <1>4 DEF Granted
  <2>3. Execute(level, TRUE, TRUE)
    BY <1>2, <1>4
  <2> QED
    BY <1>1, <1>2, <1>3, <1>4, <2>1, <2>2, <2>3, NextOfLevel
<1>5. CASE ~active
  <2> DEFINE p == RemoveSlot(prl, priority_slot[r])
  <2>1. Occupied(prl, r) /\ request_levels' = [request_levels EXCEPT ![level] = p]
    BY <1>2, <1>5 DEF cancel_INTR
  <2>2. prl.slot_request[priority_slot[r]] = r
    BY <1>1, <2>1, OccupiedByOwner
  <2>3. p.active = prl.active /\ Scheduled(p) = Scheduled(prl) \ {r}
    BY <1>1, <1>5, <2>2, RemoveLevel
  <2> HIDE DEF p
  <2>4. /\ request_levels'[level] = p
        /\ \A l \in IntrLevels : l # level => request_levels'[l] = request_levels[l]
    BY <1>1, <2>1, IntrLevelFacts DEF IndInv, TypeOK
  <2>5. /\ pru'.grant_bbsy_ssyn_wait = pru.grant_bbsy_ssyn_wait
        /\ pru'.level_index = pru.level_index
        /\ pru'.vector = pru.vector
        /\ \A l \in IntrLevels :
              /\ vector'[l] = vector[l]
              /\ l \in pru'.device_request_mask <=> l \in pru.device_request_mask
    <3>1. Execute(level, FALSE, FALSE)
      BY <1>2, <1>5
    <3> QED
      BY <1>1, <3>1, ExecuteEffect
  <2>6. LevelInStep(level)'
    BY <1>1, <1>2, <1>3, <2>3, <2>4, <2>5 DEF LevelSafe, LevelInStep, Granted
  <2>7. OwedOfLevel(level)'
    <3>1. OwedOfLevel(level)
      BY <1>1 DEF LevelSafe
    <3> QED
      BY <1>1, <1>2, <1>3, <2>3, <2>4, <3>1 DEF OwedOfLevel
  <2>8. ASSUME NEW l \in IntrLevels, l # level PROVE LevelSafe(l)'
    <3>1. \A q \in IntrRequests : level_index[q] = l => (q \in owed' <=> q \in owed)
      BY <1>2, <2>8
    <3> QED
      BY <1>2, <1>3, <2>4, <2>5, <2>8, <3>1, LevelKept DEF AllLevelsSafe
  <2> QED
    BY <2>6, <2>7, <2>8 DEF AllLevelsSafe, LevelSafe
<1> QED
  BY <1>4, <1>5

(* INIT in time: the PRU has nothing, so the tables may be emptied. *)
LEMMA ResetSafe ==
  ASSUME WorkerOK, AllLevelsSafe, worker_init_event, ~late'
  PROVE  AllLevelsSafe'
<1>1. SUFFICES ASSUME NEW level \in IntrLevels PROVE LevelSafe(level)'
  BY DEF AllLevelsSafe
<1>2. /\ pru.device_request_mask = {}
      /\ ~Granted(level)
      /\ owed' = {}
      /\ UNCHANGED <<vector, intr_event, pru, transferred>>
      /\ worker.pc # "intr_ack" /\ worker'.pc # "intr_ack"
  BY DEF worker_init_event, Start, WorkerOK, WorkerState
<1>3. request_levels'[level].active = NULL /\ Scheduled(request_levels'[level]) = {}
  BY IntrLevelFacts, EmptyLevelConsistent DEF worker_init_event, clear_tables, EmptyLevel
<1>4. Pending(level)' <=> Pending(level)
  BY <1>2, WorkerElsewhere
<1>5. LevelInStep(level)'
  BY <1>2, <1>3, <1>4 DEF LevelInStep, Granted
<1>6. OwedOfLevel(level)'
  BY <1>2, <1>3 DEF OwedOfLevel
<1> QED
  BY <1>5, <1>6 DEF LevelSafe

(* worker_intr_complete_event() completes the request whose vector was       *)
(* transferred.                                                              *)
LEMMA EventForActive ==
  ASSUME WorkerOK, AllLevelsSafe, worker_intr_complete_event
  PROVE  /\ worker.level \in IntrLevels
         /\ Pending(worker.level)
         /\ request_levels[worker.level].active # NULL
         /\ request_levels[worker.level].active = transferred[worker.level]
<1>1. worker.level \in IntrLevels /\ Pending(worker.level)
  BY DEF WorkerOK, WorkerInStep, worker_intr_complete_event, Pending
<1> QED
  BY <1>1 DEF AllLevelsSafe, LevelSafe, LevelInStep, Granted

LEMMA CompleteSafe ==
  ASSUME IndInv, IndInv', IntrTypeOK, WorkerOK, AllLevelsSafe, worker_intr_complete_event
  PROVE  AllLevelsSafe'
<1>1. PICK level \in IntrLevels : level = worker.level
  BY EventForActive
<1>2. /\ Pending(level)
      /\ request_levels[level].active # NULL
      /\ LevelSafe(level)
  BY <1>1, EventForActive DEF AllLevelsSafe
<1>3. PICK r \in IntrRequests : r = request_levels[level].active /\ level_index[r] = level
  BY <1>2, IntrLevelHere, IntrInTable
<1>4. /\ request_levels' = [request_levels EXCEPT ![level] = NextRequest(request_levels[level])]
      /\ Execute(level, TRUE, FALSE)
      /\ worker.pc = "intr_event"
      /\ worker' = [worker EXCEPT !.pc = "intr_ack"]
      /\ UNCHANGED <<intr_event, owed, transferred>>
  BY <1>1 DEF worker_intr_complete_event, worker_intr_event
<1>5. worker'.pc = "intr_ack" /\ worker'.level = level
  BY <1>1, <1>4 DEF WorkerOK, WorkerState
<1>6. ~Pending(level)' /\ \A l \in IntrLevels : l # level => (Pending(l)' <=> Pending(l))
  BY <1>4, <1>5 DEF Pending
<1>7. r \notin owed
  BY <1>2, <1>3 DEF LevelSafe, OwedOfLevel
<1>8. owed' = owed \ {r}
  BY <1>4, <1>7
<1>9. /\ pru.grant_bbsy_ssyn_wait # level
      /\ pru.level_index # level
      /\ level \notin pru.device_request_mask
  BY <1>2 DEF LevelSafe, LevelInStep, Granted
<1> QED
  BY <1>3, <1>4, <1>6, <1>8, <1>9, NextOfLevel

(* worker() acknowledges the event it has handled. *)
LEMMA AckSafe ==
  ASSUME WorkerOK, AllLevelsSafe, worker_intr_ack
  PROVE  AllLevelsSafe'
<1>1. SUFFICES ASSUME NEW level \in IntrLevels PROVE LevelSafe(level)'
  BY DEF AllLevelsSafe
<1>2. /\ worker.pc = "intr_ack"
      /\ worker'.pc = "intr"
      /\ worker.level \in IntrLevels
      /\ intr_event[worker.level] = 1
      /\ intr_event' = [intr_event EXCEPT ![worker.level] = @ - 1]
      /\ UNCHANGED <<request_levels, vector, pru, owed, transferred>>
  BY DEF worker_intr_ack, WorkerOK, WorkerInStep, WorkerState, vars
<1>3. Pending(level)' <=> Pending(level)
  <2>1. CASE level = worker.level
    <3>1. intr_event'[level] = 0
      BY <1>2, <2>1 DEF WorkerOK
    <3> QED
      BY <1>2, <2>1, <3>1 DEF Pending
  <2>2. CASE level # worker.level
    <3>1. intr_event'[level] = intr_event[level]
      BY <1>2, <2>2 DEF WorkerOK
    <3> QED
      BY <1>2, <2>2, <3>1 DEF Pending
  <2> QED
    BY <2>1, <2>2
<1> QED
  BY <1>2, <1>3, LevelKept DEF AllLevelsSafe

(* The steps of the PRU for the request it has of a level.                   *)
LEMMA GrantSafe ==
  ASSUME IntrTypeOK, AllLevelsSafe, NEW granted \in IntrLevels, intr_granted(granted)
  PROVE  AllLevelsSafe'
<1>1. SUFFICES ASSUME NEW level \in IntrLevels PROVE LevelSafe(level)'
  BY DEF AllLevelsSafe
<1>2. /\ granted \in pru.device_request_mask
      /\ pru.grant_bbsy_ssyn_wait = NULL
      /\ UNCHANGED <<request_levels, vector, intr_event, worker, owed, transferred>>
  BY DEF intr_granted, vars
<1>3. /\ pru'.device_request_mask = pru.device_request_mask \ {granted}
      /\ pru'.grant_bbsy_ssyn_wait = granted
      /\ pru'.level_index = pru.level_index
      /\ pru'.vector = pru.vector
  BY DEF intr_granted, IntrTypeOK, PruState
<1>4. Pending(level)' <=> Pending(level)
  BY <1>2, WorkerElsewhere
<1>5. LevelSafe(level)
  BY DEF AllLevelsSafe
<1>6. CASE level # granted
  BY <1>2, <1>3, <1>4, <1>5, <1>6, LevelKept, IntrLevelFacts
<1>7. CASE level = granted
  <2>1. LevelInStep(level)'
    BY <1>2, <1>3, <1>4, <1>5, <1>7 DEF LevelSafe, LevelInStep, Granted
  <2>2. OwedOfLevel(level)'
    BY <1>2, <1>4, <1>5 DEF LevelSafe, OwedOfLevel
  <2> QED
    BY <2>1, <2>2 DEF LevelSafe
<1> QED
  BY <1>6, <1>7

LEMMA BusFreeSafe ==
  ASSUME IntrTypeOK, OneGrant, AllLevelsSafe, intr_bus_free
  PROVE  AllLevelsSafe'
<1>1. SUFFICES ASSUME NEW level \in IntrLevels PROVE LevelSafe(level)'
  BY DEF AllLevelsSafe
<1>2. PICK granted \in IntrLevels : granted = pru.grant_bbsy_ssyn_wait
  BY DEF intr_bus_free, IntrTypeOK, PruState
<1>3. /\ pru.level_index = NULL
      /\ UNCHANGED <<request_levels, vector, intr_event, worker, owed, transferred>>
  BY DEF intr_bus_free, vars, OneGrant
<1>4. /\ pru'.device_request_mask = pru.device_request_mask
      /\ pru'.grant_bbsy_ssyn_wait = NULL
      /\ pru'.level_index = granted
      /\ pru'.vector = vector[granted]
  BY <1>2 DEF intr_bus_free, IntrTypeOK, PruState
<1>5. Pending(level)' <=> Pending(level)
  BY <1>3, WorkerElsewhere
<1>6. LevelSafe(level)
  BY DEF AllLevelsSafe
<1>7. CASE level # granted
  BY <1>2, <1>3, <1>4, <1>5, <1>6, <1>7, LevelKept, IntrLevelFacts
<1>8. CASE level = granted
  <2>1. LevelInStep(level)'
    BY <1>2, <1>3, <1>4, <1>5, <1>6, <1>8 DEF LevelSafe, LevelInStep, Granted
  <2>2. OwedOfLevel(level)'
    BY <1>3, <1>5, <1>6 DEF LevelSafe, OwedOfLevel
  <2> QED
    BY <2>1, <2>2 DEF LevelSafe
<1> QED
  BY <1>7, <1>8

(* The vector transferred is that of the active request, which is owed. *)
LEMMA TransferOfActive ==
  ASSUME IndInv, IntrTypeOK, OneGrant, AllLevelsSafe, sm_intr_master_state_2
  PROVE  /\ pru.level_index \in IntrLevels
         /\ pru.vector = request_levels[pru.level_index].active
         /\ pru.vector \in owed
         /\ level_index[pru.vector] = pru.level_index
<1> DEFINE level == pru.level_index
           active == request_levels[level].active
<1>1. level \in IntrLevels /\ intr_event[level] = 0
  BY DEF sm_intr_master_state_2, IntrTypeOK, PruState
<1>2. LevelInStep(level) /\ OwedOfLevel(level)
  BY <1>1 DEF AllLevelsSafe, LevelSafe
<1>3. active # NULL /\ pru.vector = active /\ ~Pending(level)
  BY <1>1, <1>2 DEF LevelInStep, Granted, Pending
<1>4. active \in IntrRequests /\ level_index[active] = level
      /\ active \in Scheduled(request_levels[level])
  BY <1>1, <1>3, IntrLevelHere, IntrInTable
<1> QED
  BY <1>1, <1>2, <1>3, <1>4 DEF OwedOfLevel

LEMMA TransferSafe ==
  ASSUME IndInv, IntrTypeOK, WorkerOK, OneGrant, AllLevelsSafe, sm_intr_master_state_2
  PROVE  AllLevelsSafe'
<1>1. SUFFICES ASSUME NEW level \in IntrLevels PROVE LevelSafe(level)'
  BY DEF AllLevelsSafe
<1>2. PICK done \in IntrLevels, r \in owed :
         /\ done = pru.level_index
         /\ r = pru.vector
         /\ r = request_levels[done].active
         /\ level_index[r] = done
  BY TransferOfActive
<1>3. /\ intr_event[done] = 0
      /\ intr_event' = [intr_event EXCEPT ![done] = @ + 1]
      /\ transferred' = [transferred EXCEPT ![done] = r]
      /\ owed' = owed \ {r}
      /\ pru.grant_bbsy_ssyn_wait = NULL
      /\ UNCHANGED <<request_levels, vector, worker>>
  BY <1>2, IntrLevelFacts DEF sm_intr_master_state_2, vars, OneGrant
<1>4. /\ pru'.device_request_mask = pru.device_request_mask
      /\ pru'.grant_bbsy_ssyn_wait = pru.grant_bbsy_ssyn_wait
      /\ pru'.level_index = NULL
  BY DEF sm_intr_master_state_2, IntrTypeOK, PruState
<1>5. LevelSafe(level)
  BY DEF AllLevelsSafe
<1>6. CASE level # done
  <2>1. intr_event'[level] = intr_event[level] /\ transferred'[level] = transferred[level]
    BY <1>3, <1>6 DEF IntrTypeOK
  <2>2. Pending(level)' <=> Pending(level)
    BY <1>3, <2>1 DEF Pending
  <2>3. \A q \in IntrRequests : level_index[q] = level => (q \in owed' <=> q \in owed)
    BY <1>2, <1>3, <1>6
  <2> QED
    BY <1>2, <1>3, <1>4, <1>5, <1>6, <2>1, <2>2, <2>3, LevelKept, IntrLevelFacts
<1>7. CASE level = done
  <2>1. intr_event'[level] = 1 /\ transferred'[level] = r
    BY <1>3, <1>7 DEF IntrTypeOK
  <2>2. Pending(level)' /\ ~Pending(level)
    BY <1>3, <1>7, <2>1 DEF Pending, WorkerOK, WorkerInStep
  <2>3. r # NULL
    BY <1>2, IntrLevelFacts DEF IntrTypeOK
  <2>4. LevelInStep(level)'
    BY <1>2, <1>3, <1>4, <1>5, <1>7, <2>1, <2>2, <2>3, IntrLevelFacts
    DEF LevelSafe, LevelInStep, Granted
  <2>5. OwedOfLevel(level)'
    BY <1>2, <1>3, <1>5, <1>7, <2>2 DEF LevelSafe, OwedOfLevel
  <2> QED
    BY <2>4, <2>5 DEF LevelSafe
<1> QED
  BY <1>6, <1>7

-----------------------------------------------------------------------------
LEMMA LevelsStep ==
  ASSUME DistinctSlots, IndInv, IndInv', IntrTypeOK, WorkerOK, OneGrant, AllLevelsSafe,
         [IntrNext]_all_vars, ~late'
  PROVE  AllLevelsSafe'
<1>1. ASSUME UNCHANGED <<request_levels, vector, transferred, intr_event, owed>>,
             pru'.device_request_mask \subseteq pru.device_request_mask,
             pru'.grant_bbsy_ssyn_wait = pru.grant_bbsy_ssyn_wait,
             pru'.level_index = pru.level_index,
             pru'.vector = pru.vector,
             worker' = worker \/ (worker.pc # "intr_ack" /\ worker'.pc # "intr_ack")
      PROVE  AllLevelsSafe'
  <2>1. ASSUME NEW level \in IntrLevels PROVE LevelSafe(level)'
    <3>1. Pending(level)' <=> Pending(level)
      BY <1>1, WorkerElsewhere
    <3> QED
      BY <1>1, <3>1, LevelKept DEF AllLevelsSafe
  <2> QED
    BY <2>1 DEF AllLevelsSafe
<1>2. ASSUME NEW r \in IntrRequests, call_INTR(r) PROVE AllLevelsSafe'
  BY <1>1, <1>2 DEF call_INTR, Enter, intr_vars
<1>3. ASSUME NEW r \in IntrRequests, start_INTR(r) \/ call_cancel_INTR(r)
      PROVE  AllLevelsSafe'
  BY <1>3, StartSafe, CancelSafe
<1>4. CASE worker_init \/ worker_intr \/ worker_loop
  <2>1. UNCHANGED <<request_levels, vector, transferred, intr_event, owed, pru>>
    BY <1>4 DEF worker_init, worker_intr, worker_loop, init_edge, vars
  <2>2. worker.pc # "intr_ack" /\ worker'.pc # "intr_ack"
    <3>1. CASE worker_init
      BY <3>1 DEF worker_init, WorkerOK, WorkerState
    <3>2. CASE worker_intr
      BY <3>2 DEF worker_intr, WorkerOK, WorkerState
    <3>3. CASE worker_loop
      BY <3>3 DEF worker_loop, Start
    <3> QED
      BY <1>4, <3>1, <3>2, <3>3
  <2> QED
    BY <1>1, <2>1, <2>2
<1>5. CASE bus_INIT \/ init_clears_requests
  <2>1. UNCHANGED <<request_levels, vector, transferred, intr_event, owed, worker>>
    BY <1>5 DEF bus_INIT, init_clears_requests, vars
  <2>2. /\ pru'.device_request_mask \subseteq pru.device_request_mask
        /\ pru'.grant_bbsy_ssyn_wait = pru.grant_bbsy_ssyn_wait
        /\ pru'.level_index = pru.level_index
        /\ pru'.vector = pru.vector
    BY <1>5 DEF bus_INIT, init_clears_requests, IntrTypeOK, PruState
  <2> QED
    BY <1>1, <2>1, <2>2
<1>6. CASE UNCHANGED all_vars
  BY <1>1, <1>6 DEF all_vars, vars, intr_vars
<1>7. CASE worker_init_event \/ worker_intr_complete_event \/ worker_intr_ack
  BY <1>7, ResetSafe, CompleteSafe, AckSafe
<1>8. CASE intr_bus_free \/ sm_intr_master_state_2 \/ \E level \in IntrLevels : intr_granted(level)
  BY <1>8, BusFreeSafe, TransferSafe, GrantSafe
<1> QED
  BY <1>2, <1>3, <1>4, <1>5, <1>6, <1>7, <1>8 DEF IntrNext, worker_step

LEMMA OneGrantStep ==
  ASSUME IndInv', IntrTypeOK, WorkerOK, OneGrant, [IntrNext]_all_vars
  PROVE  OneGrant'
<1>1. ASSUME pru'.grant_bbsy_ssyn_wait = pru.grant_bbsy_ssyn_wait,
             pru'.level_index = pru.level_index
      PROVE  OneGrant'
  BY <1>1 DEF OneGrant
<1>2. ASSUME NEW r \in IntrRequests, call_INTR(r) \/ start_INTR(r) \/ call_cancel_INTR(r)
      PROVE  OneGrant'
  <2> DEFINE active == request_levels[level_index[r]].active
  <2>1. \/ pru' = pru
        \/ \E start, cancel \in BOOLEAN : Execute(level_index[r], start, cancel)
    <3>1. (active = NULL) \in BOOLEAN /\ (active = r) \in BOOLEAN
      OBVIOUS
    <3> QED
      BY <1>2, <3>1 DEF call_INTR, start_INTR, call_cancel_INTR, intr_vars
  <2> QED
    BY <1>1, <2>1, ExecuteEffect, IntrLevelFacts
<1>3. CASE worker_intr_complete_event
  <2>1. worker.level \in IntrLevels /\ Execute(worker.level, TRUE, FALSE)
    BY <1>3 DEF worker_intr_complete_event, WorkerOK, WorkerInStep
  <2>2. \E level \in IntrLevels, start, cancel \in BOOLEAN : Execute(level, start, cancel)
    BY <2>1
  <2> QED
    BY <1>1, <2>2, ExecuteEffect
<1>4. CASE worker_init \/ worker_init_event \/ worker_intr \/ worker_intr_ack \/ worker_loop
  BY <1>1, <1>4
  DEF worker_init, worker_init_event, worker_intr, worker_intr_ack, worker_loop
<1>5. CASE bus_INIT \/ init_clears_requests
  BY <1>1, <1>5 DEF bus_INIT, init_clears_requests, IntrTypeOK, PruState
<1>6. CASE intr_bus_free \/ sm_intr_master_state_2 \/ \E level \in IntrLevels : intr_granted(level)
  BY <1>6 DEF intr_bus_free, sm_intr_master_state_2, intr_granted, OneGrant, IntrTypeOK,
     PruState
<1>7. CASE UNCHANGED all_vars
  BY <1>1, <1>7 DEF all_vars, intr_vars
<1> QED
  BY <1>2, <1>3, <1>4, <1>5, <1>6, <1>7 DEF IntrNext, worker_step

(* The interrupt register of an owed request shows its condition. *)
LEMMA RegisterStep ==
  ASSUME IntrTypeOK, \A r \in owed : register_value[r], [IntrNext]_all_vars
  PROVE  \A r \in owed' : register_value'[r]
<1>1. ASSUME UNCHANGED register_value, owed' \subseteq owed
      PROVE  \A r \in owed' : register_value'[r]
  BY <1>1
<1>2. ASSUME NEW r \in IntrRequests, call_INTR(r) \/ start_INTR(r) \/ call_cancel_INTR(r)
      PROVE  \A q \in owed' : register_value'[q]
  <2>1. CASE call_INTR(r)
    BY <1>1, <2>1 DEF call_INTR, intr_vars
  <2>2. CASE start_INTR(r)
    <3>1. register_value' = [register_value EXCEPT ![r] = TRUE] /\ owed' \subseteq owed \cup {r}
      BY <2>2 DEF start_INTR
    <3> QED
      BY <3>1 DEF IntrTypeOK
  <2>3. CASE call_cancel_INTR(r)
    <3>1. register_value' = [register_value EXCEPT ![r] = FALSE] /\ owed' = owed \ {r}
      BY <2>3 DEF call_cancel_INTR
    <3> QED
      BY <3>1 DEF IntrTypeOK
  <2> QED
    BY <1>2, <2>1, <2>2, <2>3
<1>3. CASE worker_init_event
  BY <1>3 DEF worker_init_event
<1>4. CASE worker_init \/ worker_intr \/ worker_intr_complete_event \/ worker_intr_ack \/ worker_loop
  BY <1>1, <1>4
  DEF worker_init, worker_intr, worker_intr_complete_event, worker_intr_ack, worker_loop
<1>5. CASE bus_INIT \/ init_clears_requests \/ intr_bus_free \/ sm_intr_master_state_2
           \/ \E level \in IntrLevels : intr_granted(level)
  BY <1>1, <1>5 DEF bus_INIT, init_clears_requests, intr_bus_free, sm_intr_master_state_2,
     intr_granted
<1>6. CASE UNCHANGED all_vars
  BY <1>1, <1>6 DEF all_vars, intr_vars
<1> QED
  BY <1>2, <1>3, <1>4, <1>5, <1>6 DEF IntrNext, worker_step

LEMMA LateStays ==
  ASSUME [IntrNext]_all_vars, late
  PROVE  late'
BY DEF IntrNext, all_vars, intr_vars, worker_step, call_INTR, start_INTR, call_cancel_INTR,
   worker_init, worker_init_event, worker_intr, worker_intr_complete_event, worker_intr_ack,
   worker_loop, bus_INIT, init_clears_requests, intr_granted, intr_bus_free,
   sm_intr_master_state_2

LEMMA InitIntrIndInv == IntrInit => IntrTypeOK /\ IntrIndInv
<1> SUFFICES ASSUME IntrInit PROVE IntrTypeOK /\ IntrIndInv
  OBVIOUS
<1>1. IntrTypeOK
  <2>1. worker \in WorkerState
    BY IntrLevelFacts DEF IntrInit, WorkerState, Start
  <2>2. pru \in PruState
    BY DEF IntrInit, PruState
  <2>3. /\ vector \in [IntrLevels -> IntrRequests \cup {NULL}]
        /\ transferred \in [IntrLevels -> IntrRequests \cup {NULL}]
    BY DEF IntrInit
  <2>4. intr_event \in [IntrLevels -> 0 .. 1] /\ register_value \in [IntrRequests -> BOOLEAN]
    BY DEF IntrInit
  <2>5. INIT_line = FALSE /\ init_event = 0 /\ owed = {} /\ late = FALSE /\ missed = FALSE
    BY DEF IntrInit
  <2>6. init_event \in 0 .. (EventModulus - 1) /\ InitInStep
    BY IntrAssumption DEF IntrInit, InitInStep, Start
  <2> QED
    BY <2>1, <2>2, <2>3, <2>4, <2>5, <2>6 DEF IntrTypeOK
<1>2. WorkerInStep /\ InitInStep /\ OneGrant
  BY InitWorkerOK, IntrAssumption DEF WorkerOK, IntrInit, OneGrant, InitInStep, Start
<1>3. ASSUME NEW level \in IntrLevels
      PROVE  /\ request_levels[level].active = NULL
             /\ Scheduled(request_levels[level]) = {}
             /\ pru.device_request_mask = {}
             /\ ~Granted(level)
  BY IntrLevelFacts, EmptyLevelConsistent
  DEF IntrInit, Init, EmptyLevel, Granted, Pending, Start
<1>4. \A level \in IntrLevels : LevelInStep(level) /\ OwedOfLevel(level)
  BY <1>3 DEF LevelInStep, OwedOfLevel, Granted, IntrInit
<1> QED
  BY <1>1, <1>2, <1>4 DEF IntrIndInv, IntrInit

LEMMA NextIntrIndInv ==
  ASSUME DistinctSlots, IndInv, IndInv', WorkerOK, WorkerOK', InitOK', IntrTypeOK,
         IntrIndInv, [IntrNext]_all_vars
  PROVE  IntrTypeOK' /\ IntrIndInv'
<1>1. IntrTypeOK'
  BY IntrTypeStep
<1>2. WorkerInStep' /\ InitInStep' /\ OneGrant'
  BY OneGrantStep DEF WorkerOK, InitOK, IntrIndInv
<1>3. ASSUME ~late'
      PROVE  /\ (\A level \in IntrLevels : LevelInStep(level) /\ OwedOfLevel(level))'
             /\ (\A r \in owed : register_value[r])'
  <2>1. ~late
    BY <1>3, LateStays
  <2>2. AllLevelsSafe /\ (\A r \in owed : register_value[r])
    BY <2>1 DEF IntrIndInv, AllLevelsSafe, LevelSafe
  <2>3. AllLevelsSafe'
    BY <1>3, <2>2, LevelsStep DEF IntrIndInv
  <2> QED
    BY <2>2, <2>3, RegisterStep DEF AllLevelsSafe, LevelSafe
<1> QED
  BY <1>1, <1>2, <1>3 DEF IntrIndInv

(* ARM and PRU agree on the interrupts under way, for any number of devices  *)
(* and levels, as long as neither cancel_INTR() nor INIT comes too late.     *)
THEOREM IntrInvariance ==
  ASSUME DistinctSlots
  PROVE  IntrSpec => [](IntrTypeOK /\ IntrIndInv)
<1>1. IndInv /\ IndInv' /\ WorkerOK /\ (WorkerOK /\ InitOK)' /\ (IntrTypeOK /\ IntrIndInv)
        /\ [IntrNext]_all_vars => (IntrTypeOK /\ IntrIndInv)'
  BY NextIntrIndInv
<1> QED
  BY <1>1, InitIntrIndInv, TablesHere, WorkerInvariance, PTL DEF IntrSpec

(* No interrupt that a device has raised is lost in the tables: until its    *)
(* vector was transferred, it is scheduled and its register shows it.        *)
THEOREM InterruptsKept ==
  ASSUME DistinctSlots
  PROVE  IntrSpec => []IntrSafe
<1>1. IntrTypeOK /\ IntrIndInv => IntrSafe
  <2>1. SUFFICES ASSUME IntrTypeOK, IntrIndInv, ~late, NEW r \in owed
                 PROVE  /\ r \in Scheduled(request_levels[level_index[r]])
                        /\ register_value[r]
    BY DEF IntrSafe, OwedIsScheduled
  <2>2. r \in IntrRequests /\ level_index[r] \in IntrLevels
    BY <2>1, IntrLevelFacts DEF IntrTypeOK
  <2> QED
    BY <2>1, <2>2 DEF IntrIndInv, OwedOfLevel
<1> QED
  BY <1>1, IntrInvariance, PTL

(* The completion event of the PRU is applied to the request whose vector it *)
(* has transferred, and no vector is transferred that was not asked for,     *)
(* although only the level links the two.                                    *)
THEOREM InterruptsStayExact ==
  ASSUME DistinctSlots
  PROVE  IntrSpec => InterruptsExact
<1>1. ASSUME WorkerOK, IntrIndInv, worker_intr_complete_event
      PROVE  late \/ request_levels[worker.level].active = transferred[worker.level]
  BY <1>1, EventForActive DEF IntrIndInv, AllLevelsSafe, LevelSafe
<1>2. ASSUME IndInv, IntrTypeOK, IntrIndInv, sm_intr_master_state_2
      PROVE  late \/ pru.vector \in owed
  BY <1>2, TransferOfActive DEF IntrIndInv, AllLevelsSafe, LevelSafe
<1>3. IndInv /\ WorkerOK /\ (IntrTypeOK /\ IntrIndInv)
        => [worker_intr_complete_event =>
              late \/ request_levels[worker.level].active = transferred[worker.level]]_all_vars
  BY <1>1
<1>4. IndInv /\ WorkerOK /\ (IntrTypeOK /\ IntrIndInv)
        => [sm_intr_master_state_2 => late \/ pru.vector \in owed]_all_vars
  BY <1>2
<1> QED
  BY <1>3, <1>4, TablesHere, WorkerInvariance, IntrInvariance, PTL
  DEF InterruptsExact, EventIsForActiveInTime, NoSpuriousInterrupt
=============================================================================
