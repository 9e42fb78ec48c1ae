----------------------- MODULE RequestScheduler_proofs -----------------------
(***************************************************************************)
(* Proofs about RequestScheduler, for every set of requests, every number   *)
(* of levels and slots and every chunk size.                                *)
(***************************************************************************)
EXTENDS RequestScheduler, Masks_proofs

(* A mask that agrees with the table, whose requests sit in their own level  *)
(* and slot: LevelConsistent without the conjuncts about "active".           *)
TableConsistent(level, prl) ==
  /\ prl.slot_request_mask = {s \in Slots : prl.slot_request[s] # NULL}
  /\ \A s \in Slots : prl.slot_request[s] # NULL =>
        /\ priority_slot[prl.slot_request[s]] = s
        /\ level_index[prl.slot_request[s]] = level

(* __builtin_ffs() of a mask that is not 0 is one of its bits, and the       *)
(* lowest.                                                                   *)
LEMMA LowestSlot ==
  ASSUME NEW mask \in SUBSET Slots, mask # {}
  PROVE  Min(mask) \in mask /\ \A s \in mask : Min(mask) <= s
<1>1. IsFiniteSet(Slots)
  BY RequestAssumption, FS_Interval DEF Slots
<1>2. IsFiniteSet(mask)
  BY <1>1, FS_Subset
<1>3. \A s \in mask : s \in Int
  BY RequestAssumption DEF Slots
<1> QED
  BY <1>2, <1>3, LowestBit

(* request_schedule() keeps the table and its mask in agreement, and adds    *)
(* exactly r.                                                                *)
LEMMA ScheduleTable ==
  ASSUME NEW level \in Levels, NEW prl \in PriorityRequestLevel,
         NEW r \in Requests, level_index[r] = level,
         TableConsistent(level, prl), ~ Occupied(prl, r)
  PROVE  LET p == request_schedule(prl, r)
         IN  /\ p \in PriorityRequestLevel
             /\ TableConsistent(level, p)
             /\ p.active = prl.active
             /\ Scheduled(p) = Scheduled(prl) \cup {r}
             /\ p.slot_request[priority_slot[r]] = r
             /\ p.slot_request_mask # {}
             /\ \A s \in Slots : s # priority_slot[r] => p.slot_request[s] = prl.slot_request[s]
<1> DEFINE p == request_schedule(prl, r)
           k == priority_slot[r]
<1>1. k \in Slots /\ r # NULL
  BY RequestAssumption
<1>2. /\ p.slot_request = [prl.slot_request EXCEPT ![k] = r]
      /\ p.slot_request_mask = prl.slot_request_mask \cup {k}
      /\ p.active = prl.active
  BY DEF request_schedule, PriorityRequestLevel
<1>3. p \in PriorityRequestLevel
  BY <1>1 DEF request_schedule, PriorityRequestLevel
<1>4. \A s \in Slots : p.slot_request[s] = IF s = k THEN r ELSE prl.slot_request[s]
  BY <1>1, <1>2 DEF PriorityRequestLevel
<1>5. TableConsistent(level, p)
  BY <1>1, <1>2, <1>4 DEF TableConsistent, PriorityRequestLevel
<1>6. Scheduled(p) = Scheduled(prl) \cup {r}
  <2>1. prl.slot_request[k] = NULL
    BY DEF Occupied
  <2> QED
    BY <1>1, <1>4, <2>1 DEF Scheduled
<1> QED
  BY <1>1, <1>2, <1>3, <1>4, <1>5, <1>6

(* Clearing an occupied slot removes exactly the request in it. *)
LEMMA RemoveTable ==
  ASSUME NEW level \in Levels, NEW prl \in PriorityRequestLevel,
         NEW r \in Requests, TableConsistent(level, prl),
         prl.slot_request[priority_slot[r]] = r
  PROVE  LET p == RemoveSlot(prl, priority_slot[r])
         IN  /\ p \in PriorityRequestLevel
             /\ TableConsistent(level, p)
             /\ p.active = prl.active
             /\ Scheduled(p) = Scheduled(prl) \ {r}
             /\ \A s \in Slots : s # priority_slot[r] => p.slot_request[s] = prl.slot_request[s]
<1> DEFINE p == RemoveSlot(prl, priority_slot[r])
           k == priority_slot[r]
<1>1. k \in Slots /\ r # NULL
  BY RequestAssumption
<1>2. /\ p.slot_request = [prl.slot_request EXCEPT ![k] = NULL]
      /\ p.slot_request_mask = prl.slot_request_mask \ {k}
      /\ p.active = prl.active
  BY DEF RemoveSlot, PriorityRequestLevel
<1>3. p \in PriorityRequestLevel
  BY <1>1 DEF RemoveSlot, PriorityRequestLevel
<1>4. \A s \in Slots : p.slot_request[s] = IF s = k THEN NULL ELSE prl.slot_request[s]
  BY <1>1, <1>2 DEF PriorityRequestLevel
<1>5. TableConsistent(level, p)
  BY <1>1, <1>2, <1>4 DEF TableConsistent, PriorityRequestLevel
<1>6. \A s \in Slots : prl.slot_request[s] = r => s = k
  BY <1>1 DEF TableConsistent
<1>7. Scheduled(p) = Scheduled(prl) \ {r}
  BY <1>1, <1>4, <1>6 DEF Scheduled
<1> QED
  BY <1>2, <1>3, <1>4, <1>5, <1>7

(* request_activate_lowest_slot() on a level without active request leaves   *)
(* the level consistent, and picks the scheduled request of lowest slot.     *)
LEMMA ActivateLevel ==
  ASSUME NEW level \in Levels, NEW prl \in PriorityRequestLevel,
         TableConsistent(level, prl)
  PROVE  LET p == request_activate_lowest_slot(prl)
         IN  /\ p \in PriorityRequestLevel
             /\ LevelConsistent(level, p)
             /\ Scheduled(p) = Scheduled(prl)
             /\ p.slot_request = prl.slot_request
             /\ p.active # NULL => p.active \in Scheduled(prl)
             /\ \A s \in Slots : prl.slot_request[s] # NULL =>
                   p.active # NULL /\ priority_slot[p.active] <= s
<1> DEFINE p == request_activate_lowest_slot(prl)
           mask == prl.slot_request_mask
           next == IF mask = {} THEN NULL ELSE prl.slot_request[Min(mask)]
<1>1. /\ p.slot_request = prl.slot_request
      /\ p.slot_request_mask = mask
      /\ p.active = next
  BY DEF request_activate_lowest_slot, PriorityRequestLevel
<1>2. mask \in SUBSET Slots /\ prl.slot_request \in [Slots -> Requests \cup {NULL}]
  BY DEF PriorityRequestLevel
<1>3. mask # {} => Min(mask) \in mask /\ \A s \in mask : Min(mask) <= s
  BY <1>2, LowestSlot
<1>4. mask # {} => /\ next \in Requests
                   /\ next # NULL
                   /\ priority_slot[next] = Min(mask)
  BY <1>2, <1>3 DEF TableConsistent
<1>5. p \in PriorityRequestLevel
  BY <1>4 DEF request_activate_lowest_slot, PriorityRequestLevel
<1>6. LevelConsistent(level, p)
  BY <1>1, <1>2, <1>3, <1>4 DEF LevelConsistent, TableConsistent
<1>7. Scheduled(p) = Scheduled(prl)
  BY <1>1 DEF Scheduled
<1>8. next # NULL => next \in Scheduled(prl)
  BY <1>2, <1>3, <1>4 DEF Scheduled
<1>9. \A s \in Slots : prl.slot_request[s] # NULL =>
          next # NULL /\ priority_slot[next] <= s
  BY <1>2, <1>3, <1>4 DEF TableConsistent
<1> QED
  BY <1>1, <1>5, <1>6, <1>7, <1>8, <1>9

-----------------------------------------------------------------------------
(* What a consistent level says of a request in its table. *)
LEMMA InTable ==
  ASSUME NEW level \in Levels, NEW prl \in PriorityRequestLevel,
         LevelConsistent(level, prl)
  PROVE  /\ TableConsistent(level, prl)
         /\ Scheduled(prl) \subseteq Requests
         /\ NULL \notin Scheduled(prl)
         /\ \A r \in Scheduled(prl) : /\ prl.slot_request[priority_slot[r]] = r
                                       /\ level_index[r] = level
         /\ prl.active # NULL => prl.active \in Scheduled(prl)
         /\ prl.active = NULL => Scheduled(prl) = {}
<1>1. prl.slot_request \in [Slots -> Requests \cup {NULL}]
      /\ prl.active \in Requests \cup {NULL}
  BY DEF PriorityRequestLevel
<1>2. TableConsistent(level, prl)
  BY DEF LevelConsistent, TableConsistent
<1>3. \A r \in Scheduled(prl) : \E s \in Slots : prl.slot_request[s] = r /\ r # NULL
  BY DEF Scheduled
<1>4. \A r \in Scheduled(prl) : /\ r \in Requests
                                /\ prl.slot_request[priority_slot[r]] = r
                                /\ level_index[r] = level
  BY <1>1, <1>3 DEF LevelConsistent
<1>5. prl.active # NULL => prl.active \in Scheduled(prl)
  <2>1. SUFFICES ASSUME prl.active # NULL PROVE prl.active \in Scheduled(prl)
    OBVIOUS
  <2>2. prl.active \in Requests /\ priority_slot[prl.active] \in Slots
    BY <1>1, <2>1, RequestAssumption
  <2> QED
    BY <2>1, <2>2 DEF LevelConsistent, Scheduled
<1>6. prl.active = NULL => Scheduled(prl) = {}
  BY <1>3 DEF LevelConsistent
<1>7. NULL \notin Scheduled(prl)
  BY DEF Scheduled
<1> QED
  BY <1>2, <1>4, <1>5, <1>6, <1>7

(* Completing the active request and starting the next one. *)
LEMMA NextRequestLevel ==
  ASSUME NEW level \in Levels, NEW prl \in PriorityRequestLevel,
         LevelConsistent(level, prl)
  PROVE  LET p == NextRequest(prl)
         IN  /\ p \in PriorityRequestLevel
             /\ LevelConsistent(level, p)
             /\ Scheduled(p) = Scheduled(prl) \ {prl.active}
<1> DEFINE q == request_active_complete(prl)
           removed == RemoveSlot(prl, priority_slot[prl.active])
<1>1. q \in PriorityRequestLevel /\ TableConsistent(level, q)
      /\ Scheduled(q) = Scheduled(prl) \ {prl.active}
  <2>1. CASE prl.active = NULL
    <3>1. q = prl
      BY <2>1 DEF request_active_complete
    <3>2. Scheduled(prl) = {} /\ TableConsistent(level, prl)
      BY <2>1, InTable
    <3>3. Scheduled(prl) = Scheduled(prl) \ {prl.active}
      BY <3>2
    <3> QED
      BY <3>1, <3>2, <3>3
  <2>2. CASE prl.active # NULL
    <3>1. prl.active \in Requests /\ prl.slot_request[priority_slot[prl.active]] = prl.active
      BY <2>2, InTable
    <3>2. /\ removed \in PriorityRequestLevel
          /\ TableConsistent(level, removed)
          /\ Scheduled(removed) = Scheduled(prl) \ {prl.active}
      BY <3>1, InTable, RemoveTable
    <3>3. q = [removed EXCEPT !.active = NULL]
      BY <2>2 DEF request_active_complete
    <3>4. /\ q \in PriorityRequestLevel
          /\ q.slot_request = removed.slot_request
          /\ q.slot_request_mask = removed.slot_request_mask
      BY <3>2, <3>3 DEF PriorityRequestLevel
    <3>5. TableConsistent(level, q)
      BY <3>2, <3>4 DEF TableConsistent
    <3>6. Scheduled(q) = Scheduled(removed)
      BY <3>4 DEF Scheduled
    <3> QED
      BY <3>2, <3>4, <3>5, <3>6
  <2> QED
    BY <2>1, <2>2
<1> HIDE DEF q
<1>2. NextRequest(prl) = request_activate_lowest_slot(q)
  BY DEF NextRequest, q
<1> QED
  BY <1>1, <1>2, ActivateLevel

(* Scheduling a request in a free slot, and starting it if the level is idle. *)
LEMMA ScheduleLevel ==
  ASSUME NEW level \in Levels, NEW prl \in PriorityRequestLevel,
         LevelConsistent(level, prl), NEW r \in Requests,
         level_index[r] = level, ~ Occupied(prl, r)
  PROVE  LET p == ScheduleAndStart(prl, r)
         IN  /\ p \in PriorityRequestLevel
             /\ LevelConsistent(level, p)
             /\ Scheduled(p) = Scheduled(prl) \cup {r}
             /\ prl.active = NULL => p.active = r
             /\ prl.active # NULL => p.active = prl.active
<1> DEFINE q == request_schedule(prl, r)
<1>1. /\ q \in PriorityRequestLevel
      /\ TableConsistent(level, q)
      /\ q.active = prl.active
      /\ Scheduled(q) = Scheduled(prl) \cup {r}
      /\ q.slot_request[priority_slot[r]] = r
      /\ q.slot_request_mask # {}
      /\ \A s \in Slots : s # priority_slot[r] => q.slot_request[s] = prl.slot_request[s]
  BY InTable, ScheduleTable
<1> HIDE DEF q
<1>2. CASE prl.active = NULL
  <2>1. ScheduleAndStart(prl, r) = request_activate_lowest_slot(q)
    BY <1>2 DEF ScheduleAndStart, q
  <2>2. Scheduled(q) = {r}
    BY <1>1, <1>2, InTable
  <2>3. r # NULL /\ priority_slot[r] \in Slots
    BY RequestAssumption
  <2> QED
    BY <1>1, <1>2, <2>1, <2>2, <2>3, ActivateLevel
<1>3. CASE prl.active # NULL
  <2>1. ScheduleAndStart(prl, r) = q
    BY <1>3 DEF ScheduleAndStart, q
  <2>2. prl.active \in Requests /\ prl.slot_request[priority_slot[prl.active]] = prl.active
    BY <1>3, InTable
  <2>3. priority_slot[prl.active] \in Slots /\ priority_slot[prl.active] # priority_slot[r]
    BY <2>2, <1>3, RequestAssumption DEF Occupied
  <2>4. LevelConsistent(level, q)
    BY <1>1, <1>3, <2>2, <2>3 DEF LevelConsistent, TableConsistent
  <2> QED
    BY <1>1, <1>3, <2>1, <2>4
<1> QED
  BY <1>2, <1>3

(* Removing a scheduled request that is not active. *)
LEMMA RemoveLevel ==
  ASSUME NEW level \in Levels, NEW prl \in PriorityRequestLevel,
         LevelConsistent(level, prl), NEW r \in Requests,
         prl.slot_request[priority_slot[r]] = r, prl.active # r
  PROVE  LET p == RemoveSlot(prl, priority_slot[r])
         IN  /\ p \in PriorityRequestLevel
             /\ LevelConsistent(level, p)
             /\ p.active = prl.active
             /\ Scheduled(p) = Scheduled(prl) \ {r}
<1> DEFINE p == RemoveSlot(prl, priority_slot[r])
<1>1. /\ p \in PriorityRequestLevel
      /\ TableConsistent(level, p)
      /\ p.active = prl.active
      /\ Scheduled(p) = Scheduled(prl) \ {r}
      /\ \A s \in Slots : s # priority_slot[r] => p.slot_request[s] = prl.slot_request[s]
  BY InTable, RemoveTable
<1> HIDE DEF p
<1>2. priority_slot[r] \in Slots /\ r # NULL
  BY RequestAssumption
<1>3. prl.active # NULL
  BY <1>2, InTable DEF LevelConsistent
<1>4. prl.active \in Requests /\ prl.slot_request[priority_slot[prl.active]] = prl.active
      /\ priority_slot[prl.active] \in Slots
  BY <1>3, InTable, RequestAssumption
<1>5. p.slot_request[priority_slot[prl.active]] = prl.active
  BY <1>1, <1>4
<1>6. p.slot_request_mask # {}
  BY <1>1, <1>3, <1>4, <1>5 DEF TableConsistent
<1>7. LevelConsistent(level, p)
  BY <1>1, <1>3, <1>5, <1>6 DEF LevelConsistent, TableConsistent
<1> QED
  BY <1>1, <1>7 DEF p

(* The level that requests_init() leaves behind. *)
LEMMA EmptyLevelConsistent ==
  ASSUME NEW level \in Levels
  PROVE  /\ EmptyLevel \in PriorityRequestLevel
         /\ LevelConsistent(level, EmptyLevel)
         /\ Scheduled(EmptyLevel) = {}
BY DEF EmptyLevel, PriorityRequestLevel, LevelConsistent, Scheduled

-----------------------------------------------------------------------------
(* An action that changes one level keeps the others. *)
LEMMA OneLevelChanges ==
  ASSUME TypeOK, TablesConsistent,
         NEW level \in Levels, NEW prl \in PriorityRequestLevel,
         LevelConsistent(level, prl),
         request_levels' = [request_levels EXCEPT ![level] = prl]
  PROVE  /\ request_levels' \in [Levels -> PriorityRequestLevel]
         /\ TablesConsistent'
         /\ request_levels'[level] = prl
         /\ \A l \in Levels : l # level => request_levels'[l] = request_levels[l]
<1>1. request_levels \in [Levels -> PriorityRequestLevel]
  BY DEF TypeOK
<1>2. /\ request_levels' \in [Levels -> PriorityRequestLevel]
      /\ request_levels'[level] = prl
      /\ \A l \in Levels : l # level => request_levels'[l] = request_levels[l]
  BY <1>1
<1>3. TablesConsistent'
  <2>1. SUFFICES ASSUME NEW l \in Levels PROVE LevelConsistent(l, request_levels'[l])
    BY DEF TablesConsistent, LevelConsistent
  <2>2. CASE l = level
    BY <1>2, <2>2
  <2>3. CASE l # level
    BY <1>2, <2>3 DEF TablesConsistent
  <2> QED
    BY <2>2, <2>3
<1> QED
  BY <1>2, <1>3

(* The NPR level and the level of any request, in a state of the invariant. *)
LEMMA LevelFacts ==
  ASSUME TypeOK, TablesConsistent
  PROVE  /\ PRIORITY_LEVEL_INDEX_NPR \in Levels
         /\ Npr \in PriorityRequestLevel
         /\ LevelConsistent(PRIORITY_LEVEL_INDEX_NPR, Npr)
         /\ \A r \in Requests :
               /\ level_index[r] \in Levels
               /\ request_levels[level_index[r]] \in PriorityRequestLevel
               /\ LevelConsistent(level_index[r], request_levels[level_index[r]])
<1>1. PRIORITY_LEVEL_INDEX_NPR \in Levels
  BY RequestAssumption DEF Levels
<1>2. \A r \in Requests : level_index[r] \in Levels
  BY RequestAssumption
<1> QED
  BY <1>1, <1>2 DEF TypeOK, TablesConsistent, Npr

(* With one request per level and slot, an occupied slot holds the request   *)
(* it belongs to.                                                            *)
LEMMA OccupiedByOwner ==
  ASSUME DistinctSlots, NEW level \in Levels, NEW prl \in PriorityRequestLevel,
         LevelConsistent(level, prl), NEW r \in Requests,
         level_index[r] = level, Occupied(prl, r)
  PROVE  prl.slot_request[priority_slot[r]] = r
<1>1. priority_slot[r] \in Slots
  BY RequestAssumption
<1>2. prl.slot_request[priority_slot[r]] \in Requests
  BY <1>1 DEF Occupied, PriorityRequestLevel
<1> QED
  BY <1>1, <1>2 DEF Occupied, LevelConsistent, DistinctSlots

LEMMA ExecutingType ==
  ASSUME NEW done, NEW started, executing_on_PRU \in [Requests -> BOOLEAN]
  PROVE  /\ Executing(done, started) \in [Requests -> BOOLEAN]
         /\ \A r \in Requests : Executing(done, started)[r] <=>
                                 r = started \/ (executing_on_PRU[r] /\ r # done)
BY DEF Executing

-----------------------------------------------------------------------------
LEMMA InitIndInv == Init => IndInv
<1> SUFFICES ASSUME Init PROVE IndInv
  OBVIOUS
<1>1. \A l \in Levels : request_levels[l] = EmptyLevel
  BY DEF Init
<1>2. TablesConsistent
  BY <1>1, EmptyLevelConsistent DEF TablesConsistent
<1>3. TypeOK
  <2>1. \A l \in Levels : EmptyLevel \in PriorityRequestLevel
    BY EmptyLevelConsistent
  <2>2. request_levels \in [Levels -> PriorityRequestLevel]
    BY <2>1 DEF Init
  <2>3. remaining \in [DmaRequests -> 0 .. MaxWordcount]
    BY WordcountAssumption DEF Init
  <2> QED
    BY <2>2, <2>3 DEF Init, TypeOK
<1>4. Scheduled(Npr) = {} /\ \A r \in Requests : request_levels[level_index[r]].active = NULL
  <2>1. PRIORITY_LEVEL_INDEX_NPR \in Levels /\ \A r \in Requests : level_index[r] \in Levels
    BY RequestAssumption DEF Levels
  <2> QED
    BY <1>1, <2>1, EmptyLevelConsistent DEF Npr, EmptyLevel
<1> QED
  BY <1>2, <1>3, <1>4, RequestAssumption
  DEF Init, IndInv, NoForgottenWaiter, SuccessIsComplete, ExecutingIsScheduled,
      IntrExecutingIsActive, EnterOnce, CpuSingleWord, OnlyDmareqAssert, Requests

-----------------------------------------------------------------------------
(* The two conjuncts about executing_on_PRU, for an action that ends "done"  *)
(* and starts "started" on one level.                                        *)
LEMMA ExecutingPreserved ==
  ASSUME TypeOK, TablesConsistent, ExecutingIsScheduled, IntrExecutingIsActive,
         NEW level \in Levels, NEW p \in PriorityRequestLevel,
         LevelConsistent(level, p),
         request_levels' = [request_levels EXCEPT ![level] = p],
         NEW done \in Requests \cup {NULL}, NEW started \in Requests \cup {NULL},
         executing_on_PRU' = Executing(done, started),
         done # NULL => level_index[done] = level,
         Scheduled(request_levels[level]) \ {done} \subseteq Scheduled(p),
         started # NULL => started = p.active,
         p.active # NULL /\ p.active # started =>
            p.active = request_levels[level].active /\ p.active # done,
         \/ level = PRIORITY_LEVEL_INDEX_NPR
         \/ request_levels[level].active \notin {NULL, done} =>
               p.active = request_levels[level].active
  PROVE  ExecutingIsScheduled' /\ IntrExecutingIsActive'
<1> DEFINE old == request_levels[level]
<1>1. /\ request_levels'[level] = p
      /\ \A l \in Levels : l # level => request_levels'[l] = request_levels[l]
  BY OneLevelChanges
<1>2. \A r \in Requests : executing_on_PRU'[r] <=>
                          r = started \/ (executing_on_PRU[r] /\ r # done)
  BY ExecutingType DEF TypeOK
<1>3. \A r \in Requests : r # NULL /\ level_index[r] \in Levels
  BY RequestAssumption
<1>4. p.active # NULL => p.active \in Scheduled(p) /\ level_index[p.active] = level
  BY InTable
<1>5. ASSUME NEW r \in Requests
      PROVE  /\ request_levels'[level_index[r]].active = r => executing_on_PRU'[r]
             /\ executing_on_PRU'[r] => r \in Scheduled(request_levels'[level_index[r]])
  <2>1. CASE level_index[r] = level
    <3>1. request_levels'[level_index[r]] = p
      BY <1>1, <2>1
    <3>2. p.active = r => executing_on_PRU'[r]
      BY <1>2, <1>3, <2>1 DEF ExecutingIsScheduled
    <3>3. executing_on_PRU'[r] => r \in Scheduled(p)
      BY <1>2, <1>3, <1>4, <2>1 DEF ExecutingIsScheduled
    <3> QED
      BY <3>1, <3>2, <3>3
  <2>2. CASE level_index[r] # level
    <3>1. request_levels'[level_index[r]] = request_levels[level_index[r]]
      BY <1>1, <1>3, <2>2
    <3>2. r # done /\ r # started
      BY <1>3, <1>4, <2>2
    <3> QED
      BY <1>2, <3>1, <3>2 DEF ExecutingIsScheduled
  <2> QED
    BY <2>1, <2>2
<1>6. ASSUME NEW r \in IntrRequests, executing_on_PRU'[r]
      PROVE  request_levels'[level_index[r]].active = r
  <2>1. r \in Requests /\ level_index[r] # PRIORITY_LEVEL_INDEX_NPR
    BY RequestAssumption DEF Requests
  <2>2. CASE level_index[r] = level
    <3>1. request_levels'[level_index[r]] = p
      BY <1>1, <2>2
    <3>2. CASE r = started
      BY <1>3, <2>1, <3>1, <3>2
    <3>3. CASE r # started
      <4>1. old.active = r /\ r # done
        BY <1>2, <1>6, <2>1, <2>2, <3>3 DEF IntrExecutingIsActive
      <4> QED
        BY <1>3, <2>1, <2>2, <3>1, <4>1
    <3> QED
      BY <3>2, <3>3
  <2>3. CASE level_index[r] # level
    <3>1. request_levels'[level_index[r]] = request_levels[level_index[r]]
      BY <1>1, <1>3, <2>1, <2>3
    <3>2. r # started
      BY <1>3, <1>4, <2>1, <2>3
    <3> QED
      BY <1>2, <1>6, <2>1, <3>1, <3>2 DEF IntrExecutingIsActive
  <2> QED
    BY <2>2, <2>3
<1>7. ExecutingIsScheduled'
  BY <1>5 DEF ExecutingIsScheduled
<1>8. IntrExecutingIsActive'
  BY <1>6 DEF IntrExecutingIsActive
<1> QED
  BY <1>7, <1>8

-----------------------------------------------------------------------------
(* One lemma per action: it preserves the invariant. *)
LEMMA EnterStep ==
  ASSUME IndInv, NEW r \in Requests, Enter(r)
  PROVE  IndInv'
<1> USE DEF IndInv
<1>1. Npr' = Npr
  BY DEF Enter, Npr
<1>2. TypeOK'
  BY DEF TypeOK, Enter
<1>3. TablesConsistent'
  BY DEF Enter, TablesConsistent
<1>4. NoForgottenWaiter'
  <2>1. waiting' = waiting /\ r \notin waiting /\ waiting \subseteq Requests
    BY DEF Enter, TypeOK, Requests
  <2>2. \A q \in waiting : complete'[q] = complete[q]
    BY <2>1 DEF Enter, TypeOK
  <2> QED
    BY <1>1, <2>1, <2>2 DEF NoForgottenWaiter
<1>5. SuccessIsComplete'
  BY <1>1 DEF Enter, SuccessIsComplete
<1>6. ExecutingIsScheduled' /\ IntrExecutingIsActive'
  BY DEF Enter, ExecutingIsScheduled, IntrExecutingIsActive
<1>7. EnterOnce' /\ CpuSingleWord' /\ OnlyDmareqAssert'
  BY DEF Enter, EnterOnce, CpuSingleWord, OnlyDmareqAssert
<1> QED
  BY <1>2, <1>3, <1>4, <1>5, <1>6, <1>7

LEMMA DMAStep ==
  ASSUME DistinctSlots, IndInv, NEW r \in DmaRequests, NEW n \in 1 .. MaxWordcount,
         DMA(r, n)
  PROVE  IndInv'
<1> USE DEF IndInv
<1> DEFINE NPR == PRIORITY_LEVEL_INDEX_NPR
           p == ScheduleAndStart(Npr, r)
           started == IF Npr.active = NULL THEN p.active ELSE NULL
<1>1. r \in Requests /\ level_index[r] = NPR /\ r # NULL /\ r \in entering
  BY RequestAssumption DEF DMA, Requests
<1>2. /\ NPR \in Levels
      /\ Npr \in PriorityRequestLevel
      /\ LevelConsistent(NPR, Npr)
  BY LevelFacts
<1>3. r \notin waiting /\ r \notin Scheduled(Npr)
  BY <1>1 DEF EnterOnce, NoForgottenWaiter
<1>4. ~ Occupied(Npr, r)
  <2>1. SUFFICES ASSUME Occupied(Npr, r) PROVE FALSE
    OBVIOUS
  <2>2. Npr.slot_request[priority_slot[r]] = r /\ priority_slot[r] \in Slots
    BY <1>1, <1>2, <2>1, OccupiedByOwner, RequestAssumption
  <2> QED
    BY <1>1, <1>3, <2>2 DEF Scheduled
<1>5. /\ p \in PriorityRequestLevel
      /\ LevelConsistent(NPR, p)
      /\ Scheduled(p) = Scheduled(Npr) \cup {r}
      /\ Npr.active = NULL => p.active = r
      /\ Npr.active # NULL => p.active = Npr.active
  BY <1>1, <1>2, <1>4, ScheduleLevel
<1> HIDE DEF p
<1>6. /\ request_levels' = [request_levels EXCEPT ![NPR] = p]
      /\ complete' = [complete EXCEPT ![r] = FALSE]
      /\ executing_on_PRU' = Executing(r, started)
      /\ waiting' = waiting \cup {r}
      /\ entering' = entering \ {r}
      /\ success' = [success EXCEPT ![r] = FALSE]
      /\ remaining' = [remaining EXCEPT ![r] = n]
      /\ UNCHANGED <<line_INIT, clearing, failed_assert>>
  BY <1>4 DEF DMA, p
<1>7. /\ request_levels' \in [Levels -> PriorityRequestLevel]
      /\ TablesConsistent'
      /\ Npr' = p
  BY <1>2, <1>5, <1>6, OneLevelChanges DEF Npr
<1>8. TypeOK'
  <2>1. remaining' \in [DmaRequests -> 0 .. MaxWordcount]
    <3>1. n \in 0 .. MaxWordcount
      BY WordcountAssumption
    <3>2. remaining \in [DmaRequests -> 0 .. MaxWordcount]
      BY DEF TypeOK
    <3> QED
      BY <1>6, <3>1, <3>2
  <2>2. executing_on_PRU' \in [Requests -> BOOLEAN]
    BY <1>6, ExecutingType DEF TypeOK
  <2> QED
    BY <1>1, <1>6, <1>7, <2>1, <2>2 DEF TypeOK
<1>9. NoForgottenWaiter'
  <2>1. Scheduled(Npr)' = Scheduled(Npr) \cup {r}
    BY <1>5, <1>7 DEF Scheduled
  <2>2. ASSUME NEW q \in waiting' \ CpuRequests
        PROVE  complete'[q] <=> q \notin Scheduled(Npr)'
    <3>1. q \in Requests
      BY <1>1, <1>6 DEF TypeOK, Requests
    <3>2. CASE q = r
      BY <1>1, <1>6, <2>1, <3>2 DEF TypeOK
    <3>3. CASE q # r
      BY <1>6, <2>1, <3>1, <3>3 DEF TypeOK, NoForgottenWaiter
    <3> QED
      BY <3>2, <3>3
  <2> QED
    BY <1>6, <2>1, <2>2 DEF NoForgottenWaiter
<1>10. SuccessIsComplete'
  <2>1. Scheduled(Npr)' = Scheduled(Npr) \cup {r}
    BY <1>5, <1>7 DEF Scheduled
  <2> QED
    BY <1>6, <2>1 DEF SuccessIsComplete, TypeOK
<1>11. ExecutingIsScheduled' /\ IntrExecutingIsActive'
  <2>1. started \in Requests \cup {NULL}
    BY <1>1, <1>5
  <2>2. Scheduled(request_levels[NPR]) \ {r} \subseteq Scheduled(p)
    BY <1>5 DEF Npr
  <2>3. started # NULL => started = p.active
    OBVIOUS
  <2>4. p.active # NULL /\ p.active # started =>
           p.active = request_levels[NPR].active /\ p.active # r
    <3>1. Npr.active # r
      BY <1>1, <1>2, <1>3, InTable
    <3> QED
      BY <1>5, <3>1 DEF Npr
  <2> QED
    BY <1>1, <1>2, <1>5, <1>6, <2>1, <2>2, <2>3, <2>4, ExecutingPreserved
<1>12. EnterOnce' /\ OnlyDmareqAssert'
  BY <1>6 DEF EnterOnce, OnlyDmareqAssert
<1>13. CpuSingleWord'
  <2>1. ASSUME NEW q \in CpuRequests PROVE remaining'[q] <= 1
    <3>1. q \in DmaRequests /\ remaining[q] <= 1
      BY RequestAssumption DEF CpuSingleWord
    <3>2. CASE q = r
      <4>1. n = 1
        BY <3>2 DEF DMA
      <4>2. remaining'[q] = n
        BY <1>6, <3>2 DEF TypeOK
      <4> QED
        BY <4>1, <4>2
    <3>3. CASE q # r
      <4>1. remaining'[q] = remaining[q]
        BY <1>6, <3>1, <3>3 DEF TypeOK
      <4> QED
        BY <3>1, <4>1
    <3> QED
      BY <3>2, <3>3
  <2> QED
    BY <2>1 DEF CpuSingleWord
<1> QED
  BY <1>7, <1>8, <1>9, <1>10, <1>11, <1>12, <1>13

LEMMA ReturnStep ==
  ASSUME IndInv, NEW r \in DmaRequests, DMA_return(r) \/ DMA_aborted(r)
  PROVE  IndInv'
<1> USE DEF IndInv, DMA_return, DMA_aborted
<1>1. Npr' = Npr
  BY DEF Npr
<1>2. TypeOK' /\ TablesConsistent'
  BY DEF TypeOK, TablesConsistent
<1>3. NoForgottenWaiter'
  <2>1. r \notin Scheduled(Npr)
    <3>1. CASE DMA_return(r)
      BY <3>1 DEF NoForgottenWaiter
    <3>2. CASE DMA_aborted(r)
      BY <3>2, LevelFacts, InTable
    <3> QED
      BY <3>1, <3>2
  <2> QED
    BY <1>1, <2>1 DEF NoForgottenWaiter
<1>4. SuccessIsComplete' /\ ExecutingIsScheduled' /\ IntrExecutingIsActive'
  BY <1>1 DEF SuccessIsComplete, ExecutingIsScheduled, IntrExecutingIsActive
<1>5. EnterOnce' /\ CpuSingleWord' /\ OnlyDmareqAssert'
  BY DEF EnterOnce, CpuSingleWord, OnlyDmareqAssert
<1> QED
  BY <1>2, <1>3, <1>4, <1>5

(* A DMA completion event, applied by worker() or by the polling CPU, which  *)
(* then stops waiting: gone = {its request}.                                 *)
LEMMA ChunkStep ==
  ASSUME IndInv, NEW ready \in BOOLEAN, ChunkComplete(ready),
         NEW gone \in SUBSET (CpuRequests \cap {Npr.active}),
         waiting' = waiting \ gone,
         UNCHANGED <<entering, line_INIT, clearing>>
  PROVE  IndInv'
<1> USE DEF IndInv
<1> DEFINE NPR == PRIORITY_LEVEL_INDEX_NPR
           r == Npr.active
<1>0. /\ NPR \in Levels
      /\ Npr \in PriorityRequestLevel
      /\ LevelConsistent(NPR, Npr)
  BY LevelFacts
<1>1. CASE r = NULL
  <2>1. gone = {}
    BY <1>1, RequestAssumption DEF Requests
  <2>2. /\ failed_assert' = "dmareq"
        /\ UNCHANGED <<request_levels, complete, success, executing_on_PRU, remaining, waiting>>
    BY <1>1, <2>1 DEF ChunkComplete
  <2>3. Npr' = Npr
    BY <2>2 DEF Npr
  <2> QED
    BY <2>2, <2>3 DEF TypeOK, TablesConsistent, NoForgottenWaiter, SuccessIsComplete,
       ExecutingIsScheduled, IntrExecutingIsActive, EnterOnce, CpuSingleWord, OnlyDmareqAssert
<1>2. CASE r # NULL
  <2> DEFINE left == remaining[r] - chunk_words(r)
             more_chunks == ready /\ left # 0
             p == IF more_chunks THEN request_activate_lowest_slot(Npr) ELSE NextRequest(Npr)
             done == IF more_chunks THEN NULL ELSE r
  <2>1. /\ request_levels' = [request_levels EXCEPT ![NPR] = p]
        /\ remaining' = [remaining EXCEPT ![r] = IF ready THEN left ELSE @]
        /\ success' = [success EXCEPT ![r] = ready /\ ~more_chunks]
        /\ complete' = [complete EXCEPT ![r] = @ \/ (~more_chunks /\ r \notin CpuRequests)]
        /\ executing_on_PRU' = Executing(done, p.active)
        /\ failed_assert' = failed_assert
    BY <1>2 DEF ChunkComplete
  <2>2. /\ r \in Scheduled(Npr)
        /\ r \in DmaRequests
        /\ r \in Requests
        /\ level_index[r] = NPR
    BY <1>0, <1>2, InTable, RequestAssumption DEF Requests
  <2>3. left \in 0 .. remaining[r] /\ (r \in CpuRequests => left = 0)
    <3>1. remaining[r] \in 0 .. MaxWordcount
      BY <2>2 DEF TypeOK
    <3> QED
      BY <2>2, <3>1, WordcountAssumption DEF chunk_words, CpuSingleWord
  <2>4. /\ p \in PriorityRequestLevel
        /\ LevelConsistent(NPR, p)
        /\ Scheduled(p) = Scheduled(Npr) \ {done}
    <3>1. CASE more_chunks
      <4>1. Scheduled(Npr) \ {done} = Scheduled(Npr)
        BY <1>0, <3>1, InTable
      <4> QED
        BY <1>0, <3>1, <4>1, InTable, ActivateLevel
    <3>2. CASE ~more_chunks
      BY <1>0, <3>2, NextRequestLevel
    <3> QED
      BY <3>1, <3>2
  <2>5. /\ request_levels' \in [Levels -> PriorityRequestLevel]
        /\ TablesConsistent'
        /\ Npr' = p
    <3> HIDE DEF p
    <3> QED
      BY <1>0, <2>1, <2>4, OneLevelChanges DEF Npr
  <2>6. Scheduled(Npr)' = Scheduled(Npr) \ {done}
    BY <2>4, <2>5 DEF Scheduled
  <2> HIDE DEF p
  <2>7. TypeOK'
    <3>1. remaining' \in [DmaRequests -> 0 .. MaxWordcount]
      <4>1. remaining[r] \in 0 .. MaxWordcount /\ remaining \in [DmaRequests -> 0 .. MaxWordcount]
        BY <2>2 DEF TypeOK
      <4>2. left \in 0 .. MaxWordcount
        BY <2>3, <4>1, WordcountAssumption
      <4> HIDE DEF left
      <4> QED
        BY <2>1, <4>1, <4>2
    <3>2. executing_on_PRU' \in [Requests -> BOOLEAN]
      BY <2>1, ExecutingType DEF TypeOK
    <3>3. success' \in [DmaRequests -> BOOLEAN] /\ complete' \in [Requests -> BOOLEAN]
      BY <2>1, <2>2 DEF TypeOK
    <3> QED
      BY <2>1, <2>5, <3>1, <3>2, <3>3 DEF TypeOK, OnlyDmareqAssert
  <2>8. NoForgottenWaiter'
    <3>1. ASSUME NEW q \in waiting' \ CpuRequests
          PROVE  complete'[q] <=> q \notin Scheduled(Npr)'
      <4>1. q \in Requests /\ q \in waiting
        BY DEF TypeOK, Requests
      <4>2. CASE q = r
        <5>1. ~ complete[r]
          BY <2>2, <3>1, <4>1, <4>2 DEF NoForgottenWaiter
        <5>2. complete'[r] <=> ~more_chunks
          BY <2>1, <2>2, <3>1, <4>2, <5>1 DEF TypeOK
        <5> QED
          BY <1>2, <2>2, <2>6, <4>2, <5>2
      <4>3. CASE q # r
        <5>1. complete'[q] = complete[q]
          BY <2>1, <4>1, <4>3 DEF TypeOK
        <5>2. q # NULL
          BY <4>1, RequestAssumption
        <5> QED
          BY <2>6, <3>1, <4>1, <4>3, <5>1, <5>2 DEF NoForgottenWaiter
      <4> QED
        BY <4>2, <4>3
    <3>2. Scheduled(Npr)' \subseteq waiting'
      <4>1. gone # {} => done = r
        BY <2>3
      <4> QED
        BY <2>6, <4>1 DEF NoForgottenWaiter
    <3> QED
      BY <3>1, <3>2 DEF NoForgottenWaiter
  <2>9. SuccessIsComplete'
    <3>1. ASSUME NEW q \in DmaRequests, success'[q]
          PROVE  remaining'[q] = 0 /\ q \notin Scheduled(Npr)'
      <4>1. CASE q = r
        <5>1. ready /\ ~more_chunks
          BY <2>1, <2>2, <3>1, <4>1 DEF TypeOK
        <5>2. remaining'[r] = 0
          BY <2>1, <2>2, <5>1 DEF TypeOK
        <5> QED
          BY <2>6, <4>1, <5>1, <5>2
      <4>2. CASE q # r
        <5>1. success[q] /\ remaining'[q] = remaining[q]
          BY <2>1, <3>1, <4>2 DEF TypeOK
        <5> QED
          BY <2>6, <5>1 DEF SuccessIsComplete
      <4> QED
        BY <4>1, <4>2
    <3> QED
      BY <3>1 DEF SuccessIsComplete
  <2>10. ExecutingIsScheduled' /\ IntrExecutingIsActive'
    <3>1. p.active \in Requests \cup {NULL} /\ done \in Requests \cup {NULL}
      BY <2>2, <2>4 DEF PriorityRequestLevel
    <3>2. done # NULL => level_index[done] = NPR
      BY <2>2
    <3>3. Scheduled(request_levels[NPR]) \ {done} \subseteq Scheduled(p)
      BY <2>4 DEF Npr
    <3> HIDE DEF done
    <3> QED
      BY <1>0, <2>1, <2>4, <3>1, <3>2, <3>3, ExecutingPreserved
  <2>11. EnterOnce' /\ OnlyDmareqAssert'
    BY <2>1 DEF EnterOnce, OnlyDmareqAssert
  <2>12. CpuSingleWord'
    <3>1. ASSUME NEW q \in CpuRequests PROVE remaining'[q] <= 1
      <4>1. q \in DmaRequests /\ remaining[q] <= 1
        BY RequestAssumption DEF CpuSingleWord
      <4>2. CASE q = r
        <5>1. left = 0
          BY <2>3, <4>2
        <5>2. remaining'[q] = IF ready THEN left ELSE remaining[q]
          BY <2>1, <2>2, <4>2 DEF TypeOK
        <5> HIDE DEF left
        <5> QED
          BY <4>1, <5>1, <5>2
      <4>3. CASE q # r
        <5>1. remaining'[q] = remaining[q]
          BY <2>1, <4>1, <4>3 DEF TypeOK
        <5> QED
          BY <4>1, <5>1
      <4> QED
        BY <4>2, <4>3
    <3> QED
      BY <3>1 DEF CpuSingleWord
  <2> QED
    BY <2>5, <2>7, <2>8, <2>9, <2>10, <2>11, <2>12
<1> QED
  BY <1>1, <1>2

(* INTR() enters a request, or finds it scheduled already. *)
LEMMA INTRStep ==
  ASSUME DistinctSlots, IndInv, NEW r \in IntrRequests, INTR(r)
  PROVE  IndInv'
<1> USE DEF IndInv
<1> DEFINE level == level_index[r]
           prl == request_levels[level]
           p == ScheduleAndStart(prl, r)
           started == IF prl.active = NULL THEN p.active ELSE NULL
<1>1. /\ r \in Requests
      /\ r # NULL
      /\ r \notin DmaRequests
      /\ level # PRIORITY_LEVEL_INDEX_NPR
      /\ PRIORITY_LEVEL_INDEX_NPR \in Levels
  BY RequestAssumption DEF Requests, Levels
<1>2. /\ level \in Levels
      /\ prl \in PriorityRequestLevel
      /\ LevelConsistent(level, prl)
  BY <1>1, LevelFacts
<1>3. CASE Occupied(prl, r)
  <2>1. prl.slot_request[priority_slot[r]] = r
    BY <1>1, <1>2, <1>3, OccupiedByOwner
  <2>2. /\ entering' = entering \ {r}
        /\ UNCHANGED <<request_levels, complete, success, executing_on_PRU, remaining,
                       waiting, line_INIT, clearing, failed_assert>>
    BY <1>3, <2>1 DEF INTR
  <2>3. Npr' = Npr
    BY <2>2 DEF Npr
  <2>4. TypeOK' /\ TablesConsistent' /\ NoForgottenWaiter' /\ SuccessIsComplete'
    BY <2>2, <2>3 DEF TypeOK, TablesConsistent, NoForgottenWaiter, SuccessIsComplete
  <2> QED
    BY <2>2, <2>4 DEF ExecutingIsScheduled, IntrExecutingIsActive, EnterOnce,
       CpuSingleWord, OnlyDmareqAssert
<1>4. CASE ~Occupied(prl, r)
  <2>1. /\ request_levels' = [request_levels EXCEPT ![level] = p]
        /\ complete' = [complete EXCEPT ![r] = FALSE]
        /\ executing_on_PRU' = Executing(r, started)
        /\ entering' = entering \ {r}
        /\ UNCHANGED <<success, remaining, waiting, line_INIT, clearing, failed_assert>>
    BY <1>4 DEF INTR
  <2>2. /\ p \in PriorityRequestLevel
        /\ LevelConsistent(level, p)
        /\ Scheduled(p) = Scheduled(prl) \cup {r}
        /\ prl.active = NULL => p.active = r
        /\ prl.active # NULL => p.active = prl.active
    BY <1>1, <1>2, <1>4, ScheduleLevel
  <2> HIDE DEF p
  <2>3. /\ request_levels' \in [Levels -> PriorityRequestLevel]
        /\ TablesConsistent'
        /\ Npr' = Npr
    BY <1>1, <1>2, <2>1, <2>2, OneLevelChanges DEF Npr
  <2>4. TypeOK'
    <3>1. executing_on_PRU' \in [Requests -> BOOLEAN]
      BY <2>1, ExecutingType DEF TypeOK
    <3> QED
      BY <1>1, <2>1, <2>3, <3>1 DEF TypeOK
  <2>5. NoForgottenWaiter'
    <3>1. \A q \in waiting : complete'[q] = complete[q]
      BY <1>1, <2>1 DEF TypeOK, Requests
    <3> QED
      BY <2>1, <2>3, <3>1 DEF NoForgottenWaiter
  <2>6. SuccessIsComplete' /\ EnterOnce' /\ CpuSingleWord' /\ OnlyDmareqAssert'
    BY <2>1, <2>3 DEF SuccessIsComplete, EnterOnce, CpuSingleWord, OnlyDmareqAssert
  <2>7. ExecutingIsScheduled' /\ IntrExecutingIsActive'
    <3>1. started \in Requests \cup {NULL}
      BY <1>1, <2>2
    <3>2. Scheduled(request_levels[level]) \ {r} \subseteq Scheduled(p)
      BY <2>2
    <3>3. started # NULL => started = p.active
      OBVIOUS
    <3>4. prl.active # r
      <4>1. priority_slot[r] \in Slots
        BY <1>1, RequestAssumption
      <4> QED
        BY <1>1, <1>2, <1>4, <4>1 DEF Occupied, LevelConsistent
    <3>5. p.active # NULL /\ p.active # started =>
             p.active = request_levels[level].active /\ p.active # r
      BY <2>2, <3>4
    <3>6. request_levels[level].active \notin {NULL, r} =>
             p.active = request_levels[level].active
      BY <2>2
    <3> HIDE DEF started
    <3> QED
      BY <1>1, <1>2, <2>1, <2>2, <3>1, <3>2, <3>3, <3>5, <3>6, ExecutingPreserved
  <2> QED
    BY <2>3, <2>4, <2>5, <2>6, <2>7
<1> QED
  BY <1>3, <1>4

(* A request of an INTR level ends, by cancel_INTR() or by a PRU event.  The *)
(* request that leaves, "done", is the active one, or one that waits.        *)
LEMMA IntrEndStep ==
  ASSUME IndInv, NEW level \in Levels \ {PRIORITY_LEVEL_INDEX_NPR},
         NEW p \in PriorityRequestLevel, LevelConsistent(level, p),
         NEW done \in Requests, level_index[done] = level,
         Scheduled(p) = Scheduled(request_levels[level]) \ {done},
         request_levels' = [request_levels EXCEPT ![level] = p],
         \/ /\ done = request_levels[level].active
            /\ executing_on_PRU' = Executing(done, p.active)
         \/ /\ done # request_levels[level].active
            /\ p.active = request_levels[level].active
            /\ executing_on_PRU' = executing_on_PRU,
         complete' = [complete EXCEPT ![done] = TRUE],
         UNCHANGED <<success, remaining, entering, waiting, line_INIT, clearing,
                     failed_assert>>
  PROVE  IndInv'
<1> USE DEF IndInv
<1>1. done # NULL /\ done \notin DmaRequests /\ PRIORITY_LEVEL_INDEX_NPR \in Levels
  BY RequestAssumption DEF Requests, Levels
<1>2. /\ request_levels' \in [Levels -> PriorityRequestLevel]
      /\ TablesConsistent'
      /\ Npr' = Npr
  BY <1>1, OneLevelChanges DEF Npr
<1>3. ExecutingIsScheduled' /\ IntrExecutingIsActive' /\ executing_on_PRU' \in [Requests -> BOOLEAN]
  <2>1. CASE done = request_levels[level].active /\ executing_on_PRU' = Executing(done, p.active)
    <3>1. p.active \in Requests \cup {NULL}
      BY DEF PriorityRequestLevel
    <3>2. executing_on_PRU' \in [Requests -> BOOLEAN]
      BY <2>1, ExecutingType DEF TypeOK
    <3> QED
      BY <2>1, <3>1, <3>2, ExecutingPreserved
  <2>2. CASE /\ done # request_levels[level].active
             /\ p.active = request_levels[level].active
             /\ executing_on_PRU' = executing_on_PRU
    <3>1. /\ request_levels'[level] = p
          /\ \A l \in Levels : l # level => request_levels'[l] = request_levels[l]
      BY OneLevelChanges
    <3>2. \A q \in Requests : level_index[q] \in Levels
      BY RequestAssumption
    <3>3. \A q \in Requests : request_levels'[level_index[q]].active
                             = request_levels[level_index[q]].active
      BY <2>2, <3>1, <3>2
    <3>4. ~ executing_on_PRU[done]
      <4>1. done \in IntrRequests
        BY <1>1 DEF Requests
      <4> QED
        BY <2>2, <4>1 DEF IntrExecutingIsActive
    <3>5. ASSUME NEW q \in Requests, executing_on_PRU'[q]
          PROVE  q \in Scheduled(request_levels'[level_index[q]])
      <4>1. q # done /\ q \in Scheduled(request_levels[level_index[q]])
        BY <2>2, <3>4, <3>5 DEF ExecutingIsScheduled
      <4> QED
        BY <3>1, <3>2, <4>1
    <3>6. ExecutingIsScheduled'
      BY <2>2, <3>3, <3>5 DEF ExecutingIsScheduled
    <3>7. IntrExecutingIsActive'
      BY <2>2, <3>3 DEF IntrExecutingIsActive, Requests
    <3> QED
      BY <2>2, <3>6, <3>7 DEF TypeOK
  <2> QED
    BY <2>1, <2>2
<1>4. TypeOK'
  BY <1>2, <1>3 DEF TypeOK
<1>5. NoForgottenWaiter'
  <2>1. \A q \in waiting : complete'[q] = complete[q]
    BY <1>1 DEF TypeOK, Requests
  <2> QED
    BY <1>2, <2>1 DEF NoForgottenWaiter
<1>6. SuccessIsComplete' /\ EnterOnce' /\ CpuSingleWord' /\ OnlyDmareqAssert'
  BY <1>2 DEF SuccessIsComplete, EnterOnce, CpuSingleWord, OnlyDmareqAssert
<1> QED
  BY <1>2, <1>3, <1>4, <1>5, <1>6

LEMMA CancelStep ==
  ASSUME DistinctSlots, IndInv, NEW r \in IntrRequests, cancel_INTR(r)
  PROVE  IndInv'
<1> USE DEF IndInv
<1> DEFINE level == level_index[r]
           prl == request_levels[level]
           p == IF prl.active = r THEN NextRequest(prl)
                ELSE RemoveSlot(prl, priority_slot[r])
<1>1. /\ r \in Requests
      /\ r # NULL
      /\ level # PRIORITY_LEVEL_INDEX_NPR
      /\ Occupied(prl, r)
  BY RequestAssumption DEF Requests, cancel_INTR
<1>2. /\ level \in Levels
      /\ prl \in PriorityRequestLevel
      /\ LevelConsistent(level, prl)
  BY <1>1, LevelFacts
<1>3. prl.slot_request[priority_slot[r]] = r /\ priority_slot[r] \in Slots
  BY <1>1, <1>2, OccupiedByOwner, RequestAssumption
<1>4. /\ p \in PriorityRequestLevel
      /\ LevelConsistent(level, p)
      /\ Scheduled(p) = Scheduled(prl) \ {r}
      /\ prl.active # r => p.active = prl.active
  <2>1. CASE prl.active = r
    BY <1>1, <1>2, <2>1, NextRequestLevel
  <2>2. CASE prl.active # r
    BY <1>1, <1>2, <1>3, <2>2, RemoveLevel
  <2> QED
    BY <2>1, <2>2
<1>5. /\ request_levels' = [request_levels EXCEPT ![level] = p]
      /\ complete' = [complete EXCEPT ![r] = TRUE]
      /\ executing_on_PRU' = IF prl.active = r THEN Executing(r, p.active)
                             ELSE executing_on_PRU
      /\ failed_assert' = IF (p.slot_request_mask = {}) <=> (p.active = NULL) THEN "none"
                          ELSE "cancel_INTR"
      /\ failed_assert = "none"
      /\ UNCHANGED <<success, remaining, entering, waiting, line_INIT, clearing>>
  BY DEF cancel_INTR
<1> HIDE DEF p
<1>6. failed_assert' = failed_assert
  BY <1>4, <1>5 DEF LevelConsistent
<1> QED
  BY <1>1, <1>2, <1>4, <1>5, <1>6, IntrEndStep

LEMMA IntrEventStep ==
  ASSUME IndInv, NEW level \in Levels \ {PRIORITY_LEVEL_INDEX_NPR},
         worker_intr_event(level)
  PROVE  IndInv'
<1> USE DEF IndInv
<1> DEFINE prl == request_levels[level]
           p == NextRequest(prl)
           done == prl.active
<1>1. prl \in PriorityRequestLevel /\ LevelConsistent(level, prl)
  BY DEF TypeOK, TablesConsistent
<1>2. /\ request_levels' = [request_levels EXCEPT ![level] = p]
      /\ complete' = [r \in Requests |-> complete[r] \/ r = done]
      /\ executing_on_PRU' = Executing(done, p.active)
      /\ UNCHANGED <<success, remaining, entering, waiting, line_INIT, clearing,
                     failed_assert>>
  BY DEF worker_intr_event
<1>3. CASE done = NULL
  <2>1. \A r \in Requests : r # NULL
    BY RequestAssumption
  <2>2. p = prl
    <3>1. prl.slot_request_mask = {}
      BY <1>1, <1>3 DEF LevelConsistent
    <3> QED
      BY <1>1, <1>3, <3>1 DEF NextRequest, request_active_complete,
         request_activate_lowest_slot, PriorityRequestLevel
  <2>3. request_levels' = request_levels
    BY <1>2, <2>2 DEF TypeOK
  <2>4. complete' = complete
    BY <1>2, <1>3, <2>1 DEF TypeOK
  <2>5. executing_on_PRU' = executing_on_PRU
    <3>1. p.active = NULL
      BY <1>3, <2>2
    <3> HIDE DEF p, done
    <3> QED
      BY <1>2, <1>3, <2>1, <3>1 DEF TypeOK, Executing
  <2>6. UNCHANGED vars
    BY <1>2, <2>3, <2>4, <2>5 DEF vars
  <2> QED
    BY <2>6 DEF vars, Npr, TypeOK, TablesConsistent, NoForgottenWaiter, SuccessIsComplete,
       ExecutingIsScheduled, IntrExecutingIsActive, EnterOnce, CpuSingleWord, OnlyDmareqAssert
<1>4. CASE done # NULL
  <2>1. done \in Requests /\ level_index[done] = level
    BY <1>1, <1>4, InTable DEF PriorityRequestLevel
  <2>2. /\ p \in PriorityRequestLevel
        /\ LevelConsistent(level, p)
        /\ Scheduled(p) = Scheduled(prl) \ {done}
    BY <1>1, <1>4, NextRequestLevel
  <2>3. complete' = [complete EXCEPT ![done] = TRUE]
    BY <1>2, <2>1 DEF TypeOK
  <2> HIDE DEF p
  <2> QED
    BY <1>2, <2>1, <2>2, <2>3, IntrEndStep
<1> QED
  BY <1>3, <1>4

(* INIT and DCLO: seen, and then the tables cleared. *)
LEMMA EdgeStep ==
  ASSUME IndInv, init_edge \/ dclo_edge
  PROVE  IndInv'
<1> USE DEF IndInv, init_edge, dclo_edge
<1>1. Npr' = Npr
  BY DEF Npr
<1>2. TypeOK' /\ TablesConsistent'
  BY DEF TypeOK, TablesConsistent
<1> QED
  BY <1>1, <1>2 DEF NoForgottenWaiter, SuccessIsComplete, ExecutingIsScheduled,
     IntrExecutingIsActive, EnterOnce, CpuSingleWord, OnlyDmareqAssert

LEMMA ClearStep ==
  ASSUME IndInv, NEW signal, clear_tables(signal)
  PROVE  IndInv'
<1> USE DEF IndInv
<1> DEFINE cancelled == UNION {Scheduled(request_levels[l]) : l \in Levels}
<1>1. /\ request_levels' = [l \in Levels |-> EmptyLevel]
      /\ complete' = [r \in Requests |-> complete[r] \/ r \in cancelled]
      /\ success' = [r \in DmaRequests |-> success[r] /\ r \notin cancelled]
      /\ executing_on_PRU' = [r \in Requests |-> executing_on_PRU[r] /\ r \notin cancelled]
      /\ clearing' = clearing \ {signal}
      /\ UNCHANGED <<remaining, entering, waiting, line_INIT, failed_assert>>
  BY DEF clear_tables
<1>2. /\ \A l \in Levels : request_levels'[l] = EmptyLevel
      /\ PRIORITY_LEVEL_INDEX_NPR \in Levels
      /\ \A r \in Requests : level_index[r] \in Levels
  BY <1>1, RequestAssumption DEF Levels
<1>3. \A r \in Requests : Scheduled(request_levels[level_index[r]]) \subseteq cancelled
  BY <1>2
<1>4. Scheduled(Npr) \subseteq cancelled
  BY <1>2 DEF Npr
<1> HIDE DEF cancelled
<1>5. TypeOK' /\ TablesConsistent'
  <2>1. \A l \in Levels : EmptyLevel \in PriorityRequestLevel /\ LevelConsistent(l, EmptyLevel)
    BY EmptyLevelConsistent
  <2>2. request_levels' \in [Levels -> PriorityRequestLevel]
    BY <1>1, <2>1
  <2>3. TablesConsistent'
    BY <1>2, <2>1 DEF TablesConsistent
  <2> QED
    BY <1>1, <2>2, <2>3 DEF TypeOK
<1>6. Scheduled(Npr)' = {} /\ Npr' = EmptyLevel
  <2>1. Npr' = EmptyLevel
    BY <1>2 DEF Npr
  <2> QED
    BY <1>2, <2>1, EmptyLevelConsistent DEF Scheduled
<1>7. NoForgottenWaiter'
  <2>1. ASSUME NEW q \in waiting \ CpuRequests PROVE complete'[q]
    <3>1. q \in Requests
      BY DEF TypeOK, Requests
    <3>2. complete[q] \/ q \in cancelled
      BY <1>4 DEF NoForgottenWaiter
    <3> QED
      BY <1>1, <3>1, <3>2
  <2> QED
    BY <1>1, <1>6, <2>1 DEF NoForgottenWaiter
<1>8. SuccessIsComplete'
  BY <1>1, <1>6 DEF SuccessIsComplete
<1>9. ExecutingIsScheduled' /\ IntrExecutingIsActive'
  <2>1. \A r \in Requests : ~ executing_on_PRU'[r]
    BY <1>1, <1>3 DEF ExecutingIsScheduled
  <2>2. EmptyLevel.active = NULL /\ \A r \in Requests : r # NULL
    BY RequestAssumption DEF EmptyLevel
  <2>3. \A r \in Requests : request_levels'[level_index[r]].active = NULL
    BY <1>2, <2>2
  <2> QED
    BY <2>1, <2>2, <2>3 DEF ExecutingIsScheduled, IntrExecutingIsActive, Requests
<1>10. EnterOnce' /\ CpuSingleWord' /\ OnlyDmareqAssert'
  BY <1>1 DEF EnterOnce, CpuSingleWord, OnlyDmareqAssert
<1> QED
  BY <1>5, <1>7, <1>8, <1>9, <1>10

-----------------------------------------------------------------------------
LEMMA NextIndInv ==
  ASSUME DistinctSlots, IndInv, [Next]_vars
  PROVE  IndInv'
<1>1. ASSUME NEW r \in Requests, Enter(r) PROVE IndInv'
  BY <1>1, EnterStep
<1>2. ASSUME NEW r \in DmaRequests, NEW n \in 1 .. MaxWordcount, DMA(r, n) PROVE IndInv'
  BY <1>2, DMAStep
<1>3. ASSUME NEW r \in DmaRequests, DMA_return(r) \/ DMA_aborted(r) PROVE IndInv'
  BY <1>3, ReturnStep
<1>4. ASSUME NEW ready \in BOOLEAN, worker_dma_event(ready) PROVE IndInv'
  <2>1. /\ ChunkComplete(ready)
        /\ waiting' = waiting \ {}
        /\ UNCHANGED <<entering, line_INIT, clearing>>
    BY <1>4 DEF worker_dma_event
  <2> QED
    BY <2>1, ChunkStep
<1>5. ASSUME NEW r \in CpuRequests, NEW ready \in BOOLEAN, cpu_dma_event(r, ready) PROVE IndInv'
  <2>1. /\ ChunkComplete(ready)
        /\ {r} \in SUBSET (CpuRequests \cap {Npr.active})
        /\ waiting' = waiting \ {r}
        /\ UNCHANGED <<entering, line_INIT, clearing>>
    BY <1>5 DEF cpu_dma_event
  <2> QED
    BY <2>1, ChunkStep
<1>6. ASSUME NEW r \in IntrRequests, INTR(r) \/ cancel_INTR(r) PROVE IndInv'
  BY <1>6, INTRStep, CancelStep
<1>7. ASSUME NEW level \in Levels \ {PRIORITY_LEVEL_INDEX_NPR}, worker_intr_event(level)
      PROVE  IndInv'
  BY <1>7, IntrEventStep
<1>8. CASE init_edge \/ dclo_edge \/ \E signal \in {"INIT", "DCLO"} : clear_tables(signal)
  BY <1>8, EdgeStep, ClearStep
<1>9. CASE UNCHANGED vars
  BY <1>9 DEF vars, IndInv, Npr, TypeOK, TablesConsistent, NoForgottenWaiter,
     SuccessIsComplete, ExecutingIsScheduled, IntrExecutingIsActive, EnterOnce,
     CpuSingleWord, OnlyDmareqAssert
<1> QED
  BY <1>1, <1>2, <1>3, <1>4, <1>5, <1>6, <1>7, <1>8, <1>9 DEF Next, Aborted

(* With one request per level and slot, every section of code that holds     *)
(* requests_mutex preserves the invariant, whatever the PRU does.            *)
THEOREM Invariance ==
  ASSUME DistinctSlots
  PROVE  Spec => []IndInv
<1>1. Init => IndInv
  BY InitIndInv
<1>2. IndInv /\ [Next]_vars => IndInv'
  BY NextIndInv
<1> QED
  BY <1>1, <1>2, PTL DEF Spec

(* The parts of the invariant that the runs check, one by one: what is true  *)
(* at every release of requests_mutex, for any number of devices, slots and  *)
(* levels and any length of a DMA.                                           *)
THEOREM TypeCorrect ==
  ASSUME DistinctSlots
  PROVE  Spec => []TypeOK
<1>1. IndInv => TypeOK
  BY DEF IndInv
<1> QED
  BY <1>1, Invariance, PTL

(* The asserts of request_activate_lowest_slot() and                         *)
(* request_active_complete() never fail.                                     *)
THEOREM TablesStayConsistent ==
  ASSUME DistinctSlots
  PROVE  Spec => []TablesConsistent
<1>1. IndInv => TablesConsistent
  BY DEF IndInv
<1> QED
  BY <1>1, Invariance, PTL

(* A thread blocked in DMA() is released exactly when its request left the   *)
(* table, whatever mix of completions, INIT and DCLO got it out.             *)
THEOREM NoWaiterForgotten ==
  ASSUME DistinctSlots
  PROVE  Spec => []NoForgottenWaiter
<1>1. IndInv => NoForgottenWaiter
  BY DEF IndInv
<1> QED
  BY <1>1, Invariance, PTL

(* DMA() reports success only after all chunks, and ones set aside for a     *)
(* DMA of higher priority are counted right.                                 *)
THEOREM SuccessMeansComplete ==
  ASSUME DistinctSlots
  PROVE  Spec => []SuccessIsComplete
<1>1. IndInv => SuccessIsComplete
  BY DEF IndInv
<1> QED
  BY <1>1, Invariance, PTL

(* executing_on_PRU is never left set on a request that was removed. *)
THEOREM ExecutingOnlyScheduled ==
  ASSUME DistinctSlots
  PROVE  Spec => []ExecutingIsScheduled
<1>1. IndInv => ExecutingIsScheduled
  BY DEF IndInv
<1> QED
  BY <1>1, Invariance, PTL

(* The asserts of INTR() and cancel_INTR() fail only in a configuration that *)
(* gives two requests the same level and slot.                               *)
THEOREM IntrAssertsHold ==
  ASSUME DistinctSlots
  PROVE  Spec => []OnlyDmareqAssert
<1>1. IndInv => OnlyDmareqAssert
  BY DEF IndInv
<1> QED
  BY <1>1, Invariance, PTL

-----------------------------------------------------------------------------
(* ActiveReplacedInOrder for one level, before and after. *)
InOrder(level, prl, p) ==
  prl.active # NULL /\ p.active # prl.active =>
     \/ prl.active \notin Scheduled(p)
     \/ /\ level = PRIORITY_LEVEL_INDEX_NPR
        /\ priority_slot[p.active] < priority_slot[prl.active]

LEMMA OneLevelInOrder ==
  ASSUME TypeOK, NEW level \in Levels, NEW p,
         request_levels' = [request_levels EXCEPT ![level] = p],
         InOrder(level, request_levels[level], p)
  PROVE  ActiveReplacedInOrder
<1>1. /\ request_levels'[level] = p
      /\ \A l \in Levels : l # level => request_levels'[l] = request_levels[l]
  BY DEF TypeOK
<1>2. ASSUME NEW l \in Levels
      PROVE  InOrder(l, request_levels[l], request_levels'[l])
  <2>1. CASE l = level
    BY <1>1, <2>1
  <2>2. CASE l # level
    BY <1>1, <2>2 DEF InOrder
  <2> QED
    BY <2>1, <2>2
<1> QED
  BY <1>2 DEF ActiveReplacedInOrder, InOrder

LEMMA SameLevelsInOrder ==
  ASSUME request_levels' = request_levels
  PROVE  ActiveReplacedInOrder
BY DEF ActiveReplacedInOrder

(* Between two chunks the DMA of the lowest slot is chosen. *)
LEMMA NextChunkInOrder ==
  ASSUME NEW level \in Levels, NEW prl \in PriorityRequestLevel,
         LevelConsistent(level, prl), level = PRIORITY_LEVEL_INDEX_NPR, DistinctSlots
  PROVE  InOrder(level, prl, request_activate_lowest_slot(prl))
<1> DEFINE p == request_activate_lowest_slot(prl)
<1>1. SUFFICES ASSUME prl.active # NULL, p.active # prl.active
               PROVE  priority_slot[p.active] < priority_slot[prl.active]
  BY DEF InOrder
<1>2. /\ TableConsistent(level, prl)
      /\ prl.active \in Scheduled(prl)
      /\ Scheduled(prl) \subseteq Requests
      /\ \A r \in Scheduled(prl) : prl.slot_request[priority_slot[r]] = r
      /\ NULL \notin Scheduled(prl)
  BY <1>1, InTable
<1>3. /\ priority_slot[prl.active] \in Slots
      /\ prl.slot_request[priority_slot[prl.active]] = prl.active
  BY <1>2, RequestAssumption
<1>4. /\ p.active # NULL
      /\ p.active \in Scheduled(prl)
      /\ priority_slot[p.active] <= priority_slot[prl.active]
  BY <1>1, <1>2, <1>3, ActivateLevel
<1>5. /\ prl.slot_request[priority_slot[p.active]] = p.active
      /\ priority_slot[p.active] \in Slots
  BY <1>2, <1>4, RequestAssumption
<1> HIDE DEF p
<1>6. priority_slot[p.active] # priority_slot[prl.active]
  BY <1>1, <1>3, <1>5
<1> QED
  BY <1>3, <1>4, <1>5, <1>6, RequestAssumption DEF Slots

LEMMA NextInOrder ==
  ASSUME DistinctSlots, IndInv, [Next]_vars
  PROVE  ActiveReplacedInOrder
<1> USE DEF IndInv
<1> DEFINE NPR == PRIORITY_LEVEL_INDEX_NPR
<1>0. /\ NPR \in Levels
      /\ Npr \in PriorityRequestLevel
      /\ LevelConsistent(NPR, Npr)
      /\ Npr = request_levels[NPR]
      /\ request_levels \in [Levels -> PriorityRequestLevel]
  BY LevelFacts DEF Npr, TypeOK
<1>1. ASSUME NEW r \in DmaRequests, NEW n \in 1 .. MaxWordcount, DMA(r, n)
      PROVE  ActiveReplacedInOrder
  <2>1. CASE Occupied(Npr, r)
    BY <1>1, <2>1, SameLevelsInOrder DEF DMA
  <2>2. CASE ~Occupied(Npr, r)
    <3>1. r \in Requests /\ level_index[r] = NPR
      BY RequestAssumption DEF Requests
    <3>2. InOrder(NPR, Npr, ScheduleAndStart(Npr, r))
      BY <1>0, <2>2, <3>1, ScheduleLevel DEF InOrder
    <3>3. request_levels' = [request_levels EXCEPT ![NPR] = ScheduleAndStart(Npr, r)]
      BY <1>1, <2>2 DEF DMA
    <3> QED
      BY <1>0, <3>2, <3>3, OneLevelInOrder
  <2> QED
    BY <2>1, <2>2
<1>2. ASSUME NEW ready \in BOOLEAN, ChunkComplete(ready)
      PROVE  ActiveReplacedInOrder
  <2>1. CASE Npr.active = NULL
    BY <1>2, <2>1, SameLevelsInOrder DEF ChunkComplete
  <2>2. CASE Npr.active # NULL
    <3>1. \/ request_levels' = [request_levels EXCEPT ![NPR] = request_activate_lowest_slot(Npr)]
          \/ request_levels' = [request_levels EXCEPT ![NPR] = NextRequest(Npr)]
      BY <1>2, <2>2 DEF ChunkComplete
    <3>2. InOrder(NPR, Npr, request_activate_lowest_slot(Npr))
      BY <1>0, NextChunkInOrder
    <3>3. InOrder(NPR, Npr, NextRequest(Npr))
      BY <1>0, NextRequestLevel DEF InOrder
    <3> QED
      BY <1>0, <3>1, <3>2, <3>3, OneLevelInOrder
  <2> QED
    BY <2>1, <2>2
<1>3. ASSUME NEW r \in IntrRequests, INTR(r)
      PROVE  ActiveReplacedInOrder
  <2> DEFINE level == level_index[r]
             prl == request_levels[level]
  <2>1. r \in Requests /\ level \in Levels /\ prl \in PriorityRequestLevel
        /\ LevelConsistent(level, prl)
    BY LevelFacts DEF Requests
  <2>2. CASE Occupied(prl, r)
    BY <1>3, <2>2, SameLevelsInOrder DEF INTR
  <2>3. CASE ~Occupied(prl, r)
    <3>1. InOrder(level, prl, ScheduleAndStart(prl, r))
      BY <2>1, <2>3, ScheduleLevel DEF InOrder
    <3>2. request_levels' = [request_levels EXCEPT ![level] = ScheduleAndStart(prl, r)]
      BY <1>3, <2>3 DEF INTR
    <3> QED
      BY <2>1, <3>1, <3>2, OneLevelInOrder
  <2> QED
    BY <2>2, <2>3
<1>4. ASSUME NEW r \in IntrRequests, cancel_INTR(r)
      PROVE  ActiveReplacedInOrder
  <2> DEFINE level == level_index[r]
             prl == request_levels[level]
             p == IF prl.active = r THEN NextRequest(prl)
                  ELSE RemoveSlot(prl, priority_slot[r])
  <2>1. r \in Requests /\ level \in Levels /\ prl \in PriorityRequestLevel
        /\ LevelConsistent(level, prl)
    BY LevelFacts DEF Requests
  <2>2. prl.slot_request[priority_slot[r]] = r
    BY <1>4, <2>1, OccupiedByOwner DEF cancel_INTR
  <2>3. InOrder(level, prl, p)
    <3>1. CASE prl.active = r
      BY <2>1, <3>1, NextRequestLevel DEF InOrder
    <3>2. CASE prl.active # r
      BY <2>1, <2>2, <3>2, RemoveLevel DEF InOrder
    <3> QED
      BY <3>1, <3>2
  <2>4. request_levels' = [request_levels EXCEPT ![level] = p]
    BY <1>4 DEF cancel_INTR
  <2> HIDE DEF p
  <2> QED
    BY <2>1, <2>3, <2>4, OneLevelInOrder
<1>5. ASSUME NEW level \in Levels \ {NPR}, worker_intr_event(level)
      PROVE  ActiveReplacedInOrder
  <2> DEFINE prl == request_levels[level]
  <2>1. prl \in PriorityRequestLevel /\ LevelConsistent(level, prl)
    BY <1>0 DEF TablesConsistent
  <2>2. InOrder(level, prl, NextRequest(prl))
    BY <2>1, NextRequestLevel DEF InOrder
  <2>3. request_levels' = [request_levels EXCEPT ![level] = NextRequest(prl)]
    BY <1>5 DEF worker_intr_event
  <2> QED
    BY <2>2, <2>3, OneLevelInOrder
<1>6. ASSUME NEW signal, clear_tables(signal)
      PROVE  ActiveReplacedInOrder
  <2>1. \A l \in Levels : request_levels'[l] = EmptyLevel /\ Scheduled(EmptyLevel) = {}
    BY <1>6, EmptyLevelConsistent DEF clear_tables
  <2> QED
    BY <2>1 DEF ActiveReplacedInOrder
<1>7. CASE request_levels' = request_levels
  BY <1>7, SameLevelsInOrder
<1> QED
  BY <1>1, <1>2, <1>3, <1>4, <1>5, <1>6, <1>7
  DEF Next, Enter, DMA_return, DMA_aborted, worker_dma_event, cpu_dma_event, init_edge,
      dclo_edge, Aborted, vars

(* No DMA or INTR request on the PRU is displaced by one of lower priority,  *)
(* and an INTR request by none at all, before it completes or is cancelled.  *)
THEOREM ReplacementInOrder ==
  ASSUME DistinctSlots
  PROVE  Spec => ActiveReplacedOnlyInOrder
<1>1. IndInv /\ [Next]_vars => [ActiveReplacedInOrder]_vars
  BY NextInOrder
<1> QED
  BY <1>1, Invariance, PTL DEF Spec, ActiveReplacedOnlyInOrder
=============================================================================
