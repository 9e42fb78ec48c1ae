-------------------------- MODULE PriorityRequests --------------------------
(***************************************************************************)
(* The [level, slot] request tables of qunibusadapter_c.                    *)
(*                                                                         *)
(* A bus request has an arbitration level (BR4..BR7 = 0..3, NPR = 4) and a  *)
(* backplane slot.  Each level has a table of the waiting requests, indexed *)
(* by slot, a bit mask of the occupied slots (here: the set of the bits)    *)
(* and the one request that was handed to the PRU, "active".  This module   *)
(* has the functions that change one level; the modules that extend it have *)
(* the threads that call them under requests_mutex.                         *)
(***************************************************************************)
EXTENDS Integers, FiniteSetsExt

CONSTANTS
  DmaRequests,      \* the dma_request_c objects of devices and CPU
  CpuRequests,      \* those with is_cpu_access
  IntrRequests,     \* the intr_request_c objects
  level_index,      \* request -> level
  priority_slot,    \* request -> slot
  NULL,             \* no request
  PRIORITY_LEVEL_INDEX_NPR,  \* 4 in the code: the INTR levels are below it
  PRIORITY_SLOT_COUNT        \* 32 in the code

Requests == DmaRequests \cup IntrRequests
Levels == 0 .. PRIORITY_LEVEL_INDEX_NPR
Slots == 0 .. (PRIORITY_SLOT_COUNT - 1)

(* DMA() and INTR() assert the level and the slot range of every request,   *)
(* and that a CPU access uses the slot of lowest priority.                  *)
ASSUME RequestAssumption ==
  /\ PRIORITY_LEVEL_INDEX_NPR \in Nat
  /\ PRIORITY_SLOT_COUNT \in Nat \ {0}
  /\ DmaRequests \cap IntrRequests = {}
  /\ CpuRequests \subseteq DmaRequests
  /\ NULL \notin Requests
  /\ level_index \in [Requests -> Levels]
  /\ priority_slot \in [Requests -> Slots]
  /\ \A r \in DmaRequests : level_index[r] = PRIORITY_LEVEL_INDEX_NPR
  /\ \A r \in IntrRequests : level_index[r] # PRIORITY_LEVEL_INDEX_NPR
  /\ \A r \in CpuRequests : priority_slot[r] = PRIORITY_SLOT_COUNT - 1

(* class priority_request_level_c *)
PriorityRequestLevel ==
  [slot_request      : [Slots -> Requests \cup {NULL}],
   slot_request_mask : SUBSET Slots,
   active            : Requests \cup {NULL}]

(* A level after requests_init(), and after requests_cancel_scheduled(). *)
EmptyLevel ==
  [slot_request      |-> [s \in Slots |-> NULL],
   slot_request_mask |-> {},
   active            |-> NULL]

(* The requests waiting in, or executed from, a level's table. *)
Scheduled(prl) == {prl.slot_request[s] : s \in Slots} \ {NULL}

Occupied(prl, r) == prl.slot_request[priority_slot[r]] # NULL

(* request_schedule(): enter r into a slot found free. *)
request_schedule(prl, r) ==
  [prl EXCEPT !.slot_request[priority_slot[r]] = r,
              !.slot_request_mask = @ \cup {priority_slot[r]}]

(* Faulty: the highest bit. *)
request_activate_highest_slot(prl) ==
  [prl EXCEPT !.active = IF prl.slot_request_mask = {} THEN NULL
                         ELSE prl.slot_request[Max(prl.slot_request_mask)]]

(* request_activate_lowest_slot(): __builtin_ffs() finds the lowest bit. *)
request_activate_lowest_slot(prl) ==
  [prl EXCEPT !.active = IF prl.slot_request_mask = {} THEN NULL
                         ELSE prl.slot_request[Min(prl.slot_request_mask)]]

(* Faulty: the mask bit is forgotten. *)
RemoveSlotNotMask(prl, slot) ==
  [prl EXCEPT !.slot_request[slot] = NULL]

(* Clear one slot: the table part of request_active_complete() and of       *)
(* cancel_INTR() for a request that is not active.                          *)
RemoveSlot(prl, slot) ==
  [prl EXCEPT !.slot_request[slot] = NULL,
              !.slot_request_mask = @ \ {slot}]

(* Faulty: the slot stays occupied. *)
request_active_complete_kept(prl) == [prl EXCEPT !.active = NULL]

(* request_active_complete(): nothing to do if INIT emptied the tables. *)
request_active_complete(prl) ==
  IF prl.active = NULL THEN prl
  ELSE [RemoveSlot(prl, priority_slot[prl.active]) EXCEPT !.active = NULL]

(* request_active_complete() followed by request_activate_lowest_slot(): how *)
(* the PRU gets the next request of a level.                                 *)
NextRequest(prl) == request_activate_lowest_slot(request_active_complete(prl))

(* DMA() and INTR(): schedule, and start it if the PRU has no request of     *)
(* this level.                                                               *)
ScheduleAndStart(prl, r) ==
  LET scheduled == request_schedule(prl, r)
  IN  IF prl.active = NULL THEN request_activate_lowest_slot(scheduled)
      ELSE scheduled

(* Table, mask and active tell the same story, which is what the asserts of  *)
(* request_activate_lowest_slot(), request_active_complete() and             *)
(* cancel_INTR() demand: a mask bit is set exactly for an occupied slot, the *)
(* PRU has a request exactly if one is scheduled, and that one is still in   *)
(* the table; every request sits in the slot it was assigned.                *)
LevelConsistent(level, prl) ==
  /\ prl.slot_request_mask = {s \in Slots : prl.slot_request[s] # NULL}
  /\ (prl.slot_request_mask = {}) <=> (prl.active = NULL)
  /\ prl.active # NULL => prl.slot_request[priority_slot[prl.active]] = prl.active
  /\ \A s \in Slots : prl.slot_request[s] # NULL =>
        /\ priority_slot[prl.slot_request[s]] = s
        /\ level_index[prl.slot_request[s]] = level
=============================================================================
