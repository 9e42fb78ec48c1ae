-------------------------- MODULE RequestScheduler --------------------------
(***************************************************************************)
(* qunibusadapter_c's scheduling of DMA and INTR requests, one action for   *)
(* each section of code that holds requests_mutex.                          *)
(*                                                                         *)
(* Device threads call DMA(), INTR() and cancel_INTR(); the emulated CPU    *)
(* calls DMA() and polls; the adapter's worker() thread applies the PRU's   *)
(* completion events and clears the tables on INIT and DCLO.  The PRU is    *)
(* not restricted at all here: its events may arrive at any moment.  When   *)
(* they really arrive is the subject of DmaScheduling and IntrScheduling,   *)
(* which implement this specification.                                      *)
(***************************************************************************)
EXTENDS PriorityRequests

CONSTANTS
  device_vector,          \* INTR request -> its device and vector
  PRU_MAX_DMA_WORDCOUNT,  \* words the mailbox can hold: the largest chunk
  MaxWordcount            \* bound: the longest DMA a device asks for

ASSUME WordcountAssumption ==
  /\ PRU_MAX_DMA_WORDCOUNT \in Nat \ {0}
  /\ MaxWordcount \in Nat \ {0}

VARIABLES
  request_levels,    \* level -> priority_request_level_c
  complete,          \* request -> its "complete" flag
  success,           \* DMA request -> its "success" flag
  executing_on_PRU,  \* request -> its "executing_on_PRU" flag
  remaining,         \* DMA request -> wordcount - wordcount_completed_chunks()
  entering,          \* requests whose DMA()/INTR() passed the test of line_INIT
                     \* and now waits for requests_mutex
  waiting,           \* DMA requests whose caller is blocked in, or polls, DMA()
  line_INIT,         \* INIT, as last seen by worker()
  clearing,          \* the signals for which worker() is about to clear the tables
  failed_assert      \* the assert() that ended the program, or "none"

vars == <<request_levels, complete, success, executing_on_PRU, remaining,
          entering, waiting, line_INIT, clearing, failed_assert>>

TypeOK ==
  /\ request_levels \in [Levels -> PriorityRequestLevel]
  /\ complete \in [Requests -> BOOLEAN]
  /\ success \in [DmaRequests -> BOOLEAN]
  /\ executing_on_PRU \in [Requests -> BOOLEAN]
  /\ remaining \in [DmaRequests -> 0 .. MaxWordcount]
  /\ entering \subseteq Requests
  /\ waiting \subseteq DmaRequests
  /\ line_INIT \in BOOLEAN
  /\ clearing \subseteq {"INIT", "DCLO"}
  /\ failed_assert \in {"none", "dmareq", "INTR slot", "cancel_INTR"}

Init ==
  /\ request_levels = [l \in Levels |-> EmptyLevel]
  /\ complete = [r \in Requests |-> FALSE]
  /\ success = [r \in DmaRequests |-> FALSE]
  /\ executing_on_PRU = [r \in Requests |-> FALSE]
  /\ remaining = [r \in DmaRequests |-> 0]
  /\ entering = {}
  /\ waiting = {}
  /\ line_INIT = FALSE
  /\ clearing = {}
  /\ failed_assert = "none"

Npr == request_levels[PRIORITY_LEVEL_INDEX_NPR]

(* Faulty: a request that ended keeps its flag. *)
ExecutingKept(done, started) ==
  [r \in Requests |-> r = started \/ executing_on_PRU[r]]

(* executing_on_PRU after request "done" ended and "started", if any, was    *)
(* handed to the PRU by request_execute_active_on_PRU().                     *)
Executing(done, started) ==
  [r \in Requests |-> r = started \/ (executing_on_PRU[r] /\ r # done)]

chunk_words(r) ==
  IF remaining[r] < PRU_MAX_DMA_WORDCOUNT THEN remaining[r]
  ELSE PRU_MAX_DMA_WORDCOUNT

-----------------------------------------------------------------------------
(* DMA() and INTR() up to the lock: ignored while INIT is asserted.  A       *)
(* device has at most one DMA() on a request; INTR() may be raised again     *)
(* while the same request is pending.                                        *)
Enter(r) ==
  /\ failed_assert = "none"
  /\ r \notin entering \cup waiting
  /\ IF line_INIT
       THEN complete' = [complete EXCEPT ![r] = TRUE] /\ UNCHANGED entering
       ELSE entering' = entering \cup {r} /\ UNCHANGED complete
  /\ UNCHANGED <<request_levels, success, executing_on_PRU, remaining, waiting,
                 line_INIT, clearing, failed_assert>>

(* DMA() under the lock.  A request for an occupied slot is refused: it      *)
(* completes without success.                                                *)
DMA(r, wordcount) ==
  /\ failed_assert = "none"
  /\ r \in entering \cap DmaRequests
  /\ r \in CpuRequests => wordcount = 1
  /\ entering' = entering \ {r}
  /\ success' = [success EXCEPT ![r] = FALSE]
  /\ remaining' = [remaining EXCEPT ![r] = wordcount]
  /\ IF Occupied(Npr, r)
       THEN /\ complete' = [complete EXCEPT ![r] = TRUE]
            /\ executing_on_PRU' = [executing_on_PRU EXCEPT ![r] = FALSE]
            /\ UNCHANGED <<request_levels, waiting>>
       ELSE LET prl == ScheduleAndStart(Npr, r)
            IN  /\ request_levels' =
                     [request_levels EXCEPT ![PRIORITY_LEVEL_INDEX_NPR] = prl]
                /\ complete' = [complete EXCEPT ![r] = FALSE]
                /\ executing_on_PRU' =
                     Executing(r, IF Npr.active = NULL THEN prl.active ELSE NULL)
                /\ waiting' = waiting \cup {r}
  /\ UNCHANGED <<line_INIT, clearing, failed_assert>>

(* DMA() returns to a device thread woken by complete_cond. *)
DMA_return(r) ==
  /\ failed_assert = "none"
  /\ r \in waiting \ CpuRequests
  /\ complete[r]
  /\ waiting' = waiting \ {r}
  /\ UNCHANGED <<request_levels, complete, success, executing_on_PRU, remaining,
                 entering, line_INIT, clearing, failed_assert>>

(* The CPU's polling loop ends without data: "request aborted by             *)
(* worker_power_event()".                                                    *)
DMA_aborted(r) ==
  /\ failed_assert = "none"
  /\ r \in waiting \cap CpuRequests
  /\ Npr.active = NULL
  /\ waiting' = waiting \ {r}
  /\ UNCHANGED <<request_levels, complete, success, executing_on_PRU, remaining,
                 entering, line_INIT, clearing, failed_assert>>

(* worker_device_dma_chunk_complete_event(), with the PRU's cur_status       *)
(* READY or not.  More chunks: the next one may belong to a request of lower *)
(* slot that came in between.                                                *)
ChunkComplete(ready) ==
  IF Npr.active = NULL
    THEN /\ failed_assert' = "dmareq"
         /\ UNCHANGED <<request_levels, complete, success, executing_on_PRU,
                        remaining>>
    ELSE LET r == Npr.active
             left == remaining[r] - chunk_words(r)
             more_chunks == ready /\ left # 0
             prl == IF more_chunks THEN request_activate_lowest_slot(Npr)
                    ELSE NextRequest(Npr)
         IN  /\ request_levels' =
                  [request_levels EXCEPT ![PRIORITY_LEVEL_INDEX_NPR] = prl]
             /\ remaining' = [remaining EXCEPT ![r] = IF ready THEN left ELSE @]
             /\ success' = [success EXCEPT ![r] = ready /\ ~more_chunks]
             /\ complete' = [complete EXCEPT ![r] =
                               @ \/ (~more_chunks /\ r \notin CpuRequests)]
             /\ executing_on_PRU' =
                  Executing(IF more_chunks THEN NULL ELSE r, prl.active)
             /\ UNCHANGED failed_assert

(* worker() applies the PRU's dma event. *)
worker_dma_event(ready) ==
  /\ failed_assert = "none"
  /\ ChunkComplete(ready)
  /\ UNCHANGED <<entering, waiting, line_INIT, clearing>>

(* The CPU finds the dma event of its own access in the polling loop. *)
cpu_dma_event(r, ready) ==
  /\ failed_assert = "none"
  /\ r \in waiting \cap CpuRequests
  /\ Npr.active = r
  /\ ChunkComplete(ready)
  /\ waiting' = waiting \ {r}
  /\ UNCHANGED <<entering, line_INIT, clearing>>

-----------------------------------------------------------------------------
(* INTR() under the lock.  A request already scheduled is not raised again;  *)
(* the asserts allow only the same device and vector in that slot.           *)
INTR(r) ==
  /\ failed_assert = "none"
  /\ r \in entering \cap IntrRequests
  /\ LET level == level_index[r]
         prl == request_levels[level]
         scheduled == prl.slot_request[priority_slot[r]]
         prl2 == ScheduleAndStart(prl, r)
     IN  IF Occupied(prl, r)
           THEN /\ IF device_vector[scheduled] = device_vector[r]
                     THEN UNCHANGED failed_assert
                     ELSE failed_assert' = "INTR slot"
                /\ UNCHANGED <<request_levels, complete, executing_on_PRU>>
           ELSE /\ request_levels' = [request_levels EXCEPT ![level] = prl2]
                /\ complete' = [complete EXCEPT ![r] = FALSE]
                /\ executing_on_PRU' =
                     Executing(r, IF prl.active = NULL THEN prl2.active ELSE NULL)
                /\ UNCHANGED failed_assert
  /\ entering' = entering \ {r}
  /\ UNCHANGED <<success, remaining, waiting, line_INIT, clearing>>

(* cancel_INTR(), all of it under the lock. *)
cancel_INTR(r) ==
  LET level == level_index[r]
      prl == request_levels[level]
      prl2 == IF prl.active = r THEN NextRequest(prl)
              ELSE RemoveSlot(prl, priority_slot[r])
  IN  /\ failed_assert = "none"
      /\ Occupied(prl, r)
      /\ request_levels' = [request_levels EXCEPT ![level] = prl2]
      /\ complete' = [complete EXCEPT ![r] = TRUE]
      /\ executing_on_PRU' =
           IF prl.active = r THEN Executing(r, prl2.active) ELSE executing_on_PRU
      /\ failed_assert' =
           IF (prl2.slot_request_mask = {}) <=> (prl2.active = NULL) THEN "none"
           ELSE "cancel_INTR"
      /\ UNCHANGED <<success, remaining, entering, waiting, line_INIT, clearing>>

(* worker() applies the PRU's intr_master event of a level:                  *)
(* worker_intr_complete_event().                                             *)
worker_intr_event(level) ==
  LET prl == request_levels[level]
      prl2 == NextRequest(prl)
  IN  /\ failed_assert = "none"
      /\ request_levels' = [request_levels EXCEPT ![level] = prl2]
      /\ complete' = [r \in Requests |-> complete[r] \/ r = prl.active]
      /\ executing_on_PRU' = Executing(prl.active, prl2.active)
      /\ UNCHANGED <<success, remaining, entering, waiting, line_INIT, clearing,
                     failed_assert>>

-----------------------------------------------------------------------------
(* worker() sees an edge of INIT; the tables are cleared later, by           *)
(* worker_init_event().                                                      *)
init_edge ==
  /\ failed_assert = "none"
  /\ "INIT" \notin clearing
  /\ line_INIT' = ~line_INIT
  /\ clearing' = clearing \cup {"INIT"}
  /\ UNCHANGED <<request_levels, complete, success, executing_on_PRU, remaining,
                 entering, waiting, failed_assert>>

(* worker() sees the raising edge of DCLO and calls worker_power_event(). *)
dclo_edge ==
  /\ failed_assert = "none"
  /\ "DCLO" \notin clearing
  /\ clearing' = clearing \cup {"DCLO"}
  /\ UNCHANGED <<request_levels, complete, success, executing_on_PRU, remaining,
                 entering, waiting, line_INIT, failed_assert>>

(* Faulty: the tables are emptied and no caller is told. *)
clear_tables_only(signal) ==
  /\ failed_assert = "none"
  /\ signal \in clearing
  /\ clearing' = clearing \ {signal}
  /\ request_levels' = [l \in Levels |-> EmptyLevel]
  /\ UNCHANGED <<complete, success, executing_on_PRU, remaining, entering, waiting,
                 line_INIT, failed_assert>>

(* requests_cancel_scheduled() and requests_init() under the lock, called by *)
(* worker_init_event() and worker_power_event(): every scheduled request     *)
(* completes, a DMA without success.                                         *)
clear_tables(signal) ==
  LET cancelled == UNION {Scheduled(request_levels[l]) : l \in Levels}
  IN  /\ failed_assert = "none"
      /\ signal \in clearing
      /\ clearing' = clearing \ {signal}
      /\ request_levels' = [l \in Levels |-> EmptyLevel]
      /\ complete' = [r \in Requests |-> complete[r] \/ r \in cancelled]
      /\ success' = [r \in DmaRequests |-> success[r] /\ r \notin cancelled]
      /\ executing_on_PRU' =
           [r \in Requests |-> executing_on_PRU[r] /\ r \notin cancelled]
      /\ UNCHANGED <<remaining, entering, waiting, line_INIT, failed_assert>>

(* An assert() has ended the program. *)
Aborted == failed_assert # "none" /\ UNCHANGED vars

Next ==
  \/ \E r \in Requests : Enter(r)
  \/ \E r \in DmaRequests, n \in 1 .. MaxWordcount : DMA(r, n)
  \/ \E r \in DmaRequests : DMA_return(r) \/ DMA_aborted(r)
  \/ \E ready \in BOOLEAN : worker_dma_event(ready)
  \/ \E r \in CpuRequests, ready \in BOOLEAN : cpu_dma_event(r, ready)
  \/ \E r \in IntrRequests : INTR(r) \/ cancel_INTR(r)
  \/ \E level \in Levels \ {PRIORITY_LEVEL_INDEX_NPR} : worker_intr_event(level)
  \/ init_edge \/ dclo_edge
  \/ \E signal \in {"INIT", "DCLO"} : clear_tables(signal)
  \/ Aborted

Spec == Init /\ [][Next]_vars

-----------------------------------------------------------------------------
(* No two requests were given the same level and slot.  set_priority_slot()  *)
(* only warns of it, so this is an assumption about the configuration.       *)
DistinctSlots ==
  \A r, q \in Requests :
     level_index[r] = level_index[q] /\ priority_slot[r] = priority_slot[q]
        => r = q

(* At every release of requests_mutex the tables of all levels are           *)
(* consistent: the conditions of the asserts in                              *)
(* request_activate_lowest_slot() and request_active_complete().             *)
TablesConsistent ==
  \A l \in Levels : LevelConsistent(l, request_levels[l])

(* A thread blocked in DMA() is never forgotten and never released early:    *)
(* its request is in the table exactly as long as it is not complete, so     *)
(* some later event will wake it, and the PRU no longer uses the buffer of a *)
(* DMA() that has returned.                                                  *)
NoForgottenWaiter ==
  /\ \A r \in waiting \ CpuRequests : complete[r] <=> r \notin Scheduled(Npr)
  /\ Scheduled(Npr) \subseteq waiting

(* A DMA reports success only when all its chunks were transferred, and only *)
(* once it is out of the table.                                              *)
SuccessIsComplete ==
  \A r \in DmaRequests :
     success[r] => remaining[r] = 0 /\ r \notin Scheduled(Npr)

(* executing_on_PRU is set for the active request and for none outside the   *)
(* tables.                                                                   *)
ExecutingIsScheduled ==
  \A r \in Requests :
     /\ request_levels[level_index[r]].active = r => executing_on_PRU[r]
     /\ executing_on_PRU[r] => r \in Scheduled(request_levels[level_index[r]])

(* What the proof of the above needs besides: DMA() is not entered again by  *)
(* a caller that waits in it, and on the INTR levels, where a request is     *)
(* never set aside between chunks, only the active request is executing.     *)
EnterOnce == entering \cap waiting = {}

IntrExecutingIsActive ==
  \A r \in IntrRequests :
     executing_on_PRU[r] => request_levels[level_index[r]].active = r

(* "CPU accesses only single words". *)
CpuSingleWord == \A r \in CpuRequests : remaining[r] <= 1

(* The only assert() that calls of devices and events of the PRU can make    *)
(* fail is the one on a DMA completion without active DMA.                   *)
OnlyDmareqAssert == failed_assert \in {"none", "dmareq"}

(* The inductive invariant. *)
IndInv ==
  /\ TypeOK
  /\ TablesConsistent
  /\ NoForgottenWaiter
  /\ SuccessIsComplete
  /\ ExecutingIsScheduled
  /\ IntrExecutingIsActive
  /\ EnterOnce
  /\ CpuSingleWord
  /\ OnlyDmareqAssert

(* A request on the PRU is only replaced by one of its level when it was     *)
(* completed or cancelled, or, between two chunks, by a DMA of a higher      *)
(* priority (lower) slot.                                                    *)
ActiveReplacedInOrder ==
  \A l \in Levels :
     LET old == request_levels[l].active
         new == request_levels'[l].active
     IN  old # NULL /\ new # old =>
           \/ old \notin Scheduled(request_levels'[l])
           \/ /\ l = PRIORITY_LEVEL_INDEX_NPR
              /\ priority_slot[new] < priority_slot[old]

ActiveReplacedOnlyInOrder == [][ActiveReplacedInOrder]_vars
=============================================================================
