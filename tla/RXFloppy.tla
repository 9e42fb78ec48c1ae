------------------------------ MODULE RXFloppy ------------------------------
(***************************************************************************)
(* RX11 and RX211 with the microprocessor of the RX01/02 floppy box.  Up to *)
(* four threads: the adapter's (register accesses, INIT), the worker of     *)
(* RX0102uCPU_c, which executes the steps of a function and holds           *)
(* on_worker_mutex except when it waits, and in the RX211 the worker that   *)
(* moves the sector buffer by DMA.  init() and go() need that mutex, but    *)
(* change the signals and the disk address before they have it.  The worker *)
(* of the RX211 has a mutex too, on_after_register_access_mutex, which it   *)
(* holds except when it waits, through DMA() as well, and which a write of  *)
(* RXCS needs.  Nothing serialises update_status(): what a call has read is *)
(* shown in a step of its own, and rx_status has it in between.             *)
(* A register access is one step up to the lock it needs, and so is a step  *)
(* of the microprocessor's program.  Left out: contents, RXES and the error *)
(* codes, the power switch, the place in the image, and preemption inside   *)
(* the RX211's loop over the words and after the comparison in              *)
(* update_status().                                                         *)
(***************************************************************************)
EXTENDS Integers, Sequences

CONSTANTS
  RXModels,         \* the controllers: "RX11", "RX211"
  RXUnits,          \* the drives
  RXOpen,           \* the drives with an image
  RXDouble,         \* the drives with double density
  RXTracks,         \* tracks of a drive, from 0
  RXSectors,        \* sectors of a track, from 1
  RXBufferBytes,    \* bytes of a single density sector
  RXStatusWords,    \* words of the extended status
  RXCommands,       \* what the program writes into RXCS
  RXData,           \* what the program writes into RXDB
  RXMaxCommands,    \* bound: commands with GO
  RXMaxWrites,      \* bound: writes of RXCS that start nothing
  RXMaxInits,       \* bound: INIT pulses and writes of the INIT bit
  RXPrompt          \* whether the workers are as fast as their priorities promise

RXDma == {"FILL_BUFFER", "EMPTY_BUFFER", "READ_ERROR_CODE"}
RXAddressed == {"WRITE_SECTOR", "READ_SECTOR", "WRITE_SECTOR_WITH_DELETED_DATA"}
RXFunctions == RXDma \cup RXAddressed \cup {"SET_MEDIA_DENSITY", "READ_STATUS"}

ASSUME RXAssumption ==
  /\ RXModels \subseteq {"RX11", "RX211"} /\ 0 \in RXUnits /\ RXOpen \cup RXDouble \subseteq RXUnits
  /\ {RXTracks, RXSectors, RXBufferBytes, RXStatusWords} \subseteq Nat \ {0} /\ RXTracks > 1
  /\ RXCommands \subseteq
       [init : BOOLEAN, go : BOOLEAN, fn : RXFunctions, ie : BOOLEAN, density : BOOLEAN, unit : RXUnits]
  /\ RXData \subseteq Nat
  /\ {RXMaxCommands, RXMaxWrites, RXMaxInits} \subseteq Nat /\ RXPrompt \in BOOLEAN

VARIABLES
  rx,        \* RX11_c or RX211_c: registers, state, and its worker()
  rx_up,     \* RX0102uCPU_c: signals, program, mutex, and its worker()
  rx_call,   \* what the adapter's thread waits for the mutex to do
  rx_drive,  \* RX0102drive_c of each unit
  rx_status, \* what each thread has read in update_status(), and not yet shown
  rx_past    \* history

rxvars == <<rx, rx_up, rx_call, rx_drive, rx_status, rx_past>>

RXThreads == {"adapter", "up", "dma"}

-----------------------------------------------------------------------------
\* update_status() reads the signals of the controller and of the microprocessor, when
\* another thread may be in update_status() too.
rx_read(c, u) ==
  [done |-> c.done /\ u.done, ie |-> c.ie, err |-> u.err,
   tr |-> IF c.state = "base" THEN u.tr ELSE c.state # "dma_busy"]

Updated(t, c, u) ==
  /\ rx' = c /\ rx_up' = u
  /\ rx_status' = [rx_status EXCEPT ![t] = <<rx_read(c, u)>>,
                     !.overlapped = @ \/ \E o \in RXThreads \ {t} : rx_status[o] # <<>>]

\* The mutant forgets to cancel an interrupt that the program no longer waits for.
update_status_uncancelled(c, s) ==
  LET cond == s.done /\ s.ie
      rises == cond /\ ~c.prev
  IN  [c EXCEPT !.prev = cond, !.intr = IF rises THEN ~c.line_INIT ELSE @,
                !.cs = [done |-> s.done, tr |-> s.tr, err |-> s.err]]

\* And shows them in RXCS: an interrupt when DONE and IE get true, and its cancellation
\* while they are not.  INTR() does nothing under INIT.
update_status(c, s) ==
  LET cond == s.done /\ s.ie
      rises == cond /\ ~c.prev
  IN  [c EXCEPT !.prev = cond,
                !.cs = IF rises /\ c.line_INIT THEN @ ELSE [done |-> s.done, tr |-> s.tr, err |-> s.err],
                !.intr = IF rises THEN ~c.line_INIT ELSE cond /\ @]

\* go() calls it under on_worker_mutex, and so does the microprocessor before it waits.
status_shown(t) ==
  /\ rx_status[t] # <<>>
  /\ rx' = update_status(rx, Head(rx_status[t]))
  /\ rx_up' = [rx_up EXCEPT !.mutex = IF @ = t /\ (t = "up" => rx_up.pc = "transfer") THEN "free" ELSE @]
  /\ rx_status' = [rx_status EXCEPT ![t] = <<>>]
  /\ UNCHANGED <<rx_call, rx_drive, rx_past>>

is_RX02 == rx.model = "RX211"

\* get_transfer_byte_count() with the word count of the RX211.
rx_bytes(fn, density) ==
  CASE fn \in {"FILL_BUFFER", "EMPTY_BUFFER"} -> IF is_RX02 /\ density THEN 2 * RXBufferBytes ELSE RXBufferBytes
    [] fn \in RXAddressed -> 2
    [] fn = "SET_MEDIA_DENSITY" -> IF is_RX02 THEN 1 ELSE 0
    [] fn = "READ_ERROR_CODE" -> IF is_RX02 THEN 2 * RXStatusWords ELSE 0
    [] OTHER -> 0

\* The steps of a function, in order.
rx_program(fn, error) ==
  CASE fn = "FILL_BUFFER" -> <<"transfer_buffer_write", "done">>
    [] fn = "EMPTY_BUFFER" -> <<"transfer_buffer_read", "done">>
    [] fn = "READ_SECTOR" -> <<"transfer_buffer_write", "seek", "head_settle", "sector_read", "done">>
    [] fn \in {"WRITE_SECTOR", "WRITE_SECTOR_WITH_DELETED_DATA"} ->
         <<"transfer_buffer_write", "seek", "head_settle", "sector_write", "done">>
    [] fn = "SET_MEDIA_DENSITY" ->
         IF ~is_RX02 THEN <<>> ELSE IF error THEN <<"done">>
         ELSE <<"transfer_buffer_write", "seek", "format_track">>
              \o [i \in 1 .. 2 * (RXTracks - 1) |-> IF i % 2 = 1 THEN "seek_next" ELSE "format_track"]
              \o <<"done">>
    [] fn = "READ_STATUS" -> <<"done">>
    [] fn = "READ_ERROR_CODE" ->
         (IF is_RX02 THEN <<"transfer_buffer_read">> ELSE <<>>) \o <<"done_read_error_code">>

\* The mutant's signal is noticed only by a worker without a program.
rx_signal_idle(u) == [u EXCEPT !.signalled = @ \/ u.pc = "wait"]

\* Under the mutex worker() is told: it notices if it is in a wait.
rx_signal(u) == [u EXCEPT !.signalled = @ \/ u.pc \in {"wait", "transfer"}]

\* History: INIT, or another drive or function in RXCS, while a function is executed.
rx_busy == rx_up.pgm # <<>> \/ rx.worker # "wait" \/ rx.state # "base"

RXDisturbs == [rx_past EXCEPT !.inits = @ + 1, !.disturbed = @ \/ rx_busy]

RXChanges(c) ==
  rx_busy /\ (c.unit # rx.unit \/ (is_RX02 /\ <<c.fn, c.density>> # <<rx.fn, rx.density>>))

\* init() up to the mutex: the signals, the heads and the disk address, at once.
rx_init(c) ==
  LET u == [rx_up EXCEPT !.density = rx_drive[c.unit].double, !.done = FALSE, !.err = FALSE,
                         !.tr = FALSE, !.ta = 1, !.sa = 1]
  IN  /\ Updated("adapter", [c EXCEPT !.unit = 0], u)
      /\ rx_drive' = [d \in RXUnits |-> [rx_drive[d] EXCEPT !.cyl = 0]]

\* init() with the mutex: the program that reads the boot sector.
init_program ==
  /\ rx_call \in {"init", "reset"} /\ rx_up.mutex = "free"
  /\ LET u == rx_signal([rx_up EXCEPT !.pgm = <<"seek", "sector_read", "init_done">>])
     IN  IF rx_call = "reset" THEN Updated("adapter", rx, u)
         ELSE rx_up' = u /\ UNCHANGED <<rx, rx_status>>
  /\ rx_call' = "none"
  /\ UNCHANGED <<rx_drive, rx_past>>

\* go() of thread t with the mutex; c is the controller afterwards.  A new density takes
\* effect, and the image is truncated, before the key word is asked for.
go_program(t, c) ==
  LET fn == rx_up.fn
      d == rx_drive[c.unit]
      formats == is_RX02 /\ fn = "SET_MEDIA_DENSITY"
      error == formats /\ ~d.open
      u == [rx_up EXCEPT !.done = fn = "SET_MEDIA_DENSITY" /\ ~is_RX02, !.err = error, !.tr = FALSE,
              !.count = IF is_RX02 /\ fn \in {"FILL_BUFFER", "EMPTY_BUFFER"} THEN 2 * c.wc
                        ELSE rx_bytes(fn, rx_up.density),
              !.ta = IF formats /\ ~error THEN 0 ELSE @,
              !.pgm = rx_program(fn, error), !.mutex = t]
  IN  /\ rx_up.mutex = "free"
      /\ Updated(t, c, rx_signal(u))
      /\ rx_drive' = IF formats /\ ~error THEN [rx_drive EXCEPT ![c.unit].double = rx_up.density]
                     ELSE rx_drive

-----------------------------------------------------------------------------
(* Adapter's thread: the program's accesses and INIT.                       *)

Accessible == rx.enabled /\ ~rx.line_INIT /\ rx_call = "none"

\* A write to RXCS with on_after_register_access_mutex, which it has until "unlock".
RXCS_locked(cmd) ==
  LET c == [rx EXCEPT !.unit = cmd.unit, !.fn = cmd.fn, !.density = cmd.density, !.ie = cmd.ie, !.w = <<>>]
  IN  \/ /\ cmd.init
         /\ rx_init(c)
         /\ rx_call' = "init"
         /\ rx_past' = RXDisturbs
      \/ /\ ~cmd.init /\ cmd.go /\ rx_up.done /\ is_RX02 /\ cmd.fn \in RXDma
         /\ Updated("adapter",
              [c EXCEPT !.done = FALSE, !.nxm = FALSE,
                 !.words = IF cmd.fn = "READ_ERROR_CODE" THEN RXStatusWords ELSE @,
                 !.state = IF cmd.fn = "READ_ERROR_CODE" THEN "wait_rx2ba" ELSE "wait_rx2wc"], rx_up)
         /\ rx_call' = "unlock"
         /\ rx_past' = [rx_past EXCEPT !.commands = @ + 1]
         /\ UNCHANGED rx_drive
      \/ /\ ~cmd.init /\ cmd.go /\ rx_up.done /\ ~(is_RX02 /\ cmd.fn \in RXDma)
         /\ rx_up' = [rx_up EXCEPT !.fn = cmd.fn, !.density = cmd.density]
         /\ rx' = c
         /\ rx_call' = "go"
         /\ rx_past' = [rx_past EXCEPT !.commands = @ + 1,
                                       !.given = [unit |-> cmd.unit, sa |-> 0, ta |-> 0]]
         /\ UNCHANGED <<rx_drive, rx_status>>
      \/ /\ ~cmd.init /\ ~(cmd.go /\ rx_up.done)
         /\ Updated("adapter", c, rx_up)
         /\ rx_call' = "unlock"
         /\ rx_past' = [rx_past EXCEPT !.disturbed = @ \/ RXChanges(c), !.writes = @ + 1]
         /\ UNCHANGED rx_drive

\* The program gives GO when it has seen DONE.  While the RX211's worker() has the mutex
\* the adapter's thread waits, and the program with it.
RXCS(cmd) ==
  /\ Accessible
  /\ cmd.go => cmd.init \/ (rx.cs.done /\ rx_past.commands < RXMaxCommands)
  /\ cmd.init => rx_past.inits < RXMaxInits
  /\ cmd.init \/ cmd.go \/ rx_past.writes < RXMaxWrites
  /\ \/ rx.worker = "wait" /\ RXCS_locked(cmd)
     \/ /\ rx.worker # "wait"
        /\ rx' = [rx EXCEPT !.w = <<cmd>>]
        /\ rx_call' = "lock"
        /\ rx_past' = [rx_past EXCEPT !.disturbed = @ \/ rx.worker \notin {"end", "top"}]
        /\ UNCHANGED <<rx_up, rx_drive, rx_status>>

adapter_locked ==
  /\ rx_call = "lock" /\ rx.worker = "wait"
  /\ RXCS_locked(Head(rx.w))

adapter_unlock ==
  /\ rx_call = "unlock"
  /\ rx_call' = "none"
  /\ UNCHANGED <<rx, rx_up, rx_drive, rx_status, rx_past>>

adapter_go ==
  /\ rx_call = "go"
  /\ go_program("adapter", rx)
  /\ rx_call' = "unlock"
  /\ UNCHANGED rx_past

\* rxdb_after_write(): the bytes of the buffer, the disk address, or the key word.
\* The last one ends the step, for which the mutex is needed.
rxdb_after_write(w) ==
  LET u == rx_up
      takes == u.pgm # <<>> /\ u.idx < u.count
      addressed == takes /\ u.fn \in RXAddressed
      sector == addressed /\ u.idx = 0
      track == addressed /\ u.idx = 1
      bad == \/ sector /\ w \notin 1 .. RXSectors
             \/ track /\ w >= RXTracks
             \/ takes /\ u.fn = "SET_MEDIA_DENSITY" /\ w # 1
      complete == \/ takes /\ u.fn = "FILL_BUFFER" /\ u.idx + 1 >= u.count
                  \/ track
                  \/ takes /\ u.fn = "SET_MEDIA_DENSITY"
  IN  /\ Updated("adapter", rx,
           [u EXCEPT !.idx = IF takes /\ u.fn \in RXAddressed \cup {"FILL_BUFFER"} THEN @ + 1 ELSE @,
                     !.sa = IF sector THEN w ELSE @, !.ta = IF track THEN w ELSE @,
                     !.err = @ \/ bad, !.tr = @ /\ ~complete])
      /\ rx_call' = IF complete THEN "wake" ELSE "none"
      /\ rx_past' = [rx_past EXCEPT !.given.sa = IF sector THEN w ELSE @, !.given.ta = IF track THEN w ELSE @]

\* A write to RXDB when TR asks for it: for the microprocessor, or the RX211's word count
\* and bus address, of which the last wakes its worker(), if that waits.
RXDB_write(w) ==
  /\ Accessible /\ rx.cs.tr
  /\ \/ /\ rx.state = "base" /\ rx_up.fn \notin {"EMPTY_BUFFER", "READ_ERROR_CODE"}
        /\ rxdb_after_write(w)
     \/ /\ rx.state = "wait_rx2wc"
        /\ Updated("adapter", [rx EXCEPT !.wc = w, !.words = w, !.state = "wait_rx2ba"], rx_up)
        /\ UNCHANGED <<rx_call, rx_past>>
     \/ /\ rx.state = "wait_rx2ba" /\ (RXPrompt => rx.worker = "wait")
        /\ Updated("adapter", [rx EXCEPT !.state = "dma_busy"], rx_up)
        /\ rx_call' = "signal"
        /\ UNCHANGED rx_past
  /\ UNCHANGED rx_drive

adapter_signal ==
  /\ rx_call = "signal"
  /\ rx' = [rx EXCEPT !.signalled = @ \/ rx.worker = "wait"]
  /\ rx_call' = "none"
  /\ UNCHANGED <<rx_up, rx_drive, rx_status, rx_past>>

\* rxdb_after_read(), when TR offers a byte.
RXDB_read ==
  /\ Accessible /\ rx.cs.tr /\ rx.state = "base"
  /\ rx_up.fn \in {"EMPTY_BUFFER", "READ_ERROR_CODE"} /\ rx_up.pgm # <<>> /\ rx_up.idx < rx_up.count
  /\ LET last == rx_up.idx + 1 >= rx_up.count
     IN  /\ Updated("adapter", rx, [rx_up EXCEPT !.idx = @ + 1, !.tr = @ /\ ~last])
         /\ rx_call' = IF last THEN "wake" ELSE "none"
  /\ UNCHANGED <<rx_drive, rx_past>>

\* The signal at the end of a transfer step.
adapter_wake ==
  /\ rx_call = "wake" /\ rx_up.mutex = "free"
  /\ rx_up' = rx_signal(rx_up)
  /\ rx_call' = "none"
  /\ UNCHANGED <<rx, rx_drive, rx_status, rx_past>>

\* INIT: the adapter cancels the DMA and the interrupt at both edges, reset() is called
\* at the second.
rx_cancelled(c) ==
  [c EXCEPT !.intr = FALSE, !.success = @ /\ c.worker # "dma_wait",
            !.worker = IF @ = "dma_wait" THEN "dma_done" ELSE @]

rx_init_asserted ==
  /\ Accessible /\ rx_past.inits < RXMaxInits
  /\ rx' = rx_cancelled([rx EXCEPT !.line_INIT = TRUE])
  /\ rx_past' = RXDisturbs
  /\ UNCHANGED <<rx_up, rx_call, rx_drive, rx_status>>

rx_init_negated ==
  /\ rx.line_INIT /\ rx_call = "none"
  /\ rx_init(rx_cancelled([rx EXCEPT !.line_INIT = FALSE, !.ie = FALSE, !.prev = TRUE, !.state = "base",
                             !.done = TRUE, !.wc = 0, !.nxm = FALSE]))
  /\ rx_call' = "reset"
  /\ UNCHANGED rx_past

\* The CPU takes the interrupt; not while it waits for the end of its register access.
rx_interrupt ==
  /\ rx.intr /\ rx_call = "none"
  /\ rx' = [rx EXCEPT !.intr = FALSE]
  /\ UNCHANGED <<rx_up, rx_call, rx_drive, rx_status, rx_past>>

AdapterStep ==
  \/ status_shown("adapter")
  \/ /\ rx_status["adapter"] = <<>>
     /\ init_program \/ adapter_locked \/ adapter_unlock \/ adapter_go \/ adapter_signal \/ adapter_wake

-----------------------------------------------------------------------------
(* RX0102uCPU_c::worker()                                                   *)

rx_step_next(u) == [u EXCEPT !.pgm = IF @ = <<>> THEN @ ELSE Tail(@), !.pc = "check"]

Failed(condition) == rx_past' = [rx_past EXCEPT !.failed = @ \/ condition]

\* An idle worker waits; a signal lets it look again.
up_wait ==
  /\ rx_up.pc = "step" /\ rx_up.pgm = <<>>
  /\ rx_up' = [rx_up EXCEPT !.pc = "wait", !.mutex = "free", !.signalled = FALSE]
  /\ UNCHANGED <<rx, rx_drive, rx_status, rx_past>>

\* Awake again; in a transfer step with step_next(), in whatever program there is now.
up_wake ==
  /\ rx_up.pc \in {"wait", "transfer"} /\ rx_up.signalled /\ rx_up.mutex = "free"
  /\ LET u == [rx_up EXCEPT !.mutex = "up"]
     IN  rx_up' = IF u.pc = "transfer" THEN rx_step_next(u) ELSE [u EXCEPT !.pc = "check"]
  /\ UNCHANGED <<rx, rx_drive, rx_status, rx_past>>

up_at(step) == rx_up.pc = "step" /\ rx_up.pgm # <<>> /\ Head(rx_up.pgm) = step

\* A transfer step asks for the first byte and waits, without the mutex.
up_transfer ==
  /\ up_at("transfer_buffer_write") \/ up_at("transfer_buffer_read")
  /\ Updated("up", rx, [rx_up EXCEPT !.idx = 0, !.tr = TRUE, !.pc = "transfer", !.signalled = FALSE])
  /\ Failed(up_at("transfer_buffer_read") /\ rx_up.fn \notin {"EMPTY_BUFFER", "READ_ERROR_CODE"})
  /\ UNCHANGED rx_drive

\* pgmstep_seek() with its assert(); head_settle only takes time.
up_seek ==
  /\ up_at("seek") \/ up_at("head_settle")
  /\ rx_up' = rx_step_next(rx_up)
  /\ rx_drive' = IF up_at("seek") THEN [rx_drive EXCEPT ![rx.unit].cyl = rx_up.ta] ELSE rx_drive
  /\ Failed(up_at("seek") /\ rx_up.ta >= RXTracks)
  /\ UNCHANGED <<rx, rx_status>>

\* The sector at rxta, rxsa of the selected drive is read or written.
up_sector ==
  LET d == rx_drive[rx.unit]
      error == \/ d.double # rx_up.density \/ ~d.open
               \/ rx_up.ta >= RXTracks \/ rx_up.sa \notin 1 .. RXSectors
  IN  /\ up_at("sector_read") \/ up_at("sector_write")
      /\ rx_up' = rx_step_next([rx_up EXCEPT !.err = error])
      /\ rx_past' = [rx_past EXCEPT !.given = [unit |-> 0, sa |-> 1, ta |-> 1], !.misplaced = @ \/
           (up_at("sector_write") /\ ~error
            /\ rx_past.given # [unit |-> rx.unit, sa |-> rx_up.sa, ta |-> rx_up.ta])]
      /\ UNCHANGED <<rx, rx_drive, rx_status>>

\* A track is formatted; then the next one.
up_format ==
  /\ up_at("format_track") \/ up_at("seek_next")
  /\ rx_up' = rx_step_next([rx_up EXCEPT !.err = @ \/ (up_at("format_track") /\ ~rx_drive[rx.unit].open)])
  /\ rx_drive' = IF up_at("seek_next") THEN [rx_drive EXCEPT ![rx.unit].cyl = @ + 1] ELSE rx_drive
  /\ Failed(up_at("format_track") /\ rx_drive[rx.unit].double # rx_up.density)
  /\ UNCHANGED <<rx, rx_status>>

\* init_done and done_read_error_code report at once.
up_init_done ==
  /\ up_at("init_done") \/ up_at("done_read_error_code")
  /\ Updated("up", rx, rx_step_next([rx_up EXCEPT !.done = TRUE, !.tr = FALSE]))
  /\ UNCHANGED <<rx_drive, rx_past>>

\* done sets the signals, and 200 us later shows them.
up_done ==
  /\ up_at("done")
  /\ rx_up' = [rx_up EXCEPT !.done = TRUE, !.tr = FALSE, !.pc = "done_wait"]
  /\ UNCHANGED <<rx, rx_drive, rx_status, rx_past>>

\* With RXPrompt the RX211's worker() is done with its words before that.
up_done_end ==
  /\ rx_up.pc \in {"done_wait", "error_wait"}
  /\ RXPrompt => rx.worker \notin {"filled", "end", "top"} /\ rx_status["dma"] = <<>>
  /\ Updated("up", rx, IF rx_up.pc = "done_wait" THEN rx_step_next(rx_up) ELSE [rx_up EXCEPT !.pc = "step"])
  /\ UNCHANGED <<rx_drive, rx_past>>

\* After each step: an error ends the program with another done.
up_check ==
  /\ rx_up.pc = "check"
  /\ rx_up' = IF rx_up.err THEN [rx_up EXCEPT !.pgm = <<>>, !.done = TRUE, !.tr = FALSE, !.pc = "error_wait"]
              ELSE [rx_up EXCEPT !.pc = "step"]
  /\ UNCHANGED <<rx, rx_drive, rx_status, rx_past>>

MicroStep ==
  \/ status_shown("up")
  \/ /\ rx_status["up"] = <<>>
     /\ \/ up_wait \/ up_wake \/ up_transfer \/ up_seek \/ up_sector \/ up_format \/ up_init_done
        \/ up_done \/ up_done_end \/ up_check
     /\ UNCHANGED rx_call

-----------------------------------------------------------------------------
(* RX211_c::worker(), with on_after_register_access_mutex except in "wait".  *)
(* With RXPrompt it runs only when the worker of the microprocessor, of     *)
(* higher priority, waits.                                                  *)

rx_goto(pc) == rx' = [rx EXCEPT !.worker = pc]

\* Woken, when no write of RXCS has the mutex; the cond_wait() has no predicate, so the
\* state decides.  Too many words are an error that the microprocessor reports, in this
\* thread.
dma_woken ==
  /\ rx.worker = "wait" /\ rx.signalled /\ rx_call \notin {"init", "go", "unlock"}
  /\ \/ /\ rx.state # "dma_busy"
        /\ rx' = [rx EXCEPT !.signalled = FALSE]
        /\ UNCHANGED <<rx_up, rx_status, rx_past>>
     \/ /\ rx.state = "dma_busy" /\ rx.fn \in RXDma
        /\ IF rx.fn # "READ_ERROR_CODE" /\ rx.wc > rx_bytes(rx.fn, rx.density)
           THEN Updated("dma", [rx EXCEPT !.worker = "end"],
                        [rx_up EXCEPT !.err = TRUE, !.done = TRUE, !.tr = FALSE])
           ELSE rx_goto(IF rx.fn = "FILL_BUFFER" THEN "dma" ELSE "go") /\ UNCHANGED <<rx_up, rx_status>>
        /\ UNCHANGED rx_past
     \/ /\ rx.state = "dma_busy" /\ rx.fn \notin RXDma
        /\ rx_past' = [rx_past EXCEPT !.failed = TRUE]
        /\ UNCHANGED <<rx, rx_up, rx_status>>
  /\ UNCHANGED rx_drive

\* FILL BUFFER begins with the DMA, the others end with it.  DMA() asserts that there
\* are words; under INIT it returns at once, with the last call's success.
dma_call ==
  /\ rx.worker = "dma"
  /\ rx' = [rx EXCEPT !.done = FALSE, !.worker = IF rx.line_INIT THEN "dma_done" ELSE "dma_wait",
                      !.success = rx.line_INIT /\ @]
  /\ Failed(rx.words = 0 \/ (rx.fn = "FILL_BUFFER" /\ rx.state # "dma_busy"))
  /\ UNCHANGED <<rx_up, rx_drive, rx_status>>

\* The adapter's thread completes the request, between two register accesses.
dma_complete ==
  /\ rx.worker = "dma_wait" /\ rx_call = "none"
  /\ \E success \in BOOLEAN : rx' = [rx EXCEPT !.worker = "dma_done", !.success = success]
  /\ UNCHANGED <<rx_up, rx_call, rx_drive, rx_status, rx_past>>

\* The word count shows what is left; FILL BUFFER sets it when the words are moved.
dma_returned ==
  /\ rx.worker = "dma_done"
  /\ rx' = IF rx.fn = "FILL_BUFFER" THEN [rx EXCEPT !.nxm = ~rx.success, !.worker = "go"]
           ELSE [rx EXCEPT !.nxm = ~rx.success, !.done = TRUE, !.worker = "end",
                           !.wc = IF rx.fn = "READ_ERROR_CODE" THEN @ ELSE 0]
  /\ UNCHANGED <<rx_up, rx_drive, rx_status, rx_past>>

\* uCPU->go(): the function first, then the mutex.
dma_go ==
  /\ rx.worker = "go"
  /\ rx_up' = [rx_up EXCEPT !.fn = rx.fn, !.density = rx.density]
  /\ rx' = [rx EXCEPT !.done = FALSE, !.worker = "go_lock"]
  /\ Failed(rx.fn # "FILL_BUFFER" /\ rx.state # "dma_busy")
  /\ UNCHANGED <<rx_drive, rx_status>>

dma_go_program ==
  /\ rx.worker = "go_lock"
  /\ go_program("dma", [rx EXCEPT !.worker = "loop"])
  /\ UNCHANGED rx_past

\* The loop over the words, as long as the microprocessor asks for them.
dma_loop ==
  LET ends == rx_up.tr /\ rx_up.count > 0 /\ rx_up.count <= 2 * rx.words
      c == [rx EXCEPT !.worker = IF ends THEN "wake" ELSE IF rx.fn = "FILL_BUFFER" THEN "filled" ELSE "dma"]
  IN  /\ rx.worker = "loop"
      /\ RXPrompt => rx_up.pc \in {"wait", "transfer"} /\ ~rx_up.signalled /\ rx_status["up"] = <<>>
      /\ Updated("dma", c, [rx_up EXCEPT !.tr = @ /\ ~ends, !.idx = IF ends THEN rx_up.count ELSE @])
      /\ UNCHANGED <<rx_drive, rx_past>>

dma_wake ==
  /\ rx.worker = "wake" /\ rx_up.mutex = "free"
  /\ rx_up' = rx_signal(rx_up)
  /\ rx_goto(IF rx.fn = "FILL_BUFFER" THEN "filled" ELSE "dma")
  /\ UNCHANGED <<rx_drive, rx_status, rx_past>>

dma_filled ==
  /\ rx.worker = "filled"
  /\ rx' = [rx EXCEPT !.wc = 0, !.done = TRUE, !.worker = "end"]
  /\ UNCHANGED <<rx_up, rx_drive, rx_status, rx_past>>

\* The end of a DMA function, and the way back to the wait.
dma_end ==
  /\ rx.worker = "end"
  /\ Updated("dma", [rx EXCEPT !.state = "base", !.done = TRUE, !.worker = "top"], rx_up)
  /\ UNCHANGED <<rx_drive, rx_past>>

dma_top ==
  /\ rx.worker = "top"
  /\ rx' = [rx EXCEPT !.worker = "wait", !.signalled = FALSE]
  /\ UNCHANGED <<rx_up, rx_drive, rx_status, rx_past>>

DmaStep ==
  \/ status_shown("dma")
  \/ /\ rx_status["dma"] = <<>>
     /\ \/ dma_woken \/ dma_call \/ dma_returned \/ dma_go \/ dma_go_program \/ dma_loop \/ dma_wake
        \/ dma_filled \/ dma_end \/ dma_top
     /\ UNCHANGED rx_call

-----------------------------------------------------------------------------
RXStart ==
  /\ rx \in [enabled : BOOLEAN, model : RXModels, line_INIT : {FALSE}, unit : {0}, fn : {"READ_STATUS"},
             density : {FALSE}, ie : {FALSE}, prev : {FALSE}, intr : {FALSE},
             cs : {[done |-> TRUE, tr |-> FALSE, err |-> FALSE]}, state : {"base"}, done : {TRUE},
             wc : {0}, words : {0}, nxm : {FALSE}, success : {FALSE}, worker : {"wait"}, signalled : {FALSE},
             w : {<<>>}]
  /\ rx_up = [done |-> TRUE, err |-> FALSE, tr |-> FALSE, fn |-> "READ_STATUS", density |-> FALSE, idx |-> 0,
              count |-> 0, sa |-> 1, ta |-> 1, pgm |-> <<>>, mutex |-> "free", pc |-> "wait",
              signalled |-> FALSE]
  /\ rx_call = "none"
  /\ rx_drive = [u \in RXUnits |-> [open |-> u \in RXOpen, double |-> u \in RXDouble, cyl |-> 1]]
  /\ rx_past = [given |-> [unit |-> 0, sa |-> 1, ta |-> 1], misplaced |-> FALSE, disturbed |-> FALSE,
                failed |-> FALSE, inits |-> 0, commands |-> 0, writes |-> 0]
  /\ rx_status = [adapter |-> <<>>, up |-> <<>>, dma |-> <<>>, overlapped |-> FALSE]

RXAlive == ~rx_past.failed

\* What the adapter's thread begins: not while it is in update_status().
RXIdle == RXAlive /\ rx_status["adapter"] = <<>>

RXNext ==
  \/ \E cmd \in RXCommands : RXIdle /\ RXCS(cmd)
  \/ \E w \in RXData : RXIdle /\ RXDB_write(w)
  \/ RXIdle /\ RXDB_read
  \/ RXIdle /\ rx_init_asserted
  \/ RXIdle /\ rx_init_negated
  \/ RXIdle /\ rx_interrupt
  \/ RXIdle /\ dma_complete
  \/ RXAlive /\ AdapterStep
  \/ RXAlive /\ MicroStep
  \/ RXAlive /\ DmaStep

\* The threads are runnable and get the mutexes, INIT is a pulse, and the program serves TR.
RXFairness ==
  /\ WF_rxvars(RXAlive /\ MicroStep) /\ WF_rxvars(RXAlive /\ DmaStep) /\ WF_rxvars(RXAlive /\ AdapterStep)
  /\ WF_rxvars(RXIdle /\ dma_complete)
  /\ WF_rxvars(RXIdle /\ rx_init_negated)
  /\ WF_rxvars(RXIdle /\ (RXDB_read \/ \E w \in RXData : RXDB_write(w)))

RXSpec == RXStart /\ [][RXNext]_rxvars /\ RXFairness

-----------------------------------------------------------------------------
\* A sector is written only to the drive, track and sector the program has given with
\* the command.
RXWriteInPlace == ~rx_past.misplaced

\* Neither an INIT, nor a write of RXCS with another drive or function, has come while a
\* function was executed, none while the RX211's worker() moved words, and no thread has
\* called update_status() while another was in it.
RXPeace == ~rx_past.disturbed /\ ~rx_status.overlapped

\* A sector is written in place as long as that is so.
RXWriteInPlaceInPeace == RXPeace => RXWriteInPlace

\* An interrupt is requested only while RXCS shows DONE and IE is set, whichever of the
\* three threads has called update_status() last, as long as they call it one at a time;
\* always when the bus is not held by an access to a register.
RXInterruptMatches ==
  ~rx_status.overlapped /\ rx.intr /\ rx_call = "none" /\ rx_status["adapter"] = <<>> => rx.cs.done /\ rx.ie

\* The comment of update_status(): it is not called both by register accesses and by a
\* worker thread.
RXStatusAlone == ~rx_status.overlapped

\* Every function ends with DONE as long as nothing disturbs it.
RXPending == ~rx.cs.done
RXSettled == rx.cs.done \/ ~RXPeace \/ ~RXAlive
RXCommandEnds == RXPending ~> RXSettled

\* on_after_register_access() ends: the bus is stopped until then, and the comment there
\* forbids loops and other operations.
RXAccessEnds == (rx_call # "none") ~> (rx_call = "none" \/ ~RXAlive)

-----------------------------------------------------------------------------
RXTransferSteps == {"transfer_buffer_write", "transfer_buffer_read"}
RXSectorSteps == {"sector_read", "sector_write"}
RXLastSteps == {"done", "init_done", "done_read_error_code"}
RXSteps ==
  RXTransferSteps \cup RXSectorSteps \cup RXLastSteps \cup {"seek", "head_settle", "seek_next", "format_track"}
RXActive == {"dma", "dma_wait", "dma_done", "go", "go_lock", "loop", "wake", "filled"}

RXRecord ==
  [enabled : BOOLEAN, model : RXModels, line_INIT : BOOLEAN, unit : RXUnits, fn : RXFunctions,
   density : BOOLEAN, ie : BOOLEAN, prev : BOOLEAN, intr : BOOLEAN,
   cs : [done : BOOLEAN, tr : BOOLEAN, err : BOOLEAN],
   state : {"base", "wait_rx2wc", "wait_rx2ba", "dma_busy"}, done : BOOLEAN, wc : Nat, words : Nat,
   nxm : BOOLEAN, success : BOOLEAN, worker : {"wait", "end", "top"} \cup RXActive, signalled : BOOLEAN,
   w : {<<>>} \cup {<<cmd>> : cmd \in RXCommands}]
RXUpRecord ==
  [done : BOOLEAN, err : BOOLEAN, tr : BOOLEAN, fn : RXFunctions, density : BOOLEAN, idx : Nat, count : Nat,
   sa : Nat, ta : Nat, pgm : Seq(RXSteps), mutex : {"free"} \cup RXThreads,
   pc : {"wait", "transfer", "step", "check", "done_wait", "error_wait"}, signalled : BOOLEAN]
RXPlace == [unit : RXUnits, sa : Nat, ta : Nat]
RXPastRecord ==
  [given : RXPlace, misplaced : BOOLEAN, disturbed : BOOLEAN, failed : BOOLEAN, inits : Nat, commands : Nat,
   writes : Nat]
RXRead == [done : BOOLEAN, ie : BOOLEAN, tr : BOOLEAN, err : BOOLEAN]
RXReads == {<<>>} \cup {<<s>> : s \in RXRead}

RXTypeOK ==
  /\ rx \in RXRecord /\ rx_up \in RXUpRecord
  /\ rx_call \in {"none", "lock", "init", "reset", "go", "unlock", "signal", "wake"}
  /\ rx_drive \in [RXUnits -> [open : BOOLEAN, double : BOOLEAN, cyl : Nat]]
  /\ rx_status \in [adapter : RXReads, up : RXReads, dma : RXReads, overlapped : BOOLEAN]
  /\ rx_past \in RXPastRecord

\* Programs transfer first, and access a sector just before their end.
RXFormed(pgm) ==
  \A i \in 1 .. Len(pgm) :
    /\ pgm[i] \in RXTransferSteps => i = 1
    /\ pgm[i] \in RXSectorSteps => i = Len(pgm) - 1
    /\ pgm[i] \in RXLastSteps => i = Len(pgm)

\* Only a thread that holds the mutex is between two steps, and INIT waits for the others.
RXExclusion ==
  /\ rx_up.mutex = "up" <=> rx_up.pc \notin {"wait", "transfer"} \/ rx_status["up"] # <<>>
  /\ rx_up.mutex = "adapter" => rx_call = "unlock" /\ rx_status["adapter"] # <<>>
  /\ rx_up.mutex = "dma" => rx.worker = "loop" /\ rx_status["dma"] # <<>>
  /\ rx_status["up"] # <<>> => rx_up.pc \in {"transfer", "check", "step"}
  /\ rx_up.pc = "done_wait" => rx_up.pgm # <<>> /\ Head(rx_up.pgm) \in RXLastSteps
  /\ rx_call = "lock" <=> rx.w # <<>>
  /\ rx.line_INIT => rx_call = "none" /\ rx_status["adapter"] = <<>>
  /\ RXFormed(rx_up.pgm)

RXMutex ==
  /\ rx_call \in {"init", "go", "unlock"} => rx.worker = "wait"
  /\ rx_call \in {"lock", "go"} => rx_status["adapter"] = <<>>

\* As long as the calls of update_status() do not overlap, each shows what is.
RXShown ==
  ~rx_status.overlapped =>
    /\ \A t, o \in RXThreads : rx_status[t] # <<>> /\ rx_status[o] # <<>> => t = o
    /\ \A t \in RXThreads : rx_status[t] # <<>> /\ rx_call # "go" => Head(rx_status[t]).ie = rx.ie
    /\ rx.intr /\ rx_call # "go" /\ rx_status["adapter"] = <<>> => rx.cs.done /\ rx.ie

RXShows(bit) == {t \in RXThreads : rx_status[t] # <<>> /\ Head(rx_status[t])[bit]}

\* Until the program interferes, the RX211's worker() and the microprocessor take turns.
RXTurns ==
  RXPeace =>
    /\ rx.cs.done /\ rx_status["adapter"] = <<>> => rx.done
    /\ RXShows("done") # {} => rx.done
    /\ rx.done => <<rx.state, rx.worker>> \in {<<"base", "wait">>, <<"base", "top">>, <<"dma_busy", "end">>}
    /\ rx.worker \in RXActive => rx.state = "dma_busy" /\ rx.fn \in RXDma
    /\ rx.worker = "go_lock" => rx_up.fn = rx.fn
    /\ rx.worker \in {"wait", "top"} /\ rx.state # "base" => rx_up.done
    /\ rx.worker # "wait" \/ rx.state # "base" => is_RX02
    /\ rx_up.pgm # <<>> /\ Head(rx_up.pgm) \notin RXLastSteps => ~rx_up.done
    /\ rx_up.pc = "transfer" => rx_up.pgm # <<>> /\ Head(rx_up.pgm) \in RXTransferSteps
    /\ rx_call = "go" => rx_up.done /\ rx.done /\ rx_past.given.unit = rx.unit
    /\ rx.line_INIT \/ rx_call \in {"init", "reset"} =>
         rx_up.pgm = <<>> /\ rx.worker = "wait" /\ rx.state = "base"
    /\ rx_call \in {"init", "reset"} => ~rx_up.done /\ ~rx_up.err

RXWrites(pgm) == \E i \in 1 .. Len(pgm) : pgm[i] = "sector_write"
RXAddressing == Head(rx_up.pgm) = "transfer_buffer_write"

\* Before a sector is written its place has arrived, in order, and nothing has changed it.
RXPlaced ==
  RXPeace /\ RXWrites(rx_up.pgm) =>
    /\ ~rx_up.done /\ rx.done /\ rx_up.fn \in RXAddressed /\ rx_up.count = 2
    /\ rx_past.given.unit = rx.unit /\ Head(rx_up.pgm) # "transfer_buffer_read"
    /\ RXAddressing /\ rx_up.pc # "transfer" =>
         /\ RXShows("tr") = {} /\ ~rx_up.tr /\ rx_call \in {"none", "unlock"}
         /\ rx.cs.tr => rx_status["adapter"] # <<>>
    /\ ~RXAddressing \/ rx_up.pc = "transfer" =>
         /\ rx_up.idx > 0 => rx_up.sa = rx_past.given.sa
         /\ rx_up.idx > 1 => rx_up.ta = rx_past.given.ta
    /\ ~RXAddressing \/ (rx_up.pc = "transfer" /\ (rx_up.signalled \/ rx_call = "wake")) => rx_up.idx > 1

\* Sectors are written where the program wants them, and interrupts match DONE.
RXCommandExact ==
  /\ RXTypeOK
  /\ RXWriteInPlaceInPeace /\ RXInterruptMatches
  /\ RXExclusion /\ RXMutex /\ RXShown /\ RXTurns /\ RXPlaced
=============================================================================
