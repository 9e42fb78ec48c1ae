----------------------- MODULE KT11DMemoryManagement -----------------------
(***************************************************************************)
(* The KT11-D of the emulated PDP-11/34 (kt11d.c, kt11d.h): it relocates    *)
(* virtual to physical addresses by the PAR and PDR of a page, aborts        *)
(* accesses a PDR does not permit, and keeps the cause in MMR0, the changed  *)
(* registers in MMR1 and the instruction in MMR2 until the program clears    *)
(* the abort bits.  For speed it translates with descriptors derived from    *)
(* PAR and PDR, which every write to these has to bring up to date.          *)
(*                                                                           *)
(* Addresses are counted in blocks of 32 words: a virtual one is a page and  *)
(* a block in it.  The KT11-D's own registers are in KTOwn.                  *)
(***************************************************************************)
EXTENDS Integers, Sequences

CONSTANTS
  KTPages,      \* pages of a space (8)
  KTBlocks,     \* blocks of a page (128)
  KTPhysical,   \* blocks of the physical address space (4096)
  KTOwn,        \* the blocks of the KT11-D's own registers
  KTEntries,    \* the pairs of registers, <<space, page>>, that the program writes
  KTPars,       \* values that it writes into a PAR
  KTPdrs,       \* and into a PDR
  KTModes,      \* the current and the previous mode of a PSW that it loads, <<mode, prev>>
  KTRegisters,  \* general registers that autoincrement
  KTInstructions \* addresses of instructions

ASSUME KTAssumption ==
  /\ KTPages \in Nat \ {0} /\ KTBlocks \in Nat \ {0} /\ KTPhysical \in Nat
  /\ KTPages * KTBlocks <= KTPhysical
  /\ KTOwn \subseteq 0 .. KTPhysical - 1
  /\ KTEntries \subseteq {0, 3} \X (0 .. KTPages - 1)
  /\ KTPars \subseteq 0 .. KTPhysical - 1
  /\ KTPdrs \subseteq [plf : 0 .. KTBlocks - 1, ed : BOOLEAN, w : BOOLEAN,
                      acf : {"NONRESIDENT", "READONLY", "UNUSED", "READWRITE"}]
  /\ KTModes \subseteq (0 .. 3) \X (0 .. 3)

VARIABLES
  mmu,       \* KT11D
  mmu_wrote  \* the pages written into since their PAR or PDR was written

ktvars == <<mmu, mmu_wrote>>

-----------------------------------------------------------------------------
\* PSW modes: only two exist; any other uses the user's pages and aborts.
KERNEL == 0
USER == 3
Spaces == {KERNEL, USER}
Entries == Spaces \X (0 .. KTPages - 1)
VirtualAddresses == [page : 0 .. KTPages - 1, blk : 0 .. KTBlocks - 1]

SpaceOf(mode) == IF mode = KERNEL THEN KERNEL ELSE USER

\* kt11d_rebuild(): the descriptor of a pair of PAR and PDR.
kt11d_rebuild(e, par, pdr) ==
  [base |-> (par - e[2] * KTBlocks) % KTPhysical,
   blk_lo |-> IF pdr.ed THEN pdr.plf ELSE 0,
   blk_span |-> IF pdr.ed THEN KTBlocks - 1 - pdr.plf ELSE pdr.plf,
   deny |-> CASE pdr.acf = "READWRITE" -> {}
              [] pdr.acf = "READONLY" -> {"WRITE"}
              [] OTHER -> {"READ", "WRITE"}]

\* kt11d_rebuild_all().
kt11d_rebuild_all(m) ==
  [m EXCEPT !.enabled = m.mmr0.enable, !.frozen = m.mmr0.aborts # {}, !.maint = m.mmr0.maint,
            !.pages = [e \in Entries |-> kt11d_rebuild(e, m.par[e], m.pdr[e])]]

\* kt11d_set_access(): the space and mode of the next reference.
kt11d_set_access(m, space, mode) == [m EXCEPT !.access_space = space, !.access_mode = mode]

\* kt11d_set_modes(): a new PSW.
kt11d_set_modes(m, mode, prev) ==
  kt11d_set_access([m EXCEPT !.mode = mode, !.prev_mode = prev], SpaceOf(mode), mode)

NoPdr == [plf |-> 0, ed |-> FALSE, acf |-> "NONRESIDENT", w |-> FALSE]
NoMmr0 == [aborts |-> {}, mode |-> KERNEL, page |-> 0, maint |-> FALSE, enable |-> FALSE]

\* kt11d_reset(): power-up and console start clear all; kt11d_init(): INIT does not
\* reach PAR and PDR.
kt11d_reset ==
  kt11d_rebuild_all(
    [mmr0 |-> NoMmr0, mmr1 |-> <<>>, mmr2 |-> 0, par |-> [e \in Entries |-> 0],
     pdr |-> [e \in Entries |-> NoPdr], pages |-> <<>>, enabled |-> FALSE, frozen |-> FALSE,
     maint |-> FALSE, mode |-> KERNEL, prev_mode |-> KERNEL, access_space |-> KERNEL,
     access_mode |-> KERNEL, dest_ref |-> FALSE])

kt11d_init(m) == kt11d_rebuild_all([m EXCEPT !.mmr0 = NoMmr0, !.mmr1 = <<>>, !.mmr2 = 0])

-----------------------------------------------------------------------------
(* The translation.                                                         *)
InPage(p, blk) == blk - p.blk_lo \in 0 .. p.blk_span

\* kt11d_abort(): the cause goes to MMR0, unless an earlier one is there.
Causes(m, e, va, access) ==
  (CASE m.pdr[e].acf = "READWRITE" -> {}
     [] m.pdr[e].acf = "READONLY" -> IF access = "WRITE" THEN {"READONLY"} ELSE {}
     [] OTHER -> {"NONRESIDENT"})
    \cup (IF InPage(m.pages[e], va.blk) THEN {} ELSE {"LENGTH"})

Aborted(m, va, causes) ==
  IF m.frozen THEN m
  ELSE [m EXCEPT !.mmr0 = [m.mmr0 EXCEPT !.aborts = @ \cup causes, !.mode = m.access_mode, !.page = va.page],
                 !.frozen = TRUE]

\* kt11d_unrelocated(): the uppermost page is the I/O page.
kt11d_unrelocated(va) ==
  (IF va.page = KTPages - 1 THEN KTPhysical - KTBlocks ELSE va.page * KTBlocks) + va.blk

\* kt11d_relocate(): MMR0 follows the references until an abort freezes it.
kt11d_relocate(m, va, access) ==
  LET e == <<m.access_space, va.page>>
      p == m.pages[e]
      seen == IF m.frozen THEN m
              ELSE [m EXCEPT !.mmr0 = [@ EXCEPT !.mode = m.access_mode, !.page = va.page]]
      pa == (p.base + va.page * KTBlocks + va.blk) % KTPhysical
      bus == access = "WRITE" /\ pa \notin KTOwn
  IN  CASE ~m.enabled /\ ~(m.maint /\ m.dest_ref) ->
             [ok |-> TRUE, pa |-> kt11d_unrelocated(va), mmu |-> m]
        [] OTHER ->
             IF m.access_mode \notin Spaces
             THEN [ok |-> FALSE, pa |-> 0, mmu |-> Aborted(m, va, {"NONRESIDENT"})]
             ELSE IF access \in p.deny \/ ~InPage(p, va.blk)
             THEN [ok |-> FALSE, pa |-> 0, mmu |-> Aborted(seen, va, Causes(m, e, va, access))]
             ELSE [ok |-> TRUE, pa |-> pa, mmu |-> [seen EXCEPT !.pdr[e].w = @ \/ bus]]

-----------------------------------------------------------------------------
(* What the KD11-EA and its program do with it.                             *)
\* dati() and dato(): in the current mode, as a trap in kernel mode, or as MFPI and MTPI in
\* the previous one; SPACE_RESTORE comes after the access.
Reference(how, dest, va, access) ==
  LET m == CASE how = "current" -> mmu
             [] how = "kernel" -> kt11d_set_access(mmu, KERNEL, KERNEL)
             [] how = "previous" -> kt11d_set_access(mmu, SpaceOf(mmu.prev_mode), mmu.prev_mode)
      r == kt11d_relocate([m EXCEPT !.dest_ref = dest], va, access)
      e == <<m.access_space, va.page>>
      relocated == mmu.enabled \/ (mmu.maint /\ dest)
  IN  /\ mmu' = [kt11d_set_access(r.mmu, SpaceOf(mmu.mode), mmu.mode) EXCEPT !.dest_ref = FALSE]
      /\ mmu_wrote' = IF relocated /\ r.ok /\ access = "WRITE" /\ r.pa \notin KTOwn
                      THEN mmu_wrote \cup {e} ELSE mmu_wrote

\* kt11d_write_reg(): a PAR, a PDR (both clear the W bit) and the writable bits of MMR0.
WritePAR(e, par) ==
  /\ mmu' = [mmu EXCEPT !.par[e] = par, !.pdr[e].w = FALSE, !.pages[e] = kt11d_rebuild(e, par, mmu.pdr[e])]
  /\ mmu_wrote' = mmu_wrote \ {e}

WritePDR(e, pdr) ==
  /\ mmu' = [mmu EXCEPT !.pdr[e] = [pdr EXCEPT !.w = FALSE], !.pages[e] = kt11d_rebuild(e, mmu.par[e], pdr)]
  /\ mmu_wrote' = mmu_wrote \ {e}

WriteMMR0(aborts, maint, enable) ==
  /\ mmu' = kt11d_rebuild_all([mmu EXCEPT !.mmr0 = [@ EXCEPT !.aborts = aborts, !.maint = maint, !.enable = enable]])
  /\ UNCHANGED mmu_wrote

\* kd11ea_set_psw(), RESET, and power-up or console start.
SetPSW(mode, prev) == mmu' = kt11d_set_modes(mmu, mode, prev) /\ UNCHANGED mmu_wrote

RESET == mmu' = kt11d_init(mmu) /\ UNCHANGED mmu_wrote

PowerUp == mmu' = kt11d_reset /\ mmu_wrote' = {}

\* kt11d_instruction_start() before the fetch, which may abort, and
\* kt11d_instruction_fetched() after it.
InstructionStart ==
  /\ ~mmu.frozen
  /\ mmu' = [mmu EXCEPT !.mmr1 = <<>>]
  /\ UNCHANGED mmu_wrote

InstructionFetched(pc) ==
  /\ ~mmu.frozen
  /\ mmu' = [mmu EXCEPT !.mmr2 = pc]
  /\ UNCHANGED mmu_wrote

\* kt11d_log_register(): at most two, and not the PC.
LogRegister(r) ==
  /\ ~mmu.frozen /\ Len(mmu.mmr1) < 2
  /\ mmu' = [mmu EXCEPT !.mmr1 = Append(@, r)]
  /\ UNCHANGED mmu_wrote

-----------------------------------------------------------------------------
KTStart == mmu = kt11d_reset /\ mmu_wrote = {}

KTNext ==
  \/ \E how \in {"current", "kernel", "previous"}, dest \in BOOLEAN,
        va \in VirtualAddresses, access \in {"READ", "WRITE"} : Reference(how, dest, va, access)
  \/ \E e \in KTEntries : \/ \E par \in KTPars : WritePAR(e, par)
                          \/ \E pdr \in KTPdrs : WritePDR(e, pdr)
  \/ \E aborts \in {{}, {"LENGTH"}}, maint, enable \in BOOLEAN : WriteMMR0(aborts, maint, enable)
  \/ \E p \in KTModes : SetPSW(p[1], p[2])
  \/ RESET
  \/ PowerUp
  \/ InstructionStart
  \/ \E pc \in KTInstructions : InstructionFetched(pc)
  \/ \E r \in KTRegisters : LogRegister(r)

KTSpec == KTStart /\ [][KTNext]_ktvars

-----------------------------------------------------------------------------
(* The PDP-11's rules, from PAR and PDR themselves.                         *)
Permitted(pdr, blk, access) ==
  /\ pdr.acf = "READWRITE" \/ (pdr.acf = "READONLY" /\ access = "READ")
  /\ IF pdr.ed THEN blk >= pdr.plf ELSE blk <= pdr.plf

\* However PAR, PDR and MMR0 were written, the derived descriptors translate as the
\* registers say: an access is made exactly if the PDR of its page permits it, at the PAR
\* plus its offset, and the W bit is set for exactly the pages written into.
RelocationExact ==
  /\ \A e \in Entries :
       /\ mmu.pdr[e].w = (e \in mmu_wrote)
       /\ \A va \in VirtualAddresses, access \in {"READ", "WRITE"} :
            LET m == kt11d_set_access([mmu EXCEPT !.enabled = TRUE], e[1], e[1])
                r == kt11d_relocate(m, va, access)
            IN  va.page = e[2] =>
                  /\ r.ok = Permitted(mmu.pdr[e], va.blk, access)
                  /\ r.ok => r.pa = (mmu.par[e] + va.blk) % KTPhysical
                  /\ ~r.ok => r.mmu.mmr0.aborts # {}
  /\ mmu.enabled = mmu.mmr0.enable /\ mmu.frozen = (mmu.mmr0.aborts # {})

\* From an abort until the program clears the abort bits (or a reset does), MMR0 keeps the
\* cause, the mode and the page of the first abort, and MMR1 and MMR2 what is needed to
\* start the instruction again.
FirstAbortKept ==
  [][mmu.mmr0.aborts # {} =>
       \/ mmu'.mmr0 = mmu.mmr0 /\ mmu'.mmr1 = mmu.mmr1 /\ mmu'.mmr2 = mmu.mmr2
       \/ \E maint, enable \in BOOLEAN, aborts \in {{}, {"LENGTH"}} : WriteMMR0(aborts, maint, enable)
       \/ RESET \/ PowerUp]_ktvars
=============================================================================
