----------------------------- MODULE MCServices -----------------------------
(* Services beside the disk controllers, one at a time: the serial line and   *)
(* the line clock of the DL11-W, an RT-11 volume that is shared with the      *)
(* host, and the partitions of disk images.  They share no state.             *)
EXTENDS DL11Serial, RT11Filesystem, ImagePartition

VARIABLE part   \* the part that is looked at

\* Host files: name, DEC name and stream.
MCfilename_from_host(n) == CASE n = "a.p" -> "a" [] n = "b.x" -> "b" [] OTHER -> n
MCstream_code(n) == CASE n = "a.p" -> "prefix" [] n = "b.x" -> "dirext" [] OTHER -> "data"
MCmake_host_path(n, stream) == CASE stream = "prefix" -> "a.p" [] stream = "dirext" -> "b.x" [] OTHER -> n

\* Files with sizes at the limits of a block, a prefix that needs a second block for its
\* length, extra bytes of a directory entry, the boot block, one file without data and one in
\* a subdirectory.
MCHostFile(name, size, year) ==
  [name |-> name, size |-> size, year |-> year, readonly |-> FALSE, contents |-> <<name, size>>,
   subdir |-> FALSE]
MCHostFiles ==
  {MCHostFile("a", 28, 80), MCHostFile("a", 29, 70), MCHostFile("b", 100, 99), MCHostFile("c", 1, 120),
   MCHostFile("a.p", 27, 80), MCHostFile("b.x", 2, 80), MCHostFile(BOOT, 28, 80), MCHostFile("b", 0, 80),
   [MCHostFile("d", 1, 80) EXCEPT !.subdir = TRUE]}

\* Volumes that one file fills, and that have room for three.
MCVolumes == {<<12, 1>>, <<20, 1>>, <<20, 2>>}

\* Floppies with two sectors per block or one, one head or two, one track or six before
\* the partition.
MCPartitions ==
  [position : {0, 24}, size : {72, 48}, block_size : {2, 4}, sector_size : {2}, sectors_per_track : {6},
   heads : {1, 2}, pattern : {<<>>, <<0, 2, 4, 1, 3, 5>>}, cylinder_skew : {0, 5}, head_skew : {0, 2}]

\* Bound: characters of the line, the loop-back (from the program's write on) and INIT, two of
\* them.
LoopBack == slu.maint \/ (OnBus("xcsr") /\ dl_bus[1].maint)
ConsoleEvents == dl_line.sent + dl_prog.inits + (IF LoopBack THEN 1 ELSE 0) <= 2

servicesvars == <<part, partition, dlvars, rtvars>>

ServicesInit ==
  /\ part \in {"SLU", "LTC", "RT11", "partition"}
  /\ DlStart /\ RtInit /\ PartitionInit
  /\ slu.enabled = (part = "SLU") /\ ltc.enabled = (part = "LTC")
  /\ part # "RT11" => volume.blockcount = 20 /\ volume.dir_seg_count = 1

ServicesNext ==
  /\ UNCHANGED part
  /\ \/ part \in {"SLU", "LTC"} /\ DlNext /\ ConsoleEvents' /\ UNCHANGED <<rtvars, partition>>
     \/ part = "RT11" /\ RtNext /\ UNCHANGED <<dlvars, partition>>
     \/ part = "partition" /\ PartitionNext /\ UNCHANGED <<dlvars, rtvars>>

ServicesSpec == ServicesInit /\ [][ServicesNext]_servicesvars /\ DlFairness

(* A program driven by interrupts receives, transmits and sees the clock      *)
(* tick, whatever comes between its service routines.                         *)
ConsoleGoesOn == SluReceives /\ SluTransmits /\ LtcTicks

(* After any sequence of the host's events no block has two uses, and files   *)
(* without prefixes and extra bytes can be written and are read back.         *)
VolumeExact == part = "RT11" => RtVolumeExact(volume)

(* What parse() is for: extra bytes and prefixes are streams of their files,  *)
(* which it takes from what was written.                                      *)
VolumeParses ==
  part = "RT11" /\ Rendered(volume).result = "ok" => Parsed(volume).result # "fault"

(* The comment of render_directory_entry(): the free space is behind the last *)
(* file of what is written.                                                   *)
FreeAreaFollowsFiles ==
  part = "RT11" /\ Rendered(volume).result = "ok" => FreeAreaIsFree(Rendered(volume).fs)
=============================================================================
