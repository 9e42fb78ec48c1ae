--------------------------- MODULE ImagePartition ---------------------------
(***************************************************************************)
(* storageimage_partition_c: a filesystem's blocks on the sectors of a disk *)
(* image.  On floppies with RT-11 the sectors of a track are interleaved    *)
(* and each cylinder is skewed against the one before it.  A partition p is *)
(* a record of its offset and size in bytes, the size of its blocks and     *)
(* sectors, the drive's sectors per track and heads, and the interleave     *)
(* pattern of a track (<<>>: none) with the skews.  An image is a function  *)
(* of sector numbers to contents; sector numbers are relative to the        *)
(* partition, as in the code.                                               *)
(***************************************************************************)
EXTENDS Integers, Sequences

CONSTANT Partitions   \* the partitions that drives and filesystems may ask for

\* A pattern has each sector of its track once.
PatternFits(pattern) ==
  LET places == 1 .. Len(pattern)
      track == 0 .. Len(pattern) - 1
  IN  /\ \A i \in places : pattern[i] \in track
      /\ \A i, j \in places : pattern[i] = pattern[j] => i = j
      /\ \A s \in track : \E i \in places : pattern[i] = s

PartitionRecord ==
  [position : Nat, size : Nat, block_size : Nat \ {0}, sector_size : Nat \ {0},
   sectors_per_track : Nat \ {0}, heads : Nat \ {0}, pattern : Seq(Nat),
   cylinder_skew : Nat, head_skew : Nat]

ASSUME PartitionsAssumption ==
  Partitions \subseteq PartitionRecord /\ \A p \in Partitions : PatternFits(p.pattern)

VARIABLE partition    \* storageimage_shared_c::main_partition, as a set of at most one

SectorCount(p) == p.size \div p.sector_size
block_count(p) == p.size \div p.block_size
sectors_per_block(p) == p.block_size \div p.sector_size
is_interleaved(p) == p.pattern # <<>>

\* What init() and the constructor assert, and the pattern's length.
PartitionFits(p) ==
  /\ p.size % p.block_size = 0 /\ p.position % p.sector_size = 0
  /\ p.block_size % p.sector_size = 0
  /\ is_interleaved(p) =>
       /\ Len(p.pattern) = p.sectors_per_track
       /\ SectorCount(p) % p.sectors_per_track = 0
       /\ p.position % (p.sectors_per_track * p.sector_size) = 0

\* Track t of the partition: the cylinder skew for every cylinder entered before it, the
\* head skew for every other change of track.
track_skew(p, t) ==
  LET first == p.position \div (p.sectors_per_track * p.sector_size)
      cylinders == ((first + t) \div p.heads) - (first \div p.heads)
  IN  cylinders * p.cylinder_skew + (t - cylinders) * p.head_skew

\* Mutant: sectors skewed past the end of the track are not wrapped around.
build_interleave_table_flat(p) ==
  [log \in 0..(SectorCount(p) - 1) |->
     LET t == log \div p.sectors_per_track
         s == p.pattern[(log % p.sectors_per_track) + 1] + track_skew(p, t)
     IN  t * p.sectors_per_track + (IF s >= p.sectors_per_track THEN p.sectors_per_track - 1 ELSE s)]

\* log_sector_nr_to_phy[]
build_interleave_table(p) ==
  [log \in 0..(SectorCount(p) - 1) |->
     LET t == log \div p.sectors_per_track
     IN  t * p.sectors_per_track
           + ((p.pattern[(log % p.sectors_per_track) + 1] + track_skew(p, t)) % p.sectors_per_track)]

log_sector_nr_to_phy(p) ==
  IF is_interleaved(p) THEN build_interleave_table(p) ELSE [s \in 0..(SectorCount(p) - 1) |-> s]

\* phy_sector_nr_to_log[], the inverted table.
phy_sector_nr_to_log(p) ==
  LET phy == log_sector_nr_to_phy(p)
  IN  [s \in 0..(SectorCount(p) - 1) |-> CHOOSE log \in DOMAIN phy : phy[log] = s]

\* The physical sectors of count blocks, in the order of the blocks' bytes.
get_physical_sector_nrs_from_blocks(p, start, count) ==
  LET phy == log_sector_nr_to_phy(p)
  IN  [i \in 1..(count * sectors_per_block(p)) |-> phy[start * sectors_per_block(p) + i - 1]]

get_blocks(p, image, start, count) ==
  LET nrs == get_physical_sector_nrs_from_blocks(p, start, count)
  IN  [i \in DOMAIN nrs |-> image[nrs[i]]]

\* buffer: contents of whole sectors.  (An interleaved partition asserts whole blocks.)
set_blocks(p, image, buffer, start) ==
  LET phy == log_sector_nr_to_phy(p)
      first == start * sectors_per_block(p)
      log == phy_sector_nr_to_log(p)
  IN  [s \in DOMAIN image |->
         IF log[s] \in first..(first + Len(buffer) - 1) THEN buffer[log[s] - first + 1] ELSE image[s]]

get_physical_sector_nr_from_image_position(p, byte) == (byte - p.position) \div p.sector_size

\* The block that a write to a byte of the image marks as changed, or -1: not in p.
on_image_sector_write(p, byte) ==
  IF byte < p.position \/ byte >= p.position + block_count(p) * p.block_size THEN -1
  ELSE phy_sector_nr_to_log(p)[get_physical_sector_nr_from_image_position(p, byte)]
         \div sectors_per_block(p)

-----------------------------------------------------------------------------
\* storageimage_shared_c::open() closes an image that is open; a partition that does not fit
\* ends the program.
open == \E p \in Partitions : PartitionFits(p) /\ partition' = {p}

close == partition' = {}

PartitionInit == partition = {}

PartitionNext == open \/ close

PartitionSpec == PartitionInit /\ [][PartitionNext]_partition

-----------------------------------------------------------------------------
\* What block b of p does to an image of it when it is written.
BlockExact(p, b) ==
  LET sectors == 0..(SectorCount(p) - 1)
      image == [s \in sectors |-> <<"old", s>>]
      buffer == [i \in 1..sectors_per_block(p) |-> <<"new", i>>]
      after == set_blocks(p, image, buffer, b)
  IN  /\ get_blocks(p, after, b, 1) = buffer
      /\ \A other \in 0..(block_count(p) - 1) \ {b} :
           get_blocks(p, after, other, 1) = get_blocks(p, image, other, 1)
      /\ \A s \in sectors :
           (after[s] # image[s]) <=> on_image_sector_write(p, p.position + s * p.sector_size) = b

\* A partition's blocks hold what was written to them and nothing else changes; every
\* sector belongs to one block, and a write to a sector marks this block as changed.
PartitionExact(p) ==
  LET sectors == 0..(SectorCount(p) - 1)
  IN  /\ {log_sector_nr_to_phy(p)[s] : s \in sectors} = sectors
      /\ \A b \in 0..(block_count(p) - 1) : BlockExact(p, b)

\* The blocks of an open partition lie on its sectors without overlap.
PartitionsExact == \A p \in partition : PartitionExact(p)
=============================================================================
