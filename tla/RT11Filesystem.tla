--------------------------- MODULE RT11Filesystem ---------------------------
(***************************************************************************)
(* filesystem_rt11_c: an RT-11 volume as a tree of files and as blocks.     *)
(*                                                                          *)
(* A filesystem fs is a record of its files, in the order of the root       *)
(* directory, and the layout that calc_layout() gives them.  A file has a   *)
(* data stream, a prefix stream and directory extra bytes; a stream is its  *)
(* size in bytes and its blocks' contents (c, i): block i of contents c,    *)
(* padded with zeros.  An image is a function from block numbers to         *)
(* contents; a directory segment is one value in the first of its two       *)
(* blocks.  Names and dates are members of small sets (a date: its year,    *)
(* 1900 subtracted); RAD50, the texts of the home block and the volume      *)
(* information are left out.                                                *)
(*                                                                          *)
(* What can end otherwise has an outcome: "ok", "exception" (a              *)
(* filesystem_exception), "assert" or "fault" (the program ends).           *)
(***************************************************************************)
EXTENDS Integers, SequencesExt

CONSTANTS
  RtBlockSize,      \* layout_info.block_size, in bytes
  RtMaxSegments,    \* directory segments of a volume: 31
  filename_from_host(_),  \* name of a host file without stream extension -> DEC name
  stream_code(_),   \* name of a host file -> "data", "dirext" or "prefix"
  make_host_path(_, _), \* DEC name, stream -> name of the host file
  RtVolumes,        \* <<blocks, directory segments>> of an empty volume
  HostFiles,        \* the files that the host may have
  RtMaxEvents       \* bound: host events, and parses, of a behaviour

ASSUME RtAssumption == RtBlockSize \in Nat /\ RtBlockSize > 26 /\ RtMaxSegments \in Nat \ {0}
                          /\ RtMaxEvents \in Nat

VARIABLES
  volume,    \* the DEC filesystem
  rt_events  \* host events and parses so far

rtvars == <<volume, rt_events>>

BOOT == "$BOOT.BLK"
MONITOR == "$MONI.TOR"
VOLUMEINFO == "$VOLUM.INF"
first_dir_blocknr == 6

NoStream == [blocks |-> <<>>, size |-> 0, start |-> 0, changed |-> FALSE, host_path |-> "none"]
Exists(stream) == stream # NoStream
StreamNames == <<"data", "dirext", "prefix">>   \* in the order of get_stream()

NewFile(name, internal, year, readonly) ==
  [name |-> name, internal |-> internal, year |-> year, readonly |-> readonly, block_nr |-> 0,
   block_count |-> 0, file_size |-> 0, data |-> NoStream, dirext |-> NoStream, prefix |-> NoStream]

RtSumOf(seq) == FoldSeq(LAMBDA x, sum : x + sum, 0, seq)

needed_blocks(bytes) == (bytes + RtBlockSize - 1) \div RtBlockSize
directory_entries_per_segment(fs) == (2 * RtBlockSize - 12) \div (14 + fs.extra)
directory_needed_segments(fs, files) ==
  (files + 1 + directory_entries_per_segment(fs) - 1) \div directory_entries_per_segment(fs)

DirFiles(fs) == SelectSeq(fs.files, LAMBDA f : ~f.internal)
FileNames(fs) == {fs.files[i].name : i \in DOMAIN fs.files}
FileOf(fs, name) == CHOOSE f \in Range(fs.files) : f.name = name

date_adjust(year) == IF year < 72 THEN 72 ELSE IF year > 99 THEN 99 ELSE year
date_decode(w) == 72 + w.year + 32 * w.age
date_encode(year) == [year |-> year - 72, age |-> 0]

-----------------------------------------------------------------------------
(* calc_block_use(), calc_layout()                                          *)

Available(fs) == fs.blockcount - first_dir_blocknr
UsedBlocks(fs) == RtSumOf([i \in DOMAIN DirFiles(fs) |-> DirFiles(fs)[i].block_count])

\* Modus b: would a further file of size bytes fit onto the volume?  0: another internal one.
FileFits(fs, size) ==
  Available(fs) >= UsedBlocks(fs) + needed_blocks(size)
                     + 2 * directory_needed_segments(fs, Len(DirFiles(fs)) + IF size > 0 THEN 1 ELSE 0)

\* The largest number of further files of average size that fits with their segments.
planned_dir_total_seg_num(fs, used, free) ==
  LET count == Len(DirFiles(fs))
      average == IF used \div count < 1 THEN 1 ELSE used \div count
      segments(p) == directory_needed_segments(fs, count + (p * 3) \div 2)
      fitting == {p \in 0..(free \div average) :
                    p = 0 \/ Available(fs) >= used + p * average + 2 * segments(p)}
      needed == segments(Max(fitting))
  IN  IF needed > RtMaxSegments THEN RtMaxSegments ELSE needed

dir_total_seg_num(fs, planned) ==
  IF DirFiles(fs) = <<>> \/ planned <= fs.dir_seg_count THEN fs.dir_seg_count ELSE planned

BlockUse(fs, used, max_used, total) ==
  IF Available(fs) < used + 2 * max_used
    THEN [result |-> "exception", fs |-> [fs EXCEPT !.free = 0]]
  ELSE IF Available(fs) < used + 2 * total THEN [result |-> "assert", fs |-> fs]
  ELSE [result |-> "ok",
        fs |-> [fs EXCEPT !.total_seg = total, !.max_seg = IF DirFiles(fs) = <<>> THEN 1 ELSE max_used,
                          !.used = used, !.free = Available(fs) - used - 2 * total]]

\* Modus a: segments of the directory and free blocks.
calc_block_use(fs) ==
  LET used == UsedBlocks(fs)
      max_used == directory_needed_segments(fs, Len(DirFiles(fs)))
      planned == planned_dir_total_seg_num(fs, used, Available(fs) - used - 2 * max_used)
  IN  BlockUse(fs, used, max_used, dir_total_seg_num(fs, planned))

PrefixBlocks(f) == IF Exists(f.prefix) THEN needed_blocks(f.prefix.size + 2) ELSE 0
DataBlocks(f) == IF Exists(f.data) THEN needed_blocks(f.data.size) ELSE 0

\* The file begins at block_nr: first its prefix, then its data.
Placed(f, block_nr) ==
  [f EXCEPT !.block_nr = block_nr,
            !.prefix.start = IF Exists(f.prefix) THEN block_nr ELSE @,
            !.data.start = IF Exists(f.data) THEN block_nr + PrefixBlocks(f) ELSE @]

\* Files follow each other without a gap, after the directory.
LayoutWith(fs, use) ==
  LET space == first_dir_blocknr + 2 * use.fs.total_seg
      Before(i) == SelectSeq(SubSeq(fs.files, 1, i - 1), LAMBDA f : ~f.internal)
      Blocks(files) == RtSumOf([k \in DOMAIN files |-> PrefixBlocks(files[k]) + DataBlocks(files[k])])
  IN  IF use.result # "ok" THEN use
      ELSE IF \E i \in DOMAIN fs.files :
                ~fs.files[i].internal
                /\ fs.files[i].block_count # PrefixBlocks(fs.files[i]) + DataBlocks(fs.files[i])
        THEN [result |-> "assert", fs |-> use.fs]
      ELSE [result |-> "ok",
            fs |-> [use.fs EXCEPT !.space = space,
                      !.files = [i \in DOMAIN fs.files |->
                                   IF fs.files[i].internal THEN fs.files[i]
                                   ELSE Placed(fs.files[i], space + Blocks(Before(i)))]]]

calc_layout(fs) == LayoutWith(fs, calc_block_use(fs))

\* init(): an empty volume with the default layout.
EmptyFilesystem(blockcount, dir_seg_count) ==
  calc_layout([files |-> <<>>, blockcount |-> blockcount, dir_seg_count |-> dir_seg_count,
               extra |-> 0, total_seg |-> 0, max_seg |-> 0, used |-> 0, free |-> 0, space |-> 0]).fs

-----------------------------------------------------------------------------
(* The image                                                                *)

NoSegment == [total |-> 0, next |-> 0, max |-> 0, extra |-> 0, start |-> 0, entries |-> <<>>]
Block(kind, contents, index) ==
  [kind |-> kind, contents |-> contents, index |-> index, count |-> 0, segment |-> NoSegment]
ZeroBlock == Block("zero", "none", 0)
SegmentBlock(segment) == [Block("segment", "none", 0) EXCEPT !.segment = segment]

DIR_SEGMENT_BLOCK_NR(i) == first_dir_blocknr + (i - 1) * 2

\* set_blocks(): the blocks go to start and those after it.
WriteBlocks(image, start, blocks) ==
  [b \in DOMAIN image |-> IF b \in start..(start + Len(blocks) - 1) THEN blocks[b - start + 1] ELSE image[b]]

ReadBlocks(image, start, count) == [i \in 1..count |-> image[start + i - 1]]

\* The contents of a host file of size bytes, as blocks.
BlocksOf(contents, size) == [i \in 1..needed_blocks(size) |-> Block("data", contents, i)]

\* render_directory_entry(): of a file, and of the free space after the last one.
Entry(f) ==
  [kind |-> "EPERM", name |-> f.name, len |-> f.block_count, date |-> date_encode(f.year),
   readonly |-> f.readonly, prefix |-> Exists(f.prefix),
   extra |-> IF Exists(f.dirext) THEN f.dirext.blocks[1].contents ELSE "none"]
FreeEntry(fs) ==
  [kind |-> "EMPTY", name |-> "EMPTY.FIL", len |-> fs.free, date |-> [year |-> 0, age |-> 0],
   readonly |-> FALSE, prefix |-> FALSE, extra |-> "none"]

\* Mutant: a segment is filled up before the entry of the free space is counted.
Segments_without_free(fs) ==
  LET per == directory_entries_per_segment(fs)
      files == DirFiles(fs)
      entries == [i \in DOMAIN files |-> Entry(files[i])]
      n == (Len(entries) + per - 1) \div per
  IN  [ds \in 1..n |->
         [total |-> fs.total_seg, next |-> IF ds = fs.max_seg THEN 0 ELSE ds + 1, max |-> fs.max_seg,
          extra |-> fs.extra,
          start |-> files[(ds - 1) * per + 1].block_nr,
          entries |-> SubSeq(entries, (ds - 1) * per + 1, IF ds * per < Len(entries) THEN ds * per ELSE Len(entries))]]

\* render_directory(): the entries of the files, and the one of the free space, in
\* segments linked in ascending order.
RenderedSegments(fs) ==
  LET per == directory_entries_per_segment(fs)
      files == DirFiles(fs)
      entries == Append([i \in DOMAIN files |-> Entry(files[i])], FreeEntry(fs))
      n == (Len(entries) + per - 1) \div per
      first(ds) == (ds - 1) * per + 1
  IN  [ds \in 1..n |->
         [total |-> fs.total_seg, next |-> IF ds = fs.max_seg THEN 0 ELSE ds + 1, max |-> fs.max_seg,
          extra |-> fs.extra,
          start |-> IF first(ds) <= Len(files) THEN files[first(ds)].block_nr ELSE fs.space,
          entries |-> SubSeq(entries, first(ds), IF ds * per < Len(entries) THEN ds * per ELSE Len(entries))]]

render_directory(fs, image) ==
  LET segments == RenderedSegments(fs)
      Number(b) == (b - first_dir_blocknr) \div 2 + 1   \* of the segment with block b
  IN  [b \in DOMAIN image |->
         IF b < first_dir_blocknr \/ Number(b) \notin DOMAIN segments THEN image[b]
         ELSE IF b = DIR_SEGMENT_BLOCK_NR(Number(b)) THEN SegmentBlock(segments[Number(b)]) ELSE ZeroBlock]

\* The prefix begins with the number of its blocks; the data are padded to whole blocks.
PrefixOnDisk(f) == [f.prefix.blocks EXCEPT ![1].count = PrefixBlocks(f)]

render_file_data(fs, image) ==
  LET render_file(img, f) ==
        LET with_prefix == IF Exists(f.prefix) THEN WriteBlocks(img, f.prefix.start, PrefixOnDisk(f)) ELSE img
        IN  IF Exists(f.data) THEN WriteBlocks(with_prefix, f.data.start, f.data.blocks) ELSE with_prefix
  IN  FoldLeft(render_file, image, DirFiles(fs))

\* The bytes of a data stream as the renderer leaves them: whole blocks.
RoundedUp(f) ==
  [f EXCEPT !.data.size = IF Exists(f.data) /\ ~f.internal THEN RtBlockSize * needed_blocks(@) ELSE @]

\* An internal file goes to a fixed place; without it the place is cleared.
render_internal(fs, image, name, start, count) ==
  IF name \in FileNames(fs) THEN WriteBlocks(image, start, FileOf(fs, name).data.blocks)
  ELSE WriteBlocks(image, start, [i \in 1..count |-> ZeroBlock])

IllegalInternals(fs) ==
  \/ BOOT \in FileNames(fs) /\ FileOf(fs, BOOT).data.size # RtBlockSize
  \/ MONITOR \in FileNames(fs) /\ FileOf(fs, MONITOR).data.size > 4 * RtBlockSize

RenderLayout(fs, layout, image) ==
  LET boot == render_internal(layout.fs, image, BOOT, 0, 1)
      monitor == render_internal(layout.fs, boot, MONITOR, 2, 4)
      home == WriteBlocks(monitor, 1, <<Block("home", "none", 0)>>)
  IN  IF layout.result # "ok" THEN [result |-> layout.result, fs |-> layout.fs, image |-> image]
      ELSE IF IllegalInternals(layout.fs) THEN [result |-> "exception", fs |-> layout.fs, image |-> image]
      ELSE IF \E i \in DOMAIN DirFiles(fs) : DirFiles(fs)[i].year \notin 72..99   \* date_encode()
        THEN [result |-> "assert", fs |-> layout.fs, image |-> home]
      ELSE IF \E i \in DOMAIN fs.files : fs.files[i].dirext.size > fs.extra
        THEN [result |-> "exception", fs |-> layout.fs, image |-> home]
      ELSE [result |-> "ok",
            fs |-> [layout.fs EXCEPT !.files = [i \in DOMAIN @ |-> RoundedUp(@[i])]],
            image |-> render_file_data(layout.fs, render_directory(layout.fs, home))]

render(fs, image) == RenderLayout(fs, calc_layout(fs), image)

-----------------------------------------------------------------------------
(* parse()                                                                  *)

ParsedStream(name, stream, blocks, size, start) ==
  [blocks |-> blocks, size |-> size, start |-> start, changed |-> FALSE,
   host_path |-> make_host_path(name, stream)]

parse_internal_blocks_to_file(image, name, start, count) ==
  [NewFile(name, TRUE, 72, TRUE) EXCEPT
     !.block_nr = start, !.block_count = count, !.file_size = count * RtBlockSize,
     !.data = ParsedStream(name, "data", ReadBlocks(image, start, count), count * RtBlockSize, start)]

\* Segments in the order of their links, 0 after the last; a chain that comes back to a
\* segment is not looked at.
SegmentChain(image) ==
  LET next[k \in 1..(RtMaxSegments + 1)] ==
        IF k = 1 THEN 1
        ELSE IF next[k - 1] = 0 THEN 0 ELSE image[DIR_SEGMENT_BLOCK_NR(next[k - 1])].segment.next
  IN  SelectSeq([k \in 1..(RtMaxSegments + 1) |-> next[k]], LAMBDA ds : ds # 0)

\* parse_directory() throws at a segment whose header contradicts the first one's.
BadHeader(image, ds) ==
  LET first == image[DIR_SEGMENT_BLOCK_NR(1)].segment
      segment == image[DIR_SEGMENT_BLOCK_NR(ds)].segment
  IN  segment.total # first.total \/ segment.next > first.max

\* The files of a segment: permanent entries, each at the sum of the lengths before it.
SegmentFiles(segment) ==
  LET start(k) == segment.start + RtSumOf([j \in 1..(k - 1) |-> segment.entries[j].len])
      year(e) == IF e.date = [year |-> 0, age |-> 0] THEN date_adjust(0) ELSE date_decode(e.date)
      file(k) ==
        LET e == segment.entries[k]
        IN  [NewFile(e.name, FALSE, year(e), e.readonly) EXCEPT !.block_nr = start(k), !.block_count = e.len]
      files == [k \in DOMAIN segment.entries |-> file(k)]
      permanent == SelectSeq([k \in DOMAIN segment.entries |-> k],
                             LAMBDA k : segment.entries[k].kind = "EPERM")
  IN  [i \in DOMAIN permanent |-> files[permanent[i]]]

\* stream_parse_bytes() copies extra bytes and prefixes into the buffer of a new stream,
\* which is none: with a byte to copy the program ends.
HasExtraBytes(segment) ==
  segment.extra # 0 /\ \E k \in DOMAIN segment.entries : segment.entries[k].kind = "EPERM"
HasPrefix(segment) == \E k \in DOMAIN segment.entries : segment.entries[k].prefix

\* parse_file_data(), of a file without prefix.
WithData(image, f) ==
  [f EXCEPT !.data = ParsedStream(f.name, "data", ReadBlocks(image, f.block_nr, f.block_count),
                                  f.block_count * RtBlockSize, f.block_nr),
            !.file_size = f.block_count * RtBlockSize]

\* calc_change_flags(): a stream has changed if a block of it has been written.
ChangeFlag(stream, changed_blocks) ==
  [stream EXCEPT !.changed =
     stream.start..(stream.start + needed_blocks(stream.size) - 1) \cap changed_blocks # {}]
WithChangeFlags(f, changed_blocks) ==
  [f EXCEPT !.data = IF Exists(@) THEN ChangeFlag(@, changed_blocks) ELSE @]

\* The directory first, then the data.  An exception leaves the files found so far, without
\* their data.
parse(image, changed_blocks, dir_seg_count) ==
  LET empty == EmptyFilesystem(Cardinality(DOMAIN image), dir_seg_count)
      chain == SegmentChain(image)
      bad == {k \in DOMAIN chain : BadHeader(image, chain[k])}
      good == IF bad = {} THEN chain ELSE SubSeq(chain, 1, (CHOOSE k \in bad : \A j \in bad : k <= j) - 1)
      segments == [k \in DOMAIN good |-> image[DIR_SEGMENT_BLOCK_NR(good[k])].segment]
      first == image[DIR_SEGMENT_BLOCK_NR(1)].segment
      entries == FlattenSeq([k \in DOMAIN segments |-> segments[k].entries])
      lengths(kind) == LET of_kind == SelectSeq(entries, LAMBDA e : e.kind = kind)
                       IN  RtSumOf([k \in DOMAIN of_kind |-> of_kind[k].len])
      found == FlattenSeq([k \in DOMAIN segments |-> SegmentFiles(segments[k])])
      with_data == IF bad = {} THEN [i \in DOMAIN found |-> WithData(image, found[i])] ELSE found
      internal == <<parse_internal_blocks_to_file(image, BOOT, 0, 1),
                    parse_internal_blocks_to_file(image, MONITOR, 2, 4)>>
      files == internal \o with_data
      faults == \E k \in DOMAIN segments : HasExtraBytes(segments[k]) \/ (bad = {} /\ HasPrefix(segments[k]))
  IN  IF image[1] = ZeroBlock THEN [result |-> "ok", fs |-> empty]
      ELSE IF faults THEN [result |-> "fault", fs |-> empty]
      ELSE [result |-> IF bad = {} THEN "ok" ELSE "exception",
            fs |-> [empty EXCEPT !.extra = first.extra, !.total_seg = first.total, !.max_seg = first.max,
                      !.space = first.start, !.used = lengths("EPERM"), !.free = lengths("EMPTY"),
                      !.files = [i \in DOMAIN files |-> WithChangeFlags(files[i], changed_blocks)]]]

-----------------------------------------------------------------------------
(* Host files                                                               *)

\* A host file h: its name, size, date, access and contents, and whether it lies in a
\* subdirectory.
DecName(h_name) == filename_from_host(h_name)

\* "Create" for a name the volume has is taken as an acknowledge and ignored.
Ignored(fs, h) ==
  \/ h.subdir
  \/ DecName(h.name) \in FileNames(fs)
  \/ h.size = 0
  \/ DecName(h.name) = VOLUMEINFO

ImportedStream(h) ==
  [blocks |-> BlocksOf(h.contents, h.size), size |-> h.size, start |-> 0, changed |-> FALSE,
   host_path |-> h.name]

ImportedFile(h) ==
  LET internal == DecName(h.name) \in {BOOT, MONITOR}
      blocks == CASE stream_code(h.name) = "data" -> needed_blocks(h.size)
                  [] stream_code(h.name) = "prefix" -> needed_blocks(h.size + 2)
                  [] OTHER -> 0
      new == NewFile(DecName(h.name), internal, date_adjust(h.year),
                     stream_code(h.name) = "data" /\ h.readonly)
      sized == [new EXCEPT !.block_count = blocks,
                           !.file_size = IF stream_code(h.name) = "data" THEN RtBlockSize * blocks ELSE 0]
  IN  CASE stream_code(h.name) = "data" -> [sized EXCEPT !.data = ImportedStream(h)]
        [] stream_code(h.name) = "prefix" ->
             [sized EXCEPT !.prefix = [ImportedStream(h) EXCEPT !.blocks = BlocksOf(h.contents, h.size + 2)]]
        [] OTHER -> [sized EXCEPT !.dirext = ImportedStream(h)]

\* Boot block and monitor have a fixed place, other files must fit onto the volume.
ImportResult(fs, h) ==
  CASE DecName(h.name) = BOOT /\ h.size # RtBlockSize -> "exception"
    [] DecName(h.name) = MONITOR /\ h.size > 4 * RtBlockSize -> "exception"
    [] DecName(h.name) \in {BOOT, MONITOR} -> calc_block_use(fs).result
    [] OTHER -> IF FileFits(fs, h.size) THEN "ok" ELSE "exception"

\* Testing whether a further internal file fits counts the blocks anew.
Counted(fs, h) == IF DecName(h.name) \in {BOOT, MONITOR} THEN calc_block_use(fs).fs ELSE fs

import_host_file(fs, h) ==
  IF Ignored(fs, h) THEN [result |-> "ok", fs |-> fs]
  ELSE IF ImportResult(fs, h) # "ok" THEN [result |-> ImportResult(fs, h), fs |-> fs]
  ELSE [result |-> "ok",
        fs |-> [Counted(fs, h) EXCEPT !.files = Append(@, ImportedFile(h)),
                          !.extra = IF stream_code(h.name) = "dirext" /\ h.size > @ THEN h.size ELSE @]]

\* The stream goes, and the file with its last one.
delete_host_file(fs, h_name) ==
  LET name == DecName(h_name)
      code == stream_code(h_name)
      file == FileOf(fs, name)
      left == [file EXCEPT ![code] = NoStream]
      gone == \A i \in DOMAIN StreamNames : ~Exists(left[StreamNames[i]])
  IN  IF name \notin FileNames(fs) \/ name = VOLUMEINFO THEN fs
      ELSE IF ~Exists(file[code]) THEN fs
      ELSE IF gone THEN [fs EXCEPT !.files = SelectSeq(@, LAMBDA f : f.name # name)]
      ELSE [fs EXCEPT !.files = [i \in DOMAIN @ |-> IF @[i].name = name THEN left ELSE @[i]]]

-----------------------------------------------------------------------------
(* Changes against a snapshot                                               *)

\* copy_metadata_to(): files and streams without contents.
Metadata(fs) ==
  LET bare(stream) == IF Exists(stream) THEN [NoStream EXCEPT !.host_path = stream.host_path] ELSE NoStream
  IN  [fs EXCEPT !.files =
         [i \in DOMAIN @ |-> [@[i] EXCEPT !.data = bare(@), !.dirext = bare(@), !.prefix = bare(@)]]]

data_changed(f, cmp) ==
  \/ f.data.changed
  \/ f.year # cmp.year \/ f.file_size # cmp.file_size \/ f.readonly # cmp.readonly

\* produce_event_for_all_streams()
StreamEvents(op, f) ==
  LET events == [i \in DOMAIN StreamNames |-> [op |-> op, path |-> f[StreamNames[i]].host_path,
                                               file |-> f.name, stream |-> StreamNames[i]]]
  IN  SelectSeq(events, LAMBDA e : Exists(f[e.stream]))

\* compare_directories(): files of a missing in b, and those changed.
compare_directories(a, b, op_missing, modify) ==
  FlattenSeq([i \in DOMAIN a.files |->
     LET f == a.files[i]
     IN  CASE f.name \notin FileNames(b) -> StreamEvents(op_missing, f)
           [] f.name \in FileNames(b) /\ modify /\ data_changed(f, FileOf(b, f.name)) -> StreamEvents("modify", f)
           [] OTHER -> <<>>])

produce_events(fs, snapshot) ==
  compare_directories(fs, snapshot, "create", TRUE) \o compare_directories(snapshot, fs, "delete", FALSE)

-----------------------------------------------------------------------------
(* consume_event(): the host's events change the filesystem, one by one.  A *)
(* file that is not accepted leaves it as it is; "modify" has deleted the   *)
(* old file then.                                                           *)
RtInit ==
  /\ volume \in {EmptyFilesystem(v[1], v[2]) : v \in RtVolumes}
  /\ rt_events = 0

consume_create(h) == volume' = import_host_file(volume, h).fs
consume_modify(h) == volume' = import_host_file(delete_host_file(volume, h.name), h).fs
consume_delete(h) == volume' = delete_host_file(volume, h.name)

\* The volume is written to the image, and later parsed again; a fault ends the program.
Rendered(fs) == render(fs, [b \in 0..(fs.blockcount - 1) |-> ZeroBlock])
Parsed(fs) == parse(Rendered(fs).image, {}, fs.dir_seg_count)

sync_parse ==
  /\ Rendered(volume).result = "ok" /\ Parsed(volume).result # "fault"
  /\ volume' = Parsed(volume).fs

RtNext ==
  /\ rt_events < RtMaxEvents /\ rt_events' = rt_events + 1
  /\ \/ \E h \in HostFiles : consume_create(h) \/ consume_modify(h) \/ consume_delete(h)
     \/ sync_parse

-----------------------------------------------------------------------------
(* What render() writes is what parse() reads                               *)

\* What a file is to its user.
UserView(f) ==
  [name |-> f.name, year |-> f.year, readonly |-> f.readonly, blocks |-> f.data.blocks, size |-> f.data.size]

StreamArea(stream, blocks) == stream.start..(stream.start + blocks - 1)
FileArea(f) == StreamArea(f.data, DataBlocks(f)) \cup StreamArea(f.prefix, PrefixBlocks(f))

FileBlocks(fs) == UNION {FileArea(DirFiles(fs)[i]) : i \in DOMAIN DirFiles(fs)}
SystemBlocks(fs) == 0..(first_dir_blocknr + 2 * fs.total_seg - 1)
FreeBlocks(fs) == (0..(fs.blockcount - 1)) \ (SystemBlocks(fs) \cup FileBlocks(fs))

\* No block has two uses: boot, home and monitor blocks, directory and files share none,
\* the files lie on the volume, and the free blocks are those that are left.
LayoutDisjoint(fs) ==
  LET files == DirFiles(fs)
  IN  /\ \A i \in DOMAIN files : Cardinality(FileArea(files[i])) = files[i].block_count
      /\ \A i, j \in DOMAIN files : i # j => FileArea(files[i]) \cap FileArea(files[j]) = {}
      /\ FileBlocks(fs) \cap SystemBlocks(fs) = {}
      /\ FileBlocks(fs) \subseteq 0..(fs.blockcount - 1)
      /\ fs.free = Cardinality(FreeBlocks(fs))
      /\ fs.max_seg <= fs.total_seg

\* The blocks that the directory's last entry says are free: those behind the entries before
\* it in its segment.
LastSegment(fs) == Last(RenderedSegments(fs))
FreeArea(fs) ==
  LET entries == LastSegment(fs).entries
      start == LastSegment(fs).start + RtSumOf([k \in 1..(Len(entries) - 1) |-> entries[k].len])
  IN  start..(start + Last(entries).len - 1)

\* "start of free chain: space after last file"
FreeAreaIsFree(fs) == FreeArea(fs) = FreeBlocks(fs)

\* parse() has read what was rendered: the same files in the same order, and the directory's
\* free space is what the files leave.
ReadBack(fs, parsed) ==
  LET view(files) == [i \in DOMAIN files |-> UserView(files[i])]
  IN  /\ view(DirFiles(parsed)) = view(DirFiles(fs))
      /\ parsed.free = fs.free /\ parsed.used = fs.used /\ parsed.space = fs.space
      /\ produce_events(parsed, Metadata(parsed)) = <<>>

\* Files without prefixes and extra bytes.  Others are not read back, and may not fit: their
\* import counts neither the prefix's length word nor the entries that extra bytes lengthen.
PlainFiles(fs) ==
  DirFiles(fs) = <<>> \/ (fs.extra = 0 /\ \A i \in DOMAIN fs.files : ~Exists(fs.files[i].prefix))

\* Plain files can be written, and read again; the layout of what is written is sound; and the
\* free space is where the directory says, unless its entry is the first of a further segment.
RtVolumeExact(fs) ==
  LET rendered == Rendered(fs).fs
  IN  /\ PlainFiles(fs) => Rendered(fs).result = "ok" /\ Parsed(fs).result = "ok"
                           /\ ReadBack(rendered, Parsed(fs).fs)
      /\ Rendered(fs).result = "ok" =>
           /\ LayoutDisjoint(rendered)
           /\ Len(LastSegment(rendered).entries) > 1 => FreeAreaIsFree(rendered)
=============================================================================
