\* One of the services.  Two characters of the line, one of the program, one INIT; four host
\* events or parses of a volume with blocks of 28 bytes.
SPECIFICATION ServicesSpec
CONSTANTS
  DlLineChars = 2
  DlProgramChars = 1
  DlMaxInits = 1
  RtBlockSize = 28
  RtMaxSegments = 3
  filename_from_host <- MCfilename_from_host
  stream_code <- MCstream_code
  make_host_path <- MCmake_host_path
  RtVolumes <- MCVolumes
  HostFiles <- MCHostFiles
  Partitions <- MCPartitions
  RtMaxEvents = 4
\* The program may have nothing left to do.
CHECK_DEADLOCK FALSE
INVARIANTS
  ConsoleExact
  VolumeExact
  PartitionsExact
PROPERTIES
  ConsoleGoesOn
