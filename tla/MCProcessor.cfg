\* One of the parts.  A switch or a power event; words of four bits, and of three in the
\* KE11; devices on BR4 and BR5.
SPECIFICATION ProcessorSpec
CONSTANTS
  CpuModels = {"KA11", "KD11EA"}
  CpuTop = 8
  CpuLimit = 2
  CpuMemory = {0, 2, 4}
  CpuStacks = {4}
  CpuOdd = {"KA11"}
  CpuTraced <- MCTraced
  CpuMaxEvents = 1
  WordBits = 4
  KTPages = 2
  KTBlocks = 2
  KTPhysical = 8
  KTOwn = {7}
  KTEntries <- MCKTEntries
  KTPars = {3, 6}
  KTPdrs <- MCKTPdrs
  KTModes <- MCKTModes
  KTRegisters = {0}
  KTInstructions = {1}
  KEBits = 3
  NULL = NULL
  IntrLevels = {4, 5}
  RunLevels = {0, 4, 5, 7}
  vector_level <- MCvector_level
  RealtimeWorker = TRUE
  DirectMemory = TRUE
  CPU_PRIORITY_LEVEL_FETCHING = 255
\* The bus may hang when a vector overruns another.
CHECK_DEADLOCK FALSE
INVARIANTS
  VectorSafeInTime
  FieldingIndInv
PROPERTIES
  ArithmeticExact
  ProtectionKept
  PriorityRespectedInTime
  ProcessorGoesOn
