\* A device, with INIT.
SPECIFICATION FairSpec
CONSTANTS
  NULL = NULL
  d1 = d1
  d2 = d2
  cpu = cpu
  DmaRequests = {d1}
  CpuRequests = {}
  IntrRequests = {}
  level_index <- MClevel_index
  priority_slot <- MCpriority_slot
  device_vector <- MCdevice_vector
  PRIORITY_LEVEL_INDEX_NPR = 0
  PRIORITY_SLOT_COUNT = 3
  PRU_MAX_DMA_WORDCOUNT = 2
  MaxWordcount = 2
  EventModulus = 3
  RealtimeWorker = FALSE
  Signals = {"INIT"}
INVARIANT
  SignalsSafe
PROPERTY
  InitReleases
