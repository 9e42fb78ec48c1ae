\* The CPU, with INIT and power fail.
SPECIFICATION DmaSpec
CONSTANTS
  NULL = NULL
  d1 = d1
  d2 = d2
  cpu = cpu
  DmaRequests = {cpu}
  CpuRequests = {cpu}
  IntrRequests = {}
  level_index <- MClevel_index
  priority_slot <- MCpriority_slot
  device_vector <- MCdevice_vector
  PRIORITY_LEVEL_INDEX_NPR = 0
  PRIORITY_SLOT_COUNT = 3
  PRU_MAX_DMA_WORDCOUNT = 1
  MaxWordcount = 1
  EventModulus = 3
  RealtimeWorker = TRUE
  Signals = {"INIT", "DCLO"}
INVARIANT
  SignalsSafe
PROPERTY
  CpuAccessProcessedInTime
