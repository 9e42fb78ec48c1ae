\* Two devices interrupting on one level, the only one; one may cancel, INIT may come.
SPECIFICATION FairSpec
CONSTANTS
  NULL = NULL
  i1 = i1
  i2 = i2
  i3 = i3
  DmaRequests = {}
  CpuRequests = {}
  IntrRequests = {i1, i2}
  level_index <- MClevel_index
  priority_slot <- MCpriority_slot
  device_vector <- MCdevice_vector
  PRIORITY_LEVEL_INDEX_NPR = 1
  PRIORITY_SLOT_COUNT = 2
  PRU_MAX_DMA_WORDCOUNT = 1
  MaxWordcount = 1
  Cancels = {i1}
  HasINIT = TRUE
  EventModulus = 3
INVARIANT
  IntrSafe
PROPERTIES
  InterruptsExact
  IntrDelivered
