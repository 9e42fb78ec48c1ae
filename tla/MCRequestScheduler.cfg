\* Two DMA devices, the CPU and one interrupting device.
SPECIFICATION Spec
CONSTANTS
  NULL = NULL
  d1 = d1
  d2 = d2
  cpu = cpu
  i1 = i1
  i2 = i2
  i3 = i3
  DmaRequests = {d1, d2, cpu}
  CpuRequests = {cpu}
  IntrRequests = {i1}
  level_index <- MClevel_index
  priority_slot <- MCpriority_slot
  device_vector <- MCdevice_vector
  PRIORITY_LEVEL_INDEX_NPR = 2
  PRIORITY_SLOT_COUNT = 4
  PRU_MAX_DMA_WORDCOUNT = 2
  MaxWordcount = 3
INVARIANTS
  TablesConsistent
  NoForgottenWaiter
  SuccessIsComplete
  OnlyDmareqAssert
  IndInv
PROPERTY
  ActiveReplacedOnlyInOrder
