\* Emulated devices on NPR and BR4, another board on BR5; on the QBUS the board may also
\* have the DMR line, and there is an INIT.
SPECIFICATION MachineSpec
CONSTANTS
  IntrLevels = {4, 5}
  NP = 8
  DeviceLevels = {4, 8}
  BoardLevels = {5}
  Arbitrators = {"physical", "off"}
  RunLevels = {0, 4}
  CPU_PRIORITY_LEVEL_FETCHING = 255
  QLevels = {4, 5}
  QNP = 8
  QConfigs <- MCQConfigs
  QModes = {"client", "none"}
  QMemory = {0}
  QRegisters = {1}
  QForeign = {2}
  QDmas <- MCQDmas
  QCycles <- MCQCycles
  QBlockWords = 2
  QBoundary = 2
  QMaxInits = 1
INVARIANTS
  ArbSafe
  QSafe
PROPERTIES
  RequestsKept
  DmaServed
