\* Emulated devices and another board both on NPR, under a physical CPU.
SPECIFICATION ArbSpec
CONSTANTS
  IntrLevels = {4}
  NP = 8
  DeviceLevels = {8}
  BoardLevels = {8}
  Arbitrators = {"physical"}
  RunLevels = {0}
  CPU_PRIORITY_LEVEL_FETCHING = 255
INVARIANT
  OneGrantee
