\* An RL11 drive that is started and stopped by the operator, with an INIT; two MSCP
\* commands, and an INIT or a new initialisation at any moment.
SPECIFICATION ControllersSpec
CONSTANTS
  RLUnits = {0}
  RLPowered = {0}
  RLSwitches <- MCRLSwitches
  RLCylinders = 2
  RLSectors = 2
  RLSectorWords = 2
  RLCommands <- MCRLCommands
  RLMaxInits = 1
  CommandRing = 2
  ResponseRing = 2
  MscpUnits = {0}
  MscpAvailable = {0}
  MscpBlocks = 1
  MscpRct = 1
  MscpCommands <- MCMscpCommands
  MscpRefs = 2
  MscpMaxResets = 1
  ResponseFlag = TRUE
\* A failed assert() of the RL11, or a failed DMA in PostResponse(), ends the program.
CHECK_DEADLOCK FALSE
INVARIANTS
  RLCommandExact
  PortSafe
PROPERTIES
  ImplementsMscpService
  CommandsEnd
