\* One of the three controllers, with an INIT or reset at any moment.
SPECIFICATION DisksSpec
CONSTANTS
  RKUnits = {0, 1}
  RKOnline = {0}
  RKCylinders = 2
  RKSectors = 2
  RKSectorWords = 2
  RKWordModulus = 8
  RKSeekStep = 2
  RKCommands <- MCRKCommands
  RKAddresses <- MCRKAddresses
  RKMaxResets = 1
  RKBusyWrites = FALSE
  RFWords = 4
  RFWordModulus = 4
  RFCommands <- MCRFCommands
  RFAddresses <- MCRFAddresses
  RFMaxResets = 1
  RFRealtime = TRUE
  RXModels = {"RX11", "RX211"}
  RXUnits = {0, 1}
  RXOpen = {0, 1}
  RXDouble = {}
  RXTracks = 2
  RXSectors = 1
  RXBufferBytes = 2
  RXStatusWords = 1
  RXCommands <- MCRXCommands
  RXData = {0, 1}
  RXMaxInits = 1
  RXMaxWrites = 1
  RXMaxCommands = 2
  RXPrompt = TRUE
\* A failed assert() ends the program.
CHECK_DEADLOCK FALSE
INVARIANTS
  RKCommandExact
  RFCommandExact
  RXCommandExact
PROPERTY
  DiskCommandsEnd
