CONSTANTS
  h1 = h1
  h2 = h2
  Handlers <- MCHandlers
  Setups <- MCSetups
  MaxRequests = 2
  MaxCrashes = 1
SPECIFICATION StoresSpec
SYMMETRY Interchangeable
CHECK_DEADLOCK FALSE
INVARIANTS
  LostOnlyIfOverlapped
  ConfigKeepsTheAgent
  LegacyKeyMoved
