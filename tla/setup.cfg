SPECIFICATION SetupSpec
CONSTANTS
  MaxPrio = 4
  MaxExe = 4
  MaxExtended = 2
  MaxMutex = 1
  SlotLimit = 15
  Irq = {0, 1}
  Canary = 2
  None = None
  MaxGroups = 2
  Asked <- MCAsked
  Size <- MCSize
  Configs <- MCConfigs
  MaxPriority = 3
  MinRb = 3
  RoundRb = 1
  MaxCreated = 4
  Liberties = {}
INVARIANTS
  Configured
  Accounted
  Placed
CHECK_DEADLOCK FALSE
