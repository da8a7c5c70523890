SPECIFICATION FairSpec
CONSTANTS
  Size = 4
  Value = {1, 2}
  Role = {"device", "host"}
  Os = {"davroska", "osek"}
  MaxTicks = 2
  Liberties = {}
INVARIANTS
  RingHolds
  FullDelay
PROPERTIES
  Receives
