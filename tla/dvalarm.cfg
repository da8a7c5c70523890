CONSTANTS
  a1 = a1
  a2 = a2
  a3 = a3
  c1 = c1
  c2 = c2
  Alarm = {a1, a2, a3}
  Counter = {c1, c2}
  None = None
  MaxValue = 2
  MaxNest = 3
  Liberties = {}
SPECIFICATION FairSpec
INVARIANTS
  ListsSound
  
PROPERTIES
  ImplementsAlarmClock
  AdvanceReturns
CHECK_DEADLOCK FALSE
