SPECIFICATION Spec
CONSTANTS
  Counter = {0, 1}
  MaxOsekCounter = 2
  MaxOsekAlarm = 2
  MaxAlarm = 2
  Task = {0}
  Maxima = {1}
  Minima = {1}
  Kinds = {"task", "acb", "counter"}
  MaxValue = 3
  Liberties = {}
INVARIANTS
  Promised
  OwnAlarm
PROPERTIES
  LastErrorKept
CHECK_DEADLOCK FALSE
