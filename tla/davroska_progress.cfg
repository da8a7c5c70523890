SPECIFICATION LiveSpec
CONSTANTS
  Idle = Idle
  None = None
  t1 = t1
  t2 = t2
  t3 = t3
  i1 = i1
  i2 = i2
  m1 = m1
  m2 = m2
  Task = {t1, t2}
  Isr = {i1}
  Mutex = {m1}
  MaxPrio = 3
  BasePrio <- BasePrio3
  RunPrio <- BasePrio3
  MaxAct <- MaxAct3
  Ceiling <- Ceiling3
  MaxTake <- MaxTake3
  Liberties = {}
PROPERTIES
  TopServed
  Drains
