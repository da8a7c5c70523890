SPECIFICATION Spec
CONSTANTS
  Idle = Idle
  None = None
  t1 = t1
  t2 = t2
  t3 = t3
  i1 = i1
  i2 = i2
  m1 = m1
  m2 = m2
  Task = {t1, t2, t3}
  Isr = {i1}
  Mutex = {m1, m2}
  MaxPrio = 4
  BasePrio <- BasePrio1
  RunPrio <- RunPrio2
  MaxAct <- MaxAct1
  Ceiling <- Ceiling1
  MaxTake <- MaxTake1
  Liberties = {}
INVARIANTS
  NoPanic
CHECK_DEADLOCK FALSE
