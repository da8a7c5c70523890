SPECIFICATION XSpec
CONSTANTS
  Idle = Idle
  None = None
  t1 = t1
  t2 = t2
  t3 = t3
  i1 = i1
  m1 = m1
  v1 = v1
  v2 = v2
  Task = {t1, t2, t3}
  Isr = {i1}
  Mutex = {m1}
  Extended = {t1, t2}
  Event = {v1, v2}
  MaxPrio = 4
  BasePrio <- EqualPrio
  RunPrio <- EqualPrio
  MaxAct <- OneEach
  Ceiling <- AtTop
  MaxTake <- Once
  Liberties = {}
INVARIANTS
  NoLostWakeup
  
PROPERTIES
  ImplementsDavroska
CHECK_DEADLOCK FALSE
