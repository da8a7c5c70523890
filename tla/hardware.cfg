SPECIFICATION HardwareSpec
CONSTANTS
  t1 = t1
  t2 = t2
  i3 = i3
  i4 = i4
  Idle = Idle
  None = None
  Task = {t1, t2}
  Isr = {i3, i4}
  Base <- MCBase
  Ceilings = {2, 3}
  Machines = {"v7", "v6"}
  MaxDepth = 8
  Controllers = {"bcm2835", "nvic7", "nvic6", "dv3", "gic"}
  Irq = {0, 1, 2}
  Local = {3}
  Register <- MCRegister
  Levels <- MCLevels
  Period = 3
  FirstTick = 8
  Wrap = 10
  Readers = {1, 2}
  MaxTime = 24
  Liberties = {}
INVARIANTS
  
  VectoredOnce
  Dispatched
  NoMissedPreemption
  Starts
  BoardsReady
  ClocksRight
