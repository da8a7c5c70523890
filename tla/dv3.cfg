SPECIFICATION Spec
SYMMETRY Symmetry
CONSTANTS
  e0 = e0
  e1 = e1
  e2 = e2
  e3 = e3
  e4 = e4
  None = None
  Exe <- MCExe
  Idle = e0
  InitExe = e1
  BasePrio <- MCBasePrio
  Blocking <- MCBlocking
  Sem = {s1}
  MinRb = 1
  RoundRb = 1
  MinSleep = 2
  Second = 3
  Wrap = 7
  Drift = 1
  MaxSleep = 6
  MaxTime = 8
  Liberties = {}
INVARIANTS KernelSound MutualExclusion NotOversleeping
 
CHECK_DEADLOCK FALSE
