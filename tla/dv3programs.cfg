SPECIFICATION FairSpec
CONSTANTS
  Exe <- MCExe
  Idle = "idle"
  InitExe = "init"
  None = None
  BasePrio <- MCPrio
  Blocking <- MCBlocking
  Sem = {"Mutex"}
  MinRb = 8
  RoundRb = 4
  MinSleep = 2
  Second = 13
  Wrap = 16
  Drift = 1
  MaxSleep = 1
  MaxTime = 45
  Liberties = {}
  Programs = {"basics", "blocking", "mutex", "demo"}
  Delay = 14
  Slack = 3
  Rounds = 3
INVARIANTS ProgramsSound
PROPERTIES Finishes
CHECK_DEADLOCK FALSE
