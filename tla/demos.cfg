SPECIFICATION DemoSpec
CONSTANTS
  Idle <- IdleLoop
  None = None
  Task <- TaskSet
  Isr <- IsrSet
  Mutex <- MutexSet
  Extended <- ExtendedSet
  Event = {"Update", "Flicker", "Uart", "Notify", "Timeout"}
  MaxPrio <- TopPrio
  BasePrio <- BaseTable
  RunPrio <- RunTable
  MaxAct <- MaxActTable
  Ceiling <- CeilingTable
  MaxTake <- MaxTakeTable
  Liberties = {"exits holding a mutex"}
  Built = {"dvska", "osek", "hid", "midi", "serial"}
  Keys <- MCKeys
  NoteOf <- MCNoteOf
  RingLen = 3
  MaxInputs <- MCMaxInputs
  MaxBeats <- MCMaxBeats
  Crowding = {}
INVARIANTS
  OutputsRight
  
CHECK_DEADLOCK FALSE
