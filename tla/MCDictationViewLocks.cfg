SPECIFICATION Spec
CONSTANTS
  NoteSlots = {0}
  Tasks = {ws, queue}
  Nobody = Nobody
  NewestFirst = TRUE
  MaxQueue = 3
INVARIANT NoLockCycle
CHECK_DEADLOCK FALSE
