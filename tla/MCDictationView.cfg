SPECIFICATION Spec
CONSTANTS
  NoteSlots = {0}
  Tasks = {ws, queue}
  Nobody = Nobody
  NewestFirst = TRUE
  MaxQueue = 3
INVARIANTS ViewTypeOK EventConsistent LoneEventShown
PROPERTY FadeSparesRecording
CHECK_DEADLOCK FALSE
