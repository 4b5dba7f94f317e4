SPECIFICATION NoteSpec
CONSTANTS
  Threads <- LvglThread
  MaxNotes = 2
  MaxRec = 1
  FileRoom = 2
  BlobRoom = 0
  MaxSaves = 5
  SdFails = FALSE
  NoFile = NoFile
  Torn = Torn
  Lengths <- LongOnly
INVARIANT QueueUpdatesItsNote
