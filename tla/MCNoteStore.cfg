SPECIFICATION NoteSpec
CONSTANTS
  Threads <- LvglThread
  MaxNotes = 2
  MaxRec = 1
  FileRoom = 1
  BlobRoom = 0
  MaxSaves = 4
  SdFails = TRUE
  NoFile = NoFile
  Torn = Torn
  Lengths <- LongOnly
INVARIANTS NoteTypeOK  WavOwned
