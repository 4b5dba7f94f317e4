SPECIFICATION SoloSpec
CONSTANTS
  MaxTurns = 2
  Modes = {"solo", "other"}
  Gone = Gone
  Partial = Partial
INVARIANTS
  SoloTypeOK
  HeardNotKept
  RunKeepsHistory
PROPERTIES
  BusyEnds
  TurnEnds
  ImplementsSession
