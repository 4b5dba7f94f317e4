SPECIFICATION SoloSpec
CONSTANTS
  MaxTurns = 2
  Modes = {"solo"}
  Gone = Gone
  Partial = Partial
INVARIANT CancelledNotKept
