SPECIFICATION TurnSpec
CONSTANTS
  MaxTexts = 2
  MaxCommands = 4
  MaxLinks = 2
  MaxFrames = 2
  QueueDepth = 1
INVARIANTS TurnTypeOK TextSentOnce StateFitsLink
PROPERTIES ImplementsDelivery LostForCause
CHECK_DEADLOCK FALSE
