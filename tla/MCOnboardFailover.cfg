SPECIFICATION FailoverSpec
CONSTANTS
  QueueDepth = 1
  RetryMax = 1
  MaxProbes = 2
  MaxTails = 1
  Storers = {voice}
INVARIANTS
  FailoverTypeOK
  ProbingHasJob
  RetryOrReason
  SuppressedForPump
  ListeningIsReal
PROPERTIES
  TurnEnds
  RetryHappens
