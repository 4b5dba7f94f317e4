SPECIFICATION StoreSpec
CONSTANTS
  MaxMessages = 3
  Sessions = {s0, s1}
  NoSession = NoSession
  Texts = {hello}
  NoText = NoText
INVARIANTS StoreTypeOK OnlyWindowIsActive ReceiptsUnderReplies OneSessionShown
PROPERTY ImplementsLog
