SPECIFICATION ChatSpec
CONSTANTS
  MaxMessages = 3
  Sessions = {new, s1}
  NoSession = NoSession
  NewSession = new
  Texts = {ask, answer}
  UserTexts = {ask}
  NoText = NoText
  MergeWindow = 3
  UpdateWindow = 2
INVARIANTS ChatTypeOK RepliesNotSplit
PROPERTIES AsyncTextSparesUser UsesStore
