SPECIFICATION OtaSpec
CONSTANTS
  v0 = v0
  v1 = v1
  bad = bad
  Images = {v0, v1, bad}
  Factory = v0
  Good = {v0, v1}
  Tasks = {settings, debug}
  Shared = {settings}
  Ver <- MCVer
  Desc <- MCDesc
  MaxSchedules = 2
  None = None
INVARIANTS
  OtaTypeOK
  FlagHasUrl
  AppliedOnce
  BootIsComplete
  HashNotLost
PROPERTIES
  ImplementsUpdate
