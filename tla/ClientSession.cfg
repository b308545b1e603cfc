SPECIFICATION Spec
CONSTANTS
  None = None
  Tab = {t1}
  Account = {a, b}
  MaxCalls = 2
  MaxSessions = 2
  MaxZone = 1
  MaxGeneration = 3
  MaxRevision = 2
INVARIANTS
  SavedZoneStays
  SaveLockIsReleased
PROPERTIES
  OldAnswersSwitchNobody
  SavesReachOwnAccount
  NothingCachedForNobody
SYMMETRY Symmetry
