SPECIFICATION Spec
CONSTANTS
  Addresses = {"i", "p", "q"}
  Identity = "i"
  None = None
  Stale = 1
  MissesBeforeWarning = 2
  RefusalsBeforeWarning = 2
  MaxChanges = 3
  MaxFlukes = 1
  MaxReloads = 1
INVARIANTS TypeOK NoticesEndWithASession
PROPERTIES NextDialIsElsewhere MemoryCostsOneAttempt LiveAddressIsReached
CHECK_DEADLOCK FALSE
