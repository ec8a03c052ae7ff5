SPECIFICATION Spec
CONSTANTS
  w1 = w1
  w2 = w2
  r1 = r1
  r2 = r2
  Nobody = Nobody
  Writers = {w1}
  Requests = {r1, r2}
  MaxCalls = 3
SYMMETRY Symmetric
INVARIANTS
  TypeOK
  AnnouncedMeansSession
  NobodyWaitsAtAnOpenLink
  PauseHearsCalls
  LiveWishHasARequest
PROPERTIES
  StopClosesItsLinks
  DistanceAfterReload
  HangUpSparesCalls
CHECK_DEADLOCK FALSE
