SPECIFICATION FairSpec
CONSTANTS
  write1 = write1
  write2 = write2
  probe = probe
  Nobody = Nobody
  Transfers = {write1, write2, probe}
  Probes = {probe}
INVARIANTS
  TypeOK
  NothingFollowsAFailure
  AckIsOwnUntilAProbeFails
PROPERTIES
  EverySendReturns
CHECK_DEADLOCK FALSE
