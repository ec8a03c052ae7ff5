SPECIFICATION FairSpec
CONSTANTS
  panel = panel
  tank = tank
  loop = loop
  refresh = refresh
  Nobody = Nobody
  Address = {panel, tank}
  Seed = {panel}
  Assignable = {tank}
  Loop = loop
  Refreshes = {refresh}
  GivesUp = 2
  MaxSessions = 1
INVARIANTS
  TypeOK
  SilenceIsCounted
PROPERTIES
  AnnouncedMeansAnswered
  StartupEnds
  NotGivenUpForGood
CHECK_DEADLOCK FALSE
