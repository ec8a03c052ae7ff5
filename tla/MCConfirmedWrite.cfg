SPECIFICATION FairSpec
CONSTANTS
  heater = heater
  source = source
  c1 = c1
  c2 = c2
  Commands = {c1, c2}
  Settings = {heater, source}
  Ranges <- ReportedAs
  Script <- TwoCommands
  Tristate = {heater}
  Attempts = 2
  MaxSessions = 2
INVARIANTS
  TypeOK
PROPERTIES
  VerdictFollowsTheReports
  SuccessMeansRetained
  EveryCommandReturns
CHECK_DEADLOCK FALSE
