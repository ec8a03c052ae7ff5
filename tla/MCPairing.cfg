SPECIFICATION Spec
CONSTANTS
  Addresses = {"i", "p"}
  Identity = "i"
  None = None
  MaxChanges = 2
INVARIANTS TypeOK ReportedBondIsNew
PROPERTIES ReadyPanelIsBonded
CHECK_DEADLOCK FALSE
