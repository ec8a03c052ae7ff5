SPECIFICATION Spec
CONSTANTS
  Addresses = {"i", "p"}
  Identity = "i"
  None = None
  MaxChanges = 2
PROPERTIES WorkingBondIsKept
CHECK_DEADLOCK FALSE
