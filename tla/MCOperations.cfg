SPECIFICATION Spec
CONSTANTS
  temperature = temperature
  energy_source = energy_source
  sync = sync
  Actions = {temperature, energy_source}
  Sync = sync
  MaxSerial = 5
INVARIANTS
  TypeOK
PROPERTIES
  ImplementsVerdict
CHECK_DEADLOCK FALSE
