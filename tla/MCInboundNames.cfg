SPECIFICATION Spec
CONSTANTS
  Contents = {"registration", "registration_as_we_are", "echo",
              "sensor1_wakes", "sensor1_answers", "sensor2_answers"}
  Length <- LengthOf
  Frame <- Frames
  Payload = 2
  NoSize = NoSize
  None = None
  Garbled = Garbled
  Stranger = 9999
  Rows <- EntityRows
  SlotRows <- Slots
  MaxMessages = 3
  MaxFaults = 2
  MaxSessions = 2
  MaxReloads = 1

PROPERTIES NamesNeverGoBack
CHECK_DEADLOCK FALSE
