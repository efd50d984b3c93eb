SPECIFICATION Spec
CONSTANTS
  s1 = s1
  s2 = s2
  kitchen = kitchen
  office = office
  SubIds = {s1, s2}
  Rooms = {kitchen, office}
  Modes = {"call"}
  NoRecord = NoRecord
  Window = 2
  MaxBatch = 1
  MaxBuffered = 1
  MaxJump = 0
  MaxRestarts = 0
PROPERTY AnyNotificationTriggers
