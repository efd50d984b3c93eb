SPECIFICATION FairSpec
CONSTANTS
  s1 = s1
  s2 = s2
  kitchen = kitchen
  office = office
  SubIds = {s1, s2}
  Rooms = {kitchen, office}
  Modes = {"call"}
  NoRecord = NoRecord
  Window = 2
  MaxBatch = 2
  MaxBuffered = 1
  MaxJump = 1
  MaxRestarts = 1
INVARIANT RouterTypeOK
PROPERTIES SpacedTriggers NoneSkipped LinkedAgain
