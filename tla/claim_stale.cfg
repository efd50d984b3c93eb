SPECIFICATION FairSpec
CONSTANTS
  s1 = s1
  s2 = s2
  s3 = s3
  a1 = a1
  a2 = a2
  b1 = b1
  SubIds = {s1, s2, s3}
  Events = {a1, b1}
  NRooms = 2
  EventRoom <- MCEventRoom
  EventUrl <- MCEventUrl
  NoSub = NoSub
  NoEvent = NoEvent
  FailingMailboxes = {}
  FailingRenewals = {}
  Budget <- MCBudget
  Graph = 0
  Disk = 0
  Crashes = 1
  Stops = 0
  Lapses = 0
  MaxFaults = 0
PROPERTY StaleRecordsDeleted
