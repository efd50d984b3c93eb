SPECIFICATION FairSpec
CONSTANTS
  s1 = s1
  s2 = s2
  s3 = s3
  a1 = a1
  a2 = a2
  b1 = b1
  SubIds = {s1, s2, s3}
  Events = {a1, a2, b1}
  NRooms = 3
  EventRoom <- MCEventRoom
  EventUrl <- MCEventUrl
  NoSub = NoSub
  NoEvent = NoEvent
  FailingMailboxes = {3}
  FailingRenewals = {b1}
  Budget <- MCBudget
  Graph = 1
  Disk = 1
  Crashes = 0
  Stops = 0
  Lapses = 0
  MaxFaults = 1
ACTION_CONSTRAINT CalendarChangesLate
CONSTRAINT FewFaults
PROPERTIES ChangeServed DueServed FiguresMended Converges
