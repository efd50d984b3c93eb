SPECIFICATION Spec
CONSTANTS
  s1 = s1
  s2 = s2
  s3 = s3
  a1 = a1
  a2 = a2
  b1 = b1
  SubIds = {s1, s2, s3}
  Events = {a1, a2, b1}
  NRooms = 2
  EventRoom <- MCEventRoom
  EventUrl <- MCEventUrl
  NoSub = NoSub
  NoEvent = NoEvent
  FailingMailboxes = {}
  FailingRenewals = {}
  Budget <- MCBudget
  Graph = 1
  Disk = 1
  Crashes = 1
  Stops = 1
  Lapses = 1
  MaxFaults = 2
SYMMETRY MCSymmetry
ACTION_CONSTRAINT CalendarChangesLate
CONSTRAINT FewFaults
INVARIANTS TypeOK OneRecordPerRoom IndexAgrees OneOrphanPerFault OneRoomPerFault LockNotLeaked CleanStopLeavesNoRecord HealthAgrees
PROPERTIES NoResurrection WatchedNotDropped RefinesRoomRegistry
