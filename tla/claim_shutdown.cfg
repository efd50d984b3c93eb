SPECIFICATION FairSpec
CONSTANTS
  p1 = p1
  p2 = p2
  p3 = p3
  Pairs = {p1, p2, p3}
  NoFile = NoFile
  Cut = Cut
  Workers = {"watcher"}
  MaxActivity = 2
  MaxLosses = 2
PROPERTIES StopCleansUp
