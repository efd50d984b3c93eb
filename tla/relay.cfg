SPECIFICATION FairSpec
CONSTANTS
  dev = dev
  prod = prod
  Addons = {dev, prod}
  NConns = 2
  PageSize = 1
  MaxFaults = 2
INVARIANTS LinkTypeOK AcknowledgedReached
PROPERTIES RefinesRelayService RegisteredStays Reregisters GhostsGo
