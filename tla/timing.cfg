SPECIFICATION Spec
CONSTANTS
  s1 = s1
  s2 = s2
  watcher = watcher
  renewer = renewer
  Subs = {s1, s2}
  Lifetime = 10
  Headroom = 8
  Period = 1
  Hold = 1
  Grace = 3
  Tasks = {watcher, renewer}
  TokenLife = 4
  Margin = 2
  Latency = 1
INVARIANTS TimingTypeOK RenewedInTime ValidOnArrival
