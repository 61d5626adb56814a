CONSTANTS
  Requests = {r1, r2}
  Probes = {p1}
  Hosts = {h1, h2}
  Capacity = 2
  Skew = 1
  Drift = 1
  Horizon = 3
  Nothing = Nothing
SPECIFICATION HostSpec
SYMMETRY Symmetric
INVARIANTS
  ExecutedOnce
  KnownMeansOver
  ServedTokenIsOnFile
CHECK_DEADLOCK FALSE
