CONSTANTS
  Clients = {c1, c2}
  Keys = {k1, k2, k3}
  ManualKeys = {m1}
  StrategyKeys = {s1}
  LastDay = 3
  OpenOrderLimits = {1, 2}
  MaxVersion = 4

SPECIFICATION Spec
SYMMETRY Symmetric

INVARIANTS
  AdvanceLedger
  FillsFollowSubmission
  NoMissedExecution

PROPERTIES
  RiskFreezeCancelsPending
  ReplaysAsClock
