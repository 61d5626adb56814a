CONSTANTS
  Sessions = {s1, s2}
  Clients = {c1}
  First = s1
  Starts <- MCStarts
  LastDay = 4
  Opening <- MCOpening
  Costs <- MCCosts
  Slippage <- MCSlippage
  FeeRate <- MCFeeRate
  LeastFee = 1
  Closing <- MCClosing
  InitialCash = 12
  Asked <- MCAsked
  LimitSets <- MCLimits
  Changes <- MCChanges
  MaxVersions = 2
  MaxIntents = 2
SPECIFICATION Spec
SYMMETRY Symmetric
INVARIANTS
  ResultsAddUp
PROPERTIES
  LossStopsTrading
  LoneBuyKeepsBuffer
CHECK_DEADLOCK FALSE
