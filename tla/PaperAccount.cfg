CONSTANTS
  Sessions = {"s1", "s2"}
  LotIds = {1, 2, 3}
  MaxDay = 4
  OpenDays <- MCOpenDays
  ReplayDays <- MCReplayDays
  InitialCash = 6
  Prices = {1, 2}
  Fees = {1}
  MaxQuantity = 2
  MaxFills = 4

CHECK_DEADLOCK FALSE

SPECIFICATION AccountSpec

INVARIANTS
  Conservation

PROPERTIES
  SalesRespectLots
