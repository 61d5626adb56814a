CONSTANTS
  Clients = {c1, c2}
  Keys = {k1, k2, k3}
  None = None
  MaxCalls = 3
  Reservation = 1
  MaxCost = 2
  MaxCrashes = 1

CHECK_DEADLOCK FALSE

SPECIFICATION FairSpec

INVARIANTS
  NoSilentRetry
  NoAnswerBoughtTwice
  BilledWithinBudget
  StagesInOrder
  OneExecutor

PROPERTIES
  EndedReservesNothing
  ExecutionEnds
