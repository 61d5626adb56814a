CONSTANTS
  Instruments = {1, 2}
  Sessions = 6
  Prices = {2, 3}
  Volumes = {99}
  Unlimited = 99
  Limits = {"NONE"}
  LotSize = 1
  Unit = 10
  Commission = 1
  MinCommission = 2
  StampTax = 1
  TransferFee = 0
  BuySlippage = 0
  SellSlippage = 0
  InitialCash = 10
  Strategy = "TOP_N_MOMENTUM_ROTATION"
  Held = 1
  Weight = 80
  Lookback = 1
  Every = 1
  TopN = 1
  MinMomentum = 0
SPECIFICATION Spec
INVARIANTS
  SoldWithinHoldings
CHECK_DEADLOCK FALSE
