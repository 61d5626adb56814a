SPECIFICATION EvidenceSpec
CONSTANTS
  r1 = r1
  r2 = r2
  Runs = {r1, r2}
  Environment <- SameEnvironment
  Terms <- SameTerms
  Roles = {"BASELINE", "CANDIDATE"}
  Starts <- Worlds
  Horizon = 2
  None = None
  Clients = {c1, c2}
  Keys = {k1}
  Requests <- Asked
  Earlier = {r1, r2}
  Projections = {"BACKTEST_RUN"}
  Experiment = experiment
  Session = session
  Misfits <- NoMisfits
  Crashes = 1
SYMMETRY Sym
INVARIANTS
  NoHindsight
  ObservedOnce
  PresentIsKnown
  ProceedsOnComparable
CHECK_DEADLOCK FALSE
