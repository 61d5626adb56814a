CONSTANTS
  c1 = c1
  c2 = c2
  source = source
  edited = edited
  broken = broken
  m1 = m1
  m2 = m2
  m3 = m3
  Clients = {c1, c2}
  Batches = {b1, b2}
  Datasets = {d1, d2}
  Contents = {source, edited, broken}
  Uploaded = {source, broken}
  Malformed = {broken}
  Mappings = {m1, m2, m3}
  Clean <- MCClean
  Warned <- MCWarned
  Cells <- MCCells
  Unreadable = Unreadable
  Unknown = Unknown
  MaxRows = 4
SPECIFICATION Spec
SYMMETRY Symmetric
INVARIANTS
  GateIsExact
  PublishedAsPreviewed
  PublishedIsConfirmed
  ShownEligibilityIsSafe
CHECK_DEADLOCK FALSE
