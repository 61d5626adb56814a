CONSTANTS
  Clients = {c1, c2}
  Calendars = {k1, k2}
  Zones = {z}
  Files <- MCFiles
  Versions <- MCVersions
  Owner <- MCOwner
  Bars <- MCBars
  Limit = 2
  MaxTables = 2
SPECIFICATION ProfileSpec
SYMMETRY Symmetric
INVARIANTS
  
  BoundToPublished
  
CHECK_DEADLOCK FALSE
