CONSTANTS
  Clients = {c1, c2}
  Bindings = {v1, v2}
  Runs = {v1}

SPECIFICATION Spec

INVARIANTS
  RowsDescribeFiles
  SucceededIsWhole

