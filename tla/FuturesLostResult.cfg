SPECIFICATION FairSpec
CONSTANTS
  c1 = c1
  c2 = c2
  c3 = c3
  v1 = v1
  v2 = v2
  Cells = {c1, c2}
  Results = {v1}
  PENDING = PENDING
  MISSING = MISSING
  Zero = Zero
  Faults = {}
  Args <- ArgsTwo
  RootLow <- RootLowValue
  MaxBatch = 2
PROPERTIES
  DerefReturns
CHECK_DEADLOCK FALSE
