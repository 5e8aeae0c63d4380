SPECIFICATION FairSpec
CONSTANTS
  c1 = c1
  c2 = c2
  c3 = c3
  v1 = v1
  v2 = v2
  Cells = {c1, c2, c3}
  Results = {v1, PENDING}
  PENDING = PENDING
  MISSING = MISSING
  Zero = Zero
  Faults = {"panic", "nofork"}
  Args <- ArgsAll
  RootLow <- RootLowValue
  MaxBatch = 2
INVARIANTS
  HandlesNameTheirCells
  AnswersAreFinal
PROPERTIES
  ServiceSpec
  WaitsOnlyForLost
CHECK_DEADLOCK FALSE
