SPECIFICATION FairSpec
CONSTANTS
  main = main
  a = a
  b = b
  None = None
  Main = main
  Threads = {main, a, b}
  Functions = {"good", "arity", "garbled", "unsendable"}
  Messages = {"good", "data"}
  MaxCalls = 1
INVARIANTS
  RefsAccounted
  BoxesReclaimed
  RunsItsFunction
PROPERTIES
  StartsOrEnds
CHECK_DEADLOCK FALSE
