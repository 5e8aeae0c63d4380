SPECIFICATION FreeSpec
CONSTANTS
  t = t
  yes = yes
  big = big
  low = low
  fn = fn
  c1 = c1
  c2 = c2
  Absent = Absent
  NoArgs = NoArgs
  NULL = NULL
  IntMin = IntMin
  Failed = Failed
  Tables = {t}
  users = t
  MaxVisits = 2
  Conns = {c1}
  Queries <- SomeQueries
  WithNul <- Cuts
  Unbindable = {fn}
  Booleans = {yes}
  column_int <- LowHalf
  MaxCalls = 2
  Faults = {}
INVARIANTS
  ChainedScriptsWork
CHECK_DEADLOCK FALSE
