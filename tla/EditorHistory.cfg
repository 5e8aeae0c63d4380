SPECIFICATION Spec
CONSTANTS
  LINE_MAX = 3
  HISTORY_MAX = 3
  MATCH_MAX = 3
  Keys <- HistoryKeys
  Widths = {80}
  PromptLengths = {2}
  Envs <- NoEnvs
  Specials <- OneSpecial
  Ptrs = {p1, p2, p3, p4}
  NULL = NULL
  MaxLines = 5
  Faults = {}
  SigintFate = "idle"
SYMMETRY PtrSymmetry
INVARIANTS
  Terminated
  SlotsOwned
  LastLineRecallable
PROPERTIES
  TextSpec
CHECK_DEADLOCK FALSE
