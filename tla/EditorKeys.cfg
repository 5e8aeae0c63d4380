SPECIFICATION Spec
CONSTANTS
  LINE_MAX = 5
  HISTORY_MAX = 1
  MATCH_MAX = 3
  Keys <- EditingKeys
  Widths = {5}
  PromptLengths = {2}
  Envs <- TwoLevels
  Specials <- OneSpecial
  Ptrs = {p1, p2}
  NULL = NULL
  MaxLines = 1
  Faults = {"notty", "norestore", "nowrite"}
  SigintFate = "killed"
SYMMETRY PtrSymmetry
INVARIANTS
  Terminated
  ScreenIsCurrent
  CookedOutside
PROPERTIES
  TextSpec
CHECK_DEADLOCK FALSE
