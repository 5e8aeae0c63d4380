SPECIFICATION SmallSpec
CONSTANTS
  Subjects = {"completion", "json", "tcp", "udp", "sums", "iup"}
  MATCH_MAX = 3
  Depth = 2
  Names <- FewNames
  Typed <- AnyPrefix
  Inputs <- SomeInputs
  Texts <- SomeTexts
  Sent = 5
  ReadBytes = 2
  BufSize = 4
  MaxCalls = 3
  Datagrams = 4
  Calls = 3
  Operands = {1, 3}
  Widgets = {w1, w2}
  Events = {e1, e2}
  Functions = {f1, f2}
  NoFunction = NoFunction
INVARIANTS
  KeepsSmallest
  InsertsAllCommon
  RoundTrip
  DeliversUtf8
  InOrderOnce
  FreshOrRepeated
  SumsRight
  OneEventEach
PROPERTIES
  CallsReturn
CHECK_DEADLOCK FALSE
