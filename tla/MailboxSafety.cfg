SPECIFICATION Spec
CONSTANTS
  s1 = s1
  s2 = s2
  s3 = s3
  r = r
  Senders = {s1, s2}
  Receiver = r
  Cap = 2
  MaxSends = 3
  SendWaits = {"nowait", "timed", "inf"}
  ReceiveWaits = {"nowait", "timed", "inf"}
  Faults = {"marshal", "unmarshal"}
  Closes = TRUE
  Partial = Partial
SYMMETRY SenderSymmetry
INVARIANTS
  RingIntact
  SendReportsTruth
  NoUseAfterFree
PROPERTIES
  FifoSpec
CHECK_DEADLOCK FALSE
