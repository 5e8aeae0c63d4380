SPECIFICATION FairSpec
CONSTANTS
  s1 = s1
  s2 = s2
  s3 = s3
  r = r
  Senders = {s1, s2}
  Receiver = r
  Cap = 1
  MaxSends = 2
  SendWaits = {"inf"}
  ReceiveWaits = {"inf"}
  Faults = {}
  Closes = FALSE
  Partial = Partial
PROPERTIES
  ReceiverWakes
CHECK_DEADLOCK FALSE
