SPECIFICATION FairSpec
CONSTANTS
  l1 = l1
  l2 = l2
  c1 = c1
  c2 = c2
  c3 = c3
  None = None
  Listeners = {l1, l2}
  Conns = {c1, c2, c3}
  Home <- HomeOf
  MaxRequests <- Limits
  Uri <- UriOf
  Routes <- RouteTable
  Unreliable = {c1}
  Faults = {"taken"}
INVARIANTS
  AnswersOwnRequest
  RefusedAfterRaise
  DrainedBeforeClose
  CutOffUnanswered
PROPERTIES
  EveryRequestSettled
CHECK_DEADLOCK FALSE
