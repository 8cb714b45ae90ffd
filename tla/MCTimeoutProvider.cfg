CONSTANTS
  Subscribers = {s1, s2}
  Commands = {"timerE"}
  Clients = {c1, c2}
  Delays = {0, 1, 2}
  Hour = 9
  MaxTime = 2
  MaxRequests = 3
SPECIFICATION FairSpec
INVARIANTS IInv NeverOversleeps
PROPERTIES EarliestFirst ImplementsService NobodyWaitsForEver
CHECK_DEADLOCK FALSE
