CONSTANTS
  SeqHalf = 5
  Rocs = 4
  WindowSize = 3
  IntBits = 2
  Faults = {}
  MaxPackets = 12
SPECIFICATION Spec
INVARIANTS HighestSequenceNumber InOrderIsTaken
PROPERTIES TakenOnce
CHECK_DEADLOCK FALSE
