CONSTANTS
  Trans = {t1, t2, t3}
  NoTrans = NoTrans
  Branches <- MC_Branches
  Calls = {"c1"}
  CallOf <- MC_CallOf
  Unreliable = FALSE
  MaxCopies = 1
  LocalBranches = {}
  LocalMethods = {}
  PeerPackets <- MC_PeerPackets
  HandleAck = TRUE
  MaxHigh = 2
  MaxLow = 2
SPECIFICATION Spec
INVARIANTS TerminatedIsRemovedFirst NeverStranded
CHECK_DEADLOCK FALSE
