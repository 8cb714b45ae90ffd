CONSTANTS
  Trans = {t1, t2, t3}
  NoTrans = NoTrans
  Branches <- MC_Branches
  Calls = {"c1"}
  CallOf <- MC_CallOf
  Unreliable = TRUE
  MaxCopies = 1
  LocalBranches = {}
  LocalMethods = {}
  PeerPackets <- MC_PeerInvite
  HandleAck = TRUE
  MaxHigh = 2
  MaxLow = 1
SPECIFICATION Spec
INVARIANTS NoNullDereference
CHECK_DEADLOCK FALSE
