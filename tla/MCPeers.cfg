CONSTANTS
  Trans = {t1, t2}
  NoTrans = NoTrans
  Branches <- MC_Branches
  Calls = {"c1"}
  CallOf <- MC_CallOf
  Unreliable = TRUE
  MaxCopies = 2
  LocalBranches <- MC_LocalBranches
  LocalMethods = {"INVITE", "OTHER"}
  PeerPackets <- MC_AnyPackets
  HandleAck = FALSE
  MaxHigh = 1
  MaxLow = 1
SPECIFICATION FairSpec
INVARIANTS TypeOK IInv NeverStranded ConclusionIsLast TerminationFindsTransaction
PROPERTIES WaitingEnds
CHECK_DEADLOCK FALSE
