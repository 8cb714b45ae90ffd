SPECIFICATION Spec
CONSTANTS
  NULL = NULL
  MayRefuse = {}
  MaxResend = 1
  MaxSession = 2
  MaxDoubled <- MC_MaxDoubled
  Acknowledging = {"b"}
INVARIANTS TypeOK ZrtpIsReadable SecureIsMutual WaitIsTimed
CHECK_DEADLOCK FALSE
