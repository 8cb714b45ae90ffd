CONSTANTS
  Calls = {c1}
  Registers = {r1}
  Identities = {i1}
  Nobody = Nobody
  MaxInputs = 2
SPECIFICATION FairSpec
PROPERTIES ShutdownAlwaysFinishes
CHECK_DEADLOCK FALSE
