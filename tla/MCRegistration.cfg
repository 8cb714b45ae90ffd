CONSTANTS
  Calls = {}
  Registers = {r1, r2, r3}
  Identities = {i1}
  Nobody = Nobody
  MaxInputs = 2
SPECIFICATION Spec
INVARIANTS TypeOK RegistrationKeptAlive
CHECK_DEADLOCK FALSE
