SPECIFICATION Spec
CONSTANTS
  Request = {r1, r2}
  MinimumSamples = 2
  GuardEvery = 2
  MaxVersions = 3
  MaxServed = 2
INVARIANTS
  ShadowIsPassing
CHECK_DEADLOCK FALSE
