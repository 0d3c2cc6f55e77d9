SPECIFICATION VersionsSpec
CONSTANTS
  Call = {c1, c2}
  NoCall = NoCall
  Unverifiable = {}
  MaxCalls = 4
INVARIANT OneServes
CHECK_DEADLOCK FALSE
