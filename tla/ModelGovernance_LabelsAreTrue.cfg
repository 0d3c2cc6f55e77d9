SPECIFICATION VersionsSpec
CONSTANTS
  Call = {c1, c2}
  NoCall = NoCall
  Unverifiable = {}
  MaxCalls = 4
INVARIANT LabelsAreTrue
CHECK_DEADLOCK FALSE
