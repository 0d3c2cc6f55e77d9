SPECIFICATION MCSpec
CONSTANTS
  StepCount = 3
  Requires <- ProviderRequires
  ActionOf <- ProviderActions
  Optional = {}
  AwaitsExternal = {2}
  Registered <- ProviderTools
  Person = {ana}
  NoOne = NoOne
  Blank = Blank
  Request = {r1, r2}
  NoRequest = NoRequest
  Tenant = "acme"
  Policy <- Conservative
  MaxStepAttempts = 3
  MaxServed = 5
  Call = {c1, c2}
  NoCall = NoCall
  Unverifiable = {2}
  MaxCalls = 4
INVARIANTS
  RequestsKeepTheRun
  StatusIsWitnessed
  VersionsAreGoverned
PROPERTIES
  RequestsEnd
  CallsEnd
CHECK_DEADLOCK FALSE
