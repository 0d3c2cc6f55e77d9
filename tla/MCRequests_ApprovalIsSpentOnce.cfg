SPECIFICATION MCSpec
CONSTANTS
  StepCount = 2
  Requires <- OfferRequires
  ActionOf <- OfferActions
  Optional = {}
  AwaitsExternal = {}
  Registered <- OfferTools
  Person = {ana}
  NoOne = NoOne
  Blank = Blank
  Request = {r1, r2}
  NoRequest = NoRequest
  Tenant = "acme"
  Policy <- Conservative
  MaxStepAttempts = 3
  MaxServed = 3
  Call = {c1}
  NoCall = NoCall
  Unverifiable = {}
  MaxCalls = 1
INVARIANTS
  ApprovalIsSpentOnce
CHECK_DEADLOCK FALSE
