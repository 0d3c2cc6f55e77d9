SPECIFICATION MCSpec
CONSTANTS
  Parts = {"run", "evidence", "impact", "fidelity", "screening", "workforce", "skills", "sentiment",
           "scheduler", "boot", "jobs"}
  StepCount = 4
  Requires <- HiringRequires
  ActionOf <- HiringActions
  Optional = {3}
  AwaitsExternal = {2}
  Registered <- HiringTools
  Person = {ana}
  NoOne = NoOne
  Blank = Blank
  Tenant = "acme"
  Policies <- Postures
  Confidences <- NoneOrLow
  MaxStepAttempts = 2
  MaxSteps = 50
  Server = {s1, s2}
  Slow = {s2}
  NoServer = NoServer
  MaxEntries = 3
  LastTime = 1
  Batch = 1
  MaxEvidence = 2
  MaxTotal = 5
  RoundsDown <- SmallRoundings
  Analyses <- SmallAnalyses
  MinimumSizes = {1, 3}
  MaxFindings = 2
  Statistics = {0, 9, 10, 24, 25}
  Candidate = {ana, bo}
  Experience = {5, 10, 20, 90}
  Briefs <- SmallBriefs
  MaxScreenings = 1
  Headcounts = {0, 1, 3}
  Rates = {0, 1, 2, 3}
  MonthlyHires = {0, 2}
  Ramps = {0, 1, 2, 3}
  Lot = 6
  Demands = {2}
  Targets = {0, 1, 3}
  MaxMonths = 4
  SolveLimit = 5
  Profiles <- SmallProfiles
  Roles <- SmallRoles
  Minimums = {0, 60}
  Mentions = {0, 1, 2, 3}
  Years = {0, 1, 2, 3, 4, 5, 6}
  Teams <- SmallTeams
  Needs = {1, 2}
  RateParts = 10
  Attrition = {0, 1, 5, 8, 9}
  RoundedDown <- SmallTruncations
  Asker = {a1, a2}
  Surveys <- SmallSurveys
  Periods <- SmallPeriods
  Texts <- SmallTexts
  MinimumSize = 2
  MaxWarned = 2
  Feature = {f, g}
  MaxTries = 2
  MaxUpheavals = 2
  Caller = {p1, p2}
  MaxDeaths = 1
  Client = {p1, p2}
  MaxJobs = 1
  PerWindow = 1
  Minute = 1
  MaxStarted = 2
  MaxNoThread = 1
INVARIANTS
  IrreversibleNeedsPerson
  StartedAfterDependencies
  TrailTellsStatus
  IdleIsSettled
  EvidenceHolds
  ImpactIsTold
  GateIsSound
  ScreeningIsClean
  PlanIsSound
  MatchesAreSound
  WarningsAreSound
  SchedulerIsPrecise
  BootIsConsistent
  JobsAreKept
PROPERTIES
  DecisionsAreFinal
  RunAdvanceReturns
  AlertsSettle
  OperationEnds
CHECK_DEADLOCK FALSE
