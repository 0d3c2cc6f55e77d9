SPECIFICATION MCSpec
CONSTANTS
  MaxFeeds = 2
  Item = {x, y}
  Arm = {"treatment"}
  WindowSize = 1
  MaxUpsets = 1
  Data = {A, B}
  NoData = NoData
  MaxStarts = 4
  MaxRankers = 2
  Items = 7
  Author = {a}
  Anonymous = Anonymous
  Topics <- TwoTopics
  Scores = {5000, 8000}
  ReturnK = 5
  ExplorePercent = 49
  MaxPerAuthor = 3
  Buckets = 2
  Holdout = 1
  Name = {f, g}
  MaxValue = 1
  Ttl = 2
  LastMoment = 3
  Embargo = 1
  MaxRows = 3
  MaxExamples = 1
  Point = {0, 1, 4, 10, 12}
  Query = {0, 10}
  TopLevel = 1
  M = 2
  Ef = 2
  MaxNodes = 4
  MaxMoves = 1
  Request = {r1, r2}
  MinimumSamples = 2
  GuardEvery = 2
  MaxVersions = 3
  MaxServed = 4
INVARIANTS
  FeedbackIsCounted
  RolloutIsConsistent
  StateIsRestorable
  FeedIsFair
  FeaturesAreOfTheirTime
  IndexIsNavigable
PROPERTIES
  RolloutMovesOn
  RowsKeepToTheirTime
CHECK_DEADLOCK FALSE
