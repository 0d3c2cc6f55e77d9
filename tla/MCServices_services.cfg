SPECIFICATION MCSpec
CONSTANTS
  TwoAtOnce = {a, b}
  KeyRequest = {a, b}
  MaxKeys = 3
  MaxTime = 3
  MaxTokens = 1
  Tick = 2
  Attempt = {a, b}
  Limit = 3
  Window = 2
  BookingRequest = {a, b}
  NoBooking = NoBooking
  Attendee = {x, y}
  Hours = 2
  Longest = 2
  Pass = {a, b}
  Conditions <- TheConditions
  Clearing = {"drift"}
  MaxAttempts = 2
  MaxEvents = 1
  Writer = {a, b}
  NoWriter = NoWriter
  Advisory = TRUE
  AppendRetries = 2
  MaxMade = 4
INVARIANTS
  ChainIntact
  KeysKeepTheirPromise
  LimiterHolds
  CalendarIsConsistent
  AlertsAreBounded
PROPERTIES
  LogGrows
  NothingIsTakenBack
  RefusedForAReason
  ServicesEnd
CHECK_DEADLOCK FALSE
