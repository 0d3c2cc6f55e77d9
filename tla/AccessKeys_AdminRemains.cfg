SPECIFICATION KeysSpec
CONSTANTS
  KeyRequest = {a, b}
  MaxKeys = 3
  MaxTime = 4
  MaxTokens = 1
  Tick = 2
INVARIANT AdminRemains
CHECK_DEADLOCK FALSE
