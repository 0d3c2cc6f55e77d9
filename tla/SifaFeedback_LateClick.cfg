SPECIFICATION FeedbackSpec
CONSTANTS
  MaxFeeds = 1
  Item = {x}
  Arm = {"treatment"}
  WindowSize = 1
  MaxUpsets = 2
INVARIANT SuccessesWithinTrials
CHECK_DEADLOCK FALSE
