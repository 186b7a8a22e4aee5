SPECIFICATION FairSpec
CONSTANTS
  c1 = c1
  c2 = c2
  b1 = b1
  b2 = b2
  Calls = {c1}
  Binaries = {b1, b2}
  Requests <- SingleRequests
  Listed = {b2}
  Unlistable = {b1, b2}
  MaxTokens = 2
  WhitelistFaults = TRUE
PROPERTIES QuestionReachesUser ReplyEndsWait NobodyToAskEnds
CHECK_DEADLOCK FALSE
