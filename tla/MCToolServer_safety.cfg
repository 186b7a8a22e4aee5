SPECIFICATION Spec
CONSTANTS
  c1 = c1
  c2 = c2
  b1 = b1
  b2 = b2
  Calls = {c1, c2}
  Binaries = {b1}
  Requests <- MixedRequests
  Listed = {}
  Unlistable = {}
  MaxTokens = 1
  WhitelistFaults = TRUE
SYMMETRY CallSymmetry
INVARIANTS AnswersAreOwn RunsAreAuthorized PendingIsAwaited
PROPERTY GateHolds
CHECK_DEADLOCK FALSE
