SPECIFICATION FairSpec
CONSTANTS
  MaxIterations = 2
  MaxReply = 2
  MaxCalls = 3
  MaxRuns = 3
INVARIANTS ProviderAccepts ResultsMeetTheirCalls ResultsAreKept OneCallAfterInterrupt
PROPERTIES ConversationGrows HardCancelEnds
CHECK_DEADLOCK FALSE
