SPECIFICATION FairSpec
CONSTANTS
  MaxAnswers = 6
  MaxOpens = 1
INVARIANT FinishMeansUsable
PROPERTIES StaysComplete EscapeLeaves
CHECK_DEADLOCK FALSE
