SPECIFICATION Spec
CONSTANTS
  MaxRuns = 2
  MaxPrompts = 4
  MaxAsks = 2
INVARIANTS PromptRunsOnce ShownIsAwaited WaitingIsShown BusyHasWorker
CHECK_DEADLOCK FALSE
