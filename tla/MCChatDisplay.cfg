SPECIFICATION Spec
CONSTRAINT Scenes
CONSTANTS
  Widths = {1, 2}
  StartWidth = 1
  Height <- MCHeight
  Fd <- MCFd
  MaxToolLines = 1
  MaxPrompts = 4
  MaxRequests = 2
  MaxTools = 2
  MaxThoughts = 2
  MaxGestures = 1
  MaxOutput = 2
INVARIANTS ScreenIsFaithful TracesAreOwn CancelSilences
PROPERTY WrittenStays
CHECK_DEADLOCK FALSE
