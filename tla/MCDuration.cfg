SPECIFICATION FairSpec
CONSTANTS
  Producers = {io}
  Presses = {2, 3, 31}
  WebActions = {"Duration", "Start", "Reset"}
  None = None
  Wall = 100
  NoteOrigin = FALSE
  MaxTicks = 2
  MaxEvents = 1
  DURATION_WORK_TIME = 1
INVARIANT LatestTwoRun
PROPERTIES WorkTimesEnd ResetEndsGame
