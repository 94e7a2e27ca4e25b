SPECIFICATION FairSpec
CONSTANTS
  Producers = {io, server}
  Presses = {3, 14, 15, 31}
  WebActions = {"Distance", "Start"}
  None = None
  Wall = 100
  NoteOrigin = FALSE
  MaxTicks = 2
  MaxEvents = 2
  DISTANCE_WORK_TIME = 2
  DISTANCE_FLY_TIME = 1
  MaxStart = 0
  MaxLaps = 1
INVARIANTS TypeOK LapParity SignShowsLaps TimeUpIsHonest
PROPERTY FlightEnds
