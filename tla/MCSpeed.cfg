SPECIFICATION FairSpec
CONSTANTS
  Producers = {io}
  Presses = {2, 3, 6, 14, 15, 31}
  WebActions = {"Speed"}
  None = None
  Wall = 100
  NoteOrigin = TRUE
  MaxTicks = 5
  MaxEvents = 1
  SPEED_WORK_TIME = 5
  TURN_GAP = 0
  LAUNCH_TIME = 1
  MaxStart = 0
INVARIANTS TypeOK TimingConsistent FlightTimeFloor TimesFollowClock
PROPERTY WorkTimeEnds
