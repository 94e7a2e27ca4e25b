SPECIFICATION FairSpec
CONSTANTS
  CardSize = 1
  Length = 1
  FirstClock = 1
  LastStart = 1
  LastClock = 2
INVARIANTS RemainingBounded
PROPERTIES CutShortOnlyByRaceOrMove EverySignalEnds
