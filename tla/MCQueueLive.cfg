SPECIFICATION FairSpec
CONSTANTS
  Producers = {io}
  Lua = lua
  NoThread = none
  NoEvent = nil
  Buttons = {2}
  MAX_BUTTON = 3
  FirstClock = 1
  LastClock = 2
  MaxUnread = 4
INVARIANTS NeverInvents LossIsWholeRings
PROPERTIES PushCompletes HeadServed
