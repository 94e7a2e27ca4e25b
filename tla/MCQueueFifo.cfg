SPECIFICATION Spec
CONSTANTS
  Producers = {io, http}
  Lua = lua
  NoThread = none
  NoEvent = nil
  Buttons = {2}
  MAX_BUTTON = 4
  FirstClock = 1
  LastClock = 1
  MaxUnread = 3
INVARIANTS TypeOK StaleBounded
PROPERTY FifoSpec
