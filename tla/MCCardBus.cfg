SPECIFICATION Spec
CONSTANTS
  Cards = {0, 1}
  Words <- MCWords
  Talkers = {1}
  Flags = {1}
  CharSigned = FALSE
  MaxFaults = 2
INVARIANTS TypeOK SyncAgain EveryPressCounts
PROPERTY InventedNearFault
