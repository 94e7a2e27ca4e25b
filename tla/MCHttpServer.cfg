SPECIFICATION Spec
CONSTANTS
  Clients <- Visitors
  Leavers <- Going
  Eager <- Hurry
  Plain <- Tidy
  MaxSock = 2
  BufferSize = 3
  BigEndian = TRUE
  c1 = c1
  c2 = c2
  c3 = c3
  MaxRequests <- Limit
  MaxWire <- Lines
  NoSocket = none
  Stdin = stdin
INVARIANTS TypeOK OpenHasOneSlot AnswersMatch WellFormed
PROPERTY RequestServed
CHECK_DEADLOCK FALSE
