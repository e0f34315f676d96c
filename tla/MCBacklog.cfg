SPECIFICATION BacklogSpec
CONSTANTS
  Buffers = {"a", "b"}
  Log0 <- LogValue
  MaxLog = 5
  Limit = 2
  Additional = 1
  MaxFetches = 1
  MaxSessions = 2
INVARIANTS RowsInOrder NoGap NothingStuck FetchEnds
CHECK_DEADLOCK FALSE
