SPECIFICATION LogSpec
CONSTANTS
  Polls = {poller, refresh}
  Poller = poller
  MaxLinesPerPoll = 2
  Second = 2
  FirstWindow = 1
  Null = Null
  MaxTime = 3
  MaxLog = 3
INVARIANTS
  NothingSkipped
  CountedOnce
  SeenIsAtLast
PROPERTIES
  EveryRequestCounted
CHECK_DEADLOCK FALSE
