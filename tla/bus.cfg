SPECIFICATION BusSpec
CONSTANTS
  Handlers = {tracker, sync, async, queue}
  Tracker = tracker
  Async = {async}
  Streams = {queue}
  Publishers = {p1, p2}
  Nobody = nobody
  MaxEvents = 2
  MaxTokens = 4
SYMMETRY Symmetry
CHECK_DEADLOCK FALSE
INVARIANTS
  BusTypeOK
  HeardOnce
  TrackerIsCurrent
