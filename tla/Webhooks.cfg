\* An event or a test in two workers, an endpoint that may fail.
SPECIFICATION FairSpec
CONSTANTS
  Events = {e1, ping}
  Ping = ping
  NoEvent = NoEvent
  Workers = {w1, w2}
  NoWorker = NoWorker
  Attempts = 3
  MaxStalled = 1
  Threshold = 2
  MaxEvents = 1
  MaxToggles = 1
  MaxFaults = 1
INVARIANT OvershootBounded
INVARIANT RepeatedOnlyAfterFault
PROPERTY EventsSettle
CHECK_DEADLOCK FALSE
