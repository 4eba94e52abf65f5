\* Two windows; two scanners and two workers at one notification, or one of each at one
\* and an ownerless one, or at a bad key.
SPECIFICATION MCSpec
CONSTANTS
  n1 = n1
  n2 = n2
  n3 = n3
  p1 = p1
  p2 = p2
  w1 = w1
  w2 = w2
  Notifications = {n1, n2, n3}
  BadKeys = {n2}
  Ownerless = {n3}
  Scanners = {p1, p2}
  Windows = {x1, x2}
  NoWindow = NoWindow
  Workers = {w1, w2}
  NoWorker = NoWorker
  Attempts = 2
  MaxStalled = 0
  BatchSize = 2
  MaxFaults = 1
INVARIANT BatchNotDropped
INVARIANT OnChainRecorded
PROPERTY ReceiptsSettle
CHECK_DEADLOCK FALSE
