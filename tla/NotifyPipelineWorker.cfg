\* One notification, two workers.
SPECIFICATION FairSpec
CONSTANTS
  r1 = r1
  r2 = r2
  k1 = k1
  Requests = {r2}
  Keys = {k1}
  NoKey = NoKey
  KeyOf <- OneKey
  NoRequest = NoRequest
  Workers = {w1, w2}
  NoWorker = NoWorker
  Attempts = 2
  MaxStalled = 1
  MaxFaults = 1
INVARIANT StatusBacked
INVARIANT MeteringBacked
PROPERTY DeliveredIsStable
PROPERTY AcceptedSettles
CHECK_DEADLOCK FALSE
