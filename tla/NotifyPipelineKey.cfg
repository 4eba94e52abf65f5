\* A send and the client's retry of it race under one idempotency key.
SPECIFICATION Spec
CONSTANTS
  r1 = r1
  r2 = r2
  k1 = k1
  Requests = {r1, r2}
  Keys = {k1}
  NoKey = NoKey
  KeyOf <- SameKey
  NoRequest = NoRequest
  Workers = {w1}
  NoWorker = NoWorker
  Attempts = 2
  MaxStalled = 1
  MaxFaults = 1
INVARIANT KeySendsOneNotification
INVARIANT QueuedAnswerHasJob
INVARIANT PassesBounded
CHECK_DEADLOCK FALSE
