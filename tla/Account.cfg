\* One payment beside an earlier one, deliveries repeated, a sweep, cached answers.
SPECIFICATION Spec
CONSTANTS
  Txs = {t1}
  Months <- MonthsPaid
  TierOf <- TierBought
  Month = 1
  SendLimit <- Limits
  TierLimits <- RateLimits
  Batches = {1, 3}
  Workers = {w1}
  Sweepers = {s1}
  Requests = {q1}
  Attempts = 2
  None = None
  MaxClock = 2
  MaxRequests = 1
  MaxEvents = 1
  MaxFaults = 1
INVARIANT PaidTierIsPaid
INVARIANT ShutOnlyLapsed
PROPERTY ImplementsLedger
PROPERTY RevocationTakesEffect
PROPERTY LapsedIsExpired
CHECK_DEADLOCK FALSE
