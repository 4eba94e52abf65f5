------------------------------ MODULE MCAccount ------------------------------
(* A small instance of Account for TLC. *)
EXTENDS Account

\* Two months of the second paid tier.
MonthsPaid == [t \in Txs |-> 2]
TierBought == [t \in Txs |-> 2]
\* TIER_SEND_LIMITS, scaled down.
Limits     == [k \in 0..3 |-> k + 1]
\* TIER_LIMITS, scaled down: one request a second, batches of two.
RateLimits == [k \in 0..3 |-> [burstLimit |-> k + 1, maxBatchSize |-> 2, sendsPerMonth |-> 3]]
=============================================================================
