------------------------------- MODULE Account -------------------------------
(***************************************************************************)
(* One customer's account: Helio webhooks and the activation they lead to, *)
(* the hourly sweep of lapsed subscriptions and the daily reset of send    *)
(* counters, and the requests that the auth guard, the subscription guard  *)
(* and the rate limiter let through on what two Redis caches remember.     *)
(***************************************************************************)
EXTENDS Naturals

CONSTANTS
  Txs, Months, TierOf, Month,
  SendLimit,      \* TIER_SEND_LIMITS
  TierLimits,     \* TIER_LIMITS: burst, batch and month of each tier
  Batches,        \* how many notifications a request may hold
  Workers,        \* consumers of billing-webhooks
  Sweepers,       \* gateway processes whose crons may overlap
  Requests,       \* requests that may be under way at once
  Attempts,       \* attempts of a billing-webhooks job
  None,
  MaxClock,       \* bound on the clock
  MaxRequests,    \* bound: requests that reach the rate limiter
  MaxEvents,      \* bound: acts of owners and administrators, crashes
  MaxFaults       \* bound: failed calls to Redis or Postgres that leave a trace

ASSUME TxAssumption ==
  /\ Months \in [Txs -> Nat \ {0}]
  /\ TierOf \in [Txs -> {1, 2, 3}]
  /\ Month \in Nat \ {0}
ASSUME LimitAssumption ==
  /\ SendLimit \in [0..3 -> Nat]
  /\ TierLimits \in [0..3 -> [burstLimit : Nat, maxBatchSize : Nat, sendsPerMonth : Nat]]
  /\ Batches \subseteq Nat \ {0}
ASSUME AccountBounds   ==
  Attempts \in Nat \ {0} /\ MaxClock \in Nat /\ MaxRequests \in Nat
  /\ MaxEvents \in Nat /\ MaxFaults \in Nat

VARIABLES
  clock,
  tier, active, revoked, suspended,         \* Protocol and its API key
  sub,                                      \* Subscription row, or None
  event, payments,                          \* HelioWebhookEvent, Payment rows
  hook, answered, job, tries,               \* webhook calls, the queue
  doing, stage,                             \* workers
  sweep, reset,                             \* crons, by process
  authCache, subCache, window,              \* Redis
  pc, plan, row, fill,                      \* requests
  sending,                                  \* admitted, not metered yet
  limited,                                  \* requests that reached the rate limiter
  events, faults,
  \* History: the last moment any payment covers; a payment landed inside a
  \* sweep; requests let through a paid tier outside every paid period.
  covered, raced, unpaid

ledgerVars  == <<tier, active, sub, event, payments, covered, raced>>
queueVars   == <<hook, answered, job, tries, doing, stage>>
cronVars    == <<sweep, reset>>
requestVars == <<authCache, subCache, window, pc, plan, row, fill, sending, limited, unpaid>>
ownerVars   == <<revoked, suspended>>
vars == <<clock, ledgerVars, queueVars, cronVars, requestVars, ownerVars, events, faults>>

Rows == [status : {"active", "expired"}, end : Nat, sends : Nat, resetAt : Nat,
         cancelled : BOOLEAN]

ASSUME NoneAssumption == None \notin Txs \cup (0..3) \cup Rows

TypeOK ==
  /\ clock \in 0..MaxClock
  /\ tier \in 0..3 /\ active \in BOOLEAN /\ revoked \in BOOLEAN /\ suspended \in BOOLEAN
  /\ sub \in Rows \cup {None}
  /\ event \in [Txs -> {"none", "stored", "processed"}]
  /\ payments \subseteq Txs
  /\ hook \in [Txs -> {"idle", "add"}]
  /\ answered \subseteq Txs
  /\ job \in [Txs -> {"none", "waiting", "running", "done", "failed"}]
  /\ tries \in [Txs -> 0..Attempts]
  /\ doing \in [Workers -> Txs \cup {None}]
  /\ stage \in [Workers -> {"idle", "renew", "commit", "ack"}]
  /\ sweep \in [Sweepers -> {"idle", "expire", "close"}]
  /\ reset \in [Sweepers -> {"idle", "reset"}]
  /\ authCache \in (0..3) \cup {None}
  /\ subCache \in Rows \cup {None}
  /\ window \in 0..TierLimits[0].burstLimit
  /\ pc \in [Requests -> {"idle", "lookup", "store", "sub", "row", "check", "limit"}]
  /\ plan \in [Requests -> 0..3]
  /\ row \in [Requests -> Rows \cup {None}]
  /\ fill \in [Requests -> Rows \cup {None}]
  /\ sending \in Nat /\ limited \in Nat
  /\ events \in 0..MaxEvents /\ faults \in 0..MaxFaults
  /\ covered \in Nat /\ raced \in BOOLEAN /\ unpaid \in Nat

\* What an earlier payment left.
EarlierRow == [status |-> "active", end |-> Month, sends |-> 0, resetAt |-> Month,
               cancelled |-> FALSE]

\* A live key; a new account on the free tier, or one with a month to go.
Init ==
  /\ clock = 0
  /\ active = TRUE /\ revoked = FALSE /\ suspended = FALSE
  /\ \/ tier = 0 /\ sub = None /\ covered = 0
     \/ tier = 1 /\ sub = EarlierRow /\ covered = Month
  /\ payments = {} /\ event = [t \in Txs |-> "none"]
  /\ hook = [t \in Txs |-> "idle"] /\ answered = {}
  /\ job = [t \in Txs |-> "none"] /\ tries = [t \in Txs |-> 0]
  /\ doing = [w \in Workers |-> None] /\ stage = [w \in Workers |-> "idle"]
  /\ sweep = [s \in Sweepers |-> "idle"] /\ reset = [s \in Sweepers |-> "idle"]
  /\ authCache = None /\ subCache = None /\ window = 0
  /\ pc = [q \in Requests |-> "idle"] /\ plan = [q \in Requests |-> 0]
  /\ row = [q \in Requests |-> None] /\ fill = [q \in Requests |-> None]
  /\ sending = 0 /\ limited = 0 /\ events = 0 /\ faults = 0
  /\ raced = FALSE /\ unpaid = 0

Event == events < MaxEvents /\ events' = events + 1
Fault == faults < MaxFaults /\ faults' = faults + 1

\* A write to a cache; nobody notices that it fails.
Writes(cache, new, old) == \/ cache = new /\ UNCHANGED faults
                           \/ cache = old /\ old # new /\ Fault

Tick ==
  /\ clock < MaxClock
  /\ clock' = clock + 1
  /\ UNCHANGED <<ledgerVars, queueVars, cronVars, requestVars, ownerVars, events, faults>>

-----------------------------------------------------------------------------
(* Helio calls the webhook, again and again until it is answered. *)

Billing == <<clock, cronVars, requestVars, ownerVars>>

\* A body that was processed is answered; a transaction already stored violates
\* the unique key, and the call ends in an error; a new one is stored.
HandleWebhook(t) ==
  /\ hook[t] = "idle" /\ t \notin answered
  /\ event' = [event EXCEPT ![t] = IF @ = "none" THEN "stored" ELSE @]
  /\ hook' = [hook EXCEPT ![t] = IF event[t] = "none" THEN "add" ELSE @]
  /\ answered' = IF event[t] = "processed" THEN answered \cup {t} ELSE answered
  /\ UNCHANGED <<Billing, tier, active, sub, payments, covered, raced, job, tries,
                 doing, stage, events, faults>>

Enqueue(t) ==
  /\ hook[t] = "add"
  /\ hook' = [hook EXCEPT ![t] = "idle"]
  /\ job' = [job EXCEPT ![t] = "waiting"]
  /\ \/ answered' = answered \cup {t} /\ UNCHANGED events
     \/ Event /\ UNCHANGED answered      \* the answer is lost
  /\ UNCHANGED <<Billing, ledgerVars, tries, doing, stage, faults>>

\* The process dies, or the queue refuses, between the row and the job.
EnqueueFails(t) ==
  /\ hook[t] = "add"
  /\ Event
  /\ hook' = [hook EXCEPT ![t] = "idle"]
  /\ UNCHANGED <<Billing, ledgerVars, answered, job, tries, doing, stage, faults>>

\* A consumer takes a job.
TakeJob(w, t) ==
  /\ stage[w] = "idle" /\ job[t] = "waiting"
  /\ job' = [job EXCEPT ![t] = "running"]
  /\ doing' = [doing EXCEPT ![w] = t]
  /\ stage' = [stage EXCEPT ![w] = "renew"]
  /\ UNCHANGED <<Billing, ledgerVars, hook, answered, tries, events, faults>>

Done(w) == stage' = [stage EXCEPT ![w] = "idle"] /\ doing' = [doing EXCEPT ![w] = None]

\* The lock of a job is lost: its consumer died, or goes on beside the next one.
Stall(w) ==
  /\ stage[w] # "idle" /\ job[doing[w]] = "running"
  /\ Event
  /\ job' = [job EXCEPT ![doing[w]] = "waiting"]
  /\ Done(w) \/ UNCHANGED <<stage, doing>>
  /\ UNCHANGED <<Billing, ledgerVars, hook, answered, tries, faults>>

\* The on-chain renewal: its failure is only logged.
RenewSubscription(w) ==
  /\ stage[w] = "renew"
  /\ stage' = [stage EXCEPT ![w] = "commit"]
  /\ UNCHANGED <<Billing, ledgerVars, hook, answered, job, tries, doing, events, faults>>

\* Mutant of Fresh: helioTransactionId is not unique.
FreshAlways(t) == TRUE

Fresh(t) == t \notin payments

\* The row that a payment leaves, whatever was there before.
PaidRow(t) == [status |-> "active", end |-> clock + Month * Months[t], sends |-> 0,
               resetAt |-> clock + Month * Months[t], cancelled |-> FALSE]

\* A failed job is tried again, up to its attempts.
Retry(t) ==
  /\ tries' = [tries EXCEPT ![t] = @ + 1]
  /\ job' = [job EXCEPT ![t] = IF tries[t] + 1 < Attempts THEN "waiting" ELSE "failed"]

\* activateFromHelioPayment's transaction: all of it or, when the payment exists
\* or Postgres fails, none of it, and the job is tried again.  The subscription
\* cache is left as it is.
ActivateFromHelioPayment(w) ==
  LET t == doing[w] IN
  /\ stage[w] = "commit"
  /\ \/ /\ Fresh(t)
        /\ sub' = PaidRow(t)
        /\ payments' = payments \cup {t}
        /\ tier' = TierOf[t]
        /\ active' = TRUE
        /\ event' = [event EXCEPT ![t] = "processed"]
        /\ covered' = IF PaidRow(t).end > covered THEN PaidRow(t).end ELSE covered
        /\ raced' = (raced \/ \E s \in Sweepers : sweep[s] # "idle")
        /\ stage' = [stage EXCEPT ![w] = "ack"]
        /\ UNCHANGED <<doing, job, tries, faults>>
     \/ /\ (~Fresh(t) /\ UNCHANGED faults) \/ Fault
        /\ Done(w)
        /\ IF job[t] = "running" THEN Retry(t) ELSE UNCHANGED <<job, tries>>
        /\ UNCHANGED ledgerVars
  /\ UNCHANGED <<Billing, hook, answered, events>>

\* The job is completed, if its lock is still held.
Acknowledge(w) ==
  /\ stage[w] = "ack"
  /\ Done(w)
  /\ job' = [job EXCEPT ![doing[w]] = IF @ = "running" THEN "done" ELSE @]
  /\ UNCHANGED <<Billing, ledgerVars, hook, answered, tries, events, faults>>

-----------------------------------------------------------------------------
(* The crons and the owner. *)

Cron == <<clock, tier, event, payments, covered, raced, queueVars, ownerVars,
          authCache, window, pc, plan, row, fill, sending, limited, unpaid, events>>

\* SubscriptionRepository writes the row, then deletes the cached one; nobody
\* waits for the deletion, and its failure is ignored.
UpdateSubscription(r) == sub' = r /\ Writes(subCache', None, subCache)

\* Mutant of FindExpired: only the subscriptions that were cancelled.
FindExpiredCancelled == sub # None /\ sub.status = "active" /\ sub.end < clock /\ sub.cancelled

\* Mutant of FindExpired: the end of the period is not compared.
FindExpiredEarly == sub # None /\ sub.status = "active"

FindExpired == sub # None /\ sub.status = "active" /\ sub.end < clock

\* expireStaleSubscriptions reads the lapsed rows ...
SweepRead(s) ==
  /\ sweep[s] = "idle"
  /\ FindExpired
  /\ sweep' = [sweep EXCEPT ![s] = "expire"]
  /\ UNCHANGED <<Cron, active, sub, reset, subCache, faults>>

\* ... writes each one without looking at it again ...
SweepExpire(s) ==
  /\ sweep[s] = "expire"
  /\ sweep' = [sweep EXCEPT ![s] = "close"]
  /\ UpdateSubscription([sub EXCEPT !.status = "expired"])
  /\ UNCHANGED <<Cron, active, reset>>

\* ... and closes the account; an error in either write is logged and the sweep
\* goes on.  Deactivating on chain is not waited for.
SweepClose(s) ==
  /\ sweep[s] = "close"
  /\ sweep' = [sweep EXCEPT ![s] = "idle"]
  /\ active' = FALSE
  /\ UNCHANGED <<Cron, sub, reset, subCache, faults>>

SweepFails(s) ==
  /\ sweep[s] # "idle"
  /\ Fault
  /\ sweep' = [sweep EXCEPT ![s] = "idle"]
  /\ UNCHANGED <<Cron, active, sub, reset, subCache>>

FindDueForReset == sub # None /\ sub.status = "active" /\ sub.resetAt < clock

ResetRead(s) ==
  /\ reset[s] = "idle"
  /\ FindDueForReset
  /\ reset' = [reset EXCEPT ![s] = "reset"]
  /\ UNCHANGED <<Cron, active, sub, sweep, subCache, faults>>

\* The subscription's counter starts again.
ResetSends(s) ==
  /\ reset[s] = "reset"
  /\ reset' = [reset EXCEPT ![s] = "idle"]
  /\ UpdateSubscription([sub EXCEPT !.sends = 0, !.resetAt = clock + Month])
  /\ UNCHANGED <<Cron, active, sweep>>

\* scheduleCancellation; the flag is shown to the owner, and no cron looks at it.
ScheduleCancellation ==
  /\ Event
  /\ sub # None /\ ~sub.cancelled
  /\ UpdateSubscription([sub EXCEPT !.cancelled = TRUE])
  /\ UNCHANGED <<clock, tier, active, event, payments, covered, raced, queueVars, cronVars,
                 authCache, window, pc, plan, row, fill, sending, limited, unpaid, ownerVars>>

\* admin-api revokes the key and then calls invalidateCache (which may fail or
\* be lost), or suspends the account.
Owner == <<clock, ledgerVars, queueVars, cronVars, subCache, window, pc, plan, row, fill,
           sending, limited, unpaid>>

RevokeKey ==
  /\ Event /\ ~revoked
  /\ revoked' = TRUE
  /\ UNCHANGED <<Owner, suspended, authCache, faults>>

InvalidateCache ==
  /\ revoked /\ authCache # None
  /\ authCache' = None
  /\ UNCHANGED <<Owner, ownerVars, events, faults>>

Suspend ==
  /\ Event
  /\ suspended' = ~suspended
  /\ UNCHANGED <<Owner, revoked, authCache, faults>>

-----------------------------------------------------------------------------
(* A request to send, through the guards. *)

Outside == <<clock, ledgerVars, queueVars, cronVars, ownerVars, events>>

At(q, p) == pc' = [pc EXCEPT ![q] = p]

\* The request is over, or goes on without what it remembers.
Leave(q) == /\ At(q, "idle")
            /\ plan' = [plan EXCEPT ![q] = 0]
            /\ row' = [row EXCEPT ![q] = None]

\* validateApiKey: the cached answer with the tier of then, or a lookup if there is
\* none or it cannot be read.
ValidateApiKey(q) ==
  /\ pc[q] = "idle" /\ fill[q] = None /\ limited < MaxRequests
  /\ \/ /\ authCache # None
        /\ plan' = [plan EXCEPT ![q] = authCache]
        /\ At(q, "sub")
        /\ UNCHANGED faults
     \/ /\ (authCache = None /\ UNCHANGED faults) \/ Fault
        /\ At(q, "lookup") /\ UNCHANGED plan
  /\ UNCHANGED <<Outside, authCache, subCache, window, row, fill, sending, limited, unpaid>>

\* Mutant of KeyStands: the query forgets isRevoked.
KeyStandsRevoked == ~suspended /\ active

KeyStands == ~revoked /\ ~suspended /\ active

LookupKey(q) ==
  /\ pc[q] = "lookup"
  /\ IF KeyStands THEN At(q, "store") /\ plan' = [plan EXCEPT ![q] = tier] /\ UNCHANGED row
                  ELSE Leave(q)
  /\ UNCHANGED <<Outside, authCache, subCache, window, fill, sending, limited, unpaid, faults>>

\* The answer is cached, after whatever happened since it was read; a failed write is
\* ignored.
StoreKey(q) ==
  /\ pc[q] = "store"
  /\ Writes(authCache', plan[q], authCache)
  /\ At(q, "sub")
  /\ UNCHANGED <<Outside, subCache, window, plan, row, fill, sending, limited, unpaid>>

\* SubscriptionGuard: the free tier passes; a cached row is used as it is;
\* without one, or without Redis, the row is read.
ReadSubscription(q) ==
  /\ pc[q] = "sub"
  /\ \/ /\ plan[q] = 0
        /\ At(q, "limit") /\ UNCHANGED <<row, faults>>
     \/ /\ plan[q] # 0 /\ subCache # None
        /\ row' = [row EXCEPT ![q] = subCache]
        /\ At(q, "check") /\ UNCHANGED faults
     \/ /\ plan[q] # 0
        /\ (subCache = None /\ UNCHANGED faults) \/ Fault
        /\ At(q, "row") /\ UNCHANGED row
  /\ UNCHANGED <<Outside, authCache, subCache, window, plan, fill, sending, limited, unpaid>>

\* On a miss the row is read and its copy sent to Redis, without waiting.
LoadSubscription(q) ==
  /\ pc[q] = "row"
  /\ row' = [row EXCEPT ![q] = sub]
  /\ fill' = [fill EXCEPT ![q] = sub]
  /\ At(q, "check")
  /\ UNCHANGED <<Outside, authCache, subCache, window, plan, sending, limited, unpaid, faults>>

FillCache(q) ==
  /\ fill[q] # None
  /\ fill' = [fill EXCEPT ![q] = None]
  /\ Writes(subCache', fill[q], subCache)
  /\ UNCHANGED <<Outside, authCache, window, pc, plan, row, sending, limited, unpaid>>

\* Mutant of MaySend: the status is enough.
MaySendStatusOnly(q) ==
  /\ row[q] # None
  /\ row[q].status = "active"
  /\ row[q].sends < SendLimit[plan[q]]

\* The row, cached or not, is held against the clock of now.
MaySend(q) ==
  /\ row[q] # None
  /\ row[q].status = "active"
  /\ row[q].end >= clock
  /\ row[q].sends < SendLimit[plan[q]]

CheckSubscription(q) ==
  /\ pc[q] = "check"
  /\ IF MaySend(q)
     THEN /\ At(q, "limit")
          /\ unpaid' = IF covered < clock THEN unpaid + 1 ELSE unpaid
          /\ UNCHANGED <<plan, row>>
     ELSE Leave(q) /\ UNCHANGED unpaid
  /\ UNCHANGED <<Outside, authCache, subCache, window, fill, sending, limited, faults>>

\* The interceptor takes the scheme of the URL (request.protocol) for the account:
\* there is no tier, no id, no counter and no overage flag in it.
RequestProtocol == [tier |-> None, sendsThisPeriod |-> 0, overageEnabled |-> FALSE]

GetTierLimits(k) == IF k \in DOMAIN TierLimits THEN TierLimits[k] ELSE TierLimits[0]

\* The script counts the request.  At the limit every further request is refused,
\* so the counter is kept up to there.
RateLimitLua == window + 1

CheckPerSecondLimit(current, limits) == current <= limits.burstLimit

CheckMonthlyQuota(account, count, limits) ==
  account.sendsThisPeriod + count <= limits.sendsPerMonth \/ account.overageEnabled

\* The second, the size of the batch, the month: without an id every account counts
\* in one window.
CheckAllLimits(account, count) ==
  LET limits == GetTierLimits(account.tier) IN
  /\ CheckPerSecondLimit(RateLimitLua, limits)
  /\ count <= limits.maxBatchSize
  /\ CheckMonthlyQuota(account, count, limits)

\* A request within the limits is admitted; another is counted and refused, and
\* without Redis it is refused.
Intercept(q) ==
  LET limits == GetTierLimits(RequestProtocol.tier) IN
  /\ pc[q] = "limit"
  /\ Leave(q)
  /\ limited' = limited + 1
  /\ \/ \E count \in Batches :
          /\ window' = IF RateLimitLua > limits.burstLimit THEN window ELSE RateLimitLua
          /\ sending' = IF CheckAllLimits(RequestProtocol, count) THEN sending + count ELSE sending
     \/ UNCHANGED <<window, sending>>
  /\ UNCHANGED <<Outside, authCache, subCache, fill, unpaid, faults>>

\* A new second, a new key.
NextSecond ==
  /\ window > 0
  /\ window' = 0
  /\ UNCHANGED <<Outside, authCache, subCache, pc, plan, row, fill, sending, limited, unpaid, faults>>

\* The worker meters a send, or the failure is swallowed.  (The protocol's own
\* counter grows too; no cron resets it, and the quota never sees it.)
IncrementSendsThisPeriod ==
  /\ sending > 0
  /\ sending' = sending - 1
  /\ \/ /\ sub' = IF sub = None THEN None ELSE [sub EXCEPT !.sends = @ + 1]
        /\ UNCHANGED faults
     \/ Fault /\ UNCHANGED sub
  /\ UNCHANGED <<clock, tier, active, event, payments, covered, raced, queueVars, cronVars,
                 ownerVars, authCache, subCache, window, pc, plan, row, fill, limited, unpaid,
                 events>>

\* Five minutes, or thirty seconds, are over.
ExpireAuth ==
  /\ authCache # None
  /\ authCache' = None
  /\ UNCHANGED <<Outside, subCache, window, pc, plan, row, fill, sending, limited, unpaid, faults>>

ExpireSub ==
  /\ subCache # None
  /\ subCache' = None
  /\ UNCHANGED <<Outside, authCache, window, pc, plan, row, fill, sending, limited, unpaid, faults>>

-----------------------------------------------------------------------------
RequestStep(q) ==
  \/ LookupKey(q) \/ StoreKey(q) \/ ReadSubscription(q)
  \/ LoadSubscription(q) \/ FillCache(q) \/ CheckSubscription(q) \/ Intercept(q)

SweepStep(s) == SweepRead(s) \/ SweepExpire(s) \/ SweepClose(s)

Next ==
  \/ Tick
  \/ \E t \in Txs : HandleWebhook(t) \/ Enqueue(t) \/ EnqueueFails(t)
  \/ \E w \in Workers : \/ RenewSubscription(w) \/ ActivateFromHelioPayment(w) \/ Acknowledge(w) \/ Stall(w)
                        \/ \E t \in Txs : TakeJob(w, t)
  \/ \E s \in Sweepers : SweepStep(s) \/ SweepFails(s) \/ ResetRead(s) \/ ResetSends(s)
  \/ ScheduleCancellation \/ RevokeKey \/ InvalidateCache \/ Suspend
  \/ \E q \in Requests : RequestStep(q) \/ ValidateApiKey(q)
  \/ NextSecond \/ IncrementSendsThisPeriod \/ ExpireAuth \/ ExpireSub

\* The crons come round, requests under way go on, and keys with a TTL expire.
Fairness ==
  /\ \A s \in Sweepers : WF_vars(SweepStep(s))
  /\ \A q \in Requests : WF_vars(RequestStep(q))
  /\ WF_vars(ExpireAuth)

Spec == Init /\ [][Next]_vars /\ Fairness

-----------------------------------------------------------------------------
Lapsed == sub # None /\ sub.status = "active" /\ sub.end < clock

Ledger == INSTANCE PaymentLedger WITH
            granted <- payments, paidUntil <- IF sub = None THEN 0 ELSE sub.end

\* Webhooks delivered twice, jobs retried or taken twice, crashes and failed
\* transactions notwithstanding, the account moves as PaymentLedger says: a
\* Helio transaction buys its months once, and nothing but a new transaction
\* moves the end of the period or the tier.
ImplementsLedger == Ledger!Spec

\* No request passes the subscription guard on a paid tier after the last period
\* anybody paid for, however stale the two caches are and before any cron ran.
PaidTierIsPaid == unpaid = 0

\* An account is shut inside a paid period only if the payment landed between
\* the read and the writes of a sweep (which do not look again).
ShutOnlyLapsed == sub # None /\ sub.status = "expired" /\ sub.end >= clock => raced

\* A revoked key stops working for good: although a validation that read it
\* before may cache it after the invalidation, what it cached expires and
\* nothing caches it again.
RevocationTakesEffect == revoked ~> [](authCache = None)

\* A subscription whose period is over is found by the sweep and expired, unless
\* a payment renews it first; a failed sweep is made up by the next one.
LapsedIsExpired == Lapsed ~> ~Lapsed
=============================================================================
