--------------------------- MODULE AccountProofs ----------------------------
(***************************************************************************)
(* Safety of Account for every set of transactions, workers, crons and     *)
(* requests and every value of the limits and bounds, and the proof that   *)
(* it implements PaymentLedger.                                            *)
(*                                                                         *)
(* None of the results is inductive by itself.  That no request passes     *)
(* unpaid needs every copy of the subscription row, in Redis, in a request *)
(* or on its way to Redis, to end within what was paid (RowsCovered); that *)
(* an account is shut inside a paid period only by a race needs what a     *)
(* sweep read to hold still when it writes, unless a payment came between  *)
(* (SweepJustified); the ledger needs a cron that writes to find a row     *)
(* (CronsHaveRow).                                                         *)
(***************************************************************************)
EXTENDS Account, TLAPS

\* A job that may still be tried has an attempt left, and the webhook adds a
\* job only for a transaction that never had one.
AttemptsCounted ==
  \A t \in Txs : /\ event[t] = "none" => hook[t] = "idle" /\ job[t] = "none"
                 /\ hook[t] = "add" => job[t] = "none"
                 /\ job[t] = "none" => tries[t] = 0
                 /\ job[t] \in {"waiting", "running"} => tries[t] < Attempts

RunsHaveJob == \A w \in Workers : stage[w] # "idle" => doing[w] \in Txs

CronsHaveRow ==
  \A s \in Sweepers : sweep[s] # "idle" \/ reset[s] # "idle" => sub # None

\* A row, or a copy of one, that promises nothing beyond what was paid.
Covered(r) == r # None => r.end <= covered

RowsCovered ==
  /\ Covered(sub) /\ Covered(subCache)
  /\ \A q \in Requests : Covered(row[q]) /\ Covered(fill[q])

\* What a sweep is about to expire has lapsed, or was paid for since.
SweepJustified ==
  \A s \in Sweepers : sweep[s] = "expire" => sub.end < clock \/ raced

\* The parts of the invariant that depend on nothing else.
Typed == TypeOK /\ AttemptsCounted /\ RunsHaveJob /\ CronsHaveRow

IInv == Typed /\ RowsCovered /\ PaidTierIsPaid /\ SweepJustified /\ ShutOnlyLapsed

-----------------------------------------------------------------------------
\* The three ways in which a step can move the account: a payment, a write to
\* the row that leaves its end alone, the clock.
Pays(t) ==
  /\ t \notin payments /\ payments' = payments \cup {t}
  /\ sub' = PaidRow(t) /\ tier' = TierOf[t] /\ clock' = clock
  /\ covered' = IF PaidRow(t).end > covered THEN PaidRow(t).end ELSE covered
  /\ raced \/ (\E s \in Sweepers : sweep[s] # "idle") => raced'

Edits ==
  /\ UNCHANGED <<clock, payments, tier, covered, raced>>
  /\ \/ sub' = sub
     \/ /\ sub \in Rows /\ sub' \in Rows /\ sub'.end = sub.end
        /\ \/ sub'.status = sub.status
           \/ \E s \in Sweepers : sweep[s] = "expire"

Passes == clock' = clock + 1 /\ UNCHANGED <<payments, sub, tier, covered, raced>>

-----------------------------------------------------------------------------
\* What the writes of the crons, the owner and the meter make of a row is a
\* row with the same end.
LEMMA RowEdits ==
  ASSUME NEW r \in Rows, NEW n \in Nat
  PROVE  /\ r # None /\ r.end \in Nat /\ r.sends \in Nat
         /\ [r EXCEPT !.status = "expired"] \in Rows
         /\ [r EXCEPT !.sends = 0, !.resetAt = n] \in Rows
         /\ [r EXCEPT !.cancelled = TRUE] \in Rows
         /\ [r EXCEPT !.sends = @ + 1] \in Rows
         /\ [r EXCEPT !.status = "expired"].end = r.end
         /\ [r EXCEPT !.status = "expired"].status = "expired"
         /\ [r EXCEPT !.sends = 0, !.resetAt = n].end = r.end
         /\ [r EXCEPT !.sends = 0, !.resetAt = n].status = r.status
         /\ [r EXCEPT !.cancelled = TRUE].end = r.end
         /\ [r EXCEPT !.cancelled = TRUE].status = r.status
         /\ [r EXCEPT !.sends = @ + 1].end = r.end
         /\ [r EXCEPT !.sends = @ + 1].status = r.status
<1>1. r # None
  BY NoneAssumption
<1>3. r.end \in Nat /\ r.sends \in Nat
  BY DEF Rows
<1>4. /\ [r EXCEPT !.status = "expired"] \in Rows
      /\ [r EXCEPT !.status = "expired"].end = r.end
      /\ [r EXCEPT !.status = "expired"].status = "expired"
  BY DEF Rows
<1>5. /\ [r EXCEPT !.sends = 0, !.resetAt = n] \in Rows
      /\ [r EXCEPT !.sends = 0, !.resetAt = n].end = r.end
      /\ [r EXCEPT !.sends = 0, !.resetAt = n].status = r.status
  BY DEF Rows
<1>6. /\ [r EXCEPT !.cancelled = TRUE] \in Rows
      /\ [r EXCEPT !.cancelled = TRUE].end = r.end
      /\ [r EXCEPT !.cancelled = TRUE].status = r.status
  BY DEF Rows
<1>7. /\ [r EXCEPT !.sends = @ + 1] \in Rows
      /\ [r EXCEPT !.sends = @ + 1].end = r.end
      /\ [r EXCEPT !.sends = @ + 1].status = r.status
  BY <1>3 DEF Rows
<1> QED
  BY <1>1, <1>3, <1>4, <1>5, <1>6, <1>7

\* The row of a payment.
LEMMA PaidRowTyped ==
  ASSUME NEW t \in Txs, clock \in Nat
  PROVE  /\ PaidRow(t) \in Rows /\ PaidRow(t) # None
         /\ PaidRow(t).end = clock + Month * Months[t]
         /\ PaidRow(t).end \in Nat
         /\ PaidRow(t).status = "active"
<1>1. Months[t] \in Nat /\ Month \in Nat
  BY TxAssumption
<1>2. Month * Months[t] \in Nat
  BY <1>1
<1>3. PaidRow(t) \in Rows
  BY <1>2 DEF PaidRow, Rows
<1>4. PaidRow(t) # None
  BY <1>3, NoneAssumption
<1>5. /\ PaidRow(t).end = clock + Month * Months[t]
      /\ PaidRow(t).status = "active"
  BY DEF PaidRow
<1> QED
  BY <1>2, <1>3, <1>4, <1>5

-----------------------------------------------------------------------------
\* Types, attempts, and what runs and crons have in hand are kept by every
\* step.
LEMMA TypedStep ==
  ASSUME Typed, [Next]_vars
  PROVE  Typed'
<1> USE DEF Typed, TypeOK, AttemptsCounted, RunsHaveJob, CronsHaveRow, ledgerVars,
        queueVars, cronVars, requestVars, ownerVars, Event, Fault, Writes
<1> USE TxAssumption, LimitAssumption, NoneAssumption, AccountBounds
<1>1. CASE Tick
  BY <1>1 DEF Tick
<1>2. ASSUME NEW t \in Txs, HandleWebhook(t)
      PROVE  Typed'
  BY <1>2 DEF HandleWebhook, Billing
<1>3. ASSUME NEW t \in Txs, Enqueue(t)
      PROVE  Typed'
  BY <1>3 DEF Enqueue, Billing
<1>4. ASSUME NEW t \in Txs, EnqueueFails(t)
      PROVE  Typed'
  BY <1>4 DEF EnqueueFails, Billing
<1>5. ASSUME NEW w \in Workers, NEW t \in Txs, TakeJob(w, t)
      PROVE  Typed'
  BY <1>5 DEF TakeJob, Billing
<1>6. ASSUME NEW w \in Workers, Stall(w)
      PROVE  Typed'
  BY <1>6 DEF Stall, Done, Billing
<1>7. ASSUME NEW w \in Workers, RenewSubscription(w)
      PROVE  Typed'
  BY <1>7 DEF RenewSubscription, Billing
<1>8. ASSUME NEW w \in Workers, ActivateFromHelioPayment(w)
      PROVE  Typed'
  <2>1. doing[w] \in Txs
    BY <1>8 DEF ActivateFromHelioPayment
  <2>2. PaidRow(doing[w]) \in Rows /\ PaidRow(doing[w]) # None /\ PaidRow(doing[w]).end \in Nat
    BY <2>1, PaidRowTyped
  <2>3. active' \in BOOLEAN /\ raced' \in BOOLEAN
    BY <1>8, Zenon DEF ActivateFromHelioPayment
  <2>4. UNCHANGED <<Billing, hook, answered, events>>
    BY <1>8, Zenon DEF ActivateFromHelioPayment
  <2> DEFINE Paid ==
               /\ sub' = PaidRow(doing[w]) /\ payments' = payments \cup {doing[w]}
               /\ tier' = TierOf[doing[w]]
               /\ event' = [event EXCEPT ![doing[w]] = "processed"]
               /\ covered' \in {PaidRow(doing[w]).end, covered}
               /\ stage' = [stage EXCEPT ![w] = "ack"]
               /\ UNCHANGED <<doing, job, tries, faults>>
             Failed ==
               /\ UNCHANGED faults \/ Fault
               /\ Done(w)
               /\ \/ job[doing[w]] = "running" /\ Retry(doing[w])
                  \/ UNCHANGED <<job, tries>>
               /\ UNCHANGED ledgerVars
  <2>5. Paid \/ Failed
    BY <1>8, Zenon DEF ActivateFromHelioPayment
  <2>6. CASE Paid
    BY <2>1, <2>2, <2>3, <2>4, <2>6 DEF Billing
  <2>7. CASE Failed
    <3>1. /\ job' \in [Txs -> {"none", "waiting", "running", "done", "failed"}]
          /\ tries' \in [Txs -> 0..Attempts]
      BY <2>1, <2>7 DEF Retry
    <3>2. /\ AttemptsCounted'
      BY <2>1, <2>4, <2>7 DEF Retry
    <3>3. TypeOK' /\ RunsHaveJob' /\ CronsHaveRow'
      BY <2>4, <2>7, <3>1 DEF Done, Billing
    <3> QED
      BY <3>2, <3>3
  <2> QED
    BY <2>5, <2>6, <2>7
<1>9. ASSUME NEW w \in Workers, Acknowledge(w)
      PROVE  Typed'
  BY <1>9 DEF Acknowledge, Done, Billing
<1>10. ASSUME NEW s \in Sweepers, SweepRead(s)
       PROVE  Typed'
  BY <1>10 DEF SweepRead, FindExpired, Cron
<1>11. ASSUME NEW s \in Sweepers, SweepExpire(s)
       PROVE  Typed'
  <2>1. sub \in Rows
    BY <1>11 DEF SweepExpire
  <2>2. [sub EXCEPT !.status = "expired"] \in Rows
    BY <2>1, RowEdits
  <2>3. /\ sub' = [sub EXCEPT !.status = "expired"] /\ sweep' = [sweep EXCEPT ![s] = "close"]
        /\ subCache' \in {None, subCache} /\ UNCHANGED <<Cron, active, reset>>
        /\ UNCHANGED faults \/ Fault
    BY <1>11 DEF SweepExpire, UpdateSubscription
  <2>4. faults' \in 0..MaxFaults
    BY <2>3
  <2>5. sub' \in Rows /\ sub' # None
    BY <2>2, <2>3
  <2> QED
    BY <2>3, <2>4, <2>5 DEF Cron
<1>12. ASSUME NEW s \in Sweepers, SweepClose(s)
       PROVE  Typed'
  BY <1>12 DEF SweepClose, Cron
<1>13. ASSUME NEW s \in Sweepers, SweepFails(s)
       PROVE  Typed'
  BY <1>13 DEF SweepFails, Cron
<1>14. ASSUME NEW s \in Sweepers, ResetRead(s)
       PROVE  Typed'
  BY <1>14 DEF ResetRead, FindDueForReset, Cron
<1>15. ASSUME NEW s \in Sweepers, ResetSends(s)
       PROVE  Typed'
  <2>1. sub \in Rows /\ clock + Month \in Nat
    BY <1>15 DEF ResetSends
  <2>2. [sub EXCEPT !.sends = 0, !.resetAt = clock + Month] \in Rows
    BY <2>1, RowEdits
  <2> QED
    BY <1>15, <2>2 DEF ResetSends, UpdateSubscription, Cron
<1>16. CASE ScheduleCancellation
  <2>1. sub \in Rows
    BY <1>16 DEF ScheduleCancellation
  <2>2. [sub EXCEPT !.cancelled = TRUE] \in Rows
    BY <2>1, RowEdits
  <2>3. sub' \in Rows
    BY <1>16, <2>2, Zenon DEF ScheduleCancellation, UpdateSubscription
  <2>4. subCache' \in {None, subCache} /\ faults' \in 0..MaxFaults
    BY <1>16 DEF ScheduleCancellation, UpdateSubscription
  <2> QED
    BY <1>16, <2>3, <2>4 DEF ScheduleCancellation
<1>17. CASE RevokeKey \/ InvalidateCache \/ Suspend
  <2>1. CASE RevokeKey
    <3>1. revoked' \in BOOLEAN /\ suspended' \in BOOLEAN
      BY <2>1, Zenon DEF RevokeKey
    <3> QED
      BY <2>1, <3>1 DEF RevokeKey, Owner
  <2>2. CASE InvalidateCache
    BY <2>2 DEF InvalidateCache, Owner
  <2>3. CASE Suspend
    <3>1. suspended' \in BOOLEAN /\ revoked' \in BOOLEAN
      BY <2>3, Zenon DEF Suspend
    <3> QED
      BY <2>3, <3>1 DEF Suspend, Owner
  <2> QED
    BY <1>17, <2>1, <2>2, <2>3
<1>18. ASSUME NEW q \in Requests, ValidateApiKey(q) \/ LookupKey(q) \/ StoreKey(q)
       PROVE  Typed'
  BY <1>18 DEF ValidateApiKey, LookupKey, StoreKey, At, Leave, Outside
<1>19. ASSUME NEW q \in Requests, ReadSubscription(q) \/ LoadSubscription(q)
       PROVE  Typed'
  BY <1>19 DEF ReadSubscription, LoadSubscription, At, Outside
<1>20. ASSUME NEW q \in Requests, FillCache(q) \/ CheckSubscription(q)
       PROVE  Typed'
  BY <1>20 DEF FillCache, CheckSubscription, At, Leave, Outside
<1>21. ASSUME NEW q \in Requests, Intercept(q)
       PROVE  Typed'
  BY <1>21 DEF Intercept, RateLimitLua, GetTierLimits, RequestProtocol, At, Leave,
               Outside
<1>22. CASE NextSecond \/ ExpireAuth \/ ExpireSub
  BY <1>22 DEF NextSecond, ExpireAuth, ExpireSub, Outside
<1>23. CASE IncrementSendsThisPeriod
  <2>1. ASSUME sub # None
        PROVE  sub \in Rows /\ [sub EXCEPT !.sends = @ + 1] \in Rows
    BY <2>1, RowEdits
  <2> QED
    BY <1>23, <2>1 DEF IncrementSendsThisPeriod
<1>24. CASE UNCHANGED vars
  BY <1>24 DEF vars
<1> QED
  BY <1>1, <1>2, <1>3, <1>4, <1>5, <1>6, <1>7, <1>8, <1>9, <1>10, <1>11, <1>12,
     <1>13, <1>14, <1>15, <1>16, <1>17, <1>18, <1>19, <1>20, <1>21, <1>22, <1>23,
     <1>24 DEF Next, RequestStep, SweepStep

\* Every step pays, edits the row or lets time pass.
LEMMA Moves ==
  ASSUME Typed, [Next]_vars
  PROVE  Passes \/ Edits \/ \E t \in Txs : Pays(t)
<1> USE DEF Typed, TypeOK, CronsHaveRow, RunsHaveJob, ledgerVars
<1>1. CASE Tick
  BY <1>1 DEF Tick, Passes
<1>2. ASSUME NEW t \in Txs, HandleWebhook(t) \/ Enqueue(t) \/ EnqueueFails(t)
      PROVE  Edits
  BY <1>2 DEF HandleWebhook, Enqueue, EnqueueFails, Billing, Edits
<1>3. ASSUME NEW w \in Workers, NEW t \in Txs, TakeJob(w, t)
      PROVE  Edits
  BY <1>3 DEF TakeJob, Billing, Edits
<1>4. ASSUME NEW w \in Workers, Stall(w) \/ RenewSubscription(w) \/ Acknowledge(w)
      PROVE  Edits
  BY <1>4 DEF Stall, RenewSubscription, Acknowledge, Billing, Edits
<1>5. ASSUME NEW w \in Workers, ActivateFromHelioPayment(w)
      PROVE  Edits \/ \E t \in Txs : Pays(t)
  <2>1. doing[w] \in Txs
    BY <1>5 DEF ActivateFromHelioPayment
  <2>2. Edits \/ Pays(doing[w])
    BY <1>5, Zenon DEF ActivateFromHelioPayment, Fresh, Billing, Edits, Pays
  <2> QED
    BY <2>1, <2>2
<1>6. ASSUME NEW s \in Sweepers, SweepExpire(s)
      PROVE  Edits
  <2>1. sub \in Rows /\ sub' = [sub EXCEPT !.status = "expired"]
    BY <1>6 DEF SweepExpire, UpdateSubscription
  <2>2. sub' \in Rows /\ sub'.end = sub.end
    BY <2>1, RowEdits
  <2> QED
    BY <1>6, <2>1, <2>2, Zenon DEF SweepExpire, Cron, Edits
<1>7. ASSUME NEW s \in Sweepers,
             SweepRead(s) \/ SweepClose(s) \/ SweepFails(s) \/ ResetRead(s)
      PROVE  Edits
  BY <1>7 DEF SweepRead, SweepClose, SweepFails, ResetRead, Cron, Edits
<1>8. ASSUME NEW s \in Sweepers, ResetSends(s)
      PROVE  Edits
  <2>1. /\ sub \in Rows /\ clock + Month \in Nat
        /\ sub' = [sub EXCEPT !.sends = 0, !.resetAt = clock + Month]
    BY <1>8, TxAssumption, AccountBounds DEF ResetSends, UpdateSubscription
  <2>2. sub' \in Rows /\ sub'.end = sub.end /\ sub'.status = sub.status
    BY <2>1, RowEdits
  <2> QED
    BY <1>8, <2>1, <2>2, Zenon DEF ResetSends, Cron, Edits
<1>9. CASE ScheduleCancellation
  <2>1. sub \in Rows /\ sub' = [sub EXCEPT !.cancelled = TRUE]
    BY <1>9, Zenon DEF ScheduleCancellation, UpdateSubscription
  <2>2. sub' \in Rows /\ sub'.end = sub.end /\ sub'.status = sub.status
    BY <2>1, RowEdits, Zenon
  <2> QED
    BY <1>9, <2>1, <2>2, Zenon DEF ScheduleCancellation, Edits
<1>10. CASE RevokeKey \/ InvalidateCache \/ Suspend
  BY <1>10 DEF RevokeKey, InvalidateCache, Suspend, Owner, Edits
<1>11. ASSUME NEW q \in Requests, RequestStep(q) \/ ValidateApiKey(q)
       PROVE  Edits
  BY <1>11 DEF RequestStep, ValidateApiKey, LookupKey, StoreKey, ReadSubscription,
               LoadSubscription, FillCache, CheckSubscription, Intercept, Outside,
               Edits
<1>12. CASE NextSecond \/ ExpireAuth \/ ExpireSub
  BY <1>12 DEF NextSecond, ExpireAuth, ExpireSub, Outside, Edits
<1>13. CASE IncrementSendsThisPeriod
  <2>1. CASE sub' = sub
    BY <1>13, <2>1 DEF IncrementSendsThisPeriod, Edits
  <2>2. CASE sub' # sub
    <3>1. sub \in Rows /\ sub' = [sub EXCEPT !.sends = @ + 1]
      BY <1>13, <2>2 DEF IncrementSendsThisPeriod
    <3>2. sub' \in Rows /\ sub'.end = sub.end /\ sub'.status = sub.status
      BY <3>1, RowEdits
    <3> QED
      BY <1>13, <3>1, <3>2, Zenon DEF IncrementSendsThisPeriod, Edits
  <2> QED
    BY <2>1, <2>2
<1>14. CASE UNCHANGED vars
  BY <1>14 DEF vars, Edits
<1> QED
  BY <1>1, <1>2, <1>3, <1>4, <1>5, <1>6, <1>7, <1>8, <1>9, <1>10, <1>11, <1>12,
     <1>13, <1>14 DEF Next, SweepStep

\* Init establishes what the types need.
LEMMA TypedInit == Init => Typed
<1> SUFFICES ASSUME Init PROVE Typed
  OBVIOUS
<1>1. EarlierRow \in Rows /\ EarlierRow # None /\ EarlierRow.end = Month
  <2>1. EarlierRow \in Rows
    BY TxAssumption DEF EarlierRow, Rows
  <2> QED
    BY <2>1, NoneAssumption DEF EarlierRow
<1>2. /\ active \in BOOLEAN /\ revoked \in BOOLEAN /\ suspended \in BOOLEAN
      /\ raced \in BOOLEAN
  BY Zenon DEF Init
<1> QED
  BY <1>1, <1>2, TxAssumption, LimitAssumption, AccountBounds
     DEF Init, Typed, TypeOK, AttemptsCounted, RunsHaveJob, CronsHaveRow

-----------------------------------------------------------------------------
\* What was covered stays covered, and the row itself always is.
LEMMA SubCovered ==
  ASSUME Typed, RowsCovered, [Next]_vars
  PROVE  /\ Covered(sub)'
         /\ covered' \in Nat /\ covered' >= covered
<1> USE DEF Covered, RowsCovered, Typed, TypeOK
<1>1. CASE Passes
  BY <1>1 DEF Passes
<1>2. CASE Edits
  BY <1>2, NoneAssumption DEF Edits
<1>3. ASSUME NEW t \in Txs, Pays(t)
      PROVE  Covered(sub)' /\ covered' \in Nat /\ covered' >= covered
  BY <1>3, PaidRowTyped DEF Pays
<1> QED
  BY <1>1, <1>2, <1>3, Moves

\* A copy of the row is a row or None, and its end a number.
LEMMA CopyTyped ==
  ASSUME NEW r \in Rows \cup {None}, r # None
  PROVE  r.end \in Nat
  BY DEF Rows

\* Copies are made of the row or of other copies, so all stay covered.
LEMMA CopiesStep ==
  ASSUME Typed, RowsCovered, [Next]_vars
  PROVE  RowsCovered'
<1> USE DEF Typed, TypeOK, ledgerVars, requestVars
<1>0. Covered(sub)' /\ covered' \in Nat /\ covered' >= covered /\ covered \in Nat
  BY SubCovered
<1>1. ASSUME NEW r \in Rows \cup {None}, Covered(r)
      PROVE  r # None => r.end <= covered'
  BY <1>0, <1>1, CopyTyped DEF Covered
<1>2. /\ subCache' \in {None, sub, subCache} \cup {fill[q] : q \in Requests}
      /\ \A q \in Requests : /\ row'[q] \in {None, row[q], sub, subCache}
                             /\ fill'[q] \in {None, fill[q], sub}
  <2>1. CASE Tick
    BY <2>1 DEF Tick
  <2>2. ASSUME NEW x \in Txs, HandleWebhook(x) \/ Enqueue(x) \/ EnqueueFails(x)
        PROVE  UNCHANGED <<subCache, row, fill>>
    BY <2>2 DEF HandleWebhook, Enqueue, EnqueueFails, Billing
  <2>3. ASSUME NEW w \in Workers, \/ RenewSubscription(w) \/ ActivateFromHelioPayment(w)
                                  \/ Acknowledge(w) \/ Stall(w)
                                  \/ \E x \in Txs : TakeJob(w, x)
        PROVE  UNCHANGED <<subCache, row, fill>>
    BY <2>3 DEF RenewSubscription, ActivateFromHelioPayment, Acknowledge, Stall, TakeJob,
                Billing
  <2>4. ASSUME NEW s \in Sweepers, \/ SweepStep(s) \/ SweepFails(s) \/ ResetRead(s)
                                   \/ ResetSends(s)
        PROVE  subCache' \in {None, subCache} /\ UNCHANGED <<row, fill>>
    BY <2>4, Zenon DEF SweepStep, SweepRead, SweepExpire, SweepClose, SweepFails,
       ResetRead, ResetSends, UpdateSubscription, Writes, Cron
  <2>5. CASE ScheduleCancellation
    BY <2>5, Zenon DEF ScheduleCancellation, UpdateSubscription, Writes
  <2>6. CASE RevokeKey \/ InvalidateCache \/ Suspend
    BY <2>6 DEF RevokeKey, InvalidateCache, Suspend, Owner
  <2>7. ASSUME NEW q \in Requests, RequestStep(q) \/ ValidateApiKey(q)
        PROVE  /\ subCache' \in {None, sub, subCache, fill[q]}
               /\ \A p \in Requests : /\ row'[p] \in {None, row[p], sub, subCache}
                                      /\ fill'[p] \in {None, fill[p], sub}
    BY <2>7 DEF RequestStep, ValidateApiKey, LookupKey, StoreKey, ReadSubscription,
       LoadSubscription, FillCache, CheckSubscription, Intercept, Outside, At, Leave,
       Writes
  <2>8. CASE NextSecond \/ ExpireAuth \/ ExpireSub \/ IncrementSendsThisPeriod
    BY <2>8 DEF NextSecond, ExpireAuth, ExpireSub, IncrementSendsThisPeriod, Outside
  <2>9. CASE UNCHANGED vars
    BY <2>9 DEF vars
  <2> QED
    BY <2>1, <2>2, <2>3, <2>4, <2>5, <2>6, <2>7, <2>8, <2>9 DEF Next
<1>3. /\ Covered(sub) /\ Covered(subCache) /\ Covered(None)
      /\ \A q \in Requests : Covered(row[q]) /\ Covered(fill[q])
  BY DEF RowsCovered, Covered
<1>4. subCache' # None => subCache'.end <= covered'
  BY <1>1, <1>2, <1>3
<1>5. ASSUME NEW q \in Requests
      PROVE  /\ row'[q] # None => row'[q].end <= covered'
             /\ fill'[q] # None => fill'[q].end <= covered'
  BY <1>1, <1>2, <1>3
<1> QED
  BY <1>0, <1>4, <1>5 DEF RowsCovered, Covered

\* A request passes the guard only within the end of the row it was shown.
LEMMA UnpaidStep ==
  ASSUME Typed, RowsCovered, PaidTierIsPaid, [Next]_vars
  PROVE  PaidTierIsPaid'
<1> USE DEF PaidTierIsPaid
<1>1. ASSUME NEW q \in Requests, CheckSubscription(q)
      PROVE  unpaid' = 0
  <2>1. CASE MaySend(q)
    <3>1. row[q] # None /\ row[q] \in Rows /\ row[q].end \in Nat
      BY <2>1, CopyTyped DEF MaySend, Typed, TypeOK
    <3>2. row[q].end <= covered /\ clock <= row[q].end
      BY <2>1, <3>1 DEF MaySend, RowsCovered, Covered, Typed, TypeOK
    <3>3. ~(covered < clock)
      BY <3>1, <3>2 DEF Typed, TypeOK
    <3> QED
      BY <1>1, <2>1, <3>3 DEF CheckSubscription
  <2>2. CASE ~MaySend(q)
    BY <1>1, <2>2 DEF CheckSubscription
  <2> QED
    BY <2>1, <2>2
<1>2. ASSUME ~ \E q \in Requests : CheckSubscription(q)
      PROVE  unpaid' = unpaid
  BY <1>2 DEF Next, vars, requestVars, Tick, HandleWebhook, Enqueue, EnqueueFails, TakeJob,
     RenewSubscription, ActivateFromHelioPayment, Acknowledge, Stall, Billing, SweepStep,
     SweepRead, SweepExpire, SweepClose, SweepFails, ResetRead, ResetSends, Cron,
     ScheduleCancellation, RevokeKey, InvalidateCache, Suspend, Owner, RequestStep,
     ValidateApiKey, LookupKey, StoreKey, ReadSubscription, LoadSubscription, FillCache,
     Intercept, NextSecond, IncrementSendsThisPeriod, ExpireAuth, ExpireSub
<1> QED
  BY <1>1, <1>2

\* What a sweep read stays true until it writes, or a payment came between;
\* so an expired row inside its period tells of such a payment.
LEMMA SweepsStep ==
  ASSUME Typed, SweepJustified, ShutOnlyLapsed, [Next]_vars
  PROVE  SweepJustified' /\ ShutOnlyLapsed'
<1> USE DEF Typed, TypeOK, CronsHaveRow, SweepJustified
<1>1. ASSUME NEW s \in Sweepers, sweep'[s] = "expire"
      PROVE  sweep[s] = "expire" \/ (SweepRead(s) /\ FindExpired)
  BY <1>1 DEF Next, vars, cronVars, Tick, HandleWebhook, Enqueue, EnqueueFails, TakeJob,
     RenewSubscription, ActivateFromHelioPayment, Acknowledge, Stall, Billing, SweepStep,
     SweepRead, SweepExpire, SweepClose, SweepFails, ResetRead, ResetSends,
     ScheduleCancellation, RevokeKey, InvalidateCache, Suspend, Owner, RequestStep,
     ValidateApiKey, LookupKey, StoreKey, ReadSubscription, LoadSubscription, FillCache,
     CheckSubscription, Intercept, Outside, NextSecond, IncrementSendsThisPeriod,
     ExpireAuth, ExpireSub
<1>2. sub # None => sub.end \in Nat /\ sub \in Rows
  BY DEF Rows
<1>3. ASSUME NEW s \in Sweepers, SweepRead(s), FindExpired
      PROVE  sub'.end < clock'
  BY <1>3 DEF SweepRead, FindExpired, Cron
<1>4. CASE Passes
  <2>1. \A s \in Sweepers : sweep[s] = "expire" => sub'.end < clock' \/ raced'
    BY <1>2, <1>4 DEF Passes
  <2> QED
    BY <1>1, <1>2, <1>3, <1>4, <2>1 DEF Passes, ShutOnlyLapsed
<1>5. CASE Edits
  <2>1. \A s \in Sweepers : sweep[s] = "expire" => sub'.end < clock' \/ raced'
    BY <1>5 DEF Edits
  <2>2. ShutOnlyLapsed'
    <3>1. CASE \E s \in Sweepers : sweep[s] = "expire"
      <4>1. sub'.end < clock' \/ raced'
        BY <2>1, <3>1
      <4>2. sub'.end \in Nat /\ clock' \in Nat
        BY <1>2, <1>5, <3>1 DEF Edits
      <4> QED
        BY <4>1, <4>2 DEF ShutOnlyLapsed
    <3>2. CASE ~ \E s \in Sweepers : sweep[s] = "expire"
      BY <1>5, <3>2, NoneAssumption DEF Edits, ShutOnlyLapsed
    <3> QED
      BY <3>1, <3>2
  <2> QED
    BY <1>1, <1>3, <2>1, <2>2
<1>6. ASSUME NEW t \in Txs, Pays(t)
      PROVE  SweepJustified' /\ ShutOnlyLapsed'
  <2>1. \A s \in Sweepers : sweep[s] = "expire" => raced'
    BY <1>6 DEF Pays
  <2>2. ShutOnlyLapsed'
    BY <1>6, PaidRowTyped DEF Pays, ShutOnlyLapsed
  <2> QED
    BY <1>1, <1>3, <2>1, <2>2
<1> QED
  BY <1>4, <1>5, <1>6, Moves

\* The inductive invariant holds throughout.
LEMMA Inductive == Spec => []IInv
<1>1. Init => IInv
  <2> SUFFICES ASSUME Init PROVE IInv
    OBVIOUS
  <2>1. sub # None => sub.end = Month /\ sub.status = "active" /\ covered = Month
    BY DEF Init, EarlierRow
  <2> QED
    BY <2>1, TypedInit, TxAssumption
       DEF Init, IInv, RowsCovered, Covered, PaidTierIsPaid, SweepJustified,
           ShutOnlyLapsed
<1>2. IInv /\ [Next]_vars => IInv'
  BY TypedStep, CopiesStep, UnpaidStep, SweepsStep DEF IInv
<1> QED
  BY <1>1, <1>2, PTL DEF Spec

-----------------------------------------------------------------------------
\* Every variable keeps its type, for any number of transactions, workers,
\* crons and requests.  (SubscriptionService, the guards, the rate limiter.)
THEOREM TypeCorrect == Spec => []TypeOK
  BY Inductive, PTL DEF IInv, Typed

\* No request passes SubscriptionGuard on a paid tier after the last paid
\* period, whatever the two caches still hold, however often a cached row is
\* copied and whenever a late fill lands.
THEOREM PaidTiersArePaid == Spec => []PaidTierIsPaid
  BY Inductive, PTL DEF IInv

\* expireStaleSubscriptions shuts an account inside a paid period only when a
\* payment landed between its read and its writes.
THEOREM ShutsOnlyLapsed == Spec => []ShutOnlyLapsed
  BY Inductive, PTL DEF IInv

\* The account implements PaymentLedger: webhooks repeated, jobs retried or
\* run twice, crashes and failed transactions notwithstanding, a Helio
\* transaction grants its tier and its months once, and no cron, cache, owner
\* or meter moves them.  (handleWebhook, activateFromHelioPayment.)
THEOREM Refinement == Spec => ImplementsLedger
<1>1. Init => Ledger!Init
  <2> SUFFICES ASSUME Init PROVE Ledger!Init
    OBVIOUS
  <2>1. EarlierRow \in Rows /\ EarlierRow.end = Month
    BY TxAssumption DEF EarlierRow, Rows
  <2>2. (IF sub = None THEN 0 ELSE sub.end) \in Nat
    BY <2>1, TxAssumption DEF Init
  <2> QED
    BY <2>2 DEF Init, Ledger!Init
<1>2. ASSUME IInv, [Next]_vars
      PROVE  [Ledger!Next]_<<clock, payments, IF sub = None THEN 0 ELSE sub.end, tier>>
  <2>1. CASE Passes
    BY <2>1 DEF Passes, Ledger!Next, Ledger!Tick
  <2>2. CASE Edits
    <3>1. (IF sub' = None THEN 0 ELSE sub'.end) = (IF sub = None THEN 0 ELSE sub.end)
      BY <2>2, NoneAssumption DEF Edits
    <3> QED
      BY <2>2, <3>1 DEF Edits
  <2>3. ASSUME NEW t \in Txs, Pays(t)
        PROVE  Ledger!Next
    <3>1. (IF sub' = None THEN 0 ELSE sub'.end) = clock + Month * Months[t]
      BY <1>2, <2>3, PaidRowTyped DEF Pays, IInv, Typed, TypeOK
    <3>2. Ledger!Grant(t)
      BY <2>3, <3>1 DEF Pays, Ledger!Grant
    <3> QED
      BY <3>2 DEF Ledger!Next
  <2> QED
    BY <1>2, <2>1, <2>2, <2>3, Moves DEF IInv
<1> QED
  BY <1>1, <1>2, Inductive, PTL DEF Spec, ImplementsLedger, Ledger!Spec
=============================================================================
