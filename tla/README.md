# TLA+ models of the Herald notification gateway

The gateway accepts notifications from protocols over HTTP, queues them in
BullMQ, resolves the recipient's channels, delivers by mail, Telegram and SMS,
reports to customer webhooks, reacts to bounces, and writes a receipt of every
delivery to Solana.  Its state is in three places that fail independently:
PostgreSQL (Prisma), Redis (cache, locks and BullMQ) and the services it calls.
Nothing spans two of them in one transaction, so nearly every handler is a
sequence of separate writes that other handlers, retries and crashes can come
between.  That is what these models are about.

Paths below are relative to `src/src/modules/` of the repository.

- [Inventory](#inventory)
- [Modules](#modules)
- [Runs](#runs)
- [Bounds](#bounds)
- [Fairness](#fairness)
- [Proofs](#proofs)
- [Where code and words disagree](#where-code-and-words-disagree)
- [Not modelled](#not-modelled)
- [Plan](#plan)

## Inventory

Processes.  The web process (`main.ts`) serves HTTP and runs `NotifyModule` with
the scheduler; the worker process (`worker-main.ts`) runs the mail and digest
processors.  The modules Receipt, Billing, Queue, Bounce and Webhook are loaded
by both, so their crons and processors run in both, and each process may be
replicated.

| component | state | operations | what is hard | what makes it correct |
|---|---|---|---|---|
| intake `notify/notify.service.ts`, `queue/queue.service.ts` | row of `notifications` (unique `idempotencyKey`), key `idempotency:notify:*` in Redis (24 h), BullMQ job | send, enqueue with a timeout, undo in the catch | row, key and job are three writes; the timer does not cancel the add; a retry races the first request | one key, one notification; "queued" means row and job exist |
| mail worker `queue/workers/mail.worker.ts` | status, `retryCount` of the row, overage meter | process: mark, resolve, dispatch, record, meter, fire | stalls run a job twice at once; the catch decides whether an error is retried | bounded repetition; row and meter claim only what happened; every job ends |
| channel dispatch `channel/channel-dispatch.service.ts` | marker of a group delivery, `email_deliveries` | choose channels, deliver on each, collect | a group message between GET and SETEX; suppression check after it was cleared | no mail to a suppressed wallet; one group message |
| scheduler `notify/scheduler.service.ts` | `scheduled_notifications` (PENDING, RUNNING, ...) | schedule once or recurring, cancel, reconcile every 5 min | overlapping passes, stale reads, a jobId reused or freed by trimming, a crash in RUNNING | a one-time schedule queued once while its jobId is held; nothing overdue for ever |
| bounces `bounce/`, `sqs/` | `email_bounces`, `email_suppressions`, SQS message | SQS poll, SNS post, Resend post, bounce job | redelivery, check-then-insert and count by several workers, failure between two writes | suppressed for a hard bounce, a complaint or three soft ones on record |
| webhooks `webhook/` | `failureCount`, `isActive`, deliveries | dispatch, deliver, auto-disable, update, delete | workers count failures concurrently; owner switches meanwhile | disabled at the threshold, repeated only after a fault |
| receipts `receipt/` | `receiptTx`, `writeReceipt`, error code of a delivered row; Redis lock of a 5 min window | scan, batch job, write one receipt | batches read earlier, two workers at one notification, transactions that land late or fail, confirmations lost | every delivery gets one receipt or a reason; what the row names is on chain |
| Telegram `telegram/`, `channel/providers/telegram.provider.ts` | bot token and linked group of a protocol, chats; Redis markers: blocked, muted, migrated, prompted, group sent, nonces | deliver to chat and group, prompt, migrate, link a group, mute, block | runs of one job at once between GET and SETEX; a message in parts that breaks off; lost answers; markers that expire; two bots for one chat | mutes are honoured, the outcome is true, no message without an explanation |
| digest `notify/digest.service.ts`, `queue/workers/digest.worker.ts` | `digest_queue` rows | buffer, hourly flush, deliver, mark | flush without lock; marked after delivery | each entry delivered in one digest, in the end |
| authentication, limits `auth/`, `src/src/common/` | key cache (300 s), fixed windows, monthly count | validate, revoke, invalidate, count | cached after the invalidation; quota read from a cache | a revoked key ends |
| billing `billing/` | subscription, tier, payment and event rows; subscription cache | payment webhook, activate, expire, reset, cancel | repeated webhooks, retried jobs, expiry against payment | a payment buys its period once; nothing paid is used unpaid |
| campaigns, broadcast `campaign/`, `admin/`, `notify/` | campaign status, notification rows, jobs | launch, cancel, enqueue per subscriber | two launches; the status written last; a crash in a fan-out | each subscriber once, and only subscribers |
| portal subscriptions, unsubscribe `subscriptions/`, `notify/unsubscribe.*` | subscription rows, portal users, opt-ins | subscribe, unsubscribe, resubscribe, follow a link | members change during a broadcast | who is in throughout is reached, who never was is not |
| routing, enclave `routing/` | identity cache | resolve, decrypt | nothing invalidates the cache | an address is used only so long after it changed |
| sandbox `sandbox/`, `notify/` | two daily counters, sandbox rows and receipts | send, playground test, record, clean up | check, queue, INCR and EXPIRE are four steps | the daily limit holds up to a stated overshoot, and opens again |
| domains `domain/` | `dkim_keys` (unique domain and selector), `bimi_records` (one per protocol and domain), DNS, SES and Resend | provision, verify, register, remove, BIMI logo and sync | DNS changes between look-up and write; verdict kept apart from its subject | a mail leaves from, and a verdict rests on, what DNS showed |
| templates `template/` | templates, versions, defaults, cache of compiled ones | create, update, approve, delete, preview, compose a mail | two updates of one version, two defaults; a template replaced while a mail is composed; cache keys that collide | version on record, one default, a mail of lawful parts |
| content scanning, Arweave storage, Solana access, analytics, health | see `PROJECT.json` | | | |

## Modules

| module | models | uses |
|---|---|---|
| `BullQueue` | a BullMQ job: add, claim, complete, throw, stall; external, from how the code uses it | |
| `Faults` | a failed call, a lost answer, a dead process, counted | |
| `NotifyPipeline` | intake, queue and mail worker of production notifications | `BullQueue` |
| `Scheduler` | scheduled notifications and the reconciliation cron | `Faults` |
| `EmailFeedback` | bounces, complaints, deliveries, suppression of a wallet, the mail that meets it | `BullQueue`, `Faults` |
| `Webhooks` | one customer webhook: its owner's calls, its events, its auto-disable | `BullQueue` |
| `Receipts` | receipt scan, batch job, transactions, the status told to the client | `BullQueue`, `Faults` |
| `Telegram` | `deliverTelegram`, both bots' updates, migration, group links, mutes | |
| `PaymentLedger` | abstract: a transaction buys its tier and months once | |
| `Account` | payments, expiry, authentication, guards and limits of one account; implements `PaymentLedger` | `PaymentLedger` |
| `Dispatch` | choice of channels, parallel tasks, SMS text, folded result; a part | |
| `Digest` | digest buffer, flush, queue and worker, and direct jobs, composed with `Dispatch` | `Dispatch`, `BullQueue` |
| `Audience` | subscriptions, broadcast, campaigns, identity cache | |
| `Sandbox` | both paths of test messages, their limits, rows and receipts | `Faults` |
| `Domains` | DKIM keys, DNS checks, provider registration, BIMI; a part | |
| `Branding` | templates and the composition of mails, composed with `Domains` | `Domains` |
| `NotifyPipelineProofs`, `WebhooksProofs`, `AccountProofs`, `AudienceProofs`, `TelegramProofs`, `BrandingProofs`, `DigestProofs`, `ServicesProofs` | theorems (those of `Domains` are in `BrandingProofs`, those of `Dispatch` in `DigestProofs`, those of `Scheduler`, `Receipts`, `EmailFeedback` and `Sandbox` in `ServicesProofs`) | the component, TLAPS |
| `MC...` | constants, scenes and symmetry of the runs; `MCReceipts` and `MCEmailFeedback` also say who is at work in a scene, `MCAudience` which list the campaign has | the component |

The four modules that `ServicesProofs` extends share one name space, so that
`Receipts`, `EmailFeedback` and `Sandbox` prefix what every specification has:
`ReceiptsSpec`, `FeedbackTypeOK`, `sandboxVars`.  They do not interact, and
`ServicesProofs` composes nothing: each of its theorems is about one of them.

How state and actions correspond to the code:

* A handler is a process with a program counter (`pc` for requests and calls,
  `wpc` for workers and writers, `ppc` for passes, `spc` for scanners, `rpc` for runs).  One action is the
  code between two awaits that touch shared state; the catch of a `try` is an
  action of its own (`Recover`, `UndoRow`, `UndoKey`, `Refuse`).
* `Fault` is the failure of one awaited call.  A branch with `Fault` goes where
  the code's error goes: to the catch, to a swallowed error, or out of the
  handler.  `Crash` ends a process between two awaits and loses its local state.
* `BullQueue` is the contract of BullMQ: the processor that loses the job's lock
  goes on, and its report is refused; a job is retried while attempts are left
  and requeued at most `MaxStalled` times.  A job added under a jobId that still
  exists is ignored, which `Scheduler` and `Receipts` depend on.
* A Redis key with a TTL is a member of a set or a record with the moment it
  expires; where only its absence matters it may expire at any time.
* Payloads, ciphertexts, signatures and wording are left out.  Where a
  conversion matters it is a function of what it depends on: a text is its
  length, its blanks and its alphabet (`Dispatch`, `Telegram`), a template a
  source, and sanitising maps sources to sources (`Branding`).
* History variables, named as such in each module, record what was sent and what
  would excuse a repetition.  No guard reads them.

`NotifyPipeline` follows `queueProductionNotification` (`IdemCheck` to
`UndoKey`), `withTimeout` (`AddAcked`, `AddTimesOut`, `AddRejected`: the add is
in flight in its own right, `AddLands`), and `processProduction`
(`MarkProcessing` to `Recover`).  A dispatch is its outcome: `all`, `some` or
`none` of the channels succeeded (`none` also when no channel was allowed, which
`Dispatch` shows).

`Scheduler` follows `reconcilePendingJobs` row by row; the job of a schedule is
only `absent`, `live` or `finished` (kept by `removeOnComplete` and
`removeOnFail`), since that decides whether an add is ignored.  A finished job may
be removed at any time (`JobRemoved`): requests trim the finished jobs of the whole
queue by count (`queue/queue.service.ts:60`).

`EmailFeedback` follows `processSesBounce` (a job of the bounce queue) and
`processResendEvent` (an HTTP handler) for one wallet.  `log` is `email_bounces`
and `email_deliveries` in order of insertion.  The mail of the last section is
the part of the mail worker and of `deliverEmail` that clears and reads the
suppression.  `abreast`, `amid` and `disowned` are histories of the races: how many
runs were between look-up and insert of one mail's bounce at once, which resets
came while a run was between cutoff and count, and which complaints were recorded
by a run that had lost its job.

`Webhooks` follows one webhook: the controller's create, update, delete and
test, `WebhookService.dispatch` for an event it is subscribed to, the pre-flight
check, POST, the delivery record and the counting of `failureCount`.

`Receipts` follows `enqueueReceiptBatches` and `ReceiptWorker.process`; a
transaction is sent, then succeeds, fails or expires on chain, whether or not
the run still waits.  A notification without an owner is passed over and stays
pending (`Ownerless`).

`Telegram` follows a run of `deliverTelegram` from the mute checks through the
parts of a split message and the group to the outcome; beside it the prompts
that move a chat to the protocol's bot, the updates of Herald's bot and of the
protocol's, bot token changes, and what users do at Telegram (`accepts`).  A call of
the Bot API may deliver the message and still fail (`"lost"`), and the group gets
its parts one by one (`GroupSend`, `NextGroupPart`) like the chat does.

`Account` follows `handleWebhook`, the worker and `activateFromHelioPayment`,
`expireStaleSubscriptions` and `resetPeriodSends` of every process, and a
request through `AuthGuard`, `SubscriptionGuard` and `RateLimitInterceptor`.
`ImplementsLedger` is the refinement: `granted` is the set of payment rows,
`paidUntil` the end of the subscription row.  No processor of the
`billing-webhooks` queue is in this repository; the model assumes one that calls
`activateFromHelioPayment`, the only function that could serve it.

`Dispatch` and `Domains` have no specification of their own: `Digest` and
`Branding` conjoin their actions with the workers and calls that make them.

`Audience` follows `queueBroadcast`, `AdminService` and `CampaignController`
per wallet (for a campaign per place in its list, `Listed`, which nothing clears of
repetitions), the calls that change who is subscribed, and `resolveIdentity`.

`Sandbox` follows `queueSandboxNotification`, the playground's test call,
`processSandbox`, and `incrementUsage` as its two Redis calls.

`Branding` follows `TemplateController` and the path of a mail: template chosen
when accepted, sender domain and template read when sent, compiled through the
cache, footer added, headers set.  It is about the mails of one protocol, `Ours`; the
keys, BIMI records and templates of others are there because a BIMI look-up is by
domain alone and the cache is shared.  The cache's key is any function of a source
(`HashOf`); `Branded` are the sources with the mark of a footer in them, and `told`
the mails whose message carries one.  A BIMI sync is four steps: the record read,
DMARC asked, the logo's record asked, the verdict written.

## Runs

| run | module, cfg | checks | shows |
|---|---|---|---|
| `pipeline_key` | `MCNotifyPipeline`, `NotifyPipelineKey` | `KeySendsOneNotification`, `QueuedAnswerHasJob`, `PassesBounded` | of two racing requests with one key at most one notification is sent, though the key expires or is deleted by the other's catch; and how often |
| `pipeline_worker` | `MCNotifyPipeline`, `NotifyPipelineWorker` | `StatusBacked`, `MeteringBacked`, `DeliveredIsStable`, `AcceptedSettles` | two workers, a stall and a fault: what row and meter may say, and that an accepted notification gets an outcome |
| `scheduler_overlap` | `Scheduler` | `RunningOwned`, `OneTimeSentOnce`, `OverdueSettles` | overlapping passes do harm only within bounds: the jobId keeps a one-time schedule from being sent twice as long as it is held, and nothing stays overdue |
| `feedback` | `MCEmailFeedback`, `EmailFeedback` | `BouncesBounded`, `SuppressionJustified`, `ComplaintEnforced` | two bounce workers beside Resend's handler: how many bounces of one mail get on record, that a suppression has its reason there, and that a complaint on record is enforced despite a fault |
| `webhooks_limit` | `Webhooks` | `OvershootBounded`, `RepeatedOnlyAfterFault`, `EventsSettle` | how far the count overshoots, when an event is repeated, that every event ends, whatever the owner does |
| `receipts_scan` | `MCReceipts`, `Receipts` | `BatchNotDropped`, `OnChainRecorded`, `ReceiptsSettle` | two windows, scanners and workers: no batch lost, what landed is recorded, every delivery gets a receipt or a reason |
| `telegram` | `MCTelegram`, `Telegram` | `MuteHonoured`, `OutcomeTruthful`, `SendsExplained` | two runs of one notification in two parts among acting users and owners, with lost answers |
| `account` | `MCAccount`, `Account` | `ImplementsLedger`, `PaidTierIsPaid`, `ShutOnlyLapsed`, `RevocationTakesEffect`, `LapsedIsExpired` | a repeated payment webhook, retried jobs, sweeps and requests on stale caches |
| `digest` | `MCDigest`, `Digest` | `DispatchLawful`, `SmsFits`, `DigestRepeatExplained`, `DigestSettles` | every way to ask for channels and every short text; digests between two flushing processes and two workers, whose jobs may use up their attempts |
| `audience` | `MCAudience`, `Audience` | `BroadcastReachesAudience`, `CampaignOnce`, `StaleAddressBounded` | two calls at a time while subscribers, campaigns and identities change; the campaign lists a wallet twice |
| `sandbox` | `Sandbox` | `SandboxOvershootBounded`, `SandboxReopens` | two calls at the limit, on either path, across midnight |
| `branding` | `MCBranding`, `Branding` | `MailLawful`, `VersionsAgree`, `DefaultsExplained`, `BimiExplained` | two calls at a time on templates, or on domains of two protocols, and a mail composed meanwhile through a cache whose keys collide |

Every module also has a `TypeOK`, proved for all of them and used as a check
while the models were written; it is not part of a run.

Several runs start in one of a few scenes (`Scenes`, `Casts`, or the direct jobs
of `Digest`): who is at work, and on what.  Parts of a module that do not touch each
other's state are then explored apart, and each race with the parties it needs, which
keeps every run within four minutes.  The larger ones have these many
distinct states: `scheduler_overlap` 521 thousand, `feedback` 224, `receipts_scan`
183, `telegram` 1,759, `audience` 2,568, `branding` 2,244.

Run one with `tlc -config NotifyPipelineKey.cfg MCNotifyPipeline`; check proofs
with `tlapm NotifyPipelineProofs.tla`.  `PROJECT.json` names for every property a
plausible bug (an operator such as `KeyUnchecked` or `StalledOnceMore`)
that TLC finds with the same configuration.

All configurations say `CHECK_DEADLOCK FALSE`: clients, schedules and events are
finite in an instance and the system is idle when they are used up.

## Bounds

* `MaxFaults` (1; 2 in `scheduler_overlap`, `sandbox` and `digest`).  One fault is a failed
  call or a crash, at any point of any handler; stalls, timeouts, failing
  endpoints, failing channels, expiring keys and expiring transactions come on
  top of it without a bound of their own.  Two faults reach an error inside a catch, and a digest
  job that uses up its attempts.
  Stalls are not faults: BullMQ bounds them itself (`MaxStalled` is the code's
  `maxStalledCount`, 1; in `receipts_scan` it is 0, a stalled batch is given up at
  once, and the next window takes its place).
* `Attempts` is 3 in the code (5 for webhooks).  The runs use 2 or 3: one retry shows
  every path through a retry, the last attempt included.
* Requests, workers, passes, scanners, calls: two where a race is the question, one
  otherwise.  A race of the code is always between two readers of one row.  In
  `feedback` two workers are at a soft bounce beside a delivery, and at a complaint,
  each with a fault; in `receipts_scan` two scanners and two workers are at one
  notification, and one of each at one beside a notification without an owner.
* `Take`, `BatchSize`, `Threshold`, `Limit` (of the sandbox), `Kept` (template
  versions), `MaxDomains` and the tier limits are large in the code and scaled to
  1 to 4, so that the limit is met.  `SingleGsm` and `SingleUcs`, 160 and 70
  characters of an SMS, are 5 and 3: long enough for a prefix, a cut and a blank
  on either side of the middle.  Telegram keeps its real 4096 and 1024.
* `SoftLimit`, the soft bounces that suspend a wallet, is 3 in the code and 2 in
  `feedback`, which then reaches the limit, a reset in between, and a redelivery,
  within two jobs (`Slots`).
* `branding` has two keys of one protocol at one place (domain and selector) and a
  third of another protocol under the same domain; two of its three sources share a
  key of the cache.
* `MaxDue`, `MaxToggles`, `MaxEvents`, `MaxRequests`, `MaxRuns`, `MaxHours`,
  `MaxJobs`, `MaxVersion`: what outsiders do, and how often clocks strike.  The
  effect of each is reset by the next, so that two rounds show what three would.
* `MaxClock` in `account` lets the period paid before the start lapse; in
  `audience` it is one more than `IdentityTtl`.

## Fairness

Safety is checked without fairness where a run has no liveness property.
Otherwise the specification adds:

* weak fairness of the steps of a handler that has begun (`RequestStep`,
  `RunStep`, `PassStep`, `ScanStep`, `SweepStep`, the steps of a digest run): an
  event loop runs a ready callback;
* strong fairness of `Claim`: an idle BullMQ worker polls for waiting jobs, and
  two workers do not starve one job for ever;
* weak fairness of `Stall` (`LockExpires`) for a job whose owner is gone: the
  stalled checker is a timer in every worker;
* weak fairness of `AddLands`: a command on a live Redis connection arrives;
* crons and clocks tick (`Tick`, `Lock`, `HourPasses`, `Midnight`, the start of a sweep),
  a key with a TTL expires (`ExpireAuth`, `SoonExpires`), the chain settles a
  transaction within its blockhash (`TxSettles`, `StraySettles`), and the mail
  provider repeats its webhook until it is answered.

Nothing is assumed of clients, owners, users, timeouts or key expiry elsewhere,
and faults are bounded, not unfair: a system that fails at every call gets
nothing done, whatever the code does.

## Proofs

Eight modules prove theorems for every value of the constants: any sets of
requests, workers, calls and rows, any limits and bounds.  Each proves
`TypeCorrect` (the type invariant of its component; `SchedulerTypeCorrect`,
`ReceiptsTypeCorrect`, `FeedbackTypeCorrect` and `SandboxTypeCorrect` in
`ServicesProofs`) and the results below.  With them every safety invariant, action
property and refinement that a run checks on a small instance is proved.

| module | theorems | of |
|---|---|---|
| `NotifyPipelineProofs` | `RepeatsBounded`, `StatusIsBacked`, `MeteringIsBacked`, `QueuedIsQueued`, `OneNotificationPerKey`, `DeliveryIsStable` | `PassesBounded`, `StatusBacked`, `MeteringBacked`, `QueuedAnswerHasJob`, `KeySendsOneNotification`, `DeliveredIsStable` |
| `WebhooksProofs` | `OvershootIsBounded`, `RepeatsOnlyAfterFault` | `OvershootBounded`, `RepeatedOnlyAfterFault` |
| `AccountProofs` | `PaidTiersArePaid`, `ShutsOnlyLapsed`, `Refinement` | `PaidTierIsPaid`, `ShutOnlyLapsed`, `ImplementsLedger` |
| `DigestProofs` | `DispatchesAreLawful`, `SmsAlwaysFits`, `DigestRepeatsAreExplained` | `DispatchLawful`, `SmsFits`, `DigestRepeatExplained` |
| `AudienceProofs` | `BroadcastsReachAudience`, `CampaignsOnce`, `StaleAddressesBounded` | `BroadcastReachesAudience`, `CampaignOnce`, `StaleAddressBounded` |
| `TelegramProofs` | `MutesAreHonoured`, `OutcomesAreTrue`, `SendsAreExplained` | `MuteHonoured`, `OutcomeTruthful`, `SendsExplained` |
| `BrandingProofs` | `MailsAreLawful`, `VersionsAlwaysAgree`, `DefaultsAreExplained`, `BimiIsExplained` | `MailLawful`, `VersionsAgree`, `DefaultsExplained`, `BimiExplained` |
| `ServicesProofs`, `Scheduler` | `RunningIsOwned`, `OneTimeIsSentOnce` | `RunningOwned`, `OneTimeSentOnce` |
| `ServicesProofs`, `Receipts` | `BatchesAreNotDropped`, `OnChainIsRecorded` | `BatchNotDropped`, `OnChainRecorded` |
| `ServicesProofs`, `EmailFeedback` | `SuppressionsAreJustified`, `BouncesAreBounded` | `SuppressionJustified`, `BouncesBounded` |
| `ServicesProofs`, `Sandbox` | `OvershootIsBounded` | `SandboxOvershootBounded` |

### The argument

Hardly any of them is inductive alone.  Each module defines an invariant
`IInv` (in `ServicesProofs` one for each component: `SchedulerInv`,
`ReceiptsInv`, ...), shows that `Init` implies it and every step keeps
it (from lemmas on the actions, or on groups of actions that change the same
state), and that it implies the property.  The invariant was checked with
TLC on the instance of the run before it was proved.

* `NotifyPipelineProofs`.  `JobsOK`: the starts of a job are its thrown attempts
  plus its stalls, plus one while it is active or completed, which bounds them
  through BullMQ's two limits.  `RunsNumbered` and `PassesNumbered`: a run carries
  the number of its start, and each pass over the channels one such number, no
  two runs the same.  `SendsOwned` and `RowsFirst`: whatever is sent has a job, and
  whatever has a job has a row.  `KeysUnique`: two rows never share a key; the
  unique column, and not the Redis key, carries the guarantee.  A delivered row
  is stable because a job that never stalled is in one run at a time (`SoleRun`),
  and a run that says delivered has nothing left to write (`DeliveredAtRest`).
* `WebhooksProofs`.  `Reserved` counts every worker that has passed the pre-flight
  check and not yet counted its outcome as a failure already made.  That an
  answered event is not posted again rests on one run at a time (`SoleRun`) and
  on a run that finds the event answered being past the post, or without a
  webhook (`AckedIsOver`).
* `AccountProofs`.  Every copy of the subscription row, in Redis, in a request or
  on its way to Redis, ends within what was paid (`RowsCovered`); what a sweep read
  still holds when it writes, unless a payment came between (`SweepJustified`);
  a job with attempts left is one the webhook added once (`AttemptsCounted`).  The
  refinement of `PaymentLedger` maps a payment's transaction to the ledger's
  step, a tick of the clock to its passing, and everything else to a stutter.
* `DigestProofs`.  The channels a dispatch tries are fixed when it starts
  (`TasksLawful`).  An entry that is not excused is in one place only: the hand of
  a flush, or a job that is open; a run of that job holds its lock; and a marked
  entry is in no such place (`Carried`); so a mail that carries it is the first
  (`Mailed`).  `SmsBody`, whose length and alphabet are those of the whole message, is
  bounded by lemmas on the search for a last blank or
  full stop (`LastFound`, `CutKeepsHalf`, `BodyFits`).
* `AudienceProofs`.  What a broadcast read lies between those reachable throughout
  and those reachable at some moment (`BroadcastsRead`); unless excused, one call at
  a time works on a campaign that is not yet running, and the entries of the list it
  still has to write to got nothing (`CampaignsAlone`); a cache entry, and what a run has in
  hand, outlives its address on the chain by no more than a lifetime
  (`CacheBounded`, `RunsBounded`).
* `TelegramProofs`.  The parts sent follow from where a run is (`Progress`); a run
  whose chat is muted stays before its first message (`HeldBack`); a group is
  followed from the administrator's link to the run that writes to it
  (`LinksAsked`); a marker in Redis excludes a second message as long as runs or
  prompts do not overlap (`GroupOnce`, `PromptOnce`); a group message that broke off
  leaves none, and is counted (`broken`), as is an answer that was lost
  (`unanswered`).
* `BrandingProofs`.  A BIMI verdict is about the logo its sync read, unless that
  was replaced, and a sync all of whose look-ups passed found that logo
  (`SyncsSound`, `BimiShown`); the cache holds sanitised sources only and answers
  with one of the same key (`CacheSound`); of a template that was not overtaken,
  one update at a time is between its version record and its row
  (`VersionsSound`), and pruning leaves that record alone; once the defaults of a
  category are unset, no default is left but that of the call that unset them
  (`DefaultsSound`); what a mail has in hand depends on how far it is
  (`MailsSound`).
* `ServicesProofs`, `Scheduler`.  A one-time schedule is queued once because the job
  of the first run stays in the queue as long as a pass may add a second one, unless
  it was removed under such a pass (`JobOutlivesRun`), and one that was never run has
  nothing queued (`FirstRunAhead`).  When it was removed, each pass can still queue it
  once: what was queued, and the passes that may still queue, are no more than the
  passes (`RunsLeft`), since no pass reads the row once something is queued for it.
* `ServicesProofs`, `Receipts`.  A window under scan is locked, by one scan, and has
  no job yet, and a job lies only in a locked window (`ScansAligned`,
  `JobsAligned`): so a batch that was read finds its jobId free.  A transaction in
  flight is that of the receipt its run has in hand (`TxAligned`); what is on chain is
  saved, about to be saved by the run that wrote it, or was lost sight of, unless two
  runs were at it (`ChainAligned`).
* `ServicesProofs`, `EmailFeedback`.  A run that is about to suppress has its reason on
  record (`ReasonOnRecord`).  The cutoff of a run that counts was the last reset when
  it was read, so that a reset after it came while that run was between cutoff and
  count, and is known as such (`ResetsAmid`).  What is on record of a mail's bounces,
  and the runs that may still add to it, are no more than were at it at once
  (`BouncesAccounted`): a run that looks up after one is on record inserts none.
* `ServicesProofs`, `Sandbox`.  On each path the messages queued today, and those that
  calls past the check are about to queue, are counted, lost, or about to be
  counted; no more calls are past the check than their peak; and either what
  they will add fits into limit and peak, or a midnight that the counter survived
  left no more of them than the peak (`Accounted`, as an inductive account of
  finite sets of calls).

### Assumptions

The named `ASSUME`s of the modules, and nothing else.  Most say that a marker such
as `None` is not a member of the sets it stands beside, that a constant
function is one, and that a limit is a number.  Those with content:

* `FiniteAssumption` (`Webhooks`), `PassesAssumption` (`Scheduler`),
  `RunnersAssumption` (`EmailFeedback`): there are finitely many workers, passes, and
  workers and handlers; the bounds count them.
* `ListedAssumption` (`Audience`): a campaign's audience is a list of wallets, with
  repetitions or without.
* `SingleAssumption` (`Dispatch`): a UCS-2 message holds no more characters than a
  GSM-7 message.
* `TemplatesAssumption` (`Branding`): finitely many templates; at least one source;
  sanitising is idempotent; `Kept`, the number of old versions kept, is at least 2
  (10 in the code).  With one, an update that has recorded the new version would
  prune the record of the version the row still shows.
* `NonceAssumption` and `DistinctAssumption` (`Telegram`): a nonce belongs to one
  protocol and one kind of bot; Herald's bot is no protocol's bot.
* `WalletsAssumption` (`Digest`): there is a wallet.

No theorem has a hypothesis of its own.

### What stays with TLC

* Every liveness property (`AcceptedSettles`, `OverdueSettles`, `ComplaintEnforced`,
  `EventsSettle`, `ReceiptsSettle`, `RevocationTakesEffect`, `LapsedIsExpired`,
  `DigestSettles`, `SandboxReopens`): they rest on fairness and `ENABLED`, which are
  outside the prover's reach.

No safety property is left to TLC alone.

## Where code and words disagree

The models show what the code does; where a sentence of the repository says
something else, no property states the sentence, and what holds instead is
checked where there is something to check.

Intake, worker and scheduler:

* After the enqueue timer the client is told "failed" (could not be attempted,
  `notify/dto/notify.dto.ts:285`), and the add, which nobody cancels
  (`queue/queue.service.ts:37`), lands and is delivered.  After such an answer
  the row keeps the unique key, so that a retry with the key meets a unique violation.
* No `notification.failed` event when all channels fail, on the last attempt
  either (`RecordOutcome` throws past the event of `Recover`).
* A recurring schedule reuses its jobId (`notify/scheduler.service.ts:174`); while
  the last job is kept, the next add is ignored and its row stays queued, though
  the cron "creates Notification rows, and enqueues BullMQ jobs".
* "Mark as RUNNING first to prevent duplicate processing"
  (`notify/scheduler.service.ts:128`) does not exclude a second pass that read the
  row before (two rows for one due time); the jobId of the first add does, while it is
  taken.  The module's defaults keep finished jobs by age, "not by count"
  (`src/src/app.module.ts:123`), but every job of a request trims the same queue by
  count (`queue/queue.service.ts:60`); with the job gone, the second pass sends the
  message again (`OneTimeSentOnce` gives the bound).
* A schedule cancelled after a pass read it is sent.
* `queueBroadcast` says the send quota is checked (`notify/notify.service.ts:771`);
  it is not.  A failed enqueue of a broadcast leaves its row `queued`.

Feedback:

* A failure between bounce row and suppression makes the retry of a hard bounce
  return early (`bounce/bounce.service.ts:130`), against "immediate identity
  suspension" (`bounce/bounce.controller.ts:21`).  Complaints are safe.
* Duplicate check and insert of a bounce are not atomic: two workers, or a worker
  and a handler, put one soft bounce on record twice, and one counts a soft bounce
  from before a delivery that came between its cutoff and its count.
  `BouncesBounded` and `SuppressionJustified` say how far that goes.
* A run that lost its job and then records a complaint may leave its suppression to
  nobody, when its successor looked the complaint up before
  (`ComplaintEnforced`, `disowned`).
* The mail worker deletes a suppression before `deliverEmail` checks it, so that
  a suspended wallet gets the next mail.
* Feedback that arrives before the worker stored the provider's message id is dropped.

Webhooks and receipts:

* Re-enabling a webhook leaves the failure count at the threshold
  (`webhook/webhook.controller.ts:173`, against the text at `:161`), and its test
  call says "dispatched" when nothing was.
* A transaction that failed on chain is saved as receipt
  (`receipt/receipt.worker.ts:340`, against the comment at `:339`).  Two workers may
  have one notification in two batches; the row then names whichever transaction
  was saved last, the failed second one included (`doubled` in `OnChainRecorded`).
* A delivery whose protocol is not found is passed over with a warning
  (`receipt/receipt.worker.ts:260`): it stays "pending" for the client, and in front
  of every oldest-first batch.  A batch's worth of them would stall all receipts,
  which is why `ReceiptsSettle` has its premise.

Telegram and dispatch:

* The marker of a group message is written unguarded: when it fails, a message
  everybody got counts as failed and is sent again.
* "Deduplicated per notification so N subscribers don't send N group messages"
  (`channel/channel-dispatch.service.ts:496`): a group message that breaks off after
  its first part, or whose answer is lost, leaves no marker, so that a retry, or the
  next subscriber's run, repeats the part that arrived (`broken` in `SendsExplained`).
* A group's `/mute` has no effect on group delivery.  `markGroupNotified`,
  `wasGroupNotified` and `isChatMuted...` of the webhook service have no callers.
* `buildSmsBody` promises "optimal encoding" that "automatically detects GSM-7 vs
  UCS-2" (`channel/providers/sns.provider.ts:61`), but judges the text alone: a prefix
  or subject that is not ASCII, or the `…` of a hard cut, makes the message UCS-2
  with the room of a GSM-7 one, more than one segment (`SmsFits` has these as its
  exceptions).  `calculateSegments` counts 154 to 160 characters as two segments.
* No caller sets digest mode; a digest carries no wallet hash, so suppression is
  not looked up; its notification id is no UUID, so its deliveries are never
  recorded; a retried job after buffering adds a second entry.

Account:

* The interceptor passes `request.protocol`, which is the URL scheme, to the rate
  limiter: tier, id and count are undefined, so that all accounts share one
  window at the Developer burst, the quota sees zero, and batches above ten are
  refused.
* The comment at `auth/auth.service.ts:115` says the key is cached for 60 s; it is 300 s.
* A crash between the event row and `queue.add` makes every redelivery fail on the
  unique key; an early renewal loses the remainder of the period; an expired
  account cannot call checkout.  `resetSendsThisPeriod` has no caller.

Audience and sandbox:

* The unsubscribe page says unsubscribed (`notify/unsubscribe.controller.ts:164`),
  and the production path never reads the opt-ins it clears; `generateToken` has no
  caller, and `userProtocolPreference` no reader.
* Nothing clears a campaign's list of repetitions (`admin/admin.service.ts:90`): a
  wallet listed twice is written to twice.
* The internal campaign endpoint does not look at the status; `skipped_count` can
  be negative; nothing writes SCHEDULED.
* Sandbox idempotency is documented as an hour's window, but the column is unique:
  reuse after an hour is a 500.  The lookup is not scoped to the protocol, and
  failed rows answer "duplicate".  "Midnight UTC" is local midnight.  A crash
  between INCR and EXPIRE blocks a key for good.  The playground does not look
  at revocation.
* A devnet identity whose channels cannot be read falls back to test contacts, and
  its opt-ins are not consulted, although the comment says they still can be.

Branding:

* `verifyDomain` compares the first 32 characters of the key, which all RSA-2048
  keys share, although its comment says that it checks the key.  `sesVerified` is
  set on mere registration.  A BIMI verdict outlives its logo and its domain.
* "Try to find custom BIMI record scoped to this protocol's domain"
  (`mail/providers/ses.provider.ts:45`): `deliverEmail` does not pass a `protocolId`
  (`channel/channel-dispatch.service.ts:309`), so that any protocol's verified record
  of the domain is announced.
* "This keeps the Herald footer tamper-proof" (`template/template.service.ts:213`):
  a template, or a text of the message that a template prints unescaped, with
  `class="footer-brand"` or the sentinel in it gets no footer (`:442`).
* Templates are cached under a 32-bit hash of their source, for all protocols
  (`template/template.service.ts:659`): when two collide, a mail is made of the other
  one's.
* Defaults of category `defi` are looked up as `defi-alert` and never found;
  defaults are rendered whatever their status, and an update keeps APPROVED.
* An update with `isDefault` and invalid HTML unsets the category's default and
  then answers 400.  A crash between version record and template makes every
  later update of the HTML fail on the unique version.
* The minimal fallback has no footer and no unsubscribe link.  `validateLogo`
  rejects any SVG with the letters "on".

## Not modelled

BullMQ, Redis, PostgreSQL, SQS, SES, Resend, Telegram, Helio, DNS and Solana are
external: their contract is modelled where the code uses it.  Cryptography
(enclave, signatures, proofs, tokens), MJML, raw MIME, the sanitiser's parser and
the scanner's text rules are functions on text without state and left out, as
are read-only queries, DTO validation, wiring, and functions without a caller
(`createTestKey`, `checkOptInFromPortalUser`).  Of the Telegram bots, reactions,
clicks, pending connections, welcome messages and member counts are left out:
they write statistics nothing reads back.  The RPC circuit breaker picks the URL
of reads whose results are choices of the models anyway.  Time is abstract: a
timer may fire at any moment, which includes every real duration; backoff delays
are not told apart from waiting.

## Plan

Modelling is complete as far as this project means to take it, and every safety
property the runs check is proved.  What could follow:

* `ReceiptsSettle`, `AcceptedSettles` and the other liveness properties by hand-made
  arguments over the proved invariants, when a prover for `ENABLED` is at hand;
* the mails of several protocols in one instance of `Branding`, which now has those
  of one beside the templates, previews and records of others.
