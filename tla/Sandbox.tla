------------------------------- MODULE Sandbox -------------------------------
(***************************************************************************)
(* Test keys: what one sandbox key may send in a day through /v1/notify    *)
(* and through the playground.  Each path has a counter in Redis that is   *)
(* checked before and bumped, by INCR and then EXPIRE, after a message is  *)
(* queued.  Also sandbox idempotency (an hour's window over a key that is  *)
(* unique for good), the sandbox path of the mail worker, and the          *)
(* playground's receipts and their nightly clean-up.                       *)
(***************************************************************************)
EXTENDS Naturals, FiniteSets, Faults

CONSTANTS
  Requests,      \* API calls
  Keys,          \* idempotency keys
  None,
  Limit,         \* messages a day on a path: testDailyLimit, PLAYGROUND_DAILY_LIMIT
  MaxEvents      \* bound: revocations, crashes

ASSUME SandboxLimit  == Limit \in Nat
ASSUME SandboxNone   == None \notin Keys \cup Requests
ASSUME SandboxBounds == MaxEvents \in Nat

VARIABLES
  alive,             \* the key is neither revoked nor expired
  count, ttl,        \* sandbox:daily:*, sandbox:playground:*, and when they expire
  late,              \* calls between INCR and EXPIRE since before midnight
  pc, path, idem,    \* calls
  answer,
  note,              \* status of the notification a call created
  holder, recent,    \* call whose notification has a key; keys used within the hour
  queue,             \* calls whose job waits
  receipts,          \* age of the SandboxReceipt of a call
  events,
  \* History, by path: messages queued today, those the counter does not and
  \* will not hold, the most calls that were past the check at once; and a
  \* counter that a call left between INCR and EXPIRE.
  queuedToday, lost, peak, abandoned

counterVars == <<count, ttl, late>>
callVars    == <<pc, path, idem, answer>>
rowVars     == <<note, holder, recent>>
history     == <<queuedToday, lost, peak, abandoned>>
sandboxVars == <<alive, counterVars, callVars, rowVars, queue, receipts, events, faults, history>>

Paths    == {"notify", "playground"}
Statuses == {"queued", "processing", "delivered", "failed", "blocked", "opted_out"}

SandboxTypeOK ==
  /\ alive \in BOOLEAN
  /\ count \in [Paths -> Nat] /\ ttl \in [Paths -> {"none", "midnight", "soon"}]
  /\ late \subseteq Requests
  /\ pc \in [Requests -> {"idle", "lookup", "template", "scan", "wallet", "contact", "create",
                          "enqueue", "receipt", "incr", "expire"}]
  /\ path \in [Requests -> Paths] /\ idem \in [Requests -> Keys \cup {None}]
  /\ answer \in [Requests -> {"queued", "failed", "blocked", "opted_out", "duplicate",
                              "refused", "error", None}]
  /\ note \in [Requests -> Statuses \cup {None}]
  /\ holder \in [Keys -> Requests \cup {None}] /\ recent \subseteq Keys
  /\ queue \subseteq Requests
  /\ receipts \in [Requests -> {"today", "before", None}]
  /\ events \in 0..MaxEvents /\ faults \in 0..MaxFaults
  /\ queuedToday \in [Paths -> Nat] /\ lost \in [Paths -> Nat] /\ peak \in [Paths -> Nat]
  /\ abandoned \in [Paths -> BOOLEAN]

\* The calls all take one path: the two share no counter.
SandboxInit ==
  /\ alive = TRUE
  /\ count = [p \in Paths |-> 0] /\ ttl = [p \in Paths |-> "none"] /\ late = {}
  /\ pc = [r \in Requests |-> "idle"] /\ \E p \in Paths : path = [r \in Requests |-> p]
  /\ idem = [r \in Requests |-> None]
  /\ answer = [r \in Requests |-> None] /\ note = [r \in Requests |-> None]
  /\ holder = [k \in Keys |-> None] /\ recent = {} /\ queue = {}
  /\ receipts = [r \in Requests |-> None]
  /\ events = 0 /\ faults = 0
  /\ queuedToday = [p \in Paths |-> 0] /\ lost = [p \in Paths |-> 0] /\ peak = [p \in Paths |-> 0]
  /\ abandoned = [p \in Paths |-> FALSE]

Event == events < MaxEvents /\ events' = events + 1

Goes(r, s) == pc' = [pc EXCEPT ![r] = s] /\ UNCHANGED <<answer, path, idem>>

\* The call is over and its request is forgotten.
Answers(r, a) ==
  /\ pc' = [pc EXCEPT ![r] = "idle"] /\ answer' = [answer EXCEPT ![r] = a]
  /\ idem' = [idem EXCEPT ![r] = None] /\ UNCHANGED path

\* Calls past the check of a path and not yet answered.
Within(p) == {r \in Requests : pc[r] # "idle" /\ path[r] = p}

-----------------------------------------------------------------------------
(* A call. *)

\* Mutant of Remaining: off by one.
RemainingOneMore(p) == count[p] <= Limit

\* A counter that is gone counts for zero.
Remaining(p) == count[p] < Limit

\* Known, neither revoked nor expired, and below its limit.
ValidateSandboxKey == alive /\ Remaining("notify")

\* The playground does not look at the key.
CheckPlaygroundLimit == Remaining("playground")

\* A call passes the check and goes on at s.
Enters(r, s) ==
  LET p == path[r] IN
  /\ pc' = [pc EXCEPT ![r] = s] /\ UNCHANGED <<path, answer>>
  /\ peak' = [peak EXCEPT ![p] =
                IF Cardinality(Within(p)) < @ THEN @ ELSE Cardinality(Within(p)) + 1]

\* POST /v1/notify with a test key
Notify(r) ==
  /\ pc[r] = "idle" /\ answer[r] = None /\ path[r] = "notify"
  /\ \/ /\ ValidateSandboxKey /\ Enters(r, "lookup")
        /\ \E k \in Keys \cup {None} : idem' = [idem EXCEPT ![r] = k]
     \/ ~ValidateSandboxKey /\ Answers(r, "refused") /\ UNCHANGED peak
  /\ UNCHANGED <<alive, counterVars, rowVars, queue, receipts, events, faults, queuedToday, lost,
                 abandoned>>

\* POST /v1/sandbox/send
SendTest(r) ==
  /\ pc[r] = "idle" /\ answer[r] = None /\ path[r] = "playground"
  /\ \/ CheckPlaygroundLimit /\ Enters(r, "contact") /\ UNCHANGED idem
     \/ ~CheckPlaygroundLimit /\ Answers(r, "refused") /\ UNCHANGED peak
  /\ UNCHANGED <<alive, counterVars, rowVars, queue, receipts, events, faults, queuedToday, lost,
                 abandoned>>

\* A notification of the last hour with the same key is the answer, whatever
\* became of it.
LookUpKey(r) ==
  /\ pc[r] = "lookup"
  /\ \/ idem[r] \in recent /\ Answers(r, "duplicate")
     \/ idem[r] \notin recent /\ Goes(r, "template")
  /\ UNCHANGED <<alive, counterVars, rowVars, queue, receipts, events, faults, history>>

\* The key is unique in the table, however old its row.
Inserts(r) == idem[r] # None => holder[idem[r]] = None

Insert(r, s) ==
  /\ note' = [note EXCEPT ![r] = s]
  /\ IF idem[r] = None THEN UNCHANGED <<holder, recent>>
     ELSE holder' = [holder EXCEPT ![idem[r]] = r] /\ recent' = recent \cup {idem[r]}

Fails(r) == Answers(r, "error") /\ UNCHANGED rowVars

\* A call that is turned away leaves a row that says why, under its key.
TurnAway(r, s) ==
  \/ Inserts(r) /\ Insert(r, s) /\ Answers(r, s) /\ UNCHANGED faults
  \/ ~Inserts(r) /\ Fails(r) /\ UNCHANGED faults
  \/ Fault /\ Fails(r)

\* Only a template that is found and not approved stops a call.
TemplateGate(r) ==
  /\ pc[r] = "template"
  /\ \/ Goes(r, "scan") /\ UNCHANGED <<rowVars, faults>>
     \/ TurnAway(r, "blocked")
  /\ UNCHANGED <<alive, counterVars, queue, receipts, events, history>>

ScanGate(r) ==
  /\ pc[r] = "scan"
  /\ \/ Goes(r, "wallet") /\ UNCHANGED <<rowVars, faults>>
     \/ TurnAway(r, "blocked")
  /\ UNCHANGED <<alive, counterVars, queue, receipts, events, history>>

\* What a look-up of the wallet on devnet comes to.  Only one that found an
\* identity and could read a channel of it is resolved; a failure is
\* swallowed, and so is a client that is not configured.
DevnetOutcomes == {"no_client", "unregistered", "threw", "no_channel", "read"}

ResolveDevnetWallet(o) ==
  [resolved |-> o = "read", identity |-> o \in {"no_channel", "read"}]

Categories == {"defi", "governance", "marketing", "system"}

\* flags: the opt-ins that are set on the identity
CheckOptIn(flags, category) ==
  "all" \in flags /\ (category = "system" \/ category \in flags)

\* A wallet that is not resolved falls back to the test contacts, and then its
\* opt-ins are not consulted.
WalletGate(r) ==
  /\ pc[r] = "wallet"
  /\ \E o \in DevnetOutcomes :
       LET found == ResolveDevnetWallet(o) IN
       \/ ~found.resolved /\ Goes(r, "contact") /\ UNCHANGED <<rowVars, faults>>
       \/ /\ found.resolved
          /\ \E flags \in SUBSET {"all", "defi", "governance", "marketing"}, c \in Categories :
               \/ /\ found.identity => CheckOptIn(flags, c)
                  /\ Goes(r, "create") /\ UNCHANGED <<rowVars, faults>>
               \/ found.identity /\ ~CheckOptIn(flags, c) /\ TurnAway(r, "opted_out")
  /\ UNCHANGED <<alive, counterVars, queue, receipts, events, history>>

\* The protocol has a test contact, or has none.
TestContacts(r) ==
  /\ pc[r] = "contact" /\ path[r] = "notify"
  /\ \/ Goes(r, "create") /\ UNCHANGED <<rowVars, faults>>
     \/ TurnAway(r, "failed")
  /\ UNCHANGED <<alive, counterVars, queue, receipts, events, history>>

\* From the playground a missing contact is an error, without a row.
PlaygroundContacts(r) ==
  /\ pc[r] = "contact" /\ path[r] = "playground" /\ UNCHANGED <<rowVars, faults>>
  /\ Goes(r, "create") \/ Answers(r, "error")
  /\ UNCHANGED <<alive, counterVars, queue, receipts, events, history>>

CreateTestRow(r) ==
  /\ pc[r] = "create"
  /\ \/ Inserts(r) /\ Insert(r, "queued") /\ Goes(r, "enqueue") /\ UNCHANGED faults
     \/ ~Inserts(r) /\ Fails(r) /\ UNCHANGED faults
     \/ Fault /\ Fails(r)
  /\ UNCHANGED <<alive, counterVars, queue, receipts, events, history>>

AddTestJob(r) == queue' = queue \cup {r} /\ queuedToday' = [queuedToday EXCEPT ![path[r]] = @ + 1]

Enqueue(r) ==
  /\ pc[r] = "enqueue" /\ AddTestJob(r)
  /\ Goes(r, IF path[r] = "playground" THEN "receipt" ELSE "incr")
  /\ UNCHANGED <<alive, counterVars, rowVars, receipts, events, faults, lost, peak, abandoned>>

\* Adding the job fails, perhaps after it was added.  The row is marked failed,
\* unless that fails too.
AddFails(r) ==
  /\ pc[r] = "enqueue" /\ Fault /\ Answers(r, "failed")
  /\ note' = [note EXCEPT ![r] = "failed"] \/ UNCHANGED note
  /\ \/ AddTestJob(r) /\ lost' = [lost EXCEPT ![path[r]] = @ + 1]
     \/ UNCHANGED <<queue, queuedToday, lost>>
  /\ UNCHANGED <<alive, counterVars, holder, recent, receipts, events, peak, abandoned>>

EnqueueFails(r)  == path[r] = "notify" /\ AddFails(r)
SendTestFails(r) == path[r] = "playground" /\ AddFails(r)

\* The playground keeps a receipt; a failure to is swallowed.
RecordReceipt(r) ==
  /\ pc[r] = "receipt" /\ Goes(r, "incr")
  /\ \/ receipts' = [receipts EXCEPT ![r] = "today"] /\ UNCHANGED faults
     \/ Fault /\ UNCHANGED receipts
  /\ UNCHANGED <<alive, counterVars, rowVars, queue, events, history>>

\* incrementUsage, incrementPlaygroundUsage: the time to live is taken, then
\* INCR.  A failure fails a call whose message is on its way.
Increment(r) ==
  /\ pc[r] = "incr"
  /\ \/ /\ count' = [count EXCEPT ![path[r]] = @ + 1]
        /\ Goes(r, "expire") /\ UNCHANGED <<lost, faults>>
     \/ /\ Fault /\ Answers(r, "error")
        /\ lost' = [lost EXCEPT ![path[r]] = @ + 1] /\ UNCHANGED count
  /\ UNCHANGED <<alive, ttl, late, rowVars, queue, receipts, events,
                 queuedToday, peak, abandoned>>

\* Mutant of Expire: a call that is not the counter's first leaves its TTL
\* alone, and the first one's was taken to be set at creation.
ExpireSkipped(r) ==
  /\ pc[r] = "expire" /\ Answers(r, "queued")
  /\ UNCHANGED <<alive, counterVars, rowVars, queue, receipts, events,
                 faults, history>>

\* Then EXPIRE, which does nothing to a counter that is gone; a TTL taken
\* before midnight runs out just after it.  The answer of /v1/notify names the
\* test contacts, and fails when they cannot be read again.
Expire(r) ==
  /\ pc[r] = "expire" /\ late' = late \ {r}
  /\ \/ /\ ttl' = [ttl EXCEPT ![path[r]] = IF count[path[r]] = 0 THEN "none"
                                           ELSE IF r \in late THEN "soon" ELSE "midnight"]
        /\ abandoned' = [abandoned EXCEPT ![path[r]] = FALSE]
        /\ \/ Answers(r, "queued") /\ UNCHANGED faults
           \/ path[r] = "notify" /\ Fault /\ Answers(r, "error")
     \/ /\ Fault /\ Answers(r, "error") /\ UNCHANGED ttl
        /\ abandoned' = [abandoned EXCEPT ![path[r]] = TRUE]
  /\ UNCHANGED <<alive, count, rowVars, queue, receipts, events, queuedToday,
                 lost, peak>>

\* The process dies with a call.
CallCrash(r) ==
  /\ pc[r] # "idle" /\ Event /\ Answers(r, "error")
  /\ late' = late \ {r}
  /\ lost' = [lost EXCEPT ![path[r]] = IF pc[r] \in {"receipt", "incr"} THEN @ + 1 ELSE @]
  /\ abandoned' = [abandoned EXCEPT ![path[r]] = @ \/ pc[r] = "expire"]
  /\ UNCHANGED <<alive, count, ttl, rowVars, queue, receipts, faults,
                 queuedToday, peak>>

-----------------------------------------------------------------------------
(* The worker, and time. *)

\* processSandbox: the job goes to its test contacts.  What is caught marks
\* the row failed, a message already sent included; when a write of the
\* status itself fails the job is retried.
ProcessSandbox(r) ==
  /\ r \in queue
  /\ \/ /\ \E s \in {"delivered", "failed"} : note' = [note EXCEPT ![r] = s]
        /\ queue' = queue \ {r} /\ UNCHANGED faults
     \/ Fault /\ note' = [note EXCEPT ![r] = "processing"] /\ UNCHANGED queue
  /\ UNCHANGED <<alive, counterVars, callVars, holder, recent, receipts, events, history>>

\* External: the portal revokes the key, or its thirty days are over.
RevokeKey ==
  /\ alive /\ alive' = FALSE /\ Event
  /\ UNCHANGED <<counterVars, callVars, rowVars, queue, receipts, faults, history>>

\* queuedAt >= one hour ago
HourPasses ==
  /\ recent # {} /\ recent' = {}
  /\ UNCHANGED <<alive, counterVars, callVars, note, holder, queue, receipts, events, faults,
                 history>>

\* A counter with a TTL is gone at midnight.
Midnight ==
  /\ count' = [p \in Paths |-> IF ttl[p] = "none" THEN count[p] ELSE 0]
  /\ ttl' = [p \in Paths |-> "none"]
  /\ late' = {r \in Requests : pc[r] = "expire"}
  /\ receipts' = [r \in Requests |-> IF receipts[r] = "today" THEN "before" ELSE receipts[r]]
  /\ queuedToday' = [p \in Paths |-> 0] /\ lost' = [p \in Paths |-> 0]
  /\ peak' = [p \in Paths |-> Cardinality(Within(p))]
  /\ UNCHANGED <<alive, callVars, rowVars, queue, events, faults, abandoned>>

\* The TTL of a late EXPIRE runs out, and with it what was counted today.
SoonExpires(p) ==
  /\ ttl[p] = "soon"
  /\ count' = [count EXCEPT ![p] = 0] /\ ttl' = [ttl EXCEPT ![p] = "none"]
  /\ lost' = [lost EXCEPT ![p] = @ + count[p]]
  /\ UNCHANGED <<alive, late, callVars, rowVars, queue, receipts, events, faults, queuedToday, peak,
                 abandoned>>

\* At 02:00, what is older than 25 hours, of the days before today.
CleanupOldReceipts ==
  /\ \E old \in SUBSET {r \in Requests : receipts[r] = "before"} :
       old # {} /\ receipts' = [r \in Requests |-> IF r \in old THEN None ELSE receipts[r]]
  /\ UNCHANGED <<alive, counterVars, callVars, rowVars, queue, events, faults, history>>

-----------------------------------------------------------------------------
Step(r) ==
  \/ Notify(r) \/ SendTest(r) \/ LookUpKey(r) \/ TemplateGate(r) \/ ScanGate(r)
  \/ WalletGate(r) \/ TestContacts(r) \/ PlaygroundContacts(r) \/ CreateTestRow(r)
  \/ Enqueue(r) \/ EnqueueFails(r) \/ SendTestFails(r) \/ RecordReceipt(r)
  \/ Increment(r) \/ Expire(r)

SandboxNext ==
  \/ \E r \in Requests : Step(r) \/ CallCrash(r) \/ ProcessSandbox(r)
  \/ \E p \in Paths : SoonExpires(p)
  \/ RevokeKey \/ HourPasses \/ Midnight \/ CleanupOldReceipts

\* A call that was accepted goes on, and days pass.
SandboxFairness ==
  /\ \A r \in Requests : WF_sandboxVars(pc[r] # "idle" /\ Step(r))
  /\ \A p \in Paths : WF_sandboxVars(SoonExpires(p))
  /\ WF_sandboxVars(Midnight)

SandboxSpec == SandboxInit /\ [][SandboxNext]_sandboxVars /\ SandboxFairness

-----------------------------------------------------------------------------
(* Properties. *)

\* The daily limit is checked before and counted after a message is queued,
\* so calls together pass it; yet by no more than the calls that were past
\* the check at once, plus the messages whose count was lost: an INCR that
\* failed or never came, a counter dropped by a TTL taken before midnight.
SandboxOvershootBounded ==
  \A p \in Paths : queuedToday[p] = 0 \/ queuedToday[p] + 1 <= Limit + peak[p] + lost[p]

\* A counter that reached its limit is below it again on some later day,
\* unless a call died or failed between its INCR and its EXPIRE and left the
\* counter without a TTL, when nothing ever resets it.
SandboxReopens ==
  \A p \in Paths : (count[p] >= Limit) ~> (count[p] < Limit \/ abandoned[p])

=============================================================================
