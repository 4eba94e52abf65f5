------------------------------ MODULE Audience ------------------------------
(***************************************************************************)
(* Who one protocol's messages go to: subscriptions and unsubscribe links, *)
(* the calls that write to many wallets at once (broadcast, campaign, the  *)
(* administrator's broadcast), and the worker that looks a wallet up in    *)
(* the identity cache before it writes to the address found there.         *)
(***************************************************************************)
EXTENDS Naturals, FiniteSets, Sequences

CONSTANTS
  Wallets, Addresses,
  Listed,               \* CampaignAudience.wallets: a list, a wallet may occur twice
  Topics,               \* categories of messages
  Calls,                \* API calls
  Runs,                 \* worker runs
  None,
  IdentityTtl, MissTtl, \* PDA_CACHE_TTL_SECONDS and that of NOT_REGISTERED, in ticks
  Scenes,               \* kinds of calls that happen in a behaviour
  MaxEvents,            \* bound: acts of users, crashes
  MaxFaults,            \* bound: failed calls to Postgres, Redis, the queue, Solana
  MaxClock              \* bound on the clock

ASSUME TtlAssumption    == IdentityTtl \in Nat /\ MissTtl \in 0..IdentityTtl
ASSUME ListedAssumption == Listed \in Seq(Wallets)
ASSUME AudienceBounds   == MaxEvents \in Nat /\ MaxFaults \in Nat /\ MaxClock \in Nat
ASSUME AudienceNone     == /\ None \notin Wallets \cup Addresses \cup Topics
                           /\ None \notin {"broadcast", "campaign", "admin"}
ASSUME ScenesAssumption == Scenes \subseteq {"broadcast", "campaign", "identity"}

VARIABLES
  scene,
  clock,
  sub,                       \* ProtocolSubscription rows
  user,                      \* wallets with a portal user
  optedOut,                  \* opt-in flags that are off: topics, or "all"
  link,                      \* topic of the unsubscribe link a wallet was mailed
  campaign,                  \* Campaign.status
  pc, kind, topic, left,     \* calls; left: addressees still to write to
  rows,                      \* notifications a call created
  jobs,                      \* <<call, addressee>> waiting in the queue
  chain,                     \* identity accounts on Solana
  cache,                     \* pda:identity:*
  doing, step, seen,         \* runs
  events, faults,
  \* History: wallets reachable at some moment, and at every moment, of a call;
  \* campaign rows; what may repeat or outlive them; the tick an address was
  \* last on the chain; the age of the oldest address written to.
  some, every, got, excused, shown, oldest

userVars == <<sub, user, optedOut, link>>
callVars == <<campaign, pc, kind, topic, left, rows, some, every, got, excused>>
runVars  == <<jobs, cache, doing, step, seen, oldest>>
netVars  == <<chain, shown>>
vars == <<scene, clock, userVars, callVars, runVars, netVars, events, faults>>

Identity == Addresses \cup {None}

\* A wallet and its place: a list is written to place by place, and nothing
\* looks whether a wallet was met before.
Addressees == Wallets \X Nat

\* Wallets that a query returned, each of them once.
Each(targets) == targets \X {0}

\* The campaign's audience.
Audience == {<<Listed[i], i>> : i \in DOMAIN Listed}

TypeOK ==
  /\ scene \in Scenes /\ clock \in 0..MaxClock
  /\ sub \in [Wallets -> [status : {"none", "active", "unsubscribed"}, pubkey : BOOLEAN]]
  /\ user \subseteq Wallets /\ optedOut \in [Wallets -> SUBSET (Topics \cup {"all"})]
  /\ link \in [Wallets -> Topics \cup {None}]
  /\ campaign \in {"DRAFT", "SCHEDULED", "RUNNING", "CANCELLED"}
  /\ pc \in [Calls -> {"idle", "rows", "fan", "cancel", "done"}]
  /\ kind \in [Calls -> {"broadcast", "campaign", "admin", None}]
  /\ topic \in [Calls -> Topics] /\ left \in [Calls -> SUBSET Addressees]
  /\ rows \in [Calls -> SUBSET Addressees] /\ jobs \subseteq Calls \X Addressees
  /\ chain \in [Wallets -> Identity]
  /\ cache \in [Wallets -> [value : Identity, till : Nat] \cup {None}]
  /\ doing \in [Runs -> (Calls \X Wallets) \cup {None}]
  /\ step \in [Runs -> {"read", "store", "send"}] /\ seen \in [Runs -> Identity]
  /\ events \in 0..MaxEvents /\ faults \in 0..MaxFaults
  /\ some \in [Calls -> SUBSET Wallets] /\ every \in [Calls -> SUBSET Wallets]
  /\ got \in [Audience -> Nat] /\ excused \in BOOLEAN
  /\ shown \in [Addresses -> Nat] /\ oldest \in Nat

\* An address of its own for every wallet; subscribers of each kind.
Init ==
  /\ scene \in Scenes /\ clock = 0
  /\ sub \in [Wallets -> [status : {"none", "active"}, pubkey : BOOLEAN]]
  /\ \A x \in Wallets : sub[x].status = "none" => ~sub[x].pubkey
  /\ scene # "broadcast" => Cardinality({x \in Wallets : sub[x].pubkey}) = 1
  /\ user \in {{}, Wallets} /\ (scene # "identity" => user = Wallets)
  /\ optedOut = [x \in Wallets |-> {}] /\ link = [x \in Wallets |-> None]
  /\ campaign \in {"DRAFT", "SCHEDULED"} /\ (scene # "campaign" => campaign = "DRAFT")
  /\ pc = [c \in Calls |-> "idle"] /\ kind = [c \in Calls |-> None]
  /\ topic \in {[c \in Calls |-> t] : t \in Topics}
  /\ left = [c \in Calls |-> {}] /\ rows = [c \in Calls |-> {}] /\ jobs = {}
  /\ \E a \in Addresses : chain = [x \in Wallets |-> a]
  /\ cache = [x \in Wallets |-> None]
  /\ doing = [r \in Runs |-> None] /\ step = [r \in Runs |-> "read"]
  /\ seen = [r \in Runs |-> None]
  /\ events = 0 /\ faults = 0
  /\ some = [c \in Calls |-> {}] /\ every = [c \in Calls |-> {}]
  /\ got = [e \in Audience |-> 0] /\ excused = FALSE
  /\ shown = [a \in Addresses |-> 0] /\ oldest = 0

Event == events < MaxEvents /\ events' = events + 1
Fault == faults < MaxFaults /\ faults' = faults + 1

-----------------------------------------------------------------------------
(* Subscriptions and unsubscribe links. *)

Reachable(s) == {x \in Wallets : s[x].status = "active" /\ s[x].pubkey}

\* A subscription changes while calls are under way.
Subscriptions(s) ==
  /\ scene = "broadcast" /\ Event /\ sub' = s
  /\ some' = [c \in Calls |-> IF pc[c] \in {"idle", "done"} THEN some[c]
                              ELSE some[c] \cup Reachable(s)]
  /\ every' = [c \in Calls |-> IF pc[c] \in {"idle", "done"} THEN every[c]
                               ELSE every[c] \cap Reachable(s)]
  /\ UNCHANGED <<scene, clock, user, optedOut, link, campaign, pc, kind, topic, left,
                 rows, got, excused, runVars, netVars, faults>>

\* By the SDK or the join link, which know the pubkey.
Subscribe(x) == Subscriptions([sub EXCEPT ![x] = [status |-> "active", pubkey |-> TRUE]])

\* By the portal, which knows only the hash: a pubkey on file stays.
PortalSubscribe(x) == Subscriptions([sub EXCEPT ![x].status = "active"])

Unsubscribe(x) ==
  sub[x].status # "none" /\ Subscriptions([sub EXCEPT ![x].status = "unsubscribed"])

Resubscribe(x) ==
  sub[x].status = "unsubscribed" /\ Subscriptions([sub EXCEPT ![x].status = "active"])

\* The flag a link turns off.  A link of any other category turns none off.
Flag(t) == IF t \in {"defi", "governance", "marketing"} THEN {t}
           ELSE IF t = "all" THEN {"all"} ELSE {}

\* A wallet no portal user has changes nothing, and that is a success too.
ExecuteUnsubscribe(x, t) ==
  optedOut' = [optedOut EXCEPT ![x] = IF x \in user THEN @ \cup Flag(t) ELSE @]

\* A link that was signed for the wallet and is not past its date.  Links are
\* not stored, so none is known as used: it can be followed again.
ValidateAndExecute(x) == link[x] # None /\ ExecuteUnsubscribe(x, link[x])

\* The recipient follows the link of a mail, on the page or in the portal.
FollowLink(x) ==
  /\ Event /\ ValidateAndExecute(x)
  /\ UNCHANGED <<scene, clock, sub, user, link, callVars, runVars, netVars, faults>>

-----------------------------------------------------------------------------
(* Calls that write to many. *)

InProgress == {c \in Calls : pc[c] \in {"rows", "fan", "cancel"}}

\* Mutant of GetBroadcastTargets: those who left are written to as well.
GetBroadcastTargetsAll(s) == {x \in Wallets : s[x].status # "none" /\ s[x].pubkey}

GetBroadcastTargets(s) == {x \in Wallets : s[x].status = "active" /\ s[x].pubkey}

\* queueBroadcast reads its targets; without any it answers at once.
StartBroadcast(c) ==
  /\ scene # "campaign" /\ pc[c] = "idle"
  /\ LET targets == GetBroadcastTargets(sub) IN
     /\ left' = [left EXCEPT ![c] = Each(targets)]
     /\ pc' = [pc EXCEPT ![c] = IF targets = {} THEN "done" ELSE "rows"]
  /\ kind' = [kind EXCEPT ![c] = "broadcast"]
  /\ some' = [some EXCEPT ![c] = Reachable(sub)]
  /\ every' = [every EXCEPT ![c] = Reachable(sub)]
  /\ UNCHANGED <<scene, clock, userVars, campaign, topic, rows, got, excused, runVars, netVars,
                 events, faults>>

\* One statement creates all the rows, or fails the call.
CreateRows(c) ==
  /\ pc[c] = "rows"
  /\ \/ /\ rows' = [rows EXCEPT ![c] = left[c]]
        /\ pc' = [pc EXCEPT ![c] = "fan"] /\ UNCHANGED <<left, faults>>
     \/ /\ Fault /\ left' = [left EXCEPT ![c] = {}]
        /\ pc' = [pc EXCEPT ![c] = "idle"] /\ UNCHANGED rows
  /\ UNCHANGED <<scene, clock, userVars, campaign, kind, topic, some, every, got, excused,
                 runVars, netVars, events>>

\* The administrator's broadcast goes to every identity on the chain.
StartAdminBroadcast(c) ==
  /\ scene = "broadcast" /\ pc[c] = "idle"
  /\ kind' = [kind EXCEPT ![c] = "admin"]
  /\ left' = [left EXCEPT ![c] = Each({x \in Wallets : chain[x] # None})]
  /\ pc' = [pc EXCEPT ![c] = "fan"]
  /\ UNCHANGED <<scene, clock, userVars, campaign, topic, rows, some, every, got, excused,
                 runVars, netVars, events, faults>>

\* Mutant of MayLaunch: a campaign is launched whatever its status.
MayLaunchAgain(status) == status # "CANCELLED"

MayLaunch(status) == status \in {"DRAFT", "SCHEDULED"}

\* A call finds another one under way.
Overlaps == excused \/ InProgress # {}

\* The campaign's audience, all of it: a wallet as often as it is listed.
EnqueueCampaign(c) ==
  /\ kind' = [kind EXCEPT ![c] = "campaign"]
  /\ left' = [left EXCEPT ![c] = Audience]
  /\ pc' = [pc EXCEPT ![c] = "fan"]

\* launchCampaign checks the status that enqueueCampaign writes when all is
\* done; a call for a campaign launched or cancelled is refused.
LaunchCampaign(c) ==
  /\ scene = "campaign" /\ pc[c] = "idle" /\ MayLaunch(campaign)
  /\ EnqueueCampaign(c) /\ excused' = Overlaps
  /\ UNCHANGED <<scene, clock, userVars, campaign, topic, rows, some, every, got, runVars,
                 netVars, events, faults>>

\* The internal endpoint calls enqueueCampaign without looking at the status.
InternalEnqueue(c) ==
  /\ scene = "campaign" /\ pc[c] = "idle" /\ Event
  /\ EnqueueCampaign(c)
  /\ excused' = (Overlaps \/ campaign \in {"RUNNING", "CANCELLED"})
  /\ UNCHANGED <<scene, clock, userVars, campaign, topic, rows, some, every, got, runVars,
                 netVars, faults>>

\* A broadcast has its rows and adds the jobs; a row whose job could not be
\* added stays as it is.
EnqueueBroadcast(c, e) ==
  /\ pc[c] = "fan" /\ e \in left[c] /\ kind[c] = "broadcast"
  /\ left' = [left EXCEPT ![c] = @ \ {e}]
  /\ \/ jobs' = jobs \cup {<<c, e>>} /\ UNCHANGED faults
     \/ Fault /\ UNCHANGED jobs
  /\ UNCHANGED <<scene, clock, userVars, campaign, pc, kind, topic, rows, some, every, got,
                 excused, cache, doing, step, seen, oldest, netVars, events>>

\* Of the others each addressee gets a row and then a job.  A failure of
\* either is counted and leaves the others alone.
EnqueueOne(c, e) ==
  /\ pc[c] = "fan" /\ e \in left[c] /\ kind[c] # "broadcast"
  /\ left' = [left EXCEPT ![c] = @ \ {e}]
  /\ \/ jobs' = jobs \cup {<<c, e>>} /\ rows' = [rows EXCEPT ![c] = @ \cup {e}] /\ UNCHANGED faults
     \/ Fault /\ UNCHANGED jobs /\ rows' = [rows EXCEPT ![c] = @ \cup {e}]
     \/ Fault /\ UNCHANGED <<jobs, rows>>
  /\ got' = IF kind[c] = "campaign" /\ <<c, e>> \in jobs' THEN [got EXCEPT ![e] = @ + 1] ELSE got
  /\ UNCHANGED <<scene, clock, userVars, campaign, pc, kind, topic, some, every, excused, cache,
                 doing, step, seen, oldest, netVars, events>>

\* A broadcast answers with what it counted.
AnswerBroadcast(c) ==
  /\ pc[c] = "fan" /\ left[c] = {} /\ kind[c] # "campaign"
  /\ pc' = [pc EXCEPT ![c] = "done"]
  /\ UNCHANGED <<scene, clock, userVars, campaign, kind, topic, left, rows, some, every, got,
                 excused, runVars, netVars, events, faults>>

\* A campaign is set running at the end, whatever it has become.
FinishCampaign(c) ==
  /\ pc[c] = "fan" /\ left[c] = {} /\ kind[c] = "campaign"
  /\ pc' = [pc EXCEPT ![c] = "done"]
  /\ \/ campaign' = "RUNNING" /\ UNCHANGED <<faults, excused>>
     \/ Fault /\ excused' = TRUE /\ UNCHANGED campaign
  /\ UNCHANGED <<scene, clock, userVars, kind, topic, left, rows, some, every, got, runVars,
                 netVars, events>>

\* cancelCampaign reads the status and then writes it.
CancelRead(c) ==
  /\ scene = "campaign" /\ pc[c] = "idle" /\ campaign \in {"DRAFT", "SCHEDULED"} /\ Event
  /\ pc' = [pc EXCEPT ![c] = "cancel"] /\ excused' = Overlaps
  /\ UNCHANGED <<scene, clock, userVars, campaign, kind, topic, left, rows, some, every, got,
                 runVars, netVars, faults>>

CancelWrite(c) ==
  /\ pc[c] = "cancel"
  /\ campaign' = "CANCELLED"
  /\ pc' = [pc EXCEPT ![c] = "done"]
  /\ UNCHANGED <<scene, clock, userVars, kind, topic, left, rows, some, every, got, excused,
                 runVars, netVars, events, faults>>

\* The process dies with a call.
Crash(c) ==
  /\ c \in InProgress /\ Event
  /\ pc' = [pc EXCEPT ![c] = "done"] /\ left' = [left EXCEPT ![c] = {}]
  /\ excused' = TRUE
  /\ UNCHANGED <<scene, clock, userVars, campaign, kind, topic, rows, some, every, got,
                 runVars, netVars, faults>>

-----------------------------------------------------------------------------
(* The worker and the identity cache. *)

\* The owner changes or closes the identity account.
ChangeIdentity(x) ==
  /\ scene = "identity" /\ Event
  /\ \E a \in Identity \ {chain[x]} :
       /\ chain' = [chain EXCEPT ![x] = a]
       /\ shown' = IF chain[x] = None THEN shown ELSE [shown EXCEPT ![chain[x]] = clock]
  /\ UNCHANGED <<scene, clock, userVars, callVars, runVars, faults>>

\* A run takes a job.  (In the other scenes jobs are counted, not worked.)
TakeJob(r) ==
  /\ scene = "identity" /\ doing[r] = None
  /\ \E j \in jobs : doing' = [doing EXCEPT ![r] = <<j[1], j[2][1]>>] /\ jobs' = jobs \ {j}
  /\ step' = [step EXCEPT ![r] = "read"]
  /\ UNCHANGED <<scene, clock, userVars, callVars, cache, seen, oldest, netVars,
                 events, faults>>

\* Mutant of Fresh: an entry without a TTL.
FreshForever(e) == e # None

Fresh(e) == e # None /\ clock < e.till

\* resolveIdentity: a hit is used as it is; on a miss, or when Redis cannot be
\* read, the account is fetched.
ResolveIdentity(r) ==
  /\ doing[r] # None /\ step[r] = "read"
  /\ LET x == doing[r][2] IN
     \/ /\ Fresh(cache[x])
        /\ seen' = [seen EXCEPT ![r] = cache[x].value]
        /\ step' = [step EXCEPT ![r] = "send"] /\ UNCHANGED faults
     \/ /\ IF Fresh(cache[x]) THEN Fault ELSE UNCHANGED faults
        /\ seen' = [seen EXCEPT ![r] = chain[x]]
        /\ step' = [step EXCEPT ![r] = "store"]
  /\ UNCHANGED <<scene, clock, userVars, callVars, jobs, cache, doing, oldest, netVars,
                 events>>

\* What was fetched is cached, also that there is nothing, for less long.
StoreIdentity(r) ==
  /\ doing[r] # None /\ step[r] = "store"
  /\ LET x == doing[r][2]
         ttl == IF seen[r] = None THEN MissTtl ELSE IdentityTtl
     IN  \/ cache' = [cache EXCEPT ![x] = [value |-> seen[r], till |-> clock + ttl]]
            /\ UNCHANGED faults
         \/ Fault /\ UNCHANGED cache
  /\ step' = [step EXCEPT ![r] = "send"]
  /\ UNCHANGED <<scene, clock, userVars, callVars, jobs, doing, seen, oldest, netVars,
                 events>>

Age(x, a) == IF chain[x] = a THEN 0 ELSE clock - shown[a]

\* The run writes to the address, neither opt-in flags nor preferences being
\* consulted, and mails an unsubscribe link; without an identity it ends.
Deliver(r) ==
  /\ doing[r] # None /\ step[r] = "send"
  /\ LET x == doing[r][2]
         t == topic[doing[r][1]]
     IN IF seen[r] = None THEN UNCHANGED <<oldest, link>>
        ELSE /\ oldest' = IF Age(x, seen[r]) > oldest THEN Age(x, seen[r]) ELSE oldest
             /\ link' = [link EXCEPT ![x] = t]
  /\ doing' = [doing EXCEPT ![r] = None] /\ seen' = [seen EXCEPT ![r] = None]
  /\ UNCHANGED <<scene, clock, sub, user, optedOut, callVars, jobs, cache, step, netVars,
                 events, faults>>

\* A fetch or a delivery takes less than a tick.
Tick ==
  /\ scene = "identity" /\ clock < MaxClock
  /\ \A r \in Runs : doing[r] = None \/ step[r] = "read"
  /\ clock' = clock + 1
  /\ UNCHANGED <<scene, userVars, callVars, runVars, netVars, events, faults>>

Next ==
  \/ \E x \in Wallets : \/ Subscribe(x) \/ PortalSubscribe(x) \/ Unsubscribe(x)
                        \/ Resubscribe(x) \/ FollowLink(x) \/ ChangeIdentity(x)
  \/ \E c \in Calls : \/ StartBroadcast(c) \/ CreateRows(c) \/ StartAdminBroadcast(c)
                      \/ LaunchCampaign(c) \/ InternalEnqueue(c) \/ AnswerBroadcast(c)
                      \/ FinishCampaign(c) \/ CancelRead(c) \/ CancelWrite(c) \/ Crash(c)
                      \/ \E e \in left[c] : EnqueueBroadcast(c, e) \/ EnqueueOne(c, e)
  \/ \E r \in Runs : TakeJob(r) \/ ResolveIdentity(r) \/ StoreIdentity(r) \/ Deliver(r)
  \/ Tick

Spec == Init /\ [][Next]_vars

-----------------------------------------------------------------------------
\* While people come and go, a broadcast creates a notification only for a
\* wallet that was an active subscriber with a pubkey at some moment of the
\* call, and for every one that was so throughout (queueBroadcast with
\* SubscriptionsService.subscribe, unsubscribe, resubscribe and the portal's).
BroadcastReachesAudience ==
  \A c \in Calls : kind[c] = "broadcast" =>
    /\ rows[c] \subseteq Each(some[c])
    /\ pc[c] = "done" => Each(every[c]) \subseteq rows[c] \/ excused

\* The status that guards a campaign is written after everyone was written to.
\* Even so a wallet gets a campaign more often than the audience lists it (the
\* list is not cleared of repetitions), or after it was cancelled, only if
\* calls overlapped, the internal endpoint was used on a campaign that had
\* left DRAFT, the status could not be written, or a process died
\* (launchCampaign, cancelCampaign, enqueueCampaign).
CampaignOnce ==
  (\E e \in Audience : got[e] > 1 \/ (campaign = "CANCELLED" /\ got[e] > 0)) => excused

\* No message goes to an address that left the chain longer ago than an entry
\* of the identity cache lives, though nothing invalidates the cache when an
\* account changes (RoutingService.resolveIdentity).
StaleAddressBounded == oldest <= IdentityTtl
=============================================================================
