--------------------------- MODULE AudienceProofs ---------------------------
(***************************************************************************)
(* Safety of Audience for every set of wallets, addresses, calls and runs  *)
(* and every lifetime of a cache entry.                                    *)
(*                                                                         *)
(* Each result has an invariant of its own: what a broadcast read lies     *)
(* between those reachable throughout and those reachable at some moment   *)
(* (BroadcastsRead); unless excused, one call at a time works on a         *)
(* campaign that is not yet running, and whom it still has to write to got *)
(* nothing (CampaignsAlone); an entry of the identity cache outlives its   *)
(* address on the chain by no more than its lifetime (CacheBounded), and   *)
(* so does what a run has in hand (RunsBounded).                           *)
(***************************************************************************)
EXTENDS Audience, TLAPS

\* Calls are of the kinds of their scene.
ScenesKept ==
  \A c \in Calls :
    /\ scene = "campaign" => /\ kind[c] # "broadcast" /\ pc[c] # "rows"
                             /\ pc[c] = "fan" => kind[c] = "campaign"
    /\ scene # "campaign" => kind[c] # "campaign" /\ pc[c] # "cancel"

BroadcastsRead ==
  \A c \in Calls :
    /\ pc[c] \in {"idle", "rows"} => rows[c] = {}
    /\ kind[c] = "broadcast" =>
         /\ rows[c] \subseteq Each(some[c])
         /\ pc[c] = "rows" => Each(every[c]) \subseteq left[c] /\ left[c] \subseteq Each(some[c])
         /\ pc[c] = "fan" => Each(every[c]) \subseteq rows[c]
         /\ pc[c] = "done" => Each(every[c]) \subseteq rows[c] \/ excused

CampaignsAlone ==
  /\ scene # "campaign" => \A e \in Audience : got[e] = 0
  /\ scene = "campaign" /\ ~excused =>
       /\ \A c, d \in InProgress : c = d
       /\ InProgress # {} => campaign \in {"DRAFT", "SCHEDULED"}
       /\ \A e \in Audience : got[e] > 0 =>
            /\ got[e] = 1
            /\ campaign = "RUNNING" \/ \E c \in Calls : pc[c] = "fan" /\ e \notin left[c]

\* What is good until t was on the chain less than a lifetime before.
Bounded(x, a, t) == chain[x] = a \/ t <= shown[a] + IdentityTtl

CacheBounded ==
  \A x \in Wallets : cache[x] # None =>
    /\ cache[x].till <= clock + IdentityTtl
    /\ cache[x].value # None => Bounded(x, cache[x].value, cache[x].till)

\* What was fetched in this tick was on the chain in this tick.
RunsBounded ==
  \A r \in Runs : doing[r] # None /\ seen[r] # None =>
    /\ step[r] = "store" => chain[doing[r][2]] = seen[r] \/ shown[seen[r]] = clock
    /\ step[r] = "send" => Bounded(doing[r][2], seen[r], clock)

ShownPast == \A a \in Addresses : shown[a] <= clock

Typed == TypeOK /\ ScenesKept

Identities == CacheBounded /\ RunsBounded /\ ShownPast /\ StaleAddressBounded

IInv == Typed /\ BroadcastsRead /\ CampaignsAlone /\ Identities

-----------------------------------------------------------------------------
\* A subscription row with another status is one.
LEMMA StatusTyped ==
  ASSUME NEW s \in [Wallets -> [status : {"none", "active", "unsubscribed"}, pubkey : BOOLEAN]],
         NEW x \in Wallets, NEW v \in {"none", "active", "unsubscribed"}
  PROVE  [s EXCEPT ![x].status = v]
           \in [Wallets -> [status : {"none", "active", "unsubscribed"}, pubkey : BOOLEAN]]
<1>1. [s[x] EXCEPT !.status = v] \in [status : {"none", "active", "unsubscribed"}, pubkey : BOOLEAN]
  OBVIOUS
<1> QED
  BY <1>1, Zenon

\* The audience is made of addressees, and so is what a query returned.
LEMMA AddresseesTyped ==
  /\ Audience \subseteq Addressees
  /\ \A S \in SUBSET Wallets : Each(S) \subseteq Addressees
<1>1. \A i \in DOMAIN Listed : Listed[i] \in Wallets /\ i \in Nat
  BY ListedAssumption
<1> QED
  BY <1>1 DEF Audience, Addressees, Each

\* What an addressee got is counted in numbers.
LEMMA CountTyped ==
  ASSUME NEW f \in [Audience -> Nat], NEW e
  PROVE  [f EXCEPT ![e] = @ + 1] \in [Audience -> Nat]
<1>1. \A d \in Audience : f[d] + 1 \in Nat /\ f[d] \in Nat
  OBVIOUS
<1>2. [f EXCEPT ![e] = @ + 1] = [d \in Audience |-> IF d = e THEN f[d] + 1 ELSE f[d]]
  OBVIOUS
<1> QED
  BY <1>1, <1>2

\* A campaign's call starts with the whole audience, a call of its kind.
LEMMA EnqueueTyped ==
  ASSUME TypeOK, NEW c \in Calls, EnqueueCampaign(c)
  PROVE  /\ left' \in [Calls -> SUBSET Addressees]
         /\ kind' \in [Calls -> {"broadcast", "campaign", "admin", None}]
         /\ pc' \in [Calls -> {"idle", "rows", "fan", "cancel", "done"}]
<1>1. left' \in [Calls -> SUBSET Addressees]
  BY AddresseesTyped, Zenon DEF EnqueueCampaign, TypeOK
<1>2. /\ kind' \in [Calls -> {"broadcast", "campaign", "admin", None}]
      /\ pc' \in [Calls -> {"idle", "rows", "fan", "cancel", "done"}]
  BY DEF EnqueueCampaign, TypeOK
<1> QED
  BY <1>1, <1>2

\* Every step keeps the types and the scene of a call.
LEMMA TypedStep ==
  ASSUME Typed, [Next]_vars
  PROVE  Typed'
<1> USE DEF Typed, TypeOK, ScenesKept, userVars, callVars, runVars, netVars, Event, Fault,
        Identity
<1> USE TtlAssumption, AudienceBounds, AudienceNone
<1>1. ASSUME NEW s \in [Wallets -> [status : {"none", "active", "unsubscribed"},
                                    pubkey : BOOLEAN]],
             Subscriptions(s)
      PROVE  Typed'
  BY <1>1 DEF Subscriptions, Reachable
<1>2. ASSUME NEW x \in Wallets, Subscribe(x)
      PROVE  Typed'
  <2>1. [status |-> "active", pubkey |-> TRUE]
          \in [status : {"none", "active", "unsubscribed"}, pubkey : BOOLEAN]
    OBVIOUS
  <2>2. [sub EXCEPT ![x] = [status |-> "active", pubkey |-> TRUE]]
          \in [Wallets -> [status : {"none", "active", "unsubscribed"}, pubkey : BOOLEAN]]
    BY <2>1, Zenon
  <2> QED
    BY <1>1, <1>2, <2>2 DEF Subscribe
<1>3. ASSUME NEW x \in Wallets, PortalSubscribe(x) \/ Unsubscribe(x) \/ Resubscribe(x)
      PROVE  Typed'
  <2>1. ASSUME NEW v \in {"active", "unsubscribed"}
        PROVE  [sub EXCEPT ![x].status = v]
                 \in [Wallets -> [status : {"none", "active", "unsubscribed"}, pubkey : BOOLEAN]]
    BY StatusTyped
  <2> QED
    BY <1>1, <1>3, <2>1 DEF PortalSubscribe, Unsubscribe, Resubscribe
<1>4. ASSUME NEW x \in Wallets, FollowLink(x)
      PROVE  Typed'
  BY <1>4 DEF FollowLink, ValidateAndExecute, ExecuteUnsubscribe, Flag
<1>5. ASSUME NEW x \in Wallets, ChangeIdentity(x)
      PROVE  Typed'
  BY <1>5 DEF ChangeIdentity
<1>6. ASSUME NEW c \in Calls, StartBroadcast(c)
      PROVE  Typed'
  <2>1. Each(GetBroadcastTargets(sub)) \subseteq Addressees
    BY AddresseesTyped DEF GetBroadcastTargets
  <2> QED
    BY <1>6, <2>1 DEF StartBroadcast, Reachable
<1>7. ASSUME NEW c \in Calls, CreateRows(c) \/ StartAdminBroadcast(c)
      PROVE  Typed'
  <2>1. CASE CreateRows(c)
    <3>1. TypeOK'
      <4>1. left' \in [Calls -> SUBSET Addressees] /\ rows' \in [Calls -> SUBSET Addressees]
        <5>1. left[c] \in SUBSET Addressees /\ {} \in SUBSET Addressees
          OBVIOUS
        <5> QED
          BY <2>1, <5>1, Zenon DEF CreateRows
      <4>2. pc' \in [Calls -> {"idle", "rows", "fan", "cancel", "done"}]
        <5>1. pc' = [pc EXCEPT ![c] = "fan"] \/ pc' = [pc EXCEPT ![c] = "idle"]
          BY <2>1, Zenon DEF CreateRows
        <5> QED
          BY <5>1, Zenon
      <4>3. faults' \in 0..MaxFaults
        BY <2>1 DEF CreateRows
      <4> QED
        BY <2>1, <4>1, <4>2, <4>3 DEF CreateRows
    <3>2. ScenesKept'
      BY <2>1 DEF CreateRows
    <3> QED
      BY <3>1, <3>2
  <2>2. CASE StartAdminBroadcast(c)
    <3>1. TypeOK'
      <4>1. Each({x \in Wallets : chain[x] # None}) \subseteq Addressees
        BY AddresseesTyped
      <4> QED
        BY <2>2, <4>1 DEF StartAdminBroadcast
    <3>2. ScenesKept'
      BY <2>2 DEF StartAdminBroadcast
    <3> QED
      BY <3>1, <3>2
  <2> QED
    BY <1>7, <2>1, <2>2
<1>8. ASSUME NEW c \in Calls, LaunchCampaign(c) \/ InternalEnqueue(c) \/ CancelRead(c)
      PROVE  Typed'
  <2>1. excused' \in BOOLEAN
    BY <1>8, Zenon DEF LaunchCampaign, InternalEnqueue, CancelRead, Overlaps
  <2>2. CASE LaunchCampaign(c) \/ InternalEnqueue(c)
    <3>1. TypeOK'
      <4>0. EnqueueCampaign(c)
        BY <2>2, Zenon DEF LaunchCampaign, InternalEnqueue
      <4>1. /\ left' \in [Calls -> SUBSET Addressees]
            /\ kind' \in [Calls -> {"broadcast", "campaign", "admin", None}]
            /\ pc' \in [Calls -> {"idle", "rows", "fan", "cancel", "done"}]
        BY <4>0, EnqueueTyped
      <4>2. events' \in 0..MaxEvents
        BY <2>2 DEF LaunchCampaign, InternalEnqueue
      <4>3. CASE LaunchCampaign(c)
        BY <2>1, <4>1, <4>2, <4>3 DEF LaunchCampaign
      <4>4. CASE InternalEnqueue(c)
        BY <2>1, <4>1, <4>2, <4>4 DEF InternalEnqueue
      <4> QED
        BY <2>2, <4>3, <4>4
    <3>2. /\ scene' = scene /\ scene = "campaign"
          /\ kind' = [kind EXCEPT ![c] = "campaign"] /\ pc' = [pc EXCEPT ![c] = "fan"]
      BY <2>2, Zenon DEF LaunchCampaign, InternalEnqueue, EnqueueCampaign
    <3>3. ScenesKept'
      BY <3>2
    <3> QED
      BY <3>1, <3>3
  <2>3. CASE CancelRead(c)
    <3>1. TypeOK'
      BY <2>1, <2>3 DEF CancelRead
    <3>2. ScenesKept'
      BY <2>3 DEF CancelRead
    <3> QED
      BY <3>1, <3>2
  <2> QED
    BY <1>8, <2>2, <2>3
<1>9. ASSUME NEW c \in Calls, AnswerBroadcast(c) \/ FinishCampaign(c) \/ CancelWrite(c)
      PROVE  Typed'
  <2>1. excused' \in BOOLEAN
    BY <1>9, Zenon DEF AnswerBroadcast, FinishCampaign, CancelWrite
  <2>2. /\ UNCHANGED <<scene, clock, userVars, kind, topic, left, rows, some, every, got,
                       runVars, netVars, events>>
        /\ pc' = [pc EXCEPT ![c] = "done"]
    BY <1>9, Zenon DEF AnswerBroadcast, FinishCampaign, CancelWrite
  <2>3. campaign' \in {"DRAFT", "SCHEDULED", "RUNNING", "CANCELLED"} /\ faults' \in 0..MaxFaults
    BY <1>9 DEF AnswerBroadcast, FinishCampaign, CancelWrite
  <2>4. TypeOK'
    BY <2>1, <2>2, <2>3
  <2>5. ScenesKept'
    BY <2>2
  <2> QED
    BY <2>4, <2>5
<1>10. ASSUME NEW c \in Calls, Crash(c)
       PROVE  Typed'
  BY <1>10 DEF Crash
<1>11. ASSUME NEW c \in Calls, NEW e \in left[c], EnqueueBroadcast(c, e) \/ EnqueueOne(c, e)
       PROVE  Typed'
  <2>1. CASE EnqueueBroadcast(c, e)
    BY <2>1 DEF EnqueueBroadcast
  <2>2. CASE EnqueueOne(c, e)
    <3>1. /\ jobs' \subseteq Calls \X Addressees /\ faults' \in 0..MaxFaults
          /\ rows' \in [Calls -> SUBSET Addressees] /\ left' \in [Calls -> SUBSET Addressees]
      <4>1. /\ jobs' \in {jobs, jobs \cup {<<c, e>>}}
            /\ rows' \in {rows, [rows EXCEPT ![c] = @ \cup {e}]}
            /\ left' = [left EXCEPT ![c] = @ \ {e}]
        BY <2>2 DEF EnqueueOne
      <4>2. faults' \in 0..MaxFaults
        BY <2>2 DEF EnqueueOne
      <4>3. e \in Addressees
        OBVIOUS
      <4>4. left' \in [Calls -> SUBSET Addressees]
        BY <4>1
      <4>5. rows' \in [Calls -> SUBSET Addressees]
        BY <4>1, <4>3
      <4>6. jobs' \subseteq Calls \X Addressees
        <5>1. <<c, e>> \in Calls \X Addressees
          BY <4>3
        <5> QED
          BY <4>1, <5>1
      <4> QED
        BY <4>2, <4>4, <4>5, <4>6
    <3>2. got' \in [Audience -> Nat]
      <4>1. got' = got \/ got' = [got EXCEPT ![e] = @ + 1]
        BY <2>2, Zenon DEF EnqueueOne
      <4>2. \A f \in [Audience -> Nat] : [f EXCEPT ![e] = @ + 1] \in [Audience -> Nat]
        BY CountTyped
      <4>3. got \in [Audience -> Nat]
        OBVIOUS
      <4> QED
        BY <4>1, <4>2, <4>3, Zenon
    <3>3. UNCHANGED <<scene, clock, userVars, campaign, pc, kind, topic, some, every, excused,
                      cache, doing, step, seen, oldest, netVars, events>>
      BY <2>2 DEF EnqueueOne
    <3> QED
      BY <3>1, <3>2, <3>3
  <2> QED
    BY <1>11, <2>1, <2>2
<1>12. ASSUME NEW r \in Runs, TakeJob(r)
       PROVE  Typed'
  <2>1. PICK j \in jobs : doing' = [doing EXCEPT ![r] = <<j[1], j[2][1]>>] /\ jobs' = jobs \ {j}
    BY <1>12, Zenon DEF TakeJob
  <2>2. j[1] \in Calls /\ j[2][1] \in Wallets
    BY DEF Addressees
  <2>3. doing' \in [Runs -> (Calls \X Wallets) \cup {None}]
    BY <2>1, <2>2
  <2>4. jobs' \subseteq Calls \X Addressees
    BY <2>1, Zenon
  <2> QED
    BY <1>12, <2>3, <2>4 DEF TakeJob
<1>13. ASSUME NEW r \in Runs, ResolveIdentity(r)
       PROVE  Typed'
  <2>1. doing[r][2] \in Wallets
    BY <1>13 DEF ResolveIdentity
  <2>2. seen' \in [Runs -> Identity]
    <3> DEFINE y == doing[r][2]
    <3>1. \/ Fresh(cache[y]) /\ seen' = [seen EXCEPT ![r] = cache[y].value]
          \/ seen' = [seen EXCEPT ![r] = chain[y]]
      BY <1>13, Zenon DEF ResolveIdentity
    <3>2. chain[y] \in Identity
      BY <2>1
    <3>3. Fresh(cache[y]) => cache[y].value \in Identity
      BY <2>1 DEF Fresh
    <3> HIDE DEF y
    <3> QED
      BY <3>1, <3>2, <3>3, Zenon
  <2>3. step' \in [Runs -> {"read", "store", "send"}] /\ faults' \in 0..MaxFaults
    <3>1. step' = [step EXCEPT ![r] = "send"] \/ step' = [step EXCEPT ![r] = "store"]
      BY <1>13, Zenon DEF ResolveIdentity
    <3>2. faults' = faults \/ Fault
      BY <1>13, Zenon DEF ResolveIdentity
    <3>3. step' \in [Runs -> {"read", "store", "send"}]
      BY <3>1, Zenon
    <3>4. faults' \in 0..MaxFaults
      BY <3>2
    <3> QED
      BY <3>3, <3>4
  <2>4. UNCHANGED <<scene, clock, userVars, callVars, jobs, cache, doing, oldest, netVars,
                    events>>
    BY <1>13 DEF ResolveIdentity
  <2> QED
    BY <2>2, <2>3, <2>4
<1>14. ASSUME NEW r \in Runs, StoreIdentity(r)
       PROVE  Typed'
  <2>1. doing[r][2] \in Wallets
    BY <1>14 DEF StoreIdentity
  <2>2. /\ cache' \in [Wallets -> [value : Identity, till : Nat] \cup {None}]
        /\ faults' \in 0..MaxFaults
    <3>1. ASSUME NEW ttl \in Nat
          PROVE  [value |-> seen[r], till |-> clock + ttl] \in [value : Identity, till : Nat]
      OBVIOUS
    <3>2. (IF seen[r] = None THEN MissTtl ELSE IdentityTtl) \in Nat
      OBVIOUS
    <3> QED
      BY <1>14, <2>1, <3>1, <3>2 DEF StoreIdentity
  <2> QED
    BY <1>14, <2>2 DEF StoreIdentity
<1>17. ASSUME NEW r \in Runs, Deliver(r)
       PROVE  Typed'
  <2>1. doing[r][1] \in Calls /\ doing[r][2] \in Wallets
    BY <1>17 DEF Deliver
  <2>2. link' \in [Wallets -> Topics \cup {None}]
    <3>1. topic[doing[r][1]] \in Topics
      BY <2>1
    <3> QED
      BY <1>17, <2>1, <3>1 DEF Deliver, Age
  <2>3. oldest' \in Nat
    BY <1>17, <2>1 DEF Deliver, Age
  <2> QED
    BY <1>17, <2>2, <2>3 DEF Deliver
<1>15. CASE Tick
  BY <1>15 DEF Tick
<1>16. CASE UNCHANGED vars
  BY <1>16 DEF vars
<1> QED
  BY <1>2, <1>3, <1>4, <1>5, <1>6, <1>7, <1>8, <1>9, <1>10, <1>11, <1>12, <1>13, <1>14,
     <1>15, <1>16, <1>17 DEF Next

-----------------------------------------------------------------------------
\* A step of the worker, the clock, a link or an identity touches no call.
CallsIdle == UNCHANGED <<scene, campaign, pc, kind, left, rows, some, every, got, excused>>

\* Every step leaves the calls alone, changes a subscription or is one of a
\* call.
LEMMA CallSteps ==
  ASSUME [Next]_vars
  PROVE  \/ CallsIdle
         \/ \E s : Subscriptions(s)
         \/ \E c \in Calls :
              \/ StartBroadcast(c) \/ CreateRows(c) \/ StartAdminBroadcast(c)
              \/ LaunchCampaign(c) \/ InternalEnqueue(c) \/ AnswerBroadcast(c)
              \/ FinishCampaign(c) \/ CancelRead(c) \/ CancelWrite(c) \/ Crash(c)
              \/ \E e \in left[c] : EnqueueBroadcast(c, e) \/ EnqueueOne(c, e)
<1>1. ASSUME NEW x \in Wallets,
             Subscribe(x) \/ PortalSubscribe(x) \/ Unsubscribe(x) \/ Resubscribe(x)
      PROVE  \E s : Subscriptions(s)
  BY <1>1 DEF Subscribe, PortalSubscribe, Unsubscribe, Resubscribe
<1>2. ASSUME NEW x \in Wallets, FollowLink(x) \/ ChangeIdentity(x)
      PROVE  CallsIdle
  BY <1>2 DEF FollowLink, ChangeIdentity, CallsIdle, callVars
<1>3. ASSUME NEW r \in Runs, TakeJob(r) \/ ResolveIdentity(r) \/ StoreIdentity(r) \/ Deliver(r)
      PROVE  CallsIdle
  BY <1>3 DEF TakeJob, ResolveIdentity, StoreIdentity, Deliver, CallsIdle, callVars
<1>4. CASE Tick \/ UNCHANGED vars
  BY <1>4 DEF Tick, vars, CallsIdle, callVars
<1> QED
  BY <1>1, <1>2, <1>3, <1>4 DEF Next

\* What a broadcast read stays between the wallets reachable throughout and
\* those reachable at some moment, whoever comes and goes meanwhile.
LEMMA BroadcastsStep ==
  ASSUME Typed, BroadcastsRead, [Next]_vars
  PROVE  BroadcastsRead'
<1> USE AudienceNone DEF Typed, TypeOK, ScenesKept, BroadcastsRead
<1>1. CASE CallsIdle
  BY <1>1 DEF CallsIdle
<1>2. ASSUME NEW s, Subscriptions(s)
      PROVE  BroadcastsRead'
  <2>1. \A S, T : Each(S) \subseteq Each(S \cup T) /\ Each(S \cap T) \subseteq Each(S)
    BY DEF Each
  <2> QED
    BY <1>2, <2>1 DEF Subscriptions
<1>3. ASSUME NEW c \in Calls, StartBroadcast(c)
      PROVE  BroadcastsRead'
  <2>1. GetBroadcastTargets(sub) = Reachable(sub)
    BY DEF GetBroadcastTargets, Reachable
  <2>2. Each({}) = {}
    BY DEF Each
  <2>3. /\ rows' = rows /\ rows[c] = {} /\ excused' = excused
        /\ kind' = [kind EXCEPT ![c] = "broadcast"]
        /\ left' = [left EXCEPT ![c] = Each(Reachable(sub))]
        /\ pc' = [pc EXCEPT ![c] = IF Reachable(sub) = {} THEN "done" ELSE "rows"]
        /\ some' = [some EXCEPT ![c] = Reachable(sub)]
        /\ every' = [every EXCEPT ![c] = Reachable(sub)]
    BY <1>3, <2>1 DEF StartBroadcast
  <2> HIDE DEF TypeOK
  <2>4. pc \in [Calls -> {"idle", "rows", "fan", "cancel", "done"}]
        /\ DOMAIN left = Calls /\ DOMAIN some = Calls /\ DOMAIN every = Calls
        /\ DOMAIN kind = Calls
    BY DEF TypeOK
  <2> QED
    BY <2>2, <2>3, <2>4
<1>4. ASSUME NEW c \in Calls, CreateRows(c)
      PROVE  BroadcastsRead'
  BY <1>4 DEF CreateRows
<1>5. ASSUME NEW c \in Calls, StartAdminBroadcast(c)
      PROVE  BroadcastsRead'
  BY <1>5 DEF StartAdminBroadcast
<1>6. ASSUME NEW c \in Calls, LaunchCampaign(c) \/ InternalEnqueue(c)
      PROVE  BroadcastsRead'
  <2>1. /\ kind' = [kind EXCEPT ![c] = "campaign"] /\ left' = [left EXCEPT ![c] = Audience]
        /\ pc' = [pc EXCEPT ![c] = "fan"] /\ UNCHANGED <<rows, some, every>>
        /\ pc[c] = "idle" /\ (excused => excused')
    BY <1>6, Zenon DEF LaunchCampaign, InternalEnqueue, EnqueueCampaign, Overlaps
  <2> QED
    BY <2>1
<1>7. ASSUME NEW c \in Calls, AnswerBroadcast(c)
      PROVE  BroadcastsRead'
  BY <1>7 DEF AnswerBroadcast
<1>8. ASSUME NEW c \in Calls, FinishCampaign(c)
      PROVE  BroadcastsRead'
  BY <1>8 DEF FinishCampaign
<1>9. ASSUME NEW c \in Calls, CancelRead(c) \/ CancelWrite(c)
      PROVE  BroadcastsRead'
  <2>1. /\ pc' = [pc EXCEPT ![c] = IF CancelRead(c) THEN "cancel" ELSE "done"]
        /\ UNCHANGED <<kind, left, rows, some, every>> /\ (excused => excused')
        /\ scene = "campaign"
    BY <1>9 DEF CancelRead, CancelWrite, Overlaps
  <2>2. kind[c] # "broadcast"
    BY <2>1
  <2> QED
    BY <2>1, <2>2
<1>10. ASSUME NEW c \in Calls, Crash(c)
       PROVE  BroadcastsRead'
  BY <1>10 DEF Crash, InProgress
<1>11. ASSUME NEW c \in Calls, NEW e \in left[c], EnqueueBroadcast(c, e)
       PROVE  BroadcastsRead'
  BY <1>11 DEF EnqueueBroadcast
<1>12. ASSUME NEW c \in Calls, NEW e \in left[c], EnqueueOne(c, e)
       PROVE  BroadcastsRead'
  BY <1>12 DEF EnqueueOne
<1> QED
  BY <1>1, <1>2, <1>3, <1>4, <1>5, <1>6, <1>7, <1>8, <1>9, <1>10, <1>11, <1>12, CallSteps

\* A call that starts on a campaign nobody works on, and that is not running,
\* finds that nobody got it.
LEMMA CampaignStarts ==
  ASSUME Typed, CampaignsAlone, NEW c \in Calls, scene = "campaign", EnqueueCampaign(c),
         ~excused' => /\ ~Overlaps
                      /\ campaign \in {"DRAFT", "SCHEDULED"},
         UNCHANGED <<scene, campaign, got>>
  PROVE  CampaignsAlone'
<1> SUFFICES ASSUME ~excused' PROVE CampaignsAlone'
  BY DEF CampaignsAlone
<1>1. /\ ~excused /\ InProgress = {} /\ campaign \in {"DRAFT", "SCHEDULED"}
  BY DEF Overlaps
<1>2. pc' = [pc EXCEPT ![c] = "fan"]
  BY DEF EnqueueCampaign
<1>3. \A d \in InProgress' : d = c
  BY <1>1, <1>2 DEF InProgress, Typed, TypeOK
<1>4. \A e \in Audience : got[e] = 0
  <2>1. \A d \in Calls : pc[d] # "fan"
    BY <1>1 DEF InProgress
  <2>2. \A e \in Audience : ~(got[e] > 0)
    BY <1>1, <2>1 DEF CampaignsAlone
  <2>3. \A e \in Audience : got[e] \in Nat
    BY DEF Typed, TypeOK
  <2> QED
    BY <2>2, <2>3
<1>5. \A d, e \in InProgress' : d = e
  BY <1>3
<1>6. scene' = scene /\ campaign' = campaign /\ got' = got
  OBVIOUS
<1> QED
  BY <1>1, <1>4, <1>5, <1>6 DEF CampaignsAlone

\* As long as nothing excuses a repetition, whoever starts on a campaign finds
\* that nobody got it.
LEMMA CampaignsStep ==
  ASSUME Typed, CampaignsAlone, [Next]_vars
  PROVE  CampaignsAlone'
<1> USE DEF Typed, TypeOK, ScenesKept, CampaignsAlone, InProgress
<1>1. CASE CallsIdle
  BY <1>1 DEF CallsIdle
<1>2. ASSUME NEW s, Subscriptions(s)
      PROVE  CampaignsAlone'
  BY <1>2 DEF Subscriptions
<1>3. ASSUME NEW c \in Calls, StartBroadcast(c) \/ StartAdminBroadcast(c)
      PROVE  CampaignsAlone'
  BY <1>3 DEF StartBroadcast, StartAdminBroadcast
<1>4. ASSUME NEW c \in Calls, CreateRows(c)
      PROVE  CampaignsAlone'
  BY <1>4 DEF CreateRows
<1>5. ASSUME NEW c \in Calls, LaunchCampaign(c)
      PROVE  CampaignsAlone'
  <2>1. /\ scene = "campaign" /\ MayLaunch(campaign) /\ EnqueueCampaign(c)
        /\ excused' = Overlaps /\ UNCHANGED <<scene, campaign, got>>
    BY <1>5, Zenon DEF LaunchCampaign
  <2> QED
    BY <2>1, CampaignStarts DEF MayLaunch
<1>6. ASSUME NEW c \in Calls, InternalEnqueue(c)
      PROVE  CampaignsAlone'
  <2>1. /\ scene = "campaign" /\ EnqueueCampaign(c)
        /\ excused' = (Overlaps \/ campaign \in {"RUNNING", "CANCELLED"})
        /\ UNCHANGED <<scene, campaign, got>>
    BY <1>6, Zenon DEF InternalEnqueue
  <2> QED
    BY <2>1, CampaignStarts
<1>7. ASSUME NEW c \in Calls, AnswerBroadcast(c)
      PROVE  CampaignsAlone'
  BY <1>7 DEF AnswerBroadcast
<1>8. ASSUME NEW c \in Calls, FinishCampaign(c)
      PROVE  CampaignsAlone'
  BY <1>8 DEF FinishCampaign
<1>9. ASSUME NEW c \in Calls, CancelRead(c)
      PROVE  CampaignsAlone'
  BY <1>9 DEF CancelRead, Overlaps
<1>10. ASSUME NEW c \in Calls, CancelWrite(c)
       PROVE  CampaignsAlone'
  BY <1>10 DEF CancelWrite
<1>11. ASSUME NEW c \in Calls, Crash(c)
       PROVE  CampaignsAlone'
  BY <1>11 DEF Crash
<1>12. ASSUME NEW c \in Calls, NEW e \in left[c], EnqueueBroadcast(c, e)
       PROVE  CampaignsAlone'
  BY <1>12 DEF EnqueueBroadcast
<1>13. ASSUME NEW c \in Calls, NEW e \in left[c], EnqueueOne(c, e)
       PROVE  CampaignsAlone'
  BY <1>13 DEF EnqueueOne
<1> QED
  BY <1>1, <1>2, <1>3, <1>4, <1>5, <1>6, <1>7, <1>8, <1>9, <1>10, <1>11, <1>12, <1>13,
     CallSteps

-----------------------------------------------------------------------------
\* What is cached or in hand was on the chain less than a lifetime ago.
LEMMA IdentitiesStep ==
  ASSUME Typed, Identities, [Next]_vars
  PROVE  Identities'
<1> USE TtlAssumption, AudienceBounds, AudienceNone
<1> USE DEF Typed, TypeOK, Identities, CacheBounded, RunsBounded, ShownPast, Bounded,
        StaleAddressBounded, Identity
<1>1. CASE UNCHANGED <<clock, runVars, netVars>>
  BY <1>1 DEF runVars, netVars
<1>2. ASSUME NEW x \in Wallets, ChangeIdentity(x)
      PROVE  Identities'
  <2>1. /\ clock' = clock /\ UNCHANGED <<cache, doing, step, seen, oldest>>
        /\ \A y \in Wallets : y # x => chain'[y] = chain[y]
    BY <1>2 DEF ChangeIdentity, runVars
  <2>2. /\ \A a \in Addresses : shown[a] <= shown'[a] /\ shown'[a] <= clock
        /\ \A a \in Addresses : chain[x] = a => shown'[a] = clock
    BY <1>2 DEF ChangeIdentity
  <2>3. shown' \in [Addresses -> Nat]
    BY <1>2 DEF ChangeIdentity
  <2>4. CacheBounded'
    <3> SUFFICES ASSUME NEW y \in Wallets, cache[y] # None
                 PROVE  /\ cache[y].till <= clock + IdentityTtl
                        /\ cache[y].value # None => Bounded(y, cache[y].value, cache[y].till)'
      BY <2>1
    <3> DEFINE a == cache[y].value
               t == cache[y].till
    <3>1. a \in Identity /\ t \in Nat /\ t <= clock + IdentityTtl
      OBVIOUS
    <3>2. a # None => chain[y] = a \/ t <= shown[a] + IdentityTtl
      OBVIOUS
    <3> HIDE DEF a, t
    <3>3. ASSUME a # None, chain[y] # a
          PROVE  t <= shown'[a] + IdentityTtl
      <4>1. shown[a] \in Nat /\ shown'[a] \in Nat /\ shown[a] <= shown'[a]
        BY <2>2, <2>3, <3>1, <3>3
      <4> QED
        BY <3>1, <3>2, <3>3, <4>1
    <3>4. ASSUME a # None, chain[y] = a
          PROVE  chain'[y] = a \/ t <= shown'[a] + IdentityTtl
      <4>1. CASE y = x
        <5>1. shown'[a] = clock
          BY <2>2, <3>1, <3>4, <4>1
        <5> QED
          BY <3>1, <5>1
      <4>2. CASE y # x
        BY <2>1, <3>4, <4>2
      <4> QED
        BY <4>1, <4>2
    <3> USE DEF a, t
    <3> QED
      BY <2>1, <3>1, <3>3, <3>4
  <2>5. RunsBounded'
    <3> SUFFICES ASSUME NEW r \in Runs, doing[r] # None, seen[r] # None
                 PROVE  /\ step[r] = "store" => \/ chain'[doing[r][2]] = seen[r]
                                                \/ shown'[seen[r]] = clock
                        /\ step[r] = "send" => Bounded(doing[r][2], seen[r], clock)'
      BY <2>1
    <3> DEFINE a == seen[r]
               y == doing[r][2]
    <3>1. a \in Addresses /\ y \in Wallets
      OBVIOUS
    <3>2. /\ step[r] = "store" => chain[y] = a \/ shown[a] = clock
          /\ step[r] = "send" => chain[y] = a \/ clock <= shown[a] + IdentityTtl
      OBVIOUS
    <3>3. clock \in Nat /\ shown[a] \in Nat /\ shown'[a] \in Nat
          /\ shown[a] <= shown'[a] /\ shown'[a] <= clock
      BY <2>2, <2>3, <3>1
    <3>4. chain[y] = a => chain'[y] = a \/ shown'[a] = clock
      BY <2>1, <2>2, <3>1
    <3> HIDE DEF a, y
    <3>5. /\ step[r] = "store" => chain'[y] = a \/ shown'[a] = clock
          /\ step[r] = "send" => chain'[y] = a \/ clock <= shown'[a] + IdentityTtl
      BY <3>2, <3>3, <3>4
    <3> USE DEF a, y
    <3> QED
      BY <2>1, <3>5
  <2> QED
    BY <2>1, <2>2, <2>4, <2>5
<1>3. ASSUME NEW c \in Calls, NEW e \in left[c], EnqueueBroadcast(c, e) \/ EnqueueOne(c, e)
      PROVE  Identities'
  BY <1>3 DEF EnqueueBroadcast, EnqueueOne, netVars
<1>4. ASSUME NEW r \in Runs, TakeJob(r)
      PROVE  Identities'
  BY <1>4 DEF TakeJob, netVars
<1>5. ASSUME NEW r \in Runs, ResolveIdentity(r)
      PROVE  Identities'
  <2>1. doing[r][2] \in Wallets
    BY <1>5 DEF ResolveIdentity
  <2>2. UNCHANGED <<clock, cache, doing, oldest, chain, shown>>
    BY <1>5 DEF ResolveIdentity, netVars
  <2>3. RunsBounded'
    BY <1>5, <2>1, <2>2 DEF ResolveIdentity, Fresh
  <2> QED
    BY <2>2, <2>3
<1>6. ASSUME NEW r \in Runs, StoreIdentity(r)
      PROVE  Identities'
  <2>1. doing[r][2] \in Wallets
    BY <1>6 DEF StoreIdentity
  <2>0. doing[r] # None /\ step[r] = "store"
    BY <1>6 DEF StoreIdentity
  <2>2. UNCHANGED <<clock, seen, doing, oldest, chain, shown>>
    BY <1>6 DEF StoreIdentity, netVars
  <2>3. RunsBounded'
    BY <1>6, <2>1, <2>2 DEF StoreIdentity
  <2>4. CacheBounded'
    <3>1. CASE UNCHANGED cache
      BY <2>2, <3>1
    <3>2. ASSUME NEW ttl \in Nat, ttl <= IdentityTtl,
                 cache' = [cache EXCEPT ![doing[r][2]] =
                             [value |-> seen[r], till |-> clock + ttl]]
          PROVE  CacheBounded'
      <4>1. \A y \in Wallets : y # doing[r][2] => cache'[y] = cache[y]
        BY <2>1, <3>2
      <4>2. cache'[doing[r][2]] = [value |-> seen[r], till |-> clock + ttl]
        BY <2>1, <3>2
      <4>3. /\ cache'[doing[r][2]].value = seen[r]
            /\ cache'[doing[r][2]].till = clock + ttl
        BY <4>2
      <4>4. seen[r] # None => Bounded(doing[r][2], seen[r], clock + ttl)
        <5>1. seen[r] # None => chain[doing[r][2]] = seen[r] \/ shown[seen[r]] = clock
          BY <2>0
        <5>2. ttl \in Nat /\ ttl <= IdentityTtl
          BY <3>2
        <5> QED
          BY <5>1, <5>2
      <4>5. clock' = clock /\ UNCHANGED <<chain, shown>>
        BY <2>2
      <4> QED
        BY <2>1, <3>2, <4>1, <4>3, <4>4, <4>5
    <3>3. \/ UNCHANGED cache
          \/ \E ttl \in {MissTtl, IdentityTtl} :
               cache' = [cache EXCEPT ![doing[r][2]] =
                           [value |-> seen[r], till |-> clock + ttl]]
      BY <1>6, Zenon DEF StoreIdentity
    <3>4. MissTtl \in Nat /\ MissTtl <= IdentityTtl /\ IdentityTtl <= IdentityTtl
      OBVIOUS
    <3> QED
      BY <3>1, <3>2, <3>3, <3>4, TtlAssumption, Zenon
  <2> QED
    BY <2>2, <2>3, <2>4
<1>7. ASSUME NEW r \in Runs, Deliver(r)
      PROVE  Identities'
  <2>1. doing[r][2] \in Wallets
    BY <1>7 DEF Deliver
  <2>2. UNCHANGED <<clock, cache, step, chain, shown>>
    BY <1>7 DEF Deliver, netVars
  <2>3. RunsBounded'
    BY <1>7, <2>2 DEF Deliver
  <2>4. StaleAddressBounded'
    BY <1>7, <2>1 DEF Deliver, Age
  <2> QED
    BY <2>2, <2>3, <2>4
<1>8. CASE Tick
  BY <1>8 DEF Tick, runVars, netVars
<1>9. ASSUME ~ \E r \in Runs : \/ TakeJob(r) \/ ResolveIdentity(r) \/ StoreIdentity(r)
                              \/ Deliver(r),
             ~ \E x \in Wallets : ChangeIdentity(x),
             ~ \E c \in Calls : \E e \in left[c] : EnqueueBroadcast(c, e) \/ EnqueueOne(c, e),
             ~ Tick
      PROVE  UNCHANGED <<clock, runVars, netVars>>
  BY <1>9 DEF Next, vars, Subscribe, PortalSubscribe, Unsubscribe, Resubscribe,
     Subscriptions, FollowLink, StartBroadcast, CreateRows, StartAdminBroadcast,
     LaunchCampaign, InternalEnqueue, AnswerBroadcast, FinishCampaign, CancelRead,
     CancelWrite, Crash
<1> QED
  BY <1>1, <1>2, <1>3, <1>4, <1>5, <1>6, <1>7, <1>8, <1>9

\* The inductive invariant holds throughout.
LEMMA Inductive == Spec => []IInv
<1>1. Init => IInv
  <2> SUFFICES ASSUME Init PROVE IInv
    OBVIOUS
  <2>1. TypeOK
    <3>1. excused \in BOOLEAN
      BY Zenon DEF Init
    <3>2. sub \in [Wallets -> [status : {"none", "active", "unsubscribed"}, pubkey : BOOLEAN]]
      BY DEF Init
    <3> QED
      BY <3>1, <3>2, AudienceBounds DEF Init, TypeOK, Identity
  <2>2. ScenesKept /\ BroadcastsRead
    BY AudienceNone DEF Init, ScenesKept, BroadcastsRead
  <2>3. CampaignsAlone
    BY DEF Init, CampaignsAlone, InProgress
  <2>4. Identities
    BY TtlAssumption DEF Init, Identities, CacheBounded, RunsBounded, ShownPast,
                         StaleAddressBounded
  <2> QED
    BY <2>1, <2>2, <2>3, <2>4 DEF IInv, Typed
<1>2. IInv /\ [Next]_vars => IInv'
  BY TypedStep, BroadcastsStep, CampaignsStep, IdentitiesStep DEF IInv
<1> QED
  BY <1>1, <1>2, PTL DEF Spec

-----------------------------------------------------------------------------
\* Every variable keeps its type, for any number of wallets, calls and runs.
\* (SubscriptionsService, CampaignService, RoutingService.)
THEOREM TypeCorrect == Spec => []TypeOK
  BY Inductive, PTL DEF IInv, Typed

\* However many people come and go while however many broadcasts are under
\* way, each reaches those who were reachable throughout and nobody who never
\* was.  (queueBroadcast, SubscriptionsService.)
THEOREM BroadcastsReachAudience == Spec => []BroadcastReachesAudience
<1>1. IInv => BroadcastReachesAudience
  BY DEF IInv, BroadcastsRead, BroadcastReachesAudience
<1> QED
  BY <1>1, Inductive, PTL

\* A wallet gets a campaign more often than the audience lists it, or after it
\* was cancelled, whatever the audience, only after calls overlapped, the internal endpoint was used on one that had left DRAFT, its
\* status could not be written or a process died, for any number of calls.
\* (launchCampaign, cancelCampaign, enqueueCampaign.)
THEOREM CampaignsOnce == Spec => []CampaignOnce
<1>1. IInv => CampaignOnce
  <2> SUFFICES ASSUME IInv, ~excused, NEW e \in Audience
               PROVE  ~(got[e] > 1) /\ ~(campaign = "CANCELLED" /\ got[e] > 0)
    BY DEF CampaignOnce
  <2>1. CASE scene # "campaign"
    BY <2>1 DEF IInv, CampaignsAlone
  <2>2. CASE scene = "campaign"
    BY <2>2 DEF IInv, Typed, TypeOK, CampaignsAlone, InProgress
  <2> QED
    BY <2>1, <2>2
<1> QED
  BY <1>1, Inductive, PTL

\* No message goes to an address that left the chain longer ago than a cache
\* entry lives, whatever the lifetimes and however fetches and changes of the
\* account interleave.  (RoutingService.resolveIdentity.)
THEOREM StaleAddressesBounded == Spec => []StaleAddressBounded
<1>1. IInv => StaleAddressBounded
  BY DEF IInv, Identities
<1> QED
  BY <1>1, Inductive, PTL
=============================================================================
