--------------------------- MODULE TelegramProofs ---------------------------
(***************************************************************************)
(* Safety of Telegram for every set of protocols, chats, groups,           *)
(* notifications and runs, and every bound on runs, events and faults.     *)
(*                                                                         *)
(* The three invariants of the runs are not inductive by themselves.       *)
(* Progress counts the parts a run has sent by where it is, HeldBack keeps *)
(* a run whose chat is muted before its first message, LinksAsked follows  *)
(* a group from the administrator's link to the run that writes to it, and *)
(* GroupOnce and PromptOnce say what a marker in Redis excludes as long as *)
(* runs (or prompts) of one thing do not overlap: a second message to a    *)
(* group, but for those beside messages that broke off, and a second       *)
(* prompt.                                                                 *)
(***************************************************************************)
EXTENDS Telegram, TLAPS

\* A run, a prompt or a link under way knows what it is about.
Owned ==
  /\ \A r \in Runs :
       /\ pc[r] # "idle" => on[r] \in Notifs
       /\ pc[r] \in {"gsend", "gmore", "gmark"} => target[r] \in Groups
       /\ pc[r] = "idle" => target[r] = None
  /\ \A t \in Tasks : stage[t] # "idle" => to[t] \in Chats \X Protocols
  /\ \A p \in Protocols : linking[p] # None => linkNonce[p] \in Nonces

\* How many parts have been sent, by where the run is.
Progress ==
  \A r \in Runs :
    /\ pc[r] \in {"idle", "mutes", "route", "user"} => part[r] = 0
    /\ pc[r] = "more" => part[r] < chunks[on[r]]
    /\ pc[r] \in {"group", "gsend", "gmore", "gmark"} => part[r] = chunks[on[r]]
    /\ pc[r] # "end" => outcome[r] = "none"

\* A run that found its chat muted sends nothing.
HeldBack ==
  \A r \in held :
    /\ on[r] \in Notifs /\ Muted(on[r])
    /\ r \in faulted \/ (pc[r] \in {"mutes", "end"} /\ part[r] = 0)

\* A group is linked, about to be linked, read by a run or written to only if
\* its administrator asked for it.
LinksAsked ==
  /\ \A p \in Protocols :
       /\ group[p] # None => <<p, group[p]>> \in authorised
       /\ linking[p] # None => <<p, linking[p]>> \in authorised
  /\ \A r \in Runs :
       target[r] # None => <<ProtocolOf[on[r]], target[r]>> \in authorised
  /\ \A ng \in Notifs \X Groups :
       groupCount[ng] > 0 => <<ProtocolOf[ng[1]], ng[2]>> \in authorised

RunsOverlap ==
  \A q, r \in Runs : (q # r /\ Busy(q) /\ Busy(r) /\ on[q] = on[r]) =>
    \A g \in Groups : <<on[r], g>> \in overlapped

\* The marker of a group message, or the run that is on the way to write it.
GroupMarked(ng) ==
  \/ ng \in groupSent
  \/ \E r \in Runs : pc[r] \in {"gmore", "gmark"} /\ <<on[r], target[r]>> = ng

GroupOnce ==
  \A ng \in Notifs \X Groups : (ng \notin overlapped /\ faults = 0) =>
    /\ groupCount[ng] <= 1 + broken[ng]
    /\ groupCount[ng] = 1 + broken[ng] => GroupMarked(ng)
    /\ \A r \in Runs :
         (pc[r] = "gsend" /\ <<on[r], target[r]>> = ng) => groupCount[ng] <= broken[ng]

PromptsOverlap ==
  \A t, u \in Tasks :
    (t # u /\ stage[t] # "idle" /\ stage[u] # "idle" /\ to[t] = to[u])
      => to[t] \in promptOverlap

PromptOnce ==
  \A cp \in Chats \X Protocols : (cp \notin promptOverlap /\ faults = 0) =>
    /\ promptCount[cp] <= 1
    /\ promptCount[cp] = 1 => cp \in prompted
    /\ \A t \in Tasks : (stage[t] = "send" /\ to[t] = cp) => cp \notin prompted

IInv ==
  /\ TypeOK /\ Owned
  /\ Progress /\ OutcomeTruthful /\ HeldBack
  /\ LinksAsked /\ RunsOverlap /\ GroupOnce /\ PromptsOverlap /\ PromptOnce

-----------------------------------------------------------------------------
(* The actions, by the part of the state they change. *)

\* Users, owners and the portal: bots, what they may write to, nonces and the
\* markers of chats that refused one.
Outside ==
  \/ \E p \in Protocols : SaveBotToken(p) \/ RemoveBotToken(p)
  \/ \E p \in Protocols, g \in Groups, st \in Standings : Event /\ BotAdded(p, g, st)
  \/ \E p \in Protocols, c \in Chats : UserStarts(c, p)
  \/ \E c \in Chats, b \in Bots : UserBlocks(c, b)
  \/ \E x \in Nonces : CreateNonce(x)
  \/ ClearBlocked

\* What is muted, and what stays held back by it.
MuteStep ==
  /\ Event
  /\ \/ \E n \in Notifs : MuteProtocol(n)
     \/ \E c \in Chats, k \in Mutable : MuteCategory(c, k) \/ UnmuteCategory(c, k)

\* A group is linked or unlinked.
LinkStep ==
  \/ \E p \in Protocols : HandlerStep(p)
  \/ \E p \in Protocols, g \in Groups :
       /\ Event
       /\ \/ KickedRead(p, g)
          \/ \E x \in Nonces, st \in Standings : LinkRead(p, g, x, st)

\* Chats move to the protocol's bot, or back.
MoveStep ==
  \/ \E p \in Protocols : ClearMigration(p)
  \/ \E p \in Protocols, c \in Chats : Event /\ HandleStart(c, p)

\* Every step is one of these.
LEMMA Kinds ==
  ASSUME [Next]_vars
  PROVE  \/ \E r \in Runs, n \in Notifs : Begin(r, n)
         \/ \E r \in Runs : RunStep(r)
         \/ \E t \in Tasks : TaskStep(t)
         \/ \E p \in Protocols : TriggerMigration(p)
         \/ MoveStep \/ MuteStep \/ LinkStep \/ Outside \/ Expire
         \/ UNCHANGED vars
<1>1. ASSUME NEW p \in Protocols, HandleCustomBotUpdate(p)
      PROVE  MoveStep \/ MuteStep \/ LinkStep \/ Outside
  BY <1>1 DEF HandleCustomBotUpdate, HandleCustomBotCallbackQuery, CustomBotMute,
              CustomBotUnmute, MoveStep, MuteStep, LinkStep, Outside
<1>2. HandleUpdate => MuteStep
  BY DEF HandleUpdate, HandleMuteCallback, HandleMuteCommand, HandleUnmuteCommand,
         MuteStep
<1> QED
  BY <1>1, <1>2 DEF Next, MoveStep, LinkStep, Outside

\* What is outside the runs leaves them alone, with the messages they sent to
\* groups and the faults they met.
LEMMA RunFrame ==
  ASSUME \/ \E t \in Tasks : TaskStep(t)
         \/ \E p \in Protocols : TriggerMigration(p)
         \/ MoveStep \/ MuteStep \/ LinkStep \/ Outside \/ Expire
         \/ UNCHANGED vars
  PROVE  UNCHANGED <<runVars, groupCount, broken, faulted>>
<1>1. ASSUME NEW t \in Tasks, TaskStep(t)
      PROVE  UNCHANGED <<runVars, groupCount, broken, faulted>>
  BY <1>1 DEF TaskStep, PromptCheck, PromptSend, Rest, groupVars, Fault
<1>2. ASSUME NEW p \in Protocols, TriggerMigration(p)
      PROVE  UNCHANGED <<runVars, groupCount, broken, faulted>>
  BY <1>2 DEF TriggerMigration, SendMigrationPrompts, Rest, groupVars
<1>3. CASE MoveStep
  BY <1>3 DEF MoveStep, ClearMigration, ClearMigrationState, HandleStart, groupVars,
              Fault
<1>4. CASE MuteStep
  BY <1>4 DEF MuteStep, MuteProtocol, MuteCategory, UnmuteCategory, Quiet, groupVars
<1>5. CASE LinkStep
  BY <1>5 DEF LinkStep, HandlerStep, LinkWrite, KickedClear,
              HandleCustomBotWebhookFails, KickedRead, LinkRead, Quiet, groupVars,
              Fault
<1>6. CASE Outside
  BY <1>6 DEF Outside, SaveBotToken, RemoveBotToken, BotAdded, UserStarts,
              UserBlocks, CreateNonce, ClearBlocked, ClearBlockedChats, Quiet,
              groupVars
<1>7. CASE Expire
  BY <1>7 DEF Expire, groupVars
<1>8. CASE UNCHANGED vars
  BY <1>8 DEF vars, groupVars
<1> QED
  BY <1>1, <1>2, <1>3, <1>4, <1>5, <1>6, <1>7, <1>8

-----------------------------------------------------------------------------
(* Types *)

\* The part of TypeOK that runs write.
RunsTyped ==
  /\ pc \in [Runs -> {"idle", "mutes", "route", "user", "more", "group", "gsend",
                      "gmore", "gmark", "end"}]
  /\ on \in [Runs -> Notifs \cup {None}]
  /\ custom \in [Runs -> BOOLEAN]
  /\ target \in [Runs -> Groups \cup {None}]
  /\ via \in [Runs -> Bots]
  /\ chunks \in [Notifs -> 1..3]
  /\ part \in [Runs -> 0..3]
  /\ gpart \in [Runs -> 0..3]
  /\ outcome \in [Runs -> {"none", "success", "failed"}]
  /\ runsOf \in [Notifs -> 0..MaxRuns]
  /\ faulted \subseteq Runs
  /\ unanswered \subseteq Runs
  /\ groupCount \in [Notifs \X Groups -> Nat]
  /\ broken \in [Notifs \X Groups -> Nat]

\* The end of a run, and going on.
LEMMA EndsTyped ==
  ASSUME RunsTyped, NEW r \in Runs, NEW o \in {"success", "failed"}, Ends(r, o)
  PROVE  /\ pc' \in [Runs -> {"idle", "mutes", "route", "user", "more", "group",
                              "gsend", "gmore", "gmark", "end"}]
         /\ custom' \in [Runs -> BOOLEAN]
         /\ target' \in [Runs -> Groups \cup {None}]
         /\ via' \in [Runs -> Bots]
         /\ outcome' \in [Runs -> {"none", "success", "failed"}]
<1>1. custom' \in [Runs -> BOOLEAN]
  BY Zenon DEF RunsTyped, Ends
<1> QED
  BY <1>1 DEF RunsTyped, Ends, Goto, Bots

\* So does a run that goes on to its next step.
LEMMA GoesTyped ==
  ASSUME RunsTyped, NEW r \in Runs, NEW p \in {"route", "more", "group", "gsend", "gmore", "gmark"},
         Goes(r, p)
  PROVE  /\ pc' \in [Runs -> {"idle", "mutes", "route", "user", "more", "group",
                              "gsend", "gmore", "gmark", "end"}]
         /\ custom' \in [Runs -> BOOLEAN]
         /\ target' \in [Runs -> Groups \cup {None}]
         /\ via' \in [Runs -> Bots]
         /\ outcome' \in [Runs -> {"none", "success", "failed"}]
  BY DEF RunsTyped, Goes, Goto

\* A Redis call of a run counts a fault of the run, or none.
LEMMA RedisTyped ==
  ASSUME RunsTyped, NEW r \in Runs, NEW bad, Redis(r, bad)
  PROVE  faulted' \subseteq Runs /\ faulted \subseteq faulted'
  BY DEF RunsTyped, Redis

\* Every step of a run keeps the types of what runs write.
LEMMA RunsTypeStep ==
  ASSUME TypeOK, Owned, Progress,
         \/ \E r \in Runs, n \in Notifs : Begin(r, n)
         \/ \E r \in Runs : RunStep(r)
  PROVE  RunsTyped'
<1>0. RunsTyped
  BY DEF TypeOK, RunsTyped
<1>1. ASSUME NEW r \in Runs, NEW n \in Notifs, Begin(r, n)
      PROVE  RunsTyped'
  <2>1. custom' \in [Runs -> BOOLEAN]
    <3>1. custom' = [custom EXCEPT ![r] = ProtocolOf[n] \in bot]
      BY <1>1 DEF Begin
    <3>2. custom \in [Runs -> BOOLEAN]
      BY <1>0 DEF RunsTyped
    <3>3. (ProtocolOf[n] \in bot) \in BOOLEAN
      OBVIOUS
    <3>4. ASSUME NEW b \in BOOLEAN PROVE [custom EXCEPT ![r] = b] \in [Runs -> BOOLEAN]
      BY <3>2, Zenon
    <3> QED
      BY <3>1, <3>3, <3>4, Zenon
  <2>2. /\ runsOf' \in [Notifs -> 0..MaxRuns]
        /\ part' \in [Runs -> 0..3] /\ gpart' \in [Runs -> 0..3]
    BY <1>0, <1>1, BoundsAssumption DEF Begin, RunsTyped
  <2>3. /\ pc' \in [Runs -> {"idle", "mutes", "route", "user", "more", "group",
                             "gsend", "gmore", "gmark", "end"}]
        /\ on' \in [Runs -> Notifs \cup {None}]
        /\ via' \in [Runs -> Bots]
        /\ outcome' \in [Runs -> {"none", "success", "failed"}]
    BY <1>0, <1>1 DEF Begin, Goto, RunsTyped, Bots
  <2>4. target' \in [Runs -> Groups \cup {None}]
    <3>1. group[ProtocolOf[n]] \in Groups \cup {None}
      BY NotifAssumption DEF TypeOK
    <3> QED
      BY <1>0, <1>1, <3>1 DEF Begin, RunsTyped
  <2>5. /\ faulted' \subseteq Runs /\ unanswered' \subseteq Runs
        /\ UNCHANGED <<chunks, groupCount, broken>>
    BY <1>0, <1>1 DEF Begin, RunsTyped
  <2> QED
    BY <1>0, <2>1, <2>2, <2>3, <2>4, <2>5 DEF RunsTyped
<1>2. ASSUME NEW r \in Runs, CheckMutes(r)
      PROVE  RunsTyped'
  <2>1. PICK bad \in BOOLEAN : /\ Redis(r, bad)
                               /\ Ends(r, "failed") \/ Goes(r, "route")
    BY <1>2 DEF CheckMutes
  <2>2. faulted' \subseteq Runs
    BY <1>0, <2>1, RedisTyped
  <2>3. UNCHANGED <<on, chunks, part, gpart, runsOf, unanswered, groupCount, broken>>
    BY <1>2 DEF CheckMutes, groupVars
  <2> QED
    BY <1>0, <2>1, <2>2, <2>3, EndsTyped, GoesTyped DEF RunsTyped
<1>3. ASSUME NEW r \in Runs, Route(r)
      PROVE  RunsTyped'
  <2>1. PICK bad \in BOOLEAN :
          /\ Redis(r, bad)
          /\ via' = [via EXCEPT ![r] = IF custom[r] /\ IsMigrated(r, bad)
                                       THEN ProtocolOf[on[r]] ELSE Herald]
    BY <1>3 DEF Route
  <2>2. faulted' \subseteq Runs
    BY <1>0, <2>1, RedisTyped
  <2>3. ProtocolOf[on[r]] \in Protocols
    BY <1>3, NotifAssumption DEF Owned, Route
  <2>4. via' \in [Runs -> Bots]
    BY <1>0, <2>1, <2>3 DEF RunsTyped, Bots
  <2>5. UNCHANGED <<on, custom, target, chunks, part, gpart, runsOf, outcome, unanswered,
                    groupCount, broken>>
    BY <1>3 DEF Route, groupVars
  <2>6. pc' = [pc EXCEPT ![r] = "user"]
    BY <1>3 DEF Route, Goto
  <2> QED
    BY <1>0, <2>2, <2>4, <2>5, <2>6 DEF RunsTyped
<1>4. ASSUME NEW r \in Runs, SendUser(r)
      PROVE  RunsTyped'
  <2>1. part[r] \in 0..3 /\ part[r] < chunks[on[r]] /\ chunks[on[r]] \in 1..3
    BY <1>0, <1>4 DEF SendUser, Progress, Owned, RunsTyped
  <2>2. PICK res \in Results :
          /\ \/ SendNotification(r, ChatOf[on[r]], via[r], res)
             \/ NextPart(r, ChatOf[on[r]], via[r], res)
          /\ part' = [part EXCEPT ![r] = IF res \in Arrived THEN @ + 1 ELSE @]
          /\ unanswered' = IF res = "lost" THEN unanswered \cup {r} ELSE unanswered
          /\ Ends(r, "failed") \/ Goes(r, "more") \/ Goes(r, "group")
    BY <1>4 DEF SendUser
  <2>3. part' \in [Runs -> 0..3]
    BY <1>0, <2>1, <2>2 DEF RunsTyped
  <2>4. faulted' \subseteq Runs /\ unanswered' \subseteq Runs
    BY <1>0, <2>2, RedisTyped DEF SendNotification, NextPart, RunsTyped
  <2>5. UNCHANGED <<on, chunks, gpart, runsOf, groupCount, broken>>
    BY <1>4 DEF SendUser, groupVars
  <2> QED
    BY <1>0, <2>2, <2>3, <2>4, <2>5, EndsTyped, GoesTyped DEF RunsTyped
<1>5. ASSUME NEW r \in Runs, GroupCheck(r)
      PROVE  RunsTyped'
  <2>1. /\ Ends(r, "success") \/ Goes(r, "gsend")
        /\ UNCHANGED faulted \/ \E bad \in BOOLEAN : Redis(r, bad)
    BY <1>5 DEF GroupCheck
  <2>2. faulted' \subseteq Runs
    BY <1>0, <2>1, RedisTyped DEF RunsTyped
  <2>3. UNCHANGED <<on, chunks, part, gpart, runsOf, unanswered, groupCount, broken>>
    BY <1>5 DEF GroupCheck, groupVars
  <2> QED
    BY <1>0, <2>1, <2>2, <2>3, EndsTyped, GoesTyped DEF RunsTyped
<1>6. ASSUME NEW r \in Runs, GroupSend(r)
      PROVE  RunsTyped'
  <2>1. PICK ng \in Notifs \X Groups : ng = <<on[r], target[r]>>
    BY <1>6 DEF GroupSend, Owned
  <2>2. PICK res \in Results :
          /\ \E b : SendNotification(r, target[r], b, res) \/ NextPart(r, target[r], b, res)
          /\ \/ groupCount' = groupCount
             \/ groupCount' = [groupCount EXCEPT ![ng] = @ + 1]
          /\ broken' = broken \/ broken' = [broken EXCEPT ![ng] = @ + 1]
          /\ AfterGroupSend(r, res)
    <3> DEFINE gb == IF custom[r] THEN ProtocolOf[on[r]] ELSE Herald
    <3>1. PICK res \in Results :
            /\ IF pc[r] = "gsend" THEN SendNotification(r, target[r], gb, res)
                                  ELSE NextPart(r, target[r], gb, res)
            /\ groupCount' = IF pc[r] = "gsend" /\ res \in Arrived
                 THEN [groupCount EXCEPT ![<<on[r], target[r]>>] = @ + 1] ELSE groupCount
            /\ broken' = IF res = "lost" \/ (pc[r] = "gmore" /\ res # "sent")
                 THEN [broken EXCEPT ![<<on[r], target[r]>>] = @ + 1] ELSE broken
            /\ AfterGroupSend(r, res)
      BY <1>6, Zenon DEF GroupSend
    <3>2. SendNotification(r, target[r], gb, res) \/ NextPart(r, target[r], gb, res)
      BY <3>1, Zenon
    <3>3. \/ groupCount' = groupCount
          \/ groupCount' = [groupCount EXCEPT ![ng] = @ + 1]
      BY <2>1, <3>1, Zenon
    <3>4. broken' = broken \/ broken' = [broken EXCEPT ![ng] = @ + 1]
      BY <2>1, <3>1, Zenon
    <3> QED
      BY <3>1, <3>2, <3>3, <3>4, Zenon
  <2>3. /\ groupCount' \in [Notifs \X Groups -> Nat]
        /\ broken' \in [Notifs \X Groups -> Nat]
    <3>1. ASSUME NEW f \in [Notifs \X Groups -> Nat]
          PROVE  [f EXCEPT ![ng] = @ + 1] \in [Notifs \X Groups -> Nat]
      BY <2>1
    <3>2. groupCount \in [Notifs \X Groups -> Nat] /\ broken \in [Notifs \X Groups -> Nat]
      BY <1>0 DEF RunsTyped
    <3> QED
      BY <2>2, <3>1, <3>2, Zenon
  <2>4. faulted' \subseteq Runs
    BY <1>0, <2>2, RedisTyped DEF SendNotification, NextPart
  <2>5. UNCHANGED <<on, chunks, part, runsOf, unanswered>>
    BY <1>6 DEF GroupSend
  <2>6. Ends(r, "success") \/ Goes(r, "gmore") \/ Goes(r, "gmark")
    BY <2>2 DEF AfterGroupSend, NextGroupPart
  <2>7. gpart' \in [Runs -> 0..3]
    <3>1. on[r] \in Notifs
      BY <2>1
    <3>2. chunks[on[r]] \in 1..3 /\ gpart[r] \in 0..3
      BY <1>0, <3>1 DEF RunsTyped
    <3>3. \/ gpart' = [gpart EXCEPT ![r] = 0]
          \/ gpart[r] + 1 < chunks[on[r]] /\ gpart' = [gpart EXCEPT ![r] = @ + 1]
      BY <2>2 DEF AfterGroupSend, NextGroupPart
    <3> QED
      BY <1>0, <3>2, <3>3 DEF RunsTyped
  <2> QED
    BY <1>0, <2>3, <2>4, <2>5, <2>6, <2>7, EndsTyped, GoesTyped DEF RunsTyped
<1>7. ASSUME NEW r \in Runs, GroupMark(r)
      PROVE  RunsTyped'
  <2>1. PICK bad \in BOOLEAN : /\ Redis(r, bad)
                               /\ Ends(r, "failed") \/ Ends(r, "success")
    BY <1>7 DEF GroupMark
  <2>2. faulted' \subseteq Runs
    BY <1>0, <2>1, RedisTyped
  <2>3. UNCHANGED <<on, chunks, part, gpart, runsOf, unanswered, groupCount, broken>>
    BY <1>7 DEF GroupMark
  <2> QED
    BY <1>0, <2>1, <2>2, <2>3, EndsTyped DEF RunsTyped
<1> QED
  BY <1>1, <1>2, <1>3, <1>4, <1>5, <1>6, <1>7 DEF RunStep

\* Settings, links and what bots may write to.
LinksTyped ==
  /\ bot \subseteq Protocols
  /\ group \in [Protocols -> Groups \cup {None}]
  /\ linking \in [Protocols -> Groups \cup {None}]
  /\ linkNonce \in [Protocols -> Nonces \cup {None}]
  /\ clearing \subseteq Protocols
  /\ nonce \subseteq Nonces
  /\ accepts \subseteq Dest \X Bots
  /\ authorised \subseteq Protocols \X Groups

\* Mutes, and the markers of chats and groups.
MarksTyped ==
  /\ mutedProtocol \subseteq Chats \X Protocols
  /\ mutedCategory \subseteq Chats \X Mutable
  /\ held \subseteq Runs
  /\ blocked \subseteq Dest
  /\ groupSent \subseteq Notifs \X Groups
  /\ overlapped \subseteq Notifs \X Groups

PromptsTyped ==
  /\ migrated \subseteq Chats \X Protocols
  /\ prompted \subseteq Chats \X Protocols
  /\ promptOverlap \subseteq Chats \X Protocols
  /\ stage \in [Tasks -> {"idle", "check", "send"}]
  /\ to \in [Tasks -> (Chats \X Protocols) \cup {None}]
  /\ promptCount \in [Chats \X Protocols -> Nat]

CountsTyped == events \in 0..MaxEvents /\ faults \in 0..MaxFaults

\* TypeOK in five parts.
LEMMA TypeParts ==
  TypeOK <=> RunsTyped /\ LinksTyped /\ MarksTyped /\ PromptsTyped /\ CountsTyped
  BY DEF TypeOK, RunsTyped, LinksTyped, MarksTyped, PromptsTyped, CountsTyped

\* A run reads the settings and the links and does not write them.
LEMMA RunReads ==
  ASSUME \/ \E r \in Runs, n \in Notifs : Begin(r, n)
         \/ \E r \in Runs : RunStep(r)
  PROVE  UNCHANGED <<dbVars, markVars, accepts, authorised, events, prompted,
                     promptCount, chunks>>
<1>1. ASSUME NEW r \in Runs, NEW n \in Notifs, Begin(r, n)
      PROVE  UNCHANGED <<dbVars, markVars, accepts, authorised, events, prompted,
                         promptCount, chunks>>
  BY <1>1 DEF Begin, promptVars
<1>2. ASSUME NEW r \in Runs, SendUser(r)
      PROVE  UNCHANGED <<dbVars, markVars, accepts, authorised, events, prompted,
                         promptCount, chunks>>
  <2>1. UNCHANGED <<prompted, promptCount>>
    BY <1>2 DEF SendUser, promptVars, StartPrompt
  <2> QED
    BY <1>2, <2>1 DEF SendUser
<1>3. ASSUME NEW r \in Runs,
             CheckMutes(r) \/ Route(r) \/ GroupCheck(r) \/ GroupSend(r) \/ GroupMark(r)
      PROVE  UNCHANGED <<dbVars, markVars, accepts, authorised, events, promptVars,
                         chunks>>
  BY <1>3 DEF CheckMutes, Route, GroupCheck, GroupSend, GroupMark
<1> QED
  BY <1>1, <1>2, <1>3 DEF RunStep, promptVars

\* What users, owners and the portal do to settings and markers.
LEMMA OutsideEffect ==
  ASSUME LinksTyped, Outside
  PROVE  /\ Event /\ bot' \subseteq Protocols /\ nonce' \subseteq Nonces
         /\ accepts' \subseteq Dest \X Bots /\ blocked' \subseteq blocked
         /\ UNCHANGED <<Quiet, group, linking, linkNonce, clearing, mutedProtocol,
                        mutedCategory, migrated, promptVars, held, authorised>>
<1> DEFINE Goal ==
         /\ Event /\ bot' \subseteq Protocols /\ nonce' \subseteq Nonces
         /\ accepts' \subseteq Dest \X Bots /\ blocked' \subseteq blocked
         /\ UNCHANGED <<Quiet, group, linking, linkNonce, clearing, mutedProtocol,
                        mutedCategory, migrated, promptVars, held, authorised>>
<1> USE DEF LinksTyped, dbVars, markVars
<1>1. ASSUME NEW p \in Protocols, SaveBotToken(p) \/ RemoveBotToken(p)
      PROVE  Goal
  BY <1>1 DEF SaveBotToken, RemoveBotToken
<1>2. ASSUME NEW p \in Protocols, NEW g \in Groups, NEW st \in Standings,
             Event, BotAdded(p, g, st)
      PROVE  Goal
  <2>1. <<g, p>> \in Dest \X Bots
    BY DEF Dest, Bots
  <2> QED
    BY <1>2, <2>1 DEF BotAdded
<1>3. ASSUME NEW p \in Protocols, NEW c \in Chats, UserStarts(c, p)
      PROVE  Goal
  <2>1. <<c, p>> \in Dest \X Bots
    BY DEF Dest, Bots
  <2> QED
    BY <1>3, <2>1 DEF UserStarts
<1>4. ASSUME NEW c \in Chats, NEW b \in Bots, UserBlocks(c, b)
      PROVE  Goal
  BY <1>4 DEF UserBlocks
<1>5. ASSUME NEW x \in Nonces, CreateNonce(x)
      PROVE  Goal
  BY <1>5 DEF CreateNonce
<1>6. CASE ClearBlocked
  BY <1>6 DEF ClearBlocked, ClearBlockedChats
<1> QED
  BY <1>1, <1>2, <1>3, <1>4, <1>5, <1>6 DEF Outside

\* What muting and unmuting do.
LEMMA MuteEffect ==
  ASSUME MuteStep
  PROVE  /\ Event
         /\ UNCHANGED <<Quiet, dbVars, migrated, nonce, promptVars, blocked, accepts,
                        authorised>>
<1>1. ASSUME NEW n \in Notifs, MuteProtocol(n)
      PROVE  UNCHANGED <<Quiet, dbVars, migrated, nonce, promptVars, blocked, accepts,
                         authorised>>
  BY <1>1 DEF MuteProtocol
<1>2. ASSUME NEW c \in Chats, NEW k \in Mutable, MuteCategory(c, k) \/ UnmuteCategory(c, k)
      PROVE  UNCHANGED <<Quiet, dbVars, migrated, nonce, promptVars, blocked, accepts,
                         authorised>>
  BY <1>2 DEF MuteCategory, UnmuteCategory
<1> QED
  BY <1>1, <1>2 DEF MuteStep

\* Events and faults stay within their bounds, and no fault is forgotten.
LEMMA CountsStep ==
  ASSUME TypeOK, [Next]_vars
  PROVE  CountsTyped' /\ (faults' = 0 => faults = 0)
<1> USE BoundsAssumption DEF TypeOK, CountsTyped
<1>1. ASSUME NEW r \in Runs, RunStep(r)
      PROVE  CountsTyped' /\ (faults' = 0 => faults = 0)
  <2>1. UNCHANGED faults \/ \E bad \in BOOLEAN : Redis(r, bad)
    BY <1>1 DEF RunStep, CheckMutes, Route, SendUser, GroupCheck, GroupSend, GroupMark,
                SendNotification, NextPart
  <2>2. UNCHANGED events
    BY <1>1, RunReads
  <2> QED
    BY <2>1, <2>2 DEF Redis
<1>2. ASSUME NEW t \in Tasks, TaskStep(t)
      PROVE  CountsTyped' /\ (faults' = 0 => faults = 0)
  BY <1>2 DEF TaskStep, PromptCheck, PromptSend, Fault
<1>3. ASSUME NEW r \in Runs, NEW n \in Notifs, Begin(r, n)
      PROVE  CountsTyped' /\ (faults' = 0 => faults = 0)
  BY <1>3 DEF Begin
<1>4. ASSUME NEW p \in Protocols, TriggerMigration(p)
      PROVE  CountsTyped' /\ (faults' = 0 => faults = 0)
  BY <1>4 DEF TriggerMigration, SendMigrationPrompts, Event
<1>5. CASE MoveStep
  BY <1>5 DEF MoveStep, ClearMigration, ClearMigrationState, HandleStart, Event, Fault
<1>6. CASE MuteStep
  BY <1>6, MuteEffect DEF Event, Quiet
<1>7. CASE LinkStep
  BY <1>7 DEF LinkStep, HandlerStep, LinkWrite, KickedClear,
              HandleCustomBotWebhookFails, KickedRead, LinkRead, Quiet, Event, Fault
<1>8. CASE Outside
  BY <1>8, OutsideEffect, TypeParts DEF Event, Quiet
<1>9. CASE Expire \/ UNCHANGED vars
  BY <1>9 DEF Expire, Event, vars
<1> QED
  BY <1>1, <1>2, <1>3, <1>4, <1>5, <1>6, <1>7, <1>8, <1>9, Kinds

\* The steps that leave settings and links alone.
LEMMA LinkFrame ==
  ASSUME [Next]_vars
  PROVE  LinkStep \/ Outside \/ MoveStep
           \/ (/\ UNCHANGED <<dbVars, accepts, authorised>>
               /\ nonce' \subseteq nonce)
<1>1. ASSUME NEW t \in Tasks, TaskStep(t)
      PROVE  UNCHANGED <<dbVars, accepts, authorised, nonce>>
  BY <1>1 DEF TaskStep, PromptCheck, PromptSend, Rest, markVars
<1>2. ASSUME NEW p \in Protocols, TriggerMigration(p)
      PROVE  UNCHANGED <<dbVars, accepts, authorised, nonce>>
  BY <1>2 DEF TriggerMigration, SendMigrationPrompts, Rest, markVars
<1>3. CASE MuteStep
  BY <1>3 DEF MuteStep, MuteProtocol, MuteCategory, UnmuteCategory
<1>4. CASE Expire
  BY <1>4 DEF Expire, markVars
<1>5. CASE UNCHANGED vars
  BY <1>5 DEF vars, markVars
<1>6. ASSUME \/ \E r \in Runs, n \in Notifs : Begin(r, n)
             \/ \E r \in Runs : RunStep(r)
      PROVE  UNCHANGED <<dbVars, accepts, authorised, nonce>>
  BY <1>6, RunReads DEF markVars
<1> QED
  BY <1>1, <1>2, <1>3, <1>4, <1>5, <1>6, Kinds

\* Settings and links keep their types, and a link under way its nonce.
LEMMA LinksTypeStep ==
  ASSUME TypeOK, Owned, [Next]_vars
  PROVE  /\ LinksTyped'
         /\ \A p \in Protocols : linking'[p] # None => linkNonce'[p] \in Nonces
<1> DEFINE Goal == /\ LinksTyped'
                   /\ \A p \in Protocols : linking'[p] # None => linkNonce'[p] \in Nonces
<1> USE DEF TypeOK, Owned, LinksTyped
<1>1. ASSUME NEW p \in Protocols, HandlerStep(p)
      PROVE  Goal
  <2>1. CASE LinkWrite(p)
    BY <2>1 DEF LinkWrite
  <2>2. CASE KickedClear(p)
    BY <2>2 DEF KickedClear, markVars
  <2>3. CASE HandleCustomBotWebhookFails(p)
    <3>1. UNCHANGED <<bot, nonce, accepts, authorised>> /\ clearing' \subseteq clearing
      BY <2>3 DEF HandleCustomBotWebhookFails, markVars
    <3>2. \/ UNCHANGED <<group, linking, linkNonce>>
          \/ /\ linking' = [linking EXCEPT ![p] = None]
             /\ linkNonce' = [linkNonce EXCEPT ![p] = None]
             /\ group' = group \/ group' = [group EXCEPT ![p] = linking[p]]
      BY <2>3 DEF HandleCustomBotWebhookFails
    <3>3. /\ group' \in [Protocols -> Groups \cup {None}]
          /\ linking' \in [Protocols -> Groups \cup {None}]
          /\ linkNonce' \in [Protocols -> Nonces \cup {None}]
      <4>1. linking[p] \in Groups \cup {None}
        OBVIOUS
      <4>2. group' \in [Protocols -> Groups \cup {None}]
        BY <3>2, <4>1, Zenon
      <4>3. linking' \in [Protocols -> Groups \cup {None}]
        BY <3>2, Zenon
      <4>4. linkNonce' \in [Protocols -> Nonces \cup {None}]
        BY <3>2, Zenon
      <4> QED
        BY <4>2, <4>3, <4>4
    <3>4. \A q \in Protocols : linking'[q] # None => linkNonce'[q] \in Nonces
      BY <3>2
    <3> QED
      BY <3>1, <3>3, <3>4
  <2> QED
    BY <1>1, <2>1, <2>2, <2>3 DEF HandlerStep
<1>2. ASSUME NEW p \in Protocols, NEW g \in Groups, KickedRead(p, g)
      PROVE  Goal
  BY <1>2 DEF KickedRead, markVars
<1>3. ASSUME NEW p \in Protocols, NEW g \in Groups, NEW x \in Nonces,
             NEW st \in Standings, LinkRead(p, g, x, st)
      PROVE  Goal
  <2>1. accepts' \subseteq Dest \X Bots
    BY <1>3 DEF LinkRead, Dest, Bots
  <2>2. authorised' \subseteq Protocols \X Groups
    BY <1>3 DEF LinkRead
  <2>3. /\ linking' \in [Protocols -> Groups \cup {None}]
        /\ linkNonce' \in [Protocols -> Nonces \cup {None}]
        /\ \A q \in Protocols : linking'[q] # None => linkNonce'[q] \in Nonces
    <3>1. CASE UNCHANGED <<linking, linkNonce>>
      BY <3>1
    <3>2. CASE /\ linking' = [linking EXCEPT ![NonceProtocol[x]] = g]
               /\ linkNonce' = [linkNonce EXCEPT ![NonceProtocol[x]] = x]
      BY <3>2
    <3> QED
      BY <1>3, <3>1, <3>2 DEF LinkRead
  <2> QED
    BY <1>3, <2>1, <2>2, <2>3 DEF LinkRead, markVars
<1>4. CASE Outside
  BY <1>4, OutsideEffect, TypeParts
<1>5. CASE MoveStep
  <2>1. UNCHANGED <<dbVars, nonce, authorised>>
    BY <1>5 DEF MoveStep, ClearMigration, ClearMigrationState, HandleStart
  <2>2. accepts' \subseteq Dest \X Bots
    BY <1>5 DEF MoveStep, ClearMigration, HandleStart, Dest, Bots
  <2> QED
    BY <2>1, <2>2 DEF dbVars
<1>6. CASE UNCHANGED <<dbVars, accepts, authorised>> /\ nonce' \subseteq nonce
  BY <1>6 DEF dbVars
<1> QED
  BY <1>1, <1>2, <1>3, <1>4, <1>5, <1>6, LinkFrame DEF LinkStep

\* A link or its removal touches neither runs nor prompts nor markers.
LEMMA LinkEffect ==
  ASSUME LinkStep
  PROVE  UNCHANGED <<runVars, groupVars, mutedProtocol, mutedCategory, migrated,
                     promptVars, blocked, held>>
<1>1. ASSUME NEW p \in Protocols, HandlerStep(p)
      PROVE  UNCHANGED <<runVars, groupVars, mutedProtocol, mutedCategory, migrated,
                         promptVars, blocked, held>>
  BY <1>1 DEF HandlerStep, LinkWrite, KickedClear, HandleCustomBotWebhookFails, Quiet,
              markVars
<1>2. ASSUME NEW p \in Protocols, NEW g \in Groups, NEW x, NEW st,
             KickedRead(p, g) \/ LinkRead(p, g, x, st)
      PROVE  UNCHANGED <<runVars, groupVars, mutedProtocol, mutedCategory, migrated,
                         promptVars, blocked, held>>
  BY <1>2 DEF KickedRead, LinkRead, Quiet, markVars
<1> QED
  BY <1>1, <1>2 DEF LinkStep

\* A chat that moves changes no mute, run or link.
LEMMA MoveEffect ==
  ASSUME MoveStep
  PROVE  UNCHANGED <<runVars, groupVars, dbVars, mutedProtocol, mutedCategory, nonce,
                     stage, to, promptOverlap, blocked, held, authorised>>
  BY DEF MoveStep, ClearMigration, HandleStart, promptVars

\* Prompts touch nothing but prompts.
LEMMA PromptEffect ==
  ASSUME \/ \E t \in Tasks : TaskStep(t)
         \/ \E p \in Protocols : TriggerMigration(p)
  PROVE  UNCHANGED <<Rest, faulted>>
<1>1. ASSUME NEW t \in Tasks, TaskStep(t)
      PROVE  UNCHANGED <<Rest, faulted>>
  BY <1>1 DEF TaskStep, PromptCheck, PromptSend, Fault
<1>2. ASSUME NEW p \in Protocols, TriggerMigration(p)
      PROVE  UNCHANGED <<Rest, faulted>>
  BY <1>2 DEF TriggerMigration, SendMigrationPrompts
<1> QED
  BY <1>1, <1>2

\* The call of the Bot API leaves a marker for its destination, if any.
LEMMA ApiTyped ==
  ASSUME NEW d \in Dest, NEW b, NEW res, NEW bad, Api(d, b, res, bad),
         blocked \subseteq Dest
  PROVE  blocked' \subseteq Dest
  BY DEF Api

\* Markers and mutes keep their types.
LEMMA MarksTypeStep ==
  ASSUME TypeOK, Owned, [Next]_vars
  PROVE  MarksTyped'
<1>0. MarksTyped
  BY TypeParts
<1> USE DEF MarksTyped
<1>1. ASSUME NEW r \in Runs, NEW n \in Notifs, Begin(r, n)
      PROVE  MarksTyped'
  <2>1. held' \subseteq Runs
    BY <1>0, <1>1 DEF Begin
  <2>2. overlapped' \subseteq Notifs \X Groups
    BY <1>0, <1>1 DEF Begin
  <2> QED
    BY <1>0, <1>1, <2>1, <2>2 DEF Begin, markVars
<1>2. ASSUME NEW r \in Runs, CheckMutes(r) \/ Route(r) \/ GroupCheck(r)
      PROVE  MarksTyped'
  BY <1>0, <1>2 DEF CheckMutes, Route, GroupCheck, markVars, groupVars
<1>3. ASSUME NEW r \in Runs, SendUser(r)
      PROVE  MarksTyped'
  <2>1. ChatOf[on[r]] \in Dest
    BY <1>3, NotifAssumption DEF SendUser, Owned, Dest
  <2>2. \/ UNCHANGED blocked
        \/ \E res, bad : Api(ChatOf[on[r]], via[r], res, bad)
    BY <1>3 DEF SendUser, SendNotification, NextPart
  <2>3. blocked' \subseteq Dest
    BY <1>0, <2>1, <2>2, ApiTyped
  <2> QED
    BY <1>0, <1>3, <2>3 DEF SendUser, markVars, groupVars
<1>4. ASSUME NEW r \in Runs, GroupSend(r)
      PROVE  MarksTyped'
  <2>1. target[r] \in Dest
    BY <1>4 DEF GroupSend, Owned, Dest
  <2>2. \/ UNCHANGED blocked
        \/ \E b, res, bad : Api(target[r], b, res, bad)
    BY <1>4 DEF GroupSend, SendNotification, NextPart
  <2>3. blocked' \subseteq Dest
    BY <1>0, <2>1, <2>2, ApiTyped
  <2> QED
    BY <1>0, <1>4, <2>3 DEF GroupSend, markVars
<1>5. ASSUME NEW r \in Runs, GroupMark(r)
      PROVE  MarksTyped'
  <2>1. <<on[r], target[r]>> \in Notifs \X Groups
    BY <1>5 DEF GroupMark, Owned
  <2>2. groupSent' \subseteq Notifs \X Groups
    BY <1>0, <1>5, <2>1 DEF GroupMark, Marker
  <2> QED
    BY <1>0, <1>5, <2>2 DEF GroupMark, markVars
<1>6. ASSUME \/ \E t \in Tasks : TaskStep(t)
             \/ \E p \in Protocols : TriggerMigration(p)
      PROVE  MarksTyped'
  BY <1>0, <1>6, PromptEffect DEF Rest, markVars, groupVars
<1>7. CASE MuteStep
  <2>1. UNCHANGED <<blocked, groupVars>>
    BY <1>7, MuteEffect DEF Quiet
  <2>2. ASSUME NEW n \in Notifs, MuteProtocol(n)
        PROVE  MarksTyped'
    <3>1. <<ChatOf[n], ProtocolOf[n]>> \in Chats \X Protocols
      BY NotifAssumption
    <3> QED
      BY <1>0, <2>1, <2>2, <3>1 DEF MuteProtocol, groupVars
  <2>3. ASSUME NEW c \in Chats, NEW k \in Mutable,
               MuteCategory(c, k) \/ UnmuteCategory(c, k)
        PROVE  MarksTyped'
    BY <1>0, <2>1, <2>3 DEF MuteCategory, UnmuteCategory, StillHeld, groupVars
  <2> QED
    BY <1>7, <2>2, <2>3 DEF MuteStep
<1>8. CASE LinkStep
  BY <1>0, <1>8, LinkEffect DEF groupVars
<1>9. CASE MoveStep
  BY <1>0, <1>9, MoveEffect DEF groupVars
<1>10. CASE Outside
  BY <1>0, <1>10, OutsideEffect, TypeParts DEF Quiet, groupVars
<1>11. CASE Expire
  <2>1. held' \subseteq held
    BY <1>11 DEF Expire, StillHeld
  <2>2. /\ mutedProtocol' \subseteq mutedProtocol /\ mutedCategory' \subseteq mutedCategory
        /\ blocked' \subseteq blocked
    BY <1>11 DEF Expire, markVars
  <2>3. groupSent' \subseteq groupSent /\ overlapped' \subseteq overlapped \cup groupSent
    BY <1>11 DEF Expire, groupVars
  <2> QED
    BY <1>0, <2>1, <2>2, <2>3
<1>12. CASE UNCHANGED vars
  BY <1>0, <1>12 DEF vars, markVars, groupVars
<1> QED
  BY <1>1, <1>2, <1>3, <1>4, <1>5, <1>6, <1>7, <1>8, <1>9, <1>10, <1>11, <1>12, Kinds
     DEF RunStep

-----------------------------------------------------------------------------
(* Prompts *)

\* A marker of a prompt expires.
PromptExpires ==
  \E cp \in prompted :
    /\ prompted' = prompted \ {cp}
    /\ promptCount' = [promptCount EXCEPT ![cp] = 0]
    /\ UNCHANGED <<stage, to, promptOverlap>>

\* What can happen to prompts.
LEMMA PromptFrame ==
  ASSUME TypeOK, Owned, [Next]_vars
  PROVE  \/ /\ \E r \in Runs, cp \in Chats \X Protocols : StartPrompt(r, cp)
            /\ UNCHANGED migrated
         \/ \E t \in Tasks : TaskStep(t)
         \/ \E p \in Protocols : TriggerMigration(p)
         \/ MoveStep
         \/ PromptExpires /\ UNCHANGED migrated
         \/ UNCHANGED promptVars /\ migrated' \subseteq migrated
<1>1. ASSUME NEW r \in Runs, SendUser(r)
      PROVE  /\ UNCHANGED migrated
             /\ UNCHANGED promptVars
                  \/ \E cp \in Chats \X Protocols : StartPrompt(r, cp)
  <2>1. <<ChatOf[on[r]], ProtocolOf[on[r]]>> \in Chats \X Protocols
    BY <1>1, NotifAssumption DEF SendUser, Owned
  <2>2. UNCHANGED promptVars \/ StartPrompt(r, <<ChatOf[on[r]], ProtocolOf[on[r]]>>)
    BY <1>1 DEF SendUser
  <2> QED
    BY <1>1, <2>1, <2>2 DEF SendUser, markVars
<1>2. ASSUME NEW r \in Runs, NEW n \in Notifs, Begin(r, n)
      PROVE  UNCHANGED <<promptVars, migrated>>
  BY <1>2 DEF Begin, markVars
<1>3. ASSUME NEW r \in Runs,
             CheckMutes(r) \/ Route(r) \/ GroupCheck(r) \/ GroupSend(r) \/ GroupMark(r)
      PROVE  UNCHANGED <<promptVars, migrated>>
  BY <1>3 DEF CheckMutes, Route, GroupCheck, GroupSend, GroupMark, markVars
<1>4. CASE Expire
  BY <1>4 DEF Expire, PromptExpires, markVars, promptVars
<1>5. CASE UNCHANGED vars
  BY <1>5 DEF vars, markVars
<1>6. CASE MuteStep
  BY <1>6, MuteEffect
<1>7. CASE LinkStep
  BY <1>7, LinkEffect
<1>8. CASE Outside
  BY <1>8, OutsideEffect, TypeParts
<1> QED
  BY <1>1, <1>2, <1>3, <1>4, <1>5, <1>6, <1>7, <1>8, Kinds DEF RunStep

\* Prompts keep their types, and a prompt under way its chat and protocol.
LEMMA PromptsTypeStep ==
  ASSUME TypeOK, Owned, [Next]_vars
  PROVE  /\ PromptsTyped'
         /\ \A t \in Tasks : stage'[t] # "idle" => to'[t] \in Chats \X Protocols
<1> DEFINE Goal == /\ PromptsTyped'
                   /\ \A t \in Tasks : stage'[t] # "idle" => to'[t] \in Chats \X Protocols
<1>0. /\ PromptsTyped
      /\ \A t \in Tasks : stage[t] # "idle" => to[t] \in Chats \X Protocols
  BY TypeParts DEF Owned
<1> USE DEF PromptsTyped
<1>1. ASSUME NEW r \in Runs, NEW cp \in Chats \X Protocols, StartPrompt(r, cp),
             UNCHANGED migrated
      PROVE  Goal
  BY <1>0, <1>1 DEF StartPrompt, Tasks
<1>2. ASSUME NEW t \in Tasks, TaskStep(t)
      PROVE  Goal
  <2>1. UNCHANGED migrated
    BY <1>2, PromptEffect DEF Rest, markVars
  <2>2. CASE PromptCheck(t)
    BY <1>0, <2>1, <2>2 DEF PromptCheck, PromptEnds
  <2>3. CASE PromptSend(t)
    <3>1. to[t] \in Chats \X Protocols
      BY <1>0, <2>3 DEF PromptSend
    <3>2. prompted' \subseteq Chats \X Protocols
      BY <1>0, <2>3, <3>1 DEF PromptSend, MarkPrompted
    <3>3. promptCount' \in [Chats \X Protocols -> Nat]
      BY <1>0, <2>3, <3>1 DEF PromptSend
    <3>4. /\ stage' \in [Tasks -> {"idle", "check", "send"}]
          /\ to' \in [Tasks -> (Chats \X Protocols) \cup {None}]
          /\ \A u \in Tasks : stage'[u] # "idle" => to'[u] \in Chats \X Protocols
      BY <1>0, <2>3 DEF PromptSend, PromptEnds
    <3>5. promptOverlap' \subseteq Chats \X Protocols
      BY <1>0, <2>3, <3>1 DEF PromptSend
    <3> QED
      BY <1>0, <2>1, <3>2, <3>3, <3>4, <3>5
  <2> QED
    BY <1>2, <2>2, <2>3 DEF TaskStep
<1>3. ASSUME NEW p \in Protocols, TriggerMigration(p)
      PROVE  Goal
  <2>1. UNCHANGED <<migrated, prompted, promptCount>>
    BY <1>3, PromptEffect DEF Rest, markVars, TriggerMigration, SendMigrationPrompts
  <2>2. PICK S \in SUBSET {c \in Chats : stage[c] = "idle" /\ <<c, p>> \notin migrated} :
          /\ stage' = [t \in Tasks |-> IF t \in S THEN "check" ELSE stage[t]]
          /\ to' = [t \in Tasks |-> IF t \in S THEN <<t, p>> ELSE to[t]]
          /\ promptOverlap' = promptOverlap \cup
               {<<c, p>> : c \in {d \in S :
                    \E u \in Tasks : stage[u] # "idle" /\ to[u] = <<d, p>>}}
    BY <1>3 DEF TriggerMigration, SendMigrationPrompts
  <2>3. \A t \in Tasks : t \in S => <<t, p>> \in Chats \X Protocols
    BY <2>2
  <2>4. promptOverlap' \subseteq Chats \X Protocols
    BY <1>0, <2>2
  <2>5. /\ stage' \in [Tasks -> {"idle", "check", "send"}]
        /\ to' \in [Tasks -> (Chats \X Protocols) \cup {None}]
    BY <1>0, <2>2, <2>3
  <2>6. \A t \in Tasks : stage'[t] # "idle" => to'[t] \in Chats \X Protocols
    BY <1>0, <2>2, <2>3
  <2> QED
    BY <1>0, <2>1, <2>4, <2>5, <2>6
<1>4. CASE MoveStep
  <2>1. UNCHANGED <<stage, to, promptOverlap>>
    BY <1>4, MoveEffect
  <2>2. ASSUME NEW p \in Protocols, ClearMigration(p)
        PROVE  PromptsTyped'
    BY <1>0, <2>1, <2>2 DEF ClearMigration, ClearMigrationState
  <2>3. ASSUME NEW p \in Protocols, NEW c \in Chats, HandleStart(c, p)
        PROVE  PromptsTyped'
    BY <1>0, <2>1, <2>3 DEF HandleStart, MarkMigrated, promptVars
  <2> QED
    BY <1>0, <1>4, <2>1, <2>2, <2>3 DEF MoveStep
<1>5. CASE PromptExpires /\ UNCHANGED migrated
  BY <1>0, <1>5 DEF PromptExpires
<1>6. CASE UNCHANGED promptVars /\ migrated' \subseteq migrated
  BY <1>0, <1>6 DEF promptVars
<1> QED
  BY <1>1, <1>2, <1>3, <1>4, <1>5, <1>6, PromptFrame

\* Two prompts for one chat and protocol are noticed, and without two the
\* marker in Redis stops the second.
LEMMA PromptsStep ==
  ASSUME TypeOK, Owned, PromptsOverlap, PromptOnce, [Next]_vars
  PROVE  PromptsOverlap' /\ PromptOnce'
<1> DEFINE Goal == PromptsOverlap' /\ PromptOnce'
<1>0. /\ PromptsTyped /\ (faults' = 0 => faults = 0)
      /\ faults \in Nat /\ faults' \in Nat
      /\ \A t \in Tasks : stage[t] # "idle" => to[t] \in Chats \X Protocols
  BY TypeParts, CountsStep, BoundsAssumption DEF CountsTyped, Owned
<1>1. ASSUME NEW r \in Runs, NEW cp \in Chats \X Protocols, StartPrompt(r, cp)
      PROVE  Goal
  <2>1. /\ stage' = [stage EXCEPT ![r] = "check"] /\ to' = [to EXCEPT ![r] = cp]
        /\ UNCHANGED <<prompted, promptCount>> /\ promptOverlap \subseteq promptOverlap'
        /\ r \in Tasks
    BY <1>1 DEF StartPrompt, Tasks
  <2>2. \A u \in Tasks \ {r} : (stage[u] # "idle" /\ to[u] = cp) => cp \in promptOverlap'
    BY <1>1 DEF StartPrompt
  <2>3. PromptsOverlap'
    BY <1>0, <2>1, <2>2 DEF PromptsOverlap, PromptsTyped
  <2>4. PromptOnce'
    BY <1>0, <2>1 DEF PromptOnce, PromptsTyped
  <2> QED
    BY <2>3, <2>4
<1>2. ASSUME NEW t \in Tasks, PromptCheck(t)
      PROVE  Goal
  <2>1. UNCHANGED <<prompted, promptCount, promptOverlap>>
    BY <1>2 DEF PromptCheck
  <2>2. \/ stage' = [stage EXCEPT ![t] = "idle"] /\ to' = [to EXCEPT ![t] = None]
        \/ /\ stage' = [stage EXCEPT ![t] = "send"] /\ UNCHANGED to
           /\ to[t] \notin prompted \/ faults' # 0
    BY <1>0, <1>2 DEF PromptCheck, HasBeenPrompted, PromptEnds, Fault
  <2>3. PromptsOverlap'
    BY <1>0, <1>2, <2>1, <2>2 DEF PromptsOverlap, PromptsTyped, PromptCheck
  <2>4. PromptOnce'
    BY <1>0, <2>1, <2>2 DEF PromptOnce, PromptsTyped
  <2> QED
    BY <2>3, <2>4
<1>3. ASSUME NEW t \in Tasks, PromptSend(t)
      PROVE  Goal
  <2>1. /\ stage' = [stage EXCEPT ![t] = "idle"] /\ to' = [to EXCEPT ![t] = None]
        /\ promptOverlap \subseteq promptOverlap'
        /\ stage[t] = "send" /\ to[t] \in Chats \X Protocols
    BY <1>0, <1>3 DEF PromptSend, PromptEnds
  <2>2. \/ UNCHANGED <<prompted, promptCount>>
        \/ /\ promptCount' = [promptCount EXCEPT ![to[t]] = @ + 1]
           /\ \/ prompted' = prompted \cup {to[t]} \/ faults' # 0
              \/ UNCHANGED prompted /\ to[t] \in promptOverlap'
    BY <1>0, <1>3 DEF PromptSend, MarkPrompted, Fault
  <2>3. PromptsOverlap'
    BY <1>0, <2>1 DEF PromptsOverlap, PromptsTyped
  <2>4. CASE UNCHANGED <<prompted, promptCount>>
    BY <1>0, <2>1, <2>3, <2>4 DEF PromptOnce, PromptsTyped
  <2>5. CASE /\ promptCount' = [promptCount EXCEPT ![to[t]] = @ + 1]
             /\ \/ prompted' = prompted \cup {to[t]} \/ faults' # 0
                \/ UNCHANGED prompted /\ to[t] \in promptOverlap'
    <3> SUFFICES ASSUME NEW cp \in Chats \X Protocols, cp \notin promptOverlap',
                        faults' = 0
                 PROVE  /\ promptCount'[cp] <= 1
                        /\ promptCount'[cp] = 1 => cp \in prompted'
                        /\ \A u \in Tasks : (stage'[u] = "send" /\ to'[u] = cp)
                                              => cp \notin prompted'
      BY <2>3 DEF PromptOnce
    <3>1. /\ cp \notin promptOverlap /\ faults = 0
          /\ prompted' = prompted \cup {to[t]} \/ (cp # to[t] /\ UNCHANGED prompted)
      BY <1>0, <2>1, <2>5
    <3>2. promptCount[cp] \in Nat
      BY <1>0 DEF PromptsTyped
    <3>3. CASE cp = to[t]
      <4>1. promptCount[cp] = 0
        BY <2>1, <3>1, <3>2, <3>3 DEF PromptOnce
      <4>2. \A u \in Tasks \ {t} : stage[u] = "send" => to[u] # cp
        BY <2>1, <3>1, <3>3 DEF PromptsOverlap
      <4> QED
        BY <1>0, <2>1, <2>5, <3>1, <3>3, <4>1, <4>2 DEF PromptsTyped
    <3>4. CASE cp # to[t]
      BY <1>0, <2>1, <2>5, <3>1, <3>4 DEF PromptsTyped, PromptOnce
    <3> QED
      BY <3>3, <3>4
  <2> QED
    BY <2>2, <2>3, <2>4, <2>5
<1>4. ASSUME NEW p \in Protocols, TriggerMigration(p)
      PROVE  Goal
  <2>1. UNCHANGED <<prompted, promptCount>>
    BY <1>4 DEF TriggerMigration, SendMigrationPrompts
  <2>2. PICK S \in SUBSET {c \in Chats : stage[c] = "idle" /\ <<c, p>> \notin migrated} :
          /\ stage' = [t \in Tasks |-> IF t \in S THEN "check" ELSE stage[t]]
          /\ to' = [t \in Tasks |-> IF t \in S THEN <<t, p>> ELSE to[t]]
          /\ promptOverlap' = promptOverlap \cup
               {<<c, p>> : c \in {d \in S :
                    \E u \in Tasks : stage[u] # "idle" /\ to[u] = <<d, p>>}}
    BY <1>4 DEF TriggerMigration, SendMigrationPrompts
  <2>3. ASSUME NEW t \in Tasks, NEW u \in Tasks, t \in S, u \notin S,
               stage[u] # "idle", to[u] = <<t, p>>
        PROVE  <<t, p>> \in promptOverlap'
    BY <2>2, <2>3
  <2>4. ASSUME NEW t \in Tasks, NEW u \in Tasks, t # u, stage'[t] # "idle",
               stage'[u] # "idle", to'[t] = to'[u]
        PROVE  to'[t] \in promptOverlap'
    <3>1. CASE t \in S /\ u \in S
      BY <2>2, <2>4, <3>1
    <3>2. CASE t \in S /\ u \notin S
      BY <2>2, <2>3, <2>4, <3>2
    <3>3. CASE t \notin S /\ u \in S
      BY <2>2, <2>3, <2>4, <3>3
    <3>4. CASE t \notin S /\ u \notin S
      BY <2>2, <2>4, <3>4 DEF PromptsOverlap
    <3> QED
      BY <3>1, <3>2, <3>3, <3>4
  <2>5. PromptsOverlap'
    BY <2>4 DEF PromptsOverlap
  <2>6. \A t \in Tasks : stage'[t] = "send" => stage[t] = "send" /\ to'[t] = to[t]
    BY <2>2
  <2>7. PromptOnce'
    BY <1>0, <2>1, <2>2, <2>6 DEF PromptOnce
  <2> QED
    BY <2>5, <2>7
<1>5. CASE MoveStep
  <2>1. UNCHANGED <<stage, to, promptOverlap>>
    BY <1>5, MoveEffect
  <2>2. \A cp \in Chats \X Protocols :
          \/ promptCount'[cp] = 0 /\ cp \notin prompted'
          \/ promptCount'[cp] = promptCount[cp] /\ (cp \in prompted' <=> cp \in prompted)
    BY <1>5 DEF MoveStep, ClearMigration, ClearMigrationState, HandleStart, promptVars
  <2> QED
    BY <1>0, <2>1, <2>2 DEF PromptsOverlap, PromptOnce
<1>6. CASE PromptExpires
  <2>1. PICK cp \in prompted : /\ prompted' = prompted \ {cp}
                               /\ promptCount' = [promptCount EXCEPT ![cp] = 0]
                               /\ UNCHANGED <<stage, to, promptOverlap>>
    BY <1>6 DEF PromptExpires
  <2> QED
    BY <1>0, <2>1 DEF PromptsOverlap, PromptOnce, PromptsTyped
<1>7. CASE UNCHANGED promptVars
  BY <1>0, <1>7 DEF PromptsOverlap, PromptOnce, promptVars
<1> QED
  BY <1>1, <1>2, <1>3, <1>4, <1>5, <1>6, <1>7, PromptFrame DEF TaskStep

-----------------------------------------------------------------------------
(* Runs *)

\* What Owned says of runs.
RunsOwned ==
  \A r \in Runs :
    /\ pc[r] # "idle" => on[r] \in Notifs
    /\ pc[r] \in {"gsend", "gmore", "gmark"} => target[r] \in Groups
    /\ pc[r] = "idle" => target[r] = None

\* A step of run r is no step of another run.
LEMMA OneRun ==
  ASSUME TypeOK, NEW r \in Runs, (\E n \in Notifs : Begin(r, n)) \/ RunStep(r)
  PROVE  /\ \A q \in Runs \ {r} :
              /\ pc'[q] = pc[q] /\ on'[q] = on[q] /\ target'[q] = target[q]
              /\ part'[q] = part[q] /\ outcome'[q] = outcome[q]
              /\ q \in faulted => q \in faulted'
              /\ q \in unanswered => q \in unanswered'
         /\ UNCHANGED chunks
<1> USE DEF TypeOK
<1>1. ASSUME NEW n \in Notifs, Begin(r, n)
      PROVE  \A q \in Runs \ {r} :
              /\ pc'[q] = pc[q] /\ on'[q] = on[q] /\ target'[q] = target[q]
              /\ part'[q] = part[q] /\ outcome'[q] = outcome[q]
              /\ q \in faulted => q \in faulted'
              /\ q \in unanswered => q \in unanswered'
  BY <1>1 DEF Begin, Goto
<1>2. ASSUME CheckMutes(r) \/ Route(r) \/ GroupCheck(r) \/ GroupMark(r)
      PROVE  \A q \in Runs \ {r} :
              /\ pc'[q] = pc[q] /\ on'[q] = on[q] /\ target'[q] = target[q]
              /\ part'[q] = part[q] /\ outcome'[q] = outcome[q]
              /\ q \in faulted => q \in faulted'
              /\ q \in unanswered => q \in unanswered'
  BY <1>2 DEF CheckMutes, Route, GroupCheck, GroupMark, Goto, Goes, Ends, Redis
<1>3. ASSUME SendUser(r)
      PROVE  \A q \in Runs \ {r} :
              /\ pc'[q] = pc[q] /\ on'[q] = on[q] /\ target'[q] = target[q]
              /\ part'[q] = part[q] /\ outcome'[q] = outcome[q]
              /\ q \in faulted => q \in faulted'
              /\ q \in unanswered => q \in unanswered'
  <2>1. faulted \subseteq faulted' /\ unanswered \subseteq unanswered'
    BY <1>3 DEF SendUser, SendNotification, NextPart, Redis
  <2>2. Ends(r, "failed") \/ Goes(r, "more") \/ Goes(r, "group")
    BY <1>3 DEF SendUser
  <2>3. UNCHANGED on /\ \A q \in Runs \ {r} : part'[q] = part[q]
    BY <1>3 DEF SendUser
  <2> QED
    BY <2>1, <2>2, <2>3 DEF Ends, Goes, Goto
<1>4. ASSUME GroupSend(r)
      PROVE  \A q \in Runs \ {r} :
              /\ pc'[q] = pc[q] /\ on'[q] = on[q] /\ target'[q] = target[q]
              /\ part'[q] = part[q] /\ outcome'[q] = outcome[q]
              /\ q \in faulted => q \in faulted'
              /\ q \in unanswered => q \in unanswered'
  <2>1. faulted \subseteq faulted'
    BY <1>4 DEF GroupSend, SendNotification, NextPart, Redis
  <2>2. Ends(r, "success") \/ Goes(r, "gmore") \/ Goes(r, "gmark")
    BY <1>4 DEF GroupSend, AfterGroupSend, NextGroupPart
  <2>3. UNCHANGED <<on, part, unanswered>>
    BY <1>4 DEF GroupSend
  <2> QED
    BY <2>1, <2>2, <2>3 DEF Ends, Goes, Goto
<1>5. UNCHANGED chunks
  BY RunReads
<1> QED
  BY <1>1, <1>2, <1>3, <1>4, <1>5 DEF RunStep

\* What a step does to its run: where it goes, how many parts it has sent and
\* what it answers.
LEMMA RunMoves ==
  ASSUME TypeOK, NEW r \in Runs, RunStep(r)
  PROVE  /\ on'[r] = on[r]
         /\ \/ /\ pc[r] = "mutes" /\ pc'[r] \in {"route", "end"}
               /\ part'[r] = part[r]
               /\ pc'[r] = "end" => outcome'[r] = "failed"
               /\ (pc'[r] = "route" /\ Muted(on[r])) => r \in faulted'
            \/ pc[r] = "route" /\ pc'[r] = "user" /\ part'[r] = part[r]
            \/ /\ pc[r] \in {"user", "more"} /\ pc'[r] = "end" /\ outcome'[r] = "failed"
               /\ \/ part'[r] = part[r]
                  \/ part'[r] = part[r] + 1 /\ r \in unanswered'
            \/ /\ pc[r] \in {"user", "more"} /\ pc'[r] = "more"
               /\ part'[r] = part[r] + 1 /\ part'[r] < chunks[on[r]]
            \/ /\ pc[r] \in {"user", "more"} /\ pc'[r] = "group"
               /\ part'[r] = part[r] + 1 /\ ~(part'[r] < chunks[on[r]])
            \/ /\ pc[r] \in {"group", "gsend", "gmore", "gmark"}
               /\ pc'[r] \in {"gsend", "gmore", "gmark", "end"} /\ part'[r] = part[r]
               /\ pc'[r] = "gsend" => pc[r] = "group" /\ target[r] # None
               /\ pc'[r] \in {"gmore", "gmark"} => pc[r] \in {"gsend", "gmore"}
               /\ pc'[r] = "end" =>
                    outcome'[r] = "success" \/ (outcome'[r] = "failed" /\ r \in faulted')
         /\ pc'[r] # "end" => outcome'[r] = outcome[r] /\ target'[r] = target[r]
         /\ pc'[r] = "end" => target'[r] = None
         /\ r \in faulted => r \in faulted'
<1> USE DEF TypeOK
<1>1. CASE CheckMutes(r)
  BY <1>1 DEF CheckMutes, Goto, Goes, Ends, Redis, Silenced
<1>2. CASE Route(r)
  BY <1>2 DEF Route, Goto, Redis
<1>3. CASE SendUser(r)
  <2>1. PICK res \in Results :
          /\ part' = [part EXCEPT ![r] = IF res \in Arrived THEN @ + 1 ELSE @]
          /\ unanswered' = IF res = "lost" THEN unanswered \cup {r} ELSE unanswered
          /\ \/ res # "sent" /\ Ends(r, "failed")
             \/ res = "sent" /\ part[r] + 1 < chunks[on[r]] /\ Goes(r, "more")
             \/ res = "sent" /\ ~(part[r] + 1 < chunks[on[r]]) /\ Goes(r, "group")
    BY <1>3 DEF SendUser
  <2>2. UNCHANGED on /\ pc[r] \in {"user", "more"}
    BY <1>3 DEF SendUser
  <2>3. r \in faulted => r \in faulted'
    BY <1>3 DEF SendUser, SendNotification, NextPart, Redis
  <2>4. part[r] \in Nat
    OBVIOUS
  <2>5. CASE res # "sent" /\ Ends(r, "failed")
    <3>1. part'[r] = part[r] \/ (part'[r] = part[r] + 1 /\ r \in unanswered')
      BY <2>1, <2>5 DEF Arrived
    <3> QED
      BY <2>2, <2>3, <2>5, <3>1 DEF Ends, Goto
  <2>6. CASE res = "sent" /\ part[r] + 1 < chunks[on[r]] /\ Goes(r, "more")
    BY <2>1, <2>2, <2>3, <2>6 DEF Goes, Goto, Arrived
  <2>7. CASE res = "sent" /\ ~(part[r] + 1 < chunks[on[r]]) /\ Goes(r, "group")
    <3>1. pc'[r] = "group" /\ part'[r] = part[r] + 1
      BY <2>1, <2>7 DEF Goes, Goto, Arrived
    <3>2. outcome'[r] = outcome[r] /\ target'[r] = target[r]
      BY <2>7 DEF Goes
    <3>3. ~(part'[r] < chunks[on[r]])
      BY <2>7, <3>1
    <3> QED
      BY <2>2, <2>3, <3>1, <3>2, <3>3
  <2> QED
    BY <2>1, <2>5, <2>6, <2>7
<1>4. CASE GroupCheck(r)
  BY <1>4 DEF GroupCheck, Goto, Goes, Ends, Redis
<1>5. CASE GroupSend(r)
  <2>1. Ends(r, "success") \/ Goes(r, "gmore") \/ Goes(r, "gmark")
    BY <1>5 DEF GroupSend, AfterGroupSend, NextGroupPart
  <2>2. UNCHANGED <<on, part>> /\ pc[r] \in {"gsend", "gmore"}
    BY <1>5 DEF GroupSend
  <2>3. r \in faulted => r \in faulted'
    BY <1>5 DEF GroupSend, SendNotification, NextPart, Redis
  <2> QED
    BY <2>1, <2>2, <2>3 DEF Ends, Goes, Goto
<1>6. CASE GroupMark(r)
  BY <1>6 DEF GroupMark, Goto, Ends, Redis
<1> QED
  BY <1>1, <1>2, <1>3, <1>4, <1>5, <1>6 DEF RunStep

\* The parts are counted, and the answer says what was sent.
LEMMA RunsStep ==
  ASSUME TypeOK, Owned, Progress, OutcomeTruthful, [Next]_vars
  PROVE  RunsOwned' /\ Progress' /\ OutcomeTruthful'
<1> DEFINE Goal == RunsOwned' /\ Progress' /\ OutcomeTruthful'
<1>0. RunsOwned
  BY DEF Owned, RunsOwned
<1>1. ASSUME NEW r \in Runs, NEW n \in Notifs, Begin(r, n)
      PROVE  Goal
  <2>1. /\ on'[r] = n /\ pc'[r] = "mutes" /\ part'[r] = 0 /\ outcome'[r] = "none"
    BY <1>1 DEF Begin, Goto, TypeOK
  <2>2. /\ \A q \in Runs \ {r} :
              /\ pc'[q] = pc[q] /\ on'[q] = on[q] /\ target'[q] = target[q]
              /\ part'[q] = part[q] /\ outcome'[q] = outcome[q]
              /\ q \in faulted => q \in faulted'
              /\ q \in unanswered => q \in unanswered'
        /\ UNCHANGED chunks
    BY <1>1, OneRun
  <2>3. RunsOwned'
    BY <1>0, <2>1, <2>2 DEF RunsOwned
  <2>4. Progress' /\ OutcomeTruthful'
    BY <2>1, <2>2 DEF Progress, OutcomeTruthful
  <2> QED
    BY <2>3, <2>4
<1>2. ASSUME NEW r \in Runs, RunStep(r)
      PROVE  Goal
  <2>1. /\ \A q \in Runs \ {r} :
              /\ pc'[q] = pc[q] /\ on'[q] = on[q] /\ target'[q] = target[q]
              /\ part'[q] = part[q] /\ outcome'[q] = outcome[q]
              /\ q \in faulted => q \in faulted'
              /\ q \in unanswered => q \in unanswered'
        /\ UNCHANGED chunks
    BY <1>2, OneRun
  <2>2. /\ part[r] \in 0..3 /\ on[r] \in Notifs /\ chunks[on[r]] \in 1..3
        /\ target[r] \in Groups \cup {None}
    BY <1>0, <1>2, RunMoves DEF RunsOwned, TypeOK
  <2>3. /\ pc'[r] # "idle" /\ on'[r] \in Notifs
        /\ pc'[r] \in {"gsend", "gmore", "gmark"} => target'[r] \in Groups
    BY <1>0, <1>2, <2>2, RunMoves DEF RunsOwned
  <2>4. RunsOwned'
    BY <1>0, <2>1, <2>3 DEF RunsOwned
  <2>5. /\ pc'[r] \in {"idle", "mutes", "route", "user"} => part'[r] = 0
        /\ pc'[r] = "more" => part'[r] < chunks[on[r]]
        /\ pc'[r] \in {"group", "gsend", "gmore", "gmark"} => part'[r] = chunks[on[r]]
        /\ pc'[r] # "end" => outcome'[r] = "none"
    BY <1>2, <2>2, RunMoves DEF Progress
  <2>6. Progress'
    BY <1>2, <2>1, <2>5, RunMoves DEF Progress
  <2>7. /\ outcome'[r] = "success" => part'[r] = chunks[on[r]]
        /\ outcome'[r] = "failed" /\ part'[r] = chunks[on[r]]
             => r \in faulted' \cup unanswered'
    BY <1>2, <2>2, <2>5, RunMoves DEF Progress
  <2>8. OutcomeTruthful'
    BY <1>2, <2>1, <2>7, RunMoves DEF OutcomeTruthful
  <2> QED
    BY <2>4, <2>6, <2>8
<1>3. CASE UNCHANGED <<runVars, faulted>>
  BY <1>0, <1>3 DEF runVars, RunsOwned, Progress, OutcomeTruthful
<1> QED
  BY <1>1, <1>2, <1>3, Kinds, RunFrame

\* What is muted only grows, but for an unmute or an expiry, which let go of
\* the runs they concern.
LEMMA HeldStep ==
  ASSUME TypeOK, HeldBack, [Next]_vars
  PROVE  HeldBack'
<1>1. ASSUME NEW r \in Runs, NEW n \in Notifs, Begin(r, n)
      PROVE  HeldBack'
  <2>1. /\ on'[r] = n /\ pc'[r] = "mutes" /\ part'[r] = 0
        /\ r \in held' => Muted(n)
        /\ \A q \in held' : q # r => q \in held
        /\ UNCHANGED <<mutedProtocol, mutedCategory>>
    BY <1>1 DEF Begin, Goto, TypeOK, markVars
  <2>2. held' \subseteq Runs
    BY <1>1 DEF Begin, TypeOK
  <2>3. \A q \in Runs \ {r} : /\ pc'[q] = pc[q] /\ on'[q] = on[q] /\ part'[q] = part[q]
                              /\ q \in faulted => q \in faulted'
    BY <1>1, OneRun
  <2> QED
    BY <2>1, <2>2, <2>3 DEF HeldBack, Muted, MutedBy
<1>2. ASSUME NEW r \in Runs, RunStep(r)
      PROVE  HeldBack'
  <2>1. \A q \in Runs \ {r} : /\ pc'[q] = pc[q] /\ on'[q] = on[q] /\ part'[q] = part[q]
                              /\ q \in faulted => q \in faulted'
    BY <1>2, OneRun
  <2>2. UNCHANGED <<mutedProtocol, mutedCategory>>
    BY <1>2, RunReads DEF markVars
  <2>3. UNCHANGED held
    BY <1>2 DEF RunStep, CheckMutes, Route, SendUser, GroupCheck, GroupSend, GroupMark
  <2>4. r \in held => /\ on'[r] = on[r]
                      /\ r \in faulted' \/ (pc'[r] \in {"mutes", "end"} /\ part'[r] = 0)
    BY <1>2, RunMoves DEF HeldBack
  <2>5. held \subseteq Runs
    BY DEF TypeOK
  <2> QED
    BY <2>1, <2>2, <2>3, <2>4, <2>5 DEF HeldBack, Muted, MutedBy
<1>4. CASE UNCHANGED <<runVars, faulted, mutedProtocol, mutedCategory, held>>
  BY <1>4 DEF runVars, HeldBack, Muted, MutedBy
<1>5. CASE MuteStep
  <2>1. UNCHANGED <<runVars, faulted>>
    BY <1>5, RunFrame
  <2>2. ASSUME NEW n \in Notifs, MuteProtocol(n)
        PROVE  HeldBack'
    BY <2>1, <2>2 DEF MuteProtocol, runVars, HeldBack, Muted, MutedBy
  <2>3. ASSUME NEW c \in Chats, NEW k \in Mutable, MuteCategory(c, k)
        PROVE  HeldBack'
    BY <2>1, <2>3 DEF MuteCategory, runVars, HeldBack, Muted, MutedBy
  <2>4. ASSUME NEW c \in Chats, NEW k \in Mutable, UnmuteCategory(c, k)
        PROVE  HeldBack'
    BY <2>1, <2>4 DEF UnmuteCategory, StillHeld, runVars, HeldBack, Muted, MutedBy
  <2> QED
    BY <1>5, <2>2, <2>3, <2>4 DEF MuteStep
<1>6. CASE Expire
  <2>1. UNCHANGED <<runVars, faulted>>
    BY <1>6, RunFrame
  <2>2. \/ UNCHANGED <<mutedProtocol, mutedCategory, held>>
        \/ held' = StillHeld(mutedProtocol', mutedCategory')
    BY <1>6 DEF Expire, markVars
  <2>3. CASE held' = StillHeld(mutedProtocol', mutedCategory')
    BY <2>1, <2>3 DEF StillHeld, runVars, HeldBack, Muted, MutedBy
  <2> QED
    BY <1>4, <2>1, <2>2, <2>3
<1>7. ASSUME \/ \E t \in Tasks : TaskStep(t)
             \/ \E p \in Protocols : TriggerMigration(p)
      PROVE  UNCHANGED <<runVars, faulted, mutedProtocol, mutedCategory, held>>
  BY <1>7, PromptEffect DEF Rest, markVars
<1>8. ASSUME MoveStep \/ LinkStep \/ Outside \/ UNCHANGED vars
      PROVE  UNCHANGED <<runVars, faulted, mutedProtocol, mutedCategory, held>>
  BY <1>8, RunFrame, MoveEffect, LinkEffect, OutsideEffect, TypeParts DEF vars, markVars
<1> QED
  BY <1>1, <1>2, <1>4, <1>5, <1>6, <1>7, <1>8, Kinds

\* What a step of a run sends to a group and marks, and what it lets others see.
LEMMA GroupMoves ==
  ASSUME TypeOK, Owned, NEW r \in Runs, RunStep(r)
  PROVE  /\ UNCHANGED overlapped
         /\ \/ /\ UNCHANGED <<groupCount, groupSent>>
               /\ \/ /\ pc[r] \notin {"gmore", "gmark"} /\ pc'[r] \notin {"gmore", "gmark"}
                     /\ UNCHANGED broken
                  \/ /\ pc[r] = "gmore" /\ pc'[r] \in {"gmore", "gmark"}
                     /\ UNCHANGED broken
                  \/ /\ pc[r] = "gmore" /\ pc'[r] = "end"
                     /\ broken' = [broken EXCEPT ![<<on[r], target[r]>>] = @ + 1]
               /\ pc'[r] = "gsend" =>
                    faults' # 0 \/ <<on[r], target[r]>> \notin groupSent
            \/ /\ pc[r] = "gsend" /\ UNCHANGED groupSent
               /\ groupCount' = [groupCount EXCEPT ![<<on[r], target[r]>>] = @ + 1]
               /\ \/ pc'[r] \in {"gmore", "gmark"} /\ UNCHANGED broken
                  \/ /\ pc'[r] = "end"
                     /\ broken' = [broken EXCEPT ![<<on[r], target[r]>>] = @ + 1]
            \/ /\ pc[r] = "gmark" /\ pc'[r] = "end" /\ UNCHANGED <<groupCount, broken>>
               /\ faults' # 0 \/ groupSent' = groupSent \cup {<<on[r], target[r]>>}
<1> USE DEF TypeOK
<1>1. CASE CheckMutes(r) \/ Route(r)
  BY <1>1 DEF CheckMutes, Route, Goto, Goes, Ends, groupVars
<1>2. CASE SendUser(r)
  <2>1. Ends(r, "failed") \/ Goes(r, "more") \/ Goes(r, "group")
    BY <1>2 DEF SendUser
  <2>2. UNCHANGED groupVars /\ pc[r] \in {"user", "more"}
    BY <1>2 DEF SendUser
  <2> QED
    BY <2>1, <2>2 DEF Ends, Goes, Goto, groupVars
<1>3. CASE GroupCheck(r)
  <2>1. pc[r] = "group" /\ UNCHANGED groupVars
    BY <1>3 DEF GroupCheck
  <2>2. CASE Ends(r, "success")
    BY <2>1, <2>2 DEF Ends, Goto, groupVars
  <2>3. ASSUME NEW bad \in BOOLEAN, Redis(r, bad), Goes(r, "gsend"),
               bad \/ <<on[r], target[r]>> \notin groupSent
        PROVE  \/ faults' # 0
               \/ <<on[r], target[r]>> \notin groupSent
    BY <2>3, BoundsAssumption DEF Redis
  <2>4. ASSUME Goes(r, "gsend"), faults' # 0 \/ <<on[r], target[r]>> \notin groupSent
        PROVE  /\ UNCHANGED <<groupCount, broken, groupSent, overlapped>>
               /\ pc'[r] \notin {"gmore", "gmark"} /\ pc[r] \notin {"gmore", "gmark"}
               /\ pc'[r] = "gsend" => faults' # 0 \/ <<on[r], target[r]>> \notin groupSent
    BY <2>1, <2>4 DEF Goes, Goto, groupVars
  <2>5. \/ Ends(r, "success")
        \/ \E bad \in BOOLEAN : /\ Redis(r, bad) /\ Goes(r, "gsend")
                                /\ bad \/ <<on[r], target[r]>> \notin groupSent
    BY <1>3 DEF GroupCheck
  <2> QED
    BY <2>2, <2>3, <2>4, <2>5
<1>4. CASE GroupSend(r)
  <2>1. PICK res \in Results :
          /\ groupCount' = IF pc[r] = "gsend" /\ res \in Arrived
                           THEN [groupCount EXCEPT ![<<on[r], target[r]>>] = @ + 1]
                           ELSE groupCount
          /\ broken' = IF res = "lost" \/ (pc[r] = "gmore" /\ res # "sent")
                       THEN [broken EXCEPT ![<<on[r], target[r]>>] = @ + 1] ELSE broken
          /\ AfterGroupSend(r, res)
    BY <1>4, Zenon DEF GroupSend
  <2>2. UNCHANGED <<groupSent, overlapped>> /\ pc[r] \in {"gsend", "gmore"}
    BY <1>4 DEF GroupSend
  <2>3. IF res = "sent" THEN pc'[r] \in {"gmore", "gmark"} ELSE pc'[r] = "end"
    BY <2>1 DEF AfterGroupSend, NextGroupPart, Ends, Goes, Goto
  <2>4. CASE res = "sent"
    BY <2>1, <2>2, <2>3, <2>4 DEF Arrived
  <2>5. CASE res # "sent"
    BY <2>1, <2>2, <2>3, <2>5 DEF Arrived
  <2> QED
    BY <2>4, <2>5
<1>5. CASE GroupMark(r)
  BY <1>5, BoundsAssumption DEF GroupMark, Marker, Goto, Ends, Redis
<1> QED
  BY <1>1, <1>2, <1>3, <1>4, <1>5 DEF RunStep

\* A group is written to only by a link its administrator asked for.
LEMMA LinksStep ==
  ASSUME TypeOK, Owned, LinksAsked, [Next]_vars
  PROVE  LinksAsked'
<1>0. /\ None \notin Groups
      /\ \A n \in Notifs : ProtocolOf[n] \in Protocols
  BY NoneAssumption, NotifAssumption
<1>1. ASSUME NEW r \in Runs, NEW n \in Notifs, Begin(r, n)
      PROVE  LinksAsked'
  <2>1. /\ on'[r] = n /\ target'[r] = group[ProtocolOf[n]]
        /\ UNCHANGED groupCount
    BY <1>1 DEF Begin, TypeOK
  <2>2. \A q \in Runs \ {r} : on'[q] = on[q] /\ target'[q] = target[q]
    BY <1>1, OneRun
  <2>3. UNCHANGED <<group, linking, authorised>>
    BY <1>1, RunReads DEF dbVars
  <2> QED
    BY <1>0, <2>1, <2>2, <2>3 DEF LinksAsked
<1>2. ASSUME NEW r \in Runs, RunStep(r)
      PROVE  LinksAsked'
  <2>1. /\ on'[r] = on[r] /\ target'[r] \in {target[r], None}
        /\ \A q \in Runs \ {r} : on'[q] = on[q] /\ target'[q] = target[q]
    BY <1>2, OneRun, RunMoves
  <2>2. UNCHANGED <<group, linking, authorised>>
    BY <1>2, RunReads DEF dbVars
  <2>3. \/ UNCHANGED groupCount
        \/ /\ pc[r] = "gsend"
           /\ groupCount' = [groupCount EXCEPT ![<<on[r], target[r]>>] = @ + 1]
    BY <1>2, GroupMoves
  <2>4. ASSUME NEW ng \in Notifs \X Groups, groupCount'[ng] > 0
        PROVE  <<ProtocolOf[ng[1]], ng[2]>> \in authorised
    <3>1. CASE groupCount'[ng] = groupCount[ng]
      BY <2>4, <3>1 DEF LinksAsked
    <3>2. CASE pc[r] = "gsend" /\ ng = <<on[r], target[r]>>
      BY <1>0, <3>2 DEF LinksAsked, Owned
    <3> QED
      BY <2>3, <3>1, <3>2 DEF TypeOK
  <2> QED
    BY <2>1, <2>2, <2>4 DEF LinksAsked
<1>3. CASE LinkStep
  <2>1. UNCHANGED <<on, target, groupCount>>
    BY <1>3, LinkEffect DEF runVars, groupVars
  <2>2. ASSUME NEW p \in Protocols, HandlerStep(p)
        PROVE  LinksAsked'
    <3>1. /\ authorised' = authorised /\ linking' \in {linking, [linking EXCEPT ![p] = None]}
          /\ \/ group' = group
             \/ linking[p] # None /\ group' = [group EXCEPT ![p] = linking[p]]
             \/ group' = [group EXCEPT ![p] = None]
      BY <2>2 DEF HandlerStep, LinkWrite, KickedClear, HandleCustomBotWebhookFails
    <3>2. \A q \in Protocols : linking'[q] # None => linking'[q] = linking[q]
      BY <3>1 DEF TypeOK
    <3>3. \A q \in Protocols : group'[q] # None =>
            group'[q] = group[q] \/ (group'[q] = linking[q] /\ linking[q] # None)
      BY <3>1 DEF TypeOK
    <3> QED
      BY <2>1, <3>1, <3>2, <3>3 DEF LinksAsked
  <2>3. ASSUME NEW p \in Protocols, NEW g \in Groups, KickedRead(p, g)
        PROVE  LinksAsked'
    BY <2>1, <2>3 DEF KickedRead, LinksAsked
  <2>4. ASSUME NEW p \in Protocols, NEW g \in Groups, NEW x \in Nonces,
               NEW st \in Standings, LinkRead(p, g, x, st)
        PROVE  LinksAsked'
    <3>1. /\ authorised \subseteq authorised' /\ UNCHANGED group
          /\ \/ UNCHANGED linking
             \/ linking' = [linking EXCEPT ![p] = g] /\ <<p, g>> \in authorised'
      BY <2>4 DEF LinkRead, NonceFits, CheckIsAdmin
    <3> QED
      BY <2>1, <3>1 DEF LinksAsked, TypeOK
  <2> QED
    BY <1>3, <2>2, <2>3, <2>4 DEF LinkStep
<1>4. ASSUME \/ \E t \in Tasks : TaskStep(t)
             \/ \E p \in Protocols : TriggerMigration(p)
             \/ MoveStep \/ MuteStep \/ Outside \/ Expire \/ UNCHANGED vars
      PROVE  UNCHANGED <<on, target, groupCount, group, linking, authorised>>
  <2>1. UNCHANGED <<on, target, groupCount>>
    BY <1>4, RunFrame DEF runVars
  <2>2. UNCHANGED <<group, linking, authorised>>
    BY <1>4, PromptEffect, MoveEffect, MuteEffect, OutsideEffect, TypeParts
       DEF Rest, dbVars, Expire, vars
  <2> QED
    BY <2>1, <2>2
<1>5. CASE UNCHANGED <<on, target, groupCount, group, linking, authorised>>
  BY <1>5 DEF LinksAsked
<1> QED
  BY <1>1, <1>2, <1>3, <1>4, <1>5, Kinds

\* What is outside the runs leaves the group markers, or lets one expire, which
\* is noted.
LEMMA GroupFrame ==
  ASSUME TypeOK,
         \/ \E t \in Tasks : TaskStep(t)
         \/ \E p \in Protocols : TriggerMigration(p)
         \/ MoveStep \/ MuteStep \/ LinkStep \/ Outside \/ Expire
         \/ UNCHANGED vars
  PROVE  /\ UNCHANGED <<pc, on, target, groupCount, broken>>
         /\ overlapped \subseteq overlapped'
         /\ \A ng : (ng \in groupSent /\ ng \notin groupSent') => ng \in overlapped'
         /\ groupSent' \subseteq groupSent
<1>1. UNCHANGED <<pc, on, target, groupCount, broken>>
  BY RunFrame DEF runVars
<1>2. CASE Expire
  <2>1. \/ UNCHANGED <<groupSent, overlapped>>
        \/ \E ng \in groupSent : /\ groupSent' = groupSent \ {ng}
                                 /\ overlapped' = overlapped \cup {ng}
    BY <1>2 DEF Expire, groupVars
  <2> QED
    BY <1>1, <2>1
<1>3. ASSUME \/ \E t \in Tasks : TaskStep(t)
             \/ \E p \in Protocols : TriggerMigration(p)
             \/ MoveStep \/ MuteStep \/ LinkStep \/ Outside \/ UNCHANGED vars
      PROVE  UNCHANGED groupVars
  BY <1>3, PromptEffect, MoveEffect, MuteEffect, LinkEffect, OutsideEffect, TypeParts
     DEF Rest, Quiet, vars
<1> QED
  BY <1>1, <1>2, <1>3 DEF groupVars

\* Two runs of one notification are noticed.
LEMMA OverlapStep ==
  ASSUME TypeOK, Owned, RunsOverlap, [Next]_vars
  PROVE  RunsOverlap' /\ overlapped \subseteq overlapped'
<1>1. ASSUME NEW r \in Runs, NEW n \in Notifs, Begin(r, n)
      PROVE  RunsOverlap' /\ overlapped \subseteq overlapped'
  <2>1. /\ on'[r] = n /\ overlapped \subseteq overlapped'
        /\ (\E q \in Runs \ {r} : Busy(q) /\ on[q] = n) =>
              \A g \in Groups : <<n, g>> \in overlapped'
    BY <1>1 DEF Begin, TypeOK
  <2>2. \A q \in Runs \ {r} : pc'[q] = pc[q] /\ on'[q] = on[q]
    BY <1>1, OneRun
  <2> QED
    BY <2>1, <2>2 DEF RunsOverlap, Busy
<1>2. ASSUME NEW r \in Runs, RunStep(r)
      PROVE  RunsOverlap' /\ overlapped \subseteq overlapped'
  <2>1. on'[r] = on[r] /\ UNCHANGED overlapped
    BY <1>2, RunMoves, GroupMoves
  <2>2. Busy(r)
    BY <1>2, RunMoves DEF Busy
  <2>3. \A q \in Runs \ {r} : pc'[q] = pc[q] /\ on'[q] = on[q]
    BY <1>2, OneRun
  <2> QED
    BY <2>1, <2>2, <2>3 DEF RunsOverlap, Busy
<1>3. CASE UNCHANGED <<pc, on>> /\ overlapped \subseteq overlapped'
  BY <1>3 DEF RunsOverlap, Busy
<1> QED
  BY <1>1, <1>2, <1>3, Kinds, GroupFrame

\* Without overlap, expiry or fault the marker stops a second group message.
LEMMA GroupStep ==
  ASSUME TypeOK, Owned, RunsOverlap, GroupOnce, [Next]_vars
  PROVE  GroupOnce'
<1> DEFINE Goal(ng) ==
         /\ groupCount'[ng] <= 1 + broken'[ng]
         /\ groupCount'[ng] = 1 + broken'[ng] => GroupMarked(ng)'
         /\ \A q \in Runs : (pc'[q] = "gsend" /\ <<on'[q], target'[q]>> = ng)
                              => groupCount'[ng] <= broken'[ng]
<1> SUFFICES ASSUME NEW ng \in Notifs \X Groups, ng \notin overlapped', faults' = 0
             PROVE  Goal(ng)
  BY DEF GroupOnce
<1>0. /\ ng \notin overlapped /\ faults = 0
      /\ groupCount[ng] \in Nat /\ broken[ng] \in Nat
      /\ \E n \in Notifs, g \in Groups : ng = <<n, g>>
  BY OverlapStep, CountsStep DEF TypeOK
<1>a. /\ groupCount[ng] <= 1 + broken[ng]
      /\ groupCount[ng] = 1 + broken[ng] => GroupMarked(ng)
      /\ \A r \in Runs : (pc[r] = "gsend" /\ <<on[r], target[r]>> = ng)
                           => groupCount[ng] <= broken[ng]
  BY <1>0 DEF GroupOnce
<1>1. ASSUME NEW r \in Runs, NEW n \in Notifs, Begin(r, n)
      PROVE  Goal(ng)
  <2>1. /\ UNCHANGED <<groupCount, broken, groupSent>>
        /\ pc'[r] = "mutes" /\ pc[r] \notin {"gmore", "gmark"}
    BY <1>1 DEF Begin, Goto, Busy, TypeOK
  <2>2. \A q \in Runs \ {r} : /\ pc'[q] = pc[q] /\ on'[q] = on[q]
                              /\ target'[q] = target[q]
    BY <1>1, OneRun
  <2> QED
    BY <1>a, <2>1, <2>2 DEF GroupMarked
<1>2. ASSUME NEW r \in Runs, RunStep(r)
      PROVE  Goal(ng)
  <2>1. \A q \in Runs \ {r} : /\ pc'[q] = pc[q] /\ on'[q] = on[q]
                              /\ target'[q] = target[q]
    BY <1>2, OneRun
  <2>2. /\ on'[r] = on[r] /\ Busy(r)
        /\ pc'[r] # "end" => target'[r] = target[r]
    BY <1>2, RunMoves DEF Busy
  <2>3. ASSUME <<on[r], target[r]>> = ng
        PROVE  \A q \in Runs \ {r} :
                 pc[q] \in {"gsend", "gmore", "gmark"} => <<on[q], target[q]>> # ng
    BY <1>0, <2>2, <2>3 DEF RunsOverlap, Busy
  <2>4. CASE <<on[r], target[r]>> # ng
    <3>1. groupCount'[ng] = groupCount[ng] /\ broken'[ng] = broken[ng]
      <4>1. \/ groupCount' = groupCount
            \/ groupCount' = [groupCount EXCEPT ![<<on[r], target[r]>>] = @ + 1]
        BY <1>2, GroupMoves
      <4>2. \/ broken' = broken
            \/ broken' = [broken EXCEPT ![<<on[r], target[r]>>] = @ + 1]
        BY <1>2, GroupMoves
      <4> QED
        BY <2>4, <4>1, <4>2 DEF TypeOK
    <3>2. GroupMarked(ng) => GroupMarked(ng)'
      <4>1. ng \in groupSent => ng \in groupSent'
        BY <1>2, GroupMoves
      <4> QED
        BY <2>1, <2>4, <4>1 DEF GroupMarked
    <3>3. pc'[r] = "gsend" => <<on'[r], target'[r]>> # ng
      BY <2>2, <2>4
    <3> QED
      BY <1>a, <2>1, <3>1, <3>2, <3>3
  <2>5. CASE <<on[r], target[r]>> = ng
    <3>1. \A q \in Runs \ {r} :
            pc'[q] \in {"gsend", "gmore", "gmark"} => <<on'[q], target'[q]>> # ng
      BY <2>1, <2>3, <2>5
    <3>2. GroupMarked(ng) => ng \in groupSent \/ pc[r] \in {"gmore", "gmark"}
      BY <2>3, <2>5 DEF GroupMarked
    <3>3. ng \in groupSent' => GroupMarked(ng)'
      BY DEF GroupMarked
    <3>4. pc'[r] \in {"gmore", "gmark"} => GroupMarked(ng)'
      BY <2>2, <2>5 DEF GroupMarked
    <3>5. \A f \in [Notifs \X Groups -> Nat] :
            [f EXCEPT ![<<on[r], target[r]>>] = @ + 1][ng] = f[ng] + 1
      BY <2>5
    <3>6. CASE /\ UNCHANGED <<groupCount, groupSent>>
               /\ \/ /\ pc[r] \notin {"gmore", "gmark"} /\ pc'[r] \notin {"gmore", "gmark"}
                     /\ UNCHANGED broken
                  \/ /\ pc[r] = "gmore" /\ pc'[r] \in {"gmore", "gmark"}
                     /\ UNCHANGED broken
                  \/ /\ pc[r] = "gmore" /\ pc'[r] = "end"
                     /\ broken' = [broken EXCEPT ![<<on[r], target[r]>>] = @ + 1]
               /\ pc'[r] = "gsend" => ng \notin groupSent /\ pc[r] \notin {"gmore", "gmark"}
      <4>1. broken'[ng] \in {broken[ng], broken[ng] + 1} /\ groupCount'[ng] = groupCount[ng]
        BY <3>5, <3>6 DEF TypeOK
      <4>2. broken'[ng] = broken[ng] + 1 \/ (GroupMarked(ng) => GroupMarked(ng)')
        BY <3>2, <3>3, <3>4, <3>5, <3>6 DEF TypeOK
      <4>3. pc'[r] = "gsend" => groupCount'[ng] <= broken'[ng]
        BY <1>0, <1>a, <3>2, <3>6, <4>1
      <4> QED
        BY <1>0, <1>a, <3>1, <4>1, <4>2, <4>3
    <3>7. CASE /\ pc[r] = "gsend" /\ UNCHANGED groupSent
               /\ groupCount' = [groupCount EXCEPT ![<<on[r], target[r]>>] = @ + 1]
               /\ \/ pc'[r] \in {"gmore", "gmark"} /\ UNCHANGED broken
                  \/ /\ pc'[r] = "end"
                     /\ broken' = [broken EXCEPT ![<<on[r], target[r]>>] = @ + 1]
      <4>1. groupCount[ng] <= broken[ng] /\ groupCount'[ng] = groupCount[ng] + 1
        BY <1>a, <2>5, <3>5, <3>7 DEF TypeOK
      <4>2. \/ broken'[ng] = broken[ng] /\ GroupMarked(ng)'
            \/ broken'[ng] = broken[ng] + 1
        BY <3>4, <3>5, <3>7 DEF TypeOK
      <4> QED
        BY <1>0, <3>1, <3>7, <4>1, <4>2
    <3>8. CASE /\ pc[r] = "gmark" /\ pc'[r] = "end" /\ UNCHANGED <<groupCount, broken>>
               /\ ng \in groupSent'
      BY <1>a, <3>1, <3>3, <3>8
    <3> QED
      BY <1>0, <1>2, <2>5, <3>6, <3>7, <3>8, GroupMoves
  <2> QED
    BY <2>4, <2>5
<1>3. ASSUME \/ \E t \in Tasks : TaskStep(t)
             \/ \E p \in Protocols : TriggerMigration(p)
             \/ MoveStep \/ MuteStep \/ LinkStep \/ Outside \/ Expire
             \/ UNCHANGED vars
      PROVE  Goal(ng)
  <2>1. /\ UNCHANGED <<pc, on, target, groupCount, broken>>
        /\ ng \in groupSent => ng \in groupSent'
    BY <1>3, GroupFrame
  <2> QED
    BY <1>a, <2>1 DEF GroupMarked
<1> QED
  BY <1>1, <1>2, <1>3, Kinds

-----------------------------------------------------------------------------
\* The types hold initially.
LEMMA TypeInit == Init => TypeOK
<1> SUFFICES ASSUME Init PROVE TypeOK
  OBVIOUS
<1>1. CountsTyped /\ MarksTyped
  BY BoundsAssumption DEF Init, CountsTyped, MarksTyped
<1>2. PromptsTyped
  BY DEF Init, PromptsTyped
<1>3. LinksTyped
  <2>1. accepts \subseteq Dest \X Bots
    BY ConfiguredAssumption DEF Init, Dest, Bots
  <2> QED
    BY <2>1, ConfiguredAssumption DEF Init, LinksTyped
<1>4. RunsTyped
  <2>1. custom \in [Runs -> BOOLEAN]
    BY Zenon DEF Init
  <2> QED
    BY <2>1, BoundsAssumption DEF Init, RunsTyped, Bots
<1> QED
  BY <1>1, <1>2, <1>3, <1>4, TypeParts

\* IInv is an inductive invariant.
LEMMA Inductive == Spec => []IInv
<1>1. Init => IInv
  <2> SUFFICES ASSUME Init PROVE IInv
    OBVIOUS
  <2>1. TypeOK
    BY TypeInit
  <2>2. Owned /\ Progress /\ OutcomeTruthful /\ HeldBack
    BY DEF Init, Owned, Progress, OutcomeTruthful, HeldBack
  <2>3. LinksAsked
    BY DEF Init, LinksAsked
  <2>4. RunsOverlap /\ GroupOnce /\ PromptsOverlap /\ PromptOnce
    BY DEF Init, RunsOverlap, Busy, GroupOnce, PromptsOverlap, PromptOnce
  <2> QED
    BY <2>1, <2>2, <2>3, <2>4 DEF IInv
<1>2. IInv /\ [Next]_vars => IInv'
  <2> SUFFICES ASSUME IInv, [Next]_vars PROVE IInv'
    OBVIOUS
  <2> USE DEF IInv
  <2>1. RunsTyped'
    <3>1. CASE UNCHANGED <<runVars, groupCount, broken, faulted>>
      BY <3>1, TypeParts DEF RunsTyped, runVars
    <3> QED
      BY <3>1, RunsTypeStep, RunFrame, Kinds
  <2>2. RunsOwned' /\ Progress' /\ OutcomeTruthful'
    BY RunsStep
  <2>3. TypeOK'
    <3>1. LinksTyped' /\ MarksTyped' /\ PromptsTyped' /\ CountsTyped'
      BY LinksTypeStep, MarksTypeStep, PromptsTypeStep, CountsStep
    <3> QED
      BY <2>1, <3>1
         DEF TypeOK, RunsTyped, LinksTyped, MarksTyped, PromptsTyped, CountsTyped
  <2>4. Owned'
    BY <2>2, LinksTypeStep, PromptsTypeStep DEF Owned, RunsOwned
  <2>5. HeldBack' /\ LinksAsked'
    BY HeldStep, LinksStep
  <2>6. RunsOverlap' /\ GroupOnce' /\ PromptsOverlap' /\ PromptOnce'
    BY OverlapStep, GroupStep, PromptsStep
  <2> QED
    BY <2>2, <2>3, <2>4, <2>5, <2>6
<1> QED
  BY <1>1, <1>2, PTL DEF Spec

\* The variables keep their types: what the handlers of the two bots, the runs
\* of deliverTelegram and the prompts leave in Redis is what they read.
THEOREM TypeCorrect == Spec => []TypeOK
<1>1. IInv => TypeOK
  BY DEF IInv
<1> QED
  BY <1>1, Inductive, PTL

\* A subscriber who muted before a run of deliverTelegram began and did not
\* unmute gets nothing from it, unless a Redis call of the run failed.
THEOREM MutesAreHonoured == Spec => []MuteHonoured
<1>1. IInv => MuteHonoured
  BY DEF IInv, HeldBack, MuteHonoured
<1> QED
  BY <1>1, Inductive, PTL

\* The answer of deliverTelegram says whether every part arrived; only a
\* failed Redis call makes it a failure after they did.
THEOREM OutcomesAreTrue == Spec => []OutcomeTruthful
<1>1. IInv => OutcomeTruthful
  BY DEF IInv
<1> QED
  BY <1>1, Inductive, PTL

\* A group is written to only by a link its administrator asked for, and it
\* gets a notification twice, or a chat a prompt, only by overlap, expiry or
\* a failed Redis call.
THEOREM SendsAreExplained == Spec => []SendsExplained
<1>1. IInv => SendsExplained
  <2> SUFFICES ASSUME IInv PROVE SendsExplained
    OBVIOUS
  <2>1. faults \in Nat
    BY BoundsAssumption DEF IInv, TypeOK
  <2>2. ASSUME NEW ng \in Notifs \X Groups
        PROVE  /\ groupCount[ng] > 0 => <<ProtocolOf[ng[1]], ng[2]>> \in authorised
               /\ groupCount[ng] > 1 + broken[ng] => ng \in overlapped \/ faults > 0
    <3>1. groupCount[ng] \in Nat /\ broken[ng] \in Nat
      BY DEF IInv, TypeOK
    <3> QED
      BY <2>1, <3>1 DEF IInv, LinksAsked, GroupOnce
  <2>3. ASSUME NEW cp \in Chats \X Protocols, promptCount[cp] > 1
        PROVE  cp \in promptOverlap \/ faults > 0
    <3>1. promptCount[cp] \in Nat
      BY DEF IInv, TypeOK
    <3> QED
      BY <2>1, <2>3, <3>1 DEF IInv, PromptOnce
  <2> QED
    BY <2>2, <2>3 DEF SendsExplained
<1> QED
  BY <1>1, Inductive, PTL
=============================================================================
