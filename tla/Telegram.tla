------------------------------ MODULE Telegram ------------------------------
(***************************************************************************)
(* Telegram delivery: ChannelDispatchService.deliverTelegram sends to the  *)
(* subscriber's chat (through Herald's bot or the protocol's own) and to   *)
(* the protocol's group, TelegramService.sendNotification keeps a marker   *)
(* for chats that refused a bot, TelegramMigrationService moves chats to   *)
(* the protocol's bot and handles that bot's updates.  Redis keys are sets *)
(* of what they are keyed by; a key with a TTL may expire at any time.     *)
(***************************************************************************)
EXTENDS Naturals, FiniteSets

CONSTANTS
  Protocols, Chats, Groups, Categories,
  Mutable,        \* the categories /mute accepts
  Notifs, ProtocolOf, ChatOf, CategoryOf,
  Media,          \* notifications whose protocol has a banner or a video
  Templated,      \* notifications composed with a template of their protocol
  BodyLength, FrameLength,  \* lengths of the body and of what is put around it
  Links,          \* buttons its links and the protocol's own buttons make
  MaxButtons,     \* TELEGRAM_MAX_BUTTONS
  Runs,           \* worker runs that may be under way at once
  Nonces, NonceProtocol, NonceBot,
  Configured,     \* protocols with a bot of their own and a group at the start
  None,
  MaxRuns,        \* bound: runs of a notification (retries, stalled jobs)
  MaxEvents,      \* bound: acts of users and owners, expiries
  MaxFaults       \* bound: failed Redis calls

Herald == "herald"
Bots   == {Herald} \cup Protocols
Dest   == Chats \cup Groups
Tasks  == Runs \cup Chats      \* prompts: one per run, one per chat of a fan-out

ASSUME NotifAssumption ==
  /\ ProtocolOf \in [Notifs -> Protocols]
  /\ ChatOf     \in [Notifs -> Chats]
  /\ CategoryOf \in [Notifs -> Categories]
  /\ BodyLength \in [Notifs -> Nat] /\ FrameLength \in [Notifs -> Nat]
  /\ Links \in [Notifs -> Nat] /\ MaxButtons \in Nat
  /\ Media \subseteq Notifs /\ Templated \subseteq Notifs
  /\ Mutable \subseteq Categories
ASSUME NonceAssumption ==
  /\ NonceProtocol \in [Nonces -> Protocols]
  /\ NonceBot \in [Nonces -> {"custom", "shared"}]
ASSUME ConfiguredAssumption == Configured \subseteq Protocols
ASSUME NoneAssumption == None \notin Groups \cup Notifs \cup (Chats \X Protocols)
ASSUME DistinctAssumption == Herald \notin Protocols /\ Runs \cap Chats = {}
ASSUME BoundsAssumption == MaxRuns \in Nat /\ MaxEvents \in Nat /\ MaxFaults \in Nat

VARIABLES
  bot, group,                   \* protocol_settings: custom bot, linked group
  linking, linkNonce, clearing, \* handlers between their read and their write
  blocked, mutedProtocol, mutedCategory, migrated, prompted, groupSent, nonce,  \* Redis
  accepts,                      \* Telegram: <<chat, bot>> the bot may write to
  pc, on, custom, target, via, chunks, part, gpart, outcome,   \* runs
  stage, to,                    \* prompts under way
  runsOf, events, faults,
  \* History: runs that met a failed Redis call, or an answer of Telegram that got
  \* lost on the way to the subscriber; runs whose chat has been muted since they
  \* began; how often a group got the first part of a notification (no other part
  \* comes more often), how often a message to it broke off with that part in the
  \* group; prompts sent; what else explains a repeat; links an administrator asked
  \* for.
  faulted, unanswered, held, groupCount, broken, promptCount, overlapped, promptOverlap,
  authorised

dbVars     == <<bot, group, linking, linkNonce, clearing>>
markVars   == <<mutedProtocol, mutedCategory, migrated, nonce>>
runVars    == <<pc, on, custom, target, via, chunks, part, gpart, outcome, runsOf, unanswered>>
promptVars == <<stage, to, prompted, promptCount, promptOverlap>>
groupVars  == <<groupSent, groupCount, broken, overlapped>>
vars == <<dbVars, markVars, runVars, promptVars, groupVars, blocked, accepts,
          events, faults, faulted, held, authorised>>

(* Composing: lengths are all that delivery depends on. *)

MaxMessage == 4096     \* TELEGRAM_MAX_MESSAGE_LENGTH
MaxCaption == 1024     \* TELEGRAM_MAX_CAPTION_LENGTH
Headroom   == 15       \* room for the part indicator

Cut(len, max) == IF len > max THEN max ELSE len

\* Without a template the body is cut to the length of a caption first.
FormatText(n) == Cut(Cut(BodyLength[n], MaxCaption) + FrameLength[n], MaxMessage)

FormatCustomMessage(n) == Cut(BodyLength[n] + FrameLength[n], MaxMessage)

Composed(n) == IF n \in Templated THEN FormatCustomMessage(n) ELSE FormatText(n)

\* How many parts splitIntoChunks can make: what remains above the limit is so
\* short that the paragraphs decide between two and three.
SplitIntoChunks(len) == IF len <= MaxMessage - Headroom THEN {1} ELSE {2, 3}

\* A message with media is one message with a caption.
PartsOf(n) == IF n \in Media THEN {1} ELSE SplitIntoChunks(Composed(n))

\* The mute button comes last, if the other buttons left room for it.
HasMuteButton(n) == Links[n] < MaxButtons

MutedBy(n, protocols, categories) == \/ <<ChatOf[n], ProtocolOf[n]>> \in protocols
                                     \/ <<ChatOf[n], CategoryOf[n]>> \in categories

Muted(n) == MutedBy(n, mutedProtocol, mutedCategory)

TypeOK ==
  /\ bot \subseteq Protocols
  /\ group \in [Protocols -> Groups \cup {None}]
  /\ linking \in [Protocols -> Groups \cup {None}]
  /\ linkNonce \in [Protocols -> Nonces \cup {None}]
  /\ clearing \subseteq Protocols
  /\ blocked \subseteq Dest
  /\ mutedProtocol \subseteq Chats \X Protocols
  /\ mutedCategory \subseteq Chats \X Mutable
  /\ migrated \subseteq Chats \X Protocols
  /\ prompted \subseteq Chats \X Protocols
  /\ groupSent \subseteq Notifs \X Groups
  /\ nonce \subseteq Nonces
  /\ accepts \subseteq Dest \X Bots
  /\ pc \in [Runs -> {"idle", "mutes", "route", "user", "more", "group", "gsend",
                      "gmore", "gmark", "end"}]
  /\ on \in [Runs -> Notifs \cup {None}]
  /\ custom \in [Runs -> BOOLEAN]
  /\ target \in [Runs -> Groups \cup {None}]
  /\ via \in [Runs -> Bots]
  /\ chunks \in [Notifs -> 1..3]
  /\ part \in [Runs -> 0..3]
  /\ gpart \in [Runs -> 0..3]
  /\ outcome \in [Runs -> {"none", "success", "failed"}]
  /\ stage \in [Tasks -> {"idle", "check", "send"}]
  /\ to \in [Tasks -> (Chats \X Protocols) \cup {None}]
  /\ runsOf \in [Notifs -> 0..MaxRuns]
  /\ events \in 0..MaxEvents
  /\ faults \in 0..MaxFaults
  /\ faulted \subseteq Runs
  /\ unanswered \subseteq Runs
  /\ held \subseteq Runs
  /\ groupCount \in [Notifs \X Groups -> Nat]
  /\ broken \in [Notifs \X Groups -> Nat]
  /\ promptCount \in [Chats \X Protocols -> Nat]
  /\ overlapped \subseteq Notifs \X Groups
  /\ promptOverlap \subseteq Chats \X Protocols
  /\ authorised \subseteq Protocols \X Groups

\* Some protocols have a bot and a group; no chat has moved yet, and no
\* notification of the instance has been run.
Init ==
  /\ bot = Configured
  /\ group \in {f \in [Protocols -> Groups \cup {None}] :
                 \A p \in Protocols : f[p] = None <=> p \notin Configured}
  /\ authorised = {pg \in Protocols \X Groups : group[pg[1]] = pg[2]}
  /\ linking = [p \in Protocols |-> None] /\ linkNonce = [p \in Protocols |-> None]
  /\ clearing = {}
  /\ migrated = {}
  /\ blocked = {} /\ mutedProtocol = {} /\ mutedCategory = {} /\ prompted = {}
  /\ groupSent = {} /\ nonce = {}
  /\ accepts = (Dest \X {Herald}) \cup {gp \in Groups \X bot : group[gp[2]] = gp[1]}
  /\ pc = [r \in Runs |-> "idle"] /\ on = [r \in Runs |-> None]
  /\ custom = [r \in Runs |-> FALSE] /\ target = [r \in Runs |-> None]
  /\ via = [r \in Runs |-> Herald]
  /\ chunks \in {f \in [Notifs -> 1..3] : \A n \in Notifs : f[n] \in PartsOf(n)}
  /\ part = [r \in Runs |-> 0] /\ gpart = [r \in Runs |-> 0]
  /\ outcome = [r \in Runs |-> "none"]
  /\ stage = [t \in Tasks |-> "idle"] /\ to = [t \in Tasks |-> None]
  /\ runsOf = [n \in Notifs |-> 0]
  /\ events = 0 /\ faults = 0
  /\ faulted = {} /\ unanswered = {} /\ held = {} /\ overlapped = {} /\ promptOverlap = {}
  /\ groupCount = [ng \in Notifs \X Groups |-> 0]
  /\ broken = [ng \in Notifs \X Groups |-> 0]
  /\ promptCount = [cp \in Chats \X Protocols |-> 0]

Event == events < MaxEvents /\ events' = events + 1

Goto(r, p) == pc' = [pc EXCEPT ![r] = p]

Goes(r, p) == Goto(r, p) /\ UNCHANGED <<outcome, custom, target, via>>

\* The run answers; what it read is forgotten.
Ends(r, o) ==
  /\ Goto(r, "end")
  /\ outcome' = [outcome EXCEPT ![r] = o]
  /\ custom' = [custom EXCEPT ![r] = FALSE]
  /\ target' = [target EXCEPT ![r] = None]
  /\ via' = [via EXCEPT ![r] = Herald]

\* A Redis call of run r fails (bad) or not.
Redis(r, bad) ==
  IF bad THEN /\ faults < MaxFaults
              /\ faults' = faults + 1
              /\ faulted' = faulted \cup {r}
         ELSE UNCHANGED <<faults, faulted>>

\* The same, outside a run.
Fault(bad) ==
  IF bad THEN /\ faults < MaxFaults /\ faults' = faults + 1 /\ UNCHANGED faulted
         ELSE UNCHANGED <<faults, faulted>>

-----------------------------------------------------------------------------
(* A run of deliverTelegram. *)

Busy(r) == pc[r] \notin {"idle", "end"}

\* The settings are read once, at the start.
Begin(r, n) ==
  /\ ~Busy(r) /\ stage[r] = "idle"
  /\ runsOf[n] < MaxRuns
  /\ runsOf' = [runsOf EXCEPT ![n] = @ + 1]
  /\ on' = [on EXCEPT ![r] = n]
  /\ custom' = [custom EXCEPT ![r] = ProtocolOf[n] \in bot]
  /\ target' = [target EXCEPT ![r] = group[ProtocolOf[n]]]
  /\ part' = [part EXCEPT ![r] = 0]
  /\ gpart' = [gpart EXCEPT ![r] = 0]
  /\ outcome' = [outcome EXCEPT ![r] = "none"]
  /\ via' = [via EXCEPT ![r] = Herald]
  /\ faulted' = faulted \ {r}
  /\ unanswered' = unanswered \ {r}
  /\ held' = IF Muted(n) THEN held \cup {r} ELSE held \ {r}
  /\ overlapped' = IF \E q \in Runs \ {r} : Busy(q) /\ on[q] = n
                   THEN overlapped \cup ({n} \X Groups) ELSE overlapped
  /\ Goto(r, "mutes")
  /\ UNCHANGED <<dbVars, markVars, chunks, promptVars, groupSent, groupCount, broken,
                 blocked, accepts, events, faults, authorised>>

\* Mutant of Silenced: the category is not looked at.
SilencedProtocolOnly(r, bad) ==
  ~bad /\ <<ChatOf[on[r]], ProtocolOf[on[r]]>> \in mutedProtocol

\* A read that fails answers "not muted".
Silenced(r, bad) == ~bad /\ Muted(on[r])

CheckMutes(r) ==
  /\ pc[r] = "mutes"
  /\ \E bad \in BOOLEAN :
       /\ Redis(r, bad)
       /\ IF Silenced(r, bad) THEN Ends(r, "failed")
                              ELSE Goes(r, "route")
  /\ UNCHANGED <<dbVars, markVars, on, chunks, part, gpart, runsOf, unanswered,
                 promptVars, groupVars, blocked, accepts, events, held, authorised>>

\* A read that fails answers "no".
IsMigrated(r, bad) == ~bad /\ <<ChatOf[on[r]], ProtocolOf[on[r]]>> \in migrated

\* A chat that has moved is written to by the protocol's bot.
Route(r) ==
  /\ pc[r] = "route"
  /\ \E bad \in BOOLEAN :
       /\ Redis(r, bad)
       /\ via' = [via EXCEPT ![r] =
            IF custom[r] /\ IsMigrated(r, bad)
            THEN ProtocolOf[on[r]] ELSE Herald]
  /\ Goto(r, "user")
  /\ UNCHANGED <<dbVars, markVars, on, custom, target, chunks, part, gpart, runsOf,
                 outcome, unanswered, promptVars, groupVars, blocked, accepts, events,
                 held, authorised>>

\* What a call of the Bot API comes to: the message arrived, the message arrived
\* and the call throws (its answer got lost), or the message did not arrive.
Arrived == {"sent", "lost"}
Results == Arrived \cup {"blocked", "forbidden", "error"}

\* One call of the Bot API: a 403 leaves the marker for the chat, whichever bot
\* it was (unless that write fails).
Api(d, b, res, bad) ==
  \/ res \in Arrived /\ <<d, b>> \in accepts /\ ~bad /\ UNCHANGED blocked
  \/ res = "error" /\ ~bad /\ UNCHANGED blocked
  \/ /\ res = "forbidden"
     /\ <<d, b>> \notin accepts
     /\ blocked' = IF bad THEN blocked ELSE blocked \cup {d}

\* sendNotification: the marker is read first (a failed read sends), then the
\* first part goes out.
SendNotification(r, d, b, res) ==
  \E badRead, badWrite \in BOOLEAN :
    /\ ~(badRead /\ badWrite)
    /\ Redis(r, badRead \/ badWrite)
    /\ \/ d \in blocked /\ ~badRead /\ ~badWrite /\ res = "blocked" /\ UNCHANGED blocked
       \/ (d \notin blocked \/ badRead) /\ Api(d, b, res, badWrite)

\* The parts of a long text follow one by one, without reading the marker again.
NextPart(r, d, b, res) == \E bad \in BOOLEAN : Redis(r, bad) /\ Api(d, b, res, bad)

\* After the last part through Herald's bot a chat that has not moved is prompted,
\* and nobody waits for the prompt.
Prompts(r) == custom[r] /\ via[r] = Herald

StartPrompt(t, cp) ==
  /\ stage' = [stage EXCEPT ![t] = "check"]
  /\ to' = [to EXCEPT ![t] = cp]
  /\ promptOverlap' = IF \E u \in Tasks \ {t} : stage[u] # "idle" /\ to[u] = cp
                      THEN promptOverlap \cup {cp} ELSE promptOverlap
  /\ UNCHANGED <<prompted, promptCount>>

SendUser(r) ==
  LET n == on[r] IN
  /\ pc[r] \in {"user", "more"}
  /\ \E res \in Results :
       /\ IF pc[r] = "user" THEN SendNotification(r, ChatOf[n], via[r], res)
                            ELSE NextPart(r, ChatOf[n], via[r], res)
       /\ part' = [part EXCEPT ![r] = IF res \in Arrived THEN @ + 1 ELSE @]
       /\ unanswered' = IF res = "lost" THEN unanswered \cup {r} ELSE unanswered
       /\ CASE res # "sent" -> Ends(r, "failed") /\ UNCHANGED promptVars
            [] res = "sent" /\ part[r] + 1 < chunks[on[r]] ->
                 Goes(r, "more") /\ UNCHANGED promptVars
            [] OTHER -> /\ Goes(r, "group")
                        /\ IF Prompts(r) THEN StartPrompt(r, <<ChatOf[n], ProtocolOf[n]>>)
                                         ELSE UNCHANGED promptVars
  /\ UNCHANGED <<dbVars, markVars, on, chunks, gpart, runsOf,
                 groupVars, accepts, events, held, authorised>>

\* The group marker: a read that fails answers "not sent".
GroupCheck(r) ==
  /\ pc[r] = "group"
  /\ \/ /\ target[r] = None
        /\ Ends(r, "success") /\ UNCHANGED <<faults, faulted>>
     \/ /\ target[r] # None
        /\ \E bad \in BOOLEAN :
             /\ Redis(r, bad)
             /\ IF ~bad /\ <<on[r], target[r]>> \in groupSent
                THEN Ends(r, "success")
                ELSE Goes(r, "gsend")
  /\ UNCHANGED <<dbVars, markVars, on, chunks, part, gpart, runsOf, unanswered,
                 promptVars, groupVars, blocked, accepts, events, held, authorised>>

\* Where a run goes after a part of the group's message got there.
NextGroupPart(r) ==
  IF gpart[r] + 1 < chunks[on[r]]
  THEN Goes(r, "gmore") /\ gpart' = [gpart EXCEPT ![r] = @ + 1]
  ELSE Goes(r, "gmark") /\ gpart' = [gpart EXCEPT ![r] = 0]

\* Mutant of AfterGroupSend: a failed group message fails the whole delivery.
AfterGroupSendThrows(r, res) ==
  IF res = "sent" THEN NextGroupPart(r)
                  ELSE Ends(r, "failed") /\ gpart' = [gpart EXCEPT ![r] = 0]

\* A message to the group that fails, at whichever part, is logged and forgotten.
AfterGroupSend(r, res) ==
  IF res = "sent" THEN NextGroupPart(r)
                  ELSE Ends(r, "success") /\ gpart' = [gpart EXCEPT ![r] = 0]

\* The group gets the same parts one by one, from the protocol's bot if it has one.
GroupSend(r) ==
  LET b  == IF custom[r] THEN ProtocolOf[on[r]] ELSE Herald
      ng == <<on[r], target[r]>>
  IN
  /\ pc[r] \in {"gsend", "gmore"}
  /\ \E res \in Results :
       /\ IF pc[r] = "gsend" THEN SendNotification(r, target[r], b, res)
                             ELSE NextPart(r, target[r], b, res)
       /\ groupCount' = IF pc[r] = "gsend" /\ res \in Arrived
                        THEN [groupCount EXCEPT ![ng] = @ + 1] ELSE groupCount
       /\ broken' = IF res = "lost" \/ (pc[r] = "gmore" /\ res # "sent")
                    THEN [broken EXCEPT ![ng] = @ + 1] ELSE broken
       /\ AfterGroupSend(r, res)
  /\ UNCHANGED <<dbVars, markVars, on, chunks, part, runsOf, unanswered,
                 promptVars, groupSent, overlapped, accepts, events, held, authorised>>

\* Mutant of Marker: the marker is keyed by the chat of the subscriber's group only
\* when the run used Herald's bot.
MarkerHeraldOnly(r) == IF via[r] = Herald THEN {<<on[r], target[r]>>} ELSE {}

Marker(r) == {<<on[r], target[r]>>}

\* Writing the marker is not guarded: when it fails the run fails, after its
\* messages went out.  Mapping the message and pinning it are best effort.
GroupMark(r) ==
  /\ pc[r] = "gmark"
  /\ \E bad \in BOOLEAN :
       /\ Redis(r, bad)
       /\ IF bad THEN Ends(r, "failed") /\ UNCHANGED groupSent
                 ELSE Ends(r, "success") /\ groupSent' = groupSent \cup Marker(r)
  /\ UNCHANGED <<dbVars, markVars, on, chunks, part, gpart, runsOf, unanswered,
                 promptVars, groupCount, broken, overlapped, blocked, accepts, events,
                 held, authorised>>

-----------------------------------------------------------------------------
(* sendSinglePrompt, from a run or from a fan-out. *)

Rest == <<dbVars, markVars, runVars, groupVars, blocked, accepts, held, authorised>>

\* A read that fails answers "no".
HasBeenPrompted(t, bad) == ~bad /\ to[t] \in prompted

\* A write that fails is swallowed.
MarkPrompted(t, bad) == prompted' = IF bad THEN prompted ELSE prompted \cup {to[t]}

PromptEnds(t) == /\ stage' = [stage EXCEPT ![t] = "idle"]
                 /\ to' = [to EXCEPT ![t] = None]

PromptCheck(t) ==
  /\ stage[t] = "check"
  /\ \E bad \in BOOLEAN :
       /\ Fault(bad)
       /\ IF HasBeenPrompted(t, bad)
          THEN PromptEnds(t)
          ELSE stage' = [stage EXCEPT ![t] = "send"] /\ UNCHANGED to
  /\ UNCHANGED <<Rest, prompted, promptCount, promptOverlap, events>>

\* Only a prompt that Telegram confirmed is marked.
PromptSend(t) ==
  /\ stage[t] = "send"
  /\ PromptEnds(t)
  /\ \/ UNCHANGED <<prompted, promptCount, promptOverlap, faults, faulted>>
     \/ /\ <<to[t][1], Herald>> \in accepts
        /\ promptCount' = [promptCount EXCEPT ![to[t]] = @ + 1]
        /\ \/ /\ \E bad \in BOOLEAN : Fault(bad) /\ MarkPrompted(t, bad)
              /\ UNCHANGED promptOverlap
           \/ /\ promptOverlap' = promptOverlap \cup {to[t]}
              /\ UNCHANGED <<prompted, faults, faulted>>
  /\ UNCHANGED <<Rest, events>>

\* sendMigrationPrompts: every subscriber with a chat that has not moved (those
\* whose identity does not resolve are left out).
SendMigrationPrompts(p) ==
  /\ p \in bot
  /\ \E S \in SUBSET {c \in Chats : stage[c] = "idle" /\ <<c, p>> \notin migrated} :
       /\ stage' = [t \in Tasks |-> IF t \in S THEN "check" ELSE stage[t]]
       /\ to' = [t \in Tasks |-> IF t \in S THEN <<t, p>> ELSE to[t]]
       /\ promptOverlap' = promptOverlap \cup
            {<<c, p>> : c \in {d \in S : \E u \in Tasks : stage[u] # "idle" /\ to[u] = <<d, p>>}}
  /\ UNCHANGED <<Rest, prompted, promptCount, faults, faulted>>

\* The endpoint that admin-api calls once a token is saved.
TriggerMigration(p) == Event /\ SendMigrationPrompts(p)

-----------------------------------------------------------------------------
(* Users, owners and the bots' updates. *)

Quiet == <<runVars, groupVars, faults, faulted>>

\* admin-api saves or removes the token; removing it clears what Redis knows of
\* the move, key pattern by key pattern, and a failed SCAN leaves a pattern.
SaveBotToken(p) ==
  /\ Event /\ p \notin bot
  /\ bot' = bot \cup {p}
  /\ UNCHANGED <<Quiet, group, linking, linkNonce, clearing, markVars, promptVars,
                 blocked, accepts, held, authorised>>

RemoveBotToken(p) ==
  /\ Event /\ p \in bot
  /\ bot' = bot \ {p}
  /\ UNCHANGED <<Quiet, group, linking, linkNonce, clearing, markVars, promptVars,
                 blocked, accepts, held, authorised>>

ClearMigrationState(p) ==
  \E badMigrated, badPrompted \in BOOLEAN :
    /\ Fault(badMigrated \/ badPrompted)
    /\ migrated' = IF badMigrated THEN migrated ELSE {cp \in migrated : cp[2] # p}
    /\ IF badPrompted THEN UNCHANGED <<prompted, promptCount>>
       ELSE /\ prompted' = {cp \in prompted : cp[2] # p}
            /\ promptCount' = [cp \in Chats \X Protocols |->
                                 IF cp[2] = p THEN 0 ELSE promptCount[cp]]

\* The endpoint that admin-api calls once a token is removed.
ClearMigration(p) ==
  /\ Event
  /\ ClearMigrationState(p)
  /\ UNCHANGED <<dbVars, mutedProtocol, mutedCategory, nonce, runVars, stage, to,
                 promptOverlap, groupVars, blocked, accepts, held, authorised>>

\* A user starts the protocol's bot; a user blocks a bot.
UserStarts(c, p) ==
  /\ Event /\ <<c, p>> \notin accepts
  /\ accepts' = accepts \cup {<<c, p>>}
  /\ UNCHANGED <<Quiet, dbVars, markVars, promptVars, blocked, held, authorised>>

UserBlocks(c, b) ==
  /\ Event /\ <<c, b>> \in accepts
  /\ accepts' = accepts \ {<<c, b>>}
  /\ UNCHANGED <<Quiet, dbVars, markVars, promptVars, blocked, held, authorised>>

\* A write that fails is swallowed.
MarkMigrated(c, p, bad) == migrated' = IF bad THEN migrated ELSE migrated \cup {<<c, p>>}

\* The update of a /start by the prompt's link marks the chat as moved.
HandleStart(c, p) ==
  /\ accepts' = accepts \cup {<<c, p>>}
  /\ \E bad \in BOOLEAN : Fault(bad) /\ MarkMigrated(c, p, bad)
  /\ UNCHANGED <<runVars, groupVars, dbVars, mutedProtocol, mutedCategory, nonce,
                 promptVars, blocked, held, authorised>>

\* The button under a notification mutes its protocol for the chat, whichever bot
\* is asked: Herald's here, the protocol's below.
MuteProtocol(n) ==
  /\ runsOf[n] > 0 /\ HasMuteButton(n)
  /\ mutedProtocol' = mutedProtocol \cup {<<ChatOf[n], ProtocolOf[n]>>}
  /\ UNCHANGED <<Quiet, dbVars, mutedCategory, migrated, nonce, promptVars, blocked,
                 accepts, held, authorised>>

HandleMuteCallback(n) == MuteProtocol(n)

\* Which protocol the notification belongs to is read from its row: the bot that is
\* asked need not be its protocol's.
HandleCustomBotCallbackQuery(n) == MuteProtocol(n)

MuteCategory(c, k) ==
  /\ mutedCategory' = mutedCategory \cup {<<c, k>>}
  /\ UNCHANGED <<Quiet, dbVars, mutedProtocol, migrated, nonce, promptVars, blocked,
                 accepts, held, authorised>>

StillHeld(protocols, categories) ==
  {r \in held : on[r] # None /\ MutedBy(on[r], protocols, categories)}

UnmuteCategory(c, k) ==
  /\ mutedCategory' = mutedCategory \ {<<c, k>>}
  /\ held' = StillHeld(mutedProtocol, mutedCategory \ {<<c, k>>})
  /\ UNCHANGED <<Quiet, dbVars, mutedProtocol, migrated, nonce, promptVars, blocked,
                 accepts, authorised>>

\* The commands of Herald's bot and of the protocol's share the keys.
HandleMuteCommand(c, k)   == k \in Mutable /\ MuteCategory(c, k)
HandleUnmuteCommand(c, k) == k \in Mutable /\ UnmuteCategory(c, k)
CustomBotMute(c, k)       == k \in Mutable /\ MuteCategory(c, k)
CustomBotUnmute(c, k)     == k \in Mutable /\ UnmuteCategory(c, k)

\* The portal hands out a setup nonce.
CreateNonce(x) ==
  /\ Event /\ x \notin nonce
  /\ nonce' = nonce \cup {x}
  /\ UNCHANGED <<Quiet, dbVars, mutedProtocol, mutedCategory, migrated, promptVars,
                 blocked, accepts, held, authorised>>

\* Who wrote in the group: a lookup that fails answers "no".
Standings == {"administrator", "member", "unknown"}
CheckIsAdmin(standing) == standing = "administrator"

NonceFits(p, x) == NonceBot[x] = "custom" /\ NonceProtocol[x] = p

\* /start setup_x in group g, received by the bot of p: an administrator, a live
\* nonce, made for this bot.  The link is written for the nonce's protocol.
LinkRead(p, g, x, standing) ==
  /\ accepts' = accepts \cup {<<g, p>>}
  /\ authorised' = IF /\ standing = "administrator" /\ x \in nonce
                      /\ NonceBot[x] = "custom" /\ NonceProtocol[x] = p
                   THEN authorised \cup {<<p, g>>} ELSE authorised
  /\ IF CheckIsAdmin(standing) /\ x \in nonce /\ NonceFits(p, x)
     THEN /\ linking' = [linking EXCEPT ![NonceProtocol[x]] = g]
          /\ linkNonce' = [linkNonce EXCEPT ![NonceProtocol[x]] = x]
     ELSE UNCHANGED <<linking, linkNonce>>
  /\ UNCHANGED <<Quiet, bot, group, clearing, markVars, promptVars, blocked, held>>

\* The nonce is written back as completed, expired meanwhile or not, and may be
\* used again until it expires.
LinkWrite(p) ==
  /\ linking[p] # None
  /\ group' = [group EXCEPT ![p] = linking[p]]
  /\ nonce' = nonce \cup {linkNonce[p]}
  /\ linking' = [linking EXCEPT ![p] = None]
  /\ linkNonce' = [linkNonce EXCEPT ![p] = None]
  /\ UNCHANGED <<Quiet, bot, clearing, mutedProtocol, mutedCategory, migrated,
                 promptVars, blocked, accepts, events, held, authorised>>

\* The bot is removed from a group; if that is the linked one the link goes, in
\* a second step that does not look again.
KickedRead(p, g) ==
  /\ accepts' = accepts \ {<<g, p>>}
  /\ clearing' = IF group[p] = g THEN clearing \cup {p} ELSE clearing
  /\ UNCHANGED <<Quiet, bot, group, linking, linkNonce, markVars, promptVars, blocked,
                 held, authorised>>

KickedClear(p) ==
  /\ p \in clearing
  /\ group' = [group EXCEPT ![p] = None]
  /\ clearing' = clearing \ {p}
  /\ UNCHANGED <<Quiet, bot, linking, linkNonce, markVars, promptVars, blocked,
                 accepts, events, held, authorised>>

\* The bot is added to a group: it leaves again unless an administrator added it,
\* and it links nothing.
BotAdded(p, g, standing) ==
  /\ accepts' = IF CheckIsAdmin(standing) THEN accepts \cup {<<g, p>>}
                                          ELSE accepts \ {<<g, p>>}
  /\ UNCHANGED <<Quiet, dbVars, markVars, promptVars, blocked, held, authorised>>

\* The webhook swallows what a handler throws and answers 200: Telegram does not
\* send the update again.  A link may have been written without its nonce.
HandleCustomBotWebhookFails(p) ==
  /\ Fault(TRUE)
  /\ \/ /\ linking[p] # None
        /\ group' \in {group, [group EXCEPT ![p] = linking[p]]}
        /\ linking' = [linking EXCEPT ![p] = None]
        /\ linkNonce' = [linkNonce EXCEPT ![p] = None]
        /\ UNCHANGED clearing
     \/ /\ p \in clearing
        /\ clearing' = clearing \ {p}
        /\ UNCHANGED <<group, linking, linkNonce>>
  /\ UNCHANGED <<bot, markVars, runVars, promptVars, groupVars, blocked, accepts,
                 events, held, authorised>>

GetCustomBotToken(p) == p \in bot

\* An update of the bot of p, if the token is still there.
HandleCustomBotUpdate(p) ==
  /\ Event
  /\ GetCustomBotToken(p)
  /\ \/ \E n \in Notifs : HandleCustomBotCallbackQuery(n)
     \/ \E c \in Chats : \/ HandleStart(c, p)
                         \/ \E k \in Categories : CustomBotMute(c, k) \/ CustomBotUnmute(c, k)
     \/ \E g \in Groups : \/ KickedRead(p, g)
                          \/ \E st \in Standings :
                               \/ BotAdded(p, g, st)
                               \/ \E x \in Nonces : LinkRead(p, g, x, st)

\* An update of Herald's bot.
HandleUpdate ==
  /\ Event
  /\ \/ \E n \in Notifs : HandleMuteCallback(n)
     \/ \E c \in Chats, k \in Categories : HandleMuteCommand(c, k) \/ HandleUnmuteCommand(c, k)

\* clearBlockedChats: one chat, or all.
ClearBlockedChats ==
  /\ \E S \in {{d} : d \in Dest} \cup {Dest} : blocked' = blocked \ S
  /\ UNCHANGED <<Quiet, dbVars, markVars, promptVars, accepts, held, authorised>>

ClearBlocked == Event /\ ClearBlockedChats

\* A key's time is up.
Expire ==
  /\ Event
  /\ \/ \E d \in blocked : blocked' = blocked \ {d}
        /\ UNCHANGED <<markVars, promptVars, groupVars, held>>
     \/ \E m \in mutedProtocol : mutedProtocol' = mutedProtocol \ {m}
        /\ UNCHANGED <<mutedCategory, migrated, nonce, blocked, promptVars, groupVars>>
        /\ held' = StillHeld(mutedProtocol', mutedCategory)
     \/ \E m \in mutedCategory : mutedCategory' = mutedCategory \ {m}
        /\ UNCHANGED <<mutedProtocol, migrated, nonce, blocked, promptVars, groupVars>>
        /\ held' = StillHeld(mutedProtocol, mutedCategory')
     \/ \E m \in migrated : migrated' = migrated \ {m}
        /\ UNCHANGED <<mutedProtocol, mutedCategory, nonce, blocked, promptVars, groupVars, held>>
     \/ \E cp \in prompted : prompted' = prompted \ {cp}
        /\ promptCount' = [promptCount EXCEPT ![cp] = 0]
        /\ UNCHANGED <<markVars, blocked, stage, to, promptOverlap, groupVars, held>>
     \/ \E ng \in groupSent : groupSent' = groupSent \ {ng}
        /\ overlapped' = overlapped \cup {ng}
        /\ UNCHANGED <<markVars, blocked, promptVars, groupCount, broken, held>>
     \/ \E x \in nonce : nonce' = nonce \ {x}
        /\ UNCHANGED <<mutedProtocol, mutedCategory, migrated, blocked, promptVars, groupVars, held>>
  /\ UNCHANGED <<dbVars, runVars, faults, faulted, accepts, authorised>>

-----------------------------------------------------------------------------
RunStep(r) == \/ CheckMutes(r) \/ Route(r) \/ SendUser(r)
              \/ GroupCheck(r) \/ GroupSend(r) \/ GroupMark(r)

TaskStep(t) == PromptCheck(t) \/ PromptSend(t)

HandlerStep(p) == LinkWrite(p) \/ KickedClear(p) \/ HandleCustomBotWebhookFails(p)

Next ==
  \/ \E r \in Runs : RunStep(r) \/ \E n \in Notifs : Begin(r, n)
  \/ \E t \in Tasks : TaskStep(t)
  \/ \E p \in Protocols :
       \/ HandlerStep(p) \/ SaveBotToken(p) \/ RemoveBotToken(p)
       \/ ClearMigration(p) \/ TriggerMigration(p)
       \/ HandleCustomBotUpdate(p)
       \/ \E c \in Chats : UserStarts(c, p)
  \/ \E c \in Chats, b \in Bots : UserBlocks(c, b)
  \/ HandleUpdate
  \/ \E x \in Nonces : CreateNonce(x)
  \/ ClearBlocked
  \/ Expire

Spec == Init /\ [][Next]_vars

-----------------------------------------------------------------------------
\* A subscriber who muted the protocol or the category before a run of
\* deliverTelegram began, and did not unmute, gets nothing from it, unless a
\* Redis call of the run failed (the mute reads fail open).
MuteHonoured == \A r \in Runs : r \in held /\ part[r] > 0 => r \in faulted

\* What deliverTelegram answers is what happened to the subscriber: success
\* means that every part arrived, and failure after every part arrived (which
\* sends it all again) needs a failed Redis call or an answer of Telegram that
\* got lost, never a refusing group.
OutcomeTruthful ==
  \A r \in Runs :
    /\ outcome[r] = "success" => part[r] = chunks[on[r]]
    /\ outcome[r] = "failed" /\ part[r] = chunks[on[r]] => r \in faulted \cup unanswered

\* Every message is accounted for.  A group gets a notification only by a link its
\* administrator asked for at the protocol's own bot with a nonce of that protocol
\* (another protocol's nonce, or the bot being added, links nothing).  It gets a
\* part of it again only if two runs overlapped, the marker expired, a Redis call
\* failed, or once for every earlier message to the group that broke off there
\* (between two parts, or with its answer lost) and left no marker: a retry alone
\* does not repeat it.  A chat is prompted twice within three days only if two
\* prompts were under way at once, an answer got lost or a Redis call failed.
SendsExplained ==
  /\ \A ng \in Notifs \X Groups :
       /\ groupCount[ng] > 0 => <<ProtocolOf[ng[1]], ng[2]>> \in authorised
       /\ groupCount[ng] > 1 + broken[ng] => ng \in overlapped \/ faults > 0
  /\ \A cp \in Chats \X Protocols : promptCount[cp] > 1 => cp \in promptOverlap \/ faults > 0
=============================================================================
