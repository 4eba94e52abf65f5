------------------------------ MODULE Dispatch ------------------------------
(***************************************************************************)
(* ChannelDispatchService.dispatch: which of a recipient's channels a job  *)
(* may use, the e-mail, Telegram and SMS tasks that then run side by side, *)
(* and the result they are folded into.  What a Telegram task does is the  *)
(* subject of module Telegram; here it succeeds or fails.  The module is a *)
(* part: module Digest composes it with the workers that call it.          *)
(***************************************************************************)
EXTENDS Integers, FiniteSets

CONSTANTS
  Workers,                \* processes that run a dispatch
  None,
  SingleGsm, SingleUcs,   \* GSM_7_MAX_LENGTH, UCS_2_MAX_LENGTH
  MaxFaults               \* bound: failed calls to providers and stores

ASSUME SingleAssumption == SingleGsm \in Nat /\ SingleUcs \in 0..SingleGsm
ASSUME FaultsAssumption == MaxFaults \in Nat

Channels == {"email", "telegram", "sms"}

VARIABLES
  pc,          \* idle, begin, tasks, settled: the dispatch call of a worker
  order,       \* its job
  held,        \* its DecryptedChannels
  task,        \* its channel tasks
  report,      \* ChannelDispatchResult, or None
  stamped,     \* workers whose job has trackingEnabled set
  suppressed,  \* an EmailSuppression row of the wallet
  message,     \* the SMS handed to SNS, or None
  faults

dispatchVars == <<pc, order, held, task, report, stamped, message>>

TaskStates == {"none", "check", "compose", "ready", "ok", "failed", "unknown"}

\* A text of an SMS: its length, where its blanks and full stops are, and how
\* many characters are ASCII before the first that is not.
Texts == [length : Nat, spaces : SUBSET Nat, stops : SUBSET Nat, plain : Nat]

Orders == [tier : 0..3, preferred : Channels \cup {None}, channels : SUBSET Channels,
           excluded : SUBSET Channels, urgent : BOOLEAN, hashed : BOOLEAN,
           tracked : BOOLEAN, text : Texts,
           overhead : Nat,       \* length of prefix, subject and suffix
           asciiHead : BOOLEAN]  \* these are ASCII

Fault == faults < MaxFaults /\ faults' = faults + 1

-----------------------------------------------------------------------------
(* resolveAllowedChannels *)

\* Telegram and SMS need a paid tier.
Registered(h, o) == {c \in h : c = "email" \/ o.tier >= 1}

Explicit(o) == IF o.preferred # None THEN {o.preferred} ELSE o.channels

\* An important or critical job goes out by SMS as well.
Escalates(h, o) == o.tier >= 1 /\ o.urgent /\ "sms" \in h /\ "sms" \notin o.excluded

\* Mutant of AllowedChannels: the escalation forgets the exclusions.
AllowedChannelsForced(h, o) ==
  LET registered == Registered(h, o)
      wanted == IF Explicit(o) = {} THEN registered ELSE registered \cap Explicit(o)
  IN  (wanted \ o.excluded)
        \cup (IF o.tier >= 1 /\ o.urgent /\ "sms" \in h THEN {"sms"} ELSE {})

AllowedChannels(h, o) ==
  LET registered == Registered(h, o)
      wanted == IF Explicit(o) = {} THEN registered ELSE registered \cap Explicit(o)
  IN  IF registered = {} THEN {}
      ELSE (wanted \ o.excluded) \cup (IF Escalates(h, o) THEN {"sms"} ELSE {})

-----------------------------------------------------------------------------
(* buildSmsBody *)

\* lastIndexOf within the first n characters.
LastIn(S, n) == LET P == {i \in S : i < n}
                IN  IF P = {} THEN -1 ELSE CHOOSE i \in P : \A k \in P : k <= i

\* truncateToCharLimit: the length left, with the ellipsis.
CutToCharLimit(n, budget) ==
  IF n <= budget THEN n ELSE (IF budget = 0 THEN 0 ELSE budget - 1) + 1

\* What is left of a text: so many characters, cut in the middle of a word or
\* not.
Whole(t)       == [kept |-> t.length, hard |-> FALSE]
AtBoundary(n)  == [kept |-> n, hard |-> FALSE]
Hard(t, budget) == [kept |-> CutToCharLimit(t.length, budget), hard |-> t.length > budget]

\* Mutant of CutToWord: any blank will do.
CutToWordAnywhere(t, budget) ==
  LET space == LastIn(t.spaces, budget)
      stop  == LastIn(t.stops, budget)
  IN  CASE t.length <= budget -> Whole(t)
        [] t.length > budget /\ space >= 0 -> AtBoundary(space)
        [] t.length > budget /\ space < 0 /\ 2 * stop > budget -> AtBoundary(stop + 1)
        [] OTHER -> Hard(t, budget)

\* truncateToWordBoundary: the last blank or else the last full stop of the
\* second half, or else a hard cut.
CutToWord(t, budget) ==
  LET space == LastIn(t.spaces, budget)
      stop  == LastIn(t.stops, budget)
  IN  CASE t.length <= budget -> Whole(t)
        [] t.length > budget /\ 2 * space > budget -> AtBoundary(space)
        [] t.length > budget /\ 2 * space <= budget /\ 2 * stop > budget -> AtBoundary(stop + 1)
        [] OTHER -> Hard(t, budget)

\* The expression wants at least one character: an empty text is not GSM-7.
IsGsm7(t) == t.length > 0 /\ t.plain >= t.length

\* The room is judged by the text alone.  SNS judges the whole message: it is
\* wide (UCS-2) with a prefix or subject that is not ASCII, a character of the
\* text that is not, or the ellipsis of a hard cut.
SmsBody(t, overhead, asciiHead) ==
  LET single == IF IsGsm7(t) THEN SingleGsm ELSE SingleUcs
      budget == IF single > overhead THEN single - overhead ELSE 0
      word   == CutToWord(t, budget)
      cut    == IF word.kept = 0 THEN Hard(t, budget) ELSE word
  IN  [length |-> overhead + cut.kept, kept |-> cut.kept, hard |-> cut.hard,
       budget |-> budget,
       wide |-> ~asciiHead \/ cut.hard \/ cut.kept > t.plain]

SmsOf(o) == SmsBody(o.text, o.overhead, o.asciiHead)

-----------------------------------------------------------------------------
(* dispatch *)

\* A job without a walletHash is not looked up.
Started(o, c) == IF c # "email" THEN "ready" ELSE IF o.hashed THEN "check" ELSE "compose"
Ended(s)   == s \in {"none", "ok", "failed", "unknown"}

NoTasks == [c \in Channels |-> "none"]

\* The tasks of the allowed channels start together; with none the result is
\* a failure, not a vacuous success.
StartDispatch(w) ==
  /\ pc[w] = "begin"
  /\ LET allowed == AllowedChannels(held[w], order[w]) \cap held[w] IN
     /\ task' = [task EXCEPT ![w] =
                   [c \in Channels |-> IF c \in allowed THEN Started(order[w], c) ELSE "none"]]
     /\ IF allowed = {}
          THEN /\ pc' = [pc EXCEPT ![w] = "settled"]
               /\ report' = [report EXCEPT ![w] = [outcomes |-> 0, successes |-> 0, all |-> FALSE]]
          ELSE pc' = [pc EXCEPT ![w] = "tasks"] /\ UNCHANGED report
  /\ UNCHANGED <<order, held, stamped, message, suppressed, faults>>

Turn(w, c, s) == task' = [task EXCEPT ![w][c] = s]

\* The look-up stands outside the task's try: a failure rejects the task.
CheckSuppression(w) ==
  /\ pc[w] = "tasks" /\ task[w]["email"] = "check"
  /\ \/ Turn(w, "email", "unknown") /\ Fault
     \/ Turn(w, "email", IF suppressed THEN "failed" ELSE "compose") /\ UNCHANGED faults
  /\ UNCHANGED <<pc, order, held, report, stamped, message, suppressed>>

\* Sender domain, settings, template; a tracked mail stamps its notification
\* before it is sent, and goes out unstamped if that fails.
ComposeEmail(w) ==
  /\ pc[w] = "tasks" /\ task[w]["email"] = "compose"
  /\ \/ Turn(w, "email", "failed") /\ Fault /\ UNCHANGED stamped
     \/ Turn(w, "email", "ready") /\ order[w].tracked /\ Fault /\ UNCHANGED stamped
     \/ /\ Turn(w, "email", "ready") /\ UNCHANGED faults
        /\ stamped' = IF order[w].tracked THEN stamped \cup {w} ELSE stamped
  /\ UNCHANGED <<pc, order, held, report, message, suppressed>>

\* A provider took the message, or refused it.
Send(w, c) ==
  \/ Turn(w, c, "ok") /\ UNCHANGED faults
  \/ Turn(w, c, "failed") /\ Fault

SendEmail(w) ==
  /\ pc[w] = "tasks" /\ task[w]["email"] = "ready" /\ Send(w, "email")
  /\ UNCHANGED <<pc, order, held, report, stamped, message, suppressed>>

SendTelegram(w) ==
  /\ pc[w] = "tasks" /\ task[w]["telegram"] = "ready" /\ Send(w, "telegram")
  /\ UNCHANGED <<pc, order, held, report, stamped, message, suppressed>>

\* The text is published; or SNS is not set up, or answers with an error or
\* without an id.
SendSms(w) ==
  LET text == SmsOf(order[w]) IN
  \/ Turn(w, "sms", "ok") /\ message' = [message EXCEPT ![w] = text] /\ UNCHANGED faults
  \/ Turn(w, "sms", "failed") /\ Fault /\ message' \in {message, [message EXCEPT ![w] = text]}

DeliverSms(w) ==
  /\ pc[w] = "tasks" /\ task[w]["sms"] = "ready" /\ SendSms(w)
  /\ UNCHANGED <<pc, order, held, report, stamped, suppressed>>

\* Promise.allSettled folded into a ChannelDispatchResult.
Folded(ts) ==
  LET done == {c \in Channels : ts[c] # "none"}
      good == {c \in Channels : ts[c] = "ok"}
  IN  [outcomes |-> Cardinality(done), successes |-> Cardinality(good), all |-> done = good]

\* persistChannelDeliveries writes what no step of the gateway reads, and its
\* failure is only logged.
Settle(w) ==
  /\ pc[w] = "tasks" /\ \A c \in Channels : Ended(task[w][c])
  /\ report' = [report EXCEPT ![w] = Folded(task[w])]
  /\ pc' = [pc EXCEPT ![w] = "settled"]
  /\ UNCHANGED <<order, held, task, stamped, message, suppressed, faults>>

DispatchStep(w) ==
  \/ StartDispatch(w) \/ CheckSuppression(w) \/ ComposeEmail(w)
  \/ SendEmail(w) \/ SendTelegram(w) \/ DeliverSms(w) \/ Settle(w)

-----------------------------------------------------------------------------
Reached(w) == {c \in Channels : task[w][c] = "ok"}
Tried(w)   == {c \in Channels : task[w][c] # "none"}

\* Whatever the options of a job, its channels are the recipient's own, none
\* the sender excluded, only e-mail on the free tier; an urgent job that may
\* use SMS does; a job that names no channel uses all it may; the channel the
\* sender prefers silences the others unless the job is urgent; and the result
\* says delivered exactly when some channel was tried and each of them took
\* the message, rejected tasks counted (dispatch, resolveAllowedChannels).
DispatchLawful ==
  \A w \in Workers : pc[w] = "settled" =>
    LET o == order[w] IN
    /\ Tried(w) \subseteq held[w] \ o.excluded
    /\ o.tier = 0 => Tried(w) \subseteq {"email"}
    /\ (o.tier > 0 /\ o.urgent /\ "sms" \in held[w] \ o.excluded) => "sms" \in Tried(w)
    /\ (o.tier > 0 /\ o.preferred = None /\ o.channels = {})
          => Tried(w) = held[w] \ o.excluded
    /\ o.preferred # None
          => Tried(w) \subseteq {o.preferred} \cup (IF o.urgent THEN {"sms"} ELSE {})
    /\ report[w].all <=> (Tried(w) # {} /\ Reached(w) = Tried(w))
    /\ ("email" \in Reached(w) /\ o.hashed) => ~suppressed

\* An SMS that stays ASCII has at most the characters of a GSM-7 message, and
\* one that does not is one UCS-2 message, unless prefix, subject and suffix
\* alone fill it.  So much holds although the room is judged by the text alone:
\* it fails only for an ASCII text under a prefix or subject that is not, or one
\* cut inside a word, where the ellipsis makes the message UCS-2; that has at
\* most the length of a GSM-7 message.  A text that fits is sent whole, and a
\* cut text keeps more than half of the room (SnsService.buildSmsBody and its
\* helpers).
SmsFits ==
  \A w \in Workers : message[w] # None =>
    LET m == message[w]
        o == order[w]
        t == o.text
    IN  /\ m.length <= SingleGsm \/ o.overhead >= SingleGsm
        /\ m.wide => \/ m.length <= SingleUcs \/ o.overhead >= SingleUcs
                     \/ IsGsm7(t) /\ (m.hard \/ ~o.asciiHead)
        /\ IF t.length <= m.budget THEN m.kept = t.length /\ ~m.hard
           ELSE m.kept < t.length \/ (m.budget = 0 /\ m.kept = 1)
        /\ t.length > m.budget => 2 * m.kept > m.budget
=============================================================================
