---------------------------- MODULE EmailFeedback ----------------------------
(***************************************************************************)
(* What becomes of bounces, complaints and delivery receipts of the mails  *)
(* to one wallet: SES events through SQS (SqsConsumerService) or SNS and   *)
(* the bounce queue (BounceWorker), Resend events by a webhook, both into  *)
(* BounceService, which keeps the email_bounces log and the suppression of *)
(* the wallet; and MailWorker with ChannelDispatchService, which clear and *)
(* check that suppression before a mail.                                   *)
(***************************************************************************)
EXTENDS Integers, Sequences, FiniteSets, BullQueue, Faults

CONSTANTS
  Events,        \* provider events
  KindOf,        \* soft, hard, complaint or delivery
  MessageOf,     \* the mail (sesMessageId) an event is about
  ByResend,      \* the events of Resend; the others are of SES
  Scenes,        \* events that happen together, mails whose id is recorded
                 \* from the start, number of further mails to the wallet
  Slots,         \* bound: bounce jobs ever added, in this order
  Handlers,      \* HTTP handlers of the Resend webhook
  NoEvent, NoSlot,
  SoftLimit      \* consecutive soft bounces that suspend the wallet: 3

Kinds       == {"soft", "hard", "complaint", "delivery"}
ResendKinds == {"hard", "complaint", "delivery"}
Messages    == {MessageOf[e] : e \in Events}
Runners     == Workers \cup Handlers

ASSUME EventAssumption ==
  /\ KindOf \in [Events -> Kinds]
  /\ DOMAIN MessageOf = Events
  /\ ByResend \subseteq Events
  /\ Scenes \subseteq [events : SUBSET Events, known : SUBSET Messages, mails : Nat]
  /\ \A e \in ByResend : KindOf[e] \in ResendKinds
  /\ NoEvent \notin Events /\ Slots \subseteq Nat /\ NoSlot \notin Slots
  /\ Handlers \cap Workers = {}

ASSUME RunnersAssumption == IsFiniteSet(Runners)

ASSUME LimitAssumption == SoftLimit \in Nat \ {0}

VARIABLES
  src,         \* the event at the provider: SQS message or webhook delivery
  known,       \* mails whose row has its sesMessageId
  bounceJob, evt,    \* bounce jobs and their events
  rpc,         \* where a run of BounceService is
  ev, slot,    \* its event and its job
  cut,         \* its cutoff
  log,         \* email_bounces and email_deliveries of the wallet, in order
  suppressed,  \* reason of the wallet's email_suppressions row, or "no"
  enforced,    \* history: events that wrote the suppression
  mpc,         \* where the next mail is
  mails,       \* mails still to come
  \* History: the most runs ever that were to record a bounce of a mail at once;
  \* the resets that came while some run had its cutoff and not yet its count;
  \* the complaints recorded by a worker that had lost their job.
  abreast, amid, disowned

feedVars     == <<src, known, bounceJob, evt>>
runVars      == <<rpc, ev, slot, cut>>
mailVars     == <<mpc, mails>>
raceVars     == <<abreast, amid, disowned>>
feedbackVars == <<src, known, bounceJob, evt, rpc, ev, slot, cut, log, suppressed,
                  enforced, mpc, mails, abreast, amid, disowned, faults>>

FeedbackInit ==
  /\ \E S \in Scenes :
       /\ src   = [e \in Events |-> IF e \in S.events THEN "none" ELSE "gone"]
       /\ known = S.known
       /\ mails = S.mails
  /\ bounceJob = [s \in Slots |-> NoJob]
  /\ evt  = [s \in Slots |-> NoEvent]
  /\ rpc  = [x \in Runners |-> "idle"]
  /\ ev   = [x \in Runners |-> NoEvent]
  /\ slot = [x \in Runners |-> NoSlot]
  /\ cut  = [x \in Runners |-> 0]
  /\ log  = <<>>
  /\ suppressed = "no"
  /\ enforced = {}
  /\ mpc = "idle"
  /\ abreast = [m \in Messages |-> 0]
  /\ amid = {}
  /\ disowned = {}
  /\ faults = 0

-----------------------------------------------------------------------------
(* The providers, SqsConsumerService.poll and BounceController *)

\* A mail bounces, is complained about or is delivered.
Happens(e) ==
  /\ src[e] = "none"
  /\ src' = [src EXCEPT ![e] = "visible"]
  /\ UNCHANGED <<known, bounceJob, evt, runVars, log, suppressed, enforced, raceVars, mailVars, faults>>

\* MailWorker records the sesMessageId of a mail, maybe after its feedback.
RecordMessageId(m) ==
  /\ m \notin known
  /\ known' = known \cup {m}
  /\ UNCHANGED <<src, bounceJob, evt, runVars, log, suppressed, enforced, raceVars, mailVars, faults>>

\* An SES event is added to the bounce queue.  A failed add leaves it to the
\* provider, which shows it again.
Added(e, s, next) ==
  /\ e \notin ByResend
  /\ src[e] = "visible"
  /\ bounceJob[s].state = "absent"
  /\ \A t \in Slots : bounceJob[t].state = "absent" => s <= t
  /\ src' = [src EXCEPT ![e] = next]
  /\ bounceJob' = [bounceJob EXCEPT ![s] = Landed(bounceJob[s])]
  /\ evt' = [evt EXCEPT ![s] = e]
  /\ UNCHANGED <<known, runVars, log, suppressed, enforced, raceVars, mailVars, faults>>

\* poll and processMessage: the message stays with SQS until it is deleted.
Consume(e, s) == Added(e, s, "inflight")

\* POST /internal/sns/ses: SNS is done with the event once it has the answer.
\* (To lose the answer and post again is to fail to delete the message.)
HandleSesNotification(e, s) == Added(e, s, "gone")

\* DeleteMessageBatch, or its failure: the message is delivered again.
DeleteMessage(e) ==
  /\ src[e] = "inflight"
  /\ \/ src' = [src EXCEPT ![e] = "gone"] /\ UNCHANGED faults
     \/ Fault /\ src' = [src EXCEPT ![e] = "visible"]
  /\ UNCHANGED <<known, bounceJob, evt, runVars, log, suppressed, enforced, raceVars, mailVars>>

-----------------------------------------------------------------------------
(* BounceService.processSesBounce in a worker, processResendEvent in a     *)
(* handler                                                                 *)

Begin(x, e, s) ==
  /\ rpc[x] = "idle"
  /\ rpc'  = [rpc EXCEPT ![x] = "find"]
  /\ ev'   = [ev EXCEPT ![x] = e]
  /\ slot' = [slot EXCEPT ![x] = s]
  /\ UNCHANGED <<cut, log, suppressed, enforced, raceVars, mailVars, faults>>

\* BounceWorker.process
Claim(w, s) ==
  /\ bounceJob[s].state = "wait"
  /\ bounceJob' = [bounceJob EXCEPT ![s] = Claimed(bounceJob[s], w)]
  /\ Begin(w, evt[s], s)
  /\ UNCHANGED <<src, known, evt>>

\* POST /internal/webhooks/resend
Post(h, e) ==
  /\ e \in ByResend
  /\ src[e] = "visible"
  /\ src' = [src EXCEPT ![e] = "posted"]
  /\ Begin(h, e, NoSlot)
  /\ UNCHANGED <<known, bounceJob, evt>>

RunAt(x, l) == rpc' = [rpc EXCEPT ![x] = l]

Rows(m, ks) == {i \in DOMAIN log : log[i].msg = m /\ log[i].kind \in ks}

\* Mutant of AfterFind: bounces are not deduplicated.
AfterFindAlways(e) ==
  IF MessageOf[e] \notin known THEN "done" ELSE "create"

\* Mutant of AfterFind: a complaint that is on record is skipped like a bounce.
AfterFindSkips(e) ==
  LET m == MessageOf[e]
  IN  CASE m \notin known -> "done"
        [] m \in known /\ KindOf[e] = "delivery" -> "create"
        [] m \in known /\ KindOf[e] # "delivery" ->
             IF Rows(m, {"soft", "hard", "complaint"}) # {} THEN "done" ELSE "create"

\* Where a run goes once it looked up the notification and the bounces.
AfterFind(e) ==
  LET m == MessageOf[e]
  IN  CASE m \notin known -> "done"
        [] m \in known /\ KindOf[e] \in {"soft", "hard"} ->
             IF Rows(m, {"soft", "hard", "complaint"}) # {} THEN "done" ELSE "create"
        [] m \in known /\ KindOf[e] = "complaint" ->
             IF Rows(m, {"complaint"}) # {} THEN "suppress" ELSE "create"
        [] m \in known /\ KindOf[e] = "delivery" -> "create"

\* The runs that found no bounce of mail m and are to record one.
Recording(m) == {x \in Runners : /\ rpc[x] = "create"
                                 /\ KindOf[ev[x]] \in {"soft", "hard"}
                                 /\ MessageOf[ev[x]] = m}

Find(x) ==
  /\ rpc[x] = "find"
  /\ \/ RunAt(x, AfterFind(ev[x])) /\ UNCHANGED faults
     \/ Fault /\ RunAt(x, "thrown")
  /\ UNCHANGED <<feedVars, ev, slot, cut, log, suppressed, enforced, amid, disowned, mailVars>>
  /\ abreast' = [m \in Messages |-> IF Cardinality(Recording(m)') > abreast[m]
                                    THEN Cardinality(Recording(m)') ELSE abreast[m]]

\* INSERT into email_bounces or email_deliveries.
Create(x) ==
  /\ rpc[x] = "create"
  /\ \/ /\ log' = Append(log, [kind |-> KindOf[ev[x]], msg |-> MessageOf[ev[x]]])
        /\ RunAt(x, CASE KindOf[ev[x]] = "soft" -> "cutoff"
                     [] KindOf[ev[x]] \in {"hard", "complaint"} -> "suppress"
                     [] KindOf[ev[x]] = "delivery" -> "done")
        /\ amid' = IF KindOf[ev[x]] # "soft" /\ \E y \in Runners : rpc[y] = "count"
                      THEN amid \cup {Len(log')} ELSE amid
        /\ disowned' = IF /\ KindOf[ev[x]] = "complaint"
                          /\ x \in Workers /\ bounceJob[slot[x]].owner # x
                         THEN disowned \cup {ev[x]} ELSE disowned
        /\ UNCHANGED faults
     \/ Fault /\ RunAt(x, "thrown") /\ UNCHANGED <<log, amid, disowned>>
  /\ UNCHANGED <<feedVars, ev, slot, cut, suppressed, enforced, abreast, mailVars>>

\* Mutant of Resets: a delivery does not interrupt the soft bounces.
ResetsBounces == {i \in DOMAIN log : log[i].kind \in {"hard", "complaint"}}

\* The latest hard bounce, complaint or delivery.
Resets == {i \in DOMAIN log : log[i].kind # "soft"}
Cutoff == IF Resets = {} THEN 0
          ELSE CHOOSE i \in Resets : \A j \in Resets : j <= i

ReadCutoff(x) ==
  /\ rpc[x] = "cutoff"
  /\ \/ cut' = [cut EXCEPT ![x] = Cutoff] /\ RunAt(x, "count") /\ UNCHANGED faults
     \/ Fault /\ RunAt(x, "thrown") /\ UNCHANGED cut
  /\ UNCHANGED <<feedVars, ev, slot, log, suppressed, enforced, raceVars, mailVars>>

CountSofts(x) ==
  /\ rpc[x] = "count"
  /\ \/ /\ LET softs == {i \in DOMAIN log : i > cut[x] /\ log[i].kind = "soft"}
           IN  RunAt(x, IF Cardinality(softs) >= SoftLimit THEN "suppress" ELSE "done")
        /\ UNCHANGED faults
     \/ Fault /\ RunAt(x, "thrown")
  /\ UNCHANGED <<feedVars, ev, slot, cut, log, suppressed, enforced, raceVars, mailVars>>

Reason(k) == CASE k = "soft" -> "soft_bounce" [] k = "hard" -> "hard_bounce"
               [] k = "complaint" -> "complaint"

\* The upsert of email_suppressions (after the row's bounce flag).
Suppress(x) ==
  /\ rpc[x] = "suppress"
  /\ \/ /\ suppressed' = Reason(KindOf[ev[x]])
        /\ enforced' = enforced \cup {ev[x]}
        /\ RunAt(x, "done")
        /\ UNCHANGED faults
     \/ Fault /\ RunAt(x, "thrown") /\ UNCHANGED <<suppressed, enforced>>
  /\ UNCHANGED <<feedVars, ev, slot, cut, log, raceVars, mailVars>>

GoIdle(x) ==
  /\ rpc'  = [rpc EXCEPT ![x] = "idle"]
  /\ ev'   = [ev EXCEPT ![x] = NoEvent]
  /\ slot' = [slot EXCEPT ![x] = NoSlot]
  /\ cut'  = [cut EXCEPT ![x] = 0]

\* The end of a job, or the answer to Resend, which posts again after a 500.
Finish(x) ==
  /\ rpc[x] \in {"done", "thrown"}
  /\ \/ /\ x \in Workers
        /\ bounceJob' = [bounceJob EXCEPT ![slot[x]] =
                     IF rpc[x] = "done" THEN Acked(@, x) ELSE Rejected(@, x)]
        /\ UNCHANGED src
     \/ /\ x \in Handlers
        /\ src' = [src EXCEPT ![ev[x]] =
                     IF rpc[x] = "done" THEN "gone" ELSE "visible"]
        /\ UNCHANGED bounceJob
  /\ GoIdle(x)
  /\ UNCHANGED <<known, evt, log, suppressed, enforced, raceVars, mailVars, faults>>

\* The process of a run dies; Resend posts again.
RunCrash(x) ==
  /\ rpc[x] # "idle"
  /\ Fault
  /\ src' = [e \in Events |-> IF x \in Handlers /\ e = ev[x] THEN "visible"
                              ELSE src[e]]
  /\ GoIdle(x)
  /\ UNCHANGED <<known, bounceJob, evt, log, suppressed, enforced, raceVars, mailVars>>

Stall(s) ==
  /\ bounceJob[s].state = "active"
  /\ bounceJob' = [bounceJob EXCEPT ![s] = Stalled(bounceJob[s])]
  /\ UNCHANGED <<src, known, evt, runVars, log, suppressed, enforced, raceVars, mailVars, faults>>

-----------------------------------------------------------------------------
(* The next mail to the wallet: MailWorker and deliverEmail *)

\* A run of MailWorker decrypted an active email channel.
MailBegin ==
  /\ mpc = "idle"
  /\ mails > 0
  /\ mails' = mails - 1
  /\ mpc' = "clear"
  /\ UNCHANGED <<feedVars, runVars, log, suppressed, enforced, raceVars, faults>>

\* The worker deletes the suppression; an error is swallowed.
MailClear ==
  /\ mpc = "clear"
  /\ mpc' = "check"
  /\ \/ suppressed' = "no" /\ UNCHANGED faults
     \/ Fault /\ UNCHANGED suppressed
  /\ UNCHANGED <<feedVars, runVars, log, enforced, raceVars, mails>>

\* deliverEmail sends unless it finds a suppression or cannot look.
MailCheck ==
  /\ mpc = "check"
  /\ \/ /\ mpc' = IF suppressed = "no" THEN "sent" ELSE "skipped"
        /\ UNCHANGED faults
     \/ Fault /\ mpc' = "skipped"
  /\ UNCHANGED <<feedVars, runVars, log, suppressed, enforced, raceVars, mails>>

MailEnd ==
  /\ mpc \in {"sent", "skipped"}
  /\ mpc' = "idle"
  /\ UNCHANGED <<feedVars, runVars, log, suppressed, enforced, mails, raceVars, faults>>

-----------------------------------------------------------------------------
RunStep(x) ==
  \/ Find(x) \/ Create(x) \/ ReadCutoff(x) \/ CountSofts(x) \/ Suppress(x)
  \/ Finish(x)

FeedbackNext ==
  \/ \E e \in Events : Happens(e) \/ DeleteMessage(e)
  \/ \E e \in Events, s \in Slots : Consume(e, s) \/ HandleSesNotification(e, s)
  \/ \E m \in Messages : RecordMessageId(m)
  \/ \E w \in Workers, s \in Slots : Claim(w, s)
  \/ \E h \in Handlers, e \in Events : Post(h, e)
  \/ \E x \in Runners : RunStep(x) \/ RunCrash(x)
  \/ \E s \in Slots : Stall(s)
  \/ MailBegin \/ MailClear \/ MailCheck \/ MailEnd

FeedbackSpec == FeedbackInit /\ [][FeedbackNext]_feedbackVars

Orphaned(s) == \A w \in Workers : bounceJob[s].owner = w => slot[w] # s

\* Runs go on, waiting jobs are claimed, jobs of dead workers are found, and
\* the provider repeats a post it got no 2xx for.
FeedbackFairness ==
  /\ \A x \in Runners : WF_feedbackVars(RunStep(x))
  /\ \A s \in Slots : SF_feedbackVars(\E w \in Workers : Claim(w, s))
  /\ \A s \in Slots : WF_feedbackVars(Orphaned(s) /\ Stall(s))
  /\ \A e \in ByResend : SF_feedbackVars(\E h \in Handlers : Post(h, e))

FeedbackFairSpec == FeedbackSpec /\ FeedbackFairness

-----------------------------------------------------------------------------
(* Properties *)

\* Every variable keeps its type.
FeedbackTypeOK ==
  /\ src  \in [Events -> {"none", "visible", "inflight", "posted", "gone"}]
  /\ known \in SUBSET Messages
  /\ bounceJob \in [Slots -> Job]
  /\ evt  \in [Slots -> Events \cup {NoEvent}]
  /\ rpc  \in [Runners -> {"idle", "find", "create", "cutoff", "count",
                           "suppress", "done", "thrown"}]
  /\ ev   \in [Runners -> Events \cup {NoEvent}]
  /\ slot \in [Runners -> Slots \cup {NoSlot}]
  /\ cut  \in [Runners -> Nat]
  /\ log \in Seq([kind : Kinds, msg : Messages])
  /\ suppressed \in {"no", "soft_bounce", "hard_bounce", "complaint"}
  /\ enforced \in SUBSET Events
  /\ mpc \in {"idle", "clear", "check", "sent", "skipped"}
  /\ mails \in Nat
  /\ abreast \in [Messages -> Nat]
  /\ amid \in SUBSET Nat
  /\ disowned \in SUBSET Events
  /\ faults \in Nat

LoggedKind(k) == {i \in DOMAIN log : log[i].kind = k}

\* A wallet is suppressed for what is on record: a hard bounce, a complaint, or
\* enough soft bounces of which no delivery, complaint or hard bounce reset the
\* count.  The exception is a reset that comes while some run is between its
\* cutoff and its count: that run counts across it.  (The cutoff, the count and
\* the upserts of BounceService, run by several workers and handlers.)
SuppressionJustified ==
  /\ suppressed = "soft_bounce" =>
       \E k, n \in 0..Len(log) :
         /\ Cardinality({i \in (k + 1)..n : log[i].kind = "soft"}) >= SoftLimit
         /\ {i \in (k + 1)..n : log[i].kind # "soft"} \subseteq amid
  /\ suppressed = "hard_bounce" => LoggedKind("hard") # {}
  /\ suppressed = "complaint" => LoggedKind("complaint") # {}

\* Events that are delivered, posted or retried again add no bounce to a mail
\* that has one on record: a mail has no more of them than runs that were
\* between the look-up and the insert of one at once, so that a soft bounce is
\* counted once unless runs overlap there.  (The look-ups by sesMessageId in
\* BounceService, which run in several workers and handlers, and no unique key.)
BouncesBounded ==
  \A m \in Messages : Cardinality(Rows(m, {"soft", "hard"})) <= abreast[m]

OnRecord(e) == Rows(MessageOf[e], {KindOf[e]}) # {}
GivenUp(e)  == \E s \in Slots : evt[s] = e /\ bounceJob[s].state = "failed"

\* A complaint on record is enforced, also when the first run failed between
\* the two writes, unless the job is given up, or the run that recorded it had
\* lost the job: what it leaves undone, the run that took the job over need not
\* have seen.  (The complaint branches of BounceService, which suppress whether
\* or not the complaint is on record.)
ComplaintEnforced ==
  \A e \in Events : KindOf[e] = "complaint" =>
    (OnRecord(e) ~> (e \in enforced \/ GivenUp(e) \/ e \in disowned))
=============================================================================
