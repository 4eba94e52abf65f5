--------------------------- MODULE NotifyPipeline ---------------------------
(***************************************************************************)
(* The production path of a notification: POST /v1/notify in NotifyService *)
(* (idempotency key, gates, row, enqueue with a timeout), the BullMQ       *)
(* notification queue, and MailWorker, which routes, dispatches, records   *)
(* the outcome, meters the send and fires webhook events.                  *)
(*                                                                         *)
(* One action per stretch of code between two awaits that touch shared     *)
(* state, so requests and worker runs interleave as the event loops and    *)
(* processes let them.  A request draws a fresh uuid: the notification is  *)
(* identified with the request that made it.                               *)
(***************************************************************************)
EXTENDS Integers, FiniteSets, BullQueue

CONSTANTS
  Requests,     \* calls of POST /v1/notify, and the notifications they make
  Keys, NoKey,  \* idempotency keys; a request may carry none
  KeyOf,        \* the key of a request
  NoRequest,    \* no notification id
  MaxFaults     \* bound on failed calls of PostgreSQL or Redis and crashes

ASSUME KeysAssumption    == NoKey \notin Keys
ASSUME KeyOfAssumption   == KeyOf \in [Requests -> Keys \cup {NoKey}]
ASSUME RequestAssumption == NoRequest \notin Requests
ASSUME FaultsAssumption  == MaxFaults \in Nat

VARIABLES
  idem,     \* Redis idempotency:notify:<key> -> notification id
  status,   \* notifications.status; "none" while there is no row
  retries,  \* notifications.retry_count
  pc,       \* where the handler of a request is
  answer,   \* status of the response
  dupOf,    \* notification_id of a 'duplicate' response
  job,      \* the BullMQ job of a notification
  wpc,      \* where the run of a worker is
  on,       \* the notification it is about
  no,       \* which start of the job it is
  out,      \* its dispatch result
  passes,   \* history: the runs of a notification that dispatched it
  sent,     \* history: those of them in which some channel succeeded
  metered,  \* history: the runs that incremented sendsThisPeriod
  events,   \* webhook events WebhookService.dispatch was called with
  faults    \* failed calls and crashes so far

reqVars  == <<idem, pc, answer, dupOf>>
histVars == <<passes, sent, metered, events>>
rowVars  == <<status, retries>>
runVars  == <<wpc, on, no, out>>
vars     == <<idem, status, retries, pc, answer, dupOf, job, wpc, on, no, out,
              passes, sent, metered, events, faults>>

RowStatus == {"none", "queued", "processing", "delivered", "partial",
              "failed", "opted_out"}
Terminal  == {"delivered", "partial", "failed", "opted_out"}
Answers   == {"none", "queued", "duplicate", "blocked", "failed", "error"}
ReqPC     == {"new", "lookup", "gate", "create", "enqueue", "adding",
              "undoRow", "undoKey", "over"}
RunPC     == {"idle", "start", "route", "optOut", "dispatch", "record",
              "meter", "recover", "done", "thrown"}
Outcome   == {"all", "some", "none"}
Event     == {"delivered", "partial", "failed"}

Init ==
  /\ idem    = [k \in Keys |-> NoRequest]
  /\ status  = [n \in Requests |-> "none"]
  /\ retries = [n \in Requests |-> 0]
  /\ pc      = [r \in Requests |-> "new"]
  /\ answer  = [r \in Requests |-> "none"]
  /\ dupOf   = [r \in Requests |-> NoRequest]
  /\ job     = [n \in Requests |-> NoJob]
  /\ wpc     = [w \in Workers |-> "idle"]
  /\ on      = [w \in Workers |-> NoRequest]
  /\ no      = [w \in Workers |-> 0]
  /\ out     = [w \in Workers |-> "none"]
  /\ passes  = [n \in Requests |-> {}]
  /\ sent    = [n \in Requests |-> {}]
  /\ metered = [n \in Requests |-> {}]
  /\ events  = [n \in Requests |-> {}]
  /\ faults  = 0

\* A call of PostgreSQL or Redis fails, or a process dies.
Fault == faults < MaxFaults /\ faults' = faults + 1

-----------------------------------------------------------------------------
(* NotifyService.queueProductionNotification *)

Goto(r, p) == pc' = [pc EXCEPT ![r] = p]

\* The response (or the 500 of an uncaught exception) of request r.
Respond(r, a) ==
  /\ pc'     = [pc EXCEPT ![r] = "over"]
  /\ answer' = [answer EXCEPT ![r] = a]

\* Step 1: SET key id EX 86400 NX.
IdemCheck(r) ==
  /\ pc[r] = "new"
  /\ \/ /\ KeyOf[r] = NoKey
        /\ Goto(r, "gate")
        /\ UNCHANGED <<idem, answer, faults>>
     \/ /\ KeyOf[r] # NoKey
        /\ idem[KeyOf[r]] = NoRequest
        /\ idem' = [idem EXCEPT ![KeyOf[r]] = r]
        /\ Goto(r, "gate")
        /\ UNCHANGED <<answer, faults>>
     \/ /\ KeyOf[r] # NoKey
        /\ idem[KeyOf[r]] # NoRequest
        /\ Goto(r, "lookup")
        /\ UNCHANGED <<idem, answer, faults>>
     \/ /\ KeyOf[r] # NoKey
        /\ Fault
        /\ Respond(r, "error")
        /\ UNCHANGED idem
  /\ UNCHANGED <<dupOf, rowVars, job, runVars, histVars>>

\* GET of a key that SET NX found taken; it may be gone by now, and then the
\* response carries this request's own id.
IdemLookup(r) ==
  /\ pc[r] = "lookup"
  /\ KeyOf[r] # NoKey
  /\ \/ /\ dupOf' = [dupOf EXCEPT
                       ![r] = IF idem[KeyOf[r]] # NoRequest
                              THEN idem[KeyOf[r]] ELSE r]
        /\ Respond(r, "duplicate")
        /\ UNCHANGED faults
     \/ /\ Fault
        /\ Respond(r, "error")
        /\ UNCHANGED dupOf
  /\ UNCHANGED <<idem, rowVars, job, runVars, histVars>>

\* Steps 2 and 3: template status gate and content scan.  The key stays.
Gates(r) ==
  /\ pc[r] = "gate"
  /\ \/ Goto(r, "create") /\ UNCHANGED <<answer, faults>>
     \/ Respond(r, "blocked") /\ UNCHANGED faults
     \/ Fault /\ Respond(r, "error")
  /\ UNCHANGED <<idem, dupOf, rowVars, job, runVars, histVars>>

\* Mutant of KeyFree: the column is not unique.
KeyUnchecked(r) == TRUE

\* notifications.idempotency_key is a unique column.
KeyFree(r) ==
  \/ KeyOf[r] = NoKey
  \/ \A n \in Requests : KeyOf[n] = KeyOf[r] => status[n] = "none"

\* INSERT of the row; an exception leaves the handler, the key stays.
CreateRow(r) ==
  /\ pc[r] = "create"
  /\ \/ /\ KeyFree(r)
        /\ status' = [status EXCEPT ![r] = "queued"]
        /\ Goto(r, "enqueue")
        /\ UNCHANGED <<answer, faults>>
     \/ /\ ~KeyFree(r)
        /\ Respond(r, "error")
        /\ UNCHANGED <<status, faults>>
     \/ /\ Fault
        /\ Respond(r, "error")
        /\ UNCHANGED status
  /\ UNCHANGED <<idem, dupOf, retries, job, runVars, histVars>>

\* Step 4: QueueService.enqueueNotification issues the add command.
Enqueue(r) ==
  /\ pc[r] = "enqueue"
  /\ job' = [job EXCEPT ![r] = Issued(job[r])]
  /\ Goto(r, "adding")
  /\ UNCHANGED <<idem, answer, dupOf, rowVars, runVars, histVars, faults>>

\* The add command reaches Redis.  While the connection is down it waits in
\* the client's offline queue, so this may be after withTimeout gave up.
AddLands(n) ==
  /\ job[n].state = "adding"
  /\ job' = [job EXCEPT ![n] = Landed(job[n])]
  /\ UNCHANGED <<reqVars, rowVars, runVars, histVars, faults>>

\* Mutant of AddAcked: the response does not wait for the add.
AddNotAwaited(r) ==
  /\ pc[r] = "adding"
  /\ Respond(r, "queued")
  /\ UNCHANGED <<idem, dupOf, rowVars, job, runVars, histVars, faults>>

\* The add fulfils before the timer of withTimeout.
AddAcked(r) ==
  /\ pc[r] = "adding"
  /\ job[r].state # "adding"
  /\ Respond(r, "queued")
  /\ UNCHANGED <<idem, dupOf, rowVars, job, runVars, histVars, faults>>

\* The timer wins Promise.race.  Nothing cancels the add.
AddTimesOut(r) ==
  /\ pc[r] = "adding"
  /\ Goto(r, "undoRow")
  /\ UNCHANGED <<idem, answer, dupOf, rowVars, job, runVars, histVars, faults>>

\* The add is rejected, or lost with the process that had it queued.
AddRejected(r) ==
  /\ job[r].state = "adding"
  /\ Fault
  /\ job' = [job EXCEPT ![r] = NoJob]
  /\ pc' = [pc EXCEPT ![r] = IF @ = "adding" THEN "undoRow" ELSE @]
  /\ UNCHANGED <<idem, answer, dupOf, rowVars, runVars, histVars>>

\* Catch: the row is marked failed / ENQUEUE_FAILED; an error is swallowed.
UndoRow(r) ==
  /\ pc[r] = "undoRow"
  /\ Goto(r, "undoKey")
  /\ \/ status' = [status EXCEPT ![r] = "failed"] /\ UNCHANGED faults
     \/ Fault /\ UNCHANGED status
  /\ UNCHANGED <<idem, answer, dupOf, retries, job, runVars, histVars>>

\* Catch: DEL of the key, whoever's it is by now; an error is swallowed.
UndoKey(r) ==
  /\ pc[r] = "undoKey"
  /\ Respond(r, "failed")
  /\ \/ /\ KeyOf[r] # NoKey
        /\ idem' = [idem EXCEPT ![KeyOf[r]] = NoRequest]
        /\ UNCHANGED faults
     \/ /\ KeyOf[r] = NoKey
        /\ UNCHANGED <<idem, faults>>
     \/ /\ KeyOf[r] # NoKey
        /\ Fault
        /\ UNCHANGED idem
  /\ UNCHANGED <<dupOf, rowVars, job, runVars, histVars>>

\* The web process dies: the client gets no answer, nothing is undone.
RequestCrash(r) ==
  /\ pc[r] \notin {"new", "over"}
  /\ Fault
  /\ Goto(r, "over")
  /\ UNCHANGED <<idem, answer, dupOf, rowVars, job, runVars, histVars>>

\* The 24 hours of a key pass.
KeyExpires(k) ==
  /\ idem[k] # NoRequest
  /\ idem' = [idem EXCEPT ![k] = NoRequest]
  /\ UNCHANGED <<pc, answer, dupOf, rowVars, job, runVars, histVars, faults>>

-----------------------------------------------------------------------------
(* MailWorker.process and processProduction, run by worker w *)

Step(w, p) == wpc' = [wpc EXCEPT ![w] = p]

GoIdle(w) ==
  /\ wpc' = [wpc EXCEPT ![w] = "idle"]
  /\ on'  = [on  EXCEPT ![w] = NoRequest]
  /\ no'  = [no  EXCEPT ![w] = 0]
  /\ out' = [out EXCEPT ![w] = "none"]

Claim(w, n) ==
  /\ wpc[w] = "idle"
  /\ job[n].state = "wait"
  /\ job' = [job EXCEPT ![n] = Claimed(job[n], w)]
  /\ Step(w, "start")
  /\ on' = [on EXCEPT ![w] = n]
  /\ no' = [no EXCEPT ![w] = job[n].starts + 1]
  /\ UNCHANGED <<out, reqVars, rowVars, histVars, faults>>

\* status := 'processing', outside the try: an error goes straight to BullMQ.
MarkProcessing(w) ==
  /\ wpc[w] = "start"
  /\ \/ /\ status' = [status EXCEPT ![on[w]] = "processing"]
        /\ Step(w, "route")
        /\ UNCHANGED faults
     \/ Fault /\ Step(w, "thrown") /\ UNCHANGED status
  /\ UNCHANGED <<retries, on, no, out, reqVars, job, histVars>>

\* Steps 1 to 3: resolve the identity, decrypt the channels, clear the
\* suppression, store on Arweave.  No identity or no channel opts out; an
\* RPC or enclave error throws into the catch.
Route(w) ==
  /\ wpc[w] = "route"
  /\ \E p \in {"optOut", "dispatch", "recover"} : Step(w, p)
  /\ UNCHANGED <<on, no, out, reqVars, rowVars, job, histVars, faults>>

\* Mutant of RecordOptOut: returns without the update.
OptOutUnrecorded(w) ==
  /\ wpc[w] = "optOut"
  /\ Step(w, "done")
  /\ UNCHANGED <<on, no, out, reqVars, rowVars, job, histVars, faults>>

\* status := 'opted_out', in the try: an error goes to the catch.
RecordOptOut(w) ==
  /\ wpc[w] = "optOut"
  /\ \/ /\ status' = [status EXCEPT ![on[w]] = "opted_out"]
        /\ Step(w, "done")
        /\ UNCHANGED faults
     \/ Fault /\ Step(w, "recover") /\ UNCHANGED status
  /\ UNCHANGED <<retries, on, no, out, reqVars, job, histVars>>

\* Step 4: ChannelDispatchService.dispatch settles every channel.
Dispatch(w) ==
  /\ wpc[w] = "dispatch"
  /\ Step(w, "record")
  /\ \E o \in Outcome :
       /\ out'  = [out EXCEPT ![w] = o]
       /\ sent' = [sent EXCEPT ![on[w]] =
                     IF o = "none" THEN @ ELSE @ \cup {no[w]}]
  /\ passes' = [passes EXCEPT ![on[w]] = @ \cup {no[w]}]
  /\ UNCHANGED <<on, no, reqVars, rowVars, job, metered, events, faults>>

\* Mutants of the two operators below: zero successes of zero channels count
\* as all delivered; successCount >= 0 for successCount > 0.
VacuousStatus(o) == IF o = "some" THEN "partial" ELSE "delivered"
AnyCount(o)      == TRUE

\* allDelivered, else successCount > 0, of the dispatch result.
DeliveredStatus(o) == IF o = "all" THEN "delivered"
                      ELSE IF o = "some" THEN "partial" ELSE "failed"
AnySuccess(o)      == o # "none"

\* retryCount: { increment: 1 }
CountRetry(n) == retries' = [retries EXCEPT ![n] = @ + 1]

\* Step 5: the row gets the outcome; with no success the run throws.
RecordOutcome(w) ==
  /\ wpc[w] = "record"
  /\ \/ /\ status' = [status EXCEPT ![on[w]] = DeliveredStatus(out[w])]
        /\ \/ AnySuccess(out[w]) /\ Step(w, "meter") /\ UNCHANGED retries
           \/ ~AnySuccess(out[w]) /\ Step(w, "thrown") /\ CountRetry(on[w])
        /\ UNCHANGED faults
     \/ Fault /\ Step(w, "recover") /\ UNCHANGED rowVars
  /\ UNCHANGED <<on, no, out, reqVars, job, histVars>>

\* Mutant of MeterAndFire: a metering error is not swallowed.
MeterErrorThrown(w) ==
  /\ wpc[w] = "meter"
  /\ Fault
  /\ Step(w, "recover")
  /\ UNCHANGED <<on, no, out, reqVars, rowVars, job, histVars>>

\* Steps 5 and 6: meter the send (an error is swallowed), fire the event.
MeterAndFire(w) ==
  /\ wpc[w] = "meter"
  /\ \/ /\ metered' = [metered EXCEPT ![on[w]] = @ \cup {no[w]}]
        /\ UNCHANGED faults
     \/ Fault /\ UNCHANGED metered
  /\ events' = [events EXCEPT ![on[w]] = @ \cup
                  {IF out[w] = "all" THEN "delivered" ELSE "partial"}]
  /\ Step(w, "done")
  /\ UNCHANGED <<on, no, out, reqVars, rowVars, job, passes, sent>>

\* The catch for errors other than "All channels failed".
Recover(w) ==
  /\ wpc[w] = "recover"
  /\ Step(w, "thrown")
  /\ \/ /\ status' = [status EXCEPT ![on[w]] = "failed"]
        /\ CountRetry(on[w])
        /\ events' = [events EXCEPT ![on[w]] = @ \cup {"failed"}]
        /\ UNCHANGED faults
     \/ Fault /\ UNCHANGED <<rowVars, events>>
  /\ UNCHANGED <<on, no, out, reqVars, job, passes, sent, metered>>

\* The processor returns, or throws, to BullMQ.
Finish(w) ==
  /\ \/ /\ wpc[w] = "done"
        /\ job' = [job EXCEPT ![on[w]] = Acked(job[on[w]], w)]
     \/ /\ wpc[w] = "thrown"
        /\ job' = [job EXCEPT ![on[w]] = Rejected(job[on[w]], w)]
  /\ GoIdle(w)
  /\ UNCHANGED <<reqVars, rowVars, histVars, faults>>

\* The lock of a job expired: its worker died, or did not renew it in time
\* and is still running.
Stall(n) ==
  /\ job[n].state = "active"
  /\ job' = [job EXCEPT ![n] = Stalled(job[n])]
  /\ UNCHANGED <<reqVars, rowVars, runVars, histVars, faults>>

\* A worker process dies and is restarted.
WorkerCrash(w) ==
  /\ wpc[w] # "idle"
  /\ Fault
  /\ GoIdle(w)
  /\ UNCHANGED <<reqVars, rowVars, job, histVars>>

-----------------------------------------------------------------------------
RequestStep(r) ==
  \/ IdemCheck(r) \/ IdemLookup(r) \/ Gates(r) \/ CreateRow(r) \/ Enqueue(r)
  \/ AddAcked(r) \/ AddTimesOut(r) \/ UndoRow(r) \/ UndoKey(r)

RunStep(w) ==
  \/ MarkProcessing(w) \/ Route(w) \/ RecordOptOut(w) \/ Dispatch(w)
  \/ RecordOutcome(w) \/ MeterAndFire(w) \/ Recover(w) \/ Finish(w)

Next ==
  \/ \E r \in Requests : RequestStep(r) \/ RequestCrash(r) \/ AddRejected(r)
  \/ \E n \in Requests : AddLands(n) \/ Stall(n)
  \/ \E k \in Keys : KeyExpires(k)
  \/ \E w \in Workers, n \in Requests : Claim(w, n)
  \/ \E w \in Workers : RunStep(w) \/ WorkerCrash(w)

Spec == Init /\ [][Next]_vars

(***************************************************************************)
(* What the scheduling gives: an event loop runs what is ready, an idle    *)
(* worker fetches a waiting job, and the stalled checker fails or requeues *)
(* the job of a worker that died.  Nothing is assumed of clients, of       *)
(* timers or of crashes.                                                   *)
(***************************************************************************)
Orphaned(n) == \A w \in Workers : job[n].owner = w => on[w] # n

Fairness ==
  /\ \A r \in Requests : WF_vars(RequestStep(r) /\ pc[r] # "new")
  /\ \A n \in Requests : WF_vars(AddLands(n))
  /\ \A n \in Requests : WF_vars(Orphaned(n) /\ Stall(n))
  /\ \A n \in Requests : SF_vars(\E w \in Workers : Claim(w, n))
  /\ \A w \in Workers : WF_vars(RunStep(w))

FairSpec == Spec /\ Fairness

-----------------------------------------------------------------------------
(* Properties *)

\* Every variable keeps its type: row statuses, handler positions, job
\* records and worker runs are the ones the code writes.
TypeOK ==
  /\ idem    \in [Keys -> Requests \cup {NoRequest}]
  /\ status  \in [Requests -> RowStatus]
  /\ retries \in [Requests -> Nat]
  /\ pc      \in [Requests -> ReqPC]
  /\ answer  \in [Requests -> Answers]
  /\ dupOf   \in [Requests -> Requests \cup {NoRequest}]
  /\ job     \in [Requests -> Job]
  /\ wpc     \in [Workers -> RunPC]
  /\ on      \in [Workers -> Requests \cup {NoRequest}]
  /\ no      \in [Workers -> Nat]
  /\ out     \in [Workers -> Outcome]
  /\ passes  \in [Requests -> SUBSET Nat]
  /\ sent    \in [Requests -> SUBSET Nat]
  /\ metered \in [Requests -> SUBSET Nat]
  /\ events  \in [Requests -> SUBSET Event]
  /\ faults  \in Nat

\* However often attempts fail and locks expire, a notification is handed to
\* the channels at most Attempts + MaxStalled times: the recipient's worst
\* case of repeated messages.  (The retries of enqueueNotification and the
\* maxStalledCount of MailWorker.)
PassesBounded ==
  \A n \in Requests : Cardinality(passes[n]) <= Attempts + MaxStalled

\* All that is ever sent under one idempotency key belongs to one
\* notification, also after the Redis key expired or the catch of a failed
\* enqueue deleted it.  (Step 1 and the catch of queueProductionNotification,
\* backed by the unique column.)
KeySendsOneNotification ==
  \A n, m \in Requests :
    (n # m /\ KeyOf[n] = KeyOf[m] /\ KeyOf[n] # NoKey)
      => passes[n] = {} \/ passes[m] = {}

\* A row that says delivered or partial is backed by a run in which a channel
\* succeeded, whatever failed, stalled or was retried.  (Step 5 of
\* processProduction.)
StatusBacked ==
  \A n \in Requests :
    status[n] \in {"delivered", "partial"} => sent[n] # {}

\* Only a run that delivered something is metered: the protocol never pays
\* for more sends than were made.  (incrementSendsThisPeriod in MailWorker.)
MeteringBacked ==
  \A n \in Requests : metered[n] \subseteq sent[n]

\* The client is told 'queued' only once both the row and the job exist.
\* (The try of step 4 in queueProductionNotification.)
QueuedAnswerHasJob ==
  \A r \in Requests :
    answer[r] = "queued" => /\ status[r] # "none"
                            /\ job[r].state \notin {"absent", "adding"}

\* A row leaves 'delivered' only when its job stalled, or when the request
\* that gave up on the enqueue marks it failed.  (The status updates of
\* MailWorker against the catch of queueProductionNotification.)
DeliveredIsStable ==
  [][\A n \in Requests :
       (status[n] = "delivered" /\ status'[n] # "delivered")
         => job[n].stalls > 0 \/ pc[n] = "undoRow"]_vars

\* An accepted notification ends with an outcome in its row for good, unless
\* a call failed, a process died or its job stalled.  (queueProductionNotifi-
\* cation together with MailWorker.)
AcceptedSettles ==
  \A r \in Requests :
    [](answer[r] = "queued" =>
         <>[](status[r] \in Terminal \/ faults > 0 \/ job[r].stalls > 0))
=============================================================================
