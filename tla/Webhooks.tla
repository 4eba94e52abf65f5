------------------------------ MODULE Webhooks ------------------------------
(***************************************************************************)
(* One webhook endpoint of a protocol: WebhookService.dispatch adds a job  *)
(* per event, WebhookWorker posts it, records the attempt and counts       *)
(* failures towards the auto-disable threshold, and the owner registers,   *)
(* tests, changes or removes the webhook.                                  *)
(***************************************************************************)
EXTENDS Integers, FiniteSets, BullQueue

CONSTANTS
  Events,      \* events of the protocol
  Ping,        \* the one of a test
  NoEvent,
  Threshold,   \* WEBHOOK_AUTO_DISABLE_THRESHOLD
  MaxEvents,   \* bound: events that happen
  MaxToggles,  \* bound: changes by the owner
  MaxFaults    \* bound: failed database calls and crashes

ASSUME EventAssumption     == NoEvent \notin Events /\ Ping \in Events
ASSUME FiniteAssumption    == IsFiniteSet(Workers)
ASSUME ThresholdAssumption == Threshold \in Nat \ {0}
ASSUME BoundsAssumption    == MaxEvents \in Nat /\ MaxToggles \in Nat /\ MaxFaults \in Nat

VARIABLES
  exists, active,  \* the webhooks row, its is_active
  subscribed,      \* its events
  failures,        \* its failure_count
  fired,           \* events dispatch was called with
  job,             \* the job of an event
  wpc,             \* where the run of a worker is
  on,              \* its event
  ok,              \* whether the endpoint answered 2xx
  acked,           \* history: events the endpoint answered 2xx for
  repeated,        \* history: events posted again after that
  toggles, faults

hookVars == <<exists, active, subscribed, failures>>
histVars == <<acked, repeated>>
vars     == <<exists, active, subscribed, failures, fired, job, wpc, on, ok, acked,
              repeated, toggles, faults>>

Init ==
  /\ exists \in BOOLEAN
  /\ active = TRUE
  /\ subscribed \in SUBSET Events /\ (~exists => subscribed = {})
  /\ failures = 0
  /\ fired = {}
  /\ job = [e \in Events |-> NoJob]
  /\ wpc = [w \in Workers |-> "idle"]
  /\ on  = [w \in Workers |-> NoEvent]
  /\ ok  = [w \in Workers |-> FALSE]
  /\ acked = {}
  /\ repeated = {}
  /\ toggles = 0
  /\ faults = 0

Fault == faults < MaxFaults /\ faults' = faults + 1

Step(w, p) == wpc' = [wpc EXCEPT ![w] = p]

\* Active webhooks that are subscribed to the event get a job.
Dispatch(e) ==
  /\ e \notin fired /\ Cardinality(fired) < MaxEvents
  /\ fired' = fired \cup {e}
  /\ LET wanted == exists /\ active /\ e \in subscribed IN
     \/ wanted /\ job' = [job EXCEPT ![e] = Landed(job[e])] /\ UNCHANGED faults
     \/ ~wanted /\ UNCHANGED <<job, faults>>
     \/ Fault /\ UNCHANGED job
  /\ UNCHANGED <<hookVars, wpc, on, ok, histVars, toggles>>

\* What became of a notification; the callers swallow an error of dispatch,
\* and then there is no job.
Notify(e) == e # Ping /\ Dispatch(e)

\* POST /v1/webhooks/:id/test: says dispatched also when the webhook is off or
\* not subscribed to pings.
Test == exists /\ Dispatch(Ping)

Claim(w, e) ==
  /\ wpc[w] = "idle"
  /\ job[e].state = "wait"
  /\ job' = [job EXCEPT ![e] = Claimed(job[e], w)]
  /\ on' = [on EXCEPT ![w] = e]
  /\ Step(w, "check")
  /\ UNCHANGED <<hookVars, fired, ok, histVars, toggles, faults>>

\* Mutant of OverThreshold: off by one.
OverThresholdLate == failures > Threshold

OverThreshold == failures >= Threshold

\* The pre-flight check, the secret and the address of the endpoint.
Preflight(w) ==
  /\ wpc[w] = "check"
  /\ \/ ~(exists /\ active) /\ Step(w, "done") /\ UNCHANGED faults
     \/ exists /\ active /\ OverThreshold /\ Step(w, "disable") /\ UNCHANGED faults
     \/ /\ exists /\ active /\ ~OverThreshold
        /\ \E p \in {"post", "done", "thrown"} : Step(w, p)  \* sent; bad url; blocked
        /\ UNCHANGED faults
     \/ Fault /\ Step(w, "thrown")
  /\ UNCHANGED <<hookVars, fired, job, on, ok, histVars, toggles>>

\* Auto-disable; without the row the update throws.
Disable(w) ==
  /\ wpc[w] = "disable"
  /\ \/ exists /\ active' = FALSE /\ Step(w, "done") /\ UNCHANGED faults
     \/ ~exists /\ Step(w, "thrown") /\ UNCHANGED <<active, faults>>
     \/ Fault /\ Step(w, "thrown") /\ UNCHANGED active
  /\ UNCHANGED <<exists, subscribed, failures, fired, job, on, ok, histVars, toggles>>

\* axios.post
Post(w) ==
  /\ wpc[w] = "post"
  /\ repeated' = IF on[w] \in acked THEN repeated \cup {on[w]} ELSE repeated
  /\ \E b \in BOOLEAN :
       /\ ok' = [ok EXCEPT ![w] = b]
       /\ acked' = IF b THEN acked \cup {on[w]} ELSE acked
  /\ Step(w, "record")
  /\ UNCHANGED <<hookVars, fired, job, on, toggles, faults>>

\* The finally block: the webhook_deliveries row, which needs the webhook.
RecordDelivery(w) ==
  /\ wpc[w] = "record"
  /\ \/ exists /\ Step(w, "count") /\ UNCHANGED faults
     \/ ~exists /\ Step(w, "thrown") /\ UNCHANGED faults
     \/ Fault /\ Step(w, "thrown")
  /\ UNCHANGED <<hookVars, fired, job, on, ok, histVars, toggles>>

\* Mutant of AfterCount: a delivered event is retried.
AfterCountThrown(b) == "thrown"

\* The error of a failed post goes on to BullMQ.
AfterCount(b) == IF b THEN "done" ELSE "thrown"

\* The finally block: the failure count.
CountOutcome(w) ==
  /\ wpc[w] = "count"
  /\ \/ /\ exists
        /\ failures' = IF ok[w] THEN 0 ELSE failures + 1
        /\ Step(w, AfterCount(ok[w]))
        /\ UNCHANGED faults
     \/ ~exists /\ Step(w, "thrown") /\ UNCHANGED <<failures, faults>>
     \/ Fault /\ Step(w, "thrown") /\ UNCHANGED failures
  /\ UNCHANGED <<exists, active, subscribed, fired, job, on, ok, histVars, toggles>>

GoIdle(w) ==
  /\ wpc' = [wpc EXCEPT ![w] = "idle"]
  /\ on'  = [on EXCEPT ![w] = NoEvent]
  /\ ok'  = [ok EXCEPT ![w] = FALSE]

Finish(w) ==
  /\ wpc[w] \in {"done", "thrown"}
  /\ job' = [job EXCEPT ![on[w]] =
               IF wpc[w] = "done" THEN Acked(@, w) ELSE Rejected(@, w)]
  /\ GoIdle(w)
  /\ UNCHANGED <<hookVars, fired, histVars, toggles, faults>>

Crash(w) ==
  /\ wpc[w] # "idle"
  /\ Fault
  /\ GoIdle(w)
  /\ UNCHANGED <<hookVars, fired, job, histVars, toggles>>

Stall(e) ==
  /\ job[e].state = "active"
  /\ job' = [job EXCEPT ![e] = Stalled(job[e])]
  /\ UNCHANGED <<hookVars, fired, wpc, on, ok, histVars, toggles, faults>>

OwnerActs == toggles < MaxToggles /\ toggles' = toggles + 1

\* POST /v1/webhooks.  A webhook registered when jobs of an earlier one are
\* about is another webhook, and none of this one's.
Create ==
  /\ ~exists /\ \A e \in Events : job[e].state = "absent"
  /\ OwnerActs
  /\ exists' = TRUE /\ active' = TRUE /\ failures' = 0
  /\ subscribed' \in SUBSET Events
  /\ UNCHANGED <<fired, job, wpc, on, ok, histVars, faults>>

\* PATCH /v1/webhooks/:id with isActive and events; the failure count stays.
Update(b, S) ==
  /\ exists /\ <<b, S>> # <<active, subscribed>>
  /\ OwnerActs
  /\ active' = b /\ subscribed' = S
  /\ UNCHANGED <<exists, failures, fired, job, wpc, on, ok, histVars, faults>>

\* DELETE /v1/webhooks/:id
Remove ==
  /\ exists /\ OwnerActs
  /\ exists' = FALSE
  /\ UNCHANGED <<active, subscribed, failures, fired, job, wpc, on, ok, histVars, faults>>

RunStep(w) ==
  \/ Preflight(w) \/ Disable(w) \/ Post(w) \/ RecordDelivery(w)
  \/ CountOutcome(w) \/ Finish(w)

Next ==
  \/ \E e \in Events : Notify(e) \/ Stall(e)
  \/ Test
  \/ \E w \in Workers, e \in Events : Claim(w, e)
  \/ \E w \in Workers : RunStep(w) \/ Crash(w)
  \/ \E b \in BOOLEAN, S \in SUBSET Events : Update(b, S)
  \/ Create \/ Remove

Spec == Init /\ [][Next]_vars

Orphaned(e) == \A w \in Workers : job[e].owner = w => on[w] # e

\* Runs go on, waiting jobs are claimed, jobs of dead workers are found.
Fairness ==
  /\ \A w \in Workers : WF_vars(RunStep(w))
  /\ \A e \in Events : SF_vars(\E w \in Workers : Claim(w, e))
  /\ \A e \in Events : WF_vars(Orphaned(e) /\ Stall(e))

FairSpec == Spec /\ Fairness

-----------------------------------------------------------------------------
(* Properties *)

\* Every variable keeps its type.
TypeOK ==
  /\ exists \in BOOLEAN /\ active \in BOOLEAN
  /\ subscribed \in SUBSET Events
  /\ failures \in Nat
  /\ fired \in SUBSET Events
  /\ job \in [Events -> Job]
  /\ wpc \in [Workers -> {"idle", "check", "disable", "post", "record",
                          "count", "done", "thrown"}]
  /\ on  \in [Workers -> Events \cup {NoEvent}]
  /\ ok  \in [Workers -> BOOLEAN]
  /\ acked \in SUBSET Events /\ repeated \in SUBSET Events
  /\ toggles \in Nat /\ faults \in Nat

\* The failure count overshoots the threshold by less than the number of
\* workers: those that had passed the pre-flight check when it was reached.
\* (Pre-flight and finally of WebhookWorker.process.)
OvershootBounded == failures < Threshold + Cardinality(Workers)

\* An event the endpoint answered 2xx for is posted again only after a fault
\* or a stalled job.  (success and the rethrow of WebhookWorker.process.)
RepeatedOnlyAfterFault ==
  \A e \in repeated : faults > 0 \/ job[e].stalls > 0

\* Every event taken over is delivered, given up or dropped with a webhook
\* that is off.  (attempts of dispatch, maxStalledCount of WebhookWorker.)
EventsSettle == \A e \in Events : job[e].state = "wait" ~> Finished(job[e])
=============================================================================
