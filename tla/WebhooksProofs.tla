--------------------------- MODULE WebhooksProofs ---------------------------
(***************************************************************************)
(* Safety of Webhooks for every set of events and workers and every value  *)
(* of Threshold, Attempts, MaxStalled, MaxToggles and MaxFaults.           *)
(*                                                                         *)
(* The bound on the overshoot is not inductive by itself: a worker that    *)
(* passed the pre-flight check will still add to the count.  Reserved      *)
(* counts those workers as failures they may yet report.                   *)
(*                                                                         *)
(* That an answered event is not posted again rests on an event without    *)
(* faults or stalls being in one run at a time (SoleRun), and on a run     *)
(* that finds it answered being past the post or finding no webhook        *)
(* (AckedIsOver): a webhook that was removed does not come back while      *)
(* there are jobs of it.                                                   *)
(***************************************************************************)
EXTENDS Webhooks, FiniteSetTheorems, TLAPS

\* Workers past the pre-flight check whose outcome is not counted yet.
Posting == {w \in Workers : wpc[w] \in {"post", "record", "count"}}

Reserved == failures + Cardinality(Posting) < Threshold + Cardinality(Workers)

RunsOwned == \A w \in Workers : wpc[w] # "idle" => on[w] \in Events

IInv == TypeOK /\ RunsOwned /\ Reserved

\* Nothing failed, and the job of the event never stalled.
Clean(e) == faults = 0 /\ job[e].stalls = 0

JobsFired ==
  /\ \A e \in Events : job[e].state # "absent" => e \in fired
  /\ \A w \in Workers : wpc[w] # "idle" => job[on[w]].state # "absent"

SoleRun ==
  \A w \in Workers : wpc[w] # "idle" /\ Clean(on[w]) => Holds(job[on[w]], w)

AckedIsOver ==
  \A e \in acked :
    /\ job[e].state # "absent"
    /\ Clean(e) =>
         /\ job[e].state = "wait" => ~exists
         /\ \A w \in Workers : wpc[w] # "idle" /\ on[w] = e =>
              \/ wpc[w] \in {"record", "count"} /\ ok[w]
              \/ wpc[w] = "done"
              \/ wpc[w] \in {"check", "thrown"} /\ ~exists

OInv == JobsFired /\ SoleRun /\ AckedIsOver /\ RepeatedOnlyAfterFault

-----------------------------------------------------------------------------
\* The operations on a BullMQ job yield jobs.
LEMMA JobTyped ==
  ASSUME NEW j \in Job, NEW w \in Workers
  PROVE  /\ Landed(j) \in Job /\ Claimed(j, w) \in Job
         /\ Acked(j, w) \in Job /\ Rejected(j, w) \in Job /\ Stalled(j) \in Job
  BY DEF Job, JobState, Landed, Claimed, Acked, Rejected, Stalled, Holds,
         Completed, Thrown

\* Types and the events of runs hold initially.
LEMMA TypeInit == Init => TypeOK /\ RunsOwned
<1>1. NoJob \in Job
  BY DEF NoJob, Job, JobState
<1>2. Init => /\ exists \in BOOLEAN /\ active \in BOOLEAN
              /\ ok \in [Workers -> BOOLEAN]
  BY Zenon DEF Init
<1> QED
  BY <1>1, <1>2 DEF Init, TypeOK, RunsOwned

\* Every step keeps the types, and runs keep an event.
LEMMA TypeStep ==
  ASSUME TypeOK, RunsOwned, [Next]_vars
  PROVE  TypeOK' /\ RunsOwned'
<1> USE DEF TypeOK, RunsOwned, hookVars, histVars
<1>1. ASSUME NEW e \in Events, Dispatch(e) \/ Stall(e)
      PROVE  TypeOK' /\ RunsOwned'
  <2>1. Landed(job[e]) \in Job /\ Stalled(job[e]) \in Job
    BY DEF Landed, Stalled, Job, JobState
  <2> QED
    BY <1>1, <2>1, BoundsAssumption DEF Dispatch, Stall, Fault
<1>2. ASSUME NEW w \in Workers, NEW e \in Events, Claim(w, e)
      PROVE  TypeOK' /\ RunsOwned'
  <2>1. Claimed(job[e], w) \in Job
    BY JobTyped
  <2> QED
    BY <1>2, <2>1 DEF Claim, Step
<1>3. ASSUME NEW w \in Workers, RunStep(w) \/ Crash(w)
      PROVE  TypeOK' /\ RunsOwned'
  <2>1. CASE Preflight(w)
    BY <2>1, BoundsAssumption DEF Preflight, Step, Fault
  <2>2. CASE Disable(w)
    <3>1. exists' \in BOOLEAN /\ active' \in BOOLEAN
      BY <2>2, Zenon DEF Disable
    <3> QED
      BY <2>2, <3>1, BoundsAssumption DEF Disable, Step, Fault
  <2>3. CASE Post(w)
    BY <2>3 DEF Post, Step
  <2>4. CASE RecordDelivery(w)
    BY <2>4, BoundsAssumption DEF RecordDelivery, Step, Fault
  <2>5. CASE CountOutcome(w)
    BY <2>5, BoundsAssumption DEF CountOutcome, AfterCount, Step, Fault
  <2>6. CASE Finish(w)
    <3>1. on[w] \in Events
      BY <2>6 DEF Finish
    <3>2. Acked(job[on[w]], w) \in Job /\ Rejected(job[on[w]], w) \in Job
      BY <3>1, JobTyped
    <3> QED
      BY <2>6, <3>1, <3>2 DEF Finish, GoIdle
  <2>7. CASE Crash(w)
    BY <2>7, BoundsAssumption DEF Crash, GoIdle, Fault
  <2> QED
    BY <1>3, <2>1, <2>2, <2>3, <2>4, <2>5, <2>6, <2>7 DEF RunStep
<1>4. ASSUME NEW b \in BOOLEAN, NEW S \in SUBSET Events, Update(b, S)
      PROVE  TypeOK' /\ RunsOwned'
  <2>1. exists' \in BOOLEAN /\ active' \in BOOLEAN
    BY <1>4, Zenon DEF Update
  <2> QED
    BY <1>4, <2>1 DEF Update, OwnerActs
<1>5. CASE Create \/ Remove
  <2>1. exists' \in BOOLEAN /\ active' \in BOOLEAN
    BY <1>5, Zenon DEF Create, Remove
  <2> QED
    BY <1>5, <2>1 DEF Create, Remove, OwnerActs
<1>6. CASE UNCHANGED vars
  BY <1>6 DEF vars
<1> QED
  BY <1>1, <1>2, <1>3, <1>4, <1>5, <1>6, EventAssumption DEF Next, Notify, Test

-----------------------------------------------------------------------------
\* Posting is finite and no larger than Workers.
LEMMA PostingFinite ==
  /\ IsFiniteSet(Posting) /\ Cardinality(Posting) \in Nat
  /\ Cardinality(Posting) <= Cardinality(Workers)
  /\ Cardinality(Workers) \in Nat
<1>1. Posting \subseteq Workers
  BY DEF Posting
<1> QED
  BY <1>1, FiniteAssumption, FS_Subset, FS_CardinalityType

\* The same after a step.
LEMMA PostingFiniteNext ==
  /\ IsFiniteSet(Posting') /\ Cardinality(Posting') \in Nat
  /\ Cardinality(Posting') <= Cardinality(Workers)
<1>1. Posting' \subseteq Workers
  BY DEF Posting
<1> QED
  BY <1>1, FiniteAssumption, FS_Subset, FS_CardinalityType

\* A step that takes nobody past the check and counts nothing.
LEMMA ReservedFrame ==
  ASSUME TypeOK, Reserved, Posting' \subseteq Posting,
         failures' \in Nat, failures' <= failures
  PROVE  Reserved'
<1>1. Cardinality(Posting') <= Cardinality(Posting)
  BY PostingFinite, FS_Subset
<1> QED
  BY <1>1, PostingFinite, PostingFiniteNext, ThresholdAssumption
     DEF Reserved, TypeOK

\* Every step keeps the reservation: who passes the check finds the count
\* below the threshold, and who counts a failure gives its reservation up.
LEMMA ReservedStep ==
  ASSUME TypeOK, Reserved, [Next]_vars
  PROVE  Reserved'
<1>1. ASSUME NEW e \in Events, Dispatch(e) \/ Stall(e)
      PROVE  Reserved'
  BY <1>1, ReservedFrame DEF Dispatch, Stall, hookVars, Posting, TypeOK
<1>2. ASSUME NEW w \in Workers, NEW e \in Events, Claim(w, e)
      PROVE  Reserved'
  BY <1>2, ReservedFrame DEF Claim, Step, hookVars, Posting, TypeOK
<1>3. ASSUME NEW w \in Workers, RunStep(w) \/ Crash(w)
      PROVE  Reserved'
  <2>1. CASE Preflight(w)
    <3>1. CASE failures < Threshold /\ failures' = failures
      BY <3>1, PostingFiniteNext, PostingFinite, ThresholdAssumption
         DEF Reserved, TypeOK
    <3>2. CASE ~(failures < Threshold /\ failures' = failures)
      <4>1. failures' = failures /\ Posting' \subseteq Posting
        BY <2>1, <3>2, ThresholdAssumption
           DEF Preflight, OverThreshold, Step, hookVars, Posting, TypeOK
      <4> QED
        BY <4>1, ReservedFrame DEF TypeOK
    <3> QED
      BY <3>1, <3>2
  <2>2. CASE Disable(w) \/ Post(w) \/ RecordDelivery(w)
    BY <2>2, ReservedFrame
       DEF Disable, Post, RecordDelivery, Step, hookVars, Posting, TypeOK
  <2>3. CASE CountOutcome(w)
    <3>1. w \in Posting /\ Posting' = Posting \ {w}
      BY <2>3 DEF CountOutcome, AfterCount, Step, Posting, TypeOK
    <3>2. Cardinality(Posting') = Cardinality(Posting) - 1
      BY <3>1, PostingFinite, FS_RemoveElement
    <3>3. failures' \in Nat /\ failures' <= failures + 1
      BY <2>3 DEF CountOutcome, TypeOK
    <3> QED
      BY <3>2, <3>3, PostingFinite, ThresholdAssumption DEF Reserved, TypeOK
  <2>4. CASE Finish(w) \/ Crash(w)
    BY <2>4, ReservedFrame DEF Finish, Crash, GoIdle, hookVars, Posting, TypeOK
  <2> QED
    BY <1>3, <2>1, <2>2, <2>3, <2>4 DEF RunStep
<1>4. ASSUME NEW b \in BOOLEAN, NEW S \in SUBSET Events, Update(b, S)
      PROVE  Reserved'
  BY <1>4, ReservedFrame DEF Update, Posting, TypeOK
<1>5. CASE Create \/ Remove
  BY <1>5, ReservedFrame DEF Create, Remove, Posting, TypeOK
<1>6. CASE UNCHANGED vars
  BY <1>6, ReservedFrame DEF vars, Posting, TypeOK
<1> QED
  BY <1>1, <1>2, <1>3, <1>4, <1>5, <1>6, EventAssumption DEF Next, Notify, Test

\* The inductive invariant holds throughout.
LEMMA Inductive == Spec => []IInv
<1>1. Init => IInv
  <2> SUFFICES ASSUME Init PROVE IInv
    OBVIOUS
  <2>1. Posting = {}
    BY DEF Init, Posting
  <2>2. Cardinality(Posting) = 0
    BY <2>1, FS_EmptySet
  <2>3. Reserved
    BY <2>2, PostingFinite, ThresholdAssumption DEF Init, Reserved
  <2> QED
    BY <2>3, TypeInit DEF IInv
<1>2. IInv /\ [Next]_vars => IInv'
  BY TypeStep, ReservedStep DEF IInv
<1> QED
  BY <1>1, <1>2, PTL DEF Spec

-----------------------------------------------------------------------------
\* What the operations on a BullMQ job do to its state, lock and stalls.
LEMMA JobMoves ==
  ASSUME NEW j \in Job, NEW w \in Workers
  PROVE  /\ Landed(j).state = "wait" /\ Landed(j).stalls = j.stalls
         /\ Claimed(j, w).state = "active" /\ Claimed(j, w).owner = w
         /\ Claimed(j, w).stalls = j.stalls
         /\ Acked(j, w).stalls = j.stalls /\ Rejected(j, w).stalls = j.stalls
         /\ Holds(j, w) => /\ Acked(j, w).state = "completed"
                           /\ Rejected(j, w).state \in {"wait", "failed"}
         /\ ~Holds(j, w) => Acked(j, w) = j /\ Rejected(j, w) = j
         /\ Stalled(j).stalls > 0 /\ Stalled(j).state # "absent"
  BY DEF Job, JobState, Landed, Claimed, Acked, Rejected, Stalled, Holds,
         Completed, Thrown

\* A step of a run that leaves the jobs and what was answered alone, and goes
\* to a place where an answered event may be.
LEMMA RunMoves ==
  ASSUME TypeOK, RunsOwned, OInv, NEW w \in Workers, NEW p, wpc[w] # "idle",
         UNCHANGED <<exists, fired, job, on, ok, acked, repeated>>,
         wpc' = [wpc EXCEPT ![w] = p],
         faults' = faults \/ faults' = faults + 1,
         on[w] \in acked /\ Clean(on[w]) /\ faults' = faults =>
           \/ p \in {"record", "count"} /\ ok[w]
           \/ p = "done"
           \/ p \in {"check", "thrown"} /\ ~exists
  PROVE  OInv'
<1> USE DEF TypeOK, RunsOwned, OInv, Clean
<1>1. JobsFired'
  BY DEF JobsFired
<1>2. SoleRun'
  BY DEF SoleRun, Holds
<1>3. AckedIsOver'
  BY DEF AckedIsOver
<1>4. RepeatedOnlyAfterFault'
  BY DEF RepeatedOnlyAfterFault
<1> QED
  BY <1>1, <1>2, <1>3, <1>4

\* Every step keeps an answered event out of a further post.
LEMMA OnceStep ==
  ASSUME TypeOK, RunsOwned, OInv, [Next]_vars
  PROVE  OInv'
<1> USE DEF TypeOK, RunsOwned, hookVars, histVars
<1>1. ASSUME NEW e \in Events, Dispatch(e)
      PROVE  OInv'
  <2>1. job[e].state = "absent" /\ e \notin acked
    BY <1>1 DEF Dispatch, OInv, JobsFired, AckedIsOver
  <2>2. /\ UNCHANGED <<exists, wpc, on, ok, acked, repeated>>
        /\ fired' = fired \cup {e}
        /\ faults' \in Nat /\ faults' >= faults
        /\ \A d \in Events : d # e => job'[d] = job[d]
        /\ job'[e].stalls = job[e].stalls
    <3>1. Landed(job[e]).stalls = job[e].stalls
      BY DEF Landed, Job
    <3>2. \/ job' = job
          \/ job' = [job EXCEPT ![e] = Landed(job[e])]
      BY <1>1 DEF Dispatch
    <3>3. faults' \in Nat /\ faults' >= faults
      BY <1>1, BoundsAssumption DEF Dispatch, Fault
    <3>4. /\ UNCHANGED <<exists, wpc, on, ok, acked, repeated>>
          /\ fired' = fired \cup {e}
      BY <1>1 DEF Dispatch
    <3> QED
      BY <3>1, <3>2, <3>3, <3>4
  <2>3. \A w \in Workers : wpc[w] # "idle" => on[w] # e
    BY <2>1 DEF OInv, JobsFired
  <2>4. JobsFired'
    BY <2>2, <2>3 DEF OInv, JobsFired
  <2>5. SoleRun'
    BY <2>2, <2>3 DEF OInv, SoleRun, Clean, Holds
  <2>6. AckedIsOver'
    BY <2>1, <2>2 DEF OInv, AckedIsOver, Clean
  <2>7. RepeatedOnlyAfterFault'
    BY <2>2 DEF OInv, RepeatedOnlyAfterFault
  <2> QED
    BY <2>4, <2>5, <2>6, <2>7 DEF OInv
<1>2. ASSUME NEW e \in Events, Stall(e)
      PROVE  OInv'
  <2>1. Stalled(job[e]).stalls > 0 /\ Stalled(job[e]).state # "absent"
    BY DEF Stalled, Job
  <2>2. /\ UNCHANGED <<exists, fired, wpc, on, ok, acked, repeated, faults>>
        /\ \A d \in Events : d # e => job'[d] = job[d]
        /\ job'[e].stalls > 0 /\ job'[e].state # "absent"
        /\ job[e].state # "absent"
    BY <1>2, <2>1 DEF Stall
  <2> QED
    BY <2>2 DEF OInv, JobsFired, SoleRun, AckedIsOver, RepeatedOnlyAfterFault,
                Clean, Holds
<1>3. ASSUME NEW w \in Workers, NEW e \in Events, Claim(w, e)
      PROVE  OInv'
  <2>1. /\ UNCHANGED <<exists, fired, ok, acked, repeated, faults>>
        /\ job[e].state = "wait" /\ wpc[w] = "idle"
        /\ job' = [job EXCEPT ![e] = Claimed(job[e], w)]
        /\ on' = [on EXCEPT ![w] = e] /\ wpc' = [wpc EXCEPT ![w] = "check"]
    BY <1>3 DEF Claim, Step
  <2>2. /\ \A d \in Events : d # e => job'[d] = job[d]
        /\ job'[e].stalls = job[e].stalls /\ Holds(job'[e], w)
        /\ job'[e].state = "active"
    BY <2>1, JobMoves DEF Holds
  <2>3. \A v \in Workers : wpc[v] # "idle" /\ on[v] = e => ~Clean(e)
    BY <2>1 DEF OInv, SoleRun, Holds
  <2>4. JobsFired'
    BY <2>1, <2>2 DEF OInv, JobsFired
  <2>5. SoleRun'
    BY <2>1, <2>2, <2>3 DEF OInv, SoleRun, Clean
  <2>6. AckedIsOver'
    BY <2>1, <2>2, <2>3 DEF OInv, AckedIsOver, Clean
  <2>7. RepeatedOnlyAfterFault'
    BY <2>1, <2>2 DEF OInv, RepeatedOnlyAfterFault
  <2> QED
    BY <2>4, <2>5, <2>6, <2>7 DEF OInv
<1>4. ASSUME NEW w \in Workers, Preflight(w)
      PROVE  OInv'
  BY <1>4, RunMoves DEF Preflight, Step, Fault, OInv, AckedIsOver
<1>5. ASSUME NEW w \in Workers, Disable(w)
      PROVE  OInv'
  BY <1>5, RunMoves DEF Disable, Step, Fault, OInv, AckedIsOver
<1>6. ASSUME NEW w \in Workers, RecordDelivery(w)
      PROVE  OInv'
  BY <1>6, RunMoves DEF RecordDelivery, Step, Fault, OInv, AckedIsOver
<1>7. ASSUME NEW w \in Workers, CountOutcome(w)
      PROVE  OInv'
  BY <1>7, RunMoves DEF CountOutcome, AfterCount, Step, Fault, OInv, AckedIsOver
<1>8. ASSUME NEW w \in Workers, Post(w)
      PROVE  OInv'
  <2>1. /\ UNCHANGED <<exists, fired, job, on, faults>>
        /\ wpc[w] = "post" /\ wpc' = [wpc EXCEPT ![w] = "record"]
        /\ on[w] \in Events
    BY <1>8 DEF Post, Step
  <2>2. PICK b \in BOOLEAN : /\ ok' = [ok EXCEPT ![w] = b]
                             /\ acked' = IF b THEN acked \cup {on[w]} ELSE acked
    BY <1>8 DEF Post
  <2>3. on[w] \in acked => ~Clean(on[w])
    BY <2>1 DEF OInv, AckedIsOver
  <2>4. JobsFired' /\ SoleRun'
    BY <2>1 DEF OInv, JobsFired, SoleRun, Clean, Holds
  <2>5. AckedIsOver'
    <3>1. job[on[w]].state # "absent"
      BY <2>1 DEF OInv, JobsFired
    <3>2. Clean(on[w]) => Holds(job[on[w]], w)
      BY <2>1 DEF OInv, SoleRun
    <3>3. \A v \in Workers : v # w /\ wpc[v] # "idle" /\ on[v] = on[w] => ~Clean(on[w])
      BY <2>1, <3>2 DEF OInv, SoleRun, Holds
    <3> QED
      BY <2>1, <2>2, <2>3, <3>1, <3>2, <3>3 DEF OInv, AckedIsOver, Clean, Holds
  <2>6. RepeatedOnlyAfterFault'
    BY <1>8, <2>1, <2>3 DEF Post, OInv, RepeatedOnlyAfterFault, Clean, Job
  <2> QED
    BY <2>4, <2>5, <2>6 DEF OInv
<1>9. ASSUME NEW w \in Workers, Finish(w)
      PROVE  OInv'
  <2>1. /\ UNCHANGED <<exists, fired, acked, repeated, faults>>
        /\ wpc[w] \in {"done", "thrown"} /\ on[w] \in Events
        /\ wpc' = [wpc EXCEPT ![w] = "idle"]
        /\ \A v \in Workers : v # w => on'[v] = on[v] /\ ok'[v] = ok[v]
    BY <1>9 DEF Finish, GoIdle
  <2>2. /\ \A d \in Events : d # on[w] => job'[d] = job[d]
        /\ job'[on[w]].stalls = job[on[w]].stalls
        /\ Holds(job[on[w]], w) =>
             \/ job'[on[w]].state = "completed"
             \/ wpc[w] = "thrown" /\ job'[on[w]].state \in {"wait", "failed"}
        /\ ~Holds(job[on[w]], w) => job'[on[w]] = job[on[w]]
    BY <1>9, <2>1, JobMoves DEF Finish
  <2>3. \A v \in Workers : v # w /\ wpc[v] # "idle" /\ on[v] = on[w] => ~Clean(on[w])
    BY <2>1 DEF OInv, SoleRun, Holds
  <2>4. job'[on[w]].state # "absent"
    BY <2>1, <2>2 DEF OInv, JobsFired
  <2>5. JobsFired'
    BY <2>1, <2>2, <2>4 DEF OInv, JobsFired
  <2>6. SoleRun'
    BY <2>1, <2>2, <2>3 DEF OInv, SoleRun, Clean
  <2>7. AckedIsOver'
    <3>1. Clean(on[w]) => Holds(job[on[w]], w)
      BY <2>1 DEF OInv, SoleRun
    <3> QED
      BY <2>1, <2>2, <2>3, <2>4, <3>1 DEF OInv, AckedIsOver, Clean
  <2>8. RepeatedOnlyAfterFault'
    BY <2>1, <2>2 DEF OInv, RepeatedOnlyAfterFault
  <2> QED
    BY <2>5, <2>6, <2>7, <2>8 DEF OInv
<1>10. ASSUME NEW w \in Workers, Crash(w)
       PROVE  OInv'
  <2>1. faults' > 0 /\ UNCHANGED <<fired, job>>
    BY <1>10 DEF Crash, Fault
  <2>2. /\ acked' = acked
        /\ \A v \in Workers : wpc'[v] # "idle" => wpc[v] # "idle" /\ on'[v] = on[v]
    BY <1>10 DEF Crash, GoIdle
  <2> QED
    BY <2>1, <2>2 DEF OInv, JobsFired, SoleRun, AckedIsOver, RepeatedOnlyAfterFault,
                      Clean
<1>11. ASSUME NEW b \in BOOLEAN, NEW S \in SUBSET Events, Update(b, S)
       PROVE  OInv'
  BY <1>11 DEF Update, OInv, JobsFired, SoleRun, AckedIsOver, RepeatedOnlyAfterFault,
               Clean, Holds
<1>12. CASE Create
  BY <1>12 DEF Create, OInv, JobsFired, SoleRun, AckedIsOver, RepeatedOnlyAfterFault,
               Clean, Holds
<1>13. CASE Remove
  BY <1>13 DEF Remove, OInv, JobsFired, SoleRun, AckedIsOver, RepeatedOnlyAfterFault,
               Clean, Holds
<1>14. CASE UNCHANGED vars
  BY <1>14 DEF vars, OInv, JobsFired, SoleRun, AckedIsOver, RepeatedOnlyAfterFault,
               Clean, Holds
<1> QED
  BY <1>1, <1>2, <1>3, <1>4, <1>5, <1>6, <1>7, <1>8, <1>9, <1>10, <1>11, <1>12, <1>13,
     <1>14, EventAssumption DEF Next, Notify, Test, RunStep

-----------------------------------------------------------------------------
\* Every variable keeps its type, for any number of events and workers.
\* (WebhookService.dispatch, WebhookWorker.process, the owner's endpoints.)
THEOREM TypeCorrect == Spec => []TypeOK
  BY Inductive, PTL DEF IInv

\* The failure count stays below the threshold plus the number of workers,
\* whatever the threshold, however many events fail, stall or are retried.
\* (Pre-flight and finally of WebhookWorker.process.)
THEOREM OvershootIsBounded == Spec => []OvershootBounded
<1>1. IInv => OvershootBounded
  BY PostingFinite, ThresholdAssumption
     DEF IInv, Reserved, OvershootBounded, TypeOK
<1> QED
  BY <1>1, Inductive, PTL

\* An event the endpoint answered 2xx for is posted again only after a fault
\* or a stalled job, however many workers, attempts and changes by the owner.
\* (success and the rethrow of WebhookWorker.process.)
THEOREM RepeatsOnlyAfterFault == Spec => []RepeatedOnlyAfterFault
<1>1. Init => OInv
  BY DEF Init, OInv, JobsFired, SoleRun, AckedIsOver, RepeatedOnlyAfterFault, NoJob
<1>2. IInv /\ OInv /\ [Next]_vars => OInv'
  BY OnceStep DEF IInv
<1>3. OInv => RepeatedOnlyAfterFault
  BY DEF OInv
<1> QED
  BY <1>1, <1>2, <1>3, Inductive, PTL DEF Spec
=============================================================================
