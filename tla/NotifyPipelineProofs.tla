------------------------ MODULE NotifyPipelineProofs ------------------------
(***************************************************************************)
(* Safety of NotifyPipeline for every set of requests, keys and workers    *)
(* and every value of Attempts, MaxStalled and MaxFaults.                  *)
(*                                                                         *)
(* The bound on dispatch passes is not inductive by itself.  IInv ties the *)
(* number of runs of a job to what BullMQ counts (JobOK), the numbers of   *)
(* live runs and of past dispatches to that count (RunsNumbered,           *)
(* PassesNumbered), what a run is about to record or meter to what it sent *)
(* (SendsOwned), and everything done for a notification to the one row its *)
(* key allows (RowsFirst, KeysUnique).                                     *)
(***************************************************************************)
EXTENDS NotifyPipeline, FiniteSetTheorems, TLAPS

\* How the counters of a job bound the number of times it was started.
JobOK(j) ==
  /\ j.state \in {"absent", "adding"} =>
       j.made = 0 /\ j.stalls = 0 /\ j.starts = 0
  /\ j.state \in {"wait", "active", "completed"} =>
       j.made < Attempts /\ j.stalls <= MaxStalled
  /\ j.state = "failed" => j.made + j.stalls <= Attempts + MaxStalled
  /\ j.starts = j.made + j.stalls
                + (IF j.state \in {"active", "completed"} THEN 1 ELSE 0)

JobsOK == \A n \in Requests : JobOK(job[n])

RunsNumbered ==
  \A w \in Workers : wpc[w] # "idle" =>
    on[w] \in Requests /\ no[w] \in 1..job[on[w]].starts

PassesNumbered ==
  \A n \in Requests : passes[n] \subseteq 1..job[n].starts

SendsOwned ==
  /\ \A n \in Requests : sent[n] \subseteq passes[n]
  /\ \A w \in Workers :
       (wpc[w] = "meter" \/ (wpc[w] = "record" /\ out[w] # "none"))
         => no[w] \in sent[on[w]]

RowsFirst ==
  \A n \in Requests :
    /\ job[n].state # "absent" => status[n] # "none"
    /\ pc[n] \in {"enqueue", "adding", "undoRow", "undoKey"}
         => status[n] # "none"
    /\ pc[n] \in {"new", "lookup", "gate", "create", "enqueue"}
         => job[n].state = "absent"
    /\ pc[n] = "adding" => job[n].state # "absent"
    /\ answer[n] # "none" => pc[n] = "over"

KeysUnique ==
  \A n, m \in Requests :
    (n # m /\ KeyOf[n] = KeyOf[m] /\ KeyOf[n] # NoKey)
      => status[n] = "none" \/ status[m] = "none"

IInv ==
  /\ TypeOK /\ JobsOK /\ RunsNumbered /\ PassesNumbered /\ SendsOwned
  /\ RowsFirst /\ KeysUnique /\ StatusBacked /\ MeteringBacked
  /\ QueuedAnswerHasJob

\* While a job never stalled, a run of it holds its lock: no other run is
\* under way.
SoleRun ==
  \A w \in Workers :
    (wpc[w] # "idle" /\ job[on[w]].stalls = 0) => Holds(job[on[w]], w)

\* Nobody is left to overwrite a row that says delivered.
DeliveredAtRest ==
  \A n \in Requests : (status[n] = "delivered" /\ job[n].stalls = 0) =>
    /\ job[n].state \in {"active", "completed"}
    /\ \A w \in Workers :
         (wpc[w] # "idle" /\ on[w] = n) => wpc[w] \in {"meter", "done"}

\* What DeliveredIsStable needs beside IInv.
SInv == SoleRun /\ DeliveredAtRest

-----------------------------------------------------------------------------
\* The operations on a BullMQ job yield jobs.
LEMMA JobTyped ==
  ASSUME NEW j \in Job
  PROVE  /\ NoJob \in Job /\ Issued(j) \in Job
         /\ Landed(j) \in Job /\ Stalled(j) \in Job
<1> USE DEF Job, JobState
<1>1. NoJob \in Job /\ Issued(j) \in Job /\ Landed(j) \in Job
  BY DEF NoJob, Issued, Landed
<1>2. Stalled(j) \in Job
  BY DEF Stalled
<1> QED
  BY <1>1, <1>2

\* So do the operations of a worker on it.
LEMMA RunTyped ==
  ASSUME NEW j \in Job, NEW w \in Workers
  PROVE  Claimed(j, w) \in Job /\ Acked(j, w) \in Job /\ Rejected(j, w) \in Job
<1> USE DEF Job, JobState
<1>1. Claimed(j, w) \in Job
  BY DEF Claimed
<1>2. Completed(j) \in Job
  BY DEF Completed
<1>3. Thrown(j) \in Job
  BY DEF Thrown
<1> QED
  BY <1>1, <1>2, <1>3 DEF Acked, Rejected

\* Adding an element to one of the history sets keeps their type.
LEMMA SetExtended ==
  ASSUME NEW S, NEW f \in [Requests -> SUBSET S], NEW n, NEW x \in S
  PROVE  [f EXCEPT ![n] = @ \cup {x}] \in [Requests -> SUBSET S]
  OBVIOUS

\* Every step of the pipeline keeps the types of the variables.
LEMMA TypeStep == TypeOK /\ [Next]_vars => TypeOK'
<1> SUFFICES ASSUME TypeOK, [Next]_vars PROVE TypeOK'
  OBVIOUS
<1> USE DEF TypeOK
<1>1. ASSUME NEW r \in Requests,
             IdemCheck(r) \/ IdemLookup(r) \/ Gates(r) \/ CreateRow(r)
      PROVE  TypeOK'
  <2>1. CASE IdemCheck(r)
    BY <2>1, KeyOfAssumption, FaultsAssumption
       DEF IdemCheck, Goto, Respond, Fault, ReqPC, Answers, rowVars, runVars,
           histVars
  <2>2. CASE IdemLookup(r)
    <3>1. (IF idem[KeyOf[r]] # NoRequest THEN idem[KeyOf[r]] ELSE r)
            \in Requests \cup {NoRequest}
      BY <2>2, KeyOfAssumption DEF IdemLookup
    <3>2. dupOf' \in [Requests -> Requests \cup {NoRequest}]
      BY <2>2, <3>1 DEF IdemLookup
    <3> QED
      BY <2>2, <3>2, FaultsAssumption
         DEF IdemLookup, Respond, Fault, ReqPC, Answers, rowVars, runVars,
             histVars
  <2>3. CASE Gates(r) \/ CreateRow(r)
    BY <2>3, FaultsAssumption
       DEF Gates, CreateRow, Goto, Respond, Fault, ReqPC, Answers, RowStatus,
           rowVars, runVars, histVars
  <2> QED
    BY <1>1, <2>1, <2>2, <2>3
<1>2. ASSUME NEW r \in Requests,
             Enqueue(r) \/ AddAcked(r) \/ AddTimesOut(r) \/ UndoRow(r)
               \/ UndoKey(r) \/ RequestCrash(r) \/ AddRejected(r)
      PROVE  TypeOK'
  <2>1. job[r] \in Job
    OBVIOUS
  <2>2. Issued(job[r]) \in Job /\ NoJob \in Job
    BY <2>1, JobTyped
  <2>3. CASE Enqueue(r)
    BY <2>2, <2>3 DEF Enqueue, Goto, ReqPC, rowVars, runVars, histVars
  <2>4. CASE AddRejected(r)
    BY <2>2, <2>4, FaultsAssumption
       DEF AddRejected, Goto, Fault, ReqPC, rowVars, runVars, histVars
  <2>5. CASE AddAcked(r)
    BY <2>5 DEF AddAcked, Respond, ReqPC, Answers, rowVars, runVars, histVars
  <2>6. CASE AddTimesOut(r)
    BY <2>6 DEF AddTimesOut, Goto, ReqPC, rowVars, runVars, histVars
  <2>7. CASE UndoRow(r)
    BY <2>7, FaultsAssumption
       DEF UndoRow, Goto, Respond, Fault, ReqPC, Answers, RowStatus, rowVars,
           runVars, histVars
  <2>8. CASE UndoKey(r)
    BY <2>8, KeyOfAssumption, FaultsAssumption
       DEF UndoKey, Respond, Fault, ReqPC, Answers, rowVars, runVars, histVars
  <2>9. CASE RequestCrash(r)
    BY <2>9, FaultsAssumption
       DEF RequestCrash, Goto, Fault, ReqPC, rowVars, runVars, histVars
  <2> QED
    BY <1>2, <2>3, <2>4, <2>5, <2>6, <2>7, <2>8, <2>9
<1>3. ASSUME NEW n \in Requests, AddLands(n) \/ Stall(n)
      PROVE  TypeOK'
  <2>1. job[n] \in Job
    OBVIOUS
  <2>2. Landed(job[n]) \in Job /\ Stalled(job[n]) \in Job
    BY <2>1, JobTyped
  <2> QED
    BY <1>3, <2>2 DEF AddLands, Stall, reqVars, rowVars, runVars, histVars
<1>4. ASSUME NEW k \in Keys, KeyExpires(k)
      PROVE  TypeOK'
  BY <1>4 DEF KeyExpires, rowVars, runVars, histVars
<1>5. ASSUME NEW w \in Workers, NEW n \in Requests, Claim(w, n)
      PROVE  TypeOK'
  <2>1. job[n] \in Job /\ job[n].starts + 1 \in Nat
    BY DEF Job
  <2>2. Claimed(job[n], w) \in Job
    BY <2>1, RunTyped
  <2> QED
    BY <1>5, <2>1, <2>2 DEF Claim, Step, RunPC, reqVars, rowVars, histVars
<1>6. ASSUME NEW w \in Workers, RunStep(w) \/ WorkerCrash(w)
      PROVE  TypeOK'
  <2>1. CASE MarkProcessing(w) \/ RecordOptOut(w)
    <3>1. status' \in [Requests -> RowStatus]
      BY <2>1 DEF MarkProcessing, RecordOptOut, RowStatus
    <3>2. wpc' \in [Workers -> RunPC]
      BY <2>1 DEF MarkProcessing, RecordOptOut, Step, RunPC
    <3>3. faults' \in Nat
      BY <2>1, FaultsAssumption DEF MarkProcessing, RecordOptOut, Fault
    <3> QED
      BY <2>1, <3>1, <3>2, <3>3
         DEF MarkProcessing, RecordOptOut, reqVars, histVars
  <2>7. CASE Route(w)
    BY <2>7 DEF Route, Step, RunPC, reqVars, rowVars, histVars
  <2>8. CASE WorkerCrash(w)
    BY <2>8, FaultsAssumption
       DEF WorkerCrash, GoIdle, Fault, RunPC, Outcome, reqVars, rowVars, histVars
  <2>2. CASE Dispatch(w)
    <3>1. [passes EXCEPT ![on[w]] = @ \cup {no[w]}] \in [Requests -> SUBSET Nat]
      BY SetExtended, Zenon
    <3>2. [sent EXCEPT ![on[w]] = @ \cup {no[w]}] \in [Requests -> SUBSET Nat]
      BY SetExtended, Zenon
    <3>3. [sent EXCEPT ![on[w]] = @] = sent
      OBVIOUS
    <3>4. passes' \in [Requests -> SUBSET Nat] /\ sent' \in [Requests -> SUBSET Nat]
      BY <2>2, <3>1, <3>2, <3>3 DEF Dispatch
    <3> QED
      BY <2>2, <3>4 DEF Dispatch, Step, RunPC, Outcome, reqVars, rowVars
  <2>3. CASE RecordOutcome(w)
    <3>1. status' \in [Requests -> RowStatus]
      BY <2>3 DEF RecordOutcome, DeliveredStatus, RowStatus, rowVars
    <3>2. retries' \in [Requests -> Nat]
      BY <2>3 DEF RecordOutcome, CountRetry, rowVars
    <3> QED
      BY <2>3, <3>1, <3>2, FaultsAssumption
         DEF RecordOutcome, Step, Fault, RunPC, reqVars, histVars
  <2>4. CASE MeterAndFire(w)
    <3>1. [metered EXCEPT ![on[w]] = @ \cup {no[w]}] \in [Requests -> SUBSET Nat]
      BY SetExtended, Zenon
    <3>2. events' \in [Requests -> SUBSET Event]
      BY <2>4 DEF MeterAndFire, Event
    <3> QED
      BY <2>4, <3>1, <3>2, FaultsAssumption
         DEF MeterAndFire, Step, Fault, RunPC, reqVars, rowVars
  <2>5. CASE Recover(w)
    <3>1. status' \in [Requests -> RowStatus]
      BY <2>5 DEF Recover, RowStatus, rowVars
    <3>2. retries' \in [Requests -> Nat]
      BY <2>5 DEF Recover, CountRetry, rowVars
    <3>3. events' \in [Requests -> SUBSET Event]
      BY <2>5 DEF Recover, Event
    <3> QED
      BY <2>5, <3>1, <3>2, <3>3, FaultsAssumption
         DEF Recover, Step, Fault, RunPC, reqVars
  <2>6. CASE Finish(w)
    <3>1. on[w] \in Requests =>
            Acked(job[on[w]], w) \in Job /\ Rejected(job[on[w]], w) \in Job
      BY RunTyped
    <3> QED
      BY <2>6, <3>1
         DEF Finish, GoIdle, RunPC, Outcome, reqVars, rowVars, histVars
  <2> QED
    BY <1>6, <2>1, <2>2, <2>3, <2>4, <2>5, <2>6, <2>7, <2>8 DEF RunStep
<1>7. CASE UNCHANGED vars
  BY <1>7 DEF vars
<1> QED
  BY <1>1, <1>2, <1>3, <1>4, <1>5, <1>6, <1>7 DEF Next, RequestStep

\* The types of the variables hold in every behaviour of the pipeline: what
\* the handlers of NotifyService and MailWorker write is what they may read.
THEOREM TypeCorrect == Spec => []TypeOK
<1>1. Init => TypeOK
  BY DEF Init, TypeOK, NoJob, Job, JobState, RowStatus, ReqPC, RunPC, Answers,
         Outcome
<1> QED
  BY <1>1, TypeStep, PTL DEF Spec

-----------------------------------------------------------------------------
\* The operations of producers and of the stalled checker on a BullMQ job
\* keep its counters in step and take back no start.
LEMMA JobCounted ==
  ASSUME NEW j \in Job, JobOK(j)
  PROVE  /\ JobOK(NoJob)
         /\ j.state = "absent" => JobOK(Issued(j)) /\ Issued(j).starts = j.starts
         /\ j.state = "adding" => JobOK(Landed(j)) /\ Landed(j).starts = j.starts
         /\ j.state = "adding" => NoJob.starts = j.starts
         /\ j.state = "active" => JobOK(Stalled(j)) /\ Stalled(j).starts = j.starts
<1> USE AttemptsAssumption, StalledAssumption DEF Job, JobState, JobOK
<1>1. JobOK(NoJob)
  BY DEF NoJob
<1>2. j.state = "absent" => JobOK(Issued(j)) /\ Issued(j).starts = j.starts
  BY DEF Issued
<1>3. j.state = "adding" => JobOK(Landed(j)) /\ Landed(j).starts = j.starts
  BY DEF Landed
<1>4. j.state = "adding" => NoJob.starts = j.starts
  BY DEF NoJob
<1>5. j.state = "active" => JobOK(Stalled(j)) /\ Stalled(j).starts = j.starts
  BY DEF Stalled
<1> QED
  BY <1>1, <1>2, <1>3, <1>4, <1>5

\* So do the operations of a worker; claiming a job is its next start.
LEMMA RunCounted ==
  ASSUME NEW j \in Job, NEW w \in Workers, JobOK(j)
  PROVE  /\ j.state = "wait" =>
              JobOK(Claimed(j, w)) /\ Claimed(j, w).starts = j.starts + 1
         /\ JobOK(Acked(j, w)) /\ Acked(j, w).starts = j.starts
         /\ JobOK(Rejected(j, w)) /\ Rejected(j, w).starts = j.starts
<1> USE AttemptsAssumption, StalledAssumption DEF Job, JobState, JobOK
<1>1. j.state = "wait" =>
        JobOK(Claimed(j, w)) /\ Claimed(j, w).starts = j.starts + 1
  BY DEF Claimed
<1>2. JobOK(Acked(j, w)) /\ Acked(j, w).starts = j.starts
  BY DEF Acked, Holds, Completed
<1>3. JobOK(Rejected(j, w)) /\ Rejected(j, w).starts = j.starts
  BY DEF Rejected, Holds, Thrown
<1> QED
  BY <1>1, <1>2, <1>3

\* A step that leaves the jobs alone, one of the six that do not.
JobStep ==
  \/ \E r \in Requests : Enqueue(r) \/ AddRejected(r)
  \/ \E n \in Requests : AddLands(n) \/ Stall(n)
  \/ \E w \in Workers, n \in Requests : Claim(w, n)
  \/ \E w \in Workers : Finish(w)

\* Only six actions touch a job.
LEMMA JobFrame == [Next]_vars => JobStep \/ UNCHANGED job
<1> SUFFICES ASSUME [Next]_vars PROVE JobStep \/ UNCHANGED job
  OBVIOUS
<1>1. ASSUME NEW r \in Requests, RequestStep(r) \/ RequestCrash(r)
      PROVE  Enqueue(r) \/ UNCHANGED job
  BY <1>1 DEF RequestStep, IdemCheck, IdemLookup, Gates, CreateRow, AddAcked,
              AddTimesOut, UndoRow, UndoKey, RequestCrash
<1>2. ASSUME NEW w \in Workers, RunStep(w) \/ WorkerCrash(w)
      PROVE  Finish(w) \/ UNCHANGED job
  BY <1>2 DEF RunStep, MarkProcessing, Route, RecordOptOut, Dispatch,
              RecordOutcome, MeterAndFire, Recover, WorkerCrash
<1>3. ASSUME NEW k \in Keys, KeyExpires(k)
      PROVE  UNCHANGED job
  BY <1>3 DEF KeyExpires
<1> QED
  BY <1>1, <1>2, <1>3 DEF JobStep, Next, vars

\* The counters stay in step and no start is ever taken back.
LEMMA JobsStep ==
  ASSUME IInv, [Next]_vars
  PROVE  JobsOK' /\ \A n \in Requests : job'[n].starts >= job[n].starts
<1> USE DEF IInv, TypeOK
<1>0. \A n \in Requests : job[n] \in Job /\ JobOK(job[n]) /\ job[n].starts \in Nat
  BY DEF JobsOK, Job
<1>1. CASE UNCHANGED job
  BY <1>0, <1>1 DEF JobsOK
<1>2. ASSUME NEW r \in Requests, Enqueue(r)
      PROVE  JobsOK' /\ \A n \in Requests : job'[n].starts >= job[n].starts
  <2>1. JobOK(Issued(job[r])) /\ Issued(job[r]).starts = job[r].starts
    BY <1>0, <1>2, JobCounted DEF RowsFirst, Enqueue
  <2> QED
    BY <1>0, <1>2, <2>1 DEF Enqueue, JobsOK
<1>3. ASSUME NEW r \in Requests, AddRejected(r)
      PROVE  JobsOK' /\ \A n \in Requests : job'[n].starts >= job[n].starts
  <2>1. JobOK(NoJob) /\ NoJob.starts = job[r].starts
    BY <1>0, <1>3, JobCounted DEF AddRejected
  <2> QED
    BY <1>0, <1>3, <2>1 DEF AddRejected, JobsOK
<1>4. ASSUME NEW r \in Requests, AddLands(r)
      PROVE  JobsOK' /\ \A n \in Requests : job'[n].starts >= job[n].starts
  <2>1. JobOK(Landed(job[r])) /\ Landed(job[r]).starts = job[r].starts
    BY <1>0, <1>4, JobCounted DEF AddLands
  <2> QED
    BY <1>0, <1>4, <2>1 DEF AddLands, JobsOK
<1>5. ASSUME NEW r \in Requests, Stall(r)
      PROVE  JobsOK' /\ \A n \in Requests : job'[n].starts >= job[n].starts
  <2>1. JobOK(Stalled(job[r])) /\ Stalled(job[r]).starts = job[r].starts
    BY <1>0, <1>5, JobCounted DEF Stall
  <2> QED
    BY <1>0, <1>5, <2>1 DEF Stall, JobsOK
<1>6. ASSUME NEW w \in Workers, NEW r \in Requests, Claim(w, r)
      PROVE  JobsOK' /\ \A n \in Requests : job'[n].starts >= job[n].starts
  <2>1. JobOK(Claimed(job[r], w)) /\ Claimed(job[r], w).starts = job[r].starts + 1
    BY <1>0, <1>6, RunCounted DEF Claim
  <2> QED
    BY <1>0, <1>6, <2>1 DEF Claim, JobsOK
<1>7. ASSUME NEW w \in Workers, Finish(w)
      PROVE  JobsOK' /\ \A n \in Requests : job'[n].starts >= job[n].starts
  <2>1. on[w] \in Requests
    BY <1>7 DEF RunsNumbered, Finish
  <2>2. /\ JobOK(Acked(job[on[w]], w))
        /\ Acked(job[on[w]], w).starts = job[on[w]].starts
        /\ JobOK(Rejected(job[on[w]], w))
        /\ Rejected(job[on[w]], w).starts = job[on[w]].starts
    BY <1>0, <2>1, RunCounted
  <2>3. \/ job' = [job EXCEPT ![on[w]] = Acked(job[on[w]], w)]
        \/ job' = [job EXCEPT ![on[w]] = Rejected(job[on[w]], w)]
    BY <1>7 DEF Finish
  <2> QED
    BY <1>0, <2>1, <2>2, <2>3 DEF JobsOK
<1> QED
  BY <1>1, <1>2, <1>3, <1>4, <1>5, <1>6, <1>7, JobFrame DEF JobStep

\* A step of no worker leaves the runs and what they did alone.
LEMMA RunFrame ==
  ASSUME [Next]_vars
  PROVE  \/ \E w \in Workers, n \in Requests : Claim(w, n)
         \/ \E w \in Workers : RunStep(w) \/ WorkerCrash(w)
         \/ UNCHANGED <<runVars, histVars>>
<1>1. ASSUME NEW r \in Requests,
             RequestStep(r) \/ RequestCrash(r) \/ AddRejected(r)
      PROVE  UNCHANGED <<runVars, histVars>>
  BY <1>1 DEF RequestStep, IdemCheck, IdemLookup, Gates, CreateRow, Enqueue,
              AddAcked, AddTimesOut, UndoRow, UndoKey, RequestCrash, AddRejected
<1>2. ASSUME NEW n \in Requests, AddLands(n) \/ Stall(n)
      PROVE  UNCHANGED <<runVars, histVars>>
  BY <1>2 DEF AddLands, Stall
<1>3. ASSUME NEW k \in Keys, KeyExpires(k)
      PROVE  UNCHANGED <<runVars, histVars>>
  BY <1>3 DEF KeyExpires
<1>4. CASE UNCHANGED vars
  BY <1>4 DEF vars, runVars, histVars
<1> QED
  BY <1>1, <1>2, <1>3, <1>4 DEF Next

\* Runs, and the dispatches they leave behind, are numbered by the starts of
\* their job.
LEMMA RunsStep ==
  ASSUME IInv, [Next]_vars
  PROVE  RunsNumbered' /\ PassesNumbered'
<1> USE DEF IInv, TypeOK
<1>0. \A n \in Requests : /\ job'[n].starts >= job[n].starts
                          /\ job[n].starts \in Nat /\ job'[n].starts \in Nat
  BY JobsStep, TypeStep DEF Job
<1>1. \A n \in Requests : 1..job[n].starts \subseteq 1..job'[n].starts
  BY <1>0
<1>2. CASE UNCHANGED <<runVars, histVars>>
  BY <1>0, <1>1, <1>2 DEF RunsNumbered, PassesNumbered, runVars, histVars
<1>3. ASSUME NEW w \in Workers, NEW n \in Requests, Claim(w, n)
      PROVE  RunsNumbered' /\ PassesNumbered'
  <2>1. PassesNumbered'
    BY <1>1, <1>3 DEF PassesNumbered, Claim, histVars
  <2>2. job'[n].starts = job[n].starts + 1
    BY <1>3, RunCounted DEF Claim, JobsOK
  <2>3. RunsNumbered'
    BY <1>0, <1>1, <1>3, <2>2 DEF RunsNumbered, Claim, Step
  <2> QED
    BY <2>1, <2>3
<1>4. ASSUME NEW w \in Workers, Finish(w) \/ WorkerCrash(w)
      PROVE  RunsNumbered' /\ PassesNumbered'
  BY <1>0, <1>1, <1>4
     DEF RunsNumbered, PassesNumbered, Finish, WorkerCrash, GoIdle, histVars
<1>5. ASSUME NEW w \in Workers, Dispatch(w)
      PROVE  RunsNumbered' /\ PassesNumbered'
  <2>1. on[w] \in Requests /\ no[w] \in 1..job[on[w]].starts
    BY <1>5 DEF RunsNumbered, Dispatch
  <2>2. PassesNumbered'
    BY <1>1, <1>5, <2>1 DEF PassesNumbered, Dispatch
  <2>3. RunsNumbered'
    BY <1>0, <1>1, <1>5 DEF RunsNumbered, Dispatch, Step
  <2> QED
    BY <2>2, <2>3
<1>6. ASSUME NEW w \in Workers,
             \/ MarkProcessing(w) \/ Route(w) \/ RecordOptOut(w)
             \/ RecordOutcome(w) \/ MeterAndFire(w) \/ Recover(w)
      PROVE  RunsNumbered' /\ PassesNumbered'
  <2>1. UNCHANGED <<on, no, passes>>
    BY <1>6 DEF MarkProcessing, Route, RecordOptOut, RecordOutcome,
                MeterAndFire, Recover, histVars
  <2>2. \A v \in Workers : wpc'[v] # "idle" => wpc[v] # "idle"
    BY <1>6 DEF MarkProcessing, Route, RecordOptOut, RecordOutcome,
                MeterAndFire, Recover, Step
  <2> QED
    BY <1>0, <1>1, <2>1, <2>2 DEF RunsNumbered, PassesNumbered
<1> QED
  BY <1>2, <1>3, <1>4, <1>5, <1>6, RunFrame DEF RunStep

\* What a run is about to record or to meter, it sent.
LEMMA SendsStep ==
  ASSUME IInv, [Next]_vars
  PROVE  SendsOwned' /\ MeteringBacked'
<1> USE DEF IInv, TypeOK
<1>1. CASE UNCHANGED <<runVars, histVars>>
  BY <1>1 DEF SendsOwned, MeteringBacked, runVars, histVars
<1>2. ASSUME NEW w \in Workers, NEW n \in Requests, Claim(w, n)
      PROVE  SendsOwned' /\ MeteringBacked'
  BY <1>2 DEF SendsOwned, MeteringBacked, Claim, Step, histVars
<1>3. ASSUME NEW w \in Workers, Finish(w) \/ WorkerCrash(w)
      PROVE  SendsOwned' /\ MeteringBacked'
  BY <1>3 DEF SendsOwned, MeteringBacked, Finish, WorkerCrash, GoIdle, histVars
<1>4. ASSUME NEW w \in Workers,
             MarkProcessing(w) \/ Route(w) \/ RecordOptOut(w) \/ Recover(w)
      PROVE  SendsOwned' /\ MeteringBacked'
  BY <1>4 DEF SendsOwned, MeteringBacked, MarkProcessing, Route, RecordOptOut,
              Recover, Step, histVars
<1>5. ASSUME NEW w \in Workers, Dispatch(w)
      PROVE  SendsOwned' /\ MeteringBacked'
  <2>1. on[w] \in Requests
    BY <1>5 DEF RunsNumbered, Dispatch
  <2>2. PICK o \in Outcome :
          /\ out' = [out EXCEPT ![w] = o]
          /\ sent' = [sent EXCEPT ![on[w]] = IF o = "none" THEN @ ELSE @ \cup {no[w]}]
    BY <1>5 DEF Dispatch
  <2>3. \A n \in Requests : sent[n] \subseteq sent'[n] /\ sent'[n] \subseteq passes'[n]
    BY <1>5, <2>1, <2>2 DEF SendsOwned, Dispatch
  <2>4. o # "none" => no[w] \in sent'[on[w]]
    BY <2>1, <2>2
  <2>5. \A v \in Workers :
          (wpc'[v] = "meter" \/ (wpc'[v] = "record" /\ out'[v] # "none"))
            => no'[v] \in sent'[on'[v]]
    <3>1. UNCHANGED <<on, no>> /\ wpc' = [wpc EXCEPT ![w] = "record"]
      BY <1>5 DEF Dispatch, Step
    <3>2. \A v \in Workers : wpc[v] # "idle" => on[v] \in Requests
      BY DEF RunsNumbered
    <3> QED
      BY <2>2, <2>3, <2>4, <3>1, <3>2 DEF SendsOwned
  <2>6. MeteringBacked'
    BY <1>5, <2>3 DEF MeteringBacked, Dispatch
  <2> QED
    BY <2>3, <2>5, <2>6 DEF SendsOwned
<1>6. ASSUME NEW w \in Workers, RecordOutcome(w)
      PROVE  SendsOwned' /\ MeteringBacked'
  BY <1>6 DEF SendsOwned, MeteringBacked, RecordOutcome, AnySuccess, Step,
              histVars
<1>7. ASSUME NEW w \in Workers, MeterAndFire(w)
      PROVE  SendsOwned' /\ MeteringBacked'
  <2>1. no[w] \in sent[on[w]] /\ on[w] \in Requests
    BY <1>7 DEF SendsOwned, RunsNumbered, MeterAndFire
  <2>2. MeteringBacked'
    BY <1>7, <2>1 DEF MeteringBacked, MeterAndFire
  <2>3. SendsOwned'
    BY <1>7 DEF SendsOwned, MeterAndFire, Step
  <2> QED
    BY <2>2, <2>3
<1> QED
  BY <1>1, <1>2, <1>3, <1>4, <1>5, <1>6, <1>7, RunFrame DEF RunStep

\* A run is about a notification whose row exists and whose job was added.
LEMMA RunHasRow ==
  ASSUME IInv, NEW w \in Workers, wpc[w] # "idle"
  PROVE  /\ on[w] \in Requests /\ status[on[w]] # "none"
         /\ job[on[w]].state \notin {"absent", "adding"}
<1>1. on[w] \in Requests /\ job[on[w]].starts # 0
  BY DEF IInv, TypeOK, RunsNumbered, Job
<1> QED
  BY <1>1 DEF IInv, JobsOK, JobOK, RowsFirst

\* Who writes notifications.status, and what.
LEMMA StatusStep ==
  ASSUME IInv, [Next]_vars
  PROVE  /\ StatusBacked'
         /\ \A n \in Requests : status[n] # "none" => status'[n] # "none"
         /\ \A n \in Requests : (status[n] = "none" /\ status'[n] # "none") =>
              KeyFree(n) /\ \A m \in Requests \ {n} : status'[m] = status[m]
<1> DEFINE Goal ==
         /\ StatusBacked'
         /\ \A n \in Requests : status[n] # "none" => status'[n] # "none"
         /\ \A n \in Requests : (status[n] = "none" /\ status'[n] # "none") =>
              KeyFree(n) /\ \A m \in Requests \ {n} : status'[m] = status[m]
<1> USE DEF IInv, TypeOK
<1>1. CASE UNCHANGED <<status, sent>>
  BY <1>1 DEF StatusBacked
<1>2. ASSUME NEW r \in Requests, CreateRow(r) \/ UndoRow(r)
      PROVE  Goal
  BY <1>2 DEF StatusBacked, CreateRow, UndoRow, RowsFirst, histVars
<1>3. ASSUME NEW w \in Workers, MarkProcessing(w) \/ RecordOptOut(w) \/ Recover(w)
      PROVE  Goal
  <2>1. on[w] \in Requests /\ status[on[w]] # "none"
    BY <1>3, RunHasRow DEF MarkProcessing, RecordOptOut, Recover
  <2> QED
    BY <1>3, <2>1
       DEF StatusBacked, MarkProcessing, RecordOptOut, Recover, rowVars, histVars
<1>4. ASSUME NEW w \in Workers, RecordOutcome(w)
      PROVE  Goal
  <2>1. on[w] \in Requests /\ status[on[w]] # "none"
    BY <1>4, RunHasRow DEF RecordOutcome
  <2>2. out[w] # "none" => sent[on[w]] # {}
    BY <1>4 DEF SendsOwned, RecordOutcome
  <2> QED
    BY <1>4, <2>1, <2>2
       DEF StatusBacked, RecordOutcome, DeliveredStatus, rowVars, histVars
<1>5. ASSUME NEW w \in Workers, Dispatch(w)
      PROVE  Goal
  <2>1. UNCHANGED status /\ \A n \in Requests : sent[n] \subseteq sent'[n]
    BY <1>5 DEF Dispatch, rowVars
  <2> QED
    BY <2>1 DEF StatusBacked
<1>6. ASSUME NEW r \in Requests,
             \/ IdemCheck(r) \/ IdemLookup(r) \/ Gates(r) \/ Enqueue(r)
             \/ AddAcked(r) \/ AddTimesOut(r) \/ UndoKey(r) \/ RequestCrash(r)
             \/ AddRejected(r) \/ AddLands(r) \/ Stall(r)
      PROVE  UNCHANGED <<status, sent>>
  BY <1>6 DEF IdemCheck, IdemLookup, Gates, Enqueue, AddAcked, AddTimesOut,
              UndoKey, RequestCrash, AddRejected, AddLands, Stall, rowVars,
              histVars
<1>7. ASSUME NEW w \in Workers,
             Route(w) \/ MeterAndFire(w) \/ Finish(w) \/ WorkerCrash(w)
      PROVE  UNCHANGED <<status, sent>>
  BY <1>7 DEF Route, MeterAndFire, Finish, WorkerCrash, rowVars, histVars
<1>8. ASSUME NEW w \in Workers, NEW n \in Requests, Claim(w, n)
      PROVE  UNCHANGED <<status, sent>>
  BY <1>8 DEF Claim, rowVars, histVars
<1>9. ASSUME NEW k \in Keys, KeyExpires(k)
      PROVE  UNCHANGED <<status, sent>>
  BY <1>9 DEF KeyExpires, rowVars, histVars
<1> QED
  BY <1>1, <1>2, <1>3, <1>4, <1>5, <1>6, <1>7, <1>8, <1>9
     DEF Next, RequestStep, RunStep, vars

\* The row precedes the job, and the job the answer 'queued'.
LEMMA RowsStep ==
  ASSUME IInv, [Next]_vars
  PROVE  RowsFirst' /\ QueuedAnswerHasJob'
<1> USE DEF IInv, TypeOK
<1>0. \A n \in Requests : status[n] # "none" => status'[n] # "none"
  BY StatusStep
<1>1. ASSUME NEW r \in Requests, IdemCheck(r) \/ IdemLookup(r) \/ Gates(r)
      PROVE  RowsFirst' /\ QueuedAnswerHasJob'
  BY <1>1 DEF IdemCheck, IdemLookup, Gates, Goto, Respond, RowsFirst,
              QueuedAnswerHasJob, rowVars
<1>2. ASSUME NEW r \in Requests, CreateRow(r)
      PROVE  RowsFirst' /\ QueuedAnswerHasJob'
  BY <1>0, <1>2 DEF CreateRow, Goto, Respond, RowsFirst, QueuedAnswerHasJob
<1>3. ASSUME NEW r \in Requests, Enqueue(r)
      PROVE  RowsFirst' /\ QueuedAnswerHasJob'
  BY <1>3 DEF Enqueue, Issued, Goto, RowsFirst, QueuedAnswerHasJob, rowVars
<1>4. ASSUME NEW r \in Requests, AddAcked(r)
      PROVE  RowsFirst' /\ QueuedAnswerHasJob'
  BY <1>4 DEF AddAcked, Respond, RowsFirst, QueuedAnswerHasJob, rowVars
<1>5. ASSUME NEW r \in Requests,
             \/ AddTimesOut(r) \/ UndoRow(r) \/ UndoKey(r) \/ RequestCrash(r)
      PROVE  RowsFirst' /\ QueuedAnswerHasJob'
  BY <1>0, <1>5 DEF AddTimesOut, UndoRow, UndoKey, RequestCrash, Goto, Respond,
                    RowsFirst, QueuedAnswerHasJob, rowVars
<1>6. ASSUME NEW r \in Requests, AddRejected(r)
      PROVE  RowsFirst' /\ QueuedAnswerHasJob'
  BY <1>6 DEF AddRejected, NoJob, RowsFirst, QueuedAnswerHasJob, rowVars
<1>7. ASSUME NEW r \in Requests, AddLands(r) \/ Stall(r)
      PROVE  RowsFirst' /\ QueuedAnswerHasJob'
  <2>1. job[r].state \notin {"absent"}
    BY <1>7 DEF AddLands, Stall
  <2>2. Landed(job[r]).state = "wait"
    BY DEF Landed, Job
  <2>3. Stalled(job[r]).state \in {"wait", "failed"}
    BY DEF Stalled
  <2> QED
    BY <1>7, <2>1, <2>2, <2>3 DEF AddLands, Stall, RowsFirst,
       QueuedAnswerHasJob, reqVars, rowVars
<1>8. ASSUME NEW w \in Workers, NEW n \in Requests, Claim(w, n)
      PROVE  RowsFirst' /\ QueuedAnswerHasJob'
  BY <1>8 DEF Claim, Claimed, RowsFirst, QueuedAnswerHasJob, reqVars, rowVars
<1>9. ASSUME NEW w \in Workers, Finish(w)
      PROVE  RowsFirst' /\ QueuedAnswerHasJob'
  <2>1. on[w] \in Requests /\ job[on[w]].state \notin {"absent", "adding"}
    BY <1>9, RunHasRow DEF Finish
  <2>2. /\ Acked(job[on[w]], w).state \notin {"absent", "adding"}
        /\ Rejected(job[on[w]], w).state \notin {"absent", "adding"}
    BY <2>1 DEF Acked, Rejected, Holds, Completed, Thrown
  <2> QED
    BY <1>9, <2>1, <2>2 DEF Finish, RowsFirst, QueuedAnswerHasJob, reqVars,
                            rowVars
<1>10. ASSUME NEW w \in Workers,
              \/ MarkProcessing(w) \/ Route(w) \/ RecordOptOut(w) \/ Dispatch(w)
              \/ RecordOutcome(w) \/ MeterAndFire(w) \/ Recover(w)
              \/ WorkerCrash(w)
       PROVE  UNCHANGED <<job, pc, answer>>
  BY <1>10 DEF MarkProcessing, Route, RecordOptOut, Dispatch, RecordOutcome,
               MeterAndFire, Recover, WorkerCrash, reqVars
<1>11. ASSUME NEW k \in Keys, KeyExpires(k)
       PROVE  UNCHANGED <<job, pc, answer>>
  BY <1>11 DEF KeyExpires
<1>12. CASE UNCHANGED <<job, pc, answer>>
  BY <1>0, <1>12 DEF RowsFirst, QueuedAnswerHasJob
<1> QED
  BY <1>1, <1>2, <1>3, <1>4, <1>5, <1>6, <1>7, <1>8, <1>9, <1>10, <1>11, <1>12
     DEF Next, RequestStep, RunStep, vars

\* Two rows never share a key: the second INSERT meets the unique column.
LEMMA KeysStep ==
  ASSUME IInv, [Next]_vars
  PROVE  KeysUnique'
<1> SUFFICES ASSUME NEW n \in Requests, NEW m \in Requests, n # m,
                    KeyOf[n] = KeyOf[m], KeyOf[n] # NoKey,
                    status'[n] # "none", status'[m] # "none"
             PROVE  FALSE
  BY DEF KeysUnique
<1>1. status[n] = "none" \/ status[m] = "none"
  BY DEF IInv, KeysUnique
<1>2. CASE status[n] = "none"
  BY <1>2, StatusStep DEF KeyFree
<1>3. CASE status[m] = "none"
  BY <1>3, StatusStep DEF KeyFree
<1> QED
  BY <1>1, <1>2, <1>3

\* IInv is an inductive invariant.
LEMMA Inductive == Spec => []IInv
<1>1. Init => IInv
  <2> SUFFICES ASSUME Init PROVE IInv
    OBVIOUS
  <2>1. TypeOK
    BY DEF Init, TypeOK, NoJob, Job, JobState, RowStatus, ReqPC, RunPC, Answers,
           Outcome
  <2>2. JobsOK /\ RunsNumbered /\ PassesNumbered
    BY AttemptsAssumption, StalledAssumption
       DEF Init, NoJob, JobsOK, JobOK, RunsNumbered, PassesNumbered
  <2>3. SendsOwned /\ MeteringBacked /\ StatusBacked
    BY DEF Init, SendsOwned, MeteringBacked, StatusBacked
  <2>4. RowsFirst /\ KeysUnique /\ QueuedAnswerHasJob
    BY DEF Init, NoJob, RowsFirst, KeysUnique, QueuedAnswerHasJob
  <2> QED
    BY <2>1, <2>2, <2>3, <2>4 DEF IInv
<1>2. IInv /\ [Next]_vars => IInv'
  <2> SUFFICES ASSUME IInv, [Next]_vars PROVE IInv'
    OBVIOUS
  <2>1. TypeOK'
    BY TypeStep DEF IInv
  <2> QED
    BY <2>1, JobsStep, RunsStep, SendsStep, StatusStep, RowsStep, KeysStep
       DEF IInv
<1> QED
  BY <1>1, <1>2, PTL DEF Spec

-----------------------------------------------------------------------------
\* A notification is handed to the channels at most Attempts + MaxStalled
\* times, for every number of requests, workers, attempts and stalls.
THEOREM RepeatsBounded == Spec => []PassesBounded
<1>1. IInv => PassesBounded
  <2> SUFFICES ASSUME IInv, NEW n \in Requests
               PROVE  Cardinality(passes[n]) <= Attempts + MaxStalled
    BY DEF PassesBounded
  <2>1. job[n].starts \in Nat /\ job[n].starts <= Attempts + MaxStalled
    BY AttemptsAssumption, StalledAssumption
       DEF IInv, TypeOK, JobsOK, JobOK, Job, JobState
  <2>2. passes[n] \subseteq 1..job[n].starts
    BY DEF IInv, PassesNumbered
  <2>3. IsFiniteSet(1..job[n].starts) /\ Cardinality(1..job[n].starts) = job[n].starts
    <3>1. 1 \in Int /\ job[n].starts \in Int
      BY <2>1
    <3>2. /\ IsFiniteSet(1..job[n].starts)
          /\ Cardinality(1..job[n].starts) =
               IF 1 > job[n].starts THEN 0 ELSE job[n].starts - 1 + 1
      BY <3>1, FS_Interval, Zenon
    <3> QED
      BY <2>1, <3>2
  <2>4. /\ Cardinality(passes[n]) \in Nat
        /\ Cardinality(passes[n]) <= Cardinality(1..job[n].starts)
    BY <2>2, <2>3, FS_Subset, FS_CardinalityType
  <2> QED
    BY <2>1, <2>3, <2>4, AttemptsAssumption, StalledAssumption
<1> QED
  BY <1>1, Inductive, PTL

\* A row that says delivered or partial is backed by a send.
THEOREM StatusIsBacked == Spec => []StatusBacked
<1>1. IInv => StatusBacked
  BY DEF IInv
<1> QED
  BY <1>1, Inductive, PTL

\* No send is metered that was not made.
THEOREM MeteringIsBacked == Spec => []MeteringBacked
<1>1. IInv => MeteringBacked
  BY DEF IInv
<1> QED
  BY <1>1, Inductive, PTL

\* The answer 'queued' means that the row and the job are there.
THEOREM QueuedIsQueued == Spec => []QueuedAnswerHasJob
<1>1. IInv => QueuedAnswerHasJob
  BY DEF IInv
<1> QED
  BY <1>1, Inductive, PTL

\* Under one idempotency key one notification is sent, whatever becomes of
\* the Redis key.
THEOREM OneNotificationPerKey == Spec => []KeySendsOneNotification
<1>1. IInv => KeySendsOneNotification
  <2> SUFFICES ASSUME IInv, NEW n \in Requests, NEW m \in Requests, n # m,
                      KeyOf[n] = KeyOf[m], KeyOf[n] # NoKey
               PROVE  passes[n] = {} \/ passes[m] = {}
    BY DEF KeySendsOneNotification
  <2>1. ASSUME NEW l \in Requests, passes[l] # {}
        PROVE  status[l] # "none"
    <3>1. job[l].starts \in Nat /\ job[l].starts # 0
      BY <2>1 DEF IInv, TypeOK, Job, PassesNumbered
    <3> QED
      BY <3>1 DEF IInv, JobsOK, JobOK, RowsFirst
  <2> QED
    BY <2>1 DEF IInv, KeysUnique
<1> QED
  BY <1>1, Inductive, PTL

-----------------------------------------------------------------------------
\* A step of the code between a job's claim and its end, of worker w.
Inside(w) ==
  \/ MarkProcessing(w) \/ Route(w) \/ RecordOptOut(w) \/ Dispatch(w)
  \/ RecordOutcome(w) \/ MeterAndFire(w) \/ Recover(w)

\* The steps of the pipeline, by what they change of jobs, runs and rows.
LEMMA StepKinds ==
  ASSUME [Next]_vars
  PROVE  \/ \E r \in Requests : Enqueue(r) \/ AddRejected(r) \/ AddLands(r)
         \/ \E r \in Requests : CreateRow(r) \/ UndoRow(r)
         \/ \E n \in Requests : Stall(n)
         \/ \E w \in Workers, n \in Requests : Claim(w, n)
         \/ \E w \in Workers : Inside(w) \/ Finish(w) \/ WorkerCrash(w)
         \/ UNCHANGED <<job, status, runVars>>
<1>1. ASSUME NEW r \in Requests,
             \/ IdemCheck(r) \/ IdemLookup(r) \/ Gates(r) \/ AddAcked(r)
             \/ AddTimesOut(r) \/ UndoKey(r) \/ RequestCrash(r)
      PROVE  UNCHANGED <<job, status, runVars>>
  BY <1>1 DEF IdemCheck, IdemLookup, Gates, AddAcked, AddTimesOut, UndoKey,
              RequestCrash, rowVars
<1>2. ASSUME NEW k \in Keys, KeyExpires(k)
      PROVE  UNCHANGED <<job, status, runVars>>
  BY <1>2 DEF KeyExpires, rowVars
<1>3. CASE UNCHANGED vars
  BY <1>3 DEF vars, runVars
<1> QED
  BY <1>1, <1>2, <1>3 DEF Next, RequestStep, RunStep, Inside

\* Two runs of one job need a stall: a claim takes a waiting job, and the
\* report of a run that holds the lock is the only way back.
LEMMA SoleStep ==
  ASSUME IInv, SoleRun, [Next]_vars
  PROVE  SoleRun'
<1> USE DEF IInv, TypeOK
<1>0. \A w \in Workers : wpc[w] # "idle" =>
        on[w] \in Requests /\ job[on[w]].state \notin {"absent", "adding"}
  BY RunHasRow
<1>1. ASSUME NEW r \in Requests, Enqueue(r) \/ AddRejected(r) \/ AddLands(r)
      PROVE  SoleRun'
  <2>1. /\ job[r].state \in {"absent", "adding"}
        /\ \A n \in Requests \ {r} : job'[n] = job[n]
        /\ UNCHANGED <<wpc, on>>
    BY <1>1 DEF Enqueue, AddRejected, AddLands, RowsFirst, runVars
  <2> QED
    BY <1>0, <2>1 DEF SoleRun
<1>2. ASSUME NEW r \in Requests, CreateRow(r) \/ UndoRow(r)
      PROVE  SoleRun'
  BY <1>2 DEF CreateRow, UndoRow, runVars, SoleRun
<1>3. ASSUME NEW n \in Requests, Stall(n)
      PROVE  SoleRun'
  <2>1. job'[n].stalls # 0
    BY <1>3 DEF Stall, Stalled, Job
  <2> QED
    BY <1>0, <1>3, <2>1 DEF Stall, runVars, SoleRun
<1>4. ASSUME NEW w \in Workers, NEW n \in Requests, Claim(w, n)
      PROVE  SoleRun'
  <2>1. Holds(job'[n], w)
    BY <1>4 DEF Claim, Claimed, Holds
  <2>2. job'[n].stalls = job[n].stalls
    BY <1>4 DEF Claim, Claimed
  <2>3. ASSUME NEW v \in Workers \ {w}, wpc'[v] # "idle",
               job'[on'[v]].stalls = 0
        PROVE  Holds(job'[on'[v]], v)
    <3>1. wpc[v] # "idle" /\ on'[v] = on[v]
      BY <1>4, <2>3 DEF Claim, Step
    <3>2. on[v] # n
      BY <1>4, <2>2, <2>3, <3>1 DEF SoleRun, Claim, Holds
    <3> QED
      BY <1>0, <1>4, <2>3, <3>1, <3>2 DEF SoleRun, Claim
  <2>4. on'[w] = n
    BY <1>4 DEF Claim
  <2> QED
    BY <2>1, <2>3, <2>4 DEF SoleRun
<1>5. ASSUME NEW w \in Workers, Finish(w)
      PROVE  SoleRun'
  <2>1. on[w] \in Requests /\ wpc[w] # "idle"
    BY <1>0, <1>5 DEF Finish
  <2>2. /\ job'[on[w]].stalls = job[on[w]].stalls
        /\ ~Holds(job[on[w]], w) => job'[on[w]] = job[on[w]]
    BY <1>5, <2>1 DEF Finish, Acked, Rejected, Completed, Thrown
  <2>3. wpc'[w] = "idle"
    BY <1>5 DEF Finish, GoIdle
  <2>4. ASSUME NEW v \in Workers \ {w}, wpc'[v] # "idle",
               job'[on'[v]].stalls = 0
        PROVE  Holds(job'[on'[v]], v)
    <3>1. wpc[v] # "idle" /\ on'[v] = on[v] /\ on[v] \in Requests
      BY <1>0, <1>5, <2>4 DEF Finish, GoIdle
    <3>2. CASE on[v] # on[w]
      <4>1. job'[on[v]] = job[on[v]]
        BY <1>5, <3>1, <3>2 DEF Finish
      <4> QED
        BY <2>4, <3>1, <4>1 DEF SoleRun
    <3>3. CASE on[v] = on[w]
      <4>1. Holds(job[on[v]], v) /\ ~Holds(job[on[w]], w)
        BY <2>2, <2>4, <3>1, <3>3 DEF SoleRun, Holds
      <4> QED
        BY <2>2, <3>1, <3>3, <4>1
    <3> QED
      BY <3>2, <3>3
  <2> QED
    BY <2>3, <2>4 DEF SoleRun
<1>6. ASSUME NEW w \in Workers, Inside(w)
      PROVE  SoleRun'
  <2>1. UNCHANGED <<job, on>> /\ wpc[w] # "idle"
    BY <1>6 DEF Inside, MarkProcessing, Route, RecordOptOut, Dispatch,
                RecordOutcome, MeterAndFire, Recover
  <2>2. \A v \in Workers : wpc'[v] # "idle" => wpc[v] # "idle"
    BY <1>6 DEF Inside, MarkProcessing, Route, RecordOptOut, Dispatch,
                RecordOutcome, MeterAndFire, Recover, Step
  <2> QED
    BY <2>1, <2>2 DEF SoleRun
<1>7. ASSUME NEW w \in Workers, WorkerCrash(w)
      PROVE  SoleRun'
  BY <1>7 DEF WorkerCrash, GoIdle, SoleRun
<1>8. CASE UNCHANGED <<job, status, runVars>>
  BY <1>8 DEF runVars, SoleRun
<1> QED
  BY <1>1, <1>2, <1>3, <1>4, <1>5, <1>6, <1>7, <1>8, StepKinds

\* Once a row says delivered, only a stall or the catch of a timed-out
\* enqueue can change it.
LEMMA RestStep ==
  ASSUME IInv, SInv, [Next]_vars
  PROVE  /\ DeliveredAtRest'
         /\ \A n \in Requests :
              (status[n] = "delivered" /\ status'[n] # "delivered")
                => job[n].stalls > 0 \/ pc[n] = "undoRow"
<1> DEFINE Stable ==
      \A n \in Requests :
        (status[n] = "delivered" /\ status'[n] # "delivered")
          => job[n].stalls > 0 \/ pc[n] = "undoRow"
<1> USE DEF IInv, TypeOK, SInv
<1>0. \A w \in Workers : wpc[w] # "idle" =>
        on[w] \in Requests /\ job[on[w]].state \notin {"absent", "adding"}
  BY RunHasRow
<1>s. \A n \in Requests : job[n].stalls \in Nat
  BY DEF Job
<1>1. ASSUME NEW r \in Requests, Enqueue(r) \/ AddRejected(r) \/ AddLands(r)
      PROVE  DeliveredAtRest' /\ Stable
  <2>1. /\ job[r].state \in {"absent", "adding"} /\ job[r].stalls = 0
        /\ \A n \in Requests \ {r} : job'[n] = job[n]
        /\ UNCHANGED <<wpc, on, status>>
    BY <1>1 DEF Enqueue, AddRejected, AddLands, RowsFirst, runVars, rowVars,
                JobsOK, JobOK
  <2>2. status[r] # "delivered"
    BY <2>1 DEF DeliveredAtRest
  <2> QED
    BY <2>1, <2>2 DEF DeliveredAtRest
<1>2. ASSUME NEW r \in Requests, CreateRow(r) \/ UndoRow(r)
      PROVE  DeliveredAtRest' /\ Stable
  <2>1. UNCHANGED <<job, wpc, on>>
    BY <1>2 DEF CreateRow, UndoRow, runVars
  <2>2. \A n \in Requests \ {r} : status'[n] = status[n]
    BY <1>2 DEF CreateRow, UndoRow
  <2>3. status'[r] = "delivered" => status[r] = "delivered"
    BY <1>2 DEF CreateRow, UndoRow
  <2>4. pc[r] = "create" => status[r] # "delivered"
    BY DEF RowsFirst, DeliveredAtRest, JobsOK, JobOK
  <2>5. pc[r] = "create" \/ pc[r] = "undoRow"
    BY <1>2 DEF CreateRow, UndoRow
  <2> QED
    BY <2>1, <2>2, <2>3, <2>4, <2>5 DEF DeliveredAtRest
<1>3. ASSUME NEW n \in Requests, Stall(n)
      PROVE  DeliveredAtRest' /\ Stable
  <2>1. job'[n].stalls # 0
    BY <1>3 DEF Stall, Stalled, Job
  <2> QED
    BY <1>3, <2>1 DEF Stall, runVars, rowVars, DeliveredAtRest
<1>4. ASSUME NEW w \in Workers, NEW n \in Requests, Claim(w, n)
      PROVE  DeliveredAtRest' /\ Stable
  <2>1. job'[n].stalls = job[n].stalls /\ job[n].state = "wait"
    BY <1>4 DEF Claim, Claimed
  <2>2. status[n] = "delivered" => job'[n].stalls # 0
    BY <2>1 DEF DeliveredAtRest
  <2>3. /\ UNCHANGED status
        /\ \A m \in Requests \ {n} : job'[m] = job[m]
        /\ on'[w] = n
        /\ \A v \in Workers \ {w} : wpc'[v] = wpc[v] /\ on'[v] = on[v]
    BY <1>4 DEF Claim, Step, rowVars
  <2> QED
    BY <2>2, <2>3 DEF DeliveredAtRest
<1>5. ASSUME NEW w \in Workers, Finish(w)
      PROVE  DeliveredAtRest' /\ Stable
  <2>1. on[w] \in Requests /\ wpc[w] \in {"done", "thrown"}
    BY <1>0, <1>5 DEF Finish
  <2>2. /\ job'[on[w]].stalls = job[on[w]].stalls
        /\ wpc[w] = "done" => job'[on[w]].state \in {job[on[w]].state, "completed"}
    BY <1>5, <2>1 DEF Finish, Acked, Rejected, Completed, Thrown
  <2>3. (status[on[w]] = "delivered" /\ job[on[w]].stalls = 0) => wpc[w] = "done"
    BY <2>1 DEF DeliveredAtRest
  <2>4. /\ UNCHANGED status /\ wpc'[w] = "idle"
        /\ \A m \in Requests \ {on[w]} : job'[m] = job[m]
        /\ \A v \in Workers \ {w} : wpc'[v] = wpc[v] /\ on'[v] = on[v]
    BY <1>5 DEF Finish, GoIdle, rowVars
  <2> QED
    BY <2>1, <2>2, <2>3, <2>4 DEF DeliveredAtRest
<1>6. ASSUME NEW w \in Workers, Inside(w)
      PROVE  DeliveredAtRest' /\ Stable
  <2>1. UNCHANGED <<job, on>> /\ wpc[w] # "idle" /\ on[w] \in Requests
    BY <1>0, <1>6 DEF Inside, MarkProcessing, Route, RecordOptOut, Dispatch,
                      RecordOutcome, MeterAndFire, Recover
  <2>2. /\ \A v \in Workers \ {w} : wpc'[v] = wpc[v]
        /\ \A n \in Requests \ {on[w]} : status'[n] = status[n]
    BY <1>6 DEF Inside, MarkProcessing, Route, RecordOptOut, Dispatch,
                RecordOutcome, MeterAndFire, Recover, Step, rowVars
  <2>3. wpc[w] = "meter" => wpc'[w] = "done" /\ status' = status
    BY <1>6 DEF Inside, MarkProcessing, Route, RecordOptOut, Dispatch,
                RecordOutcome, MeterAndFire, Recover, Step, rowVars
  <2>4. wpc[w] # "done"
    BY <1>6 DEF Inside, MarkProcessing, Route, RecordOptOut, Dispatch,
                RecordOutcome, MeterAndFire, Recover
  <2>5. CASE status[on[w]] = "delivered" /\ job[on[w]].stalls = 0
    <3>1. wpc[w] = "meter"
      BY <2>1, <2>4, <2>5 DEF DeliveredAtRest
    <3> QED
      BY <2>1, <2>2, <2>3, <3>1 DEF DeliveredAtRest
  <2>6. CASE job[on[w]].stalls # 0
    BY <1>s, <2>1, <2>2, <2>6 DEF DeliveredAtRest
  <2>7. CASE status[on[w]] # "delivered" /\ job[on[w]].stalls = 0
    <3>1. Holds(job[on[w]], w)
      BY <2>1, <2>7 DEF SoleRun
    <3>2. \A v \in Workers \ {w} : wpc[v] # "idle" => on[v] # on[w]
      BY <2>7, <3>1 DEF SoleRun, Holds
    <3>3. status'[on[w]] = "delivered" => wpc'[w] = "meter"
      BY <1>6, <2>1, <2>7
         DEF Inside, MarkProcessing, Route, RecordOptOut, Dispatch,
             RecordOutcome, MeterAndFire, Recover, Step, rowVars,
             DeliveredStatus, AnySuccess
    <3> QED
      BY <2>1, <2>2, <2>7, <3>1, <3>2, <3>3 DEF DeliveredAtRest, Holds
  <2> QED
    BY <2>5, <2>6, <2>7
<1>7. ASSUME NEW w \in Workers, WorkerCrash(w)
      PROVE  DeliveredAtRest' /\ Stable
  BY <1>7 DEF WorkerCrash, GoIdle, rowVars, DeliveredAtRest
<1>8. CASE UNCHANGED <<job, status, runVars>>
  BY <1>8 DEF runVars, DeliveredAtRest
<1> QED
  BY <1>1, <1>2, <1>3, <1>4, <1>5, <1>6, <1>7, <1>8, StepKinds

\* A row that says delivered keeps saying so, unless its job stalled or the
\* request that timed out on the enqueue marks it failed: retries, crashes
\* and failed calls of MailWorker alone never take a delivery back.
THEOREM DeliveryIsStable == Spec => DeliveredIsStable
<1>1. Init => SInv
  BY DEF Init, SInv, SoleRun, DeliveredAtRest
<1>2. IInv /\ SInv /\ [Next]_vars => SInv'
  BY SoleStep, RestStep DEF SInv
<1>3. IInv /\ SInv /\ [Next]_vars =>
        [\A n \in Requests :
           (status[n] = "delivered" /\ status'[n] # "delivered")
             => job[n].stalls > 0 \/ pc[n] = "undoRow"]_vars
  BY RestStep
<1> QED
  BY <1>1, <1>2, <1>3, Inductive, PTL DEF Spec, DeliveredIsStable
=============================================================================
