---------------------------- MODULE ServicesProofs ----------------------------
(***************************************************************************)
(* Safety of the services that work beside the notification pipeline, each *)
(* for every value of its constants and by an invariant of its own:        *)
(*                                                                         *)
(* Scheduler: that a one-time schedule is queued once rests on the jobId   *)
(*   being taken while some pass may still add a second one, if the job    *)
(*   was not removed before that (JobOutlivesRun), and on a schedule that  *)
(*   was never run having nothing queued (FirstRunAhead); that it is       *)
(*   queued at most once by each pass, on counting the passes that may     *)
(*   still queue it (RunsLeft).                                            *)
(* Receipts: that the receipts of a locked window are not dropped rests on *)
(*   one scan at a time having the window, and on its job carrying what    *)
(*   that scan read (ScansAligned, JobsAligned); that what is on chain is  *)
(*   recorded, on the transaction being that of the receipt in hand        *)
(*   (RunsAligned, TxAligned), and on knowing which run wrote what is not  *)
(*   yet recorded (ChainAligned).                                          *)
(* EmailFeedback: that a suppression is justified rests on the reason      *)
(*   being on record before the run is to suppress (ReasonOnRecord), and   *)
(*   on a reset between cutoff and count being known as such (ResetsAmid); *)
(*   that bounces are bounded, on an account of what is on record and of   *)
(*   the runs that may still add to it (BouncesAccounted).                 *)
(* Sandbox: that the overshoot is bounded rests on an account of what is   *)
(*   queued, counted, lost and still under way (Accounted).                *)
(***************************************************************************)
EXTENDS Scheduler, Receipts, EmailFeedback, Sandbox, SequenceTheorems,
        FiniteSetTheorems, WellFoundedInduction, TLAPS

\* What BullMQ makes of a job is a job, and only an added one is not absent.
\* (BullMQ's contract, as the receipt and bounce queues use it.)
LEMMA JobsStayJobs ==
  ASSUME NEW j \in Job, NEW w \in Workers
  PROVE  /\ Claimed(j, w) \in Job /\ Claimed(j, w).state = "active"
         /\ Acked(j, w) \in Job /\ (Acked(j, w).state = "absent" <=> j.state = "absent")
         /\ Rejected(j, w) \in Job /\ (Rejected(j, w).state = "absent" <=> j.state = "absent")
  BY WorkersAssumption, AttemptsAssumption, StalledAssumption
     DEF Job, JobState, NoJob, Landed, Claimed, Stalled, Acked, Rejected, Holds, Completed,
         Thrown

\* The same of what needs no worker: a job that is not there, or that stalls.
LEMMA JobsStayJobsAlone ==
  ASSUME NEW j \in Job
  PROVE  /\ NoJob \in Job /\ NoJob.state = "absent"
         /\ Landed(j) \in Job /\ Landed(j).state = "wait"
         /\ Stalled(j) \in Job /\ Stalled(j).state # "absent"
  BY StalledAssumption DEF Job, JobState, NoJob, Landed, Stalled

-----------------------------------------------------------------------------
(* Scheduler. *)

\* A pass has a row in hand exactly inside the body of its loop.
PassesAligned ==
  \A p \in Passes : /\ ppc[p] \in {"idle", "next"} <=> cur[p] = NoSchedule
                    /\ ppc[p] = "idle" => batch[p] = {}
                    /\ cur[p] \notin batch[p]

\* Of a one-time schedule that no pass marked RUNNING nothing is queued, and
\* a pass that has it in hand failed to mark it.
FirstRunAhead ==
  \A s \in Schedules \ Recurring :
    status[s] \in {"none", "PENDING"} =>
      /\ queued[s] = 0
      /\ \A p \in Passes : cur[p] = s => ppc[p] = "recover"

\* While a pass holds a one-time schedule, its jobId is taken once it was
\* queued, if its job was not removed in front of a pass.
JobOutlivesRun ==
  \A s \in (Schedules \ Recurring) \ removed :
    /\ job[s] = "absent" /\ Held(s) => queued[s] = 0
    /\ queued[s] <= 1

\* The passes that may still queue the schedule.
MayAdd(s) == {p \in Passes : s \in batch[p] \/ (cur[p] = s /\ ppc[p] \in {"create", "add"})}

\* Each pass queues a one-time schedule at most once: no pass reads it once
\* something is queued.
RunsLeft ==
  \A s \in Schedules \ Recurring :
    queued[s] + Cardinality(MayAdd(s)) <= Cardinality(Passes)

SchedulerInv == /\ TypeOK /\ PassesAligned /\ RunningOwned
        /\ FirstRunAhead /\ JobOutlivesRun /\ RunsLeft

\* Types, and the row a pass has in hand, are kept by every step.
LEMMA SchedulerTypeStep ==
  ASSUME TypeOK, PassesAligned, [Next]_vars
  PROVE  TypeOK' /\ PassesAligned'
<1> USE ScheduleAssumption, BoundsAssumption
        DEF TypeOK, PassesAligned, Status, PassPC, JobKept
<1>1. ASSUME NEW s \in Schedules, \/ Schedule(s) \/ ComesDue(s) \/ Cancel(s)
                                  \/ JobFinishes(s) \/ JobRemoved(s)
      PROVE  TypeOK' /\ PassesAligned'
  <2>1. CASE ComesDue(s)
    <3>1. due' \in [Schedules -> BOOLEAN]
      BY <2>1, Zenon DEF ComesDue
    <3> QED
      BY <2>1, <3>1 DEF ComesDue
  <2>2. CASE Schedule(s) \/ Cancel(s)
    BY <2>2 DEF Schedule, Cancel
  <2>3. CASE JobFinishes(s) \/ JobRemoved(s)
    BY <2>3 DEF JobFinishes, JobRemoved
  <2> QED
    BY <1>1, <2>1, <2>2, <2>3
<1>2. ASSUME NEW p \in Passes, Tick(p)
      PROVE  TypeOK' /\ PassesAligned'
  BY <1>2 DEF Tick, Goto, Overdue
<1>3. ASSUME NEW p \in Passes, NEW s \in Schedules, MarkRunning(p, s)
      PROVE  TypeOK' /\ PassesAligned'
  BY <1>3 DEF MarkRunning, Goto, Fault
<1>4. ASSUME NEW p \in Passes, CreateRow(p)
      PROVE  TypeOK' /\ PassesAligned'
  BY <1>4 DEF CreateRow, Goto, Fault
<1>5. ASSUME NEW p \in Passes, AddJob(p)
      PROVE  TypeOK' /\ PassesAligned'
  BY <1>5 DEF AddJob, AddedJob, Goto, Fault
<1>6. ASSUME NEW p \in Passes, Settle(p) \/ Recover(p)
      PROVE  TypeOK' /\ PassesAligned'
  <2>1. CASE Settle(p)
    <3>1. due' \in [Schedules -> BOOLEAN]
      BY <2>1, Zenon DEF Settle
    <3> QED
      BY <2>1, <3>1 DEF Settle, NextRow, Goto, Fault
  <2>2. CASE Recover(p)
    BY <2>2 DEF Recover, NextRow, Goto, Fault
  <2> QED
    BY <1>6, <2>1, <2>2
<1>7. ASSUME NEW p \in Passes, Crash(p)
      PROVE  TypeOK' /\ PassesAligned'
  BY <1>7 DEF Crash, Goto, Fault
<1>8. CASE UNCHANGED vars
  BY <1>8 DEF vars
<1> QED
  BY <1>1, <1>2, <1>3, <1>4, <1>5, <1>6, <1>7, <1>8 DEF Next, PassStep

\* A pass lets go of a row it marked RUNNING only when it has settled it or
\* failed it, or by a fault.
LEMMA RunningStep ==
  ASSUME TypeOK, PassesAligned, RunningOwned, [Next]_vars
  PROVE  RunningOwned'
<1> USE ScheduleAssumption, BoundsAssumption
        DEF TypeOK, PassesAligned, RunningOwned, PassPC, Status
<1>1. ASSUME NEW s \in Schedules, \/ Schedule(s) \/ ComesDue(s) \/ Cancel(s)
                                  \/ JobFinishes(s) \/ JobRemoved(s)
      PROVE  RunningOwned'
  BY <1>1 DEF Schedule, ComesDue, Cancel, JobFinishes, JobRemoved
<1>2. ASSUME NEW p \in Passes, Tick(p) \/ CreateRow(p) \/ AddJob(p)
      PROVE  RunningOwned'
  BY <1>2 DEF Tick, CreateRow, AddJob, Goto, Fault
<1>3. ASSUME NEW p \in Passes, NEW s \in Schedules, MarkRunning(p, s)
      PROVE  RunningOwned'
  BY <1>3 DEF MarkRunning, Goto, Fault
<1>4. ASSUME NEW p \in Passes, Settle(p)
      PROVE  RunningOwned'
  BY <1>4 DEF Settle, NextRow, Goto, Fault
<1>5. ASSUME NEW p \in Passes, Recover(p) \/ Crash(p)
      PROVE  RunningOwned'
  BY <1>5 DEF Recover, Crash, NextRow, Goto, Fault
<1>6. CASE UNCHANGED vars
  BY <1>6 DEF vars
<1> QED
  BY <1>1, <1>2, <1>3, <1>4, <1>5, <1>6 DEF Next, PassStep

\* A one-time schedule does not become PENDING again, and its jobId is free
\* for a second job only when no pass is left that read it, or in front of one.
LEMMA OnceStep ==
  ASSUME SchedulerInv, [Next]_vars
  PROVE  FirstRunAhead' /\ JobOutlivesRun'
<1> USE ScheduleAssumption DEF SchedulerInv, TypeOK, PassesAligned, FirstRunAhead,
        JobOutlivesRun, Held, PassPC, Status
<1>1. ASSUME NEW s \in Schedules, Schedule(s) \/ ComesDue(s) \/ Cancel(s)
      PROVE  FirstRunAhead' /\ JobOutlivesRun'
  BY <1>1 DEF Schedule, ComesDue, Cancel
<1>2. ASSUME NEW s \in Schedules, JobFinishes(s) \/ JobRemoved(s)
      PROVE  FirstRunAhead' /\ JobOutlivesRun'
  BY <1>2 DEF JobFinishes, JobRemoved
<1>3. ASSUME NEW p \in Passes, Tick(p)
      PROVE  FirstRunAhead' /\ JobOutlivesRun'
  BY <1>3 DEF Tick, Goto, Overdue
<1>4. ASSUME NEW p \in Passes, NEW s \in Schedules, MarkRunning(p, s)
      PROVE  FirstRunAhead' /\ JobOutlivesRun'
  BY <1>4 DEF MarkRunning, Goto
<1>5. ASSUME NEW p \in Passes, CreateRow(p)
      PROVE  FirstRunAhead' /\ JobOutlivesRun'
  BY <1>5 DEF CreateRow, Goto
<1>6. ASSUME NEW p \in Passes, AddJob(p)
      PROVE  FirstRunAhead' /\ JobOutlivesRun'
  BY <1>6 DEF AddJob, AddedJob, Goto
<1>7. ASSUME NEW p \in Passes, Settle(p)
      PROVE  FirstRunAhead' /\ JobOutlivesRun'
  BY <1>7 DEF Settle, NextRow, Goto
<1>8. ASSUME NEW p \in Passes, Recover(p)
      PROVE  FirstRunAhead' /\ JobOutlivesRun'
  BY <1>8 DEF Recover, NextRow, Goto
<1>9. ASSUME NEW p \in Passes, Crash(p)
      PROVE  FirstRunAhead' /\ JobOutlivesRun'
  BY <1>9 DEF Crash, Goto
<1>10. CASE UNCHANGED vars
  BY <1>10 DEF vars
<1> QED
  BY <1>1, <1>2, <1>3, <1>4, <1>5, <1>6, <1>7, <1>8, <1>9, <1>10
     DEF Next, PassStep

\* The passes that may queue a schedule are finitely many, and at most all.
LEMMA MayAddBounded ==
  ASSUME NEW s \in Schedules
  PROVE  /\ IsFiniteSet(MayAdd(s))
         /\ Cardinality(MayAdd(s)) \in Nat /\ Cardinality(Passes) \in Nat
         /\ Cardinality(MayAdd(s)) <= Cardinality(Passes)
<1>1. MayAdd(s) \in SUBSET Passes
  BY DEF MayAdd
<1> QED
  BY <1>1, PassesAssumption, FS_Subset, FS_CardinalityType

\* A step that queues nothing and lets no further pass have the schedule
\* leaves the account of its runs.
LEMMA RunsStay ==
  ASSUME TypeOK, RunsLeft, NEW s \in Schedules \ Recurring,
         queued'[s] = queued[s], MayAdd(s)' \subseteq MayAdd(s)
  PROVE  queued'[s] + Cardinality(MayAdd(s)') <= Cardinality(Passes)
<1>1. /\ Cardinality(MayAdd(s)') \in Nat
      /\ Cardinality(MayAdd(s)') <= Cardinality(MayAdd(s))
  BY MayAddBounded, FS_Subset, FS_CardinalityType
<1> QED
  BY <1>1, MayAddBounded DEF RunsLeft, TypeOK

\* Only an add queues a schedule, and takes its pass out of those that may;
\* only a tick lets a pass have one, of which nothing is queued then.
LEMMA RunsStep ==
  ASSUME SchedulerInv, [Next]_vars
  PROVE  RunsLeft'
<1> SUFFICES ASSUME NEW s \in Schedules \ Recurring
             PROVE  queued'[s] + Cardinality(MayAdd(s)') <= Cardinality(Passes)
  BY DEF RunsLeft
<1> USE ScheduleAssumption DEF SchedulerInv
<1>1. ASSUME NEW t \in Schedules, \/ Schedule(t) \/ ComesDue(t) \/ Cancel(t)
                                  \/ JobFinishes(t) \/ JobRemoved(t)
      PROVE  queued'[s] + Cardinality(MayAdd(s)') <= Cardinality(Passes)
  <2>1. queued' = queued /\ batch' = batch /\ cur' = cur /\ ppc' = ppc
    BY <1>1 DEF Schedule, ComesDue, Cancel, JobFinishes, JobRemoved
  <2> QED
    BY <2>1, RunsStay DEF MayAdd
<1>2. ASSUME NEW p \in Passes, Tick(p)
      PROVE  queued'[s] + Cardinality(MayAdd(s)') <= Cardinality(Passes)
  <2>1. CASE status[s] = "PENDING"
    <3>1. queued'[s] = 0
      BY <1>2, <2>1 DEF Tick, FirstRunAhead
    <3>2. MayAdd(s)' \in SUBSET Passes
      BY DEF MayAdd
    <3>3. Cardinality(MayAdd(s)') \in Nat /\ Cardinality(MayAdd(s)') <= Cardinality(Passes)
      BY <3>2, PassesAssumption, FS_Subset, FS_CardinalityType
    <3> QED
      BY <3>1, <3>3
  <2>2. CASE status[s] # "PENDING"
    <3>1. MayAdd(s)' \subseteq MayAdd(s) /\ queued' = queued
      BY <1>2, <2>2 DEF Tick, Goto, Overdue, MayAdd, TypeOK, PassPC
    <3> QED
      BY <3>1, RunsStay
  <2> QED
    BY <2>1, <2>2
<1>3. ASSUME NEW p \in Passes, NEW t \in Schedules, MarkRunning(p, t)
      PROVE  queued'[s] + Cardinality(MayAdd(s)') <= Cardinality(Passes)
  <2>1. MayAdd(s)' \subseteq MayAdd(s) /\ queued' = queued
    BY <1>3 DEF MarkRunning, Goto, MayAdd, TypeOK, PassPC
  <2> QED
    BY <2>1, RunsStay
<1>4. ASSUME NEW p \in Passes, CreateRow(p) \/ Settle(p) \/ Recover(p) \/ Crash(p)
      PROVE  queued'[s] + Cardinality(MayAdd(s)') <= Cardinality(Passes)
  <2>1. MayAdd(s)' \subseteq MayAdd(s) /\ queued' = queued
    BY <1>4 DEF CreateRow, Settle, Recover, Crash, NextRow, Goto, MayAdd, TypeOK, PassPC
  <2> QED
    BY <2>1, RunsStay
<1>5. ASSUME NEW p \in Passes, AddJob(p)
      PROVE  queued'[s] + Cardinality(MayAdd(s)') <= Cardinality(Passes)
  <2>1. MayAdd(s)' \subseteq MayAdd(s)
    BY <1>5 DEF AddJob, Goto, MayAdd, TypeOK, PassPC
  <2>2. CASE cur[p] = s /\ s \notin batch[p]
    <3>1. p \in MayAdd(s) /\ MayAdd(s)' \subseteq MayAdd(s) \ {p}
      BY <1>5, <2>2 DEF AddJob, Goto, MayAdd, TypeOK, PassPC
    <3>2. queued'[s] \in {queued[s], queued[s] + 1}
      BY <1>5, <2>2 DEF AddJob, AddedJob, TypeOK
    <3>3. /\ IsFiniteSet(MayAdd(s) \ {p})
          /\ Cardinality(MayAdd(s) \ {p}) = Cardinality(MayAdd(s)) - 1
      BY <3>1, MayAddBounded, FS_RemoveElement
    <3>4. /\ Cardinality(MayAdd(s)') \in Nat
          /\ Cardinality(MayAdd(s)') <= Cardinality(MayAdd(s) \ {p})
      BY <3>1, <3>3, FS_Subset, FS_CardinalityType
    <3> QED
      BY <3>2, <3>3, <3>4, MayAddBounded DEF RunsLeft, TypeOK
  <2>3. CASE cur[p] # s
    <3>1. queued'[s] = queued[s]
      BY <1>5, <2>3 DEF AddJob, AddedJob, TypeOK
    <3> QED
      BY <2>1, <3>1, RunsStay
  <2>4. s \in batch[p] => cur[p] # s
    BY DEF PassesAligned
  <2> QED
    BY <2>2, <2>3, <2>4
<1>6. CASE UNCHANGED vars
  <2>1. queued' = queued /\ batch' = batch /\ cur' = cur /\ ppc' = ppc
    BY <1>6 DEF vars
  <2> QED
    BY <2>1, RunsStay DEF MayAdd
<1> QED
  BY <1>1, <1>2, <1>3, <1>4, <1>5, <1>6 DEF Next, PassStep

\* The inductive invariant holds throughout.
LEMMA SchedulerInductive == Spec => []SchedulerInv
<1>1. Init => SchedulerInv
  BY ScheduleAssumption, MayAddBounded
     DEF Init, SchedulerInv, TypeOK, PassesAligned, RunningOwned, FirstRunAhead,
         JobOutlivesRun, RunsLeft, Held, Status, PassPC, JobKept
<1>2. SchedulerInv /\ [Next]_vars => SchedulerInv'
  BY SchedulerTypeStep, RunningStep, OnceStep, RunsStep DEF SchedulerInv
<1> QED
  BY <1>1, <1>2, PTL DEF Spec

\* Every variable keeps its type, for any number of schedules and passes.
\* (SchedulerService.)
THEOREM SchedulerTypeCorrect == Spec => []TypeOK
  BY SchedulerInductive, PTL DEF SchedulerInv

\* A RUNNING schedule has a pass at work on it unless something failed,
\* however many passes overlap.  (The status updates of
\* reconcilePendingJobs.)
THEOREM RunningIsOwned == Spec => []RunningOwned
  BY SchedulerInductive, PTL DEF SchedulerInv

\* A one-time schedule is handed to the workers once, whatever passes
\* overlap, fail or die, as long as BullMQ keeps its job while a pass holds the
\* row; and by each pass at most once, whenever BullMQ removes it.  (jobId in
\* reconcilePendingJobs.)
THEOREM OneTimeIsSentOnce == Spec => []OneTimeSentOnce
<1>1. SchedulerInv => OneTimeSentOnce
  BY ScheduleAssumption, MayAddBounded
     DEF SchedulerInv, TypeOK, JobOutlivesRun, RunsLeft, OneTimeSentOnce
<1> QED
  BY <1>1, SchedulerInductive, PTL

-----------------------------------------------------------------------------
(* Receipts. *)

\* A window under scan is locked and has no job yet, no two scans share one,
\* and a scan that is to add a batch read one.
ScansAligned ==
  /\ \A p \in Scanners :
       IF spc[p] = "idle" THEN win[p] = NoWindow
       ELSE /\ win[p] \in lock
            /\ batchJob[win[p]].state = "absent"
            /\ spc[p] = "add" => found[p] # <<>>
  /\ \A p, q \in Scanners : p # q /\ win[p] = win[q] => spc[p] = "idle"

\* A job lies in a window that is locked, and carries a batch.
JobsAligned ==
  \A x \in Windows : batchJob[x].state # "absent" => x \in lock /\ batchOf[x] # <<>>

\* A run has a notification in hand until it is done.
RunsAligned ==
  \A w \in Workers : wpc[w] \notin {"idle", "done"} => todo[w] # <<>>

\* A transaction in flight is waited for, there is none before the send, and
\* what is saved is one that landed.
TxAligned ==
  \A w \in Workers : /\ tx[w] = "sent" => wpc[w] = "confirm"
                     /\ wpc[w] \in {"idle", "start", "row", "disable", "send", "done"} => tx[w] = "none"
                     /\ wpc[w] = "save" => tx[w] \in {"ok", "err"}

\* Nobody waits only for what a run lost sight of.  A receipt that a run is
\* still to write, or has failed to, is not on chain, unless another run wrote
\* it at the same time or one lost sight of it; of two runs that are at the
\* same receipt it is known that they are.
ChainAligned ==
  /\ stray \subseteq lostSight
  /\ \A w \in Workers : Writing(w) /\ tx[w] # "ok" /\ Current(w) \in chain
                         => Current(w) \in doubled \cup lostSight
  /\ \A v, w \in Workers : v # w /\ Writing(v) /\ Writing(w) /\ Current(v) = Current(w)
                            => Current(w) \in doubled

ReceiptsInv == /\ ReceiptsTypeOK /\ ScansAligned /\ JobsAligned /\ RunsAligned /\ TxAligned

\* A list that the query may return is a sequence of notifications.  (take in
\* enqueueReceiptBatches.)
LEMMA ListsAreSequences == Lists \subseteq Seq(Notifications)
<1> SUFFICES ASSUME NEW l \in Lists PROVE l \in Seq(Notifications)
  OBVIOUS
<1>1. PICK k \in 0..Cardinality(Notifications) : l \in [1..k -> Notifications]
  BY DEF Lists
<1>2. k \in Nat
  OBVIOUS
<1> QED
  BY <1>1, <1>2, SeqDef

\* The notification in hand is one of the table's.
LEMMA CurrentIsNotification ==
  ASSUME ReceiptsTypeOK, NEW w \in Workers, todo[w] # <<>>
  PROVE  Current(w) \in Notifications
<1>1. todo[w] \in Seq(Notifications)
  BY DEF ReceiptsTypeOK
<1> QED
  BY <1>1, HeadTailProperties DEF Current

\* A scan that ends forgets its window and what it read.
LEMMA ScanEndsType ==
  ASSUME ReceiptsTypeOK, NEW p \in Scanners, ScanEnds(p), UNCHANGED faults \/ Fault
  PROVE  /\ spc' \in [Scanners -> {"idle", "find", "add"}]
         /\ win' \in [Scanners -> Windows \cup {NoWindow}]
         /\ found' \in [Scanners -> Seq(Notifications)]
         /\ faults' \in Nat
<1>1. <<>> \in Seq(Notifications)
  BY EmptySeq
<1>2. found' \in [Scanners -> Seq(Notifications)]
  BY <1>1 DEF ScanEnds, ReceiptsTypeOK
<1>3. faults' \in Nat
  BY DEF Fault, ReceiptsTypeOK
<1> QED
  BY <1>2, <1>3 DEF ScanEnds, ReceiptsTypeOK

\* The scans, and what they do to the jobs.
LEMMA ScanTypeStep ==
  ASSUME ReceiptsTypeOK, NEW p \in Scanners,
         \/ \E x \in Windows : Lock(p, x)
         \/ FindPending(p) \/ AddBatch(p) \/ ScanCrash(p),
         ScansAligned
  PROVE  ReceiptsTypeOK'
<1> USE ReceiptAssumption, FaultsAssumption
<1>1. ASSUME NEW x \in Windows, Lock(p, x) PROVE ReceiptsTypeOK'
  BY <1>1 DEF Lock, ReceiptsTypeOK, sightVars, deliveryVars, workVars
<1>2. CASE FindPending(p)
  <2>1. UNCHANGED <<lock, deliveryVars, batchJob, batchOf, workVars, chain, stray, sightVars>>
    BY <1>2, Zenon DEF FindPending
  <2>2. \/ \E list \in Lists : /\ found' = [found EXCEPT ![p] = list]
                               /\ spc' = [spc EXCEPT ![p] = "add"]
                               /\ UNCHANGED <<win, faults>>
        \/ ScanEnds(p) /\ (UNCHANGED faults \/ Fault)
    BY <1>2, Zenon DEF FindPending
  <2>3. CASE ScanEnds(p) /\ (UNCHANGED faults \/ Fault)
    BY <2>1, <2>3, ScanEndsType, Zenon DEF ReceiptsTypeOK, sightVars, deliveryVars, workVars
  <2>4. ASSUME NEW list \in Lists, found' = [found EXCEPT ![p] = list],
               spc' = [spc EXCEPT ![p] = "add"], UNCHANGED <<win, faults>>
        PROVE  ReceiptsTypeOK'
    <3>1. list \in Seq(Notifications)
      BY ListsAreSequences
    <3>2. found' \in [Scanners -> Seq(Notifications)]
      BY <2>4, <3>1 DEF ReceiptsTypeOK
    <3>3. spc' \in [Scanners -> {"idle", "find", "add"}]
      BY <2>4 DEF ReceiptsTypeOK
    <3> QED
      BY <2>1, <2>4, <3>2, <3>3, Zenon DEF ReceiptsTypeOK, sightVars, deliveryVars, workVars
  <2> QED
    BY <2>2, <2>3, <2>4
<1>3. CASE AddBatch(p)
  <2>1. batchJob' \in [Windows -> Job] /\ batchOf' \in [Windows -> Seq(Notifications)]
    <3>1. CASE UNCHANGED <<batchJob, batchOf>>
      BY <3>1, Zenon DEF ReceiptsTypeOK
    <3>2. CASE /\ batchJob' = [batchJob EXCEPT ![win[p]] = Landed(@)]
               /\ batchOf' = [batchOf EXCEPT ![win[p]] = found[p]]
      <4>1. win[p] \in Windows => Landed(batchJob[win[p]]) \in Job
        <5> HAVE win[p] \in Windows
        <5>1. batchJob[win[p]] \in Job
          BY DEF ReceiptsTypeOK
        <5> QED
          BY <5>1 DEF Landed, Job, JobState
      <4>2. found[p] \in Seq(Notifications)
        BY DEF ReceiptsTypeOK
      <4> QED
        BY <3>2, <4>1, <4>2 DEF ReceiptsTypeOK
    <3> QED
      BY <1>3, <3>1, <3>2, Zenon DEF AddBatch
  <2>2. /\ UNCHANGED <<lock, deliveryVars, workVars, chain, stray, sightVars>> /\ ScanEnds(p)
        /\ UNCHANGED faults \/ Fault
    BY <1>3, Zenon DEF AddBatch
  <2> QED
    BY <2>1, <2>2, ScanEndsType, Zenon DEF ReceiptsTypeOK, sightVars, deliveryVars, workVars
<1>4. CASE ScanCrash(p)
  <2>1. /\ UNCHANGED <<lock, deliveryVars, batchJob, batchOf, workVars, chain, stray, sightVars>>
        /\ ScanEnds(p) /\ Fault
    BY <1>4, Zenon DEF ScanCrash
  <2> QED
    BY <2>1, ScanEndsType, Zenon DEF ReceiptsTypeOK, sightVars, deliveryVars, workVars
<1> QED
  BY <1>1, <1>2, <1>3, <1>4

\* A run that ends a notification has a sequence left.
LEMMA NextMemberType ==
  ASSUME ReceiptsTypeOK, NEW w \in Workers, todo[w] # <<>>, NextMember(w)
  PROVE  /\ todo' \in [Workers -> Seq(Notifications)] /\ tx' \in [Workers -> Fate]
         /\ wpc' \in [Workers -> {"idle", "start", "row", "disable", "send", "confirm",
                                  "save", "fail", "done", "thrown"}]
         /\ \A v \in Workers : wpc'[v] \notin {"idle", "done"}
                               /\ (v # w => todo[v] # <<>>) => todo'[v] # <<>>
<1>1. todo[w] \in Seq(Notifications)
  BY DEF ReceiptsTypeOK
<1>2. Tail(todo[w]) \in Seq(Notifications) /\ Len(Tail(todo[w])) = Len(todo[w]) - 1
  BY <1>1, HeadTailProperties
<1>3. Len(todo[w]) # 1 => Tail(todo[w]) # <<>>
  <2>1. Len(todo[w]) \in Nat \ {0}
    BY <1>1, EmptySeq
  <2> DEFINE n == Len(todo[w])
             m == Len(Tail(todo[w]))
  <2>2. Tail(todo[w]) = <<>> => m = 0
    BY EmptySeq, Zenon
  <2>3. n \in Nat /\ m = n - 1
    BY <1>2, <2>1
  <2> HIDE DEF n, m
  <2>4. m = 0 => n = 1
    BY <2>3
  <2> QED
    BY <2>2, <2>4, Zenon DEF n, m
<1>4. /\ todo' = [todo EXCEPT ![w] = Tail(todo[w])] /\ tx' = [tx EXCEPT ![w] = "none"]
      /\ wpc' = [wpc EXCEPT ![w] = IF Len(todo[w]) = 1 THEN "done" ELSE "row"]
  BY Zenon DEF NextMember, WorkerAt
<1>5. todo' \in [Workers -> Seq(Notifications)] /\ tx' \in [Workers -> Fate]
  BY <1>2, <1>4 DEF ReceiptsTypeOK, Fate
<1>6. wpc' \in [Workers -> {"idle", "start", "row", "disable", "send", "confirm",
                            "save", "fail", "done", "thrown"}]
  BY <1>4 DEF ReceiptsTypeOK
<1>7. ASSUME NEW v \in Workers, wpc'[v] \notin {"idle", "done"},
             v # w => todo[v] # <<>>
      PROVE  todo'[v] # <<>>
  BY <1>3, <1>4, <1>7 DEF ReceiptsTypeOK
<1> QED
  BY <1>5, <1>6, <1>7

\* The stages of a run for one notification.
LEMMA StageTypeStep ==
  ASSUME ReceiptsTypeOK, RunsAligned, NEW w \in Workers,
         \/ CheckAuthority(w) \/ PrepareRow(w) \/ DisableRow(w) \/ Send(w)
         \/ Confirm(w) \/ Save(w) \/ Refuse(w)
  PROVE  ReceiptsTypeOK' /\ RunsAligned'
<1> DEFINE Sent == /\ wpc' \in [Workers -> {"idle", "start", "row", "disable", "send",
                                            "confirm", "save", "fail", "done", "thrown"}]
                   /\ todo' \in [Workers -> Seq(Notifications)]
                   /\ tx' \in [Workers -> Fate]
                   /\ RunsAligned'
<1>1. ASSUME NEW l \in {"row", "disable", "send", "confirm", "save", "fail", "thrown"},
             WorkerAt(w, l), UNCHANGED todo, tx' \in [Workers -> Fate],
             wpc[w] \notin {"idle", "done"}
      PROVE  Sent
  BY <1>1 DEF WorkerAt, RunsAligned, ReceiptsTypeOK
<1>2. ASSUME NextMember(w), wpc[w] \notin {"idle", "done"}
      PROVE  Sent
  <2>1. todo[w] # <<>>
    BY <1>2 DEF RunsAligned
  <2>2. \A v \in Workers : wpc'[v] \notin {"idle", "done"} /\ v # w => todo[v] # <<>>
    BY <1>2 DEF NextMember, WorkerAt, RunsAligned, ReceiptsTypeOK
  <2> QED
    BY <1>2, <2>1, <2>2, NextMemberType DEF RunsAligned
<1>3. UNCHANGED tx => tx' \in [Workers -> Fate]
  BY Zenon DEF ReceiptsTypeOK
<1>4. UNCHANGED faults \/ Fault => faults' \in Nat
  BY DEF Fault, ReceiptsTypeOK
<1>5. wpc[w] \notin {"idle", "done"} => Current(w) \in Notifications
  BY CurrentIsNotification DEF RunsAligned
<1> HIDE DEF Sent
<1>6. CASE CheckAuthority(w)
  <2>1. Sent
    BY <1>1, <1>3, <1>6 DEF CheckAuthority
  <2> QED
    BY <1>4, <1>6, <2>1 DEF CheckAuthority, Sent, ReceiptsTypeOK, sightVars, deliveryVars, scanVars
<1>7. CASE PrepareRow(w)
  <2>1. Sent
    BY <1>1, <1>2, <1>3, <1>7 DEF PrepareRow
  <2>2. doubled' \in SUBSET Notifications
    BY <1>5, <1>7 DEF PrepareRow, ReceiptsTypeOK
  <2> QED
    BY <1>7, <2>1, <2>2 DEF PrepareRow, Sent, ReceiptsTypeOK, sightVars, deliveryVars, scanVars
<1>8. CASE DisableRow(w)
  <2>1. Sent
    BY <1>1, <1>2, <1>3, <1>8 DEF DisableRow
  <2>2. wanted' \in SUBSET Notifications
    BY <1>8 DEF DisableRow, ReceiptsTypeOK
  <2> QED
    BY <1>4, <1>8, <2>1, <2>2 DEF DisableRow, Sent, ReceiptsTypeOK, sightVars, scanVars
<1>9. CASE Send(w)
  <2>1. tx' \in [Workers -> Fate]
    BY <1>9 DEF Send, ReceiptsTypeOK, Fate
  <2>2. Sent
    BY <1>1, <1>9, <2>1 DEF Send
  <2>3. stray' \in SUBSET Notifications
    BY <1>5, <1>9 DEF Send, ReceiptsTypeOK
  <2>4. lostSight' \in SUBSET Notifications
    BY <1>5, <1>9 DEF Send, ReceiptsTypeOK
  <2> QED
    BY <1>4, <1>9, <2>2, <2>3, <2>4 DEF Send, Sent, ReceiptsTypeOK, sightVars, deliveryVars, scanVars
<1>10. CASE Confirm(w)
  <2>1. tx' \in [Workers -> Fate]
    BY <1>10 DEF Confirm, ReceiptsTypeOK, Fate
  <2>2. Sent
    BY <1>1, <1>10, <2>1 DEF Confirm
  <2>3. stray' \in SUBSET Notifications
    BY <1>5, <1>10 DEF Confirm, LeftBehind, ReceiptsTypeOK
  <2>4. lostSight' \in SUBSET Notifications
    BY <1>5, <1>10 DEF Confirm, ReceiptsTypeOK
  <2> QED
    BY <1>4, <1>10, <2>2, <2>3, <2>4 DEF Confirm, Sent, ReceiptsTypeOK, sightVars, deliveryVars, scanVars
<1>11. CASE Save(w)
  <2>1. Sent
    BY <1>1, <1>2, <1>3, <1>11 DEF Save
  <2>2. saved' \in [Notifications -> Fate]
    BY <1>5, <1>11 DEF Save, ReceiptsTypeOK
  <2>3. lostSight' \in SUBSET Notifications
    BY <1>5, <1>11 DEF Save, ReceiptsTypeOK
  <2> QED
    BY <1>4, <1>11, <2>1, <2>2, <2>3 DEF Save, Sent, ReceiptsTypeOK, sightVars, scanVars
<1>12. CASE Refuse(w)
  <2>1. Sent
    BY <1>1, <1>2, <1>3, <1>12 DEF Refuse
  <2>2. refused' \in SUBSET Notifications
    BY <1>5, <1>12 DEF Refuse, ReceiptsTypeOK
  <2> QED
    BY <1>4, <1>12, <2>1, <2>2 DEF Refuse, Sent, ReceiptsTypeOK, sightVars, scanVars
<1> QED
  BY <1>6, <1>7, <1>8, <1>9, <1>10, <1>11, <1>12

\* A transaction in flight, or one that landed, is for a notification in hand.
LEMMA InFlightHasCurrent ==
  ASSUME ReceiptsTypeOK, RunsAligned, TxAligned, NEW w \in Workers, tx[w] \in {"sent", "ok"}
  PROVE  Current(w) \in Notifications
<1>1. todo[w] # <<>>
  BY DEF RunsAligned, TxAligned
<1> QED
  BY <1>1, CurrentIsNotification

\* The beginning and the end of a run, and the chain.
LEMMA BatchRunTypeStep ==
  ASSUME ReceiptsTypeOK, RunsAligned, JobsAligned, TxAligned, NEW w \in Workers,
         \/ \E x \in Windows : ClaimBatch(w, x)
         \/ FinishBatch(w) \/ WorkerCrash(w) \/ TxSettles(w)
  PROVE  ReceiptsTypeOK' /\ RunsAligned'
<1>1. ASSUME NEW x \in Windows, ClaimBatch(w, x)
      PROVE  ReceiptsTypeOK' /\ RunsAligned'
  <2>1. batchJob[x] \in Job /\ batchOf[x] \in Seq(Notifications) /\ batchOf[x] # <<>>
    BY <1>1 DEF ClaimBatch, JobsAligned, ReceiptsTypeOK
  <2>2. Claimed(batchJob[x], w) \in Job
    BY <2>1, JobsStayJobs
  <2>3. batchJob' \in [Windows -> Job]
    BY <1>1, <2>2 DEF ClaimBatch, ReceiptsTypeOK
  <2>4. todo' \in [Workers -> Seq(Notifications)]
    BY <1>1, <2>1 DEF ClaimBatch, ReceiptsTypeOK
  <2>5. RunsAligned'
    BY <1>1, <2>1 DEF ClaimBatch, WorkerAt, RunsAligned, ReceiptsTypeOK
  <2> QED
    BY <1>1, <2>3, <2>4, <2>5
       DEF ClaimBatch, WorkerAt, ReceiptsTypeOK, sightVars, deliveryVars, scanVars
<1>2. ASSUME BatchOver(w)
      PROVE  /\ wpc' \in [Workers -> {"idle", "start", "row", "disable", "send", "confirm",
                                      "save", "fail", "done", "thrown"}]
             /\ wwin' \in [Workers -> Windows \cup {NoWindow}]
             /\ todo' \in [Workers -> Seq(Notifications)]
             /\ tx' \in [Workers -> Fate]
             /\ RunsAligned'
  <2>1. <<>> \in Seq(Notifications)
    BY EmptySeq
  <2>2. todo' \in [Workers -> Seq(Notifications)]
    BY <1>2, <2>1 DEF BatchOver, ReceiptsTypeOK
  <2> QED
    BY <1>2, <2>2 DEF BatchOver, RunsAligned, ReceiptsTypeOK, Fate
<1>3. CASE FinishBatch(w)
  <2>1. wwin[w] \in Windows => /\ Acked(batchJob[wwin[w]], w) \in Job
                               /\ Rejected(batchJob[wwin[w]], w) \in Job
    BY JobsStayJobs DEF ReceiptsTypeOK
  <2>2. batchJob' \in [Windows -> Job]
    BY <1>3, <2>1 DEF FinishBatch, ReceiptsTypeOK
  <2>3. BatchOver(w) /\ UNCHANGED <<deliveryVars, scanVars, batchOf, chain, stray, faults, sightVars>>
    BY <1>3, Zenon DEF FinishBatch
  <2> QED
    BY <1>2, <2>2, <2>3, Zenon DEF ReceiptsTypeOK, sightVars, deliveryVars, scanVars
<1>4. CASE WorkerCrash(w)
  <2>1. /\ BatchOver(w) /\ Fault
        /\ UNCHANGED <<deliveryVars, scanVars, batchJob, batchOf, chain, doubled>>
    BY <1>4, Zenon DEF WorkerCrash
  <2>2. faults' \in Nat
    BY <2>1 DEF Fault, ReceiptsTypeOK
  <2>3. stray' \in SUBSET Notifications
    BY <1>4, InFlightHasCurrent DEF WorkerCrash, LeftBehind, ReceiptsTypeOK
  <2>4. lostSight' \in SUBSET Notifications
    BY <1>4, InFlightHasCurrent DEF WorkerCrash, ReceiptsTypeOK
  <2> QED
    BY <1>2, <2>1, <2>2, <2>3, <2>4, Zenon DEF ReceiptsTypeOK, sightVars, deliveryVars, scanVars
<1>5. CASE TxSettles(w)
  <2>1. tx' \in [Workers -> Fate]
    BY <1>5 DEF TxSettles, ReceiptsTypeOK, Fate
  <2>2. chain' \in SUBSET Notifications
    BY <1>5, InFlightHasCurrent DEF TxSettles, ReceiptsTypeOK
  <2>3. UNCHANGED <<wpc, wwin, todo, deliveryVars, scanVars, batchJob, batchOf, stray, faults,
                   sightVars>>
    BY <1>5, Zenon DEF TxSettles
  <2> QED
    BY <2>1, <2>2, <2>3 DEF RunsAligned, ReceiptsTypeOK, sightVars, deliveryVars, scanVars
<1> QED
  BY <1>1, <1>3, <1>4, <1>5

\* Types, and what a run has in hand, are kept by every step.
LEMMA ReceiptsTypeStep ==
  ASSUME ReceiptsInv, [ReceiptsNext]_receiptsVars
  PROVE  ReceiptsTypeOK' /\ RunsAligned'
<1> USE DEF ReceiptsInv
<1>1. ASSUME NEW n \in Notifications, Deliver(n) \/ StraySettles(n)
      PROVE  ReceiptsTypeOK' /\ RunsAligned'
  <2>1. CASE Deliver(n)
    <3>1. delivered' \in Seq(Notifications)
      BY <2>1, AppendProperties DEF Deliver, ReceiptsTypeOK
    <3> QED
      BY <2>1, <3>1 DEF Deliver, RunsAligned, ReceiptsTypeOK, sightVars, scanVars, workVars
  <2>2. CASE StraySettles(n)
    BY <2>2 DEF StraySettles, RunsAligned, ReceiptsTypeOK, sightVars, deliveryVars, scanVars, workVars
  <2> QED
    BY <1>1, <2>1, <2>2
<1>2. ASSUME NEW p \in Scanners,
             \/ \E x \in Windows : Lock(p, x)
             \/ FindPending(p) \/ AddBatch(p) \/ ScanCrash(p)
      PROVE  ReceiptsTypeOK' /\ RunsAligned'
  <2>1. UNCHANGED workVars
    BY <1>2, Zenon DEF Lock, FindPending, AddBatch, ScanCrash
  <2> QED
    BY <1>2, <2>1, ScanTypeStep DEF RunsAligned, workVars
<1>3. ASSUME NEW x \in Windows, WindowPasses(x)
      PROVE  ReceiptsTypeOK' /\ RunsAligned'
  <2>1. batchJob' \in [Windows -> Job]
    BY <1>3, JobsStayJobsAlone DEF WindowPasses, ReceiptsTypeOK
  <2>2. <<>> \in Seq(Notifications)
    BY EmptySeq
  <2>3. batchOf' \in [Windows -> Seq(Notifications)]
    BY <1>3, <2>2 DEF WindowPasses, ReceiptsTypeOK
  <2> QED
    BY <1>3, <2>1, <2>3
       DEF WindowPasses, RunsAligned, ReceiptsTypeOK, sightVars, deliveryVars, workVars
<1>4. ASSUME NEW x \in Windows, StallBatch(x)
      PROVE  ReceiptsTypeOK' /\ RunsAligned'
  <2>1. batchJob' \in [Windows -> Job]
    BY <1>4, JobsStayJobsAlone DEF StallBatch, ReceiptsTypeOK
  <2> QED
    BY <1>4, <2>1 DEF StallBatch, RunsAligned, ReceiptsTypeOK, sightVars, deliveryVars, scanVars, workVars
<1>5. CASE UNCHANGED receiptsVars
  BY <1>5 DEF receiptsVars, RunsAligned, ReceiptsTypeOK
<1> QED
  BY <1>1, <1>2, <1>3, <1>4, <1>5, StageTypeStep, BatchRunTypeStep, Zenon
     DEF ReceiptsNext, ScanStep, WorkerStep

\* No second scan of a window reaches the add, and no job comes into a window
\* before the lock.  (SET NX and the jobId of enqueueReceiptBatches.)
LEMMA ScansAlignedStep ==
  ASSUME ReceiptsInv, [ReceiptsNext]_receiptsVars
  PROVE  ScansAligned' /\ JobsAligned'
<1> USE DEF ReceiptsInv
<1>1. ASSUME NEW p \in Scanners, NEW x \in Windows, Lock(p, x)
      PROVE  ScansAligned' /\ JobsAligned'
  BY <1>1, ReceiptAssumption DEF Lock, LockFree, ScansAligned, JobsAligned, ReceiptsTypeOK
<1>2. ASSUME NEW p \in Scanners, ScanEnds(p), UNCHANGED <<lock, batchJob, batchOf>>
      PROVE  ScansAligned' /\ JobsAligned'
  BY <1>2, ReceiptAssumption DEF ScanEnds, ScansAligned, JobsAligned, ReceiptsTypeOK
<1>3. ASSUME NEW p \in Scanners, FindPending(p)
      PROVE  ScansAligned' /\ JobsAligned'
  <2>1. UNCHANGED <<lock, batchJob, batchOf>>
    BY <1>3, Zenon DEF FindPending
  <2>2. \/ \E list \in Lists : /\ list # <<>>
                               /\ found' = [found EXCEPT ![p] = list]
                               /\ spc' = [spc EXCEPT ![p] = "add"]
                               /\ UNCHANGED win
        \/ ScanEnds(p)
    BY <1>3, Zenon DEF FindPending
  <2>3. ASSUME NEW list \in Lists, list # <<>>, found' = [found EXCEPT ![p] = list],
               spc' = [spc EXCEPT ![p] = "add"], UNCHANGED win
        PROVE  ScansAligned' /\ JobsAligned'
    <3>1. spc[p] = "find"
      BY <1>3 DEF FindPending
    <3> QED
      BY <2>1, <2>3, <3>1 DEF ScansAligned, JobsAligned, ReceiptsTypeOK
  <2> QED
    BY <1>2, <2>1, <2>2, <2>3
<1>4. ASSUME NEW p \in Scanners, AddBatch(p)
      PROVE  ScansAligned' /\ JobsAligned'
  <2>1. UNCHANGED lock /\ ScanEnds(p) /\ spc[p] = "add"
    BY <1>4, Zenon DEF AddBatch
  <2>2. CASE UNCHANGED <<batchJob, batchOf>>
    BY <1>2, <2>1, <2>2
  <2>3. CASE /\ batchJob' = [batchJob EXCEPT ![win[p]] = Landed(@)]
             /\ batchOf' = [batchOf EXCEPT ![win[p]] = found[p]]
    <3>1. win[p] \in lock /\ found[p] # <<>>
      BY <2>1 DEF ScansAligned
    <3>2. JobsAligned'
      BY <2>1, <2>3, <3>1 DEF JobsAligned, ReceiptsTypeOK
    <3>3. \A q \in Scanners : q # p /\ spc[q] # "idle" => win[q] # win[p]
      BY DEF ScansAligned
    <3>4. \A y \in Windows : y # win[p] => batchJob'[y] = batchJob[y]
      BY <2>3 DEF ReceiptsTypeOK
    <3>5. ScansAligned'
      BY <2>1, <3>3, <3>4, ReceiptAssumption DEF ScanEnds, ScansAligned, ReceiptsTypeOK
    <3> QED
      BY <3>2, <3>5
  <2> QED
    BY <1>4, <2>2, <2>3, Zenon DEF AddBatch
<1>5. ASSUME NEW p \in Scanners, ScanCrash(p)
      PROVE  ScansAligned' /\ JobsAligned'
  BY <1>2, <1>5 DEF ScanCrash
<1>6. ASSUME NEW x \in Windows, WindowPasses(x)
      PROVE  ScansAligned' /\ JobsAligned'
  <2>1. \A p \in Scanners : win[p] # x
    BY <1>6 DEF WindowPasses
  <2>2. /\ lock' = lock \ {x} /\ batchJob' = [batchJob EXCEPT ![x] = NoJob]
        /\ batchOf' = [batchOf EXCEPT ![x] = <<>>] /\ UNCHANGED <<spc, win, found>>
    BY <1>6, Zenon DEF WindowPasses
  <2> QED
    BY <2>1, <2>2 DEF NoJob, ScansAligned, JobsAligned, ReceiptsTypeOK
<1>7. ASSUME UNCHANGED <<lock, spc, win, found, batchOf>>,
             batchJob' \in [Windows -> Job],
             \A x \in Windows : batchJob'[x].state = "absent" <=> batchJob[x].state = "absent"
      PROVE  ScansAligned' /\ JobsAligned'
  BY <1>7 DEF ScansAligned, JobsAligned, ReceiptsTypeOK
<1>8. ASSUME \/ \E w \in Workers, x \in Windows : ClaimBatch(w, x)
             \/ \E w \in Workers : FinishBatch(w)
             \/ \E x \in Windows : StallBatch(x)
      PROVE  ScansAligned' /\ JobsAligned'
  <2>1. UNCHANGED <<lock, spc, win, found, batchOf>>
    BY <1>8, Zenon DEF ClaimBatch, FinishBatch, StallBatch, scanVars
  <2>2. batchJob' \in [Windows -> Job]
    BY ReceiptsTypeStep DEF ReceiptsTypeOK
  <2>3. batchJob \in [Windows -> Job]
    BY DEF ReceiptsTypeOK
  <2>4. \A y \in Windows : batchJob'[y].state = "absent" <=> batchJob[y].state = "absent"
    <3>1. ASSUME NEW w \in Workers, NEW x \in Windows, ClaimBatch(w, x)
          PROVE  \A y \in Windows : batchJob'[y].state = "absent" <=> batchJob[y].state = "absent"
      <4>1. /\ \A y \in Windows : y # x => batchJob'[y] = batchJob[y]
            /\ batchJob'[x] = Claimed(batchJob[x], w) /\ batchJob[x].state = "wait"
        BY <2>3, <3>1 DEF ClaimBatch
      <4>2. batchJob[x] \in Job
        BY <2>3
      <4>3. batchJob'[x].state = "active"
        BY <4>1, <4>2, JobsStayJobs
      <4> QED
        BY <4>1, <4>3
    <3>2. ASSUME NEW w \in Workers, FinishBatch(w)
          PROVE  \A y \in Windows : batchJob'[y].state = "absent" <=> batchJob[y].state = "absent"
      <4>1. /\ \A y \in Windows : y # wwin[w] => batchJob'[y] = batchJob[y]
            /\ wwin[w] \in Windows => batchJob'[wwin[w]] \in {Acked(batchJob[wwin[w]], w),
                                                              Rejected(batchJob[wwin[w]], w)}
        BY <2>3, <3>2 DEF FinishBatch
      <4> QED
        BY <2>3, <4>1, JobsStayJobs
    <3>3. ASSUME NEW x \in Windows, StallBatch(x)
          PROVE  \A y \in Windows : batchJob'[y].state = "absent" <=> batchJob[y].state = "absent"
      BY <2>3, <3>3, JobsStayJobsAlone DEF StallBatch
    <3> QED
      BY <1>8, <3>1, <3>2, <3>3
  <2> QED
    BY <1>7, <2>1, <2>2, <2>4
<1>9. ASSUME UNCHANGED <<lock, spc, win, found, batchJob, batchOf>>
      PROVE  ScansAligned' /\ JobsAligned'
  BY <1>9 DEF ScansAligned, JobsAligned
<1>10. ASSUME NEW w \in Workers,
              \/ CheckAuthority(w) \/ PrepareRow(w) \/ DisableRow(w) \/ Send(w)
              \/ Confirm(w) \/ Save(w) \/ Refuse(w) \/ TxSettles(w) \/ WorkerCrash(w)
       PROVE  ScansAligned' /\ JobsAligned'
  <2>1. UNCHANGED <<lock, spc, win, found, batchJob, batchOf>>
    BY <1>10, Zenon DEF CheckAuthority, PrepareRow, DisableRow, Send, Confirm, Save, Refuse,
                        TxSettles, WorkerCrash, scanVars
  <2> QED
    BY <1>9, <2>1
<1>11. ASSUME NEW n \in Notifications, Deliver(n) \/ StraySettles(n)
       PROVE  ScansAligned' /\ JobsAligned'
  <2>1. UNCHANGED <<lock, spc, win, found, batchJob, batchOf>>
    BY <1>11, Zenon DEF Deliver, StraySettles, scanVars
  <2> QED
    BY <1>9, <2>1
<1>12. CASE UNCHANGED receiptsVars
  BY <1>9, <1>12 DEF receiptsVars
<1> QED
  BY <1>1, <1>3, <1>4, <1>5, <1>6, <1>8, <1>10, <1>11, <1>12, Zenon
     DEF ReceiptsNext, ScanStep, WorkerStep

\* Only the chain and the run itself end the wait for a transaction.  (send
\* and confirm in ReceiptWorker.)
LEMMA TxAlignedStep ==
  ASSUME ReceiptsInv, [ReceiptsNext]_receiptsVars
  PROVE  TxAligned'
<1> USE DEF ReceiptsInv
<1>1. ASSUME UNCHANGED <<wpc, tx>> PROVE TxAligned'
  BY <1>1 DEF TxAligned
<1>2. ASSUME NEW w \in Workers, NextMember(w) \/ BatchOver(w) PROVE TxAligned'
  BY <1>2 DEF NextMember, BatchOver, WorkerAt, TxAligned, ReceiptsTypeOK
<1>3. ASSUME NEW w \in Workers, UNCHANGED tx, wpc[w] # "confirm",
             NEW l \in {"start", "row", "disable", "send", "fail", "thrown"}, WorkerAt(w, l),
             wpc[w] \in {"idle", "start", "row", "disable"} \/ l \in {"fail", "thrown"}
      PROVE  TxAligned'
  BY <1>3 DEF WorkerAt, TxAligned, ReceiptsTypeOK
<1>4. ASSUME NEW w \in Workers, NEW x \in Windows, ClaimBatch(w, x) PROVE TxAligned'
  BY <1>3, <1>4 DEF ClaimBatch
<1>5. ASSUME NEW w \in Workers, CheckAuthority(w) \/ PrepareRow(w) PROVE TxAligned'
  BY <1>2, <1>3, <1>5 DEF CheckAuthority, PrepareRow
<1>6. ASSUME NEW w \in Workers, DisableRow(w) \/ Save(w) \/ Refuse(w) PROVE TxAligned'
  BY <1>2, <1>3, <1>6 DEF DisableRow, Save, Refuse
<1>7. ASSUME NEW w \in Workers, FinishBatch(w) \/ WorkerCrash(w) PROVE TxAligned'
  BY <1>2, <1>7 DEF FinishBatch, WorkerCrash
<1>8. ASSUME NEW w \in Workers, Send(w) PROVE TxAligned'
  BY <1>3, <1>8 DEF Send, WorkerAt, TxAligned, ReceiptsTypeOK
<1>9. ASSUME NEW w \in Workers, Confirm(w) PROVE TxAligned'
  BY <1>9 DEF Confirm, Confirmed, WorkerAt, TxAligned, ReceiptsTypeOK
<1>10. ASSUME NEW w \in Workers, TxSettles(w) PROVE TxAligned'
  BY <1>10 DEF TxSettles, TxAligned, ReceiptsTypeOK
<1>11. ASSUME \/ \E n \in Notifications : Deliver(n) \/ StraySettles(n)
              \/ \E p \in Scanners : ScanStep(p) \/ ScanCrash(p)
              \/ \E p \in Scanners, x \in Windows : Lock(p, x)
              \/ \E x \in Windows : WindowPasses(x) \/ StallBatch(x)
       PROVE  TxAligned'
  <2>1. UNCHANGED workVars
    BY <1>11, Zenon DEF Deliver, StraySettles, ScanStep, FindPending, AddBatch, ScanCrash,
                        Lock, WindowPasses, StallBatch
  <2> QED
    BY <1>1, <2>1 DEF workVars
<1>12. CASE UNCHANGED receiptsVars
  BY <1>1, <1>12 DEF receiptsVars
<1> QED
  BY <1>4, <1>5, <1>6, <1>7, <1>8, <1>9, <1>10, <1>11, <1>12, Zenon
     DEF ReceiptsNext, WorkerStep

\* The inductive invariant of the receipts holds throughout.
LEMMA ReceiptsInductive == ReceiptsSpec => []ReceiptsInv
<1>1. ReceiptsInit => ReceiptsInv
  <2> SUFFICES ASSUME ReceiptsInit PROVE ReceiptsInv
    OBVIOUS
  <2>1. <<>> \in Seq(Notifications)
    BY EmptySeq
  <2>2. NoJob \in Job /\ NoJob.state = "absent"
    BY DEF NoJob, Job, JobState
  <2>3. ReceiptsTypeOK
    BY <2>1, <2>2 DEF ReceiptsInit, ReceiptsTypeOK, Fate
  <2>4. ScansAligned /\ JobsAligned
    BY <2>2 DEF ReceiptsInit, ScansAligned, JobsAligned
  <2>5. RunsAligned /\ TxAligned
    BY DEF ReceiptsInit, RunsAligned, TxAligned
  <2> QED
    BY <2>3, <2>4, <2>5 DEF ReceiptsInv
<1>2. ReceiptsInv /\ [ReceiptsNext]_receiptsVars => ReceiptsInv'
  BY ReceiptsTypeStep, ScansAlignedStep, TxAlignedStep DEF ReceiptsInv
<1> QED
  BY <1>1, <1>2, PTL DEF ReceiptsSpec

\* Every variable of the receipts keeps its type, for any number of
\* notifications, scanners, windows and workers.  (ReceiptService,
\* ReceiptWorker.)
THEOREM ReceiptsTypeCorrect == ReceiptsSpec => []ReceiptsTypeOK
  BY ReceiptsInductive, PTL DEF ReceiptsInv

\* A batch that was read finds its jobId free, whatever scans, runs and
\* windows overlap and whatever dies.  (The NX lock and the jobId of
\* enqueueReceiptBatches.)
THEOREM BatchesAreNotDropped == ReceiptsSpec => []BatchNotDropped
<1>1. ReceiptsInv => BatchNotDropped
  BY DEF ReceiptsInv, ScansAligned, BatchNotDropped
<1> QED
  BY <1>1, ReceiptsInductive, PTL

\* Nothing of the other runs changes.
OthersRest(w) ==
  \A v \in Workers : v # w => wpc'[v] = wpc[v] /\ todo'[v] = todo[v] /\ tx'[v] = tx[v]

RecordedInv == ChainAligned /\ OnChainRecorded

\* A run that leaves, or is not at, the writing of a receipt, having lost sight
\* of the transaction if that landed.  (The catch of ReceiptWorker.process.)
LEMMA RunTurnsAway ==
  ASSUME ReceiptsInv, RecordedInv, NEW w \in Workers, OthersRest(w),
         UNCHANGED <<chain, saved>>, stray' \subseteq lostSight',
         lostSight \subseteq lostSight', doubled \subseteq doubled', ~Writing(w)',
         Writing(w) /\ tx[w] = "ok" => Current(w) \in lostSight'
  PROVE  RecordedInv'
<1>1. \A v \in Workers : v # w => /\ Writing(v)' <=> Writing(v)
                                  /\ Current(v)' = Current(v) /\ tx'[v] = tx[v]
  BY DEF OthersRest, Writing, Current
<1>2. ChainAligned'
  BY <1>1 DEF RecordedInv, ChainAligned
<1>3. ASSUME NEW n \in chain
      PROVE  \/ saved[n] = "ok"
             \/ \E v \in Workers : Writing(v)' /\ tx'[v] = "ok" /\ Current(v)' = n
             \/ n \in lostSight'
             \/ saved[n] = "err" /\ n \in doubled'
  BY <1>1 DEF RecordedInv, OnChainRecorded
<1> QED
  BY <1>2, <1>3 DEF RecordedInv, OnChainRecorded

\* A run that is about a notification changes nothing of the other runs.
LEMMA StageLeavesOthers ==
  ASSUME ReceiptsInv, NEW w \in Workers,
         \/ CheckAuthority(w) \/ PrepareRow(w) \/ DisableRow(w) \/ Send(w)
         \/ Confirm(w) \/ Save(w) \/ Refuse(w) \/ FinishBatch(w) \/ WorkerCrash(w)
         \/ TxSettles(w) \/ \E x \in Windows : ClaimBatch(w, x)
  PROVE  OthersRest(w)
<1>1. /\ wpc' = wpc \/ \E l : wpc' = [wpc EXCEPT ![w] = l]
      /\ todo' = todo \/ \E l : todo' = [todo EXCEPT ![w] = l]
      /\ tx' = tx \/ \E l : tx' = [tx EXCEPT ![w] = l]
  BY Zenon DEF CheckAuthority, PrepareRow, DisableRow, Send, Confirm, Save, Refuse, FinishBatch,
               WorkerCrash, TxSettles, ClaimBatch, WorkerAt, NextMember, BatchOver
<1>2. /\ wpc \in [Workers -> {"idle", "start", "row", "disable", "send", "confirm", "save",
                              "fail", "done", "thrown"}]
      /\ todo \in [Workers -> Seq(Notifications)] /\ tx \in [Workers -> Fate]
  BY DEF ReceiptsInv, ReceiptsTypeOK
<1> QED
  BY <1>1, <1>2 DEF OthersRest

\* A receipt is recorded by the run that wrote it, unless that lost sight of it;
\* a run may record a failed transaction over it only where two were at it.
\* (The proof before the send, and confirm and save in ReceiptWorker.)
LEMMA RecordedStep ==
  ASSUME ReceiptsInv, ReceiptsInv', RecordedInv, [ReceiptsNext]_receiptsVars
  PROVE  RecordedInv'
<1>1. ASSUME UNCHANGED <<stray, tx, wpc, todo, chain, saved, sightVars>>
      PROVE  RecordedInv'
  BY <1>1 DEF RecordedInv, ChainAligned, OnChainRecorded, Writing, Current, sightVars
<1>2. ASSUME NEW w \in Workers,
             \/ CheckAuthority(w) \/ DisableRow(w) \/ Refuse(w) \/ FinishBatch(w)
             \/ \E x \in Windows : ClaimBatch(w, x)
      PROVE  RecordedInv'
  <2>1. OthersRest(w)
    BY <1>2, StageLeavesOthers
  <2>2. UNCHANGED <<chain, saved, stray, lostSight, doubled>>
    BY <1>2, Zenon DEF CheckAuthority, DisableRow, Refuse, FinishBatch, ClaimBatch, deliveryVars,
                       sightVars
  <2>3. ~Writing(w)
    BY <1>2 DEF CheckAuthority, DisableRow, Refuse, FinishBatch, ClaimBatch, Writing
  <2>4. wpc' = [wpc EXCEPT ![w] = wpc'[w]] /\ wpc'[w] \in {"start", "row", "fail", "thrown", "done", "idle"}
    BY <1>2 DEF CheckAuthority, DisableRow, Refuse, FinishBatch, ClaimBatch, WorkerAt, NextMember,
                BatchOver, ReceiptsInv, ReceiptsTypeOK
  <2>5. ~Writing(w)'
    BY <2>4 DEF Writing
  <2>6. stray' \subseteq lostSight'
    BY <2>2 DEF RecordedInv, ChainAligned
  <2> QED
    BY <2>1, <2>2, <2>3, <2>5, <2>6, RunTurnsAway
<1>3. ASSUME NEW w \in Workers, PrepareRow(w) PROVE RecordedInv'
  <2>1. OthersRest(w)
    BY <1>3, StageLeavesOthers
  <2>2. UNCHANGED <<chain, saved, stray, lostSight>> /\ doubled \subseteq doubled'
    BY <1>3 DEF PrepareRow, deliveryVars
  <2>3. ~Writing(w) /\ wpc[w] = "row"
    BY <1>3 DEF PrepareRow, Writing
  <2>4. stray' \subseteq lostSight'
    BY <2>2 DEF RecordedInv, ChainAligned
  <2>5. CASE ~Writing(w)'
    BY <2>1, <2>2, <2>3, <2>4, <2>5, RunTurnsAway
  <2>6. CASE Writing(w)'
    <3>1. /\ Current(w) \notin chain /\ UNCHANGED <<todo, tx>>
          /\ doubled' = IF \E v \in Workers \ {w} : Writing(v) /\ Current(v) = Current(w)
                          THEN doubled \cup {Current(w)} ELSE doubled
      BY <1>3, <2>6 DEF PrepareRow, NextMember, WorkerAt, Writing, ReceiptsInv, ReceiptsTypeOK
    <3>2. \A v \in Workers : /\ v # w => (Writing(v)' <=> Writing(v))
                             /\ Current(v)' = Current(v) /\ tx'[v] = tx[v]
      BY <2>1, <3>1 DEF OthersRest, Writing, Current
    <3>3. ChainAligned'
      BY <2>2, <2>4, <3>1, <3>2 DEF RecordedInv, ChainAligned
    <3>4. OnChainRecorded'
      BY <2>2, <2>3, <3>2 DEF RecordedInv, OnChainRecorded
    <3> QED
      BY <3>3, <3>4 DEF RecordedInv
  <2> QED
    BY <2>5, <2>6
<1>4. ASSUME NEW w \in Workers, Send(w) PROVE RecordedInv'
  <2>1. OthersRest(w) /\ Writing(w)
    BY <1>4, StageLeavesOthers DEF Send, Writing
  <2>2. UNCHANGED <<chain, saved, doubled, todo>>
    BY <1>4, Zenon DEF Send, deliveryVars
  <2>3. tx[w] = "none"
    BY <1>4 DEF Send, ReceiptsInv, TxAligned
  <2>4. CASE wpc' = [wpc EXCEPT ![w] = "fail"]
    <3>1. ~Writing(w)'
      BY <2>4 DEF Writing, ReceiptsInv, ReceiptsTypeOK
    <3>2. stray' \subseteq lostSight' /\ lostSight \subseteq lostSight'
      BY <1>4 DEF Send, RecordedInv, ChainAligned
    <3> QED
      BY <2>1, <2>2, <2>3, <3>1, <3>2, RunTurnsAway
  <2>5. CASE /\ Current(w) \notin chain /\ tx' = [tx EXCEPT ![w] = "sent"]
             /\ wpc' = [wpc EXCEPT ![w] = "confirm"] /\ UNCHANGED <<stray, lostSight>>
    <3>1. \A v \in Workers : /\ (Writing(v)' <=> Writing(v)) /\ Current(v)' = Current(v)
                             /\ v # w => tx'[v] = tx[v]
      BY <2>1, <2>2, <2>5 DEF OthersRest, Writing, Current, ReceiptsInv, ReceiptsTypeOK
    <3>2. ChainAligned'
      BY <2>2, <2>5, <3>1 DEF RecordedInv, ChainAligned
    <3>3. OnChainRecorded'
      BY <2>2, <2>3, <2>5, <3>1 DEF RecordedInv, OnChainRecorded
    <3> QED
      BY <3>2, <3>3 DEF RecordedInv
  <2> QED
    BY <1>4, <2>4, <2>5, Zenon DEF Send, WorkerAt
<1>5. ASSUME NEW w \in Workers, Confirm(w) PROVE RecordedInv'
  <2>1. OthersRest(w) /\ Writing(w)
    BY <1>5, StageLeavesOthers DEF Confirm, Writing
  <2>2. UNCHANGED <<chain, saved, doubled, todo>>
    BY <1>5, Zenon DEF Confirm, deliveryVars
  <2>3. CASE /\ wpc' = [wpc EXCEPT ![w] = "fail"]
             /\ \/ tx[w] = "expired" /\ UNCHANGED <<stray, lostSight>>
                \/ stray' = LeftBehind(w) /\ lostSight' = lostSight \cup {Current(w)}
    <3>1. ~Writing(w)'
      BY <2>3 DEF Writing, ReceiptsInv, ReceiptsTypeOK
    <3>2. stray' \subseteq lostSight' /\ lostSight \subseteq lostSight'
      BY <2>3 DEF LeftBehind, RecordedInv, ChainAligned
    <3>3. tx[w] = "ok" => Current(w) \in lostSight'
      BY <2>3
    <3> QED
      BY <2>1, <2>2, <3>1, <3>2, <3>3, RunTurnsAway
  <2>4. CASE wpc' = [wpc EXCEPT ![w] = "save"] /\ UNCHANGED <<tx, stray, lostSight>>
    <3>1. \A v \in Workers : (Writing(v)' <=> Writing(v)) /\ Current(v)' = Current(v)
      BY <2>1, <2>2, <2>4 DEF OthersRest, Writing, Current, ReceiptsInv, ReceiptsTypeOK
    <3> QED
      BY <2>2, <2>4, <3>1 DEF RecordedInv, ChainAligned, OnChainRecorded
  <2> QED
    BY <1>5, <2>3, <2>4, Zenon DEF Confirm, WorkerAt
<1>6. ASSUME NEW w \in Workers, Save(w) PROVE RecordedInv'
  <2>1. OthersRest(w) /\ Writing(w) /\ wpc[w] = "save"
    BY <1>6, StageLeavesOthers DEF Save, Writing
  <2>2. UNCHANGED <<chain, stray, doubled>>
    BY <1>6, Zenon DEF Save
  <2>3. tx[w] \in {"ok", "err"} /\ Current(w) \in Notifications
    BY <2>1, CurrentIsNotification DEF ReceiptsInv, TxAligned, RunsAligned
  <2>4. ~Writing(w)'
    BY <1>6 DEF Save, NextMember, WorkerAt, Writing, ReceiptsInv, ReceiptsTypeOK
  <2>5. CASE lostSight' = lostSight \cup {Current(w)} /\ UNCHANGED saved
    <3>1. stray' \subseteq lostSight'
      BY <2>2, <2>5 DEF RecordedInv, ChainAligned
    <3> QED
      BY <2>1, <2>2, <2>4, <2>5, <3>1, RunTurnsAway
  <2>6. CASE saved' = [saved EXCEPT ![Current(w)] = tx[w]] /\ UNCHANGED lostSight
    <3>1. \A v \in Workers : v # w => /\ Writing(v)' <=> Writing(v)
                                      /\ Current(v)' = Current(v) /\ tx'[v] = tx[v]
      BY <2>1 DEF OthersRest, Writing, Current
    <3>2. ChainAligned'
      BY <2>2, <2>4, <2>6, <3>1 DEF RecordedInv, ChainAligned
    <3>3. \A n \in Notifications : saved'[n] = IF n = Current(w) THEN tx[w] ELSE saved[n]
      BY <2>3, <2>6 DEF ReceiptsInv, ReceiptsTypeOK
    <3>4. Current(w) \in chain /\ tx[w] = "err" => Current(w) \in doubled \cup lostSight
      BY <2>1 DEF RecordedInv, ChainAligned
    <3>5. ASSUME NEW n \in chain
          PROVE  \/ saved'[n] = "ok"
                 \/ \E v \in Workers : Writing(v)' /\ tx'[v] = "ok" /\ Current(v)' = n
                 \/ n \in lostSight
                 \/ saved'[n] = "err" /\ n \in doubled
      <4>1. n \in Notifications
        BY DEF ReceiptsInv, ReceiptsTypeOK
      <4>2. CASE n = Current(w)
        BY <2>3, <3>3, <3>4, <4>1, <4>2
      <4>3. CASE n # Current(w)
        BY <3>1, <3>3, <4>1, <4>3 DEF RecordedInv, OnChainRecorded
      <4> QED
        BY <4>2, <4>3
    <3>6. OnChainRecorded'
      BY <2>2, <2>6, <3>5 DEF OnChainRecorded
    <3> QED
      BY <3>2, <3>6 DEF RecordedInv
  <2> QED
    BY <1>6, <2>5, <2>6, Zenon DEF Save
<1>7. ASSUME NEW w \in Workers, TxSettles(w) PROVE RecordedInv'
  <2>1. UNCHANGED <<wpc, todo, stray, saved, lostSight, doubled>> /\ tx[w] = "sent"
    BY <1>7, Zenon DEF TxSettles, deliveryVars, sightVars
  <2>2. wpc[w] = "confirm" /\ Writing(w)
    BY <2>1 DEF ReceiptsInv, TxAligned, Writing
  <2>3. \A v \in Workers : (Writing(v)' <=> Writing(v)) /\ Current(v)' = Current(v)
    BY <2>1 DEF Writing, Current
  <2>4. \A v \in Workers : v # w => tx'[v] = tx[v]
    BY <1>7, StageLeavesOthers DEF OthersRest
  <2>5. CASE chain' = chain \cup {Current(w)} /\ tx' = [tx EXCEPT ![w] = "ok"]
    <3>1. tx'[w] = "ok"
      BY <2>5 DEF ReceiptsInv, ReceiptsTypeOK
    <3>2. ChainAligned'
      BY <2>1, <2>2, <2>3, <2>4, <2>5, <3>1 DEF RecordedInv, ChainAligned
    <3>3. OnChainRecorded'
      BY <2>1, <2>2, <2>3, <2>4, <2>5, <3>1 DEF RecordedInv, OnChainRecorded
    <3> QED
      BY <3>2, <3>3 DEF RecordedInv
  <2>6. CASE UNCHANGED chain
    <3>1. ChainAligned'
      BY <2>1, <2>2, <2>3, <2>4, <2>6 DEF RecordedInv, ChainAligned
    <3>2. OnChainRecorded'
      BY <2>1, <2>3, <2>4, <2>6 DEF RecordedInv, OnChainRecorded
    <3> QED
      BY <3>1, <3>2 DEF RecordedInv
  <2> QED
    BY <1>7, <2>5, <2>6, Zenon DEF TxSettles
<1>8. ASSUME NEW n \in Notifications, StraySettles(n) PROVE RecordedInv'
  <2>1. /\ UNCHANGED <<wpc, todo, tx, saved, lostSight, doubled>>
        /\ stray' \subseteq stray /\ chain' \subseteq chain \cup {n} /\ n \in lostSight
    BY <1>8 DEF StraySettles, deliveryVars, workVars, sightVars, RecordedInv, ChainAligned
  <2>2. \A v \in Workers : (Writing(v)' <=> Writing(v)) /\ Current(v)' = Current(v)
    BY <2>1 DEF Writing, Current
  <2> QED
    BY <2>1, <2>2 DEF RecordedInv, ChainAligned, OnChainRecorded
<1>9. ASSUME NEW w \in Workers, WorkerCrash(w) PROVE RecordedInv'
  <2>1. OthersRest(w)
    BY <1>9, StageLeavesOthers
  <2>2. /\ UNCHANGED <<chain, saved, doubled>> /\ stray' = LeftBehind(w)
        /\ lostSight' = IF tx[w] \in {"sent", "ok"} THEN lostSight \cup {Current(w)} ELSE lostSight
    BY <1>9, Zenon DEF WorkerCrash, deliveryVars
  <2>3. ~Writing(w)'
    BY <1>9 DEF WorkerCrash, BatchOver, Writing, ReceiptsInv, ReceiptsTypeOK
  <2>4. stray' \subseteq lostSight' /\ lostSight \subseteq lostSight'
    BY <2>2 DEF LeftBehind, RecordedInv, ChainAligned
  <2> QED
    BY <2>1, <2>2, <2>3, <2>4, RunTurnsAway
<1>10. ASSUME \/ \E n \in Notifications : Deliver(n)
              \/ \E p \in Scanners : ScanStep(p) \/ ScanCrash(p)
              \/ \E p \in Scanners, x \in Windows : Lock(p, x)
              \/ \E x \in Windows : WindowPasses(x) \/ StallBatch(x)
       PROVE  RecordedInv'
  <2>1. UNCHANGED <<stray, tx, wpc, todo, chain, saved, sightVars>>
    BY <1>10, Zenon DEF Deliver, ScanStep, FindPending, AddBatch, ScanCrash, Lock,
                        WindowPasses, StallBatch, workVars, deliveryVars
  <2> QED
    BY <1>1, <2>1
<1>11. CASE UNCHANGED receiptsVars
  BY <1>1, <1>11 DEF receiptsVars, sightVars
<1> QED
  BY <1>2, <1>3, <1>4, <1>5, <1>6, <1>7, <1>8, <1>9, <1>10, <1>11, Zenon
     DEF ReceiptsNext, WorkerStep

\* The row of a receipt on chain names the transaction that wrote it, for any
\* number of processes that take the batches; but for a transaction its run
\* lost sight of, and for two runs at one receipt.  (send, confirm and save in
\* ReceiptWorker.)
THEOREM OnChainIsRecorded == ReceiptsSpec => []OnChainRecorded
<1>1. ReceiptsInit => RecordedInv
  BY DEF ReceiptsInit, RecordedInv, ChainAligned, OnChainRecorded, Writing
<1>2. ReceiptsInv /\ ReceiptsInv' /\ RecordedInv /\ [ReceiptsNext]_receiptsVars => RecordedInv'
  BY RecordedStep
<1>3. RecordedInv => OnChainRecorded
  BY DEF RecordedInv
<1> QED
  BY <1>1, <1>2, <1>3, ReceiptsInductive, PTL DEF ReceiptsSpec


-----------------------------------------------------------------------------
(* EmailFeedback. *)

Bounces == {"soft", "hard"}

\* A job carries an event of SES; a run has one of its own source in hand, and
\* only a soft bounce is counted.
EventsAligned ==
  /\ \A s \in Slots : /\ evt[s] \notin ByResend
                      /\ bounceJob[s].state # "absent" => evt[s] # NoEvent
  /\ \A x \in Runners :
       /\ rpc[x] = "idle" <=> ev[x] = NoEvent
       /\ rpc[x] # "idle" => (ev[x] \in ByResend <=> x \in Handlers)
       /\ rpc[x] \in {"cutoff", "count"} => KindOf[ev[x]] = "soft"
       /\ rpc[x] = "suppress" => KindOf[ev[x]] # "delivery"

\* Enough soft bounces on record, and no reset among them but one that came
\* while a run was between its cutoff and its count.
SoftReason ==
  \E k, n \in 0..Len(log) :
    /\ Cardinality({i \in (k + 1)..n : log[i].kind = "soft"}) >= SoftLimit
    /\ {i \in (k + 1)..n : log[i].kind # "soft"} \subseteq amid

\* A run that is to suppress has its reason on record.
ReasonOnRecord ==
  \A x \in Runners : rpc[x] = "suppress" =>
    CASE KindOf[ev[x]] = "soft" -> SoftReason
      [] KindOf[ev[x]] = "hard" -> LoggedKind("hard") # {}
      [] KindOf[ev[x]] = "complaint" -> LoggedKind("complaint") # {}

\* The resets after the cutoff of a run that is to count came since it read it.
ResetsAmid ==
  \A x \in Runners : rpc[x] = "count" =>
    /\ cut[x] <= Len(log)
    /\ \A i \in DOMAIN log : i > cut[x] /\ log[i].kind # "soft" => i \in amid

\* The bounces of a mail on record, and the runs that are to record another.
BouncesAccounted ==
  \A m \in Messages :
    Cardinality(Rows(m, Bounces)) + Cardinality(Recording(m)) <= abreast[m]

FeedbackInv == FeedbackTypeOK /\ EventsAligned

\* Where a run goes after its look-ups.  (The early returns of
\* processSesBounce and processResendEvent.)
LEMMA AfterFindCases ==
  ASSUME FeedbackTypeOK, NEW e \in Events
  PROVE  /\ AfterFind(e) \in {"done", "create", "suppress"}
         /\ AfterFind(e) = "create" /\ KindOf[e] \in Bounces =>
              Rows(MessageOf[e], {"soft", "hard", "complaint"}) = {}
         /\ AfterFind(e) = "suppress" =>
              /\ KindOf[e] = "complaint"
              /\ Rows(MessageOf[e], {"complaint"}) # {}
<1>1. KindOf[e] \in Kinds
  BY EventAssumption
<1>2. CASE MessageOf[e] \notin known
  BY <1>2 DEF AfterFind
<1>3. CASE MessageOf[e] \in known /\ KindOf[e] \in {"soft", "hard"}
  <2>1. AfterFind(e) = IF Rows(MessageOf[e], {"soft", "hard", "complaint"}) # {} THEN "done"
                       ELSE "create"
    BY <1>3 DEF AfterFind
  <2> QED
    BY <1>3, <2>1
<1>4. CASE MessageOf[e] \in known /\ KindOf[e] = "complaint"
  <2>1. AfterFind(e) = IF Rows(MessageOf[e], {"complaint"}) # {} THEN "suppress" ELSE "create"
    BY <1>4 DEF AfterFind
  <2> QED
    BY <1>4, <2>1 DEF Bounces
<1>5. CASE MessageOf[e] \in known /\ KindOf[e] = "delivery"
  BY <1>5 DEF AfterFind, Bounces
<1> QED
  BY <1>1, <1>2, <1>3, <1>4, <1>5 DEF Kinds

\* An insert adds one row at the end of the record.
LEMMA LogGrows ==
  ASSUME FeedbackTypeOK, NEW e \in Events,
         log' = Append(log, [kind |-> KindOf[e], msg |-> MessageOf[e]])
  PROVE  /\ log' \in Seq([kind : Kinds, msg : Messages])
         /\ Len(log) \in Nat
         /\ DOMAIN log = 1..Len(log) /\ DOMAIN log' = 1..(Len(log) + 1)
         /\ \A i \in DOMAIN log : log'[i] = log[i]
         /\ log'[Len(log) + 1] = [kind |-> KindOf[e], msg |-> MessageOf[e]]
<1> DEFINE row == [kind |-> KindOf[e], msg |-> MessageOf[e]]
<1>1. row \in [kind : Kinds, msg : Messages]
  BY EventAssumption DEF Messages
<1>2. log \in Seq([kind : Kinds, msg : Messages])
  BY DEF FeedbackTypeOK
<1> HIDE DEF row
<1>3. /\ Append(log, row) \in Seq([kind : Kinds, msg : Messages])
      /\ Len(Append(log, row)) = Len(log) + 1
      /\ \A i \in 1..Len(log) : Append(log, row)[i] = log[i]
      /\ Append(log, row)[Len(log) + 1] = row
  BY <1>1, <1>2, AppendProperties
<1>4. /\ Len(log) \in Nat /\ DOMAIN log = 1..Len(log)
      /\ DOMAIN Append(log, row) = 1..Len(Append(log, row))
  BY <1>2, <1>3, LenProperties
<1> QED
  BY <1>3, <1>4 DEF row

\* A cutoff is 0, or the last row that is no soft bounce.
LEMMA CutoffIsLast ==
  ASSUME FeedbackTypeOK
  PROVE  /\ Cutoff \in Nat
         /\ \A i \in DOMAIN log : i > Cutoff => log[i].kind = "soft"
         /\ Cutoff <= Len(log)
<1>1. PICK n \in Nat : n = Len(log) /\ DOMAIN log = 1..n
  BY LenProperties DEF FeedbackTypeOK
<1>2. CASE Resets = {}
  BY <1>1, <1>2 DEF Cutoff, Resets
<1>3. CASE Resets # {}
  <2> DEFINE R == OpToRel(<, Nat)
             T == {j \in Nat : \E i \in Resets : j = n - i}
  <2>1. T # {} /\ T \subseteq Nat
    <3>1. PICK i \in Resets : TRUE
      BY <1>3
    <3>2. i \in 1..n
      BY <1>1 DEF Resets
    <3>3. n - i \in T
      BY <1>1, <3>2
    <3> QED
      BY <3>3
  <2>2. IsWellFoundedOn(R, Nat)
    BY NatLessThanWellFounded
  <2>3. \A x, y \in Nat : <<y, x>> \in R <=> y < x
    BY DEF OpToRel
  <2> HIDE DEF R, T
  <2>4. \E x \in T : \A y \in T : ~(<<y, x>> \in R)
    BY <2>1, <2>2, WFMin
  <2>5. PICK x \in T : \A y \in T : ~(y < x)
    BY <2>1, <2>3, <2>4
  <2> USE DEF T
  <2>6. PICK i \in Resets : x = n - i
    BY <2>5
  <2>7. \A k \in Resets : k <= i
    <3> TAKE k \in Resets
    <3>1. k \in 1..n /\ i \in 1..n
      BY <1>1 DEF Resets
    <3>2. n - k \in T
      <4>1. n - k \in Nat
        BY <3>1
      <4> QED
        BY <4>1
    <3> QED
      BY <2>5, <2>6, <3>1, <3>2
  <2>8. Cutoff \in Resets /\ \A k \in Resets : k <= Cutoff
    <3> DEFINE last == CHOOSE k \in Resets : \A j \in Resets : j <= k
    <3>1. Cutoff = last
      BY <1>3, Zenon DEF Cutoff
    <3>2. last \in Resets /\ \A j \in Resets : j <= last
      BY <2>7, Zenon
    <3> QED
      BY <3>1, <3>2, Zenon
  <2>9. Cutoff \in 1..n
    BY <1>1, <2>8 DEF Resets
  <2>10. ASSUME NEW k \in DOMAIN log, k > Cutoff
         PROVE  log[k].kind = "soft"
    <3>1. k \in Resets => k <= Cutoff
      BY <2>8
    <3> QED
      BY <1>1, <2>9, <2>10, <3>1 DEF Resets
  <2> QED
    BY <1>1, <2>9, <2>10
<1> QED
  BY <1>2, <1>3

Places == {"idle", "find", "create", "cutoff", "count", "suppress", "done", "thrown"}

\* The event of a run that is under way is one of the events.
LEMMA InHand ==
  ASSUME FeedbackTypeOK, EventsAligned, NEW x \in Runners, rpc[x] # "idle"
  PROVE  /\ ev[x] \in Events /\ KindOf[ev[x]] \in Kinds /\ MessageOf[ev[x]] \in Messages
         /\ x \in Workers => KindOf[ev[x]] \in Kinds /\ ev[x] \notin ByResend
         /\ x \in Handlers => KindOf[ev[x]] \in ResendKinds
<1>1. ev[x] \in Events
  BY DEF FeedbackTypeOK, EventsAligned
<1>2. ev[x] \in ByResend <=> x \in Handlers
  BY DEF EventsAligned
<1> QED
  BY <1>1, <1>2, EventAssumption DEF Messages

\* A run that goes on keeps its event; only soft bounces are counted.
LEMMA RunGoesOn ==
  ASSUME FeedbackTypeOK, EventsAligned, NEW x \in Runners, NEW l \in Places \ {"idle"},
         RunAt(x, l), rpc[x] # "idle", UNCHANGED <<feedVars, ev, slot>>,
         l \in {"cutoff", "count"} => KindOf[ev[x]] = "soft",
         l = "suppress" => KindOf[ev[x]] # "delivery"
  PROVE  rpc' \in [Runners -> Places] /\ EventsAligned'
<1>1. rpc' = [rpc EXCEPT ![x] = l] /\ rpc \in [Runners -> Places]
  BY Zenon DEF RunAt, FeedbackTypeOK, Places
<1>2. rpc' \in [Runners -> Places]
  BY <1>1
<1>3. UNCHANGED <<ev, evt, bounceJob>>
  BY Zenon DEF feedVars
<1>4. \A y \in Runners : rpc'[y] = IF y = x THEN l ELSE rpc[y]
  BY <1>1
<1>5. \A y \in Runners :
        /\ rpc'[y] = "idle" <=> ev[y] = NoEvent
        /\ rpc'[y] # "idle" => (ev[y] \in ByResend <=> y \in Handlers)
        /\ rpc'[y] \in {"cutoff", "count"} => KindOf[ev[y]] = "soft"
        /\ rpc'[y] = "suppress" => KindOf[ev[y]] # "delivery"
  <2> TAKE y \in Runners
  <2>1. CASE y = x
    BY <1>4, <2>1 DEF EventsAligned, Places
  <2>2. CASE y # x
    BY <1>4, <2>2 DEF EventsAligned
  <2> QED
    BY <2>1, <2>2
<1>6. \A s \in Slots : /\ evt'[s] \notin ByResend
                       /\ bounceJob'[s].state # "absent" => evt'[s] # NoEvent
  BY <1>3 DEF EventsAligned
<1>7. \A y \in Runners :
        /\ rpc'[y] = "idle" <=> ev'[y] = NoEvent
        /\ rpc'[y] # "idle" => (ev'[y] \in ByResend <=> y \in Handlers)
        /\ rpc'[y] \in {"cutoff", "count"} => KindOf[ev'[y]] = "soft"
        /\ rpc'[y] = "suppress" => KindOf[ev'[y]] # "delivery"
  BY <1>3, <1>5
<1> QED
  BY <1>2, <1>6, <1>7, Zenon DEF EventsAligned

\* A run that is over has nothing in hand.
LEMMA RunIsOver ==
  ASSUME FeedbackTypeOK, EventsAligned, NEW x \in Runners, GoIdle(x),
         UNCHANGED evt,
         \A s \in Slots : bounceJob'[s].state = "absent" <=> bounceJob[s].state = "absent"
  PROVE  /\ rpc' \in [Runners -> Places] /\ ev' \in [Runners -> Events \cup {NoEvent}]
         /\ slot' \in [Runners -> Slots \cup {NoSlot}] /\ cut' \in [Runners -> Nat]
         /\ EventsAligned'
<1>1. /\ rpc' \in [Runners -> Places] /\ ev' \in [Runners -> Events \cup {NoEvent}]
      /\ slot' \in [Runners -> Slots \cup {NoSlot}] /\ cut' \in [Runners -> Nat]
  BY DEF GoIdle, FeedbackTypeOK, Places
<1>2. \A y \in Runners : /\ rpc'[y] = IF y = x THEN "idle" ELSE rpc[y]
                         /\ ev'[y] = IF y = x THEN NoEvent ELSE ev[y]
  BY DEF GoIdle, FeedbackTypeOK
<1> QED
  BY <1>1, <1>2 DEF EventsAligned

\* A run that begins has an event of its own source in hand.
LEMMA RunBegins ==
  ASSUME FeedbackTypeOK, EventsAligned, NEW x \in Runners, NEW e \in Events,
         NEW s \in Slots \cup {NoSlot}, Begin(x, e, s), e \in ByResend <=> x \in Handlers,
         UNCHANGED evt,
         \A t \in Slots : bounceJob'[t].state = "absent" <=> bounceJob[t].state = "absent"
  PROVE  /\ rpc' \in [Runners -> Places] /\ ev' \in [Runners -> Events \cup {NoEvent}]
         /\ slot' \in [Runners -> Slots \cup {NoSlot}] /\ EventsAligned'
<1>1. /\ rpc' \in [Runners -> Places] /\ ev' \in [Runners -> Events \cup {NoEvent}]
      /\ slot' \in [Runners -> Slots \cup {NoSlot}]
  BY DEF Begin, FeedbackTypeOK, Places
<1>2. \A y \in Runners : /\ rpc'[y] = IF y = x THEN "find" ELSE rpc[y]
                         /\ ev'[y] = IF y = x THEN e ELSE ev[y]
  BY DEF Begin, FeedbackTypeOK
<1> QED
  BY <1>1, <1>2, EventAssumption DEF EventsAligned

\* The steps of a run.
LEMMA FeedbackRunTypeStep ==
  ASSUME FeedbackTypeOK, EventsAligned, NEW x \in Runners, RunStep(x) \/ RunCrash(x)
  PROVE  FeedbackTypeOK' /\ EventsAligned'
<1>1. UNCHANGED faults \/ Fault => faults' \in Nat
  BY FaultsAssumption DEF Fault, FeedbackTypeOK
<1>2. CASE Find(x)
  <2>1. /\ UNCHANGED <<feedVars, ev, slot, cut, log, suppressed, enforced, amid, disowned,
                         mailVars>>
        /\ rpc[x] = "find"
        /\ RunAt(x, AfterFind(ev[x])) \/ RunAt(x, "thrown")
    BY <1>2, Zenon DEF Find
  <2>2. /\ AfterFind(ev[x]) \in {"done", "create", "suppress"}
        /\ AfterFind(ev[x]) = "suppress" => KindOf[ev[x]] = "complaint"
    BY <2>1, InHand, AfterFindCases
  <2>3. rpc' \in [Runners -> Places] /\ EventsAligned'
    BY <2>1, <2>2, RunGoesOn DEF Places
  <2>4. faults' \in Nat
    BY <1>1, <1>2, Zenon DEF Find
  <2>5. abreast' \in [Messages -> Nat]
    <3>1. \A m \in Messages : abreast'[m] \in Nat
      <4> TAKE m \in Messages
      <4>1. abreast'[m] = IF Cardinality(Recording(m)') > abreast[m]
                          THEN Cardinality(Recording(m)') ELSE abreast[m]
        BY <1>2 DEF Find
      <4>2. Cardinality(Recording(m)') \in Nat
        <5>1. Recording(m)' \subseteq Runners
          BY DEF Recording
        <5> QED
          BY <5>1, RunnersAssumption, FS_Subset, FS_CardinalityType
      <4>3. abreast[m] \in Nat
        BY DEF FeedbackTypeOK
      <4> QED
        BY <4>1, <4>2, <4>3, Zenon
    <3>2. abreast' = [m \in Messages |-> abreast'[m]]
      BY <1>2 DEF Find
    <3> QED
      BY <3>1, <3>2
  <2> QED
    BY <2>1, <2>3, <2>4, <2>5, Zenon DEF FeedbackTypeOK, Places, feedVars, mailVars, raceVars
<1>3. CASE Create(x)
  <2>1. /\ UNCHANGED <<feedVars, ev, slot, cut, suppressed, enforced, abreast, mailVars>>
        /\ rpc[x] = "create"
    BY <1>3, Zenon DEF Create
  <2>2. log' \in Seq([kind : Kinds, msg : Messages])
    BY <1>3, <2>1, InHand, LogGrows, Zenon DEF Create, FeedbackTypeOK
  <2> DEFINE l == CASE KindOf[ev[x]] = "soft" -> "cutoff"
                    [] KindOf[ev[x]] \in {"hard", "complaint"} -> "suppress"
                    [] KindOf[ev[x]] = "delivery" -> "done"
  <2>3. RunAt(x, l) \/ RunAt(x, "thrown")
    BY <1>3, Zenon DEF Create
  <2>4. /\ l \in {"cutoff", "suppress", "done"}
        /\ l = "cutoff" => KindOf[ev[x]] = "soft"
        /\ l = "suppress" => KindOf[ev[x]] # "delivery"
    BY <2>1, InHand DEF Kinds
  <2> HIDE DEF l
  <2>5. rpc' \in [Runners -> Places] /\ EventsAligned'
    BY <2>1, <2>3, <2>4, RunGoesOn DEF Places
  <2>6. faults' \in Nat
    BY <1>1, <1>3, Zenon DEF Create
  <2>7. amid' \in SUBSET Nat
    <3>1. Len(log') \in Nat
      BY <2>2, LenProperties
    <3>2. amid' \subseteq amid \cup {Len(log')}
      BY <1>3, Zenon DEF Create
    <3> QED
      BY <3>1, <3>2 DEF FeedbackTypeOK
  <2>8. disowned' \in SUBSET Events
    <3>1. disowned' \subseteq disowned \cup {ev[x]} /\ ev[x] \in Events
      BY <1>3, <2>1, InHand DEF Create
    <3> QED
      BY <3>1 DEF FeedbackTypeOK
  <2> QED
    BY <2>1, <2>2, <2>5, <2>6, <2>7, <2>8, Zenon DEF FeedbackTypeOK, Places, feedVars, mailVars, raceVars
<1>4. CASE ReadCutoff(x)
  <2>1. /\ UNCHANGED <<feedVars, ev, slot, log, suppressed, enforced, raceVars, mailVars>>
        /\ rpc[x] = "cutoff"
        /\ RunAt(x, "count") \/ RunAt(x, "thrown")
        /\ cut' = [cut EXCEPT ![x] = Cutoff] \/ UNCHANGED cut
    BY <1>4, Zenon DEF ReadCutoff
  <2>2. cut' \in [Runners -> Nat]
    BY <2>1, CutoffIsLast DEF FeedbackTypeOK
  <2>3. KindOf[ev[x]] = "soft"
    BY <2>1 DEF EventsAligned
  <2>4. rpc' \in [Runners -> Places] /\ EventsAligned'
    BY <2>1, <2>3, RunGoesOn DEF Places
  <2>5. faults' \in Nat
    BY <1>1, <1>4, Zenon DEF ReadCutoff
  <2> QED
    BY <2>1, <2>2, <2>4, <2>5, Zenon DEF FeedbackTypeOK, Places, feedVars, mailVars, raceVars
<1>5. CASE CountSofts(x)
  <2>1. /\ UNCHANGED <<feedVars, ev, slot, cut, log, suppressed, enforced, raceVars, mailVars>>
        /\ rpc[x] = "count"
        /\ RunAt(x, "suppress") \/ RunAt(x, "done") \/ RunAt(x, "thrown")
    BY <1>5 DEF CountSofts
  <2>2. KindOf[ev[x]] = "soft"
    BY <2>1 DEF EventsAligned
  <2>3. rpc' \in [Runners -> Places] /\ EventsAligned'
    BY <2>1, <2>2, RunGoesOn DEF Places
  <2>4. faults' \in Nat
    BY <1>1, <1>5, Zenon DEF CountSofts
  <2> QED
    BY <2>1, <2>3, <2>4, Zenon DEF FeedbackTypeOK, Places, feedVars, mailVars, raceVars
<1>6. CASE Suppress(x)
  <2>1. /\ UNCHANGED <<feedVars, ev, slot, cut, log, raceVars, mailVars>>
        /\ rpc[x] = "suppress"
        /\ RunAt(x, "done") \/ RunAt(x, "thrown")
        /\ \/ suppressed' = Reason(KindOf[ev[x]]) /\ enforced' = enforced \cup {ev[x]}
           \/ UNCHANGED <<suppressed, enforced>>
    BY <1>6, Zenon DEF Suppress
  <2>2. KindOf[ev[x]] # "delivery" /\ ev[x] \in Events /\ KindOf[ev[x]] \in Kinds
    BY <2>1, InHand DEF EventsAligned
  <2>3. rpc' \in [Runners -> Places] /\ EventsAligned'
    BY <2>1, <2>2, RunGoesOn DEF Places
  <2>4. faults' \in Nat
    BY <1>1, <1>6, Zenon DEF Suppress
  <2>5. /\ suppressed' \in {"no", "soft_bounce", "hard_bounce", "complaint"}
        /\ enforced' \in SUBSET Events
    BY <2>1, <2>2 DEF Reason, Kinds, FeedbackTypeOK
  <2> QED
    BY <2>1, <2>3, <2>4, <2>5, Zenon DEF FeedbackTypeOK, Places, feedVars, mailVars, raceVars
<1>7. CASE Finish(x)
  <2>1. /\ GoIdle(x) /\ UNCHANGED <<known, evt, log, suppressed, enforced, raceVars, mailVars, faults>>
    BY <1>7, Zenon DEF Finish
  <2>2. /\ bounceJob' \in [Slots -> Job]
        /\ \A s \in Slots : bounceJob'[s].state = "absent" <=> bounceJob[s].state = "absent"
    <3>1. CASE UNCHANGED bounceJob
      BY <3>1 DEF FeedbackTypeOK
    <3>2. CASE /\ x \in Workers
               /\ bounceJob' = [bounceJob EXCEPT ![slot[x]] =
                     IF rpc[x] = "done" THEN Acked(@, x) ELSE Rejected(@, x)]
      <4>1. \A s \in Slots : \E j \in Job :
              /\ bounceJob'[s] = j
              /\ j.state = "absent" <=> bounceJob[s].state = "absent"
        <5> TAKE s \in Slots
        <5>1. bounceJob[s] \in Job /\ bounceJob \in [Slots -> Job]
          BY DEF FeedbackTypeOK
        <5>2. \/ bounceJob'[s] = bounceJob[s]
              \/ bounceJob'[s] = Acked(bounceJob[s], x)
              \/ bounceJob'[s] = Rejected(bounceJob[s], x)
          BY <3>2, <5>1
        <5>3. CASE bounceJob'[s] = bounceJob[s]
          BY <5>1, <5>3
        <5>4. CASE bounceJob'[s] = Acked(bounceJob[s], x)
          BY <3>2, <5>1, <5>4, JobsStayJobs
        <5>5. CASE bounceJob'[s] = Rejected(bounceJob[s], x)
          BY <3>2, <5>1, <5>5, JobsStayJobs
        <5> QED
          BY <5>2, <5>3, <5>4, <5>5
      <4>2. DOMAIN bounceJob' = Slots /\ bounceJob' = [s \in Slots |-> bounceJob'[s]]
        BY <3>2 DEF FeedbackTypeOK
      <4> QED
        BY <4>1, <4>2
    <3> QED
      BY <1>7, <3>1, <3>2, Zenon DEF Finish
  <2>3. src' \in [Events -> {"none", "visible", "inflight", "posted", "gone"}]
    BY <1>7 DEF Finish, FeedbackTypeOK
  <2>4. /\ rpc' \in [Runners -> Places] /\ ev' \in [Runners -> Events \cup {NoEvent}]
        /\ slot' \in [Runners -> Slots \cup {NoSlot}] /\ cut' \in [Runners -> Nat]
        /\ EventsAligned'
    BY <2>1, <2>2, RunIsOver
  <2> QED
    BY <2>1, <2>2, <2>3, <2>4, Zenon DEF FeedbackTypeOK, Places, mailVars, raceVars
<1>8. CASE RunCrash(x)
  <2>1. /\ GoIdle(x) /\ Fault
        /\ UNCHANGED <<known, bounceJob, evt, log, suppressed, enforced, raceVars, mailVars>>
    BY <1>8, Zenon DEF RunCrash
  <2>2. src' \in [Events -> {"none", "visible", "inflight", "posted", "gone"}]
    BY <1>8 DEF RunCrash, FeedbackTypeOK
  <2>3. /\ rpc' \in [Runners -> Places] /\ ev' \in [Runners -> Events \cup {NoEvent}]
        /\ slot' \in [Runners -> Slots \cup {NoSlot}] /\ cut' \in [Runners -> Nat]
        /\ EventsAligned'
    BY <2>1, RunIsOver
  <2> QED
    BY <1>1, <2>1, <2>2, <2>3, Zenon DEF FeedbackTypeOK, Places, mailVars, raceVars
<1> QED
  BY <1>2, <1>3, <1>4, <1>5, <1>6, <1>7, <1>8, Zenon DEF RunStep

\* The providers' steps, and the queue's.
LEMMA ProviderTypeStep ==
  ASSUME FeedbackTypeOK, EventsAligned, NEW e \in Events,
         \/ Happens(e) \/ DeleteMessage(e)
         \/ \E s \in Slots : Consume(e, s) \/ HandleSesNotification(e, s)
         \/ \E s \in Handlers : Post(s, e)
  PROVE  FeedbackTypeOK' /\ EventsAligned'
<1>1. CASE Happens(e)
  BY <1>1 DEF Happens, EventsAligned, FeedbackTypeOK, runVars, mailVars, raceVars
<1>2. CASE DeleteMessage(e)
  <2>1. faults' \in Nat
    BY <1>2 DEF DeleteMessage, Fault, FeedbackTypeOK
  <2>2. src' \in [Events -> {"none", "visible", "inflight", "posted", "gone"}]
    BY <1>2 DEF DeleteMessage, FeedbackTypeOK
  <2>3. UNCHANGED <<known, bounceJob, evt, runVars, log, suppressed, enforced, raceVars, mailVars>>
    BY <1>2, Zenon DEF DeleteMessage
  <2> QED
    BY <2>1, <2>2, <2>3, Zenon DEF EventsAligned, FeedbackTypeOK, runVars, mailVars, raceVars
<1>3. ASSUME NEW s \in Slots, NEW next \in {"inflight", "gone"}, Added(e, s, next)
      PROVE  FeedbackTypeOK' /\ EventsAligned'
  <2>1. bounceJob[s] \in Job /\ Landed(bounceJob[s]) \in Job
    BY JobsStayJobsAlone DEF FeedbackTypeOK
  <2>2. bounceJob' \in [Slots -> Job] /\ evt' \in [Slots -> Events \cup {NoEvent}]
    BY <1>3, <2>1 DEF Added, FeedbackTypeOK
  <2>3. src' \in [Events -> {"none", "visible", "inflight", "posted", "gone"}]
    BY <1>3 DEF Added, FeedbackTypeOK
  <2>4. UNCHANGED <<known, runVars, log, suppressed, enforced, raceVars, mailVars, faults>>
    BY <1>3, Zenon DEF Added
  <2>5. \A t \in Slots : /\ evt'[t] = IF t = s THEN e ELSE evt[t]
                         /\ t # s => bounceJob'[t] = bounceJob[t]
    BY <1>3 DEF Added, FeedbackTypeOK
  <2>6. e \notin ByResend /\ e # NoEvent
    BY <1>3, EventAssumption DEF Added
  <2>7. EventsAligned'
    BY <2>4, <2>5, <2>6 DEF EventsAligned, runVars
  <2> QED
    BY <2>2, <2>3, <2>4, <2>7, Zenon DEF FeedbackTypeOK, runVars, mailVars, raceVars
<1>4. ASSUME NEW x \in Handlers, Post(x, e)
      PROVE  FeedbackTypeOK' /\ EventsAligned'
  <2>1. /\ Begin(x, e, NoSlot) /\ UNCHANGED <<known, bounceJob, evt>> /\ e \in ByResend
    BY <1>4, Zenon DEF Post
  <2>2. UNCHANGED <<cut, log, suppressed, enforced, raceVars, mailVars, faults>>
    BY <2>1, Zenon DEF Begin
  <2>3. src' \in [Events -> {"none", "visible", "inflight", "posted", "gone"}]
    BY <1>4 DEF Post, FeedbackTypeOK
  <2>4. /\ rpc' \in [Runners -> Places] /\ ev' \in [Runners -> Events \cup {NoEvent}]
        /\ slot' \in [Runners -> Slots \cup {NoSlot}] /\ EventsAligned'
    BY <2>1, RunBegins DEF Runners
  <2> QED
    BY <2>1, <2>2, <2>3, <2>4, Zenon DEF FeedbackTypeOK, Places, mailVars, raceVars
<1> QED
  BY <1>1, <1>2, <1>3, <1>4 DEF Consume, HandleSesNotification

\* Types, and what runs have in hand, are kept by every step.
LEMMA FeedbackTypeStep ==
  ASSUME FeedbackInv, [FeedbackNext]_feedbackVars
  PROVE  FeedbackInv'
<1> USE DEF FeedbackInv
<1>1. ASSUME NEW m \in Messages, RecordMessageId(m) PROVE FeedbackInv'
  BY <1>1 DEF RecordMessageId, EventsAligned, FeedbackTypeOK, runVars, mailVars, raceVars
<1>2. ASSUME NEW w \in Workers, NEW s \in Slots, Claim(w, s) PROVE FeedbackInv'
  <2>1. /\ Begin(w, evt[s], s) /\ UNCHANGED <<src, known, evt>>
        /\ bounceJob' = [bounceJob EXCEPT ![s] = Claimed(bounceJob[s], w)]
        /\ bounceJob[s].state = "wait"
    BY <1>2, Zenon DEF Claim
  <2>2. UNCHANGED <<cut, log, suppressed, enforced, raceVars, mailVars, faults>>
    BY <2>1, Zenon DEF Begin
  <2>3. bounceJob[s] \in Job /\ bounceJob \in [Slots -> Job]
    BY DEF FeedbackTypeOK
  <2>4. Claimed(bounceJob[s], w) \in Job /\ Claimed(bounceJob[s], w).state = "active"
    BY <2>3, JobsStayJobs
  <2>5. /\ bounceJob' \in [Slots -> Job]
        /\ \A t \in Slots : bounceJob'[t].state = "absent" <=> bounceJob[t].state = "absent"
    BY <2>1, <2>3, <2>4
  <2>6. evt[s] \in Events /\ evt[s] \notin ByResend
    BY <2>1 DEF EventsAligned, FeedbackTypeOK
  <2>7. /\ rpc' \in [Runners -> Places] /\ ev' \in [Runners -> Events \cup {NoEvent}]
        /\ slot' \in [Runners -> Slots \cup {NoSlot}] /\ EventsAligned'
    BY <2>1, <2>5, <2>6, RunBegins, EventAssumption DEF Runners
  <2> QED
    BY <2>1, <2>2, <2>5, <2>7, Zenon DEF FeedbackTypeOK, Places, mailVars, raceVars
<1>3. ASSUME NEW s \in Slots, Stall(s) PROVE FeedbackInv'
  <2>1. bounceJob[s] \in Job /\ bounceJob \in [Slots -> Job]
    BY DEF FeedbackTypeOK
  <2>2. /\ bounceJob' = [bounceJob EXCEPT ![s] = Stalled(bounceJob[s])]
        /\ UNCHANGED <<src, known, evt, runVars, log, suppressed, enforced, raceVars, mailVars, faults>>
        /\ bounceJob[s].state = "active"
    BY <1>3, Zenon DEF Stall
  <2>3. bounceJob' \in [Slots -> Job]
    BY <2>1, <2>2, JobsStayJobsAlone
  <2>4. \A t \in Slots : bounceJob'[t].state # "absent" => bounceJob[t].state # "absent"
    BY <2>1, <2>2
  <2> QED
    BY <2>2, <2>3, <2>4 DEF EventsAligned, FeedbackTypeOK, runVars, mailVars, raceVars
<1>4. CASE MailBegin \/ MailClear \/ MailCheck \/ MailEnd
  <2>1. UNCHANGED <<src, known, bounceJob, evt, rpc, ev, slot, cut, log, enforced, abreast, amid,
                  disowned>>
    BY <1>4, Zenon DEF MailBegin, MailClear, MailCheck, MailEnd, feedVars, runVars, raceVars
  <2>2. /\ suppressed' \in {"no", "soft_bounce", "hard_bounce", "complaint"}
        /\ mpc' \in {"idle", "clear", "check", "sent", "skipped"}
        /\ mails' \in Nat /\ faults' \in Nat
    BY <1>4 DEF MailBegin, MailClear, MailCheck, MailEnd, FeedbackTypeOK, Fault, mailVars
  <2> QED
    BY <2>1, <2>2, Zenon DEF EventsAligned, FeedbackTypeOK
<1>5. CASE UNCHANGED feedbackVars
  BY <1>5, Zenon DEF feedbackVars, EventsAligned, FeedbackTypeOK
<1> QED
  BY <1>1, <1>2, <1>3, <1>4, <1>5, FeedbackRunTypeStep, ProviderTypeStep, Zenon DEF FeedbackNext

\* At the start nothing runs and nothing is on record.
LEMMA FeedbackInitInv ==
  ASSUME FeedbackInit
  PROVE  FeedbackInv
<1>1. PICK S \in Scenes :
        /\ src   = [e \in Events |-> IF e \in S.events THEN "none" ELSE "gone"]
        /\ known = S.known
        /\ mails = S.mails
  BY DEF FeedbackInit
<1>2. known \in SUBSET Messages /\ mails \in Nat
  BY <1>1, EventAssumption
<1>3. NoJob \in Job /\ NoJob.state = "absent"
  BY WorkersAssumption DEF NoJob, Job, JobState
<1>4. log \in Seq([kind : Kinds, msg : Messages])
  <2>1. log = <<>>
    BY Zenon DEF FeedbackInit
  <2> QED
    BY <2>1, EmptySeq
<1>5. src \in [Events -> {"none", "visible", "inflight", "posted", "gone"}]
  BY <1>1
<1>6. EventsAligned
  BY <1>3, EventAssumption DEF FeedbackInit, EventsAligned
<1> QED
  BY <1>2, <1>3, <1>4, <1>5, <1>6 DEF FeedbackInit, FeedbackInv, FeedbackTypeOK

\* Every variable of the bounce handling keeps its type.  (BounceWorker,
\* SqsConsumerService, BounceController and the mails of MailWorker.)
THEOREM FeedbackTypeCorrect == FeedbackSpec => []FeedbackTypeOK
<1>1. FeedbackInit => FeedbackInv
  BY FeedbackInitInv
<1>2. FeedbackInv /\ [FeedbackNext]_feedbackVars => FeedbackInv'
  BY FeedbackTypeStep
<1> QED
  BY <1>1, <1>2, PTL DEF FeedbackSpec, FeedbackInv

\* The runs' reasons, and the suppression's.
JustifiedInv == FeedbackInv /\ ReasonOnRecord /\ ResetsAmid /\ SuppressionJustified

\* What is on record stays: reasons for a suppression are not lost.  (Rows of
\* email_bounces and email_deliveries are only inserted.)
LEMMA RecordKept ==
  ASSUME FeedbackTypeOK, FeedbackTypeOK', amid \subseteq amid',
         \A i \in DOMAIN log : i \in DOMAIN log' /\ log'[i] = log[i]
  PROVE  /\ SoftReason => SoftReason'
         /\ \A k \in Kinds : LoggedKind(k) # {} => LoggedKind(k)' # {}
<1>1. \A k : LoggedKind(k) \subseteq LoggedKind(k)'
  BY DEF LoggedKind
<1>2. PICK n \in Nat : n = Len(log) /\ DOMAIN log = 1..n
  BY LenProperties DEF FeedbackTypeOK
<1>3. PICK o \in Nat : o = Len(log') /\ DOMAIN log' = 1..o
  BY LenProperties DEF FeedbackTypeOK
<1>4. n <= o
  <2>1. CASE n = 0
    BY <2>1
  <2>2. CASE n # 0
    <3>1. n \in DOMAIN log
      BY <1>2, <2>2
    <3>2. n \in 1..o
      BY <1>3, <3>1
    <3> QED
      BY <3>2
  <2> QED
    BY <2>1, <2>2
<1>5. ASSUME SoftReason PROVE SoftReason'
  <2>1. PICK k, m \in 0..n :
          /\ Cardinality({i \in (k + 1)..m : log[i].kind = "soft"}) >= SoftLimit
          /\ {i \in (k + 1)..m : log[i].kind # "soft"} \subseteq amid
    BY <1>2, <1>5 DEF SoftReason
  <2>2. \A i \in (k + 1)..m : log'[i] = log[i]
    BY <1>2
  <2>3. /\ {i \in (k + 1)..m : log'[i].kind = "soft"} = {i \in (k + 1)..m : log[i].kind = "soft"}
        /\ {i \in (k + 1)..m : log'[i].kind # "soft"} = {i \in (k + 1)..m : log[i].kind # "soft"}
    BY <2>2
  <2>4. k \in 0..o /\ m \in 0..o
    BY <1>4
  <2> QED
    BY <1>3, <2>1, <2>3, <2>4 DEF SoftReason
<1> QED
  BY <1>1, <1>5

\* A step that records nothing, suppresses nothing and sends no run to count
\* or to suppress.
LEMMA QuietStep ==
  ASSUME JustifiedInv, FeedbackInv', UNCHANGED <<log, amid>>, suppressed' \in {suppressed, "no"},
         \A y \in Runners :
            /\ rpc'[y] = "suppress" => rpc[y] = "suppress" /\ ev'[y] = ev[y]
            /\ rpc'[y] = "count" => rpc[y] = "count" /\ cut'[y] = cut[y]
  PROVE  JustifiedInv'
<1>1. (SoftReason <=> SoftReason') /\ \A k : LoggedKind(k)' = LoggedKind(k)
  BY DEF SoftReason, LoggedKind
<1>2. ReasonOnRecord'
  BY <1>1 DEF JustifiedInv, ReasonOnRecord
<1>3. ResetsAmid'
  BY DEF JustifiedInv, ResetsAmid
<1>4. SuppressionJustified'
  BY <1>1 DEF JustifiedInv, SuppressionJustified, SoftReason
<1> QED
  BY <1>2, <1>3, <1>4 DEF JustifiedInv

\* A run that goes on leaves the others where they are.
LEMMA OthersStay ==
  ASSUME FeedbackTypeOK, NEW x \in Runners, NEW l, RunAt(x, l)
  PROVE  \A y \in Runners : rpc'[y] = IF y = x THEN l ELSE rpc[y]
BY DEF RunAt, FeedbackTypeOK

\* The look-ups: a complaint that goes on to suppress is on record.
LEMMA FindJustified ==
  ASSUME JustifiedInv, FeedbackInv', NEW x \in Runners, Find(x)
  PROVE  JustifiedInv'
<1> USE DEF JustifiedInv, FeedbackInv
<1>1. /\ UNCHANGED <<feedVars, ev, slot, cut, log, suppressed, enforced, amid, mailVars>>
      /\ rpc[x] = "find" /\ (RunAt(x, AfterFind(ev[x])) \/ RunAt(x, "thrown"))
  BY Zenon DEF Find
<1>2. /\ AfterFind(ev[x]) \in {"done", "create", "suppress"}
      /\ AfterFind(ev[x]) = "suppress" => /\ KindOf[ev[x]] = "complaint"
                                          /\ Rows(MessageOf[ev[x]], {"complaint"}) # {}
  BY <1>1, InHand, AfterFindCases
<1>3. AfterFind(ev[x]) = "suppress" => LoggedKind("complaint") # {}
  BY <1>2 DEF Rows, LoggedKind
<1>4. PICK l \in {"done", "create", "suppress", "thrown"} :
        /\ \A y \in Runners : rpc'[y] = IF y = x THEN l ELSE rpc[y]
        /\ l = "suppress" => /\ KindOf[ev[x]] = "complaint"
                             /\ LoggedKind("complaint") # {}
  BY <1>1, <1>2, <1>3, OthersStay
<1>5. (SoftReason <=> SoftReason') /\ \A k : LoggedKind(k)' = LoggedKind(k)
  BY <1>1 DEF SoftReason, LoggedKind, raceVars
<1>6. ReasonOnRecord'
  BY <1>1, <1>4, <1>5 DEF ReasonOnRecord
<1>7. ResetsAmid'
  BY <1>1, <1>4 DEF ResetsAmid, raceVars
<1>8. SuppressionJustified'
  BY <1>1, <1>5 DEF SuppressionJustified, SoftReason
<1> QED
  BY <1>6, <1>7, <1>8

\* An insert: a reset that comes before a run's count is known to, and the row
\* of a hard bounce or a complaint is the reason to suppress.
LEMMA CreateJustified ==
  ASSUME JustifiedInv, FeedbackInv', NEW x \in Runners, Create(x)
  PROVE  JustifiedInv'
<1> USE DEF JustifiedInv, FeedbackInv
<1>1. /\ UNCHANGED <<feedVars, ev, slot, cut, suppressed, enforced, abreast, mailVars>>
      /\ rpc[x] = "create"
  BY Zenon DEF Create
<1>2. CASE RunAt(x, "thrown") /\ UNCHANGED <<log, amid>>
  <2>1. \A y \in Runners : rpc'[y] = IF y = x THEN "thrown" ELSE rpc[y]
    BY <1>2, OthersStay
  <2> QED
    BY <1>1, <1>2, <2>1, QuietStep
<1>3. CASE /\ log' = Append(log, [kind |-> KindOf[ev[x]], msg |-> MessageOf[ev[x]]])
           /\ RunAt(x, CASE KindOf[ev[x]] = "soft" -> "cutoff"
                         [] KindOf[ev[x]] \in {"hard", "complaint"} -> "suppress"
                         [] KindOf[ev[x]] = "delivery" -> "done")
           /\ amid' = IF KindOf[ev[x]] # "soft" /\ \E y \in Runners : rpc[y] = "count"
                        THEN amid \cup {Len(log')} ELSE amid
  <2>1. ev[x] \in Events /\ KindOf[ev[x]] \in Kinds
    BY <1>1, InHand
  <2>2. PICK n \in Nat :
          /\ Len(log) = n /\ Len(log') = n + 1
          /\ DOMAIN log = 1..n /\ DOMAIN log' = 1..(n + 1)
          /\ \A i \in DOMAIN log : log'[i] = log[i]
          /\ log'[n + 1] = [kind |-> KindOf[ev[x]], msg |-> MessageOf[ev[x]]]
    <3>1. log' = Append(log, [kind |-> KindOf[ev[x]], msg |-> MessageOf[ev[x]]])
      BY <1>3
    <3> QED
      BY <2>1, <3>1, LogGrows
  <2>3. \A i \in DOMAIN log : i \in DOMAIN log' /\ log'[i] = log[i]
    BY <2>2
  <2>4. /\ SoftReason => SoftReason'
        /\ \A k \in Kinds : LoggedKind(k) # {} => LoggedKind(k)' # {}
    <3>1. amid \subseteq amid'
      BY <1>3
    <3> QED
      BY <2>3, <3>1, RecordKept
  <2>5. PICK k \in Kinds : k = KindOf[ev[x]]
    BY <2>1
  <2>6. LoggedKind(k)' # {}
    <3>1. n + 1 \in LoggedKind(k)'
      BY <2>2, <2>5 DEF LoggedKind
    <3> QED
      BY <3>1
  <2> DEFINE l == CASE KindOf[ev[x]] = "soft" -> "cutoff"
                    [] KindOf[ev[x]] \in {"hard", "complaint"} -> "suppress"
                    [] KindOf[ev[x]] = "delivery" -> "done"
  <2>7. l # "count" /\ (l = "suppress" => KindOf[ev[x]] \in {"hard", "complaint"})
    BY <2>1 DEF Kinds
  <2> HIDE DEF l
  <2>8. RunAt(x, l)
    BY <1>3 DEF l
  <2>9. /\ \A y \in Runners : rpc'[y] = IF y = x THEN l ELSE rpc[y]
        /\ l # "count"
        /\ l = "suppress" => KindOf[ev[x]] \in {"hard", "complaint"}
    BY <2>7, <2>8, OthersStay
  <2>10. ReasonOnRecord'
    <3> SUFFICES ASSUME NEW y \in Runners, rpc'[y] = "suppress"
                 PROVE  CASE KindOf[ev[y]] = "soft" -> SoftReason'
                          [] KindOf[ev[y]] = "hard" -> LoggedKind("hard")' # {}
                          [] KindOf[ev[y]] = "complaint" -> LoggedKind("complaint")' # {}
      BY <1>1 DEF ReasonOnRecord
    <3>1. CASE y = x
      <4>1. k \in {"hard", "complaint"} /\ k = KindOf[ev[y]]
        BY <2>9, <2>5, <3>1
      <4>2. CASE k = "hard"
        BY <2>6, <4>1, <4>2
      <4>3. CASE k = "complaint"
        BY <2>6, <4>1, <4>3
      <4> QED
        BY <4>1, <4>2, <4>3
    <3>2. CASE y # x
      <4>1. rpc[y] = "suppress" /\ KindOf[ev[y]] \in Kinds /\ KindOf[ev[y]] # "delivery"
        BY <2>9, <3>2, InHand DEF EventsAligned
      <4>2. CASE KindOf[ev[y]] = "soft"
        BY <2>4, <4>1, <4>2 DEF ReasonOnRecord
      <4>3. CASE KindOf[ev[y]] = "hard"
        BY <2>4, <4>1, <4>3 DEF ReasonOnRecord, Kinds
      <4>4. CASE KindOf[ev[y]] = "complaint"
        BY <2>4, <4>1, <4>4 DEF ReasonOnRecord, Kinds
      <4> QED
        BY <4>1, <4>2, <4>3, <4>4 DEF Kinds
    <3> QED
      BY <3>1, <3>2
  <2>11. ResetsAmid'
    <3> SUFFICES ASSUME NEW y \in Runners, rpc'[y] = "count"
                 PROVE  /\ cut[y] <= Len(log')
                        /\ \A i \in DOMAIN log' : i > cut[y] /\ log'[i].kind # "soft" => i \in amid'
      BY <1>1 DEF ResetsAmid
    <3>1. rpc[y] = "count" /\ y # x
      BY <2>9
    <3>2. /\ cut[y] <= n
          /\ \A i \in DOMAIN log : i > cut[y] /\ log[i].kind # "soft" => i \in amid
      BY <2>2, <3>1 DEF ResetsAmid
    <3>3. cut[y] \in Nat
      BY DEF FeedbackTypeOK
    <3>4. KindOf[ev[x]] # "soft" => n + 1 \in amid'
      BY <1>3, <2>2, <3>1
    <3>5. log'[n + 1].kind = KindOf[ev[x]] /\ amid \subseteq amid'
      BY <1>3, <2>2
    <3>6. \A i \in DOMAIN log' : i \in DOMAIN log \/ i = n + 1
      BY <2>2
    <3>7. cut[y] <= Len(log')
      BY <2>2, <3>2, <3>3
    <3> QED
      BY <2>2, <3>2, <3>4, <3>5, <3>6, <3>7
  <2>12. SuppressionJustified'
    <3>1. suppressed' = suppressed
      BY <1>1
    <3>2. (suppressed = "soft_bounce" => SoftReason)
          /\ (suppressed = "hard_bounce" => LoggedKind("hard") # {})
          /\ (suppressed = "complaint" => LoggedKind("complaint") # {})
      BY DEF SuppressionJustified, SoftReason
    <3> QED
      BY <2>4, <3>1, <3>2 DEF SuppressionJustified, SoftReason, Kinds
  <2> QED
    BY <2>10, <2>11, <2>12
<1> QED
  BY <1>2, <1>3, Zenon DEF Create

\* The cutoff is the last row that is no soft bounce: what follows is.
LEMMA CutoffJustified ==
  ASSUME JustifiedInv, FeedbackInv', NEW x \in Runners, ReadCutoff(x)
  PROVE  JustifiedInv'
<1> USE DEF JustifiedInv, FeedbackInv
<1>1. /\ UNCHANGED <<feedVars, ev, slot, log, suppressed, enforced, raceVars, mailVars>>
      /\ \/ RunAt(x, "count") /\ cut' = [cut EXCEPT ![x] = Cutoff]
         \/ RunAt(x, "thrown") /\ UNCHANGED cut
  BY Zenon DEF ReadCutoff
<1>2. (SoftReason <=> SoftReason') /\ \A k : LoggedKind(k)' = LoggedKind(k)
  BY <1>1 DEF SoftReason, LoggedKind, raceVars
<1>3. PICK l \in {"count", "thrown"} : \A y \in Runners : rpc'[y] = IF y = x THEN l ELSE rpc[y]
  BY <1>1, OthersStay
<1>4. ReasonOnRecord' /\ SuppressionJustified'
  BY <1>1, <1>2, <1>3 DEF ReasonOnRecord, SuppressionJustified, SoftReason
<1>5. \A y \in Runners : rpc'[y] = "count" =>
        cut'[y] = Cutoff \/ (rpc[y] = "count" /\ cut'[y] = cut[y])
  <2> TAKE y \in Runners
  <2>1. CASE y = x
    <3>1. rpc'[x] = "count" => cut' = [cut EXCEPT ![x] = Cutoff]
      BY <1>1, <1>3, OthersStay
    <3> QED
      BY <2>1, <3>1 DEF FeedbackTypeOK
  <2>2. CASE y # x
    BY <1>1, <1>3, <2>2 DEF FeedbackTypeOK
  <2> QED
    BY <2>1, <2>2
<1>6. UNCHANGED <<log, amid>>
  BY <1>1, Zenon DEF raceVars
<1>7. ResetsAmid'
  BY <1>5, <1>6, CutoffIsLast DEF ResetsAmid
<1> QED
  BY <1>4, <1>7

\* A count that reaches the limit is of what follows the cutoff.
LEMMA CountJustified ==
  ASSUME JustifiedInv, FeedbackInv', NEW x \in Runners, CountSofts(x)
  PROVE  JustifiedInv'
<1> USE DEF JustifiedInv, FeedbackInv
<1> DEFINE softs == {i \in DOMAIN log : i > cut[x] /\ log[i].kind = "soft"}
<1>1. /\ UNCHANGED <<feedVars, ev, slot, cut, log, suppressed, enforced, raceVars, mailVars>>
      /\ rpc[x] = "count"
      /\ \/ RunAt(x, IF Cardinality(softs) >= SoftLimit THEN "suppress" ELSE "done")
         \/ RunAt(x, "thrown")
  BY DEF CountSofts
<1>2. ASSUME Cardinality(softs) >= SoftLimit PROVE SoftReason
  <2>1. PICK n \in Nat : n = Len(log) /\ DOMAIN log = 1..n
    BY LenProperties DEF FeedbackTypeOK
  <2>2. PICK k \in Nat : k = cut[x]
    BY DEF FeedbackTypeOK
  <2>3. /\ k <= n
        /\ \A i \in DOMAIN log : i > k /\ log[i].kind # "soft" => i \in amid
    BY <1>1, <2>1, <2>2 DEF ResetsAmid
  <2>4. \A i : i \in (k + 1)..n <=> i \in DOMAIN log /\ i > k
    BY <2>1
  <2>5. softs = {i \in (k + 1)..n : log[i].kind = "soft"}
    BY <2>2, <2>4
  <2>6. {i \in (k + 1)..n : log[i].kind # "soft"} \subseteq amid
    BY <2>3, <2>4
  <2>7. k \in 0..Len(log) /\ n \in 0..Len(log)
    BY <2>1, <2>3
  <2> QED
    BY <1>2, <2>5, <2>6, <2>7 DEF SoftReason
<1> HIDE DEF softs
<1>3. PICK l : /\ \A y \in Runners : rpc'[y] = IF y = x THEN l ELSE rpc[y]
               /\ l # "count" /\ (l = "suppress" => SoftReason)
  BY <1>1, <1>2, OthersStay
<1>4. KindOf[ev[x]] = "soft"
  BY <1>1 DEF EventsAligned
<1>5. (SoftReason <=> SoftReason') /\ \A k : LoggedKind(k)' = LoggedKind(k)
  BY <1>1 DEF SoftReason, LoggedKind, raceVars
<1>6. ReasonOnRecord'
  BY <1>1, <1>3, <1>4, <1>5 DEF ReasonOnRecord
<1>7. ResetsAmid'
  BY <1>1, <1>3 DEF ResetsAmid, raceVars
<1>8. SuppressionJustified'
  BY <1>1, <1>5 DEF SuppressionJustified, SoftReason
<1> QED
  BY <1>6, <1>7, <1>8

\* The upsert writes the reason that the run has on record.
LEMMA SuppressJustified ==
  ASSUME JustifiedInv, FeedbackInv', NEW x \in Runners, Suppress(x)
  PROVE  JustifiedInv'
<1> USE DEF JustifiedInv, FeedbackInv
<1>1. /\ UNCHANGED <<feedVars, ev, slot, cut, log, raceVars, mailVars>>
      /\ rpc[x] = "suppress"
      /\ RunAt(x, "done") \/ RunAt(x, "thrown")
      /\ suppressed' = Reason(KindOf[ev[x]]) \/ UNCHANGED suppressed
  BY Zenon DEF Suppress
<1>2. PICK l \in {"done", "thrown"} : \A y \in Runners : rpc'[y] = IF y = x THEN l ELSE rpc[y]
  BY <1>1, OthersStay
<1>3. (SoftReason <=> SoftReason') /\ \A k : LoggedKind(k)' = LoggedKind(k)
  BY <1>1 DEF SoftReason, LoggedKind, raceVars
<1>4. ReasonOnRecord'
  BY <1>1, <1>2, <1>3 DEF ReasonOnRecord
<1>5. ResetsAmid'
  BY <1>1, <1>2 DEF ResetsAmid, raceVars
<1>6. SuppressionJustified'
  <2>1. CASE UNCHANGED suppressed
    BY <1>3, <2>1 DEF SuppressionJustified, SoftReason
  <2>2. CASE suppressed' = Reason(KindOf[ev[x]])
    <3>1. KindOf[ev[x]] \in {"soft", "hard", "complaint"}
      BY <1>1, InHand DEF EventsAligned, Kinds
    <3>2. CASE KindOf[ev[x]] = "soft"
      <4>1. suppressed' = "soft_bounce" /\ SoftReason
        BY <1>1, <2>2, <3>2 DEF Reason, ReasonOnRecord
      <4> QED
        BY <1>3, <4>1 DEF SuppressionJustified, SoftReason
    <3>3. CASE KindOf[ev[x]] = "hard"
      <4>1. suppressed' = "hard_bounce" /\ LoggedKind("hard") # {}
        BY <1>1, <2>2, <3>3 DEF Reason, ReasonOnRecord
      <4> QED
        BY <1>3, <4>1 DEF SuppressionJustified
    <3>4. CASE KindOf[ev[x]] = "complaint"
      <4>1. suppressed' = "complaint" /\ LoggedKind("complaint") # {}
        BY <1>1, <2>2, <3>4 DEF Reason, ReasonOnRecord
      <4> QED
        BY <1>3, <4>1 DEF SuppressionJustified
    <3> QED
      BY <3>1, <3>2, <3>3, <3>4
  <2> QED
    BY <1>1, <2>1, <2>2
<1> QED
  BY <1>4, <1>5, <1>6

\* Every step keeps the reasons.
LEMMA JustifiedStep ==
  ASSUME JustifiedInv, [FeedbackNext]_feedbackVars
  PROVE  JustifiedInv'
<1>1. FeedbackInv'
  BY FeedbackTypeStep DEF JustifiedInv
<1>2. FeedbackTypeOK
  BY DEF JustifiedInv, FeedbackInv
<1>3. ASSUME NEW e \in Events,
             \/ Happens(e) \/ DeleteMessage(e)
             \/ \E s \in Slots : Consume(e, s) \/ HandleSesNotification(e, s)
      PROVE  JustifiedInv'
  <2>1. UNCHANGED <<runVars, log, amid, suppressed>>
    BY <1>3, Zenon DEF Happens, DeleteMessage, Consume, HandleSesNotification, Added, raceVars
  <2> QED
    BY <1>1, <2>1, QuietStep DEF runVars
<1>4. ASSUME NEW m \in Messages, RecordMessageId(m) PROVE JustifiedInv'
  BY <1>1, <1>4, QuietStep DEF RecordMessageId, runVars, raceVars
<1>5. ASSUME NEW x \in Runners, NEW e, NEW s, Begin(x, e, s) PROVE JustifiedInv'
  <2>1. /\ UNCHANGED <<cut, log, amid, suppressed>>
        /\ \A y \in Runners : rpc'[y] \in {"suppress", "count"} => /\ rpc[y] = rpc'[y]
                                                                   /\ ev'[y] = ev[y]
    BY <1>2, <1>5 DEF Begin, FeedbackTypeOK, raceVars
  <2> QED
    BY <1>1, <2>1, QuietStep
<1>6. ASSUME NEW x \in Runners, GoIdle(x), UNCHANGED <<log, amid, suppressed>> PROVE JustifiedInv'
  <2>1. \A y \in Runners : rpc'[y] \in {"suppress", "count"} =>
          /\ rpc[y] = rpc'[y] /\ ev'[y] = ev[y] /\ cut'[y] = cut[y]
    BY <1>2, <1>6 DEF GoIdle, FeedbackTypeOK
  <2> QED
    BY <1>1, <1>6, <2>1, QuietStep
<1>7. ASSUME NEW s \in Slots, Stall(s) PROVE JustifiedInv'
  BY <1>1, <1>7, QuietStep DEF Stall, runVars, raceVars
<1>8. CASE MailBegin \/ MailClear \/ MailCheck \/ MailEnd
  <2>1. UNCHANGED <<rpc, ev, cut, log, amid>> /\ suppressed' \in {suppressed, "no"}
    BY <1>8 DEF MailBegin, MailClear, MailCheck, MailEnd, runVars, raceVars
  <2> QED
    BY <1>1, <2>1, QuietStep
<1>9. CASE UNCHANGED feedbackVars
  BY <1>1, <1>9, QuietStep DEF feedbackVars
<1>10. ASSUME NEW x \in Runners, RunStep(x) \/ RunCrash(x) PROVE JustifiedInv'
  <2>1. Finish(x) \/ RunCrash(x) => GoIdle(x) /\ UNCHANGED <<log, amid, suppressed>>
    BY Zenon DEF Finish, RunCrash, raceVars
  <2> QED
    BY <1>1, <1>6, <1>10, <2>1, FindJustified, CreateJustified, CutoffJustified,
       CountJustified, SuppressJustified, Zenon DEF RunStep
<1>11. ASSUME NEW w \in Workers, NEW s \in Slots, Claim(w, s) PROVE JustifiedInv'
  BY <1>5, <1>11, Zenon DEF Claim, Runners
<1>12. ASSUME NEW x \in Handlers, NEW e \in Events, Post(x, e) PROVE JustifiedInv'
  BY <1>5, <1>12, Zenon DEF Post, Runners
<1> QED
  BY <1>3, <1>4, <1>7, <1>8, <1>9, <1>10, <1>11, <1>12, Zenon DEF FeedbackNext

\* A wallet is suppressed only for what is on record: a hard bounce, a
\* complaint, or as many soft bounces as the limit with no reset among them, but
\* for one that came while some run was between its cutoff and its count.  For
\* any number of workers and handlers.  (processSesBounce, processResendEvent.)
THEOREM SuppressionsAreJustified == FeedbackSpec => []SuppressionJustified
<1>1. FeedbackInit => JustifiedInv
  <2> SUFFICES ASSUME FeedbackInit PROVE JustifiedInv
    OBVIOUS
  <2>1. FeedbackInv
    BY FeedbackInitInv
  <2>2. ReasonOnRecord /\ ResetsAmid /\ SuppressionJustified
    BY DEF FeedbackInit, ReasonOnRecord, ResetsAmid, SuppressionJustified
  <2> QED
    BY <2>1, <2>2 DEF JustifiedInv
<1>2. JustifiedInv /\ [FeedbackNext]_feedbackVars => JustifiedInv'
  BY JustifiedStep
<1> QED
  BY <1>1, <1>2, PTL DEF FeedbackSpec, JustifiedInv

BoundedInv == FeedbackInv /\ BouncesAccounted

\* The rows of a mail and the runs at it are finitely many.
LEMMA RowsFinite ==
  ASSUME FeedbackTypeOK, NEW m \in Messages
  PROVE  /\ IsFiniteSet(Rows(m, Bounces)) /\ Cardinality(Rows(m, Bounces)) \in Nat
         /\ IsFiniteSet(Recording(m)) /\ Cardinality(Recording(m)) \in Nat
<1>1. PICK n \in Nat : DOMAIN log = 1..n
  BY LenProperties DEF FeedbackTypeOK
<1>2. IsFiniteSet(1..n)
  <2>1. 1 \in Int /\ n \in Int
    OBVIOUS
  <2> QED
    BY <2>1, FS_Interval, Zenon
<1>3. Rows(m, Bounces) \subseteq 1..n /\ Recording(m) \subseteq Runners
  BY <1>1 DEF Rows, Recording
<1>4. IsFiniteSet(Rows(m, Bounces)) /\ IsFiniteSet(Recording(m))
  BY <1>2, <1>3, RunnersAssumption, FS_Subset
<1> QED
  BY <1>4, FS_CardinalityType

\* A step that records nothing and sends no run to record a bounce.
LEMMA NoneMoreRecording ==
  ASSUME BoundedInv, FeedbackTypeOK', UNCHANGED <<log, abreast>>,
         \A y \in Runners : rpc'[y] = "create" => rpc[y] = "create" /\ ev'[y] = ev[y]
  PROVE  BouncesAccounted'
<1> SUFFICES ASSUME NEW m \in Messages
             PROVE  Cardinality(Rows(m, Bounces)') + Cardinality(Recording(m)') <= abreast[m]
  BY DEF BouncesAccounted
<1>1. Rows(m, Bounces)' = Rows(m, Bounces) /\ Recording(m)' \subseteq Recording(m)
  BY DEF Rows, Recording
<1>2. /\ IsFiniteSet(Recording(m)) /\ Cardinality(Rows(m, Bounces)) \in Nat
      /\ abreast[m] \in Nat
  BY RowsFinite DEF BoundedInv, FeedbackInv, FeedbackTypeOK
<1>3. /\ Cardinality(Recording(m)') \in Nat /\ Cardinality(Recording(m)) \in Nat
      /\ Cardinality(Recording(m)') <= Cardinality(Recording(m))
  BY <1>1, <1>2, FS_Subset, FS_CardinalityType
<1>4. Cardinality(Rows(m, Bounces)) + Cardinality(Recording(m)) <= abreast[m]
  BY DEF BoundedInv, BouncesAccounted
<1> QED
  BY <1>1, <1>2, <1>3, <1>4

\* The look-ups send a run to record a bounce only of a mail that has none.
\* (The early returns for an existing bounce.)
LEMMA FindAccounted ==
  ASSUME BoundedInv, FeedbackTypeOK', NEW x \in Runners, Find(x)
  PROVE  BouncesAccounted'
<1> SUFFICES ASSUME NEW m \in Messages
             PROVE  Cardinality(Rows(m, Bounces)') + Cardinality(Recording(m)') <= abreast'[m]
  BY DEF BouncesAccounted
<1> USE DEF BoundedInv, FeedbackInv
<1>1. /\ UNCHANGED <<ev, log>> /\ rpc[x] = "find"
      /\ RunAt(x, AfterFind(ev[x])) \/ RunAt(x, "thrown")
  BY Zenon DEF Find
<1>2. abreast'[m] = IF Cardinality(Recording(m)') > abreast[m]
                    THEN Cardinality(Recording(m)') ELSE abreast[m]
  BY DEF Find
<1>3. /\ Rows(m, Bounces)' = Rows(m, Bounces)
      /\ Cardinality(Rows(m, Bounces)) \in Nat /\ Cardinality(Recording(m)') \in Nat
      /\ IsFiniteSet(Recording(m)) /\ Cardinality(Recording(m)) \in Nat
  <2>1. Recording(m)' \subseteq Runners
    BY DEF Recording
  <2>2. Cardinality(Recording(m)') \in Nat
    BY <2>1, RunnersAssumption, FS_Subset, FS_CardinalityType
  <2> QED
    BY <1>1, <2>2, RowsFinite DEF Rows
<1>4. abreast[m] \in Nat
  BY DEF FeedbackTypeOK
<1>5. Cardinality(Rows(m, Bounces)) + Cardinality(Recording(m)) <= abreast[m]
  BY DEF BouncesAccounted
<1>6. PICK l : /\ l \in {AfterFind(ev[x]), "thrown"}
               /\ \A y \in Runners : rpc'[y] = IF y = x THEN l ELSE rpc[y]
  BY <1>1, OthersStay
<1>7. CASE x \in Recording(m)'
  <2>1. AfterFind(ev[x]) = "create" /\ KindOf[ev[x]] \in Bounces /\ MessageOf[ev[x]] = m
    BY <1>1, <1>6, <1>7 DEF Recording, Bounces
  <2>2. Rows(m, {"soft", "hard", "complaint"}) = {}
    BY <1>1, <2>1, InHand, AfterFindCases
  <2>3. Rows(m, Bounces) = {}
    BY <2>2 DEF Rows, Bounces
  <2>4. Cardinality(Rows(m, Bounces)) = 0
    BY <2>3, FS_EmptySet
  <2> QED
    BY <1>2, <1>3, <1>4, <2>4
<1>8. CASE x \notin Recording(m)'
  <2>1. Recording(m)' \subseteq Recording(m)
    BY <1>1, <1>6, <1>8 DEF Recording
  <2>2. Cardinality(Recording(m)') <= Cardinality(Recording(m))
    BY <1>3, <2>1, FS_Subset
  <2> QED
    BY <1>2, <1>3, <1>4, <1>5, <2>2
<1> QED
  BY <1>7, <1>8

\* An insert makes of a run that is to record a bounce a row.
LEMMA CreateAccounted ==
  ASSUME BoundedInv, FeedbackTypeOK', NEW x \in Runners, Create(x)
  PROVE  BouncesAccounted'
<1> USE DEF BoundedInv, FeedbackInv
<1>1. UNCHANGED <<ev, abreast>> /\ rpc[x] = "create"
  BY Zenon DEF Create
<1>2. ev[x] \in Events /\ KindOf[ev[x]] \in Kinds /\ MessageOf[ev[x]] \in Messages
  BY <1>1, InHand
<1>3. CASE RunAt(x, "thrown") /\ UNCHANGED log
  <2>1. \A y \in Runners : rpc'[y] = "create" => rpc[y] = "create" /\ ev'[y] = ev[y]
    BY <1>1, <1>3, OthersStay
  <2> QED
    BY <1>1, <1>3, <2>1, NoneMoreRecording
<1>4. CASE /\ log' = Append(log, [kind |-> KindOf[ev[x]], msg |-> MessageOf[ev[x]]])
           /\ RunAt(x, CASE KindOf[ev[x]] = "soft" -> "cutoff"
                         [] KindOf[ev[x]] \in {"hard", "complaint"} -> "suppress"
                         [] KindOf[ev[x]] = "delivery" -> "done")
  <2> SUFFICES ASSUME NEW m \in Messages
               PROVE  Cardinality(Rows(m, Bounces)') + Cardinality(Recording(m)') <= abreast[m]
    BY <1>1 DEF BouncesAccounted
  <2>1. PICK n \in Nat :
          /\ DOMAIN log = 1..n /\ DOMAIN log' = 1..(n + 1)
          /\ \A i \in DOMAIN log : log'[i] = log[i]
          /\ log'[n + 1] = [kind |-> KindOf[ev[x]], msg |-> MessageOf[ev[x]]]
    BY <1>2, <1>4, LogGrows
  <2>2. /\ \A i \in DOMAIN log' : i \in DOMAIN log \/ i = n + 1
        /\ n + 1 \in DOMAIN log' /\ n + 1 \notin DOMAIN log
        /\ \A i \in DOMAIN log : i \in DOMAIN log'
    BY <2>1
  <2>3. PICK l : l # "create" /\ \A y \in Runners : rpc'[y] = IF y = x THEN l ELSE rpc[y]
    <3> DEFINE l == CASE KindOf[ev[x]] = "soft" -> "cutoff"
                      [] KindOf[ev[x]] \in {"hard", "complaint"} -> "suppress"
                      [] KindOf[ev[x]] = "delivery" -> "done"
    <3>1. l # "create"
      BY <1>2 DEF Kinds
    <3> HIDE DEF l
    <3>2. RunAt(x, l)
      BY <1>4 DEF l
    <3> QED
      BY <3>1, <3>2, OthersStay
  <2>4. Recording(m)' = Recording(m) \ {x}
    BY <1>1, <2>3 DEF Recording
  <2>5. /\ IsFiniteSet(Rows(m, Bounces)) /\ Cardinality(Rows(m, Bounces)) \in Nat
        /\ IsFiniteSet(Recording(m)) /\ Cardinality(Recording(m)) \in Nat
        /\ abreast[m] \in Nat
        /\ Cardinality(Rows(m, Bounces)) + Cardinality(Recording(m)) <= abreast[m]
    BY RowsFinite DEF BouncesAccounted, FeedbackTypeOK
  <2>6. CASE x \in Recording(m)
    <3>1. KindOf[ev[x]] \in Bounces /\ MessageOf[ev[x]] = m
      BY <2>6 DEF Recording, Bounces
    <3>2. Rows(m, Bounces)' = Rows(m, Bounces) \cup {n + 1}
      BY <2>1, <2>2, <3>1 DEF Rows
    <3>3. n + 1 \notin Rows(m, Bounces)
      BY <2>2 DEF Rows
    <3>4. Cardinality(Rows(m, Bounces)') = Cardinality(Rows(m, Bounces)) + 1
      BY <2>5, <3>2, <3>3, FS_AddElement
    <3>5. Cardinality(Recording(m)') = Cardinality(Recording(m)) - 1
      BY <2>4, <2>5, <2>6, FS_RemoveElement
    <3> QED
      BY <2>5, <3>4, <3>5
  <2>7. CASE x \notin Recording(m)
    <3>1. ~(KindOf[ev[x]] \in Bounces /\ MessageOf[ev[x]] = m)
      BY <1>1, <2>7 DEF Recording, Bounces
    <3>2. Rows(m, Bounces)' = Rows(m, Bounces)
      BY <2>1, <2>2, <3>1 DEF Rows
    <3>3. Recording(m)' = Recording(m)
      BY <2>4, <2>7
    <3> QED
      BY <2>5, <3>2, <3>3
  <2> QED
    BY <2>6, <2>7
<1> QED
  BY <1>3, <1>4, Zenon DEF Create

\* Every step keeps the account.
LEMMA AccountedStep ==
  ASSUME BoundedInv, [FeedbackNext]_feedbackVars
  PROVE  BoundedInv'
<1>1. FeedbackInv'
  BY FeedbackTypeStep DEF BoundedInv
<1>2. FeedbackTypeOK /\ FeedbackTypeOK'
  BY <1>1 DEF BoundedInv, FeedbackInv
<1>3. ASSUME UNCHANGED <<log, abreast, rpc, ev>> PROVE BouncesAccounted'
  BY <1>2, <1>3, NoneMoreRecording
<1>4. ASSUME NEW e \in Events,
             \/ Happens(e) \/ DeleteMessage(e)
             \/ \E s \in Slots : Consume(e, s) \/ HandleSesNotification(e, s)
      PROVE  BouncesAccounted'
  BY <1>3, <1>4, Zenon DEF Happens, DeleteMessage, Consume, HandleSesNotification, Added,
                           runVars, raceVars
<1>5. ASSUME NEW x \in Runners, NEW e, NEW s, Begin(x, e, s), UNCHANGED raceVars
      PROVE  BouncesAccounted'
  <2>1. UNCHANGED <<log, abreast>>
    BY <1>5, Zenon DEF Begin, raceVars
  <2>2. \A y \in Runners : rpc'[y] = "create" => rpc[y] = "create" /\ ev'[y] = ev[y]
    BY <1>2, <1>5 DEF Begin, FeedbackTypeOK
  <2> QED
    BY <1>2, <2>1, <2>2, NoneMoreRecording
<1>6. ASSUME NEW w \in Workers, NEW s \in Slots, Claim(w, s) PROVE BouncesAccounted'
  BY <1>5, <1>6, Zenon DEF Claim, Begin, Runners
<1>7. ASSUME NEW x \in Handlers, NEW e \in Events, Post(x, e) PROVE BouncesAccounted'
  BY <1>5, <1>7, Zenon DEF Post, Begin, Runners
<1>8. ASSUME NEW x \in Runners, Finish(x) \/ RunCrash(x) PROVE BouncesAccounted'
  <2>1. GoIdle(x) /\ UNCHANGED <<log, abreast>>
    BY <1>8, Zenon DEF Finish, RunCrash, raceVars
  <2>2. \A y \in Runners : rpc'[y] = "create" => rpc[y] = "create" /\ ev'[y] = ev[y]
    BY <1>2, <2>1 DEF GoIdle, FeedbackTypeOK
  <2> QED
    BY <1>2, <2>1, <2>2, NoneMoreRecording
<1>9. ASSUME NEW x \in Runners, ReadCutoff(x) \/ CountSofts(x) \/ Suppress(x)
      PROVE  BouncesAccounted'
  <2>1. /\ UNCHANGED <<ev, log, abreast>>
        /\ RunAt(x, "count") \/ RunAt(x, "suppress") \/ RunAt(x, "done") \/ RunAt(x, "thrown")
    BY <1>9 DEF ReadCutoff, CountSofts, Suppress, raceVars
  <2>2. \A y \in Runners : rpc'[y] = "create" => rpc[y] = "create" /\ ev'[y] = ev[y]
    BY <1>2, <2>1, OthersStay
  <2> QED
    BY <1>2, <2>1, <2>2, NoneMoreRecording
<1>10. ASSUME NEW m \in Messages, RecordMessageId(m) PROVE BouncesAccounted'
  <2>1. UNCHANGED <<log, abreast, rpc, ev>>
    BY <1>10 DEF RecordMessageId, runVars, raceVars
  <2> QED
    BY <1>3, <2>1, Zenon
<1>11. ASSUME NEW s \in Slots, Stall(s) PROVE BouncesAccounted'
  <2>1. UNCHANGED <<log, abreast, rpc, ev>>
    BY <1>11 DEF Stall, runVars, raceVars
  <2> QED
    BY <1>3, <2>1, Zenon
<1>12. ASSUME MailBegin \/ MailClear \/ MailCheck \/ MailEnd PROVE BouncesAccounted'
  <2>1. UNCHANGED <<log, abreast, rpc, ev>>
    BY <1>12 DEF MailBegin, MailClear, MailCheck, MailEnd, runVars, raceVars
  <2> QED
    BY <1>3, <2>1, Zenon
<1>13. ASSUME UNCHANGED feedbackVars PROVE BouncesAccounted'
  BY <1>3, <1>13, Zenon DEF feedbackVars
<1>14. BouncesAccounted'
  BY <1>2, <1>4, <1>6, <1>7, <1>8, <1>9, <1>10, <1>11, <1>12, <1>13, FindAccounted,
     CreateAccounted, Zenon DEF FeedbackNext, RunStep
<1> QED
  BY <1>1, <1>14 DEF BoundedInv

\* A mail has no more bounces on record than runs that were between the look-up
\* and the insert of one at once, for any number of workers and handlers and
\* however often an event is delivered, posted or retried.  (The look-ups by
\* sesMessageId in BounceService.)
THEOREM BouncesAreBounded == FeedbackSpec => []BouncesBounded
<1>1. FeedbackInit => BoundedInv
  <2> SUFFICES ASSUME FeedbackInit PROVE BoundedInv
    OBVIOUS
  <2>1. FeedbackInv
    BY FeedbackInitInv
  <2>2. ASSUME NEW m \in Messages
        PROVE  Cardinality(Rows(m, Bounces)) + Cardinality(Recording(m)) <= abreast[m]
    <3>1. Rows(m, Bounces) = {} /\ Recording(m) = {} /\ abreast[m] = 0
      BY <2>2 DEF FeedbackInit, Rows, Recording
    <3> QED
      BY <3>1, FS_EmptySet
  <2> QED
    BY <2>1, <2>2 DEF BoundedInv, BouncesAccounted
<1>2. BoundedInv /\ [FeedbackNext]_feedbackVars => BoundedInv'
  BY AccountedStep
<1>3. BoundedInv => BouncesBounded
  <2> SUFFICES ASSUME BoundedInv, NEW m \in Messages
               PROVE  Cardinality(Rows(m, Bounces)) <= abreast[m]
    BY DEF BouncesBounded, Bounces
  <2>1. /\ Cardinality(Rows(m, Bounces)) \in Nat /\ Cardinality(Recording(m)) \in Nat
        /\ abreast[m] \in Nat
    BY RowsFinite DEF BoundedInv, FeedbackInv, FeedbackTypeOK
  <2>2. Cardinality(Rows(m, Bounces)) + Cardinality(Recording(m)) <= abreast[m]
    BY DEF BoundedInv, BouncesAccounted
  <2> QED
    BY <2>1, <2>2
<1> QED
  BY <1>1, <1>2, <1>3, PTL DEF FeedbackSpec

-----------------------------------------------------------------------------
(* Sandbox. *)

CallPlaces == {"idle", "lookup", "template", "scan", "wallet", "contact", "create",
               "enqueue", "receipt", "incr", "expire"}
Replies    == {"queued", "failed", "blocked", "opted_out", "duplicate", "refused", "error", None}

\* Where a call is past the check: its message is not queued yet, is not
\* counted yet, or is.
Unqueued  == {"lookup", "template", "scan", "wallet", "contact", "create", "enqueue"}
Uncounted == Unqueued \cup {"receipt", "incr"}
Accepted  == Uncounted \cup {"expire"}

CallsAt(p, L) == {r \in Requests : path[r] = p /\ pc[r] \in L}
CallCount(p, L) == Cardinality(CallsAt(p, L))

FiniteCalls == \A p \in Paths : IsFiniteSet(CallsAt(p, Accepted))

SandboxInv == SandboxTypeOK /\ FiniteCalls

\* What is queued today is counted, lost or still to be counted; the calls past
\* the check are no more than their peak; and either the calls to come fit into
\* what the limit and the peak leave over, or (after a midnight that the counter
\* survived) there are no more of them than the peak.
Accounted(p) ==
  /\ queuedToday[p] + CallCount(p, Unqueued) <= count[p] + lost[p] + CallCount(p, Uncounted)
  /\ CallCount(p, Accepted) <= peak[p]
  /\ \/ count[p] + CallCount(p, Uncounted) + 1 <= Limit + peak[p]
     \/ queuedToday[p] + CallCount(p, Unqueued) <= peak[p] + lost[p]
  /\ Limit = 0 => CallCount(p, Accepted) = 0 /\ queuedToday[p] = 0

AccountInv == SandboxInv /\ \A p \in Paths : Accounted(p)

\* How a call's step counts.
Moves(r, b) == pc' = [pc EXCEPT ![r] = b] /\ UNCHANGED path

\* The calls within are those past the check.
LEMMA WithinIsAccepted ==
  ASSUME SandboxTypeOK, NEW p \in Paths
  PROVE  Within(p) = CallsAt(p, Accepted)
BY DEF SandboxTypeOK, Within, CallsAt, Accepted, Uncounted, Unqueued

\* Calls are counted at fewer places by fewer.
LEMMA CallCounts ==
  ASSUME SandboxInv, NEW p \in Paths
  PROVE  /\ IsFiniteSet(CallsAt(p, Unqueued)) /\ IsFiniteSet(CallsAt(p, Uncounted))
         /\ CallCount(p, Unqueued) \in Nat /\ CallCount(p, Uncounted) \in Nat
         /\ CallCount(p, Accepted) \in Nat
         /\ CallCount(p, Unqueued) <= CallCount(p, Uncounted)
         /\ CallCount(p, Uncounted) <= CallCount(p, Accepted)
<1>1. IsFiniteSet(CallsAt(p, Accepted))
  BY DEF SandboxInv, FiniteCalls
<1>2. /\ CallsAt(p, Unqueued) \subseteq CallsAt(p, Uncounted)
      /\ CallsAt(p, Uncounted) \subseteq CallsAt(p, Accepted)
  BY DEF CallsAt, Accepted, Uncounted
<1>3. /\ IsFiniteSet(CallsAt(p, Uncounted))
      /\ Cardinality(CallsAt(p, Uncounted)) <= Cardinality(CallsAt(p, Accepted))
  BY <1>1, <1>2, FS_Subset
<1>4. /\ IsFiniteSet(CallsAt(p, Unqueued))
      /\ Cardinality(CallsAt(p, Unqueued)) <= Cardinality(CallsAt(p, Uncounted))
  BY <1>2, <1>3, FS_Subset
<1> QED
  BY <1>1, <1>3, <1>4, FS_CardinalityType DEF CallCount

\* The calls past the check are finitely many after a step, too.
LEMMA CallCountsNext ==
  ASSUME SandboxInv', NEW p \in Paths
  PROVE  CallCount(p, Accepted)' \in Nat
<1>1. IsFiniteSet(CallsAt(p, Accepted)')
  BY DEF SandboxInv, FiniteCalls
<1> QED
  BY <1>1, FS_CardinalityType DEF CallCount

\* A call that moves enters a group of places, leaves it, or neither.
LEMMA CallMoves ==
  ASSUME SandboxTypeOK, NEW r \in Requests, NEW b, Moves(r, b), NEW L, NEW p \in Paths,
         IsFiniteSet(CallsAt(p, L))
  PROVE  /\ IsFiniteSet(CallsAt(p, L)')
         /\ p # path[r] => CallCount(p, L)' = CallCount(p, L)
         /\ (b \in L <=> pc[r] \in L) => CallCount(p, L)' = CallCount(p, L)
         /\ p = path[r] /\ b \in L /\ pc[r] \notin L => CallCount(p, L)' = CallCount(p, L) + 1
         /\ p = path[r] /\ b \notin L /\ pc[r] \in L => CallCount(p, L)' = CallCount(p, L) - 1
<1>1. \A x \in Requests : /\ pc'[x] = IF x = r THEN b ELSE pc[x]
                          /\ path'[x] = path[x]
  BY DEF Moves, SandboxTypeOK
<1>2. CASE p # path[r] \/ (b \in L <=> pc[r] \in L)
  <2>1. CallsAt(p, L)' = CallsAt(p, L)
    BY <1>1, <1>2 DEF CallsAt
  <2> QED
    BY <1>2, <2>1 DEF CallCount
<1>3. CASE p = path[r] /\ b \in L /\ pc[r] \notin L
  <2>1. CallsAt(p, L)' = CallsAt(p, L) \cup {r} /\ r \notin CallsAt(p, L)
    BY <1>1, <1>3 DEF CallsAt
  <2> QED
    BY <1>3, <2>1, FS_AddElement DEF CallCount
<1>4. CASE p = path[r] /\ b \notin L /\ pc[r] \in L
  <2>1. CallsAt(p, L)' = CallsAt(p, L) \ {r} /\ r \in CallsAt(p, L)
    BY <1>1, <1>4 DEF CallsAt
  <2> QED
    BY <1>4, <2>1, FS_RemoveElement DEF CallCount
<1> QED
  BY <1>2, <1>3, <1>4

\* Steps without a call leave the calls where they are.
LEMMA CallsStay ==
  ASSUME FiniteCalls, UNCHANGED <<pc, path>>
  PROVE  FiniteCalls' /\ \A p, L : CallCount(p, L)' = CallCount(p, L)
BY DEF FiniteCalls, CallsAt, CallCount

CallsTyped == /\ pc \in [Requests -> CallPlaces] /\ path \in [Requests -> Paths]
              /\ idem \in [Requests -> Keys \cup {None}] /\ answer \in [Requests -> Replies]

RowsTyped == /\ note \in [Requests -> Statuses \cup {None}]
             /\ holder \in [Keys -> Requests \cup {None}] /\ recent \subseteq Keys

\* A call that goes on or answers keeps its types and counts as one move.
LEMMA CallGoesOn ==
  ASSUME SandboxInv, NEW r \in Requests
  PROVE  /\ CallsTyped /\ RowsTyped
         /\ \A s \in CallPlaces : Goes(r, s) => CallsTyped' /\ FiniteCalls' /\ Moves(r, s)
         /\ \A a \in Replies : Answers(r, a) => CallsTyped' /\ FiniteCalls' /\ Moves(r, "idle")
         /\ \A s \in CallPlaces : Moves(r, s) => FiniteCalls'
<1> USE DEF SandboxInv
<1>1. CallsTyped /\ RowsTyped
  BY DEF SandboxTypeOK, CallsTyped, CallPlaces, Replies, RowsTyped
<1>2. ASSUME NEW s \in CallPlaces, Moves(r, s) PROVE FiniteCalls'
  BY <1>2, CallMoves DEF FiniteCalls
<1>3. ASSUME NEW s \in CallPlaces, Goes(r, s) PROVE CallsTyped' /\ Moves(r, s)
  BY <1>1, <1>3 DEF Goes, CallsTyped, Moves
<1>4. ASSUME NEW a \in Replies, Answers(r, a) PROVE CallsTyped' /\ Moves(r, "idle")
  BY <1>1, <1>4 DEF Answers, CallsTyped, Moves, CallPlaces
<1>5. "idle" \in CallPlaces
  BY DEF CallPlaces
<1> QED
  BY <1>1, <1>2, <1>3, <1>4, <1>5

\* A row is written under its key, or the call fails.
LEMMA RowWrites ==
  ASSUME SandboxInv, NEW r \in Requests
  PROVE  /\ \A s \in Statuses : Insert(r, s) => RowsTyped'
         /\ Fails(r) => RowsTyped' /\ CallsTyped' /\ FiniteCalls' /\ Moves(r, "idle")
         /\ Fault => faults' \in 0..MaxFaults
         /\ UNCHANGED faults => faults' \in 0..MaxFaults
         /\ \A s \in {"blocked", "opted_out", "failed"} : TurnAway(r, s) =>
              /\ RowsTyped' /\ CallsTyped' /\ FiniteCalls' /\ Moves(r, "idle")
              /\ faults' \in 0..MaxFaults
<1>1. CallsTyped /\ RowsTyped
  BY CallGoesOn
<1>2. ASSUME NEW s \in Statuses, Insert(r, s) PROVE RowsTyped'
  <2>1. note' \in [Requests -> Statuses \cup {None}]
    BY <1>1, <1>2 DEF Insert, RowsTyped
  <2>2. CASE idem[r] = None
    <3>1. UNCHANGED <<holder, recent>>
      BY <1>2, <2>2, Zenon DEF Insert
    <3> QED
      BY <1>1, <2>1, <3>1, Zenon DEF RowsTyped
  <2>3. CASE idem[r] # None
    <3>1. holder' = [holder EXCEPT ![idem[r]] = r] /\ recent' = recent \cup {idem[r]}
      BY <1>2, <2>3, Zenon DEF Insert
    <3>2. idem[r] \in Keys
      BY <1>1, <2>3 DEF CallsTyped
    <3> QED
      BY <1>1, <2>1, <3>1, <3>2 DEF RowsTyped
  <2> QED
    BY <2>2, <2>3
<1>3. Fails(r) => RowsTyped' /\ CallsTyped' /\ FiniteCalls' /\ Moves(r, "idle")
  <2> HAVE Fails(r)
  <2>1. Answers(r, "error") /\ UNCHANGED <<note, holder, recent>>
    BY Zenon DEF Fails, rowVars
  <2>2. "error" \in Replies
    BY DEF Replies
  <2>3. RowsTyped'
    BY <1>1, <2>1, Zenon DEF RowsTyped
  <2> QED
    BY <2>1, <2>2, <2>3, CallGoesOn
<1>4. (Fault \/ UNCHANGED faults) => faults' \in 0..MaxFaults
  BY FaultsAssumption DEF Fault, SandboxInv, SandboxTypeOK
<1>5. ASSUME NEW s \in {"blocked", "opted_out", "failed"}, TurnAway(r, s)
      PROVE  /\ RowsTyped' /\ CallsTyped' /\ FiniteCalls' /\ Moves(r, "idle")
             /\ faults' \in 0..MaxFaults
  <2>1. s \in Statuses /\ s \in Replies
    BY DEF Statuses, Replies
  <2>2. CASE Insert(r, s) /\ Answers(r, s) /\ UNCHANGED faults
    BY <1>2, <1>4, <2>1, <2>2, CallGoesOn
  <2>3. CASE Fails(r) /\ (UNCHANGED faults \/ Fault)
    BY <1>3, <1>4, <2>3
  <2> QED
    BY <1>5, <2>2, <2>3, Zenon DEF TurnAway
<1> QED
  BY <1>2, <1>3, <1>4, <1>5

\* A move that counts nothing: past no check, into no queue, up no counter.
QuietMove(r) ==
  /\ UNCHANGED <<count, queuedToday, lost, peak>>
  /\ \E b \in CallPlaces :
       /\ Moves(r, b)
       /\ \/ b \in Unqueued /\ pc[r] \in Unqueued
          \/ b = "idle" /\ pc[r] \notin {"receipt", "incr"}
          \/ b = "incr" /\ pc[r] = "receipt"

\* The gates of a call, and the row it leaves.
LEMMA GatesStep ==
  ASSUME SandboxInv, NEW r \in Requests,
         \/ LookUpKey(r) \/ TemplateGate(r) \/ ScanGate(r) \/ WalletGate(r)
         \/ TestContacts(r) \/ PlaygroundContacts(r) \/ CreateTestRow(r)
  PROVE  SandboxInv' /\ QuietMove(r)
<1> DEFINE Kept == /\ CallsTyped' /\ RowsTyped' /\ FiniteCalls' /\ faults' \in 0..MaxFaults
                   /\ \E b \in Unqueued \cup {"idle"} : Moves(r, b)
<1>1. ASSUME pc[r] \in Unqueued, Kept,
             UNCHANGED <<alive, counterVars, queue, receipts, events, history>>
      PROVE  SandboxInv' /\ QuietMove(r)
  <2>1. QuietMove(r)
    BY <1>1 DEF QuietMove, counterVars, history, CallPlaces, Unqueued
  <2>2. SandboxTypeOK'
    BY <1>1, Zenon DEF SandboxInv, SandboxTypeOK, CallsTyped, RowsTyped, CallPlaces, Replies,
       counterVars, history
  <2> QED
    BY <1>1, <2>1, <2>2 DEF SandboxInv
<1>2. ASSUME NEW s \in Unqueued, Goes(r, s), UNCHANGED <<note, holder, recent, faults>>
      PROVE  Kept
  <2>1. s \in CallPlaces
    BY DEF Unqueued, CallPlaces
  <2>2. RowsTyped'
    BY <1>2, CallGoesOn, Zenon DEF RowsTyped
  <2>3. faults' \in 0..MaxFaults
    BY <1>2, RowWrites
  <2>4. CallsTyped' /\ FiniteCalls' /\ Moves(r, s)
    BY <1>2, <2>1, CallGoesOn
  <2> QED
    BY <2>2, <2>3, <2>4
<1>3. ASSUME NEW s \in {"blocked", "opted_out", "failed"}, TurnAway(r, s)
      PROVE  Kept
  BY <1>3, RowWrites
<1>4. ASSUME NEW a \in Replies, Answers(r, a), UNCHANGED <<note, holder, recent, faults>>
      PROVE  Kept
  <2>1. RowsTyped'
    BY <1>4, CallGoesOn, Zenon DEF RowsTyped
  <2>2. faults' \in 0..MaxFaults
    BY <1>4, RowWrites
  <2>3. CallsTyped' /\ FiniteCalls' /\ Moves(r, "idle")
    BY <1>4, CallGoesOn
  <2> QED
    BY <2>1, <2>2, <2>3
<1>5. Fails(r) /\ (UNCHANGED faults \/ Fault) => Kept
  BY RowWrites
<1> HIDE DEF Kept
<1>6. /\ "duplicate" \in Replies /\ "error" \in Replies /\ "queued" \in Statuses
      /\ {"template", "scan", "wallet", "contact", "create", "enqueue"} \subseteq Unqueued
  BY DEF Replies, Statuses, Unqueued
<1>7. CASE LookUpKey(r)
  <2>1. /\ Answers(r, "duplicate") \/ Goes(r, "template")
        /\ UNCHANGED <<note, holder, recent, faults>>
        /\ UNCHANGED <<alive, counterVars, queue, receipts, events, history>>
        /\ pc[r] = "lookup"
    BY <1>7, Zenon DEF LookUpKey, rowVars
  <2>2. Kept
    BY <1>2, <1>4, <1>6, <2>1
  <2> QED
    BY <1>1, <2>1, <2>2 DEF Unqueued
<1>8. CASE TemplateGate(r) \/ ScanGate(r)
  <2>1. /\ \/ Goes(r, "scan") /\ UNCHANGED <<note, holder, recent, faults>>
           \/ Goes(r, "wallet") /\ UNCHANGED <<note, holder, recent, faults>>
           \/ TurnAway(r, "blocked")
        /\ UNCHANGED <<alive, counterVars, queue, receipts, events, history>>
        /\ pc[r] \in Unqueued
    BY <1>8 DEF TemplateGate, ScanGate, rowVars, Unqueued
  <2>2. Kept
    BY <1>2, <1>3, <1>6, <2>1
  <2> QED
    BY <1>1, <2>1, <2>2
<1>9. CASE WalletGate(r)
  <2>1. /\ \/ Goes(r, "contact") /\ UNCHANGED <<note, holder, recent, faults>>
           \/ Goes(r, "create") /\ UNCHANGED <<note, holder, recent, faults>>
           \/ TurnAway(r, "opted_out")
        /\ UNCHANGED <<alive, counterVars, queue, receipts, events, history>>
        /\ pc[r] = "wallet"
    BY <1>9, Zenon DEF WalletGate, rowVars
  <2>2. Kept
    BY <1>2, <1>3, <1>6, <2>1
  <2> QED
    BY <1>1, <2>1, <2>2 DEF Unqueued
<1>10. CASE TestContacts(r) \/ PlaygroundContacts(r)
  <2>1. /\ \/ Goes(r, "create") /\ UNCHANGED <<note, holder, recent, faults>>
           \/ Answers(r, "error") /\ UNCHANGED <<note, holder, recent, faults>>
           \/ TurnAway(r, "failed")
        /\ UNCHANGED <<alive, counterVars, queue, receipts, events, history>>
        /\ pc[r] = "contact"
    BY <1>10, Zenon DEF TestContacts, PlaygroundContacts, rowVars
  <2>2. Kept
    BY <1>2, <1>3, <1>4, <1>6, <2>1
  <2> QED
    BY <1>1, <2>1, <2>2 DEF Unqueued
<1>11. CASE CreateTestRow(r)
  <2>1. /\ \/ Insert(r, "queued") /\ Goes(r, "enqueue") /\ UNCHANGED faults
           \/ Fails(r) /\ (UNCHANGED faults \/ Fault)
        /\ UNCHANGED <<alive, counterVars, queue, receipts, events, history>>
        /\ pc[r] = "create"
    BY <1>11, Zenon DEF CreateTestRow
  <2>2. CASE Insert(r, "queued") /\ Goes(r, "enqueue") /\ UNCHANGED faults
    <3>1. RowsTyped' /\ faults' \in 0..MaxFaults
      BY <1>6, <2>2, RowWrites
    <3>2. CallsTyped' /\ FiniteCalls' /\ Moves(r, "enqueue")
      BY <2>2, CallGoesOn DEF CallPlaces
    <3>3. Kept
      BY <1>6, <3>1, <3>2 DEF Kept
    <3> QED
      BY <1>1, <2>1, <3>3 DEF Unqueued
  <2>3. CASE Fails(r) /\ (UNCHANGED faults \/ Fault)
    BY <1>1, <1>5, <2>1, <2>3 DEF Unqueued
  <2> QED
    BY <2>1, <2>2, <2>3
<1> QED
  BY <1>7, <1>8, <1>9, <1>10, <1>11

\* How the moves that count do: past the check, into the queue (or into the
\* queue with the call failed), up the counter, and without being counted.
EntryMove(r) ==
  /\ pc[r] = "idle" /\ count[path[r]] < Limit
  /\ \E b \in Unqueued : Moves(r, b)
  /\ peak' = [peak EXCEPT ![path[r]] =
                IF Cardinality(Within(path[r])) < @ THEN @
                ELSE Cardinality(Within(path[r])) + 1]
  /\ UNCHANGED <<count, queuedToday, lost>>

QueueMove(r) ==
  /\ pc[r] = "enqueue" /\ queuedToday' = [queuedToday EXCEPT ![path[r]] = @ + 1]
  /\ \/ (\E b \in {"receipt", "incr"} : Moves(r, b)) /\ UNCHANGED lost
     \/ Moves(r, "idle") /\ lost' = [lost EXCEPT ![path[r]] = @ + 1]
  /\ UNCHANGED <<count, peak>>

CountMove(r) ==
  /\ pc[r] = "incr" /\ Moves(r, "expire") /\ count' = [count EXCEPT ![path[r]] = @ + 1]
  /\ UNCHANGED <<queuedToday, lost, peak>>

LoseMove(r) ==
  /\ pc[r] \in {"receipt", "incr"} /\ Moves(r, "idle")
  /\ lost' = [lost EXCEPT ![path[r]] = @ + 1]
  /\ UNCHANGED <<count, queuedToday, peak>>

CallMove(r) == QuietMove(r) \/ EntryMove(r) \/ QueueMove(r) \/ CountMove(r) \/ LoseMove(r)

\* The checks at the door.
LEMMA EntryStep ==
  ASSUME SandboxInv, NEW r \in Requests, Notify(r) \/ SendTest(r)
  PROVE  SandboxInv' /\ CallMove(r)
<1> DEFINE top == peak' = [peak EXCEPT ![path[r]] =
                             IF Cardinality(Within(path[r])) < @ THEN @
                             ELSE Cardinality(Within(path[r])) + 1]
<1>1. path[r] \in Paths
  BY DEF SandboxInv, SandboxTypeOK
<1>2. UNCHANGED <<alive, counterVars, note, holder, recent, queue, receipts, events, faults,
                  queuedToday, lost, abandoned>> /\ pc[r] = "idle"
  BY Zenon DEF Notify, SendTest, rowVars
<1>3. \/ /\ count[path[r]] < Limit /\ UNCHANGED <<path, answer>> /\ top
         /\ \E b \in {"lookup", "contact"} : pc' = [pc EXCEPT ![r] = b]
         /\ idem' = idem \/ \E k \in Keys \cup {None} : idem' = [idem EXCEPT ![r] = k]
      \/ Answers(r, "refused") /\ UNCHANGED peak
  BY DEF Notify, SendTest, Enters, ValidateSandboxKey, CheckPlaygroundLimit, Remaining
<1> HIDE DEF top
<1>4. RowsTyped' /\ CallsTyped
  BY <1>2, CallGoesOn, Zenon DEF RowsTyped
<1>5. CASE Answers(r, "refused") /\ UNCHANGED peak
  <2>1. CallsTyped' /\ FiniteCalls' /\ Moves(r, "idle")
    BY <1>5, CallGoesOn DEF Replies
  <2>2. SandboxTypeOK'
    BY <1>2, <1>4, <1>5, <2>1, Zenon DEF SandboxInv, SandboxTypeOK, CallsTyped, RowsTyped,
       CallPlaces, Replies, counterVars
  <2>3. QuietMove(r)
    BY <1>2, <1>5, <2>1 DEF QuietMove, counterVars, CallPlaces
  <2> QED
    BY <2>1, <2>2, <2>3 DEF SandboxInv, CallMove
<1>6. CASE /\ count[path[r]] < Limit /\ UNCHANGED <<path, answer>> /\ top
           /\ \E b \in {"lookup", "contact"} : pc' = [pc EXCEPT ![r] = b]
           /\ idem' = idem \/ \E k \in Keys \cup {None} : idem' = [idem EXCEPT ![r] = k]
  <2>1. PICK b \in {"lookup", "contact"} : pc' = [pc EXCEPT ![r] = b]
    BY <1>6
  <2>2. Moves(r, b) /\ b \in CallPlaces /\ b \in Unqueued
    BY <1>6, <2>1 DEF Moves, CallPlaces, Unqueued
  <2>3. FiniteCalls'
    BY <2>2, CallGoesOn
  <2>4. CallsTyped'
    BY <1>4, <1>6, <2>1, <2>2 DEF CallsTyped
  <2>5. Cardinality(Within(path[r])) \in Nat
    BY <1>1, WithinIsAccepted, CallCounts DEF SandboxInv, CallCount
  <2>6. peak' \in [Paths -> Nat]
    BY <1>6, <2>5 DEF top, SandboxInv, SandboxTypeOK
  <2>7. SandboxTypeOK'
    BY <1>2, <1>4, <2>4, <2>6, Zenon DEF SandboxInv, SandboxTypeOK, CallsTyped, RowsTyped,
       CallPlaces, Replies, counterVars
  <2>8. EntryMove(r)
    BY <1>2, <1>6, <2>2, Zenon DEF EntryMove, counterVars, top
  <2> QED
    BY <2>3, <2>7, <2>8 DEF SandboxInv, CallMove
<1> QED
  BY <1>3, <1>5, <1>6, Zenon

\* Queueing, the receipt, INCR and EXPIRE, and their failures.
LEMMA CountingStep ==
  ASSUME SandboxInv, NEW r \in Requests,
         \/ Enqueue(r) \/ AddFails(r) \/ RecordReceipt(r) \/ Increment(r) \/ Expire(r)
         \/ CallCrash(r)
  PROVE  SandboxInv' /\ CallMove(r)
<1> DEFINE Kept == CallsTyped' /\ FiniteCalls' /\ RowsTyped'
<1>1. /\ path[r] \in Paths /\ CallsTyped /\ RowsTyped
      /\ count \in [Paths -> Nat] /\ ttl \in [Paths -> {"none", "midnight", "soon"}]
      /\ late \subseteq Requests /\ queue \subseteq Requests
      /\ queuedToday \in [Paths -> Nat] /\ lost \in [Paths -> Nat]
      /\ abandoned \in [Paths -> BOOLEAN] /\ receipts \in [Requests -> {"today", "before", None}]
      /\ events \in 0..MaxEvents /\ MaxEvents \in Nat
  BY CallGoesOn, SandboxBounds DEF SandboxInv, SandboxTypeOK
<1>2. Fault \/ UNCHANGED faults => faults' \in 0..MaxFaults
  BY RowWrites
<1>3. UNCHANGED <<note, holder, recent>> => RowsTyped'
  BY <1>1, Zenon DEF RowsTyped
<1>4. ASSUME NEW s \in {"receipt", "incr", "expire"}, Goes(r, s)
      PROVE  CallsTyped' /\ FiniteCalls' /\ Moves(r, s)
  BY <1>4, CallGoesOn DEF CallPlaces
<1>5. ASSUME NEW a \in {"error", "failed", "queued"}, Answers(r, a)
      PROVE  CallsTyped' /\ FiniteCalls' /\ Moves(r, "idle")
  BY <1>5, CallGoesOn DEF Replies
<1>6. CASE Enqueue(r)
  <2>1. /\ \E s \in {"receipt", "incr"} : Goes(r, s)
        /\ pc[r] = "enqueue" /\ queue' = queue \cup {r}
        /\ queuedToday' = [queuedToday EXCEPT ![path[r]] = @ + 1]
    BY <1>6 DEF Enqueue, AddTestJob
  <2>2. UNCHANGED <<alive, count, ttl, late, note, holder, recent, receipts, events, faults,
                    lost, peak, abandoned>>
    BY <1>6, Zenon DEF Enqueue, counterVars, rowVars
  <2>3. PICK s \in {"receipt", "incr"} : CallsTyped' /\ FiniteCalls' /\ Moves(r, s)
    BY <1>4, <2>1
  <2>4. RowsTyped'
    BY <1>3, <2>2
  <2>5. queuedToday' \in [Paths -> Nat] /\ queue' \subseteq Requests
    BY <1>1, <2>1
  <2>6. SandboxTypeOK'
    BY <2>2, <2>3, <2>4, <2>5, Zenon DEF SandboxInv, SandboxTypeOK, CallsTyped, RowsTyped,
       CallPlaces, Replies
  <2>7. QueueMove(r)
    BY <2>1, <2>2, <2>3, Zenon DEF QueueMove
  <2> QED
    BY <2>3, <2>6, <2>7 DEF SandboxInv, CallMove
<1>7. CASE AddFails(r)
  <2>1. /\ pc[r] = "enqueue" /\ Fault /\ Answers(r, "failed")
        /\ note' = [note EXCEPT ![r] = "failed"] \/ UNCHANGED note
        /\ \/ /\ queue' = queue \cup {r}
              /\ queuedToday' = [queuedToday EXCEPT ![path[r]] = @ + 1]
              /\ lost' = [lost EXCEPT ![path[r]] = @ + 1]
           \/ UNCHANGED <<queue, queuedToday, lost>>
    BY <1>7, Zenon DEF AddFails, AddTestJob
  <2>2. UNCHANGED <<alive, count, ttl, late, holder, recent, receipts, events, peak, abandoned>>
    BY <1>7, Zenon DEF AddFails, counterVars
  <2>3. CallsTyped' /\ FiniteCalls' /\ Moves(r, "idle")
    BY <1>5, <2>1
  <2>4. RowsTyped'
    BY <1>1, <2>1, <2>2 DEF RowsTyped, Statuses
  <2>5. queuedToday' \in [Paths -> Nat] /\ queue' \subseteq Requests /\ lost' \in [Paths -> Nat]
    BY <1>1, <2>1
  <2>6. faults' \in 0..MaxFaults
    BY <1>2, <2>1
  <2>7. SandboxTypeOK'
    BY <2>2, <2>3, <2>4, <2>5, <2>6, Zenon DEF SandboxInv, SandboxTypeOK, CallsTyped,
       RowsTyped, CallPlaces, Replies
  <2>8. QueueMove(r) \/ QuietMove(r)
    BY <2>1, <2>2, <2>3 DEF QueueMove, QuietMove, CallPlaces
  <2> QED
    BY <2>3, <2>7, <2>8 DEF SandboxInv, CallMove
<1>8. CASE RecordReceipt(r)
  <2>1. /\ pc[r] = "receipt" /\ Goes(r, "incr")
        /\ \/ receipts' = [receipts EXCEPT ![r] = "today"] /\ UNCHANGED faults
           \/ Fault /\ UNCHANGED receipts
    BY <1>8, Zenon DEF RecordReceipt
  <2>2. UNCHANGED <<alive, count, ttl, late, note, holder, recent, queue, events, queuedToday,
                    lost, peak, abandoned>>
    BY <1>8, Zenon DEF RecordReceipt, counterVars, rowVars, history
  <2>3. CallsTyped' /\ FiniteCalls' /\ Moves(r, "incr")
    BY <1>4, <2>1
  <2>4. RowsTyped' /\ faults' \in 0..MaxFaults
    BY <1>2, <1>3, <2>1, <2>2
  <2>5. receipts' \in [Requests -> {"today", "before", None}]
    BY <1>1, <2>1
  <2>6. SandboxTypeOK'
    BY <2>2, <2>3, <2>4, <2>5, Zenon DEF SandboxInv, SandboxTypeOK, CallsTyped,
       RowsTyped, CallPlaces, Replies
  <2>7. QuietMove(r)
    BY <2>1, <2>2, <2>3 DEF QuietMove, CallPlaces
  <2> QED
    BY <2>3, <2>6, <2>7 DEF SandboxInv, CallMove
<1>9. CASE Increment(r)
  <2>1. /\ pc[r] = "incr"
        /\ \/ /\ count' = [count EXCEPT ![path[r]] = @ + 1]
              /\ Goes(r, "expire") /\ UNCHANGED <<lost, faults>>
           \/ /\ Fault /\ Answers(r, "error")
              /\ lost' = [lost EXCEPT ![path[r]] = @ + 1] /\ UNCHANGED count
    BY <1>9, Zenon DEF Increment
  <2>2. UNCHANGED <<alive, ttl, late, note, holder, recent, queue, receipts, events,
                    queuedToday, peak, abandoned>>
    BY <1>9, Zenon DEF Increment, rowVars
  <2>3. CallsTyped' /\ FiniteCalls'
    BY <1>4, <1>5, <2>1
  <2>4. RowsTyped' /\ faults' \in 0..MaxFaults
    BY <1>2, <1>3, <2>1, <2>2
  <2>5. count' \in [Paths -> Nat] /\ lost' \in [Paths -> Nat]
    BY <1>1, <2>1
  <2>6. SandboxTypeOK'
    BY <2>2, <2>3, <2>4, <2>5, Zenon DEF SandboxInv, SandboxTypeOK, CallsTyped,
       RowsTyped, CallPlaces, Replies
  <2>7. CountMove(r) \/ LoseMove(r)
    BY <1>4, <1>5, <2>1, <2>2 DEF CountMove, LoseMove
  <2> QED
    BY <2>3, <2>6, <2>7 DEF SandboxInv, CallMove
<1>10. CASE Expire(r)
  <2>1. /\ pc[r] = "expire" /\ late' = late \ {r}
        /\ Answers(r, "queued") \/ Answers(r, "error")
        /\ UNCHANGED faults \/ Fault
    BY <1>10, Zenon DEF Expire
  <2>2. UNCHANGED <<alive, count, note, holder, recent, queue, receipts, events, queuedToday,
                    lost, peak>>
    BY <1>10, Zenon DEF Expire, rowVars
  <2>3. CallsTyped' /\ FiniteCalls' /\ Moves(r, "idle")
    BY <1>5, <2>1
  <2>4. RowsTyped' /\ faults' \in 0..MaxFaults
    BY <1>2, <1>3, <2>1, <2>2
  <2>5. late' \subseteq Requests /\ ttl' \in [Paths -> {"none", "midnight", "soon"}]
    BY <1>1, <1>10 DEF Expire
  <2>6. abandoned' \in [Paths -> BOOLEAN]
    BY <1>1, <1>10 DEF Expire
  <2>7. SandboxTypeOK'
    BY <2>2, <2>3, <2>4, <2>5, <2>6, Zenon DEF SandboxInv, SandboxTypeOK, CallsTyped,
       RowsTyped, CallPlaces, Replies
  <2>8. QuietMove(r)
    BY <2>1, <2>2, <2>3 DEF QuietMove, CallPlaces
  <2> QED
    BY <2>3, <2>7, <2>8 DEF SandboxInv, CallMove
<1>11. CASE CallCrash(r)
  <2>1. /\ pc[r] # "idle" /\ Event /\ Answers(r, "error") /\ late' = late \ {r}
        /\ lost' = [lost EXCEPT ![path[r]] = IF pc[r] \in {"receipt", "incr"} THEN @ + 1 ELSE @]
    BY <1>11, Zenon DEF CallCrash
  <2>2. UNCHANGED <<alive, count, ttl, note, holder, recent, queue, receipts, faults, queuedToday,
                    peak>>
    BY <1>11, Zenon DEF CallCrash, rowVars
  <2>3. CallsTyped' /\ FiniteCalls' /\ Moves(r, "idle")
    BY <1>5, <2>1
  <2>4. RowsTyped' /\ faults' \in 0..MaxFaults
    BY <1>2, <1>3, <2>2
  <2>5. late' \subseteq Requests /\ lost' \in [Paths -> Nat] /\ events' \in 0..MaxEvents
    BY <1>1, <2>1 DEF Event
  <2>6. abandoned' \in [Paths -> BOOLEAN]
    <3>1. abandoned' = [abandoned EXCEPT ![path[r]] = @ \/ pc[r] = "expire"]
      BY <1>11, Zenon DEF CallCrash
    <3>2. (abandoned[path[r]] \/ pc[r] = "expire") \in BOOLEAN
      BY Zenon
    <3> QED
      BY <1>1, <3>1, <3>2, Zenon
  <2>7. SandboxTypeOK'
    BY <2>2, <2>3, <2>4, <2>5, <2>6, Zenon DEF SandboxInv, SandboxTypeOK, CallsTyped,
       RowsTyped, CallPlaces, Replies
  <2>8. CASE pc[r] \in {"receipt", "incr"}
    BY <2>1, <2>2, <2>3, <2>7, <2>8 DEF LoseMove, SandboxInv, CallMove
  <2>9. CASE pc[r] \notin {"receipt", "incr"}
    <3>1. UNCHANGED lost
      BY <1>1, <2>1, <2>9
    <3>2. QuietMove(r)
      BY <2>2, <2>3, <2>9, <3>1 DEF QuietMove, CallPlaces
    <3> QED
      BY <2>3, <2>7, <3>2 DEF SandboxInv, CallMove
  <2> QED
    BY <2>8, <2>9
<1> QED
  BY <1>6, <1>7, <1>8, <1>9, <1>10, <1>11

\* The worker, the portal, and time that passes for the key or the receipts.
LEMMA OutsideStep ==
  ASSUME SandboxInv,
         \/ \E r \in Requests : ProcessSandbox(r)
         \/ RevokeKey \/ HourPasses \/ CleanupOldReceipts \/ UNCHANGED sandboxVars
  PROVE  SandboxInv' /\ UNCHANGED <<pc, path, count, queuedToday, lost, peak>>
<1> USE DEF SandboxInv
<1>1. UNCHANGED <<counterVars, callVars, history>>
  BY Zenon DEF ProcessSandbox, RevokeKey, HourPasses, CleanupOldReceipts, sandboxVars
<1>2. UNCHANGED <<count, ttl, late, pc, path, idem, answer, queuedToday, lost, peak, abandoned>>
  BY <1>1 DEF counterVars, callVars, history
<1>3. FiniteCalls'
  BY <1>2, CallsStay DEF SandboxInv
<1>4. RowsTyped /\ (Fault \/ UNCHANGED faults => faults' \in 0..MaxFaults)
  <2>1. Fault \/ UNCHANGED faults => faults' \in 0..MaxFaults
    BY FaultsAssumption DEF Fault, SandboxTypeOK
  <2> QED
    BY <2>1 DEF RowsTyped, SandboxTypeOK
<1>5. ASSUME RowsTyped', faults' \in 0..MaxFaults, alive' \in BOOLEAN, queue' \subseteq Requests,
             receipts' \in [Requests -> {"today", "before", None}], events' \in 0..MaxEvents
      PROVE  SandboxInv'
  BY <1>2, <1>3, <1>5, Zenon DEF SandboxTypeOK, RowsTyped
<1>6. /\ UNCHANGED queue => queue' \subseteq Requests
      /\ UNCHANGED alive => alive' \in BOOLEAN
      /\ UNCHANGED events => events' \in 0..MaxEvents
      /\ UNCHANGED receipts => receipts' \in [Requests -> {"today", "before", None}]
  BY Zenon DEF SandboxTypeOK
<1>7. ASSUME NEW r \in Requests, ProcessSandbox(r) PROVE SandboxInv'
  <2>1. UNCHANGED <<alive, holder, recent, receipts, events>> /\ (Fault \/ UNCHANGED faults)
    BY <1>7, Zenon DEF ProcessSandbox
  <2>2. /\ \E s \in Statuses : note' = [note EXCEPT ![r] = s]
        /\ queue' \subseteq queue
    BY <1>7 DEF ProcessSandbox, Statuses
  <2>3. RowsTyped'
    BY <1>4, <2>1, <2>2 DEF RowsTyped
  <2>4. queue' \subseteq Requests
    BY <2>2 DEF SandboxTypeOK
  <2> QED
    BY <1>4, <1>5, <2>1, <2>3, <2>4, Zenon DEF SandboxTypeOK
<1>8. CASE RevokeKey
  <2>1. UNCHANGED <<note, holder, recent, queue, receipts, faults>>
    BY <1>8, Zenon DEF RevokeKey, rowVars
  <2>2. events' \in 0..MaxEvents
    BY <1>8, SandboxBounds DEF RevokeKey, Event, SandboxTypeOK
  <2>3. alive' \in BOOLEAN
    BY <1>8, Zenon DEF RevokeKey
  <2>4. RowsTyped'
    BY <1>4, <2>1, Zenon DEF RowsTyped
  <2>5. faults' \in 0..MaxFaults /\ queue' \subseteq Requests
    BY <1>4, <1>6, <2>1
  <2> QED
    BY <1>2, <1>5, <1>6, <2>5, <2>1, <2>2, <2>4, <2>3
<1>9. CASE HourPasses
  <2>1. UNCHANGED <<alive, note, holder, queue, receipts, events, faults>> /\ recent' = {}
    BY <1>9, Zenon DEF HourPasses
  <2>2. RowsTyped'
    BY <1>4, <2>1 DEF RowsTyped
  <2>3. faults' \in 0..MaxFaults /\ queue' \subseteq Requests
    BY <1>4, <1>6, <2>1
  <2> QED
    BY <1>2, <1>5, <1>6, <2>3, <2>1, <2>2
<1>10. CASE CleanupOldReceipts
  <2>1. UNCHANGED <<alive, note, holder, recent, queue, events, faults>>
    BY <1>10, Zenon DEF CleanupOldReceipts, rowVars
  <2>2. receipts' \in [Requests -> {"today", "before", None}]
    BY <1>10 DEF CleanupOldReceipts, SandboxTypeOK
  <2>3. RowsTyped'
    BY <1>4, <2>1, Zenon DEF RowsTyped
  <2>4. faults' \in 0..MaxFaults /\ queue' \subseteq Requests
    BY <1>4, <1>6, <2>1
  <2> QED
    BY <1>2, <1>5, <1>6, <2>4, <2>1, <2>2, <2>3
<1>11. CASE UNCHANGED sandboxVars
  BY <1>3, <1>11, Zenon DEF sandboxVars, counterVars, callVars, rowVars, history, SandboxTypeOK
<1> QED
  BY <1>2, <1>7, <1>8, <1>9, <1>10, <1>11

\* Midnight and a late TTL.
LEMMA CounterStep ==
  ASSUME SandboxInv, Midnight \/ \E p \in Paths : SoonExpires(p)
  PROVE  SandboxInv'
<1> USE DEF SandboxInv
<1>1. UNCHANGED <<pc, path, idem, answer>>
  BY Zenon DEF Midnight, SoonExpires, callVars
<1>2. FiniteCalls'
  BY <1>1, CallsStay
<1>3. UNCHANGED <<alive, note, holder, recent, queue, events, faults, abandoned>>
  BY Zenon DEF Midnight, SoonExpires, rowVars
<1>4. ASSUME count' \in [Paths -> Nat], ttl' \in [Paths -> {"none", "midnight", "soon"}],
             late' \subseteq Requests, receipts' \in [Requests -> {"today", "before", None}],
             queuedToday' \in [Paths -> Nat], lost' \in [Paths -> Nat], peak' \in [Paths -> Nat]
      PROVE  SandboxInv'
  BY <1>1, <1>2, <1>3, <1>4, Zenon DEF SandboxTypeOK
<1>5. CASE Midnight
  <2>1. count' \in [Paths -> Nat] /\ ttl' \in [Paths -> {"none", "midnight", "soon"}]
    BY <1>5 DEF Midnight, SandboxTypeOK
  <2>2. /\ late' \subseteq Requests
        /\ queuedToday' \in [Paths -> Nat] /\ lost' \in [Paths -> Nat]
    BY <1>5 DEF Midnight
  <2>3. receipts' \in [Requests -> {"today", "before", None}]
    BY <1>5 DEF Midnight, SandboxTypeOK
  <2>4. peak' \in [Paths -> Nat]
    <3>1. peak' = [p \in Paths |-> Cardinality(Within(p))]
      BY <1>5, Zenon DEF Midnight
    <3>2. \A p \in Paths : Cardinality(Within(p)) \in Nat
      BY WithinIsAccepted, CallCounts DEF CallCount
    <3> QED
      BY <3>1, <3>2
  <2> QED
    BY <1>4, <2>1, <2>2, <2>3, <2>4
<1>6. ASSUME NEW p \in Paths, SoonExpires(p) PROVE SandboxInv'
  BY <1>4, <1>6 DEF SoonExpires, SandboxTypeOK
<1> QED
  BY <1>5, <1>6

\* Each step keeps the types, and moves a call, lets a counter go, or does
\* neither.
LEMMA SandboxTypeStep ==
  ASSUME SandboxInv, [SandboxNext]_sandboxVars
  PROVE  /\ SandboxInv'
         /\ \/ \E r \in Requests : CallMove(r)
            \/ Midnight \/ \E p \in Paths : SoonExpires(p)
            \/ UNCHANGED <<pc, path, count, queuedToday, lost, peak>>
<1>1. ASSUME NEW r \in Requests, Step(r) \/ CallCrash(r)
      PROVE  SandboxInv' /\ CallMove(r)
  <2>1. EnqueueFails(r) \/ SendTestFails(r) => AddFails(r)
    BY DEF EnqueueFails, SendTestFails
  <2> QED
    BY <1>1, <2>1, GatesStep, EntryStep, CountingStep, Zenon DEF Step, CallMove
<1> QED
  BY <1>1, OutsideStep, CounterStep, Zenon DEF SandboxNext

\* At the start no call is under way and nothing is counted.
LEMMA SandboxInitInv ==
  ASSUME SandboxInit
  PROVE  AccountInv
<1>1. SandboxTypeOK
  <2>1. count \in [Paths -> Nat] /\ ttl \in [Paths -> {"none", "midnight", "soon"}]
    BY DEF SandboxInit
  <2>2. /\ pc \in [Requests -> {"idle", "lookup", "template", "scan", "wallet", "contact",
                                "create", "enqueue", "receipt", "incr", "expire"}]
        /\ path \in [Requests -> Paths] /\ idem \in [Requests -> Keys \cup {None}]
    BY DEF SandboxInit
  <2>3. /\ answer \in [Requests -> {"queued", "failed", "blocked", "opted_out", "duplicate",
                                    "refused", "error", None}]
        /\ note \in [Requests -> Statuses \cup {None}]
        /\ holder \in [Keys -> Requests \cup {None}]
        /\ receipts \in [Requests -> {"today", "before", None}]
    BY DEF SandboxInit
  <2>4. /\ queuedToday \in [Paths -> Nat] /\ lost \in [Paths -> Nat] /\ peak \in [Paths -> Nat]
        /\ abandoned \in [Paths -> BOOLEAN]
    BY DEF SandboxInit
  <2>5. /\ alive \in BOOLEAN /\ late \subseteq Requests /\ recent \subseteq Keys
        /\ queue \subseteq Requests /\ events \in 0..MaxEvents /\ faults \in 0..MaxFaults
    BY SandboxBounds, FaultsAssumption DEF SandboxInit
  <2> QED
    BY <2>1, <2>2, <2>3, <2>4, <2>5 DEF SandboxTypeOK
<1>2. \A p \in Paths : /\ CallsAt(p, Unqueued) = {} /\ CallsAt(p, Uncounted) = {}
                       /\ CallsAt(p, Accepted) = {}
  BY DEF SandboxInit, CallsAt, Accepted, Uncounted, Unqueued
<1>3. FiniteCalls
  BY <1>2, FS_EmptySet DEF FiniteCalls
<1>4. \A p \in Paths : /\ CallCount(p, Unqueued) = 0 /\ CallCount(p, Uncounted) = 0
                       /\ CallCount(p, Accepted) = 0
  BY <1>2, FS_EmptySet DEF CallCount
<1>5. \A p \in Paths : /\ queuedToday[p] = 0 /\ count[p] = 0 /\ lost[p] = 0 /\ peak[p] = 0
  BY DEF SandboxInit
<1>6. \A p \in Paths : Accounted(p)
  BY <1>4, <1>5, SandboxLimit DEF Accounted
<1> QED
  BY <1>1, <1>3, <1>6 DEF AccountInv, SandboxInv

\* Every variable of the sandbox keeps its type, and so do the counts of the
\* calls under way.  (SandboxService, processSandbox.)
THEOREM SandboxTypeCorrect == SandboxSpec => []SandboxTypeOK
<1>1. SandboxInit => SandboxInv
  BY SandboxInitInv DEF AccountInv
<1>2. SandboxInv /\ [SandboxNext]_sandboxVars => SandboxInv'
  BY SandboxTypeStep
<1> QED
  BY <1>1, <1>2, PTL DEF SandboxSpec, SandboxInv

\* A move keeps the account of its path and leaves the other's alone.
LEMMA MoveAccounted ==
  ASSUME AccountInv, SandboxInv', NEW r \in Requests, CallMove(r), NEW p \in Paths
  PROVE  Accounted(p)'
<1> USE DEF AccountInv
<1>1. SandboxTypeOK /\ Accounted(p) /\ path[r] \in Paths
  BY DEF SandboxInv, SandboxTypeOK
<1>2. PICK a, b, c \in Nat : /\ a = CallCount(p, Unqueued) /\ b = CallCount(p, Uncounted)
                             /\ c = CallCount(p, Accepted) /\ a <= b /\ b <= c
  BY CallCounts
<1>3. PICK q, n, l, k \in Nat :
        q = queuedToday[p] /\ n = count[p] /\ l = lost[p] /\ k = peak[p]
  BY <1>1 DEF SandboxTypeOK
<1>4. /\ q + a <= n + l + b /\ c <= k
      /\ n + b + 1 <= Limit + k \/ q + a <= k + l
      /\ Limit = 0 => c = 0 /\ q = 0
  BY <1>1, <1>2, <1>3 DEF Accounted
<1>5. ASSUME NEW x \in CallPlaces, Moves(r, x)
      PROVE  /\ CallCount(p, Unqueued)' =
                  IF p # path[r] \/ (x \in Unqueued <=> pc[r] \in Unqueued) THEN a
                  ELSE IF x \in Unqueued THEN a + 1 ELSE a - 1
             /\ CallCount(p, Uncounted)' =
                  IF p # path[r] \/ (x \in Uncounted <=> pc[r] \in Uncounted) THEN b
                  ELSE IF x \in Uncounted THEN b + 1 ELSE b - 1
             /\ CallCount(p, Accepted)' =
                  IF p # path[r] \/ (x \in Accepted <=> pc[r] \in Accepted) THEN c
                  ELSE IF x \in Accepted THEN c + 1 ELSE c - 1
  <2>1. /\ IsFiniteSet(CallsAt(p, Unqueued)) /\ IsFiniteSet(CallsAt(p, Uncounted))
        /\ IsFiniteSet(CallsAt(p, Accepted))
    BY CallCounts DEF SandboxInv, FiniteCalls
  <2> QED
    BY <1>1, <1>2, <1>5, <2>1, CallMoves
<1>6. CASE p # path[r]
  <2>1. PICK x \in CallPlaces : Moves(r, x)
    BY DEF CallMove, QuietMove, EntryMove, QueueMove, CountMove, LoseMove, CallPlaces, Unqueued
  <2>2. /\ CallCount(p, Unqueued)' = a /\ CallCount(p, Uncounted)' = b
        /\ CallCount(p, Accepted)' = c
    BY <1>5, <1>6, <2>1
  <2>3. queuedToday'[p] = q /\ count'[p] = n /\ lost'[p] = l /\ peak'[p] = k
    BY <1>1, <1>3, <1>6
       DEF CallMove, QuietMove, EntryMove, QueueMove, CountMove, LoseMove, SandboxTypeOK
  <2> QED
    BY <1>4, <2>2, <2>3, SandboxLimit DEF Accounted
<1>7. CASE p = path[r] /\ QuietMove(r)
  <2>1. PICK x \in CallPlaces :
          /\ Moves(r, x)
          /\ \/ x \in Unqueued /\ pc[r] \in Unqueued
             \/ x = "idle" /\ pc[r] \notin {"receipt", "incr"}
             \/ x = "incr" /\ pc[r] = "receipt"
    BY <1>7 DEF QuietMove
  <2>2. PICK u, v, w \in Int :
          u = CallCount(p, Unqueued)' /\ v = CallCount(p, Uncounted)' /\ w = CallCount(p, Accepted)'
    BY <1>5, <2>1
  <2>3. /\ (u = a /\ v = b /\ w = c) \/ (u = a - 1 /\ v = b - 1 /\ w = c - 1)
           \/ (u = a /\ v = b /\ w = c - 1)
    BY <1>5, <2>1, <2>2 DEF Accepted, Uncounted, Unqueued
  <2>4. queuedToday'[p] = q /\ count'[p] = n /\ lost'[p] = l /\ peak'[p] = k
    BY <1>3, <1>7 DEF QuietMove
  <2>5. Limit = 0 => w = 0
    <3>1. w \in Nat
      BY <2>2, CallCountsNext
    <3> QED
      BY <1>4, <2>3, <3>1
  <2> QED
    BY <1>4, <2>2, <2>3, <2>4, <2>5, SandboxLimit DEF Accounted
<1>8. CASE p = path[r] /\ EntryMove(r)
  <2>1. PICK x \in Unqueued : Moves(r, x)
    BY <1>8 DEF EntryMove
  <2>2. pc[r] = "idle" /\ n < Limit
    BY <1>3, <1>8 DEF EntryMove
  <2>3. x \in CallPlaces
    BY DEF CallPlaces, Unqueued
  <2>4. /\ CallCount(p, Unqueued)' = a + 1 /\ CallCount(p, Uncounted)' = b + 1
        /\ CallCount(p, Accepted)' = c + 1
    BY <1>5, <1>8, <2>1, <2>2, <2>3 DEF Accepted, Uncounted, Unqueued
  <2>5. peak'[p] = IF c < k THEN k ELSE c + 1
    BY <1>1, <1>2, <1>3, <1>8, WithinIsAccepted DEF EntryMove, CallCount, SandboxTypeOK
  <2>6. queuedToday'[p] = q /\ count'[p] = n /\ lost'[p] = l
    BY <1>3, <1>8 DEF EntryMove
  <2> QED
    BY <1>2, <1>4, <2>2, <2>4, <2>5, <2>6, SandboxLimit DEF Accounted
<1>9. CASE p = path[r] /\ QueueMove(r)
  <2>1. /\ pc[r] = "enqueue" /\ queuedToday'[p] = q + 1 /\ count'[p] = n /\ peak'[p] = k
    BY <1>1, <1>3, <1>9 DEF QueueMove, SandboxTypeOK
  <2>2. c >= 1
    <3>1. r \in CallsAt(p, Accepted)
      BY <1>9, <2>1 DEF CallsAt, Accepted, Uncounted, Unqueued
    <3>2. IsFiniteSet(CallsAt(p, Accepted))
      BY DEF SandboxInv, FiniteCalls
    <3>3. CallsAt(p, Accepted) # {}
      BY <3>1
    <3>4. Cardinality(CallsAt(p, Accepted)) # 0
      BY <3>2, <3>3, FS_EmptySet
    <3> QED
      BY <1>2, <3>4 DEF CallCount
  <2>3. ASSUME NEW x \in {"receipt", "incr"}, Moves(r, x), UNCHANGED lost
        PROVE  Accounted(p)'
    <3>1. x \in CallPlaces /\ lost'[p] = l
      BY <1>3, <2>3 DEF CallPlaces
    <3>2. /\ CallCount(p, Unqueued)' = a - 1 /\ CallCount(p, Uncounted)' = b
          /\ CallCount(p, Accepted)' = c
      BY <1>5, <1>9, <2>1, <2>3, <3>1 DEF Accepted, Uncounted, Unqueued
    <3> QED
      BY <1>2, <1>4, <2>1, <2>2, <3>1, <3>2, SandboxLimit DEF Accounted
  <2>4. ASSUME Moves(r, "idle"), lost' = [lost EXCEPT ![path[r]] = @ + 1]
        PROVE  Accounted(p)'
    <3>1. "idle" \in CallPlaces /\ lost'[p] = l + 1
      BY <1>1, <1>3, <1>9, <2>4 DEF CallPlaces, SandboxTypeOK
    <3>2. /\ CallCount(p, Unqueued)' = a - 1 /\ CallCount(p, Uncounted)' = b - 1
          /\ CallCount(p, Accepted)' = c - 1
      BY <1>5, <1>9, <2>1, <2>4, <3>1 DEF Accepted, Uncounted, Unqueued
    <3> QED
      BY <1>2, <1>4, <2>1, <2>2, <3>1, <3>2, SandboxLimit DEF Accounted
  <2> QED
    BY <1>9, <2>3, <2>4 DEF QueueMove
<1>10. CASE p = path[r] /\ CountMove(r)
  <2>1. /\ pc[r] = "incr" /\ Moves(r, "expire") /\ queuedToday'[p] = q /\ count'[p] = n + 1
        /\ lost'[p] = l /\ peak'[p] = k
    BY <1>1, <1>3, <1>10 DEF CountMove, SandboxTypeOK
  <2>2. /\ CallCount(p, Unqueued)' = a /\ CallCount(p, Uncounted)' = b - 1
        /\ CallCount(p, Accepted)' = c
    BY <1>5, <1>10, <2>1 DEF Accepted, Uncounted, Unqueued, CallPlaces
  <2> QED
    BY <1>2, <1>4, <2>1, <2>2, SandboxLimit DEF Accounted
<1>11. CASE p = path[r] /\ LoseMove(r)
  <2>1. /\ pc[r] \in {"receipt", "incr"} /\ Moves(r, "idle") /\ queuedToday'[p] = q
        /\ count'[p] = n /\ lost'[p] = l + 1 /\ peak'[p] = k
    BY <1>1, <1>3, <1>11 DEF LoseMove, SandboxTypeOK
  <2>2. /\ CallCount(p, Unqueued)' = a /\ CallCount(p, Uncounted)' = b - 1
        /\ CallCount(p, Accepted)' = c - 1
    BY <1>5, <1>11, <2>1 DEF Accepted, Uncounted, Unqueued, CallPlaces
  <2>3. Limit = 0 => c - 1 = 0
    <3>1. c - 1 \in Nat
      BY <2>2, CallCountsNext
    <3> QED
      BY <1>4, <3>1
  <2> QED
    BY <1>2, <1>4, <2>1, <2>2, <2>3, SandboxLimit DEF Accounted
<1> QED
  BY <1>6, <1>7, <1>8, <1>9, <1>10, <1>11 DEF CallMove

\* A counter that goes leaves what it counted to be lost; at midnight the day
\* starts over.
LEMMA CountersAccounted ==
  ASSUME AccountInv, SandboxInv', Midnight \/ \E x \in Paths : SoonExpires(x), NEW p \in Paths
  PROVE  Accounted(p)'
<1> USE DEF AccountInv
<1>1. /\ UNCHANGED <<pc, path>>
      /\ \A L : CallCount(p, L)' = CallCount(p, L)
  <2>1. UNCHANGED <<pc, path>>
    BY Zenon DEF Midnight, SoonExpires, callVars
  <2> QED
    BY <2>1, CallsStay DEF SandboxInv
<1>2. PICK a, b, c \in Nat : /\ a = CallCount(p, Unqueued) /\ b = CallCount(p, Uncounted)
                             /\ c = CallCount(p, Accepted) /\ a <= b /\ b <= c
  BY CallCounts
<1>3. PICK q, n, l, k \in Nat :
        q = queuedToday[p] /\ n = count[p] /\ l = lost[p] /\ k = peak[p]
  BY DEF SandboxInv, SandboxTypeOK
<1>4. /\ q + a <= n + l + b /\ c <= k
      /\ n + b + 1 <= Limit + k \/ q + a <= k + l
      /\ Limit = 0 => c = 0 /\ q = 0
  BY <1>2, <1>3 DEF Accounted
<1>5. CASE Midnight
  <2>1. queuedToday'[p] = 0 /\ lost'[p] = 0 /\ count'[p] \in Nat
    BY <1>3, <1>5 DEF Midnight
  <2>2. peak'[p] = c
    BY <1>2, <1>5, WithinIsAccepted DEF Midnight, CallCount, SandboxInv
  <2> QED
    BY <1>1, <1>2, <1>4, <2>1, <2>2 DEF Accounted
<1>6. ASSUME NEW x \in Paths, SoonExpires(x) PROVE Accounted(p)'
  <2>1. /\ queuedToday'[p] = q /\ peak'[p] = k
        /\ \/ count'[p] = n /\ lost'[p] = l
           \/ count'[p] = 0 /\ lost'[p] = l + n
    BY <1>3, <1>6 DEF SoonExpires, SandboxInv, SandboxTypeOK
  <2> QED
    BY <1>1, <1>2, <1>4, <2>1, SandboxLimit DEF Accounted
<1> QED
  BY <1>5, <1>6

\* Test messages of a day pass the limit by no more than the calls that were
\* past the check at once and the messages whose count was lost.  (The check,
\* and INCR and EXPIRE after the message is queued: incrementUsage,
\* incrementPlaygroundUsage.)
THEOREM OvershootIsBounded == SandboxSpec => []SandboxOvershootBounded
<1>1. SandboxInit => AccountInv
  BY SandboxInitInv
<1>2. AccountInv /\ [SandboxNext]_sandboxVars => AccountInv'
  <2> SUFFICES ASSUME AccountInv, [SandboxNext]_sandboxVars PROVE AccountInv'
    OBVIOUS
  <2>1. /\ SandboxInv'
        /\ \/ \E r \in Requests : CallMove(r)
           \/ Midnight \/ \E p \in Paths : SoonExpires(p)
           \/ UNCHANGED <<pc, path, count, queuedToday, lost, peak>>
    BY SandboxTypeStep DEF AccountInv
  <2>2. CASE UNCHANGED <<pc, path, count, queuedToday, lost, peak>>
    <3>1. \A p, L : CallCount(p, L)' = CallCount(p, L)
      BY <2>2, CallsStay DEF AccountInv, SandboxInv
    <3> QED
      BY <2>1, <2>2, <3>1 DEF AccountInv, Accounted
  <2>3. CASE \E r \in Requests : CallMove(r)
    BY <2>1, <2>3, MoveAccounted DEF AccountInv
  <2>4. CASE Midnight \/ \E p \in Paths : SoonExpires(p)
    BY <2>1, <2>4, CountersAccounted DEF AccountInv
  <2> QED
    BY <2>1, <2>2, <2>3, <2>4
<1>3. AccountInv => SandboxOvershootBounded
  <2> SUFFICES ASSUME AccountInv, NEW p \in Paths, queuedToday[p] # 0
               PROVE  queuedToday[p] + 1 <= Limit + peak[p] + lost[p]
    BY DEF SandboxOvershootBounded
  <2>1. /\ CallCount(p, Unqueued) \in Nat /\ CallCount(p, Uncounted) \in Nat
    BY CallCounts DEF AccountInv
  <2>2. queuedToday[p] \in Nat /\ count[p] \in Nat /\ lost[p] \in Nat /\ peak[p] \in Nat
    BY DEF AccountInv, SandboxInv, SandboxTypeOK
  <2>3. Accounted(p)
    BY DEF AccountInv
  <2> QED
    BY <2>1, <2>2, <2>3, SandboxLimit DEF Accounted
<1> QED
  BY <1>1, <1>2, <1>3, PTL DEF SandboxSpec
=============================================================================
