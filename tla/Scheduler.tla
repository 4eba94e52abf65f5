------------------------------ MODULE Scheduler ------------------------------
(***************************************************************************)
(* SchedulerService: scheduled notifications, their cancellation, and the  *)
(* five-minute cron that turns overdue ones into Notification rows and     *)
(* BullMQ jobs.  Nothing keeps one tick of the cron from overlapping the   *)
(* next one, or the same cron of another process, so several passes run.   *)
(***************************************************************************)
EXTENDS Integers, FiniteSets, Faults

CONSTANTS
  Schedules,   \* rows of scheduled_notifications
  NoSchedule,
  Recurring,   \* those of type RECURRING
  Passes,      \* executions of reconcilePendingJobs that may overlap
  Take,        \* rows one pass reads: "take"
  MaxDue       \* bound: how often a schedule comes due

ASSUME ScheduleAssumption == /\ NoSchedule \notin Schedules
                             /\ Recurring \subseteq Schedules
ASSUME TakeAssumption     == Take \in Nat \ {0}
ASSUME BoundsAssumption   == MaxDue \in Nat
ASSUME PassesAssumption   == IsFiniteSet(Passes)

VARIABLES
  status,     \* status of the schedule; "none" before it is created
  due,        \* nextRunAt <= now
  dues,       \* how often it came due
  wallet,     \* the schedules that name a wallet
  ppc,        \* where a pass is
  batch,      \* the rows it read and has not begun
  cur,        \* the row it works on
  queued,     \* jobs ever added for a schedule
  job,        \* the job with jobId scheduled-<id>
  removed     \* schedules whose finished job was removed in front of a pass

vars == <<status, due, dues, wallet, ppc, batch, cur, queued, job, removed, faults>>

Status  == {"none", "PENDING", "RUNNING", "COMPLETED", "FAILED", "CANCELLED"}
PassPC  == {"idle", "next", "create", "add", "settle", "recover"}
JobKept == {"absent", "live", "finished"}

Init ==
  /\ status = [s \in Schedules |-> "none"]
  /\ due    = [s \in Schedules |-> FALSE]
  /\ dues   = [s \in Schedules |-> 0]
  /\ wallet = {}
  /\ ppc    = [p \in Passes |-> "idle"]
  /\ batch  = [p \in Passes |-> {}]
  /\ cur    = [p \in Passes |-> NoSchedule]
  /\ queued = [s \in Schedules |-> 0]
  /\ job    = [s \in Schedules |-> "absent"]
  /\ removed = {}
  /\ faults = 0

Goto(p, l) == ppc' = [ppc EXCEPT ![p] = l]

\* scheduleOnce and scheduleRecurring; for a schedule without a wallet a pass
\* sends nothing.
Schedule(s) ==
  /\ status[s] = "none"
  /\ status' = [status EXCEPT ![s] = "PENDING"]
  /\ wallet' \in {wallet, wallet \cup {s}}
  /\ UNCHANGED <<due, dues, ppc, batch, cur, queued, job, removed, faults>>

\* nextRunAt passes.
ComesDue(s) ==
  /\ status[s] # "none"
  /\ ~due[s]
  /\ dues[s] < MaxDue
  /\ due'  = [due EXCEPT ![s] = TRUE]
  /\ dues' = [dues EXCEPT ![s] = @ + 1]
  /\ UNCHANGED <<status, wallet, ppc, batch, cur, queued, job, removed, faults>>

\* cancelScheduled: a conditional update; the answer is always "cancelled".
Cancel(s) ==
  /\ status[s] = "PENDING"
  /\ status' = [status EXCEPT ![s] = "CANCELLED"]
  /\ UNCHANGED <<due, dues, wallet, ppc, batch, cur, queued, job, removed, faults>>

Overdue == {s \in Schedules : status[s] = "PENDING" /\ due[s]}

\* Mutant of Tick: no pass begins while a schedule is RUNNING.
TickUnlessRunning(p) ==
  /\ ppc[p] = "idle"
  /\ Overdue # {}
  /\ \A s \in Schedules : status[s] # "RUNNING"
  /\ batch' = [batch EXCEPT ![p] = Overdue]
  /\ Goto(p, "next")
  /\ UNCHANGED <<status, due, dues, wallet, cur, queued, job, removed, faults>>

\* A tick of the cron: findMany with take and no order.
Tick(p) ==
  /\ ppc[p] = "idle"
  /\ Overdue # {}
  /\ \E b \in SUBSET Overdue :
       /\ \/ b = Overdue /\ Cardinality(b) <= Take
          \/ Cardinality(b) = Take
       /\ batch' = [batch EXCEPT ![p] = b]
  /\ Goto(p, "next")
  /\ UNCHANGED <<status, due, dues, wallet, cur, queued, job, removed, faults>>

\* The next row of the loop is marked RUNNING, whatever it is by now.
MarkRunning(p, s) ==
  /\ ppc[p] = "next"
  /\ s \in batch[p]
  /\ cur' = [cur EXCEPT ![p] = s]
  /\ batch' = [batch EXCEPT ![p] = @ \ {s}]
  /\ \/ /\ status' = [status EXCEPT ![s] = "RUNNING"]
        /\ Goto(p, IF s \in wallet THEN "create" ELSE "settle")
        /\ UNCHANGED faults
     \/ Fault /\ Goto(p, "recover") /\ UNCHANGED status
  /\ UNCHANGED <<due, dues, wallet, queued, job, removed>>

\* INSERT of the Notification row, under a fresh uuid; no pass reads it.
CreateRow(p) ==
  /\ ppc[p] = "create"
  /\ \/ Goto(p, "add") /\ UNCHANGED faults
     \/ Fault /\ Goto(p, "recover")
  /\ UNCHANGED <<status, due, dues, wallet, batch, cur, queued, job, removed>>

\* Mutant of AddedJob: the job has no jobId of its own.
AddedAlways(s) ==
  /\ job' = [job EXCEPT ![s] = "live"]
  /\ queued' = [queued EXCEPT ![s] = @ + 1]

\* An add whose jobId is taken, by a live job or by a finished one that is
\* still kept, changes nothing and reports no error.
AddedJob(s) ==
  \/ /\ job[s] = "absent"
     /\ job' = [job EXCEPT ![s] = "live"]
     /\ queued' = [queued EXCEPT ![s] = @ + 1]
  \/ /\ job[s] # "absent"
     /\ UNCHANGED <<job, queued>>

\* A failed add may have reached Redis all the same.
AddJob(p) ==
  /\ ppc[p] = "add"
  /\ \/ AddedJob(cur[p]) /\ Goto(p, "settle") /\ UNCHANGED faults
     \/ /\ Fault
        /\ Goto(p, "recover")
        /\ AddedJob(cur[p]) \/ UNCHANGED <<job, queued>>
  /\ UNCHANGED <<status, due, dues, wallet, batch, cur, removed>>

\* The loop body is over.
NextRow(p) ==
  /\ Goto(p, IF batch[p] = {} THEN "idle" ELSE "next")
  /\ cur' = [cur EXCEPT ![p] = NoSchedule]

\* Mutant of Settle: a recurring schedule gets a new nextRunAt but stays
\* RUNNING.
SettleTimeOnly(p) ==
  /\ ppc[p] = "settle"
  /\ due' = [due EXCEPT ![cur[p]] = FALSE]
  /\ NextRow(p)
  /\ UNCHANGED <<status, dues, wallet, batch, queued, job, removed, faults>>

\* A recurring schedule is due again later, another one is over.
Settle(p) ==
  /\ ppc[p] = "settle"
  /\ \/ /\ cur[p] \in Recurring
        /\ status' = [status EXCEPT ![cur[p]] = "PENDING"]
        /\ due' = [due EXCEPT ![cur[p]] = FALSE]
        /\ NextRow(p)
        /\ UNCHANGED faults
     \/ /\ cur[p] \notin Recurring
        /\ status' = [status EXCEPT ![cur[p]] = "COMPLETED"]
        /\ NextRow(p)
        /\ UNCHANGED <<due, faults>>
     \/ /\ Fault
        /\ Goto(p, "recover")
        /\ UNCHANGED <<status, due, cur>>
  /\ UNCHANGED <<dues, wallet, batch, queued, job, removed>>

\* The catch of the loop body; an error of its own is swallowed.
Recover(p) ==
  /\ ppc[p] = "recover"
  /\ \/ /\ status' = [status EXCEPT ![cur[p]] = "FAILED"]
        /\ UNCHANGED faults
     \/ Fault /\ UNCHANGED status
  /\ NextRow(p)
  /\ UNCHANGED <<due, dues, wallet, batch, queued, job, removed>>

\* The process of a pass dies.
Crash(p) ==
  /\ ppc[p] # "idle"
  /\ Fault
  /\ Goto(p, "idle")
  /\ batch' = [batch EXCEPT ![p] = {}]
  /\ cur' = [cur EXCEPT ![p] = NoSchedule]
  /\ UNCHANGED <<status, due, dues, wallet, queued, job, removed>>

\* A worker is done with the job; BullMQ keeps it.
JobFinishes(s) ==
  /\ job[s] = "live"
  /\ job' = [job EXCEPT ![s] = "finished"]
  /\ UNCHANGED <<status, due, dues, wallet, ppc, batch, cur, queued, removed, faults>>

\* Some pass read the row and is not done with it.
Held(s) == \E p \in Passes : cur[p] = s \/ s \in batch[p]

\* A kept job is removed: by age, or because a job of a request ends and its
\* removeOnComplete or removeOnFail trims the finished jobs of the whole queue
\* by count.  Nothing says that no pass holds the row any more.
JobRemoved(s) ==
  /\ job[s] = "finished"
  /\ job' = [job EXCEPT ![s] = "absent"]
  /\ removed' = IF Held(s) THEN removed \cup {s} ELSE removed
  /\ UNCHANGED <<status, due, dues, wallet, ppc, batch, cur, queued, faults>>

PassStep(p) ==
  \/ \E s \in Schedules : MarkRunning(p, s)
  \/ CreateRow(p) \/ AddJob(p) \/ Settle(p) \/ Recover(p)

Next ==
  \/ \E s \in Schedules : \/ Schedule(s) \/ ComesDue(s) \/ Cancel(s)
                          \/ JobFinishes(s) \/ JobRemoved(s)
  \/ \E p \in Passes : Tick(p) \/ PassStep(p) \/ Crash(p)

Spec == Init /\ [][Next]_vars

\* The cron ticks and a pass that began goes on.
Fairness == \A p \in Passes : WF_vars(Tick(p)) /\ WF_vars(PassStep(p))

FairSpec == Spec /\ Fairness

-----------------------------------------------------------------------------
(* Properties *)

\* Every variable keeps its type.
TypeOK ==
  /\ status \in [Schedules -> Status]
  /\ due    \in [Schedules -> BOOLEAN]
  /\ dues   \in [Schedules -> Nat]
  /\ wallet \in SUBSET Schedules
  /\ ppc    \in [Passes -> PassPC]
  /\ batch  \in [Passes -> SUBSET Schedules]
  /\ cur    \in [Passes -> Schedules \cup {NoSchedule}]
  /\ queued \in [Schedules -> Nat]
  /\ job    \in [Schedules -> JobKept]
  /\ removed \in SUBSET Schedules
  /\ faults \in Nat

\* A RUNNING schedule has a pass at work on it: only a fault can leave one
\* behind that nobody will ever pick up again.  (The status updates of
\* reconcilePendingJobs, which reads PENDING rows only.)
RunningOwned ==
  \A s \in Schedules :
    status[s] = "RUNNING" => faults > 0 \/ \E p \in Passes : cur[p] = s

\* A one-time schedule is handed to the workers once, also when passes
\* overlap: the second add meets the jobId of the first, for as long as that
\* job is kept.  If it is removed while a pass still holds the row, then at
\* most once by each of the passes: no pass reads the row after the first of
\* them began with it.  (jobId and the RUNNING mark in reconcilePendingJobs;
\* removeOnComplete and removeOnFail in enqueueNotification.)
OneTimeSentOnce ==
  \A s \in Schedules \ Recurring :
    queued[s] <= IF s \in removed THEN Cardinality(Passes) ELSE 1

\* An overdue schedule does not stay overdue: it is run, fails or is
\* cancelled.  (The cron of reconcilePendingJobs.)
OverdueSettles ==
  \A s \in Schedules : s \in Overdue ~> s \notin Overdue
=============================================================================
