------------------------------- MODULE Digest -------------------------------
(***************************************************************************)
(* Digests: entries buffered for a wallet, the hourly flush every gateway  *)
(* process runs without a lock, the digest queue, and the worker that      *)
(* sends one message for all entries of a job through module Dispatch.  A  *)
(* direct job, which mail.worker dispatches, is one of the initial states. *)
(***************************************************************************)
EXTENDS Dispatch

CONSTANTS
  Entries, Wallets, Processes,
  Scenes,       \* initial states: entries that get buffered, processes that flush,
                \* channels of the wallets
  MaxJobs,      \* bound: jobs of the digest queue that exist at once
  Attempts, MaxStalled,
  Direct,       \* pairs of channels held and order of a direct job
  DigestText,   \* length of the digest as an SMS
  MaxHours      \* bound: hours that pass over an unfinished job

ASSUME DigestBounds == MaxJobs \in Nat /\ MaxHours \in Nat
ASSUME DirectAssumption == Direct \subseteq (SUBSET Channels) \X Orders
ASSUME SceneAssumption == Scenes \subseteq (SUBSET Entries) \X (SUBSET Processes) \X (SUBSET Channels)
ASSUME DigestTextAssumption == DigestText \in Nat
ASSUME WalletsAssumption == Wallets # {}

VARIABLES
  scene,
  owner,        \* wallet of an entry
  entry,        \* absent, buffered, due
  sent,         \* entries with sentAt
  resolvable,   \* wallets with a notification, a pubkey and an identity
  bell,         \* processes whose cron is due
  hand,         \* due entries a flush read and has yet to add, or None
  jobs, load,   \* the digest queue
  fresh,        \* jobs whose id holds this millisecond
  doing,        \* the digest job a worker runs, or None
  late,
  \* History: mails that carried an entry; entries read while another flush or
  \* job still had them, or whose mail was out when their run was cut off.
  mails, excused

digestVars == <<scene, owner, entry, sent, resolvable, bell, hand, jobs, load, fresh, doing,
                late, mails, excused>>
vars == <<dispatchVars, suppressed, faults, digestVars>>

Jobs == 1..MaxJobs

Queue == INSTANCE BullQueue WITH NoWorker <- None

DigestOrder ==
  [tier |-> 1, preferred |-> None, channels |-> {}, excluded |-> {}, urgent |-> FALSE,
   hashed |-> FALSE, tracked |-> FALSE, overhead |-> 0, asciiHead |-> TRUE,
   text |-> [length |-> DigestText, spaces |-> {}, stops |-> {}, plain |-> 0]]

TypeOK ==
  /\ pc \in [Workers -> {"idle", "begin", "tasks", "settled", "mark"}]
  /\ order \in [Workers -> Orders]
  /\ held \in [Workers -> SUBSET Channels]
  /\ task \in [Workers -> [Channels -> TaskStates]]
  /\ stamped \subseteq Workers /\ suppressed \in BOOLEAN
  /\ scene \in Scenes \cup {<<{}, {}, {}>>}
  /\ owner \in [Entries -> Wallets]
  /\ entry \in [Entries -> {"absent", "buffered", "due"}]
  /\ sent \subseteq Entries /\ resolvable \subseteq Wallets
  /\ bell \subseteq Processes
  /\ hand \in [Processes -> (SUBSET Entries) \cup {None}]
  /\ jobs \in [Jobs -> Queue!Job] /\ load \in [Jobs -> SUBSET Entries]
  /\ fresh \subseteq Jobs
  /\ doing \in [Workers -> Jobs \cup {None}]
  /\ late \in 0..MaxHours /\ faults \in 0..MaxFaults
  /\ mails \in [Entries -> Nat] /\ excused \subseteq Entries

\* Either one worker has a direct job in hand, or entries may be buffered.
Init ==
  /\ \/ \E w \in {CHOOSE x \in Workers : TRUE}, d \in Direct :
          /\ pc = [v \in Workers |-> IF v = w THEN "begin" ELSE "idle"]
          /\ held = [v \in Workers |-> IF v = w THEN d[1] ELSE {}]
          /\ order = [v \in Workers |-> IF v = w THEN d[2] ELSE DigestOrder]
          /\ suppressed \in {FALSE, d[2].hashed}
          /\ scene = <<{}, {}, {}>> /\ owner \in [Entries -> {CHOOSE x \in Wallets : TRUE}]
          /\ resolvable = {}
     \/ /\ pc = [w \in Workers |-> "idle"]
        /\ order = [w \in Workers |-> DigestOrder]
        /\ suppressed = TRUE
        /\ scene \in Scenes /\ held = [w \in Workers |-> scene[3]]
        /\ owner \in [Entries -> Wallets]
        /\ resolvable = Wallets
  /\ task = [w \in Workers |-> NoTasks] /\ report = [w \in Workers |-> None]
  /\ stamped = {} /\ message = [w \in Workers |-> None]
  /\ entry = [e \in Entries |-> "absent"] /\ sent = {} /\ bell = {}
  /\ hand = [p \in Processes |-> None]
  /\ jobs = [j \in Jobs |-> Queue!NoJob] /\ load = [j \in Jobs |-> {}] /\ fresh = {}
  /\ doing = [w \in Workers |-> None]
  /\ late = 0 /\ faults = 0
  /\ mails = [e \in Entries |-> 0] /\ excused = {}

-----------------------------------------------------------------------------
Open(j) == jobs[j].state \in {"wait", "active"}
Kept(j) == Open(j) \/ \E w \in Workers : doing[w] = j

\* A row for the next full hour.
BufferForDigest(e) == entry[e] = "absent" /\ entry' = [entry EXCEPT ![e] = "buffered"]

\* A mail job in digest mode buffers its notification and ends.  One that is
\* retried because its status could not be written buffers another row.
ProcessDigestMode(e) ==
  /\ e \in scene[1] /\ BufferForDigest(e)
  /\ UNCHANGED <<dispatchVars, suppressed, faults, scene, owner, sent, resolvable, bell, hand, jobs,
                 load, fresh, doing, late, mails, excused>>

\* A full hour: buffered entries are due, and every process's cron fires, its
\* last flush long over.  Jobs that ended are removed (removeOnComplete).
HourPasses ==
  /\ bell = {} /\ \A p \in Processes : hand[p] = None
  /\ IF \E j \in Jobs : Open(j) THEN late < MaxHours /\ late' = late + 1 ELSE UNCHANGED late
  /\ jobs' = [j \in Jobs |-> IF Kept(j) THEN jobs[j] ELSE Queue!NoJob]
  /\ load' = [j \in Jobs |-> IF Kept(j) THEN load[j] ELSE {}]
  /\ entry' = [e \in Entries |-> IF entry[e] = "buffered" THEN "due" ELSE entry[e]]
  /\ bell' = scene[2] /\ fresh' = {}
  /\ UNCHANGED <<dispatchVars, suppressed, faults, scene, owner, sent, resolvable, hand, doing,
                 mails, excused>>

\* Mutant of DueEntries: entries already sent are read too.
DueEntriesAll(now) == {e \in Entries : entry[e] = "due"}

\* The rows the flush reads.
DueEntries(now) == {e \in Entries : entry[e] = "due" /\ e \notin now}

InHand(e) == \/ \E p \in Processes : hand[p] # None /\ e \in hand[p]
             \/ \E j \in Jobs : Open(j) /\ e \in load[j]

\* flushDueDigests reads what is due and unsent.
FlushRead(p) ==
  /\ p \in bell /\ hand[p] = None
  /\ bell' = bell \ {p}
  /\ LET found == DueEntries(sent) IN
     /\ hand' = [hand EXCEPT ![p] = IF found = {} THEN None ELSE found]
     /\ excused' = excused \cup {e \in found : InHand(e)}
  /\ UNCHANGED <<dispatchVars, suppressed, faults, scene, owner, entry, sent, resolvable, jobs, load,
                 fresh, doing, late, mails>>

Free(j)     == ~Kept(j) /\ j \notin fresh
NextFree(j) == Free(j) /\ \A k \in Jobs : Free(k) => j <= k

\* It adds one job per wallet; a job whose id another flush used in the same
\* millisecond is not added.  A failed add ends the flush.
FlushAdd(p) ==
  /\ hand[p] # None
  /\ \E x \in {owner[e] : e \in hand[p]} :
     LET mine == {e \in hand[p] : owner[e] = x}
         rest == hand[p] \ mine
     IN
     \/ /\ \E j \in Jobs :
           /\ NextFree(j)
           /\ jobs' = [jobs EXCEPT ![j] = Queue!Landed(Queue!NoJob)]
           /\ load' = [load EXCEPT ![j] = mine]
           /\ fresh' = fresh \cup {j}
        /\ hand' = [hand EXCEPT ![p] = IF rest = {} THEN None ELSE rest]
        /\ UNCHANGED faults
     \/ /\ \E j \in fresh : \A e \in load[j] : owner[e] = x
        /\ hand' = [hand EXCEPT ![p] = IF rest = {} THEN None ELSE rest]
        /\ UNCHANGED <<jobs, load, fresh, faults>>
     \/ /\ Fault
        /\ hand' = [hand EXCEPT ![p] = None]
        /\ UNCHANGED <<jobs, load, fresh>>
  /\ UNCHANGED <<dispatchVars, suppressed, scene, owner, entry, sent, resolvable, bell, doing, late, mails, excused>>

-----------------------------------------------------------------------------
Idle(w) == pc[w] = "idle" /\ doing[w] = None

Reset(w) ==
  /\ pc' = [pc EXCEPT ![w] = "idle"] /\ doing' = [doing EXCEPT ![w] = None]
  /\ task' = [task EXCEPT ![w] = NoTasks] /\ report' = [report EXCEPT ![w] = None]
  /\ message' = [message EXCEPT ![w] = None]
  /\ UNCHANGED <<order, held, stamped>>

\* The run throws: the queue retries the job while attempts are left.
Throws(w) ==
  /\ Fault /\ Reset(w)
  /\ jobs' = [jobs EXCEPT ![doing[w]] = Queue!Rejected(@, w)]
  /\ excused' = IF task[w]["email"] = "ok" THEN excused \cup load[doing[w]] ELSE excused

\* A wallet that no longer resolves is not written to, and its entries are
\* marked nonetheless; a failed look-up throws.
ProcessDigest(w) ==
  /\ Idle(w)
  /\ \E j \in Jobs :
     /\ jobs[j].state = "wait"
     /\ jobs' = [jobs EXCEPT ![j] = Queue!Claimed(@, w)]
     /\ doing' = [doing EXCEPT ![w] = j]
     /\ pc' = [pc EXCEPT ![w] =
                 IF \A e \in load[j] : owner[e] \in resolvable THEN "begin" ELSE "mark"]
  /\ UNCHANGED <<order, held, task, report, stamped, message, suppressed, faults, scene, owner,
                 entry, sent, resolvable, bell, hand, load, fresh, late, mails,
                 excused>>

LookUpFails(w) ==
  /\ doing[w] # None /\ pc[w] = "begin"
  /\ Throws(w)
  /\ UNCHANGED <<suppressed, scene, owner, entry, sent, resolvable, bell, hand, load, fresh, late, mails>>

\* The channels are served; an e-mail that goes out carries every entry.
DigestDispatch(w) ==
  /\ DispatchStep(w)
  /\ mails' = IF doing[w] # None /\ task[w]["email"] = "ready" /\ task'[w]["email"] = "ok"
                THEN [e \in Entries |-> mails[e] + (IF e \in load[doing[w]] THEN 1 ELSE 0)]
                ELSE mails
  /\ UNCHANGED <<scene, owner, entry, sent, resolvable, bell, hand, jobs, load, fresh, doing, late, excused>>

\* Mutant of Marked: only what was delivered is marked.
MarkedDelivered(w) ==
  IF pc[w] = "settled" /\ report[w].successes > 0 THEN load[doing[w]] ELSE {}

\* Entries are marked whether or not a channel took the digest.
Marked(w) == load[doing[w]]

MarkAsSent(w) ==
  /\ doing[w] # None /\ pc[w] \in {"settled", "mark"}
  /\ \/ /\ sent' = sent \cup Marked(w)
        /\ jobs' = [jobs EXCEPT ![doing[w]] = Queue!Acked(@, w)]
        /\ Reset(w) /\ UNCHANGED <<faults, excused>>
     \/ Throws(w) /\ UNCHANGED sent
  /\ UNCHANGED <<suppressed, scene, owner, entry, resolvable, bell, hand, load, fresh, late,
                 mails>>

\* The process dies.
Crash(w) ==
  /\ doing[w] # None /\ Fault /\ Reset(w)
  /\ excused' = IF task[w]["email"] = "ok" THEN excused \cup load[doing[w]] ELSE excused
  /\ UNCHANGED <<suppressed, scene, owner, entry, sent, resolvable, bell, hand, jobs, load,
                 fresh, late, mails>>

\* The stalled check finds a job whose lock ran out, its worker dead or slow.
LockExpires(j) ==
  /\ jobs[j].state = "active"
  /\ IF doing[jobs[j].owner] = j
       THEN Fault /\ excused' = excused \cup load[j]
       ELSE UNCHANGED <<faults, excused>>
  /\ jobs' = [jobs EXCEPT ![j] = Queue!Stalled(@)]
  /\ UNCHANGED <<dispatchVars, suppressed, scene, owner, entry, sent, resolvable, bell, hand,
                 load, fresh, doing, late, mails>>

\* The last active subscription that knows the pubkey goes, or the identity.
BecomesUnresolvable(x) ==
  /\ x \in resolvable /\ Fault
  /\ resolvable' = resolvable \ {x}
  /\ UNCHANGED <<dispatchVars, suppressed, scene, owner, entry, sent, bell, hand, jobs, load,
                 fresh, doing, late, mails, excused>>

Run(w) ==
  \/ ProcessDigest(w) \/ LookUpFails(w) \/ DigestDispatch(w) \/ MarkAsSent(w) \/ Crash(w)

Next ==
  \/ \E e \in Entries : ProcessDigestMode(e)
  \/ HourPasses
  \/ \E p \in Processes : FlushRead(p) \/ FlushAdd(p)
  \/ \E w \in Workers : Run(w)
  \/ \E j \in Jobs : LockExpires(j)
  \/ \E x \in Wallets : BecomesUnresolvable(x)

\* Crons fire every hour, started flushes go on, waiting jobs are taken and
\* runs end, and the stalled check finds the job of a dead worker.
Fairness ==
  /\ WF_vars(HourPasses)
  /\ \A p \in Processes : WF_vars(FlushRead(p)) /\ WF_vars(FlushAdd(p))
  /\ \A w \in Workers : WF_vars(ProcessDigest(w)) /\ WF_vars(DigestDispatch(w))
                        /\ WF_vars(MarkAsSent(w))
  /\ \A j \in Jobs : WF_vars(LockExpires(j))

Spec == Init /\ [][Next]_vars /\ Fairness

-----------------------------------------------------------------------------
\* No lock, claim or idempotency key keeps two flushes or two runs off the
\* same entry.  Still, an entry is mailed more than once only when a flush
\* read it while another flush or job had it, or when a run was cut off after
\* its mail was out: once marked it never goes out again, whichever hour,
\* process or failed attempt follows (flushDueDigests, DigestWorker.process).
DigestRepeatExplained ==
  \A e \in Entries : mails[e] > 1 => e \in excused

\* An entry that is due is marked in the end, though flushes fail half way,
\* jobs use up their attempts and workers die: the next hour reads it again
\* (flushDueDigests, DigestWorker.process).
DigestSettles ==
  \A e \in Entries : entry[e] = "due" ~> e \in sent
=============================================================================
