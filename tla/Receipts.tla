------------------------------ MODULE Receipts ------------------------------
(***************************************************************************)
(* ZK delivery receipts: ReceiptService, whose cron scans for delivered    *)
(* notifications without a receipt under one lock per five-minute window   *)
(* and adds a batch job, and ReceiptWorker, which writes a receipt on      *)
(* Solana for each notification of a batch and saves the transaction.      *)
(*                                                                         *)
(* The chain is external: the address of a receipt can be taken only once, *)
(* a transaction lands with or without an error or expires, and one that   *)
(* nobody waits for any more may still land.  A member of Windows stands   *)
(* for a window until its job is over and for a later one after that.      *)
(***************************************************************************)
EXTENDS Integers, Sequences, FiniteSets, BullQueue, Faults

CONSTANTS
  Notifications,
  BadKeys,     \* those whose protocol has no valid public key
  Ownerless,   \* those whose protocol has an empty one
  Scanners,    \* processes that run the cron
  Windows, NoWindow,
  BatchSize    \* RECEIPT_BATCH_SIZE

ASSUME ReceiptAssumption == /\ BadKeys \cup Ownerless \subseteq Notifications
                            /\ BadKeys \cap Ownerless = {}
                            /\ NoWindow \notin Windows
                            /\ BatchSize \in Nat \ {0}

VARIABLES
  delivered,  \* delivered notifications, oldest first
  wanted,     \* write_receipt
  saved,      \* receipt_tx: the fate of the transaction saved, or "none"
  refused,    \* those with a receipt_failure_reason
  lock,       \* windows whose receipt-scan-lock is set
  spc, win,   \* where a scan is, and its window
  found,      \* the notifications it read
  batchJob, batchOf, \* the job receipt-batch-<window> and its notifications
  wpc, wwin,  \* where the run of a worker is, and the window of its job
  todo,       \* the notifications it has left, the current one first
  tx,         \* its transaction for the current one
  chain,      \* notifications with a receipt on chain
  stray,      \* those with a transaction in flight nobody waits for
  \* History: notifications a run lost sight of, its call or process failing
  \* after the send; those a worker began to write while another was at it.
  lostSight, doubled

deliveryVars == <<delivered, wanted, saved, refused>>
scanVars     == <<lock, spc, win, found>>
workVars     == <<wpc, wwin, todo, tx>>
sightVars    == <<lostSight, doubled>>
receiptsVars == <<delivered, wanted, saved, refused, lock, spc, win, found, batchJob,
                  batchOf, wpc, wwin, todo, tx, chain, stray, lostSight, doubled, faults>>

ReceiptsInit ==
  /\ delivered = <<>>
  /\ wanted    = Notifications
  /\ saved     = [n \in Notifications |-> "none"]
  /\ refused   = {}
  /\ lock      = {}
  /\ spc       = [p \in Scanners |-> "idle"]
  /\ win       = [p \in Scanners |-> NoWindow]
  /\ found     = [p \in Scanners |-> <<>>]
  /\ batchJob  = [x \in Windows |-> NoJob]
  /\ batchOf   = [x \in Windows |-> <<>>]
  /\ wpc       = [w \in Workers |-> "idle"]
  /\ wwin      = [w \in Workers |-> NoWindow]
  /\ todo      = [w \in Workers |-> <<>>]
  /\ tx        = [w \in Workers |-> "none"]
  /\ chain     = {}
  /\ stray     = {}
  /\ lostSight = {}
  /\ doubled   = {}
  /\ faults    = 0

\* MailWorker records the delivery.
Deliver(n) ==
  /\ \A i \in DOMAIN delivered : delivered[i] # n
  /\ delivered' = Append(delivered, n)
  /\ UNCHANGED <<wanted, saved, refused, scanVars, batchJob, batchOf, workVars, chain,
                 stray, faults, sightVars>>

-----------------------------------------------------------------------------
(* ReceiptService.enqueueReceiptBatches, run by scanner p *)

ScanEnds(p) ==
  /\ spc'   = [spc EXCEPT ![p] = "idle"]
  /\ win'   = [win EXCEPT ![p] = NoWindow]
  /\ found' = [found EXCEPT ![p] = <<>>]

\* Mutant of LockFree: SET without NX.
LockTaken(x) == TRUE

\* SET receipt-scan-lock:<window> NX; a scanner that finds it taken returns.
LockFree(x) == x \notin lock

Lock(p, x) ==
  /\ spc[p] = "idle"
  /\ LockFree(x)
  /\ lock' = lock \cup {x}
  /\ spc'  = [spc EXCEPT ![p] = "find"]
  /\ win'  = [win EXCEPT ![p] = x]
  /\ UNCHANGED <<found, deliveryVars, batchJob, batchOf, workVars, chain, stray, faults, sightVars>>

Pending(n) == n \in wanted /\ saved[n] = "none" /\ n \notin refused

\* getNotificationStatus: what GET /v1/notifications/:id says of the receipt.
ReceiptStatus(n) ==
  CASE n \notin wanted -> "disabled"
    [] n \in wanted /\ saved[n] # "none" -> "confirmed"
    [] n \in wanted /\ saved[n] = "none" /\ n \in refused -> "failed"
    [] OTHER -> "pending"

Waiting == {i \in DOMAIN delivered : Pending(delivered[i])}

\* Every list the query can return is one of these.
Lists == UNION {[1..k -> Notifications] : k \in 0..Cardinality(Notifications)}

\* orderBy deliveredAt, take: the k-th of the list is the pending notification
\* with k - 1 delivered before it.
Oldest(list) ==
  /\ Len(list) = IF Cardinality(Waiting) < BatchSize THEN Cardinality(Waiting) ELSE BatchSize
  /\ \A k \in DOMAIN list :
       \E i \in Waiting : /\ list[k] = delivered[i]
                          /\ Cardinality({j \in Waiting : j < i}) = k - 1

FindPending(p) ==
  /\ spc[p] = "find"
  /\ \/ \E list \in Lists :
          /\ Oldest(list)
          /\ \/ /\ list # <<>>
                /\ found' = [found EXCEPT ![p] = list]
                /\ spc' = [spc EXCEPT ![p] = "add"]
                /\ UNCHANGED win
             \/ list = <<>> /\ ScanEnds(p)
          /\ UNCHANGED faults
     \/ Fault /\ ScanEnds(p)
  /\ UNCHANGED <<lock, deliveryVars, batchJob, batchOf, workVars, chain, stray, sightVars>>

\* An add under a jobId that is taken changes nothing.
AddBatch(p) ==
  /\ spc[p] = "add"
  /\ \/ /\ batchJob[win[p]].state = "absent"
        /\ batchJob' = [batchJob EXCEPT ![win[p]] = Landed(@)]
        /\ batchOf' = [batchOf EXCEPT ![win[p]] = found[p]]
        /\ UNCHANGED faults
     \/ batchJob[win[p]].state # "absent" /\ UNCHANGED <<batchJob, batchOf, faults>>
     \/ Fault /\ UNCHANGED <<batchJob, batchOf>>
  /\ ScanEnds(p)
  /\ UNCHANGED <<lock, deliveryVars, workVars, chain, stray, sightVars>>

\* The process of a scan dies; the lock stays.
ScanCrash(p) ==
  /\ spc[p] # "idle"
  /\ Fault
  /\ ScanEnds(p)
  /\ UNCHANGED <<lock, deliveryVars, batchJob, batchOf, workVars, chain, stray, sightVars>>

\* The next window begins, with a lock and a job of its own.
WindowPasses(x) ==
  /\ x \in lock
  /\ batchJob[x].state = "absent" \/ Finished(batchJob[x])
  /\ \A p \in Scanners : win[p] # x
  /\ \A w \in Workers : wwin[w] # x
  /\ lock'  = lock \ {x}
  /\ batchJob'   = [batchJob EXCEPT ![x] = NoJob]
  /\ batchOf' = [batchOf EXCEPT ![x] = <<>>]
  /\ UNCHANGED <<spc, win, found, deliveryVars, workVars, chain, stray, faults, sightVars>>

-----------------------------------------------------------------------------
(* ReceiptWorker.process, run by worker w *)

WorkerAt(w, l) == wpc' = [wpc EXCEPT ![w] = l]

ClaimBatch(w, x) ==
  /\ wpc[w] = "idle"
  /\ batchJob[x].state = "wait"
  /\ batchJob'  = [batchJob EXCEPT ![x] = Claimed(@, w)]
  /\ wwin' = [wwin EXCEPT ![w] = x]
  /\ todo' = [todo EXCEPT ![w] = batchOf[x]]
  /\ WorkerAt(w, "start")
  /\ UNCHANGED <<tx, deliveryVars, scanVars, batchOf, chain, stray, faults, sightVars>>

\* The authority's key is loaded asynchronously and may not be there yet.
CheckAuthority(w) ==
  /\ wpc[w] = "start"
  /\ \/ WorkerAt(w, "row") /\ UNCHANGED faults
     \/ Fault /\ WorkerAt(w, "thrown")
  /\ UNCHANGED <<wwin, todo, tx, deliveryVars, scanVars, batchJob, batchOf, chain, stray, sightVars>>

Current(w) == Head(todo[w])

NextMember(w) ==
  /\ todo' = [todo EXCEPT ![w] = Tail(@)]
  /\ tx'   = [tx EXCEPT ![w] = "none"]
  /\ WorkerAt(w, IF Len(todo[w]) = 1 THEN "done" ELSE "row")

\* The run is between the decision to send and the save.
Writing(w) == wpc[w] \in {"send", "confirm", "save"}

\* Owner, proof and instruction.  A notification without an owner is passed
\* over, and stays as it is.  Whether the receipt is still wanted is not looked
\* up; the proof fails when the address is taken.
PrepareRow(w) ==
  /\ wpc[w] = "row"
  /\ \/ Current(w) \in Ownerless /\ NextMember(w) /\ UNCHANGED doubled
     \/ /\ Current(w) \in BadKeys
        /\ WorkerAt(w, "disable")
        /\ UNCHANGED <<todo, tx, doubled>>
     \/ /\ Current(w) \notin BadKeys \cup Ownerless \cup chain
        /\ WorkerAt(w, "send")
        /\ doubled' = IF \E v \in Workers \ {w} : Writing(v) /\ Current(v) = Current(w)
                        THEN doubled \cup {Current(w)} ELSE doubled
        /\ UNCHANGED <<todo, tx>>
     \/ WorkerAt(w, "fail") /\ UNCHANGED <<todo, tx, doubled>>
  /\ UNCHANGED <<wwin, deliveryVars, scanVars, batchJob, batchOf, chain, stray, lostSight,
                 faults>>

\* writeReceipt := false; an error goes to the catch.
DisableRow(w) ==
  /\ wpc[w] = "disable"
  /\ \/ wanted' = wanted \ {Current(w)} /\ NextMember(w) /\ UNCHANGED faults
     \/ Fault /\ WorkerAt(w, "fail") /\ UNCHANGED <<wanted, todo, tx>>
  /\ UNCHANGED <<wwin, delivered, saved, refused, scanVars, batchJob, batchOf, chain,
                 stray, sightVars>>

\* Sign and send: accepted, rejected by the simulation, or the answer is lost.
Send(w) ==
  /\ wpc[w] = "send"
  /\ \/ /\ Current(w) \notin chain
        /\ tx' = [tx EXCEPT ![w] = "sent"]
        /\ WorkerAt(w, "confirm")
        /\ UNCHANGED <<stray, lostSight, faults>>
     \/ WorkerAt(w, "fail") /\ UNCHANGED <<tx, stray, lostSight, faults>>
     \/ /\ Fault
        /\ stray' = stray \cup {Current(w)}
        /\ lostSight' = lostSight \cup {Current(w)}
        /\ WorkerAt(w, "fail")
        /\ UNCHANGED tx
  /\ UNCHANGED <<wwin, todo, deliveryVars, scanVars, batchJob, batchOf, chain, doubled>>

\* The chain executes the transaction, or its blockhash expires.
TxSettles(w) ==
  /\ tx[w] = "sent"
  /\ \/ /\ Current(w) \notin chain
        /\ chain' = chain \cup {Current(w)}
        /\ tx' = [tx EXCEPT ![w] = "ok"]
     \/ \E f \in {"err", "expired"} :
          tx' = [tx EXCEPT ![w] = f] /\ UNCHANGED chain
  /\ UNCHANGED <<wpc, wwin, todo, deliveryVars, scanVars, batchJob, batchOf, stray, sightVars,
                 faults>>

StraySettles(n) ==
  /\ n \in stray
  /\ stray' = stray \ {n}
  /\ chain' \in {chain, chain \cup {n}}
  /\ UNCHANGED <<deliveryVars, scanVars, batchJob, batchOf, workVars, sightVars, faults>>

LeftBehind(w) == IF tx[w] = "sent" THEN stray \cup {Current(w)} ELSE stray

\* confirmTransaction resolves for a transaction that landed; the error in
\* its result is not looked at.
Confirmed(t) == t \in {"ok", "err"}

\* Mutant of Confirm: an answer is not waited for.
ConfirmGivesUp(w) ==
  /\ wpc[w] = "confirm"
  /\ WorkerAt(w, "fail")
  /\ stray' = LeftBehind(w)
  /\ UNCHANGED <<wwin, todo, tx, deliveryVars, scanVars, batchJob, batchOf, chain, faults, sightVars>>

Confirm(w) ==
  /\ wpc[w] = "confirm"
  /\ \/ Confirmed(tx[w]) /\ WorkerAt(w, "save") /\ UNCHANGED <<tx, stray, lostSight, faults>>
     \/ tx[w] = "expired" /\ WorkerAt(w, "fail") /\ UNCHANGED <<tx, stray, lostSight, faults>>
     \/ /\ Fault
        /\ stray' = LeftBehind(w)
        /\ lostSight' = lostSight \cup {Current(w)}
        /\ tx' = [tx EXCEPT ![w] = "none"]
        /\ WorkerAt(w, "fail")
  /\ UNCHANGED <<wwin, todo, deliveryVars, scanVars, batchJob, batchOf, chain, doubled>>

\* receiptTx := the transaction; an error goes to the catch.
Save(w) ==
  /\ wpc[w] = "save"
  /\ \/ /\ saved' = [saved EXCEPT ![Current(w)] = tx[w]]
        /\ NextMember(w)
        /\ UNCHANGED <<lostSight, faults>>
     \/ /\ Fault
        /\ lostSight' = lostSight \cup {Current(w)}
        /\ WorkerAt(w, "fail")
        /\ UNCHANGED <<saved, todo, tx>>
  /\ UNCHANGED <<wwin, delivered, wanted, refused, scanVars, batchJob, batchOf, chain,
                 stray, doubled>>

\* Mutant of Refuse: the failure is only logged.
RefuseLogged(w) ==
  /\ wpc[w] = "fail"
  /\ NextMember(w)
  /\ UNCHANGED <<wwin, deliveryVars, scanVars, batchJob, batchOf, chain, stray, faults, sightVars>>

\* The catch: receiptFailureReason; an error of its own fails the job.
Refuse(w) ==
  /\ wpc[w] = "fail"
  /\ \/ refused' = refused \cup {Current(w)} /\ NextMember(w) /\ UNCHANGED faults
     \/ Fault /\ WorkerAt(w, "thrown") /\ UNCHANGED <<refused, todo, tx>>
  /\ UNCHANGED <<wwin, delivered, wanted, saved, scanVars, batchJob, batchOf, chain,
                 stray, sightVars>>

BatchOver(w) ==
  /\ wpc'  = [wpc EXCEPT ![w] = "idle"]
  /\ wwin' = [wwin EXCEPT ![w] = NoWindow]
  /\ todo' = [todo EXCEPT ![w] = <<>>]
  /\ tx'   = [tx EXCEPT ![w] = "none"]

FinishBatch(w) ==
  /\ wpc[w] \in {"done", "thrown"}
  /\ batchJob' = [batchJob EXCEPT ![wwin[w]] =
               IF wpc[w] = "done" THEN Acked(@, w) ELSE Rejected(@, w)]
  /\ BatchOver(w)
  /\ UNCHANGED <<deliveryVars, scanVars, batchOf, chain, stray, faults, sightVars>>

WorkerCrash(w) ==
  /\ wpc[w] # "idle"
  /\ Fault
  /\ stray' = LeftBehind(w)
  /\ lostSight' = IF tx[w] \in {"sent", "ok"} THEN lostSight \cup {Current(w)} ELSE lostSight
  /\ BatchOver(w)
  /\ UNCHANGED <<deliveryVars, scanVars, batchJob, batchOf, chain, doubled>>

StallBatch(x) ==
  /\ batchJob[x].state = "active"
  /\ batchJob' = [batchJob EXCEPT ![x] = Stalled(@)]
  /\ UNCHANGED <<deliveryVars, scanVars, batchOf, workVars, chain, stray, faults, sightVars>>

-----------------------------------------------------------------------------
ScanStep(p) == FindPending(p) \/ AddBatch(p)

WorkerStep(w) ==
  \/ CheckAuthority(w) \/ PrepareRow(w) \/ DisableRow(w) \/ Send(w)
  \/ Confirm(w) \/ Save(w) \/ Refuse(w) \/ FinishBatch(w)

ReceiptsNext ==
  \/ \E n \in Notifications : Deliver(n) \/ StraySettles(n)
  \/ \E p \in Scanners : ScanStep(p) \/ ScanCrash(p)
  \/ \E p \in Scanners, x \in Windows : Lock(p, x)
  \/ \E x \in Windows : WindowPasses(x) \/ StallBatch(x)
  \/ \E w \in Workers, x \in Windows : ClaimBatch(w, x)
  \/ \E w \in Workers : WorkerStep(w) \/ TxSettles(w) \/ WorkerCrash(w)

ReceiptsSpec == ReceiptsInit /\ [][ReceiptsNext]_receiptsVars

BatchOrphaned(x) == \A w \in Workers : batchJob[x].owner = w => wwin[w] # x

\* The cron ticks in every window, scans and runs go on, a transaction lands
\* or expires, waiting jobs are claimed, jobs of dead workers are found.
ReceiptsFairness ==
  /\ \A p \in Scanners : WF_receiptsVars(ScanStep(p))
  /\ \A x \in Windows : SF_receiptsVars(\E p \in Scanners : Lock(p, x))
  /\ \A x \in Windows : WF_receiptsVars(WindowPasses(x))
  /\ \A x \in Windows : SF_receiptsVars(\E w \in Workers : ClaimBatch(w, x))
  /\ \A x \in Windows : WF_receiptsVars(BatchOrphaned(x) /\ StallBatch(x))
  /\ \A w \in Workers : WF_receiptsVars(WorkerStep(w)) /\ WF_receiptsVars(TxSettles(w))

ReceiptsFairSpec == ReceiptsSpec /\ ReceiptsFairness

-----------------------------------------------------------------------------
(* Properties *)

Fate == {"none", "sent", "ok", "err", "expired"}

\* Every variable keeps its type.
ReceiptsTypeOK ==
  /\ delivered \in Seq(Notifications)
  /\ wanted \in SUBSET Notifications
  /\ saved \in [Notifications -> Fate]
  /\ refused \in SUBSET Notifications
  /\ lock \in SUBSET Windows
  /\ spc \in [Scanners -> {"idle", "find", "add"}]
  /\ win \in [Scanners -> Windows \cup {NoWindow}]
  /\ found \in [Scanners -> Seq(Notifications)]
  /\ batchJob \in [Windows -> Job]
  /\ batchOf \in [Windows -> Seq(Notifications)]
  /\ wpc \in [Workers -> {"idle", "start", "row", "disable", "send", "confirm",
                          "save", "fail", "done", "thrown"}]
  /\ wwin \in [Workers -> Windows \cup {NoWindow}]
  /\ todo \in [Workers -> Seq(Notifications)]
  /\ tx \in [Workers -> Fate]
  /\ chain \in SUBSET Notifications
  /\ stray \in SUBSET Notifications
  /\ lostSight \in SUBSET Notifications
  /\ doubled \in SUBSET Notifications
  /\ faults \in Nat

\* A batch that was read is not lost to a jobId that is taken: the lock
\* admits one scan per window.  (The NX lock and the jobId of
\* enqueueReceiptBatches.)
BatchNotDropped ==
  \A p \in Scanners : spc[p] = "add" => batchJob[win[p]].state = "absent"

\* The row of a receipt on chain names the transaction that wrote it, or the
\* run that wrote it is about to save it; also when the notification is in two
\* batches and several workers are at them.  The exceptions: a run that lost
\* sight of its transaction; and two runs at the same receipt, of which the
\* one whose transaction failed may be the last to save, since confirm does not
\* look at the error.  (The order of send, confirm and save in ReceiptWorker.)
OnChainRecorded ==
  \A n \in chain :
    \/ saved[n] = "ok"
    \/ \E w \in Workers : Writing(w) /\ tx[w] = "ok" /\ Current(w) = n
    \/ n \in lostSight
    \/ saved[n] = "err" /\ n \in doubled

\* The receipt of a delivered notification does not stay pending: the status
\* endpoint comes to say confirmed, failed or disabled, and the scan is rid of
\* it.  So it is also with notifications without an owner about, which stay
\* pending and in front of the batches, as long as they do not fill one.  (The
\* scan of ReceiptService, the catch of ReceiptWorker and
\* getNotificationStatus.)
ReceiptsSettle ==
  Cardinality(Ownerless) < BatchSize =>
    \A n \in Notifications \ Ownerless :
      (\E i \in DOMAIN delivered : delivered[i] = n) ~> ReceiptStatus(n) # "pending"
=============================================================================
