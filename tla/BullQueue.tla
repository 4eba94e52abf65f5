------------------------------ MODULE BullQueue ------------------------------
(***************************************************************************)
(* A BullMQ job, as the gateway's producers and processors use it.  BullMQ *)
(* is an external library: what is modelled is the contract the code       *)
(* relies on, with the options it passes (attempts, backoff,               *)
(* maxStalledCount).  Operators only: a component keeps its jobs in a      *)
(* variable of its own and applies these operators to it.                  *)
(***************************************************************************)
EXTENDS Integers

CONSTANTS
  Workers,     \* the processes that run a @Processor of the queue
  NoWorker,    \* owner of a job nobody holds the lock of
  Attempts,    \* job option "attempts"
  MaxStalled   \* worker option "maxStalledCount"

ASSUME WorkersAssumption  == NoWorker \notin Workers
ASSUME AttemptsAssumption == Attempts \in Nat \ {0}
ASSUME StalledAssumption  == MaxStalled \in Nat

(***************************************************************************)
(* absent: never added.  adding: the add command is on its way to Redis.   *)
(* wait: waiting or delayed by a backoff.  active: some worker was given   *)
(* its lock.                                                               *)
(***************************************************************************)
JobState == {"absent", "adding", "wait", "active", "completed", "failed"}

Job == [state  : JobState,
        made   : Nat,                      \* attemptsMade
        stalls : Nat,                      \* stalledCounter
        starts : Nat,                      \* attemptsStarted
        owner  : Workers \cup {NoWorker}]  \* holder of the lock

NoJob == [state |-> "absent", made |-> 0, stalls |-> 0, starts |-> 0,
          owner |-> NoWorker]

Finished(j) == j.state \in {"completed", "failed"}

Issued(j) == [j EXCEPT !.state = "adding"]

Landed(j) == [j EXCEPT !.state = "wait"]

\* A worker takes a waiting job, and with it the job's lock.
Claimed(j, w) ==
  [state |-> "active", made |-> j.made, stalls |-> j.stalls,
   starts |-> j.starts + 1, owner |-> w]

Holds(j, w) == j.state = "active" /\ j.owner = w

\* The processor returned.
Completed(j) ==
  [state |-> "completed", made |-> j.made, stalls |-> j.stalls,
   starts |-> j.starts, owner |-> NoWorker]

\* The processor threw: the attempt counts, and the job is retried while
\* attempts are left.
Thrown(j) ==
  [state |-> IF j.made + 1 < Attempts THEN "wait" ELSE "failed",
   made |-> j.made + 1, stalls |-> j.stalls, starts |-> j.starts,
   owner |-> NoWorker]

\* Mutant of Stalled: the limit is compared before the stall is counted.
StalledOnceMore(j) ==
  [j EXCEPT !.state = IF j.stalls > MaxStalled THEN "failed" ELSE "wait",
            !.stalls = @ + 1, !.owner = NoWorker]

\* Mutant of Stalled: no stalled checker.
StalledIgnored(j) == j

\* The lock expired while the job was active: the stalled checker of any
\* worker puts it back, or fails it once it stalled too often.
Stalled(j) ==
  [state |-> IF j.stalls + 1 > MaxStalled THEN "failed" ELSE "wait",
   made |-> j.made, stalls |-> j.stalls + 1, starts |-> j.starts,
   owner |-> NoWorker]

\* A worker that ends a run reports it; without the lock BullMQ refuses the
\* report ("missing lock") and the job is left as it is.
Acked(j, w)    == IF Holds(j, w) THEN Completed(j) ELSE j
Rejected(j, w) == IF Holds(j, w) THEN Thrown(j) ELSE j

=============================================================================
