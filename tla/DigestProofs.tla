---------------------------- MODULE DigestProofs ----------------------------
(***************************************************************************)
(* Safety of Digest and of Dispatch for every set of workers, entries,     *)
(* wallets and processes, every job and every text of an SMS, and every    *)
(* value of the limits and bounds.                                         *)
(*                                                                         *)
(* A dispatch is lawful because the channels it tries are fixed when it    *)
(* starts (TasksLawful).  That an entry goes out once is no property of    *)
(* any one step: an entry that is not excused is in one place only, the    *)
(* hand of a flush or a job that is open, a run of that job holds its      *)
(* lock, and an entry that is marked is in no such place (Carried); so a   *)
(* mail that carries it is the first (Mailed).                             *)
(***************************************************************************)
EXTENDS Digest, TLAPS, FiniteSetTheorems, WellFoundedInduction

\* What a worker has done of a dispatch, by where it is.
TasksLawful ==
  \A w \in Workers :
    /\ pc[w] \in {"idle", "begin", "mark"} => task[w] = NoTasks
    /\ pc[w] \in {"tasks", "settled"} =>
         Tried(w) = AllowedChannels(held[w], order[w]) \cap held[w]
    /\ pc[w] = "tasks" => Tried(w) # {}
    /\ pc[w] = "settled" => (report[w].all <=> Tried(w) # {} /\ Reached(w) = Tried(w))
    /\ task[w]["email"] \in {"compose", "ready", "ok"} /\ order[w].hashed => ~suppressed
    /\ message[w] # None => message[w] = SmsOf(order[w])

\* The places an entry may be in: a flush, a job of the queue, a run of one.
InFlush(p, e) == hand[p] # None /\ e \in hand[p]
OnJob(j, e)   == Open(j) /\ e \in load[j]
InRun(w, e)   == doing[w] # None /\ e \in load[doing[w]]

Carried(e) ==
  /\ \A p, q \in Processes : InFlush(p, e) /\ InFlush(q, e) => p = q
  /\ \A j, k \in Jobs : OnJob(j, e) /\ OnJob(k, e) => j = k
  /\ \A p \in Processes, j \in Jobs : ~(InFlush(p, e) /\ OnJob(j, e))
  /\ \A w \in Workers : InRun(w, e) => Queue!Holds(jobs[doing[w]], w)
  /\ e \in sent => /\ \A p \in Processes : ~InFlush(p, e)
                   /\ \A j \in Jobs : ~OnJob(j, e)

Mailed(e) ==
  /\ mails[e] <= 1
  /\ mails[e] = 1 => e \in sent \/ \E w \in Workers : InRun(w, e) /\ task[w]["email"] = "ok"

EntriesSound == \A e \in Entries \ excused : Carried(e) /\ Mailed(e)

\* The types of a dispatch, and of the digests.
DispatchTypes ==
  /\ pc \in [Workers -> {"idle", "begin", "tasks", "settled", "mark"}]
  /\ order \in [Workers -> Orders]
  /\ held \in [Workers -> SUBSET Channels]
  /\ task \in [Workers -> [Channels -> TaskStates]]
  /\ stamped \subseteq Workers /\ suppressed \in BOOLEAN /\ faults \in 0..MaxFaults
  /\ report = [w \in Workers |-> report[w]] /\ message = [w \in Workers |-> message[w]]

QueueTypes ==
  /\ scene \in Scenes \cup {<<{}, {}, {}>>}
  /\ owner \in [Entries -> Wallets]
  /\ entry \in [Entries -> {"absent", "buffered", "due"}]
  /\ sent \subseteq Entries /\ resolvable \subseteq Wallets
  /\ bell \subseteq Processes
  /\ hand \in [Processes -> (SUBSET Entries) \cup {None}]
  /\ jobs \in [Jobs -> Queue!Job] /\ load \in [Jobs -> SUBSET Entries]
  /\ fresh \subseteq Jobs
  /\ doing \in [Workers -> Jobs \cup {None}]
  /\ late \in 0..MaxHours
  /\ mails \in [Entries -> Nat] /\ excused \subseteq Entries

IInv == DispatchTypes /\ QueueTypes /\ TasksLawful /\ EntriesSound

-----------------------------------------------------------------------------
\* lastIndexOf finds the last position before n, or none.
LEMMA LastFound ==
  ASSUME NEW S \in SUBSET Nat, NEW n \in Nat
  PROVE  LastIn(S, n) = -1 \/ (LastIn(S, n) \in Nat /\ LastIn(S, n) < n)
<1> DEFINE P == {i \in S : i < n}
           R == OpToRel(<, Nat)
           T == {j \in Nat : \E i \in P : j = n - i}
<1>1. CASE P = {}
  BY <1>1 DEF LastIn
<1>2. CASE P # {}
  <2>1. T # {} /\ T \subseteq Nat
    <3>1. PICK i \in P : TRUE
      BY <1>2
    <3>2. n - i \in T
      BY <3>1
    <3> QED
      BY <3>2
  <2>2. IsWellFoundedOn(R, Nat)
    BY NatLessThanWellFounded
  <2>3. \A x, y \in Nat : <<y, x>> \in R <=> y < x
    BY DEF OpToRel
  <2> HIDE DEF R, T
  <2>4. \E x \in T : \A y \in T : ~(<<y, x>> \in R)
    BY <2>1, <2>2, WFMin
  <2>5. PICK x \in T : \A y \in T : ~(y < x)
    BY <2>1, <2>3, <2>4
  <2> USE DEF T
  <2>6. PICK i \in P : x = n - i
    BY <2>5
  <2>7. \A k \in P : k <= i
    <3> TAKE k \in P
    <3>1. n - k \in T
      OBVIOUS
    <3> QED
      BY <2>5, <2>6, <3>1
  <2> DEFINE found == CHOOSE j \in P : \A k \in P : k <= j
  <2>8. found \in P
    BY <2>7
  <2>9. LastIn(S, n) = found
    BY <1>2 DEF LastIn
  <2> QED
    BY <2>8, <2>9
<1> QED
  BY <1>1, <1>2

\* What is left of a text cut to a budget: all of it if it fits, and otherwise
\* more than half the budget and less than the text, unless there is no room
\* for more than the ellipsis.
LEMMA CutKeepsHalf ==
  ASSUME NEW t \in Texts, NEW budget \in Nat
  PROVE  LET c == CutToWord(t, budget) IN
         /\ c = [kept |-> c.kept, hard |-> c.hard]
         /\ c.kept \in Nat
         /\ t.length <= budget => c.kept = t.length /\ ~c.hard
         /\ t.length > budget => /\ 2 * c.kept > budget
                                 /\ c.kept <= budget \/ (budget = 0 /\ c.kept = 1)
<1> DEFINE space == LastIn(t.spaces, budget)
           stop  == LastIn(t.stops, budget)
<1>1. t.length \in Nat /\ t.spaces \in SUBSET Nat /\ t.stops \in SUBSET Nat
  BY DEF Texts
<1>2. space = -1 \/ (space \in Nat /\ space < budget)
  BY <1>1, LastFound
<1>3. stop = -1 \/ (stop \in Nat /\ stop < budget)
  BY <1>1, LastFound
<1>4. CutToWord(t, budget) = CASE t.length <= budget -> Whole(t)
          [] t.length > budget /\ 2 * space > budget -> AtBoundary(space)
          [] t.length > budget /\ 2 * space <= budget /\ 2 * stop > budget
               -> AtBoundary(stop + 1)
          [] OTHER -> Hard(t, budget)
  BY DEF CutToWord
<1> HIDE DEF space, stop
<1>5. CASE t.length <= budget
  <2>1. CutToWord(t, budget) = [kept |-> t.length, hard |-> FALSE]
    BY <1>1, <1>4, <1>5 DEF Whole
  <2> QED
    BY <1>1, <1>5, <2>1
<1>6. CASE t.length > budget /\ 2 * space > budget
  <2>1. CutToWord(t, budget) = [kept |-> space, hard |-> FALSE]
    BY <1>1, <1>2, <1>4, <1>6 DEF AtBoundary
  <2> QED
    BY <1>1, <1>2, <1>6, <2>1
<1>7. CASE t.length > budget /\ 2 * space <= budget /\ 2 * stop > budget
  <2>1. CutToWord(t, budget) = [kept |-> stop + 1, hard |-> FALSE]
    BY <1>1, <1>2, <1>4, <1>7 DEF AtBoundary
  <2> QED
    BY <1>1, <1>3, <1>7, <2>1
<1>8. CASE t.length > budget /\ 2 * space <= budget /\ 2 * stop <= budget
  <2> DEFINE n == CutToCharLimit(t.length, budget)
  <2>0. CutToWord(t, budget) = Hard(t, budget)
    BY <1>1, <1>2, <1>3, <1>4, <1>8
  <2>1. CutToWord(t, budget) = [kept |-> n, hard |-> t.length > budget]
    BY <2>0, Zenon DEF Hard
  <2>2. n \in Nat /\ n = IF budget = 0 THEN 1 ELSE budget
    BY <1>1, <1>8 DEF CutToCharLimit
  <2> HIDE DEF n
  <2>3. 2 * n > budget /\ (n <= budget \/ (budget = 0 /\ n = 1))
    BY <2>2
  <2> QED
    BY <1>1, <1>8, <2>1, <2>2, <2>3
<1> QED
  BY <1>1, <1>2, <1>3, <1>5, <1>6, <1>7, <1>8

\* buildSmsBody: how long a message is, and what makes one wide.
LEMMA BodyFits ==
  ASSUME NEW t \in Texts, NEW overhead \in Nat, NEW asciiHead \in BOOLEAN
  PROVE  LET m == SmsBody(t, overhead, asciiHead) IN
         /\ m.length <= SingleGsm \/ overhead >= SingleGsm
         /\ m.wide => \/ m.length <= SingleUcs \/ overhead >= SingleUcs
                      \/ IsGsm7(t) /\ (m.hard \/ ~asciiHead)
         /\ IF t.length <= m.budget THEN m.kept = t.length /\ ~m.hard
            ELSE m.kept < t.length \/ (m.budget = 0 /\ m.kept = 1)
         /\ t.length > m.budget => 2 * m.kept > m.budget
<1> DEFINE single == IF IsGsm7(t) THEN SingleGsm ELSE SingleUcs
           budget == IF single > overhead THEN single - overhead ELSE 0
           word   == CutToWord(t, budget)
           cut    == IF word.kept = 0 THEN Hard(t, budget) ELSE word
<1>1. SmsBody(t, overhead, asciiHead) =
        [length |-> overhead + cut.kept, kept |-> cut.kept, hard |-> cut.hard,
         budget |-> budget, wide |-> ~asciiHead \/ cut.hard \/ cut.kept > t.plain]
  BY DEF SmsBody
<1>2. /\ single \in Nat /\ single <= SingleGsm /\ (~IsGsm7(t) => single = SingleUcs)
      /\ t.length \in Nat /\ t.plain \in Nat /\ SingleGsm \in Nat /\ SingleUcs \in Nat
      /\ IsGsm7(t) => t.plain >= t.length
  BY SingleAssumption DEF Texts, IsGsm7
<1> HIDE DEF single
<1>3. budget \in Nat /\ (single > overhead => budget = single - overhead)
      /\ (~(single > overhead) => budget = 0)
  BY <1>2
<1> HIDE DEF budget
<1>4. /\ word.kept \in Nat
      /\ t.length <= budget => word.kept = t.length /\ ~word.hard
      /\ t.length > budget => /\ 2 * word.kept > budget
                              /\ word.kept <= budget \/ (budget = 0 /\ word.kept = 1)
  BY <1>3, CutKeepsHalf
<1> HIDE DEF word
<1>5. cut.kept = word.kept /\ (t.length <= budget => ~cut.hard)
  <2>1. CASE word.kept = 0
    <3>1. t.length <= budget /\ t.length = 0
      BY <1>2, <1>3, <1>4, <2>1
    <3>2. CutToCharLimit(t.length, budget) = 0 /\ (t.length > budget) = FALSE
      BY <1>3, <3>1 DEF CutToCharLimit
    <3>3. cut = [kept |-> 0, hard |-> FALSE]
      BY <2>1, <3>2, Zenon DEF Hard
    <3> QED
      BY <2>1, <3>3
  <2>2. CASE word.kept # 0
    BY <1>4, <2>2
  <2> QED
    BY <2>1, <2>2
<1> HIDE DEF cut
<1>6. /\ overhead + word.kept <= single \/ (overhead >= single /\ word.kept <= 1)
      /\ word.kept <= t.length
  BY <1>2, <1>3, <1>4
<1>7. IF t.length <= budget THEN word.kept = t.length /\ ~cut.hard
      ELSE word.kept < t.length \/ (budget = 0 /\ word.kept = 1)
  BY <1>2, <1>3, <1>4, <1>5
<1>8. t.length > budget => 2 * word.kept > budget
  BY <1>4
<1>9. overhead + word.kept <= SingleGsm \/ overhead >= SingleGsm
  BY <1>2, <1>4, <1>6
<1>10. (~asciiHead \/ cut.hard \/ word.kept > t.plain)
         => \/ overhead + word.kept <= SingleUcs \/ overhead >= SingleUcs
            \/ IsGsm7(t) /\ (cut.hard \/ ~asciiHead)
  BY <1>2, <1>4, <1>6
<1> DEFINE m == SmsBody(t, overhead, asciiHead)
<1>11. /\ m.length = overhead + word.kept /\ m.kept = word.kept /\ m.hard = cut.hard
       /\ m.budget = budget
       /\ m.wide = (~asciiHead \/ cut.hard \/ word.kept > t.plain)
  BY <1>1, <1>5
<1> HIDE DEF m
<1> QED
  BY <1>7, <1>8, <1>9, <1>10, <1>11 DEF m

\* resolveAllowedChannels: whatever a job asks for.
LEMMA AllowedIsLawful ==
  ASSUME NEW h \in SUBSET Channels, NEW o \in Orders
  PROVE  LET tried == AllowedChannels(h, o) \cap h IN
         /\ tried \subseteq h \ o.excluded
         /\ o.tier = 0 => tried \subseteq {"email"}
         /\ (o.tier > 0 /\ o.urgent /\ "sms" \in h \ o.excluded) => "sms" \in tried
         /\ (o.tier > 0 /\ o.preferred = None /\ o.channels = {}) => tried = h \ o.excluded
         /\ o.preferred # None
              => tried \subseteq {o.preferred} \cup (IF o.urgent THEN {"sms"} ELSE {})
<1> DEFINE registered == Registered(h, o)
           wanted == IF Explicit(o) = {} THEN registered ELSE registered \cap Explicit(o)
           tried  == AllowedChannels(h, o) \cap h
<1>1. o.tier \in 0..3 /\ o.urgent \in BOOLEAN
  BY DEF Orders
<1>2. registered \subseteq h /\ (o.tier > 0 => registered = h)
      /\ (o.tier = 0 => registered \subseteq {"email"})
  BY <1>1 DEF Registered
<1>3. AllowedChannels(h, o) = IF registered = {} THEN {}
        ELSE (wanted \ o.excluded) \cup (IF Escalates(h, o) THEN {"sms"} ELSE {})
  BY DEF AllowedChannels
<1>4. wanted \subseteq registered
  OBVIOUS
<1>5. Escalates(h, o) => o.tier > 0 /\ o.urgent /\ "sms" \in h \ o.excluded
  BY <1>1 DEF Escalates
<1>6. o.tier > 0 /\ o.urgent /\ "sms" \in h \ o.excluded => Escalates(h, o)
  BY <1>1 DEF Escalates
<1> HIDE DEF registered
<1>7. tried \subseteq h \ o.excluded
  BY <1>3, <1>5
<1>8. o.tier = 0 => tried \subseteq {"email"}
  BY <1>1, <1>2, <1>3, <1>4, <1>5
<1>9. (o.tier > 0 /\ o.urgent /\ "sms" \in h \ o.excluded) => "sms" \in tried
  BY <1>2, <1>3, <1>6
<1>10. (o.tier > 0 /\ o.preferred = None /\ o.channels = {}) => tried = h \ o.excluded
  BY <1>2, <1>3, <1>5 DEF Explicit
<1>11. o.preferred # None
         => tried \subseteq {o.preferred} \cup (IF o.urgent THEN {"sms"} ELSE {})
  BY <1>3, <1>5 DEF Explicit
<1> QED
  BY <1>7, <1>8, <1>9, <1>10, <1>11

-----------------------------------------------------------------------------
\* A task that turns is the only one that does.
LEMMA TaskTurns ==
  ASSUME DispatchTypes, NEW w \in Workers, NEW c \in Channels, NEW s \in TaskStates,
         Turn(w, c, s)
  PROVE  /\ task' \in [Workers -> [Channels -> TaskStates]]
         /\ task'[w][c] = s /\ \A d \in Channels \ {c} : task'[w][d] = task[w][d]
         /\ \A v \in Workers \ {w} : task'[v] = task[v]
<1>1. task[w] \in [Channels -> TaskStates]
  BY DEF DispatchTypes
<1>2. [task[w] EXCEPT ![c] = s] \in [Channels -> TaskStates]
  BY <1>1
<1>3. task' = [task EXCEPT ![w] = [task[w] EXCEPT ![c] = s]]
  BY DEF Turn
<1> QED
  BY <1>1, <1>2, <1>3 DEF DispatchTypes

\* A task that was tried and is neither checked nor composed anew.
LEMMA TurnKeeps ==
  ASSUME DispatchTypes, TasksLawful, NEW w \in Workers, NEW c \in Channels,
         NEW s \in TaskStates \ {"none"}, Turn(w, c, s),
         pc[w] = "tasks", task[w][c] # "none",
         c = "email" /\ s \in {"compose", "ready", "ok"} /\ order[w].hashed => ~suppressed,
         UNCHANGED <<pc, order, held, report, suppressed>>,
         message' = message
           \/ message' = [message EXCEPT ![w] = SmsOf(order[w])]
  PROVE  /\ task' \in [Workers -> [Channels -> TaskStates]]
         /\ message' = [v \in Workers |-> message'[v]] /\ TasksLawful'
<1>1. /\ task' \in [Workers -> [Channels -> TaskStates]]
      /\ task'[w][c] = s /\ \A d \in Channels \ {c} : task'[w][d] = task[w][d]
      /\ \A v \in Workers \ {w} : task'[v] = task[v]
  BY TaskTurns
<1>2. TasksLawful'
  <2> SUFFICES ASSUME NEW x \in Workers
               PROVE  TasksLawful!(x)'
    BY DEF TasksLawful
  <2>1. message'[x] # None => message'[x] = SmsOf(order'[x])
    <3>1. message[x] # None => message[x] = SmsOf(order[x])
      BY DEF TasksLawful
    <3>2. message'[x] = message[x]
          \/ (x = w /\ message'[x] = SmsOf(order[w]))
      <4>1. message = [v \in Workers |-> message[v]]
        BY DEF DispatchTypes
      <4> QED
        BY <4>1
    <3> QED
      BY <3>1, <3>2
  <2>2. CASE x = w
    <3>1. Tried(x)' = Tried(x)
      BY <1>1, <2>2 DEF Tried
    <3>2. task'[x]["email"] \in {"compose", "ready", "ok"} /\ order'[x].hashed => ~suppressed'
      BY <1>1, <2>2 DEF TasksLawful, Channels
    <3> QED
      BY <2>1, <2>2, <3>1, <3>2 DEF TasksLawful
  <2>3. CASE x # w
    <3>1. task'[x] = task[x]
      BY <1>1, <2>3
    <3>2. Tried(x)' = Tried(x) /\ Reached(x)' = Reached(x)
      BY <3>1 DEF Tried, Reached
    <3> QED
      BY <2>1, <3>1, <3>2 DEF TasksLawful
  <2> QED
    BY <2>2, <2>3
<1>3. message' = [v \in Workers |-> message'[v]]
  BY DEF DispatchTypes
<1> QED
  BY <1>1, <1>2, <1>3

\* A dispatch starts the tasks of the allowed channels, and with none is over.
LEMMA StartKeeps ==
  ASSUME DispatchTypes, TasksLawful, NEW w \in Workers, StartDispatch(w)
  PROVE  DispatchTypes' /\ TasksLawful'
<1> DEFINE allowed == AllowedChannels(held[w], order[w]) \cap held[w]
           started == [c \in Channels |-> IF c \in allowed THEN Started(order[w], c) ELSE "none"]
<1>1. /\ pc[w] = "begin" /\ task' = [task EXCEPT ![w] = started]
      /\ IF allowed = {}
           THEN /\ pc' = [pc EXCEPT ![w] = "settled"]
                /\ report' = [report EXCEPT ![w] = [outcomes |-> 0, successes |-> 0, all |-> FALSE]]
           ELSE pc' = [pc EXCEPT ![w] = "tasks"] /\ UNCHANGED report
      /\ UNCHANGED <<order, held, stamped, message, suppressed, faults>>
  BY DEF StartDispatch
<1>2. started \in [Channels -> TaskStates] /\ allowed \subseteq Channels
  BY DEF Started, TaskStates, DispatchTypes
<1>3. /\ \A c \in allowed : started[c] # "none"
      /\ \A c \in Channels \ allowed : started[c] = "none"
      /\ started["email"] \in {"compose", "ready", "ok"} => ~order[w].hashed
  BY <1>2 DEF Started, Channels
<1> HIDE DEF started, allowed
<1>4. /\ task'[w] = started /\ \A v \in Workers \ {w} : task'[v] = task[v]
      /\ task' \in [Workers -> [Channels -> TaskStates]]
  BY <1>1, <1>2 DEF DispatchTypes
<1>5. DispatchTypes'
  BY <1>1, <1>4 DEF DispatchTypes
<1>6. Tried(w)' = allowed
  BY <1>2, <1>3, <1>4 DEF Tried
<1>7. TasksLawful'
  <2> SUFFICES ASSUME NEW x \in Workers
               PROVE  TasksLawful!(x)'
    BY DEF TasksLawful
  <2>1. CASE x = w
    <3>1. \/ pc'[w] = "tasks" /\ allowed # {}
          \/ pc'[w] = "settled" /\ allowed = {} /\ ~report'[w].all
      BY <1>1 DEF DispatchTypes
    <3>2. Tried(w)' = AllowedChannels(held'[w], order'[w]) \cap held'[w]
      BY <1>1, <1>6 DEF allowed
    <3>3. task'[w]["email"] \in {"compose", "ready", "ok"} /\ order'[w].hashed => ~suppressed'
      BY <1>1, <1>3, <1>4
    <3>4. message'[w] # None => message'[w] = SmsOf(order'[w])
      BY <1>1 DEF TasksLawful
    <3>5. pc'[w] = "settled" => (report'[w].all <=> Tried(w)' # {} /\ Reached(w)' = Tried(w)')
      BY <1>6, <3>1
    <3> QED
      BY <1>6, <2>1, <3>1, <3>2, <3>3, <3>4, <3>5
  <2>2. CASE x # w
    <3>1. task'[x] = task[x] /\ pc'[x] = pc[x] /\ report'[x] = report[x]
      BY <1>1, <1>4, <2>2 DEF DispatchTypes
    <3>2. Tried(x)' = Tried(x) /\ Reached(x)' = Reached(x)
      BY <3>1 DEF Tried, Reached
    <3> QED
      BY <1>1, <3>1, <3>2 DEF TasksLawful
  <2> QED
    BY <2>1, <2>2
<1> QED
  BY <1>5, <1>7

\* The tasks are over, and are folded into the result.
LEMMA SettleKeeps ==
  ASSUME DispatchTypes, TasksLawful, NEW w \in Workers, Settle(w)
  PROVE  DispatchTypes' /\ TasksLawful'
<1>1. /\ pc[w] = "tasks" /\ pc' = [pc EXCEPT ![w] = "settled"]
      /\ report' = [report EXCEPT ![w] = Folded(task[w])]
      /\ UNCHANGED <<order, held, task, stamped, message, suppressed, faults>>
  BY DEF Settle
<1>2. DispatchTypes'
  BY <1>1 DEF DispatchTypes
<1>3. \A x \in Workers : Tried(x)' = Tried(x) /\ Reached(x)' = Reached(x)
  BY <1>1 DEF Tried, Reached
<1>4. Folded(task[w]).all <=> Tried(w) # {} /\ Reached(w) = Tried(w)
  <2>1. Folded(task[w]).all = (Tried(w) = Reached(w))
    BY DEF Folded, Tried, Reached
  <2>2. Tried(w) # {}
    BY <1>1 DEF TasksLawful
  <2> QED
    BY <2>1, <2>2
<1>5. TasksLawful'
  <2> SUFFICES ASSUME NEW x \in Workers
               PROVE  TasksLawful!(x)'
    BY DEF TasksLawful
  <2>1. CASE x = w
    <3>1. pc'[x] = "settled" /\ (report'[x].all <=> Tried(x) # {} /\ Reached(x) = Tried(x))
      BY <1>1, <1>4, <2>1 DEF DispatchTypes
    <3> QED
      BY <1>1, <1>3, <2>1, <3>1 DEF TasksLawful
  <2>2. CASE x # w
    <3>1. pc'[x] = pc[x] /\ report'[x] = report[x]
      BY <1>1, <2>2 DEF DispatchTypes
    <3> QED
      BY <1>1, <1>3, <3>1 DEF TasksLawful
  <2> QED
    BY <2>1, <2>2
<1> QED
  BY <1>2, <1>5

\* Every step of a dispatch keeps what makes it lawful, and turns no task to ok
\* but one that is ready.
LEMMA DispatchKeeps ==
  ASSUME DispatchTypes, TasksLawful, NEW w \in Workers, DispatchStep(w)
  PROVE  /\ DispatchTypes' /\ TasksLawful'
         /\ \A v \in Workers \ {w} : task'[v] = task[v]
         /\ task[w]["email"] = "ok" => task'[w]["email"] = "ok"
         /\ task'[w]["email"] = "ok" => task[w]["email"] \in {"ready", "ok"}
<1>1. "email" \in Channels /\ "sms" \in Channels /\ "telegram" \in Channels
  BY DEF Channels
<1>2. Fault => faults' \in 0..MaxFaults
  BY FaultsAssumption DEF Fault, DispatchTypes
<1>3. CASE StartDispatch(w)
  <2>1. pc[w] = "begin" /\ \A v \in Workers \ {w} : task'[v] = task[v]
    BY <1>3 DEF StartDispatch, DispatchTypes
  <2>2. task[w]["email"] = "none"
    BY <1>1, <2>1 DEF TasksLawful, NoTasks
  <2>3. task'[w]["email"] # "ok"
    BY <1>1, <1>3 DEF StartDispatch, DispatchTypes, Started
  <2> QED
    BY <1>3, <2>1, <2>2, <2>3, StartKeeps
<1>4. CASE Settle(w)
  <2>1. task' = task
    BY <1>4 DEF Settle
  <2> QED
    BY <1>4, <2>1, SettleKeeps
<1>5. ASSUME NEW c \in Channels, NEW s \in TaskStates \ {"none"}, Turn(w, c, s),
             pc[w] = "tasks", task[w][c] \notin {"none", "ok"},
             s = "ok" => task[w][c] = "ready",
             c = "email" /\ s \in {"compose", "ready", "ok"} /\ order[w].hashed => ~suppressed,
             UNCHANGED <<pc, order, held, report, suppressed>>,
             stamped' \subseteq Workers, UNCHANGED faults \/ Fault,
             message' = message
               \/ message' = [message EXCEPT ![w] = SmsOf(order[w])]
      PROVE  /\ DispatchTypes' /\ TasksLawful'
             /\ \A v \in Workers \ {w} : task'[v] = task[v]
             /\ task[w]["email"] = "ok" => task'[w]["email"] = "ok"
             /\ task'[w]["email"] = "ok" => task[w]["email"] \in {"ready", "ok"}
  <2>1. /\ task' \in [Workers -> [Channels -> TaskStates]]
        /\ message' = [v \in Workers |-> message'[v]] /\ TasksLawful'
    BY <1>5, TurnKeeps
  <2>2. /\ task'[w][c] = s /\ \A d \in Channels \ {c} : task'[w][d] = task[w][d]
        /\ \A v \in Workers \ {w} : task'[v] = task[v]
    BY <1>5, TaskTurns
  <2>3. DispatchTypes'
    BY <1>2, <1>5, <2>1 DEF DispatchTypes
  <2> QED
    BY <1>1, <1>5, <2>1, <2>2, <2>3
<1>6. stamped \subseteq Workers
  BY DEF DispatchTypes
<1>7. CASE CheckSuppression(w)
  <2> USE <1>1, <1>6, <1>7 DEF CheckSuppression, TaskStates
  <2>1. CASE Turn(w, "email", "unknown") /\ Fault
    BY <1>5, <2>1
  <2>2. CASE Turn(w, "email", IF suppressed THEN "failed" ELSE "compose") /\ UNCHANGED faults
    <3>1. CASE suppressed
      BY <1>5, <2>2, <3>1
    <3>2. CASE ~suppressed
      BY <1>5, <2>2, <3>2
    <3> QED
      BY <3>1, <3>2
  <2> QED
    BY <2>1, <2>2
<1>8. CASE ComposeEmail(w)
  <2> USE <1>1, <1>6, <1>8 DEF ComposeEmail, TaskStates
  <2>1. order[w].hashed => ~suppressed
    BY DEF TasksLawful
  <2>2. CASE Turn(w, "email", "failed")
    BY <1>5, <2>2
  <2>3. CASE Turn(w, "email", "ready")
    BY <1>5, <2>1, <2>3
  <2> QED
    BY <2>2, <2>3
<1>9. CASE SendEmail(w)
  <2> USE <1>1, <1>6, <1>9 DEF SendEmail, Send, TaskStates
  <2>1. order[w].hashed => ~suppressed
    BY DEF TasksLawful
  <2>2. CASE Turn(w, "email", "ok")
    BY <1>5, <2>1, <2>2
  <2>3. CASE Turn(w, "email", "failed")
    BY <1>5, <2>3
  <2> QED
    BY <2>2, <2>3
<1>10. CASE SendTelegram(w)
  BY <1>1, <1>5, <1>6, <1>10 DEF SendTelegram, Send, TaskStates
<1>11. CASE DeliverSms(w)
  BY <1>1, <1>5, <1>6, <1>11 DEF DeliverSms, SendSms, TaskStates
<1> QED
  BY <1>3, <1>4, <1>7, <1>8, <1>9, <1>10, <1>11 DEF DispatchStep

-----------------------------------------------------------------------------
\* The operations of BullMQ on a job of the digest queue.
LEMMA JobTyped ==
  ASSUME NEW j \in Queue!Job, NEW w \in Workers
  PROVE  /\ Queue!NoJob \in Queue!Job /\ Queue!Landed(Queue!NoJob) \in Queue!Job
         /\ Queue!Claimed(j, w) \in Queue!Job /\ Queue!Stalled(j) \in Queue!Job
         /\ Queue!Rejected(j, w) \in Queue!Job /\ Queue!Acked(j, w) \in Queue!Job
<1> USE DEF Queue!Job, Queue!JobState
<1>1. Queue!NoJob \in Queue!Job /\ Queue!Landed(Queue!NoJob) \in Queue!Job
  BY DEF Queue!NoJob, Queue!Landed
<1>2. Queue!Claimed(j, w) \in Queue!Job
  BY DEF Queue!Claimed
<1>3. Queue!Stalled(j) \in Queue!Job
  BY DEF Queue!Stalled
<1>4. Queue!Completed(j) \in Queue!Job
  BY DEF Queue!Completed
<1>5. Queue!Thrown(j) \in Queue!Job
  BY DEF Queue!Thrown
<1> QED
  BY <1>1, <1>2, <1>3, <1>4, <1>5 DEF Queue!Acked, Queue!Rejected

\* Who holds the lock of a job after them, and which jobs are still open: a run
\* that lost the lock changes nothing.
LEMMA JobMoves ==
  ASSUME NEW j \in Queue!Job, NEW w \in Workers
  PROVE  /\ Queue!Landed(Queue!NoJob).state = "wait" /\ Queue!NoJob.state = "absent"
         /\ Queue!Holds(Queue!Claimed(j, w), w) /\ Queue!Claimed(j, w).state = "active"
         /\ Queue!Stalled(j).state \in {"wait", "failed"}
         /\ ~Queue!Holds(j, w) => Queue!Rejected(j, w) = j /\ Queue!Acked(j, w) = j
         /\ Queue!Holds(j, w) => /\ j.state = "active"
                                 /\ Queue!Rejected(j, w).state \in {"wait", "failed"}
                                 /\ Queue!Acked(j, w).state = "completed"
<1> USE DEF Queue!Holds
<1>1. Queue!Landed(Queue!NoJob).state = "wait" /\ Queue!NoJob.state = "absent"
  BY DEF Queue!NoJob, Queue!Landed
<1>2. Queue!Holds(Queue!Claimed(j, w), w) /\ Queue!Claimed(j, w).state = "active"
  BY DEF Queue!Claimed
<1>3. Queue!Stalled(j).state \in {"wait", "failed"}
  BY DEF Queue!Stalled
<1>4. ~Queue!Holds(j, w) => Queue!Rejected(j, w) = j /\ Queue!Acked(j, w) = j
  BY DEF Queue!Rejected, Queue!Acked
<1>5. Queue!Thrown(j).state \in {"wait", "failed"} /\ Queue!Completed(j).state = "completed"
  BY DEF Queue!Thrown, Queue!Completed
<1> QED
  BY <1>1, <1>2, <1>3, <1>4, <1>5 DEF Queue!Rejected, Queue!Acked

\* A dispatch that is forgotten.
LEMMA ResetKeeps ==
  ASSUME DispatchTypes, TasksLawful, NEW w \in Workers, Reset(w),
         UNCHANGED suppressed, faults' \in 0..MaxFaults
  PROVE  /\ DispatchTypes' /\ TasksLawful'
         /\ \A v \in Workers \ {w} : task'[v] = task[v]
<1>1. NoTasks \in [Channels -> TaskStates] /\ NoTasks["email"] = "none"
      /\ \A c \in Channels : NoTasks[c] = "none"
  BY DEF NoTasks, TaskStates, Channels
<1>2. /\ pc' = [pc EXCEPT ![w] = "idle"] /\ task' = [task EXCEPT ![w] = NoTasks]
      /\ report' = [report EXCEPT ![w] = None] /\ message' = [message EXCEPT ![w] = None]
      /\ UNCHANGED <<order, held, stamped>>
  BY DEF Reset
<1>3. DispatchTypes'
  BY <1>1, <1>2 DEF DispatchTypes
<1>4. /\ pc'[w] = "idle" /\ task'[w] = NoTasks /\ message'[w] = None
      /\ \A v \in Workers \ {w} : /\ pc'[v] = pc[v] /\ task'[v] = task[v]
                                  /\ report'[v] = report[v] /\ message'[v] = message[v]
  BY <1>2 DEF DispatchTypes
<1>5. TasksLawful'
  <2> SUFFICES ASSUME NEW x \in Workers
               PROVE  TasksLawful!(x)'
    BY DEF TasksLawful
  <2>1. CASE x = w
    BY <1>1, <1>4, <2>1
  <2>2. CASE x # w
    <3>1. Tried(x)' = Tried(x) /\ Reached(x)' = Reached(x)
      BY <1>4, <2>2 DEF Tried, Reached
    <3> QED
      BY <1>2, <1>4, <2>2, <3>1 DEF TasksLawful
  <2> QED
    BY <2>1, <2>2
<1> QED
  BY <1>3, <1>4, <1>5

\* A dispatch left alone.
LEMMA DispatchStays ==
  ASSUME DispatchTypes, TasksLawful, UNCHANGED <<dispatchVars, suppressed>>,
         faults' \in 0..MaxFaults
  PROVE  DispatchTypes' /\ TasksLawful'
<1> USE DEF dispatchVars
<1>1. DispatchTypes'
  BY DEF DispatchTypes
<1>2. TasksLawful'
  BY DEF TasksLawful, Tried, Reached
<1> QED
  BY <1>1, <1>2

-----------------------------------------------------------------------------
\* A step that touches neither the queue nor what was sent and mailed.
LEMMA EntriesStay ==
  ASSUME EntriesSound,
         UNCHANGED <<sent, hand, jobs, load, doing, task, mails, excused>>
  PROVE  EntriesSound'
BY DEF EntriesSound, Carried, Mailed, InFlush, OnJob, InRun, Open

\* An hour: what is forgotten of the queue is neither open nor run.
LEMMA HourKeeps ==
  ASSUME QueueTypes, EntriesSound, HourPasses
  PROVE  QueueTypes' /\ EntriesSound'
<1> USE DEF QueueTypes
<1>1. /\ jobs' = [j \in Jobs |-> IF Kept(j) THEN jobs[j] ELSE Queue!NoJob]
      /\ load' = [j \in Jobs |-> IF Kept(j) THEN load[j] ELSE {}]
      /\ UNCHANGED <<task, scene, owner, sent, resolvable, hand, doing, mails, excused>>
  BY DEF HourPasses, dispatchVars
<1>2. QueueTypes'
  <2>1. Queue!NoJob \in Queue!Job
    BY DEF Queue!NoJob, Queue!Job, Queue!JobState
  <2>2. jobs' \in [Jobs -> Queue!Job] /\ load' \in [Jobs -> SUBSET Entries]
    BY <1>1, <2>1
  <2>3. entry' \in [Entries -> {"absent", "buffered", "due"}] /\ fresh' \subseteq Jobs
    BY DEF HourPasses
  <2>4. bell' \subseteq Processes
    <3>1. scene[2] \subseteq Processes
      BY SceneAssumption
    <3> QED
      BY <3>1 DEF HourPasses
  <2>5. late' \in 0..MaxHours
    BY DigestBounds DEF HourPasses
  <2> QED
    BY <1>1, <2>2, <2>3, <2>4, <2>5
<1>3. EntriesSound'
  <2> SUFFICES ASSUME NEW e \in Entries \ excused PROVE Carried(e)' /\ Mailed(e)'
    BY <1>1 DEF EntriesSound
  <2>1. Carried(e) /\ Mailed(e)
    BY DEF EntriesSound
  <2>2. \A j \in Jobs : OnJob(j, e)' => OnJob(j, e)
    <3>1. Queue!NoJob.state = "absent"
      BY DEF Queue!NoJob
    <3> QED
      BY <1>1, <3>1 DEF OnJob, Open
  <2>3. \A w \in Workers : InRun(w, e)' => InRun(w, e) /\ jobs'[doing'[w]] = jobs[doing[w]]
    BY <1>1 DEF InRun, Kept
  <2>4. \A w \in Workers : InRun(w, e) => InRun(w, e)'
    BY <1>1 DEF InRun, Kept
  <2>5. \A p \in Processes : InFlush(p, e)' <=> InFlush(p, e)
    BY <1>1 DEF InFlush
  <2>6. Carried(e)'
    BY <1>1, <2>1, <2>2, <2>3, <2>5 DEF Carried
  <2>7. Mailed(e)'
    BY <1>1, <2>1, <2>4 DEF Mailed
  <2> QED
    BY <2>6, <2>7
<1> QED
  BY <1>2, <1>3

\* A flush reads an entry that no other flush and no open job has, or the entry
\* is excused.
LEMMA ReadKeeps ==
  ASSUME QueueTypes, EntriesSound, NEW p \in Processes, FlushRead(p)
  PROVE  QueueTypes' /\ EntriesSound'
<1> USE DEF QueueTypes
<1> DEFINE found == DueEntries(sent)
<1>1. /\ hand[p] = None /\ bell' = bell \ {p}
      /\ hand' = [hand EXCEPT ![p] = IF found = {} THEN None ELSE found]
      /\ excused' = excused \cup {e \in found : InHand(e)}
      /\ UNCHANGED <<task, scene, owner, entry, sent, resolvable, jobs, load, fresh, doing, late, mails>>
  BY DEF FlushRead, dispatchVars
<1>2. found \subseteq Entries \ sent
  BY DEF DueEntries
<1> HIDE DEF found
<1>3. QueueTypes'
  BY <1>1, <1>2
<1>4. EntriesSound'
  <2> SUFFICES ASSUME NEW e \in Entries \ excused' PROVE Carried(e)' /\ Mailed(e)'
    BY DEF EntriesSound
  <2>1. Carried(e) /\ Mailed(e)
    BY <1>1 DEF EntriesSound
  <2>2. e \in found => /\ e \notin sent /\ \A q \in Processes : ~InFlush(q, e)
                       /\ \A j \in Jobs : ~OnJob(j, e)
    BY <1>1, <1>2 DEF InHand, InFlush, OnJob
  <2>3. /\ InFlush(p, e)' => e \in found
        /\ \A q \in Processes \ {p} : InFlush(q, e)' <=> InFlush(q, e)
    BY <1>1 DEF InFlush
  <2>4. \A j \in Jobs : OnJob(j, e)' <=> OnJob(j, e)
    BY <1>1 DEF OnJob, Open
  <2>5. \A w \in Workers : InRun(w, e)' <=> InRun(w, e)
    BY <1>1 DEF InRun
  <2>6. Carried(e)'
    BY <1>1, <2>1, <2>2, <2>3, <2>4, <2>5 DEF Carried
  <2>7. Mailed(e)'
    BY <1>1, <2>1, <2>5 DEF Mailed
  <2> QED
    BY <2>6, <2>7
<1> QED
  BY <1>3, <1>4

\* What a flush adds leaves its hand, into a job that nobody runs.
LEMMA AddKeeps ==
  ASSUME QueueTypes, EntriesSound, NEW p \in Processes, FlushAdd(p)
  PROVE  QueueTypes' /\ EntriesSound'
<1> USE DEF QueueTypes
<1>1. PICK x \in {owner[e] : e \in hand[p]} :
        LET mine == {e \in hand[p] : owner[e] = x}
            rest == hand[p] \ mine
        IN
        \/ /\ \E j \in Jobs :
              /\ NextFree(j)
              /\ jobs' = [jobs EXCEPT ![j] = Queue!Landed(Queue!NoJob)]
              /\ load' = [load EXCEPT ![j] = mine]
              /\ fresh' = fresh \cup {j}
           /\ hand' = [hand EXCEPT ![p] = IF rest = {} THEN None ELSE rest]
        \/ /\ hand' = [hand EXCEPT ![p] = IF rest = {} THEN None ELSE rest]
           /\ UNCHANGED <<jobs, load, fresh>>
        \/ /\ hand' = [hand EXCEPT ![p] = None]
           /\ UNCHANGED <<jobs, load, fresh>>
  BY DEF FlushAdd
<1> DEFINE mine == {e \in hand[p] : owner[e] = x}
           rest == hand[p] \ mine
<1>2. /\ hand[p] # None
      /\ UNCHANGED <<task, scene, owner, entry, sent, resolvable, bell, doing, late, mails,
                     excused>>
  BY DEF FlushAdd, dispatchVars
<1>3. hand[p] \subseteq Entries /\ mine \subseteq hand[p]
  BY <1>2
<1>4. \E s \in {None, rest} : hand' = [hand EXCEPT ![p] = s]
  BY <1>1
<1>5. hand' \in [Processes -> (SUBSET Entries) \cup {None}]
  BY <1>3, <1>4
<1>6. ASSUME NEW e \in Entries
      PROVE  /\ InFlush(p, e)' => InFlush(p, e) /\ e \notin mine
             /\ \A q \in Processes \ {p} : InFlush(q, e)' <=> InFlush(q, e)
  BY <1>2, <1>4 DEF InFlush
<1>7. CASE UNCHANGED <<jobs, load, fresh>>
  <2>1. QueueTypes'
    BY <1>2, <1>5, <1>7
  <2>2. EntriesSound'
    <3> SUFFICES ASSUME NEW e \in Entries \ excused PROVE Carried(e)' /\ Mailed(e)'
      BY <1>2 DEF EntriesSound
    <3>1. Carried(e) /\ Mailed(e)
      BY DEF EntriesSound
    <3>2. \A q \in Processes : InFlush(q, e)' => InFlush(q, e)
      BY <1>6
    <3>3. \A j \in Jobs : OnJob(j, e)' <=> OnJob(j, e)
      BY <1>7 DEF OnJob, Open
    <3>4. \A w \in Workers : InRun(w, e)' <=> InRun(w, e)
      BY <1>2, <1>7 DEF InRun
    <3>5. Carried(e)'
      BY <1>2, <1>7, <3>1, <3>2, <3>3, <3>4 DEF Carried
    <3>6. Mailed(e)'
      BY <1>2, <3>1, <3>4 DEF Mailed
    <3> QED
      BY <3>5, <3>6
  <2> QED
    BY <2>1, <2>2
<1>8. ASSUME NEW j \in Jobs, NextFree(j),
             jobs' = [jobs EXCEPT ![j] = Queue!Landed(Queue!NoJob)],
             load' = [load EXCEPT ![j] = mine], fresh' = fresh \cup {j}
      PROVE  QueueTypes' /\ EntriesSound'
  <2> HIDE DEF mine, rest
  <2>1. Queue!Landed(Queue!NoJob) \in Queue!Job
    BY DEF Queue!NoJob, Queue!Landed, Queue!Job, Queue!JobState
  <2>2. QueueTypes'
    BY <1>2, <1>3, <1>5, <1>8, <2>1
  <2>3. EntriesSound'
    <3> SUFFICES ASSUME NEW e \in Entries \ excused PROVE Carried(e)' /\ Mailed(e)'
      BY <1>2 DEF EntriesSound
    <3>1. Carried(e) /\ Mailed(e)
      BY DEF EntriesSound
    <3>2. \A w \in Workers : doing[w] # j
      BY <1>8 DEF NextFree, Free, Kept
    <3>3. \A w \in Workers : /\ InRun(w, e)' <=> InRun(w, e)
                             /\ InRun(w, e) => jobs'[doing'[w]] = jobs[doing[w]]
      BY <1>2, <1>8, <3>2 DEF InRun
    <3>4. /\ OnJob(j, e)' => e \in mine
          /\ \A k \in Jobs \ {j} : OnJob(k, e)' <=> OnJob(k, e)
      BY <1>8 DEF OnJob, Open
    <3>5. e \in mine => InFlush(p, e)
      BY <1>2, <1>3 DEF InFlush
    <3>6. Carried(e)'
      BY <1>2, <1>6, <3>1, <3>3, <3>4, <3>5 DEF Carried
    <3>7. Mailed(e)'
      BY <1>2, <3>1, <3>3 DEF Mailed
    <3> QED
      BY <3>6, <3>7
  <2> QED
    BY <2>2, <2>3
<1> QED
  BY <1>1, <1>7, <1>8

\* A job that is taken was waiting, so nobody ran it.
LEMMA TakeKeeps ==
  ASSUME QueueTypes, EntriesSound, NEW w \in Workers, ProcessDigest(w)
  PROVE  QueueTypes' /\ EntriesSound'
<1> USE DEF QueueTypes
<1>1. PICK j \in Jobs : /\ jobs[j].state = "wait"
                        /\ jobs' = [jobs EXCEPT ![j] = Queue!Claimed(@, w)]
                        /\ doing' = [doing EXCEPT ![w] = j]
  BY DEF ProcessDigest
<1>2. /\ doing[w] = None
      /\ UNCHANGED <<task, scene, owner, entry, sent, resolvable, bell, hand, load, fresh, late, mails, excused>>
  BY DEF ProcessDigest, Idle
<1>3. /\ Queue!Claimed(jobs[j], w) \in Queue!Job /\ Queue!Holds(Queue!Claimed(jobs[j], w), w)
      /\ Queue!Claimed(jobs[j], w).state = "active"
  BY JobTyped, JobMoves
<1>4. /\ jobs'[j] = Queue!Claimed(jobs[j], w) /\ \A k \in Jobs \ {j} : jobs'[k] = jobs[k]
      /\ doing'[w] = j /\ \A v \in Workers \ {w} : doing'[v] = doing[v]
  BY <1>1
<1>5. QueueTypes'
  BY <1>1, <1>2, <1>3
<1>6. EntriesSound'
  <2> SUFFICES ASSUME NEW e \in Entries \ excused PROVE Carried(e)' /\ Mailed(e)'
    BY <1>2 DEF EntriesSound
  <2>1. Carried(e) /\ Mailed(e)
    BY DEF EntriesSound
  <2>2. \A k \in Jobs : OnJob(k, e)' <=> OnJob(k, e)
    BY <1>1, <1>2, <1>3, <1>4 DEF OnJob, Open
  <2>3. \A p \in Processes : InFlush(p, e)' <=> InFlush(p, e)
    BY <1>2 DEF InFlush
  <2>4. \A v \in Workers \ {w} : InRun(v, e)' <=> InRun(v, e)
    BY <1>2, <1>4 DEF InRun
  <2>5. \A v \in Workers : InRun(v, e)' => Queue!Holds(jobs'[doing'[v]], v)
    <3> SUFFICES ASSUME NEW v \in Workers, InRun(v, e)'
                 PROVE  Queue!Holds(jobs'[doing'[v]], v)
      OBVIOUS
    <3>1. CASE v = w
      BY <1>3, <1>4, <3>1
    <3>2. CASE v # w
      <4>1. InRun(v, e) /\ Queue!Holds(jobs[doing[v]], v) /\ doing[v] \in Jobs
        BY <2>1, <2>4, <3>2 DEF Carried, InRun
      <4>2. doing[v] # j
        BY <1>1, <4>1 DEF Queue!Holds
      <4> QED
        BY <1>4, <3>2, <4>1, <4>2
    <3> QED
      BY <3>1, <3>2
  <2>6. Carried(e)'
    BY <1>2, <2>1, <2>2, <2>3, <2>5 DEF Carried
  <2>7. ~InRun(w, e)
    BY <1>2 DEF InRun
  <2>8. Mailed(e)'
    BY <1>2, <2>1, <2>4, <2>7 DEF Mailed
  <2> QED
    BY <2>6, <2>8
<1> QED
  BY <1>5, <1>6

\* A run that is over without marking anything, its job rejected or left as it
\* is: what it had mailed is excused.
LEMMA RunLost ==
  ASSUME QueueTypes, EntriesSound, NEW w \in Workers, doing[w] # None,
         doing' = [doing EXCEPT ![w] = None],
         excused' = IF task[w]["email"] = "ok" THEN excused \cup load[doing[w]] ELSE excused,
         jobs' = jobs \/ jobs' = [jobs EXCEPT ![doing[w]] = Queue!Rejected(@, w)],
         \A v \in Workers \ {w} : task'[v] = task[v],
         UNCHANGED <<scene, owner, entry, sent, resolvable, bell, hand, load, fresh, late, mails>>
  PROVE  QueueTypes' /\ EntriesSound'
<1> USE DEF QueueTypes
<1> DEFINE j == doing[w]
<1>1. j \in Jobs /\ jobs[j] \in Queue!Job /\ load[j] \subseteq Entries
  OBVIOUS
<1>2. /\ Queue!Rejected(jobs[j], w) \in Queue!Job
      /\ ~Queue!Holds(jobs[j], w) => Queue!Rejected(jobs[j], w) = jobs[j]
      /\ Queue!Holds(jobs[j], w) => jobs[j].state = "active"
  BY <1>1, JobTyped, JobMoves
<1>3. /\ jobs'[j] = jobs[j] \/ (Queue!Holds(jobs[j], w) /\ jobs'[j] = Queue!Rejected(jobs[j], w))
      /\ \A k \in Jobs \ {j} : jobs'[k] = jobs[k]
      /\ doing'[w] = None /\ \A v \in Workers \ {w} : doing'[v] = doing[v]
  BY <1>1, <1>2
<1>4. QueueTypes'
  <2>1. jobs' \in [Jobs -> Queue!Job]
    BY <1>1, <1>2
  <2>2. doing' \in [Workers -> Jobs \cup {None}] /\ excused' \subseteq Entries
    BY <1>1
  <2> QED
    BY <2>1, <2>2
<1>5. EntriesSound'
  <2> SUFFICES ASSUME NEW e \in Entries \ excused' PROVE Carried(e)' /\ Mailed(e)'
    BY DEF EntriesSound
  <2>1. Carried(e) /\ Mailed(e)
    BY DEF EntriesSound
  <2>2. \A k \in Jobs : OnJob(k, e)' => OnJob(k, e)
    BY <1>2, <1>3 DEF OnJob, Open
  <2>3. \A p \in Processes : InFlush(p, e)' <=> InFlush(p, e)
    BY DEF InFlush
  <2>4. /\ ~InRun(w, e)'
        /\ \A v \in Workers \ {w} : InRun(v, e)' <=> InRun(v, e)
    BY <1>3 DEF InRun
  <2>5. \A v \in Workers : InRun(v, e)' => Queue!Holds(jobs'[doing'[v]], v)
    <3> SUFFICES ASSUME NEW v \in Workers, InRun(v, e)'
                 PROVE  Queue!Holds(jobs'[doing'[v]], v)
      OBVIOUS
    <3>1. v # w /\ InRun(v, e) /\ Queue!Holds(jobs[doing[v]], v) /\ doing[v] \in Jobs
      BY <2>1, <2>4 DEF Carried, InRun
    <3>2. jobs'[doing[v]] = jobs[doing[v]]
      BY <1>3, <3>1 DEF Queue!Holds
    <3> QED
      BY <1>3, <3>1, <3>2
  <2>6. Carried(e)'
    BY <2>1, <2>2, <2>3, <2>5 DEF Carried
  <2>7. ~(InRun(w, e) /\ task[w]["email"] = "ok")
    BY DEF InRun
  <2>8. Mailed(e)'
    BY <2>1, <2>4, <2>7 DEF Mailed
  <2> QED
    BY <2>6, <2>8
<1> QED
  BY <1>4, <1>5

\* A run marks its entries and reports its job: an entry it had alone is then
\* in no place any more.
LEMMA MarkKeeps ==
  ASSUME QueueTypes, EntriesSound, NEW w \in Workers, doing[w] # None, Reset(w),
         sent' = sent \cup load[doing[w]],
         jobs' = [jobs EXCEPT ![doing[w]] = Queue!Acked(@, w)],
         \A v \in Workers \ {w} : task'[v] = task[v],
         UNCHANGED <<scene, owner, entry, resolvable, bell, hand, load, fresh, late,
                     mails, excused>>
  PROVE  QueueTypes' /\ EntriesSound'
<1> USE DEF QueueTypes
<1>0. PICK j \in Jobs : j = doing[w]
  OBVIOUS
<1>1. jobs[j] \in Queue!Job /\ load[j] \subseteq Entries
      /\ doing' = [doing EXCEPT ![w] = None]
  BY DEF Reset
<1> USE <1>0
<1>2. /\ Queue!Acked(jobs[j], w) \in Queue!Job
      /\ ~Queue!Holds(jobs[j], w) => Queue!Acked(jobs[j], w) = jobs[j]
      /\ Queue!Holds(jobs[j], w) => /\ jobs[j].state = "active"
                                    /\ Queue!Acked(jobs[j], w).state = "completed"
  BY <1>1, JobTyped, JobMoves
<1>3. /\ jobs'[j] = Queue!Acked(jobs[j], w)
      /\ \A k \in Jobs \ {j} : jobs'[k] = jobs[k]
      /\ doing'[w] = None /\ \A v \in Workers \ {w} : doing'[v] = doing[v]
  BY <1>1
<1>4. QueueTypes'
  BY <1>1, <1>2
<1>5. EntriesSound'
  <2> SUFFICES ASSUME NEW e \in Entries \ excused PROVE Carried(e)' /\ Mailed(e)'
    BY DEF EntriesSound
  <2>1. Carried(e) /\ Mailed(e)
    BY DEF EntriesSound
  <2>2. \A k \in Jobs : OnJob(k, e)' => OnJob(k, e)
    BY <1>2, <1>3 DEF OnJob, Open
  <2>3. \A p \in Processes : InFlush(p, e)' <=> InFlush(p, e)
    BY DEF InFlush
  <2>4. /\ ~InRun(w, e)'
        /\ \A v \in Workers \ {w} : InRun(v, e)' <=> InRun(v, e)
    BY <1>3 DEF InRun
  <2>5. \A v \in Workers : InRun(v, e)' => Queue!Holds(jobs'[doing'[v]], v)
    <3> SUFFICES ASSUME NEW v \in Workers, InRun(v, e)'
                 PROVE  Queue!Holds(jobs'[doing'[v]], v)
      OBVIOUS
    <3>1. v # w /\ InRun(v, e) /\ Queue!Holds(jobs[doing[v]], v) /\ doing[v] \in Jobs
      BY <2>1, <2>4 DEF Carried, InRun
    <3>2. jobs'[doing[v]] = jobs[doing[v]]
      BY <1>2, <1>3, <3>1 DEF Queue!Holds
    <3> QED
      BY <1>3, <3>1, <3>2
  <2>6. CASE e \in load[j]
    <3>1. Queue!Holds(jobs[j], w)
      BY <2>1, <2>6 DEF Carried, InRun
    <3>2. OnJob(j, e)
      BY <1>2, <2>6, <3>1 DEF OnJob, Open
    <3>3. ~OnJob(j, e)'
      BY <1>2, <1>3, <3>1 DEF OnJob, Open
    <3>4. /\ \A p \in Processes : ~InFlush(p, e)'
          /\ \A k \in Jobs : ~OnJob(k, e)'
      BY <1>1, <2>1, <2>2, <2>3, <3>2, <3>3 DEF Carried
    <3>5. Carried(e)'
      BY <2>5, <3>4 DEF Carried
    <3>6. Mailed(e)'
      BY <2>1, <2>6 DEF Mailed
    <3> QED
      BY <3>5, <3>6
  <2>7. CASE e \notin load[j]
    <3>1. e \in sent' <=> e \in sent
      BY <2>7
    <3>2. Carried(e)'
      BY <2>1, <2>2, <2>3, <2>5, <3>1 DEF Carried
    <3>3. ~InRun(w, e)
      BY <2>7 DEF InRun
    <3>4. Mailed(e)'
      BY <2>1, <2>4, <3>1, <3>3 DEF Mailed
    <3> QED
      BY <3>2, <3>4
  <2> QED
    BY <2>6, <2>7
<1> QED
  BY <1>4, <1>5

\* A lock runs out: the entries of a run that still goes on are excused.
LEMMA ExpireKeeps ==
  ASSUME QueueTypes, EntriesSound, NEW j \in Jobs, LockExpires(j)
  PROVE  QueueTypes' /\ EntriesSound'
<1> USE DEF QueueTypes
<1>1. /\ jobs[j].state = "active" /\ jobs' = [jobs EXCEPT ![j] = Queue!Stalled(@)]
      /\ excused' = IF doing[jobs[j].owner] = j THEN excused \cup load[j] ELSE excused
      /\ UNCHANGED <<task, scene, owner, entry, sent, resolvable, bell, hand, load, fresh, doing,
                     late, mails>>
  BY DEF LockExpires, dispatchVars
<1>2. Queue!Stalled(jobs[j]) \in Queue!Job
  BY DEF Queue!Stalled, Queue!Job, Queue!JobState
<1>3. jobs'[j] = Queue!Stalled(jobs[j]) /\ \A k \in Jobs \ {j} : jobs'[k] = jobs[k]
  BY <1>1
<1>5. QueueTypes'
  <2>1. excused' \subseteq Entries
    BY <1>1
  <2> QED
    BY <1>1, <1>2, <2>1
<1>6. EntriesSound'
  <2> SUFFICES ASSUME NEW e \in Entries \ excused' PROVE Carried(e)' /\ Mailed(e)'
    BY DEF EntriesSound
  <2>1. e \in Entries \ excused /\ Carried(e) /\ Mailed(e)
    BY <1>1 DEF EntriesSound
  <2>2. \A k \in Jobs : OnJob(k, e)' => OnJob(k, e)
    BY <1>1, <1>3 DEF OnJob, Open
  <2>3. \A p \in Processes : InFlush(p, e)' <=> InFlush(p, e)
    BY <1>1 DEF InFlush
  <2>4. \A v \in Workers : InRun(v, e)' <=> InRun(v, e)
    BY <1>1 DEF InRun
  <2>5. \A v \in Workers : InRun(v, e) => doing[v] # j
    <3> SUFFICES ASSUME NEW v \in Workers, InRun(v, e), doing[v] = j PROVE FALSE
      OBVIOUS
    <3>1. jobs[j].owner = v
      BY <2>1 DEF Carried, Queue!Holds
    <3> QED
      BY <1>1, <3>1 DEF InRun
  <2>6. Carried(e)'
    <3>1. \A v \in Workers : InRun(v, e)' => Queue!Holds(jobs'[doing'[v]], v)
      <4> SUFFICES ASSUME NEW v \in Workers, InRun(v, e)
                   PROVE  Queue!Holds(jobs'[doing'[v]], v)
        BY <2>4
      <4>1. Queue!Holds(jobs[doing[v]], v) /\ doing[v] \in Jobs \ {j}
        BY <2>1, <2>5 DEF Carried, InRun
      <4> QED
        BY <1>1, <1>3, <4>1
    <3> QED
      BY <1>1, <2>1, <2>2, <2>3, <3>1 DEF Carried
  <2>7. Mailed(e)'
    BY <1>1, <2>1, <2>4 DEF Mailed
  <2> QED
    BY <2>6, <2>7
<1> QED
  BY <1>5, <1>6

\* A mail that carries an entry nobody excused is the first to do so.
LEMMA MailKeeps ==
  ASSUME DispatchTypes, TasksLawful, QueueTypes, EntriesSound, NEW w \in Workers,
         DigestDispatch(w)
  PROVE  QueueTypes' /\ EntriesSound'
<1> USE DEF QueueTypes
<1>1. /\ \A v \in Workers \ {w} : task'[v] = task[v]
      /\ task[w]["email"] = "ok" => task'[w]["email"] = "ok"
  BY DispatchKeeps DEF DigestDispatch
<1>2. UNCHANGED <<scene, owner, entry, sent, resolvable, bell, hand, jobs, load, fresh, doing,
                  late, excused>>
  BY DEF DigestDispatch
<1>3. mails' = IF doing[w] # None /\ task[w]["email"] = "ready" /\ task'[w]["email"] = "ok"
                 THEN [e \in Entries |-> mails[e] + (IF e \in load[doing[w]] THEN 1 ELSE 0)]
                 ELSE mails
  BY DEF DigestDispatch
<1>4. mails' \in [Entries -> Nat]
  BY <1>3
<1>5. QueueTypes'
  BY <1>2, <1>4
<1>6. EntriesSound'
  <2> SUFFICES ASSUME NEW e \in Entries \ excused PROVE Carried(e)' /\ Mailed(e)'
    BY <1>2 DEF EntriesSound
  <2>1. Carried(e) /\ Mailed(e)
    BY DEF EntriesSound
  <2>2. Carried(e)'
    BY <1>2, <2>1 DEF Carried, InFlush, OnJob, InRun, Open
  <2>3. CASE mails'[e] = mails[e]
    <3>1. \A v \in Workers : task[v]["email"] = "ok" => task'[v]["email"] = "ok"
      BY <1>1
    <3> QED
      BY <1>2, <2>1, <2>2, <2>3, <3>1 DEF Mailed, InRun
  <2>4. CASE mails'[e] # mails[e]
    <3>1. /\ InRun(w, e) /\ task[w]["email"] = "ready" /\ task'[w]["email"] = "ok"
          /\ mails'[e] = mails[e] + 1
      BY <1>3, <2>4 DEF InRun
    <3>2. \A v \in Workers : InRun(v, e) => OnJob(doing[v], e) /\ doing[v] \in Jobs
                                            /\ jobs[doing[v]].owner = v
      BY <2>1 DEF Carried, InRun, OnJob, Open, Queue!Holds
    <3>3. e \notin sent
      BY <2>1, <3>1, <3>2 DEF Carried
    <3>4. \A v \in Workers : InRun(v, e) => v = w
      BY <2>1, <3>1, <3>2 DEF Carried
    <3>5. mails[e] # 1
      BY <2>1, <3>1, <3>3, <3>4 DEF Mailed
    <3>6. mails'[e] = 1
      BY <2>1, <3>1, <3>5 DEF Mailed
    <3>7. InRun(w, e)'
      BY <1>2, <3>1 DEF InRun
    <3> QED
      BY <2>2, <3>1, <3>6, <3>7 DEF Mailed
  <2> QED
    BY <2>3, <2>4
<1> QED
  BY <1>5, <1>6

-----------------------------------------------------------------------------
\* A direct job in hand, or nothing but entries to buffer.
LEMMA Starts == Init => IInv
<1> SUFFICES ASSUME Init PROVE IInv
  OBVIOUS
<1>1. /\ task = [w \in Workers |-> NoTasks] /\ report = [w \in Workers |-> None]
      /\ stamped = {} /\ message = [w \in Workers |-> None] /\ faults = 0
      /\ entry = [e \in Entries |-> "absent"] /\ sent = {} /\ bell = {}
      /\ hand = [p \in Processes |-> None]
      /\ jobs = [j \in Jobs |-> Queue!NoJob] /\ load = [j \in Jobs |-> {}] /\ fresh = {}
      /\ doing = [w \in Workers |-> None]
      /\ late = 0 /\ mails = [e \in Entries |-> 0] /\ excused = {}
  BY DEF Init
<1>2. DigestOrder \in Orders
  BY DigestTextAssumption DEF DigestOrder, Orders, Texts
<1>3. /\ pc \in [Workers -> {"idle", "begin"}] /\ order \in [Workers -> Orders]
      /\ held \in [Workers -> SUBSET Channels] /\ suppressed \in BOOLEAN
      /\ scene \in Scenes \cup {<<{}, {}, {}>>} /\ owner \in [Entries -> Wallets]
      /\ resolvable \subseteq Wallets
  <2>1. CASE \E w \in {CHOOSE x \in Workers : TRUE}, d \in Direct :
               /\ pc = [v \in Workers |-> IF v = w THEN "begin" ELSE "idle"]
               /\ held = [v \in Workers |-> IF v = w THEN d[1] ELSE {}]
               /\ order = [v \in Workers |-> IF v = w THEN d[2] ELSE DigestOrder]
               /\ suppressed \in {FALSE, d[2].hashed}
               /\ scene = <<{}, {}, {}>> /\ owner \in [Entries -> {CHOOSE x \in Wallets : TRUE}]
               /\ resolvable = {}
    <3>1. PICK w \in {CHOOSE x \in Workers : TRUE}, d \in Direct :
               /\ pc = [v \in Workers |-> IF v = w THEN "begin" ELSE "idle"]
               /\ held = [v \in Workers |-> IF v = w THEN d[1] ELSE {}]
               /\ order = [v \in Workers |-> IF v = w THEN d[2] ELSE DigestOrder]
               /\ suppressed \in {FALSE, d[2].hashed}
               /\ scene = <<{}, {}, {}>> /\ owner \in [Entries -> {CHOOSE x \in Wallets : TRUE}]
               /\ resolvable = {}
      BY <2>1
    <3>2. d[1] \in SUBSET Channels /\ d[2] \in Orders
      BY DirectAssumption
    <3>3. d[2].hashed \in BOOLEAN
      BY <3>2 DEF Orders
    <3>4. (CHOOSE x \in Wallets : TRUE) \in Wallets
      BY WalletsAssumption
    <3>5. order \in [Workers -> Orders] /\ held \in [Workers -> SUBSET Channels]
      BY <1>2, <3>1, <3>2
    <3> QED
      BY <3>1, <3>3, <3>4, <3>5
  <2>2. CASE /\ pc = [w \in Workers |-> "idle"]
             /\ order = [w \in Workers |-> DigestOrder]
             /\ suppressed = TRUE
             /\ scene \in Scenes /\ held = [w \in Workers |-> scene[3]]
             /\ owner \in [Entries -> Wallets]
             /\ resolvable = Wallets
    <3>1. scene[3] \in SUBSET Channels
      BY <2>2, SceneAssumption
    <3> QED
      BY <1>2, <2>2, <3>1
  <2> QED
    BY <2>1, <2>2 DEF Init
<1>4. NoTasks \in [Channels -> TaskStates] /\ NoTasks["email"] = "none"
  BY DEF NoTasks, TaskStates, Channels
<1>5. DispatchTypes
  BY <1>1, <1>3, <1>4, FaultsAssumption DEF DispatchTypes
<1>6. QueueTypes
  <2>1. Queue!NoJob \in Queue!Job
    BY DEF Queue!NoJob, Queue!Job, Queue!JobState
  <2> QED
    BY <1>1, <1>3, <2>1, DigestBounds DEF QueueTypes
<1>7. TasksLawful
  BY <1>1, <1>3, <1>4 DEF TasksLawful
<1>8. EntriesSound
  <2> SUFFICES ASSUME NEW e \in Entries PROVE Carried(e) /\ Mailed(e)
    BY DEF EntriesSound
  <2>1. /\ \A p \in Processes : ~InFlush(p, e)
        /\ \A w \in Workers : ~InRun(w, e)
    BY <1>1 DEF InFlush, InRun
  <2>2. \A j \in Jobs : ~OnJob(j, e)
    BY <1>1 DEF OnJob
  <2> QED
    BY <1>1, <2>1, <2>2 DEF Carried, Mailed
<1> QED
  BY <1>5, <1>6, <1>7, <1>8 DEF IInv

\* A run that throws, and one whose process dies.
LEMMA ThrowKeeps ==
  ASSUME IInv, NEW w \in Workers, doing[w] # None, Throws(w),
         UNCHANGED <<suppressed, scene, owner, entry, sent, resolvable, bell, hand, load, fresh,
                     late, mails>>
  PROVE  IInv'
<1> USE DEF IInv
<1>1. Reset(w) /\ faults' \in 0..MaxFaults
  BY FaultsAssumption DEF Throws, Fault, DispatchTypes
<1>2. /\ DispatchTypes' /\ TasksLawful'
      /\ \A v \in Workers \ {w} : task'[v] = task[v]
  BY <1>1, ResetKeeps
<1>3. QueueTypes' /\ EntriesSound'
  BY <1>1, <1>2, RunLost DEF Throws, Reset
<1> QED
  BY <1>2, <1>3

\* Every step of a worker keeps the invariant.
LEMMA RunKeeps ==
  ASSUME IInv, NEW w \in Workers, Run(w)
  PROVE  IInv'
<1> USE DEF IInv
<1>1. faults \in 0..MaxFaults
  BY DEF DispatchTypes
<1>2. CASE ProcessDigest(w)
  <2>1. QueueTypes' /\ EntriesSound'
    BY <1>2, TakeKeeps
  <2>2. \E s \in {"begin", "mark"} :
          /\ pc[w] = "idle" /\ pc' = [pc EXCEPT ![w] = s]
          /\ UNCHANGED <<order, held, task, report, stamped, message, suppressed, faults>>
    BY <1>2 DEF ProcessDigest, Idle
  <2>3. DispatchTypes'
    BY <2>2 DEF DispatchTypes
  <2>4. TasksLawful'
    BY <2>2 DEF TasksLawful, DispatchTypes, Tried, Reached
  <2> QED
    BY <2>1, <2>3, <2>4
<1>3. CASE LookUpFails(w)
  BY <1>3, ThrowKeeps DEF LookUpFails
<1>4. CASE DigestDispatch(w)
  <2>1. QueueTypes' /\ EntriesSound'
    BY <1>4, MailKeeps
  <2> QED
    BY <1>4, <2>1, DispatchKeeps DEF DigestDispatch
<1>5. CASE MarkAsSent(w)
  <2>1. doing[w] # None
    BY <1>5 DEF MarkAsSent
  <2>2. UNCHANGED <<suppressed, scene, owner, entry, resolvable, bell, hand, load, fresh, late, mails>>
    BY <1>5 DEF MarkAsSent
  <2>3. CASE /\ sent' = sent \cup load[doing[w]]
             /\ jobs' = [jobs EXCEPT ![doing[w]] = Queue!Acked(@, w)]
             /\ Reset(w) /\ UNCHANGED <<faults, excused>>
    <3>1. /\ DispatchTypes' /\ TasksLawful'
          /\ \A v \in Workers \ {w} : task'[v] = task[v]
      BY <1>1, <2>2, <2>3, ResetKeeps
    <3>2. QueueTypes' /\ EntriesSound'
      BY <2>1, <2>2, <2>3, <3>1, MarkKeeps
    <3> QED
      BY <3>1, <3>2
  <2>4. CASE Throws(w) /\ UNCHANGED sent
    BY <2>1, <2>2, <2>4, ThrowKeeps
  <2> QED
    BY <1>5, <2>3, <2>4 DEF MarkAsSent, Marked
<1>6. CASE Crash(w)
  <2>1. /\ doing[w] # None /\ Reset(w) /\ Fault /\ UNCHANGED suppressed
        /\ excused' = IF task[w]["email"] = "ok" THEN excused \cup load[doing[w]] ELSE excused
        /\ UNCHANGED <<scene, owner, entry, sent, resolvable, bell, hand, jobs, load, fresh, late,
                       mails>>
    BY <1>6 DEF Crash
  <2>2. /\ DispatchTypes' /\ TasksLawful'
        /\ \A v \in Workers \ {w} : task'[v] = task[v]
    BY <1>1, <2>1, ResetKeeps, FaultsAssumption DEF Fault
  <2>3. QueueTypes' /\ EntriesSound'
    BY <2>1, <2>2, RunLost DEF Reset
  <2> QED
    BY <2>2, <2>3
<1> QED
  BY <1>2, <1>3, <1>4, <1>5, <1>6 DEF Run

\* Every step of buffering, flushing, queue and workers keeps the invariant.
LEMMA Inductive == IInv /\ [Next]_vars => IInv'
<1> SUFFICES ASSUME IInv, [Next]_vars PROVE IInv'
  OBVIOUS
<1> USE DEF IInv
<1>1. faults \in 0..MaxFaults
  BY DEF DispatchTypes
<1>2. Fault => faults' \in 0..MaxFaults
  BY <1>1, FaultsAssumption DEF Fault
<1>3. ASSUME NEW e \in Entries, ProcessDigestMode(e) PROVE IInv'
  <2>1. UNCHANGED <<dispatchVars, suppressed, faults, sent, hand, jobs, load, doing, mails, excused>>
        /\ UNCHANGED <<scene, owner, resolvable, bell, fresh, late>>
        /\ entry' = [entry EXCEPT ![e] = "buffered"]
    BY <1>3 DEF ProcessDigestMode, BufferForDigest
  <2>2. QueueTypes'
    BY <2>1 DEF QueueTypes
  <2>3. EntriesSound'
    BY <2>1, EntriesStay DEF dispatchVars
  <2> QED
    BY <1>1, <2>1, <2>2, <2>3, DispatchStays
<1>4. CASE HourPasses
  BY <1>1, <1>4, HourKeeps, DispatchStays DEF HourPasses
<1>5. ASSUME NEW p \in Processes, FlushRead(p) PROVE IInv'
  BY <1>1, <1>5, ReadKeeps, DispatchStays DEF FlushRead
<1>6. ASSUME NEW p \in Processes, FlushAdd(p) PROVE IInv'
  <2>1. UNCHANGED <<dispatchVars, suppressed>> /\ faults' \in 0..MaxFaults
    BY <1>1, <1>2, <1>6 DEF FlushAdd
  <2> QED
    BY <1>6, <2>1, AddKeeps, DispatchStays
<1>7. ASSUME NEW w \in Workers, Run(w) PROVE IInv'
  BY <1>7, RunKeeps
<1>8. ASSUME NEW j \in Jobs, LockExpires(j) PROVE IInv'
  BY <1>1, <1>2, <1>8, ExpireKeeps, DispatchStays DEF LockExpires
<1>9. ASSUME NEW x \in Wallets, BecomesUnresolvable(x) PROVE IInv'
  <2>1. UNCHANGED <<dispatchVars, suppressed, sent, hand, jobs, load, doing, mails, excused>>
        /\ UNCHANGED <<scene, owner, entry, bell, fresh, late>>
        /\ resolvable' = resolvable \ {x} /\ faults' \in 0..MaxFaults
    BY <1>2, <1>9 DEF BecomesUnresolvable
  <2>2. QueueTypes'
    BY <2>1 DEF QueueTypes
  <2>3. EntriesSound'
    BY <2>1, EntriesStay DEF dispatchVars
  <2> QED
    BY <1>1, <2>1, <2>2, <2>3, DispatchStays
<1>10. CASE UNCHANGED vars
  <2>1. QueueTypes'
    BY <1>10 DEF vars, digestVars, QueueTypes
  <2>2. EntriesSound'
    BY <1>10, EntriesStay DEF vars, digestVars, dispatchVars
  <2> QED
    BY <1>1, <1>10, <2>1, <2>2, DispatchStays DEF vars
<1> QED
  BY <1>3, <1>4, <1>5, <1>6, <1>7, <1>8, <1>9, <1>10 DEF Next

\* Whatever flushes, workers and the queue do, the invariant holds throughout.
LEMMA InvariantHolds == Spec => []IInv
BY Starts, Inductive, PTL DEF Spec

-----------------------------------------------------------------------------
\* Every variable keeps its type.
THEOREM TypeCorrect == Spec => []TypeOK
<1>1. IInv => TypeOK
  BY DEF IInv, DispatchTypes, QueueTypes, TypeOK
<1> QED
  BY <1>1, InvariantHolds, PTL

\* dispatch and resolveAllowedChannels: whatever a job asks for and whichever
\* tasks fail, the channels tried are lawful and the result is true.
THEOREM DispatchesAreLawful == Spec => []DispatchLawful
<1>1. ASSUME IInv PROVE DispatchLawful
  <2> SUFFICES ASSUME NEW w \in Workers, pc[w] = "settled"
               PROVE  DispatchLawful!(w)!2
    BY DEF DispatchLawful
  <2>1. held[w] \in SUBSET Channels /\ order[w] \in Orders
    BY <1>1 DEF IInv, DispatchTypes
  <2>2. /\ Tried(w) = AllowedChannels(held[w], order[w]) \cap held[w]
        /\ report[w].all <=> Tried(w) # {} /\ Reached(w) = Tried(w)
        /\ task[w]["email"] = "ok" /\ order[w].hashed => ~suppressed
    BY <1>1 DEF IInv, TasksLawful
  <2>3. "email" \in Reached(w) => task[w]["email"] = "ok"
    BY DEF Reached
  <2> QED
    BY <2>1, <2>2, <2>3, AllowedIsLawful
<1> QED
  BY <1>1, InvariantHolds, PTL

\* buildSmsBody: an SMS that stays ASCII has the room of a GSM-7 message, and
\* another one is one UCS-2 message but for the named cases, whatever the text,
\* its prefix and its subject are.
THEOREM SmsAlwaysFits == Spec => []SmsFits
<1>1. ASSUME IInv PROVE SmsFits
  <2> SUFFICES ASSUME NEW w \in Workers, message[w] # None
               PROVE  SmsFits!(w)!2
    BY DEF SmsFits
  <2>1. order[w].text \in Texts /\ order[w].overhead \in Nat /\ order[w].asciiHead \in BOOLEAN
    BY <1>1 DEF IInv, DispatchTypes, Orders
  <2>2. message[w] = SmsOf(order[w])
    BY <1>1 DEF IInv, TasksLawful
  <2> QED
    BY <2>1, <2>2, BodyFits DEF SmsOf
<1> QED
  BY <1>1, InvariantHolds, PTL

\* flushDueDigests and DigestWorker.process: an entry is mailed twice only when
\* two flushes or jobs had it, or a run was cut off after its mail.
THEOREM DigestRepeatsAreExplained == Spec => []DigestRepeatExplained
<1>1. IInv => DigestRepeatExplained
  BY DEF IInv, QueueTypes, EntriesSound, Mailed, DigestRepeatExplained
<1> QED
  BY <1>1, InvariantHolds, PTL
=============================================================================
