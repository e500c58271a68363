---------------------- MODULE TaskManagerQueuedProofs ----------------------
(***************************************************************************)
(* Proofs about the queued task manager, for every set of requests, every  *)
(* number of threads and every number of calls.                            *)
(*                                                                         *)
(* The scan of tryRunTasks is dealt with first, by lemmas about            *)
(* ScanStarts alone: it has exactly one outcome, that of the loop; what it *)
(* starts is free of conflicts, leaves no runnable task behind, respects   *)
(* the thread limit and the order of the queue.  The inductive invariant   *)
(* IInv then follows action by action.  From it come the refinement of     *)
(* TaskScheduler, and that a drain waits for work that only becomes less.  *)
(***************************************************************************)
EXTENDS TaskManagerQueued, FiniteSetTheorems, WellFoundedInduction, TLAPS

(* The properties, of a queue and a running set that are not the current ones *)

NoConflictIn(running) ==
  \A t, u \in running : t # u =>
    /\ t.info.ranges \cap u.info.ranges = {}
    /\ ~(t.info.withProgress /\ u.info.withProgress)

NothingRunnableIn(queue, running) ==
  \A t \in queue :
    \/ Cardinality(running) >= MaximumNumberOfThreads
    \/ ~CanRunTask(t, running)

InOrderIn(queue, running) ==
  \A t \in queue, u \in running :
    t.ticket < u.ticket =>
      ~ /\ t.info.ranges \subseteq u.info.ranges
        /\ t.info.withProgress => u.info.withProgress

OneTaskPerTicket(tasks) == \A t, u \in tasks : t.ticket = u.ticket => t = u

----------------------------------------------------------------------------
(* The scan *)

\* There are finitely many tasks.
LEMMA TaskFinite == IsFiniteSet(Task)
<1> DEFINE Pairs == (1..MaxRequests) \X TaskInfos
           make  == [p \in Pairs |-> [ticket |-> p[1], info |-> p[2]]]
<1>1. IsFiniteSet(Pairs)
  <2>1. IsFiniteSet(1..MaxRequests)
    BY RequestsAssumption, FS_Interval
  <2>2. QED
    BY <2>1, TaskInfosAssumption, FS_Product
<1>2. make \in [Pairs -> Task]
  BY DEF Task
<1>3. \A t \in Task : \E p \in Pairs : make[p] = t
  <2>1. SUFFICES ASSUME NEW t \in Task PROVE \E p \in Pairs : make[p] = t
    OBVIOUS
  <2>2. <<t.ticket, t.info>> \in Pairs /\ make[<<t.ticket, t.info>>] = t
    BY DEF Task
  <2>3. QED
    BY <2>2
<1>4. make \in Surjection(Pairs, Task)
  BY <1>2, <1>3 DEF Surjection
<1>5. QED
  BY <1>1, <1>4, FS_Surjection

\* Every set of natural numbers has a least one.
LEMMA LeastNat ==
  ASSUME NEW S \in SUBSET Nat, S # {}
  PROVE  \E least \in S : \A n \in S : least <= n
<1>1. PICK least \in S : \A n \in S : <<n, least>> \notin OpToRel(<, Nat)
  BY NatLessThanWellFounded, WFMin
<1>2. \A n \in S : ~(n < least)
  BY <1>1 DEF OpToRel
<1>3. QED
  BY <1>2

\* A non-empty set of tasks with unique tickets has a last one.
LEMMA LastTask ==
  ASSUME NEW tasks \in SUBSET Task, tasks # {}, OneTaskPerTicket(tasks)
  PROVE  \E m \in tasks : \A t \in tasks : t # m => t.ticket < m.ticket
<1> DEFINE Back == {MaxRequests - t.ticket : t \in tasks}
<1>1. Back \subseteq Nat /\ Back # {}
  BY RequestsAssumption DEF Task
<1>2. PICK least \in Back : \A n \in Back : least <= n
  <2> HIDE DEF Back
  <2>1. QED
    BY <1>1, LeastNat
<1>3. \A n \in Back : ~(n < least)
  <2> HIDE DEF Back
  <2>1. QED
    BY <1>1, <1>2
<1>4. PICK m \in tasks : least = MaxRequests - m.ticket
  OBVIOUS
<1>5. \A t \in tasks : t # m => t.ticket < m.ticket
  <2>1. SUFFICES ASSUME NEW t \in tasks, t # m PROVE t.ticket < m.ticket
    OBVIOUS
  <2>2. MaxRequests - t.ticket \in Back
    OBVIOUS
  <2>3. ~(MaxRequests - t.ticket < MaxRequests - m.ticket)
    BY <1>3, <1>4, <2>2
  <2>4. t.ticket # m.ticket
    BY <2>1 DEF OneTaskPerTicket
  <2>5. QED
    BY <2>3, <2>4, RequestsAssumption DEF Task
<1>6. QED
  BY <1>5

\* Two sets that satisfy the condition of the scan are the same: the tasks before
\* the first one in which they differ decide on that one.
LEMMA ScanStartsOneSet ==
  ASSUME NEW queue \in SUBSET Task, NEW running,
         NEW started \in SUBSET queue, ScanStarts(queue, running, started),
         NEW other \in SUBSET queue, ScanStarts(queue, running, other)
  PROVE  started = other
<1> DEFINE Differ == {t \in queue : ~(t \in started <=> t \in other)}
           S == {t.ticket : t \in Differ}
<1>1. SUFFICES ASSUME Differ # {} PROVE FALSE
  OBVIOUS
<1>2. S \in SUBSET Nat /\ S # {}
  BY <1>1, RequestsAssumption DEF Task
<1>3. PICK least \in S : \A n \in S : least <= n
  <2> HIDE DEF S
  <2>1. QED
    BY <1>2, LeastNat
<1>4. PICK t \in Differ : least = t.ticket
  OBVIOUS
<1>5. \A u \in queue : u.ticket < t.ticket => (u \in started <=> u \in other)
  <2>1. SUFFICES ASSUME NEW u \in Differ, u.ticket < t.ticket PROVE FALSE
    OBVIOUS
  <2>2. t.ticket <= u.ticket
    BY <1>3, <1>4
  <2>3. QED
    BY <2>1, <2>2, RequestsAssumption DEF Task
<1>6. Earlier(t, started) = Earlier(t, other)
  BY <1>5 DEF Earlier
<1>7. QED
  BY <1>6 DEF ScanStarts, SeenBy

\* The scan up to the ticket n.
ScanUpTo(queue, running, n, started) ==
  \A t \in queue :
    t \in started <=> t.ticket <= n /\ MayStart(t, SeenBy(t, running, started))

LEMMA ScanStartsSomeSet ==
  ASSUME NEW queue \in SUBSET Task, NEW running
  PROVE  \E started \in SUBSET queue : ScanStarts(queue, running, started)
<1> DEFINE S == {n \in Nat : ~\E started \in SUBSET queue : ScanUpTo(queue, running, n, started)}
<1>1. \A t \in queue : t.ticket \in Nat /\ 1 <= t.ticket /\ t.ticket <= MaxRequests
  BY RequestsAssumption DEF Task
<1>2. S = {}
  <2>1. SUFFICES ASSUME S # {} PROVE FALSE
    OBVIOUS
  <2>2. PICK least \in S : \A n \in S : least <= n
    <3>1. S \in SUBSET Nat
      OBVIOUS
    <3> HIDE DEF S
    <3>2. QED
      BY <2>1, <3>1, LeastNat
  <2>3. least \in Nat /\ ~\E started \in SUBSET queue : ScanUpTo(queue, running, least, started)
    OBVIOUS
  <2>4. least # 0
    <3>1. \A t \in queue : ~(t.ticket <= 0)
      BY <1>1
    <3>2. ScanUpTo(queue, running, 0, {})
      BY <3>1 DEF ScanUpTo
    <3>3. QED
      BY <2>3, <3>2
  <2>5. least - 1 \in Nat /\ least - 1 \notin S
    BY <2>2, <2>3, <2>4
  <2>6. PICK before \in SUBSET queue : ScanUpTo(queue, running, least - 1, before)
    BY <2>5
  <2> DEFINE more    == {t \in queue : t.ticket = least /\ MayStart(t, SeenBy(t, running, before))}
             started == before \cup more
  <2>7. \A t \in queue : t.ticket <= least =>
          SeenBy(t, running, started) = SeenBy(t, running, before)
    <3>1. SUFFICES ASSUME NEW t \in queue, t.ticket <= least
                   PROVE  SeenBy(t, running, started) = SeenBy(t, running, before)
      OBVIOUS
    <3>2. \A u \in more : ~(u.ticket < t.ticket)
      BY <1>1, <2>3, <3>1
    <3> HIDE DEF more, S
    <3>3. QED
      BY <3>2 DEF SeenBy, Earlier
  <2>8. \A t \in queue : t.ticket <= least <=> t.ticket <= least - 1 \/ t.ticket = least
    BY <1>1, <2>3, <2>4
  <2>9. \A t \in queue : t.ticket = least => ~(t.ticket <= least - 1)
    BY <2>3
  <2> HIDE DEF S
  <2>10. ScanUpTo(queue, running, least, started)
    <3>1. SUFFICES ASSUME NEW t \in queue
                   PROVE  t \in started <=>
                            t.ticket <= least /\ MayStart(t, SeenBy(t, running, started))
      BY DEF ScanUpTo
    <3>2. t \in before <=> t.ticket <= least - 1 /\ MayStart(t, SeenBy(t, running, before))
      BY <2>6 DEF ScanUpTo
    <3>3. CASE ~(t.ticket <= least)
      BY <2>8, <3>2, <3>3
    <3>4. CASE t.ticket <= least
      <4>1. SeenBy(t, running, started) = SeenBy(t, running, before)
        BY <2>7, <3>4
      <4>2. t \in more <=> t.ticket = least /\ MayStart(t, SeenBy(t, running, before))
        OBVIOUS
      <4> HIDE DEF more
      <4>3. t \in started <=> t \in before \/ t \in more
        OBVIOUS
      <4> HIDE DEF started
      <4>4. QED
        BY <2>8, <2>9, <3>2, <3>4, <4>1, <4>2, <4>3
    <3>5. QED
      BY <3>3, <3>4
  <2>11. started \in SUBSET queue
    OBVIOUS
  <2>12. QED
    BY <2>3, <2>10, <2>11
<1>3. PICK started \in SUBSET queue : ScanUpTo(queue, running, MaxRequests, started)
  BY <1>2, RequestsAssumption
<1>4. QED
  BY <1>1, <1>3 DEF ScanUpTo, ScanStarts

\* A scan has exactly one outcome, whatever waits and runs: tryRunTasks never
\* gets stuck, and which threads it creates is decided by the queue alone.
THEOREM ScanIsDetermined ==
  ASSUME NEW queue \in SUBSET Task, NEW running
  PROVE  \E started \in SUBSET queue :
           /\ ScanStarts(queue, running, started)
           /\ \A other \in SUBSET queue :
                ScanStarts(queue, running, other) => other = started
BY ScanStartsSomeSet, ScanStartsOneSet

InTicketOrder(queue) == \A i, j \in DOMAIN queue : i < j => queue[i].ticket < queue[j].ticket

Elements(queue) == {queue[i] : i \in DOMAIN queue}

\* What a scan that starts s has started after k turns of the loop.
StartedAfter(queue, s, k) == {u \in s : \E i \in 1..k : u = queue[i]}

\* One turn: the task at k finds started what comes before it, and is started if
\* it may.
LEMMA OneTurn ==
  ASSUME NEW queue \in Seq(Task), InTicketOrder(queue), NEW running,
         NEW s \in SUBSET Elements(queue), ScanStarts(Elements(queue), running, s),
         NEW k \in 1..Len(queue)
  PROVE  StartedAfter(queue, s, k) =
           IF MayStart(queue[k], running \cup StartedAfter(queue, s, k-1))
           THEN StartedAfter(queue, s, k-1) \cup {queue[k]}
           ELSE StartedAfter(queue, s, k-1)
<1>1. /\ Len(queue) \in Nat /\ DOMAIN queue = 1..Len(queue) /\ k \in Nat /\ k - 1 \in Nat
      /\ \A i \in 1..Len(queue) : queue[i].ticket \in Nat
  <2>1. \A t \in Task : t.ticket \in Nat
    BY RequestsAssumption DEF Task
  <2>2. Len(queue) \in Nat /\ DOMAIN queue = 1..Len(queue)
    OBVIOUS
  <2>3. k \in Nat /\ k - 1 \in Nat
    BY <2>2
  <2>4. \A i \in 1..Len(queue) : queue[i] \in Task
    OBVIOUS
  <2>5. QED
    BY <2>1, <2>2, <2>3, <2>4
<1>2. queue[k] \in Elements(queue)
  BY <1>1 DEF Elements
<1>3. Earlier(queue[k], s) = StartedAfter(queue, s, k-1)
  <2>1. ASSUME NEW i \in 1..Len(queue)
        PROVE  queue[i].ticket < queue[k].ticket <=> i \in 1..k-1
    <3>1. i < k \/ k < i \/ k = i
      BY <1>1
    <3>2. i < k <=> i \in 1..k-1
      BY <1>1
    <3>3. QED
      BY <1>1, <3>1, <3>2 DEF InTicketOrder
  <2>2. \A u \in s : \E i \in 1..Len(queue) : u = queue[i]
    BY <1>1 DEF Elements
  <2>3. \A i \in 1..k-1 : i \in 1..Len(queue)
    BY <1>1
  <2>4. QED
    BY <2>1, <2>2, <2>3 DEF Earlier, StartedAfter
<1>4. queue[k] \in s <=> MayStart(queue[k], running \cup StartedAfter(queue, s, k-1))
  BY <1>2, <1>3 DEF ScanStarts, SeenBy
<1>5. \A i : i \in 1..k <=> i \in 1..k-1 \/ i = k
  BY <1>1
<1>6. StartedAfter(queue, s, k) = StartedAfter(queue, s, k-1) \cup ({queue[k]} \cap s)
  BY <1>5 DEF StartedAfter
<1>7. QED
  BY <1>4, <1>6

\* The loop over the queue starts what ScanStarts says, for any queue in the order
\* of its tickets, any tasks that run and any number of threads.
THEOREM LoopIsTheScan ==
  ASSUME NEW queue \in Seq(Task), InTicketOrder(queue), NEW running
  PROVE  /\ LoopStarts(queue, running) \in SUBSET Elements(queue)
         /\ ScanStarts(Elements(queue), running, LoopStarts(queue, running))
<1>1. Elements(queue) \in SUBSET Task /\ Len(queue) \in Nat
  BY DEF Elements
<1>2. PICK s \in SUBSET Elements(queue) : ScanStarts(Elements(queue), running, s)
  BY <1>1, ScanStartsSomeSet
<1> DEFINE turns(f) == [k \in 0..Len(queue) |->
                          IF k = 0 THEN {}
                          ELSE IF MayStart(queue[k], running \cup f[k-1])
                               THEN f[k-1] \cup {queue[k]}
                               ELSE f[k-1]]
           started == CHOOSE f : f = turns(f)
           known   == [k \in 0..Len(queue) |-> StartedAfter(queue, s, k)]
<1>3. known = turns(known)
  <2>1. StartedAfter(queue, s, 0) = {}
    BY DEF StartedAfter
  <2>2. \A k \in 0..Len(queue) : k # 0 => k \in 1..Len(queue) /\ k - 1 \in 0..Len(queue)
    BY <1>1
  <2>3. ASSUME NEW k \in 0..Len(queue), k # 0
        PROVE  known[k] = IF MayStart(queue[k], running \cup known[k-1])
                          THEN known[k-1] \cup {queue[k]}
                          ELSE known[k-1]
    <3>1. k \in 1..Len(queue) /\ k - 1 \in 0..Len(queue)
      BY <2>2, <2>3
    <3>2. known[k] = StartedAfter(queue, s, k) /\ known[k-1] = StartedAfter(queue, s, k-1)
      BY <3>1
    <3>3. StartedAfter(queue, s, k) =
            IF MayStart(queue[k], running \cup StartedAfter(queue, s, k-1))
            THEN StartedAfter(queue, s, k-1) \cup {queue[k]}
            ELSE StartedAfter(queue, s, k-1)
      <4> HIDE DEF known, turns, started
      <4>1. s \in SUBSET Elements(queue) /\ ScanStarts(Elements(queue), running, s)
        BY <1>2
      <4>2. k \in 1..Len(queue)
        BY <3>1
      <4>3. QED
        BY <4>1, <4>2, OneTurn, ZenonT(60)
    <3> HIDE DEF known
    <3>4. QED
      BY <3>2, <3>3
  <2>4. known[0] = {}
    BY <1>1, <2>1
  <2>5. known = [k \in 0..Len(queue) |-> known[k]]
    OBVIOUS
  <2> HIDE DEF known
  <2>6. QED
    BY <2>3, <2>4, <2>5
<1>4. started = turns(started)
  <2> HIDE DEF known, turns
  <2>1. QED
    BY <1>3
<1>5. \A k \in 0..Len(queue) : started[k] = known[k]
  <2> DEFINE Differ == {k \in 0..Len(queue) : started[k] # known[k]}
  <2>1. SUFFICES ASSUME Differ # {} PROVE FALSE
    OBVIOUS
  <2>2. Differ \in SUBSET Nat
    BY <1>1
  <2> HIDE DEF started, known
  <2>3. PICK least \in Differ : \A k \in Differ : least <= k
    <3> HIDE DEF Differ
    <3>1. QED
      BY <2>1, <2>2, LeastNat
  <2>4. least \in 0..Len(queue) /\ started[least] # known[least]
    OBVIOUS
  <2>5. CASE least = 0
    BY <1>3, <1>4, <2>4, <2>5
  <2>6. CASE least # 0
    <3>1. least - 1 \in 0..Len(queue) /\ ~(least <= least - 1)
      BY <1>1, <2>4, <2>6
    <3>2. started[least - 1] = known[least - 1]
      BY <2>3, <3>1
    <3>3. QED
      BY <1>3, <1>4, <2>4, <2>6, <3>2
  <2>7. QED
    BY <2>5, <2>6
<1>6. known[Len(queue)] = s
  <2>1. \A u \in s : \E i \in 1..Len(queue) : u = queue[i]
    BY DEF Elements
  <2>2. known[Len(queue)] = StartedAfter(queue, s, Len(queue))
    BY <1>1
  <2>3. QED
    BY <2>1, <2>2 DEF StartedAfter
<1>7. LoopStarts(queue, running) = started[Len(queue)]
  BY DEF LoopStarts
<1> HIDE DEF started, known
<1>8. LoopStarts(queue, running) = s
  BY <1>1, <1>5, <1>6, <1>7
<1>9. QED
  BY <1>2, <1>8

\* What a scan starts neither conflicts with what runs nor among itself.
LEMMA ScanNoConflict ==
  ASSUME NEW queue \in SUBSET Task, NEW running \in SUBSET Task,
         NEW started \in SUBSET queue, ScanStarts(queue, running, started),
         OneTaskPerTicket(queue), NoConflictIn(running)
  PROVE  NoConflictIn(running \cup started)
<1>1. \A t \in started : CanRunTask(t, SeenBy(t, running, started))
  BY DEF ScanStarts, MayStart
<1>2. \A t \in started, r \in running :
        /\ r.info.ranges \cap t.info.ranges = {}
        /\ ~(t.info.withProgress /\ r.info.withProgress)
  BY <1>1 DEF CanRunTask, SeenBy
<1>3. \A t, u \in started : u.ticket < t.ticket =>
        /\ u.info.ranges \cap t.info.ranges = {}
        /\ ~(t.info.withProgress /\ u.info.withProgress)
  BY <1>1 DEF CanRunTask, SeenBy, Earlier
<1>4. \A t, u \in started : t # u => t.ticket < u.ticket \/ u.ticket < t.ticket
  <2>1. SUFFICES ASSUME NEW t \in started, NEW u \in started, t # u
                 PROVE  t.ticket < u.ticket \/ u.ticket < t.ticket
    OBVIOUS
  <2>2. t.ticket # u.ticket
    BY <2>1 DEF OneTaskPerTicket
  <2>3. t.ticket \in Int /\ u.ticket \in Int
    BY RequestsAssumption DEF Task
  <2>4. QED
    BY <2>2, <2>3
<1>5. QED
  BY <1>2, <1>3, <1>4 DEF NoConflictIn

\* The scan stops at the thread limit: the last task it starts found a thread left.
LEMMA ScanThreadLimit ==
  ASSUME NEW queue \in SUBSET Task, NEW running \in SUBSET Task,
         NEW started \in SUBSET queue, ScanStarts(queue, running, started),
         OneTaskPerTicket(queue), queue \cap running = {},
         Cardinality(running) <= MaximumNumberOfThreads
  PROVE  Cardinality(running \cup started) <= MaximumNumberOfThreads
<1>1. CASE started = {}
  <2>1. running \cup started = running
    BY <1>1
  <2>2. QED
    BY <2>1
<1>2. CASE started # {}
  <2>1. OneTaskPerTicket(started)
    BY DEF OneTaskPerTicket
  <2>2. PICK m \in started : \A t \in started : t # m => t.ticket < m.ticket
    BY <1>2, <2>1, LastTask
  <2> DEFINE before == SeenBy(m, running, started)
  <2>3. Cardinality(before) < MaximumNumberOfThreads
    BY DEF ScanStarts, MayStart
  <2>4. m.ticket \in Nat
    BY RequestsAssumption DEF Task
  <2>5. ~(m.ticket < m.ticket)
    BY <2>4
  <2>6. running \cup started = before \cup {m} /\ m \notin before
    BY <2>2, <2>5 DEF SeenBy, Earlier
  <2>7. IsFiniteSet(before)
    BY TaskFinite, FS_Subset DEF SeenBy, Earlier
  <2>8. Cardinality(running \cup started) = Cardinality(before) + 1
    BY <2>6, <2>7, FS_AddElement
  <2>9. Cardinality(before) \in Nat
    BY <2>7, FS_CardinalityType
  <2>10. QED
    BY <2>3, <2>8, <2>9, ThreadsAssumption
<1>3. QED
  BY <1>1, <1>2

\* A task the scan leaves in the queue is still not runnable when the scan is over.
LEMMA ScanLeavesNothingRunnable ==
  ASSUME NEW queue \in SUBSET Task, NEW running \in SUBSET Task,
         NEW started \in SUBSET queue, ScanStarts(queue, running, started)
  PROVE  NothingRunnableIn(queue \ started, running \cup started)
<1>1. SUFFICES ASSUME NEW t \in queue \ started, CanRunTask(t, running \cup started)
               PROVE  Cardinality(running \cup started) >= MaximumNumberOfThreads
  BY DEF NothingRunnableIn
<1> DEFINE seen == SeenBy(t, running, started)
<1>2. seen \subseteq running \cup started
  BY DEF SeenBy, Earlier
<1>3. CanRunTask(t, seen)
  BY <1>1, <1>2 DEF CanRunTask
<1>4. ~(Cardinality(seen) < MaximumNumberOfThreads)
  BY <1>3 DEF ScanStarts, MayStart
<1>5. IsFiniteSet(running \cup started)
  BY TaskFinite, FS_Subset
<1>6. Cardinality(seen) <= Cardinality(running \cup started)
  BY <1>2, <1>5, FS_Subset
<1>7. Cardinality(seen) \in Nat /\ Cardinality(running \cup started) \in Nat
  BY <1>2, <1>5, FS_Subset, FS_CardinalityType
<1>8. QED
  BY <1>4, <1>6, <1>7, ThreadsAssumption

\* The scan starts no task past an earlier one whose ranges it includes: what kept
\* the earlier task waiting keeps the later one waiting.
LEMMA ScanInOrder ==
  ASSUME NEW queue \in SUBSET Task, NEW running \in SUBSET Task,
         NEW started \in SUBSET queue, ScanStarts(queue, running, started),
         InOrderIn(queue, running)
  PROVE  InOrderIn(queue \ started, running \cup started)
<1>1. SUFFICES ASSUME NEW t \in queue \ started, NEW u \in started,
                      t.ticket < u.ticket, t.info.ranges \subseteq u.info.ranges,
                      t.info.withProgress => u.info.withProgress
               PROVE  FALSE
  BY DEF InOrderIn
<1> DEFINE first  == SeenBy(t, running, started)
           second == SeenBy(u, running, started)
<1>2. first \subseteq second
  <2>1. t.ticket \in Int /\ u.ticket \in Int /\ \A w \in started : w.ticket \in Int
    BY RequestsAssumption DEF Task
  <2>2. \A w \in started : w.ticket < t.ticket => w.ticket < u.ticket
    BY <1>1, <2>1
  <2>3. QED
    BY <2>2 DEF SeenBy, Earlier
<1>3. Cardinality(second) < MaximumNumberOfThreads /\ CanRunTask(u, second)
  BY DEF ScanStarts, MayStart
<1>4. CanRunTask(t, first)
  BY <1>1, <1>2, <1>3 DEF CanRunTask
<1>5. IsFiniteSet(second)
  BY TaskFinite, FS_Subset DEF SeenBy, Earlier
<1>6. Cardinality(first) <= Cardinality(second)
  BY <1>2, <1>5, FS_Subset
<1>7. Cardinality(first) \in Nat /\ Cardinality(second) \in Nat
  BY <1>2, <1>5, FS_Subset, FS_CardinalityType
<1>8. Cardinality(first) < MaximumNumberOfThreads
  BY <1>3, <1>6, <1>7, ThreadsAssumption
<1>9. QED
  BY <1>1, <1>4, <1>8 DEF ScanStarts, MayStart

----------------------------------------------------------------------------
(* The inductive invariant *)

\* A ticket is given to one task, which waits or runs.
Tickets ==
  /\ \A t \in waiting \cup inProgress : t.ticket <= requests
  /\ OneTaskPerTicket(waiting \cup inProgress)
  /\ waiting \cap inProgress = {}

\* What tryRunTasks keeps: the four properties of the queue and the running set.
Scheduled ==
  /\ NoConflictIn(inProgress)
  /\ Cardinality(inProgress) <= MaximumNumberOfThreads
  /\ ~blockRunning => NothingRunnableIn(waiting, inProgress)
  /\ InOrderIn(waiting, inProgress)

\* The flags are set exactly while a handle or the destructor stands for them, and
\* what the handles promise is already true of the queue while they drain.
Handles ==
  /\ blockRunning <=> pauseHandle # "none"
  /\ blockAdding <=> stopHandle # "none" \/ life # "alive"
  /\ life # "alive" => stopHandle = "none" /\ pauseHandle = "none" /\ waiting = {}
  /\ ~(stopHandle = "draining" /\ pauseHandle = "draining")
  /\ stopHandle = "draining" /\ blockRunning => waiting = {}

IInv == TypeOK /\ Tickets /\ Scheduled /\ Handles /\ BlockedIsQuiet

\* tryRunTasks on a well-formed queue and running set makes both well scheduled.
LEMMA TryRunTasksSchedules ==
  ASSUME NEW blocked \in BOOLEAN, NEW queue \in SUBSET Task,
         NEW running \in SUBSET Task, NEW threads \in SUBSET Task,
         TryRunTasks(blocked, queue, running, threads),
         OneTaskPerTicket(queue), queue \cap running = {}, NoConflictIn(running),
         Cardinality(running) <= MaximumNumberOfThreads, InOrderIn(queue, running)
  PROVE  /\ \E started \in SUBSET queue :
              /\ blocked => started = {}
              /\ StartThreads(queue, running, threads, started)
         /\ NoConflictIn(inProgress')
         /\ Cardinality(inProgress') <= MaximumNumberOfThreads
         /\ ~blocked => NothingRunnableIn(waiting', inProgress')
         /\ InOrderIn(waiting', inProgress')
<1>1. PICK started \in SUBSET queue :
        /\ IF blocked THEN started = {} ELSE ScanStarts(queue, running, started)
        /\ StartThreads(queue, running, threads, started)
  BY DEF TryRunTasks
<1>2. waiting' = queue \ started /\ inProgress' = running \cup started
  BY <1>1 DEF StartThreads
<1>3. CASE blocked
  <2>1. waiting' = queue /\ inProgress' = running
    BY <1>1, <1>2, <1>3
  <2>2. QED
    BY <1>1, <1>3, <2>1
<1>4. CASE ~blocked
  <2>1. ScanStarts(queue, running, started)
    BY <1>1, <1>4
  <2>2. NoConflictIn(running \cup started)
    BY <2>1, ScanNoConflict
  <2>3. Cardinality(running \cup started) <= MaximumNumberOfThreads
    BY <2>1, ScanThreadLimit
  <2>4. NothingRunnableIn(queue \ started, running \cup started)
    BY <2>1, ScanLeavesNothingRunnable
  <2>5. InOrderIn(queue \ started, running \cup started)
    BY <2>1, ScanInOrder
  <2>6. QED
    BY <1>1, <1>2, <1>4, <2>2, <2>3, <2>4, <2>5
<1>5. QED
  BY <1>3, <1>4

LEMMA InitIInv == Init => IInv
<1>1. SUFFICES ASSUME Init PROVE IInv
  OBVIOUS
<1>2. Cardinality(inProgress) = 0
  BY <1>1, FS_EmptySet DEF Init
<1>3. TypeOK
  <2>1. requests \in 0..MaxRequests
    BY <1>1, RequestsAssumption DEF Init
  <2>2. Live = {} /\ inProgress = {}
    BY <1>1 DEF Init, Live
  <2>3. blockAdding \in BOOLEAN /\ blockRunning \in BOOLEAN
    BY <1>1 DEF Init
  <2>4. QED
    BY <1>1, <2>1, <2>2, <2>3 DEF Init, TypeOK, HandleState
<1>4. Tickets
  BY <1>1 DEF Init, Tickets, OneTaskPerTicket
<1>5. Handles
  BY <1>1 DEF Init, Handles
<1>6. BlockedIsQuiet
  BY <1>1 DEF Init, BlockedIsQuiet
<1>7. Scheduled
  BY <1>1, <1>2, ThreadsAssumption
  DEF Init, Scheduled, NoConflictIn, NothingRunnableIn, InOrderIn
<1>8. QED
  BY <1>3, <1>4, <1>5, <1>6, <1>7 DEF IInv

\* addTask: the new task has a ticket of its own, later than every other.
LEMMA AddTaskIInv ==
  ASSUME IInv, NEW info \in TaskInfos, AddTask(info)
  PROVE  IInv'
<1> DEFINE new   == [ticket |-> requests + 1, info |-> info]
           queue == waiting \cup {new}
<1> USE DEF IInv
<1>1. CASE Ignored(info)
  <2>1. UNCHANGED <<waiting, inProgress, executing>>
    BY <1>1 DEF AddTask
  <2>2. TypeOK' /\ Tickets' /\ Handles' /\ BlockedIsQuiet'
    BY <2>1, RequestsAssumption
    DEF AddTask, TypeOK, Live, Tickets, OneTaskPerTicket, Handles, BlockedIsQuiet, handleVars, Task
  <2>3. Scheduled'
    BY <2>1 DEF AddTask, Scheduled, NoConflictIn, NothingRunnableIn, InOrderIn, CanRunTask, handleVars
  <2>4. QED
    BY <2>2, <2>3
<1>2. CASE ~Ignored(info)
  <2>1. TryRunTasks(blockRunning, queue, inProgress, executing)
    BY <1>2 DEF AddTask
  <2>2. new \in Task /\ \A t \in waiting \cup inProgress : t.ticket < new.ticket
    <3>1. requests + 1 \in 1..MaxRequests
      BY RequestsAssumption DEF AddTask, TypeOK
    <3>2. \A t \in waiting \cup inProgress : t.ticket \in Int /\ t.ticket <= requests
      BY RequestsAssumption DEF TypeOK, Tickets, Task
    <3>3. requests \in Int /\ new.ticket = requests + 1
      BY RequestsAssumption DEF TypeOK
    <3>4. new \in Task
      BY <3>1 DEF Task
    <3>5. QED
      BY <3>2, <3>3, <3>4
  <2>3. queue \in SUBSET Task /\ inProgress \in SUBSET Task /\ executing \in SUBSET Task
    BY <2>2 DEF TypeOK, Live
  <2>4. new \notin waiting \cup inProgress
    <3>1. ~(new.ticket < new.ticket)
      BY <2>2, RequestsAssumption DEF Task
    <3>2. QED
      BY <2>2, <3>1
  <2>5. OneTaskPerTicket(queue \cup inProgress) /\ queue \cap inProgress = {}
    <3>1. \A t \in waiting \cup inProgress : t.ticket # new.ticket
      BY <2>2, RequestsAssumption DEF Task, TypeOK
    <3>2. QED
      BY <2>4, <3>1 DEF Tickets, OneTaskPerTicket
  <2>6. InOrderIn(queue, inProgress)
    <3>1. \A u \in inProgress : ~(new.ticket < u.ticket)
      BY <2>2, RequestsAssumption DEF Task, TypeOK
    <3>2. QED
      BY <3>1 DEF InOrderIn, Scheduled
  <2>7. OneTaskPerTicket(queue) /\ NoConflictIn(inProgress)
        /\ Cardinality(inProgress) <= MaximumNumberOfThreads
    BY <2>5 DEF OneTaskPerTicket, Scheduled
  <2>8. blockRunning \in BOOLEAN
    BY DEF TypeOK
  <2>9. /\ \E started \in SUBSET queue :
              /\ blockRunning => started = {}
              /\ StartThreads(queue, inProgress, executing, started)
        /\ NoConflictIn(inProgress')
        /\ Cardinality(inProgress') <= MaximumNumberOfThreads
        /\ ~blockRunning => NothingRunnableIn(waiting', inProgress')
        /\ InOrderIn(waiting', inProgress')
    BY <2>1, <2>3, <2>5, <2>6, <2>7, <2>8, TryRunTasksSchedules
  <2>10. PICK started \in SUBSET queue :
              /\ blockRunning => started = {}
              /\ StartThreads(queue, inProgress, executing, started)
    BY <2>9
  <2>11. /\ waiting' = queue \ started
         /\ inProgress' = inProgress \cup started
         /\ executing' = executing \cup started
    BY <2>10 DEF StartThreads
  <2>12. UNCHANGED <<invalidating, returned, blockAdding, blockRunning, handleVars>>
         /\ requests' = requests + 1 /\ requests < MaxRequests /\ life = "alive"
    BY DEF AddTask
  <2>13. TypeOK'
    BY <2>3, <2>5, <2>11, <2>12, RequestsAssumption DEF TypeOK, Live, handleVars
  <2>14. Tickets'
    <3>1. waiting' \cup inProgress' = queue \cup inProgress
      BY <2>11
    <3>2. waiting' \cap inProgress' = {}
      BY <2>5, <2>11
    <3>3. \A t \in queue \cup inProgress : t.ticket <= requests'
      BY <2>2, <2>12, RequestsAssumption DEF Tickets, TypeOK, Task
    <3>4. QED
      BY <2>5, <3>1, <3>2, <3>3 DEF Tickets, OneTaskPerTicket
  <2>15. Scheduled'
    BY <2>9, <2>12 DEF Scheduled
  <2>16. ~blockAdding
    BY <1>2 DEF Ignored
  <2>17. Handles' /\ BlockedIsQuiet'
    BY <2>10, <2>11, <2>12, <2>16 DEF Handles, BlockedIsQuiet, handleVars, Live, TypeOK, HandleState
  <2>18. QED
    BY <2>13, <2>14, <2>15, <2>17
<1>3. QED
  BY <1>1, <1>2

\* A thread moves to its next phase: the running set stays what it is.
LEMMA PhaseIInv ==
  ASSUME IInv, NEW t, RunTaskFunction(t) \/ InvalidateProperties(t)
  PROVE  IInv'
<1> USE DEF IInv
<1>1. UNCHANGED <<waiting, inProgress, blockAdding, blockRunning, handleVars, requests>>
  BY DEF RunTaskFunction, InvalidateProperties
<1>2. Live' = Live
  BY DEF RunTaskFunction, InvalidateProperties, Live
<1>3. /\ (executing \cap invalidating = {})'
      /\ (executing \cap returned = {})' /\ (invalidating \cap returned = {})'
  BY DEF RunTaskFunction, InvalidateProperties, TypeOK
<1>4. TypeOK'
  BY <1>1, <1>2, <1>3 DEF TypeOK, handleVars
<1>5. Tickets' /\ Handles' /\ BlockedIsQuiet'
  BY <1>1, <1>2 DEF Tickets, OneTaskPerTicket, Handles, BlockedIsQuiet, handleVars
<1>6. Scheduled'
  BY <1>1 DEF Scheduled, NoConflictIn, NothingRunnableIn, InOrderIn, CanRunTask
<1>7. QED
  BY <1>4, <1>5, <1>6

\* onTaskFinished: one task leaves, the scan refills the running set.
LEMMA OnTaskFinishedIInv ==
  ASSUME IInv, NEW t, OnTaskFinished(t)
  PROVE  IInv'
<1> DEFINE rest == inProgress \ {t}
<1> USE DEF IInv
<1>1. /\ t \in inProgress /\ t \notin executing /\ t \notin invalidating
      /\ returned' = returned \ {t}
      /\ UNCHANGED <<invalidating, blockAdding, blockRunning, handleVars, requests>>
  BY DEF OnTaskFinished, TypeOK, Live
<1>2. TryRunTasks(blockRunning, waiting, rest, executing)
  BY DEF OnTaskFinished
<1>3. /\ waiting \in SUBSET Task /\ rest \in SUBSET Task /\ executing \in SUBSET Task
      /\ blockRunning \in BOOLEAN
  BY DEF TypeOK, Live
<1>4. OneTaskPerTicket(waiting) /\ waiting \cap rest = {}
  BY DEF Tickets, OneTaskPerTicket
<1>5. NoConflictIn(rest) /\ InOrderIn(waiting, rest)
  BY DEF Scheduled, NoConflictIn, InOrderIn
<1>6. Cardinality(rest) <= MaximumNumberOfThreads
  <2>1. IsFiniteSet(inProgress)
    BY TaskFinite, FS_Subset DEF TypeOK
  <2>2. Cardinality(rest) <= Cardinality(inProgress)
    BY <2>1, FS_Subset
  <2>3. Cardinality(rest) \in Nat /\ Cardinality(inProgress) \in Nat
    BY <2>1, FS_Subset, FS_CardinalityType
  <2>4. QED
    BY <2>2, <2>3, ThreadsAssumption DEF Scheduled
<1>7. /\ \E started \in SUBSET waiting :
            /\ blockRunning => started = {}
            /\ StartThreads(waiting, rest, executing, started)
      /\ NoConflictIn(inProgress')
      /\ Cardinality(inProgress') <= MaximumNumberOfThreads
      /\ ~blockRunning => NothingRunnableIn(waiting', inProgress')
      /\ InOrderIn(waiting', inProgress')
  BY <1>2, <1>3, <1>4, <1>5, <1>6, TryRunTasksSchedules
<1>8. PICK started \in SUBSET waiting :
        StartThreads(waiting, rest, executing, started)
  BY <1>7
<1>9. waiting' = waiting \ started /\ inProgress' = rest \cup started
      /\ executing' = executing \cup started
  BY <1>8 DEF StartThreads
<1>10. TypeOK'
  <2>1. inProgress' = Live'
    BY <1>1, <1>9 DEF TypeOK, Live
  <2>2. started \cap (executing \cup invalidating \cup returned) = {}
    BY DEF Tickets, TypeOK, Live
  <2>3. /\ (executing \cap invalidating = {})'
        /\ (executing \cap returned = {})' /\ (invalidating \cap returned = {})'
    BY <1>1, <1>9, <2>2 DEF TypeOK
  <2>4. QED
    BY <1>1, <1>3, <1>9, <2>1, <2>3 DEF TypeOK, handleVars
<1>11. Tickets'
  BY <1>1, <1>4, <1>9 DEF Tickets, OneTaskPerTicket
<1>12. Scheduled'
  BY <1>1, <1>7 DEF Scheduled
<1>13. Handles'
  BY <1>1, <1>9 DEF Handles, handleVars
<1>14. BlockedIsQuiet'
  <2>1. Live # {}
    BY <1>1 DEF TypeOK
  <2>2. QED
    BY <1>1, <2>1 DEF BlockedIsQuiet, handleVars
<1>15. QED
  BY <1>10, <1>11, <1>12, <1>13, <1>14

\* The calls that set a flag or clear the queue start nothing.
LEMMA BlockIInv ==
  ASSUME IInv, BlockAddingTasks \/ BlockRunningTasks \/ Destroy \/ UnblockAddingTasks
  PROVE  IInv'
<1> USE DEF IInv
<1>1. /\ UNCHANGED <<inProgress, threadVars, requests>>
      /\ waiting' \subseteq waiting
      /\ blockRunning => blockRunning'
  BY DEF BlockAddingTasks, BlockRunningTasks, Destroy, UnblockAddingTasks, TypeOK
<1>2. Live' = Live
  BY <1>1 DEF Live, threadVars
<1>3. TypeOK'
  BY <1>1, <1>2
  DEF BlockAddingTasks, BlockRunningTasks, Destroy, UnblockAddingTasks, TypeOK,
      HandleState, threadVars
<1>4. Tickets'
  BY <1>1 DEF Tickets, OneTaskPerTicket
<1>5. Scheduled'
  BY <1>1 DEF Scheduled, NoConflictIn, NothingRunnableIn, InOrderIn, CanRunTask
<1>6. Handles'
  BY <1>1 DEF BlockAddingTasks, BlockRunningTasks, Destroy, UnblockAddingTasks, Handles,
      Draining, TypeOK, HandleState
<1>7. BlockedIsQuiet'
  BY <1>1, <1>2
  DEF BlockAddingTasks, BlockRunningTasks, Destroy, UnblockAddingTasks, BlockedIsQuiet,
      Draining, TypeOK, HandleState
<1>8. QED
  BY <1>3, <1>4, <1>5, <1>6, <1>7

\* finishTasks returns: nothing runs, and nothing waits if the queue was to drain,
\* because a waiting task with nothing running would be a lost wake-up.
LEMMA FinishTasksIInv ==
  ASSUME IInv, FinishTasks
  PROVE  IInv'
<1> USE DEF IInv
<1>1. /\ UNCHANGED <<waiting, inProgress, threadVars, blockAdding, blockRunning, requests>>
      /\ inProgress = {} /\ Live = {} /\ Live' = {}
  BY DEF FinishTasks, TypeOK, Live, threadVars
<1>2. ~blockRunning => waiting = {}
  <2>1. Cardinality(inProgress) = 0
    BY <1>1, FS_EmptySet
  <2>2. SUFFICES ASSUME ~blockRunning, NEW t \in waiting PROVE FALSE
    OBVIOUS
  <2>3. CanRunTask(t, inProgress)
    BY <1>1 DEF CanRunTask
  <2>4. ~(0 >= MaximumNumberOfThreads)
    BY ThreadsAssumption
  <2>5. QED
    BY <2>1, <2>2, <2>3, <2>4 DEF Scheduled, NothingRunnableIn
<1>3. TypeOK'
  BY <1>1 DEF FinishTasks, TypeOK, HandleState, threadVars
<1>4. Tickets'
  BY <1>1 DEF Tickets, OneTaskPerTicket
<1>5. Scheduled'
  BY <1>1 DEF Scheduled, NoConflictIn, NothingRunnableIn, InOrderIn, CanRunTask
<1>6. Handles'
  BY <1>1 DEF FinishTasks, Handles, TypeOK, HandleState
<1>7. BlockedIsQuiet'
  BY <1>1, <1>2 DEF FinishTasks, BlockedIsQuiet, Handles, TypeOK, HandleState
<1>8. QED
  BY <1>3, <1>4, <1>5, <1>6, <1>7

\* unblockRunningTasks: nothing ran while running was blocked, so the scan starts anew.
LEMMA UnblockRunningIInv ==
  ASSUME IInv, UnblockRunningTasks
  PROVE  IInv'
<1> USE DEF IInv
<1>1. /\ inProgress = {} /\ Live = {} /\ pauseHandle = "held" /\ stopHandle # "draining"
      /\ life = "alive"
  BY DEF UnblockRunningTasks, BlockedIsQuiet, TypeOK, Handles, Draining
<1>2. /\ TryRunTasks(FALSE, waiting, inProgress, executing)
      /\ UNCHANGED <<invalidating, returned, blockAdding, stopHandle, life, requests>>
      /\ blockRunning' = FALSE /\ pauseHandle' = "none"
  BY DEF UnblockRunningTasks
<1>3. /\ waiting \in SUBSET Task /\ inProgress \in SUBSET Task /\ executing \in SUBSET Task
      /\ executing = {} /\ invalidating = {} /\ returned = {}
  BY <1>1 DEF TypeOK, Live
<1>4. OneTaskPerTicket(waiting) /\ waiting \cap inProgress = {}
  BY DEF Tickets, OneTaskPerTicket
<1>5. /\ NoConflictIn(inProgress) /\ InOrderIn(waiting, inProgress)
      /\ Cardinality(inProgress) <= MaximumNumberOfThreads
  BY DEF Scheduled
<1>6. /\ \E started \in SUBSET waiting : StartThreads(waiting, inProgress, executing, started)
      /\ NoConflictIn(inProgress')
      /\ Cardinality(inProgress') <= MaximumNumberOfThreads
      /\ NothingRunnableIn(waiting', inProgress')
      /\ InOrderIn(waiting', inProgress')
  <2>1. FALSE \in BOOLEAN
    OBVIOUS
  <2>2. QED
    BY <1>2, <1>3, <1>4, <1>5, <2>1, TryRunTasksSchedules
<1>7. PICK started \in SUBSET waiting :
        StartThreads(waiting, inProgress, executing, started)
  BY <1>6
<1>8. waiting' = waiting \ started /\ inProgress' = started /\ executing' = started
  BY <1>1, <1>3, <1>7 DEF StartThreads
<1>9. TypeOK'
  BY <1>2, <1>3, <1>8 DEF TypeOK, Live, HandleState
<1>10. Tickets'
  BY <1>2, <1>4, <1>8 DEF Tickets, OneTaskPerTicket
<1>11. Scheduled'
  BY <1>2, <1>6 DEF Scheduled
<1>12. Handles'
  BY <1>1, <1>2, <1>8 DEF Handles
<1>13. BlockedIsQuiet'
  <2>1. stopHandle = "held" => waiting = {}
    BY DEF BlockedIsQuiet
  <2>2. stopHandle' = "held" => started = {} /\ waiting' = {}
    BY <1>2, <1>8, <2>1
  <2>3. Live' = started
    BY <1>2, <1>3, <1>8 DEF Live
  <2>4. QED
    BY <1>1, <1>2, <2>2, <2>3 DEF BlockedIsQuiet
<1>14. QED
  BY <1>9, <1>10, <1>11, <1>12, <1>13

LEMMA NextIInv == IInv /\ [Next]_vars => IInv'
<1>1. SUFFICES ASSUME IInv, [Next]_vars PROVE IInv'
  OBVIOUS
<1>2. CASE \E info \in TaskInfos : AddTask(info)
  BY <1>1, <1>2, AddTaskIInv
<1>3. CASE \E t \in Live : RunTaskFunction(t) \/ InvalidateProperties(t)
  BY <1>1, <1>3, PhaseIInv
<1>4. CASE \E t \in Live : OnTaskFinished(t)
  BY <1>1, <1>4, OnTaskFinishedIInv
<1>5. CASE BlockAddingTasks \/ BlockRunningTasks \/ Destroy \/ UnblockAddingTasks
  BY <1>1, <1>5, BlockIInv
<1>6. CASE FinishTasks
  BY <1>1, <1>6, FinishTasksIInv
<1>7. CASE UnblockRunningTasks
  BY <1>1, <1>7, UnblockRunningIInv
<1>8. CASE UNCHANGED vars
  <2>1. UNCHANGED <<waiting, inProgress, executing, invalidating, returned, blockAdding,
                    blockRunning, stopHandle, pauseHandle, life, requests>>
    BY <1>8 DEF vars
  <2>2. TypeOK' /\ Tickets' /\ Handles' /\ BlockedIsQuiet'
    BY <1>1, <2>1 DEF IInv, TypeOK, Live, Tickets, OneTaskPerTicket, Handles, BlockedIsQuiet
  <2>3. Scheduled'
    BY <1>1, <2>1
    DEF IInv, Scheduled, NoConflictIn, NothingRunnableIn, InOrderIn, CanRunTask
  <2>4. QED
    BY <2>2, <2>3 DEF IInv
<1>9. QED
  BY <1>1, <1>2, <1>3, <1>4, <1>5, <1>6, <1>7, <1>8 DEF Next, ThreadStep

----------------------------------------------------------------------------
(* The theorems *)

\* The inductive invariant holds in every state of every behaviour.
THEOREM Invariance == Spec => []IInv
<1>1. Init => IInv
  BY InitIInv
<1>2. IInv /\ [Next]_vars => IInv'
  BY NextIInv
<1>3. QED
  BY <1>1, <1>2, PTL DEF Spec

\* Type correctness, and that the registered tasks are exactly those with a thread:
\* the VERIFY on the erase in onTaskFinished never fails.
THEOREM TypeCorrect == Spec => []TypeOK
<1>1. IInv => TypeOK
  BY DEF IInv
<1>2. QED
  BY <1>1, Invariance, PTL

\* No two running tasks overlap or both report progress.
THEOREM RunsWithoutConflict == Spec => []ConflictFree
<1>1. IInv => ConflictFree
  BY DEF IInv, Scheduled, NoConflictIn, ConflictFree
<1>2. QED
  BY <1>1, Invariance, PTL

\* At most m_maximumNumberOfThreads threads of the manager are alive.
THEOREM ThreadsLimited == Spec => []ThreadLimit
<1>1. IInv => ThreadLimit
  BY DEF IInv, Scheduled, TypeOK, ThreadLimit
<1>2. QED
  BY <1>1, Invariance, PTL

\* A task waits only for a thread or for a conflict, never for a forgotten scan.
THEOREM WakeUpsKept == Spec => []NoLostWakeup
<1>1. IInv => NoLostWakeup
  BY DEF IInv, Scheduled, NothingRunnableIn, NoLostWakeup
<1>2. QED
  BY <1>1, Invariance, PTL

\* No task overtakes a waiting one whose ranges it includes.
THEOREM WritesKeepOrder == Spec => []WritesInOrder
<1>1. IInv => WritesInOrder
  BY DEF IInv, Scheduled, InOrderIn, WritesInOrder
<1>2. QED
  BY <1>1, Invariance, PTL

\* When a blocking call has returned, or the destructor is over, nothing runs.
THEOREM QuietWhenBlocked == Spec => []BlockedIsQuiet
<1>1. IInv => BlockedIsQuiet
  BY DEF IInv
<1>2. QED
  BY <1>1, Invariance, PTL

----------------------------------------------------------------------------
(* The manager implements TaskScheduler *)

SchedulerStep == [Scheduler!Next]_(Scheduler!vars)

\* A step that starts tasks from the queue in a good state keeps the promises of
\* TaskScheduler to the tasks it starts.
LEMMA StartsWellHolds ==
  ASSUME IInv', waiting' \cap inProgress' = {},
         Scheduler!Started # {} => ~Quiet' /\ ~blockRunning'
  PROVE  Scheduler!StartsWell
<1>1. \A t, u \in inProgress' : t # u => <<t, u>> \in Compatible
  <2>1. SUFFICES ASSUME NEW t \in inProgress', NEW u \in inProgress', t # u
                 PROVE  <<t, u>> \in Compatible
    OBVIOUS
  <2>2. t \in Task /\ u \in Task
    BY DEF IInv, TypeOK
  <2>3. CanRunTask(t, {u})
    BY <2>1 DEF IInv, Scheduled, NoConflictIn, CanRunTask
  <2>4. QED
    BY <2>2, <2>3 DEF Compatible
<1>2. \A t \in waiting', u \in inProgress' : <<t, u>> \notin MustFollow
  BY DEF IInv, Scheduled, InOrderIn, MustFollow
<1>3. QED
  BY <1>1, <1>2 DEF Scheduler!StartsWell, Scheduler!Started

\* What waits has something to wait for: a running task, since one that waits beside
\* nothing could have been started, or the end of a pause.
LEMMA WaitingIsKept == IInv => Scheduler!Kept
<1>1. SUFFICES ASSUME IInv PROVE Scheduler!Kept
  OBVIOUS
<1>2. Quiet => blockAdding \/ blockRunning
  BY <1>1 DEF IInv, Handles, Quiet
<1>3. waiting # {} /\ blockRunning => ~blockAdding
  BY <1>1 DEF IInv, Handles, TypeOK, HandleState, BlockedIsQuiet
<1>4. ASSUME NEW t \in waiting, ~blockRunning, inProgress = {} PROVE FALSE
  <2>1. Cardinality(inProgress) = 0
    BY <1>4, FS_EmptySet
  <2>2. CanRunTask(t, inProgress)
    BY <1>4 DEF CanRunTask
  <2>3. Cardinality(inProgress) >= MaximumNumberOfThreads
    BY <1>1, <1>4, <2>2 DEF IInv, Scheduled, NothingRunnableIn
  <2>4. QED
    BY <2>1, <2>3, ThreadsAssumption
<1>5. QED
  BY <1>2, <1>3, <1>4 DEF Scheduler!Kept

LEMMA WaitingIsKeptNext == IInv' => Scheduler!Kept'
  BY WaitingIsKept, PTL

\* A call of addTask is a Work step of the scheduler, whether it is ignored or not.
LEMMA AddTaskWorks ==
  ASSUME IInv, IInv', NEW info \in TaskInfos, AddTask(info)
  PROVE  Scheduler!Work
<1> DEFINE new   == [ticket |-> requests + 1, info |-> info]
           queue == waiting \cup {new}
           seen  == {t \in Task : t.ticket <= requests}
<1>1. /\ requests' = requests + 1 /\ requests \in Nat
      /\ UNCHANGED handleVars /\ blockRunning' = blockRunning
      /\ blockAdding' = blockAdding /\ requests + 1 \in 1..MaxRequests
  BY RequestsAssumption DEF AddTask, IInv, TypeOK
<1>2. Quiet' = Quiet
  BY <1>1 DEF Quiet, handleVars
<1>3. seen \subseteq seen'
  BY <1>1, RequestsAssumption DEF Task
<1>4. new \in Task \ seen /\ new \in seen'
  <2>1. new \in Task /\ new.ticket = requests + 1
    BY <1>1 DEF Task
  <2>2. QED
    BY <1>1, <2>1
<1>5. \E started \in SUBSET queue :
        /\ waiting' \subseteq queue \ started /\ waiting \ started \subseteq waiting'
        /\ inProgress' = inProgress \cup started
        /\ blockRunning \/ blockAdding => started = {}
        /\ blockAdding => waiting' \subseteq waiting
  <2>1. CASE Ignored(info)
    <3>1. waiting' = waiting /\ inProgress' = inProgress
      BY <2>1 DEF AddTask
    <3>2. {} \in SUBSET queue
      OBVIOUS
    <3>3. QED
      BY <3>1, <3>2
  <2>2. CASE ~Ignored(info)
    <3>1. TryRunTasks(blockRunning, queue, inProgress, executing) /\ ~blockAdding
      BY <2>2 DEF AddTask, Ignored
    <3>2. PICK started \in SUBSET queue :
            /\ blockRunning => started = {}
            /\ StartThreads(queue, inProgress, executing, started)
      BY <3>1 DEF TryRunTasks
    <3>3. QED
      BY <3>1, <3>2 DEF StartThreads
  <2>3. QED
    BY <2>1, <2>2
<1>6. PICK started \in SUBSET queue :
        /\ waiting' \subseteq queue \ started /\ waiting \ started \subseteq waiting'
        /\ inProgress' = inProgress \cup started
        /\ blockRunning \/ blockAdding => started = {}
        /\ blockAdding => waiting' \subseteq waiting
  BY <1>5
<1>7. Scheduler!Started \subseteq started
  BY <1>6 DEF Scheduler!Started
<1>8. Scheduler!Accepted \subseteq {new}
  BY <1>6, <1>7 DEF Scheduler!Accepted
<1>9. Quiet => blockRunning \/ blockAdding
  BY DEF IInv, Handles, Quiet
<1>10. Scheduler!StartsWell
  BY <1>1, <1>2, <1>6, <1>7, <1>9, StartsWellHolds DEF IInv, Tickets
<1>11. waiting \ Scheduler!Started \subseteq waiting'
  BY <1>6 DEF Scheduler!Started, IInv, Tickets
<1>12. Scheduler!Accepted # {} => ~blockAdding
  BY <1>6, <1>7 DEF Scheduler!Accepted
<1>13. QED
  BY <1>1, <1>2, <1>3, <1>4, <1>8, <1>10, <1>11, <1>12 DEF Scheduler!Work, Scheduler!blocks

\* The end of a task is a Work step: its thread leaves, others may start.
LEMMA OnTaskFinishedWorks ==
  ASSUME IInv, IInv', NEW t, OnTaskFinished(t)
  PROVE  Scheduler!Work
<1>1. UNCHANGED <<blockAdding, blockRunning, handleVars, requests>> /\ Live # {}
  BY DEF OnTaskFinished, Live
<1>2. Quiet' = Quiet /\ ~Quiet
  BY <1>1 DEF Quiet, handleVars, IInv, BlockedIsQuiet
<1>3. PICK started \in SUBSET waiting :
        /\ StartThreads(waiting, inProgress \ {t}, executing, started)
        /\ blockRunning => started = {}
  BY DEF OnTaskFinished, TryRunTasks
<1>4. waiting' = waiting \ started /\ inProgress' = (inProgress \ {t}) \cup started
  BY <1>3 DEF StartThreads
<1>5. Scheduler!Started = started
  BY <1>4 DEF Scheduler!Started, IInv, Tickets
<1>6. Scheduler!Accepted = {}
  BY <1>4, <1>5 DEF Scheduler!Accepted
<1>7. Scheduler!StartsWell
  BY <1>1, <1>2, <1>3, <1>4, <1>5, StartsWellHolds DEF IInv, Tickets
<1>8. QED
  BY <1>1, <1>2, <1>4, <1>5, <1>6, <1>7 DEF Scheduler!Work, Scheduler!blocks

\* Running again opens the gate, unless a stop keeps it shut over an empty queue.
LEMMA UnblockRunningOpens ==
  ASSUME IInv, IInv', UnblockRunningTasks
  PROVE  Scheduler!Unblock
<1>1. /\ inProgress = {} /\ pauseHandle = "held" /\ pauseHandle' = "none"
      /\ life = "alive" /\ UNCHANGED <<blockAdding, stopHandle, life, requests>>
      /\ blockRunning' = FALSE
  BY DEF UnblockRunningTasks, IInv, BlockedIsQuiet, TypeOK, Handles
<1>2. PICK started \in SUBSET waiting :
        StartThreads(waiting, inProgress, executing, started)
  BY DEF UnblockRunningTasks, TryRunTasks
<1>3. waiting' = waiting \ started /\ inProgress' = started
  BY <1>1, <1>2 DEF StartThreads
<1>4. Scheduler!Started = started /\ Scheduler!Accepted = {}
  BY <1>1, <1>3 DEF Scheduler!Started, Scheduler!Accepted
<1>5. Quiet
  BY <1>1 DEF Quiet
<1>6. Quiet' => started = {}
  <2>1. Quiet' => stopHandle = "held"
    BY <1>1 DEF Quiet
  <2>2. QED
    BY <2>1 DEF IInv, BlockedIsQuiet
<1>7. Scheduler!StartsWell
  BY <1>1, <1>3, <1>4, <1>6, StartsWellHolds DEF IInv, Tickets
<1>8. QED
  BY <1>1, <1>3, <1>4, <1>5, <1>7 DEF Scheduler!Unblock

\* The end of a stop opens the gate, unless a pause keeps it shut.
LEMMA UnblockAddingOpens ==
  ASSUME IInv, IInv', UnblockAddingTasks
  PROVE  Scheduler!Unblock
<1>1. /\ UNCHANGED <<waiting, inProgress, blockRunning, pauseHandle, life, requests>>
      /\ stopHandle = "held" /\ blockAdding' = FALSE
  BY DEF UnblockAddingTasks
<1>2. Quiet
  BY <1>1 DEF Quiet
<1>3. Scheduler!Started = {} /\ Scheduler!Accepted = {}
  BY <1>1 DEF Scheduler!Started, Scheduler!Accepted
<1>4. Scheduler!StartsWell
  BY <1>1, <1>3, StartsWellHolds DEF IInv, Tickets
<1>5. QED
  BY <1>1, <1>2, <1>3, <1>4 DEF Scheduler!Unblock

\* A stop and the destructor block the offers and drop the queue or leave it, a pause
\* blocks the starts.
LEMMA BlockBlocks ==
  ASSUME IInv, BlockAddingTasks \/ BlockRunningTasks \/ Destroy
  PROVE  Scheduler!Block
<1>1. /\ UNCHANGED <<inProgress, requests>>
      /\ waiting' = waiting \/ (waiting' = {} /\ blockAdding')
      /\ blockAdding => blockAdding'
      /\ blockRunning => blockRunning'
  BY DEF BlockAddingTasks, BlockRunningTasks, Destroy
<1>2. Quiet' = Quiet
  BY DEF BlockAddingTasks, BlockRunningTasks, Destroy, Quiet
<1>3. QED
  BY <1>1, <1>2 DEF Scheduler!Block

\* A blocking call that returns shuts the gate: nothing is running.
LEMMA FinishTasksShuts ==
  ASSUME FinishTasks
  PROVE  Scheduler!Shut
<1>1. /\ UNCHANGED <<waiting, inProgress, blockAdding, blockRunning, requests>>
      /\ inProgress = {} /\ Quiet'
  BY DEF FinishTasks, Draining, Quiet
<1>2. QED
  BY <1>1 DEF Scheduler!Shut, Scheduler!blocks

LEMMA StepImplements == IInv /\ [Next]_vars => SchedulerStep
<1>1. SUFFICES ASSUME IInv, [Next]_vars PROVE SchedulerStep
  OBVIOUS
<1>2. IInv' /\ Scheduler!Kept'
  BY <1>1, NextIInv, WaitingIsKeptNext
<1> USE DEF SchedulerStep
<1>3. CASE \E info \in TaskInfos : AddTask(info)
  BY <1>1, <1>2, <1>3, AddTaskWorks DEF Scheduler!Next
<1>4. CASE \E t \in Live : RunTaskFunction(t) \/ InvalidateProperties(t)
  <2>1. UNCHANGED <<waiting, inProgress, blockAdding, blockRunning, handleVars, requests>>
    BY <1>4 DEF RunTaskFunction, InvalidateProperties
  <2>2. Quiet' = Quiet
    BY <2>1 DEF Quiet, handleVars
  <2>3. QED
    BY <2>1, <2>2 DEF Scheduler!vars, Scheduler!blocks
<1>5. CASE \E t \in Live : OnTaskFinished(t)
  BY <1>1, <1>2, <1>5, OnTaskFinishedWorks DEF Scheduler!Next
<1>6. CASE BlockAddingTasks \/ BlockRunningTasks \/ Destroy
  BY <1>1, <1>2, <1>6, BlockBlocks DEF Scheduler!Next
<1>7. CASE FinishTasks
  BY <1>2, <1>7, FinishTasksShuts DEF Scheduler!Next
<1>8. CASE UnblockAddingTasks
  BY <1>1, <1>2, <1>8, UnblockAddingOpens DEF Scheduler!Next
<1>9. CASE UnblockRunningTasks
  BY <1>1, <1>2, <1>9, UnblockRunningOpens DEF Scheduler!Next
<1>10. CASE UNCHANGED vars
  BY <1>10 DEF vars, Scheduler!vars, Scheduler!blocks, Quiet
<1>11. QED
  BY <1>1, <1>3, <1>4, <1>5, <1>6, <1>7, <1>8, <1>9, <1>10 DEF Next, ThreadStep

\* The task manager implements TaskScheduler: through every interleaving of adds, ends,
\* stops, pauses and destruction, an accepted task is started once, in order and
\* without conflict, and nothing is started while a caller holds the device.
THEOREM Refinement == Spec => ImplementsScheduler
<1>1. Init => Scheduler!Init
  BY RequestsAssumption DEF Init, Scheduler!Init, Quiet, Task
<1>2. IInv /\ [Next]_vars => [Scheduler!Next]_(Scheduler!vars)
  BY StepImplements DEF SchedulerStep
<1>3. QED
  BY <1>1, <1>2, Invariance, PTL DEF Spec, ImplementsScheduler, Scheduler!Spec

----------------------------------------------------------------------------
(* What a drain waits for only shrinks *)

\* How many steps the thread of t, or the one it is still to get, has before it when
\* no end of a pause comes.  A task that waits behind a pause is not waited for.
Remaining(t) ==
  IF t \in waiting /\ ~blockRunning THEN 4
  ELSE IF t \in executing THEN 3
  ELSE IF t \in invalidating THEN 2
  ELSE IF t \in returned THEN 1
  ELSE 0

\* While a caller drains the manager, no step of anyone gives a task more to do, and
\* every step of a thread leaves its own task less.
DrainStep ==
  Draining =>
    /\ \A t \in Task : Remaining(t)' <= Remaining(t)
    /\ \A t \in Live : ThreadStep(t) => Remaining(t)' < Remaining(t)

\* A scan of the queue moves tasks from the queue to threads and nothing else.
LEMMA ScanMoves ==
  ASSUME NEW queue, NEW running, NEW threads, NEW blocked,
         TryRunTasks(blocked, queue, running, threads)
  PROVE  \E started \in SUBSET queue :
           /\ blocked => started = {}
           /\ waiting' = queue \ started
           /\ executing' = threads \cup started
  BY DEF TryRunTasks, StartThreads

\* A call of addTask that is not ignored during a drain meets a pause, and waits.
LEMMA AddTaskShrinks ==
  ASSUME IInv, Draining, NEW info \in TaskInfos, AddTask(info)
  PROVE  /\ \A t \in Task : Remaining(t)' <= Remaining(t)
         /\ UNCHANGED <<executing, invalidating, returned>>
<1>1. UNCHANGED <<invalidating, returned, blockRunning>>
  BY DEF AddTask
<1>2. executing' = executing /\ (waiting' = waiting \/ blockRunning)
  <2>1. CASE Ignored(info)
    BY <2>1 DEF AddTask
  <2>2. CASE ~Ignored(info)
    <3>1. ~blockAdding
      BY <2>2 DEF Ignored
    <3>2. blockRunning
      BY <3>1 DEF IInv, Handles, Draining
    <3>3. TryRunTasks(blockRunning, waiting \cup {[ticket |-> requests + 1, info |-> info]},
                      inProgress, executing)
      BY <2>2 DEF AddTask
    <3>4. PICK started : (blockRunning => started = {}) /\ executing' = executing \cup started
      BY <3>3, ScanMoves
    <3>5. QED
      BY <3>2, <3>4
  <2>3. QED
    BY <2>1, <2>2
<1>3. QED
  BY <1>1, <1>2 DEF Remaining

\* A thread goes from phase to phase, and its last step hands a thread to tasks that
\* the drain waits for already.
LEMMA ThreadShrinks ==
  ASSUME IInv, NEW u \in Live, ThreadStep(u)
  PROVE  /\ \A t \in Task : Remaining(t)' <= Remaining(t)
         /\ Remaining(u)' < Remaining(u)
<1> USE DEF Remaining
<1>1. /\ executing \cap invalidating = {} /\ executing \cap returned = {}
      /\ invalidating \cap returned = {} /\ waiting \cap Live = {}
  BY DEF IInv, TypeOK, Tickets
<1>2. CASE RunTaskFunction(u)
  BY <1>1, <1>2 DEF RunTaskFunction, Live
<1>3. CASE InvalidateProperties(u)
  BY <1>1, <1>3 DEF InvalidateProperties, Live
<1>4. CASE OnTaskFinished(u)
  <2>1. UNCHANGED <<invalidating, blockRunning>> /\ u \in returned /\ returned' = returned \ {u}
    BY <1>4 DEF OnTaskFinished
  <2>2. PICK started \in SUBSET waiting :
          /\ blockRunning => started = {}
          /\ waiting' = waiting \ started /\ executing' = executing \cup started
    BY <1>4, ScanMoves DEF OnTaskFinished
  <2>3. QED
    BY <1>1, <2>1, <2>2 DEF Live
<1>5. QED
  BY <1>2, <1>3, <1>4 DEF ThreadStep

\* The steps of callers that are possible during a drain change nothing the drain
\* waits for.
LEMMA DrainStepHolds == IInv /\ [Next]_vars => DrainStep
<1>1. SUFFICES ASSUME IInv, [Next]_vars, Draining
               PROVE  /\ \A t \in Task : Remaining(t)' <= Remaining(t)
                      /\ \A t \in Live : ThreadStep(t) => Remaining(t)' < Remaining(t)
  BY DEF DrainStep
<1>2. \A t \in Live : ThreadStep(t) => Remaining(t)' < Remaining(t)
  BY <1>1, ThreadShrinks
<1>3. \A t \in Task : Remaining(t)' <= Remaining(t)
  <2>1. CASE \E info \in TaskInfos : AddTask(info)
    BY <1>1, <2>1, AddTaskShrinks
  <2>2. CASE \E t \in Live : ThreadStep(t)
    BY <1>1, <2>2, ThreadShrinks
  <2>3. CASE FinishTasks \/ UNCHANGED vars
    <3>1. UNCHANGED <<waiting, executing, invalidating, returned, blockRunning>>
      BY <2>3 DEF FinishTasks, threadVars, vars
    <3>2. QED
      BY <3>1 DEF Remaining
  <2>4. CASE BlockAddingTasks \/ BlockRunningTasks \/ UnblockAddingTasks \/ UnblockRunningTasks
    BY <1>1, <2>4
    DEF BlockAddingTasks, BlockRunningTasks, UnblockAddingTasks, UnblockRunningTasks
  <2>5. CASE Destroy
    BY <1>1, <2>5 DEF Destroy, Draining
  <2>6. QED
    BY <1>1, <2>1, <2>2, <2>3, <2>4, <2>5 DEF Next
<1>4. QED
  BY <1>2, <1>3

\* A stop, a pause and the destructor wait for work that only becomes less: whatever
\* callers add and whichever tasks the ends of others start meanwhile, no task gets
\* further from its end, and every step of a thread brings its own nearer.
THEOREM DrainsShrink == Spec => [][DrainStep]_vars
<1>1. IInv /\ [Next]_vars => [DrainStep]_vars
  BY DrainStepHolds
<1>2. QED
  BY <1>1, Invariance, PTL DEF Spec

\* When nothing remains to be done the drain can end, and as long as something remains
\* a thread of the manager is alive to do it.
DrainWaitsForThreads ==
  Draining => ((\E t \in Task : Remaining(t) > 0) <=> inProgress # {})

THEOREM DrainsWaitForThreads == Spec => []DrainWaitsForThreads
<1>1. ASSUME IInv, NEW t \in Task, Remaining(t) > 0 PROVE inProgress # {}
  <2>1. CASE t \in Live
    BY <1>1, <2>1 DEF IInv, TypeOK
  <2>2. CASE t \notin Live
    <3>1. waiting # {} /\ ~blockRunning
      BY <1>1, <2>2 DEF Remaining, Live
    <3>2. QED
      BY <1>1, <3>1, WaitingIsKept DEF Scheduler!Kept
  <2>3. QED
    BY <2>1, <2>2
<1>2. ASSUME IInv, NEW t \in inProgress PROVE t \in Task /\ Remaining(t) > 0
  BY <1>2 DEF IInv, TypeOK, Live, Remaining
<1>3. IInv => DrainWaitsForThreads
  BY <1>1, <1>2 DEF DrainWaitsForThreads
<1>4. QED
  BY <1>3, Invariance, PTL

=============================================================================
