------------------------- MODULE CoordinatorProofs -------------------------
(***************************************************************************)
(* Proofs about the coordinator, for every number of tasks, workers and    *)
(* callers and for every limit that validate_limits accepts.               *)
(*                                                                         *)
(* The first part proves that the records, the leases and the counters     *)
(* agree.  The second part builds on it: each command is shown to have one *)
(* common shape, CommandShape; the soundness of the state, the truth of    *)
(* every acknowledgement, the monotonicity of the fences, the order of     *)
(* recovered tasks and the refinement of TaskLifecycle all follow from     *)
(* that shape.  The third part is about the result aggregator, which       *)
(* shares the callers' delivery with the coordinator: what the store       *)
(* holds, and what it answered.                                            *)
(***************************************************************************)
EXTENDS ResultAggregator, FiniteSums

Leased(w) == LeasesOf(LeasedTasks, w)

\* The inductive invariant.  The type invariant alone is not inductive: that a counter is
\* not decremented below zero follows from what it counts, and that a release finds its
\* worker follows from the agreement of the records with their leases.
IInv ==
    /\ TypeOK
    /\ OwnershipMatchesStatus
    /\ CountersMatchRecords
    /\ WorkerCountersMatchLeases

LEMMA FiniteDomains ==
    ASSUME TypeOK
    PROVE  /\ IsFiniteSet(DOMAIN tasks) /\ IsFiniteSet(ActiveTasks)
           /\ IsFiniteSet(DOMAIN tasks \ ActiveTasks) /\ IsFiniteSet(LeasedTasks)
           /\ \A w : IsFiniteSet(Leased(w))
           /\ \A S \in SUBSET (DOMAIN tasks) : IsFiniteSet(S)
<1>1. IsFiniteSet(DOMAIN tasks)
    BY InputsAssumption, FS_Subset DEF TypeOK
<1>2. \A S \in SUBSET (DOMAIN tasks) : IsFiniteSet(S)
    BY <1>1, FS_Subset
<1> QED
    BY <1>1, <1>2 DEF ActiveTasks, LeasedTasks, Leased, LeasesOf

\* Counting what is left of a finite set.
LEMMA CardDifference ==
    ASSUME NEW A, IsFiniteSet(A), NEW B \in SUBSET A
    PROVE  /\ IsFiniteSet(A \ B) /\ IsFiniteSet(B)
           /\ Cardinality(A) \in Nat /\ Cardinality(B) \in Nat
           /\ Cardinality(A \ B) = Cardinality(A) - Cardinality(B)
           /\ Cardinality(B) <= Cardinality(A)
<1>1. IsFiniteSet(B) /\ Cardinality(B) <= Cardinality(A)
    BY FS_Subset
<1>2. A \cap B = B
    OBVIOUS
<1> QED
    BY <1>1, <1>2, FS_Difference, FS_CardinalityType

LEMMA CardDisjointUnion ==
    ASSUME NEW A, IsFiniteSet(A), NEW B, IsFiniteSet(B), A \cap B = {}
    PROVE  /\ Cardinality(A) \in Nat /\ Cardinality(B) \in Nat
           /\ Cardinality(A \cup B) = Cardinality(A) + Cardinality(B)
<1>1. Cardinality(A) \in Nat /\ Cardinality(B) \in Nat
    BY FS_CardinalityType
<1>2. Cardinality(A \cup B) = Cardinality(A) + Cardinality(B) - Cardinality(A \cap B)
    BY FS_Union
<1>3. Cardinality(A \cap B) = 0
    BY FS_EmptySet
<1> QED
    BY <1>1, <1>2, <1>3

(***************************************************************************)
(* Tasks leaving their lease or the queue                                  *)
(*                                                                         *)
(* Completion, cancellation, failure, recovery and expiry have one shape:  *)
(* the active tasks of a set S lose their lease or queue key, those of a   *)
(* subset E of it end and the rest is queued again.  Retirement(S, E)      *)
(* describes such a step, whatever the command behind it.                  *)
(***************************************************************************)
EntryEnded(e) ==
    e.status \in TerminalStatus /\ e.queue_key = None

EntryQueued(e) ==
    e.status = "Queued" /\ e.queue_key # None

TasksRetire(S, E) ==
    /\ DOMAIN tasks' = DOMAIN tasks
    /\ \A u \in DOMAIN tasks \ S : tasks'[u] = tasks[u]
    /\ \A u \in S : /\ tasks'[u].lease = None /\ tasks'[u].assigned_to = None
                    /\ tasks'[u].record_version > 0
    /\ \A u \in E : EntryEnded(tasks'[u])
    /\ \A u \in S \ E : EntryQueued(tasks'[u])
    /\ issued' = issued

WorkersRelease(S) ==
    /\ DOMAIN workers' = DOMAIN workers
    /\ \A w \in DOMAIN workers :
           /\ workers'[w].capacity = workers[w].capacity
           /\ workers'[w].current_tasks
                  = workers[w].current_tasks - Cardinality(LeasesOf(S \cap LeasedTasks, w))
           /\ \/ /\ workers'[w].generation = workers[w].generation
                 /\ workers'[w].status = workers[w].status
              \/ Leased(w) \subseteq S

LEMMA RetireOwnership ==
    ASSUME IInv, NEW S \in SUBSET ActiveTasks, NEW E \in SUBSET S, TasksRetire(S, E)
    PROVE  OwnershipMatchesStatus'
<1> SUFFICES ASSUME NEW t \in DOMAIN tasks
             PROVE  LET e == tasks'[t] IN
                    /\ e.record_version > 0
                    /\ e.status = "Queued" <=> e.queue_key # None
                    /\ e.status \in {"Leased", "Running"} <=> e.lease # None
                    /\ e.lease = None => e.assigned_to = None
                    /\ e.lease # None =>
                           /\ e.lease \in issued
                           /\ e.lease.task_id = t /\ e.lease.worker_id = e.assigned_to
                           /\ e.lease.task_generation = e.task_generation
                           /\ e.lease.attempt = e.attempt
    BY DEF OwnershipMatchesStatus, TasksRetire
<1>1. CASE t \in DOMAIN tasks \ S
    BY <1>1 DEF IInv, OwnershipMatchesStatus, TasksRetire
<1>2. CASE t \in E
    BY <1>2 DEF TasksRetire, EntryEnded, TerminalStatus
<1>3. CASE t \in S \ E
    BY <1>3 DEF TasksRetire, EntryQueued
<1> QED
    BY <1>1, <1>2, <1>3

LEMMA RetireSets ==
    ASSUME IInv, NEW S \in SUBSET ActiveTasks, NEW E \in SUBSET S, TasksRetire(S, E)
    PROVE  /\ ActiveTasks' = ActiveTasks \ E
           /\ LeasedTasks' = LeasedTasks \ S
           /\ \A w : LeasesOf(LeasedTasks, w)' = Leased(w) \ LeasesOf(S \cap LeasedTasks, w)
           /\ DOMAIN tasks' \ ActiveTasks' = (DOMAIN tasks \ ActiveTasks) \cup E
<1>1. ActiveTasks' = ActiveTasks \ E
    BY DEF TasksRetire, ActiveTasks, EntryEnded, EntryQueued, ActiveStatus, TerminalStatus
<1>2. LeasedTasks' = LeasedTasks \ S
    BY DEF TasksRetire, LeasedTasks, ActiveTasks
<1>3. \A w : LeasesOf(LeasedTasks, w)' = Leased(w) \ LeasesOf(S \cap LeasedTasks, w)
    BY <1>2 DEF TasksRetire, LeasesOf, Leased, LeasedTasks
<1> QED
    BY <1>1, <1>2, <1>3 DEF TasksRetire, ActiveTasks

LEMMA RetireCounters ==
    ASSUME IInv, NEW S \in SUBSET ActiveTasks, NEW E \in SUBSET S, TasksRetire(S, E),
           CountTerminal(Cardinality(E))
    PROVE  /\ CountersMatchRecords'
           /\ active_tasks' \in Nat /\ terminal_tasks' \in Nat
<1>1. /\ IsFiniteSet(ActiveTasks) /\ IsFiniteSet(DOMAIN tasks \ ActiveTasks)
      /\ E \in SUBSET ActiveTasks
    BY FiniteDomains DEF IInv
<1>2. Cardinality(ActiveTasks \ E) = Cardinality(ActiveTasks) - Cardinality(E)
      /\ Cardinality(ActiveTasks) \in Nat /\ Cardinality(E) \in Nat
      /\ Cardinality(E) <= Cardinality(ActiveTasks) /\ IsFiniteSet(E)
    BY <1>1, CardDifference
<1>3. (DOMAIN tasks \ ActiveTasks) \cap E = {}
    BY <1>1
<1>4. Cardinality((DOMAIN tasks \ ActiveTasks) \cup E)
          = Cardinality(DOMAIN tasks \ ActiveTasks) + Cardinality(E)
      /\ Cardinality(DOMAIN tasks \ ActiveTasks) \in Nat
    BY <1>1, <1>2, <1>3, CardDisjointUnion
<1>5. /\ active_tasks = Cardinality(ActiveTasks)
      /\ terminal_tasks = Cardinality(DOMAIN tasks \ ActiveTasks)
      /\ active_tasks' = active_tasks - Cardinality(E)
      /\ terminal_tasks' = terminal_tasks + Cardinality(E)
    BY DEF IInv, CountersMatchRecords, CountTerminal
<1>6. /\ ActiveTasks' = ActiveTasks \ E
      /\ (DOMAIN tasks \ ActiveTasks)' = (DOMAIN tasks \ ActiveTasks) \cup E
    BY RetireSets
<1>7. /\ Cardinality(ActiveTasks') = active_tasks - Cardinality(E)
      /\ Cardinality((DOMAIN tasks \ ActiveTasks)') = terminal_tasks + Cardinality(E)
    BY <1>2, <1>4, <1>5, <1>6
<1>8. active_tasks' \in Nat /\ terminal_tasks' \in Nat
    BY <1>2, <1>4, <1>5
<1>9. CountersMatchRecords'
    BY <1>5, <1>7 DEF CountersMatchRecords
<1> QED
    BY <1>8, <1>9

LEMMA RetireWorkers ==
    ASSUME IInv, NEW S \in SUBSET ActiveTasks, NEW E \in SUBSET S, TasksRetire(S, E),
           WorkersRelease(S)
    PROVE  /\ WorkerCountersMatchLeases'
           /\ \A w \in DOMAIN workers : workers'[w].current_tasks \in Nat
<1>1. ASSUME NEW w \in DOMAIN workers
      PROVE  /\ workers'[w].current_tasks = Cardinality(LeasesOf(LeasedTasks, w)')
             /\ workers'[w].current_tasks \in Nat
             /\ workers'[w].current_tasks <= workers'[w].capacity
  <2> DEFINE R == LeasesOf(S \cap LeasedTasks, w)
  <2>1. IsFiniteSet(Leased(w)) /\ R \in SUBSET Leased(w)
      BY FiniteDomains DEF IInv, LeasesOf, Leased
  <2>2. /\ Cardinality(Leased(w) \ R) = Cardinality(Leased(w)) - Cardinality(R)
        /\ Cardinality(Leased(w)) \in Nat /\ Cardinality(R) \in Nat
        /\ Cardinality(R) <= Cardinality(Leased(w))
      BY <2>1, CardDifference
  <2>3. LeasesOf(LeasedTasks, w)' = Leased(w) \ R
      BY RetireSets
  <2>4. /\ workers[w].current_tasks = Cardinality(Leased(w))
        /\ workers[w].current_tasks <= workers[w].capacity
        /\ workers[w].capacity \in Nat
      BY InputsAssumption DEF IInv, WorkerCountersMatchLeases, Leased, TypeOK, WorkerNode
  <2>5. /\ workers'[w].current_tasks = workers[w].current_tasks - Cardinality(R)
        /\ workers'[w].capacity = workers[w].capacity
      BY DEF WorkersRelease
  <2> HIDE DEF R
  <2> QED
      BY <2>2, <2>3, <2>4, <2>5
<1>2. ASSUME NEW t \in LeasedTasks'
      PROVE  LET l == tasks'[t].lease IN
             /\ l.worker_id \in DOMAIN workers'
             /\ workers'[l.worker_id].generation = l.worker_generation
             /\ workers'[l.worker_id].status # "Offline"
  <2>1. t \in LeasedTasks /\ t \notin S
      BY RetireSets
  <2>2. tasks'[t] = tasks[t]
      BY <2>1 DEF TasksRetire, LeasedTasks
  <2> DEFINE l == tasks[t].lease
  <2>3. /\ l.worker_id \in DOMAIN workers
        /\ workers[l.worker_id].generation = l.worker_generation
        /\ workers[l.worker_id].status # "Offline"
      BY <2>1 DEF IInv, WorkerCountersMatchLeases
  <2>4. t \in Leased(l.worker_id)
      BY <2>1 DEF Leased, LeasesOf
  <2> QED
      BY <2>1, <2>2, <2>3, <2>4 DEF WorkersRelease
<1> QED
    BY <1>1, <1>2 DEF WorkerCountersMatchLeases, WorkersRelease

(***************************************************************************)
(* The records and nodes the commands write are well typed                 *)
(***************************************************************************)
LEMMA NewKeyType ==
    ASSUME NEW p \in Priorities, NEW o \in Nat, NEW t \in Tasks
    PROVE  NewKey(p, o, t) \in QueueKey /\ NewKey(p, o, t) # None
<1>1. p \in Int
    BY InputsAssumption
<1>2. NewKey(p, o, t) \in QueueKey
    BY <1>1 DEF NewKey, QueueKey
<1> QED
    BY <1>2, NoneAssumption

LEMMA TerminalizeQueuedType ==
    ASSUME NEW e \in TaskEntry, NEW s \in TerminalStatus, e.lease = None, e.assigned_to = None
    PROVE  LET f == TerminalizeQueued(e, s) IN
           /\ f \in TaskEntry /\ f.status = s /\ f.queue_key = None
           /\ f.lease = None /\ f.assigned_to = None /\ f.record_version > 0
<1> DEFINE v == e.record_version + 1
           f == [e EXCEPT !.queue_key = None, !.status = s, !.record_version = v]
<1>1. v \in Nat /\ v > 0
    BY DEF TaskEntry
<1>2. TerminalizeQueued(e, s) = f
    BY DEF TerminalizeQueued
<1>3. s \in TaskStatus
    BY DEF TaskStatus
<1> HIDE DEF v
<1>4. f \in TaskEntry
    BY <1>1, <1>3 DEF TaskEntry
<1>5. /\ f.status = s /\ f.queue_key = None /\ f.lease = e.lease
      /\ f.assigned_to = e.assigned_to /\ f.record_version = v
    BY DEF TaskEntry
<1> QED
    BY <1>1, <1>2, <1>4, <1>5

LEMMA TerminalizeLeasedType ==
    ASSUME NEW e \in TaskEntry, NEW s \in TerminalStatus, e.queue_key = None
    PROVE  LET f == TerminalizeLeased(e, s) IN
           /\ f \in TaskEntry /\ f.status = s /\ f.queue_key = None
           /\ f.lease = None /\ f.assigned_to = None /\ f.record_version > 0
<1> DEFINE v == e.record_version + 1
           f == [e EXCEPT !.status = s, !.assigned_to = None, !.lease = None,
                          !.record_version = v]
<1>1. v \in Nat /\ v > 0
    BY DEF TaskEntry
<1>2. TerminalizeLeased(e, s) = f
    BY DEF TerminalizeLeased
<1>3. s \in TaskStatus
    BY DEF TaskStatus
<1> HIDE DEF v
<1>4. f \in TaskEntry
    BY <1>1, <1>3, ZenonT(60) DEF TaskEntry
<1>5. /\ f.status = s /\ f.queue_key = e.queue_key /\ f.lease = None
      /\ f.assigned_to = None /\ f.record_version = v
    BY DEF TaskEntry
<1> QED
    BY <1>1, <1>2, <1>4, <1>5

LEMMA RequeuedType ==
    ASSUME TypeOK, NEW t \in DOMAIN tasks, NEW o \in Nat
    PROVE  /\ Requeued(t, o) \in TaskEntry
           /\ Requeued(t, o).status = "Queued"
           /\ Requeued(t, o).queue_key # None /\ Requeued(t, o).queue_key \in QueueKey
           /\ Requeued(t, o).lease = None /\ Requeued(t, o).assigned_to = None
           /\ Requeued(t, o).record_version > 0
<1> DEFINE k == NewKey(tasks[t].priority, o, t)
           r == tasks[t].retry_count + 1
           g == tasks[t].task_generation + 1
           v == tasks[t].record_version + 1
           e == [tasks[t] EXCEPT !.status = "Queued", !.assigned_to = None, !.lease = None,
                                 !.retry_count = r, !.task_generation = g,
                                 !.record_version = v, !.queue_key = k]
<1>1. tasks[t] \in TaskEntry /\ t \in Tasks
    BY DEF TypeOK
<1>2. tasks[t].priority \in Priorities
    BY <1>1 DEF TaskEntry
<1>3. r \in Nat /\ g \in Nat /\ v \in Nat /\ v > 0
    BY <1>1 DEF TaskEntry
<1>4. Requeued(t, o) = e
    BY DEF Requeued
<1>5. k \in QueueKey /\ k # None
    BY <1>1, <1>2, NewKeyType
<1> HIDE DEF k, r, g, v
<1>6. e \in TaskEntry
    BY <1>1, <1>3, <1>5 DEF TaskEntry, TaskStatus, ActiveStatus
<1> QED
    BY <1>1, <1>3, <1>4, <1>5, <1>6 DEF TaskEntry

LEMMA SlotFreedType ==
    ASSUME NEW x \in WorkerNode, NEW n \in Nat
    PROVE  /\ SlotFreed(x, n).current_tasks = x.current_tasks - 1
           /\ SlotFreed(x, n).capacity = x.capacity
           /\ SlotFreed(x, n).generation = x.generation
           /\ SlotFreed(x, n).status = x.status
           /\ SlotFreed(x, n).current_tasks \in Nat => SlotFreed(x, n) \in WorkerNode
<1> DEFINE a == x.current_tasks - 1
           b == x.completed_tasks + n
           y == [x EXCEPT !.current_tasks = a, !.completed_tasks = b]
<1>1. SlotFreed(x, n) = y
    BY DEF SlotFreed
<1>2. b \in Nat
    BY DEF WorkerNode
<1>3. /\ y.current_tasks = a /\ y.capacity = x.capacity
      /\ y.generation = x.generation /\ y.status = x.status
    BY DEF WorkerNode
<1>4. a \in Nat => y \in WorkerNode
  <2> HIDE DEF a, b
  <2> QED
      BY <1>2 DEF WorkerNode
<1> QED
    BY <1>1, <1>3, <1>4

\* What the fences of a command on a lease establish.
LEMMA CurrentLease ==
    ASSUME IInv, NEW lease \in issued, NEW now, EnsureCurrentLease(lease, now)
    PROVE  /\ lease \in TaskLease /\ lease # None
           /\ lease.task_id \in DOMAIN tasks /\ tasks[lease.task_id] \in TaskEntry
           /\ tasks[lease.task_id].lease = lease
           /\ lease.task_id \in LeasedTasks
           /\ tasks[lease.task_id].status \in {"Leased", "Running"}
           /\ tasks[lease.task_id].queue_key = None
           /\ lease.task_id \in ActiveTasks
           /\ lease.worker_id \in DOMAIN workers
           /\ workers[lease.worker_id] \in WorkerNode
<1>1. lease \in TaskLease /\ lease # None
  <2>1. lease \in TaskLease
      BY DEF IInv, TypeOK
  <2> QED
      BY <2>1, NoneAssumption
<1>2. /\ lease.task_id \in DOMAIN tasks /\ tasks[lease.task_id] \in TaskEntry
      /\ tasks[lease.task_id].lease = lease
    BY DEF IInv, TypeOK, EnsureCurrentLease
<1>3. /\ tasks[lease.task_id].status \in {"Leased", "Running"} /\ lease.task_id \in LeasedTasks
      /\ tasks[lease.task_id].queue_key = None
    BY <1>1, <1>2 DEF IInv, OwnershipMatchesStatus, LeasedTasks
<1>4. lease.task_id \in ActiveTasks
    BY <1>2, <1>3 DEF ActiveTasks, ActiveStatus
<1>5. lease.worker_id \in DOMAIN workers
    BY <1>2, <1>3 DEF IInv, WorkerCountersMatchLeases
<1>6. workers[lease.worker_id] \in WorkerNode
    BY <1>5 DEF IInv, TypeOK
<1> QED
    BY <1>1, <1>2, <1>3, <1>4, <1>5, <1>6

\* Releasing the slot of one lease is releasing the slots of one task.
LEMMA SingleRelease ==
    ASSUME IInv, NEW lease \in issued, NEW now, EnsureCurrentLease(lease, now),
           NEW n \in Nat, workers' = ReleaseWorker(lease, n)
    PROVE  /\ WorkersRelease({lease.task_id})
           /\ \A w \in DOMAIN workers : workers'[w].current_tasks \in Nat
                  => workers'[w] \in WorkerNode
           /\ workers' = [w \in DOMAIN workers |-> workers'[w]]
<1> DEFINE t == lease.task_id  v == lease.worker_id
<1>1. /\ t \in LeasedTasks /\ tasks[t].lease = lease
      /\ v \in DOMAIN workers
    BY CurrentLease
<1>2. \A w \in DOMAIN workers : workers[w] \in WorkerNode
    BY DEF IInv, TypeOK
<1>3. workers' = [workers EXCEPT ![v] = SlotFreed(workers[v], n)]
    BY DEF ReleaseWorker
<1>4. LeasesOf({t} \cap LeasedTasks, v) = {t}
    BY <1>1 DEF LeasesOf
<1>5. \A w \in DOMAIN workers \ {v} : LeasesOf({t} \cap LeasedTasks, w) = {}
    BY <1>1 DEF LeasesOf
<1>6. Cardinality({t}) = 1 /\ Cardinality({}) = 0
    BY FS_Singleton, FS_EmptySet
<1>7. ASSUME NEW w \in DOMAIN workers
      PROVE  /\ workers'[w].capacity = workers[w].capacity
             /\ workers'[w].current_tasks
                    = workers[w].current_tasks - Cardinality(LeasesOf({t} \cap LeasedTasks, w))
             /\ workers'[w].generation = workers[w].generation
             /\ workers'[w].status = workers[w].status
             /\ workers'[w].current_tasks \in Nat => workers'[w] \in WorkerNode
  <2>1. workers[w] \in WorkerNode /\ workers[w].current_tasks \in Nat
      BY <1>2 DEF WorkerNode
  <2>2. CASE w = v
    <3>1. workers'[w] = SlotFreed(workers[w], n)
        BY <1>3, <2>2
    <3>2. Cardinality(LeasesOf({t} \cap LeasedTasks, w)) = 1
        BY <1>4, <1>6, <2>2
    <3> QED
        BY <2>1, <3>1, <3>2, SlotFreedType
  <2>3. CASE w # v
    <3>1. workers'[w] = workers[w]
        BY <1>3, <2>3
    <3>2. Cardinality(LeasesOf({t} \cap LeasedTasks, w)) = 0
        BY <1>5, <1>6, <2>3
    <3> QED
        BY <2>1, <3>1, <3>2
  <2> QED
      BY <2>2, <2>3
<1>8. DOMAIN workers' = DOMAIN workers
    BY <1>3
<1>9. workers' = [w \in DOMAIN workers |-> workers'[w]]
    BY <1>3
<1> QED
    BY <1>7, <1>8, <1>9 DEF WorkersRelease

\* A retirement preserves the invariant.
LEMMA RetireStep ==
    ASSUME IInv, NEW S \in SUBSET ActiveTasks, NEW E \in SUBSET S,
           TasksRetire(S, E), WorkersRelease(S), CountTerminal(Cardinality(E)),
           current' \subseteq Callers, logical_time' \in Nat,
           tasks' \in [DOMAIN tasks -> TaskEntry], queue' \subseteq QueueKey,
           workers' = [w \in DOMAIN workers |-> workers'[w]],
           \A w \in DOMAIN workers :
               workers'[w].current_tasks \in Nat => workers'[w] \in WorkerNode,
           next_enqueue_ordinal' \in Nat, UNCHANGED leaseVars, acks' \subseteq Ack
    PROVE  IInv'
<1>1. OwnershipMatchesStatus'
    BY RetireOwnership
<1>2. CountersMatchRecords' /\ active_tasks' \in Nat /\ terminal_tasks' \in Nat
    BY RetireCounters
<1>3. /\ WorkerCountersMatchLeases'
      /\ \A w \in DOMAIN workers : workers'[w].current_tasks \in Nat
    BY RetireWorkers
<1>4. workers' \in [DOMAIN workers -> WorkerNode]
    BY <1>3
<1>5. TypeOK'
    BY <1>2, <1>4 DEF IInv, TypeOK, leaseVars, TasksRetire, WorkersRelease
<1> QED
    BY <1>1, <1>2, <1>3, <1>5 DEF IInv

LEMMA RetireOne ==
    ASSUME IInv, NEW t \in ActiveTasks, NEW e \in TaskEntry,
           EntryEnded(e) \/ EntryQueued(e),
           e.lease = None, e.assigned_to = None, e.record_version > 0,
           tasks' = [tasks EXCEPT ![t] = e], issued' = issued
    PROVE  /\ EntryEnded(e) => TasksRetire({t}, {t})
           /\ EntryQueued(e) => TasksRetire({t}, {})
           /\ tasks' \in [DOMAIN tasks -> TaskEntry]
<1>1. t \in DOMAIN tasks
    BY DEF ActiveTasks
<1>2. /\ DOMAIN tasks' = DOMAIN tasks /\ tasks'[t] = e
      /\ \A u \in DOMAIN tasks \ {t} : tasks'[u] = tasks[u]
    BY <1>1
<1>3. tasks' \in [DOMAIN tasks -> TaskEntry]
    BY <1>1 DEF IInv, TypeOK
<1> QED
    BY <1>1, <1>2, <1>3 DEF TasksRetire

LEMMA TimesNat ==
    ASSUME NEW now \in Times
    PROVE  now \in Nat
    BY InputsAssumption DEF Times

LEMMA AckType ==
    ASSUME NEW token \in QueuedTaskFence \cup TaskLease, NEW e \in TaskEntry,
           e.status \in TerminalStatus
    PROVE  NewAck(token, e) \in Ack
    BY DEF NewAck, Ack, TaskEntry

\* A lease ended by its holder, whatever the outcome.
LEMMA LeaseEnds ==
    ASSUME IInv, NEW c \in Callers, NEW now \in Times, NEW lease \in issued,
           EnsureCurrentLease(lease, now), NEW e \in TaskEntry, EntryEnded(e),
           e.lease = None, e.assigned_to = None, e.record_version > 0, NEW n \in Nat,
           tasks' = [tasks EXCEPT ![lease.task_id] = e], workers' = ReleaseWorker(lease, n),
           CountTerminal(1), acks' = acks \cup {NewAck(lease, e)}, Commit(c, now),
           UNCHANGED <<queue, next_enqueue_ordinal, leaseVars>>
    PROVE  IInv'
<1> DEFINE t == lease.task_id
<1>1. lease \in TaskLease /\ t \in ActiveTasks
    BY CurrentLease
<1>2. TasksRetire({t}, {t}) /\ tasks' \in [DOMAIN tasks -> TaskEntry]
    BY <1>1, RetireOne DEF leaseVars
<1>3. /\ WorkersRelease({t})
      /\ \A w \in DOMAIN workers : workers'[w].current_tasks \in Nat => workers'[w] \in WorkerNode
      /\ workers' = [w \in DOMAIN workers |-> workers'[w]]
    BY SingleRelease
<1>4. NewAck(lease, e) \in Ack
    BY <1>1, AckType DEF EntryEnded
<1>5. CountTerminal(Cardinality({t}))
    BY FS_Singleton
<1>6. /\ current' \subseteq Callers /\ logical_time' \in Nat /\ queue' \subseteq QueueKey
      /\ next_enqueue_ordinal' \in Nat /\ acks' \subseteq Ack
    BY <1>4, TimesNat DEF IInv, TypeOK, Commit
<1> QED
    BY <1>1, <1>2, <1>3, <1>5, <1>6, RetireStep

LEMMA CompleteStep ==
    ASSUME IInv, NEW c \in Callers, NEW now \in Times, NEW lease \in issued,
           CompleteTask(c, now, lease)
    PROVE  IInv'
<1> DEFINE t == lease.task_id
           r == NewReceipt(lease, tasks[t])
           f == TerminalizeLeased(tasks[t], "Completed")
           e == [f EXCEPT !.completion = r]
<1>1. EnsureCurrentLease(lease, now)
    BY DEF CompleteTask
<1>2. lease \in TaskLease /\ tasks[t] \in TaskEntry /\ tasks[t].queue_key = None
    BY <1>1, CurrentLease
<1>3. r \in CompletionReceipt
    BY <1>2 DEF NewReceipt, CompletionReceipt, TaskLease, TaskEntry
<1>4. /\ f \in TaskEntry /\ f.status = "Completed" /\ f.queue_key = None
      /\ f.lease = None /\ f.assigned_to = None /\ f.record_version > 0
    BY <1>2, TerminalizeLeasedType DEF TerminalStatus
<1>5. /\ tasks' = [tasks EXCEPT ![t] = e]
      /\ workers' = ReleaseWorker(lease, 1) /\ CountTerminal(1)
      /\ acks' = acks \cup {NewAck(lease, e)} /\ Commit(c, now)
      /\ UNCHANGED <<queue, next_enqueue_ordinal, leaseVars>>
    BY DEF CompleteTask
<1> HIDE DEF r, f
<1>6. /\ e \in TaskEntry /\ EntryEnded(e)
      /\ e.lease = None /\ e.assigned_to = None /\ e.record_version > 0
    BY <1>3, <1>4 DEF TaskEntry, EntryEnded, TerminalStatus
<1> HIDE DEF e
<1> QED
    BY <1>1, <1>5, <1>6, LeaseEnds

LEMMA CancelLeasedStep ==
    ASSUME IInv, NEW c \in Callers, NEW now \in Times, NEW lease \in issued,
           CancelLeased(c, now, lease)
    PROVE  IInv'
<1> DEFINE t == lease.task_id
           f == TerminalizeLeased(tasks[t], "Cancelled")
           e == [f EXCEPT !.cancellation = lease]
<1>1. EnsureCurrentLease(lease, now)
    BY DEF CancelLeased
<1>2. lease \in TaskLease /\ tasks[t] \in TaskEntry /\ tasks[t].queue_key = None
    BY <1>1, CurrentLease
<1>3. /\ f \in TaskEntry /\ f.status = "Cancelled" /\ f.queue_key = None
      /\ f.lease = None /\ f.assigned_to = None /\ f.record_version > 0
    BY <1>2, TerminalizeLeasedType DEF TerminalStatus
<1>4. /\ tasks' = [tasks EXCEPT ![t] = e]
      /\ workers' = ReleaseWorker(lease, 0) /\ CountTerminal(1)
      /\ acks' = acks \cup {NewAck(lease, e)} /\ Commit(c, now)
      /\ UNCHANGED <<queue, next_enqueue_ordinal, leaseVars>>
    BY DEF CancelLeased
<1> HIDE DEF f
<1>5. /\ e \in TaskEntry /\ EntryEnded(e)
      /\ e.lease = None /\ e.assigned_to = None /\ e.record_version > 0
    BY <1>2, <1>3 DEF TaskEntry, EntryEnded, TerminalStatus
<1> HIDE DEF e
<1> QED
    BY <1>1, <1>4, <1>5, LeaseEnds

LEMMA FailExhaustedStep ==
    ASSUME IInv, NEW c \in Callers, NEW now \in Times, NEW lease \in issued,
           FailTaskExhausted(c, now, lease)
    PROVE  IInv'
<1> DEFINE t == lease.task_id
           f == TerminalizeLeased(tasks[t], "Failed")
           e == [f EXCEPT !.failure = lease]
<1>1. EnsureCurrentLease(lease, now)
    BY DEF FailTaskExhausted
<1>2. lease \in TaskLease /\ tasks[t] \in TaskEntry /\ tasks[t].queue_key = None
    BY <1>1, CurrentLease
<1>3. /\ f \in TaskEntry /\ f.status = "Failed" /\ f.queue_key = None
      /\ f.lease = None /\ f.assigned_to = None /\ f.record_version > 0
    BY <1>2, TerminalizeLeasedType DEF TerminalStatus
<1>4. /\ tasks' = [tasks EXCEPT ![t] = e]
      /\ workers' = ReleaseWorker(lease, 0) /\ CountTerminal(1)
      /\ acks' = acks \cup {NewAck(lease, e)} /\ Commit(c, now)
      /\ UNCHANGED <<queue, next_enqueue_ordinal, leaseVars>>
    BY DEF FailTaskExhausted
<1> HIDE DEF f
<1>5. /\ e \in TaskEntry /\ EntryEnded(e)
      /\ e.lease = None /\ e.assigned_to = None /\ e.record_version > 0
    BY <1>2, <1>3 DEF TaskEntry, EntryEnded, TerminalStatus
<1> HIDE DEF e
<1> QED
    BY <1>1, <1>4, <1>5, LeaseEnds

LEMMA FailRetryStep ==
    ASSUME IInv, NEW c \in Callers, NEW now \in Times, NEW lease \in issued,
           FailTaskRetry(c, now, lease)
    PROVE  IInv'
<1> DEFINE t == lease.task_id
           e == Requeued(t, next_enqueue_ordinal)
<1>1. EnsureCurrentLease(lease, now)
    BY DEF FailTaskRetry
<1>2. t \in DOMAIN tasks /\ t \in ActiveTasks
    BY <1>1, CurrentLease
<1>3. /\ e \in TaskEntry /\ e.status = "Queued" /\ e.queue_key # None /\ e.queue_key \in QueueKey
      /\ e.lease = None /\ e.assigned_to = None /\ e.record_version > 0
    BY <1>2, RequeuedType DEF IInv, TypeOK
<1>4. /\ tasks' = [tasks EXCEPT ![t] = e] /\ workers' = ReleaseWorker(lease, 0)
      /\ queue' = queue \cup {e.queue_key}
      /\ next_enqueue_ordinal' = next_enqueue_ordinal + 1
      /\ current' = {c} /\ logical_time' = now
      /\ UNCHANGED <<active_tasks, terminal_tasks, leaseVars, acks>>
    BY DEF FailTaskRetry, Commit
<1> HIDE DEF e
<1>5. EntryQueued(e)
    BY <1>3 DEF EntryQueued
<1>6. TasksRetire({t}, {}) /\ tasks' \in [DOMAIN tasks -> TaskEntry]
    BY <1>2, <1>3, <1>4, <1>5, RetireOne DEF leaseVars
<1>7. /\ WorkersRelease({t})
      /\ \A w \in DOMAIN workers : workers'[w].current_tasks \in Nat => workers'[w] \in WorkerNode
      /\ workers' = [w \in DOMAIN workers |-> workers'[w]]
    BY <1>1, <1>4, SingleRelease
<1>8. CountTerminal(Cardinality({}))
    BY <1>4, FS_EmptySet DEF CountTerminal, IInv, TypeOK
<1>9. /\ current' \subseteq Callers /\ logical_time' \in Nat /\ queue' \subseteq QueueKey
      /\ next_enqueue_ordinal' \in Nat /\ acks' \subseteq Ack
    BY <1>3, <1>4, TimesNat DEF IInv, TypeOK
<1> QED
    BY <1>2, <1>4, <1>6, <1>7, <1>8, <1>9, RetireStep

LEMMA CancelQueuedStep ==
    ASSUME IInv, NEW c \in Callers, NEW now \in Times, NEW u \in DOMAIN tasks,
           NEW fence \in QueuedFences(u), CancelQueued(c, now, fence)
    PROVE  IInv'
<1> DEFINE t == fence.task_id
           f == TerminalizeQueued(tasks[t], "Cancelled")
           e == [f EXCEPT !.cancellation = fence]
<1>1. /\ t \in DOMAIN tasks /\ tasks[t] \in TaskEntry /\ t \in Tasks
      /\ tasks[u].task_generation \in Nat /\ tasks[u].record_version \in Nat
    BY DEF IInv, TypeOK, QueuedFences, TaskEntry
<1>2. fence \in QueuedTaskFence
    BY <1>1 DEF QueuedFences, QueuedTaskFence
<1>3. /\ t \in ActiveTasks /\ t \notin LeasedTasks
      /\ tasks[t].lease = None /\ tasks[t].assigned_to = None
    BY <1>1 DEF CancelQueued, ActiveTasks, ActiveStatus, LeasedTasks, IInv, OwnershipMatchesStatus
<1>4. /\ f \in TaskEntry /\ f.status = "Cancelled" /\ f.queue_key = None
      /\ f.lease = None /\ f.assigned_to = None /\ f.record_version > 0
    BY <1>1, <1>3, TerminalizeQueuedType DEF TerminalStatus
<1>5. /\ tasks' = [tasks EXCEPT ![t] = e] /\ workers' = workers /\ CountTerminal(1)
      /\ queue' = queue \ {tasks[t].queue_key}
      /\ acks' = acks \cup {NewAck(fence, e)} /\ current' = {c} /\ logical_time' = now
      /\ UNCHANGED <<next_enqueue_ordinal, leaseVars>>
    BY DEF CancelQueued, Commit
<1> HIDE DEF f
<1>6. /\ e \in TaskEntry /\ EntryEnded(e)
      /\ e.lease = None /\ e.assigned_to = None /\ e.record_version > 0
    BY <1>2, <1>4 DEF TaskEntry, EntryEnded, TerminalStatus
<1> HIDE DEF e
<1>7. TasksRetire({t}, {t}) /\ tasks' \in [DOMAIN tasks -> TaskEntry]
    BY <1>3, <1>5, <1>6, RetireOne DEF leaseVars
<1>8. \A w : LeasesOf({t} \cap LeasedTasks, w) = {}
    BY <1>3 DEF LeasesOf
<1>9. /\ WorkersRelease({t})
      /\ \A w \in DOMAIN workers : workers'[w].current_tasks \in Nat => workers'[w] \in WorkerNode
      /\ workers' = [w \in DOMAIN workers |-> workers'[w]]
  <2>1. workers \in [DOMAIN workers -> WorkerNode]
      BY DEF IInv, TypeOK
  <2>2. \A w \in DOMAIN workers : workers[w] \in WorkerNode
      BY <2>1
  <2>3. \A w \in DOMAIN workers : workers[w].current_tasks \in Nat
      BY <2>2 DEF WorkerNode
  <2>4. \A w : Cardinality(LeasesOf({t} \cap LeasedTasks, w)) = 0
      BY <1>8, FS_EmptySet
  <2>5. \A w \in DOMAIN workers :
            workers[w].current_tasks
                = workers[w].current_tasks - Cardinality(LeasesOf({t} \cap LeasedTasks, w))
      BY <2>3, <2>4
  <2>6. WorkersRelease({t})
      BY <1>5, <2>5, Zenon DEF WorkersRelease
  <2> QED
      BY <1>5, <2>1, <2>2, <2>6
<1>10. NewAck(fence, e) \in Ack
    BY <1>2, <1>6, AckType DEF EntryEnded
<1>11. CountTerminal(Cardinality({t}))
    BY <1>5, FS_Singleton
<1>12. /\ current' \subseteq Callers /\ logical_time' \in Nat /\ queue' \subseteq QueueKey
       /\ next_enqueue_ordinal' \in Nat /\ acks' \subseteq Ack
    BY <1>5, <1>10, TimesNat DEF IInv, TypeOK
<1> QED
    BY <1>3, <1>5, <1>7, <1>9, <1>11, <1>12, RetireStep

(***************************************************************************)
(* Bulk commands                                                           *)
(***************************************************************************)
LEMMA SlotsFreedType ==
    ASSUME NEW x \in WorkerNode, NEW k \in Nat, k <= x.current_tasks
    PROVE  /\ SlotsFreed(x, k) \in WorkerNode
           /\ SlotsFreed(x, k).current_tasks = x.current_tasks - k
           /\ SlotsFreed(x, k).capacity = x.capacity
           /\ SlotsFreed(x, k).generation = x.generation
           /\ SlotsFreed(x, k).status = x.status
<1> DEFINE a == x.current_tasks - k
           y == [x EXCEPT !.current_tasks = a]
<1>1. SlotsFreed(x, k) = y
    BY DEF SlotsFreed
<1>2. a \in Nat
    BY DEF WorkerNode
<1>3. /\ y.current_tasks = a /\ y.capacity = x.capacity
      /\ y.generation = x.generation /\ y.status = x.status
    BY DEF WorkerNode
<1>4. y \in WorkerNode
  <2> HIDE DEF a
  <2> QED
      BY <1>2 DEF WorkerNode
<1> QED
    BY <1>1, <1>3, <1>4

LEMMA WentOfflineType ==
    ASSUME NEW x \in WorkerNode
    PROVE  /\ WentOffline(x) \in WorkerNode
           /\ WentOffline(x).current_tasks = x.current_tasks
           /\ WentOffline(x).capacity = x.capacity
<1> DEFINE g == x.generation + 1
           y == [x EXCEPT !.status = "Offline", !.generation = g]
<1>1. WentOffline(x) = y
    BY DEF WentOffline
<1>2. g \in Nat
    BY DEF WorkerNode
<1> HIDE DEF g
<1>3. y \in WorkerNode /\ y.current_tasks = x.current_tasks /\ y.capacity = x.capacity
    BY <1>2 DEF WorkerNode, WorkerStatus
<1> QED
    BY <1>1, <1>3

\* A bulk command releases the slots of a set of leases; the workers of D, which lose
\* every lease they hold, also go offline.
LEMMA BulkRelease ==
    ASSUME IInv, NEW S \in SUBSET ActiveTasks, NEW D,
           \A w \in D : Leased(w) \subseteq S,
           workers' = [w \in DOMAIN workers |->
                          IF w \in D THEN WentOffline(Released(S \cap LeasedTasks)[w])
                          ELSE Released(S \cap LeasedTasks)[w]]
    PROVE  /\ WorkersRelease(S)
           /\ \A w \in DOMAIN workers : workers'[w] \in WorkerNode
           /\ workers' = [w \in DOMAIN workers |-> workers'[w]]
<1>1. DOMAIN workers' = DOMAIN workers /\ workers' = [w \in DOMAIN workers |-> workers'[w]]
    OBVIOUS
<1>2. ASSUME NEW w \in DOMAIN workers
      PROVE  /\ workers'[w] \in WorkerNode
             /\ workers'[w].capacity = workers[w].capacity
             /\ workers'[w].current_tasks
                    = workers[w].current_tasks - Cardinality(LeasesOf(S \cap LeasedTasks, w))
             /\ \/ /\ workers'[w].generation = workers[w].generation
                   /\ workers'[w].status = workers[w].status
                \/ Leased(w) \subseteq S
  <2> DEFINE k == Cardinality(LeasesOf(S \cap LeasedTasks, w))
             x == workers[w]
             y == SlotsFreed(x, k)
  <2>1. x \in WorkerNode
      BY DEF IInv, TypeOK
  <2>2. LeasesOf(S \cap LeasedTasks, w) \in SUBSET Leased(w) /\ IsFiniteSet(Leased(w))
      BY FiniteDomains DEF IInv, LeasesOf, Leased
  <2>3. k \in Nat /\ k <= x.current_tasks
    <3>1. x.current_tasks = Cardinality(Leased(w))
        BY DEF IInv, WorkerCountersMatchLeases, Leased
    <3> QED
        BY <2>2, <3>1, CardDifference
  <2>4. Released(S \cap LeasedTasks)[w] = y
      BY DEF Released
  <2>5. workers'[w] = IF w \in D THEN WentOffline(y) ELSE y
      BY <2>4
  <2> HIDE DEF k, x
  <2>6. /\ y \in WorkerNode /\ y.current_tasks = x.current_tasks - k
        /\ y.capacity = x.capacity /\ y.generation = x.generation /\ y.status = x.status
      BY <2>1, <2>3, SlotsFreedType
  <2> HIDE DEF y
  <2>7. CASE w \in D
    <3>1. /\ workers'[w] \in WorkerNode /\ workers'[w].capacity = x.capacity
          /\ workers'[w].current_tasks = x.current_tasks - k
        BY <2>5, <2>6, <2>7, WentOfflineType
    <3> QED
        BY <2>7, <3>1 DEF x, k
  <2>8. CASE w \notin D
      BY <2>5, <2>6, <2>8 DEF x, k
  <2> QED
      BY <2>7, <2>8
<1> QED
    BY <1>1, <1>2 DEF WorkersRelease

LEMMA LeasedAreActive ==
    ASSUME IInv
    PROVE  LeasedTasks \subseteq ActiveTasks
    BY DEF IInv, LeasedTasks, ActiveTasks, ActiveStatus, OwnershipMatchesStatus

LEMMA RecoveryTasks ==
    ASSUME IInv, NEW S \in SUBSET LeasedTasks, ApplyRecovery(S), issued' = issued
    PROVE  /\ TasksRetire(S, S \ Retryable(S))
           /\ tasks' \in [DOMAIN tasks -> TaskEntry]
           /\ queue' \subseteq QueueKey /\ next_enqueue_ordinal' \in Nat
           /\ CountTerminal(Cardinality(S \ Retryable(S)))
<1>1. S \in SUBSET DOMAIN tasks /\ Retryable(S) \in SUBSET S
    BY DEF LeasedTasks, Retryable
<1>2. IsFiniteSet(Retryable(S)) /\ Cardinality(Retryable(S)) \in Nat
    BY <1>1, FiniteDomains, FS_CardinalityType DEF IInv
<1>3. next_enqueue_ordinal \in Nat
    BY DEF IInv, TypeOK
<1>4. ASSUME NEW t \in DOMAIN tasks
      PROVE  RecoveryOrdinal(S, t) \in Nat
  <2> DEFINE R == {u \in Retryable(S) : tasks[u].lease.lease_id < tasks[t].lease.lease_id}
  <2>1. IsFiniteSet(R)
      BY <1>2, FS_Subset
  <2>2. Cardinality(R) \in Nat
      BY <2>1, FS_CardinalityType
  <2> QED
      BY <1>3, <2>2 DEF RecoveryOrdinal
<1>5. \A t \in Retryable(S) :
          LET e == Requeued(t, RecoveryOrdinal(S, t)) IN
          /\ e \in TaskEntry /\ EntryQueued(e) /\ e.queue_key \in QueueKey
          /\ e.lease = None /\ e.assigned_to = None /\ e.record_version > 0
    BY <1>1, <1>4, RequeuedType DEF IInv, EntryQueued
<1>6. \A t \in S :
          LET e == TerminalizeLeased(tasks[t], "Failed") IN
          /\ e \in TaskEntry /\ EntryEnded(e)
          /\ e.lease = None /\ e.assigned_to = None /\ e.record_version > 0
  <2>1. \A t \in S : tasks[t] \in TaskEntry /\ tasks[t].queue_key = None
      BY <1>1 DEF IInv, TypeOK, OwnershipMatchesStatus, LeasedTasks
  <2>2. "Failed" \in TerminalStatus
      BY DEF TerminalStatus
  <2> QED
      BY <2>1, <2>2, TerminalizeLeasedType DEF EntryEnded
<1>7. /\ DOMAIN tasks' = DOMAIN tasks /\ tasks' = [t \in DOMAIN tasks |-> tasks'[t]]
      /\ \A t \in Retryable(S) : tasks'[t] = Requeued(t, RecoveryOrdinal(S, t))
      /\ \A t \in S \ Retryable(S) : tasks'[t] = TerminalizeLeased(tasks[t], "Failed")
      /\ \A t \in DOMAIN tasks \ S : tasks'[t] = tasks[t]
    BY <1>1 DEF ApplyRecovery
<1>8. TasksRetire(S, S \ Retryable(S))
    BY <1>1, <1>5, <1>6, <1>7 DEF TasksRetire
<1>9. tasks' \in [DOMAIN tasks -> TaskEntry]
  <2>1. \A t \in DOMAIN tasks : tasks'[t] \in TaskEntry
      BY <1>1, <1>5, <1>6, <1>7 DEF IInv, TypeOK
  <2> QED
      BY <1>7, <2>1
<1>10. queue' \subseteq QueueKey
  <2>1. queue' = queue \cup {Requeued(t, RecoveryOrdinal(S, t)).queue_key : t \in Retryable(S)}
      BY DEF ApplyRecovery
  <2>2. queue \subseteq QueueKey
      BY DEF IInv, TypeOK
  <2> QED
      BY <1>5, <2>1, <2>2
<1>11. next_enqueue_ordinal' \in Nat /\ CountTerminal(Cardinality(S \ Retryable(S)))
    BY <1>2, <1>3 DEF ApplyRecovery
<1> QED
    BY <1>8, <1>9, <1>10, <1>11

\* Recovery of a set of leases preserves the invariant.
LEMMA RecoveryStep ==
    ASSUME IInv, NEW c \in Callers, NEW now \in Times, NEW S \in SUBSET LeasedTasks, NEW D,
           \A w \in D : Leased(w) \subseteq S, ApplyRecovery(S),
           workers' = [w \in DOMAIN workers |->
                          IF w \in D THEN WentOffline(Released(S)[w]) ELSE Released(S)[w]],
           Commit(c, now), UNCHANGED <<leaseVars, acks>>
    PROVE  IInv'
<1> DEFINE E == S \ Retryable(S)
<1>1. S \in SUBSET ActiveTasks /\ S \cap LeasedTasks = S /\ E \in SUBSET S
    BY LeasedAreActive
<1>2. /\ TasksRetire(S, E) /\ tasks' \in [DOMAIN tasks -> TaskEntry]
      /\ queue' \subseteq QueueKey /\ next_enqueue_ordinal' \in Nat
      /\ CountTerminal(Cardinality(E))
    BY RecoveryTasks DEF leaseVars
<1>3. /\ WorkersRelease(S) /\ \A w \in DOMAIN workers : workers'[w] \in WorkerNode
      /\ workers' = [w \in DOMAIN workers |-> workers'[w]]
    BY <1>1, BulkRelease
<1>4. current' \subseteq Callers /\ logical_time' \in Nat /\ acks' \subseteq Ack
    BY TimesNat DEF IInv, TypeOK, Commit
<1> HIDE DEF E
<1> QED
    BY <1>1, <1>2, <1>3, <1>4, RetireStep

LEMMA RecoverySteps ==
    ASSUME IInv, NEW c \in Callers, NEW now \in Times
    PROVE  /\ RecoverExpiredLeases(c, now) => IInv'
           /\ PruneDeadWorkers(c, now) => IInv'
           /\ \A w, g : DeregisterWorker(c, now, w, g) => IInv'
<1>1. ASSUME RecoverExpiredLeases(c, now)
      PROVE  IInv'
  <2> DEFINE S == ExpiredLeases(now)  D == {}
  <2>1. S \in SUBSET LeasedTasks
      BY DEF ExpiredLeases
  <2>2. workers' = [w \in DOMAIN workers |->
                       IF w \in D THEN WentOffline(Released(S)[w]) ELSE Released(S)[w]]
      BY <1>1 DEF RecoverExpiredLeases, Released
  <2>3. ApplyRecovery(S) /\ Commit(c, now) /\ UNCHANGED <<leaseVars, acks>>
      BY <1>1 DEF RecoverExpiredLeases
  <2>4. \A w \in D : Leased(w) \subseteq S
      OBVIOUS
  <2> HIDE DEF S, D
  <2> QED
      BY <2>1, <2>2, <2>3, <2>4, RecoveryStep
<1>2. ASSUME PruneDeadWorkers(c, now)
      PROVE  IInv'
  <2> DEFINE D == DeadWorkers(now)
             S == {t \in LeasedTasks : tasks[t].lease.worker_id \in D}
  <2>1. S \in SUBSET LeasedTasks /\ \A w \in D : Leased(w) \subseteq S
      BY DEF Leased, LeasesOf
  <2>2. /\ workers' = [w \in DOMAIN workers |->
                          IF w \in D THEN WentOffline(Released(S)[w]) ELSE Released(S)[w]]
        /\ ApplyRecovery(S) /\ Commit(c, now) /\ UNCHANGED <<leaseVars, acks>>
      BY <1>2 DEF PruneDeadWorkers
  <2> HIDE DEF S, D
  <2> QED
      BY <2>1, <2>2, RecoveryStep
<1>3. ASSUME NEW w, NEW g, DeregisterWorker(c, now, w, g)
      PROVE  IInv'
  <2> DEFINE S == Leased(w)  D == {w}
  <2>1. S \in SUBSET LeasedTasks /\ \A x \in D : Leased(x) \subseteq S
      BY DEF Leased, LeasesOf
  <2>2. /\ workers' = [x \in DOMAIN workers |->
                          IF x \in D THEN WentOffline(Released(S)[x]) ELSE Released(S)[x]]
        /\ ApplyRecovery(S) /\ Commit(c, now) /\ UNCHANGED <<leaseVars, acks>>
      BY <1>3 DEF DeregisterWorker, Leased
  <2> HIDE DEF S, D
  <2> QED
      BY <2>1, <2>2, RecoveryStep
<1> QED
    BY <1>1, <1>2, <1>3

LEMMA ExpireStep ==
    ASSUME IInv, NEW c \in Callers, NEW now \in Times, NEW ttl, ExpireOldTasks(c, now, ttl)
    PROVE  IInv'
<1> DEFINE S == OldTasks(now, ttl)
           Q == {t \in S : tasks[t].status = "Queued"}
           D == {}
<1>1. S \in SUBSET ActiveTasks /\ S \in SUBSET DOMAIN tasks
    BY DEF OldTasks, ActiveTasks
<1>2. S \ Q = S \cap LeasedTasks
    BY <1>1 DEF IInv, OwnershipMatchesStatus, LeasedTasks, ActiveTasks, ActiveStatus
<1>3. /\ tasks' = [t \in DOMAIN tasks |->
                      IF t \in Q THEN TerminalizeQueued(tasks[t], "Expired")
                      ELSE IF t \in S THEN TerminalizeLeased(tasks[t], "Expired")
                      ELSE tasks[t]]
      /\ queue' = queue \ {tasks[t].queue_key : t \in Q}
      /\ workers' = Released(S \cap LeasedTasks)
      /\ CountTerminal(Cardinality(S))
      /\ current' = {c} /\ logical_time' = now
      /\ UNCHANGED <<next_enqueue_ordinal, leaseVars, acks>>
    BY <1>2 DEF ExpireOldTasks, Commit
<1>4. workers' = [w \in DOMAIN workers |->
                     IF w \in D THEN WentOffline(Released(S \cap LeasedTasks)[w])
                     ELSE Released(S \cap LeasedTasks)[w]]
    BY <1>3 DEF Released
<1>5. \A w \in D : Leased(w) \subseteq S
    OBVIOUS
<1>5a. Q \in SUBSET S /\ \A t \in S : t \in Q <=> tasks[t].status = "Queued"
    OBVIOUS
<1> HIDE DEF S, Q, D
<1>6. /\ WorkersRelease(S) /\ \A w \in DOMAIN workers : workers'[w] \in WorkerNode
      /\ workers' = [w \in DOMAIN workers |-> workers'[w]]
    BY <1>1, <1>4, <1>5, BulkRelease
<1>7. \A t \in S :
          /\ tasks'[t] \in TaskEntry /\ EntryEnded(tasks'[t])
          /\ tasks'[t].lease = None /\ tasks'[t].assigned_to = None
          /\ tasks'[t].record_version > 0
  <2> TAKE t \in S
  <2>1. t \in DOMAIN tasks /\ tasks[t] \in TaskEntry /\ "Expired" \in TerminalStatus
      BY <1>1 DEF IInv, TypeOK, TerminalStatus
  <2>2. CASE t \in Q
    <3>1. tasks[t].lease = None /\ tasks[t].assigned_to = None
        BY <1>5a, <2>1, <2>2 DEF IInv, OwnershipMatchesStatus
    <3>2. tasks'[t] = TerminalizeQueued(tasks[t], "Expired")
        BY <1>3, <2>1, <2>2
    <3> QED
        BY <2>1, <3>1, <3>2, TerminalizeQueuedType DEF EntryEnded
  <2>3. CASE t \notin Q
    <3>1. tasks[t].queue_key = None
        BY <1>5a, <2>1, <2>3 DEF IInv, OwnershipMatchesStatus
    <3>2. tasks'[t] = TerminalizeLeased(tasks[t], "Expired")
        BY <1>3, <2>1, <2>3
    <3> QED
        BY <2>1, <3>1, <3>2, TerminalizeLeasedType DEF EntryEnded
  <2> QED
      BY <2>2, <2>3
<1>8. TasksRetire(S, S)
    BY <1>1, <1>3, <1>7, <1>5a DEF TasksRetire, leaseVars
<1>9. tasks' \in [DOMAIN tasks -> TaskEntry]
  <2>1. \A t \in DOMAIN tasks : tasks'[t] \in TaskEntry
      BY <1>1, <1>3, <1>7, <1>5a DEF IInv, TypeOK
  <2> QED
      BY <1>3, <2>1
<1>10. /\ current' \subseteq Callers /\ logical_time' \in Nat /\ queue' \subseteq QueueKey
       /\ next_enqueue_ordinal' \in Nat /\ acks' \subseteq Ack
    BY <1>3, TimesNat DEF IInv, TypeOK
<1> QED
    BY <1>1, <1>3, <1>6, <1>8, <1>9, <1>10, RetireStep

(***************************************************************************)
(* Commands on workers                                                     *)
(***************************************************************************)
LEMMA NewNodeType ==
    ASSUME NEW g \in Nat, NEW cap \in Capacities, NEW load \in Loads, NEW n \in Nat,
           NEW now \in Nat
    PROVE  /\ NewNode(g, cap, load, n, now) \in WorkerNode
           /\ NewNode(g, cap, load, n, now).current_tasks = 0
           /\ 0 <= NewNode(g, cap, load, n, now).capacity
    BY InputsAssumption DEF NewNode, WorkerNode, WorkerStatus

\* A command that changes one node: the node is fresh, or it keeps its leases.
LEMMA NodeStep ==
    ASSUME IInv, NEW c \in Callers, NEW now \in Times, NEW w \in Workers, NEW n \in WorkerNode,
           workers' = Insert(workers, w, n),
           \/ Leased(w) = {} /\ n.current_tasks = 0
           \/ /\ w \in DOMAIN workers
              /\ n.current_tasks = workers[w].current_tasks
              /\ n.capacity = workers[w].capacity
              /\ n.generation = workers[w].generation
              /\ n.status # "Offline",
           Commit(c, now), UNCHANGED <<taskVars, leaseVars, acks>>
    PROVE  IInv'
<1>1. /\ DOMAIN workers' = DOMAIN workers \cup {w} /\ workers'[w] = n
      /\ \A x \in DOMAIN workers \ {w} : workers'[x] = workers[x]
      /\ workers' = [x \in DOMAIN workers \cup {w} |-> workers'[x]]
    BY DEF Insert
<1>2. workers' \in [DOMAIN workers' -> WorkerNode] /\ DOMAIN workers' \subseteq Workers
    BY <1>1 DEF IInv, TypeOK
<1>3. TypeOK'
    BY <1>2, TimesNat DEF IInv, TypeOK, Commit, taskVars, leaseVars
<1>4. OwnershipMatchesStatus' /\ CountersMatchRecords'
    BY DEF IInv, OwnershipMatchesStatus, CountersMatchRecords, ActiveTasks, taskVars, leaseVars
<1>5. LeasedTasks' = LeasedTasks /\ \A x : LeasesOf(LeasedTasks, x)' = Leased(x)
    BY DEF LeasedTasks, LeasesOf, Leased, taskVars
<1>6. ASSUME NEW x \in DOMAIN workers'
      PROVE  /\ workers'[x].current_tasks = Cardinality(LeasesOf(LeasedTasks, x)')
             /\ workers'[x].current_tasks <= workers'[x].capacity
  <2>1. CASE x # w
      BY <1>1, <1>5, <2>1 DEF IInv, WorkerCountersMatchLeases, Leased
  <2>2. CASE x = w /\ Leased(w) = {} /\ n.current_tasks = 0
    <3>1. 0 <= n.capacity
      <4>1. n.capacity \in Capacities
          BY DEF WorkerNode
      <4>2. n.capacity \in Nat
          BY <4>1, InputsAssumption
      <4> QED
          BY <4>2
    <3>2. Cardinality(Leased(w)) = 0
        BY <2>2, FS_EmptySet
    <3> QED
        BY <1>1, <1>5, <2>2, <3>1, <3>2
  <2>3. CASE /\ x = w /\ w \in DOMAIN workers
             /\ n.current_tasks = workers[w].current_tasks
             /\ n.capacity = workers[w].capacity
      BY <1>1, <1>5, <2>3 DEF IInv, WorkerCountersMatchLeases, Leased
  <2> QED
      BY <2>1, <2>2, <2>3
<1>7. ASSUME NEW t \in LeasedTasks
      PROVE  LET l == tasks[t].lease IN
             /\ l.worker_id \in DOMAIN workers'
             /\ workers'[l.worker_id].generation = l.worker_generation
             /\ workers'[l.worker_id].status # "Offline"
  <2> DEFINE l == tasks[t].lease
  <2>1. /\ l.worker_id \in DOMAIN workers
        /\ workers[l.worker_id].generation = l.worker_generation
        /\ workers[l.worker_id].status # "Offline"
      BY DEF IInv, WorkerCountersMatchLeases
  <2>2. t \in Leased(l.worker_id)
      BY DEF Leased, LeasesOf
  <2> QED
      BY <1>1, <2>1, <2>2
<1>8. tasks' = tasks
    BY DEF taskVars
<1>9. WorkerCountersMatchLeases'
    BY <1>5, <1>6, <1>7, <1>8 DEF WorkerCountersMatchLeases
<1> QED
    BY <1>3, <1>4, <1>9 DEF IInv

LEMMA WorkerSteps ==
    ASSUME IInv, NEW c \in Callers, NEW now \in Times, WorkerStep(c, now)
    PROVE  IInv'
<1>1. PICK w \in Workers :
          \/ \E cap \in Capacities, load \in Loads : RegisterWorker(c, now, w, cap, load)
          \/ \E g \in Generations, cap \in Capacities, load \in Loads :
                 ReactivateWorker(c, now, w, g, cap, load)
          \/ \E g \in Generations, s \in WorkerStatus, load \in Loads :
                 UpdateWorker(c, now, w, g, s, load)
          \/ \E g \in Generations : DeregisterWorker(c, now, w, g)
    BY DEF WorkerStep
<1>2. now \in Nat
    BY TimesNat
<1>3. w \in DOMAIN workers => workers[w] \in WorkerNode
    BY DEF IInv, TypeOK
<1>4. ASSUME NEW cap \in Capacities, NEW load \in Loads, RegisterWorker(c, now, w, cap, load)
      PROVE  IInv'
  <2> DEFINE n == NewNode(1, cap, load, 0, now)
  <2>1. n \in WorkerNode /\ n.current_tasks = 0
      BY <1>2, NewNodeType
  <2>2. workers' = Insert(workers, w, n) /\ Commit(c, now) /\ UNCHANGED <<taskVars, leaseVars, acks>>
      BY <1>4 DEF RegisterWorker
  <2>3. Leased(w) = {}
      BY <1>4 DEF RegisterWorker, Leased, LeasesOf, IInv, WorkerCountersMatchLeases
  <2> HIDE DEF n
  <2> QED
      BY <2>1, <2>2, <2>3, NodeStep
<1>5. ASSUME NEW g \in Generations, NEW cap \in Capacities, NEW load \in Loads,
             ReactivateWorker(c, now, w, g, cap, load)
      PROVE  IInv'
  <2> DEFINE n == NewNode(g + 1, cap, load, workers[w].completed_tasks, now)
  <2>1. w \in DOMAIN workers /\ workers[w].completed_tasks \in Nat /\ g + 1 \in Nat
      BY <1>3, <1>5 DEF ReactivateWorker, WorkerNode, Generations
  <2>2. n \in WorkerNode /\ n.current_tasks = 0
      BY <1>2, <2>1, NewNodeType
  <2>3. /\ workers' = [workers EXCEPT ![w] = n]
        /\ Commit(c, now) /\ UNCHANGED <<taskVars, leaseVars, acks>>
      BY <1>5 DEF ReactivateWorker
  <2> HIDE DEF n
  <2>4. workers' = Insert(workers, w, n)
      BY <2>1, <2>3 DEF Insert, IInv, TypeOK
  <2>5. Leased(w) = {}
    <3>1. Cardinality(Leased(w)) = 0
        BY <1>5, <2>1 DEF ReactivateWorker, Leased, IInv, WorkerCountersMatchLeases
    <3>2. IsFiniteSet(Leased(w))
        BY FiniteDomains DEF IInv
    <3> QED
        BY <3>1, <3>2, FS_EmptySet
  <2> QED
      BY <2>2, <2>3, <2>4, <2>5, NodeStep
<1>6. ASSUME NEW g \in Generations, NEW s \in WorkerStatus, NEW load \in Loads,
             UpdateWorker(c, now, w, g, s, load)
      PROVE  IInv'
  <2> DEFINE n == Observed(workers[w], now, s, load)
  <2>1. w \in DOMAIN workers /\ s # "Offline"
      BY <1>6 DEF UpdateWorker
  <2>2. /\ n \in WorkerNode /\ n.current_tasks = workers[w].current_tasks
        /\ n.capacity = workers[w].capacity /\ n.generation = workers[w].generation
        /\ n.status # "Offline"
      BY <1>2, <1>3, <2>1 DEF Observed, WorkerNode
  <2>3. /\ workers' = [workers EXCEPT ![w] = n]
        /\ Commit(c, now) /\ UNCHANGED <<taskVars, leaseVars, acks>>
      BY <1>6 DEF UpdateWorker
  <2> HIDE DEF n
  <2>4. workers' = Insert(workers, w, n)
      BY <2>1, <2>3 DEF Insert, IInv, TypeOK
  <2> QED
      BY <2>1, <2>2, <2>3, <2>4, NodeStep
<1> QED
    BY <1>1, <1>4, <1>5, <1>6, RecoverySteps

(***************************************************************************)
(* Admission, assignment and start                                         *)
(***************************************************************************)
LEMMA EnqueueStep ==
    ASSUME IInv, NEW c \in Callers, NEW now \in Times, NEW t \in Tasks, NEW p \in Priorities,
           Enqueue(c, now, t, p)
    PROVE  IInv'
<1> DEFINE k == NewKey(p, next_enqueue_ordinal, t)
           e == NewEntry(t, p, now)
<1>1. next_enqueue_ordinal \in Nat /\ now \in Nat /\ active_tasks \in Nat
    BY TimesNat DEF IInv, TypeOK
<1>2. k \in QueueKey /\ k # None
    BY <1>1, NewKeyType
<1>3. e = [status |-> "Queued", priority |-> p, created_at |-> now,
           retry_count |-> 0, attempt |-> 0, task_generation |-> 0, record_version |-> 1,
           assigned_to |-> None, lease |-> None, queue_key |-> k,
           completion |-> None, cancellation |-> None, failure |-> None]
    BY DEF NewEntry
<1>4. /\ t \notin DOMAIN tasks /\ tasks' = Insert(tasks, t, e) /\ queue' = queue \cup {k}
      /\ next_enqueue_ordinal' = next_enqueue_ordinal + 1
      /\ active_tasks' = active_tasks + 1
      /\ current' = {c} /\ logical_time' = now
      /\ UNCHANGED <<terminal_tasks, workers, leaseVars, acks>>
    BY DEF Enqueue, Commit
<1> HIDE DEF k
<1>5. /\ e \in TaskEntry /\ e.status = "Queued" /\ e.queue_key # None /\ e.lease = None
      /\ e.assigned_to = None /\ e.record_version > 0
  <2>1. "Queued" \in TaskStatus
      BY DEF TaskStatus, ActiveStatus
  <2>2. e \in TaskEntry
      BY <1>1, <1>2, <1>3, <2>1 DEF TaskEntry
  <2> QED
      BY <1>2, <1>3, <2>2
<1> HIDE DEF e
<1>6. /\ DOMAIN tasks' = DOMAIN tasks \cup {t} /\ tasks'[t] = e
      /\ \A u \in DOMAIN tasks : tasks'[u] = tasks[u]
      /\ tasks' = [u \in DOMAIN tasks \cup {t} |-> tasks'[u]]
    BY <1>4 DEF Insert
<1>7. tasks' \in [DOMAIN tasks' -> TaskEntry] /\ DOMAIN tasks' \subseteq Tasks
    BY <1>5, <1>6 DEF IInv, TypeOK
<1>8. TypeOK'
    BY <1>1, <1>2, <1>4, <1>7 DEF IInv, TypeOK, leaseVars
<1>9. OwnershipMatchesStatus'
    BY <1>4, <1>5, <1>6 DEF IInv, OwnershipMatchesStatus, leaseVars
<1>10. /\ ActiveTasks' = ActiveTasks \cup {t}
       /\ (DOMAIN tasks \ ActiveTasks)' = DOMAIN tasks \ ActiveTasks
       /\ LeasedTasks' = LeasedTasks
       /\ t \notin ActiveTasks
    BY <1>4, <1>5, <1>6 DEF ActiveTasks, LeasedTasks, ActiveStatus
<1>11. Cardinality(ActiveTasks \cup {t}) = Cardinality(ActiveTasks) + 1
    BY <1>10, FiniteDomains, FS_AddElement DEF IInv
<1>12. CountersMatchRecords'
    BY <1>4, <1>10, <1>11 DEF IInv, CountersMatchRecords
<1>13. WorkerCountersMatchLeases'
  <2>1. \A u \in LeasedTasks : tasks'[u] = tasks[u]
      BY <1>6 DEF LeasedTasks
  <2>2. \A w : LeasesOf(LeasedTasks, w)' = LeasesOf(LeasedTasks, w)
      BY <1>10, <2>1 DEF LeasesOf
  <2> QED
      BY <1>4, <1>10, <2>1, <2>2 DEF IInv, WorkerCountersMatchLeases
<1> QED
    BY <1>8, <1>9, <1>12, <1>13 DEF IInv

\* A free slot is a slot below the configured capacity, whatever the load.
LEMMA SlotsWithinCapacity ==
    ASSUME NEW n \in WorkerNode, AvailableSlots(n) # 0
    PROVE  n.current_tasks < n.capacity
<1> DEFINE cap == n.capacity
           free == UTILIZATION_BASIS_POINTS - n.load
           x == cap * free
<1>1. cap \in Nat /\ n.current_tasks \in Nat
  <2>1. cap \in Capacities /\ n.current_tasks \in Nat
      BY DEF WorkerNode
  <2> QED
      BY <2>1, InputsAssumption
<1>2. free \in Nat /\ free <= 10000
  <2>1. n.load \in Loads
      BY DEF WorkerNode
  <2>2. n.load \in 0..UTILIZATION_BASIS_POINTS
      BY <2>1, InputsAssumption, Zenon
  <2>3. \A i \in 0..UTILIZATION_BASIS_POINTS :
            /\ UTILIZATION_BASIS_POINTS - i \in Nat
            /\ UTILIZATION_BASIS_POINTS - i <= 10000
      BY DEF UTILIZATION_BASIS_POINTS
  <2> HIDE DEF cap
  <2>4. UTILIZATION_BASIS_POINTS - n.load \in Nat /\ UTILIZATION_BASIS_POINTS - n.load <= 10000
      BY <2>2, <2>3
  <2> QED
      BY <2>4
<1> HIDE DEF cap, free
<1>3. x \in Nat /\ x <= cap * 10000
    BY <1>1, <1>2
<1> HIDE DEF x
<1>4. (x + 10000 - 1) \div 10000 <= cap
    BY <1>1, <1>3
<1>5. EffectiveCapacity(n) = 0 \/ EffectiveCapacity(n) = (x + 10000 - 1) \div 10000
    BY DEF EffectiveCapacity, x, cap, free, UTILIZATION_BASIS_POINTS
<1>6. EffectiveCapacity(n) <= cap /\ EffectiveCapacity(n) \in Int
    BY <1>1, <1>3, <1>4, <1>5
<1>7. EffectiveCapacity(n) > n.current_tasks
    BY DEF AvailableSlots
<1>8. n.current_tasks < cap
    BY <1>1, <1>6, <1>7
<1> QED
    BY <1>8 DEF cap

LEMMA SlotTakenType ==
    ASSUME NEW x \in WorkerNode
    PROVE  /\ SlotTaken(x) \in WorkerNode
           /\ SlotTaken(x).current_tasks = x.current_tasks + 1
           /\ SlotTaken(x).capacity = x.capacity
           /\ SlotTaken(x).generation = x.generation
           /\ SlotTaken(x).status = x.status
<1> DEFINE a == x.current_tasks + 1
           y == [x EXCEPT !.current_tasks = a]
<1>1. SlotTaken(x) = y
    BY DEF SlotTaken
<1>2. a \in Nat
    BY DEF WorkerNode
<1>3. /\ y.current_tasks = a /\ y.capacity = x.capacity
      /\ y.generation = x.generation /\ y.status = x.status
    BY DEF WorkerNode
<1>4. y \in WorkerNode
  <2> HIDE DEF a
  <2> QED
      BY <1>2 DEF WorkerNode
<1> QED
    BY <1>1, <1>3, <1>4

LEMMA GrantedType ==
    ASSUME NEW e \in TaskEntry, NEW lease \in TaskLease
    PROVE  /\ Granted(e, lease) \in TaskEntry
           /\ Granted(e, lease).status = "Leased" /\ Granted(e, lease).queue_key = None
           /\ Granted(e, lease).lease = lease
           /\ Granted(e, lease).assigned_to = lease.worker_id
           /\ Granted(e, lease).attempt = lease.attempt
           /\ Granted(e, lease).task_generation = e.task_generation
           /\ Granted(e, lease).record_version > 0
<1> DEFINE v == e.record_version + 1
           a == lease.attempt
           w == lease.worker_id
           f == [e EXCEPT !.queue_key = None, !.status = "Leased", !.assigned_to = w,
                          !.attempt = a, !.lease = lease, !.record_version = v]
<1>1. v \in Nat /\ v > 0 /\ a \in Nat /\ w \in Workers
    BY DEF TaskEntry, TaskLease
<1>2. Granted(e, lease) = f
    BY DEF Granted
<1>3. "Leased" \in TaskStatus
    BY DEF TaskStatus, ActiveStatus
<1> HIDE DEF v, a, w
<1>4. f \in TaskEntry
    BY <1>1, <1>3 DEF TaskEntry
<1>5. /\ f.status = "Leased" /\ f.queue_key = None /\ f.lease = lease
      /\ f.assigned_to = w /\ f.attempt = a /\ f.task_generation = e.task_generation
      /\ f.record_version = v
    BY DEF TaskEntry
<1> QED
    BY <1>1, <1>2, <1>4, <1>5 DEF v, a, w

LEMMA AssignStepOne ==
    ASSUME IInv, NEW c \in Callers, NEW now \in Times, NEW t, NEW w, NEW ttl \in LeaseTtls,
           AssignTask(c, now, t, w, ttl)
    PROVE  IInv'
<1> DEFINE lease == NewLease(t, w, now, ttl)
           e == Granted(tasks[t], lease)
           n == SlotTaken(workers[w])
<1>1. /\ t \in DOMAIN tasks /\ tasks[t].status = "Queued" /\ w \in DOMAIN workers
      /\ workers[w].status = "Healthy" /\ AvailableSlots(workers[w]) # 0
    BY DEF AssignTask, PrepareAssignment
<1>2. tasks[t] \in TaskEntry /\ t \in Tasks /\ workers[w] \in WorkerNode /\ w \in Workers
    BY <1>1 DEF IInv, TypeOK
<1>3. now \in Nat /\ ttl \in Nat /\ next_lease_id \in Nat
    BY TimesNat, InputsAssumption DEF IInv, TypeOK
<1>4. /\ lease \in TaskLease /\ lease.task_id = t /\ lease.worker_id = w
      /\ lease.worker_generation = workers[w].generation
      /\ lease.task_generation = tasks[t].task_generation
    BY <1>2, <1>3 DEF NewLease, TaskLease, TaskEntry, WorkerNode
<1>5. /\ queue' = queue \ {tasks[t].queue_key}
      /\ tasks' = [tasks EXCEPT ![t] = e]
      /\ workers' = [workers EXCEPT ![w] = n]
      /\ next_lease_id' = next_lease_id + 1 /\ issued' = issued \cup {lease}
      /\ UNCHANGED <<active_tasks, terminal_tasks, next_enqueue_ordinal, acks>>
      /\ current' = {c} /\ logical_time' = now
    BY <1>4 DEF AssignTask, ApplyAssignment, Commit
<1> HIDE DEF lease
<1>6. lease # None
    BY <1>4, NoneAssumption
<1>7. /\ e \in TaskEntry /\ e.status = "Leased" /\ e.queue_key = None /\ e.lease = lease
      /\ e.assigned_to = w /\ e.attempt = lease.attempt
      /\ e.task_generation = lease.task_generation /\ e.record_version > 0
    BY <1>2, <1>4, GrantedType
<1>8. /\ n \in WorkerNode /\ n.current_tasks = workers[w].current_tasks + 1
      /\ n.capacity = workers[w].capacity /\ n.generation = lease.worker_generation
      /\ n.generation = workers[w].generation /\ n.status # "Offline"
    BY <1>1, <1>2, <1>4, SlotTakenType
<1>9. n.current_tasks <= n.capacity
  <2>1. workers[w].current_tasks < workers[w].capacity
      BY <1>1, <1>2, SlotsWithinCapacity
  <2>2. workers[w].current_tasks \in Nat /\ workers[w].capacity \in Nat
    <3>1. workers[w].current_tasks \in Nat /\ workers[w].capacity \in Capacities
        BY <1>2 DEF WorkerNode
    <3> QED
        BY <3>1, InputsAssumption
  <2> QED
      BY <1>8, <2>1, <2>2
<1> HIDE DEF e, n
<1>10. /\ DOMAIN tasks' = DOMAIN tasks /\ tasks'[t] = e
       /\ \A u \in DOMAIN tasks \ {t} : tasks'[u] = tasks[u]
       /\ DOMAIN workers' = DOMAIN workers /\ workers'[w] = n
       /\ \A x \in DOMAIN workers \ {w} : workers'[x] = workers[x]
    BY <1>1, <1>5
<1>11. /\ tasks' \in [DOMAIN tasks' -> TaskEntry]
       /\ workers' \in [DOMAIN workers' -> WorkerNode]
    BY <1>1, <1>5, <1>7, <1>8 DEF IInv, TypeOK
<1>12. TypeOK'
    BY <1>3, <1>4, <1>5, <1>10, <1>11 DEF IInv, TypeOK
<1>13. OwnershipMatchesStatus'
  <2> SUFFICES ASSUME NEW u \in DOMAIN tasks
               PROVE  LET f == tasks'[u] IN
                      /\ f.record_version > 0
                      /\ f.status = "Queued" <=> f.queue_key # None
                      /\ f.status \in {"Leased", "Running"} <=> f.lease # None
                      /\ f.lease = None => f.assigned_to = None
                      /\ f.lease # None =>
                             /\ f.lease \in issued'
                             /\ f.lease.task_id = u /\ f.lease.worker_id = f.assigned_to
                             /\ f.lease.task_generation = f.task_generation
                             /\ f.lease.attempt = f.attempt
      BY <1>10 DEF OwnershipMatchesStatus
  <2>1. CASE u = t
      BY <1>4, <1>5, <1>6, <1>7, <1>10, <2>1
  <2>2. CASE u # t
      BY <1>5, <1>10, <2>2 DEF IInv, OwnershipMatchesStatus
  <2> QED
      BY <2>1, <2>2
<1>14. ActiveTasks' = ActiveTasks /\ (DOMAIN tasks \ ActiveTasks)' = DOMAIN tasks \ ActiveTasks
    BY <1>1, <1>7, <1>10 DEF ActiveTasks, ActiveStatus
<1>15. CountersMatchRecords'
    BY <1>5, <1>14 DEF IInv, CountersMatchRecords
<1>16. LeasedTasks' = LeasedTasks \cup {t} /\ t \notin LeasedTasks
    BY <1>1, <1>6, <1>7, <1>10 DEF LeasedTasks, IInv, OwnershipMatchesStatus
<1>17. \A u \in LeasedTasks : tasks'[u] = tasks[u] /\ u # t
    BY <1>10, <1>16 DEF LeasedTasks
<1>18. /\ LeasesOf(LeasedTasks, w)' = Leased(w) \cup {t} /\ t \notin Leased(w)
       /\ \A x \in DOMAIN workers \ {w} : LeasesOf(LeasedTasks, x)' = Leased(x)
    BY <1>4, <1>7, <1>10, <1>16, <1>17 DEF LeasesOf, Leased
<1>19. ASSUME NEW x \in DOMAIN workers
       PROVE  /\ workers'[x].current_tasks = Cardinality(LeasesOf(LeasedTasks, x)')
              /\ workers'[x].current_tasks <= workers'[x].capacity
  <2>1. workers[w].current_tasks = Cardinality(Leased(w))
      BY <1>1 DEF IInv, WorkerCountersMatchLeases, Leased
  <2>2. Cardinality(Leased(w) \cup {t}) = Cardinality(Leased(w)) + 1
      BY <1>18, FiniteDomains, FS_AddElement DEF IInv
  <2>3. CASE x = w
      BY <1>8, <1>9, <1>10, <1>18, <2>1, <2>2, <2>3
  <2>4. CASE x # w
      BY <1>10, <1>18, <2>4 DEF IInv, WorkerCountersMatchLeases, Leased
  <2> QED
      BY <2>3, <2>4
<1>20. ASSUME NEW u \in LeasedTasks'
       PROVE  LET l == tasks'[u].lease IN
              /\ l.worker_id \in DOMAIN workers'
              /\ workers'[l.worker_id].generation = l.worker_generation
              /\ workers'[l.worker_id].status # "Offline"
  <2>1. CASE u = t
      BY <1>1, <1>4, <1>7, <1>8, <1>10, <2>1
  <2>2. CASE u # t
    <3>1. u \in LeasedTasks /\ tasks'[u] = tasks[u]
        BY <1>16, <1>17, <2>2
    <3>2. LET l == tasks[u].lease IN
          /\ l.worker_id \in DOMAIN workers
          /\ workers[l.worker_id].generation = l.worker_generation
          /\ workers[l.worker_id].status # "Offline"
        BY <3>1 DEF IInv, WorkerCountersMatchLeases
    <3> QED
        BY <1>8, <1>10, <3>1, <3>2
  <2> QED
      BY <2>1, <2>2
<1>21. WorkerCountersMatchLeases'
    BY <1>10, <1>19, <1>20 DEF WorkerCountersMatchLeases
<1> QED
    BY <1>12, <1>13, <1>15, <1>21 DEF IInv

LEMMA AssignSteps ==
    ASSUME IInv, NEW c \in Callers, NEW now \in Times, AssignStep(c, now)
    PROVE  IInv'
    BY AssignStepOne DEF AssignStep, AssignNext, AssignNextAvailable

LEMMA StartedType ==
    ASSUME NEW e \in TaskEntry
    PROVE  /\ Started(e) \in TaskEntry
           /\ Started(e).status = "Running" /\ Started(e).queue_key = e.queue_key
           /\ Started(e).lease = e.lease /\ Started(e).assigned_to = e.assigned_to
           /\ Started(e).attempt = e.attempt
           /\ Started(e).task_generation = e.task_generation
           /\ Started(e).record_version > 0
<1> DEFINE v == e.record_version + 1
           f == [e EXCEPT !.status = "Running", !.record_version = v]
<1>1. v \in Nat /\ v > 0
    BY DEF TaskEntry
<1>2. Started(e) = f
    BY DEF Started
<1>3. "Running" \in TaskStatus
    BY DEF TaskStatus, ActiveStatus
<1> HIDE DEF v
<1>4. f \in TaskEntry
    BY <1>1, <1>3 DEF TaskEntry
<1>5. /\ f.status = "Running" /\ f.queue_key = e.queue_key /\ f.lease = e.lease
      /\ f.assigned_to = e.assigned_to /\ f.attempt = e.attempt
      /\ f.task_generation = e.task_generation /\ f.record_version = v
    BY DEF TaskEntry
<1> QED
    BY <1>1, <1>2, <1>4, <1>5

LEMMA StartStep ==
    ASSUME IInv, NEW c \in Callers, NEW now \in Times, NEW lease \in issued,
           StartTask(c, now, lease)
    PROVE  IInv'
<1> DEFINE t == lease.task_id
           e == Started(tasks[t])
<1>1. EnsureCurrentLease(lease, now) /\ tasks[t].status = "Leased"
    BY DEF StartTask
<1>2. /\ t \in DOMAIN tasks /\ tasks[t] \in TaskEntry /\ t \in ActiveTasks
      /\ t \in LeasedTasks
    BY <1>1, CurrentLease
<1>3. /\ e \in TaskEntry /\ e.status = "Running" /\ e.queue_key = tasks[t].queue_key
      /\ e.lease = tasks[t].lease /\ e.assigned_to = tasks[t].assigned_to
      /\ e.attempt = tasks[t].attempt /\ e.task_generation = tasks[t].task_generation
      /\ e.record_version > 0
    BY <1>2, StartedType
<1>4. /\ tasks' = [tasks EXCEPT ![t] = e] /\ current' = {c} /\ logical_time' = now
      /\ UNCHANGED <<queue, active_tasks, terminal_tasks, next_enqueue_ordinal,
                     workers, leaseVars, acks>>
    BY DEF StartTask, Commit
<1> HIDE DEF e
<1>5. /\ DOMAIN tasks' = DOMAIN tasks /\ tasks'[t] = e
      /\ \A u \in DOMAIN tasks \ {t} : tasks'[u] = tasks[u]
    BY <1>2, <1>4
<1>6. tasks' \in [DOMAIN tasks' -> TaskEntry]
    BY <1>2, <1>3, <1>4 DEF IInv, TypeOK
<1>7. TypeOK'
    BY <1>4, <1>5, <1>6, TimesNat DEF IInv, TypeOK, leaseVars
<1>8. OwnershipMatchesStatus'
    BY <1>1, <1>2, <1>3, <1>4, <1>5 DEF IInv, OwnershipMatchesStatus, leaseVars
<1>9. /\ ActiveTasks' = ActiveTasks /\ (DOMAIN tasks \ ActiveTasks)' = DOMAIN tasks \ ActiveTasks
      /\ LeasedTasks' = LeasedTasks
    BY <1>2, <1>3, <1>5 DEF ActiveTasks, ActiveStatus, LeasedTasks
<1>10. CountersMatchRecords'
    BY <1>4, <1>9 DEF IInv, CountersMatchRecords
<1>11. \A u \in DOMAIN tasks : tasks'[u].lease = tasks[u].lease
    BY <1>3, <1>5
<1>12. \A w : LeasesOf(LeasedTasks, w)' = LeasesOf(LeasedTasks, w)
    BY <1>9, <1>11 DEF LeasesOf, LeasedTasks
<1>13. \A u \in LeasedTasks : u \in DOMAIN tasks
    BY DEF LeasedTasks
<1>14. WorkerCountersMatchLeases'
    BY <1>4, <1>9, <1>11, <1>12, <1>13 DEF IInv, WorkerCountersMatchLeases
<1> QED
    BY <1>7, <1>8, <1>10, <1>14 DEF IInv

\* An answer that commits nothing.
LEMMA ReplayStep ==
    ASSUME IInv, NEW t \in DOMAIN tasks, tasks[t].status \in TerminalStatus,
           NEW token \in QueuedTaskFence \cup TaskLease,
           acks' = acks \cup {NewAck(token, tasks[t])},
           UNCHANGED <<current, logical_time, taskVars, workers, leaseVars>>
    PROVE  IInv'
<1>1. tasks[t] \in TaskEntry
    BY DEF IInv, TypeOK
<1>2. NewAck(token, tasks[t]) \in Ack
    BY <1>1, AckType
<1> QED
    BY <1>2 DEF IInv, TypeOK, OwnershipMatchesStatus, CountersMatchRecords,
        WorkerCountersMatchLeases, ActiveTasks, LeasedTasks, LeasesOf, taskVars, leaseVars

LEMMA LeaseSteps ==
    ASSUME IInv, NEW c \in Callers, NEW now \in Times, LeaseStep(c, now)
    PROVE  IInv'
<1>1. PICK lease \in issued :
          \/ StartTask(c, now, lease)
          \/ CompleteTask(c, now, lease) \/ ReplayComplete(c, now, lease)
          \/ CancelLeased(c, now, lease) \/ ReplayCancel(c, now, lease)
          \/ FailTaskRetry(c, now, lease)
          \/ FailTaskExhausted(c, now, lease) \/ ReplayFail(c, now, lease)
    BY DEF LeaseStep
<1>2. lease \in TaskLease /\ lease \in QueuedTaskFence \cup TaskLease
    BY DEF IInv, TypeOK
<1>4. CASE ReplayComplete(c, now, lease)
    BY <1>2, <1>4, ReplayStep DEF ReplayComplete, TerminalStatus
<1>5. CASE ReplayCancel(c, now, lease)
    BY <1>2, <1>5, ReplayStep DEF ReplayCancel, TerminalStatus
<1>6. CASE ReplayFail(c, now, lease)
    BY <1>2, <1>6, ReplayStep DEF ReplayFail, TerminalStatus
<1> QED
    BY <1>1, <1>4, <1>5, <1>6, StartStep, CompleteStep, CancelLeasedStep, FailRetryStep,
       FailExhaustedStep

LEMMA FenceSteps ==
    ASSUME IInv, NEW c \in Callers, NEW now \in Times, FenceStep(c, now)
    PROVE  IInv'
<1>1. PICK t \in DOMAIN tasks : \E fence \in QueuedFences(t) :
          CancelQueued(c, now, fence) \/ ReplayCancel(c, now, fence)
    BY DEF FenceStep
<1>2. PICK fence \in QueuedFences(t) : CancelQueued(c, now, fence) \/ ReplayCancel(c, now, fence)
    BY <1>1
<1>3. /\ t \in Tasks /\ tasks[t] \in TaskEntry
      /\ tasks[t].task_generation \in Nat /\ tasks[t].record_version \in Nat
    BY DEF IInv, TypeOK, TaskEntry
<1>4. fence \in QueuedTaskFence /\ fence.task_id = t
    BY <1>3 DEF QueuedFences, QueuedTaskFence
<1>5. CASE ReplayCancel(c, now, fence)
    BY <1>4, <1>5, ReplayStep DEF ReplayCancel, TerminalStatus
<1> QED
    BY <1>2, <1>5, CancelQueuedStep

LEMMA InitIInv == Init => IInv
<1> SUFFICES ASSUME Init
             PROVE  IInv
    OBVIOUS
<1>1. DOMAIN tasks = {} /\ DOMAIN workers = {}
    BY DEF Init
<1>2. tasks \in [{} -> TaskEntry] /\ workers \in [{} -> WorkerNode]
    BY DEF Init
<1>3. TypeOK
    BY <1>1, <1>2 DEF Init, TypeOK
<1>4. ActiveTasks = {} /\ DOMAIN tasks \ ActiveTasks = {} /\ LeasedTasks = {}
    BY <1>1 DEF ActiveTasks, LeasedTasks
<1>5. CountersMatchRecords
    BY <1>4, FS_EmptySet DEF Init, CountersMatchRecords
<1> QED
    BY <1>1, <1>3, <1>4, <1>5 DEF IInv, OwnershipMatchesStatus, WorkerCountersMatchLeases

LEMMA NextIInv == IInv /\ [Next]_vars => IInv'
<1> SUFFICES ASSUME IInv, [Next]_vars
             PROVE  IInv'
    OBVIOUS
<1>1. CASE UNCHANGED vars
    BY <1>1 DEF vars, taskVars, leaseVars, IInv, TypeOK, OwnershipMatchesStatus,
        CountersMatchRecords, WorkerCountersMatchLeases, ActiveTasks, LeasedTasks, LeasesOf
<1>2. ASSUME NEW c \in Callers, Snapshot(c)
      PROVE  IInv'
    BY <1>2 DEF Snapshot, taskVars, leaseVars, IInv, TypeOK, OwnershipMatchesStatus,
        CountersMatchRecords, WorkerCountersMatchLeases, ActiveTasks, LeasedTasks, LeasesOf
<1>3. ASSUME NEW c \in Callers, NEW now \in Times, MaintenanceStep(c, now)
      PROVE  IInv'
    BY <1>3, RecoverySteps, ExpireStep DEF MaintenanceStep
<1>4. CASE Next
    BY <1>2, <1>3, <1>4, EnqueueStep, WorkerSteps, AssignSteps, LeaseSteps, FenceSteps DEF Next
<1> QED
    BY <1>1, <1>4

\* Whatever the callers do, the records, the queue, the leases and the workers agree.
THEOREM Invariance == Spec => []IInv
<1>1. Init => IInv
    BY InitIInv
<1>2. IInv /\ [Next]_vars => IInv'
    BY NextIInv
<1> QED
    BY <1>1, <1>2, PTL DEF Spec

\* Every field of the shared state keeps its type; no unsigned counter (active_tasks,
\* current_tasks) is ever decremented below zero.
THEOREM TypeCorrect == Spec => []TypeOK
<1>1. IInv => TypeOK
    BY DEF IInv
<1> QED
    BY <1>1, Invariance, PTL

\* A record's status, queue key, assignee and lease always tell the same story.
THEOREM OwnershipCorrect == Spec => []OwnershipMatchesStatus
<1>1. IInv => OwnershipMatchesStatus
    BY DEF IInv
<1> QED
    BY <1>1, Invariance, PTL

\* The counters kept beside the records always count the records.
THEOREM CountersCorrect == Spec => []CountersMatchRecords
<1>1. IInv => CountersMatchRecords
    BY DEF IInv
<1> QED
    BY <1>1, Invariance, PTL

\* A worker never holds more leases than its capacity, its counter counts exactly the
\* leases it holds, and no lease outlives its worker's generation.
THEOREM WorkerSlotsCorrect == Spec => []WorkerCountersMatchLeases
<1>1. IInv => WorkerCountersMatchLeases
    BY DEF IInv
<1> QED
    BY <1>1, Invariance, PTL

-----------------------------------------------------------------------------
(***************************************************************************)
(* What one command of the coordinator may do to the records, the queue,   *)
(* the leases and the answers already given                                *)
(***************************************************************************)

\* How often a task was granted, seen from its status: a queued task has spent one attempt
\* per retry, a leased one is spending one more.  AttemptsAreFenced alone is not inductive,
\* because a grant needs the first part and a requeue the second.
AttemptsMatchStatus ==
    \A t \in DOMAIN tasks : LET e == tasks[t] IN
        /\ e.task_generation = e.retry_count /\ e.retry_count <= max_retries
        /\ e.attempt <= e.retry_count + 1
        /\ e.status = "Queued" => e.attempt = e.retry_count
        /\ e.lease # None => e.attempt = e.retry_count + 1

LeasesFor(t) == {l \in issued : l.task_id = t}

LeasesAreCounted ==
    /\ IsFiniteSet(issued)
    /\ \A l \in issued : l.lease_id < next_lease_id /\ l.task_id \in DOMAIN tasks
    /\ \A l, m \in issued : l.lease_id = m.lease_id => l = m
    /\ \A t \in DOMAIN tasks : tasks[t].attempt = Cardinality(LeasesFor(t))

\* What an acknowledgement claims of the record e of its task.
AckHolds(a, e) ==
    /\ e.status = a.status /\ e.record_version = a.record_version
    /\ a.status = "Completed" => e.completion.lease_id = a.token.lease_id
    /\ a.status = "Cancelled" => e.cancellation = a.token
    /\ a.status = "Failed"    => e.failure = a.token

AcksAreRecorded ==
    \A a \in acks : a.token.task_id \in DOMAIN tasks /\ AckHolds(a, tasks[a.token.task_id])

\* A completed task keeps its receipt, and the receipt names the task.
HasReceipt(t, e) == e.completion \in CompletionReceipt /\ e.completion.task_id = t

CompletionsHaveReceipts ==
    \A t \in DOMAIN tasks : tasks[t].status = "Completed" => HasReceipt(t, tasks[t])

\* The inductive invariant.
FInv ==
    /\ IInv
    /\ QueueMatchesRecords
    /\ AttemptsMatchStatus
    /\ LeasesAreCounted
    /\ AcksAreRecorded
    /\ CompletionsHaveReceipts

(***************************************************************************)
(* What a command may do to one record                                     *)
(***************************************************************************)
SameFences(e, f) ==
    /\ f.attempt = e.attempt /\ f.retry_count = e.retry_count
    /\ f.task_generation = e.task_generation

RecordGranted(e, f) ==
    /\ e.status = "Queued" /\ f.status = "Leased"
    /\ f.attempt = e.attempt + 1 /\ f.retry_count = e.retry_count
    /\ f.task_generation = e.task_generation

RecordStarted(e, f) ==
    /\ e.status = "Leased" /\ f.status = "Running"
    /\ SameFences(e, f) /\ f.assigned_to = e.assigned_to

RecordRequeued(e, f) ==
    /\ e.lease # None /\ f.status = "Queued"
    /\ e.retry_count < max_retries
    /\ f.attempt = e.attempt /\ f.retry_count = e.retry_count + 1
    /\ f.task_generation = e.task_generation + 1

RecordEnded(e, f) ==
    /\ e.status \in ActiveStatus /\ f.status \in TerminalStatus
    /\ SameFences(e, f)
    /\ f.status = "Completed" => e.status = "Running"
    /\ f.status = "Failed" => e.lease # None /\ e.retry_count >= max_retries

RecordMoves(e, f) ==
    /\ f.record_version = e.record_version + 1 /\ f.priority = e.priority
    /\ RecordGranted(e, f) \/ RecordStarted(e, f) \/ RecordRequeued(e, f) \/ RecordEnded(e, f)

RecordCreated(f) ==
    /\ f.status = "Queued" /\ f.attempt = 0 /\ f.retry_count = 0 /\ f.task_generation = 0

(***************************************************************************)
(* What a command may do to the state                                      *)
(***************************************************************************)
RecordsMove ==
    /\ DOMAIN tasks \subseteq DOMAIN tasks'
    /\ \A t \in DOMAIN tasks : tasks'[t] = tasks[t] \/ RecordMoves(tasks[t], tasks'[t])
    /\ \A t \in DOMAIN tasks' \ DOMAIN tasks : RecordCreated(tasks'[t])

NoGrant ==
    /\ issued' = issued /\ next_lease_id' = next_lease_id
    /\ \A t \in DOMAIN tasks : tasks'[t].attempt = tasks[t].attempt

OneGrant ==
    \E l \in issued' :
        /\ l.task_id \in DOMAIN tasks /\ l.lease_id = next_lease_id
        /\ issued' = issued \cup {l} /\ next_lease_id' = next_lease_id + 1
        /\ tasks'[l.task_id].attempt = tasks[l.task_id].attempt + 1
        /\ \A t \in DOMAIN tasks \ {l.task_id} : tasks'[t].attempt = tasks[t].attempt

Leaving == QueuedTasks \ QueuedTasks'
Entering == QueuedTasks' \ QueuedTasks

\* Tasks enter the queue behind every task that waits there, in the order of the leases
\* they lost.
QueueMoves ==
    /\ queue' = (queue \ {tasks[t].queue_key : t \in Leaving})
                    \cup {tasks'[t].queue_key : t \in Entering}
    /\ next_enqueue_ordinal' >= next_enqueue_ordinal
    /\ \A t \in Entering : LET k == tasks'[t].queue_key IN
           /\ k.task_id = t /\ k.inverted_priority = 255 - tasks'[t].priority
           /\ k.enqueue_ordinal \in Nat /\ k.enqueue_ordinal >= next_enqueue_ordinal
           /\ k.enqueue_ordinal < next_enqueue_ordinal'
    /\ \A t, u \in Entering :
           t # u => tasks'[t].queue_key.enqueue_ordinal # tasks'[u].queue_key.enqueue_ordinal
    /\ \A t, u \in Entering \cap LeasedTasks :
           tasks[u].lease.lease_id < tasks[t].lease.lease_id =>
               tasks'[u].queue_key.enqueue_ordinal < tasks'[t].queue_key.enqueue_ordinal

AnswersAreTrue ==
    \A a \in acks' \ acks : a.token.task_id \in DOMAIN tasks /\ AckHolds(a, tasks'[a.token.task_id])

WorkersMove ==
    \A w \in DOMAIN workers :
        /\ workers'[w].generation >= workers[w].generation
        /\ (workers'[w].status = "Offline") # (workers[w].status = "Offline")
               => workers'[w].generation > workers[w].generation

CompletedInTime ==
    \A t \in DOMAIN tasks :
        tasks[t].status # "Completed" /\ tasks'[t].status = "Completed" =>
            /\ tasks[t].lease # None /\ logical_time' < tasks[t].lease.expires_at
            /\ HasReceipt(t, tasks'[t])

CommandShape ==
    /\ RecordsMove
    /\ NoGrant \/ OneGrant
    /\ QueueMoves
    /\ AnswersAreTrue
    /\ WorkersMove
    /\ CompletedInTime

(***************************************************************************)
(* The shape preserves the invariant                                       *)
(***************************************************************************)
\* Only active records move, and no record moves within the queue.
LEMMA MovingRecords ==
    ASSUME FInv, RecordsMove
    PROVE  /\ \A t \in DOMAIN tasks : tasks[t].status \in TerminalStatus => tasks'[t] = tasks[t]
           /\ \A t \in QueuedTasks \cap QueuedTasks' : tasks'[t] = tasks[t]
           /\ \A t \in Entering \cap DOMAIN tasks : t \in LeasedTasks /\ RecordMoves(tasks[t], tasks'[t])
<1>1. \A t \in DOMAIN tasks : tasks[t].lease # None => tasks[t].status \in {"Leased", "Running"}
    BY DEF FInv, IInv, OwnershipMatchesStatus
<1>2. ASSUME NEW t \in DOMAIN tasks, RecordMoves(tasks[t], tasks'[t])
      PROVE  /\ tasks[t].status \in ActiveStatus
             /\ tasks'[t].status = "Queued" => tasks[t].lease # None
    BY <1>1, <1>2 DEF RecordMoves, RecordGranted, RecordStarted, RecordRequeued, RecordEnded,
        ActiveStatus, TerminalStatus
<1>3. ActiveStatus \cap TerminalStatus = {}
    BY DEF ActiveStatus, TerminalStatus
<1>4. \A t \in DOMAIN tasks : tasks[t].status \in TerminalStatus => tasks'[t] = tasks[t]
    BY <1>2, <1>3 DEF RecordsMove
<1>5. \A t \in QueuedTasks \cap QueuedTasks' : tasks'[t] = tasks[t]
    BY <1>1, <1>2 DEF RecordsMove, QueuedTasks
<1>6. \A t \in Entering \cap DOMAIN tasks : t \in LeasedTasks /\ RecordMoves(tasks[t], tasks'[t])
    BY <1>2 DEF RecordsMove, Entering, QueuedTasks, LeasedTasks
<1> QED
    BY <1>4, <1>5, <1>6

LEMMA ShapeQueue ==
    ASSUME FInv, IInv', RecordsMove, QueueMoves
    PROVE  QueueMatchesRecords'
<1>1. \A t \in QueuedTasks \cap QueuedTasks' : tasks'[t] = tasks[t]
    BY MovingRecords
<1>2. /\ queue = {tasks[t].queue_key : t \in QueuedTasks}
      /\ \A t \in QueuedTasks :
             /\ tasks[t].queue_key.task_id = t
             /\ tasks[t].queue_key.inverted_priority = 255 - tasks[t].priority
             /\ tasks[t].queue_key.enqueue_ordinal < next_enqueue_ordinal
      /\ \A k, o \in queue : k.enqueue_ordinal = o.enqueue_ordinal => k = o
    BY DEF FInv, QueueMatchesRecords
<1>3. queue' = {tasks'[t].queue_key : t \in QueuedTasks'}
  <2>1. queue' = (queue \ {tasks[t].queue_key : t \in Leaving})
                     \cup {tasks'[t].queue_key : t \in Entering}
      BY DEF QueueMoves
  <2>2. ASSUME NEW k \in queue'
        PROVE  \E t \in QueuedTasks' : k = tasks'[t].queue_key
      BY <1>1, <1>2, <2>1 DEF Entering, Leaving
  <2>3. ASSUME NEW t \in QueuedTasks'
        PROVE  tasks'[t].queue_key \in queue'
      BY <1>1, <1>2, <2>1 DEF Entering, Leaving
  <2> QED
      BY <2>2, <2>3
<1>4. /\ next_enqueue_ordinal \in Nat /\ next_enqueue_ordinal' \in Nat
      /\ next_enqueue_ordinal' >= next_enqueue_ordinal
    BY DEF FInv, IInv, TypeOK, QueueMoves
<1>5. \A t \in QueuedTasks : tasks[t].queue_key.enqueue_ordinal \in Nat
  <2>1. \A t \in QueuedTasks : tasks[t].queue_key \in queue /\ queue \subseteq QueueKey
      BY <1>2 DEF FInv, IInv, TypeOK
  <2> QED
      BY <2>1 DEF QueueKey
<1>6. ASSUME NEW t \in QueuedTasks'
      PROVE  /\ tasks'[t].queue_key.task_id = t
             /\ tasks'[t].queue_key.inverted_priority = 255 - tasks'[t].priority
             /\ tasks'[t].queue_key.enqueue_ordinal < next_enqueue_ordinal'
             /\ tasks'[t].queue_key.enqueue_ordinal \in Int
             /\ t \in Entering <=> tasks'[t].queue_key.enqueue_ordinal >= next_enqueue_ordinal
  <2>1. CASE t \in QueuedTasks
      BY <1>1, <1>2, <1>4, <1>5, <2>1 DEF Entering
  <2>2. CASE t \notin QueuedTasks
      BY <2>2 DEF Entering, QueueMoves
  <2> QED
      BY <2>1, <2>2
<1>7. ASSUME NEW t \in QueuedTasks', NEW u \in QueuedTasks',
             tasks'[t].queue_key.enqueue_ordinal = tasks'[u].queue_key.enqueue_ordinal
      PROVE  tasks'[t].queue_key = tasks'[u].queue_key
  <2>1. CASE t \in Entering
    <3>1. u \in Entering
        BY <1>6, <1>7, <2>1
    <3> QED
        BY <1>7, <2>1, <3>1 DEF QueueMoves
  <2>2. CASE t \notin Entering
    <3>1. u \notin Entering
        BY <1>6, <1>7, <2>2
    <3>2. t \in QueuedTasks /\ u \in QueuedTasks
        BY <2>2, <3>1 DEF Entering
    <3>3. tasks'[t] = tasks[t] /\ tasks'[u] = tasks[u]
        BY <1>1, <3>2
    <3>4. tasks[t].queue_key \in queue /\ tasks[u].queue_key \in queue
        BY <1>2, <3>2
    <3> QED
        BY <1>2, <1>7, <3>3, <3>4
  <2> QED
      BY <2>1, <2>2
<1> QED
    BY <1>3, <1>6, <1>7 DEF QueueMatchesRecords

LEMMA ShapeAttempts ==
    ASSUME FInv, IInv', RecordsMove
    PROVE  AttemptsMatchStatus'
<1> SUFFICES ASSUME NEW t \in DOMAIN tasks'
             PROVE  LET f == tasks'[t] IN
                    /\ f.task_generation = f.retry_count /\ f.retry_count <= max_retries
                    /\ f.attempt <= f.retry_count + 1
                    /\ f.status = "Queued" => f.attempt = f.retry_count
                    /\ f.lease # None => f.attempt = f.retry_count + 1
    BY DEF AttemptsMatchStatus
<1> DEFINE e == tasks[t]  f == tasks'[t]
<1>1. max_retries \in Nat
    BY LimitsAssumption DEF LimitsValid
<1>2. f.status \in {"Leased", "Running"} <=> f.lease # None
    BY DEF IInv, OwnershipMatchesStatus
<1>3. CASE t \notin DOMAIN tasks
  <2>1. RecordCreated(f)
      BY <1>3 DEF RecordsMove
  <2> QED
      BY <1>1, <1>2, <2>1 DEF RecordCreated
<1>4. CASE t \in DOMAIN tasks
  <2>1. /\ e.task_generation = e.retry_count /\ e.retry_count <= max_retries
        /\ e.attempt <= e.retry_count + 1
        /\ e.status = "Queued" => e.attempt = e.retry_count
        /\ e.lease # None => e.attempt = e.retry_count + 1
        /\ e.status \in {"Leased", "Running"} <=> e.lease # None
      BY <1>4 DEF FInv, IInv, AttemptsMatchStatus, OwnershipMatchesStatus
  <2>2. e.attempt \in Nat /\ e.retry_count \in Nat /\ e.task_generation \in Nat
      BY <1>4 DEF FInv, IInv, TypeOK, TaskEntry
  <2>3. f = e \/ RecordMoves(e, f)
      BY <1>4 DEF RecordsMove
  <2> HIDE DEF e, f
  <2>4. /\ f.task_generation = f.retry_count /\ f.retry_count <= max_retries
        /\ f.attempt <= f.retry_count + 1
        /\ f.status = "Queued" => f.attempt = f.retry_count
        /\ f.lease # None => f.attempt = f.retry_count + 1
    <3>1. CASE f = e
        BY <2>1, <3>1
    <3>2. CASE RecordGranted(e, f)
        BY <1>2, <2>1, <2>2, <3>2 DEF RecordGranted
    <3>3. CASE RecordStarted(e, f)
        BY <1>2, <2>1, <2>2, <3>3 DEF RecordStarted, SameFences
    <3>4. CASE RecordRequeued(e, f)
        BY <1>1, <1>2, <2>1, <2>2, <3>4 DEF RecordRequeued
    <3>5. CASE RecordEnded(e, f)
        BY <1>2, <2>1, <2>2, <3>5 DEF RecordEnded, SameFences, TerminalStatus
    <3> QED
        BY <2>3, <3>1, <3>2, <3>3, <3>4, <3>5 DEF RecordMoves
  <2> QED
      BY <2>4 DEF f
<1> QED
    BY <1>3, <1>4

LEMMA ShapeLeases ==
    ASSUME FInv, IInv', RecordsMove, NoGrant \/ OneGrant
    PROVE  LeasesAreCounted'
<1>1. /\ IsFiniteSet(issued)
      /\ \A l \in issued : l.lease_id < next_lease_id /\ l.task_id \in DOMAIN tasks
      /\ \A l, m \in issued : l.lease_id = m.lease_id => l = m
      /\ \A t \in DOMAIN tasks : tasks[t].attempt = Cardinality(LeasesFor(t))
    BY DEF FInv, LeasesAreCounted
<1>2. DOMAIN tasks \subseteq DOMAIN tasks'
    BY DEF RecordsMove
<1>3. next_lease_id \in Nat /\ \A l \in issued : l.lease_id \in Nat
    BY DEF FInv, IInv, TypeOK, TaskLease
<1>4. ASSUME NEW t \in DOMAIN tasks' \ DOMAIN tasks
      PROVE  LeasesFor(t) = {} /\ tasks'[t].attempt = 0 /\ Cardinality({}) = 0
    BY <1>1, FS_EmptySet DEF LeasesFor, RecordsMove, RecordCreated
<1>5. \A t : IsFiniteSet(LeasesFor(t)) /\ Cardinality(LeasesFor(t)) \in Nat
  <2> TAKE t
  <2>1. IsFiniteSet(LeasesFor(t))
      BY <1>1, FS_Subset DEF LeasesFor
  <2> QED
      BY <2>1, FS_CardinalityType
<1>6. CASE NoGrant
  <2>1. \A t : LeasesFor(t)' = LeasesFor(t)
      BY <1>6 DEF NoGrant, LeasesFor
  <2>2. \A t \in DOMAIN tasks' : tasks'[t].attempt = Cardinality(LeasesFor(t)')
      BY <1>1, <1>4, <1>6, <2>1 DEF NoGrant
  <2> QED
      BY <1>1, <1>2, <1>6, <2>2 DEF NoGrant, LeasesAreCounted
<1>7. CASE OneGrant
  <2>1. PICK l \in issued' :
            /\ l.task_id \in DOMAIN tasks /\ l.lease_id = next_lease_id
            /\ issued' = issued \cup {l} /\ next_lease_id' = next_lease_id + 1
            /\ tasks'[l.task_id].attempt = tasks[l.task_id].attempt + 1
            /\ \A t \in DOMAIN tasks \ {l.task_id} : tasks'[t].attempt = tasks[t].attempt
      BY <1>7 DEF OneGrant
  <2>2. l \notin issued
      BY <1>1, <1>3, <2>1
  <2>3. IsFiniteSet(issued')
      BY <1>1, <2>1, FS_AddElement
  <2>4. \A m \in issued' : m.lease_id < next_lease_id' /\ m.task_id \in DOMAIN tasks'
      BY <1>1, <1>2, <1>3, <2>1
  <2>5. \A m, n \in issued' : m.lease_id = n.lease_id => m = n
      BY <1>1, <1>3, <2>1
  <2>6. ASSUME NEW t \in DOMAIN tasks'
        PROVE  tasks'[t].attempt = Cardinality(LeasesFor(t)')
    <3>1. CASE t = l.task_id
      <4>1. LeasesFor(t)' = LeasesFor(t) \cup {l} /\ l \notin LeasesFor(t)
          BY <2>1, <2>2, <3>1 DEF LeasesFor
      <4>2. Cardinality(LeasesFor(t) \cup {l}) = Cardinality(LeasesFor(t)) + 1
          BY <1>5, <4>1, FS_AddElement
      <4> QED
          BY <1>1, <2>1, <3>1, <4>1, <4>2
    <3>2. CASE t # l.task_id
      <4>1. LeasesFor(t)' = LeasesFor(t)
          BY <2>1, <3>2 DEF LeasesFor
      <4> QED
          BY <1>1, <1>4, <2>1, <3>2, <4>1
    <3> QED
        BY <3>1, <3>2
  <2> QED
      BY <2>3, <2>4, <2>5, <2>6 DEF LeasesAreCounted
<1> QED
    BY <1>6, <1>7

LEMMA ShapeAcks ==
    ASSUME FInv, RecordsMove, AnswersAreTrue
    PROVE  AcksAreRecorded'
<1> SUFFICES ASSUME NEW a \in acks'
             PROVE  /\ a.token.task_id \in DOMAIN tasks'
                    /\ AckHolds(a, tasks'[a.token.task_id])
    BY DEF AcksAreRecorded, AckHolds
<1>1. DOMAIN tasks \subseteq DOMAIN tasks'
    BY DEF RecordsMove
<1>2. CASE a \notin acks
    BY <1>1, <1>2 DEF AnswersAreTrue
<1>3. CASE a \in acks
  <2>1. a.token.task_id \in DOMAIN tasks /\ AckHolds(a, tasks[a.token.task_id])
      BY <1>3 DEF FInv, AcksAreRecorded
  <2>2. a.status \in TerminalStatus
      BY <1>3 DEF FInv, IInv, TypeOK, Ack
  <2>3. tasks'[a.token.task_id] = tasks[a.token.task_id]
      BY <2>1, <2>2, MovingRecords DEF AckHolds
  <2> QED
      BY <1>1, <2>1, <2>3
<1> QED
    BY <1>2, <1>3

\* A record that ends as completed has its receipt, and does not move any more.
LEMMA ShapeCompletions ==
    ASSUME FInv, RecordsMove, CompletedInTime
    PROVE  CompletionsHaveReceipts'
<1> SUFFICES ASSUME NEW t \in DOMAIN tasks', tasks'[t].status = "Completed"
             PROVE  HasReceipt(t, tasks'[t])
    BY DEF CompletionsHaveReceipts, HasReceipt
<1>1. t \in DOMAIN tasks
    BY DEF RecordsMove, RecordCreated
<1>2. CASE tasks[t].status = "Completed"
  <2>1. tasks'[t] = tasks[t]
      BY <1>1, <1>2, MovingRecords DEF TerminalStatus
  <2> QED
      BY <1>1, <1>2, <2>1 DEF FInv, CompletionsHaveReceipts
<1>3. CASE tasks[t].status # "Completed"
    BY <1>1, <1>3 DEF CompletedInTime
<1> QED
    BY <1>2, <1>3

LEMMA ShapeFInv ==
    ASSUME FInv, IInv', CommandShape
    PROVE  FInv'
<1>1. QueueMatchesRecords'
    BY ShapeQueue DEF CommandShape
<1>2. AttemptsMatchStatus'
    BY ShapeAttempts DEF CommandShape
<1>3. LeasesAreCounted'
    BY ShapeLeases DEF CommandShape
<1>4. AcksAreRecorded'
    BY ShapeAcks DEF CommandShape
<1>5. CompletionsHaveReceipts'
    BY ShapeCompletions DEF CommandShape
<1> QED
    BY <1>1, <1>2, <1>3, <1>4, <1>5 DEF FInv

(***************************************************************************)
(* The records the commands write                                          *)
(***************************************************************************)
LEMMA EndedRecord ==
    ASSUME NEW e \in TaskEntry, NEW s \in TerminalStatus, e.status \in ActiveStatus,
           s = "Completed" => e.status = "Running",
           s = "Failed" => e.lease # None /\ e.retry_count >= max_retries
    PROVE  /\ TerminalizeLeased(e, s) \in TaskEntry
           /\ RecordMoves(e, TerminalizeLeased(e, s)) /\ TerminalizeLeased(e, s).status = s
           /\ RecordMoves(e, TerminalizeQueued(e, s)) /\ TerminalizeQueued(e, s).status = s
           /\ TerminalizeQueued(e, s) \in TaskEntry
<1> DEFINE v == e.record_version + 1
           f == [e EXCEPT !.status = s, !.assigned_to = None, !.lease = None,
                          !.record_version = v]
           g == [e EXCEPT !.queue_key = None, !.status = s, !.record_version = v]
<1>1. v \in Nat
    BY DEF TaskEntry
<1>2. TerminalizeLeased(e, s) = f /\ TerminalizeQueued(e, s) = g
    BY DEF TerminalizeLeased, TerminalizeQueued
<1>3. s \in TaskStatus
    BY DEF TaskStatus
<1> HIDE DEF v
<1>4. f \in TaskEntry
    BY <1>1, <1>3, ZenonT(60) DEF TaskEntry
<1>5. g \in TaskEntry
    BY <1>1, <1>3, ZenonT(60) DEF TaskEntry
<1>6. /\ f.status = s /\ f.record_version = v /\ f.priority = e.priority
      /\ f.attempt = e.attempt /\ f.retry_count = e.retry_count
      /\ f.task_generation = e.task_generation
    BY DEF TaskEntry
<1>7. /\ g.status = s /\ g.record_version = v /\ g.priority = e.priority
      /\ g.attempt = e.attempt /\ g.retry_count = e.retry_count
      /\ g.task_generation = e.task_generation
    BY DEF TaskEntry
<1> HIDE DEF f, g
<1>8. RecordMoves(e, f)
    BY <1>6 DEF RecordMoves, RecordEnded, SameFences, v
<1>9. RecordMoves(e, g)
    BY <1>7 DEF RecordMoves, RecordEnded, SameFences, v
<1> QED
    BY <1>2, <1>4, <1>5, <1>6, <1>7, <1>8, <1>9

\* Retaining the proof of an outcome beside it changes nothing else.
LEMMA ProofRetained ==
    ASSUME NEW e, NEW g \in TaskEntry, RecordMoves(e, g), NEW x, NEW h,
           \/ h = [g EXCEPT !.completion = x]
           \/ h = [g EXCEPT !.cancellation = x]
           \/ h = [g EXCEPT !.failure = x]
    PROVE  /\ RecordMoves(e, h) /\ h.status = g.status /\ h.record_version = g.record_version
           /\ h = [g EXCEPT !.completion = x] => h.completion = x
           /\ h = [g EXCEPT !.cancellation = x] => h.cancellation = x
           /\ h = [g EXCEPT !.failure = x] => h.failure = x
<1>1. ASSUME NEW f, f.status = g.status, f.record_version = g.record_version,
             f.priority = g.priority, f.attempt = g.attempt, f.retry_count = g.retry_count,
             f.task_generation = g.task_generation, f.assigned_to = g.assigned_to
      PROVE  RecordMoves(e, f)
    BY <1>1 DEF RecordMoves, RecordGranted, RecordStarted, RecordRequeued, RecordEnded, SameFences
<1> DEFINE a == [g EXCEPT !.completion = x]
           b == [g EXCEPT !.cancellation = x]
           d == [g EXCEPT !.failure = x]
<1>2. /\ a.status = g.status /\ a.record_version = g.record_version
      /\ a.priority = g.priority /\ a.attempt = g.attempt /\ a.retry_count = g.retry_count
      /\ a.task_generation = g.task_generation /\ a.assigned_to = g.assigned_to
      /\ a.completion = x
    BY DEF TaskEntry
<1>3. /\ b.status = g.status /\ b.record_version = g.record_version
      /\ b.priority = g.priority /\ b.attempt = g.attempt /\ b.retry_count = g.retry_count
      /\ b.task_generation = g.task_generation /\ b.assigned_to = g.assigned_to
      /\ b.cancellation = x
    BY DEF TaskEntry
<1>4. /\ d.status = g.status /\ d.record_version = g.record_version
      /\ d.priority = g.priority /\ d.attempt = g.attempt /\ d.retry_count = g.retry_count
      /\ d.task_generation = g.task_generation /\ d.assigned_to = g.assigned_to
      /\ d.failure = x
    BY DEF TaskEntry
<1> HIDE DEF a, b, d
<1>5. RecordMoves(e, a) /\ RecordMoves(e, b) /\ RecordMoves(e, d)
    BY <1>1, <1>2, <1>3, <1>4
<1> QED
    BY <1>2, <1>3, <1>4, <1>5 DEF a, b, d

LEMMA RequeuedRecord ==
    ASSUME TypeOK, NEW t \in DOMAIN tasks, NEW o \in Nat, tasks[t].lease # None,
           tasks[t].retry_count < max_retries
    PROVE  LET f == Requeued(t, o) IN
           /\ RecordMoves(tasks[t], f) /\ f.status = "Queued"
           /\ f.queue_key = NewKey(f.priority, o, t)
<1> DEFINE e == tasks[t]
           k == NewKey(e.priority, o, t)
           r == e.retry_count + 1
           g == e.task_generation + 1
           v == e.record_version + 1
           f == [e EXCEPT !.status = "Queued", !.assigned_to = None, !.lease = None,
                          !.retry_count = r, !.task_generation = g,
                          !.record_version = v, !.queue_key = k]
<1>1. e \in TaskEntry
    BY DEF TypeOK
<1>2. Requeued(t, o) = f
    BY DEF Requeued
<1> HIDE DEF e, k, r, g, v
<1>3. /\ f.status = "Queued" /\ f.retry_count = r /\ f.task_generation = g
      /\ f.record_version = v /\ f.queue_key = k /\ f.priority = e.priority
      /\ f.attempt = e.attempt
    BY <1>1 DEF TaskEntry
<1> HIDE DEF f
<1>4. RecordMoves(e, f)
    BY <1>3 DEF RecordMoves, RecordRequeued, r, g, v, e
<1>5. f.queue_key = NewKey(f.priority, o, t)
    BY <1>3 DEF k
<1> QED
    BY <1>2, <1>3, <1>4, <1>5 DEF e

LEMMA GrantedRecord ==
    ASSUME NEW e \in TaskEntry, NEW lease \in TaskLease, e.status = "Queued",
           lease.attempt = e.attempt + 1
    PROVE  RecordMoves(e, Granted(e, lease))
<1> DEFINE v == e.record_version + 1
           a == lease.attempt
           w == lease.worker_id
           f == [e EXCEPT !.queue_key = None, !.status = "Leased", !.assigned_to = w,
                          !.attempt = a, !.lease = lease, !.record_version = v]
<1>1. Granted(e, lease) = f
    BY DEF Granted
<1> HIDE DEF v, a, w
<1>2. /\ f.status = "Leased" /\ f.attempt = a /\ f.retry_count = e.retry_count
      /\ f.task_generation = e.task_generation /\ f.record_version = v
      /\ f.priority = e.priority
    BY DEF TaskEntry
<1> HIDE DEF f
<1>3. RecordMoves(e, f)
    BY <1>2 DEF RecordMoves, RecordGranted, v, a
<1> QED
    BY <1>1, <1>3

LEMMA StartedRecord ==
    ASSUME NEW e \in TaskEntry, e.status = "Leased"
    PROVE  RecordMoves(e, Started(e))
<1> DEFINE v == e.record_version + 1
           f == [e EXCEPT !.status = "Running", !.record_version = v]
<1>1. Started(e) = f
    BY DEF Started
<1> HIDE DEF v
<1>2. /\ f.status = "Running" /\ f.attempt = e.attempt /\ f.retry_count = e.retry_count
      /\ f.task_generation = e.task_generation /\ f.record_version = v
      /\ f.priority = e.priority /\ f.assigned_to = e.assigned_to
    BY DEF TaskEntry
<1> HIDE DEF f
<1>3. RecordMoves(e, f)
    BY <1>2 DEF RecordMoves, RecordStarted, SameFences, v
<1> QED
    BY <1>1, <1>3

(***************************************************************************)
(* The parts of a command's shape                                          *)
(***************************************************************************)
LEMMA IdleRecords ==
    ASSUME FInv, UNCHANGED <<taskVars, leaseVars>>
    PROVE  RecordsMove /\ NoGrant /\ QueueMoves /\ CompletedInTime
<1>1. /\ tasks' = tasks /\ queue' = queue /\ next_enqueue_ordinal' = next_enqueue_ordinal
      /\ issued' = issued /\ next_lease_id' = next_lease_id
    BY DEF taskVars, leaseVars
<1>2. Leaving = {} /\ Entering = {}
    BY <1>1 DEF Leaving, Entering, QueuedTasks
<1>3. next_enqueue_ordinal \in Nat
    BY DEF FInv, IInv, TypeOK
<1>4. QueueMoves
    BY <1>1, <1>2, <1>3 DEF QueueMoves
<1> QED
    BY <1>1, <1>4 DEF RecordsMove, NoGrant, CompletedInTime

LEMMA IdleWorkers ==
    ASSUME FInv, workers' = workers
    PROVE  WorkersMove
<1>1. \A w \in DOMAIN workers : workers[w].generation \in Nat
    BY DEF FInv, IInv, TypeOK, WorkerNode
<1> QED
    BY <1>1 DEF WorkersMove

LEMMA NoAnswer ==
    ASSUME acks' = acks
    PROVE  AnswersAreTrue
    BY DEF AnswersAreTrue

\* A command that moves the record of one task.
LEMMA OneRecord ==
    ASSUME FInv, NEW t \in DOMAIN tasks, NEW f, RecordMoves(tasks[t], f),
           tasks' = [tasks EXCEPT ![t] = f]
    PROVE  /\ RecordsMove
           /\ DOMAIN tasks' = DOMAIN tasks /\ tasks'[t] = f
           /\ \A u \in DOMAIN tasks \ {t} : tasks'[u] = tasks[u]
           /\ Entering = IF f.status = "Queued" THEN {t} ELSE {}
           /\ Leaving = IF tasks[t].status = "Queued" THEN {t} ELSE {}
<1>1. /\ DOMAIN tasks' = DOMAIN tasks /\ tasks'[t] = f
      /\ \A u \in DOMAIN tasks \ {t} : tasks'[u] = tasks[u]
    OBVIOUS
<1>2. ~(tasks[t].status = "Queued" /\ f.status = "Queued")
  <2>1. tasks[t].lease # None => tasks[t].status \in {"Leased", "Running"}
      BY DEF FInv, IInv, OwnershipMatchesStatus
  <2> QED
      BY <2>1 DEF RecordMoves, RecordGranted, RecordStarted, RecordRequeued, RecordEnded,
          TerminalStatus
<1>3. RecordsMove
    BY <1>1 DEF RecordsMove
<1>4. QueuedTasks' = IF f.status = "Queued" THEN QueuedTasks \cup {t} ELSE QueuedTasks \ {t}
    BY <1>1 DEF QueuedTasks
<1>5. t \in QueuedTasks <=> tasks[t].status = "Queued"
    BY DEF QueuedTasks
<1>6. Entering = IF f.status = "Queued" THEN {t} ELSE {}
    BY <1>2, <1>4, <1>5 DEF Entering
<1>7. Leaving = IF tasks[t].status = "Queued" THEN {t} ELSE {}
    BY <1>2, <1>4, <1>5 DEF Leaving
<1> QED
    BY <1>1, <1>3, <1>6, <1>7

LEMMA QueueLoses ==
    ASSUME FInv, Entering = {}, queue' = queue \ {tasks[t].queue_key : t \in Leaving},
           next_enqueue_ordinal' = next_enqueue_ordinal
    PROVE  QueueMoves
<1>1. next_enqueue_ordinal \in Nat
    BY DEF FInv, IInv, TypeOK
<1> QED
    BY <1>1 DEF QueueMoves

LEMMA QueueGainsOne ==
    ASSUME FInv, NEW t, Entering = {t}, Leaving = {},
           tasks'[t].queue_key = NewKey(tasks'[t].priority, next_enqueue_ordinal, t),
           queue' = queue \cup {tasks'[t].queue_key},
           next_enqueue_ordinal' = next_enqueue_ordinal + 1,
           t \in DOMAIN tasks => tasks[t].lease.lease_id \in Nat
    PROVE  QueueMoves
<1>1. next_enqueue_ordinal \in Nat
    BY DEF FInv, IInv, TypeOK
<1> DEFINE k == tasks'[t].queue_key
<1>2. /\ k.task_id = t /\ k.inverted_priority = 255 - tasks'[t].priority
      /\ k.enqueue_ordinal = next_enqueue_ordinal
    BY DEF NewKey
<1>3. queue' = (queue \ {tasks[u].queue_key : u \in Leaving})
                    \cup {tasks'[u].queue_key : u \in Entering}
    OBVIOUS
<1>4. \A u \in Entering \cap LeasedTasks : u = t /\ tasks[u].lease.lease_id \in Nat
    BY DEF LeasedTasks
<1> HIDE DEF k
<1>5. \A u, v \in Entering \cap LeasedTasks :
          ~(tasks[u].lease.lease_id < tasks[v].lease.lease_id)
    BY <1>4
<1> QED
    BY <1>1, <1>2, <1>3, <1>5 DEF QueueMoves, k

LEMMA SlotReleased ==
    ASSUME FInv, NEW lease \in issued, NEW now, EnsureCurrentLease(lease, now),
           NEW n \in Nat, workers' = ReleaseWorker(lease, n)
    PROVE  WorkersMove
<1> DEFINE v == lease.worker_id
<1>1. v \in DOMAIN workers
    BY CurrentLease DEF FInv
<1>2. \A w \in DOMAIN workers : workers[w] \in WorkerNode
    BY DEF FInv, IInv, TypeOK
<1>3. workers' = [workers EXCEPT ![v] = SlotFreed(workers[v], n)]
    BY DEF ReleaseWorker
<1>4. \A w \in DOMAIN workers : /\ workers'[w].generation = workers[w].generation
                                /\ workers'[w].status = workers[w].status
    BY <1>1, <1>2, <1>3, SlotFreedType
<1>5. \A w \in DOMAIN workers : workers[w].generation \in Nat
    BY <1>2 DEF WorkerNode
<1> QED
    BY <1>4, <1>5 DEF WorkersMove

LEMMA NewAnswer ==
    ASSUME NEW t \in DOMAIN tasks, NEW token, token.task_id = t,
           acks' = acks \cup {NewAck(token, tasks'[t])},
           tasks'[t].status = "Completed" => tasks'[t].completion.lease_id = token.lease_id,
           tasks'[t].status = "Cancelled" => tasks'[t].cancellation = token,
           tasks'[t].status = "Failed" => tasks'[t].failure = token
    PROVE  AnswersAreTrue
<1> DEFINE a == NewAck(token, tasks'[t])
<1>1. /\ a.token = token /\ a.status = tasks'[t].status
      /\ a.record_version = tasks'[t].record_version
    BY DEF NewAck
<1>2. AckHolds(a, tasks'[t])
    BY <1>1 DEF AckHolds
<1>3. \A b \in acks' \ acks : b = a
    OBVIOUS
<1> HIDE DEF a
<1> QED
    BY <1>1, <1>2, <1>3 DEF AnswersAreTrue

(***************************************************************************)
(* Commands on one task                                                    *)
(***************************************************************************)
\* A lease ended by its holder, whatever the outcome.
LEMMA LeaseEndsShape ==
    ASSUME FInv, NEW c, NEW now, NEW lease \in issued, EnsureCurrentLease(lease, now),
           NEW f, RecordMoves(tasks[lease.task_id], f), f.status \in TerminalStatus,
           f.status = "Completed" =>
               f.completion.lease_id = lease.lease_id /\ HasReceipt(lease.task_id, f),
           f.status = "Cancelled" => f.cancellation = lease,
           f.status = "Failed" => f.failure = lease,
           NEW n \in Nat, tasks' = [tasks EXCEPT ![lease.task_id] = f],
           workers' = ReleaseWorker(lease, n), acks' = acks \cup {NewAck(lease, f)},
           Commit(c, now), UNCHANGED <<queue, next_enqueue_ordinal, leaseVars>>
    PROVE  CommandShape
<1> DEFINE t == lease.task_id
<1>1. /\ t \in DOMAIN tasks /\ tasks[t].lease = lease /\ lease # None
      /\ tasks[t].status \in {"Leased", "Running"}
    BY CurrentLease DEF FInv
<1>2. /\ RecordsMove /\ tasks'[t] = f
      /\ \A u \in DOMAIN tasks \ {t} : tasks'[u] = tasks[u]
      /\ Entering = {} /\ Leaving = {}
    BY <1>1, OneRecord DEF TerminalStatus
<1>3. f.attempt = tasks[t].attempt
    BY <1>1 DEF RecordMoves, RecordGranted, RecordStarted, RecordRequeued, RecordEnded,
        SameFences, TerminalStatus
<1>4. NoGrant
    BY <1>2, <1>3 DEF NoGrant, leaseVars
<1>5. QueueMoves
    BY <1>2, QueueLoses
<1>6. AnswersAreTrue
    BY <1>1, <1>2, NewAnswer
<1>7. WorkersMove
    BY SlotReleased
<1>8. CompletedInTime
    BY <1>1, <1>2 DEF CompletedInTime, Commit, EnsureCurrentLease
<1> QED
    BY <1>2, <1>4, <1>5, <1>6, <1>7, <1>8 DEF CommandShape

LEMMA CompleteShape ==
    ASSUME FInv, NEW c, NEW now, NEW lease \in issued, CompleteTask(c, now, lease)
    PROVE  CommandShape
<1> DEFINE t == lease.task_id
           r == NewReceipt(lease, tasks[t])
           g == TerminalizeLeased(tasks[t], "Completed")
           f == [g EXCEPT !.completion = r]
<1>1. /\ EnsureCurrentLease(lease, now) /\ tasks[t].status = "Running"
      /\ tasks' = [tasks EXCEPT ![t] = f]
      /\ workers' = ReleaseWorker(lease, 1)
      /\ acks' = acks \cup {NewAck(lease, f)} /\ Commit(c, now)
      /\ UNCHANGED <<queue, next_enqueue_ordinal, leaseVars>>
    BY DEF CompleteTask
<1>2. tasks[t] \in TaskEntry
    BY <1>1, CurrentLease DEF FInv
<1>3. g \in TaskEntry /\ RecordMoves(tasks[t], g) /\ g.status = "Completed"
    BY <1>1, <1>2, EndedRecord DEF ActiveStatus, TerminalStatus
<1>4. r.lease_id = lease.lease_id /\ r.task_id = t /\ r \in CompletionReceipt
  <2>1. lease \in TaskLease /\ tasks[t].record_version + 1 \in Nat
      BY <1>2 DEF FInv, IInv, TypeOK, TaskEntry
  <2> QED
      BY <2>1 DEF NewReceipt, TaskLease, CompletionReceipt
<1> HIDE DEF r, g
<1>5. RecordMoves(tasks[t], f) /\ f.status = "Completed" /\ f.completion = r
  <2>1. f = [g EXCEPT !.completion = r]
      OBVIOUS
  <2> HIDE DEF f
  <2> QED
      BY <1>3, <2>1, ProofRetained
<1> HIDE DEF f
<1> QED
    BY <1>1, <1>4, <1>5, LeaseEndsShape DEF TerminalStatus, HasReceipt

LEMMA CancelLeasedShape ==
    ASSUME FInv, NEW c, NEW now, NEW lease \in issued, CancelLeased(c, now, lease)
    PROVE  CommandShape
<1> DEFINE t == lease.task_id
           g == TerminalizeLeased(tasks[t], "Cancelled")
           f == [g EXCEPT !.cancellation = lease]
<1>1. /\ EnsureCurrentLease(lease, now)
      /\ tasks' = [tasks EXCEPT ![t] = f]
      /\ workers' = ReleaseWorker(lease, 0)
      /\ acks' = acks \cup {NewAck(lease, f)} /\ Commit(c, now)
      /\ UNCHANGED <<queue, next_enqueue_ordinal, leaseVars>>
    BY DEF CancelLeased
<1>2. tasks[t] \in TaskEntry /\ tasks[t].status \in {"Leased", "Running"}
    BY <1>1, CurrentLease DEF FInv
<1>3. g \in TaskEntry /\ RecordMoves(tasks[t], g) /\ g.status = "Cancelled"
    BY <1>1, <1>2, EndedRecord DEF ActiveStatus, TerminalStatus
<1> HIDE DEF g
<1>4. RecordMoves(tasks[t], f) /\ f.status = "Cancelled" /\ f.cancellation = lease
  <2>1. f = [g EXCEPT !.cancellation = lease]
      OBVIOUS
  <2> HIDE DEF f
  <2> QED
      BY <1>3, <2>1, ProofRetained
<1> HIDE DEF f
<1> QED
    BY <1>1, <1>4, LeaseEndsShape DEF TerminalStatus

LEMMA FailExhaustedShape ==
    ASSUME FInv, NEW c, NEW now, NEW lease \in issued, FailTaskExhausted(c, now, lease)
    PROVE  CommandShape
<1> DEFINE t == lease.task_id
           g == TerminalizeLeased(tasks[t], "Failed")
           f == [g EXCEPT !.failure = lease]
<1>1. /\ EnsureCurrentLease(lease, now) /\ tasks[t].retry_count >= max_retries
      /\ tasks' = [tasks EXCEPT ![t] = f]
      /\ workers' = ReleaseWorker(lease, 0)
      /\ acks' = acks \cup {NewAck(lease, f)} /\ Commit(c, now)
      /\ UNCHANGED <<queue, next_enqueue_ordinal, leaseVars>>
    BY DEF FailTaskExhausted
<1>2. /\ tasks[t] \in TaskEntry /\ tasks[t].status \in {"Leased", "Running"}
      /\ tasks[t].lease # None
    BY <1>1, CurrentLease DEF FInv
<1>3. g \in TaskEntry /\ RecordMoves(tasks[t], g) /\ g.status = "Failed"
    BY <1>1, <1>2, EndedRecord DEF ActiveStatus, TerminalStatus
<1> HIDE DEF g
<1>4. RecordMoves(tasks[t], f) /\ f.status = "Failed" /\ f.failure = lease
  <2>1. f = [g EXCEPT !.failure = lease]
      OBVIOUS
  <2> HIDE DEF f
  <2> QED
      BY <1>3, <2>1, ProofRetained
<1> HIDE DEF f
<1> QED
    BY <1>1, <1>4, LeaseEndsShape DEF TerminalStatus

LEMMA FailRetryShape ==
    ASSUME FInv, NEW c, NEW now, NEW lease \in issued, FailTaskRetry(c, now, lease)
    PROVE  CommandShape
<1> DEFINE t == lease.task_id
           f == Requeued(t, next_enqueue_ordinal)
<1>1. /\ EnsureCurrentLease(lease, now) /\ tasks[t].retry_count < max_retries
      /\ tasks' = [tasks EXCEPT ![t] = f] /\ workers' = ReleaseWorker(lease, 0)
      /\ queue' = queue \cup {f.queue_key}
      /\ next_enqueue_ordinal' = next_enqueue_ordinal + 1
      /\ UNCHANGED <<leaseVars, acks>>
    BY DEF FailTaskRetry
<1>2. /\ t \in DOMAIN tasks /\ tasks[t].lease = lease /\ lease # None /\ lease \in TaskLease
      /\ tasks[t].status \in {"Leased", "Running"}
    BY <1>1, CurrentLease DEF FInv
<1>3. TypeOK /\ next_enqueue_ordinal \in Nat /\ lease.lease_id \in Nat
    BY <1>2 DEF FInv, IInv, TypeOK, TaskLease
<1>4. /\ RecordMoves(tasks[t], f) /\ f.status = "Queued"
      /\ f.queue_key = NewKey(f.priority, next_enqueue_ordinal, t)
    BY <1>1, <1>2, <1>3, RequeuedRecord
<1> HIDE DEF f
<1>5. /\ RecordsMove /\ tasks'[t] = f
      /\ \A u \in DOMAIN tasks \ {t} : tasks'[u] = tasks[u]
      /\ Entering = {t} /\ Leaving = {}
    BY <1>1, <1>2, <1>4, OneRecord
<1>6. f.attempt = tasks[t].attempt
    BY <1>2, <1>4 DEF RecordMoves, RecordGranted, RecordStarted, RecordRequeued, RecordEnded,
        SameFences, TerminalStatus
<1>7. NoGrant
    BY <1>1, <1>5, <1>6 DEF NoGrant, leaseVars
<1>8. QueueMoves
    BY <1>1, <1>2, <1>3, <1>4, <1>5, QueueGainsOne
<1>9. AnswersAreTrue /\ WorkersMove
    BY <1>1, NoAnswer, SlotReleased
<1>10. CompletedInTime
    BY <1>4, <1>5 DEF CompletedInTime
<1> QED
    BY <1>5, <1>7, <1>8, <1>9, <1>10 DEF CommandShape

LEMMA CancelQueuedShape ==
    ASSUME FInv, NEW c, NEW now, NEW u \in DOMAIN tasks, NEW fence \in QueuedFences(u),
           CancelQueued(c, now, fence)
    PROVE  CommandShape
<1> DEFINE t == fence.task_id
           g == TerminalizeQueued(tasks[t], "Cancelled")
           f == [g EXCEPT !.cancellation = fence]
<1>1. /\ tasks[t].status = "Queued"
      /\ tasks' = [tasks EXCEPT ![t] = f] /\ queue' = queue \ {tasks[t].queue_key}
      /\ acks' = acks \cup {NewAck(fence, f)}
      /\ UNCHANGED <<next_enqueue_ordinal, workers, leaseVars>>
    BY DEF CancelQueued
<1>2. t \in DOMAIN tasks /\ tasks[t] \in TaskEntry
    BY DEF FInv, IInv, TypeOK, QueuedFences
<1>3. g \in TaskEntry /\ RecordMoves(tasks[t], g) /\ g.status = "Cancelled"
    BY <1>1, <1>2, EndedRecord DEF ActiveStatus, TerminalStatus
<1> HIDE DEF g
<1>4. RecordMoves(tasks[t], f) /\ f.status = "Cancelled" /\ f.cancellation = fence
  <2>1. f = [g EXCEPT !.cancellation = fence]
      OBVIOUS
  <2> HIDE DEF f
  <2> QED
      BY <1>3, <2>1, ProofRetained
<1> HIDE DEF f
<1>5. /\ RecordsMove /\ tasks'[t] = f
      /\ \A x \in DOMAIN tasks \ {t} : tasks'[x] = tasks[x]
      /\ Entering = {} /\ Leaving = {t}
    BY <1>1, <1>2, <1>4, OneRecord
<1>6. f.attempt = tasks[t].attempt
    BY <1>1, <1>4 DEF RecordMoves, RecordGranted, RecordStarted, RecordRequeued, RecordEnded,
        SameFences
<1>7. NoGrant
    BY <1>1, <1>5, <1>6 DEF NoGrant, leaseVars
<1>8. QueueMoves
    BY <1>1, <1>5, QueueLoses
<1>9. AnswersAreTrue
    BY <1>1, <1>2, <1>4, <1>5, NewAnswer
<1>10. WorkersMove
    BY <1>1, IdleWorkers
<1>11. CompletedInTime
    BY <1>4, <1>5 DEF CompletedInTime
<1> QED
    BY <1>5, <1>7, <1>8, <1>9, <1>10, <1>11 DEF CommandShape

LEMMA StartShape ==
    ASSUME FInv, NEW c, NEW now, NEW lease \in issued, StartTask(c, now, lease)
    PROVE  CommandShape
<1> DEFINE t == lease.task_id
           f == Started(tasks[t])
<1>1. /\ EnsureCurrentLease(lease, now) /\ tasks[t].status = "Leased"
      /\ tasks' = [tasks EXCEPT ![t] = f]
      /\ UNCHANGED <<queue, next_enqueue_ordinal, workers, leaseVars, acks>>
    BY DEF StartTask
<1>2. t \in DOMAIN tasks /\ tasks[t] \in TaskEntry
    BY <1>1, CurrentLease DEF FInv
<1>3. RecordMoves(tasks[t], f) /\ f.status = "Running"
    BY <1>1, <1>2, StartedRecord, StartedType
<1> HIDE DEF f
<1>4. /\ RecordsMove /\ tasks'[t] = f
      /\ \A u \in DOMAIN tasks \ {t} : tasks'[u] = tasks[u]
      /\ Entering = {} /\ Leaving = {}
    BY <1>1, <1>2, <1>3, OneRecord
<1>5. f.attempt = tasks[t].attempt
    BY <1>1, <1>3 DEF RecordMoves, RecordGranted, RecordStarted, RecordRequeued, RecordEnded,
        SameFences
<1>6. NoGrant
    BY <1>1, <1>4, <1>5 DEF NoGrant, leaseVars
<1>7. QueueMoves
    BY <1>1, <1>4, QueueLoses
<1>8. AnswersAreTrue /\ WorkersMove
    BY <1>1, NoAnswer, IdleWorkers
<1>9. CompletedInTime
    BY <1>3, <1>4 DEF CompletedInTime
<1> QED
    BY <1>4, <1>6, <1>7, <1>8, <1>9 DEF CommandShape

LEMMA AssignShape ==
    ASSUME FInv, NEW c \in Callers, NEW now \in Times, NEW t, NEW w, NEW ttl \in LeaseTtls,
           AssignTask(c, now, t, w, ttl)
    PROVE  CommandShape
<1> DEFINE lease == NewLease(t, w, now, ttl)
           f == Granted(tasks[t], lease)
           n == SlotTaken(workers[w])
<1>1. t \in DOMAIN tasks /\ tasks[t].status = "Queued" /\ w \in DOMAIN workers
    BY DEF AssignTask, PrepareAssignment
<1>2. tasks[t] \in TaskEntry /\ t \in Tasks /\ workers[w] \in WorkerNode /\ w \in Workers
    BY <1>1 DEF FInv, IInv, TypeOK
<1>3. now \in Nat /\ ttl \in Nat /\ next_lease_id \in Nat
    BY TimesNat, InputsAssumption DEF FInv, IInv, TypeOK
<1>4. /\ lease \in TaskLease /\ lease.task_id = t /\ lease.worker_id = w
      /\ lease.attempt = tasks[t].attempt + 1 /\ lease.lease_id = next_lease_id
    BY <1>2, <1>3 DEF NewLease, TaskLease, TaskEntry, WorkerNode
<1>5. /\ queue' = queue \ {tasks[t].queue_key}
      /\ tasks' = [tasks EXCEPT ![t] = f]
      /\ workers' = [workers EXCEPT ![w] = n]
      /\ next_lease_id' = next_lease_id + 1 /\ issued' = issued \cup {lease}
      /\ UNCHANGED <<next_enqueue_ordinal, acks>>
    BY <1>4 DEF AssignTask, ApplyAssignment
<1> HIDE DEF lease
<1>6. RecordMoves(tasks[t], f) /\ f.status = "Leased" /\ f.attempt = lease.attempt
    BY <1>1, <1>2, <1>4, GrantedRecord, GrantedType
<1>7. n.generation = workers[w].generation /\ n.status = workers[w].status
    BY <1>2, SlotTakenType
<1> HIDE DEF f, n
<1>8. /\ RecordsMove /\ tasks'[t] = f
      /\ \A u \in DOMAIN tasks \ {t} : tasks'[u] = tasks[u]
      /\ Entering = {} /\ Leaving = {t}
    BY <1>1, <1>5, <1>6, OneRecord
<1>9. OneGrant
  <2>1. lease \in issued'
      BY <1>5
  <2> QED
      BY <1>1, <1>4, <1>5, <1>6, <1>8, <2>1 DEF OneGrant
<1>10. QueueMoves
    BY <1>5, <1>8, QueueLoses
<1>11. AnswersAreTrue
    BY <1>5, NoAnswer
<1>12. WorkersMove
  <2>1. \A x \in DOMAIN workers : workers[x].generation \in Nat
      BY DEF FInv, IInv, TypeOK, WorkerNode
  <2>2. \A x \in DOMAIN workers : /\ workers'[x].generation = workers[x].generation
                                  /\ workers'[x].status = workers[x].status
      BY <1>1, <1>5, <1>7
  <2> QED
      BY <2>1, <2>2 DEF WorkersMove
<1>13. CompletedInTime
    BY <1>6, <1>8 DEF CompletedInTime
<1> QED
    BY <1>8, <1>9, <1>10, <1>11, <1>12, <1>13 DEF CommandShape

LEMMA EnqueueShape ==
    ASSUME FInv, NEW c \in Callers, NEW now \in Times, NEW t \in Tasks, NEW p \in Priorities,
           Enqueue(c, now, t, p)
    PROVE  CommandShape
<1> DEFINE k == NewKey(p, next_enqueue_ordinal, t)
           f == NewEntry(t, p, now)
<1>1. /\ t \notin DOMAIN tasks /\ tasks' = Insert(tasks, t, f) /\ queue' = queue \cup {k}
      /\ next_enqueue_ordinal' = next_enqueue_ordinal + 1
      /\ UNCHANGED <<workers, leaseVars, acks>>
    BY DEF Enqueue
<1>2. RecordCreated(f) /\ f.priority = p /\ f.queue_key = k
    BY DEF NewEntry, RecordCreated
<1> HIDE DEF f
<1>3. /\ DOMAIN tasks' = DOMAIN tasks \cup {t} /\ tasks'[t] = f
      /\ \A u \in DOMAIN tasks : tasks'[u] = tasks[u]
    BY <1>1 DEF Insert
<1>4. RecordsMove
    BY <1>2, <1>3 DEF RecordsMove
<1>5. NoGrant
    BY <1>1, <1>3 DEF NoGrant, leaseVars
<1>6. QueuedTasks' = QueuedTasks \cup {t} /\ t \notin QueuedTasks
    BY <1>1, <1>2, <1>3 DEF QueuedTasks, RecordCreated
<1>7. Entering = {t} /\ Leaving = {}
    BY <1>6 DEF Entering, Leaving
<1>8. QueueMoves
    BY <1>1, <1>2, <1>3, <1>7, QueueGainsOne
<1>9. AnswersAreTrue /\ WorkersMove
    BY <1>1, NoAnswer, IdleWorkers
<1>10. CompletedInTime
    BY <1>3 DEF CompletedInTime
<1> QED
    BY <1>4, <1>5, <1>8, <1>9, <1>10 DEF CommandShape

\* An answer repeated from the retained record.
LEMMA ReplayShape ==
    ASSUME FInv, NEW c, NEW now, NEW token,
           ReplayComplete(c, now, token) \/ ReplayCancel(c, now, token) \/ ReplayFail(c, now, token)
    PROVE  CommandShape
<1> DEFINE t == token.task_id
<1>1. /\ t \in DOMAIN tasks /\ UNCHANGED <<taskVars, workers, leaseVars>>
      /\ acks' = acks \cup {NewAck(token, tasks[t])}
      /\ tasks[t].status = "Completed" => tasks[t].completion.lease_id = token.lease_id
      /\ tasks[t].status = "Cancelled" => tasks[t].cancellation = token
      /\ tasks[t].status = "Failed" => tasks[t].failure = token
    BY DEF ReplayComplete, ReplayCancel, ReplayFail, MatchesLease
<1>2. tasks' = tasks
    BY <1>1 DEF taskVars
<1>3. RecordsMove /\ NoGrant /\ QueueMoves /\ CompletedInTime /\ WorkersMove
    BY <1>1, IdleRecords, IdleWorkers
<1>4. AnswersAreTrue
    BY <1>1, <1>2, NewAnswer
<1> QED
    BY <1>3, <1>4 DEF CommandShape

(***************************************************************************)
(* Commands on workers                                                     *)
(***************************************************************************)
LEMMA NodeShape ==
    ASSUME FInv, NEW c \in Callers, NEW now \in Times, NEW w \in Workers,
           \/ \E cap \in Capacities, load \in Loads : RegisterWorker(c, now, w, cap, load)
           \/ \E g \in Generations, cap \in Capacities, load \in Loads :
                  ReactivateWorker(c, now, w, g, cap, load)
           \/ \E g \in Generations, s \in WorkerStatus, load \in Loads :
                  UpdateWorker(c, now, w, g, s, load)
    PROVE  CommandShape
<1>1. UNCHANGED <<taskVars, leaseVars, acks>>
    BY DEF RegisterWorker, ReactivateWorker, UpdateWorker
<1>2. RecordsMove /\ NoGrant /\ QueueMoves /\ CompletedInTime /\ AnswersAreTrue
    BY <1>1, IdleRecords, NoAnswer
<1>3. \A x \in DOMAIN workers : workers[x] \in WorkerNode /\ workers[x].generation \in Nat
    BY DEF FInv, IInv, TypeOK, WorkerNode
<1>4. ASSUME NEW cap, NEW load, RegisterWorker(c, now, w, cap, load)
      PROVE  \A x \in DOMAIN workers : workers'[x] = workers[x]
    BY <1>4 DEF RegisterWorker, Insert
<1>5. ASSUME NEW g \in Generations, NEW cap, NEW load, ReactivateWorker(c, now, w, g, cap, load)
      PROVE  WorkersMove
  <2> DEFINE n == NewNode(g + 1, cap, load, workers[w].completed_tasks, now)
  <2>1. /\ w \in DOMAIN workers /\ workers[w].generation = g
        /\ workers' = [workers EXCEPT ![w] = n]
      BY <1>5 DEF ReactivateWorker
  <2>2. n.generation = g + 1
      BY DEF NewNode
  <2> HIDE DEF n
  <2>3. workers'[w] = n /\ \A x \in DOMAIN workers \ {w} : workers'[x] = workers[x]
      BY <2>1
  <2> QED
      BY <1>3, <2>1, <2>2, <2>3 DEF WorkersMove
<1>6. ASSUME NEW g, NEW s, NEW load, UpdateWorker(c, now, w, g, s, load)
      PROVE  WorkersMove
  <2> DEFINE n == Observed(workers[w], now, s, load)
  <2>1. /\ w \in DOMAIN workers /\ s # "Offline" /\ workers[w].status # "Offline"
        /\ workers' = [workers EXCEPT ![w] = n]
      BY <1>6 DEF UpdateWorker
  <2>2. n.generation = workers[w].generation /\ n.status = s
      BY <1>3, <2>1 DEF Observed, WorkerNode
  <2> HIDE DEF n
  <2>3. workers'[w] = n /\ \A x \in DOMAIN workers \ {w} : workers'[x] = workers[x]
      BY <2>1
  <2> QED
      BY <1>3, <2>1, <2>2, <2>3 DEF WorkersMove
<1>7. WorkersMove
    BY <1>3, <1>4, <1>5, <1>6 DEF WorkersMove
<1> QED
    BY <1>2, <1>7 DEF CommandShape

(***************************************************************************)
(* Bulk commands                                                           *)
(***************************************************************************)
LEMMA BulkWorkers ==
    ASSUME FInv, NEW S \in SUBSET LeasedTasks, NEW D,
           workers' = [w \in DOMAIN workers |->
                          IF w \in D THEN WentOffline(Released(S)[w]) ELSE Released(S)[w]]
    PROVE  WorkersMove
<1> SUFFICES ASSUME NEW w \in DOMAIN workers
             PROVE  /\ workers'[w].generation >= workers[w].generation
                    /\ (workers'[w].status = "Offline") # (workers[w].status = "Offline")
                           => workers'[w].generation > workers[w].generation
    BY DEF WorkersMove
<1> DEFINE k == Cardinality(LeasesOf(S, w))
           x == workers[w]
           y == SlotsFreed(x, k)
           g == y.generation + 1
           z == [y EXCEPT !.status = "Offline", !.generation = g]
<1>1. x \in WorkerNode /\ x.generation \in Nat
    BY DEF FInv, IInv, TypeOK, WorkerNode
<1>2. k \in Nat /\ k <= x.current_tasks
  <2>1. LeasesOf(S, w) \in SUBSET Leased(w) /\ IsFiniteSet(Leased(w))
      BY FiniteDomains DEF FInv, IInv, LeasesOf, Leased
  <2>2. x.current_tasks = Cardinality(Leased(w))
      BY DEF FInv, IInv, WorkerCountersMatchLeases, Leased
  <2> QED
      BY <2>1, <2>2, CardDifference
<1>3. workers'[w] = IF w \in D THEN z ELSE y
    BY DEF Released, WentOffline
<1> HIDE DEF k, x
<1>4. y \in WorkerNode /\ y.generation = x.generation /\ y.status = x.status
    BY <1>1, <1>2, SlotsFreedType
<1> HIDE DEF y, g
<1>5. z.generation = g
    BY <1>4 DEF WorkerNode
<1> HIDE DEF z
<1>6. /\ workers'[w].generation >= x.generation
      /\ workers'[w].generation > x.generation \/ workers'[w].status = x.status
    BY <1>1, <1>3, <1>4, <1>5 DEF g
<1> QED
    BY <1>6 DEF x

\* No two tasks hold the same lease id.
LEMMA LeaseIdsDiffer ==
    ASSUME FInv, NEW t \in LeasedTasks, NEW u \in LeasedTasks, t # u
    PROVE  tasks[t].lease.lease_id # tasks[u].lease.lease_id
<1>1. /\ tasks[t].lease \in issued /\ tasks[t].lease.task_id = t
      /\ tasks[u].lease \in issued /\ tasks[u].lease.task_id = u
    BY DEF FInv, IInv, OwnershipMatchesStatus, LeasedTasks
<1> QED
    BY <1>1 DEF FInv, LeasesAreCounted

\* The ordinals a recovery hands out are new, within the range it reserves, and in the order
\* of the leases.
LEMMA RecoveryOrdinals ==
    ASSUME FInv, NEW S \in SUBSET LeasedTasks, NEW t \in Retryable(S)
    PROVE  /\ RecoveryOrdinal(S, t) \in Nat
           /\ RecoveryOrdinal(S, t) >= next_enqueue_ordinal
           /\ RecoveryOrdinal(S, t) < next_enqueue_ordinal + Cardinality(Retryable(S))
           /\ \A u \in Retryable(S) :
                  tasks[u].lease.lease_id < tasks[t].lease.lease_id =>
                      RecoveryOrdinal(S, u) < RecoveryOrdinal(S, t)
<1> DEFINE R == Retryable(S)
           Before(u) == {v \in R : tasks[v].lease.lease_id < tasks[u].lease.lease_id}
<1>1. R \in SUBSET DOMAIN tasks /\ IsFiniteSet(R) /\ R \in SUBSET LeasedTasks
    BY FiniteDomains DEF FInv, IInv, LeasedTasks, Retryable
<1>2. \A u \in R : tasks[u].lease.lease_id \in Nat
  <2>1. \A u \in R : tasks[u].lease \in issued /\ issued \subseteq TaskLease
      BY <1>1 DEF FInv, IInv, TypeOK, OwnershipMatchesStatus, LeasedTasks
  <2> QED
      BY <2>1 DEF TaskLease
<1>3. next_enqueue_ordinal \in Nat
    BY DEF FInv, IInv, TypeOK
<1>4. \A u \in R : RecoveryOrdinal(S, u) = next_enqueue_ordinal + Cardinality(Before(u))
    BY DEF RecoveryOrdinal
<1> HIDE DEF R
<1>5. \A A \in SUBSET R : \A x \in A :
          /\ IsFiniteSet(A) /\ Cardinality(A) \in Nat
          /\ IsFiniteSet(A \ {x}) /\ Cardinality(A \ {x}) = Cardinality(A) - 1
    BY <1>1, FS_Subset, FS_CardinalityType, FS_RemoveElement
<1>6. \A A, B \in SUBSET R : \A x \in A :
          B \subseteq A \ {x} => /\ Cardinality(B) \in Nat /\ Cardinality(A) \in Nat
                                 /\ Cardinality(B) < Cardinality(A)
  <2> TAKE A, B \in SUBSET R
  <2> TAKE x \in A
  <2> HAVE B \subseteq A \ {x}
  <2>1. /\ IsFiniteSet(A \ {x}) /\ Cardinality(A) \in Nat
        /\ Cardinality(A \ {x}) = Cardinality(A) - 1
      BY <1>5
  <2>2. IsFiniteSet(B) /\ Cardinality(B) <= Cardinality(A \ {x})
      BY <2>1, FS_Subset
  <2>3. Cardinality(B) \in Nat
      BY <2>2, FS_CardinalityType
  <2> QED
      BY <2>1, <2>2, <2>3
<1>7. \A u \in R : Before(u) \in SUBSET R /\ Before(u) \subseteq R \ {u}
    BY <1>2
<1>8. \A u \in R : Cardinality(Before(u)) \in Nat /\ Cardinality(Before(u)) < Cardinality(R)
                   /\ Cardinality(R) \in Nat
  <2> HIDE DEF Before
  <2> QED
      BY <1>6, <1>7
<1>9. ASSUME NEW u \in R, tasks[u].lease.lease_id < tasks[t].lease.lease_id
      PROVE  Cardinality(Before(u)) < Cardinality(Before(t))
  <2>1. t \in R
      BY DEF R
  <2>2. u \in Before(t) /\ Before(u) \subseteq Before(t) \ {u}
      BY <1>2, <1>9, <2>1
  <2> HIDE DEF Before
  <2> QED
      BY <1>6, <1>7, <2>1, <2>2
<1>10. t \in R
    BY DEF R
<1> HIDE DEF Before
<1>11. /\ RecoveryOrdinal(S, t) \in Nat
       /\ RecoveryOrdinal(S, t) >= next_enqueue_ordinal
       /\ RecoveryOrdinal(S, t) < next_enqueue_ordinal + Cardinality(R)
    BY <1>3, <1>4, <1>8, <1>10
<1>12. \A u \in R : tasks[u].lease.lease_id < tasks[t].lease.lease_id =>
                        RecoveryOrdinal(S, u) < RecoveryOrdinal(S, t)
    BY <1>3, <1>4, <1>8, <1>9, <1>10
<1> QED
    BY <1>11, <1>12 DEF R

LEMMA RecoveryShape ==
    ASSUME FInv, NEW S \in SUBSET LeasedTasks, NEW D, ApplyRecovery(S),
           workers' = [w \in DOMAIN workers |->
                          IF w \in D THEN WentOffline(Released(S)[w]) ELSE Released(S)[w]],
           UNCHANGED <<leaseVars, acks>>
    PROVE  CommandShape
<1> DEFINE R == Retryable(S)
           Back(t) == Requeued(t, RecoveryOrdinal(S, t))
<1>1. S \in SUBSET DOMAIN tasks /\ R \in SUBSET S /\ R \in SUBSET LeasedTasks
    BY DEF LeasedTasks, Retryable
<1>2. /\ DOMAIN tasks' = DOMAIN tasks
      /\ \A t \in R : tasks'[t] = Back(t)
      /\ \A t \in S \ R : tasks'[t] = TerminalizeLeased(tasks[t], "Failed")
      /\ \A t \in DOMAIN tasks \ S : tasks'[t] = tasks[t]
      /\ queue' = queue \cup {Back(t).queue_key : t \in R}
      /\ next_enqueue_ordinal' = next_enqueue_ordinal + Cardinality(R)
    BY <1>1 DEF ApplyRecovery
<1>3. \A t \in S : /\ tasks[t] \in TaskEntry /\ tasks[t].lease # None
                   /\ tasks[t].status \in {"Leased", "Running"}
                   /\ tasks[t].retry_count \in Nat /\ max_retries \in Nat
    BY <1>1, LimitsAssumption
       DEF FInv, IInv, TypeOK, OwnershipMatchesStatus, LeasedTasks, LimitsValid, TaskEntry
<1>4. \A t \in R : t \in S /\ tasks[t].retry_count < max_retries
    BY DEF Retryable
<1>5. \A t \in S \ R : tasks[t].retry_count >= max_retries
    BY <1>3 DEF Retryable
<1>6. \A t \in R : /\ RecoveryOrdinal(S, t) \in Nat
                   /\ RecoveryOrdinal(S, t) >= next_enqueue_ordinal
                   /\ RecoveryOrdinal(S, t) < next_enqueue_ordinal'
                   /\ \A u \in R : tasks[u].lease.lease_id < tasks[t].lease.lease_id =>
                                       RecoveryOrdinal(S, u) < RecoveryOrdinal(S, t)
    BY <1>2, RecoveryOrdinals
<1>7. TypeOK
    BY DEF FInv, IInv
<1>8. ASSUME NEW t \in R
      PROVE  /\ RecordMoves(tasks[t], tasks'[t]) /\ tasks'[t].status = "Queued"
             /\ tasks'[t].queue_key = NewKey(tasks'[t].priority, RecoveryOrdinal(S, t), t)
             /\ tasks'[t].queue_key = Back(t).queue_key
  <2>1. t \in DOMAIN tasks /\ tasks[t].lease # None /\ tasks[t].retry_count < max_retries
        /\ RecoveryOrdinal(S, t) \in Nat /\ tasks'[t] = Back(t)
      BY <1>1, <1>2, <1>3, <1>4, <1>6
  <2> QED
      BY <1>7, <2>1, RequeuedRecord
<1>9. ASSUME NEW t \in S \ R
      PROVE  RecordMoves(tasks[t], tasks'[t]) /\ tasks'[t].status = "Failed"
  <2>1. /\ tasks[t] \in TaskEntry /\ tasks[t].status \in ActiveStatus /\ tasks[t].lease # None
        /\ tasks[t].retry_count >= max_retries
        /\ tasks'[t] = TerminalizeLeased(tasks[t], "Failed") /\ "Failed" \in TerminalStatus
      BY <1>2, <1>3, <1>5 DEF ActiveStatus, TerminalStatus
  <2> QED
      BY <2>1, EndedRecord
<1> HIDE DEF R, Back
<1>10. RecordsMove
    BY <1>1, <1>2, <1>8, <1>9 DEF RecordsMove
<1>11. NoGrant
  <2>1. \A t \in S : tasks'[t].attempt = tasks[t].attempt
      BY <1>3, <1>8, <1>9 DEF RecordMoves, RecordGranted, RecordStarted, RecordRequeued,
          RecordEnded, SameFences
  <2> QED
      BY <1>1, <1>2, <2>1 DEF NoGrant, leaseVars
<1>12. Entering = R /\ Leaving = {}
  <2>1. \A t \in DOMAIN tasks : tasks'[t].status = "Queued" <=> tasks[t].status = "Queued" \/ t \in R
      BY <1>2, <1>3, <1>8, <1>9
  <2>2. \A t \in R : t \in DOMAIN tasks /\ tasks[t].status # "Queued"
      BY <1>1, <1>3
  <2> QED
      BY <1>2, <2>1, <2>2 DEF Entering, Leaving, QueuedTasks
<1>13. QueueMoves
  <2>1. next_enqueue_ordinal \in Nat /\ Cardinality(R) \in Nat
    <3>1. IsFiniteSet(R)
        BY <1>1, FiniteDomains, FS_Subset DEF FInv, IInv
    <3> QED
        BY <3>1, FS_CardinalityType DEF FInv, IInv, TypeOK
  <2>2. next_enqueue_ordinal' >= next_enqueue_ordinal
      BY <1>2, <2>1
  <2>3. queue' = (queue \ {tasks[t].queue_key : t \in Leaving})
                      \cup {tasks'[t].queue_key : t \in Entering}
      BY <1>2, <1>8, <1>12
  <2>4. ASSUME NEW t \in R
        PROVE  LET k == tasks'[t].queue_key IN
               /\ k.task_id = t /\ k.inverted_priority = 255 - tasks'[t].priority
               /\ k.enqueue_ordinal = RecoveryOrdinal(S, t)
    <3>1. tasks'[t].queue_key = NewKey(tasks'[t].priority, RecoveryOrdinal(S, t), t)
        BY <1>8
    <3> QED
        BY <3>1 DEF NewKey
  <2>5. \A t, u \in R : tasks[u].lease.lease_id < tasks[t].lease.lease_id =>
            tasks'[u].queue_key.enqueue_ordinal < tasks'[t].queue_key.enqueue_ordinal
      BY <1>6, <2>4
  <2>6. ASSUME NEW t \in R, NEW u \in R, t # u
        PROVE  tasks'[t].queue_key.enqueue_ordinal # tasks'[u].queue_key.enqueue_ordinal
    <3>1. tasks[t].lease.lease_id # tasks[u].lease.lease_id
        BY <1>1, <2>6, LeaseIdsDiffer
    <3>2. tasks[t].lease.lease_id \in Nat /\ tasks[u].lease.lease_id \in Nat
        BY <1>1 DEF FInv, IInv, TypeOK, OwnershipMatchesStatus, LeasedTasks, TaskLease
    <3>3. /\ tasks'[t].queue_key.enqueue_ordinal \in Nat
          /\ tasks'[u].queue_key.enqueue_ordinal \in Nat
        BY <1>6, <2>4
    <3> QED
        BY <2>5, <3>1, <3>2, <3>3
  <2> QED
      BY <1>6, <1>12, <2>2, <2>3, <2>4, <2>5, <2>6 DEF QueueMoves
<1>14. AnswersAreTrue /\ WorkersMove
    BY NoAnswer, BulkWorkers
<1>15. CompletedInTime
    BY <1>2, <1>8, <1>9 DEF CompletedInTime
<1> QED
    BY <1>10, <1>11, <1>13, <1>14, <1>15 DEF CommandShape

LEMMA RecoveryShapes ==
    ASSUME FInv, NEW c \in Callers, NEW now \in Times
    PROVE  /\ RecoverExpiredLeases(c, now) => CommandShape
           /\ PruneDeadWorkers(c, now) => CommandShape
           /\ \A w, g : DeregisterWorker(c, now, w, g) => CommandShape
<1>1. ASSUME RecoverExpiredLeases(c, now)
      PROVE  CommandShape
  <2> DEFINE S == ExpiredLeases(now)  D == {}
  <2>1. S \in SUBSET LeasedTasks
      BY DEF ExpiredLeases
  <2>2. workers' = [w \in DOMAIN workers |->
                       IF w \in D THEN WentOffline(Released(S)[w]) ELSE Released(S)[w]]
      BY <1>1 DEF RecoverExpiredLeases, Released
  <2>3. ApplyRecovery(S) /\ UNCHANGED <<leaseVars, acks>>
      BY <1>1 DEF RecoverExpiredLeases
  <2> HIDE DEF S, D
  <2> QED
      BY <2>1, <2>2, <2>3, RecoveryShape
<1>2. ASSUME PruneDeadWorkers(c, now)
      PROVE  CommandShape
  <2> DEFINE D == DeadWorkers(now)
             S == {t \in LeasedTasks : tasks[t].lease.worker_id \in D}
  <2>1. S \in SUBSET LeasedTasks
      OBVIOUS
  <2>2. /\ workers' = [w \in DOMAIN workers |->
                          IF w \in D THEN WentOffline(Released(S)[w]) ELSE Released(S)[w]]
        /\ ApplyRecovery(S) /\ UNCHANGED <<leaseVars, acks>>
      BY <1>2 DEF PruneDeadWorkers
  <2> HIDE DEF S, D
  <2> QED
      BY <2>1, <2>2, RecoveryShape
<1>3. ASSUME NEW w, NEW g, DeregisterWorker(c, now, w, g)
      PROVE  CommandShape
  <2> DEFINE S == Leased(w)  D == {w}
  <2>1. S \in SUBSET LeasedTasks
      BY DEF Leased, LeasesOf
  <2>2. /\ workers' = [x \in DOMAIN workers |->
                          IF x \in D THEN WentOffline(Released(S)[x]) ELSE Released(S)[x]]
        /\ ApplyRecovery(S) /\ UNCHANGED <<leaseVars, acks>>
      BY <1>3 DEF DeregisterWorker, Leased
  <2> HIDE DEF S, D
  <2> QED
      BY <2>1, <2>2, RecoveryShape
<1> QED
    BY <1>1, <1>2, <1>3

LEMMA ExpireShape ==
    ASSUME FInv, NEW c, NEW now, NEW ttl, ExpireOldTasks(c, now, ttl)
    PROVE  CommandShape
<1> DEFINE S == OldTasks(now, ttl)
           Q == {t \in S : tasks[t].status = "Queued"}
           D == {}
<1>1. S \in SUBSET DOMAIN tasks /\ \A t \in S : tasks[t].status \in ActiveStatus
    BY DEF OldTasks
<1>2. /\ DOMAIN tasks' = DOMAIN tasks
      /\ \A t \in Q : tasks'[t] = TerminalizeQueued(tasks[t], "Expired")
      /\ \A t \in S \ Q : tasks'[t] = TerminalizeLeased(tasks[t], "Expired")
      /\ \A t \in DOMAIN tasks \ S : tasks'[t] = tasks[t]
      /\ queue' = queue \ {tasks[t].queue_key : t \in Q}
      /\ workers' = Released(S \ Q)
      /\ UNCHANGED <<next_enqueue_ordinal, leaseVars, acks>>
    BY <1>1 DEF ExpireOldTasks
<1>3. S \ Q \in SUBSET LeasedTasks
    BY <1>1 DEF FInv, IInv, OwnershipMatchesStatus, LeasedTasks, ActiveStatus
<1>4. workers' = [w \in DOMAIN workers |->
                     IF w \in D THEN WentOffline(Released(S \ Q)[w]) ELSE Released(S \ Q)[w]]
    BY <1>2 DEF Released
<1>5. \A t \in S : t \in Q <=> tasks[t].status = "Queued"
    OBVIOUS
<1> HIDE DEF S, D
<1>6. WorkersMove
    BY <1>3, <1>4, BulkWorkers
<1>7. ASSUME NEW t \in S
      PROVE  RecordMoves(tasks[t], tasks'[t]) /\ tasks'[t].status = "Expired"
  <2>1. /\ tasks[t] \in TaskEntry /\ tasks[t].status \in ActiveStatus
        /\ "Expired" \in TerminalStatus
      BY <1>1 DEF FInv, IInv, TypeOK, TerminalStatus
  <2>2. \/ tasks'[t] = TerminalizeQueued(tasks[t], "Expired")
        \/ tasks'[t] = TerminalizeLeased(tasks[t], "Expired")
      BY <1>2
  <2> QED
      BY <2>1, <2>2, EndedRecord
<1>8. RecordsMove
    BY <1>1, <1>2, <1>7 DEF RecordsMove
<1>9. NoGrant
  <2>1. \A t \in S : tasks'[t].attempt = tasks[t].attempt
      BY <1>7 DEF RecordMoves, RecordGranted, RecordStarted, RecordRequeued, RecordEnded,
          SameFences
  <2> QED
      BY <1>1, <1>2, <2>1 DEF NoGrant, leaseVars
<1>10. Entering = {} /\ Leaving = Q
  <2>1. \A t \in DOMAIN tasks : tasks'[t].status = "Queued" <=> tasks[t].status = "Queued" /\ t \notin S
      BY <1>2, <1>7
  <2> QED
      BY <1>1, <1>2, <2>1 DEF Entering, Leaving, QueuedTasks
<1>11. QueueMoves
    BY <1>2, <1>10, QueueLoses
<1>12. AnswersAreTrue
    BY <1>2, NoAnswer
<1>13. CompletedInTime
    BY <1>2, <1>7 DEF CompletedInTime
<1> QED
    BY <1>6, <1>8, <1>9, <1>11, <1>12, <1>13 DEF CommandShape

(***************************************************************************)
(* Every step has the shape                                                *)
(***************************************************************************)
LEMMA IdleShape ==
    ASSUME FInv, UNCHANGED <<taskVars, workers, leaseVars, acks>>
    PROVE  CommandShape
    BY IdleRecords, IdleWorkers, NoAnswer DEF CommandShape

LEMMA NextShape ==
    ASSUME FInv, [Next]_vars
    PROVE  CommandShape
<1>1. CASE UNCHANGED vars
    BY <1>1, IdleShape DEF vars
<1>2. ASSUME NEW c \in Callers, Snapshot(c)
      PROVE  CommandShape
    BY <1>2, IdleShape DEF Snapshot
<1>3. ASSUME NEW c \in Callers, NEW now \in Times, WorkerStep(c, now)
      PROVE  CommandShape
    BY <1>3, NodeShape, RecoveryShapes DEF WorkerStep
<1>4. ASSUME NEW c \in Callers, NEW now \in Times, AssignStep(c, now)
      PROVE  CommandShape
    BY <1>4, AssignShape DEF AssignStep, AssignNext, AssignNextAvailable
<1>5. ASSUME NEW c \in Callers, NEW now \in Times, LeaseStep(c, now)
      PROVE  CommandShape
    BY <1>5, StartShape, CompleteShape, CancelLeasedShape, FailRetryShape, FailExhaustedShape,
       ReplayShape DEF LeaseStep
<1>6. ASSUME NEW c \in Callers, NEW now \in Times, FenceStep(c, now)
      PROVE  CommandShape
    BY <1>6, CancelQueuedShape, ReplayShape DEF FenceStep
<1>7. ASSUME NEW c \in Callers, NEW now \in Times, MaintenanceStep(c, now)
      PROVE  CommandShape
    BY <1>7, RecoveryShapes, ExpireShape DEF MaintenanceStep
<1>8. CASE Next
    BY <1>2, <1>3, <1>4, <1>5, <1>6, <1>7, <1>8, EnqueueShape DEF Next
<1> QED
    BY <1>1, <1>8

LEMMA InitFInv == Init => FInv
<1> SUFFICES ASSUME Init
             PROVE  FInv
    OBVIOUS
<1>1. DOMAIN tasks = {} /\ issued = {} /\ acks = {} /\ queue = {}
    BY DEF Init
<1>2. QueuedTasks = {}
    BY <1>1 DEF QueuedTasks
<1>3. IsFiniteSet({})
    BY FS_EmptySet
<1> QED
    BY <1>1, <1>2, <1>3, InitIInv DEF FInv, QueueMatchesRecords, AttemptsMatchStatus,
        LeasesAreCounted, AcksAreRecorded, CompletionsHaveReceipts

LEMMA NextFInv == FInv /\ [Next]_vars => FInv'
<1> SUFFICES ASSUME FInv, [Next]_vars
             PROVE  FInv'
    OBVIOUS
<1>1. IInv'
    BY NextIInv DEF FInv
<1> QED
    BY <1>1, NextShape, ShapeFInv

\* The queue, the attempts, the leases ever issued, the receipts and the answers ever given
\* agree with the records, through every sequence of commands.
THEOREM FencedInvariance == Spec => []FInv
BY InitFInv, NextFInv, PTL DEF Spec

\* The state stays sound through every sequence of commands: it is well typed, the queue
\* holds exactly one key per queued task in a total order, and no task is attempted more
\* often than its retries allow, each time under a lease of its own, which takes one slot
\* of a worker in service (check_state_invariants).
THEOREM StateSound == Spec => []StateIsSound
<1>1. FInv => StateIsSound
    BY DEF FInv, IInv, StateIsSound, AttemptsAreFenced, AttemptsMatchStatus, LeasesAreCounted,
        LeasesFor
<1> QED
    BY <1>1, FencedInvariance, PTL

\* Whatever a caller was told about the end of a task stays true, and was told for the token
\* that ended it (the replay branches of complete_task, cancel_task and fail_task).
THEOREM AcksTruthful == Spec => []AcksAreTruthful
<1>1. FInv => AcksAreTruthful
    BY DEF FInv, AcksAreRecorded, AckHolds, AcksAreTruthful
<1> QED
    BY <1>1, FencedInvariance, PTL

\* No command moves a fence backwards: a record that changes gets the next version, a task
\* that is queued again a new generation, a worker that leaves or returns a new one too.
THEOREM FencesMonotonic == Spec => FencesAdvance
<1>1. FInv /\ [Next]_vars =>
          [/\ \A t \in DOMAIN tasks : LET e == tasks[t]  f == tasks'[t] IN
                 /\ f # e => f.record_version = e.record_version + 1
                 /\ f.attempt >= e.attempt /\ f.task_generation >= e.task_generation
                 /\ e.lease # None /\ f.status = "Queued" => f.task_generation > e.task_generation
           /\ \A w \in DOMAIN workers :
                 /\ workers'[w].generation >= workers[w].generation
                 /\ (workers'[w].status = "Offline") # (workers[w].status = "Offline")
                        => workers'[w].generation > workers[w].generation]_vars
  <2> SUFFICES ASSUME FInv, [Next]_vars
               PROVE  /\ \A t \in DOMAIN tasks : LET e == tasks[t]  f == tasks'[t] IN
                            /\ f # e => f.record_version = e.record_version + 1
                            /\ f.attempt >= e.attempt /\ f.task_generation >= e.task_generation
                            /\ e.lease # None /\ f.status = "Queued" =>
                                   f.task_generation > e.task_generation
                      /\ WorkersMove
      BY DEF WorkersMove
  <2>1. CommandShape
      BY NextShape
  <2>2. ASSUME NEW t \in DOMAIN tasks
        PROVE  LET e == tasks[t]  f == tasks'[t] IN
               /\ f # e => f.record_version = e.record_version + 1
               /\ f.attempt >= e.attempt /\ f.task_generation >= e.task_generation
               /\ e.lease # None /\ f.status = "Queued" => f.task_generation > e.task_generation
    <3>1. tasks[t].attempt \in Nat /\ tasks[t].task_generation \in Nat
        BY DEF FInv, IInv, TypeOK, TaskEntry
    <3>2. tasks[t].lease # None <=> tasks[t].status \in {"Leased", "Running"}
        BY DEF FInv, IInv, OwnershipMatchesStatus
    <3>3. tasks'[t] = tasks[t] \/ RecordMoves(tasks[t], tasks'[t])
        BY <2>1 DEF CommandShape, RecordsMove
    <3> QED
        BY <3>1, <3>2, <3>3 DEF RecordMoves, RecordGranted, RecordStarted, RecordRequeued,
            RecordEnded, SameFences, TerminalStatus
  <2> QED
      BY <2>1, <2>2 DEF CommandShape
<1> QED
    BY <1>1, FencedInvariance, PTL DEF Spec, FencesAdvance

\* A task completes only under an unexpired lease of a worker that is in service under the
\* generation the lease was granted to (ensure_current_lease, complete_task).
THEOREM CompletionIsOwned == Spec => CompletedByLiveOwner
<1>1. FInv /\ [Next]_vars =>
          [\A t \in DOMAIN tasks :
               tasks[t].status # "Completed" /\ tasks'[t].status = "Completed" =>
                   LET l == tasks[t].lease IN
                   /\ l # None /\ logical_time' < l.expires_at
                   /\ workers[l.worker_id].generation = l.worker_generation
                   /\ workers[l.worker_id].status # "Offline"]_vars
  <2> SUFFICES ASSUME FInv, [Next]_vars, NEW t \in DOMAIN tasks,
                      tasks[t].status # "Completed", tasks'[t].status = "Completed"
               PROVE  LET l == tasks[t].lease IN
                      /\ l # None /\ logical_time' < l.expires_at
                      /\ workers[l.worker_id].generation = l.worker_generation
                      /\ workers[l.worker_id].status # "Offline"
      OBVIOUS
  <2>1. tasks[t].lease # None /\ logical_time' < tasks[t].lease.expires_at
      BY NextShape DEF CommandShape, CompletedInTime
  <2>2. t \in LeasedTasks
      BY <2>1 DEF LeasedTasks
  <2> QED
      BY <2>1, <2>2 DEF FInv, IInv, WorkerCountersMatchLeases
<1> QED
    BY <1>1, FencedInvariance, PTL DEF Spec, CompletedByLiveOwner

(***************************************************************************)
(* Who is told that a task ended                                           *)
(***************************************************************************)
\* What a new answer says of its token: it is an answer from a retained record, or the
\* token is the lease the task had when the command came, and not too late.
AnswersTheHolder ==
    \A a \in acks' \ acks : LET l == a.token IN
        tasks[l.task_id].lease # None =>
            /\ l.task_id \in DOMAIN tasks /\ l = tasks[l.task_id].lease
            /\ logical_time' < l.expires_at

LEMMA LeaseAnswers ==
    ASSUME FInv, NEW c \in Callers, NEW now \in Times, NEW lease \in issued,
           \/ CompleteTask(c, now, lease)
           \/ CancelLeased(c, now, lease)
           \/ FailTaskExhausted(c, now, lease)
    PROVE  AnswersTheHolder
<1>1. EnsureCurrentLease(lease, now) /\ logical_time' = now
    BY DEF CompleteTask, CancelLeased, FailTaskExhausted, Commit
<1>2. /\ lease.task_id \in DOMAIN tasks /\ tasks[lease.task_id].lease = lease
      /\ logical_time' < lease.expires_at
    BY <1>1 DEF EnsureCurrentLease
<1>3. \A a \in acks' \ acks : a.token = lease
    BY DEF CompleteTask, CancelLeased, FailTaskExhausted, NewAck
<1> QED
    BY <1>2, <1>3 DEF AnswersTheHolder

\* A queued or ended task has no lease, so neither a cancelled fence nor a replay is an
\* answer for a leased task.
LEMMA LeaselessAnswers ==
    ASSUME FInv, NEW c \in Callers, NEW now \in Times, NEW token,
           token.task_id \in DOMAIN tasks,
           \/ CancelQueued(c, now, token) \/ ReplayCancel(c, now, token)
           \/ ReplayComplete(c, now, token) \/ ReplayFail(c, now, token)
    PROVE  AnswersTheHolder
<1>1. tasks[token.task_id].status \notin {"Leased", "Running"}
    BY DEF CancelQueued, ReplayCancel, ReplayComplete, ReplayFail
<1>2. tasks[token.task_id].lease = None
    BY <1>1 DEF FInv, IInv, OwnershipMatchesStatus
<1>3. \A a \in acks' \ acks : a.token = token
    BY DEF CancelQueued, ReplayCancel, ReplayComplete, ReplayFail, NewAck
<1> QED
    BY <1>2, <1>3 DEF AnswersTheHolder

LEMMA NextAnswers ==
    ASSUME FInv, [Next]_vars
    PROVE  AnswersTheHolder
<1>1. acks' = acks => AnswersTheHolder
    BY DEF AnswersTheHolder
<1>2. CASE UNCHANGED vars
    BY <1>1, <1>2 DEF vars
<1>3. ASSUME NEW c \in Callers, Snapshot(c)
      PROVE  AnswersTheHolder
    BY <1>1, <1>3 DEF Snapshot
<1>4. ASSUME NEW c \in Callers, NEW now \in Times, NEW t \in Tasks, NEW p \in Priorities,
             Enqueue(c, now, t, p)
      PROVE  AnswersTheHolder
    BY <1>1, <1>4 DEF Enqueue
<1>5. ASSUME NEW c \in Callers, NEW now \in Times, WorkerStep(c, now)
      PROVE  AnswersTheHolder
    BY <1>1, <1>5 DEF WorkerStep, RegisterWorker, ReactivateWorker, UpdateWorker, DeregisterWorker
<1>6. ASSUME NEW c \in Callers, NEW now \in Times, AssignStep(c, now)
      PROVE  AnswersTheHolder
    BY <1>1, <1>6 DEF AssignStep, AssignNext, AssignNextAvailable, AssignTask, ApplyAssignment
<1>7. ASSUME NEW c \in Callers, NEW now \in Times, LeaseStep(c, now)
      PROVE  AnswersTheHolder
  <2>1. PICK lease \in issued :
            \/ StartTask(c, now, lease)
            \/ CompleteTask(c, now, lease) \/ ReplayComplete(c, now, lease)
            \/ CancelLeased(c, now, lease) \/ ReplayCancel(c, now, lease)
            \/ FailTaskRetry(c, now, lease)
            \/ FailTaskExhausted(c, now, lease) \/ ReplayFail(c, now, lease)
      BY <1>7 DEF LeaseStep
  <2>2. CASE StartTask(c, now, lease) \/ FailTaskRetry(c, now, lease)
      BY <1>1, <2>2 DEF StartTask, FailTaskRetry
  <2>3. CASE \/ ReplayComplete(c, now, lease) \/ ReplayCancel(c, now, lease)
             \/ ReplayFail(c, now, lease)
    <3>1. lease.task_id \in DOMAIN tasks
        BY <2>3 DEF ReplayComplete, ReplayCancel, ReplayFail
    <3> QED
        BY <2>3, <3>1, LeaselessAnswers
  <2> QED
      BY <2>1, <2>2, <2>3, LeaseAnswers
<1>8. ASSUME NEW c \in Callers, NEW now \in Times, FenceStep(c, now)
      PROVE  AnswersTheHolder
  <2>1. PICK t \in DOMAIN tasks : \E fence \in QueuedFences(t) :
            CancelQueued(c, now, fence) \/ ReplayCancel(c, now, fence)
      BY <1>8 DEF FenceStep
  <2>2. PICK fence \in QueuedFences(t) :
            CancelQueued(c, now, fence) \/ ReplayCancel(c, now, fence)
      BY <2>1
  <2>3. fence.task_id = t
      BY DEF QueuedFences
  <2> QED
      BY <2>2, <2>3, LeaselessAnswers
<1>9. ASSUME NEW c \in Callers, NEW now \in Times, MaintenanceStep(c, now)
      PROVE  AnswersTheHolder
    BY <1>1, <1>9 DEF MaintenanceStep, RecoverExpiredLeases, PruneDeadWorkers, ExpireOldTasks
<1>10. CASE Next
    BY <1>3, <1>4, <1>5, <1>6, <1>7, <1>8, <1>9, <1>10 DEF Next
<1> QED
    BY <1>2, <1>10

\* Nobody ends a task that has gone on without him: the lease a completion, cancellation or
\* failure of a leased task was accepted for is the one on record, the last one granted for
\* the task, unexpired and of a worker in service (ensure_current_lease).
THEOREM EndsAreTheHolders == Spec => OnlyHolderEnds
<1>1. FInv /\ [Next]_vars =>
          [\A a \in acks' \ acks : LET l == a.token IN
               tasks[l.task_id].lease # None =>
                   /\ l = tasks[l.task_id].lease
                   /\ l.attempt = Cardinality({m \in issued : m.task_id = l.task_id})
                   /\ logical_time' < l.expires_at
                   /\ workers[l.worker_id].generation = l.worker_generation
                   /\ workers[l.worker_id].status # "Offline"]_vars
  <2> SUFFICES ASSUME FInv, [Next]_vars, NEW a \in acks' \ acks,
                      tasks[a.token.task_id].lease # None
               PROVE  LET l == a.token IN
                      /\ l = tasks[l.task_id].lease
                      /\ l.attempt = Cardinality({m \in issued : m.task_id = l.task_id})
                      /\ logical_time' < l.expires_at
                      /\ workers[l.worker_id].generation = l.worker_generation
                      /\ workers[l.worker_id].status # "Offline"
      OBVIOUS
  <2> DEFINE t == a.token.task_id
  <2>1. /\ t \in DOMAIN tasks /\ a.token = tasks[t].lease
        /\ logical_time' < a.token.expires_at
      BY NextAnswers DEF AnswersTheHolder
  <2>2. t \in LeasedTasks
      BY <2>1 DEF LeasedTasks
  <2>3. /\ workers[a.token.worker_id].generation = a.token.worker_generation
        /\ workers[a.token.worker_id].status # "Offline"
      BY <2>1, <2>2 DEF FInv, IInv, WorkerCountersMatchLeases
  <2>4. a.token.attempt = tasks[t].attempt
      BY <2>1 DEF FInv, IInv, OwnershipMatchesStatus
  <2>5. tasks[t].attempt = Cardinality({m \in issued : m.task_id = t})
      BY <2>1 DEF FInv, LeasesAreCounted, LeasesFor
  <2> QED
      BY <2>1, <2>3, <2>4, <2>5
<1> QED
    BY <1>1, FencedInvariance, PTL DEF Spec, OnlyHolderEnds

\* Recovered tasks re-enter the queue in the order of their leases, behind every task that
\* was already waiting (leased_task_ids, apply_recovery).
THEOREM RecoveryOrdered == Spec => RecoveryKeepsLeaseOrder
<1>1. FInv /\ [Next]_vars =>
          [\A t, u \in DOMAIN tasks :
               tasks[t].lease # None /\ tasks'[t].status = "Queued" =>
                   /\ tasks[u].status = "Queued" /\ tasks'[u].status = "Queued" =>
                          tasks'[u].queue_key.enqueue_ordinal < tasks'[t].queue_key.enqueue_ordinal
                   /\ tasks[u].lease # None /\ tasks'[u].status = "Queued"
                      /\ tasks[u].lease.lease_id < tasks[t].lease.lease_id =>
                          tasks'[u].queue_key.enqueue_ordinal
                              < tasks'[t].queue_key.enqueue_ordinal]_vars
  <2> SUFFICES ASSUME FInv, [Next]_vars, NEW t \in DOMAIN tasks, NEW u \in DOMAIN tasks,
                      tasks[t].lease # None, tasks'[t].status = "Queued",
                      tasks'[u].status = "Queued",
                      \/ tasks[u].status = "Queued"
                      \/ /\ tasks[u].lease # None
                         /\ tasks[u].lease.lease_id < tasks[t].lease.lease_id
               PROVE  tasks'[u].queue_key.enqueue_ordinal < tasks'[t].queue_key.enqueue_ordinal
      OBVIOUS
  <2>1. CommandShape
      BY NextShape
  <2>2. \A x \in DOMAIN tasks : tasks[x].lease # None => tasks[x].status # "Queued"
      BY DEF FInv, IInv, OwnershipMatchesStatus
  <2>3. t \in DOMAIN tasks' /\ u \in DOMAIN tasks'
      BY <2>1 DEF CommandShape, RecordsMove
  <2>4. t \in Entering /\ t \in LeasedTasks
      BY <2>2, <2>3 DEF Entering, QueuedTasks, LeasedTasks
  <2>5. CASE tasks[u].status = "Queued"
    <3>1. u \in QueuedTasks \cap QueuedTasks'
        BY <2>3, <2>5 DEF QueuedTasks
    <3>2. tasks'[u] = tasks[u]
        BY <2>1, <3>1, MovingRecords DEF CommandShape
    <3>3. /\ tasks[u].queue_key.enqueue_ordinal < next_enqueue_ordinal
          /\ tasks[u].queue_key \in queue /\ queue \subseteq QueueKey
          /\ next_enqueue_ordinal \in Nat
        BY <3>1 DEF FInv, QueueMatchesRecords, IInv, TypeOK
    <3>4. tasks[u].queue_key.enqueue_ordinal \in Nat
        BY <3>3 DEF QueueKey
    <3>5. /\ tasks'[t].queue_key.enqueue_ordinal \in Nat
          /\ tasks'[t].queue_key.enqueue_ordinal >= next_enqueue_ordinal
        BY <2>1, <2>4 DEF CommandShape, QueueMoves
    <3> QED
        BY <3>2, <3>3, <3>4, <3>5
  <2>6. CASE tasks[u].lease # None /\ tasks[u].lease.lease_id < tasks[t].lease.lease_id
    <3>1. u \in Entering /\ u \in LeasedTasks
        BY <2>2, <2>3, <2>6 DEF Entering, QueuedTasks, LeasedTasks
    <3> QED
        BY <2>1, <2>4, <2>6, <3>1 DEF CommandShape, QueueMoves
  <2> QED
      BY <2>5, <2>6
<1> QED
    BY <1>1, FencedInvariance, PTL DEF Spec, RecoveryKeepsLeaseOrder

(***************************************************************************)
(* The refinement of TaskLifecycle                                         *)
(*                                                                         *)
(* A record that is not retained yet is an Unknown task; a granted record  *)
(* maps to Grant, a started one to Begin, a requeued one to Retry, an      *)
(* ended one to Complete, GiveUp or Drop, and every other to Stay.         *)
(***************************************************************************)
Phase(t) == IF t \in DOMAIN tasks THEN tasks[t].status ELSE "Unknown"
Owner(t) == IF t \in DOMAIN tasks THEN tasks[t].assigned_to ELSE None
Attempts(t) == IF t \in DOMAIN tasks THEN tasks[t].attempt ELSE 0

TaskMapsTo(t) ==
    \/ /\ Phase(t) = "Unknown" /\ Phase(t)' = "Queued"
       /\ Owner(t)' = None /\ Attempts(t)' = 0
    \/ /\ Phase(t) = "Queued" /\ Attempts(t) < max_retries + 1
       /\ Phase(t)' = "Leased" /\ Owner(t)' \in Workers /\ Attempts(t)' = Attempts(t) + 1
    \/ /\ Phase(t) = "Leased" /\ Phase(t)' = "Running"
       /\ Owner(t)' = Owner(t) /\ Attempts(t)' = Attempts(t)
    \/ /\ Phase(t) \in {"Leased", "Running"} /\ Attempts(t) < max_retries + 1
       /\ Phase(t)' = "Queued" /\ Owner(t)' = None /\ Attempts(t)' = Attempts(t)
    \/ /\ Phase(t) \in {"Leased", "Running"} /\ Attempts(t) = max_retries + 1
       /\ Phase(t)' = "Failed" /\ Owner(t)' = None /\ Attempts(t)' = Attempts(t)
    \/ /\ Phase(t) = "Running" /\ Phase(t)' = "Completed"
       /\ Owner(t)' = None /\ Attempts(t)' = Attempts(t)
    \/ /\ Phase(t) \in {"Queued", "Leased", "Running"} /\ Phase(t)' \in {"Cancelled", "Expired"}
       /\ Owner(t)' = None /\ Attempts(t)' = Attempts(t)
    \/ Phase(t)' = Phase(t) /\ Owner(t)' = Owner(t) /\ Attempts(t)' = Attempts(t)

LEMMA EveryTaskMaps ==
    ASSUME FInv, FInv', [Next]_vars, NEW t \in Tasks
    PROVE  TaskMapsTo(t)
<1> DEFINE e == tasks[t]  f == tasks'[t]
<1>1. RecordsMove
    BY NextShape DEF CommandShape
<1>2. CASE t \notin DOMAIN tasks'
  <2>1. t \notin DOMAIN tasks
      BY <1>1, <1>2 DEF RecordsMove
  <2> QED
      BY <1>2, <2>1 DEF TaskMapsTo, Phase, Owner, Attempts
<1>3. t \in DOMAIN tasks' =>
          /\ f.status = "Queued" => f.assigned_to = None
          /\ f.status \in TerminalStatus => f.assigned_to = None
          /\ f.status = "Leased" => f.assigned_to \in Workers
  <2> SUFFICES ASSUME t \in DOMAIN tasks'
               PROVE  /\ f.status = "Queued" => f.assigned_to = None
                      /\ f.status \in TerminalStatus => f.assigned_to = None
                      /\ f.status = "Leased" => f.assigned_to \in Workers
      OBVIOUS
  <2>1. /\ f.status \in {"Leased", "Running"} <=> f.lease # None
        /\ f.lease = None => f.assigned_to = None
        /\ f.lease # None => f.lease \in issued' /\ f.lease.worker_id = f.assigned_to
        /\ issued' \subseteq TaskLease
      BY DEF FInv, IInv, OwnershipMatchesStatus, TypeOK
  <2> QED
      BY <2>1 DEF TaskLease, TerminalStatus
<1>4. CASE t \in DOMAIN tasks' /\ t \notin DOMAIN tasks
  <2>1. RecordCreated(f)
      BY <1>1, <1>4 DEF RecordsMove
  <2> QED
      BY <1>3, <1>4, <2>1 DEF TaskMapsTo, Phase, Owner, Attempts, RecordCreated
<1>5. CASE t \in DOMAIN tasks
  <2>1. t \in DOMAIN tasks' /\ (f = e \/ RecordMoves(e, f))
      BY <1>1, <1>5 DEF RecordsMove
  <2>2. /\ e.status \in {"Leased", "Running"} <=> e.lease # None
        /\ e.retry_count <= max_retries
        /\ e.status = "Queued" => e.attempt = e.retry_count
        /\ e.lease # None => e.attempt = e.retry_count + 1
        /\ e.attempt \in Nat /\ e.retry_count \in Nat /\ max_retries \in Nat
      BY <1>5, LimitsAssumption DEF FInv, IInv, AttemptsMatchStatus, OwnershipMatchesStatus,
          TypeOK, TaskEntry, LimitsValid
  <2>3. /\ Phase(t) = e.status /\ Owner(t) = e.assigned_to /\ Attempts(t) = e.attempt
        /\ Phase(t)' = f.status /\ Owner(t)' = f.assigned_to /\ Attempts(t)' = f.attempt
      BY <1>5, <2>1 DEF Phase, Owner, Attempts
  <2> HIDE DEF e, f
  <2>4. CASE f = e
      BY <2>3, <2>4 DEF TaskMapsTo
  <2>5. CASE RecordGranted(e, f)
      BY <1>3, <2>1, <2>2, <2>3, <2>5 DEF TaskMapsTo, RecordGranted
  <2>6. CASE RecordStarted(e, f)
      BY <2>3, <2>6 DEF TaskMapsTo, RecordStarted, SameFences
  <2>7. CASE RecordRequeued(e, f)
      BY <1>3, <2>1, <2>2, <2>3, <2>7 DEF TaskMapsTo, RecordRequeued
  <2>8. CASE RecordEnded(e, f)
    <3>1. f.assigned_to = None /\ f.attempt = e.attempt
        BY <1>3, <2>1, <2>8 DEF RecordEnded, SameFences
    <3>2. CASE f.status = "Failed"
        BY <2>2, <2>3, <2>8, <3>1, <3>2 DEF TaskMapsTo, RecordEnded
    <3>3. CASE f.status # "Failed"
        BY <2>2, <2>3, <2>8, <3>1, <3>3 DEF TaskMapsTo, RecordEnded, ActiveStatus, TerminalStatus
    <3> QED
        BY <3>2, <3>3
  <2> QED
      BY <2>1, <2>4, <2>5, <2>6, <2>7, <2>8 DEF RecordMoves
<1> QED
    BY <1>1, <1>2, <1>4, <1>5 DEF RecordsMove

\* Seen task by task, every command is a step of the lifecycle or leaves the task alone: one
\* owner at a time, at most 1 + max_retries grants, completion only of a task that was begun,
\* failure only once the attempts are spent, and no way out of a terminal phase.
THEOREM LifecycleRefinement == Spec => ImplementsLifecycle
<1>1. Init => Lifecycle!Init
    BY DEF Init, Lifecycle!Init
<1>2. FInv /\ FInv' /\ [Next]_vars => [Lifecycle!Next]_(Lifecycle!vars)
  <2> SUFFICES ASSUME FInv, FInv', [Next]_vars
               PROVE  Lifecycle!Next
      OBVIOUS
  <2>1. ASSUME NEW t \in Tasks
        PROVE  Lifecycle!TaskStep(t) \/ Lifecycle!Stay(t)
    <3>1. TaskMapsTo(t)
        BY EveryTaskMaps
    <3> QED
        BY <3>1 DEF TaskMapsTo, Phase, Owner, Attempts, Lifecycle!TaskStep, Lifecycle!Stay,
            Lifecycle!Submit, Lifecycle!Grant, Lifecycle!Begin, Lifecycle!Retry,
            Lifecycle!GiveUp, Lifecycle!Complete, Lifecycle!Drop, Lifecycle!Becomes
  <2>2. \A t \in DOMAIN tasks' : /\ tasks'[t].status \in TaskStatus
                                 /\ tasks'[t].assigned_to \in Workers \cup {None}
                                 /\ tasks'[t].attempt \in 0..(max_retries + 1)
    <3> SUFFICES ASSUME NEW t \in DOMAIN tasks'
                 PROVE  /\ tasks'[t].status \in TaskStatus
                        /\ tasks'[t].assigned_to \in Workers \cup {None}
                        /\ tasks'[t].attempt \in 0..(max_retries + 1)
        OBVIOUS
    <3>1. /\ tasks'[t].status \in TaskStatus /\ tasks'[t].assigned_to \in Workers \cup {None}
          /\ tasks'[t].attempt \in Nat /\ tasks'[t].retry_count \in Nat
        BY DEF FInv, IInv, TypeOK, TaskEntry
    <3>2. /\ tasks'[t].attempt <= tasks'[t].retry_count + 1
          /\ tasks'[t].retry_count <= max_retries
        BY DEF FInv, AttemptsMatchStatus
    <3>3. max_retries \in Nat
        BY LimitsAssumption DEF LimitsValid
    <3> QED
        BY <3>1, <3>2, <3>3
  <2>3. 0 \in 0..(max_retries + 1)
      BY LimitsAssumption DEF LimitsValid
  <2> QED
      BY <2>1, <2>2, <2>3 DEF Lifecycle!Next, Lifecycle!Phases, Lifecycle!Ended, TaskStatus,
          ActiveStatus, TerminalStatus
<1> QED
    BY <1>1, <1>2, FencedInvariance, PTL DEF Spec, ImplementsLifecycle, Lifecycle!Spec

-----------------------------------------------------------------------------
(***************************************************************************)
(* The result store beside its coordinator, for every set of tasks,        *)
(* workers, callers and storers, every result and every limit.             *)
(*                                                                         *)
(* The store is told of a completion once and believes it ever after; that *)
(* the coordinator never takes a completion back is proved above and used  *)
(* here.                                                                   *)
(***************************************************************************)

\* The receipt r is that of the attempt that completed its task, as the records say.
IsOfCompletion(r, records) ==
    /\ r.task_id \in DOMAIN records /\ records[r.task_id].status = "Completed"
    /\ records[r.task_id].completion = r

\* What waits to be stored has the receipt of a completion.
JobsAreOfCompletions ==
    \A s \in Storers : job[s] # None => IsOfCompletion(job[s].receipt, tasks)

\* What is stored for a task has a receipt that names the task and is of its completion.
StoredUnderOwnTask ==
    \A t \in DOMAIN results :
        results[t].receipt.task_id = t /\ IsOfCompletion(results[t].receipt, tasks)

Sizes == [t \in DOMAIN results |-> results[t].bytes.size]

\* The inductive invariant.  StoredIsOfCompletion needs the jobs, which are taken from the
\* coordinator long before they are stored, and its own invariant.
SInv ==
    /\ FInv
    /\ raTypeOK
    /\ JobsAreOfCompletions
    /\ StoredUnderOwnTask
    /\ AnswersStayTrue
    /\ TotalIsExact

\* A completion the coordinator has recorded stays as it is, whatever it does next.
LEMMA CompletionsStay ==
    ASSUME FInv, [Next]_vars, NEW r, IsOfCompletion(r, tasks)
    PROVE  IsOfCompletion(r, tasks')
<1>1. RecordsMove
    BY NextShape DEF CommandShape
<1>2. tasks'[r.task_id] = tasks[r.task_id] /\ DOMAIN tasks \subseteq DOMAIN tasks'
    BY <1>1, MovingRecords DEF IsOfCompletion, TerminalStatus, RecordsMove
<1> QED
    BY <1>2 DEF IsOfCompletion

\* A receipt a storer may hold is that of a completion.
LEMMA ReceiptsAreOfCompletions ==
    ASSUME FInv, NEW r \in Receipts
    PROVE  r \in CompletionReceipt /\ IsOfCompletion(r, tasks)
<1>1. PICK a \in acks : a.status = "Completed" /\ r = tasks[a.token.task_id].completion
    BY DEF Receipts
<1> DEFINE t == a.token.task_id
<1>2. t \in DOMAIN tasks /\ tasks[t].status = "Completed"
    BY <1>1 DEF FInv, AcksAreRecorded, AckHolds
<1>3. HasReceipt(t, tasks[t])
    BY <1>2 DEF FInv, CompletionsHaveReceipts
<1> QED
    BY <1>1, <1>2, <1>3 DEF HasReceipt, IsOfCompletion

LEMMA InitSInv == raInit => SInv
<1> SUFFICES ASSUME raInit PROVE SInv
    OBVIOUS
<1>1. FInv
    BY InitFInv DEF raInit
<1>2. DOMAIN results = {} /\ total_bytes = 0 /\ told = None
    BY DEF raInit
<1>3. raTypeOK
  <2>1. 0 \in 0 .. max_total_bytes
    BY ResultLimitsAssumption
  <2>2. results \in [DOMAIN results -> StoredResult]
    BY <1>2
  <2> QED
    BY <1>2, <2>1, <2>2 DEF raTypeOK, raInit
<1>4. TotalIsExact
  <2>1. IsFiniteSet({}) /\ Sizes \in [{} -> Nat]
    BY <1>2, FS_EmptySet DEF Sizes
  <2>2. SumFunction(Sizes) = 0
    BY <2>1, TotalType
  <2> QED
    BY <1>2, <2>2 DEF TotalIsExact, Sizes
<1> QED
    BY <1>1, <1>2, <1>3, <1>4
    DEF SInv, JobsAreOfCompletions, StoredUnderOwnTask, AnswersStayTrue, raInit

\* The store does not move: what the coordinator does leaves its claims true.
LEMMA CoordinatorKeeps ==
    ASSUME SInv, [Next]_vars, UNCHANGED raVars
    PROVE  SInv'
<1>1. FInv'
    BY NextFInv DEF SInv
<1>2. UNCHANGED <<results, total_bytes, fresh, job, told>>
    BY DEF raVars, storeVars
<1>3. raTypeOK' /\ AnswersStayTrue' /\ TotalIsExact'
    BY <1>2 DEF SInv, raTypeOK, AnswersStayTrue, TotalIsExact
<1>4. JobsAreOfCompletions'
  <2> SUFFICES ASSUME NEW s \in Storers, job[s] # None PROVE IsOfCompletion(job[s].receipt, tasks')
    BY <1>2 DEF JobsAreOfCompletions
  <2>1. IsOfCompletion(job[s].receipt, tasks)
    BY DEF SInv, JobsAreOfCompletions
  <2> QED
    BY <2>1, CompletionsStay DEF SInv
<1>5. StoredUnderOwnTask'
  <2> SUFFICES ASSUME NEW t \in DOMAIN results
               PROVE  results[t].receipt.task_id = t /\ IsOfCompletion(results[t].receipt, tasks')
    BY <1>2 DEF StoredUnderOwnTask
  <2>1. results[t].receipt.task_id = t /\ IsOfCompletion(results[t].receipt, tasks)
    BY DEF SInv, StoredUnderOwnTask
  <2> QED
    BY <2>1, CompletionsStay DEF SInv
<1> QED
    BY <1>1, <1>3, <1>4, <1>5 DEF SInv

LEMMA ObtainKeeps ==
    ASSUME SInv, NEW s \in Storers, Obtain(s), UNCHANGED vars
    PROVE  SInv'
<1>1. UNCHANGED <<results, total_bytes, fresh, told, tasks>> /\ FInv'
    BY NextFInv DEF Obtain, storeVars, vars, taskVars, SInv
<1>2. PICK r \in Receipts, b \in Bytes : job' = [job EXCEPT ![s] = [receipt |-> r, bytes |-> b]]
    BY DEF Obtain
<1>3. r \in CompletionReceipt /\ IsOfCompletion(r, tasks)
    BY ReceiptsAreOfCompletions DEF SInv
<1>4. job' \in [Storers -> [receipt : CompletionReceipt, bytes : Bytes] \cup {None}]
    BY <1>2, <1>3 DEF SInv, raTypeOK
<1>5. raTypeOK' /\ AnswersStayTrue' /\ TotalIsExact'
    BY <1>1, <1>4 DEF SInv, raTypeOK, AnswersStayTrue, TotalIsExact
<1>6. JobsAreOfCompletions'
  <2> SUFFICES ASSUME NEW d \in Storers, job'[d] # None PROVE IsOfCompletion(job'[d].receipt, tasks')
    BY DEF JobsAreOfCompletions, IsOfCompletion
  <2>1. CASE d = s
    <3>1. job'[d].receipt = r
      BY <1>2, <2>1 DEF SInv, raTypeOK
    <3> QED
      BY <1>1, <1>3, <3>1 DEF IsOfCompletion
  <2>2. CASE d # s
    <3>1. job'[d] = job[d]
      BY <1>2, <2>2 DEF SInv, raTypeOK
    <3>2. IsOfCompletion(job[d].receipt, tasks)
      BY <3>1 DEF SInv, JobsAreOfCompletions
    <3> QED
      BY <1>1, <3>1, <3>2 DEF IsOfCompletion
  <2> QED
    BY <2>1, <2>2
<1>7. StoredUnderOwnTask'
    BY <1>1 DEF SInv, StoredUnderOwnTask, IsOfCompletion
<1> QED
    BY <1>1, <1>5, <1>6, <1>7 DEF SInv

LEMMA ReadRevisionKeeps ==
    ASSUME SInv, NEW s \in Storers, ReadRevision(s), UNCHANGED vars
    PROVE  SInv'
<1>1. UNCHANGED <<results, total_bytes, job, told, tasks>> /\ FInv' /\ fresh' = fresh \cup {s}
    BY NextFInv DEF ReadRevision, storeVars, vars, taskVars, SInv
<1>2. raTypeOK'
    BY <1>1 DEF SInv, raTypeOK
<1> QED
    BY <1>1, <1>2
    DEF SInv, AnswersStayTrue, TotalIsExact, JobsAreOfCompletions, StoredUnderOwnTask,
        IsOfCompletion

\* Storers that lose a job, or keep it, still hold receipts of completions.
LEMMA JobsShrink ==
    ASSUME SInv, NEW s \in Storers, job' = [job EXCEPT ![s] = None] \/ job' = job,
           UNCHANGED vars
    PROVE  /\ JobsAreOfCompletions'
           /\ job' \in [Storers -> [receipt : CompletionReceipt, bytes : Bytes] \cup {None}]
<1>1. job \in [Storers -> [receipt : CompletionReceipt, bytes : Bytes] \cup {None}]
    BY DEF SInv, raTypeOK
<1>2. tasks' = tasks
    BY DEF vars, taskVars
<1>3. \A d \in Storers : job'[d] # None => job'[d] = job[d]
    BY <1>1
<1> QED
    BY <1>1, <1>2, <1>3 DEF SInv, JobsAreOfCompletions, IsOfCompletion

\* An answer is true when it is given.
AnswerHolds(a, store) ==
    LET mine == [receipt |-> a.receipt, bytes |-> a.bytes]
        t == a.receipt.task_id
    IN  /\ a.outcome \in {"Stored", "AlreadyStored"} => t \in DOMAIN store /\ store[t] = mine
        /\ a.outcome \in {"ConflictingResult", "MismatchedResultReceipt"} =>
               t \in DOMAIN store /\ store[t] # mine

\* The part of an answer that store_result gives without storing.
LEMMA RefusalHolds ==
    ASSUME NEW r, NEW b, OutcomeOf(r, b) # "Stored"
    PROVE  AnswerHolds([receipt |-> r, bytes |-> b, outcome |-> OutcomeOf(r, b)], results)
<1>1. CASE r.task_id \in DOMAIN results /\ Replayed(r, b)
    BY <1>1 DEF OutcomeOf, Replayed, AnswerHolds
<1>2. CASE r.task_id \in DOMAIN results /\ ~Replayed(r, b)
    BY <1>2 DEF OutcomeOf, Replayed, AnswerHolds
<1>3. CASE r.task_id \notin DOMAIN results
    BY <1>3 DEF OutcomeOf, AnswerHolds
<1> QED
    BY <1>1, <1>2, <1>3

LEMMA OutcomeTyped ==
    ASSUME NEW r \in CompletionReceipt, NEW b \in Bytes
    PROVE  [receipt |-> r, bytes |-> b, outcome |-> OutcomeOf(r, b)] \in Told
<1>1. OutcomeOf(r, b) \in {"Stored", "AlreadyStored", "ConflictingResult",
                          "MismatchedResultReceipt", "LimitReached"}
    BY DEF OutcomeOf
<1> QED
    BY <1>1 DEF Told

\* A store that only answers changes nothing that is stored.
LEMMA RefuseKeeps ==
    ASSUME SInv, NEW s \in Storers, StoreResult(s), UNCHANGED vars,
           OutcomeOf(job[s].receipt, job[s].bytes) # "Stored"
    PROVE  SInv'
<1> DEFINE r == job[s].receipt
           b == job[s].bytes
           o == OutcomeOf(r, b)
           a == [receipt |-> r, bytes |-> b, outcome |-> o]
<1>1. /\ UNCHANGED <<results, total_bytes, fresh>>
      /\ \/ told' \in {told, a} /\ job' = [job EXCEPT ![s] = None]
         \/ told' = told /\ job' = job
    BY DEF StoreResult, Stores, Answer, ToldAnswer, storeVars
<1>2. tasks' = tasks /\ FInv'
    BY NextFInv DEF vars, taskVars, SInv
<1>3. r \in CompletionReceipt /\ b \in Bytes
    BY DEF StoreResult, SInv, raTypeOK
<1>4. a \in Told /\ AnswerHolds(a, results)
    BY <1>3, OutcomeTyped, RefusalHolds
<1> HIDE DEF a, o, r, b
<1>5. JobsAreOfCompletions'
      /\ job' \in [Storers -> [receipt : CompletionReceipt, bytes : Bytes] \cup {None}]
    BY <1>1, JobsShrink
<1>6. raTypeOK'
    BY <1>1, <1>4, <1>5 DEF SInv, raTypeOK
<1>7. AnswersStayTrue'
  <2>1. told' = told \/ told' = a
    BY <1>1
  <2>2. told # None => AnswerHolds(told, results)
    BY DEF SInv, AnswersStayTrue, AnswerHolds
  <2>3. told' # None => AnswerHolds(told', results')
    BY <1>1, <1>4, <2>1, <2>2
  <2> QED
    BY <2>3 DEF AnswersStayTrue, AnswerHolds
<1>8. StoredUnderOwnTask' /\ TotalIsExact'
    BY <1>1, <1>2 DEF SInv, StoredUnderOwnTask, IsOfCompletion, TotalIsExact
<1> QED
    BY <1>2, <1>5, <1>6, <1>7, <1>8 DEF SInv

\* A new result adds its size to the total and disturbs no other.
LEMMA CommitKeeps ==
    ASSUME SInv, NEW s \in Storers, StoreResult(s), UNCHANGED vars,
           OutcomeOf(job[s].receipt, job[s].bytes) = "Stored"
    PROVE  SInv'
<1> DEFINE r == job[s].receipt
           b == job[s].bytes
           t == r.task_id
           new == [receipt |-> r, bytes |-> b]
           a == [receipt |-> r, bytes |-> b, outcome |-> OutcomeOf(r, b)]
<1>1. /\ results' = With(r, b) /\ total_bytes' = total_bytes + b.size
      /\ \/ told' \in {told, a} /\ job' = [job EXCEPT ![s] = None] /\ fresh' = {s}
         \/ told' = told /\ job' = job /\ fresh' = {}
    BY DEF StoreResult, Stores, ToldAnswer
<1>2. tasks' = tasks /\ FInv'
    BY NextFInv DEF vars, taskVars, SInv
<1>3. r \in CompletionReceipt /\ b \in Bytes /\ IsOfCompletion(r, tasks)
    BY DEF StoreResult, SInv, raTypeOK, JobsAreOfCompletions
<1>4. t \notin DOMAIN results /\ Fits(b)
    BY DEF OutcomeOf
<1>5. a \in Told /\ a.outcome = "Stored" /\ a.receipt = r /\ a.bytes = b
    BY <1>3, OutcomeTyped
<1>6. /\ DOMAIN results' = DOMAIN results \cup {t} /\ results'[t] = new
      /\ \A u \in DOMAIN results : results'[u] = results[u]
    BY <1>1, <1>4 DEF With
<1>7. results' \in [DOMAIN results' -> StoredResult] /\ DOMAIN results' \subseteq Tasks
  <2>1. new \in StoredResult /\ t \in Tasks
    BY <1>3 DEF StoredResult, CompletionReceipt
  <2>2. \A u \in DOMAIN results : results[u] \in StoredResult
    BY DEF SInv, raTypeOK
  <2>3. \A u \in DOMAIN results' : results'[u] \in StoredResult
    BY <1>6, <2>1, <2>2
  <2>4. results' = [u \in DOMAIN results' |-> results'[u]]
    BY <1>1 DEF With
  <2> QED
    BY <1>6, <2>1, <2>3, <2>4 DEF SInv, raTypeOK
<1>8. b.size \in Nat /\ total_bytes' \in 0 .. max_total_bytes
    BY <1>1, <1>3, <1>4, BytesAssumption, ResultLimitsAssumption DEF Fits, SInv, raTypeOK
<1> HIDE DEF a, r, b
<1>9. JobsAreOfCompletions'
      /\ job' \in [Storers -> [receipt : CompletionReceipt, bytes : Bytes] \cup {None}]
    BY <1>1, JobsShrink
<1>10. raTypeOK'
    BY <1>1, <1>5, <1>7, <1>8, <1>9 DEF SInv, raTypeOK
<1>11. AnswersStayTrue'
  <2>1. told' = told \/ told' = a
    BY <1>1
  <2>2. told # None => AnswerHolds(told, results')
    <3>1. told # None => AnswerHolds(told, results)
      BY DEF SInv, AnswersStayTrue, AnswerHolds
    <3> QED
      BY <1>6, <3>1 DEF AnswerHolds
  <2>3. AnswerHolds(a, results')
    BY <1>5, <1>6 DEF AnswerHolds
  <2>4. told' # None => AnswerHolds(told', results')
    BY <2>1, <2>2, <2>3
  <2> QED
    BY <2>4 DEF AnswersStayTrue, AnswerHolds
<1>12. StoredUnderOwnTask'
  <2> SUFFICES ASSUME NEW u \in DOMAIN results'
               PROVE  results'[u].receipt.task_id = u /\ IsOfCompletion(results'[u].receipt, tasks')
    BY DEF StoredUnderOwnTask, IsOfCompletion
  <2>1. CASE u = t
    BY <1>2, <1>3, <1>6, <2>1 DEF IsOfCompletion
  <2>2. CASE u # t
    <3>1. results'[u] = results[u] /\ u \in DOMAIN results
      BY <1>6, <2>2
    <3>2. results[u].receipt.task_id = u /\ IsOfCompletion(results[u].receipt, tasks)
      BY <3>1 DEF SInv, StoredUnderOwnTask
    <3> QED
      BY <1>2, <3>1, <3>2 DEF IsOfCompletion
  <2> QED
    BY <2>1, <2>2
<1>13. TotalIsExact'
  <2>1. IsFiniteSet(DOMAIN results)
    BY InputsAssumption, FS_Subset DEF SInv, raTypeOK
  <2>2. /\ Sizes \in [DOMAIN results -> Nat] /\ Sizes' \in [DOMAIN results' -> Nat]
    <3>1. /\ \A u \in DOMAIN results : results[u] \in StoredResult
          /\ \A u \in DOMAIN results' : results'[u] \in StoredResult
      BY <1>7 DEF SInv, raTypeOK
    <3> QED
      BY <3>1, BytesAssumption DEF Sizes, StoredResult
  <2>3. (\A u \in DOMAIN results : Sizes'[u] = Sizes[u]) /\ Sizes'[t] = b.size
    BY <1>6 DEF Sizes
  <2>4. SumFunction(Sizes') = SumFunction(Sizes) + Sizes'[t]
    BY <1>4, <1>6, <2>1, <2>2, <2>3, TotalInsert
  <2>5. total_bytes = SumFunction(Sizes)
    BY DEF SInv, TotalIsExact, Sizes
  <2>6. total_bytes' = SumFunction(Sizes')
    BY <1>1, <2>3, <2>4, <2>5
  <2> QED
    BY <2>6 DEF TotalIsExact, Sizes
<1> QED
    BY <1>2, <1>9, <1>10, <1>11, <1>12, <1>13 DEF SInv

LEMMA NextSInv == SInv /\ [raNext]_<<vars, raVars>> => SInv'
<1> SUFFICES ASSUME SInv, [raNext]_<<vars, raVars>> PROVE SInv'
    OBVIOUS
<1>1. CASE [Next]_vars /\ UNCHANGED raVars
    BY <1>1, CoordinatorKeeps
<1>2. ASSUME NEW s \in Storers, Storing(s), UNCHANGED vars PROVE SInv'
    BY <1>2, ObtainKeeps, ReadRevisionKeeps, RefuseKeeps, CommitKeeps DEF Storing
<1> QED
    BY <1>1, <1>2 DEF raNext

\* What the store, the storers' jobs and every answer say of completions holds of every
\* behaviour of store and coordinator together.
THEOREM StoreInvariance == raSpec => []SInv
BY InitSInv, NextSInv, PTL DEF raSpec

\* A request that passes every check of aggregate_results fits its byte limit.
LEMMA ReadsFit == raTypeOK => AggregatesFit
<1> SUFFICES ASSUME raTypeOK, NEW ids \in Requested, Aggregates(ids)
             PROVE  SizeUpTo(ids, Len(ids)) <= max_aggregate_bytes
    BY DEF AggregatesFit
<1>1. PICK n \in 1 .. Cardinality(Tasks) : ids \in [1 .. n -> Tasks]
    BY DEF Requested
<1>2. n \in Nat /\ n >= 1 /\ ids \in Seq(Tasks) /\ Len(ids) = n
  <2>1. Cardinality(Tasks) \in Nat
    BY InputsAssumption, FS_CardinalityType
  <2>2. n \in Nat /\ n >= 1
    BY <2>1
  <2> QED
    BY <1>1, <2>2
<1>3. \A i \in 1 .. n : Fault(ids, i) = "none"
    BY <1>2 DEF Aggregates
<1>4. \A i \in 1 .. n : ids[i] \in DOMAIN results
    BY <1>3 DEF Fault
<1> DEFINE sizes == [i \in 1 .. n |-> results[ids[i]].bytes.size]
<1>5. sizes \in [1 .. n -> Nat]
  <2>1. \A i \in 1 .. n : results[ids[i]] \in StoredResult
    BY <1>4 DEF raTypeOK
  <2> QED
    BY <2>1, BytesAssumption DEF StoredResult
<1>6. SumFunction(sizes) \in Nat
  <2>1. IsFiniteSet(1 .. n)
    BY <1>2, FS_Interval
  <2> HIDE DEF sizes
  <2> QED
    BY <1>5, <2>1, TotalType
<1>7. SizeUpTo(ids, n) = SumFunction(sizes)
    BY DEF SizeUpTo
<1>8. ~(SizeUpTo(ids, n) > max_aggregate_bytes)
  <2>1. Fault(ids, n) = "none"
    BY <1>2, <1>3
  <2> QED
    BY <2>1 DEF Fault
<1> HIDE DEF sizes
<1>9. SizeUpTo(ids, n) \in Nat /\ max_aggregate_bytes \in Nat
    BY <1>6, <1>7, ResultLimitsAssumption
<1> QED
    BY <1>2, <1>8, <1>9

\* The store never says what is not so, however storers conflict, lose answers or read
\* revisions that are stale, and whatever attempts the coordinator recovers or retries
\* meanwhile: results belong to completions, answers stay true, the total is exact and a
\* read fits (store_result, aggregate_results).
THEOREM StoreTruthful == raSpec => []StoreIsTruthful
<1>1. SInv => StoreIsTruthful
  <2> SUFFICES ASSUME SInv PROVE StoreIsTruthful
    OBVIOUS
  <2>1. StoredIsOfCompletion
    BY DEF SInv, StoredUnderOwnTask, IsOfCompletion, StoredIsOfCompletion
  <2> QED
    BY <2>1, ReadsFit DEF SInv, StoreIsTruthful
<1> QED
    BY <1>1, StoreInvariance, PTL
=============================================================================
