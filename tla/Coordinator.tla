---------------------------- MODULE Coordinator ----------------------------
(***************************************************************************)
(* The worker/task coordinator of termivar-scanner's `distributed` feature *)
(* (src/crates/termivar-scanner/src/distributed/).  Every clone of a       *)
(* WorkerPool and of its TaskQueue shares one mutex-guarded state, so each *)
(* command is one atomic action; the concurrency is between the callers,   *)
(* which act on revisions, leases and fences that may be stale by the time *)
(* they are presented.                                                     *)
(*                                                                         *)
(* A refused command returns an error and changes nothing: it is a         *)
(* stuttering step, so an action here is the accepted case of a command    *)
(* and its guard is the conjunction of the command's early returns.        *)
(*                                                                         *)
(* The revision is a counter only ever compared for equality with the one  *)
(* a caller last observed; it grows by one at each commit.  `current` is   *)
(* the set of callers whose observed revision is the coordinator's.        *)
(***************************************************************************)
EXTENDS Integers, FiniteSets

CONSTANTS
    Tasks,                  \* task ids callers may submit
    Workers,                \* worker ids, numbers so that ids have an order
    Maintainer,             \* the caller that runs the host's maintenance loop
    Callers,                \* hosts and threads that hold a clone of the pool
    Priorities,             \* TaskPriority values used, out of 1..4
    Capacities,             \* WorkerSpec.capacity values used
    Loads,                  \* utilisation in basis points, one for cpu, memory and network
    LeaseTtls,              \* lease_ttl_secs values callers ask for
    TaskTtls,               \* task_ttl_secs values callers ask for
    None,                   \* Option::None
    \* DistributedLimits
    max_task_records, max_active_tasks, max_queued_tasks, max_terminal_tasks,
    max_workers, max_retries, max_lease_ttl_secs, max_task_ttl_secs,
    heartbeat_timeout_secs,
    \* bounds of the model
    MaxTime,                \* largest logical second a caller supplies
    MaxGeneration           \* largest worker generation a reactivation creates

UTILIZATION_BASIS_POINTS == 10000

(***************************************************************************)
(* Data                                                                    *)
(***************************************************************************)
ActiveStatus   == {"Queued", "Leased", "Running"}
TerminalStatus == {"Completed", "Failed", "Cancelled", "Expired"}
TaskStatus     == ActiveStatus \cup TerminalStatus
WorkerStatus   == {"Healthy", "Busy", "Degraded", "Offline"}

TaskLease ==
    [task_id : Tasks, worker_id : Workers, worker_generation : Nat,
     task_generation : Nat, attempt : Nat, lease_id : Nat,
     acquired_at : Nat, expires_at : Nat]

QueuedTaskFence == [task_id : Tasks, task_generation : Nat, record_version : Nat]

CompletionReceipt ==
    [task_id : Tasks, task_generation : Nat, attempt : Nat, lease_id : Nat,
     worker_id : Workers, worker_generation : Nat, record_version : Nat]

\* Larger priorities sort first, then older ordinals (an ordinal is used once).
QueueKey == [inverted_priority : Int, enqueue_ordinal : Nat, task_id : Tasks]

\* ScanTask and the proofs its TaskEntry retains.
TaskEntry ==
    [status : TaskStatus, priority : Priorities, created_at : Nat,
     retry_count : Nat, attempt : Nat, task_generation : Nat,
     record_version : Nat, assigned_to : Workers \cup {None},
     lease : TaskLease \cup {None}, queue_key : QueueKey \cup {None},
     completion : CompletionReceipt \cup {None},
     cancellation : QueuedTaskFence \cup TaskLease \cup {None},
     failure : TaskLease \cup {None}]

WorkerNode ==
    [generation : Nat, status : WorkerStatus, capacity : Capacities,
     current_tasks : Nat, completed_tasks : Nat, last_heartbeat : Nat,
     load : Loads]

\* The terminal outcome a caller was told of, and the token it presented.
Ack == [token : QueuedTaskFence \cup TaskLease, status : TerminalStatus, record_version : Nat]

\* validate_limits: what WorkerPool::with_limits accepts.
LimitsValid ==
    /\ {max_task_records, max_active_tasks, max_queued_tasks, max_terminal_tasks,
        max_workers, max_lease_ttl_secs, max_task_ttl_secs, heartbeat_timeout_secs}
            \subseteq Nat \ {0}
    /\ max_retries \in Nat
    /\ max_active_tasks <= max_task_records
    /\ max_queued_tasks <= max_active_tasks
    /\ max_terminal_tasks <= max_task_records
    /\ max_terminal_tasks >= max_active_tasks

ASSUME LimitsAssumption == LimitsValid

ASSUME InputsAssumption ==
    /\ IsFiniteSet(Tasks) /\ IsFiniteSet(Workers) /\ Workers \subseteq Nat
    /\ Priorities \subseteq 1..4
    /\ Capacities \subseteq Nat \ {0}
    /\ Loads \subseteq 0..UTILIZATION_BASIS_POINTS
    /\ LeaseTtls \subseteq Nat /\ TaskTtls \subseteq Nat
    /\ MaxTime \in Nat /\ MaxGeneration \in Nat

ASSUME NoneAssumption ==
    /\ None \notin TaskLease /\ None \notin QueueKey /\ None \notin Workers
    /\ None \notin CompletionReceipt /\ None \notin QueuedTaskFence

VARIABLES
    current,                \* callers that hold the coordinator's revision
    logical_time,
    tasks,                  \* task id -> TaskEntry, for the retained records
    queue,                  \* the BTreeSet of queue keys
    workers,                \* worker id -> WorkerNode, for the registered ones
    active_tasks, terminal_tasks,
    next_enqueue_ordinal, next_lease_id,
    issued,                 \* every lease ever returned to a caller
    acks                    \* every terminal outcome ever returned to a caller

taskVars   == <<tasks, queue, active_tasks, terminal_tasks, next_enqueue_ordinal>>
leaseVars  == <<next_lease_id, issued>>
vars == <<current, logical_time, taskVars, workers, leaseVars, acks>>

Init ==
    /\ current = Callers
    /\ logical_time = 0
    /\ tasks = << >> /\ queue = {} /\ workers = << >>
    /\ active_tasks = 0 /\ terminal_tasks = 0
    /\ next_enqueue_ordinal = 1 /\ next_lease_id = 1
    /\ issued = {} /\ acks = {}

(***************************************************************************)
(* The revision and the logical clock                                      *)
(***************************************************************************)
\* preflight_command: the caller names the current revision and time does not regress.
Preflight(c, now) == c \in current /\ now >= logical_time

\* commit: the revision moves on; only the caller that made it move knows it.
Commit(c, now) == current' = {c} /\ logical_time' = now

\* WorkerPool::snapshot: the caller reads the revision.
Snapshot(c) ==
    /\ c \notin current
    /\ current' = current \cup {c}
    /\ UNCHANGED <<logical_time, taskVars, workers, leaseVars, acks>>

\* BTreeMap::insert.
Insert(map, key, value) ==
    [k \in DOMAIN map \cup {key} |-> IF k = key THEN value ELSE map[k]]

(***************************************************************************)
(* Workers                                                                 *)
(***************************************************************************)
NewNode(generation, capacity, load, completed, now) ==
    [generation |-> generation, status |-> "Healthy", capacity |-> capacity,
     current_tasks |-> 0, completed_tasks |-> completed, last_heartbeat |-> now,
     load |-> load]

RegisterWorker(c, now, w, capacity, load) ==
    /\ Preflight(c, now)
    /\ w \notin DOMAIN workers
    /\ Cardinality(DOMAIN workers) < max_workers
    /\ workers' = Insert(workers, w, NewNode(1, capacity, load, 0, now))
    /\ Commit(c, now)
    /\ UNCHANGED <<taskVars, leaseVars, acks>>

ReactivateWorker(c, now, w, generation, capacity, load) ==
    /\ Preflight(c, now)
    /\ w \in DOMAIN workers
    /\ workers[w].generation = generation
    /\ workers[w].status = "Offline" /\ workers[w].current_tasks = 0
    /\ generation < MaxGeneration
    /\ workers' = [workers EXCEPT
           ![w] = NewNode(generation + 1, capacity, load, @.completed_tasks, now)]
    /\ Commit(c, now)
    /\ UNCHANGED <<taskVars, leaseVars, acks>>

Observed(n, now, status, load) ==
    [n EXCEPT !.status = status, !.last_heartbeat = now, !.load = load]

UpdateWorker(c, now, w, generation, status, load) ==
    /\ status # "Offline"
    /\ Preflight(c, now)
    /\ w \in DOMAIN workers
    /\ workers[w].generation = generation
    /\ workers[w].status # "Offline"
    /\ workers' = [workers EXCEPT ![w] = Observed(@, now, status, load)]
    /\ Commit(c, now)
    /\ UNCHANGED <<taskVars, leaseVars, acks>>

\* The capacity left by the busiest resource, rounded up.
EffectiveCapacity(n) ==
    IF n.status # "Healthy" THEN 0
    ELSE (n.capacity * (UTILIZATION_BASIS_POINTS - n.load) + UTILIZATION_BASIS_POINTS - 1)
             \div UTILIZATION_BASIS_POINTS

AvailableSlots(n) ==
    IF EffectiveCapacity(n) > n.current_tasks THEN EffectiveCapacity(n) - n.current_tasks ELSE 0

\* now_secs.saturating_sub(last_heartbeat)
HeartbeatAge(n, now) == IF now > n.last_heartbeat THEN now - n.last_heartbeat ELSE 0

IsEligible(n, now) ==
    /\ n.status = "Healthy"
    /\ HeartbeatAge(n, now) <= heartbeat_timeout_secs
    /\ AvailableSlots(n) > 0

\* selection_key and the tie break of best_worker_id: more free slots, then a
\* fresher heartbeat, then a lower load, then the smaller id.
Preferred(a, b, now) ==
    LET x == workers[a]  y == workers[b] IN
    \/ AvailableSlots(x) > AvailableSlots(y)
    \/ /\ AvailableSlots(x) = AvailableSlots(y)
       /\ \/ HeartbeatAge(x, now) < HeartbeatAge(y, now)
          \/ /\ HeartbeatAge(x, now) = HeartbeatAge(y, now)
             /\ \/ x.load < y.load
                \/ x.load = y.load /\ a < b

IsBestWorker(w, now) ==
    /\ w \in DOMAIN workers /\ IsEligible(workers[w], now)
    /\ \A o \in DOMAIN workers \ {w} : IsEligible(workers[o], now) => Preferred(w, o, now)

(***************************************************************************)
(* Admission                                                               *)
(***************************************************************************)
NewKey(priority, ordinal, t) ==
    [inverted_priority |-> 255 - priority, enqueue_ordinal |-> ordinal, task_id |-> t]

NewEntry(t, priority, now) ==
    [status |-> "Queued", priority |-> priority, created_at |-> now,
     retry_count |-> 0, attempt |-> 0, task_generation |-> 0, record_version |-> 1,
     assigned_to |-> None, lease |-> None,
     queue_key |-> NewKey(priority, next_enqueue_ordinal, t),
     completion |-> None, cancellation |-> None, failure |-> None]

\* The capacity checks of enqueue; the last one reserves a terminal slot for
\* every admitted task.
Admissible ==
    /\ Cardinality(DOMAIN tasks) < max_task_records
    /\ active_tasks < max_active_tasks
    /\ Cardinality(queue) < max_queued_tasks
    /\ terminal_tasks + active_tasks + 1 <= max_terminal_tasks

Enqueue(c, now, t, priority) ==
    /\ Preflight(c, now)
    /\ t \notin DOMAIN tasks
    /\ Admissible
    /\ tasks' = Insert(tasks, t, NewEntry(t, priority, now))
    /\ queue' = queue \cup {NewKey(priority, next_enqueue_ordinal, t)}
    /\ next_enqueue_ordinal' = next_enqueue_ordinal + 1
    /\ active_tasks' = active_tasks + 1
    /\ Commit(c, now)
    /\ UNCHANGED <<terminal_tasks, workers, leaseVars, acks>>

(***************************************************************************)
(* Assignment                                                              *)
(***************************************************************************)
\* ensure_queue_entry
HasQueueEntry(t) ==
    /\ tasks[t].queue_key # None
    /\ tasks[t].queue_key \in queue /\ tasks[t].queue_key.task_id = t

PrepareAssignment(t, w, now, ttl) ==
    /\ ttl > 0 /\ ttl <= max_lease_ttl_secs
    /\ t \in DOMAIN tasks /\ tasks[t].status = "Queued" /\ HasQueueEntry(t)
    /\ w \in DOMAIN workers
    /\ workers[w].status = "Healthy"
    /\ HeartbeatAge(workers[w], now) <= heartbeat_timeout_secs
    /\ AvailableSlots(workers[w]) # 0
    /\ now + ttl <= MaxTime

NewLease(t, w, now, ttl) ==
    [task_id |-> t, worker_id |-> w, worker_generation |-> workers[w].generation,
     task_generation |-> tasks[t].task_generation, attempt |-> tasks[t].attempt + 1,
     lease_id |-> next_lease_id, acquired_at |-> now, expires_at |-> now + ttl]

Granted(e, lease) ==
    [e EXCEPT !.queue_key = None, !.status = "Leased", !.assigned_to = lease.worker_id,
              !.attempt = lease.attempt, !.lease = lease, !.record_version = @ + 1]

SlotTaken(n) == [n EXCEPT !.current_tasks = @ + 1]

ApplyAssignment(lease) ==
    LET t == lease.task_id IN
    /\ queue' = queue \ {tasks[t].queue_key}
    /\ tasks' = [tasks EXCEPT ![t] = Granted(@, lease)]
    /\ workers' = [workers EXCEPT ![lease.worker_id] = SlotTaken(@)]
    /\ next_lease_id' = next_lease_id + 1
    /\ issued' = issued \cup {lease}
    /\ UNCHANGED <<active_tasks, terminal_tasks, next_enqueue_ordinal, acks>>

\* queue.first()
IsNextTask(t) ==
    \E k \in queue :
        /\ k.task_id = t
        /\ \A o \in queue \ {k} :
               \/ k.inverted_priority < o.inverted_priority
               \/ /\ k.inverted_priority = o.inverted_priority
                  /\ k.enqueue_ordinal < o.enqueue_ordinal

AssignTask(c, now, t, w, ttl) ==
    /\ Preflight(c, now)
    /\ PrepareAssignment(t, w, now, ttl)
    /\ ApplyAssignment(NewLease(t, w, now, ttl))
    /\ Commit(c, now)

AssignNext(c, now, w, ttl) ==
    \E t \in Tasks : IsNextTask(t) /\ AssignTask(c, now, t, w, ttl)

AssignNextAvailable(c, now, ttl) ==
    \E w \in Workers : IsBestWorker(w, now) /\ AssignNext(c, now, w, ttl)

(***************************************************************************)
(* Running a lease                                                         *)
(***************************************************************************)
\* Mutants of EnsureCurrentLease: the lease is known by its worker alone; the deadline is
\* not compared.
EnsureOwner(lease, now) ==
    /\ lease.task_id \in DOMAIN tasks
    /\ tasks[lease.task_id].lease # None
    /\ tasks[lease.task_id].assigned_to = lease.worker_id
    /\ now < lease.expires_at

EnsureLeaseHeld(lease, now) ==
    lease.task_id \in DOMAIN tasks /\ tasks[lease.task_id].lease = lease

EnsureCurrentLease(lease, now) ==
    /\ lease.task_id \in DOMAIN tasks
    /\ LET e == tasks[lease.task_id] IN
       /\ e.lease = lease
       /\ e.task_generation = lease.task_generation
       /\ e.attempt = lease.attempt
       /\ e.assigned_to = lease.worker_id
    /\ now < lease.expires_at

Started(e) == [e EXCEPT !.status = "Running", !.record_version = @ + 1]

\* A lease whose task is already Running is answered without a commit.
StartTask(c, now, lease) ==
    /\ Preflight(c, now)
    /\ EnsureCurrentLease(lease, now)
    /\ tasks[lease.task_id].status = "Leased"
    /\ tasks' = [tasks EXCEPT ![lease.task_id] = Started(@)]
    /\ Commit(c, now)
    /\ UNCHANGED <<queue, active_tasks, terminal_tasks, next_enqueue_ordinal,
                   workers, leaseVars, acks>>

PreflightWorkerRelease(lease) ==
    /\ lease.worker_id \in DOMAIN workers
    /\ workers[lease.worker_id].generation = lease.worker_generation
    /\ workers[lease.worker_id].current_tasks # 0

\* Mutant of SlotFreed: the slot is not given back.
SlotKept(n, completions) == [n EXCEPT !.completed_tasks = @ + completions]

\* release_worker; complete_task also counts the completion.
SlotFreed(n, completions) ==
    [n EXCEPT !.current_tasks = @ - 1, !.completed_tasks = @ + completions]

ReleaseWorker(lease, completions) ==
    [workers EXCEPT ![lease.worker_id] = SlotFreed(@, completions)]

\* The record terminalize_queued_task leaves behind.
TerminalizeQueued(e, status) ==
    [e EXCEPT !.queue_key = None, !.status = status, !.record_version = @ + 1]

\* The record terminalize_leased_task leaves behind.
TerminalizeLeased(e, status) ==
    [e EXCEPT !.status = status, !.assigned_to = None, !.lease = None,
              !.record_version = @ + 1]

\* Mutant of CountTerminal: a batch is counted once.
CountTerminalOnce(n) ==
    LET m == IF n > 1 THEN 1 ELSE n IN
    active_tasks' = active_tasks - m /\ terminal_tasks' = terminal_tasks + m

CountTerminal(n) ==
    active_tasks' = active_tasks - n /\ terminal_tasks' = terminal_tasks + n

NewAck(token, e) ==
    [token |-> token, status |-> e.status, record_version |-> e.record_version]

NewReceipt(lease, e) ==
    [task_id |-> lease.task_id, task_generation |-> lease.task_generation,
     attempt |-> lease.attempt, lease_id |-> lease.lease_id,
     worker_id |-> lease.worker_id, worker_generation |-> lease.worker_generation,
     record_version |-> e.record_version + 1]

CompleteTask(c, now, lease) ==
    LET t == lease.task_id
        e == [TerminalizeLeased(tasks[t], "Completed") EXCEPT
                 !.completion = NewReceipt(lease, tasks[t])]
    IN
    /\ Preflight(c, now)
    /\ EnsureCurrentLease(lease, now)
    /\ tasks[t].status = "Running"
    /\ PreflightWorkerRelease(lease)
    /\ tasks' = [tasks EXCEPT ![t] = e]
    /\ workers' = ReleaseWorker(lease, 1)
    /\ CountTerminal(1)
    /\ acks' = acks \cup {NewAck(lease, e)}
    /\ Commit(c, now)
    /\ UNCHANGED <<queue, next_enqueue_ordinal, leaseVars>>

\* Mutant of MatchesLease: the attempt and the lease id are not compared.
MatchesOwner(receipt, lease) ==
    receipt.task_id = lease.task_id /\ receipt.worker_id = lease.worker_id

MatchesLease(receipt, lease) ==
    /\ receipt.task_id = lease.task_id
    /\ receipt.task_generation = lease.task_generation
    /\ receipt.attempt = lease.attempt
    /\ receipt.lease_id = lease.lease_id
    /\ receipt.worker_id = lease.worker_id
    /\ receipt.worker_generation = lease.worker_generation

\* The replay of a completion: the retained receipt is returned, nothing is committed.
ReplayComplete(c, now, lease) ==
    /\ Preflight(c, now)
    /\ lease.task_id \in DOMAIN tasks
    /\ tasks[lease.task_id].status = "Completed"
    /\ MatchesLease(tasks[lease.task_id].completion, lease)
    /\ acks' = acks \cup {NewAck(lease, tasks[lease.task_id])}
    /\ UNCHANGED <<current, logical_time, taskVars, workers, leaseVars>>

\* The ownership fences a caller may have read of a queued task, stale ones included.
QueuedFences(t) ==
    [task_id : {t}, task_generation : 0..tasks[t].task_generation,
     record_version : 1..tasks[t].record_version]

CancelQueued(c, now, fence) ==
    LET t == fence.task_id
        e == [TerminalizeQueued(tasks[t], "Cancelled") EXCEPT !.cancellation = fence]
    IN
    /\ Preflight(c, now)
    /\ tasks[t].status = "Queued"
    /\ tasks[t].task_generation = fence.task_generation
    /\ tasks[t].record_version = fence.record_version
    /\ HasQueueEntry(t)
    /\ tasks' = [tasks EXCEPT ![t] = e]
    /\ queue' = queue \ {tasks[t].queue_key}
    /\ CountTerminal(1)
    /\ acks' = acks \cup {NewAck(fence, e)}
    /\ Commit(c, now)
    /\ UNCHANGED <<next_enqueue_ordinal, workers, leaseVars>>

CancelLeased(c, now, lease) ==
    LET t == lease.task_id
        e == [TerminalizeLeased(tasks[t], "Cancelled") EXCEPT !.cancellation = lease]
    IN
    /\ Preflight(c, now)
    /\ EnsureCurrentLease(lease, now)
    /\ PreflightWorkerRelease(lease)
    /\ tasks' = [tasks EXCEPT ![t] = e]
    /\ workers' = ReleaseWorker(lease, 0)
    /\ CountTerminal(1)
    /\ acks' = acks \cup {NewAck(lease, e)}
    /\ Commit(c, now)
    /\ UNCHANGED <<queue, next_enqueue_ordinal, leaseVars>>

ReplayCancel(c, now, token) ==
    /\ Preflight(c, now)
    /\ token.task_id \in DOMAIN tasks
    /\ tasks[token.task_id].status = "Cancelled"
    /\ tasks[token.task_id].cancellation = token
    /\ acks' = acks \cup {NewAck(token, tasks[token.task_id])}
    /\ UNCHANGED <<current, logical_time, taskVars, workers, leaseVars>>

\* Mutants of Requeued: the assignee is not cleared; the version does not move.
RequeuedAssigned(t, ordinal) ==
    [tasks[t] EXCEPT !.status = "Queued", !.lease = None,
                     !.retry_count = @ + 1, !.task_generation = @ + 1,
                     !.record_version = @ + 1,
                     !.queue_key = NewKey(tasks[t].priority, ordinal, t)]
RequeuedSameVersion(t, ordinal) ==
    [tasks[t] EXCEPT !.status = "Queued", !.assigned_to = None, !.lease = None,
                     !.retry_count = @ + 1, !.task_generation = @ + 1,
                     !.queue_key = NewKey(tasks[t].priority, ordinal, t)]

\* The record a retry leaves behind, in fail_task and in apply_recovery.
Requeued(t, ordinal) ==
    [tasks[t] EXCEPT !.status = "Queued", !.assigned_to = None, !.lease = None,
                     !.retry_count = @ + 1, !.task_generation = @ + 1,
                     !.record_version = @ + 1,
                     !.queue_key = NewKey(tasks[t].priority, ordinal, t)]

FailTaskRetry(c, now, lease) ==
    LET t == lease.task_id  e == Requeued(t, next_enqueue_ordinal) IN
    /\ Preflight(c, now)
    /\ EnsureCurrentLease(lease, now)
    /\ tasks[t].status = "Running"
    /\ PreflightWorkerRelease(lease)
    /\ tasks[t].retry_count < max_retries
    /\ Cardinality(queue) < max_queued_tasks
    /\ workers' = ReleaseWorker(lease, 0)
    /\ tasks' = [tasks EXCEPT ![t] = e]
    /\ queue' = queue \cup {e.queue_key}
    /\ next_enqueue_ordinal' = next_enqueue_ordinal + 1
    /\ Commit(c, now)
    /\ UNCHANGED <<active_tasks, terminal_tasks, leaseVars, acks>>

FailTaskExhausted(c, now, lease) ==
    LET t == lease.task_id
        e == [TerminalizeLeased(tasks[t], "Failed") EXCEPT !.failure = lease]
    IN
    /\ Preflight(c, now)
    /\ EnsureCurrentLease(lease, now)
    /\ tasks[t].status = "Running"
    /\ PreflightWorkerRelease(lease)
    /\ tasks[t].retry_count >= max_retries
    /\ workers' = ReleaseWorker(lease, 0)
    /\ tasks' = [tasks EXCEPT ![t] = e]
    /\ CountTerminal(1)
    /\ acks' = acks \cup {NewAck(lease, e)}
    /\ Commit(c, now)
    /\ UNCHANGED <<queue, next_enqueue_ordinal, leaseVars>>

ReplayFail(c, now, lease) ==
    /\ Preflight(c, now)
    /\ lease.task_id \in DOMAIN tasks
    /\ tasks[lease.task_id].status = "Failed"
    /\ tasks[lease.task_id].failure = lease
    /\ acks' = acks \cup {NewAck(lease, tasks[lease.task_id])}
    /\ UNCHANGED <<current, logical_time, taskVars, workers, leaseVars>>

(***************************************************************************)
(* Recovery                                                                *)
(***************************************************************************)
LeasedTasks == {t \in DOMAIN tasks : tasks[t].lease # None}

\* Mutant of Retryable: one retry too many.
RetryableOneMore(S) == {t \in S : tasks[t].retry_count <= max_retries}

Retryable(S) == {t \in S : tasks[t].retry_count < max_retries}

LeasesOf(S, w) == {t \in S : tasks[t].lease.worker_id = w}

\* Mutant of PreflightRecovery: the last free queue slot is never used.
PreflightRecoveryShort(S) ==
    /\ Cardinality(queue) + Cardinality(Retryable(S)) < max_queued_tasks
    /\ \A t \in S : PreflightWorkerRelease(tasks[t].lease)

\* preflight_recovery: all of the leases can be recovered, or none is.
PreflightRecovery(S) ==
    /\ Cardinality(queue) + Cardinality(Retryable(S)) <= max_queued_tasks
    /\ \A t \in S : tasks[t].status \in {"Leased", "Running"}
                    /\ PreflightWorkerRelease(tasks[t].lease)
    /\ \A w \in DOMAIN workers :
           Cardinality(LeasesOf(S, w)) <= workers[w].current_tasks

\* Mutants of RecoveryOrdinal: every retry takes the same ordinal; latest lease first.
RecoveryOrdinalShared(S, t) == next_enqueue_ordinal

RecoveryOrdinalLatestFirst(S, t) ==
    next_enqueue_ordinal
        + Cardinality({u \in Retryable(S) : tasks[u].lease.lease_id > tasks[t].lease.lease_id})

\* leased_task_ids is in lease order, so the n-th retry gets the n-th new ordinal.
RecoveryOrdinal(S, t) ==
    next_enqueue_ordinal
        + Cardinality({u \in Retryable(S) : tasks[u].lease.lease_id < tasks[t].lease.lease_id})

\* apply_recovery for each task of S; release_worker gives `released`.
ApplyRecovery(S) ==
    /\ tasks' = [t \in DOMAIN tasks |->
                    IF t \in Retryable(S) THEN Requeued(t, RecoveryOrdinal(S, t))
                    ELSE IF t \in S THEN TerminalizeLeased(tasks[t], "Failed")
                    ELSE tasks[t]]
    /\ queue' = queue \cup {Requeued(t, RecoveryOrdinal(S, t)).queue_key : t \in Retryable(S)}
    /\ next_enqueue_ordinal' = next_enqueue_ordinal + Cardinality(Retryable(S))
    /\ CountTerminal(Cardinality(S \ Retryable(S)))

SlotsFreed(n, slots) == [n EXCEPT !.current_tasks = @ - slots]

Released(S) ==
    [w \in DOMAIN workers |-> SlotsFreed(workers[w], Cardinality(LeasesOf(S, w)))]

\* Fence a worker's generation and take it out of service.
WentOffline(n) == [n EXCEPT !.status = "Offline", !.generation = @ + 1]

DeregisterWorker(c, now, w, generation) ==
    LET S == LeasesOf(LeasedTasks, w) IN
    /\ Preflight(c, now)
    /\ w \in DOMAIN workers
    /\ workers[w].generation = generation
    /\ workers[w].status # "Offline"
    /\ PreflightRecovery(S)
    /\ ApplyRecovery(S)
    /\ workers' = [x \in DOMAIN workers |->
                      IF x = w THEN WentOffline(Released(S)[x]) ELSE Released(S)[x]]
    /\ Commit(c, now)
    /\ UNCHANGED <<leaseVars, acks>>

ExpiredLeases(now) == {t \in LeasedTasks : now >= tasks[t].lease.expires_at}

RecoverExpiredLeases(c, now) ==
    LET S == ExpiredLeases(now) IN
    /\ Preflight(c, now)
    /\ PreflightRecovery(S)
    /\ ApplyRecovery(S)
    /\ workers' = Released(S)
    /\ Commit(c, now)
    /\ UNCHANGED <<leaseVars, acks>>

DeadWorkers(now) ==
    {w \in DOMAIN workers :
        workers[w].status # "Offline" /\ HeartbeatAge(workers[w], now) > heartbeat_timeout_secs}

PruneDeadWorkers(c, now) ==
    LET S == {t \in LeasedTasks : tasks[t].lease.worker_id \in DeadWorkers(now)} IN
    /\ Preflight(c, now)
    /\ PreflightRecovery(S)
    /\ ApplyRecovery(S)
    /\ workers' = [w \in DOMAIN workers |->
                      IF w \in DeadWorkers(now) THEN WentOffline(Released(S)[w])
                      ELSE Released(S)[w]]
    /\ Commit(c, now)
    /\ UNCHANGED <<leaseVars, acks>>

\* Mutant of OldTasks: a task must outlive its ttl.
OldTasksStrict(now, ttl) ==
    {t \in DOMAIN tasks : tasks[t].status \in ActiveStatus /\ now - tasks[t].created_at > ttl}

\* age_secs >= task_ttl_secs
OldTasks(now, ttl) ==
    {t \in DOMAIN tasks : tasks[t].status \in ActiveStatus /\ now - tasks[t].created_at >= ttl}

ExpireOldTasks(c, now, ttl) ==
    LET S == OldTasks(now, ttl)
        Q == {t \in S : tasks[t].status = "Queued"}
    IN
    /\ ttl # 0 /\ ttl <= max_task_ttl_secs
    /\ Preflight(c, now)
    /\ \A t \in Q : HasQueueEntry(t)
    /\ \A t \in S \ Q : tasks[t].lease # None /\ PreflightWorkerRelease(tasks[t].lease)
    /\ tasks' = [t \in DOMAIN tasks |->
                    IF t \in Q THEN TerminalizeQueued(tasks[t], "Expired")
                    ELSE IF t \in S THEN TerminalizeLeased(tasks[t], "Expired")
                    ELSE tasks[t]]
    /\ queue' = queue \ {tasks[t].queue_key : t \in Q}
    /\ workers' = Released(S \ Q)
    /\ CountTerminal(Cardinality(S))
    /\ Commit(c, now)
    /\ UNCHANGED <<next_enqueue_ordinal, leaseVars, acks>>

(***************************************************************************)
(* The specification                                                       *)
(***************************************************************************)
Times == 0..MaxTime
Generations == 1..MaxGeneration

WorkerStep(c, now) ==
    \E w \in Workers :
        \/ \E cap \in Capacities, load \in Loads : RegisterWorker(c, now, w, cap, load)
        \/ \E g \in Generations, cap \in Capacities, load \in Loads :
               ReactivateWorker(c, now, w, g, cap, load)
        \/ \E g \in Generations, s \in WorkerStatus, load \in Loads :
               UpdateWorker(c, now, w, g, s, load)
        \/ \E g \in Generations : DeregisterWorker(c, now, w, g)

AssignStep(c, now) ==
    \E ttl \in LeaseTtls :
        \/ \E t \in Tasks, w \in Workers : AssignTask(c, now, t, w, ttl)
        \/ \E w \in Workers : AssignNext(c, now, w, ttl)
        \/ AssignNextAvailable(c, now, ttl)

LeaseStep(c, now) ==
    \E lease \in issued :
        \/ StartTask(c, now, lease)
        \/ CompleteTask(c, now, lease) \/ ReplayComplete(c, now, lease)
        \/ CancelLeased(c, now, lease) \/ ReplayCancel(c, now, lease)
        \/ FailTaskRetry(c, now, lease)
        \/ FailTaskExhausted(c, now, lease) \/ ReplayFail(c, now, lease)

FenceStep(c, now) ==
    \E t \in DOMAIN tasks : \E fence \in QueuedFences(t) :
        CancelQueued(c, now, fence) \/ ReplayCancel(c, now, fence)

MaintenanceStep(c, now) ==
    \/ RecoverExpiredLeases(c, now)
    \/ PruneDeadWorkers(c, now)
    \/ \E ttl \in TaskTtls : ExpireOldTasks(c, now, ttl)

Next ==
    \E c \in Callers :
        \/ Snapshot(c)
        \/ \E now \in Times :
               \/ \E t \in Tasks, p \in Priorities : Enqueue(c, now, t, p)
               \/ WorkerStep(c, now)
               \/ AssignStep(c, now)
               \/ LeaseStep(c, now)
               \/ FenceStep(c, now)
               \/ MaintenanceStep(c, now)

Spec == Init /\ [][Next]_vars

\* No thread of the library recovers or expires anything by itself; the host is assumed to
\* run a maintenance loop that reads the revision and calls the two commands again and
\* again, with a clock that reaches MaxTime.  Other callers may take the revision away
\* between its read and its command, hence strong fairness.
Fairness ==
    /\ WF_vars(Snapshot(Maintainer))
    /\ SF_vars(RecoverExpiredLeases(Maintainer, MaxTime))
    /\ SF_vars(\E ttl \in TaskTtls : ExpireOldTasks(Maintainer, MaxTime, ttl))

LiveSpec == Spec /\ Fairness

(***************************************************************************)
(* Invariants                                                              *)
(***************************************************************************)
\* Every field keeps the type its Rust declaration gives it; in particular no
\* unsigned counter (active_tasks, current_tasks) is ever decremented below zero.
TypeOK ==
    /\ current \subseteq Callers
    /\ logical_time \in Nat
    /\ DOMAIN tasks \subseteq Tasks /\ tasks \in [DOMAIN tasks -> TaskEntry]
    /\ queue \subseteq QueueKey
    /\ DOMAIN workers \subseteq Workers /\ workers \in [DOMAIN workers -> WorkerNode]
    /\ active_tasks \in Nat /\ terminal_tasks \in Nat
    /\ next_enqueue_ordinal \in Nat /\ next_lease_id \in Nat
    /\ issued \subseteq TaskLease
    /\ acks \subseteq Ack

ActiveTasks == {t \in DOMAIN tasks : tasks[t].status \in ActiveStatus}
QueuedTasks == {t \in DOMAIN tasks : tasks[t].status = "Queued"}

\* The two counters kept beside the records count the records
\* (check_state_invariants, coordinator.rs:987).
CountersMatchRecords ==
    /\ active_tasks = Cardinality(ActiveTasks)
    /\ terminal_tasks = Cardinality(DOMAIN tasks \ ActiveTasks)

\* A record's status, queue key, assignee and lease tell the same story, and the
\* lease carries the record's own fences (check_state_invariants, coordinator.rs:1006).
OwnershipMatchesStatus ==
    \A t \in DOMAIN tasks : LET e == tasks[t] IN
        /\ e.record_version > 0
        /\ e.status = "Queued" <=> e.queue_key # None
        /\ e.status \in {"Leased", "Running"} <=> e.lease # None
        /\ e.lease = None => e.assigned_to = None
        /\ e.lease # None =>
               /\ e.lease \in issued
               /\ e.lease.task_id = t /\ e.lease.worker_id = e.assigned_to
               /\ e.lease.task_generation = e.task_generation
               /\ e.lease.attempt = e.attempt

\* The queue holds exactly one key per queued task, with the task's priority, and
\* no two keys share an ordinal, so the queue order is total.
QueueMatchesRecords ==
    /\ queue = {tasks[t].queue_key : t \in QueuedTasks}
    /\ \A t \in QueuedTasks :
           /\ tasks[t].queue_key.task_id = t
           /\ tasks[t].queue_key.inverted_priority = 255 - tasks[t].priority
           /\ tasks[t].queue_key.enqueue_ordinal < next_enqueue_ordinal
    /\ \A k, o \in queue : k.enqueue_ordinal = o.enqueue_ordinal => k = o

\* No task is attempted more often than 1 + max_retries times, every attempt has a lease
\* of its own and no two leases ever issued share an id
\* (prepare_assignment, fail_task and apply_recovery).
AttemptsAreFenced ==
    /\ \A t \in DOMAIN tasks : LET e == tasks[t] IN
           /\ e.task_generation = e.retry_count /\ e.retry_count <= max_retries
           /\ e.attempt <= e.retry_count + 1
           /\ e.attempt = Cardinality({l \in issued : l.task_id = t})
    /\ \A l, m \in issued : l.lease_id = m.lease_id => l = m

\* A worker's current_tasks counts exactly the leases its present generation holds and
\* never exceeds its capacity; no lease outlives its worker's generation
\* (check_state_invariants, coordinator.rs:1068).
WorkerCountersMatchLeases ==
    /\ \A w \in DOMAIN workers :
           /\ workers[w].current_tasks = Cardinality(LeasesOf(LeasedTasks, w))
           /\ workers[w].current_tasks <= workers[w].capacity
    /\ \A t \in LeasedTasks : LET l == tasks[t].lease IN
           /\ l.worker_id \in DOMAIN workers
           /\ workers[l.worker_id].generation = l.worker_generation
           /\ workers[l.worker_id].status # "Offline"

\* The state stays sound through every sequence of commands (check_state_invariants,
\* coordinator.rs:977-1071): it is well typed, queue and attempts agree with the records,
\* between which recovery, retry and cancellation each move a task, and every slot taken
\* is that of a lease, however many a bulk command takes away at once.
StateIsSound ==
    TypeOK /\ QueueMatchesRecords /\ AttemptsAreFenced /\ WorkerCountersMatchLeases

\* Whatever a caller was told about the end of a task stays true, and it was told so only
\* for the token that ended it: a replay never acknowledges another attempt's outcome
\* (the replay branches of complete_task, cancel_task and fail_task).
AcksAreTruthful ==
    \A a \in acks : LET e == tasks[a.token.task_id] IN
        /\ e.status = a.status /\ e.record_version = a.record_version
        /\ a.status = "Completed" => e.completion.lease_id = a.token.lease_id
        /\ a.status = "Cancelled" => e.cancellation = a.token
        /\ a.status = "Failed"    => e.failure = a.token

(***************************************************************************)
(* Action properties                                                       *)
(***************************************************************************)

\* Every change of a record moves its version by exactly one, and fences never go back, so
\* a queued fence or a lease read before a change is refused after it; a worker that goes
\* offline or comes back does so under a new generation.
FencesAdvance ==
    [][/\ \A t \in DOMAIN tasks : LET e == tasks[t]  f == tasks'[t] IN
              /\ f # e => f.record_version = e.record_version + 1
              /\ f.attempt >= e.attempt /\ f.task_generation >= e.task_generation
              /\ e.lease # None /\ f.status = "Queued" => f.task_generation > e.task_generation
       /\ \A w \in DOMAIN workers :
              /\ workers'[w].generation >= workers[w].generation
              /\ (workers'[w].status = "Offline") # (workers[w].status = "Offline")
                     => workers'[w].generation > workers[w].generation]_vars

\* A task completes only while the lease that completes it is unexpired and the worker that
\* holds it is in service under the generation the lease was granted to: no result is
\* accepted from a worker that was fenced off, pruned or too late.
CompletedByLiveOwner ==
    [][\A t \in DOMAIN tasks :
           tasks[t].status # "Completed" /\ tasks'[t].status = "Completed" =>
               LET l == tasks[t].lease IN
               /\ l # None /\ logical_time' < l.expires_at
               /\ workers[l.worker_id].generation = l.worker_generation
               /\ workers[l.worker_id].status # "Offline"]_vars

\* Nobody ends a task that has gone on without him: whoever is told that he completed,
\* cancelled or failed a leased task presented the lease on record, which is the last one
\* granted for the task, in time and for a worker that is in service.  A token of an earlier
\* attempt, of the same worker or another, ends nothing (ensure_current_lease).
OnlyHolderEnds ==
    [][\A a \in acks' \ acks : LET l == a.token IN
           tasks[l.task_id].lease # None =>
               /\ l = tasks[l.task_id].lease
               /\ l.attempt = Cardinality({m \in issued : m.task_id = l.task_id})
               /\ logical_time' < l.expires_at
               /\ workers[l.worker_id].generation = l.worker_generation
               /\ workers[l.worker_id].status # "Offline"]_vars

\* Tasks recovered by one command re-enter the queue in the order in which their leases were
\* granted, behind every task that was already waiting (leased_task_ids, recovery.rs:17).
RecoveryKeepsLeaseOrder ==
    [][\A t, u \in DOMAIN tasks :
           tasks[t].lease # None /\ tasks'[t].status = "Queued" =>
               /\ tasks[u].status = "Queued" /\ tasks'[u].status = "Queued" =>
                      tasks'[u].queue_key.enqueue_ordinal < tasks'[t].queue_key.enqueue_ordinal
               /\ tasks[u].lease # None /\ tasks'[u].status = "Queued"
                  /\ tasks[u].lease.lease_id < tasks[t].lease.lease_id =>
                      tasks'[u].queue_key.enqueue_ordinal < tasks'[t].queue_key.enqueue_ordinal]_vars

(***************************************************************************)
(* Liveness                                                                *)
(***************************************************************************)
HoldsAttempt(t, n) ==
    t \in DOMAIN tasks /\ tasks[t].lease # None /\ tasks[t].attempt = n

\* Where the queue may hold every active task, no attempt keeps its lease for ever: it is
\* ended by its worker or recovered once its deadline has passed (recover_expired_leases).
LeasesEnd ==
    \A t \in Tasks, n \in 1..(max_retries + 1) : HoldsAttempt(t, n) ~> ~HoldsAttempt(t, n)

\* Every task that is submitted early enough to outlive its ttl ends, even when no worker
\* is left that would take it (expire_old_tasks).
TasksEnd ==
    \A t \in Tasks :
        (t \in DOMAIN tasks /\ \A ttl \in TaskTtls : tasks[t].created_at + ttl <= MaxTime)
            ~> (t \in DOMAIN tasks /\ tasks[t].status \in TerminalStatus)

(***************************************************************************)
(* The coordinator implements the task lifecycle                           *)
(***************************************************************************)
Lifecycle == INSTANCE TaskLifecycle WITH
    Nobody <- None,
    MaxAttempts <- max_retries + 1,
    phase <- [t \in Tasks |-> IF t \in DOMAIN tasks THEN tasks[t].status ELSE "Unknown"],
    owner <- [t \in Tasks |-> IF t \in DOMAIN tasks THEN tasks[t].assigned_to ELSE None],
    attempts <- [t \in Tasks |-> IF t \in DOMAIN tasks THEN tasks[t].attempt ELSE 0]

\* Seen task by task, every command of the coordinator is a step of the lifecycle or leaves
\* the task alone: one owner at a time, at most 1 + max_retries grants, completion only by
\* the owner, failure only once the attempts are spent.
ImplementsLifecycle == Lifecycle!Spec

=============================================================================
