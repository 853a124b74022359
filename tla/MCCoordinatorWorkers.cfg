SPECIFICATION Spec
CONSTANTS
    Tasks = {t1}
    Workers = {1, 2}
    Callers = {c1}
    Maintainer = c1
    Priorities = {2}
    Capacities = {1}
    Loads = {0}
    LeaseTtls = {1}
    TaskTtls = {2}
    None = None
    max_task_records = 1
    max_active_tasks = 1
    max_queued_tasks = 1
    max_terminal_tasks = 1
    max_workers = 2
    max_retries = 1
    max_lease_ttl_secs = 1
    max_task_ttl_secs = 2
    heartbeat_timeout_secs = 1
    MaxTime = 2
    MaxGeneration = 3
SYMMETRY Symmetry
INVARIANTS
    WorkerCountersMatchLeases
PROPERTIES
    FencesAdvance
    CompletedByLiveOwner
    OnlyHolderEnds
CHECK_DEADLOCK FALSE
