SPECIFICATION Spec
CONSTANTS
    Tasks = {t1, t2}
    Workers = {1}
    Callers = {c1}
    Maintainer = c1
    Priorities = {2}
    Capacities = {2}
    Loads = {0}
    LeaseTtls = {1}
    TaskTtls = {2}
    None = None
    max_task_records = 2
    max_active_tasks = 2
    max_queued_tasks = 2
    max_terminal_tasks = 2
    max_workers = 1
    max_retries = 1
    max_lease_ttl_secs = 1
    max_task_ttl_secs = 2
    heartbeat_timeout_secs = 1
    MaxTime = 2
    MaxGeneration = 3
SYMMETRY Symmetry
INVARIANTS
    CountersMatchRecords
    OwnershipMatchesStatus
    StateIsSound
    AcksAreTruthful
PROPERTIES
    RecoveryKeepsLeaseOrder
    ImplementsLifecycle
CHECK_DEADLOCK FALSE
