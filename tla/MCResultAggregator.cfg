SPECIFICATION raFairSpec
CONSTANTS
    Tasks = {t1, t2}
    Workers = {1}
    Callers = {c1}
    Maintainer = c1
    Priorities = {2}
    Capacities = {1}
    Loads = {0}
    LeaseTtls = {1}
    TaskTtls = {1}
    None = None
    max_task_records = 2
    max_active_tasks = 1
    max_queued_tasks = 1
    max_terminal_tasks = 2
    max_workers = 1
    max_retries = 0
    max_lease_ttl_secs = 1
    max_task_ttl_secs = 1
    heartbeat_timeout_secs = 1
    MaxTime = 1
    MaxGeneration = 1
    Storers = {r1, r2}
    Bytes <- MCBytes
    max_results = 2
    max_result_bytes = 2
    max_total_bytes = 2
    max_aggregate_items = 2
    max_aggregate_bytes = 1
INVARIANTS
    StoreIsTruthful
PROPERTIES
    DeliveryEnds
CHECK_DEADLOCK FALSE
