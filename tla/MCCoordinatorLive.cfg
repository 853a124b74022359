SPECIFICATION LiveSpec
CONSTANTS
    Tasks = {t1}
    Workers = {1}
    Callers = {c1, c2}
    Maintainer = c1
    Priorities = {2}
    Capacities = {2}
    Loads = {0, 10000}
    LeaseTtls = {1}
    TaskTtls = {2}
    None = None
    max_task_records = 1
    max_active_tasks = 1
    max_queued_tasks = 1
    max_terminal_tasks = 1
    max_workers = 1
    max_retries = 1
    max_lease_ttl_secs = 1
    max_task_ttl_secs = 2
    heartbeat_timeout_secs = 1
    MaxTime = 2
    MaxGeneration = 3
PROPERTIES
    LeasesEnd
    TasksEnd
CHECK_DEADLOCK FALSE
