SPECIFICATION rvFairSpec
CONSTANTS
    Sessions = {s1}
    NoSession = NoSession
    Conns = {k1}
    NoConn = NoConn
    Callbacks = {1, 2, 3}
    max_concurrent_requests = 1
    max_active_sessions = 1
    max_poll_events_per_response = 3
    max_callbacks = 3
    max_events = 3
    max_polls = 7
    max_provider_requests = 12
    Lifetime = 1
    Retention = 1
    MAX_DUPLICATE_HITS = 0
    polls_per_leg = 2
INVARIANTS
    VerdictIsFounded
PROPERTIES
    ReviewEnds
CHECK_DEADLOCK FALSE
