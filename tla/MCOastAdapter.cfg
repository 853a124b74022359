SPECIFICATION AdSpec
CONSTANTS
    Sessions = {s1}
    NoSession = NoSession
    Conns = {k1, k2}
    NoConn = NoConn
    Callbacks = {1, 2}
    max_concurrent_requests = 1
    max_active_sessions = 1
    max_poll_events_per_response = 1
    max_callbacks = 2
    max_events = 2
    max_polls = 3
    max_provider_requests = 7
    Lifetime = 1
    Retention = 1
    MAX_DUPLICATE_HITS = 0
INVARIANTS
    PagesAreWhole
    ObservationsAreExact
    SessionIsAgreed
SYMMETRY Symmetry
VIEW AdView
CHECK_DEADLOCK FALSE
