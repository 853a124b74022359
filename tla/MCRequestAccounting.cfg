SPECIFICATION LiveSpec
CONSTANTS
    Collectors = {c1, c2}
    None = None
    max_total_requests = 2
    max_response_bytes = 3
    max_request_body_bytes = 1
    max_active_verifications = 1
    max_dispatch_receipts = 1
    max_body_bytes = 2
    RequestBodies = {0, 1}
    ContentLengths = {2}
    MaxChunk = 2
INVARIANTS
    DispatchesWithinBudget
    OneCrossingChunk
    DispatchesAreAudited
    ResponsesAreAccounted
PROPERTIES
    DispatchesEnd
CHECK_DEADLOCK FALSE
