CONSTANTS
    a1 = a1
    a2 = a2
    a3 = a3
    a4 = a4
    h1 = h1
    KnowledgeOnly = KnowledgeOnly
    NoHost = NoHost
    Bootstrap = Bootstrap
    IdOrder <- mcOrder
    Prerequisites <- mcPrerequisites
    Cost <- mcCost
    budget = 2
    Hypotheses = {h1}
    Motive <- mcMotive
    Target <- mcTarget
    Ranked <- mcOrder
    Rules <- WebRules
    Class <- mcClass
    Local = {a3}
    unsupported = {a4}
    Responses = {0, 2, 4}
    max_action_cycles = 3
    max_transitions = 3
    max_action_schedules = 1
    consecutive_failure_limit = 2
    max_total_requests = 4
    max_response_bytes = 2
    max_active_verifications = 1
    max_same_action_attempts = 2
    max_consecutive_no_progress_turns = 1
    ChunkBytes = 2
SPECIFICATION wrFairSpec
INVARIANTS
    ReportIsTrue
    RunStaysPermitted
PROPERTIES
    RunIsOneLife
