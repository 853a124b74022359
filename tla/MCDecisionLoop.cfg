CONSTANTS
    a1 = a1
    a2 = a2
    h1 = h1
    h2 = h2
    KnowledgeOnly = KnowledgeOnly
    NoHost = NoHost
    IdOrder <- mcOrder
    Prerequisites <- mcPrerequisites
    Cost <- mcCost
    budget = 1
    Hypotheses = {h1, h2}
    Motive <- mcMotive
    Target <- mcTarget
    Ranked <- mcOrder
    Rules <- mcRules
    Hosts <- mcHosts
    max_action_cycles = 2
    max_transitions = 3
    max_action_schedules = 1
    consecutive_failure_limit = 1
    MAX_REASONING_APPLY_ATTEMPTS = 2
SPECIFICATION dlFairSpec
INVARIANTS
    StoresAgree
    OutstandingIsLive
PROPERTIES
    NothingStaleCommits
    ImplementsLifecycle
    CallsReturn
