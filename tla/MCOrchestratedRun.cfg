SPECIFICATION orSpec
CONSTANTS
    Plans <- MCPlans
    Budgets <- MCBudgets
    ManifestBudget <- MCManifestBudget
    References <- MCReferences
    e1 = e1
    e2 = e2
    MaxCancels = 2
CHECK_DEADLOCK FALSE
INVARIANTS
    MutationIsAnsweredFor
PROPERTIES
    VerdictsAreEarned
