\* The scheduler, its bookkeeping, the tokens and the rings, one scene at a time.
SPECIFICATION Spec
CONSTANTS
    b1 = b1
    b2 = b2
    None = None
    Deployments <- MCScenes
    Opr = {1, 2}
    FetchBudget = 2
    MaxAttempts = 2
    MaxRows = 1
    Soak = 1440
INVARIANTS ScheduledOnce JobsMayFinish
PROPERTIES PausedWhileUp ProvenanceExact SoakHolds RollbackRestores
