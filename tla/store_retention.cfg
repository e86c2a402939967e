SPECIFICATION ScenesSpec
CONSTANTS
    a1 = a1
    a2 = a2
    o1 = o1
    c1 = c1
    edge = edge
    stable = stable
    None = None
    Proc = {p1}
    Ring = {edge}
    Pkg = {a1, a2, o1}
    Meta <- MCMeta
    Requests <- RetentionRequests
    Work = {"create", "gc"}
    CheckpointEvery = 2
    Keep = 2
    Serial = TRUE
    MaxReleases = 4
    SlotOrder <- MCSlotOrder
    Limits = {0, 1}
    MaxUnpaged = 1
ACTION_CONSTRAINT ReadsBound
INVARIANTS RetainedIntact WalkExact DiffExact
PROPERTY RetainedObjectsKept
