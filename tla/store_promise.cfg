SPECIFICATION Spec
CONSTANTS
    a1 = a1
    a2 = a2
    o1 = o1
    c1 = c1
    edge = edge
    stable = stable
    None = None
    Proc = {p1}
    Ring = {edge, stable}
    Pkg = {a1, a2, o1, c1}
    Meta <- MCMeta
    Requests <- PromiseRequests
    Work = {"create", "read", "render", "gc"}
    CheckpointEvery = 2
    Keep = 2
    Serial = TRUE
    MaxReleases = 3
ACTION_CONSTRAINT PromiseBound
INVARIANTS ReadExact SummaryExact RebuildExact ArtifactsCurrent
PROPERTY History
