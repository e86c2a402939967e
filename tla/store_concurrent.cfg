SPECIFICATION Spec
CONSTANTS
    a1 = a1
    a2 = a2
    o1 = o1
    c1 = c1
    edge = edge
    stable = stable
    None = None
    Proc = {p1, p2}
    Ring = {edge, stable}
    Pkg = {a1, a2, c1}
    Meta <- MCMeta
    Requests <- RacingRequests
    Work = {"create", "read"}
    CheckpointEvery = 2
    Keep = 1
    Serial = FALSE
    MaxReleases = 3
SYMMETRY ProcSymmetry
INVARIANTS LiveIsHead DeltaExact AllCanRebuild
