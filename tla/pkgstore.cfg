SPECIFICATION Spec
CONSTANTS
    a = a
    b = b
    x = x
    y = y
    None = None
    User = User
    Name = {a, b}
    Path = {x, y}
    Manifest <- Manifests
    Requests <- MCRequests
    Fallible = {"run", "rollback", "recovery"}
    Reopens = TRUE
    MaxTx = 4
    MaxFaults = 3
INVARIANTS RestAgrees TrackedExact LeftoversAreRecorded
PROPERTIES Atomic Settles
