SPECIFICATION OverlapSpec
CONSTANTS
    ann = ann
    eva = eva
    mia = mia
    pkg = pkg
    tool = tool
    home = home
    None = None
    Proc = {p1, p2}
    Login = {eva, mia}
    Name = {pkg}
    Project = {home}
    File <- MCFiles
    Url <- MCNoUrl
    Older <- MCNoOlder
    Maker = {mia}
    Quota = 1
    Serial = FALSE
    MaxTag = 2
    MaxRequests = 1
    MaxTasks = 3
    MaxWorkers = 1
    MaxFaults = 2
SYMMETRY MCInvocations
ACTION_CONSTRAINT OverlapBound
INVARIANTS BumpsBounded AppliesMend
CHECK_DEADLOCK FALSE
