SPECIFICATION PeopleSpec
CONSTANTS
    ann = ann
    eva = eva
    mia = mia
    pkg = pkg
    tool = tool
    home = home
    None = None
    Proc = {p1}
    Login = {ann, eva, mia}
    Name = {pkg, tool}
    Project = {home}
    File <- MCFile
    Url <- MCUrl
    Older <- MCOlder
    Maker = {ann, mia}
    Quota = 1
    Serial = TRUE
    MaxTag = 2
    MaxRequests = 2
    MaxTasks = 2
    MaxWorkers = 1
    MaxFaults = 1
ACTION_CONSTRAINT PeopleBound
INVARIANTS OnRecord OwnRequest OneNamePerProject BlockedAreIdle
PROPERTIES BumpsEnd
CHECK_DEADLOCK FALSE
