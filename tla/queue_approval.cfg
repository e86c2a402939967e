SPECIFICATION ApprovalSpec
CONSTANTS
    pkg = pkg
    owner = owner
    other = other
    home = home
    host = host
    draft = draft
    sync = sync
    None = None
    Worker = {home, host}
    Profile <- MCProfile
    Name = {pkg}
    OwnerOf <- MCOwnerOf
    Maintainer = {owner, other}
    Draft = {draft}
    Proc = {p1, p2}
    Ref = {draft}
    Rule = {sync}
    Work = {"review", "delete"}
    MaxAttempts = 1
    MaxTasks = 9
    MaxFaults = 1
SYMMETRY ProcSymmetry
ACTION_CONSTRAINT ApprovalBound
INVARIANTS EdgeIsTheProjects DoneIsServed
CHECK_DEADLOCK FALSE
