SPECIFICATION Spec
CONSTANTS
    pkg = pkg
    owner = owner
    other = other
    home = home
    host = host
    draft = draft
    sync = sync
    None = None
    Worker = {home, host}
    Profile <- MCProfile
    Name = {pkg}
    OwnerOf <- MCOwnerOf
    Maintainer = {owner, other}
    Draft = {draft}
    Proc = {p1}
    Ref = {draft}
    Rule = {sync}
    Work = {"build", "enqueue", "schedule", "queue", "beat", "cancel"}
    MaxAttempts = 2
    MaxTasks = 2
    MaxFaults = 2
PROPERTIES Settles Final
CHECK_DEADLOCK FALSE
