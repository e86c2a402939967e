SPECIFICATION Spec
CONSTANTS
    a1 = a1
    a2 = a2
    b1 = b1
    l1 = l1
    l2 = l2
    n1 = n1
    v1 = v1
    v2 = v2
    adv = adv
    osv = osv
    None = None
    Client = {c1, c2}
    Build = {a1, a2, b1, l1, l2, n1, v1, v2}
    Upstream = {"extra", "packages"}
    Size <- MCSize
    Large = {l1, l2}
    NameOf <- MCNameOf
    Deployments <- Twice
    PageSize = 2
    MaxFaults = 2
    Adv = {adv, osv}
    About <- MCAbout
    Affects <- MCAffects
    Osv = {osv}
    Embeds = {v1, v2}
    Newer <- MCNewer
    MaxRuns = 2
INVARIANT SealNamesTheBuild
CHECK_DEADLOCK FALSE
