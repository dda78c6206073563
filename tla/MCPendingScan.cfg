SPECIFICATION FairSpec
CONSTANTS
    s1 = s1
    s2 = s2
    t1 = t1
    k1 = k1
    h1 = h1
    h2 = h2
    None = None
    Scans = {s1, s2, t1}
    Owners = {k1}
    Target <- MCTarget
    Handlers = {h1, h2}
    Faults = {"fail", "lost", "crash"}
    Patient = TRUE
INVARIANTS TypeOK GrantHolds UnreserveFrees LookupFinds
PROPERTIES LeakEnds
