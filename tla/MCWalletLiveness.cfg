SPECIFICATION RetrySpec
CONSTANTS
    s1 = s1
    s2 = s2
    u1 = u1
    u2 = u2
    None = None
    Scans <- MCScans
    Users = {u1}
    Addresses <- MCAddresses
    Tids <- MCTids
    Spellings <- MCSpellings
    RawTids <- MCRawTids
    NormalizeAddress <- MCNormalize
    TrimId <- MCTrimId
    Bodies <- MCReopened
    LegacyRows <- MCNoLegacy
    Handlers = {h1, h2}
    Deleters = {}
    Faults = {"tx", "commit", "cache", "publish", "crash"}
PROPERTIES Announced Answered
