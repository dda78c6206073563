SPECIFICATION Spec
CONSTANTS
    s1 = s1
    s2 = s2
    u1 = u1
    u2 = u2
    None = None
    Scans <- MCScansShared
    Users = {u1, u2}
    Addresses <- MCAddresses
    Tids <- MCTids
    Spellings <- MCSpellings
    RawTids <- MCRawTids
    NormalizeAddress <- MCNormalize
    TrimId <- MCTrimId
    Bodies <- MCOneScanInvalid
    LegacyRows <- MCLegacy
    Handlers = {h1, h2}
    Deleters = {d1}
    Faults = {"tx", "commit", "cache", "publish", "crash"}
SYMMETRY MCSymmetry
INVARIANTS TypeOK CreditForResult ProjectionTruth AnswerTruth
PROPERTIES TerminalFinal NoResurrection ImplementsWalletScan
