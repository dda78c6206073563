SPECIFICATION FairSpec
CONSTANTS
    a = a
    b = b
    d = d
    u1 = u1
    url1 = url1
    url2 = url2
    s1 = s1
    c1 = c1
    f1 = f1
    s2 = s2
    c2 = c2
    NilUser = NilUser
    None = None
    g = g
    Scans = {a}
    Users = {u1}
    Owner <- MCUserOwner
    Url <- MCUrl
    Result <- MCEchoed
    Limit <- MCNoLimit
    Workers = {s1, c1, f1, c2}
    Subject <- MCTwoCompleters
    Sent <- MCContended
    Faults = {"status"}
INVARIANTS OutcomeAnnounced
PROPERTIES Drains
CHECK_DEADLOCK FALSE
