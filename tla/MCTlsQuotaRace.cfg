SPECIFICATION Spec
CONSTANTS
    a = a
    b = b
    d = d
    g = g
    u1 = u1
    url1 = url1
    url2 = url2
    s1 = s1
    c1 = c1
    f1 = f1
    s2 = s2
    c2 = c2
    NilUser = NilUser
    None = None
    Scans = {a, b}
    Users = {u1}
    Owner <- MCUserOwner
    Url <- MCUrl
    Result <- MCEchoed
    Limit <- MCLimitOne
    Workers = {s1, c1, s2, c2}
    Subject <- MCTwoInstances
    Sent <- MCTwoCompletions
    Faults = {}
INVARIANTS QuotaRespected
CHECK_DEADLOCK FALSE
