SPECIFICATION Spec
CONSTANTS
    a = a
    b = b
    d = d
    u1 = u1
    url1 = url1
    url2 = url2
    s1 = s1
    c1 = c1
    f1 = f1
    s2 = s2
    c2 = c2
    NilUser = NilUser
    None = None
    g = g
    Scans = {a, b, d, g}
    Users = {u1}
    Owner <- MCMixedOwners
    Url <- MCUrl
    Result <- MCStrayResult
    Limit <- MCLimitOne
    Workers = {s1, c1, f1}
    Subject <- MCOneInstance
    Sent <- MCOneOutcome
    Faults = {"fail", "loss"}
INVARIANTS TypeOK CreditForOutcome QuotaRespected ReadyTruth
PROPERTIES TerminalFinal CatalogKept ImplementsTlsScan
CHECK_DEADLOCK FALSE
