SPECIFICATION FairSpec
CONSTANTS
    i1 = i1
    i2 = i2
    r1 = r1
    None = None
    Instances = {i1, i2}
    Requests = {r1}
    Beats = 2
    MaxFaults = 3
    Faults = {"fatal", "crash", "signal", "drop", "giveup", "slow"}
INVARIANTS TypeOK ReadyServes RequestsKeepStores
PROPERTIES Settles BackendHears
