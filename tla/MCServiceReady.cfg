SPECIFICATION FairSpec
CONSTANTS
    i1 = i1
    i2 = i2
    r1 = r1
    None = None
    Instances = {i1}
    Requests = {r1}
    Beats = 2
    MaxFaults = 2
    Faults = {"drop", "giveup"}
INVARIANT ReadyMeansNats
