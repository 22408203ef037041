SPECIFICATION FairSpec
CONSTANTS
    Jobs = {j1}
    Workers = {w1}
    Created <- Requested
    MaxRetries = 3
    BackoffCap = 3
    Crashing = {w1}
    Unheard = {}
    NoJob = NoJob
    j1 = j1
    j2 = j2
    j3 = j3
    w1 = w1
    w2 = w2
PROPERTY EveryJobSettles
