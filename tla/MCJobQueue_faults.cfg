SPECIFICATION FairSpec
CONSTANTS
    Jobs = {j1, j3}
    Workers = {w1, w2}
    Created <- Requested
    MaxRetries = 3
    BackoffCap = 3
    Crashing = {w1, w2}
    Unheard = {w1, w2}
    NoJob = NoJob
    j1 = j1
    j2 = j2
    j3 = j3
    w1 = w1
    w2 = w2
INVARIANTS OneWorkerPerJob ProcessingIsHeld DeadLetterOnce SentWithinBudget
PROPERTIES SettledForGood SettlesUnlessLost
