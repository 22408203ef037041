CONSTANTS
    r1 = r1
    r2 = r2
    Requests = {r1, r2}
    Pool = 1
SPECIFICATION FairSpec
CHECK_DEADLOCK FALSE
INVARIANTS StatusTellsOutcome ChangedIffAudited LoggedAsSent
PROPERTIES EveryRequestAnswered
