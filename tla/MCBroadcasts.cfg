CONSTANTS
    u1 = u1
    c1 = c1
    c2 = c2
    m1 = m1
    p1 = p1
    t1 = t1
    w1 = w1
    Users = {u1}
    Cancels = {c1, c2}
    Messages = {m1}
    Patches = {p1}
    Changes = {t1}
    Workers = {w1}
    MaxRetries = 2
    BackoffCap = 1
    Crashing = {w1}
    Unheard = {w1}
    NoOne = NoOne
    NoJob = NoJob
SPECIFICATION FairSpec
CONSTRAINTS Few Heard
INVARIANTS NoticedUnlessLate
PROPERTIES ImplementsQueue EveryDeliverySettles
