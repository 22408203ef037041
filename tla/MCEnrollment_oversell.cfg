SPECIFICATION Spec
CONSTANTS
    Events = {e1}
    Users = {u1, u2}
    Keys = {k1, k2}
    Requests = {r1, r2}
    Workers = {w1}
    Faulty = {}
    EventRows <- OnePaidSeat
    Hold = 1
    MaxNow = 3
    NoId = NoId
    NoTx = NoTx
    NoKey = NoKey
    u1 = u1
    u2 = u2
    k1 = k1
    k2 = k2
    r1 = r1
    r2 = r2
SYMMETRY Symmetry
INVARIANT NoOversell
