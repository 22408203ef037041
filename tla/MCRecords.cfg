CONSTANTS
    Requests = {q1, q2}
    Outcomes = {"confirmed", "rejected"}
    MaxReservations = 2
    Users = {u1}
    Types = {"asistencia", "ponencia"}
    Asistencia = "asistencia"
    Codes = {c1, c2}
    CertRequests = {r1, r2, r3}
    MaxRetries = 2
    NoUser = NoUser
    Tracks = {t1}
    NoTrack = NoTrack
    MaxTime = 3
    Adds = {r1, r2}
    Invitations = {i1, i2}
    Answers = {r1, r2, r3}
    Nobody = Nobody
    Ids = {a0, a1, a2}
    Root = a0
    Emails = {e0}
    RootEmail = e0
    Anonymous = anon
    Roles = {"attendee", "admin"}
    AccessTtl = 0
    Delay = 0
    NoId = NoId
    Events = {s1, s2}
    Dates = {1, 2}
    Fragments = 1
    Limit = 1
    UseVector = TRUE
    MaxChanges = 1
    r1 = r1
    r2 = r2
    r3 = r3
SPECIFICATION ComponentsSpec
CONSTRAINTS InOrder HiddenSaysNothing
SYMMETRY Symmetry
CHECK_DEADLOCK FALSE
INVARIANTS
    RecordsTypeOK
    PaidTwiceOnlyTogether
    AttendanceFirst
    RepeatedOnlyTogether
    ReadyIsThere
    OnlyConcurrentSessionsClash
    OnlyConcurrentAnswersRepeat
    OneAccountPerEmail
    ClaimsAreRecent
    PagesListAll
    NothingMeansNone
PROPERTIES
    EarlyEndIsARejection
    ConfirmedIsStoredUnlessTogether
    ErasedStaysErased
