CONSTANTS
    r1 = r1
    r2 = r2
    r3 = r3
    r4 = r4
    Requests = {r1, r2, r3, r4}
    a = a
    b = b
    Texts = {a, b}
    Overlap = TRUE
    NoText = NoText
    NoRequest = NoRequest
    Sender <- OwnerAndAdmins
SPECIFICATION Spec
CHECK_DEADLOCK FALSE
INVARIANTS EmbeddedUnlessFailed
PROPERTIES StatusFromWhatWasRead
