SPECIFICATION Spec
CONSTANTS
    a1 = a1
    a2 = a2
    usb1 = usb1
    tcp1 = tcp1
    none1 = none1
    Apps = {a1, a2}
    Resources = {tcp1}
    KindOf <- MCKindOf
    Tickets = {1, 2, 3}
    SessMod = 2
    MaxStarts = 1
    Timeouts = TRUE
    AppCrashes = TRUE
SYMMETRY Symmetry
CONSTRAINT MaxGivenUp
INVARIANTS
    RefCounts
    SessionsConnected
    NothingElseLeaks
PROPERTIES
    AnsweredOpenDenotes
