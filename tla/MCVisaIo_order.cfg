SPECIFICATION Spec
CONSTANTS
    a1 = a1
    a2 = a2
    usb1 = usb1
    tcp1 = tcp1
    Apps = {a1}
    Resources = {usb1}
    SessOf <- MCSessOf
    Digest <- MCDigest
    Blocking = {}
    AtLeast <- MCAtLeast
    AnswerSize <- MCAnswerSize
    Cap = 2
    Room <- MCRoom
    Kinds = {"write", "read", "get", "set"}
    Slots = {1, 2, 3}
    WriteMod = 2
    MaxOwed = 1
    Timeouts = TRUE
    ServerEnds = TRUE
    Polite = FALSE
INVARIANTS
    TypeOK
    WriteOnce
    ReadAnswersWrite
