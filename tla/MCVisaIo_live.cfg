SPECIFICATION FairSpec
CONSTANTS
    a1 = a1
    a2 = a2
    usb1 = usb1
    tcp1 = tcp1
    Apps = {a1, a2}
    Resources = {usb1, tcp1}
    SessOf <- MCSessOf
    Digest <- MCDigest
    Blocking = {tcp1}
    AtLeast <- MCAtLeast
    AnswerSize <- MCAnswerSize
    Cap = 3
    Room <- MCRoom
    Kinds = {"write", "read"}
    Slots = {1, 2}
    WriteMod = 1
    MaxOwed = 2
    Timeouts = FALSE
    ServerEnds = FALSE
    Polite = TRUE
INVARIANTS
    StreamInOrder
PROPERTIES
    IoReturns
