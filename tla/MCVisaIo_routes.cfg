SPECIFICATION Spec
CONSTANTS
    a1 = a1
    a2 = a2
    usb1 = usb1
    tcp1 = tcp1
    Apps = {a1}
    Resources = {usb1}
    SessOf <- MCSessOf
    Digest <- MCShortDigest
    Blocking = {}
    AtLeast <- MCAtLeast
    AnswerSize <- MCAnswerSize
    Cap = 2
    Room <- MCRoom
    Kinds = {"write", "read"}
    Slots = {1, 2, 3}
    WriteMod = 2
    MaxOwed = 1
    Timeouts = FALSE
    ServerEnds = FALSE
    Polite = FALSE
PROPERTIES
    RoutesAnswered
CHECK_DEADLOCK FALSE
