SPECIFICATION Spec
CONSTANTS
    x = x
    y = y
    s = s
    r = r
    l = l
    c = c
    scope = scope
    Usb <- MCUsb
    Lan = {l}
    Com = {c}
    NoDevice = NoDevice
    Model <- MCModel
    Serial <- MCSerial
    Readable = {x, y, s}
    Interfaces <- MCInterfaces
    Places <- MCPlaces
    Tty <- MCTty
    Driver <- MCDriver
    Patterns <- MCPatterns
    Junk <- MCJunk
    Fit = 2
    Room = 1
    FlLimit = 0
    MaxReplies = 1
    MaxPlugged = 2
    Weak = {x}
    MaxConns = 2
INVARIANTS
    TypeOK
    OpensWhatWasFound
    FindsAttached
PROPERTIES
    FoundOpens
