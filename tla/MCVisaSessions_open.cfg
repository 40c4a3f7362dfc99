SPECIFICATION Spec
CONSTANTS
    a1 = a1
    a2 = a2
    usb1 = usb1
    tcp1 = tcp1
    none1 = none1
    Apps = {a1, a2}
    Resources = {usb1}
    KindOf <- MCKindOf
    Tickets = {1, 2}
    SessMod = 2
    MaxStarts = 2
    Timeouts = FALSE
    AppCrashes = FALSE
PROPERTIES
    OpenDenotes
