SPECIFICATION Spec
CONSTANTS
    Routes = {"connect", "send", "disconnect", "refused"}
    ProcsEnd = TRUE
INVARIANTS
    TypeOK
    HandlersInOrder
PROPERTIES
    ImplementsCall
    HandshakesEnd
    EndIsNoticed
CHECK_DEADLOCK FALSE
