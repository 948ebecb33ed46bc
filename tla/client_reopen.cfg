SPECIFICATION Spec
CONSTANTS
    Conns = {c1, c2, c3}
    MaxFd = 3
    Free = Free
    Unbound = Unbound
    Listening = Listening
    CloseMayFail = FALSE
CHECK_DEADLOCK FALSE
INVARIANTS EstablishedIsUsable
