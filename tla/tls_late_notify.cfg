SPECIFICATION Spec
CONSTANTS
    Callers = {t1}
    Setters = {}
    Conns = {c1, c2}
    MaxFd = 3
    Backlog = 2
    Names = {k1}
    NoOne = NoOne
    Free = Free
    Unbound = Unbound
    Listening = Listening
    StepsMayFail = FALSE
    CloseMayFail = FALSE
PROPERTIES NotifyStaysHome
