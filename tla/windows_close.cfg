SPECIFICATION Spec
CONSTANTS
    Callers = {t1}
    Conns = {c1, c2}
    Platforms = {"windows"}
    MaxFd = 3
    Backlog = 2
    NoOne = NoOne
    Free = Free
    Unbound = Unbound
    Listening = Listening
    StepsMayFail = FALSE
    CloseMayFail = FALSE
INVARIANTS ClosedListensNoMore
