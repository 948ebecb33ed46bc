SPECIFICATION LiveSpec
CONSTANTS
    Callers = {t1, t2}
    Conns = {c1, c2}
    Platforms = {"linux", "windows"}
    MaxFd = 3
    Backlog = 2
    NoOne = NoOne
    Free = Free
    Unbound = Unbound
    Listening = Listening
    StepsMayFail = TRUE
    CloseMayFail = TRUE
INVARIANTS StartsAlone RunListens PortIsFree
PROPERTIES ReleasedByOwner CloseReturns LivesAsPromised
