SPECIFICATION Spec
CONSTANTS
    Callers = {t1, t2}
    Setters = {}
    Conns = {c1, c2, c3}
    MaxFd = 3
    Backlog = 2
    Names = {k1}
    NoOne = NoOne
    Free = Free
    Unbound = Unbound
    Listening = Listening
    StepsMayFail = TRUE
    CloseMayFail = FALSE
SYMMETRY Symmetry
INVARIANTS OneServerThread RunOwnsResources Quiescent OwnDescriptor
PROPERTIES ReleasedByOwner LivesAsPromised LostOnlyWhenAbandoned
