SPECIFICATION LiveSpec
CONSTANTS
    Callers = {t1}
    Setters = {t1}
    Conns = {c1, c2}
    MaxFd = 2
    Backlog = 1
    Names = {k1, k2}
    NoOne = NoOne
    Free = Free
    Unbound = Unbound
    Listening = Listening
    StepsMayFail = TRUE
    CloseMayFail = TRUE
INVARIANTS NamesFixedWhileOpen OnlySilenceStalls
PROPERTIES CloseReturns DepartedIsReleased CloseAdvances
