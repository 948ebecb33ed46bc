SPECIFICATION LiveSpec
CONSTANTS
    Cap = 3
    Buf = 2
    MaxMessage = 2
    MaxBytes = 10
CHECK_DEADLOCK FALSE
INVARIANTS Conserved RecordsFollow NeverBothWait
PROPERTIES Echoes EchoReturns WorkerEnds
