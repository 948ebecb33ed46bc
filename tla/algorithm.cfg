SPECIFICATION Spec
CONSTANTS
    DigitBase = 8
    ByteBase = 16
    IntMax = 7
    Samples = {0, 11, 14}
    MaxLength = 7
    ChunkSize = 2
CHECK_DEADLOCK FALSE
INVARIANTS RoundTrip CutGivesPrefix HashesWholeFile
