SPECIFICATION Spec
CONSTANTS
    DigitBase = 8
    ByteBase = 16
    IntMax = 15
    MaxPairs = 3
    Absent = Absent
    Partial = Partial
    Inputs = {3, 13}
    PortMax = 3
    ULongMax = 15
    DefaultPort = 1
    NotANumber = NotANumber
    NoValue = NoValue
    Lines <- StartingLines
CHECK_DEADLOCK FALSE
INVARIANTS ServesItsPair FilesUsable VerdictIsRight PortAsTyped
