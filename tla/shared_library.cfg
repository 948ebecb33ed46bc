SPECIFICATION Spec
CONSTANTS
    o1 = o1
    o2 = o2
    o3 = o3
    f1 = f1
    f2 = f2
    Objects <- ThreeObjects
    FileNames <- TwoFiles
    File <- SharedFile
    Instances = {i1, i2}
    NoObject = NoObject
    MaxEpoch = 2
CHECK_DEADLOCK FALSE
INVARIANTS CachedSymbolsCurrent InstanceCodeMapped PassedBack
