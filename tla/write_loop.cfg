SPECIFICATION Spec
CONSTANTS
    HalfRange = 4
    Lengths <- AllLengths
INVARIANTS SendsAPrefix HonestIfItFits
