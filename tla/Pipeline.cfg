SPECIFICATION Spec
CONSTANTS
    r1 = r1
    r2 = r2
    k1 = k1
    k2 = k2
    k3 = k3
    k4 = k4
    a = a
    b = b
    A = A
    B = B
    Unset = Unset
    Roots <- MCRoots
    ConversionIds <- MCConversionIds
    Consumers <- MCConsumers
    Encodings <- MCEncodings
    MaxRuns = 2
    Problems <- MCProblems
INVARIANTS
    AllOrNothing
    ReplayIsSilent
SYMMETRY InsertedIds
CHECK_DEADLOCK FALSE
