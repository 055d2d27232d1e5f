SPECIFICATION Spec
CONSTANTS
    c1 = c1
    c2 = c2
    c3 = c3
    r1 = r1
    r2 = r2
    Op <- MCOp
    Asked <- MCAsked
    None = None
    MaxFaults = 2
SYMMETRY Interchangeable
INVARIANTS
    ReceiptsAreFounded
    OneAttestationPerDirectory
    PublicIsRedundant
PROPERTIES
    ImplementsCustody
CHECK_DEADLOCK FALSE
