SPECIFICATION Spec
CONSTANTS
    Processes = {p1, p2, p3}
    RunIds = {r1, r2}
    Nobody = Nobody
SYMMETRY Symmetry
CHECK_DEADLOCK FALSE
INVARIANT LeaseTypeOK
INVARIANT SuccessIsEarned
PROPERTY ImplementsRegistry
