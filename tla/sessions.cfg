SPECIFICATION Spec
CONSTANTS
    s1 = s1
    s2 = s2
    p1 = p1
    Sessions = {s1, s2}
    Serials = {p1}
    MaxRetained = 1
SYMMETRY Symmetric
INVARIANTS
    ClaimHeld
    BacklogBounded
    
CHECK_DEADLOCK FALSE
