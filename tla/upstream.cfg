SPECIFICATION Spec
CONSTANTS
    old = old
    new = new
    c1 = c1
    c2 = c2
    t1 = t1
    None = None
    Torn = Torn
    Versions = {old, new}
    Base = old
    Commits = {c1, c2}
    BaseCommit = c1
    Tools = {t1}
    MaxRuns = 3
    MaxByHand = 1
INVARIANTS
    StableIsEvidenced
    ServedMatches
CHECK_DEADLOCK FALSE
