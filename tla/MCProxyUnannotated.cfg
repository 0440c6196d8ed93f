SPECIFICATION Spec
CONSTANTS
    None = None
    prod = prod  lab = lab  k1 = k1  k2 = k2  d1 = d1  d2 = d2  d3 = d3
    Refs = {prod}
    KeyIds = {k1, k2}
    NodeIds = {d1, d2}
    Reusable = FALSE
    MaxEdits = 1
    MaxFaults = 0
PROPERTY DeregisteredBeforeRelease
CHECK_DEADLOCK FALSE
