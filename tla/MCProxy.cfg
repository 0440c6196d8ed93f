SPECIFICATION FairSpec
CONSTANTS
    None = None
    prod = prod  lab = lab  k1 = k1  k2 = k2  d1 = d1  d2 = d2  d3 = d3
    Refs = {prod, lab}
    KeyIds = {k1, k2}
    NodeIds = {d1, d2, d3}
    Reusable = FALSE
    MaxEdits = 1
    MaxFaults = 1
INVARIANT ProxyTypeOK
PROPERTIES RecordOutlivesNode Recovers Releases
CHECK_DEADLOCK FALSE
