SPECIFICATION FairSpec
CONSTANTS
    h = h
    r = r
    n1 = n1
    ip1 = ip1
    ip2 = ip2
    Deleted = Deleted
    Unwanted = Unwanted
    None = None
    Specs <- MCSpecs
    Instances = {"excluded", "unready", "managed", "external"}
    NodePorts <- MCNodePorts
    Namespaces = {n1}
    Addresses = {ip1, ip2}
    Backends = {h, r}
    MaxEdits = 3
    MaxFaults = 1

PROPERTY EachPortForwarded
CHECK_DEADLOCK FALSE
