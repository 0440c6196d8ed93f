CONSTANTS
    a = a
    b = b
    None = None
    Deployments = {a, b}
    Kinds = {"egress"}
    ClaimMode <- AllUnset
    DnsEnabled = {a, b}
    MaxEdits = 1
    MaxFaults = 0
SPECIFICATION ShardingSpec
PROPERTY RewriteLeadsToProxy
CHECK_DEADLOCK FALSE
