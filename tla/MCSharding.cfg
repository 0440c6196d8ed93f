CONSTANTS
    a = a
    b = b
    None = None
    Deployments = {a, b}
    Kinds = {"ingress", "egress", "exposed"}
    ClaimMode <- AllUnset
    DnsEnabled = {a, b}
    MaxEdits = 1
    MaxFaults = 1
SPECIFICATION ShardingSpec
INVARIANT ShardingTypeOK
INVARIANT OneDefault
PROPERTY FinalizerOutlivesProxy
PROPERTY HandsOver
PROPERTY LetsGo
CHECK_DEADLOCK FALSE
