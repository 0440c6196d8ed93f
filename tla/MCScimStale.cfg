SPECIFICATION Spec
CONSTANTS
    None = None
    u1 = u1  u2 = u2  g1 = g1  g2 = g2
    alice = alice  bob = bob  a1 = a1  a2 = a2  x1 = x1
    admins = admins  devs = devs  star = star
    h1 = h1  h2 = h2  n1 = n1  n2 = n2
    GroupNames = {admins, devs}
    Others = {star}
    Tags = {}
    Tokens <- MCTokens
    UserIds = {u1}
    GroupIds = {g1}
    UserNames = {alice}
    Emails = {a1, a2}
    ExternalIds = {}
    PolicyUserKey = "username"
    ExpireNodesOnChange = FALSE
    Handlers = {h1, h2}
    Nodes = {}
    UserBodies <- AliceActive
    InitialPolicies <- OnlySeeded
    Ops = {"reconcile", "post_user", "delete_user", "post_group", "put_group", "delete_group"}
    MaxRequests = 3
    MaxFaults = 0
INVARIANT QuiescentPolicyCurrent
CHECK_DEADLOCK FALSE
