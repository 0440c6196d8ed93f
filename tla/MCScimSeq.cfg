SPECIFICATION Spec
CONSTANTS
    None = None
    u1 = u1  u2 = u2  g1 = g1  g2 = g2
    alice = alice  bob = bob  a1 = a1  a2 = a2  x1 = x1
    admins = admins  devs = devs  star = star
    h1 = h1  h2 = h2  n1 = n1  n2 = n2
    GroupNames = {admins, devs}
    Others = {star}
    Tags = {}
    Tokens <- MCTokens
    UserIds = {u1}
    GroupIds = {g1}
    UserNames = {alice}
    Emails = {a1}
    ExternalIds = {}
    PolicyUserKey = "email"
    ExpireNodesOnChange = TRUE
    Handlers = {h1}
    Nodes = {n1}
    UserBodies <- Alice
    InitialPolicies <- OnlySeeded
    Ops = {"post_user", "put_user", "delete_user", "post_group", "put_group", "delete_group"}
    MaxRequests = 5
    MaxFaults = 2
INVARIANTS TypeOK AnswersCurrent
PROPERTIES UsersStayGone NoDanglingMember GroupFreeGrantsKept NodesExpiredFirst
CHECK_DEADLOCK FALSE
