SPECIFICATION FairSyncSpec
CONSTANTS
    None = None
    u1 = u1  g1 = g1  g2 = g2  alice = alice
    admins = admins  devs = devs  h1 = h1  h2 = h2
    web = web  headmaster = headmaster
    GroupNames = {admins, devs}
    Others = {web, headmaster}
    Tags = {web, headmaster}
    Tokens = {alice}
    UserIds = {u1}
    GroupIds = {g1}
    UserNames = {alice}
    Emails = {}
    ExternalIds = {}
    PolicyUserKey = "username"
    ExpireNodesOnChange = FALSE
    Handlers = {h1}
    Nodes = {}
    UserBodies <- MCUserBodies
    InitialPolicies <- OnlyEmpty
    Ops = {"post_user", "post_group", "delete_group", "reconcile"}
    MaxRequests = 3
    MaxFaults = 1
    Ingresses = {web}
    HeadmasterTag = headmaster
    InlinePolicies <- AllInline
    AccessLists <- MCAccessLists
    MaxEdits = 2
INVARIANTS SyncTypeOK
PROPERTIES GroupsHeal PolicySettles
CHECK_DEADLOCK FALSE
