SPECIFICATION FairSpec
CONSTANTS
    plain = plain
    grouped = grouped
    None = None
    Specs <- MCSpecs
    Policies = {plain, grouped}
    Grouped = {grouped}
    MaxFaults = 1
    MaxEdits = 3
INVARIANTS InstanceTypeOK ReadyHonest GuardsHold KeysAccounted LitterAccounted
PROPERTIES ScimEquipped Converges ScimLeavesNothing Vanishes
CHECK_DEADLOCK FALSE
