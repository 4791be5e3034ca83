CONSTANTS
    Ids = {r0, c1, c2}
    None = None
    r0 = r0
    c1 = c1
    c2 = c2
    c3 = c3
    Roots = {r0}
    InitialTables <- PairWithRetries
    Policies <- Retrying
    OperatorActions = {}
    MutationPolicies <- Cut
    MaxControls = 0
    MaxCrashes = 0
SPECIFICATION FairSpec
CHECK_DEADLOCK FALSE
PROPERTIES
    AssignmentsSettle
