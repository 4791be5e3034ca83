CONSTANTS
    Ids = {r0, c1, c2, c3}
    None = None
    r0 = r0
    c1 = c1
    c2 = c2
    c3 = c3
    Roots = {r0}
    InitialTables <- EmptyOrChain
    Policies <- Spare
    OperatorActions = {"create", "promote"}
    MutationPolicies = {}
    MaxControls = 0
    MaxCrashes = 1
SPECIFICATION Spec
CHECK_DEADLOCK FALSE
INVARIANTS
    ChildrenWithinBudget
    ResolutionSettles
