CONSTANTS
    Ids = {r0, c1, c2}
    None = None
    r0 = r0
    c1 = c1
    c2 = c2
    c3 = c3
    Roots = {r0}
    InitialTables <- Empty
    Policies <- Steered
    OperatorActions = {"change_policy"}
    MutationPolicies = {}
    MaxControls = 1
    MaxCrashes = 0
SPECIFICATION Spec
SYMMETRY ChildSymmetry
CHECK_DEADLOCK FALSE
INVARIANTS
    TypeOK
    DependenciesSettled
    NeverForgotten
