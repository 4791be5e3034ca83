CONSTANTS
    Ids = {r0, c1, c2}
    None = None
    r0 = r0
    c1 = c1
    c2 = c2
    c3 = c3
    Roots = {r0}
    InitialTables <- Pair
    Policies <- Retrying
    OperatorActions = {"pause", "resume", "cancel", "reopen", "force_wakeup", "add_context"}
    MutationPolicies = {}
    MaxControls = 2
    MaxCrashes = 0
SPECIFICATION Spec
CHECK_DEADLOCK FALSE
INVARIANTS
    SingleFlight
PROPERTIES
    ResolutionRespectsWaits
