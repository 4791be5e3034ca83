CONSTANTS
    Assignments = {a1, a2}
    Files = {f1, f2}
    Channels = {email}
    Values = {v0, v1}
    v0 = v0
    v1 = v1
    InitialStore <- MCStore
    Kinds = {"assignment_policy", "operator_settings", "runtime_limits", "project_file", "channel_state"}
    Operated = {email}
    MaxCalls = 2
    MaxRows = 3
    MaxClock = 1
    MaxCrashes = 1
SPECIFICATION Spec
SYMMETRY Interchangeable
CONSTRAINT KindsApart
CHECK_DEADLOCK FALSE
INVARIANTS
    TypeOK
    Reversible
    EvidenceChains
    PlannedIsPending
