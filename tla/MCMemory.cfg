CONSTANTS
    Runs = {r1}
    Insights <- OneFact
    DefaultPolicy <- Configured
    Policies <- Lowered
    InitialEntries <- Turns
    MaxEntries = 5
    MaxMaintenance = 3
    MutatedKinds = {"turn"}
    MaxIncidents = 1
SPECIFICATION Spec
CHECK_DEADLOCK FALSE
INVARIANTS
    TypeOK
    MaintenanceInStep
    SyncedIsFindable
    SupersededHasSuccessor
    SummariesApart
