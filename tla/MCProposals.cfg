CONSTANTS
    refresh = refresh
    limit = limit
    NoChange = NoChange
    Ids = {p1, p2}
    Fields <- MCFields
    Values = {0, 1}
    Defaults <- MCDefaults
    Changes <- MCChanges
SYMMETRY MCSymmetry
SPECIFICATION Spec
INVARIANTS
    AppliedOnce
    SettingsExplained
