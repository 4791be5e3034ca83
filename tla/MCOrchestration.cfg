CONSTANTS
    echo = echo
    read = read
    write = write
    s1 = s1
    a1 = a1
    None = None
    Requests = {r1, r2}
    Messages <- MCMessages
    Sessions = {s1}
    Attachments = {a1}
    Builtin <- MCBuiltin
    Dynamic <- MCDynamic
    Writers <- MCWriters
    Baselines <- MCBaselines
    MaxSubs = 1
    MaxCalls = 1
    MaxToolCalls = 1
    MaxArtifacts = 1
    MaxChanges = 1
SYMMETRY MCSymmetry
SPECIFICATION Spec
CONSTRAINT OneCalls
CHECK_DEADLOCK FALSE
INVARIANTS
    ConversationIsListed
    LostOnlyToOverlap
    RunsAccounted
    CallsInBounds
    AttachmentsAgree
PROPERTIES
    TitleStays
