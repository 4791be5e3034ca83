CONSTANTS
    SlackEvents = {s1, s2}
    Emails = {m1, m2, m3, m4}
    Hooks = {h1, h2}
    Missions = {s2, m2, h2}
    AutoReplies = {m3}
    Oversized = {m4}
    MaxLoops = 2
    BatchSize = 1
    MaxDeliveries = 2
    MaxReports = 1
    MaxIncidents = 2
SPECIFICATION Spec
CONSTRAINT MailsApart
CHECK_DEADLOCK FALSE
INVARIANTS
    TypeOK
    RedeliveryRepeatsNothing
    RecordsTellTheTruth
    NothingLost
    ReporterInStep
PROPERTIES
    HandlesOnce
    EverythingSettles
