CONSTANTS
    Jobs = {j1, j2}
    AttemptBudgets = {1, 3}
    Delays = {0, 3}
    RescheduleDelays = {0, 3}
    MaxTimerDelay = 2
    RetryCap = 2
    NoTimer = NoTimer
SPECIFICATION FairSpec
INVARIANTS
    HandlerOwnsRow
    RunningIsAttended
    ScheduledIsArmed
PROPERTIES
    NeverEarly
    ImplementsJobQueue
    JobSettles
