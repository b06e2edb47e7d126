SPECIFICATION FairSched
CONSTANTS
    Rows = {r1}
    Clients = {c1}
    Grace = 1
    RetryDelay = 1
    Period = 2
    MaxRetries = 1
    RetryOn = {"delivery"}
    MaxTime = 2
    MaxSessions = 2
    MaxEdits = 3
    MaxFaults = 1
    MaxCrashes = 1
INVARIANTS
    SchedulesTypeOK
    PromptsOneSession
PROPERTIES
    SendsOncePerArming
    CanceledNeverStarts
    DueIsHandled
CHECK_DEADLOCK FALSE
