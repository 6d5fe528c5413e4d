SPECIFICATION FairSpec
CONSTANTS
    EventQueueSize = 16
    MaxRequests = 1
    RowCounts = {14}
    MaxReconnects = 0
    Discipline = "event"
PROPERTY
    DrainedFeedLosesNothing
CHECK_DEADLOCK FALSE
