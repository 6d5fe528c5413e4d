SPECIFICATION FairSpec
CONSTANTS
    EventQueueSize = 7
    MaxRequests = 2
    RowCounts = {0, 1}
    MaxReconnects = 1
    Discipline = "event"
INVARIANTS
    TypeOK
    AnswersMatch
    NothingLost
    
PROPERTY
    EveryRequestAnswered
CHECK_DEADLOCK FALSE
