SPECIFICATION Spec
CONSTANTS
    EventQueueSize = 16
    MaxRequests = 2
    RowCounts = {1}
    MaxReconnects = 0
    Discipline = "state"
INVARIANT
    AnswersMatch
CHECK_DEADLOCK FALSE
