SPECIFICATION FairSpec
CONSTANTS
    EventQueueSize = 2
    PQWIRE_MAX_BIND_PARAMS = 2
    MaxAsync = 1
    Requests <- MCRequests
    Identity <- MCIdentity
INVARIANTS
    ViewsInsideBody
    TypeOK
    IdentityAlwaysInSlot
    OthersUntouched
    HeapOwned
    CompleteMeansClean
    ErrorReported
    AnswerLegal
PROPERTY
    EveryPipelineCompletes
