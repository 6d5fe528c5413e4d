SPECIFICATION FairSpec
CONSTANTS
    MaxMessageSize = 10
    Streams <- MCStreams
    Traffic <- MCTraffic
INVARIANTS
    TypeOK
    CompleteMessagesHandled
    BufferIsStreamSuffix
    ResidueBounded
PROPERTIES
    LoopProgress
    FeedReturns
