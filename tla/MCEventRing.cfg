SPECIFICATION Spec
CONSTANTS
    EventQueueSize = 3
    RowArena = 3
    MaxRowColumns = 2
    Payload = {other}
    DataRow = data_row
    None = none
    RowBody <- MCRowBody
INVARIANTS
    TypeOK
    RingConsistent
    QueuedRowsIntact
    DeliveredRowIntact
PROPERTY
    RefinesLossyFifo
