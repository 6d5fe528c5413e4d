SPECIFICATION Spec
CONSTANTS
    HeaderSize = 2
    InitialCap = 3
    Slack = 1
    PayloadSizes = {0, 1, 4}
    MaxSent = 3
INVARIANT
    ZeroMeansQueued
