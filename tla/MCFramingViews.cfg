SPECIFICATION Spec
CONSTANTS
    MaxMessageSize = 20
    Streams <- PipelineStreams
    Traffic <- MCTraffic
INVARIANTS
    ParametersOutliveTheirCall
