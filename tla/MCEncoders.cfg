SPECIFICATION Spec
CONSTANT
    Invocations <- MCInvocations
INVARIANTS
    TypeOK
    EncodersInBounds
    AcceptedWhole
    FittingMessagesAccepted
    PipelineBreaksBeforeBind
