SPECIFICATION Spec
CONSTANT
    Invocations <- MCInvocations
INVARIANT
    StartupInBounds
