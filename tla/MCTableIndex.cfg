SPECIFICATION Spec
CONSTANTS
    Signal <- MCSignal
    Expression <- MCExpression
    CompoundKey <- MCCompoundKey
    Physical <- MCPhysical
    Eval <- MCEval
    Compiles <- MCCompiles
    MayThrow <- MCMayThrow
    Float32 <- MCFloat32
    Value <- MCValue
    Byte = {0, 1, 2, 3}
    NBytes = 2
    MaxCanId = 9
    MaxTableId = 4
    TicksPerMs = 2
    TimeModulus = 16
    Threshold = {1, 2}
    Configs <- ErrorConfigs
    CanMsgs <- FullFrame
    QueueDepth = 2
    MaxDelay = 1
    MaxClock = 0
    MaxFrames = 3
INVARIANT TableIndexedByNameId
