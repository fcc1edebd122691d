SPECIFICATION Spec
CONSTANTS
    Expression <- MCExpression
    CompoundKey <- MCCompoundKey
    Physical <- MCPhysical
    Eval <- MCEval
    Compiles <- MCCompiles
    MayThrow <- MCMayThrow
    Float32 <- MCFloat32
    NBytes = 2
    MaxCanId = 9
    MaxTableId = 4
    TicksPerMs = 2
    CanIdRange = 10
    DefaultTopic = "/default"
    Node <- MCNode
    MaxNesting = 5
    Base = 4
    Codes <- MCCodes
    FloatBits <- MCFloatBits
    NsPerSec = 100
    Inputs <- MCInputs
INVARIANTS
    TypeOK
    ReadsBack
    OutputFaithful
    SummaryTrue
    TypesKept
    ConversionInv
