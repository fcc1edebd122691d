SPECIFICATION LibrarySpec
CONSTANTS
    Signal = {"speed", "brake"}
    TimeModulus = 6
    Threshold = {0, 2, 5}
    Reader = {r1, r2}
    Fd = {0, 1, 2}
    Name = {"can0", "can0_long", "none"}
    Present = {"can0"}
    IfName <- MCIfName
    Errno = {100}
    Sent <- MCSent
    SffIds = 2
    EffIds = 4
    NBytes = 2
    Physical <- MCPhysical
    Decoder = {d1, d2}
    File <- MCFiles
    MaxLoads = 4
    Expression <- MCExpression
    Eval <- MCEval
    Compiles <- MCCompiles
    MayThrow <- MCMayThrow
    Transformer = {o1, o2}
    Thread = {t1, t2}
    SignalName = {"speed", "yaw"}
    Configs <- MCConfigs
    Raw = {1, 2}
SYMMETRY LibrarySymmetry
INVARIANTS
    ReaderTypeOK
    FrameSane
    OwnedOnce
    OpenIsReady
    ErrorTruthful
    DecoderTypeOK
    NoDangling
    DecodesLastLoad
    TransformerTypeOK
    ConfiguredOnly
PROPERTIES
    LifeCycle
    ImplementsFreshness
    OthersUntouched
    ReturnsOwn
