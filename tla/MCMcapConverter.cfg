SPECIFICATION Spec
CONSTANTS
    File = {"a", "b", "c"}
    Inputs <- MCInputs
    MaxRuns = 3
INVARIANTS
    TypeOK
    SuccessIsComplete
    ConverterInv
PROPERTIES
    ConvertedNotLost
    OutputKept
