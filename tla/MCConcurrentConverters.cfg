SPECIFICATION Spec
CONSTANTS
    Run = {"r1", "r2"}
    files <- MCThreeFiles
INVARIANTS
    TypeOK
    BagsOwned
    OutAppearsComplete
    SuccessIsComplete
    LossReported
