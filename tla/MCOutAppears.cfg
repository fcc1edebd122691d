SPECIFICATION Spec
CONSTANTS
    File = {"a", "b", "c"}
    Inputs <- MCInputs
    MaxRuns = 1
INVARIANT OutAppearsComplete
