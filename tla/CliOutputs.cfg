SPECIFICATION Spec
CONSTANTS
    p1 = p1
    p2 = p2
    f1 = f1
    f2 = f2
    f3 = f3
    dash = dash
    none = none
    Runs = {p1, p2}
    Files = {f1, f2, f3}
    Stdio = dash
    NoPath = none
    Inputs <- TwoInputs
    Outputs <- TwoOutputs
    Metrics <- MetricsPaths
    Forced <- OnlyP2
    Sizes = {1, 2}
    StdinSize = 1
    MaxInput = 1
    MaxTotal = 2
    MaxUser = 2
INVARIANTS
    WholeFilesOnly
    TempsCleaned
    InputsBounded
    SuccessDelivers
PROPERTY
    NoClobber
CHECK_DEADLOCK FALSE
