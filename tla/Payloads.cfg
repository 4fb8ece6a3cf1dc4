SPECIFICATION Spec
CONSTANTS
    a = a
    b = b
    Ids = {a, b}
    MaxBytes = 3
    NoLimit = NoLimit
    DefaultThreshold = 1
    MaxInputBytes = 3
    MaxTotalInputBytes = 4
    OutputLimits <- SmallLimits
    Thresholds <- SomeThresholds
INVARIANTS
    LimitIsExact
    ThresholdApplied
PROPERTIES
    ImplementsPlainStore
CHECK_DEADLOCK FALSE
