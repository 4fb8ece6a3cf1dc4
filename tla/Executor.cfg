SPECIFICATION Spec
CONSTANTS
    in1 = in1
    EmptyId = EmptyId
    NTasks = 3
    Sources = {in1}
    TaskInputs <- JoinInputs
    OutputRefs <- JoinOutputs
    MaxParallel = 2
    Retries = 1
    HasTimeout = TRUE
    Faults = {"operator", "panic", "storage"}
INVARIANTS
    CommitOnce
    InputsPresent
    CountersExact
    StoreExact
    NoLostWakeup
    NoErrorSwallowed
    DispatchFollowsPlan
PROPERTIES
    ImplementsContract
    DeadlineEndsTheCall
    AnswersInTheEnd
