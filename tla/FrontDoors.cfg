SPECIFICATION FrontSpec
CONSTANTS
    EmptyId = EmptyId
    a = a
    b = b
    o = o
    t1 = t1
    t2 = t2
    t3 = t3
    Workflows <- Families
    Calls <- AllCalls
    Contents <- Saved
    MaxFiles = 2
    MaxInputs = 2
    MaxTasks = 2
INVARIANTS
    AcceptsExactlyWellFormed
    LayersAreDepths
    SequentialEvictionIsSafe
    StdinReadWhenUsed
    StdinSharedOnlyByCompare
    EveryCommandRuns
    OptionsReachOperator
    SurvivesWorkflowFile
    WebStaysInside
    ChainsKeepWorking
CHECK_DEADLOCK FALSE
