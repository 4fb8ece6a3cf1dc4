SPECIFICATION Spec
CONSTANTS
    Originals <- SomeDocuments
    PageIds = {1, 2}
    Ids = {1, 2, 3, 4, 5}
    Texts = {"a", "b"}
    Keys = {"title"}
    Passwords = {"p", "q"}
    MaxEdits = 2
INVARIANT ReferencesResolve
PROPERTY ImplementsReport
CHECK_DEADLOCK FALSE
