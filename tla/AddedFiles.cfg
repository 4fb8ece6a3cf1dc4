SPECIFICATION Spec
CONSTANTS
    Originals <- PlainDocument
    PageIds = {1, 2}
    Ids = {1, 2, 3, 4, 5}
    Texts = {"a", "b"}
    Keys = {"title"}
    Passwords = {"p", "q"}
    MaxEdits = 2
PROPERTY AddedFilesAreListed
CHECK_DEADLOCK FALSE
