SPECIFICATION Spec
CONSTANTS
    Originals <- SomeDocuments
    Pages = {"p1", "p2"}
    Root = "root"
    Dicts = {"d"}
    Ids = {1, 2, 3, 4, 5, 6}
    Names = {"Im", "OxWmIm", "OxWmSvg", "OxPdfOverlay"}
    UserNames = {"Im", "OxWmIm"}
    Pictures = {"a", "b"}
    Fonts = {"f", "g"}
    Texts = {"t"}
    Tints = {"half", "full"}
    None = None
    Nothing = Nothing
    MaxEdits = 2
INVARIANT NamesResolve
 
CHECK_DEADLOCK FALSE
