SPECIFICATION Spec
CONSTANTS
    Slots = {1}
    Originals <- AllKinds
    PageSpecs <- Specs
    Degrees <- Quarters
    None = None
    MaxPages = 5
    MaxEdits = 3
INVARIANTS
    TreeConsistent
    PagesBounded
PROPERTY
    ImplementsPageList
CHECK_DEADLOCK FALSE
