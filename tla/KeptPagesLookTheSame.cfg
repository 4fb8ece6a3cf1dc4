SPECIFICATION Spec
CONSTANTS
    Slots = {1}
    Originals <- Inherited
    PageSpecs <- Specs
    Degrees <- Quarters
    None = None
    MaxPages = 5
    MaxEdits = 1
PROPERTY
    KeptPagesLookTheSame
CHECK_DEADLOCK FALSE
