CONSTANTS
    Ids = {"a", "b", "c"}
    FileRules <- MCFileRules
    MaxPosts = 2
    MaxOutside = 1
    MaxSaves = 1
    MaxControls = 1
SPECIFICATION Spec
PROPERTIES
    ConfirmedIsDeleted
CHECK_DEADLOCK FALSE
