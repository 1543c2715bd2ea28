CONSTANTS
    Ids = {"a", "b", "c"}
    FileRules <- MCFileRules
    MaxPosts = 2
    MaxOutside = 1
    MaxSaves = 1
    MaxControls = 1
SPECIFICATION Spec
CHECK_DEADLOCK FALSE
INVARIANTS
    PanelIsSound
PROPERTIES
    ImplementsModalTree
    SaveTouchesOneRule
    WorkIsKept
