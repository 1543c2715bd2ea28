CONSTANTS
    Names = {"a", "b"}
    Paths = {"pa"}
    ExeOf <- MCExeOf
    Selections <- MCSelections
    Snapshots <- MCSnapshots
    Texts <- MCTexts
    Described = {"a"}
    Limit = 1
    MaxLoads = 2
    MaxFiles = 1
    MaxShows = 2
SPECIFICATION PickerSpec
CHECK_DEADLOCK FALSE
INVARIANTS
    PickerIsSound
    StatusIsTrue
PROPERTIES
    SelectionIsTheUsers
