CONSTANTS
    FileRules <- MCFileRules
    MaxEdits = 3
    MaxText = 6
SPECIFICATION FormSpec
INVARIANTS
    FormFollowsChoices
    UntouchedKeepsMeaning
    TimeTextIsSound
