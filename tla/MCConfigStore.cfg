SPECIFICATION Spec
\* The system may rest: a file nobody writes to
CHECK_DEADLOCK FALSE
CONSTANTS
    FirstTexts <- ThreeFirst
    Edits <- TwoEdits
    MaxEvents = 3
INVARIANTS
    RevisionsAreHonest
PROPERTIES
    UserEditsKept
    EditNoticed
