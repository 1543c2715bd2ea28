CONSTANTS
    DPIs = {96, 144}
    Languages = {"en", "zh"}
    Minutes = {10, 30}
    DefaultMinutes = 30
    Settings <- MCSettings
    Budgets <- MCBudgets
SPECIFICATION PanelSpec
CHECK_DEADLOCK FALSE
INVARIANTS
    FramesArrive
    PanelIsUpToDate
