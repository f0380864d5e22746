SPECIFICATION Spec
CONSTANTS
    Runs <- OneRun
    Wanted <- OnlyNew
    MaxNames = 1
    Abandoning = FALSE
    None = None
INVARIANT HandoffIsTruthful
CHECK_DEADLOCK FALSE
