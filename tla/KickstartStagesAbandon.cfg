SPECIFICATION Spec
CONSTANTS
    Runs <- OneRun
    Wanted <- OnlyNew
    MaxNames = 1
    Abandoning = TRUE
    None = None
PROPERTY AbandonedRunDeploysNothing
CHECK_DEADLOCK FALSE
