SPECIFICATION SessionSpec
CONSTANTS
    MaxRuns = 1
    MaxGen = 3
    MaxChats = 0
    MaxLag = 0
    Kinds <- OneKind
    Superseding = TRUE
    None = None
PROPERTY SupersededStaysSilent
CHECK_DEADLOCK FALSE
