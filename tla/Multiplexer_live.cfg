SPECIFICATION FairSpec
CONSTANTS
    NULL = NULL
    Node = {n1, n2, n3}
    PaneMax = 2
    Commands = {"MOVE", "SPLIT", "DELETE_NODE", "CREATE_PANE", "NEXT_PANE"}
    Typeahead = FALSE
    SpawnMayFail = FALSE
    ProgramsExit = TRUE
    MaxRef = 1
CHECK_DEADLOCK FALSE
PROPERTY ClosedViewGoes
