SPECIFICATION Spec
CONSTANTS
    NULL = NULL
    Node = {n1, n2, n3, n4, n5}
    PaneMax = 2
    Commands = {"MOVE", "SPLIT", "DELETE_NODE", "CREATE_PANE", "NEXT_PANE", "WINDOW_LABEL", "QUIT"}
    Typeahead = FALSE
    SpawnMayFail = FALSE
    ProgramsExit = TRUE
    MaxRef = 1
SYMMETRY NodeSymmetry
CHECK_DEADLOCK FALSE
INVARIANTS TypeOK FocusShown EnableAgrees InputFromShown NoCrash
PROPERTY ImplementsSession
