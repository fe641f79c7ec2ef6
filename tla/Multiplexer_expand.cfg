SPECIFICATION Spec
CONSTANTS
    NULL = NULL
    Node = {n1, n2, n3, n4}
    PaneMax = 2
    Commands = {"MOVE", "RESTORE_PANE", "EXPAND_NODE", "DELETE_NODE", "NEXT_PANE", "PREV_PANE", "FULLSCREEN"}
    Typeahead = FALSE
    SpawnMayFail = FALSE
    ProgramsExit = TRUE
    MaxRef = 2
SYMMETRY NodeSymmetry
CHECK_DEADLOCK FALSE
INVARIANTS FocusShown
