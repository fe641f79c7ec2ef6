SPECIFICATION Spec
CONSTANTS
    NULL = NULL
    Node = {n1, n2, n3, n4, n5}
    PaneMax = 3
    Commands = {"MOVE", "RESTORE_PANE", "CREATE_PANE", "PUSH_NODE", "FETCH_NODE", "UNFETCH_NODE", "SWAP_NODE", "EXPAND_NODE", "FULLSCREEN"}
    Typeahead = FALSE
    SpawnMayFail = FALSE
    ProgramsExit = FALSE
    MaxRef = 2
SYMMETRY NodeSymmetry
CHECK_DEADLOCK FALSE
INVARIANTS FocusShownInSelect
