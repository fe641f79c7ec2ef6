SPECIFICATION Spec
CONSTANTS
    NULL = NULL
    Node = {n1, n2, n3, n4, n5}
    PaneMax = 2
    Commands = {"MOVE", "MOVE_OTHER", "SPLIT", "DELETE_NODE", "SWAP_NODE", "CREATE_PANE", "RESTORE_PANE", "NEXT_PANE"}
    Typeahead = TRUE
    SpawnMayFail = TRUE
    ProgramsExit = FALSE
    MaxRef = 2
SYMMETRY NodeSymmetry
CHECK_DEADLOCK FALSE
INVARIANTS TreeLinks PaneOwnsNodes NoDangling
