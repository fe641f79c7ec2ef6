\* Six views in two panes, saved and restored.
SPECIFICATION Spec
CONSTANTS
    v1 = v1
    v2 = v2
    v3 = v3
    v4 = v4
    v5 = v5
    v6 = v6
    View <- MCViews
    PANE_MAX = 2
    NULL = NULL
    TPATH = 10
    NoPane = NoPane
SYMMETRY MCSymmetry
INVARIANTS FileReadsBack TablesAreTrees PlanRebuilds RestoresFile
CHECK_DEADLOCK FALSE
