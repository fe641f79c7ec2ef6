\* Four views in two panes on four sizes of terminal.
SPECIFICATION Spec
CONSTANTS
    v1 = v1
    v2 = v2
    v3 = v3
    v4 = v4
    View <- MCViews
    PANE_MAX = 2
    Sizes <- MCSizes
    NULL = NULL
SYMMETRY MCSymmetry
INVARIANTS RectsFresh Partition MoveLandsBeside ClickHits LabelsOwn
PROPERTIES SplitKeepsTiling
