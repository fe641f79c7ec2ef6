SPECIFICATION Spec
CONSTANTS
    SCROLLBACK = 3
    Heights = {0, 1, 2, 3}
    Widths = {2}
    TabStop = 8
    Counts <- ScreenCounts
    Places <- ScreenPlaces
    Modes <- ScreenModes
    Renditions <- None
    COLOR_MAX = 8
    MaxPairs = 2
    Handlers = {"cup", "vpa", "vpr", "cpl", "cnl", "ind", "ri", "idl", "csr", "ed", "print", "mode", "ris"}
CHECK_DEADLOCK FALSE
INVARIANTS ReportReturns
PROPERTY CursorStaysOnScreen LinesStay PrimaryKept AlternateBlank TopLineStays
