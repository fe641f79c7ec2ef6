SPECIFICATION Spec
CONSTANTS
    SCROLLBACK = 2
    Heights = {2}
    Widths = {3}
    TabStop = 8
    Counts <- LineCounts
    Places <- LinePlaces
    Modes <- LineModes
    Renditions <- LineColours
    COLOR_MAX = 8
    MaxPairs = 3
    Handlers = {"cuu", "cud", "su", "cuf", "cub", "hpr", "cr", "tab", "hts", "tbc", "nel", "pnl", "hpa", "el", "ich", "dch", "ech", "decaln", "print", "rep", "sc", "rc", "mode", "sgr"}
CHECK_DEADLOCK FALSE
INVARIANTS ColoursShown
PROPERTY LineFills
