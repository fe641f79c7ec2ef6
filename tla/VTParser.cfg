SPECIFICATION MCSpec
CONSTANTS
    Input = {7, 24, 27, 32, 49, 57, 58, 59, 63, 88, 91, 93, 109}
    MAXPARAM = 3
    MAXOSC = 2
    Spare = 1
    ArgMax = 10
    TextMax = 7
CHECK_DEADLOCK FALSE
INVARIANTS WritesBounded CallFitsText GroundOutside
