\* Documents of up to four lines.
SPECIFICATION Spec
CONSTANTS
    a = a
    b = b
    Lines <- MCLines
    MaxLines = 4
    TPATH = 3
INVARIANTS AcceptsWellformed DefinedOnce ReadsBack
CHECK_DEADLOCK FALSE
