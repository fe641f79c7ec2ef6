SPECIFICATION MCSpec
CONSTANTS
    NoLine = NoLine
    Char <- MCChar
    AtExits <- MCAtExits
    Completions <- MCCompletions
    Serials <- MCSerials
    Sizes = {1}
    LineMax = 2
CHECK_DEADLOCK FALSE
INVARIANTS InBounds ShownUnlessAstray EntryIsLine
PROPERTY ImplementsEditor
