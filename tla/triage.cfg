SPECIFICATION Spec
CONSTANTS
    Paths <- MCPaths
    Names <- MCNames
    interpreterBinaries <- MCInterpreters
    suspiciousDirs <- MCDirs
    Chmod <- MCChmod
    TaskCommLen = 3
INVARIANTS
    ReexecNotFlagged
    DroppedIsNamesake
    HiddenFound
