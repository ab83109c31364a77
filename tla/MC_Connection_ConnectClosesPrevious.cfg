\* Violation run: ConnectClosesPrevious
CONSTANTS
    d1 = d1
    d2 = d2
    s1 = s1
    s2 = s2
    h1 = h1
    h2 = h2
    h3 = h3
    NULL = NULL
    Garbage = Garbage
    Databases <- MCDatabases
    Statements <- MCStatements
    Selecters <- MCSelecters
    Handles <- MCHandles
SYMMETRY MCSymmetry
SPECIFICATION Spec
PROPERTY ConnectClosesPrevious
CHECK_DEADLOCK FALSE
